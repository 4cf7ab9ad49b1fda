---------------------------- MODULE HistoryStream ----------------------------
(***************************************************************************)
(* What a consumer of the historian buffer may rely on, without saying how *)
(* the buffer keeps its samples.  The accepted samples form an append-only *)
(* log; the buffer is a window on the end of that log.  The window's left  *)
(* edge, `head', only moves to the right: a delivery hands out what the    *)
(* edge passes over, a loss passes over it without handing it out, and no  *)
(* sample to the right of the edge is ever missing from the window.        *)
(* HistorianBuffer implements this specification.                          *)
(***************************************************************************)
EXTENDS Naturals, Sequences

CONSTANT Samples
VARIABLES log,        \* every sample ever accepted, oldest first
          head,       \* how many of them have left the window
          delivered   \* the samples handed out, in order

streamVars == <<log, head, delivered>>

StreamInit == log = <<>> /\ head = 0 /\ delivered = <<>>

(* A sample is accepted; making room for it may cost the oldest one.       *)
Accept ==
  /\ Len(log') = Len(log) + 1
  /\ LET s == log'[Len(log')] IN s \in Samples /\ log' = Append(log, s)
  /\ head' \in {head, head + 1}
  /\ head' < Len(log')
  /\ UNCHANGED delivered

(* The oldest samples of the window are handed out, none skipped.          *)
Deliver ==
  \E k \in 0..(Len(log) - head) :
    /\ head' = head + k
    /\ delivered' = delivered \o SubSeq(log, head + 1, head + k)
    /\ UNCHANGED log

(* The whole window is thrown away. *)
Discard == head' = Len(log) /\ UNCHANGED <<log, delivered>>

StreamNext == Accept \/ Deliver \/ Discard

StreamSpec == StreamInit /\ [][StreamNext]_streamVars
=============================================================================
