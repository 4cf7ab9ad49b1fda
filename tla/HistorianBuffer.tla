--------------------------- MODULE HistorianBuffer ---------------------------
(***************************************************************************)
(* The in-memory buffer of history samples: class HistorianBuffer of       *)
(* scada_historian (historian_buffer.h, historian_buffer.cpp).             *)
(*                                                                         *)
(* The buffer is a bounded queue between whoever archives tag values and   *)
(* whoever writes batches to storage.  It is a plain object without locks: *)
(* every public member function is one action.  push_many is a loop over   *)
(* push, and stays a loop here (PushMany loads `input', PushNext runs one  *)
(* iteration) so that a batch that overruns the capacity half way is       *)
(* treated element by element, as in the code.                             *)
(*                                                                         *)
(* A sample is the number of its push attempt (so that order and identity  *)
(* can be told apart) with the one attribute push_internal looks at: does  *)
(* it have a tag id.  Three variables are history only: `log', all the     *)
(* samples ever accepted; `delivered', all the samples drains returned;    *)
(* and `cleared', how many samples clear() threw away, which no counter of *)
(* the class records.                                                      *)
(***************************************************************************)
EXTENDS Integers, Sequences

CONSTANTS
  OptionChoices,  \* HistorianBufferOptions a buffer may be constructed with
  BatchSizes,     \* sizes of the vectors given to push_many
  MaxOffered      \* bound: push attempts in one behaviour

Options ==
  [max_samples : Nat, flush_threshold : Nat, drop_oldest_when_full : BOOLEAN]

ASSUME OptionAssumption == OptionChoices \subseteq Options
ASSUME BoundAssumption == BatchSizes \subseteq Nat /\ MaxOffered \in Nat

VARIABLES
  options_,         \* the options after normalize_options
  samples_,         \* std::deque<HistorySample>
  accepted_count_, rejected_count_, dropped_count_, drained_count_,
  input,            \* the part of push_many's argument not yet pushed
  offered,          \* number of push attempts, which names the next sample
  log,              \* history: every sample accepted, in order
  delivered,        \* history: every sample a drain has returned, in order
  cleared           \* history: number of samples discarded by clear()

counters == <<accepted_count_, rejected_count_, dropped_count_, drained_count_>>
history == <<log, delivered, cleared>>
vars == <<options_, samples_, counters, input, offered, history>>

Sample == [n : Nat, has_tag_id : BOOLEAN]

-----------------------------------------------------------------------------
(* Construction *)

AtLeastOne(k) == IF k = 0 THEN 1 ELSE k

(* normalize_options: a zero capacity or threshold becomes 1 and the       *)
(* threshold never exceeds the capacity.                                   *)

Threshold_BelowCapacity(o) ==
  IF AtLeastOne(o.flush_threshold) > o.max_samples
  THEN o.max_samples - 1 ELSE AtLeastOne(o.flush_threshold)

Threshold(o) ==
  IF AtLeastOne(o.flush_threshold) > AtLeastOne(o.max_samples)
  THEN AtLeastOne(o.max_samples) ELSE AtLeastOne(o.flush_threshold)

NormalizeOptions(o) ==
  [max_samples |-> AtLeastOne(o.max_samples),
   flush_threshold |-> Threshold(o),
   drop_oldest_when_full |-> o.drop_oldest_when_full]

Init ==
  /\ \E o \in OptionChoices : options_ = NormalizeOptions(o)
  /\ samples_ = <<>>
  /\ accepted_count_ = 0 /\ rejected_count_ = 0
  /\ dropped_count_ = 0 /\ drained_count_ = 0
  /\ input = <<>>
  /\ offered = 0
  /\ log = <<>>
  /\ delivered = <<>>
  /\ cleared = 0

-----------------------------------------------------------------------------
(* Observers *)

IsFull == Len(samples_) >= options_.max_samples
ShouldFlush == Len(samples_) >= options_.flush_threshold

-----------------------------------------------------------------------------
(* push_internal, the body of both push overloads *)

Refused(sample) ==
  \/ ~sample.has_tag_id
  \/ IsFull /\ ~options_.drop_oldest_when_full

Reject ==
  /\ rejected_count_' = rejected_count_ + 1
  /\ UNCHANGED <<samples_, accepted_count_, dropped_count_, log>>

Room_DropNewest == IF IsFull THEN SubSeq(samples_, 1, Len(samples_) - 1) ELSE samples_

(* What stays in the deque when a sample is accepted: all, or all but the  *)
(* oldest when it is full.                                                 *)
Room == IF IsFull THEN Tail(samples_) ELSE samples_

Accept_DropUncounted(sample) ==
  /\ samples_' = Append(Room, sample)
  /\ accepted_count_' = accepted_count_ + 1
  /\ log' = Append(log, sample)
  /\ UNCHANGED <<rejected_count_, dropped_count_>>

Accept(sample) ==
  /\ samples_' = Append(Room, sample)
  /\ dropped_count_' = IF IsFull THEN dropped_count_ + 1 ELSE dropped_count_
  /\ accepted_count_' = accepted_count_ + 1
  /\ log' = Append(log, sample)
  /\ UNCHANGED rejected_count_

PushInternal(sample) ==
  /\ \/ Refused(sample) /\ Reject
     \/ ~Refused(sample) /\ Accept(sample)
  /\ UNCHANGED <<options_, drained_count_, delivered, cleared>>

-----------------------------------------------------------------------------
(* The public operations *)

Idle == input = <<>>

Push(has_tag_id) ==
  /\ Idle /\ offered < MaxOffered
  /\ PushInternal([n |-> offered + 1, has_tag_id |-> has_tag_id])
  /\ offered' = offered + 1
  /\ UNCHANGED input

(* push_many receives a whole vector; its elements are numbered as offered. *)
PushMany(batch) ==
  /\ Idle /\ offered + Len(batch) <= MaxOffered
  /\ input' = [i \in 1..Len(batch) |-> [n |-> offered + i, has_tag_id |-> batch[i]]]
  /\ offered' = offered + Len(batch)
  /\ UNCHANGED <<options_, samples_, counters, history>>

(* One iteration of push_many's loop. *)
PushNext ==
  /\ input # <<>>
  /\ PushInternal(Head(input))
  /\ input' = Tail(input)
  /\ UNCHANGED offered

Lesser(a, b) == IF a < b THEN a ELSE b

DrainUpTo_KeepsSamples(max_samples) ==
  LET count == Lesser(max_samples, Len(samples_))
  IN  /\ Idle
      /\ delivered' = delivered \o SubSeq(samples_, 1, count)
      /\ drained_count_' = drained_count_ + count
      /\ UNCHANGED <<options_, samples_, accepted_count_, rejected_count_,
                     dropped_count_, input, offered, log, cleared>>

(* drain_up_to(max_samples) moves samples from the front of the deque into *)
(* the batch it returns.                                                   *)
DrainUpTo(max_samples) ==
  LET count == Lesser(max_samples, Len(samples_))
  IN  /\ Idle
      /\ delivered' = delivered \o SubSeq(samples_, 1, count)
      /\ samples_' = SubSeq(samples_, count + 1, Len(samples_))
      /\ drained_count_' = drained_count_ + count
      /\ UNCHANGED <<options_, accepted_count_, rejected_count_, dropped_count_,
                     input, offered, log, cleared>>

Drain == DrainUpTo(Len(samples_))

Clear ==
  /\ Idle
  /\ samples_' = <<>>
  /\ cleared' = cleared + Len(samples_)
  /\ UNCHANGED <<options_, counters, input, offered, log, delivered>>

Next ==
  \/ \E b \in BOOLEAN : Push(b)
  \/ \E k \in BatchSizes : \E batch \in [1..k -> BOOLEAN] : PushMany(batch)
  \/ PushNext
  \/ \E m \in 0..MaxOffered : DrainUpTo(m)
  \/ Drain
  \/ Clear

Spec == Init /\ [][Next]_vars

-----------------------------------------------------------------------------
(* Properties *)

(* The constructor left the options in the range the operations rely on.   *)
OptionsNormal ==
  /\ options_ \in Options
  /\ options_.max_samples > 0
  /\ options_.flush_threshold \in 1..options_.max_samples

TypeOK ==
  /\ OptionsNormal
  /\ samples_ \in Seq(Sample)
  /\ accepted_count_ \in Nat /\ rejected_count_ \in Nat
  /\ dropped_count_ \in Nat /\ drained_count_ \in Nat
  /\ input \in Seq(Sample)
  /\ offered \in Nat
  /\ log \in Seq(Sample)
  /\ delivered \in Seq(Sample)
  /\ cleared \in Nat

(* The deque never outgrows the configured capacity, whatever options the  *)
(* buffer was constructed with and in the middle of push_many as well.     *)
CapacityRespected == Len(samples_) <= options_.max_samples

(* A buffer that is about to reject or drop samples says so: whenever      *)
(* stats() reports `full' it also reports `flush_recommended'.  This is    *)
(* what normalize_options is for.                                          *)
FullImpliesFlush == IsFull => ShouldFlush

(* The counters account for every sample: each push attempt was either     *)
(* accepted or rejected, and each accepted sample is in the deque, was     *)
(* drained, was dropped to make room, or was discarded by clear().  The    *)
(* last term is not in stats(): after a clear() the published counters no  *)
(* longer add up by exactly that amount.                                   *)
Accounting ==
  /\ offered = accepted_count_ + rejected_count_ + Len(input)
  /\ accepted_count_ = drained_count_ + dropped_count_ + cleared + Len(samples_)
  /\ accepted_count_ = Len(log) /\ drained_count_ = Len(delivered)

(* No hole: the deque is always the newest end of the accepted stream, so  *)
(* a sample that was accepted after a retained one is itself retained.     *)
QueueIsSuffix ==
  /\ Len(samples_) <= Len(log)
  /\ samples_ = SubSeq(log, Len(log) - Len(samples_) + 1, Len(log))

(* With drop_oldest_when_full off the buffer is lossless: unless someone   *)
(* calls clear(), what was drained followed by what is queued is exactly   *)
(* the accepted stream.  Overload then shows as rejections, at the push.   *)
LosslessWithoutDrop ==
  ~options_.drop_oldest_when_full /\ cleared = 0 => delivered \o samples_ = log

(* The buffer implements the window on an append-only log.                 *)
Stream == INSTANCE HistoryStream WITH Samples <- Sample,
            head <- Len(log) - Len(samples_)
ImplementsStream == Stream!StreamSpec
=============================================================================
