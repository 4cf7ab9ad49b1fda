--------------------------- MODULE HistorianProofs ---------------------------
(***************************************************************************)
(* Proofs about the historian: HistorianBuffer, for every set of           *)
(* construction options, every batch size and every number of push         *)
(* attempts, and ArchiveHistory, for every policy and option, every set of *)
(* values, qualities and times and every number of values offered.         *)
(***************************************************************************)
EXTENDS HistorianBuffer, ArchiveHistory, TLAPS

-----------------------------------------------------------------------------
(* Facts about sequences. *)

(* Appending keeps the type, the prefix and grows the length by one. *)
LEMMA AppendFacts ==
  ASSUME NEW S, NEW s \in Seq(S), NEW e \in S
  PROVE  /\ Append(s, e) \in Seq(S)
         /\ Len(Append(s, e)) = Len(s) + 1
         /\ Append(s, e)[Len(s) + 1] = e
         /\ \A i \in 1..Len(s) : Append(s, e)[i] = s[i]
  OBVIOUS

(* A contiguous part of a sequence, bounds inside the sequence. *)
LEMMA SubSeqFacts ==
  ASSUME NEW S, NEW s \in Seq(S), NEW m \in Int, NEW n \in Int,
         1 <= m, m <= n + 1, n <= Len(s)
  PROVE  /\ SubSeq(s, m, n) \in Seq(S)
         /\ Len(SubSeq(s, m, n)) = n - m + 1
         /\ \A i \in 1..(n - m + 1) : SubSeq(s, m, n)[i] = s[m + i - 1]
  OBVIOUS

(* Without its first element. *)
LEMMA TailFacts ==
  ASSUME NEW S, NEW s \in Seq(S), Len(s) >= 1
  PROVE  /\ Tail(s) = SubSeq(s, 1 + 1, Len(s))
         /\ Tail(s) \in Seq(S)
         /\ Len(Tail(s)) = Len(s) - 1
  OBVIOUS

(* Concatenation. *)
LEMMA ConcatFacts ==
  ASSUME NEW S, NEW s \in Seq(S), NEW t \in Seq(S)
  PROVE  /\ s \o t \in Seq(S)
         /\ Len(s \o t) = Len(s) + Len(t)
         /\ \A i \in 1..Len(s) : (s \o t)[i] = s[i]
         /\ \A i \in 1..Len(t) : (s \o t)[Len(s) + i] = t[i]
  OBVIOUS

(* Two sequences are equal when they agree in length and at every index. *)
LEMMA SeqEqual ==
  ASSUME NEW S, NEW s \in Seq(S), NEW t \in Seq(S), Len(s) = Len(t),
         \A i \in 1..Len(s) : s[i] = t[i]
  PROVE  s = t
  OBVIOUS

-----------------------------------------------------------------------------
(* q is the end of g, stated index by index, as the provers can use it.    *)

SuffixOf(q, g) ==
  /\ Len(q) <= Len(g)
  /\ \A i \in 1..Len(q) : q[i] = g[Len(g) - Len(q) + i]

LEMMA SuffixIsSubSeq ==
  ASSUME NEW S, NEW q \in Seq(S), NEW g \in Seq(S)
  PROVE  SuffixOf(q, g)
         <=> Len(q) <= Len(g) /\ q = SubSeq(g, Len(g) - Len(q) + 1, Len(g))
<1>1. ASSUME Len(q) <= Len(g)
      PROVE  /\ SubSeq(g, Len(g) - Len(q) + 1, Len(g)) \in Seq(S)
             /\ Len(SubSeq(g, Len(g) - Len(q) + 1, Len(g))) = Len(q)
             /\ \A i \in 1..Len(q) :
                  SubSeq(g, Len(g) - Len(q) + 1, Len(g))[i] = g[Len(g) - Len(q) + i]
  BY <1>1, SubSeqFacts
<1>2. ASSUME SuffixOf(q, g)
      PROVE  Len(q) <= Len(g) /\ q = SubSeq(g, Len(g) - Len(q) + 1, Len(g))
  BY <1>1, <1>2, SeqEqual DEF SuffixOf
<1>3. ASSUME Len(q) <= Len(g), q = SubSeq(g, Len(g) - Len(q) + 1, Len(g))
      PROVE  SuffixOf(q, g)
  BY <1>1, <1>3 DEF SuffixOf
<1>4. QED
  BY <1>2, <1>3

(* Appending the same element to both keeps the relation. *)
LEMMA SuffixAppend ==
  ASSUME NEW S, NEW q \in Seq(S), NEW g \in Seq(S), NEW e \in S, SuffixOf(q, g)
  PROVE  SuffixOf(Append(q, e), Append(g, e))
<1> DEFINE qe == Append(q, e)
           ge == Append(g, e)
<1>1. /\ Len(qe) = Len(q) + 1 /\ qe[Len(q) + 1] = e
      /\ \A i \in 1..Len(q) : qe[i] = q[i]
  BY AppendFacts
<1>2. /\ Len(ge) = Len(g) + 1 /\ ge[Len(g) + 1] = e
      /\ \A i \in 1..Len(g) : ge[i] = g[i]
  BY AppendFacts
<1> HIDE DEF qe, ge
<1>3. ASSUME NEW i \in 1..Len(qe) PROVE qe[i] = ge[Len(ge) - Len(qe) + i]
  <2>1. CASE i = Len(q) + 1
    BY <1>1, <1>2, <2>1
  <2>2. CASE i \in 1..Len(q)
    <3>1. Len(g) - Len(q) + i \in 1..Len(g)
      BY <2>2 DEF SuffixOf
    <3>2. q[i] = g[Len(g) - Len(q) + i]
      BY <2>2 DEF SuffixOf
    <3>3. Len(ge) - Len(qe) + i = Len(g) - Len(q) + i
      BY <1>1, <1>2
    <3>4. QED
      BY <1>1, <1>2, <2>2, <3>1, <3>2, <3>3
  <2>3. QED
    BY <1>1, <2>1, <2>2
<1>4. Len(qe) <= Len(ge)
  BY <1>1, <1>2 DEF SuffixOf
<1>5. SuffixOf(qe, ge)
  BY <1>3, <1>4 DEF SuffixOf
<1>6. QED
  BY <1>5 DEF qe, ge

(* Losing elements at the front keeps it too. *)
LEMMA SuffixDrop ==
  ASSUME NEW S, NEW q \in Seq(S), NEW g \in Seq(S), NEW k \in 0..Len(q), SuffixOf(q, g)
  PROVE  SuffixOf(SubSeq(q, k + 1, Len(q)), g)
<1> DEFINE r == SubSeq(q, k + 1, Len(q))
<1>1. Len(r) = Len(q) - k /\ \A i \in 1..(Len(q) - k) : r[i] = q[k + i]
  BY SubSeqFacts
<1> HIDE DEF r
<1>2. ASSUME NEW i \in 1..Len(r) PROVE r[i] = g[Len(g) - Len(r) + i]
  <2>1. r[i] = q[k + i] /\ k + i \in 1..Len(q)
    BY <1>1
  <2>2. q[k + i] = g[Len(g) - Len(q) + (k + i)]
    BY <2>1 DEF SuffixOf
  <2>3. Len(g) - Len(q) + (k + i) = Len(g) - Len(r) + i
    BY <1>1
  <2>4. QED
    BY <2>1, <2>2, <2>3
<1>3. SuffixOf(r, g)
  BY <1>1, <1>2 DEF SuffixOf
<1>4. QED
  BY <1>3 DEF r

(* Concatenation and Append commute. *)
LEMMA ConcatAppend ==
  ASSUME NEW S, NEW s \in Seq(S), NEW t \in Seq(S), NEW e \in S
  PROVE  s \o Append(t, e) = Append(s \o t, e)
  OBVIOUS

(* Concatenation is associative. *)
LEMMA ConcatAssociative ==
  ASSUME NEW S, NEW s \in Seq(S), NEW t \in Seq(S), NEW u \in Seq(S)
  PROVE  (s \o t) \o u = s \o (t \o u)
<1> DEFINE l == (s \o t) \o u
           r == s \o (t \o u)
<1>0. Len(s) \in Nat /\ Len(t) \in Nat /\ Len(u) \in Nat
  OBVIOUS
<1>1. /\ l \in Seq(S) /\ Len(l) = Len(s) + Len(t) + Len(u)
      /\ r \in Seq(S) /\ Len(r) = Len(s) + Len(t) + Len(u)
  BY ConcatFacts
<1>2. ASSUME NEW i \in 1..Len(l) PROVE l[i] = r[i]
  <2>1. CASE i \in 1..Len(s)
    <3>1. l[i] = s[i]
      BY <2>1, ConcatFacts
    <3>2. r[i] = s[i]
      BY <2>1, ConcatFacts
    <3>3. QED
      BY <3>1, <3>2
  <2>2. CASE i > Len(s) /\ i <= Len(s) + Len(t)
    <3> DEFINE j == i - Len(s)
    <3>1. j \in 1..Len(t) /\ i = Len(s) + j
      BY <1>0, <1>1, <2>2
    <3>2. l[i] = t[j]
      BY <3>1, ConcatFacts
    <3>3. (t \o u)[j] = t[j] /\ j \in 1..Len(t \o u)
      BY <3>1, ConcatFacts
    <3>4. r[i] = (t \o u)[j]
      BY <3>1, <3>3, ConcatFacts
    <3>5. QED
      BY <3>2, <3>3, <3>4
  <2>3. CASE i > Len(s) + Len(t)
    <3> DEFINE j == i - (Len(s) + Len(t))
    <3>1. j \in 1..Len(u) /\ i = Len(s) + Len(t) + j
      BY <1>0, <1>1, <2>3
    <3>2. l[i] = u[j]
      <4>0. s \o t \in Seq(S)
        BY ConcatFacts
      <4>1. l[Len(s \o t) + j] = u[j]
        BY <3>1, <4>0, ConcatFacts
      <4>2. Len(s \o t) + j = i
        BY <3>1, ConcatFacts
      <4>3. QED
        BY <4>1, <4>2
    <3>3. (t \o u)[Len(t) + j] = u[j] /\ Len(t) + j \in 1..Len(t \o u)
      BY <3>1, ConcatFacts
    <3>4. r[Len(s) + (Len(t) + j)] = (t \o u)[Len(t) + j]
      BY <3>3, ConcatFacts
    <3>5. QED
      BY <3>1, <3>2, <3>3, <3>4
  <2>4. QED
    BY <1>1, <2>1, <2>2, <2>3
<1>3. QED
  BY <1>1, <1>2, SeqEqual

(* Cutting a sequence in two and concatenating the parts gives it back. *)
LEMMA ConcatSplit ==
  ASSUME NEW S, NEW s \in Seq(S), NEW t \in Seq(S), NEW k \in 0..Len(t)
  PROVE  (s \o SubSeq(t, 1, k)) \o SubSeq(t, k + 1, Len(t)) = s \o t
<1> DEFINE u == SubSeq(t, 1, k)
           v == SubSeq(t, k + 1, Len(t))
<1>1. u \in Seq(S) /\ Len(u) = k /\ \A i \in 1..k : u[i] = t[i]
  BY SubSeqFacts
<1>2. v \in Seq(S) /\ Len(v) = Len(t) - k /\ \A i \in 1..(Len(t) - k) : v[i] = t[k + i]
  BY SubSeqFacts
<1> HIDE DEF u, v
<1>0. Len(t) \in Nat /\ k \in Nat /\ k <= Len(t)
  OBVIOUS
<1>3. u \o v \in Seq(S) /\ Len(u \o v) = Len(t)
  <2>1. u \o v \in Seq(S) /\ Len(u \o v) = Len(u) + Len(v)
    BY <1>1, <1>2, ConcatFacts
  <2>2. QED
    BY <1>0, <1>1, <1>2, <2>1
<1>4. ASSUME NEW i \in 1..Len(t) PROVE (u \o v)[i] = t[i]
  <2>1. CASE i <= k
    <3>1. (u \o v)[i] = u[i]
      BY <1>1, <1>2, <2>1, ConcatFacts
    <3>2. QED
      BY <1>1, <2>1, <3>1
  <2>2. CASE i > k
    <3>1. i - k \in 1..Len(v)
      BY <1>2, <2>2
    <3>2. (u \o v)[Len(u) + (i - k)] = v[i - k]
      BY <1>1, <1>2, <3>1, ConcatFacts
    <3>3. Len(u) + (i - k) = i /\ v[i - k] = t[k + (i - k)] /\ k + (i - k) = i
      BY <1>1, <1>2, <3>1
    <3>4. QED
      BY <3>2, <3>3
  <2>3. i <= k \/ i > k
    BY <1>0
  <2>4. QED
    BY <2>1, <2>2, <2>3
<1>5. u \o v = t
  BY <1>3, <1>4, SeqEqual
<1>6. (s \o u) \o v = s \o (u \o v)
  BY <1>1, <1>2, ConcatAssociative
<1>7. QED
  BY <1>5, <1>6 DEF u, v

-----------------------------------------------------------------------------

USE OptionAssumption, BoundAssumption

-----------------------------------------------------------------------------
(* Every variable keeps its type, and the options stay normalised. *)
THEOREM TypeCorrect == Spec => []TypeOK
<1>1. Init => TypeOK
  BY DEF Init, TypeOK, OptionsNormal, NormalizeOptions, Threshold, AtLeastOne, Options, Sample
<1>2. TypeOK /\ [Next]_vars => TypeOK'
  <2> SUFFICES ASSUME TypeOK, [Next]_vars PROVE TypeOK'
    OBVIOUS
  <2> USE DEF TypeOK, OptionsNormal
  <2>0. ASSUME NEW s \in Sample, PushInternal(s)
        PROVE  /\ samples_' \in Seq(Sample) /\ log' \in Seq(Sample)
               /\ accepted_count_' \in Nat /\ rejected_count_' \in Nat
               /\ dropped_count_' \in Nat /\ drained_count_' \in Nat
               /\ UNCHANGED <<options_, delivered, cleared>>
    <3>1. Room \in Seq(Sample)
      BY DEF Room, IsFull, Options
    <3>2. Append(Room, s) \in Seq(Sample) /\ Append(log, s) \in Seq(Sample)
      BY <3>1, AppendFacts
    <3>3. CASE Refused(s)
      BY <2>0, <3>3 DEF PushInternal, Reject
    <3>4. CASE ~Refused(s)
      <4>1. Accept(s) /\ UNCHANGED <<options_, drained_count_, delivered, cleared>>
        BY <2>0, <3>4 DEF PushInternal
      <4>2. samples_' \in Seq(Sample) /\ log' \in Seq(Sample)
        BY <4>1, <3>2 DEF Accept
      <4>3. accepted_count_' \in Nat /\ rejected_count_' \in Nat /\ dropped_count_' \in Nat
        BY <4>1 DEF Accept
      <4>4. QED
        BY <4>1, <4>2, <4>3
    <3>5. QED
      BY <3>3, <3>4
  <2>1. ASSUME NEW b \in BOOLEAN, Push(b) PROVE TypeOK'
    <3> DEFINE s == [n |-> offered + 1, has_tag_id |-> b]
    <3>1. s \in Sample
      BY DEF Sample
    <3>2. PushInternal(s) /\ offered' = offered + 1 /\ UNCHANGED input
      BY <2>1 DEF Push
    <3> HIDE DEF s
    <3>3. QED
      BY <2>0, <3>1, <3>2
  <2>2. ASSUME NEW k \in BatchSizes, NEW batch \in [1..k -> BOOLEAN], PushMany(batch)
        PROVE TypeOK'
    <3>1. batch \in Seq(BOOLEAN) /\ Len(batch) = k
      OBVIOUS
    <3>2. input' \in Seq(Sample)
      BY <2>2, <3>1 DEF PushMany, Sample
    <3>3. QED
      BY <2>2, <3>1, <3>2 DEF PushMany, counters, history
  <2>3. CASE PushNext
    BY <2>3, <2>0 DEF PushNext
  <2>4. ASSUME NEW m \in Nat, DrainUpTo(m) PROVE TypeOK'
    <3> DEFINE count == Lesser(m, Len(samples_))
    <3>1. count \in Nat /\ count <= Len(samples_)
      BY DEF Lesser
    <3>2. SubSeq(samples_, 1, count) \in Seq(Sample)
      BY <3>1, SubSeqFacts
    <3>3. SubSeq(samples_, count + 1, Len(samples_)) \in Seq(Sample)
      BY <3>1, SubSeqFacts
    <3>4. delivered \o SubSeq(samples_, 1, count) \in Seq(Sample)
      BY <3>2, ConcatFacts
    <3>5. drained_count_ + count \in Nat
      BY <3>1
    <3>6. /\ samples_' \in Seq(Sample) /\ delivered' \in Seq(Sample)
          /\ drained_count_' \in Nat
          /\ UNCHANGED <<options_, accepted_count_, rejected_count_, dropped_count_,
                         input, offered, log, cleared>>
      BY <2>4, <3>3, <3>4, <3>5 DEF DrainUpTo
    <3>7. QED
      BY <3>6
  <2>5. CASE Drain
    BY <2>5, <2>4 DEF Drain
  <2>6. CASE Clear
    BY <2>6 DEF Clear, counters
  <2>7. CASE UNCHANGED vars
    BY <2>7 DEF vars, counters, history
  <2>8. QED
    BY <2>1, <2>2, <2>3, <2>4, <2>5, <2>6, <2>7 DEF Next
<1>3. QED
  BY <1>1, <1>2, PTL DEF Spec

-----------------------------------------------------------------------------
(* Safety.  The inductive invariant is the conjunction of the properties   *)
(* that talk about the same state: capacity, the deque as a suffix of the  *)
(* accepted log, the counters, and losslessness.  None of them is          *)
(* inductive alone: a full deque drops exactly one sample only because it  *)
(* is never over its capacity, and the counters equal the lengths they     *)
(* stand for only because the deque is part of the log.                    *)

IInv ==
  /\ CapacityRespected
  /\ Accounting
  /\ QueueIsSuffix
  /\ LosslessWithoutDrop

(* QueueIsSuffix as the index-by-index relation. *)
LEMMA QueueSuffix ==
  ASSUME TypeOK
  PROVE  QueueIsSuffix <=> SuffixOf(samples_, log)
BY SuffixIsSubSeq DEF TypeOK, QueueIsSuffix

(* The room made for an accepted sample: still a suffix, below capacity,   *)
(* and one shorter exactly when the buffer was full.                       *)
LEMMA RoomFacts ==
  ASSUME TypeOK, IInv
  PROVE  /\ Room \in Seq(Sample)
         /\ SuffixOf(Room, log)
         /\ Len(Room) < options_.max_samples
         /\ IsFull => Len(Room) = Len(samples_) - 1
         /\ ~IsFull => Room = samples_
<1>1. /\ options_.max_samples \in Nat /\ options_.max_samples > 0
      /\ samples_ \in Seq(Sample) /\ log \in Seq(Sample)
  BY DEF TypeOK, OptionsNormal, Options
<1>2. SuffixOf(samples_, log)
  BY QueueSuffix DEF IInv
<1>3. Len(samples_) <= options_.max_samples
  BY DEF IInv, CapacityRespected
<1>4. CASE IsFull
  <2>1. Len(samples_) \in Nat /\ Len(samples_) >= 1
    BY <1>1, <1>4 DEF IsFull
  <2>2. Room = Tail(samples_)
    BY <1>4 DEF Room
  <2>3. Room \in Seq(Sample) /\ Len(Room) = Len(samples_) - 1
    BY <1>1, <2>1, <2>2, TailFacts
  <2>4. SuffixOf(Room, log)
    <3>1. Room = SubSeq(samples_, 1 + 1, Len(samples_)) /\ 1 \in 0..Len(samples_)
      BY <1>1, <2>1, <2>2, TailFacts
    <3>2. QED
      BY <1>1, <1>2, <3>1, SuffixDrop
  <2>5. QED
    BY <1>1, <1>3, <1>4, <2>1, <2>3, <2>4
<1>5. CASE ~IsFull
  BY <1>1, <1>2, <1>5 DEF Room, IsFull
<1>6. QED
  BY <1>4, <1>5

(* One push attempt, accepted or rejected. *)
LEMMA PushInternalSafe ==
  ASSUME TypeOK, TypeOK', IInv, NEW s \in Sample, PushInternal(s)
  PROVE  /\ CapacityRespected' /\ QueueIsSuffix' /\ LosslessWithoutDrop'
         /\ \/ accepted_count_' = accepted_count_ + 1 /\ rejected_count_' = rejected_count_
            \/ accepted_count_' = accepted_count_ /\ rejected_count_' = rejected_count_ + 1
         /\ accepted_count_' = drained_count_' + dropped_count_' + cleared' + Len(samples_')
         /\ accepted_count_' = Len(log') /\ drained_count_' = Len(delivered')
<1>0. UNCHANGED <<options_, drained_count_, delivered, cleared>>
  BY DEF PushInternal
<1>1. CASE Refused(s)
  <2>1. Reject
    BY <1>1 DEF PushInternal
  <2>2. UNCHANGED <<samples_, accepted_count_, dropped_count_, log>>
    BY <2>1 DEF Reject
  <2>3. rejected_count_' = rejected_count_ + 1
    BY <2>1 DEF Reject
  <2>4. CapacityRespected' /\ QueueIsSuffix' /\ LosslessWithoutDrop'
    BY <1>0, <2>2 DEF IInv, CapacityRespected, QueueIsSuffix, LosslessWithoutDrop
  <2>5. \/ accepted_count_' = accepted_count_ + 1 /\ rejected_count_' = rejected_count_
        \/ accepted_count_' = accepted_count_ /\ rejected_count_' = rejected_count_ + 1
    BY <2>2, <2>3 DEF TypeOK
  <2>6. /\ accepted_count_ = drained_count_ + dropped_count_ + cleared + Len(samples_)
        /\ accepted_count_ = Len(log) /\ drained_count_ = Len(delivered)
    BY DEF IInv, Accounting
  <2>7. QED
    BY <1>0, <2>2, <2>4, <2>5, <2>6
<1>2. CASE ~Refused(s)
  <2>1. Accept(s)
    BY <1>2 DEF PushInternal
  <2>2. samples_' = Append(Room, s) /\ log' = Append(log, s)
    BY <2>1 DEF Accept
  <2>3. /\ accepted_count_' = accepted_count_ + 1 /\ rejected_count_' = rejected_count_
        /\ dropped_count_' = IF IsFull THEN dropped_count_ + 1 ELSE dropped_count_
    BY <2>1 DEF Accept
  <2>4. /\ Len(samples_') = Len(Room) + 1 /\ Len(log') = Len(log) + 1
    BY <2>2, RoomFacts, AppendFacts DEF TypeOK
  <2>5. CapacityRespected'
    BY <1>0, <2>4, RoomFacts DEF CapacityRespected, TypeOK, OptionsNormal, Options
  <2>6. QueueIsSuffix'
    <3>1. SuffixOf(samples_', log')
      BY <2>2, RoomFacts, SuffixAppend DEF TypeOK
    <3>2. QED
      BY <3>1, SuffixIsSubSeq DEF TypeOK, QueueIsSuffix
  <2>7. LosslessWithoutDrop'
    <3>1. ASSUME ~options_.drop_oldest_when_full, cleared = 0
          PROVE  delivered \o samples_' = log'
      <4>1. ~IsFull
        BY <1>2, <3>1 DEF Refused
      <4>2. samples_' = Append(samples_, s)
        BY <2>2, <4>1, RoomFacts
      <4>3. delivered \o samples_' = Append(delivered \o samples_, s)
        <5>1. delivered \in Seq(Sample) /\ samples_ \in Seq(Sample)
          BY DEF TypeOK
        <5>2. QED
          BY <4>2, <5>1, ConcatAppend
      <4>4. delivered \o samples_ = log
        BY <3>1 DEF IInv, LosslessWithoutDrop
      <4>5. QED
        BY <2>2, <4>3, <4>4
    <3>2. QED
      BY <1>0, <3>1 DEF LosslessWithoutDrop
  <2>8. dropped_count_' + Len(samples_') = dropped_count_ + Len(samples_) + 1
    <3>1. Len(samples_) \in Nat /\ dropped_count_ \in Nat
      BY DEF TypeOK
    <3>2. CASE IsFull
      BY <2>3, <2>4, <3>1, <3>2, RoomFacts
    <3>3. CASE ~IsFull
      BY <2>3, <2>4, <3>1, <3>3, RoomFacts
    <3>4. QED
      BY <3>2, <3>3
  <2>9. /\ \/ accepted_count_' = accepted_count_ + 1 /\ rejected_count_' = rejected_count_
           \/ accepted_count_' = accepted_count_ /\ rejected_count_' = rejected_count_ + 1
        /\ accepted_count_' = Len(log') /\ drained_count_' = Len(delivered')
    <3>1. \/ accepted_count_' = accepted_count_ + 1 /\ rejected_count_' = rejected_count_
          \/ accepted_count_' = accepted_count_ /\ rejected_count_' = rejected_count_ + 1
      BY <2>3 DEF TypeOK
    <3>2. accepted_count_ = Len(log) /\ drained_count_ = Len(delivered)
      BY DEF IInv, Accounting
    <3>3. QED
      BY <1>0, <2>3, <2>4, <3>1, <3>2
  <2>10. accepted_count_' = drained_count_' + dropped_count_' + cleared' + Len(samples_')
    <3>1. accepted_count_ = drained_count_ + dropped_count_ + cleared + Len(samples_)
      BY DEF IInv, Accounting
    <3>2. /\ accepted_count_ \in Nat /\ drained_count_ \in Nat /\ dropped_count_ \in Nat
          /\ cleared \in Nat /\ Len(samples_) \in Nat
          /\ dropped_count_' \in Nat /\ Len(samples_') \in Nat
      BY DEF TypeOK
    <3>3. QED
      BY <1>0, <2>3, <2>8, <3>1, <3>2
  <2>11. QED
    BY <2>5, <2>6, <2>7, <2>9, <2>10
<1>3. QED
  BY <1>1, <1>2

(* What a drain of up to m samples does to the variables. *)
LEMMA DrainFacts ==
  ASSUME TypeOK, IInv, NEW m \in Nat, DrainUpTo(m),
         NEW count, count = Lesser(m, Len(samples_))
  PROVE  /\ count \in 0..Len(samples_)
         /\ samples_' = SubSeq(samples_, count + 1, Len(samples_))
         /\ samples_' \in Seq(Sample)
         /\ Len(samples_') = Len(samples_) - count
         /\ SubSeq(samples_, 1, count) \in Seq(Sample)
         /\ Len(SubSeq(samples_, 1, count)) = count
         /\ delivered' = delivered \o SubSeq(samples_, 1, count)
         /\ drained_count_' = drained_count_ + count
         /\ UNCHANGED <<options_, accepted_count_, rejected_count_, dropped_count_,
                        input, offered, log, cleared>>
<1>1. samples_ \in Seq(Sample) /\ Len(samples_) \in Nat
  BY DEF TypeOK
<1>2. count \in 0..Len(samples_)
  BY <1>1 DEF Lesser
<1>3. /\ SubSeq(samples_, count + 1, Len(samples_)) \in Seq(Sample)
      /\ Len(SubSeq(samples_, count + 1, Len(samples_))) = Len(samples_) - count
  BY <1>1, <1>2, SubSeqFacts
<1>4. /\ SubSeq(samples_, 1, count) \in Seq(Sample)
      /\ Len(SubSeq(samples_, 1, count)) = count
  BY <1>1, <1>2, SubSeqFacts
<1>5. /\ samples_' = SubSeq(samples_, count + 1, Len(samples_))
      /\ delivered' = delivered \o SubSeq(samples_, 1, count)
      /\ drained_count_' = drained_count_ + count
      /\ UNCHANGED <<options_, accepted_count_, rejected_count_, dropped_count_,
                     input, offered, log, cleared>>
  BY DEF DrainUpTo
<1>6. QED
  BY <1>2, <1>3, <1>4, <1>5

LEMMA DrainSafe ==
  ASSUME TypeOK, TypeOK', IInv, NEW m \in Nat, DrainUpTo(m)
  PROVE  IInv'
<1> DEFINE count == Lesser(m, Len(samples_))
<1>1. /\ count \in 0..Len(samples_)
      /\ samples_' = SubSeq(samples_, count + 1, Len(samples_))
      /\ Len(samples_') = Len(samples_) - count
      /\ SubSeq(samples_, 1, count) \in Seq(Sample)
      /\ Len(SubSeq(samples_, 1, count)) = count
      /\ delivered' = delivered \o SubSeq(samples_, 1, count)
      /\ drained_count_' = drained_count_ + count
      /\ UNCHANGED <<options_, accepted_count_, rejected_count_, dropped_count_,
                     input, offered, log, cleared>>
  BY DrainFacts
<1> HIDE DEF count
<1>2. /\ samples_ \in Seq(Sample) /\ log \in Seq(Sample) /\ delivered \in Seq(Sample)
      /\ accepted_count_ \in Nat /\ dropped_count_ \in Nat /\ drained_count_ \in Nat
      /\ cleared \in Nat /\ options_.max_samples \in Nat /\ Len(samples_) \in Nat
  BY DEF TypeOK, OptionsNormal, Options
<1>3. CapacityRespected'
  BY <1>1, <1>2 DEF IInv, CapacityRespected
<1>4. QueueIsSuffix'
  <2>1. SuffixOf(samples_', log)
    BY <1>1, <1>2, QueueSuffix, SuffixDrop DEF IInv
  <2>2. QED
    BY <1>1, <2>1, SuffixIsSubSeq DEF TypeOK, QueueIsSuffix
<1>5. delivered' \o samples_' = delivered \o samples_
  BY <1>1, <1>2, ConcatSplit
<1>6. LosslessWithoutDrop'
  BY <1>1, <1>5 DEF IInv, LosslessWithoutDrop
<1>7. Accounting'
  <2>1. Len(delivered') = Len(delivered) + count
    BY <1>1, <1>2, ConcatFacts
  <2>2. drained_count_' = Len(delivered')
    BY <1>1, <2>1 DEF IInv, Accounting
  <2>3. accepted_count_' = drained_count_' + dropped_count_' + cleared' + Len(samples_')
    <3>1. accepted_count_ = drained_count_ + dropped_count_ + cleared + Len(samples_)
      BY DEF IInv, Accounting
    <3>2. /\ count \in Nat /\ drained_count_ \in Nat /\ dropped_count_ \in Nat
          /\ cleared \in Nat /\ Len(samples_) \in Nat
      BY <1>1, <1>2
    <3>3. /\ drained_count_' = drained_count_ + count
          /\ Len(samples_') = Len(samples_) - count
          /\ accepted_count_' = accepted_count_ /\ dropped_count_' = dropped_count_
          /\ cleared' = cleared
      BY <1>1
    <3>4. QED
      BY <3>1, <3>2, <3>3
  <2>4. offered' = accepted_count_' + rejected_count_' + Len(input') /\ accepted_count_' = Len(log')
    BY <1>1 DEF IInv, Accounting
  <2>5. QED
    BY <2>2, <2>3, <2>4 DEF Accounting
<1>8. QED
  BY <1>3, <1>4, <1>6, <1>7 DEF IInv

(* Capacity, accounting, no hole and losslessness hold in every state, for *)
(* every choice of options, batch sizes and number of pushes.              *)
THEOREM Safety == Spec => []IInv
<1>1. Init => IInv
  <2> SUFFICES ASSUME Init PROVE IInv
    OBVIOUS
  <2>1. /\ samples_ = <<>> /\ log = <<>> /\ delivered = <<>> /\ input = <<>>
        /\ options_.max_samples \in Nat
    BY DEF Init, NormalizeOptions, AtLeastOne, Options
  <2>2. SubSeq(<< >>, 1, 0) = << >> /\ << >> \o << >> = << >>
    OBVIOUS
  <2>3. CapacityRespected /\ Accounting
    BY <2>1 DEF Init, CapacityRespected, Accounting
  <2>4. QueueIsSuffix /\ LosslessWithoutDrop
    BY <2>1, <2>2 DEF QueueIsSuffix, LosslessWithoutDrop
  <2>5. QED
    BY <2>3, <2>4 DEF IInv
<1>2. TypeOK /\ TypeOK' /\ IInv /\ [Next]_vars => IInv'
  <2> SUFFICES ASSUME TypeOK, TypeOK', IInv, [Next]_vars PROVE IInv'
    OBVIOUS
  <2>0. /\ offered \in Nat /\ accepted_count_ \in Nat /\ rejected_count_ \in Nat
        /\ accepted_count_' \in Nat /\ rejected_count_' \in Nat /\ Len(input) \in Nat
        /\ offered = accepted_count_ + rejected_count_ + Len(input)
    BY DEF TypeOK, IInv, Accounting
  <2>i. input \in Seq(Sample)
    BY DEF TypeOK
  <2>1. ASSUME NEW b \in BOOLEAN, Push(b) PROVE IInv'
    <3> DEFINE s == [n |-> offered + 1, has_tag_id |-> b]
    <3>1. s \in Sample
      BY <2>0 DEF Sample
    <3>2. PushInternal(s) /\ offered' = offered + 1 /\ UNCHANGED input
      BY <2>1 DEF Push
    <3> HIDE DEF s
    <3>3. offered' = accepted_count_' + rejected_count_' + Len(input')
      <4>1. \/ accepted_count_' = accepted_count_ + 1 /\ rejected_count_' = rejected_count_
            \/ accepted_count_' = accepted_count_ /\ rejected_count_' = rejected_count_ + 1
        BY <3>1, <3>2, PushInternalSafe
      <4>2. offered' = offered + 1 /\ Len(input') = Len(input)
        BY <3>2
      <4>3. /\ offered' \in Nat /\ Len(input') \in Int
        BY <2>0, <4>2
      <4>4. QED
        BY <2>0, <4>1, <4>2, <4>3
    <3>4. QED
      BY <3>1, <3>2, <3>3, PushInternalSafe DEF IInv, Accounting
  <2>2. ASSUME NEW k \in BatchSizes, NEW batch \in [1..k -> BOOLEAN], PushMany(batch)
        PROVE IInv'
    <3>1. batch \in Seq(BOOLEAN)
      OBVIOUS
    <3>2. Len(batch) \in Nat /\ Len(input') = Len(batch)
      BY <2>2, <3>1 DEF PushMany
    <3>3. offered' = offered + Len(batch) /\ Len(input) = 0
      BY <2>2 DEF PushMany, Idle
    <3>4. UNCHANGED <<options_, samples_, accepted_count_, rejected_count_,
                      dropped_count_, drained_count_, log, delivered, cleared>>
      BY <2>2 DEF PushMany, counters, history
    <3>5. offered' = accepted_count_' + rejected_count_' + Len(input')
      BY <2>0, <3>2, <3>3, <3>4
    <3>6. QED
      BY <3>4, <3>5
      DEF IInv, Accounting, CapacityRespected, QueueIsSuffix, LosslessWithoutDrop
  <2>3. CASE PushNext
    <3>1. input # <<>> /\ PushInternal(Head(input)) /\ input' = Tail(input) /\ UNCHANGED offered
      BY <2>3 DEF PushNext
    <3>2. Head(input) \in Sample /\ Len(input') = Len(input) - 1
      <4>1. Len(input) >= 1
        BY <2>i, <3>1
      <4>2. QED
        BY <2>i, <3>1, <4>1, TailFacts
    <3>3. offered' = accepted_count_' + rejected_count_' + Len(input')
      <4>1. \/ accepted_count_' = accepted_count_ + 1 /\ rejected_count_' = rejected_count_
            \/ accepted_count_' = accepted_count_ /\ rejected_count_' = rejected_count_ + 1
        BY <3>1, <3>2, PushInternalSafe
      <4>2. offered' = offered /\ Len(input') = Len(input) - 1
        BY <3>1, <3>2
      <4>3. /\ offered' \in Nat /\ Len(input') \in Int
        BY <2>0, <4>2
      <4>4. QED
        BY <2>0, <4>1, <4>2, <4>3
    <3>4. QED
      BY <3>1, <3>2, <3>3, PushInternalSafe DEF IInv, Accounting
  <2>4. ASSUME NEW m \in 0..MaxOffered, DrainUpTo(m) PROVE IInv'
    BY <2>4, DrainSafe
  <2>5. CASE Drain
    BY <2>5, DrainSafe DEF Drain, TypeOK
  <2>6. CASE Clear
    <3>1. /\ samples_' = <<>> /\ cleared' = cleared + Len(samples_)
          /\ UNCHANGED <<options_, accepted_count_, rejected_count_, dropped_count_,
                         drained_count_, input, offered, log, delivered>>
      BY <2>6 DEF Clear, counters
    <3>2. /\ samples_ \in Seq(Sample) /\ log \in Seq(Sample) /\ cleared \in Nat
          /\ options_.max_samples \in Nat /\ drained_count_ \in Nat /\ dropped_count_ \in Nat
      BY DEF TypeOK, OptionsNormal, Options
    <3>3. CapacityRespected'
      BY <3>1, <3>2 DEF CapacityRespected
    <3>4. Accounting'
      <4>1. Len(samples_') = 0 /\ Len(samples_) \in Nat
        BY <3>1, <3>2
      <4>2. accepted_count_' = drained_count_' + dropped_count_' + cleared' + Len(samples_')
        BY <3>1, <3>2, <4>1 DEF IInv, Accounting
      <4>3. QED
        BY <3>1, <4>2 DEF IInv, Accounting
    <3>5. QueueIsSuffix'
      <4>1. SuffixOf(samples_', log')
        BY <3>1, <3>2 DEF SuffixOf
      <4>2. QED
        BY <4>1, SuffixIsSubSeq DEF TypeOK, QueueIsSuffix
    <3>6. LosslessWithoutDrop'
      <4>1. ASSUME cleared' = 0 PROVE samples_' = samples_ /\ cleared = 0
        <5>1. Len(samples_) = 0 /\ cleared = 0
          BY <3>1, <3>2, <4>1
        <5>2. QED
          BY <3>1, <3>2, <5>1
      <4>2. QED
        BY <3>1, <4>1, <3>2 DEF IInv, LosslessWithoutDrop
    <3>7. QED
      BY <3>3, <3>4, <3>5, <3>6 DEF IInv
  <2>7. CASE UNCHANGED vars
    BY <2>7 DEF vars, counters, history, IInv, CapacityRespected, Accounting,
                QueueIsSuffix, LosslessWithoutDrop
  <2>8. QED
    BY <2>1, <2>2, <2>3, <2>4, <2>5, <2>6, <2>7 DEF Next
<1>3. QED
  BY <1>1, <1>2, TypeCorrect, PTL DEF Spec

(* The deque never holds more than max_samples samples. *)
THEOREM Bounded == Spec => []CapacityRespected
<1>1. IInv => CapacityRespected
  BY DEF IInv
<1>2. QED
  BY <1>1, Safety, PTL

(* Every push attempt and every accepted sample is accounted for. *)
THEOREM CountersAccount == Spec => []Accounting
<1>1. IInv => Accounting
  BY DEF IInv
<1>2. QED
  BY <1>1, Safety, PTL

(* What the buffer retains is the newest end of the accepted stream. *)
THEOREM NoHole == Spec => []QueueIsSuffix
<1>1. IInv => QueueIsSuffix
  BY DEF IInv
<1>2. QED
  BY <1>1, Safety, PTL

(* With drop_oldest_when_full off, and no clear(), nothing accepted is lost. *)
THEOREM Lossless == Spec => []LosslessWithoutDrop
<1>1. IInv => LosslessWithoutDrop
  BY DEF IInv
<1>2. QED
  BY <1>1, Safety, PTL

(* stats() never reports `full' without `flush_recommended': the threshold *)
(* left by the constructor is within the capacity.                         *)
THEOREM FullFlushes == Spec => []FullImpliesFlush
<1>1. TypeOK => FullImpliesFlush
  BY DEF TypeOK, OptionsNormal, Options, FullImpliesFlush, IsFull, ShouldFlush
<1>2. QED
  BY <1>1, TypeCorrect, PTL

-----------------------------------------------------------------------------
(* Refinement: the buffer is a window on an append-only log.               *)

LEMMA PushImplements ==
  ASSUME TypeOK, TypeOK', IInv, NEW s \in Sample, PushInternal(s)
  PROVE  Stream!Accept \/ UNCHANGED Stream!streamVars
<1> DEFINE head == Len(log) - Len(samples_)
<1>0. delivered' = delivered
  BY DEF PushInternal
<1>1. CASE Refused(s)
  <2>1. UNCHANGED <<samples_, log>>
    BY <1>1 DEF PushInternal, Reject
  <2>2. QED
    BY <1>0, <2>1 DEF Stream!streamVars
<1>2. CASE ~Refused(s)
  <2>1. samples_' = Append(Room, s) /\ log' = Append(log, s)
    BY <1>2 DEF PushInternal, Accept
  <2>2. /\ Len(samples_') = Len(Room) + 1
        /\ Len(log') = Len(log) + 1 /\ log'[Len(log')] = s
    BY <2>1, RoomFacts, AppendFacts DEF TypeOK
  <2>3. Len(samples_) \in Nat /\ Len(log) \in Nat /\ Len(Room) \in Nat
    BY RoomFacts DEF TypeOK
  <2>4. head' \in {head, head + 1}
    <3>1. CASE IsFull
      BY <2>2, <2>3, <3>1, RoomFacts
    <3>2. CASE ~IsFull
      BY <2>2, <2>3, <3>2, RoomFacts
    <3>3. QED
      BY <3>1, <3>2
  <2>5. head' < Len(log')
    BY <2>2, <2>3
  <2>6. QED
    BY <1>0, <2>1, <2>2, <2>4, <2>5 DEF Stream!Accept
<1>3. QED
  BY <1>1, <1>2

LEMMA DrainImplements ==
  ASSUME TypeOK, TypeOK', IInv, NEW m \in Nat, DrainUpTo(m)
  PROVE  Stream!Deliver
<1> DEFINE count == Lesser(m, Len(samples_))
           head == Len(log) - Len(samples_)
<1>1. /\ count \in 0..Len(samples_)
      /\ Len(samples_') = Len(samples_) - count
      /\ delivered' = delivered \o SubSeq(samples_, 1, count)
      /\ log' = log
  BY DrainFacts
<1> HIDE DEF count
<1>2. /\ samples_ \in Seq(Sample) /\ log \in Seq(Sample)
      /\ Len(samples_) \in Nat /\ Len(log) \in Nat
  BY DEF TypeOK
<1>3. SuffixOf(samples_, log)
  BY QueueSuffix DEF IInv
<1>4. Len(samples_) <= Len(log)
  BY <1>3 DEF SuffixOf
<1>5. SubSeq(samples_, 1, count) = SubSeq(log, head + 1, head + count)
  <2>1. /\ SubSeq(samples_, 1, count) \in Seq(Sample)
        /\ Len(SubSeq(samples_, 1, count)) = count
        /\ \A i \in 1..count : SubSeq(samples_, 1, count)[i] = samples_[i]
    BY <1>1, <1>2, SubSeqFacts
  <2>2. /\ head + 1 \in Int /\ head + count \in Int
        /\ 1 <= head + 1 /\ head + 1 <= head + count + 1 /\ head + count <= Len(log)
        /\ (head + count) - (head + 1) + 1 = count
    BY <1>1, <1>2, <1>4
  <2>3. /\ SubSeq(log, head + 1, head + count) \in Seq(Sample)
        /\ Len(SubSeq(log, head + 1, head + count)) = count
        /\ \A i \in 1..count :
             SubSeq(log, head + 1, head + count)[i] = log[head + 1 + i - 1]
    <3> DEFINE lo == head + 1
               hi == head + count
    <3>1. lo \in Int /\ hi \in Int /\ 1 <= lo /\ lo <= hi + 1 /\ hi <= Len(log)
      BY <2>2
    <3>2. hi - lo + 1 = count
      BY <2>2
    <3> HIDE DEF lo, hi
    <3>3. /\ SubSeq(log, lo, hi) \in Seq(Sample)
          /\ Len(SubSeq(log, lo, hi)) = count
          /\ \A i \in 1..count : SubSeq(log, lo, hi)[i] = log[lo + i - 1]
      BY <1>2, <3>1, <3>2, SubSeqFacts
    <3>4. QED
      BY <3>3 DEF lo, hi
  <2>4. ASSUME NEW i \in 1..count
        PROVE  samples_[i] = log[head + 1 + i - 1]
    <3>1. i \in 1..Len(samples_) /\ head + 1 + i - 1 = Len(log) - Len(samples_) + i
      BY <1>1, <1>2
    <3>2. QED
      BY <1>3, <3>1 DEF SuffixOf
  <2>5. QED
    BY <2>1, <2>3, <2>4, SeqEqual
<1>6. count \in 0..(Len(log) - head) /\ Len(log') - Len(samples_') = head + count
  BY <1>1, <1>2, <1>4
<1>7. QED
  BY <1>1, <1>5, <1>6 DEF Stream!Deliver

(* Every behaviour of the buffer is a behaviour of the abstract stream.    *)
THEOREM Refinement == Spec => ImplementsStream
<1>1. Init => Stream!StreamInit
  BY DEF Init, Stream!StreamInit
<1>2. TypeOK /\ TypeOK' /\ IInv /\ [Next]_vars => [Stream!StreamNext]_Stream!streamVars
  <2> SUFFICES ASSUME TypeOK, TypeOK', IInv, [Next]_vars
               PROVE  Stream!StreamNext \/ UNCHANGED Stream!streamVars
    OBVIOUS
  <2>1. ASSUME NEW b \in BOOLEAN, Push(b)
        PROVE  Stream!StreamNext \/ UNCHANGED Stream!streamVars
    <3> DEFINE s == [n |-> offered + 1, has_tag_id |-> b]
    <3>1. s \in Sample
      BY DEF Sample, TypeOK
    <3>2. PushInternal(s)
      BY <2>1 DEF Push
    <3> HIDE DEF s
    <3>3. QED
      BY <3>1, <3>2, PushImplements DEF Stream!StreamNext
  <2>2. ASSUME NEW k \in BatchSizes, NEW batch \in [1..k -> BOOLEAN], PushMany(batch)
        PROVE UNCHANGED Stream!streamVars
    BY <2>2 DEF PushMany, history, Stream!streamVars
  <2>3. CASE PushNext
    <3>1. input \in Seq(Sample) /\ input # <<>> /\ PushInternal(Head(input))
      BY <2>3 DEF PushNext, TypeOK
    <3>2. Head(input) \in Sample
      BY <3>1
    <3>3. QED
      BY <3>1, <3>2, PushImplements DEF Stream!StreamNext
  <2>4. ASSUME NEW m \in 0..MaxOffered, DrainUpTo(m) PROVE Stream!StreamNext
    BY <2>4, DrainImplements DEF Stream!StreamNext
  <2>5. CASE Drain
    BY <2>5, DrainImplements DEF Drain, TypeOK, Stream!StreamNext
  <2>6. CASE Clear
    <3>1. samples_' = <<>> /\ log' = log /\ delivered' = delivered
      BY <2>6 DEF Clear
    <3>2. Len(log') - Len(samples_') = Len(log)
      BY <3>1 DEF TypeOK
    <3>3. QED
      BY <3>1, <3>2 DEF Stream!Discard, Stream!StreamNext
  <2>7. CASE UNCHANGED vars
    BY <2>7 DEF vars, history, Stream!streamVars
  <2>8. QED
    BY <2>1, <2>2, <2>3, <2>4, <2>5, <2>6, <2>7 DEF Next
<1>3. QED
  BY <1>1, <1>2, TypeCorrect, Safety, PTL DEF Spec, ImplementsStream, Stream!StreamSpec

-----------------------------------------------------------------------------
(* The inductive invariant: the previous sample a value is decided against *)
(* is the latest of the history.  The promises about what is skipped       *)
(* are then about the value the decision compared with.                    *)

PreviousIsLatest ==
  /\ ~Archived => previous_sample = <<>>
  /\ Archived => previous_sample = <<Latest>>

ArchiveInv ==
  /\ ArchiveTypeOK
  /\ PreviousIsLatest
  /\ SkippedWithinDeadband
  /\ NaNHoldsDeadband
  /\ ChangesExactlyArchived
  /\ PeriodKept

Offered ==
  [value : Values \cup {Empty}, quality : Qualities, timestamp : Times]

-----------------------------------------------------------------------------
(* Types of what the decision compares. *)

LEMMA SetupTypes ==
  ASSUME ArchiveTypeOK
  PROVE  /\ setup.policy \in Policies /\ setup.periodic_interval_ms \in Nat
         /\ setup.min_interval_ms \in Nat /\ setup.deadband \in Nat
BY SetupAssumption DEF ArchiveTypeOK, Setup

LEMMA ValueTypes ==
  ASSUME NEW v \in Values
  PROVE  /\ v.number \in Int
         /\ v.kind \in {"number", "text"}
         /\ v.kind = "number" => v.number \in Numerals /\ v = Number(v.number)
<1>0. 0 \in Int /\ Numerals \subseteq Int
  BY ArchiveBoundAssumption
<1>1. CASE \E n \in Numerals : v = Number(n)
  <2>1. PICK n \in Numerals : v = Number(n)
    BY <1>1
  <2>2. v.number = n /\ v.kind = "number"
    BY <2>1 DEF Number
  <2>3. QED
    BY <1>0, <2>1, <2>2
<1>2. CASE \E s \in Texts : v = Text(s)
  <2>1. PICK s \in Texts : v = Text(s)
    BY <1>2
  <2>2. v.number = 0 /\ v.kind = "text"
    BY <2>1 DEF Text
  <2>3. QED
    BY <1>0, <2>2
<1>3. QED
  BY <1>1, <1>2 DEF Values

LEMMA AbsoluteIsNat == \A n \in Int : Absolute(n) \in Nat
BY DEF Absolute

(* Once a minimum interval or a period has not elapsed, the clock has not  *)
(* been set back and less than the interval has passed.                    *)
LEMMA NotElapsed ==
  ASSUME NEW p \in Nat, NEW c \in Nat, NEW interval \in Nat, ~ElapsedAtLeast(p, c, interval)
  PROVE  c - p >= 0 /\ c - p < interval
BY DEF ElapsedAtLeast

-----------------------------------------------------------------------------
(* What it takes for a value to be skipped after `latest' was archived. *)

SkippedAfter(latest, current) ==
  /\ setup.policy = "OnChangeWithDeadband" /\ Unthrottled /\ latest.value # Number(NaN) =>
       \/ current.value = latest.value
       \/ /\ current.value.kind = "number" /\ latest.value.kind = "number"
          /\ \/ current.value = Number(NaN)
             \/ Absolute(current.value.number - latest.value.number) < setup.deadband
  /\ setup.policy = "OnChange" /\ Unthrottled => current.value = latest.value
  /\ setup.policy = "Periodic" =>
       LET elapsed == current.timestamp - latest.timestamp
       IN  /\ elapsed >= 0
           /\ elapsed < setup.periodic_interval_ms \/ elapsed < setup.min_interval_ms

LEMMA SkippingExplained ==
  ASSUME ArchiveInv, Archived, NEW current \in ArchivedSample, NEW alarm_triggered,
         current.value # Empty, ~ShouldArchive(current, alarm_triggered)
  PROVE  SkippedAfter(Latest, current)
<1> DEFINE latest == Latest
<1>1. previous_sample[1] = latest /\ previous_sample # <<>>
  BY DEF ArchiveInv, PreviousIsLatest
<1>2. latest \in ArchivedSample
  BY DEF ArchiveInv, ArchiveTypeOK, Archived, Latest
<1> HIDE DEF latest
<1>3. /\ current.timestamp \in Nat /\ latest.timestamp \in Nat
      /\ current.value \in Values /\ latest.value \in Values
  BY <1>2, TimeAssumption DEF ArchivedSample
<1>4. setup.periodic_interval_ms \in Nat /\ setup.min_interval_ms \in Nat
      /\ setup.deadband \in Nat
  BY SetupTypes DEF ArchiveInv
<1>5. setup.policy # "Disabled" =>
        \/ ~ElapsedAtLeast(latest.timestamp, current.timestamp, setup.min_interval_ms)
        \/ ~Matches(latest, current, alarm_triggered)
  BY <1>1 DEF ShouldArchive, Eligible
<1>6. Unthrottled =>
        ElapsedAtLeast(latest.timestamp, current.timestamp, setup.min_interval_ms)
  BY DEF Unthrottled, ElapsedAtLeast
<1>7. ASSUME setup.policy = "OnChangeWithDeadband", Unthrottled, latest.value # Number(NaN)
      PROVE  \/ current.value = latest.value
             \/ /\ current.value.kind = "number" /\ latest.value.kind = "number"
                /\ \/ current.value = Number(NaN)
                   \/ Absolute(current.value.number - latest.value.number) < setup.deadband
  <2>1. ~Matches(latest, current, alarm_triggered)
    BY <1>5, <1>6, <1>7
  <2>2. CASE latest.value.kind = "number" /\ current.value.kind = "number"
    <3>1. ~DeadbandReached(latest.value, current.value)
      BY <1>7, <2>1, <2>2 DEF Matches
    <3>2. current.value.number \in Int /\ latest.value.number \in Int
      BY <1>3, ValueTypes
    <3>3. current.value.number - latest.value.number \in Int
      BY <3>2
    <3>4. Absolute(current.value.number - latest.value.number) \in Nat
      BY <3>3, AbsoluteIsNat
    <3>5. \/ NaN \in {current.value.number, latest.value.number}
          \/ Absolute(current.value.number - latest.value.number) < setup.deadband
      BY <1>4, <3>1, <3>4 DEF DeadbandReached
    <3>6. /\ current.value = Number(current.value.number)
          /\ latest.value = Number(latest.value.number)
      BY <1>3, <2>2, ValueTypes
    <3>7. QED
      BY <1>7, <2>2, <3>5, <3>6
  <2>3. CASE ~(latest.value.kind = "number" /\ current.value.kind = "number")
    BY <1>7, <2>1, <2>3 DEF Matches, Differ
  <2>4. QED
    BY <2>2, <2>3
<1>8. ASSUME setup.policy = "OnChange", Unthrottled
      PROVE  current.value = latest.value
  BY <1>5, <1>6, <1>8 DEF Matches, Differ
<1>9. ASSUME setup.policy = "Periodic"
      PROVE  LET elapsed == current.timestamp - latest.timestamp
             IN  /\ elapsed >= 0
                 /\ elapsed < setup.periodic_interval_ms \/ elapsed < setup.min_interval_ms
  <2>1. \/ ~ElapsedAtLeast(latest.timestamp, current.timestamp, setup.min_interval_ms)
        \/ ~ElapsedAtLeast(latest.timestamp, current.timestamp, setup.periodic_interval_ms)
    BY <1>5, <1>9 DEF Matches
  <2>2. QED
    BY <1>3, <1>4, <2>1, NotElapsed
<1>10. QED
  BY <1>7, <1>8, <1>9 DEF SkippedAfter, latest

(* The promises, said of each skipped value.                         *)
LEMMA PromisesBySkipped ==
  ASSUME Archived
  PROVE  (/\ SkippedWithinDeadband
          /\ setup.policy = "OnChange" /\ Unthrottled =>
               \A i \in 1..Len(skipped) : skipped[i].value = Latest.value
          /\ PeriodKept)
         <=> \A i \in 1..Len(skipped) : SkippedAfter(Latest, skipped[i])
BY DEF SkippedWithinDeadband, PeriodKept, SkippedAfter

-----------------------------------------------------------------------------
(* Skipping a value. *)
LEMMA SkipKeepsIInv ==
  ASSUME ArchiveInv, NEW current \in Offered, NEW alarm_triggered,
         ~ShouldArchive(current, alarm_triggered), Skip(current)
  PROVE  ArchiveInv'
<1>1. UNCHANGED <<setup, previous_sample, tag_history>>
  BY DEF Skip
<1>2. CASE current.value = Empty
  <2>1. UNCHANGED archive_vars
    BY <1>1, <1>2 DEF Skip, archive_vars
  <2>2. QED
    BY <2>1 DEF archive_vars, ArchiveInv, ArchiveTypeOK, PreviousIsLatest, SkippedWithinDeadband,
       NaNHoldsDeadband, ChangesExactlyArchived, PeriodKept, Archived, Latest, Unthrottled
<1>3. CASE current.value # Empty
  <2>1. current \in ArchivedSample
    BY <1>3 DEF Offered, ArchivedSample
  <2>2. skipped' = Append(skipped, current) /\ skipped \in Seq(ArchivedSample)
    BY <1>3 DEF Skip, ArchiveInv, ArchiveTypeOK
  <2>3. /\ skipped' \in Seq(ArchivedSample)
        /\ Len(skipped) \in Nat /\ Len(skipped') = Len(skipped) + 1
        /\ skipped'[Len(skipped) + 1] = current
        /\ \A i \in 1..Len(skipped) : skipped'[i] = skipped[i]
    BY <2>1, <2>2, AppendFacts
  <2>4. ArchiveTypeOK' /\ PreviousIsLatest'
    BY <1>1, <2>3 DEF ArchiveInv, ArchiveTypeOK, PreviousIsLatest, Archived, Latest
  <2>5. \A i \in 1..Len(skipped') : Archived => SkippedAfter(Latest, skipped'[i])
    <3> SUFFICES ASSUME NEW i \in 1..Len(skipped'), Archived
                 PROVE  SkippedAfter(Latest, skipped'[i])
      OBVIOUS
    <3>1. CASE i = Len(skipped) + 1
      BY <1>3, <2>1, <2>3, <3>1, SkippingExplained
    <3>2. CASE i \in 1..Len(skipped)
      <4>1. SkippedAfter(Latest, skipped[i])
        BY <3>2, PromisesBySkipped DEF ArchiveInv, ChangesExactlyArchived
      <4>2. QED
        BY <2>3, <3>2, <4>1
    <3>3. QED
      BY <2>3, <3>1, <3>2
  <2>6. Archived' = Archived /\ Latest' = Latest /\ Unthrottled' = Unthrottled
    BY <1>1 DEF Archived, Latest, Unthrottled
  <2>7. SkippedWithinDeadband'
    BY <1>1, <2>5, <2>6 DEF SkippedWithinDeadband, SkippedAfter
  <2>8. ChangesExactlyArchived'
    BY <1>1, <2>5, <2>6 DEF ArchiveInv, ChangesExactlyArchived, SkippedAfter
  <2>9. PeriodKept'
    BY <1>1, <2>5, <2>6 DEF PeriodKept, SkippedAfter
  <2>10. NaNHoldsDeadband'
    BY <1>1 DEF ArchiveInv, NaNHoldsDeadband
  <2>11. QED
    BY <2>4, <2>7, <2>8, <2>9, <2>10 DEF ArchiveInv
<1>4. QED
  BY <1>2, <1>3

(* Archiving a value. *)
LEMMA ArchiveKeepsIInv ==
  ASSUME ArchiveInv, NEW current \in Offered, NEW alarm_triggered,
         ShouldArchive(current, alarm_triggered), Archive(current)
  PROVE  ArchiveInv'
<1>1. current \in ArchivedSample
  BY DEF ShouldArchive, Eligible, Offered, ArchivedSample
<1>2. /\ setup' = setup /\ previous_sample' = <<current>> /\ skipped' = <<>>
      /\ tag_history' = Append(tag_history, current) /\ tag_history \in Seq(ArchivedSample)
  BY DEF Archive, ArchiveInv, ArchiveTypeOK
<1>3. /\ tag_history' \in Seq(ArchivedSample) /\ Len(tag_history) \in Nat
      /\ Len(tag_history') = Len(tag_history) + 1
      /\ tag_history'[Len(tag_history) + 1] = current
      /\ \A i \in 1..Len(tag_history) : tag_history'[i] = tag_history[i]
  BY <1>1, <1>2, AppendFacts
<1>4. ArchiveTypeOK'
  BY <1>1, <1>2, <1>3 DEF ArchiveInv, ArchiveTypeOK
<1>5. Archived' /\ Latest' = current
  BY <1>3 DEF Archived, Latest
<1>6. PreviousIsLatest'
  BY <1>2, <1>5 DEF PreviousIsLatest
<1>7. Len(skipped') = 0
  BY <1>2
<1>8. SkippedWithinDeadband' /\ PeriodKept'
  BY <1>7 DEF SkippedWithinDeadband, PeriodKept
<1>9. ASSUME setup.policy = "OnChange", Unthrottled
      PROVE  \A i \in 2..Len(tag_history') : Differ(tag_history'[i - 1].value, tag_history'[i].value)
  <2> SUFFICES ASSUME NEW i \in 2..Len(tag_history')
               PROVE  Differ(tag_history'[i - 1].value, tag_history'[i].value)
    OBVIOUS
  <2>1. i - 1 \in 1..Len(tag_history) /\ tag_history'[i - 1] = tag_history[i - 1]
    BY <1>3
  <2>2. Archived
    BY <1>2, <2>1 DEF Archived
  <2>3. CASE i = Len(tag_history) + 1
    <3>1. previous_sample = <<Latest>> /\ tag_history[i - 1] = Latest
      BY <1>3, <2>2, <2>3 DEF ArchiveInv, PreviousIsLatest, Latest
    <3>2. Matches(Latest, current, alarm_triggered)
      BY <3>1 DEF ShouldArchive
    <3>3. Differ(Latest.value, current.value)
      BY <1>9, <3>2 DEF Matches
    <3>4. QED
      BY <1>3, <2>1, <2>3, <3>1, <3>3
  <2>4. CASE i # Len(tag_history) + 1
    <3>1. i \in 2..Len(tag_history) /\ tag_history'[i] = tag_history[i]
      BY <1>3, <2>4
    <3>2. Differ(tag_history[i - 1].value, tag_history[i].value)
      BY <1>9, <2>2, <3>1 DEF ArchiveInv, ChangesExactlyArchived
    <3>3. QED
      BY <2>1, <3>1, <3>2
  <2>5. QED
    BY <2>3, <2>4
<1>10. ChangesExactlyArchived'
  BY <1>2, <1>7, <1>9 DEF ChangesExactlyArchived, Unthrottled
<1>11. ASSUME setup.policy = "OnChangeWithDeadband", NEW i \in 2..Len(tag_history'),
              Number(NaN) \in {tag_history'[i - 1].value, tag_history'[i].value}
       PROVE  "text" \in {tag_history'[i - 1].value.kind, tag_history'[i].value.kind}
  <2>1. i - 1 \in 1..Len(tag_history) /\ tag_history'[i - 1] = tag_history[i - 1]
    BY <1>3
  <2>2. Archived
    BY <1>2, <2>1 DEF Archived
  <2>3. CASE i = Len(tag_history) + 1
    <3>1. previous_sample = <<Latest>> /\ tag_history[i - 1] = Latest
      BY <1>3, <2>2, <2>3 DEF ArchiveInv, PreviousIsLatest, Latest
    <3>2. tag_history'[i] = current
      BY <1>3, <2>3
    <3>3. Matches(Latest, current, alarm_triggered)
      BY <3>1 DEF ShouldArchive
    <3>4. Latest \in ArchivedSample
      BY <1>2, <2>1, <3>1
    <3>5. Latest.value \in Values /\ current.value \in Values
      BY <1>1, <3>4 DEF ArchivedSample
    <3>6. /\ Latest.value.kind \in {"number", "text"}
          /\ current.value.kind \in {"number", "text"}
      BY <3>5, ValueTypes
    <3>7. ~(Latest.value.kind = "number" /\ current.value.kind = "number")
      <4> SUFFICES ASSUME Latest.value.kind = "number", current.value.kind = "number"
                   PROVE  FALSE
        OBVIOUS
      <4>1. DeadbandReached(Latest.value, current.value)
        BY <1>11, <3>3 DEF Matches
      <4>2. Latest.value = Number(NaN) \/ current.value = Number(NaN)
        BY <1>11, <2>1, <3>1, <3>2
      <4>3. NaN \in {Latest.value.number, current.value.number}
        <5>1. Number(NaN).number = NaN
          BY DEF Number
        <5>2. QED
          BY <4>2, <5>1
      <4>4. QED
        BY <4>1, <4>3 DEF DeadbandReached
    <3>8. QED
      BY <2>1, <3>1, <3>2, <3>6, <3>7
  <2>4. CASE i # Len(tag_history) + 1
    <3>1. i \in 2..Len(tag_history) /\ tag_history'[i] = tag_history[i]
      BY <1>3, <2>4
    <3>2. QED
      BY <1>11, <2>1, <3>1 DEF ArchiveInv, NaNHoldsDeadband
  <2>5. QED
    BY <2>3, <2>4
<1>12. NaNHoldsDeadband'
  BY <1>2, <1>11 DEF NaNHoldsDeadband
<1>13. QED
  BY <1>4, <1>6, <1>8, <1>10, <1>12 DEF ArchiveInv

-----------------------------------------------------------------------------
(* Whatever values are offered in whatever order, decisions are made       *)
(* against the latest archived sample and skip only what they may.         *)
THEOREM ArchiveSafety == ArchiveSpec => []ArchiveInv
<1>1. ArchiveInit => ArchiveInv
  BY DEF ArchiveInit, ArchiveInv, ArchiveTypeOK, PreviousIsLatest, SkippedWithinDeadband,
     NaNHoldsDeadband, ChangesExactlyArchived, PeriodKept, Archived
<1>2. ArchiveInv /\ [ArchiveNext]_archive_vars => ArchiveInv'
  <2> SUFFICES ASSUME ArchiveInv, [ArchiveNext]_archive_vars PROVE ArchiveInv'
    OBVIOUS
  <2>1. ASSUME NEW value \in Values \cup {Empty}, NEW quality \in Qualities,
               NEW timestamp \in Times, NEW alarm_triggered \in BOOLEAN,
               Offer([value |-> value, quality |-> quality, timestamp |-> timestamp],
                     alarm_triggered)
        PROVE  ArchiveInv'
    <3> DEFINE current == [value |-> value, quality |-> quality, timestamp |-> timestamp]
    <3>1. current \in Offered
      BY DEF Offered
    <3>2. \/ ShouldArchive(current, alarm_triggered) /\ Archive(current)
          \/ ~ShouldArchive(current, alarm_triggered) /\ Skip(current)
      BY <2>1 DEF Offer
    <3> HIDE DEF current
    <3>3. QED
      BY <3>1, <3>2, ArchiveKeepsIInv, SkipKeepsIInv
  <2>2. CASE UNCHANGED archive_vars
    BY <2>2 DEF archive_vars, ArchiveInv, ArchiveTypeOK, PreviousIsLatest, SkippedWithinDeadband,
       NaNHoldsDeadband, ChangesExactlyArchived, PeriodKept, Archived, Latest, Unthrottled
  <2>3. QED
    BY <2>1, <2>2, Zenon DEF ArchiveNext
<1>3. QED
  BY <1>1, <1>2, PTL DEF ArchiveSpec

(* Type correctness of the history and of what was skipped. *)
THEOREM ArchiveTypeCorrect == ArchiveSpec => []ArchiveTypeOK
BY ArchiveSafety, PTL DEF ArchiveInv

(* Without a minimum interval no number skipped after an archived value    *)
(* other than NaN is a deadband or more away from it, for every deadband.  *)
(* What an archived NaN does is the next theorem.                          *)
THEOREM DeadbandTheorem == ArchiveSpec => []SkippedWithinDeadband
BY ArchiveSafety, PTL DEF ArchiveInv

(* Under a deadband, zero included, a NaN in the history has no number for *)
(* a neighbour: after it every number is skipped until a text is archived. *)
THEOREM NaNTheorem == ArchiveSpec => []NaNHoldsDeadband
BY ArchiveSafety, PTL DEF ArchiveInv

(* Without a minimum interval an OnChange history has every change and no  *)
(* repetition.                                                             *)
THEOREM ChangesTheorem == ArchiveSpec => []ChangesExactlyArchived
BY ArchiveSafety, PTL DEF ArchiveInv

(* A periodic history has no hole longer than its period or its minimum    *)
(* interval.                                                               *)
THEOREM PeriodTheorem == ArchiveSpec => []PeriodKept
BY ArchiveSafety, PTL DEF ArchiveInv
=============================================================================
