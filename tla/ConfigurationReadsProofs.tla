----------------------- MODULE ConfigurationReadsProofs -----------------------
(***************************************************************************)
(* Proofs about ConfigurationReads, for every snapshot, every query, every *)
(* offset and limit and lists of any length.                               *)
(***************************************************************************)
EXTENDS ConfigurationReads, FiniteSetTheorems, FunctionTheorems,
        SequenceTheorems, TLAPS

-----------------------------------------------------------------------------
(* Induction on the naturals, said of a set so that the provers can use it:*)
(* the least number outside the set has a predecessor inside.              *)
LEMMA SetInduction ==
  ASSUME NEW S, 0 \in S, \A n \in Nat : n \in S => n + 1 \in S
  PROVE  Nat \subseteq S
<1> DEFINE T == Nat \ S
<1>1. SUFFICES ASSUME T # {} PROVE FALSE
  OBVIOUS
<1>2. PICK x \in T : \A y \in T : ~(<<y, x>> \in OpToRel(<, Nat))
  BY <1>1, NatLessThanWellFounded, WFMin, Zenon
<1>3. x \in Nat /\ x # 0
  OBVIOUS
<1>4. x - 1 \in Nat /\ x - 1 \in T
  BY <1>3
<1>5. <<x - 1, x>> \in OpToRel(<, Nat)
  <2>1. <<x - 1, x>> \in Nat \X Nat /\ x - 1 < x
    BY <1>3, <1>4
  <2>2. QED
    BY <2>1, Zenon DEF OpToRel
<1>6. QED
  BY <1>2, <1>4, <1>5, Zenon

(* A loop with numbered steps has a function that says its state after     *)
(* each of them.                                                           *)
StatesOf(f, T, start, step, size) ==
  /\ f \in [0..size -> T] /\ f[0] = start
  /\ \A n \in 1..size : f[n] = step[n][f[n - 1]]

LEMMA LoopHasStates ==
  ASSUME NEW T, NEW start \in T, NEW step \in [Nat -> [T -> T]], NEW size \in Nat
  PROVE  \E f : StatesOf(f, T, start, step, size)
<1> DEFINE Good(f, m) == StatesOf(f, T, start, step, m)
           S == {m \in Nat : \E f : Good(f, m)}
<1>1. 0 \in S
  <2>1. Good([n \in 0..0 |-> start], 0)
    BY DEF StatesOf
  <2>2. QED
    BY <2>1
<1>2. ASSUME NEW m \in Nat, m \in S PROVE m + 1 \in S
  <2>1. PICK f : /\ f \in [0..m -> T] /\ f[0] = start
                 /\ \A n \in 1..m : f[n] = step[n][f[n - 1]]
    BY <1>2 DEF StatesOf
  <2> DEFINE g == [n \in 0..(m + 1) |-> IF n = m + 1 THEN step[m + 1][f[m]] ELSE f[n]]
  <2>2. f[m] \in T /\ m + 1 \in Nat
    BY <2>1
  <2>3. step[m + 1][f[m]] \in T
    BY <2>2
  <2>4. g \in [0..(m + 1) -> T]
    BY <2>1, <2>3
  <2>5. \A n \in 0..m : g[n] = f[n]
    OBVIOUS
  <2>6. g[m + 1] = step[m + 1][g[(m + 1) - 1]]
    BY <2>5
  <2> HIDE DEF g
  <2>7. \A n \in 1..(m + 1) : g[n] = step[n][g[n - 1]]
    <3> TAKE n \in 1..(m + 1)
    <3>1. CASE n = m + 1
      BY <2>6, <3>1
    <3>2. CASE n # m + 1
      <4>1. n \in 1..m /\ n \in 0..m /\ n - 1 \in 0..m
        BY <3>2
      <4>2. QED
        BY <2>1, <2>5, <4>1
    <3>3. QED
      BY <3>1, <3>2
  <2>8. Good(g, m + 1)
    BY <2>1, <2>4, <2>5, <2>7 DEF StatesOf
  <2>9. QED
    BY <2>8
<1> HIDE DEF S
<1>3. Nat \subseteq S
  BY <1>1, <1>2, SetInduction
<1>4. QED
  BY <1>3 DEF S

(* Appending adds one element. *)
LEMMA AddedRange ==
  ASSUME NEW S, NEW k \in Seq(S), NEW e \in S
  PROVE  Range(k \o <<e>>) = Range(k) \cup {e}
<1>1. /\ Len(k \o <<e>>) = Len(k) + 1 /\ (k \o <<e>>)[Len(k) + 1] = e
      /\ \A i \in 1..Len(k) : (k \o <<e>>)[i] = k[i]
  OBVIOUS
<1>2. DOMAIN (k \o <<e>>) = 1..(Len(k) + 1) /\ DOMAIN k = 1..Len(k) /\ Len(k) \in Nat
  OBVIOUS
<1> DEFINE longer == k \o <<e>>
<1> HIDE DEF longer
<1>3. 1..(Len(k) + 1) = 1..Len(k) \cup {Len(k) + 1}
  BY <1>2
<1>4. {longer[x] : x \in 1..(Len(k) + 1)} = {longer[x] : x \in 1..Len(k)} \cup {longer[Len(k) + 1]}
  BY <1>3
<1>5. QED
  BY <1>1, <1>2, <1>4 DEF longer, Range

LEMMA AddedUnique ==
  ASSUME NEW S, NEW k \in Seq(S), NEW e \in S,
         Unique(k), \A i \in 1..Len(k) : k[i].id # e.id
  PROVE  Unique(k \o <<e>>)
<1>1. /\ Len(k \o <<e>>) = Len(k) + 1 /\ (k \o <<e>>)[Len(k) + 1] = e
      /\ \A i \in 1..Len(k) : (k \o <<e>>)[i] = k[i]
  OBVIOUS
<1>2. DOMAIN (k \o <<e>>) = 1..(Len(k) + 1) /\ DOMAIN k = 1..Len(k) /\ Len(k) \in Nat
  OBVIOUS
<1> DEFINE longer == k \o <<e>>
<1> HIDE DEF longer
<1>3. SUFFICES ASSUME NEW i \in 1..(Len(k) + 1), NEW j \in 1..(Len(k) + 1),
                      longer[i].id = longer[j].id
               PROVE  i = j
  BY <1>2, Zenon DEF Unique, longer
<1>4. \A n \in 1..(Len(k) + 1) : n \in 1..Len(k) \/ n = Len(k) + 1
  BY <1>2
<1>5. CASE i \in 1..Len(k) /\ j \in 1..Len(k)
  BY <1>1, <1>2, <1>3, <1>5, Zenon DEF Unique, longer
<1>6. CASE i \in 1..Len(k) /\ j = Len(k) + 1
  BY <1>1, <1>3, <1>6, Zenon DEF longer
<1>7. CASE i = Len(k) + 1 /\ j \in 1..Len(k)
  BY <1>1, <1>3, <1>7, Zenon DEF longer
<1>8. QED
  BY <1>4, <1>5, <1>6, <1>7

(* What a list chooses is what is wanted of its items, nothing else and    *)
(* nothing less, and nothing twice unless the items have it twice.         *)
LEMMA ChosenFacts ==
  ASSUME NEW S, NEW items \in Seq(S), NEW wanted
  PROVE  /\ Chosen(items, wanted) \in Seq(S)
         /\ Range(Chosen(items, wanted)) = Range(items) \cap wanted
         /\ Len(Chosen(items, wanted)) <= Len(items)
         /\ Unique(items) => Unique(Chosen(items, wanted))
<1> DEFINE size == Len(items)
           T == Seq(S)
           picked(n) == IF items[n] \in wanted THEN <<items[n]>> ELSE <<>>
           step == [n \in Nat |-> [t \in T |-> t \o (IF n \in 1..size THEN picked(n) ELSE <<>>)]]
           Solves(f) == f = [n \in 0..size |-> IF n = 0 THEN <<>> ELSE f[n - 1] \o picked(n)]
           kept == CHOOSE f : Solves(f)
<1>1. size \in Nat /\ (\A n \in 1..size : items[n] \in S) /\ DOMAIN items = 1..size
  OBVIOUS
<1> HIDE DEF size
<1>2. \A n \in 1..size : picked(n) \in T
  BY <1>1
<1>3. step \in [Nat -> [T -> T]]
  <2>1. \A n \in Nat : (IF n \in 1..size THEN picked(n) ELSE <<>>) \in T
    BY <1>2
  <2> HIDE DEF picked
  <2>2. QED
    BY <2>1
<1>4. PICK f : StatesOf(f, T, <<>>, step, size)
  <2> DEFINE none == <<>>
  <2>1. none \in T /\ size \in Nat
    BY <1>1
  <2> HIDE DEF step, T, none
  <2>2. \E f : StatesOf(f, T, none, step, size)
    BY <1>3, <2>1, LoopHasStates
  <2>3. QED
    BY <2>2 DEF none
<1>5. \A n \in 1..size : step[n][f[n - 1]] = f[n - 1] \o picked(n)
  <2> TAKE n \in 1..size
  <2>1. n \in Nat /\ n - 1 \in 0..size
    BY <1>1
  <2>2. f[n - 1] \in T
    BY <1>4, <2>1 DEF StatesOf
  <2> HIDE DEF picked, T
  <2>3. QED
    BY <2>1, <2>2
<1>6. Solves(f)
  <2>1. \A n \in 0..size : n # 0 => n \in 1..size
    BY <1>1
  <2> HIDE DEF step, picked, T
  <2>2. \A n \in 0..size : f[n] = IF n = 0 THEN <<>> ELSE f[n - 1] \o picked(n)
    BY <1>4, <1>5, <2>1, Zenon DEF StatesOf
  <2>3. f = [n \in 0..size |-> f[n]]
    BY <1>4 DEF StatesOf
  <2>4. QED
    BY <2>2, <2>3
<1>7. Solves(kept)
  BY <1>6, Zenon
<1>8. Chosen(items, wanted) = kept[size]
  BY Zenon DEF Chosen, size, picked
<1> HIDE DEF kept
<1>9. kept[0] = <<>> /\ \A n \in 1..size : kept[n] = kept[n - 1] \o picked(n)
  <2>1. 0 \in 0..size /\ \A n \in 1..size : n \in 0..size /\ n # 0
    BY <1>1
  <2>2. kept = [n \in 0..size |-> IF n = 0 THEN <<>> ELSE kept[n - 1] \o picked(n)]
    BY <1>7
  <2> HIDE DEF picked
  <2>3. QED
    BY <2>1, <2>2, Zenon
<1> DEFINE Taken(n) == {items[i] : i \in 1..n} \cap wanted
           Right(n) == /\ kept[n] \in T /\ Range(kept[n]) = Taken(n) /\ Len(kept[n]) <= n
                       /\ Unique(items) => Unique(kept[n])
           Done == {n \in Nat : n <= size => Right(n)}
<1>10. 0 \in Done
  <2>1. <<>> \in T /\ Range(<<>>) = {} /\ 1..0 = {} /\ Len(<<>>) = 0 /\ DOMAIN <<>> = {}
    BY DEF Range
  <2>2. Unique(<<>>)
    BY <2>1 DEF Unique
  <2>3. Taken(0) = {}
    BY <2>1
  <2>4. Right(0)
    BY <1>9, <2>1, <2>2, <2>3
  <2> HIDE DEF Right
  <2>5. QED
    BY <2>4
<1>11. ASSUME NEW n \in Nat, n \in Done PROVE n + 1 \in Done
  <2> SUFFICES ASSUME n + 1 <= size PROVE Right(n + 1)
    OBVIOUS
  <2>1. Right(n)
    BY <1>1, <1>11
  <2>2. n + 1 \in 1..size /\ (n + 1) - 1 = n
    BY <1>1
  <2>3. kept[n + 1] = kept[n] \o picked(n + 1)
    BY <1>9, <2>2
  <2>4. 1..(n + 1) = 1..n \cup {n + 1}
    OBVIOUS
  <2>5. Taken(n + 1) = Taken(n) \cup ({items[n + 1]} \cap wanted)
    BY <2>4
  <2>6. CASE items[n + 1] \in wanted
    <3>1. kept[n + 1] = kept[n] \o <<items[n + 1]>>
      BY <2>3, <2>6
    <3>2. items[n + 1] \in S
      BY <1>1, <2>2
    <3> DEFINE k == kept[n]  e == items[n + 1]
    <3>3. k \in Seq(S) /\ e \in S
      BY <2>1, <3>2
    <3> HIDE DEF k, e
    <3>4. k \o <<e>> \in Seq(S) /\ Len(k \o <<e>>) = Len(k) + 1 /\ Len(k) \in Nat
      BY <3>3
    <3>5. Range(k \o <<e>>) = Range(k) \cup {e}
      BY <3>3, AddedRange
    <3>6. ASSUME Unique(items) PROVE Unique(k \o <<e>>)
      <4>1. ASSUME NEW i \in 1..Len(k) PROVE k[i].id # e.id
        <5>1. k[i] \in Taken(n)
          <6>1. k[i] \in Range(k)
            BY <3>3 DEF Range
          <6>2. QED
            BY <2>1, <6>1 DEF k
        <5>2. PICK j \in 1..n : k[i] = items[j]
          BY <5>1
        <5>3. j # n + 1 /\ j \in 1..size
          BY <1>1, <2>2
        <5>4. QED
          BY <1>1, <2>2, <3>6, <5>2, <5>3, Zenon DEF Unique, e
      <4>2. Unique(k)
        BY <2>1, <3>6 DEF k
      <4>3. QED
        BY <3>3, <4>1, <4>2, AddedUnique
    <3>7. kept[n + 1] \in T /\ Len(kept[n + 1]) <= n + 1
      BY <2>1, <3>1, <3>4 DEF k, e
    <3>8. Range(kept[n + 1]) = Taken(n + 1)
      BY <2>1, <2>5, <2>6, <3>1, <3>5, Zenon DEF k, e
    <3>9. Unique(items) => Unique(kept[n + 1])
      BY <3>1, <3>6, Zenon DEF k, e
    <3>10. QED
      BY <3>7, <3>8, <3>9
  <2>7. CASE items[n + 1] \notin wanted
    <3>1. kept[n + 1] = kept[n] \o <<>>
      BY <2>3, <2>7
    <3>2. kept[n + 1] = kept[n]
      BY <2>1, <3>1
    <3>3. Len(kept[n + 1]) <= n + 1
      BY <2>1, <3>2
    <3>4. QED
      BY <2>1, <2>5, <2>7, <3>2, <3>3
  <2>8. QED
    BY <2>6, <2>7
<1>12. Nat \subseteq Done
  <2> HIDE DEF Done
  <2>1. QED
    BY <1>10, <1>11, SetInduction
<1>13. Right(size)
  <2> HIDE DEF Right
  <2>1. QED
    BY <1>1, <1>12
<1>14. Taken(size) = Range(items) \cap wanted
  BY <1>1 DEF Range
<1>15. QED
  BY <1>8, <1>13, <1>14 DEF size

(* A round over the objects, one object after the other.                   *)
RoundIs(f, objects, selected) ==
  /\ f[0] = selected
  /\ \A n \in 1..Len(objects) :
       f[n] = IF objects[n].parent_id \in f[n - 1] THEN f[n - 1] \cup {objects[n].id}
                                                   ELSE f[n - 1]

LEMMA RoundStates ==
  ASSUME NEW objects, Len(objects) \in Nat, NEW selected
  PROVE  \E f : /\ RoundIs(f, objects, selected)
                /\ Round(objects, selected) = f[Len(objects)]
<1> DEFINE size == Len(objects)
           T == SUBSET (selected \cup {objects[n].id : n \in 1..size})
           grown(t, n) == IF objects[n].parent_id \in t THEN t \cup {objects[n].id} ELSE t
           step == [n \in Nat |-> [t \in T |-> IF n \in 1..size THEN grown(t, n) ELSE t]]
           Solves(f) == f = [n \in 0..size |-> IF n = 0 THEN selected ELSE grown(f[n - 1], n)]
           states == CHOOSE f : Solves(f)
<1>1. size \in Nat /\ selected \in T
  OBVIOUS
<1>2. \A n \in 1..size, t \in T : grown(t, n) \in T
  OBVIOUS
<1> HIDE DEF size, T
<1>3. step \in [Nat -> [T -> T]]
  <2> HIDE DEF grown
  <2>1. QED
    BY <1>2
<1>4. PICK f : StatesOf(f, T, selected, step, size)
  <2> HIDE DEF step
  <2>1. QED
    BY <1>1, <1>3, LoopHasStates
<1>5. \A n \in 1..size : n \in Nat /\ n \in 0..size /\ n - 1 \in 0..size /\ n # 0
  BY <1>1
<1>6. \A n \in 1..size : step[n][f[n - 1]] = grown(f[n - 1], n)
  <2> TAKE n \in 1..size
  <2>1. f[n - 1] \in T
    BY <1>4, <1>5 DEF StatesOf
  <2> HIDE DEF grown
  <2>2. QED
    BY <1>5, <2>1
<1>7. Solves(f)
  <2>1. \A n \in 0..size : n # 0 => n \in 1..size
    BY <1>1
  <2>2. f = [n \in 0..size |-> f[n]]
    BY <1>4 DEF StatesOf
  <2> HIDE DEF step, grown
  <2>3. \A n \in 0..size : f[n] = IF n = 0 THEN selected ELSE grown(f[n - 1], n)
    BY <1>4, <1>6, <2>1, Zenon DEF StatesOf
  <2>4. QED
    BY <2>2, <2>3
<1>8. Solves(states)
  BY <1>7, Zenon
<1>9. Round(objects, selected) = states[size]
  BY Zenon DEF Round, size, grown
<1> HIDE DEF states
<1>10. states[0] = selected /\ \A n \in 1..size : states[n] = grown(states[n - 1], n)
  <2>1. 0 \in 0..size
    BY <1>1
  <2> HIDE DEF grown
  <2>2. QED
    BY <1>5, <1>8, <2>1, Zenon
<1>11. RoundIs(states, objects, selected)
  BY <1>10, Zenon DEF RoundIs, size
<1>12. QED
  BY <1>9, <1>11, Zenon DEF size

(* A round unselects nothing and selects the children of what is selected. *)
LEMMA RoundFacts ==
  ASSUME NEW objects, Len(objects) \in Nat, NEW selected
  PROVE  /\ selected \subseteq Round(objects, selected)
         /\ \A n \in 1..Len(objects) :
              objects[n].parent_id \in selected => objects[n].id \in Round(objects, selected)
<1>1. PICK f : RoundIs(f, objects, selected) /\ Round(objects, selected) = f[Len(objects)]
  BY RoundStates
<1> DEFINE size == Len(objects)
           Right(n) == /\ selected \subseteq f[n]
                       /\ \A m \in 1..n : objects[m].parent_id \in selected =>
                                            objects[m].id \in f[n]
           Done == {n \in Nat : n <= size => Right(n)}
<1>2. /\ f[0] = selected
      /\ \A n \in 1..size :
           f[n] = IF objects[n].parent_id \in f[n - 1] THEN f[n - 1] \cup {objects[n].id}
                                                       ELSE f[n - 1]
  BY <1>1 DEF RoundIs
<1> HIDE DEF size
<1>3. 0 \in Done
  BY <1>2
<1>4. ASSUME NEW n \in Nat, n \in Done PROVE n + 1 \in Done
  <2> SUFFICES ASSUME n + 1 <= size PROVE Right(n + 1)
    OBVIOUS
  <2>1. Right(n)
    <3>1. n <= size
      BY DEF size
    <3>2. QED
      BY <1>4, <3>1
  <2>2. n + 1 \in 1..size /\ (n + 1) - 1 = n
    BY DEF size
  <2>3. f[n + 1] = IF objects[n + 1].parent_id \in f[n] THEN f[n] \cup {objects[n + 1].id}
                                                         ELSE f[n]
    BY <1>2, <2>2
  <2>4. \A m \in 1..(n + 1) : m \in 1..n \/ m = n + 1
    OBVIOUS
  <2>5. QED
    BY <2>1, <2>3, <2>4
<1>5. Nat \subseteq Done
  <2> HIDE DEF Done
  <2>1. QED
    BY <1>3, <1>4, SetInduction
<1>6. Right(size)
  <2>1. size \in Nat
    BY DEF size
  <2> HIDE DEF Right
  <2>2. QED
    BY <1>5, <2>1
<1>7. QED
  BY <1>1, <1>6 DEF size

(* It selects nothing outside a set that has, with an object, its children. *)
LEMMA RoundStaysIn ==
  ASSUME NEW objects, Len(objects) \in Nat, NEW family, NEW selected \in SUBSET family,
         \A n \in 1..Len(objects) : objects[n].parent_id \in family =>
                                      objects[n].id \in family
  PROVE  Round(objects, selected) \in SUBSET family
<1>1. PICK f : RoundIs(f, objects, selected) /\ Round(objects, selected) = f[Len(objects)]
  BY RoundStates
<1> DEFINE size == Len(objects)
           Done == {n \in Nat : n <= size => f[n] \in SUBSET family}
<1>2. /\ f[0] = selected
      /\ \A n \in 1..size :
           f[n] = IF objects[n].parent_id \in f[n - 1] THEN f[n - 1] \cup {objects[n].id}
                                                       ELSE f[n - 1]
  BY <1>1 DEF RoundIs
<1>3. 0 \in Done
  BY <1>2
<1>4. ASSUME NEW n \in Nat, n \in Done PROVE n + 1 \in Done
  <2> SUFFICES ASSUME n + 1 <= size PROVE f[n + 1] \in SUBSET family
    OBVIOUS
  <2>1. f[n] \in SUBSET family
    BY <1>4
  <2>2. n + 1 \in 1..size /\ (n + 1) - 1 = n
    OBVIOUS
  <2>3. f[n + 1] = IF objects[n + 1].parent_id \in f[n] THEN f[n] \cup {objects[n + 1].id}
                                                         ELSE f[n]
    BY <1>2, <2>2
  <2>4. QED
    BY <2>1, <2>2, <2>3
<1>5. Nat \subseteq Done
  <2> HIDE DEF Done
  <2>1. QED
    BY <1>3, <1>4, SetInduction
<1>6. QED
  BY <1>1, <1>5

(* The rounds of an expansion.                                             *)
RoundsAre(f, objects, selected) ==
  /\ f[0] = selected
  /\ \A n \in 1..Len(objects) : f[n] = Round(objects, f[n - 1])

LEMMA RoundsStates ==
  ASSUME NEW objects, Len(objects) \in Nat, NEW selected
  PROVE  \E f : /\ RoundsAre(f, objects, selected)
                /\ WithChildren(objects, selected) = f[Len(objects)]
<1> DEFINE size == Len(objects)
           family == selected \cup {objects[n].id : n \in 1..size}
           T == SUBSET family
           grown(t) == Round(objects, t)
           step == [n \in Nat |-> [t \in T |-> grown(t)]]
           Solves(f) == f = [n \in 0..size |-> IF n = 0 THEN selected ELSE grown(f[n - 1])]
           rounds == CHOOSE f : Solves(f)
<1>1. size \in Nat /\ selected \in T
  OBVIOUS
<1>2. \A t \in T : grown(t) \in T
  <2>1. \A n \in 1..size : objects[n].id \in family
    OBVIOUS
  <2> HIDE DEF grown, family
  <2>2. ASSUME NEW t \in T PROVE grown(t) \in T
    BY <2>1, RoundStaysIn DEF grown
  <2>3. QED
    BY <2>2
<1> HIDE DEF size, T, grown
<1>3. step \in [Nat -> [T -> T]]
  BY <1>2
<1>4. PICK f : StatesOf(f, T, selected, step, size)
  <2> HIDE DEF step
  <2>1. QED
    BY <1>1, <1>3, LoopHasStates
<1>5. \A n \in 1..size : n \in Nat /\ n \in 0..size /\ n - 1 \in 0..size /\ n # 0
  BY <1>1
<1>6. \A n \in 1..size : step[n][f[n - 1]] = grown(f[n - 1])
  <2> TAKE n \in 1..size
  <2>1. f[n - 1] \in T
    BY <1>4, <1>5 DEF StatesOf
  <2>2. QED
    BY <1>5, <2>1
<1>7. Solves(f)
  <2>1. \A n \in 0..size : n # 0 => n \in 1..size
    BY <1>1
  <2>2. f = [n \in 0..size |-> f[n]]
    BY <1>4 DEF StatesOf
  <2> HIDE DEF step
  <2>3. \A n \in 0..size : f[n] = IF n = 0 THEN selected ELSE grown(f[n - 1])
    BY <1>4, <1>6, <2>1, Zenon DEF StatesOf
  <2>4. QED
    BY <2>2, <2>3
<1>8. Solves(rounds)
  BY <1>7, Zenon
<1>9. WithChildren(objects, selected) = rounds[size]
  BY Zenon DEF WithChildren, size, grown
<1> HIDE DEF rounds
<1>10. rounds[0] = selected /\ \A n \in 1..size : rounds[n] = grown(rounds[n - 1])
  <2>1. 0 \in 0..size
    BY <1>1
  <2>2. QED
    BY <1>5, <1>8, <2>1, Zenon
<1>11. RoundsAre(rounds, objects, selected)
  BY <1>10, Zenon DEF RoundsAre, size, grown
<1>12. QED
  BY <1>9, <1>11, Zenon DEF size

(* What is selected in a round stays so in those after it.                 *)
LEMMA RoundsGrow ==
  ASSUME NEW objects, Len(objects) \in Nat, NEW selected, NEW f,
         RoundsAre(f, objects, selected), NEW m \in 0..Len(objects)
  PROVE  f[m] \subseteq f[Len(objects)]
<1> DEFINE size == Len(objects)
           Done == {n \in Nat : m + n <= size => f[m] \subseteq f[m + n]}
<1>1. 0 \in Done
  OBVIOUS
<1>2. ASSUME NEW n \in Nat, n \in Done PROVE n + 1 \in Done
  <2> SUFFICES ASSUME m + (n + 1) <= size PROVE f[m] \subseteq f[m + (n + 1)]
    OBVIOUS
  <2>1. f[m] \subseteq f[m + n]
    BY <1>2
  <2>2. m + (n + 1) \in 1..size /\ (m + (n + 1)) - 1 = m + n
    OBVIOUS
  <2>3. f[m + (n + 1)] = Round(objects, f[m + n])
    BY <2>2 DEF RoundsAre
  <2>4. f[m + n] \subseteq Round(objects, f[m + n])
    BY RoundFacts
  <2>5. QED
    BY <2>1, <2>3, <2>4
<1>3. Nat \subseteq Done
  <2> HIDE DEF Done
  <2>1. QED
    BY <1>1, <1>2, SetInduction
<1>4. size - m \in Nat /\ m + (size - m) = size
  OBVIOUS
<1>5. size - m \in Done
  <2> HIDE DEF Done
  <2>1. QED
    BY <1>3, <1>4
<1>6. QED
  BY <1>4, <1>5

LEMMA WithChildrenStaysIn ==
  ASSUME NEW objects, Len(objects) \in Nat, NEW family, NEW selected \in SUBSET family,
         \A n \in 1..Len(objects) : objects[n].parent_id \in family =>
                                      objects[n].id \in family
  PROVE  WithChildren(objects, selected) \in SUBSET family
<1>1. PICK f : /\ RoundsAre(f, objects, selected)
               /\ WithChildren(objects, selected) = f[Len(objects)]
  BY RoundsStates
<1> DEFINE size == Len(objects)
           Done == {n \in Nat : n <= size => f[n] \in SUBSET family}
<1>2. f[0] = selected /\ \A n \in 1..size : f[n] = Round(objects, f[n - 1])
  BY <1>1 DEF RoundsAre
<1>3. 0 \in Done
  BY <1>2
<1>4. ASSUME NEW n \in Nat, n \in Done PROVE n + 1 \in Done
  <2> SUFFICES ASSUME n + 1 <= size PROVE f[n + 1] \in SUBSET family
    OBVIOUS
  <2>1. f[n] \in SUBSET family
    BY <1>4
  <2>2. n + 1 \in 1..size /\ (n + 1) - 1 = n
    OBVIOUS
  <2>3. f[n + 1] = Round(objects, f[n])
    BY <1>2, <2>2
  <2>4. Round(objects, f[n]) \in SUBSET family
    BY <2>1, RoundStaysIn
  <2>5. QED
    BY <2>3, <2>4
<1>5. Nat \subseteq Done
  <2> HIDE DEF Done
  <2>1. QED
    BY <1>3, <1>4, SetInduction
<1>6. QED
  BY <1>1, <1>5

(* What a filter matches stays selected through all rounds.                *)
LEMMA WithChildrenKeeps ==
  ASSUME NEW objects, Len(objects) \in Nat, NEW selected
  PROVE  selected \subseteq WithChildren(objects, selected)
<1>1. PICK f : /\ RoundsAre(f, objects, selected)
               /\ WithChildren(objects, selected) = f[Len(objects)]
  BY RoundsStates
<1>2. 0 \in 0..Len(objects)
  OBVIOUS
<1>3. f[0] \subseteq f[Len(objects)]
  BY <1>1, <1>2, RoundsGrow
<1>4. QED
  BY <1>1, <1>3 DEF RoundsAre

(* In a snapshot that is valid, an id finds the one item that has it.      *)
LEMMA FindFacts ==
  ASSUME NEW S, NEW items \in Seq(S), Unique(items), NEW item \in Range(items)
  PROVE  Find(items, item.id) = item
<1>1. DOMAIN items = 1..Len(items) /\ Len(items) \in Nat
  OBVIOUS
<1>2. PICK i \in DOMAIN items : items[i] = item
  BY DEF Range
<1>3. Positions(items, item.id) = {i}
  BY <1>2 DEF Unique, Positions
<1>4. First({i}) = i
  <2>1. i \in Int
    BY <1>1, <1>2
  <2>2. \A j \in {i} : i <= j
    BY <2>1
  <2>3. \E k \in {i} : \A j \in {i} : k <= j
    BY <2>2
  <2>4. (CHOOSE k \in {i} : \A j \in {i} : k <= j) \in {i}
    BY <2>3, Zenon
  <2>5. QED
    BY <2>4, Zenon DEF First
<1>5. QED
  BY <1>2, <1>3, <1>4, Zenon DEF Find

-----------------------------------------------------------------------------
(* The objects of a valid snapshot, and the way up from each of them. *)

ObjectsAreValid(objects) ==
  /\ objects \in Seq(Object) /\ Unique(objects)
  /\ \A o \in Range(objects) : ObjectIsValid(objects, o)

LEMMA ObjectFacts ==
  ASSUME NEW objects, ObjectsAreValid(objects)
  PROVE  /\ Len(objects) \in Nat /\ DOMAIN objects = 1..Len(objects)
         /\ Range(objects) = {objects[n] : n \in 1..Len(objects)}
         /\ \A n \in 1..Len(objects) : objects[n] \in Range(objects)
         /\ \A o \in Range(objects) : o \in Object /\ o.id \in Ids(objects)
         /\ \A id \in Ids(objects) : \E o \in Range(objects) : id = o.id
         /\ \A id \in Ids(objects) : id \notin {Absent, Blank} /\ id \in Nat
         /\ \A o, p \in Range(objects) : o.id = p.id => o = p
         /\ \A o \in Range(objects) : Find(objects, o.id) = o
<1>1. Len(objects) \in Nat /\ DOMAIN objects = 1..Len(objects) /\ objects \in Seq(Object)
  BY DEF ObjectsAreValid
<1>2. Range(objects) = {objects[n] : n \in 1..Len(objects)}
  BY <1>1 DEF Range
<1>3. \A n \in 1..Len(objects) : objects[n] \in Range(objects) /\ objects[n] \in Object
  BY <1>1, <1>2
<1>4. Ids(objects) = {objects[n].id : n \in 1..Len(objects)}
  BY <1>1, Zenon DEF Ids
<1>5. \A o \in Range(objects) : o \in Object /\ o.id \in Ids(objects)
  BY <1>2, <1>3, <1>4
<1>6. \A id \in Ids(objects) : \E o \in Range(objects) : id = o.id
  BY <1>3, <1>4
<1>7. \A id \in Ids(objects) : id \notin {Absent, Blank} /\ id \in Nat
  BY <1>5, <1>6 DEF Object, Absent, Blank
<1>8. \A o, p \in Range(objects) : o.id = p.id => o = p
  BY <1>1, <1>2 DEF ObjectsAreValid, Unique
<1>9. \A o \in Range(objects) : Find(objects, o.id) = o
  BY FindFacts DEF ObjectsAreValid
<1>10. QED
  BY <1>1, <1>2, <1>3, <1>5, <1>6, <1>7, <1>8, <1>9

LEMMA ChainFacts ==
  ASSUME NEW objects, ObjectsAreValid(objects), NEW o \in Range(objects)
  PROVE  LET up == Chain(objects, o)
         IN  /\ DOMAIN up = 0..Len(objects) + 1
             /\ up[0] = o.id /\ up[1] = o.parent_id
             /\ \A n \in 2..Len(objects) + 1 :
                  up[n] = IF up[n - 1] \in Ids(objects)
                            THEN Find(objects, up[n - 1]).parent_id ELSE Absent
<1> DEFINE size == Len(objects) + 1
           none == Absent
           ids == Ids(objects)
           above(x) == Find(objects, x).parent_id
           T == {o.id, o.parent_id, none} \cup {above(x) : x \in ids}
           start == o.id
           next(n, t) == IF n = 1 THEN o.parent_id ELSE IF t \in ids THEN above(t) ELSE none
           step == [n \in Nat |-> [t \in T |-> next(n, t)]]
           Solves(f) == f = [n \in 0..size |->
                               CASE n = 0 -> o.id
                                 [] n = 1 -> o.parent_id
                                 [] OTHER -> IF f[n - 1] \in ids THEN above(f[n - 1]) ELSE none]
           chain == CHOOSE f : Solves(f)
<1>1. size \in Nat /\ 1 \in 0..size /\ 0 \in 0..size
  BY ObjectFacts
<1>2. start \in T /\ \A n, t : next(n, t) \in T
  OBVIOUS
<1> HIDE DEF size, none, ids, above, T
<1>3. step \in [Nat -> [T -> T]]
  BY <1>2
<1>4. PICK f : StatesOf(f, T, start, step, size)
  <2> HIDE DEF step, start
  <2>1. QED
    BY <1>1, <1>2, <1>3, LoopHasStates
<1>5. \A n \in 1..size : n \in Nat /\ n \in 0..size /\ n - 1 \in 0..size /\ n # 0
  BY <1>1
<1>6. \A n \in 1..size : step[n][f[n - 1]] = next(n, f[n - 1])
  <2> TAKE n \in 1..size
  <2>1. f[n - 1] \in T
    BY <1>4, <1>5 DEF StatesOf
  <2> HIDE DEF next
  <2>2. QED
    BY <1>5, <2>1
<1>7. Solves(f)
  <2>1. \A n \in 0..size : n # 0 => n \in 1..size
    BY <1>1
  <2>2. f = [n \in 0..size |-> f[n]]
    BY <1>4 DEF StatesOf
  <2>3. f[0] = o.id /\ \A n \in 1..size : f[n] = next(n, f[n - 1])
    <3> HIDE DEF step, next
    <3>1. QED
      BY <1>4, <1>6, Zenon DEF StatesOf
  <2>4. \A n \in 0..size : f[n] = CASE n = 0 -> o.id
                                    [] n = 1 -> o.parent_id
                                    [] OTHER -> IF f[n - 1] \in ids THEN above(f[n - 1]) ELSE none
    BY <2>1, <2>3
  <2>5. QED
    BY <2>2, <2>4
<1>8. Solves(chain)
  BY <1>7, Zenon
<1>9. Chain(objects, o) = chain
  BY Zenon DEF Chain, size, ids, above, none
<1> HIDE DEF chain
<1>10. /\ DOMAIN chain = 0..size /\ chain[0] = o.id /\ chain[1] = o.parent_id
       /\ \A n \in 2..size : chain[n] = IF chain[n - 1] \in ids THEN above(chain[n - 1]) ELSE none
  <2>1. \A n \in 2..size : n \in 0..size /\ n # 0 /\ n # 1
    BY <1>1
  <2>2. QED
    BY <1>1, <1>8, <2>1
<1>11. QED
  BY <1>9, <1>10, Zenon DEF size, ids, above, none

(* The way up from an object is the way up from its parent, one further.   *)
LEMMA ChainShift ==
  ASSUME NEW objects, ObjectsAreValid(objects),
         NEW o \in Range(objects), NEW p \in Range(objects), o.parent_id = p.id
  PROVE  \A n \in 0..Len(objects) : Chain(objects, o)[n + 1] = Chain(objects, p)[n]
<1> DEFINE size == Len(objects)
           low == Chain(objects, o)
           high == Chain(objects, p)
           above(x) == IF x \in Ids(objects) THEN Find(objects, x).parent_id ELSE Absent
           Done == {n \in Nat : n <= size => low[n + 1] = high[n]}
<1>1. size \in Nat /\ size >= 1
  BY ObjectFacts
<1>2. low[1] = o.parent_id /\ \A n \in 2..size + 1 : low[n] = above(low[n - 1])
  BY ChainFacts
<1>3. high[0] = p.id /\ high[1] = p.parent_id
      /\ \A n \in 2..size + 1 : high[n] = above(high[n - 1])
  BY ChainFacts
<1>4. above(p.id) = p.parent_id
  BY ObjectFacts
<1> HIDE DEF size, low, high, above
<1>5. 0 \in Done
  BY <1>2, <1>3
<1>6. ASSUME NEW n \in Nat, n \in Done PROVE n + 1 \in Done
  <2> SUFFICES ASSUME n + 1 <= size PROVE low[(n + 1) + 1] = high[n + 1]
    OBVIOUS
  <2>1. low[n + 1] = high[n]
    BY <1>1, <1>6
  <2>2. (n + 1) + 1 \in 2..size + 1 /\ ((n + 1) + 1) - 1 = n + 1
    BY <1>1
  <2>3. low[(n + 1) + 1] = above(high[n])
    BY <1>2, <2>1, <2>2
  <2>4. CASE n = 0
    BY <1>3, <1>4, <2>3, <2>4
  <2>5. CASE n # 0
    <3>1. n + 1 \in 2..size + 1 /\ (n + 1) - 1 = n
      BY <1>1, <2>5
    <3>2. QED
      BY <1>3, <2>3, <3>1
  <2>6. QED
    BY <2>4, <2>5
<1>7. Nat \subseteq Done
  <2> HIDE DEF Done
  <2>1. QED
    BY <1>5, <1>6, SetInduction
<1>8. \A n \in 0..size : low[n + 1] = high[n]
  BY <1>1, <1>7
<1>9. QED
  BY <1>8 DEF size, low, high

(* Below an object of the way up there are only objects.                   *)
LEMMA ChainInside ==
  ASSUME NEW objects, ObjectsAreValid(objects), NEW o \in Range(objects),
         NEW n \in 0..Len(objects) + 1, Chain(objects, o)[n] \in Ids(objects)
  PROVE  \A m \in 0..n : Chain(objects, o)[m] \in Ids(objects)
<1> DEFINE size == Len(objects) + 1
           up == Chain(objects, o)
           ids == Ids(objects)
           Done == {k \in Nat : k <= size /\ up[k] \in ids => \A m \in 0..k : up[m] \in ids}
<1>1. size \in Nat
  BY ObjectFacts
<1>2. up[0] \in ids
  BY ChainFacts, ObjectFacts
<1>3. \A k \in 2..size : up[k] \in ids => up[k - 1] \in ids
  <2>1. \A k \in 2..size : up[k - 1] \notin ids => up[k] = Absent
    BY ChainFacts, Zenon
  <2>2. Absent \notin ids
    BY ObjectFacts
  <2> HIDE DEF size, up, ids
  <2>3. QED
    BY <2>1, <2>2
<1> HIDE DEF size, up, ids
<1>4. 0 \in Done
  BY <1>2
<1>5. ASSUME NEW k \in Nat, k \in Done PROVE k + 1 \in Done
  <2> SUFFICES ASSUME k + 1 <= size, up[k + 1] \in ids, NEW m \in 0..k + 1
               PROVE  up[m] \in ids
    OBVIOUS
  <2>1. k = 0 \/ up[k] \in ids
    <3>1. CASE k # 0
      <4>1. k + 1 \in 2..size /\ (k + 1) - 1 = k
        BY <1>1, <3>1
      <4>2. QED
        BY <1>3, <4>1
    <3>2. QED
      BY <3>1
  <2>2. up[k] \in ids
    BY <1>2, <2>1
  <2>3. \A j \in 0..k : up[j] \in ids
    BY <1>1, <1>5, <2>2
  <2>4. m \in 0..k \/ m = k + 1
    OBVIOUS
  <2>5. QED
    BY <2>3, <2>4
<1>6. Nat \subseteq Done
  <2> HIDE DEF Done
  <2>1. QED
    BY <1>4, <1>5, SetInduction
<1>7. n \in Done /\ n <= size /\ up[n] \in ids
  <2>1. n \in Nat /\ n <= size
    BY <1>1 DEF size
  <2>2. QED
    BY <1>6, <2>1 DEF up, ids
<1>8. QED
  BY <1>7 DEF up, ids

(* There are no cycles, so the way up is shorter than the list of objects. *)
LEMMA ChainIsShort ==
  ASSUME NEW objects, ObjectsAreValid(objects), NEW o \in Range(objects),
         NEW n \in 0..Len(objects) + 1, Chain(objects, o)[n] \in Ids(objects)
  PROVE  n <= Len(objects) - 1
<1> DEFINE size == Len(objects)
           up == Chain(objects, o)
           ids == Ids(objects)
           way == [m \in 0..n |-> up[m]]
<1>1. size \in Nat /\ n \in Nat /\ n <= size + 1
  BY ObjectFacts
<1>2. \A m \in 0..n : up[m] \in ids
  BY ChainInside
<1>3. \A i, j \in 0..n : i < j => up[i] # up[j]
  <2>1. ~HasCycle(objects, o)
    BY Zenon DEF ObjectsAreValid, ObjectIsValid
  <2>2. \A i, j \in DOMAIN up : i < j /\ up[i] = up[j] => up[i] \in {Absent, Blank}
    BY <2>1, Zenon DEF HasCycle
  <2>3. DOMAIN up = 0..size + 1
    BY ChainFacts
  <2>4. \A id \in ids : id \notin {Absent, Blank}
    BY ObjectFacts
  <2>5. \A i \in 0..n : i \in 0..size + 1
    BY <1>1
  <2> HIDE DEF up, ids, size
  <2>6. QED
    BY <1>2, <2>2, <2>3, <2>4, <2>5
<1> HIDE DEF up
<1>4. IsFiniteSet(ids) /\ Cardinality(ids) <= size /\ Cardinality(ids) \in Nat
  <2> DEFINE idOf == [i \in 1..size |-> objects[i].id]
  <2>1. ids = {objects[i].id : i \in 1..size}
    BY ObjectFacts, Zenon DEF Ids
  <2>2. idOf \in [1..size -> ids] /\ \A t \in ids : \E i \in 1..size : idOf[i] = t
    BY <2>1
  <2> HIDE DEF idOf
  <2>3. idOf \in Surjection(1..size, ids)
    BY <2>2, Fun_IsSurj
  <2>4. IsFiniteSet(1..size) /\ Cardinality(1..size) = size
    <3>1. 1 \in Int /\ size \in Int /\ (1 > size => size = 0) /\ size - 1 + 1 = size
      BY <1>1
    <3> HIDE DEF size
    <3>2. Cardinality(1..size) = IF 1 > size THEN 0 ELSE size - 1 + 1
      BY <3>1, FS_Interval
    <3>3. IsFiniteSet(1..size)
      BY <3>1, FS_Interval
    <3>4. QED
      BY <3>1, <3>2, <3>3
  <2>5. QED
    BY <2>3, <2>4, FS_Surjection, FS_CardinalityType
<1>5. IsFiniteSet(0..n) /\ Cardinality(0..n) = n + 1
  BY <1>1, FS_Interval
<1>6. way \in [0..n -> ids]
  BY <1>2
<1>7. ASSUME n > size - 1 PROVE FALSE
  <2>1. Cardinality(ids) < Cardinality(0..n)
    BY <1>1, <1>4, <1>5, <1>7
  <2>2. PICK i \in 0..n, j \in 0..n : i # j /\ way[i] = way[j]
    <3> HIDE DEF way
    <3>1. QED
      BY <1>4, <1>5, <1>6, <2>1, FS_PigeonHole
  <2>3. up[i] = up[j] /\ (i < j \/ j < i)
    BY <2>2
  <2>4. QED
    BY <1>3, <2>3
<1>8. QED
  BY <1>1, <1>7

(* The rounds select what has something selected on its way up.            *)
LEMMA ExpansionFacts ==
  ASSUME NEW objects, ObjectsAreValid(objects), NEW selected \in SUBSET Ids(objects),
         NEW o \in Range(objects)
  PROVE  o.id \in WithChildren(objects, selected) <=>
           \E n \in DOMAIN Chain(objects, o) : Chain(objects, o)[n] \in selected
<1> DEFINE size == Len(objects)
           all == Range(objects)
           up(x) == Chain(objects, x)
           reaches(x) == \E n \in 0..size + 1 : up(x)[n] \in selected
           family == {x.id : x \in {y \in all : reaches(y)}}
<1>1. size \in Nat /\ 0 \in 0..size + 1
  BY ObjectFacts
<1>2. \A x \in all : up(x)[0] = x.id /\ up(x)[1] = x.parent_id /\ DOMAIN up(x) = 0..size + 1
  BY ChainFacts, Zenon
<1>3. \A x \in all : \A n \in 0..size + 1 : up(x)[n] \in selected => n <= size - 1
  BY ChainIsShort
<1>4. \A x, y \in all : x.parent_id = y.id => \A n \in 0..size : up(x)[n + 1] = up(y)[n]
  BY ChainShift
<1>5. \A id \in Ids(objects) : \E x \in all : id = x.id
  BY ObjectFacts
<1>6. \A x, y \in all : x.id = y.id => x = y
  BY ObjectFacts
<1>7. \A x \in all : x.id \in WithChildren(objects, selected) => reaches(x)
  <2> HIDE DEF up, all, size
  <2>1. selected \in SUBSET family
    <3>1. ASSUME NEW id \in selected PROVE id \in family
      <4>1. PICK x \in all : id = x.id
        BY <1>5
      <4>2. QED
        BY <1>1, <1>2, <4>1
    <3>2. QED
      BY <3>1
  <2>2. ASSUME NEW x \in all, x.parent_id \in family PROVE x.id \in family
    <3>1. PICK y \in all : reaches(y) /\ x.parent_id = y.id
      BY <2>2
    <3>2. PICK n \in 0..size + 1 : up(y)[n] \in selected
      BY <3>1
    <3>3. n \in 0..size /\ n + 1 \in 0..size + 1
      BY <1>1, <1>3, <3>2
    <3>4. up(x)[n + 1] \in selected
      BY <1>4, <3>1, <3>2, <3>3
    <3>5. reaches(x)
      BY <3>3, <3>4
    <3>6. QED
      BY <3>5
  <2> HIDE DEF family
  <2>3. \A n \in 1..size : objects[n].parent_id \in family => objects[n].id \in family
    BY <2>2, ObjectFacts DEF all, size
  <2>4. WithChildren(objects, selected) \in SUBSET family
    BY <1>1, <2>1, <2>3, WithChildrenStaysIn DEF size
  <2> HIDE DEF reaches
  <2>5. QED
    BY <1>6, <2>4 DEF family
<1>8. \A x \in all : reaches(x) => x.id \in WithChildren(objects, selected)
  <2>1. PICK f : RoundsAre(f, objects, selected) /\ WithChildren(objects, selected) = f[size]
    BY <1>1, RoundsStates
  <2> DEFINE Done == {n \in Nat : n <= size =>
                        \A x \in all : up(x)[n] \in selected => x.id \in f[n]}
  <2>2. f[0] = selected /\ \A n \in 1..size : f[n] = Round(objects, f[n - 1])
    BY <2>1 DEF RoundsAre
  <2>3. 0 \in Done
    BY <1>2, <2>2
  <2>4. ASSUME NEW n \in Nat, n \in Done PROVE n + 1 \in Done
    <3>0. n + 1 \in Nat
      OBVIOUS
    <3> SUFFICES ASSUME n + 1 <= size, NEW x \in all, up(x)[n + 1] \in selected
                 PROVE  x.id \in f[n + 1]
      BY <3>0, Zenon
    <3>1. n + 1 \in 1..size /\ (n + 1) - 1 = n /\ n \in 0..size /\ n + 1 \in 0..size + 1
          /\ 1 \in 0..n + 1
      BY <1>1
    <3>2. x.parent_id \in Ids(objects)
      <4>1. \A m \in 0..n + 1 : up(x)[m] \in Ids(objects)
        BY <3>1, ChainInside
      <4>2. QED
        BY <1>2, <3>1, <4>1
    <3>3. PICK y \in all : x.parent_id = y.id
      BY <1>5, <3>2
    <3> HIDE DEF up, all
    <3>4. up(y)[n] \in selected
      BY <1>4, <3>1, <3>3
    <3>5. x.parent_id \in f[n]
      BY <1>1, <2>4, <3>1, <3>3, <3>4
    <3>6. PICK k \in 1..size : x = objects[k]
      BY ObjectFacts DEF all
    <3>7. x.id \in Round(objects, f[n])
      BY <1>1, <3>5, <3>6, RoundFacts
    <3>8. QED
      BY <2>2, <3>1, <3>7
  <2>5. Nat \subseteq Done
    <3> HIDE DEF Done
    <3>1. QED
      BY <2>3, <2>4, SetInduction
  <2> SUFFICES ASSUME NEW x \in all, NEW n \in 0..size + 1, up(x)[n] \in selected
               PROVE  x.id \in f[size]
    BY <2>1
  <2>6. n \in 0..size
    BY <1>1, <1>3
  <2>7. x.id \in f[n]
    BY <1>1, <2>5, <2>6
  <2>8. f[n] \subseteq f[size]
    BY <1>1, <2>1, <2>6, RoundsGrow
  <2>9. QED
    BY <2>7, <2>8
<1>9. QED
  BY <1>2, <1>7, <1>8, Zenon

-----------------------------------------------------------------------------
(* The order of the lists. *)

Keyed(S) == \A x \in S : x.id \in Nat /\ x.code \in Nat

Before(S, x) == {y \in S : Precedes(y, x)}

LEMMA OrderFacts ==
  ASSUME NEW S, Keyed(S)
  PROVE  /\ \A x \in S : ~Precedes(x, x)
         /\ \A x, y, z \in S : Precedes(x, y) /\ Precedes(y, z) => Precedes(x, z)
         /\ \A x, y \in S : x.id # y.id => Precedes(x, y) \/ Precedes(y, x)
BY DEF Keyed, Precedes

(* What comes later has more before it.                                    *)
LEMMA RankGrows ==
  ASSUME NEW S, Keyed(S), IsFiniteSet(S), NEW x \in S, NEW y \in S, Precedes(x, y)
  PROVE  /\ Cardinality(Before(S, x)) \in Nat /\ Cardinality(Before(S, y)) \in Nat
         /\ Cardinality(Before(S, x)) < Cardinality(Before(S, y))
<1>1. Before(S, x) \subseteq Before(S, y) /\ Before(S, x) # Before(S, y)
  BY OrderFacts DEF Before
<1>2. IsFiniteSet(Before(S, y))
  <2>1. Before(S, y) \in SUBSET S
    BY DEF Before
  <2>2. QED
    BY <2>1, FS_Subset
<1> DEFINE low == Before(S, x)  high == Before(S, y)
<1>3. low \in SUBSET high /\ low # high /\ IsFiniteSet(high)
  BY <1>1, <1>2
<1> HIDE DEF low, high
<1>4. IsFiniteSet(low) /\ Cardinality(low) <= Cardinality(high)
      /\ Cardinality(low) # Cardinality(high)
  BY <1>3, FS_Subset
<1>5. Cardinality(low) \in Nat /\ Cardinality(high) \in Nat
  BY <1>3, <1>4, FS_CardinalityType
<1>6. QED
  BY <1>4, <1>5 DEF low, high

(* A list without repeated ids has as many items as it has members.        *)
LEMMA CountedOnce ==
  ASSUME NEW S, NEW items \in Seq(S), Unique(items)
  PROVE  /\ IsFiniteSet(Range(items)) /\ Cardinality(Range(items)) = Len(items)
         /\ \A x, y \in Range(items) : x.id = y.id => x = y
<1> DEFINE size == Len(items)
<1>1. size \in Nat /\ DOMAIN items = 1..size /\ items = [i \in 1..size |-> items[i]]
  OBVIOUS
<1>2. Range(items) = {items[i] : i \in 1..size}
  BY <1>1 DEF Range
<1>3. \A i, j \in 1..size : items[i].id = items[j].id => i = j
  BY <1>1 DEF Unique
<1>4. \A x, y \in Range(items) : x.id = y.id => x = y
  BY <1>2, <1>3
<1>5. items \in Bijection(1..size, Range(items))
  <2> DEFINE R == Range(items)
  <2>1. items \in [1..size -> R]
    BY <1>1, <1>2
  <2>2. \A a, b \in 1..size : items[a] = items[b] => a = b
    BY <1>3
  <2>3. \A t \in R : \E s \in 1..size : items[s] = t
    BY <1>2
  <2> HIDE DEF size, R
  <2>4. QED
    BY <2>1, <2>2, <2>3, Fun_IsBij DEF R
<1>6. ExistsBijection(1..size, Range(items))
  BY <1>5, Zenon DEF ExistsBijection
<1> HIDE DEF size
<1>7. Cardinality(Range(items)) = size /\ IsFiniteSet(Range(items))
  BY <1>1, <1>6, FS_CountingElements, FS_NatBijection
<1>8. QED
  BY <1>4, <1>7 DEF size

(* Sorting puts each item where it has all the smaller ones before it, and *)
(* loses none.                                                             *)
LEMMA SortedFacts ==
  ASSUME NEW S, Keyed(S), NEW items \in Seq(S), Unique(items)
  PROVE  /\ Len(Sorted(items)) = Len(items)
         /\ Sorted(items) \in Seq(Range(items)) /\ Range(Sorted(items)) = Range(items)
         /\ \A k \in 1..Len(items) :
              Cardinality(Before(Range(items), Sorted(items)[k])) = k - 1
         /\ \A i, j \in 1..Len(items) : i < j => Precedes(Sorted(items)[i], Sorted(items)[j])
<1> DEFINE size == Len(items)
           R == Range(items)
           full == Sorted(items)
           count(x) == Cardinality(Before(R, x))
           places == 0..size - 1
           rank == [x \in R |-> count(x)]
<1>1. size \in Nat /\ DOMAIN items = 1..size /\ R \subseteq S
  BY DEF Range
<1>2. IsFiniteSet(R) /\ Cardinality(R) = size /\ \A x, y \in R : x.id = y.id => x = y
  BY CountedOnce
<1>3. Keyed(R)
  BY <1>1 DEF Keyed
<1> HIDE DEF size, R
<1>4. \A x \in R : count(x) \in Nat /\ count(x) \in places
  <2> SUFFICES ASSUME NEW x \in R PROVE count(x) \in Nat /\ count(x) \in places
    OBVIOUS
  <2> DEFINE low == Before(R, x)
  <2>1. low \in SUBSET R /\ low # R
    BY <1>3, OrderFacts DEF Before
  <2> HIDE DEF low
  <2>2. IsFiniteSet(low) /\ Cardinality(low) <= size /\ Cardinality(low) # size
    BY <1>2, <2>1, FS_Subset
  <2>3. Cardinality(low) \in Nat
    BY <2>2, FS_CardinalityType
  <2>4. QED
    BY <1>1, <2>2, <2>3 DEF low
<1>5. \A x, y \in R : Precedes(x, y) => count(x) < count(y)
  BY <1>2, <1>3, RankGrows
<1> HIDE DEF count
<1>6. \A x, y \in R : count(x) = count(y) => x = y
  <2> SUFFICES ASSUME NEW x \in R, NEW y \in R, count(x) = count(y), x # y PROVE FALSE
    OBVIOUS
  <2>1. x.id # y.id
    BY <1>2
  <2>2. Precedes(x, y) \/ Precedes(y, x)
    BY <1>3, <2>1, OrderFacts
  <2>3. count(x) < count(y) \/ count(y) < count(x)
    BY <1>5, <2>2
  <2>4. QED
    BY <1>4, <2>3
<1>7. rank \in Injection(R, places)
  <2>1. rank \in [R -> places] /\ \A a, b \in R : rank[a] = rank[b] => a = b
    BY <1>4, <1>6
  <2> HIDE DEF rank
  <2>2. QED
    BY <2>1, Fun_IsInj
<1>8. IsFiniteSet(places) /\ Cardinality(places) = size
  <2>1. 0 \in Int /\ size - 1 \in Int
    BY <1>1
  <2>2. IsFiniteSet(places)
    BY <2>1, FS_Interval
  <2>3. Cardinality(places) = IF 0 > size - 1 THEN 0 ELSE (size - 1) - 0 + 1
    BY <2>1, FS_Interval
  <2>4. QED
    BY <1>1, <2>2, <2>3
<1>9. \A k \in places : \E x \in R : count(x) = k
  <2> HIDE DEF rank, places
  <2>1. rank \in Surjection(R, places)
    BY <1>2, <1>7, <1>8, FS_Injection
  <2>2. \A k \in places : \E x \in R : rank[x] = k
    BY <2>1, Fun_SurjectionProperties
  <2>3. QED
    BY <2>2 DEF rank
<1>10. full = [k \in 1..size |-> CHOOSE x \in R : count(x) = k - 1]
  BY <1>1, Zenon DEF Sorted, Before, R, count
<1> HIDE DEF full
<1>11. \A k \in 1..size : full[k] \in R /\ count(full[k]) = k - 1
  <2> SUFFICES ASSUME NEW k \in 1..size PROVE full[k] \in R /\ count(full[k]) = k - 1
    OBVIOUS
  <2>1. k - 1 \in places
    BY <1>1
  <2>2. \E x \in R : count(x) = k - 1
    BY <1>9, <2>1
  <2>3. full[k] = CHOOSE x \in R : count(x) = k - 1
    BY <1>10
  <2>4. QED
    BY <2>2, <2>3, Zenon
<1>12. full \in Seq(R) /\ Len(full) = size /\ DOMAIN full = 1..size
  BY <1>1, <1>10, <1>11
<1>13. Range(full) = R
  <2>1. Range(full) = {full[k] : k \in 1..size}
    BY <1>12 DEF Range
  <2>2. ASSUME NEW x \in R PROVE x \in Range(full)
    <3>1. count(x) + 1 \in 1..size
      BY <1>1, <1>4
    <3>2. count(full[count(x) + 1]) = count(x) /\ full[count(x) + 1] \in R
      BY <1>4, <1>11, <3>1
    <3>3. full[count(x) + 1] = x
      BY <1>6, <3>2
    <3>4. QED
      BY <2>1, <3>1, <3>3
  <2>3. QED
    BY <1>11, <2>1, <2>2
<1>14. ASSUME NEW i \in 1..size, NEW j \in 1..size, i < j
       PROVE  Precedes(full[i], full[j])
  <2>1. full[i] \in R /\ full[j] \in R /\ count(full[i]) < count(full[j])
    BY <1>1, <1>11, <1>14
  <2>2. full[i] # full[j] /\ ~Precedes(full[j], full[i])
    BY <1>4, <1>5, <2>1
  <2>3. full[i].id # full[j].id
    BY <1>2, <2>1, <2>2
  <2>4. QED
    BY <1>3, <2>1, <2>2, <2>3, OrderFacts
<1>15. QED
  BY <1>11, <1>12, <1>13, <1>14 DEF full, R, size, count

-----------------------------------------------------------------------------
(* What a list selects of a valid snapshot is what the query asks for. *)

Items(list) ==
  CASE list = "objects" -> Object [] list = "devices" -> Device [] list = "tags" -> Tag

LEMMA StoredFacts ==
  ASSUME snapshot \in Snapshot, NEW q \in Query
  PROVE  /\ q.list \in {"objects", "devices", "tags"}
         /\ snapshot[q.list] \in Seq(Items(q.list))
         /\ Keyed(Items(q.list))
<1>1. q.list \in {"objects", "devices", "tags"}
  BY DEF Query
<1>2. Keyed(Object) /\ Keyed(Device) /\ Keyed(Tag)
  BY DEF Keyed, Object, Device, Tag
<1>3. /\ snapshot["objects"] \in Seq(Object) /\ snapshot["devices"] \in Seq(Device)
      /\ snapshot["tags"] \in Seq(Tag)
  BY DEF Snapshot
<1>4. QED
  BY <1>1, <1>2, <1>3 DEF Items

LEMMA ValidObjects ==
  ASSUME snapshot \in Snapshot, SnapshotIsValid(snapshot)
  PROVE  ObjectsAreValid(snapshot.objects)
<1>1. snapshot.objects \in Seq(Object)
  BY DEF Snapshot
<1>2. QED
  BY <1>1, Zenon DEF SnapshotIsValid, ObjectsAreValid

(* The objects that are listed, with and without their children.           *)
LEMMA ObjectsAsked ==
  ASSUME snapshot \in Snapshot, SnapshotIsValid(snapshot), NEW q, q.list = "objects"
  PROVE  LET matching == {o.id : o \in {x \in Range(snapshot.objects) : ObjectMatches(x, q)}}
             ids == IF q.include_children THEN WithChildren(snapshot.objects, matching)
                                          ELSE matching
         IN  {o \in Range(snapshot.objects) : o.id \in ids} = Asked(q)
<1> DEFINE objects == snapshot.objects
           all == Range(objects)
           matches(x) == ObjectMatches(x, q)
           matching == {o.id : o \in {x \in all : matches(x)}}
           ids == IF q.include_children THEN WithChildren(objects, matching) ELSE matching
<1>1. ObjectsAreValid(objects)
  BY ValidObjects
<1>2. /\ \A o, p \in all : o.id = p.id => o = p
      /\ \A o \in all : o.id \in Ids(objects)
  BY <1>1, ObjectFacts
<1>3. Asked(q) = {o \in all : \E x \in IF q.include_children THEN Ancestors(o) ELSE {o} :
                                matches(x)}
  BY Zenon DEF Asked
<1> HIDE DEF matches, all
<1>4. CASE q.include_children
  <2>1. matching \in SUBSET Ids(objects)
    BY <1>2
  <2>2. ASSUME NEW o \in all
        PROVE  o.id \in WithChildren(objects, matching) <=>
                 \E n \in DOMAIN Chain(objects, o) : Chain(objects, o)[n] \in matching
    <3> HIDE DEF matching, objects
    <3>1. QED
      BY <1>1, <2>1, ExpansionFacts DEF all
  <2>3. ASSUME NEW o \in all
        PROVE  (\E n \in DOMAIN Chain(objects, o) : Chain(objects, o)[n] \in matching)
                 <=> \E x \in Ancestors(o) : matches(x)
    <3>1. Ancestors(o) = {x \in all : \E n \in DOMAIN Chain(objects, o) :
                                        Chain(objects, o)[n] = x.id}
      BY Zenon DEF Ancestors, all
    <3> HIDE DEF objects
    <3>2. QED
      BY <3>1
  <2>4. Asked(q) = {o \in all : \E x \in Ancestors(o) : matches(x)}
    BY <1>3, <1>4
  <2>5. ids = WithChildren(objects, matching)
    BY <1>4
  <2> HIDE DEF matching, ids
  <2>6. {o \in all : o.id \in ids} = Asked(q)
    BY <2>2, <2>3, <2>4, <2>5
  <2>7. QED
    BY <2>6, Zenon DEF ids, matching, matches, all
<1>5. CASE ~q.include_children
  <2>1. \A o \in all : o.id \in matching <=> matches(o)
    BY <1>2
  <2>2. Asked(q) = {o \in all : matches(o)}
    BY <1>3, <1>5
  <2>3. {o \in all : o.id \in ids} = {o \in all : o.id \in matching}
    BY <1>5
  <2> HIDE DEF matching, ids
  <2>4. {o \in all : o.id \in ids} = Asked(q)
    BY <2>1, <2>2, <2>3
  <2>5. QED
    BY <2>4, Zenon DEF ids, matching, matches, all
<1>6. QED
  BY <1>4, <1>5

LEMMA SelectFacts ==
  ASSUME snapshot \in Snapshot, SnapshotIsValid(snapshot), NEW q \in Query
  PROVE  /\ Select(snapshot, q) \in Seq(Items(q.list))
         /\ Unique(Select(snapshot, q))
         /\ Range(Select(snapshot, q)) = Asked(q)
         /\ Len(Select(snapshot, q)) <= Len(snapshot[q.list])
         /\ Asked(q) \subseteq Range(snapshot[q.list])
<1> DEFINE stored == snapshot[q.list]
<1>1. stored \in Seq(Items(q.list)) /\ q.list \in {"objects", "devices", "tags"}
  BY StoredFacts
<1>2. Unique(stored)
  BY <1>1 DEF SnapshotIsValid
<1>3. /\ Select(snapshot, q) = Chosen(stored, Asked(q))
      /\ Asked(q) \subseteq Range(stored)
  <2>1. CASE q.list = "objects"
    <3>1. Asked(q) \subseteq Range(snapshot.objects)
      BY <2>1, Zenon DEF Asked
    <3>2. Select(snapshot, q) = SelectObjects(snapshot.objects, q)
      BY <2>1, Zenon DEF Select
    <3>3. SelectObjects(snapshot.objects, q) = Chosen(snapshot.objects, Asked(q))
      BY <2>1, ObjectsAsked, Zenon DEF SelectObjects
    <3>4. QED
      BY <2>1, <3>1, <3>2, <3>3
  <2>2. CASE q.list = "devices"
    <3>1. Asked(q) = {d \in Range(snapshot.devices) : DeviceMatches(d, q)}
      BY <2>2 DEF Asked
    <3>2. Select(snapshot, q) =
            Chosen(snapshot.devices, {d \in Range(snapshot.devices) : DeviceMatches(d, q)})
      BY <2>2 DEF Select
    <3>3. QED
      BY <2>2, <3>1, <3>2
  <2>3. CASE q.list = "tags"
    <3>1. Asked(q) = {t \in Range(snapshot.tags) : TagMatches(t, q)}
      BY <2>3 DEF Asked
    <3>2. Select(snapshot, q) =
            Chosen(snapshot.tags, {t \in Range(snapshot.tags) : TagMatches(t, q)})
      BY <2>3 DEF Select
    <3>3. QED
      BY <2>3, <3>1, <3>2
  <2>4. QED
    BY <1>1, <2>1, <2>2, <2>3
<1> HIDE DEF stored
<1>4. /\ Chosen(stored, Asked(q)) \in Seq(Items(q.list))
      /\ Range(Chosen(stored, Asked(q))) = Range(stored) \cap Asked(q)
      /\ Len(Chosen(stored, Asked(q))) <= Len(stored)
      /\ Unique(Chosen(stored, Asked(q)))
  BY <1>1, <1>2, ChosenFacts
<1>5. QED
  BY <1>3, <1>4 DEF stored

-----------------------------------------------------------------------------
(* A read model has the id and the code of its item, so lists of read      *)
(* models are in the order of their items.                                 *)
LEMMA ReadModelFacts ==
  ASSUME NEW list \in {"objects", "devices", "tags"}, NEW item
  PROVE  ToReadModel(list, item).id = item.id /\ ToReadModel(list, item).code = item.code
BY DEF ToReadModel, ObjectReadModel, DeviceReadModel, TagReadModel

LEMMA ReadModelsFacts ==
  ASSUME NEW list \in {"objects", "devices", "tags"}, NEW items \in Seq(Items(list)),
         Keyed(Items(list)), Unique(items)
  PROVE  LET models == ReadModels(list, items)
         IN  /\ Len(models) = Len(items) /\ models \in Seq(Range(models))
             /\ Keyed(Range(models)) /\ Unique(models)
             /\ Range(models) = {ToReadModel(list, x) : x \in Range(items)}
             /\ \A x \in Range(items) :
                  Cardinality(Before(Range(models), ToReadModel(list, x)))
                    = Cardinality(Before(Range(items), x))
<1> DEFINE size == Len(items)
           model(x) == ToReadModel(list, x)
           models == ReadModels(list, items)
           R == Range(items)
           M == Range(models)
<1>1. /\ size \in Nat /\ DOMAIN items = 1..size
      /\ \A i \in 1..size : items[i] \in Items(list)
  OBVIOUS
<1>2. models = [i \in 1..size |-> model(items[i])]
  BY <1>1, Zenon DEF ReadModels
<1>3. \A x : model(x).id = x.id /\ model(x).code = x.code
  BY ReadModelFacts
<1> HIDE DEF size, model, models
<1>4. Len(models) = size /\ DOMAIN models = 1..size
  BY <1>1, <1>2
<1>5. M = {models[i] : i \in 1..size} /\ R = {items[i] : i \in 1..size}
  BY <1>1, <1>4 DEF Range
<1>6. models \in Seq(M)
  BY <1>2, <1>4, <1>5, <1>1
<1>7. M = {model(x) : x \in R}
  BY <1>2, <1>5
<1>8. \A x \in R : x.id \in Nat /\ x.code \in Nat
  BY <1>1, <1>5 DEF Keyed
<1>9. Keyed(M)
  BY <1>3, <1>7, <1>8 DEF Keyed
<1>10. Unique(models)
  <2>1. \A i, j \in 1..size : items[i].id = items[j].id => i = j
    BY <1>1 DEF Unique
  <2>2. \A i \in 1..size : models[i].id = items[i].id
    BY <1>2, <1>3
  <2>3. QED
    BY <1>4, <2>1, <2>2 DEF Unique
<1>11. IsFiniteSet(R) /\ \A x, y \in R : x.id = y.id => x = y
  BY CountedOnce
<1>12. ASSUME NEW x \in R PROVE Cardinality(Before(M, model(x))) = Cardinality(Before(R, x))
  <2> DEFINE low == Before(R, x)
             lower == Before(M, model(x))
             image == [y \in low |-> model(y)]
  <2> HIDE DEF R, M
  <2>1. low \in SUBSET R
    BY DEF Before
  <2>2. \A y : Precedes(model(y), model(x)) <=> Precedes(y, x)
    BY <1>3 DEF Precedes
  <2>3. lower = {model(y) : y \in low}
    BY <1>7, <2>2 DEF Before
  <2>4. \A a, b \in low : model(a) = model(b) => a = b
    <3>1. \A a, b \in low : model(a) = model(b) => a.id = b.id
      BY <1>3
    <3> HIDE DEF low
    <3>2. QED
      BY <1>11, <2>1, <3>1
  <2> HIDE DEF low, lower
  <2>5. IsFiniteSet(low)
    BY <1>11, <2>1, FS_Subset
  <2>6. image \in [low -> lower] /\ (\A a, b \in low : image[a] = image[b] => a = b)
        /\ \A t \in lower : \E s \in low : image[s] = t
    BY <2>3, <2>4
  <2> HIDE DEF image
  <2>7. image \in Bijection(low, lower)
    BY <2>6, Fun_IsBij
  <2>8. ExistsBijection(low, lower)
    BY <2>7, Zenon DEF ExistsBijection
  <2>9. Cardinality(lower) = Cardinality(low)
    BY <2>5, <2>8, FS_Bijection
  <2>10. QED
    BY <2>9 DEF low, lower
<1>13. QED
  BY <1>4, <1>6, <1>7, <1>9, <1>10, <1>12 DEF size, models, model

(* The whole list a walk reads its pages from.                             *)
Full == Sorted(ReadModels(query.list, Select(snapshot, query)))

LEMMA FullFacts ==
  ASSUME snapshot \in Snapshot, SnapshotIsValid(snapshot), query \in Query
  PROVE  /\ Full \in Seq(Range(Full)) /\ Len(Full) = Cardinality(Asked(query))
         /\ Len(Full) \in Nat /\ Len(Full) <= Len(snapshot[query.list])
         /\ Range(Full) = {ToReadModel(query.list, x) : x \in Asked(query)}
         /\ Range(Full) \subseteq Range(ReadModels(query.list, snapshot[query.list]))
         /\ \A i, j \in 1..Len(Full) : i < j => Precedes(Full[i], Full[j])
         /\ \A k \in 1..Len(Full), x \in Asked(query) :
              Full[k] = ToReadModel(query.list, x) => Cardinality(Before(Asked(query), x)) = k - 1
<1> DEFINE list == query.list
           items == Select(snapshot, query)
           models == ReadModels(list, items)
           asked == Asked(query)
           model(x) == ToReadModel(list, x)
           stored == snapshot[list]
<1>1. /\ items \in Seq(Items(list)) /\ Unique(items) /\ Range(items) = asked
      /\ Len(items) <= Len(stored) /\ asked \subseteq Range(stored)
  BY SelectFacts
<1>2. list \in {"objects", "devices", "tags"} /\ Keyed(Items(list)) /\ stored \in Seq(Items(list))
  BY StoredFacts
<1> HIDE DEF list, items
<1>3. /\ Len(models) = Len(items) /\ models \in Seq(Range(models))
      /\ Keyed(Range(models)) /\ Unique(models)
      /\ Range(models) = {model(x) : x \in asked}
      /\ \A x \in asked : Cardinality(Before(Range(models), model(x)))
                            = Cardinality(Before(asked, x))
  BY <1>1, <1>2, ReadModelsFacts
<1> HIDE DEF models, asked
<1>4. Full = Sorted(models)
  BY Zenon DEF Full, models, items, list
<1> DEFINE R == Range(models)
<1>5. /\ Len(Full) = Len(models) /\ Full \in Seq(R) /\ Range(Full) = R
      /\ \A k \in 1..Len(models) : Cardinality(Before(R, Full[k])) = k - 1
      /\ \A i, j \in 1..Len(models) : i < j => Precedes(Full[i], Full[j])
  BY <1>3, <1>4, SortedFacts
<1>6. Cardinality(asked) = Len(items) /\ Len(items) \in Nat
  BY <1>1, CountedOnce
<1>7. \A k \in 1..Len(Full), x \in asked :
        Full[k] = model(x) => Cardinality(Before(asked, x)) = k - 1
  <2> HIDE DEF R, model
  <2>1. QED
    BY <1>3, <1>5 DEF R
<1>8. R \subseteq Range(ReadModels(list, stored))
  <2>1. DOMAIN stored = DOMAIN ReadModels(list, stored)
        /\ \A i \in DOMAIN stored : ReadModels(list, stored)[i] = model(stored[i])
    BY DEF ReadModels
  <2>2. Range(stored) = {stored[i] : i \in DOMAIN stored}
        /\ Range(ReadModels(list, stored)) = {ReadModels(list, stored)[i] : i \in DOMAIN stored}
    BY <2>1 DEF Range
  <2> HIDE DEF model, stored
  <2>3. QED
    BY <1>1, <1>3, <2>1, <2>2
<1>9. QED
  BY <1>1, <1>3, <1>5, <1>6, <1>7, <1>8 DEF asked, list

LEMMA StretchFacts ==
  ASSUME NEW T, NEW s \in Seq(T), NEW a \in 0..Len(s), NEW b \in a..Len(s)
  PROVE  /\ SubSeq(s, a + 1, b) \in Seq(T) /\ Len(SubSeq(s, a + 1, b)) = b - a
         /\ \A i \in 1..(b - a) : SubSeq(s, a + 1, b)[i] = s[a + i]
OBVIOUS

(* A page has the items from its offset on, and no item twice.             *)
LEMMA PageFacts ==
  ASSUME snapshot \in Snapshot, SnapshotIsValid(snapshot), query \in Query, NEW from \in Nat
  PROVE  LET page == ReadList(snapshot, query, from)
             asked == Asked(query)
             places == from..(from + NormalizedLimit(query.limit) - 1)
         IN  /\ page.items \in Seq(Range(Full)) /\ page.total = Cardinality(asked)
             /\ Range(page.items) =
                  {ToReadModel(query.list, x) :
                     x \in {y \in asked : Cardinality(Before(asked, y)) \in places}}
             /\ Unique(page.items)
<1> DEFINE list == query.list
           n == Len(Full)
           limit == NormalizedLimit(query.limit)
           asked == Asked(query)
           rank(x) == Cardinality(Before(asked, x))
           model(x) == ToReadModel(list, x)
           start == Least(from, n)
           end == Least(start + limit, n)
           items == SubSeq(Full, start + 1, end)
           page == ReadList(snapshot, query, from)
<1>1. /\ Full \in Seq(Range(Full)) /\ n = Cardinality(asked) /\ n \in Nat
      /\ Range(Full) = {model(x) : x \in asked}
      /\ \A k \in 1..n, x \in asked : Full[k] = model(x) => rank(x) = k - 1
  BY FullFacts
<1>2. page.items = items /\ page.total = n
  <2>1. page = Paginate(Full, from, query.limit)
    BY Zenon DEF ReadList, Full
  <2>2. page = [items |-> items, total |-> n, offset |-> start, has_more |-> end < n]
    BY <2>1, Zenon DEF Paginate
  <2> HIDE DEF page, items, start, end
  <2>3. QED
    BY <2>2
<1>3. limit \in Nat /\ limit >= 1
  BY LimitAssumption DEF NormalizedLimit, Least, Query
<1>4. /\ start \in 0..n /\ end \in start..n
      /\ \A k \in 1..n : k \in (start + 1)..end <=> k - 1 \in from..(from + limit - 1)
  BY <1>1, <1>3 DEF Least
<1> HIDE DEF limit, start, end, n
<1>5. /\ items \in Seq(Range(Full)) /\ Len(items) = end - start
      /\ \A i \in 1..(end - start) : items[i] = Full[start + i]
  <2>1. start \in 0..Len(Full) /\ end \in start..Len(Full)
    BY <1>4 DEF n
  <2> HIDE DEF items
  <2>2. PICK T, s : s \in Seq(T) /\ s = Full /\ T = Range(Full)
    BY <1>1, Zenon
  <2>3. s \in Seq(T) /\ start \in 0..Len(s) /\ end \in start..Len(s)
    BY <2>1, <2>2
  <2>4. /\ SubSeq(s, start + 1, end) \in Seq(T) /\ Len(SubSeq(s, start + 1, end)) = end - start
        /\ \A i \in 1..(end - start) : SubSeq(s, start + 1, end)[i] = s[start + i]
    BY <2>3, StretchFacts
  <2>5. QED
    BY <2>2, <2>4 DEF items
<1>6. DOMAIN items = 1..(end - start)
  BY <1>5
<1>7. \A k \in (start + 1)..end : k \in 1..n
  BY <1>1, <1>4
<1>8. \A k \in 1..n : Full[k] \in Range(Full)
  BY <1>1 DEF n, Range
<1>9. Range(items) = {Full[k] : k \in (start + 1)..end}
  <2>1. Range(items) = {Full[start + i] : i \in 1..(end - start)}
    BY <1>5, <1>6 DEF Range
  <2>2. \A k \in (start + 1)..end : k - start \in 1..(end - start) /\ start + (k - start) = k
    BY <1>1, <1>4
  <2>3. \A i \in 1..(end - start) : start + i \in (start + 1)..end
    BY <1>1, <1>4
  <2>4. {Full[start + i] : i \in 1..(end - start)} \subseteq {Full[k] : k \in (start + 1)..end}
    BY <2>3
  <2>5. \A k \in (start + 1)..end : Full[k] \in {Full[start + i] : i \in 1..(end - start)}
    BY <2>2, Zenon
  <2>6. QED
    BY <2>1, <2>4, <2>5
<1> HIDE DEF items
<1>10. Range(items) = {model(x) : x \in {y \in asked : rank(y) \in from..(from + limit - 1)}}
  <2>1. \A k \in (start + 1)..end : \E x \in asked : Full[k] = model(x) /\ rank(x) = k - 1
    <3> HIDE DEF model, rank, asked
    <3>1. QED
      BY <1>1, <1>7, <1>8
  <2>2. ASSUME NEW x \in asked, rank(x) \in from..(from + limit - 1)
        PROVE  \E k \in (start + 1)..end : Full[k] = model(x)
    <3> HIDE DEF model, rank, asked
    <3>1. model(x) \in Range(Full)
      BY <1>1
    <3>2. PICK k \in 1..n : Full[k] = model(x)
      <4>1. DOMAIN Full = 1..n
        BY <1>1 DEF n
      <4>2. QED
        BY <3>1, <4>1 DEF Range
    <3>3. k - 1 \in from..(from + limit - 1)
      BY <1>1, <2>2, <3>2
    <3>4. QED
      BY <1>4, <3>2, <3>3
  <2> HIDE DEF model, rank, asked
  <2>3. \A k \in (start + 1)..end : k - 1 \in from..(from + limit - 1)
    BY <1>4, <1>7
  <2>4. QED
    BY <1>9, <2>1, <2>2, <2>3
<1>11. Unique(items)
  <2>1. \A x, y \in asked : x.id = y.id => x = y
    BY SelectFacts, CountedOnce DEF asked
  <2>2. list \in {"objects", "devices", "tags"}
    BY StoredFacts
  <2>3. \A x : model(x).id = x.id
    BY <2>2, ReadModelFacts
  <2> SUFFICES ASSUME NEW i \in 1..(end - start), NEW j \in 1..(end - start),
                      items[i].id = items[j].id
               PROVE  i = j
    BY <1>6 DEF Unique
  <2>4. start + i \in 1..n /\ start + j \in 1..n
    BY <1>1, <1>4
  <2> HIDE DEF model, rank, asked
  <2>5. PICK x \in asked : Full[start + i] = model(x)
    BY <1>1, <1>8, <2>4
  <2>6. PICK y \in asked : Full[start + j] = model(y)
    BY <1>1, <1>8, <2>4
  <2>7. x = y
    BY <1>5, <2>1, <2>3, <2>5, <2>6
  <2>8. QED
    BY <1>1, <1>4, <2>4, <2>5, <2>6, <2>7
<1>12. QED
  BY <1>1, <1>2, <1>5, <1>10, <1>11 DEF limit, n
-----------------------------------------------------------------------------
(* The tree of a valid snapshot: its paths are the ways up, read downward. *)

(* No id is met twice on the way up.                                       *)
LEMMA ChainDistinct ==
  ASSUME NEW objects, ObjectsAreValid(objects), NEW o \in Range(objects),
         NEW i \in 0..Len(objects) + 1, NEW j \in 0..Len(objects) + 1, i < j,
         Chain(objects, o)[i] \in Ids(objects)
  PROVE  Chain(objects, o)[i] # Chain(objects, o)[j]
<1>1. ~HasCycle(objects, o)
  BY Zenon DEF ObjectsAreValid, ObjectIsValid
<1> DEFINE up == Chain(objects, o)
<1>2. \A k, n \in DOMAIN up : k < n /\ up[k] = up[n] => up[k] \in {Absent, Blank}
  BY <1>1, Zenon DEF HasCycle
<1>3. DOMAIN up = 0..Len(objects) + 1 /\ up[i] \notin {Absent, Blank}
  BY ChainFacts, ObjectFacts
<1> HIDE DEF up
<1>4. up[i] # up[j]
  BY <1>2, <1>3
<1>5. QED
  BY <1>4 DEF up

(* From an object on the way up, the way goes on as its own.               *)
LEMMA ChainGoesOn ==
  ASSUME NEW objects, ObjectsAreValid(objects),
         NEW o \in Range(objects), NEW a \in Range(objects),
         NEW k \in 0..Len(objects) + 1, Chain(objects, o)[k] = a.id
  PROVE  \A m \in 0..(Len(objects) + 1 - k) :
           Chain(objects, o)[k + m] = Chain(objects, a)[m]
<1> DEFINE size == Len(objects)
           low == Chain(objects, o)
           high == Chain(objects, a)
           above(x) == IF x \in Ids(objects) THEN Find(objects, x).parent_id ELSE Absent
           Done == {m \in Nat : k + m <= size + 1 => low[k + m] = high[m]}
<1>1. size \in Nat /\ size >= 1
  BY ObjectFacts
<1>2. /\ low[0] = o.id /\ low[1] = o.parent_id
      /\ \A n \in 2..size + 1 : low[n] = above(low[n - 1])
  BY ChainFacts
<1>3. /\ high[0] = a.id /\ high[1] = a.parent_id
      /\ \A n \in 2..size + 1 : high[n] = above(high[n - 1])
  BY ChainFacts
<1>4. above(a.id) = a.parent_id /\ above(o.id) = o.parent_id
  BY ObjectFacts
<1>5. low[k] = a.id /\ k \in 0..size + 1
  OBVIOUS
<1> HIDE DEF size, low, high, above
<1>6. \A n \in 1..size + 1 : low[n] = above(low[n - 1]) /\ high[n] = above(high[n - 1])
  <2> SUFFICES ASSUME NEW n \in 1..size + 1
               PROVE  low[n] = above(low[n - 1]) /\ high[n] = above(high[n - 1])
    OBVIOUS
  <2>1. CASE n = 1
    BY <1>2, <1>3, <1>4, <2>1
  <2>2. CASE n # 1
    <3>1. n \in 2..size + 1
      BY <1>1, <2>2
    <3>2. QED
      BY <1>2, <1>3, <3>1
  <2>3. QED
    BY <2>1, <2>2
<1>7. 0 \in Done
  BY <1>1, <1>3, <1>5
<1>8. ASSUME NEW m \in Nat, m \in Done PROVE m + 1 \in Done
  <2> SUFFICES ASSUME k + (m + 1) <= size + 1 PROVE low[k + (m + 1)] = high[m + 1]
    OBVIOUS
  <2>1. /\ k + m <= size + 1 /\ k + (m + 1) \in 1..size + 1 /\ (k + (m + 1)) - 1 = k + m
        /\ m + 1 \in 1..size + 1 /\ (m + 1) - 1 = m
    BY <1>1, <1>5
  <2>2. low[k + m] = high[m]
    BY <1>8, <2>1
  <2>3. low[k + (m + 1)] = above(low[k + m]) /\ high[m + 1] = above(high[m])
    BY <1>6, <2>1
  <2>4. QED
    BY <2>2, <2>3
<1>9. Nat \subseteq Done
  <2> HIDE DEF Done
  <2>1. QED
    BY <1>7, <1>8, SetInduction
<1>10. \A m \in 0..(size + 1 - k) : low[k + m] = high[m]
  BY <1>1, <1>5, <1>9
<1>11. QED
  BY <1>10 DEF size, low, high

(* The way up ends, at a root.                                             *)
LEMMA TopExists ==
  ASSUME NEW objects, ObjectsAreValid(objects), NEW o \in Range(objects)
  PROVE  \E d \in 0..(Len(objects) - 1) : /\ Chain(objects, o)[d] \in Ids(objects)
                                          /\ Chain(objects, o)[d + 1] \notin Ids(objects)
<1> DEFINE size == Len(objects)
           up == Chain(objects, o)
           ids == Ids(objects)
           Done == {n \in Nat : n <= size => up[n] \in ids}
<1>1. size \in Nat /\ size >= 1 /\ up[0] \in ids
  BY ObjectFacts, ChainFacts
<1>2. SUFFICES ASSUME \A d \in 0..(size - 1) : up[d] \in ids => up[d + 1] \in ids
               PROVE  FALSE
  BY Zenon
<1>3. ASSUME up[size] \in ids PROVE FALSE
  <2>1. size \in 0..size + 1 /\ ~(size <= size - 1)
    BY <1>1
  <2>2. QED
    BY <1>3, <2>1, ChainIsShort
<1> HIDE DEF size, up, ids
<1>4. 0 \in Done
  BY <1>1
<1>5. ASSUME NEW n \in Nat, n \in Done PROVE n + 1 \in Done
  BY <1>1, <1>2, <1>5
<1>6. Nat \subseteq Done
  <2> HIDE DEF Done
  <2>1. QED
    BY <1>4, <1>5, SetInduction
<1>7. QED
  BY <1>1, <1>3, <1>6

(* A path of the tree that is the way up from o, read downward.            *)
IsWay(objects, p, o) ==
  /\ p \in Seq(Ids(objects)) /\ Len(p) \in 1..Len(objects)
  /\ \A i \in 1..Len(p) : p[i] = Chain(objects, o)[Len(p) - i]
  /\ Chain(objects, o)[Len(p)] \notin Ids(objects)

LEMMA WayFacts ==
  ASSUME NEW objects, ObjectsAreValid(objects), NEW o \in Range(objects),
         NEW p, IsWay(objects, p, o)
  PROVE  /\ Last(p) = o.id
         /\ \A i \in 1..(Len(p) - 1) : p[i] # Last(p)
<1>1. Chain(objects, o)[0] = o.id /\ Len(objects) \in Nat
  BY ChainFacts, ObjectFacts
<1>2. Len(p) \in 1..Len(objects) /\ \A i \in 1..Len(p) : p[i] = Chain(objects, o)[Len(p) - i]
  BY DEF IsWay
<1>3. Last(p) = o.id
  <2>1. Len(p) \in 1..Len(p) /\ Len(p) - Len(p) = 0
    BY <1>1, <1>2
  <2>2. QED
    BY <1>1, <1>2, <2>1 DEF Last
<1>4. ASSUME NEW i \in 1..(Len(p) - 1) PROVE p[i] # Last(p)
  <2>1. /\ Len(p) - i \in 0..Len(objects) + 1 /\ 0 \in 0..Len(objects) + 1 /\ 0 < Len(p) - i
        /\ i \in 1..Len(p)
    BY <1>1, <1>2
  <2>2. Chain(objects, o)[0] \in Ids(objects)
    BY <1>1, ObjectFacts
  <2>3. Chain(objects, o)[0] # Chain(objects, o)[Len(p) - i]
    BY <2>1, <2>2, ChainDistinct
  <2>4. QED
    BY <1>1, <1>2, <1>3, <2>1, <2>3
<1>5. QED
  BY <1>3, <1>4

LEMMA WayIsUnique ==
  ASSUME NEW objects, ObjectsAreValid(objects), NEW o \in Range(objects),
         NEW p, NEW q, IsWay(objects, p, o), IsWay(objects, q, o)
  PROVE  p = q
<1> DEFINE up == Chain(objects, o)
           ids == Ids(objects)
<1>1. /\ p \in Seq(ids) /\ q \in Seq(ids)
      /\ Len(p) \in 1..Len(objects) /\ Len(q) \in 1..Len(objects) /\ Len(objects) \in Nat
      /\ \A i \in 1..Len(p) : p[i] = up[Len(p) - i]
      /\ \A i \in 1..Len(q) : q[i] = up[Len(q) - i]
      /\ up[Len(p)] \notin ids /\ up[Len(q)] \notin ids
  BY ObjectFacts DEF IsWay
<1>2. ASSUME NEW s \in Seq(ids), NEW n \in 1..Len(objects), Len(s) \in 1..Len(objects),
             \A i \in 1..Len(s) : s[i] = up[Len(s) - i], up[n] \notin ids
      PROVE  Len(s) <= n
  <2>1. SUFFICES ASSUME n <= Len(s) - 1 PROVE FALSE
    BY <1>1, <1>2
  <2>2. s[1] = up[Len(s) - 1] /\ s[1] \in ids
    BY <1>2
  <2>3. Len(s) - 1 \in 0..Len(objects) + 1 /\ n \in 0..(Len(s) - 1)
    BY <1>1, <1>2, <2>1
  <2>4. \A m \in 0..(Len(s) - 1) : up[m] \in ids
    BY <2>2, <2>3, ChainInside
  <2>5. QED
    BY <1>2, <2>3, <2>4
<1>3. Len(p) <= Len(q) /\ Len(q) <= Len(p)
  <2> HIDE DEF up, ids
  <2>1. QED
    BY <1>1, <1>2
<1>4. Len(p) = Len(q)
  BY <1>1, <1>3
<1>5. \A i \in 1..Len(p) : p[i] = q[i]
  BY <1>1, <1>4
<1> HIDE DEF up, ids
<1>6. QED
  BY <1>1, <1>4, <1>5, SeqEqual

(* One level of the tree from the level above it.                          *)
Extended(objects, paths) ==
  UNION {{Append(path, child) :
            child \in {o.id : o \in {x \in Range(objects) : x.parent_id = Last(path)}}} :
           path \in {p \in paths : \A i \in 1..Len(p) - 1 : p[i] # Last(p)}}

LevelsAre(f, objects) ==
  /\ f[1] = {<<o.id>> : o \in {x \in Range(objects) : IsTreeRoot(x)}}
  /\ \A n \in 2..Len(objects) + 1 : f[n] = Extended(objects, f[n - 1])

LEMMA ExtendedFacts ==
  ASSUME NEW objects, NEW paths, NEW p
  PROVE  p \in Extended(objects, paths) <=>
           \E path \in paths, o \in Range(objects) :
             /\ \A i \in 1..Len(path) - 1 : path[i] # Last(path)
             /\ o.parent_id = Last(path) /\ p = Append(path, o.id)
<1> DEFINE active(path) == \A i \in 1..Len(path) - 1 : path[i] # Last(path)
           children(path) == {o.id : o \in {x \in Range(objects) : x.parent_id = Last(path)}}
           grown(path) == {Append(path, child) : child \in children(path)}
<1>1. Extended(objects, paths) = UNION {grown(path) : path \in {x \in paths : active(x)}}
  BY Zenon DEF Extended
<1>2. \A path : p \in grown(path) <=>
        \E o \in Range(objects) : o.parent_id = Last(path) /\ p = Append(path, o.id)
  <2> SUFFICES ASSUME NEW path
               PROVE  p \in grown(path) <=>
                        \E o \in Range(objects) : o.parent_id = Last(path) /\ p = Append(path, o.id)
    OBVIOUS
  <2>1. p \in grown(path) <=> \E child \in children(path) : p = Append(path, child)
    OBVIOUS
  <2>2. \A child : child \in children(path) <=>
          \E o \in Range(objects) : o.parent_id = Last(path) /\ child = o.id
    OBVIOUS
  <2> HIDE DEF children, grown
  <2>3. QED
    BY <2>1, <2>2, Zenon
<1> HIDE DEF active, grown
<1>3. p \in Extended(objects, paths) <=> \E path \in paths : active(path) /\ p \in grown(path)
  BY <1>1
<1>4. QED
  BY <1>2, <1>3, Zenon DEF active

LEMMA LevelsExist ==
  ASSUME NEW objects, ObjectsAreValid(objects)
  PROVE  \E f : /\ LevelsAre(f, objects)
                /\ TreePaths(objects) = UNION {f[n] : n \in 1..Len(objects) + 1}
<1> DEFINE size == Len(objects)
           T == SUBSET Seq(Ids(objects))
           roots == {<<o.id>> : o \in {x \in Range(objects) : IsTreeRoot(x)}}
           next(paths) == Extended(objects, paths)
           step == [n \in Nat |-> [paths \in T |-> next(paths)]]
           Solves(f) == f = [n \in 1..size + 1 |-> IF n = 1 THEN roots ELSE next(f[n - 1])]
           levels == CHOOSE f : Solves(f)
<1>1. size \in Nat
  BY ObjectFacts
<1>2. roots \in T
  <2>1. ASSUME NEW o \in Range(objects) PROVE <<o.id>> \in Seq(Ids(objects))
    <3>1. o.id \in Ids(objects)
      BY ObjectFacts
    <3>2. QED
      BY <3>1
  <2>2. QED
    BY <2>1
<1>3. ASSUME NEW paths \in T PROVE next(paths) \in T
  <2> SUFFICES ASSUME NEW p \in next(paths) PROVE p \in Seq(Ids(objects))
    OBVIOUS
  <2>1. PICK path \in paths, o \in Range(objects) : p = Append(path, o.id)
    BY ExtendedFacts
  <2>2. path \in Seq(Ids(objects)) /\ o.id \in Ids(objects)
    BY <1>3, <2>1, ObjectFacts
  <2>3. QED
    BY <2>1, <2>2
<1> HIDE DEF size, T, roots, next
<1>4. step \in [Nat -> [T -> T]]
  BY <1>3
<1>5. PICK g : StatesOf(g, T, roots, step, size)
  <2> HIDE DEF step
  <2>1. QED
    BY <1>1, <1>2, <1>4, LoopHasStates
<1> DEFINE f == [n \in 1..size + 1 |-> g[n - 1]]
<1>6. \A n \in 1..size : g[n] = next(g[n - 1])
  <2> SUFFICES ASSUME NEW n \in 1..size PROVE g[n] = next(g[n - 1])
    OBVIOUS
  <2>1. n \in Nat /\ n - 1 \in 0..size
    BY <1>1
  <2>2. g[n - 1] \in T /\ g[n] = step[n][g[n - 1]]
    BY <1>5, <2>1 DEF StatesOf
  <2>3. QED
    BY <2>1, <2>2
<1>7. Solves(f)
  <2>1. g[0] = roots
    BY <1>5 DEF StatesOf
  <2>2. \A n \in 1..size + 1 : n - 1 \in 0..size /\ (n # 1 => n - 1 \in 1..size + 1
                                  /\ n - 1 \in 1..size)
    BY <1>1
  <2>3. \A n \in 1..size + 1 : f[n] = IF n = 1 THEN roots ELSE next(f[n - 1])
    <3> SUFFICES ASSUME NEW n \in 1..size + 1
                 PROVE  f[n] = IF n = 1 THEN roots ELSE next(f[n - 1])
      OBVIOUS
    <3>1. CASE n = 1
      BY <2>1, <3>1
    <3>2. CASE n # 1
      <4>1. n - 1 \in 1..size /\ n - 1 \in 1..size + 1
        BY <2>2, <3>2
      <4>2. f[n - 1] = g[(n - 1) - 1] /\ f[n] = g[n - 1]
        BY <4>1
      <4>3. g[n - 1] = next(g[(n - 1) - 1])
        BY <1>6, <4>1
      <4>4. QED
        BY <3>2, <4>2, <4>3
    <3>3. QED
      BY <3>1, <3>2
  <2>4. f = [n \in 1..size + 1 |-> f[n]]
    OBVIOUS
  <2> HIDE DEF f
  <2>5. QED
    BY <2>3, <2>4
<1>8. Solves(levels)
  BY <1>7, Zenon
<1>9. TreePaths(objects) = UNION {levels[n] : n \in DOMAIN levels}
  BY Zenon DEF TreePaths, size, roots, next, Extended
<1> HIDE DEF levels
<1>10. DOMAIN levels = 1..size + 1 /\ levels[1] = roots
       /\ \A n \in 2..size + 1 : levels[n] = next(levels[n - 1])
  <2>1. 1 \in 1..size + 1 /\ \A n \in 2..size + 1 : n \in 1..size + 1 /\ n # 1
    BY <1>1
  <2>2. QED
    BY <1>8, <2>1
<1>11. LevelsAre(levels, objects)
  BY <1>10, Zenon DEF LevelsAre, size, roots, next
<1>12. TreePaths(objects) = UNION {levels[n] : n \in 1..size + 1}
  BY <1>9, <1>10
<1>13. QED
  BY <1>11, <1>12, Zenon DEF size

(* What a level holds are ways of its length, and a way is extended by     *)
(* each child.                                                             *)
LEMMA RootIsWay ==
  ASSUME NEW objects, ObjectsAreValid(objects), NEW o \in Range(objects), IsTreeRoot(o)
  PROVE  IsWay(objects, <<o.id>>, o)
<1>1. /\ o.id \in Ids(objects) /\ Len(objects) \in Nat /\ Len(objects) >= 1
      /\ o.parent_id \notin Ids(objects)
  BY ObjectFacts DEF IsTreeRoot
<1>2. Chain(objects, o)[0] = o.id /\ Chain(objects, o)[1] = o.parent_id
  BY ChainFacts
<1>3. <<o.id>> \in Seq(Ids(objects)) /\ Len(<<o.id>>) = 1 /\ <<o.id>>[1] = o.id
  BY <1>1
<1> DEFINE p == <<o.id>>
<1> HIDE DEF p
<1>4. \A i \in 1..1 : i = 1 /\ 1 - i = 0
  OBVIOUS
<1>5. IsWay(objects, p, o)
  BY <1>1, <1>2, <1>3, <1>4 DEF IsWay, p
<1>6. QED
  BY <1>5 DEF p

LEMMA ChildHasWay ==
  ASSUME NEW objects, ObjectsAreValid(objects), NEW o \in Range(objects),
         NEW path, IsWay(objects, path, o), NEW c \in Range(objects), c.parent_id = o.id
  PROVE  IsWay(objects, Append(path, c.id), c) /\ Len(Append(path, c.id)) = Len(path) + 1
<1> DEFINE size == Len(objects)
           ids == Ids(objects)
           low == Chain(objects, c)
           high == Chain(objects, o)
           n == Len(path)
           p == Append(path, c.id)
<1>1. /\ path \in Seq(ids) /\ n \in 1..size /\ high[n] \notin ids /\ size \in Nat
      /\ \A i \in 1..n : path[i] = high[n - i]
  BY ObjectFacts DEF IsWay
<1>2. \A m \in 0..size : low[m + 1] = high[m]
  BY ChainShift
<1>3. c.id \in ids /\ low[0] = c.id
  BY ObjectFacts, ChainFacts
<1>4. \A m \in 0..size + 1 : low[m] \in ids => m <= size - 1
  BY ChainIsShort
<1> HIDE DEF size, ids, low, high
<1>5. /\ p \in Seq(ids) /\ Len(p) = n + 1 /\ p[n + 1] = c.id
      /\ \A i \in 1..n : p[i] = path[i]
  BY <1>1, <1>3
<1> HIDE DEF p
<1>6. low[n + 1] \notin ids
  BY <1>1, <1>2
<1>7. \A i \in 1..n + 1 : p[i] = low[(n + 1) - i]
  <2> SUFFICES ASSUME NEW i \in 1..n + 1 PROVE p[i] = low[(n + 1) - i]
    OBVIOUS
  <2>1. CASE i = n + 1
    BY <1>1, <1>3, <1>5, <2>1
  <2>2. CASE i # n + 1
    <3>1. i \in 1..n /\ n - i \in 0..size /\ (n - i) + 1 = (n + 1) - i
      BY <1>1, <2>2
    <3>2. QED
      BY <1>1, <1>2, <1>5, <3>1
  <2>3. QED
    BY <2>1, <2>2
<1>8. n + 1 \in 1..size
  <2>1. path[1] \in ids /\ path[1] = high[n - 1]
    BY <1>1
  <2>2. n - 1 \in 0..size /\ (n - 1) + 1 = n
    BY <1>1
  <2>3. low[n] \in ids
    BY <1>2, <2>1, <2>2
  <2>4. QED
    BY <1>1, <1>4, <2>3
<1>9. QED
  BY <1>5, <1>6, <1>7, <1>8 DEF IsWay, size, ids, low, p

LEMMA LevelsHaveWays ==
  ASSUME NEW objects, ObjectsAreValid(objects), NEW f, LevelsAre(f, objects)
  PROVE  \A n \in 1..Len(objects) + 1 : \A p \in f[n] :
           \E o \in Range(objects) : IsWay(objects, p, o)
<1> DEFINE size == Len(objects)
           Right(n) == \A p \in f[n] : \E o \in Range(objects) : IsWay(objects, p, o)
           Done == {n \in Nat : n + 1 <= size + 1 => Right(n + 1)}
<1>1. size \in Nat
  BY ObjectFacts
<1>2. 0 \in Done
  <2>1. f[1] = {<<o.id>> : o \in {x \in Range(objects) : IsTreeRoot(x)}}
    BY DEF LevelsAre
  <2>2. Right(1)
    BY <2>1, RootIsWay
  <2> HIDE DEF Right
  <2>3. QED
    BY <2>2
<1>3. ASSUME NEW n \in Nat, n \in Done PROVE n + 1 \in Done
  <2> SUFFICES ASSUME (n + 1) + 1 <= size + 1, NEW p \in f[(n + 1) + 1]
               PROVE  \E o \in Range(objects) : IsWay(objects, p, o)
    <3> HIDE DEF size
    <3>1. QED
      OBVIOUS
  <2>1. (n + 1) + 1 \in 2..size + 1 /\ ((n + 1) + 1) - 1 = n + 1 /\ n + 1 <= size + 1
    BY <1>1
  <2>2. f[(n + 1) + 1] = Extended(objects, f[n + 1])
    BY <2>1 DEF LevelsAre
  <2>3. PICK path \in f[n + 1], c \in Range(objects) :
          c.parent_id = Last(path) /\ p = Append(path, c.id)
    BY <2>2, ExtendedFacts
  <2>4. Right(n + 1)
    BY <1>3, <2>1
  <2>5. PICK o \in Range(objects) : IsWay(objects, path, o)
    BY <2>4
  <2>6. Last(path) = o.id
    BY <2>5, WayFacts
  <2>7. QED
    BY <2>3, <2>5, <2>6, ChildHasWay
<1>4. Nat \subseteq Done
  <2> HIDE DEF Done
  <2>1. QED
    BY <1>2, <1>3, SetInduction
<1>5. ASSUME NEW n \in 1..size + 1 PROVE Right(n)
  <2>1. n - 1 \in Nat /\ (n - 1) + 1 = n /\ n <= size + 1
    BY <1>1
  <2> HIDE DEF Right
  <2>2. QED
    BY <1>4, <2>1
<1>6. QED
  BY <1>5

LEMMA LevelsReachAll ==
  ASSUME NEW objects, ObjectsAreValid(objects), NEW f, LevelsAre(f, objects),
         NEW o \in Range(objects)
  PROVE  \E n \in 1..Len(objects) + 1 : \E p \in f[n] : IsWay(objects, p, o)
<1> DEFINE size == Len(objects)
           ids == Ids(objects)
           up(x) == Chain(objects, x)
           Reached(d) == \A x \in Range(objects) :
                           up(x)[d] \in ids /\ up(x)[d + 1] \notin ids =>
                             \E p \in f[d + 1] : IsWay(objects, p, x)
           Done == {d \in Nat : d <= size - 1 => Reached(d)}
<1>1. size \in Nat
  BY ObjectFacts
<1>2. \A x \in Range(objects) : up(x)[0] = x.id /\ up(x)[1] = x.parent_id
  BY ChainFacts
<1>3. Reached(0)
  <2> SUFFICES ASSUME NEW x \in Range(objects), up(x)[0 + 1] \notin ids
               PROVE  \E p \in f[0 + 1] : IsWay(objects, p, x)
    OBVIOUS
  <2>1. x.parent_id \notin ids
    BY <1>2
  <2>2. IsTreeRoot(x)
    <3>1. Placed(objects, x)
      BY DEF ObjectsAreValid, ObjectIsValid
    <3>2. QED
      BY <2>1, <3>1 DEF Placed, IsTreeRoot
  <2>3. <<x.id>> \in f[1]
    BY <2>2 DEF LevelsAre
  <2>4. IsWay(objects, <<x.id>>, x)
    BY <2>2, RootIsWay
  <2>5. QED
    BY <2>3, <2>4
<1>4. 0 \in Done
  <2> HIDE DEF Reached
  <2>1. QED
    BY <1>3
<1>5. ASSUME NEW d \in Nat, d \in Done PROVE d + 1 \in Done
  <2>0. d + 1 \in Nat
    OBVIOUS
  <2> SUFFICES ASSUME d + 1 <= size - 1, NEW x \in Range(objects),
                      up(x)[d + 1] \in ids, up(x)[(d + 1) + 1] \notin ids
               PROVE  \E p \in f[(d + 1) + 1] : IsWay(objects, p, x)
    BY <2>0, Zenon
  <2>1. /\ d + 1 \in 0..size + 1 /\ 1 \in 0..d + 1 /\ d <= size - 1
        /\ d \in 0..size /\ d + 1 \in 0..size
        /\ (d + 1) + 1 \in 2..size + 1 /\ ((d + 1) + 1) - 1 = d + 1
    BY <1>1
  <2>2. x.parent_id \in ids
    <3>1. \A m \in 0..d + 1 : up(x)[m] \in ids
      BY <2>1, ChainInside
    <3>2. QED
      BY <1>2, <2>1, <3>1
  <2>3. PICK y \in Range(objects) : x.parent_id = y.id
    BY <2>2, ObjectFacts
  <2>4. \A m \in 0..size : up(x)[m + 1] = up(y)[m]
    BY <2>3, ChainShift
  <2> HIDE DEF up
  <2>5. up(y)[d] \in ids /\ up(y)[d + 1] \notin ids
    BY <2>1, <2>4
  <2>6. Reached(d)
    <3> HIDE DEF Reached
    <3>1. QED
      BY <1>5, <2>1
  <2>7. PICK path \in f[d + 1] : IsWay(objects, path, y)
    BY <2>5, <2>6
  <2>8. Last(path) = y.id /\ \A i \in 1..(Len(path) - 1) : path[i] # Last(path)
    BY <2>7, WayFacts
  <2>9. Append(path, x.id) \in Extended(objects, f[d + 1])
    BY <2>3, <2>7, <2>8, ExtendedFacts
  <2>10. f[(d + 1) + 1] = Extended(objects, f[d + 1])
    BY <2>1 DEF LevelsAre
  <2>11. IsWay(objects, Append(path, x.id), x)
    BY <2>3, <2>7, ChildHasWay
  <2>12. QED
    BY <2>9, <2>10, <2>11
<1>6. Nat \subseteq Done
  <2> HIDE DEF Done
  <2>1. QED
    BY <1>4, <1>5, SetInduction
<1>7. PICK d \in 0..(size - 1) : up(o)[d] \in ids /\ up(o)[d + 1] \notin ids
  BY TopExists
<1>8. d \in Nat /\ d + 1 \in 1..size + 1
  BY <1>1
<1>9. Reached(d)
  <2> HIDE DEF Reached
  <2>1. QED
    BY <1>1, <1>6, <1>8
<1>10. QED
  BY <1>7, <1>8, <1>9

(* The tree has one path for each object, and no other.                    *)
LEMMA PathsAreWays ==
  ASSUME NEW objects, ObjectsAreValid(objects)
  PROVE  /\ \A p \in TreePaths(objects) : \E o \in Range(objects) : IsWay(objects, p, o)
         /\ \A o \in Range(objects) : \E p \in TreePaths(objects) : IsWay(objects, p, o)
<1>1. PICK f : /\ LevelsAre(f, objects)
               /\ TreePaths(objects) = UNION {f[n] : n \in 1..Len(objects) + 1}
  BY LevelsExist
<1>2. \A n \in 1..Len(objects) + 1 : \A p \in f[n] :
        \E o \in Range(objects) : IsWay(objects, p, o)
  BY <1>1, LevelsHaveWays
<1>3. \A o \in Range(objects) : \E n \in 1..Len(objects) + 1 : \E p \in f[n] : IsWay(objects, p, o)
  BY <1>1, LevelsReachAll
<1>4. QED
  BY <1>1, <1>2, <1>3

(* Below a path are the paths of the objects it is on the way up from.     *)
LEMMA PrefixFacts ==
  ASSUME NEW objects, ObjectsAreValid(objects), NEW o \in Range(objects),
         NEW a \in Range(objects), NEW p, IsWay(objects, p, o), NEW s, IsWay(objects, s, a)
  PROVE  IsPrefix(s, p) <=>
           \E k \in 0..Len(objects) + 1 : Chain(objects, o)[k] = a.id
<1> DEFINE size == Len(objects)
           ids == Ids(objects)
           low == Chain(objects, o)
           high == Chain(objects, a)
<1>1. /\ size \in Nat /\ p \in Seq(ids) /\ Len(p) \in 1..size
      /\ \A i \in 1..Len(p) : p[i] = low[Len(p) - i]
      /\ low[Len(p)] \notin ids
  BY ObjectFacts DEF IsWay
<1>2. /\ s \in Seq(ids) /\ Len(s) \in 1..size
      /\ \A i \in 1..Len(s) : s[i] = high[Len(s) - i]
      /\ high[Len(s)] \notin ids
  BY DEF IsWay
<1>3. Last(s) = a.id /\ Last(s) = s[Len(s)] /\ a.id \in ids
  BY WayFacts, ObjectFacts DEF Last
<1>4. ASSUME IsPrefix(s, p) PROVE \E k \in 0..size + 1 : low[k] = a.id
  <2>1. Len(s) <= Len(p) /\ SubSeq(s, 1, Len(s)) = SubSeq(p, 1, Len(s))
    BY <1>4 DEF IsPrefix
  <2>2. SubSeq(s, 1, Len(s))[Len(s)] = s[Len(s)] /\ SubSeq(p, 1, Len(s))[Len(s)] = p[Len(s)]
    <3> HIDE DEF size, ids, low
    <3>1. QED
      BY <1>1, <1>2, <2>1
  <2>3. p[Len(s)] = low[Len(p) - Len(s)] /\ Len(p) - Len(s) \in 0..size + 1
    BY <1>1, <1>2, <2>1
  <2>4. QED
    BY <1>3, <2>1, <2>2, <2>3
<1>5. ASSUME NEW k \in 0..size + 1, low[k] = a.id PROVE IsPrefix(s, p)
  <2>1. \A m \in 0..(size + 1 - k) : low[k + m] = high[m]
    BY <1>5, ChainGoesOn
  <2>2. \A m \in 0..k : low[m] \in ids
    BY <1>3, <1>5, ChainInside
  <2>3. k <= size - 1
    BY <1>3, <1>5, ChainIsShort
  <2>4. \A n \in 0..size + 1 : low[n] \in ids => \A m \in 0..n : low[m] \in ids
    BY ChainInside
  <2>5. \A n \in 0..size + 1 : high[n] \in ids => \A m \in 0..n : high[m] \in ids
    BY ChainInside
  <2> HIDE DEF size, ids, low, high
  <2>6. k < Len(p)
    <3>1. Len(p) \in 0..k => low[Len(p)] \in ids
      BY <2>2
    <3>2. QED
      BY <1>1, <3>1
  <2>7. Len(p) - k \in 1..size /\ Len(p) - k \in 0..(size + 1 - k)
    BY <1>1, <2>6
  <2>8. high[Len(p) - k] \notin ids
    <3>1. low[k + (Len(p) - k)] = high[Len(p) - k] /\ k + (Len(p) - k) = Len(p)
      BY <1>1, <2>1, <2>7
    <3>2. QED
      BY <1>1, <3>1
  <2>9. high[(Len(p) - k) - 1] \in ids
    <3>1. (Len(p) - k) - 1 \in 0..(size + 1 - k) /\ k + ((Len(p) - k) - 1) = Len(p) - 1
      BY <1>1, <2>7
    <3>2. low[Len(p) - 1] = high[(Len(p) - k) - 1]
      BY <2>1, <3>1
    <3>3. p[1] \in ids /\ p[1] = low[Len(p) - 1]
      BY <1>1
    <3>4. QED
      BY <3>2, <3>3
  <2>10. high[Len(s) - 1] \in ids
    <3>1. s[1] \in ids /\ s[1] = high[Len(s) - 1]
      BY <1>2
    <3>2. QED
      BY <3>1
  <2>11. Len(s) = Len(p) - k
    <3>1. Len(s) - 1 \in 0..size + 1 /\ (Len(p) - k) - 1 \in 0..size + 1
      BY <1>1, <1>2, <2>7
    <3>2. \A m \in 0..(Len(s) - 1) : high[m] \in ids
      BY <2>5, <2>10, <3>1
    <3>3. \A m \in 0..((Len(p) - k) - 1) : high[m] \in ids
      BY <2>5, <2>9, <3>1
    <3>4. ~(Len(p) - k \in 0..(Len(s) - 1)) /\ ~(Len(s) \in 0..((Len(p) - k) - 1))
      BY <1>2, <2>8, <3>2, <3>3
    <3>5. QED
      BY <1>1, <1>2, <2>7, <3>4
  <2>12. \A i \in 1..Len(s) : s[i] = p[i]
    <3> SUFFICES ASSUME NEW i \in 1..Len(s) PROVE s[i] = p[i]
      OBVIOUS
    <3>1. /\ Len(s) - i \in 0..(size + 1 - k) /\ k + (Len(s) - i) = Len(p) - i
          /\ i \in 1..Len(p)
      BY <1>1, <1>2, <2>7, <2>11
    <3>2. low[Len(p) - i] = high[Len(s) - i]
      BY <2>1, <3>1
    <3>3. QED
      BY <1>1, <1>2, <3>1, <3>2
  <2>13. Len(s) <= Len(p) /\ Len(s) \in Nat /\ Len(p) \in Nat
    BY <1>1, <1>2, <2>11
  <2>14. SubSeq(s, 1, Len(s)) = SubSeq(p, 1, Len(s))
    <3>1. /\ SubSeq(s, 1, Len(s)) \in Seq(ids) /\ Len(SubSeq(s, 1, Len(s))) = Len(s)
          /\ \A i \in 1..Len(s) : SubSeq(s, 1, Len(s))[i] = s[i]
      BY <1>2, <2>13
    <3>2. /\ SubSeq(p, 1, Len(s)) \in Seq(ids) /\ Len(SubSeq(p, 1, Len(s))) = Len(s)
          /\ \A i \in 1..Len(s) : SubSeq(p, 1, Len(s))[i] = p[i]
      BY <1>1, <2>13
    <3> DEFINE t == SubSeq(s, 1, Len(s))  u == SubSeq(p, 1, Len(s))
    <3>3. \A i \in 1..Len(t) : t[i] = u[i]
      BY <2>12, <3>1, <3>2
    <3>4. t \in Seq(ids) /\ u \in Seq(ids) /\ Len(t) = Len(u)
      BY <3>1, <3>2
    <3> HIDE DEF t, u
    <3>5. t = u
      BY <3>3, <3>4, SeqEqual
    <3>6. QED
      BY <3>5 DEF t, u
  <2>15. QED
    BY <2>13, <2>14 DEF IsPrefix
<1>6. QED
  BY <1>4, <1>5

-----------------------------------------------------------------------------
(* The tree and the list. *)

LEMMA IdsCounted ==
  ASSUME NEW S, NEW items \in Seq(S), Unique(items)
  PROVE  /\ Ids(items) = {x.id : x \in Range(items)}
         /\ IsFiniteSet(Ids(items)) /\ Cardinality(Ids(items)) = Len(items)
<1> DEFINE size == Len(items)
           ids == Ids(items)
           idOf == [i \in 1..size |-> items[i].id]
<1>1. size \in Nat /\ DOMAIN items = 1..size
  OBVIOUS
<1>2. ids = {items[i].id : i \in 1..size} /\ Range(items) = {items[i] : i \in 1..size}
  BY <1>1, Zenon DEF Ids, Range
<1>3. \A i, j \in 1..size : items[i].id = items[j].id => i = j
  BY <1>1 DEF Unique
<1> HIDE DEF size, ids
<1>4. /\ idOf \in [1..size -> ids] /\ \A a, b \in 1..size : idOf[a] = idOf[b] => a = b
      /\ \A t \in ids : \E s \in 1..size : idOf[s] = t
  BY <1>2, <1>3
<1> HIDE DEF idOf
<1>5. idOf \in Bijection(1..size, ids)
  BY <1>4, Fun_IsBij
<1>6. ExistsBijection(1..size, ids)
  BY <1>5, Zenon DEF ExistsBijection
<1>7. Cardinality(ids) = size /\ IsFiniteSet(ids)
  BY <1>1, <1>6, FS_CountingElements, FS_NatBijection
<1>8. QED
  BY <1>2, <1>7 DEF size, ids

(* A tree has as many nodes as they have ids.                              *)
LEMMA NodesCounted ==
  ASSUME NEW objects, ObjectsAreValid(objects), NEW nodes \in SUBSET TreePaths(objects)
  PROVE  Cardinality(nodes) = Cardinality({Last(p) : p \in nodes})
<1> DEFINE lasts == {Last(p) : p \in nodes}
           last == [p \in nodes |-> Last(p)]
<1>1. \A p \in nodes : \E o \in Range(objects) : IsWay(objects, p, o) /\ Last(p) = o.id
  BY PathsAreWays, WayFacts
<1>2. lasts \in SUBSET Ids(objects)
  BY <1>1, ObjectFacts
<1>3. \A p, q \in nodes : Last(p) = Last(q) => p = q
  <2> SUFFICES ASSUME NEW p \in nodes, NEW q \in nodes, Last(p) = Last(q) PROVE p = q
    OBVIOUS
  <2>1. PICK o \in Range(objects) : IsWay(objects, p, o) /\ Last(p) = o.id
    BY <1>1
  <2>2. PICK x \in Range(objects) : IsWay(objects, q, x) /\ Last(q) = x.id
    BY <1>1
  <2>3. o = x
    BY <2>1, <2>2, ObjectFacts
  <2>4. QED
    BY <2>1, <2>2, <2>3, WayIsUnique
<1>4. IsFiniteSet(lasts)
  <2>1. IsFiniteSet(Ids(objects))
    BY IdsCounted DEF ObjectsAreValid
  <2> HIDE DEF lasts
  <2>2. QED
    BY <1>2, <2>1, FS_Subset
<1>5. /\ last \in [nodes -> lasts] /\ (\A p, q \in nodes : last[p] = last[q] => p = q)
      /\ \A t \in lasts : \E p \in nodes : last[p] = t
  BY <1>3
<1> HIDE DEF last, lasts
<1>6. last \in Injection(nodes, lasts) /\ last \in Surjection(nodes, lasts)
  BY <1>5, Fun_IsInj, Fun_IsSurj
<1>7. Cardinality(nodes) = Cardinality(lasts)
  BY <1>4, <1>6, FS_Injection
<1>8. QED
  BY <1>7 DEF lasts

IsUnder(objects, o, a) ==
  \E k \in 0..Len(objects) + 1 : Chain(objects, o)[k] = a.id

(* The nodes below an object's path, and those properly below.             *)
LEMMA BelowFacts ==
  ASSUME NEW objects, ObjectsAreValid(objects), NEW a \in Range(objects),
         NEW s, IsWay(objects, s, a)
  PROVE  LET paths == TreePaths(objects)
         IN  /\ {Last(p) : p \in Below(paths, s)}
                  = {o.id : o \in {x \in Range(objects) : IsUnder(objects, x, a)}}
             /\ {Last(p) : p \in Below(paths, s) \ {s}}
                  = {o.id : o \in {x \in Range(objects) : IsUnder(objects, x, a) /\ x # a}}
<1> DEFINE paths == TreePaths(objects)
           all == Range(objects)
           under(x) == IsUnder(objects, x, a)
<1>1. Below(paths, s) = {p \in paths : IsPrefix(s, p)}
  BY DEF Below
<1>2. \A p, o : o \in all /\ IsWay(objects, p, o) =>
        Last(p) = o.id /\ (IsPrefix(s, p) <=> under(o)) /\ (p = s <=> o = a)
  <2> SUFFICES ASSUME NEW p, NEW o \in all, IsWay(objects, p, o)
               PROVE  Last(p) = o.id /\ (IsPrefix(s, p) <=> under(o)) /\ (p = s <=> o = a)
    OBVIOUS
  <2>1. Last(p) = o.id /\ Last(s) = a.id
    BY WayFacts
  <2>2. IsPrefix(s, p) <=> under(o)
    BY PrefixFacts DEF IsUnder
  <2>3. p = s => o = a
    BY <2>1, ObjectFacts
  <2>4. o = a => p = s
    BY WayIsUnique
  <2>5. QED
    BY <2>1, <2>2, <2>3, <2>4
<1>3. \A p \in paths : \E o \in all : IsWay(objects, p, o)
  BY PathsAreWays
<1>4. \A o \in all : \E p \in paths : IsWay(objects, p, o)
  BY PathsAreWays
<1> HIDE DEF paths, all, under
<1>5. {Last(p) : p \in Below(paths, s)} = {o.id : o \in {x \in all : under(x)}}
  <2>1. ASSUME NEW p \in paths, IsPrefix(s, p)
        PROVE  \E o \in all : under(o) /\ Last(p) = o.id
    BY <1>2, <1>3, <2>1
  <2>2. ASSUME NEW o \in all, under(o)
        PROVE  \E p \in paths : IsPrefix(s, p) /\ Last(p) = o.id
    BY <1>2, <1>4, <2>2
  <2>3. QED
    BY <1>1, <2>1, <2>2
<1>6. {Last(p) : p \in Below(paths, s) \ {s}} = {o.id : o \in {x \in all : under(x) /\ x # a}}
  <2>1. ASSUME NEW p \in paths, IsPrefix(s, p), p # s
        PROVE  \E o \in all : under(o) /\ o # a /\ Last(p) = o.id
    BY <1>2, <1>3, <2>1
  <2>2. ASSUME NEW o \in all, under(o), o # a
        PROVE  \E p \in paths : IsPrefix(s, p) /\ p # s /\ Last(p) = o.id
    BY <1>2, <1>4, <2>2
  <2>3. QED
    BY <1>1, <2>1, <2>2
<1>7. QED
  BY <1>5, <1>6, Zenon DEF paths, all, under

(* Properly below an object is what is below one of its children.          *)
LEMMA UnderChild ==
  ASSUME NEW objects, ObjectsAreValid(objects), NEW o \in Range(objects),
         NEW a \in Range(objects)
  PROVE  IsUnder(objects, o, a) /\ o # a <=>
           \E x \in Range(objects) : IsUnder(objects, o, x) /\ x.parent_id = a.id
<1> DEFINE size == Len(objects)
           up == Chain(objects, o)
           ids == Ids(objects)
<1>1. size \in Nat /\ a.id \in ids /\ o.id \in ids
  BY ObjectFacts
<1>2. /\ up[0] = o.id /\ up[1] = o.parent_id
      /\ \A n \in 2..size + 1 :
           up[n] = IF up[n - 1] \in ids THEN Find(objects, up[n - 1]).parent_id ELSE Absent
  BY ChainFacts
<1>3. \A x \in Range(objects) : x.id \in ids /\ Find(objects, x.id) = x
  BY ObjectFacts
<1>4. ASSUME NEW x \in Range(objects), NEW n \in 0..size, up[n] = x.id
      PROVE  up[n + 1] = x.parent_id
  <2>1. CASE n = 0
    <3>1. o = x
      BY <1>2, <1>4, <2>1, ObjectFacts
    <3>2. QED
      BY <1>2, <2>1, <3>1
  <2>2. CASE n # 0
    <3>1. n + 1 \in 2..size + 1 /\ (n + 1) - 1 = n
      BY <1>1, <2>2
    <3>2. QED
      BY <1>2, <1>3, <1>4, <3>1
  <2>3. QED
    BY <2>1, <2>2
<1>5. ASSUME NEW k \in 0..size + 1, up[k] = a.id, o # a
      PROVE  \E x \in Range(objects) : IsUnder(objects, o, x) /\ x.parent_id = a.id
  <2>1. k # 0
    BY <1>2, <1>5, ObjectFacts
  <2>2. \A m \in 0..k : up[m] \in ids
    BY <1>1, <1>5, ChainInside
  <2>3. k - 1 \in 0..k /\ k - 1 \in 0..size /\ k - 1 \in 0..size + 1 /\ (k - 1) + 1 = k
    BY <1>1, <2>1
  <2>4. PICK x \in Range(objects) : up[k - 1] = x.id
    <3>1. up[k - 1] \in ids
      BY <2>2, <2>3
    <3> HIDE DEF up
    <3>2. QED
      BY <3>1, ObjectFacts
  <2>5. x.parent_id = a.id
    BY <1>4, <1>5, <2>3, <2>4
  <2>6. IsUnder(objects, o, x)
    BY <2>3, <2>4 DEF IsUnder
  <2>7. QED
    BY <2>5, <2>6
<1>6. ASSUME NEW x \in Range(objects), NEW n \in 0..size + 1, up[n] = x.id, x.parent_id = a.id
      PROVE  IsUnder(objects, o, a) /\ o # a
  <2>1. n <= size - 1
    BY <1>3, <1>6, ChainIsShort
  <2>2. n \in 0..size /\ n + 1 \in 0..size + 1 /\ 0 \in 0..size + 1 /\ 0 < n + 1
    BY <1>1, <2>1
  <2>3. up[n + 1] = a.id
    BY <1>4, <1>6, <2>2
  <2>4. up[0] # up[n + 1]
    BY <1>1, <1>2, <2>2, ChainDistinct
  <2>5. QED
    BY <1>2, <2>2, <2>3, <2>4 DEF IsUnder
<1>7. QED
  BY <1>5, <1>6 DEF IsUnder

(* The three kinds of tree.                                                *)
LEMMA TreeFacts ==
  ASSUME NEW objects, ObjectsAreValid(objects),
         NEW id \in Ids(objects) \cup {Absent}, NEW parent_id \in Ids(objects) \cup {Absent}
  PROVE  LET tree == ReadObjectTree(objects, id, parent_id)
             asked == {o \in Range(objects) :
                         \E x \in Range(objects) :
                           /\ IsUnder(objects, o, x)
                           /\ Passes(id, x.id) /\ Passes(parent_id, x.parent_id)}
         IN  /\ tree.nodes \in SUBSET TreePaths(objects)
             /\ {Last(p) : p \in tree.nodes} = {o.id : o \in asked}
             /\ tree.count = Cardinality(tree.nodes)
<1> DEFINE paths == TreePaths(objects)
           all == Range(objects)
           tree == ReadObjectTree(objects, id, parent_id)
           At(x) == {p \in paths : Last(p) = x}
           passes(x) == Passes(id, x.id) /\ Passes(parent_id, x.parent_id)
           asked == {o \in all : \E x \in all : IsUnder(objects, o, x) /\ passes(x)}
<1>1. \A o \in all : \E p \in paths : IsWay(objects, p, o)
  BY PathsAreWays
<1>2. \A p \in paths : \E o \in all : IsWay(objects, p, o)
  BY PathsAreWays
<1>3. ASSUME NEW a \in all, NEW s \in paths, IsWay(objects, s, a)
      PROVE  At(a.id) = {s}
  <2>1. Last(s) = a.id
    BY <1>3, WayFacts
  <2>2. ASSUME NEW p \in paths, Last(p) = a.id PROVE p = s
    <3>1. PICK o \in all : IsWay(objects, p, o)
      BY <1>2
    <3>2. o = a
      BY <2>2, <3>1, WayFacts, ObjectFacts
    <3>3. QED
      BY <1>3, <3>1, <3>2, WayIsUnique
  <2>3. QED
    BY <2>1, <2>2
<1>4. Absent \notin Ids(objects) /\ \A x \in all : x.id # Absent /\ Find(objects, x.id) = x
  BY ObjectFacts
<1>5. \A x \in Ids(objects) : \E a \in all : x = a.id
  BY ObjectFacts
<1>6. \A x : Below(paths, x) \subseteq paths
  BY DEF Below
<1>7. CASE id # Absent
  <2>1. PICK a \in all : id = a.id
    BY <1>5, <1>7
  <2>2. PICK s \in paths : IsWay(objects, s, a)
    BY <1>1
  <2>3. At(id) = {s}
    BY <1>3, <2>1, <2>2
  <2>4. Find(objects, id).parent_id = a.parent_id
    BY <1>4, <2>1
  <2>5. tree = IF \E p \in At(id) : Passes(parent_id, Find(objects, id).parent_id)
                 THEN Tree(UNION {Below(paths, p) : p \in At(id)}) ELSE NoTree
    BY <1>7, Zenon DEF ReadObjectTree
  <2>6. \A x \in all : Passes(id, x.id) <=> x = a
    BY <1>7, <2>1, ObjectFacts DEF Passes
  <2>7. asked = {o \in all : IsUnder(objects, o, a) /\ Passes(parent_id, a.parent_id)}
    BY <2>6
  <2> HIDE DEF tree, asked, At
  <2>8. CASE Passes(parent_id, a.parent_id)
    <3>1. tree = Tree(Below(paths, s))
      BY <2>3, <2>4, <2>5, <2>8
    <3>2. asked = {x \in all : IsUnder(objects, x, a)}
      BY <2>7, <2>8
    <3>3. {Last(p) : p \in Below(paths, s)} = {o.id : o \in asked}
      <4>1. {Last(p) : p \in Below(paths, s)}
              = {o.id : o \in {x \in all : IsUnder(objects, x, a)}}
        BY <2>2, BelowFacts
      <4>2. QED
        BY <3>2, <4>1, Zenon
    <3>4. tree.nodes = Below(paths, s) /\ tree.count = Cardinality(Below(paths, s))
      BY <3>1 DEF Tree
    <3>5. tree.nodes \in SUBSET paths /\ tree.count = Cardinality(tree.nodes)
          /\ {Last(p) : p \in tree.nodes} = {o.id : o \in asked}
      BY <1>6, <3>3, <3>4
    <3>6. QED
      BY <3>5, Zenon DEF tree, asked, passes
  <2>9. CASE ~Passes(parent_id, a.parent_id)
    <3>1. tree.nodes = {} /\ tree.count = 0
      BY <2>4, <2>5, <2>9 DEF NoTree
    <3>2. asked = {}
      BY <2>7, <2>9
    <3>3. tree.nodes \in SUBSET paths /\ tree.count = Cardinality(tree.nodes)
          /\ {Last(p) : p \in tree.nodes} = {o.id : o \in asked}
      BY <3>1, <3>2, FS_EmptySet
    <3>4. QED
      BY <3>3, Zenon DEF tree, asked, passes
  <2>10. QED
    BY <2>8, <2>9
<1>8. CASE id = Absent /\ parent_id # Absent
  <2>1. PICK a \in all : parent_id = a.id
    BY <1>5, <1>8
  <2>2. PICK s \in paths : IsWay(objects, s, a)
    BY <1>1
  <2>3. At(parent_id) = {s}
    BY <1>3, <2>1, <2>2
  <2>4. tree = Tree(UNION {Below(paths, p) \ {p} : p \in At(parent_id)})
    BY <1>8 DEF ReadObjectTree
  <2>5. \A x : passes(x) <=> x.parent_id = a.id
    BY <1>8, <2>1 DEF Passes
  <2>6. asked = {o \in all : IsUnder(objects, o, a) /\ o # a}
    <3>1. \A o \in all : IsUnder(objects, o, a) /\ o # a <=>
            \E x \in all : IsUnder(objects, o, x) /\ x.parent_id = a.id
      BY UnderChild
    <3> HIDE DEF passes
    <3>2. QED
      BY <2>5, <3>1
  <2> HIDE DEF tree, asked, At
  <2>7. tree = Tree(Below(paths, s) \ {s})
    BY <2>3, <2>4
  <2>8. tree.nodes = Below(paths, s) \ {s} /\ tree.count = Cardinality(Below(paths, s) \ {s})
    BY <2>7 DEF Tree
  <2>9. {Last(p) : p \in Below(paths, s) \ {s}} = {o.id : o \in asked}
    BY <2>2, <2>6, BelowFacts
  <2>10. tree.nodes \in SUBSET paths /\ tree.count = Cardinality(tree.nodes)
         /\ {Last(p) : p \in tree.nodes} = {o.id : o \in asked}
    BY <1>6, <2>8, <2>9
  <2>11. QED
    BY <2>10, Zenon DEF tree, asked, passes
<1>9. CASE id = Absent /\ parent_id = Absent
  <2>1. tree = [nodes |-> paths, count |-> Len(objects)]
    BY <1>9 DEF ReadObjectTree
  <2>2. asked = all
    <3>1. \A x : passes(x)
      BY <1>9 DEF Passes
    <3>2. \A o \in all : IsUnder(objects, o, o)
      <4>1. ASSUME NEW o \in all PROVE IsUnder(objects, o, o)
        <5>1. Chain(objects, o)[0] = o.id /\ 0 \in 0..Len(objects) + 1
          BY ChainFacts, ObjectFacts
        <5>2. QED
          BY <5>1 DEF IsUnder
      <4>2. QED
        BY <4>1
    <3> HIDE DEF passes
    <3>3. QED
      BY <3>1, <3>2
  <2>3. {Last(p) : p \in paths} = {o.id : o \in all}
    <3>1. ASSUME NEW p \in paths PROVE \E o \in all : Last(p) = o.id
      BY <1>2, WayFacts
    <3>2. ASSUME NEW o \in all PROVE \E p \in paths : Last(p) = o.id
      BY <1>1, WayFacts
    <3>3. QED
      BY <3>1, <3>2
  <2>4. Cardinality(paths) = Len(objects)
    <3>1. Ids(objects) = {o.id : o \in all} /\ Cardinality(Ids(objects)) = Len(objects)
      BY IdsCounted DEF ObjectsAreValid
    <3>2. paths \in SUBSET TreePaths(objects)
      OBVIOUS
    <3>3. Cardinality(paths) = Cardinality({Last(p) : p \in paths})
      BY <3>2, NodesCounted
    <3>4. QED
      BY <2>3, <3>1, <3>3
  <2> HIDE DEF tree, asked
  <2>5. tree.nodes \in SUBSET paths /\ tree.count = Cardinality(tree.nodes)
        /\ {Last(p) : p \in tree.nodes} = {o.id : o \in asked}
    BY <2>1, <2>2, <2>3, <2>4
  <2>6. QED
    BY <2>5, Zenon DEF tree, asked, passes
<1>10. QED
  BY <1>7, <1>8, <1>9

-----------------------------------------------------------------------------
(* The query the lists are compared by. *)
AskUnder(list, object_id, device_id) ==
  [query EXCEPT !.list = list, !.id = Absent, !.parent_id = Absent,
                !.object_id = object_id, !.device_id = device_id,
                !.state = AnyState, !.include_disabled = TRUE]

(* What each list has under no filter, under an object, under a device.    *)
LEMMA UnderObjects ==
  ASSUME query \in Query, snapshot \in Snapshot
  PROVE  Range(Select(snapshot, AskUnder("objects", Absent, Absent)))
           = Range(snapshot.objects)
<1> DEFINE q == AskUnder("objects", Absent, Absent)
           objects == snapshot.objects
           all == {o.id : o \in Range(objects)}
           matching == {o.id : o \in {x \in Range(objects) : ObjectMatches(x, q)}}
           ids == IF q.include_children THEN WithChildren(objects, matching)
                                        ELSE matching
           wanted == {o \in Range(objects) : o.id \in ids}
<1> HIDE DEF q
<1>1. q.list = "objects" /\ q.id = Absent /\ q.parent_id = Absent
  BY DEF q, AskUnder, Query
<1>2. objects \in Seq(Object)
  BY DEF Snapshot
<1>3. Select(snapshot, q) = Chosen(objects, wanted)
  BY <1>1, Zenon DEF Select, SelectObjects, Range
<1>4. matching = all
  <2>1. \A o : ObjectMatches(o, q)
    BY <1>1 DEF ObjectMatches, Passes
  <2>2. QED
    BY <2>1
<1>5. all \subseteq ids
  <2>1. Len(objects) \in Nat /\ DOMAIN objects = 1..Len(objects)
    BY <1>2
  <2> HIDE DEF objects
  <2> HIDE DEF all
  <2>2. all \subseteq WithChildren(objects, all)
    BY <2>1, WithChildrenKeeps
  <2>3. QED
    BY <1>4, <2>2
<1> HIDE DEF ids
<1>6. wanted = Range(objects)
  BY <1>5
<1> HIDE DEF wanted, objects
<1>7. Range(Chosen(objects, wanted)) = Range(objects) \cap wanted
  BY <1>2, ChosenFacts
<1>8. QED
  BY <1>3, <1>6, <1>7 DEF q, objects

LEMMA UnderDevices ==
  ASSUME query \in Query, snapshot \in Snapshot, NEW object_id
  PROVE  Range(Select(snapshot, AskUnder("devices", object_id, Absent)))
           = {d \in Range(snapshot.devices) : Passes(object_id, d.object_id)}
<1> DEFINE q == AskUnder("devices", object_id, Absent)
           devices == snapshot.devices
           wanted == {d \in Range(devices) : DeviceMatches(d, q)}
<1> HIDE DEF q
<1>1. /\ q.list = "devices" /\ q.id = Absent /\ q.object_id = object_id
      /\ q.state = AnyState /\ q.include_disabled = TRUE
  BY DEF q, AskUnder, Query
<1>2. devices \in Seq(Device)
  BY DEF Snapshot
<1>3. Select(snapshot, q) = Chosen(devices, wanted)
  BY <1>1, Zenon DEF Select, Range
<1>4. \A d : DeviceMatches(d, q) <=> Passes(object_id, d.object_id)
  BY <1>1 DEF DeviceMatches, Passes
<1>5. wanted = {d \in Range(devices) : Passes(object_id, d.object_id)}
  BY <1>4
<1> HIDE DEF wanted
<1>6. Range(Chosen(devices, wanted)) = Range(devices) \cap wanted
  BY <1>2, ChosenFacts
<1>7. QED
  BY <1>3, <1>5, <1>6 DEF q

LEMMA UnderTags ==
  ASSUME query \in Query, snapshot \in Snapshot, NEW object_id, NEW device_id
  PROVE  Range(Select(snapshot, AskUnder("tags", object_id, device_id)))
           = {t \in Range(snapshot.tags) : /\ Passes(object_id, t.object_id)
                                           /\ Passes(device_id, t.device_id)}
<1> DEFINE q == AskUnder("tags", object_id, device_id)
           tags == snapshot.tags
           wanted == {t \in Range(tags) : TagMatches(t, q)}
<1> HIDE DEF q
<1>1. /\ q.list = "tags" /\ q.id = Absent /\ q.object_id = object_id
      /\ q.device_id = device_id /\ q.include_disabled = TRUE
  BY DEF q, AskUnder, Query
<1>2. tags \in Seq(Tag)
  BY DEF Snapshot
<1>3. Select(snapshot, q) = Chosen(tags, wanted)
  BY <1>1, Zenon DEF Select, Range
<1>4. \A t : TagMatches(t, q) <=> /\ Passes(object_id, t.object_id)
                                          /\ Passes(device_id, t.device_id)
  BY <1>1 DEF TagMatches, Passes
<1>5. wanted = {t \in Range(tags) : /\ Passes(object_id, t.object_id)
                                    /\ Passes(device_id, t.device_id)}
  BY <1>4
<1> HIDE DEF wanted
<1>6. Range(Chosen(tags, wanted)) = Range(tags) \cap wanted
  BY <1>2, ChosenFacts
<1>7. QED
  BY <1>3, <1>5, <1>6 DEF q

(* Where things are listed, in a snapshot that is valid.                   *)
LEMMA ValidListsAgree ==
  ASSUME query \in Query, snapshot \in Snapshot,
         SnapshotIsValid(snapshot)
  PROVE  TagsFollowDevices
<1> DEFINE Under(list, object_id, device_id) ==
             Range(Select(snapshot, AskUnder(list, object_id, device_id)))
           none == Absent
<1>1. TagsFollowDevices <=>
        (service = "serving" /\ walk = "idle" =>
           \A d \in {x \in Range(snapshot.devices) : x.state # "Draft"} :
             /\ d.object_id \in {o.id : o \in Under("objects", none, none)}
             /\ d \in Under("devices", d.object_id, none)
             /\ {t \in Under("tags", none, d.id) : t.type # "SystemTag"}
                   \subseteq Under("tags", d.object_id, none))
  BY Zenon DEF TagsFollowDevices, AskUnder, Range
<1> SUFFICES ASSUME NEW d \in Range(snapshot.devices), d.state # "Draft"
             PROVE  /\ d.object_id \in {o.id : o \in Under("objects", none, none)}
                    /\ d \in Under("devices", d.object_id, none)
                    /\ {t \in Under("tags", none, d.id) : t.type # "SystemTag"}
                          \subseteq Under("tags", d.object_id, none)
  BY <1>1, Zenon
<1>2. /\ snapshot.objects \in Seq(Object) /\ snapshot.devices \in Seq(Device)
      /\ snapshot.tags \in Seq(Tag)
  BY DEF Snapshot
<1>3. d \in Device
  BY <1>2 DEF Range
<1>4. d.id # Absent
  BY <1>3 DEF Device, Absent
<1>5. /\ DeviceIsSound(d) /\ RefersTo(d.object_id, snapshot.objects)
      /\ Unique(snapshot.devices)
  BY DEF SnapshotIsValid, DeviceIsValid, Range
<1>6. d.object_id # Absent
  BY <1>5 DEF DeviceIsSound, IsAssigned
<1>7. d.object_id \in {o.id : o \in Under("objects", none, none)}
  <2>1. d.object_id \in Ids(snapshot.objects)
    BY <1>5, <1>6 DEF RefersTo
  <2>2. PICK i \in DOMAIN snapshot.objects : d.object_id = snapshot.objects[i].id
    BY <2>1 DEF Ids
  <2>3. snapshot.objects[i] \in Under("objects", none, none)
    BY UnderObjects DEF Range
  <2> HIDE DEF Under
  <2>4. QED
    BY <2>2, <2>3
<1>8. d \in Under("devices", d.object_id, none)
  BY UnderDevices DEF Passes
<1>9. ASSUME NEW t \in Under("tags", none, d.id), t.type # "SystemTag"
      PROVE  t \in Under("tags", d.object_id, none)
  <2>1. t \in Range(snapshot.tags) /\ t.device_id = d.id
    BY <1>4, UnderTags DEF Passes
  <2>2. TagIsValid(snapshot, t)
    BY <2>1 DEF SnapshotIsValid, Range
  <2>3. t.object_id # Absent
    BY <1>9, <2>2 DEF TagIsValid, TagIsSound, RequiresObject,
                      IsAssigned
  <2>4. Find(snapshot.devices, t.device_id) = d
    BY <1>2, <1>5, <2>1, FindFacts
  <2>5. t.object_id = d.object_id
    BY <1>4, <1>6, <2>1, <2>2, <2>3, <2>4 DEF TagIsValid
  <2>6. QED
    BY <2>1, <2>5, UnderTags DEF Passes
<1>10. QED
  BY <1>7, <1>8, <1>9

-----------------------------------------------------------------------------
(* The inductive invariant.  A service that serves has a valid snapshot,   *)
(* and keeps it; what a walk has collected is the part of the whole list   *)
(* from where the walk started to where its next page will.                *)

ServiceInv ==
  /\ snapshot \in Snapshots /\ query \in Queries
  /\ service \in {"constructing", "serving", "failed"}
  /\ walk \in {"idle", "walking", "done"}
  /\ walk # "idle" => service = "serving"
  /\ service = "serving" => SnapshotIsValid(snapshot)

From == Least(first, Len(Full))

PagesRead ==
  /\ offset \in From..Len(Full)
  /\ collected = SubSeq(Full, From + 1, offset)
  /\ walk = "done" <=> offset = Len(Full)
  /\ pages <= offset - From + 1
  /\ walk = "walking" => pages <= offset - From

WalkInv ==
  /\ first \in Offsets \cup {0} /\ pages \in Nat
  /\ walk = "idle" => pages = 0
  /\ pages = 0 => walk # "done" /\ offset = first /\ collected = <<>>
  /\ pages > 0 => PagesRead

IInv == ServiceInv /\ WalkInv

LEMMA ServingFacts ==
  ASSUME ServiceInv
  PROVE  /\ snapshot \in Snapshot /\ query \in Query
         /\ walk # "idle" => SnapshotIsValid(snapshot)
BY SnapshotAssumption, QueryAssumption DEF ServiceInv

LEMMA LimitFacts ==
  ASSUME NEW limit \in Nat
  PROVE  NormalizedLimit(limit) \in Nat /\ NormalizedLimit(limit) >= 1
BY LimitAssumption DEF NormalizedLimit, Least

(* A part of a sequence, bounds inside the sequence. *)
LEMMA PartFacts ==
  ASSUME NEW S, NEW s \in Seq(S), NEW a \in 0..Len(s), NEW b \in a..Len(s)
  PROVE  /\ SubSeq(s, a + 1, b) \in Seq(S) /\ Len(SubSeq(s, a + 1, b)) = b - a
         /\ \A i \in 1..(b - a) : SubSeq(s, a + 1, b)[i] = s[a + i]
<1>1. \A i \in (a + 1)..b : s[i] \in S
  OBVIOUS
<1>2. a + 1 \in Int /\ b \in Int
  OBVIOUS
<1>3. /\ SubSeq(s, a + 1, b) \in Seq(S)
      /\ Len(SubSeq(s, a + 1, b)) = IF a + 1 <= b THEN b - (a + 1) + 1 ELSE 0
      /\ \A i \in 1..(b - (a + 1) + 1) : SubSeq(s, a + 1, b)[i] = s[(a + 1) + i - 1]
  BY <1>1, <1>2, SubSeqProperties
<1>4. /\ (IF a + 1 <= b THEN b - (a + 1) + 1 ELSE 0) = b - a
      /\ b - (a + 1) + 1 = b - a
      /\ \A i \in 1..(b - a) : (a + 1) + i - 1 = a + i
  OBVIOUS
<1>5. QED
  BY <1>3, <1>4

LEMMA ReadPageKeeps ==
  ASSUME IInv, ReadPage
  PROVE  IInv'
<1> DEFINE size == Len(Full)
           start == Least(offset, size)
           end == Least(start + NormalizedLimit(query.limit), size)
           items == SubSeq(Full, start + 1, end)
           R == Range(Full)
<1>1. /\ walk = "walking" /\ UNCHANGED <<snapshot, service, query, first>>
      /\ collected' = collected \o items /\ pages' = pages + 1
      /\ offset' = start + Len(items)
      /\ walk' = IF end < size THEN "walking" ELSE "done"
  BY DEF ReadPage, ReadList, Paginate, Full
<1>2. snapshot \in Snapshot /\ query \in Query /\ SnapshotIsValid(snapshot)
  BY <1>1, ServingFacts DEF IInv
<1>3. size \in Nat /\ Full \in Seq(R)
  BY <1>2, FullFacts
<1>4. Full' = Full
  BY <1>1 DEF Full, Select
<1> HIDE DEF R
<1>5. first \in Nat /\ pages \in Nat
  BY LimitAssumption DEF IInv, WalkInv
<1>6. From \in 0..size
  BY <1>3, <1>5 DEF From, Least
<1>7. /\ start \in From..size /\ collected = SubSeq(Full, From + 1, start)
      /\ pages <= start - From
  <2>1. CASE pages = 0
    <3>1. start = From /\ collected = <<>>
      BY <2>1 DEF IInv, WalkInv, From
    <3>2. SubSeq(Full, From + 1, From) = <<>>
      BY <1>3, <1>6, SubSeqEmpty
    <3>3. QED
      BY <1>3, <1>6, <2>1, <3>1, <3>2
  <2>2. CASE pages > 0
    <3>1. PagesRead
      BY <2>2 DEF IInv, WalkInv
    <3>2. start = offset
      BY <1>1, <1>3, <1>6, <3>1 DEF PagesRead, Least
    <3>3. QED
      BY <1>1, <3>1, <3>2 DEF PagesRead
  <2>3. QED
    BY <1>5, <2>1, <2>2
<1>8. NormalizedLimit(query.limit) \in Nat /\ NormalizedLimit(query.limit) >= 1
  BY <1>2, LimitFacts DEF Query
<1> HIDE DEF start
<1>9. end \in start..size /\ (end < size => end >= start + 1)
  BY <1>3, <1>6, <1>7, <1>8 DEF Least
<1> HIDE DEF end, size
<1>10. items \in Seq(R) /\ Len(items) = end - start
  BY <1>3, <1>6, <1>7, <1>9, PartFacts DEF size
<1>11. collected' = SubSeq(Full, From + 1, end)
  <2>1. From + 1 \in 1..size + 1 /\ start \in (From + 1) - 1..size /\ end \in start..size
    BY <1>3, <1>6, <1>7, <1>9
  <2>2. SubSeq(Full, From + 1, start) \o SubSeq(Full, start + 1, end) = SubSeq(Full, From + 1, end)
    BY <1>3, <2>1, ConcatAdjacentSubSeq DEF size
  <2>3. QED
    BY <1>1, <1>7, <2>2
<1>12. offset' = end
  BY <1>1, <1>3, <1>6, <1>7, <1>9, <1>10
<1>13. From' = From /\ Len(Full') = size
  BY <1>1, <1>4 DEF From, size
<1>14. PagesRead'
  <2>1. offset' \in From'..Len(Full') /\ (walk' = "done" <=> offset' = Len(Full'))
    BY <1>1, <1>3, <1>6, <1>7, <1>9, <1>12, <1>13
  <2>2. collected' = SubSeq(Full', From' + 1, offset')
    BY <1>4, <1>11, <1>12, <1>13
  <2>3. /\ pages' <= offset' - From' + 1
        /\ walk' = "walking" => pages' <= offset' - From'
    BY <1>1, <1>3, <1>5, <1>6, <1>7, <1>9, <1>12, <1>13
  <2>4. QED
    BY <2>1, <2>2, <2>3 DEF PagesRead
<1>15. WalkInv'
  BY <1>1, <1>5, <1>14 DEF IInv, WalkInv
<1>16. ServiceInv'
  BY <1>1 DEF IInv, ServiceInv
<1>17. QED
  BY <1>15, <1>16 DEF IInv

(* A service keeps its snapshot and a walk its place in the list.          *)
THEOREM Safety == Spec => []IInv
<1>1. Init => IInv
  <2>1. (CHOOSE q \in Queries : TRUE) \in Queries
    BY QueryAssumption
  <2>2. QED
    BY <2>1 DEF Init, IInv, ServiceInv, WalkInv
<1>2. IInv /\ [Next]_vars => IInv'
  <2> SUFFICES ASSUME IInv, [Next]_vars PROVE IInv'
    OBVIOUS
  <2>1. CASE Construct
    <3>1. walk = "idle" /\ UNCHANGED <<snapshot, walk, query, first, offset, pages, collected>>
      BY <2>1 DEF Construct, IInv, ServiceInv
    <3>2. WalkInv'
      BY <3>1 DEF IInv, WalkInv
    <3>3. ServiceInv'
      BY <2>1, <3>1 DEF Construct, IInv, ServiceInv
    <3>4. QED
      BY <3>2, <3>3 DEF IInv
  <2>2. ASSUME NEW q \in Queries, NEW from \in Offsets, StartWalk(q, from)
        PROVE  IInv'
    <3>1. WalkInv'
      BY <2>2 DEF StartWalk, WalkInv
    <3>2. ServiceInv'
      BY <2>2 DEF StartWalk, IInv, ServiceInv
    <3>3. QED
      BY <3>1, <3>2 DEF IInv
  <2>3. CASE ReadPage
    BY <2>3, ReadPageKeeps
  <2>4. CASE UNCHANGED vars
    <3>1. UNCHANGED <<snapshot, service, walk, query, first, offset, pages, collected>>
      BY <2>4 DEF vars
    <3>2. Full' = Full
      BY <3>1 DEF Full, Select
    <3>3. WalkInv'
      BY <3>1, <3>2 DEF IInv, WalkInv, PagesRead, From
    <3>4. ServiceInv'
      BY <3>1 DEF IInv, ServiceInv
    <3>5. QED
      BY <3>3, <3>4 DEF IInv
  <2>5. QED
    BY <2>1, <2>2, <2>3, <2>4 DEF Next
<1>3. QED
  BY <1>1, <1>2, PTL DEF Spec

(* The state a walk is in after its first page.                            *)
LEMMA CollectedFacts ==
  ASSUME IInv, pages > 0
  PROVE  /\ snapshot \in Snapshot /\ SnapshotIsValid(snapshot) /\ query \in Query
         /\ PagesRead /\ From \in 0..Len(Full) /\ offset \in From..Len(Full)
         /\ Len(collected) = offset - From /\ DOMAIN collected = 1..(offset - From)
         /\ \A i \in 1..(offset - From) : collected[i] = Full[From + i]
<1>1. snapshot \in Snapshot /\ SnapshotIsValid(snapshot) /\ query \in Query
  BY ServingFacts DEF IInv, WalkInv
<1>2. Len(Full) \in Nat /\ Full \in Seq(Range(Full))
  BY <1>1, FullFacts
<1>3. PagesRead
  BY DEF IInv, WalkInv
<1>4. From \in 0..Len(Full) /\ offset \in From..Len(Full)
  <2>1. first \in Nat
    BY LimitAssumption DEF IInv, WalkInv
  <2>2. QED
    BY <1>2, <1>3, <2>1 DEF From, Least, PagesRead
<1> DEFINE R == Range(Full)
<1> HIDE DEF R
<1>5. /\ Len(collected) = offset - From /\ collected \in Seq(R)
      /\ \A i \in 1..(offset - From) : collected[i] = Full[From + i]
  BY <1>2, <1>3, <1>4, PartFacts DEF R, PagesRead
<1>6. DOMAIN collected = 1..(offset - From)
  BY <1>4, <1>5
<1>7. QED
  BY <1>1, <1>3, <1>4, <1>5, <1>6

(* Pages tile: however the queries, limits and offsets are chosen, the     *)
(* pages of a walk are what the query asks for, in order, without gap or   *)
(* repetition, and the walk ends with the list.                            *)
THEOREM PagesTheorem == Spec => []PagesTile
<1>1. IInv => PagesTile
  <2> SUFFICES ASSUME IInv, pages > 0
               PROVE  PagesTile
    BY Zenon DEF PagesTile
  <2> DEFINE asked == Asked(query)
             size == Len(Full)
             rank(x) == Cardinality({y \in asked : Precedes(y, x)})
             model(x) == ToReadModel(query.list, x)
             start == Least(first, Cardinality(asked))
             position == start + Len(collected)
  <2>1. /\ PagesRead /\ From \in 0..size /\ offset \in From..size
        /\ Len(collected) = offset - From /\ DOMAIN collected = 1..(offset - From)
        /\ \A i \in 1..(offset - From) : collected[i] = Full[From + i]
    BY CollectedFacts
  <2>2. /\ size = Cardinality(asked) /\ size \in Nat
        /\ Full \in Seq(Range(Full)) /\ Range(Full) = {model(x) : x \in asked}
        /\ \A i, j \in 1..size : i < j => Precedes(Full[i], Full[j])
    BY CollectedFacts, FullFacts
  <2>3. \A k \in 1..size, x \in asked : Full[k] = model(x) => rank(x) = k - 1
    <3>1. \A k \in 1..Len(Full), x \in Asked(query) :
            Full[k] = ToReadModel(query.list, x)
              => Cardinality(Before(Asked(query), x)) = k - 1
      BY CollectedFacts, FullFacts
    <3>2. QED
      BY <3>1, Zenon DEF Before
  <2>4. start = From /\ position = offset
    BY <2>1, <2>2 DEF From
  <2> HIDE DEF asked, size, rank, model, start, position
  <2>5. \A i, j \in DOMAIN collected : i < j => Precedes(collected[i], collected[j])
    <3> SUFFICES ASSUME NEW i \in 1..(offset - From), NEW j \in 1..(offset - From), i < j
                 PROVE  Precedes(collected[i], collected[j])
      BY <2>1
    <3> DEFINE k == From + i  l == From + j
    <3>1. k \in 1..size /\ l \in 1..size /\ k < l
      BY <2>1, <2>2
    <3>2. collected[i] = Full[k] /\ collected[j] = Full[l]
      BY <2>1
    <3> HIDE DEF k, l
    <3>3. QED
      BY <2>2, <3>1, <3>2
  <2>6. Range(collected) = {model(x) : x \in {y \in asked : rank(y) \in start..(position - 1)}}
    <3>1. Range(collected) = {Full[From + i] : i \in 1..(offset - From)}
      BY <2>1 DEF Range
    <3>2. Range(Full) = {Full[k] : k \in 1..size}
      BY <2>2 DEF Range, size
    <3>3. ASSUME NEW i \in 1..(offset - From)
          PROVE  \E x \in asked : Full[From + i] = model(x) /\ rank(x) \in start..(position - 1)
      <4> DEFINE k == From + i
      <4>1. k \in 1..size /\ k - 1 \in start..(position - 1)
        BY <2>1, <2>2, <2>4
      <4> HIDE DEF k
      <4>2. PICK x \in asked : Full[k] = model(x)
        BY <2>2, <3>2, <4>1
      <4>3. rank(x) = k - 1
        BY <2>3, <4>1, <4>2
      <4>4. QED
        BY <4>1, <4>2, <4>3 DEF k
    <3>4. ASSUME NEW x \in asked, rank(x) \in start..(position - 1)
          PROVE  \E i \in 1..(offset - From) : Full[From + i] = model(x)
      <4>1. PICK k \in 1..size : Full[k] = model(x)
        BY <2>2, <3>2
      <4>2. rank(x) = k - 1
        BY <2>3, <4>1
      <4>3. k - From \in 1..(offset - From) /\ From + (k - From) = k
        BY <2>1, <2>2, <2>4, <3>4, <4>2
      <4>4. QED
        BY <4>1, <4>3
    <3>5. QED
      BY <3>1, <3>3, <3>4
  <2>7. /\ walk = "done" <=> position = Cardinality(asked)
        /\ pages <= Len(collected) + 1
        /\ walk = "walking" => pages <= Len(collected)
    BY <2>1, <2>2, <2>4 DEF PagesRead, size
  <2>8. QED
    BY <2>5, <2>6, <2>7, Zenon DEF PagesTile, asked, rank, model, start, position
<1>2. QED
  BY Safety, <1>1, PTL

(* Type correctness; in particular offsets stay within the stored list and *)
(* pages never hold anything but its read models.                          *)
THEOREM TypeCorrect == Spec => []TypeOK
<1>1. IInv => TypeOK
  <2> SUFFICES ASSUME IInv PROVE TypeOK
    OBVIOUS
  <2> DEFINE stored == snapshot[query.list]
             models == ReadModels(query.list, stored)
  <2>1. offset \in IF pages = 0 THEN {first} ELSE 0..Len(stored)
    <3>1. CASE pages = 0
      BY <3>1 DEF IInv, WalkInv
    <3>2. CASE pages > 0
      <4>1. snapshot \in Snapshot /\ SnapshotIsValid(snapshot) /\ query \in Query
            /\ offset \in From..Len(Full) /\ From \in 0..Len(Full)
        BY <3>2, CollectedFacts
      <4>2. Len(Full) \in Nat /\ Len(Full) <= Len(stored)
        BY <4>1, FullFacts
      <4>3. stored \in Seq(Items(query.list))
        BY <4>1, StoredFacts
      <4>4. Len(stored) \in Nat
        BY <4>3
      <4>5. QED
        BY <3>2, <4>1, <4>2, <4>4
    <3>3. QED
      BY <3>1, <3>2 DEF IInv, WalkInv
  <2>2. Range(collected) \subseteq Range(models)
    <3>1. CASE pages = 0
      BY <3>1 DEF IInv, WalkInv, Range
    <3>2. CASE pages > 0
      <4>1. snapshot \in Snapshot /\ SnapshotIsValid(snapshot) /\ query \in Query
            /\ From \in 0..Len(Full) /\ offset \in From..Len(Full)
            /\ DOMAIN collected = 1..(offset - From)
            /\ \A i \in 1..(offset - From) : collected[i] = Full[From + i]
        BY <3>2, CollectedFacts
      <4>2. Full \in Seq(Range(Full)) /\ Range(Full) \subseteq Range(models)
            /\ Len(Full) \in Nat
        BY <4>1, FullFacts
      <4>3. \A k \in 1..Len(Full) : Full[k] \in Range(Full)
        BY <4>2 DEF Range
      <4>4. \A i \in 1..(offset - From) : From + i \in 1..Len(Full)
        BY <4>1, <4>2
      <4>5. Range(collected) = {collected[i] : i \in 1..(offset - From)}
        BY <4>1 DEF Range
      <4> HIDE DEF models
      <4>6. QED
        BY <4>1, <4>2, <4>3, <4>4, <4>5
    <3>3. QED
      BY <3>1, <3>2 DEF IInv, WalkInv
  <2>3. QED
    BY <2>1, <2>2 DEF IInv, ServiceInv, WalkInv, TypeOK
<1>2. QED
  BY Safety, <1>1, PTL

(* In a snapshot that validation lets pass the tree under any filter has   *)
(* the objects of the list with includeChildren, each once.                *)
LEMMA ValidTreeMatches ==
  ASSUME query \in Query, snapshot \in Snapshot, SnapshotIsValid(snapshot)
  PROVE  TreeMatchesList
<1> DEFINE objects == snapshot.objects
<1> SUFFICES ASSUME NEW id \in Ids(objects) \cup {Absent},
                    NEW parent_id \in Ids(objects) \cup {Absent}
             PROVE  LET tree == ReadObjectTree(objects, id, parent_id)
                        q == [query EXCEPT !.list = "objects", !.id = id,
                                           !.parent_id = parent_id, !.include_children = TRUE]
                        listed == Select(snapshot, q)
                    IN  /\ {Last(p) : p \in tree.nodes} = Ids(listed)
                        /\ tree.count = Len(listed) /\ Cardinality(tree.nodes) = tree.count
  BY Zenon DEF TreeMatchesList
<1> DEFINE tree == ReadObjectTree(objects, id, parent_id)
           q == [query EXCEPT !.list = "objects", !.id = id,
                              !.parent_id = parent_id, !.include_children = TRUE]
           listed == Select(snapshot, q)
           asked == {o \in Range(objects) :
                       \E x \in Range(objects) :
                         /\ IsUnder(objects, o, x)
                         /\ Passes(id, x.id) /\ Passes(parent_id, x.parent_id)}
<1>1. ObjectsAreValid(objects)
  BY ValidObjects
<1>2. q \in Query /\ q.list = "objects" /\ q.id = id /\ q.parent_id = parent_id
      /\ q.include_children = TRUE
  <2>1. id \in Nat /\ parent_id \in Nat
    BY <1>1, ObjectFacts DEF Absent
  <2>2. QED
    BY <2>1 DEF Query
<1>3. Asked(q) = asked
  <2> HIDE DEF q
  <2>1. Asked(q) = {o \in Range(objects) : \E x \in Ancestors(o) : ObjectMatches(x, q)}
    BY <1>2 DEF Asked
  <2>2. \A x : ObjectMatches(x, q) <=> Passes(id, x.id) /\ Passes(parent_id, x.parent_id)
    BY <1>2 DEF ObjectMatches
  <2>3. \A o \in Range(objects) :
          Ancestors(o) = {x \in Range(objects) : IsUnder(objects, o, x)}
    <3>1. \A o \in Range(objects) : DOMAIN Chain(objects, o) = 0..Len(objects) + 1
      BY <1>1, ChainFacts
    <3>2. QED
      BY <3>1, Zenon DEF Ancestors, IsUnder
  <2> HIDE DEF objects
  <2>4. QED
    BY <2>1, <2>2, <2>3
<1>4. /\ listed \in Seq(Items(q.list)) /\ Unique(listed) /\ Range(listed) = asked
  <2> HIDE DEF q, asked
  <2>1. QED
    BY <1>2, <1>3, SelectFacts
<1> HIDE DEF listed, q
<1>5. Ids(listed) = {o.id : o \in asked} /\ Cardinality(Ids(listed)) = Len(listed)
  BY <1>4, IdsCounted
<1>6. /\ tree.nodes \in SUBSET TreePaths(objects)
      /\ {Last(p) : p \in tree.nodes} = {o.id : o \in asked}
      /\ tree.count = Cardinality(tree.nodes)
  <2> HIDE DEF objects
  <2>1. QED
    BY <1>1, TreeFacts, Zenon DEF asked
<1> HIDE DEF tree, asked, objects
<1>7. Cardinality(tree.nodes) = Cardinality({Last(p) : p \in tree.nodes})
  BY <1>1, <1>6, NodesCounted
<1>8. /\ {Last(p) : p \in tree.nodes} = Ids(listed)
      /\ tree.count = Len(listed) /\ Cardinality(tree.nodes) = tree.count
  BY <1>5, <1>6, <1>7
<1>9. QED
  BY <1>8 DEF tree, listed, q

(* The tree and the list are two views of one configuration.               *)
THEOREM TreeTheorem == Spec => []TreeMatchesList
<1>1. IInv => TreeMatchesList
  <2> SUFFICES ASSUME IInv PROVE TreeMatchesList
    OBVIOUS
  <2>1. CASE service = "serving"
    BY <2>1, ServingFacts, ValidTreeMatches DEF IInv, ServiceInv
  <2>2. CASE service # "serving"
    BY <2>2, Zenon DEF TreeMatchesList
  <2>3. QED
    BY <2>1, <2>2
<1>2. QED
  BY Safety, <1>1, PTL

(* The lists agree on where things are: for any valid snapshot, a device   *)
(* that has left Draft is listed under an object of the list of objects,   *)
(* and its tags under the object of the device.                            *)
THEOREM ListsTheorem == Spec => []TagsFollowDevices
<1>1. IInv => TagsFollowDevices
  <2> SUFFICES ASSUME IInv PROVE TagsFollowDevices
    OBVIOUS
  <2>1. CASE service = "serving"
    BY <2>1, ServingFacts, ValidListsAgree DEF IInv, ServiceInv
  <2>2. CASE service # "serving"
    BY <2>2, Zenon DEF TagsFollowDevices
  <2>3. QED
    BY <2>1, <2>2
<1>2. QED
  BY Safety, <1>1, PTL
=============================================================================
