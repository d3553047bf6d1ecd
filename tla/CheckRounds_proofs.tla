------------------------- MODULE CheckRounds_proofs -------------------------
(***************************************************************************)
(* Proofs about CheckRounds for any subscription of up to 20 servers, any  *)
(* qualities and any number of measurements.  What the sort does is stated *)
(* of positions and of a relation between them, so that one lemma serves   *)
(* both orders, although neither Better nor its sort is an order.          *)
(***************************************************************************)
EXTENDS CheckRounds, TLAPS, SequenceTheorems, WellFoundedInduction

-----------------------------------------------------------------------------
(***************************************************************************)
(* The insertion sort                                                      *)
(***************************************************************************)

\* A set of numbers that has one has a least one.
LEMMA Least ==
  ASSUME NEW S \in SUBSET Nat, S # {}
  PROVE  \E n \in S : \A m \in S : n <= m
<1>1. PICK n \in S : \A m \in S : <<m, n>> \notin OpToRel(<, Nat)
  BY NatLessThanWellFounded, WFMin
<1>2. \A m \in S : ~(m < n)
  BY <1>1 DEF OpToRel
<1> QED
  BY <1>2

\* A sequence over a set is one over any larger set.
LEMMA InLargerSeq ==
  ASSUME NEW E, NEW D \in SUBSET E, NEW s \in Seq(D)
  PROVE  s \in Seq(E)
<1>1. Len(s) \in Nat /\ s = [k \in 1..Len(s) |-> s[k]]
      /\ \A k \in 1..Len(s) : s[k] \in D
  OBVIOUS
<1>2. [k \in 1..Len(s) |-> s[k]] \in Seq(E)
  BY <1>1
<1> QED
  BY <1>1, <1>2

\* A place in front of a tail is found: the longest is the one that begins
\* first.
LEMMA PlaceFound ==
  ASSUME NEW done \in Seq(Nat), NEW x, NEW before
  PROVE  \E i \in 1..Len(done) + 1 :
           /\ \A j \in i..Len(done) : <<x, done[j]>> \in before
           /\ i > 1 => <<x, done[i - 1]>> \notin before
<1> DEFINE n == Len(done)
           Tails == {i \in 1..n + 1 : \A j \in i..n : <<x, done[j]>> \in before}
<1>1. n \in Nat
  OBVIOUS
<1> HIDE DEF n
<1>2. n + 1 \in Tails /\ Tails \in SUBSET Nat
  BY <1>1
<1>3. PICK i \in Tails : \A m \in Tails : i <= m
  <2> HIDE DEF Tails
  <2> QED
    BY <1>2, Least
<1>4. i \in 1..n + 1 /\ \A j \in i..n : <<x, done[j]>> \in before
  BY <1>3
<1>5. ASSUME i > 1 PROVE <<x, done[i - 1]>> \notin before
  <2>1. i - 1 \in 1..n + 1 /\ i - 1 \notin Tails
    BY <1>1, <1>3, <1>4, <1>5
  <2>2. PICK j \in i - 1..n : <<x, done[j]>> \notin before
    BY <2>1
  <2>3. j = i - 1
    BY <1>1, <1>4, <2>1, <2>2
  <2> QED
    BY <2>2, <2>3
<1> QED
  BY <1>4, <1>5 DEF n

\* What InsertAt does to a sequence.
LEMMA Inserted ==
  ASSUME NEW D, NEW s \in Seq(D), NEW i \in 1..Len(s) + 1, NEW x \in D
  PROVE  /\ InsertAt(s, i, x) \in Seq(D)
         /\ Len(InsertAt(s, i, x)) = Len(s) + 1
         /\ \A k \in 1..Len(s) + 1 :
              InsertAt(s, i, x)[k] = IF k < i THEN s[k]
                                     ELSE IF k = i THEN x ELSE s[k - 1]
<1> DEFINE n == Len(s)
           r == InsertAt(s, i, x)
           left == SubSeq(s, 1, i - 1)
           right == SubSeq(s, i, n)
<1>1. n \in Nat /\ i \in 1..n + 1
  OBVIOUS
<1>2. /\ left \in Seq(D) /\ Len(left) = i - 1
      /\ \A k \in 1..i - 1 : left[k] = s[k]
  BY <1>1
<1>3. /\ right \in Seq(D) /\ Len(right) = n + 1 - i
      /\ \A k \in 1..n + 1 - i : right[k] = s[k + i - 1]
  BY <1>1
<1>4. <<x>> \in Seq(D) /\ Len(<<x>>) = 1 /\ <<x>>[1] = x
  OBVIOUS
<1>5. r = (left \o <<x>>) \o right
  BY DEF InsertAt
<1> HIDE DEF n, left, right, r
<1>6. /\ left \o <<x>> \in Seq(D) /\ Len(left \o <<x>>) = i
      /\ \A k \in 1..i : (left \o <<x>>)[k] = IF k < i THEN s[k] ELSE x
  BY <1>1, <1>2, <1>4
<1> DEFINE front == left \o <<x>>
<1>7. /\ front \in Seq(D) /\ Len(front) = i
      /\ \A k \in 1..i : front[k] = IF k < i THEN s[k] ELSE x
  BY <1>6
<1> HIDE DEF front
<1>8. r = front \o right
  BY <1>5 DEF front
<1>9. /\ r \in Seq(D) /\ Len(r) = n + 1
      /\ \A k \in 1..n + 1 : r[k] = IF k <= i THEN front[k] ELSE right[k - i]
  <2>1. front \in Seq(D) /\ right \in Seq(D)
    BY <1>3, <1>7
  <2>2. /\ front \o right \in Seq(D)
        /\ Len(front \o right) = Len(front) + Len(right)
        /\ \A k \in 1..Len(front) + Len(right) :
             (front \o right)[k] = IF k <= Len(front) THEN front[k]
                                   ELSE right[k - Len(front)]
    BY ONLY <2>1, ConcatProperties
  <2>3. Len(front) = i /\ Len(right) = n + 1 - i /\ i + (n + 1 - i) = n + 1
    BY <1>1, <1>3, <1>7
  <2> QED
    BY ONLY <1>8, <2>2, <2>3
<1>10. ASSUME NEW k \in 1..n + 1
       PROVE  r[k] = IF k < i THEN s[k] ELSE IF k = i THEN x ELSE s[k - 1]
  <2>1. CASE k <= i
    BY <1>1, <1>7, <1>9, <2>1
  <2>2. CASE k > i
    <3>1. k - i \in 1..n + 1 - i /\ (k - i) + i - 1 = k - 1 /\ ~(k <= i)
      BY <1>1, <2>2
    <3>2. right[k - i] = s[k - 1]
      BY <1>3, <3>1
    <3>3. r[k] = right[k - i]
      BY <1>9, <3>1
    <3> QED
      BY <1>1, <2>2, <3>2, <3>3
  <2> QED
    BY <1>1, <2>1, <2>2
<1> QED
  BY <1>9, <1>10 DEF n, r

\* The order of a sequence of positions in which none comes right after one
\* that it precedes.
InOrder(s, before) ==
  \A k \in 1..Len(s) - 1 : <<s[k + 1], s[k]>> \notin before

\* No two positions precede each other.
Asymmetric(before) ==
  \A i, j \in Nat : <<i, j>> \in before => <<j, i>> \notin before

\* r is done with x at place i, in front of the longest such tail.
SinksTo(r, done, x, before, i) ==
  /\ i \in 1..Len(done) + 1
  /\ \A j \in i..Len(done) : <<x, done[j]>> \in before
  /\ i > 1 => <<x, done[i - 1]>> \notin before
  /\ \A k \in 1..Len(done) + 1 :
       r[k] = IF k < i THEN done[k] ELSE IF k = i THEN x ELSE done[k - 1]

\* Where x sinks to.
LEMMA SunkPlace ==
  ASSUME NEW D \in SUBSET Nat, NEW done \in Seq(D), NEW x \in D, NEW before
  PROVE  /\ Sunk(done, x, before) \in Seq(D)
         /\ Len(Sunk(done, x, before)) = Len(done) + 1
         /\ \E i : SinksTo(Sunk(done, x, before), done, x, before, i)
<1> DEFINE Place(i) == /\ \A j \in i..Len(done) : <<x, done[j]>> \in before
                       /\ i > 1 => <<x, done[i - 1]>> \notin before
           i == CHOOSE i \in 1..Len(done) + 1 : Place(i)
           r == Sunk(done, x, before)
<1>1. done \in Seq(Nat)
  BY InLargerSeq
<1>2. i \in 1..Len(done) + 1 /\ Place(i)
  <2>1. \E j \in 1..Len(done) + 1 : Place(j)
    BY <1>1, PlaceFound
  <2> HIDE DEF Place
  <2> QED
    BY <2>1
<1>3. r = InsertAt(done, i, x)
  BY DEF Sunk
<1>4. i \in 1..Len(done) + 1
  BY <1>2
<1>5. Place(i)
  BY <1>2
<1> HIDE DEF i, r
<1>6. /\ InsertAt(done, i, x) \in Seq(D)
      /\ Len(InsertAt(done, i, x)) = Len(done) + 1
      /\ \A k \in 1..Len(done) + 1 :
           InsertAt(done, i, x)[k] = IF k < i THEN done[k]
                                     ELSE IF k = i THEN x ELSE done[k - 1]
  <2> HIDE DEF Place
  <2> QED
    BY <1>4, Inserted
<1> QED
  <2>1. SinksTo(r, done, x, before, i)
    BY <1>3, <1>4, <1>5, <1>6 DEF SinksTo
  <2> QED
    BY <1>3, <1>6, <2>1 DEF r

\* r, over D, is in order and has x and what done has.
WithMore(r, D, done, x, before) ==
  /\ r \in Seq(D) /\ Len(r) = Len(done) + 1
  /\ \E k \in 1..Len(done) + 1 : r[k] = x
  /\ \A j \in 1..Len(done) : \E k \in 1..Len(done) + 1 : r[k] = done[j]
  /\ InOrder(r, before)

\* x sinks into a sequence that is in order.
LEMMA SunkKeeps ==
  ASSUME NEW D \in SUBSET Nat, NEW done \in Seq(D), NEW x \in D, NEW before,
         InOrder(done, before),
         Asymmetric(before)
  PROVE  WithMore(Sunk(done, x, before), D, done, x, before)
<1> DEFINE r == Sunk(done, x, before)
           n == Len(done)
<1>1. done \in Seq(Nat)
  BY InLargerSeq
<1>2. PICK i : SinksTo(r, done, x, before, i)
  BY SunkPlace
<1>3. r \in Seq(D) /\ Len(r) = n + 1
  <2> HIDE DEF InOrder
  <2> QED
    BY SunkPlace
<1>4. n \in Nat /\ i \in 1..n + 1
  BY <1>2 DEF SinksTo
<1> HIDE DEF r
<1>5. /\ r \in Seq(D) /\ Len(r) = n + 1
      /\ \A k \in 1..n + 1 : r[k] = IF k < i THEN done[k]
                                    ELSE IF k = i THEN x ELSE done[k - 1]
  BY <1>2, <1>3 DEF SinksTo
<1>6. \A j \in i..n : <<x, done[j]>> \in before
  BY <1>2 DEF SinksTo
<1>7. i > 1 => <<x, done[i - 1]>> \notin before
  BY <1>2 DEF SinksTo
<1>8. \A k \in 1..n - 1 : <<done[k + 1], done[k]>> \notin before
  BY DEF InOrder
<1>9. \A k \in 1..n : done[k] \in Nat /\ x \in Nat
  BY <1>1
<1> HIDE DEF n
<1>10. r[i] = x
  BY <1>4, <1>5
<1>11. ASSUME NEW j \in 1..n PROVE \E k \in 1..n + 1 : r[k] = done[j]
  <2>1. CASE j < i
    BY <1>4, <1>5, <2>1
  <2>2. CASE j >= i
    <3>1. j + 1 \in 1..n + 1 /\ ~(j + 1 < i) /\ j + 1 # i /\ (j + 1) - 1 = j
      BY <1>4, <2>2
    <3>2. r[j + 1] = done[j]
      BY <1>5, <3>1
    <3> QED
      BY <3>1, <3>2
  <2> QED
    BY <1>4, <2>1, <2>2
<1>12. ASSUME NEW k \in 1..n PROVE <<r[k + 1], r[k]>> \notin before
  <2>1. k \in 1..n + 1 /\ k + 1 \in 1..n + 1 /\ (k + 1) - 1 = k
    BY <1>4
  <2>2. CASE k + 1 < i
    <3>1. r[k] = done[k] /\ r[k + 1] = done[k + 1] /\ k \in 1..n - 1
      BY <1>4, <1>5, <2>1, <2>2
    <3> QED
      BY <1>8, <3>1
  <2>3. CASE k + 1 = i
    <3>1. r[k] = done[k] /\ r[k + 1] = x /\ i > 1 /\ k = i - 1
      BY <1>4, <1>5, <2>1, <2>3
    <3> QED
      BY <1>7, <3>1
  <2>4. CASE k = i
    <3>1. r[k] = x /\ r[k + 1] = done[k] /\ k \in i..n
      BY <1>4, <1>5, <2>1, <2>4
    <3> QED
      BY <1>6, <1>9, <3>1 DEF Asymmetric
  <2>5. CASE k > i
    <3>1. r[k] = done[k - 1] /\ r[k + 1] = done[k] /\ k - 1 \in 1..n - 1
          /\ (k - 1) + 1 = k
      BY <1>4, <1>5, <2>1, <2>5
    <3> QED
      BY <1>8, <3>1
  <2> QED
    BY <1>4, <2>2, <2>3, <2>4, <2>5
<1>13. InOrder(r, before)
  BY <1>4, <1>5, <1>12 DEF InOrder
<1> QED
  BY <1>4, <1>5, <1>10, <1>11, <1>13 DEF n, r, WithMore

\* The loop of Positions, done being what it has after each position.
Loop(n, kept, before, done) ==
  [m \in 0..n |->
     IF m = 0 THEN <<>>
     ELSE IF m \in kept THEN Sunk(done[m - 1], m, before) ELSE done[m - 1]]

\* The loop runs to its end.
LEMMA LoopRuns ==
  ASSUME NEW kept, NEW before, NEW end \in Nat
  PROVE  \E done : done = Loop(end, kept, before, done)
<1> DEFINE Stuck == {n \in Nat : ~ \E done : done = Loop(n, kept, before, done)}
<1> SUFFICES ASSUME Stuck # {} PROVE FALSE
  OBVIOUS
<1>1. PICK n \in Stuck : \A m \in Stuck : n <= m
  <2> HIDE DEF Stuck
  <2> Stuck \in SUBSET Nat
    BY DEF Stuck
  <2> QED
    BY Least
<1>2. CASE n = 0
  <2> DEFINE done == [m \in 0..0 |-> <<>>]
  <2>1. done = Loop(0, kept, before, done)
    BY DEF Loop
  <2> QED
    BY <1>2, <2>1
<1>3. CASE n # 0
  <2>1. n \in Nat /\ n - 1 \in Nat /\ n - 1 \notin Stuck
    BY <1>1, <1>3
  <2>2. PICK old : old = Loop(n - 1, kept, before, old)
    BY <2>1
  <2> DEFINE next == IF n \in kept THEN Sunk(old[n - 1], n, before) ELSE old[n - 1]
             done == [m \in 0..n |-> IF m = n THEN next ELSE old[m]]
             Step(m) == IF m = 0 THEN <<>>
                        ELSE IF m \in kept THEN Sunk(done[m - 1], m, before)
                        ELSE done[m - 1]
  <2>3. \A m \in 0..n - 1 : old[m] =
          IF m = 0 THEN <<>>
          ELSE IF m \in kept THEN Sunk(old[m - 1], m, before) ELSE old[m - 1]
    BY <2>2 DEF Loop
  <2>4. \A m \in 0..n - 1 : done[m] = old[m]
    BY <2>1
  <2>5. ASSUME NEW m \in 0..n PROVE done[m] = Step(m)
    <3>1. CASE m = n
      <4>1. done[n] = next /\ done[n - 1] = old[n - 1]
        BY <2>1, <2>4
      <4> HIDE DEF done
      <4> QED
        BY <1>3, <3>1, <4>1
    <3>2. CASE m # n
      <4>1. m \in 0..n - 1 /\ (m # 0 => m - 1 \in 0..n - 1)
        BY <2>1, <3>2
      <4> HIDE DEF done
      <4> QED
        BY <2>3, <2>4, <4>1
    <3> QED
      BY <3>1, <3>2
  <2>6. done = Loop(n, kept, before, done)
    <3> DEFINE F == [m \in 0..n |-> Step(m)]
    <3>1. done = [m \in 0..n |-> done[m]]
      OBVIOUS
    <3> HIDE DEF done, Step
    <3>2. done = F
      BY <2>5, <3>1
    <3> QED
      BY <3>2 DEF Loop, Step
  <2> QED
    BY <2>1, <2>6
<1> QED
  BY <1>2, <1>3

\* s has the positions kept of 1..m, and has them in order.
Arranged(s, m, kept, before) ==
  /\ s \in Seq(1..m)
  /\ \A k \in 1..Len(s) : s[k] \in kept
  /\ \A j \in 1..m : j \in kept => \E k \in 1..Len(s) : s[k] = j
  /\ InOrder(s, before)
  /\ 1..m \subseteq kept => Len(s) = m

\* The sort has all that it is to have and leaves nothing out of order, if no
\* two positions precede each other.
LEMMA PositionsArranged ==
  ASSUME NEW n \in Nat, NEW kept, NEW before,
         Asymmetric(before)
  PROVE  Arranged(Positions(n, kept, before), n, kept, before)
<1> DEFINE done == CHOOSE done : done = Loop(n, kept, before, done)
<1>1. done = Loop(n, kept, before, done)
  BY LoopRuns
<1>2. Positions(n, kept, before) = done[n]
  BY DEF Positions, Loop
<1> HIDE DEF done
<1>3. \A m \in 0..n : done[m] =
        IF m = 0 THEN <<>>
        ELSE IF m \in kept THEN Sunk(done[m - 1], m, before) ELSE done[m - 1]
  BY <1>1 DEF Loop
<1> DEFINE Wrong == {m \in 0..n : ~Arranged(done[m], m, kept, before)}
<1> SUFFICES ASSUME Wrong # {} PROVE FALSE
  BY <1>2
<1>4. PICK m \in Wrong : \A l \in Wrong : m <= l
  <2>1. Wrong \in SUBSET Nat
    OBVIOUS
  <2> HIDE DEF Wrong
  <2> QED
    BY <2>1, Least
<1>5. m \in 0..n /\ ~Arranged(done[m], m, kept, before)
  BY <1>4
<1>6. CASE m = 0
  <2>1. done[0] = <<>>
    BY <1>3
  <2>2. Arranged(<<>>, 0, kept, before)
    BY DEF Arranged, InOrder
  <2> QED
    BY <1>5, <1>6, <2>1, <2>2
<1>7. CASE m # 0
  <2>1. m - 1 \in 0..n /\ m - 1 \notin Wrong /\ m \in Nat
    BY <1>4, <1>5, <1>7
  <2>2. Arranged(done[m - 1], m - 1, kept, before)
    BY <2>1
  <2> DEFINE old == done[m - 1]
  <2>3. /\ old \in Seq(1..m - 1)
        /\ \A k \in 1..Len(old) : old[k] \in kept
        /\ \A j \in 1..m - 1 : j \in kept => \E k \in 1..Len(old) : old[k] = j
        /\ InOrder(old, before)
        /\ 1..m - 1 \subseteq kept => Len(old) = m - 1
    BY <2>2 DEF Arranged
  <2>4. done[m] = IF m \in kept THEN Sunk(old, m, before) ELSE old
    BY <1>3, <1>5, <1>7
  <2> HIDE DEF old, Wrong
  <2>5. old \in Seq(1..m)
    <3>1. 1..m - 1 \in SUBSET (1..m)
      BY <2>1
    <3> QED
      BY <2>3, <3>1, InLargerSeq
  <2>6. CASE m \notin kept
    <3>1. \A j \in 1..m : j \in kept => j \in 1..m - 1
      BY <2>1, <2>6
    <3>2. ~(1..m \subseteq kept)
      BY <1>5, <1>7, <2>6
    <3>3. Arranged(old, m, kept, before)
      BY <2>3, <2>5, <3>1, <3>2 DEF Arranged
    <3> QED
      BY <1>5, <2>4, <2>6, <3>3
  <2>7. CASE m \in kept
    <3> DEFINE r == Sunk(old, m, before)
    <3>1. 1..m \in SUBSET Nat /\ m \in 1..m
      BY <1>5, <1>7
    <3>2. /\ r \in Seq(1..m) /\ Len(r) = Len(old) + 1
          /\ \E k \in 1..Len(old) + 1 : r[k] = m
          /\ \A j \in 1..Len(old) : \E k \in 1..Len(old) + 1 : r[k] = old[j]
          /\ InOrder(r, before)
      <4>1. WithMore(r, 1..m, old, m, before)
        BY <2>3, <2>5, <3>1, SunkKeeps
      <4> QED
        BY <4>1 DEF WithMore
    <3>3. \A k \in 1..Len(r) : r[k] \in kept
      <4>1. PICK i : SinksTo(r, old, m, before, i)
        BY <2>5, <3>1, SunkPlace
      <4>2. \A k \in 1..Len(old) + 1 :
              r[k] = IF k < i THEN old[k] ELSE IF k = i THEN m ELSE old[k - 1]
        BY <4>1 DEF SinksTo
      <4>3. i \in 1..Len(old) + 1 /\ Len(old) \in Nat
        BY <2>5, <4>1 DEF SinksTo
      <4> HIDE DEF r
      <4> SUFFICES ASSUME NEW k \in 1..Len(old) + 1 PROVE r[k] \in kept
        BY <3>2
      <4>4. k < i => k \in 1..Len(old)
        BY <4>3
      <4>5. k > i => k - 1 \in 1..Len(old)
        BY <4>3
      <4>6. k < i \/ k = i \/ k > i
        BY <4>3
      <4> QED
        BY <2>3, <2>7, <4>2, <4>3, <4>4, <4>5, <4>6
    <3> HIDE DEF r
    <3>4. ASSUME NEW j \in 1..m, j \in kept
          PROVE  \E k \in 1..Len(r) : r[k] = j
      <4>1. CASE j = m
        BY <3>2, <4>1
      <4>2. CASE j # m
        <5>1. j \in 1..m - 1
          BY <2>1, <4>2
        <5>2. PICK k \in 1..Len(old) : old[k] = j
          BY <2>3, <3>4, <5>1
        <5> QED
          BY <3>2, <5>2
      <4> QED
        BY <4>1, <4>2
    <3>5. 1..m \subseteq kept => Len(r) = m
      <4>1. 1..m \subseteq kept => 1..m - 1 \subseteq kept
        BY <2>1
      <4> QED
        BY <2>1, <2>3, <3>2, <4>1
    <3>6. Arranged(r, m, kept, before)
      BY <3>2, <3>3, <3>4, <3>5 DEF Arranged
    <3> QED
      BY <1>5, <2>4, <2>7, <3>6 DEF r
  <2> QED
    BY <2>6, <2>7
<1> QED
  BY <1>6, <1>7

-----------------------------------------------------------------------------
(***************************************************************************)
(* The two orders                                                          *)
(***************************************************************************)

\* The latency a server is ranked by is a number.
LEMMA LatencyType ==
  ASSUME NEW r \in Outcome
  PROVE  LatencyOf(r) \in Nat
BY DEF Outcome, LatencyOf

\* No two servers are better than each other.
LEMMA BetterAsymmetric ==
  ASSUME NEW a \in Outcome, NEW b \in Outcome, Better(a, b)
  PROVE  ~Better(b, a)
<1> DEFINE la == LatencyOf(a)
           lb == LatencyOf(b)
<1>1. a.speed \in Nat /\ b.speed \in Nat
  BY DEF Outcome
<1>2. la \in Nat /\ lb \in Nat
  BY LatencyType
<1>3. Close(a.speed, b.speed) <=> Close(b.speed, a.speed)
  BY DEF Close
<1> HIDE DEF la, lb
<1>4. Abs(la - lb) = Abs(lb - la)
  BY <1>2 DEF Abs
<1>5. Alive(a)
  BY DEF Better
<1>6. CASE ~Alive(b)
  BY <1>6 DEF Better
<1>7. CASE Alive(b) /\ (a.speed = 0 \/ b.speed = 0)
  BY <1>1, <1>2, <1>5, <1>7 DEF Better, la, lb
<1>8. CASE Alive(b) /\ a.speed > 0 /\ b.speed > 0
  <2> DEFINE near == Close(a.speed, b.speed) /\ Abs(la - lb) >= Significance
  <2>1. IF near THEN la < lb ELSE a.speed > b.speed
    BY <1>1, <1>5, <1>8 DEF Better, la, lb
  <2>2. Better(b, a) => IF near THEN lb < la ELSE b.speed > a.speed
    BY <1>1, <1>3, <1>4, <1>5, <1>8 DEF Better, la, lb
  <2> HIDE DEF near
  <2> QED
    BY <1>1, <1>2, <2>1, <2>2
<1> QED
  BY <1>1, <1>6, <1>7, <1>8

\* No two servers are more urgent than each other.
LEMMA UrgentAsymmetric ==
  ASSUME NEW a \in Outcome, NEW b \in Outcome, Urgent(a, b)
  PROVE  ~Urgent(b, a)
<1>1. a.speed \in Nat /\ b.speed \in Nat
  BY DEF Outcome
<1>2. LatencyOf(a) \in Nat /\ LatencyOf(b) \in Nat
  BY LatencyType
<1> QED
  BY <1>1, <1>2 DEF Urgent

\* No result comes right after one that it is better than.
Ordered(rs) == \A k \in 1..Len(rs) - 1 : ~Better(rs[k + 1], rs[k])

\* sorted has the results of rs and no others, as many, and in order.
Rearranged(sorted, rs) ==
  /\ sorted \in Seq(Outcome) /\ Len(sorted) = Len(rs)
  /\ \A k \in 1..Len(rs) : \E j \in 1..Len(rs) : sorted[k] = rs[j]
  /\ \A j \in 1..Len(rs) : \E k \in 1..Len(rs) : sorted[k] = rs[j]
  /\ Ordered(sorted)

\* What Sort does.
LEMMA SortRearranges ==
  ASSUME NEW rs \in Seq(Outcome)
  PROVE  Rearranged(Sort(rs), rs)
<1> DEFINE n == Len(rs)
           before == {p \in (DOMAIN rs) \X (DOMAIN rs) : Better(rs[p[1]], rs[p[2]])}
           order == Positions(n, DOMAIN rs, before)
           sorted == [k \in DOMAIN order |-> rs[order[k]]]
<1>1. n \in Nat /\ DOMAIN rs = 1..n /\ \A k \in 1..n : rs[k] \in Outcome
  OBVIOUS
<1>2. \A i, j \in 1..n : <<i, j>> \in before <=> Better(rs[i], rs[j])
  BY <1>1
<1>3. Asymmetric(before)
  <2> SUFFICES ASSUME NEW i \in Nat, NEW j \in Nat, <<i, j>> \in before
               PROVE  <<j, i>> \notin before
    BY DEF Asymmetric
  <2>1. i \in 1..n /\ j \in 1..n /\ Better(rs[i], rs[j])
    BY <1>1
  <2>2. ~Better(rs[j], rs[i])
    BY <1>1, <2>1, BetterAsymmetric
  <2> QED
    BY <1>2, <2>1, <2>2
<1>4. Sort(rs) = sorted
  BY DEF Sort
<1> HIDE DEF before, order
<1>5. Arranged(order, n, 1..n, before)
  BY <1>1, <1>3, PositionsArranged DEF order
<1>6. /\ order \in Seq(1..n) /\ Len(order) = n
      /\ \A j \in 1..n : \E k \in 1..n : order[k] = j
      /\ \A k \in 1..n - 1 : <<order[k + 1], order[k]>> \notin before
  BY <1>1, <1>5 DEF Arranged, InOrder
<1> DEFINE D == 1..n
<1>7. DOMAIN order = 1..n /\ \A k \in 1..n : order[k] \in 1..n
  <2>1. order \in Seq(D) /\ Len(order) = n
    BY <1>6
  <2> HIDE DEF D, n
  <2>2. DOMAIN order = 1..n /\ \A k \in 1..n : order[k] \in D
    BY <2>1
  <2> QED
    BY <2>2 DEF D
<1>8. sorted \in Seq(Outcome) /\ Len(sorted) = n
      /\ \A k \in 1..n : sorted[k] = rs[order[k]]
  BY <1>1, <1>7
<1> HIDE DEF sorted, n
<1>9. Ordered(sorted)
  <2> SUFFICES ASSUME NEW k \in 1..n - 1
               PROVE  ~Better(sorted[k + 1], sorted[k])
    BY <1>8 DEF Ordered
  <2>1. k \in 1..n /\ k + 1 \in 1..n
    BY <1>1
  <2>2. ~Better(rs[order[k + 1]], rs[order[k]])
    BY <1>2, <1>6, <1>7, <2>1
  <2> QED
    BY <1>8, <2>1, <2>2
<1>10. \A k \in 1..n : \E j \in 1..n : sorted[k] = rs[j]
  BY <1>7, <1>8
<1>11. ASSUME NEW j \in 1..n PROVE \E k \in 1..n : sorted[k] = rs[j]
  <2>1. PICK k \in 1..n : order[k] = j
    BY <1>6
  <2>2. sorted[k] = rs[j]
    BY <1>8, <2>1
  <2> QED
    BY <2>2
<1> QED
  BY <1>4, <1>8, <1>9, <1>10, <1>11 DEF Rearranged, n

\* Whatever is alive in sorted results, their head is alive too, is of known
\* speed if that is, and answers no later where no speed of the two is known;
\* although it need not be better.
LEMMA HeadLeads ==
  ASSUME NEW rs \in Seq(Outcome), Ordered(rs), NEW i \in 1..Len(rs),
         Alive(rs[i])
  PROVE  /\ Alive(rs[1])
         /\ rs[i].speed > 0 => rs[1].speed > 0
         /\ rs[i].speed = 0 /\ rs[1].speed = 0 =>
              LatencyOf(rs[1]) <= LatencyOf(rs[i])
<1> DEFINE Leads(k) == Alive(rs[k]) =>
             /\ Alive(rs[1])
             /\ rs[k].speed > 0 => rs[1].speed > 0
             /\ rs[k].speed = 0 /\ rs[1].speed = 0 =>
                  LatencyOf(rs[1]) <= LatencyOf(rs[k])
           n == Len(rs)
           Wrong == {k \in 1..n : ~Leads(k)}
<1>1. n \in Nat /\ \A k \in 1..n : rs[k] \in Outcome
  OBVIOUS
<1>2. \A k \in 1..n : rs[k].speed \in Nat /\ LatencyOf(rs[k]) \in Nat
  BY <1>1, LatencyType DEF Outcome
<1>3. \A k \in 1..n - 1 : ~Better(rs[k + 1], rs[k])
  BY DEF Ordered
<1>4. i \in 1..n
  OBVIOUS
<1> HIDE DEF n, Leads
<1>5. ASSUME Wrong # {} PROVE FALSE
  <2>1. PICK k \in Wrong : \A l \in Wrong : k <= l
    <3>1. Wrong \in SUBSET Nat
      BY <1>1
    <3> HIDE DEF Wrong
    <3> QED
      BY <1>5, <3>1, Least
  <2>2. k \in 1..n /\ ~Leads(k)
    BY <2>1
  <2>3. 1 \in 1..n
    BY <1>1, <2>2
  <2>4. CASE k = 1
    BY <1>2, <2>2, <2>3, <2>4 DEF Leads
  <2>5. CASE k # 1
    <3> DEFINE l == k - 1
    <3>1. l \in 1..n - 1 /\ l \in 1..n /\ l + 1 = k /\ l \notin Wrong
      BY <1>1, <2>1, <2>2, <2>5
    <3>2. ~Better(rs[k], rs[l]) /\ Leads(l)
      BY <1>3, <3>1
    <3>3. Alive(rs[k])
      BY <2>2 DEF Leads
    <3> HIDE DEF l
    <3>4. /\ Alive(rs[l])
          /\ ~(rs[k].speed > 0 /\ rs[l].speed = 0)
          /\ rs[k].speed = 0 /\ rs[l].speed = 0 =>
               ~(LatencyOf(rs[k]) < LatencyOf(rs[l]))
      BY <3>2, <3>3 DEF Better
    <3> HIDE DEF Wrong
    <3>5. Leads(k)
      BY <1>2, <2>2, <2>3, <3>1, <3>2, <3>4 DEF Leads
    <3> QED
      BY <2>2, <3>5
  <2> QED
    BY <2>4, <2>5
<1>6. Leads(i)
  BY <1>4, <1>5
<1> QED
  BY <1>6 DEF Leads

\* The results of the servers, each under a name of its own.
Distinct(rs) == \A i, j \in DOMAIN rs : rs[i].key = rs[j].key => i = j

\* The server told of is among those whose speed is measured, if it is alive:
\* nothing is more urgent.
LEMMA ActiveMeasured ==
  ASSUME NEW rs \in Seq(Outcome), Distinct(rs), NEW a \in 1..Len(rs),
         Alive(rs[a]), rs[a].key = told
  PROVE  \E j \in 1..Len(SpeedCandidates(rs)) :
           SpeedCandidates(rs)[j].key = told
<1> DEFINE n == Len(rs)
           kept == {i \in DOMAIN rs : Alive(rs[i])}
           before == {p \in (DOMAIN rs) \X (DOMAIN rs) : Urgent(rs[p[1]], rs[p[2]])}
           order == Positions(n, kept, before)
           top == IF Len(order) < SpeedTopN THEN Len(order) ELSE SpeedTopN
           cands == [k \in 1..top |-> rs[order[k]]]
<1>1. n \in Nat /\ DOMAIN rs = 1..n /\ \A k \in 1..n : rs[k] \in Outcome
  OBVIOUS
<1>2. \A i, j \in 1..n : <<i, j>> \in before <=> Urgent(rs[i], rs[j])
  BY <1>1
<1>3. Asymmetric(before)
  <2> SUFFICES ASSUME NEW i \in Nat, NEW j \in Nat, <<i, j>> \in before
               PROVE  <<j, i>> \notin before
    BY DEF Asymmetric
  <2>1. i \in 1..n /\ j \in 1..n /\ Urgent(rs[i], rs[j])
    BY <1>1
  <2>2. ~Urgent(rs[j], rs[i])
    BY <1>1, <2>1, UrgentAsymmetric
  <2> QED
    BY <1>2, <2>1, <2>2
<1>4. SpeedCandidates(rs) = cands
  BY DEF SpeedCandidates
<1>5. a \in 1..n /\ a \in kept
  BY <1>1
<1>6. \A i, j \in 1..n : rs[i].key = rs[j].key => i = j
  BY <1>1 DEF Distinct
<1> HIDE DEF before, order, kept
<1>7. Arranged(order, n, kept, before)
  BY <1>1, <1>3, PositionsArranged DEF order
<1> DEFINE size == Len(order)
<1>8. /\ size \in Nat
      /\ \A k \in 1..size : order[k] \in 1..n
      /\ \E k \in 1..size : order[k] = a
      /\ \A k \in 1..size - 1 : <<order[k + 1], order[k]>> \notin before
  <2> DEFINE D == 1..n
  <2>1. order \in Seq(D)
    BY <1>7 DEF Arranged
  <2>2. size \in Nat /\ \A k \in 1..size : order[k] \in D
    <3> HIDE DEF D
    <3> QED
      BY <2>1
  <2> QED
    BY <1>5, <1>7, <2>2 DEF Arranged, InOrder
<1> HIDE DEF n, size
<1>9. order[1] = a /\ size >= 1
  <2> DEFINE Places == {k \in 1..size : order[k] = a}
  <2>1. PICK k \in Places : \A l \in Places : k <= l
    <3>1. Places \in SUBSET Nat /\ Places # {}
      BY <1>8
    <3> HIDE DEF Places
    <3> QED
      BY <3>1, Least
  <2>2. k \in 1..size /\ order[k] = a
    BY <2>1
  <2>3. ASSUME k # 1 PROVE FALSE
    <3> DEFINE l == k - 1
    <3>1. l \in 1..size - 1 /\ l \in 1..size /\ l + 1 = k /\ l \notin Places
      BY <1>8, <2>1, <2>2, <2>3
    <3>2. order[l] \in 1..n /\ order[l] # a
      BY <1>8, <3>1
    <3>3. <<a, order[l]>> \notin before
      BY <1>8, <2>2, <3>1
    <3> HIDE DEF l
    <3>4. rs[order[l]].key # told
      BY <1>5, <1>6, <3>2
    <3>5. Urgent(rs[a], rs[order[l]])
      BY <3>4 DEF Urgent
    <3> QED
      BY <1>2, <1>5, <3>2, <3>3, <3>5
  <2> QED
    BY <1>8, <2>2, <2>3
<1>10. top \in Nat /\ top >= 1
  BY <1>8, <1>9, RoundsAssumption DEF size
<1> HIDE DEF top
<1>11. Len(cands) = top /\ cands[1] = rs[a] /\ 1 \in 1..top
  BY <1>9, <1>10
<1> QED
  BY <1>4, <1>11

-----------------------------------------------------------------------------
(***************************************************************************)
(* The invariant                                                           *)
(***************************************************************************)

\* No speed of an earlier round is held against the server told of, unless
\* measuring it has failed.
Fair(rs) == \A i \in DOMAIN rs : rs[i].key = told /\ rs[i].stale => rs[i].failed

\* While CheckAll works, it has a result of every server, at the server's
\* place, and those that still show an old speed are alive.
Measured ==
  phase \in {"tunnel", "speed"} =>
    /\ Len(outcomes) = Size
    /\ \A i \in 1..Size : /\ outcomes[i].key = Subscription[i]
                          /\ outcomes[i].stale => Alive(outcomes[i])

\* While runCheck decides, the results are sorted, and fair if CheckAll went
\* through.
Ranked ==
  phase \in {"winner", "switch"} =>
    /\ Len(results) = Size
    /\ Ordered(results)
    /\ ended = "whole" => Fair(results)

Inv == TypeOK /\ Measured /\ Ranked

\* The subscription as the proofs use it.
LEMMA Subscribed ==
  /\ Size \in Nat /\ Size >= 1
  /\ \A i \in 1..Size : Subscription[i] \in Servers
  /\ \A i, j \in 1..Size : Subscription[i] = Subscription[j] => i = j
<1>1. Subscription \in Seq(Servers) /\ Size \in 1..20
  BY RoundsAssumption
<1>2. \A i \in 1..Len(Subscription) : Subscription[i] \in Servers
  BY <1>1
<1>3. \A i, j \in 1..Size : Subscription[i] = Subscription[j] => i = j
  BY RoundsAssumption
<1>4. \A i \in 1..Size : Subscription[i] \in Servers
  BY <1>2 DEF Size
<1>5. Size \in Nat /\ Size >= 1
  BY <1>1
<1> QED
  BY <1>3, <1>4, <1>5

\* A function on 1..n is a sequence of length n.
LEMMA IsSeq ==
  ASSUME NEW S, NEW n \in Nat, NEW f \in [1..n -> S]
  PROVE  f \in Seq(S) /\ Len(f) = n
OBVIOUS

\* What a server is like.
LEMMA WorldType ==
  ASSUME TypeOK, NEW s \in Servers
  PROVE  /\ world[s].reach \in BOOLEAN /\ world[s].works \in BOOLEAN
         /\ world[s].latency \in Nat /\ world[s].tunnel \in Nat
         /\ world[s].speed \in Nat
<1>1. world[s] \in Quality
  BY DEF TypeOK
<1> QED
  BY <1>1, RoundsAssumption

\* An earlier speed is a number.
LEMMA KnownType ==
  ASSUME TypeOK, NEW s
  PROVE  Known(s) \in Nat
<1> DEFINE old == {i \in DOMAIN results : results[i].key = s}
<1>1. CASE old = {}
  BY <1>1 DEF Known
<1>2. CASE old # {}
  <2> DEFINE i == CHOOSE i \in old : TRUE
  <2>1. i \in old
    BY <1>2
  <2>2. i \in DOMAIN results
    BY <2>1
  <2>3. Known(s) = results[i].speed
    BY <1>2 DEF Known
  <2> HIDE DEF i
  <2>4. results[i] \in Outcome
    BY <2>2 DEF TypeOK
  <2> QED
    BY <2>3, <2>4 DEF Outcome
<1> QED
  BY <1>1, <1>2

\* Results of the first stage.
LEMMA ReachedType ==
  ASSUME TypeOK, NEW s \in Servers
  PROVE  /\ Reached(s) \in Outcome /\ Reached(s).key = s /\ Alive(Reached(s))
         /\ Unreached(s) \in Outcome /\ Unreached(s).key = s
         /\ Unreached(s).stale = FALSE
<1>1. Known(s) \in Nat /\ world[s].latency \in Nat
  BY KnownType, WorldType
<1>2. Reached(s) \in Outcome /\ Reached(s).key = s /\ Alive(Reached(s))
  BY <1>1 DEF Reached, Outcome, Alive
<1>3. /\ Unreached(s) \in Outcome /\ Unreached(s).key = s
      /\ Unreached(s).stale = FALSE
  BY DEF Unreached, Outcome
<1> QED
  BY <1>2, <1>3

\* Results of the second stage.
LEMMA ThroughType ==
  ASSUME TypeOK, NEW r \in Outcome
  PROVE  /\ Through(r) \in Outcome /\ Through(r).key = r.key
         /\ (r.stale => Alive(r)) => (Through(r).stale => Alive(Through(r)))
         /\ Blocked(r) \in Outcome
<1>1. r.key \in Servers
  BY DEF Outcome
<1>2. world[r.key].tunnel \in Nat
  BY <1>1, WorldType
<1>3. /\ Blocked(r) \in Outcome /\ Blocked(r).key = r.key
      /\ Blocked(r).stale = FALSE
  BY DEF Blocked, Outcome
<1> DEFINE timed == [r EXCEPT !.tunnel = world[r.key].tunnel]
<1>4. /\ timed \in Outcome /\ timed.key = r.key /\ timed.stale = r.stale
      /\ timed.reach = r.reach /\ timed.works = r.works
  BY <1>2 DEF Outcome
<1> HIDE DEF timed
<1>5. Through(r) = r \/ Through(r) = timed \/ Through(r) = Blocked(r)
  BY DEF Through, timed
<1> QED
  BY <1>3, <1>4, <1>5 DEF Alive

\* Results of the third stage: a measurement is new or has failed.
LEMMA TimedType ==
  ASSUME TypeOK, NEW r \in Outcome
  PROVE  /\ Untimed(r) \in Outcome /\ Untimed(r).key = r.key
         /\ Timed(r) \in Outcome /\ Timed(r).key = r.key
         /\ Timed(r).stale => Timed(r).failed
<1>1. r.key \in Servers
  BY DEF Outcome
<1>2. world[r.key].speed \in Nat
  BY <1>1, WorldType
<1>3. /\ Untimed(r) \in Outcome /\ Untimed(r).key = r.key
      /\ Untimed(r).failed = TRUE
  BY DEF Untimed, Outcome
<1> DEFINE timed == [r EXCEPT !.speed = world[r.key].speed, !.stale = FALSE]
<1>4. timed \in Outcome /\ timed.key = r.key /\ timed.stale = FALSE
  BY <1>2 DEF Outcome
<1> HIDE DEF timed
<1>5. Timed(r) = Untimed(r) \/ Timed(r) = timed
  BY DEF Timed, timed
<1> QED
  BY <1>3, <1>4, <1>5

\* The winner measured again: nothing old is left.
LEMMA RemeasuredType ==
  ASSUME TypeOK, NEW r \in Outcome
  PROVE  /\ Unmeasured(r) \in Outcome /\ Unmeasured(r).stale = FALSE
         /\ Remeasured(r) \in Outcome /\ Remeasured(r).stale = FALSE
<1>1. r.key \in Servers
  BY DEF Outcome
<1>2. world[r.key].speed \in Nat
  BY <1>1, WorldType
<1>3. Unmeasured(r) \in Outcome /\ Unmeasured(r).stale = FALSE
  BY DEF Unmeasured, Outcome
<1> DEFINE timed == [r EXCEPT !.speed = world[r.key].speed, !.stale = FALSE]
<1>4. timed \in Outcome /\ timed.stale = FALSE
  BY <1>2 DEF Outcome
<1> HIDE DEF timed
<1>5. Remeasured(r) = Unmeasured(r) \/ Remeasured(r) = timed
  BY DEF Remeasured, timed
<1> QED
  BY <1>3, <1>4, <1>5

\* The invariant holds at first.
LEMMA InitInv == Init => Inv
BY DEF Init, Inv, TypeOK, Measured, Ranked, Endings, Phases

\* CheckAll goes on with results that are as they should be.
LEMMA GoesOn ==
  ASSUME Inv, NEW rs \in [1..Size -> Outcome],
         \A i \in 1..Size : /\ rs[i].key = Subscription[i]
                            /\ rs[i].stale => Alive(rs[i]),
         NEW next \in {"tunnel", "speed"}, GoOn(next, rs),
         told' \in Servers \cup {None}
  PROVE  Inv'
<1>1. rs \in Seq(Outcome) /\ Len(rs) = Size
  BY Subscribed, IsSeq
<1>2. TypeOK'
  BY <1>1 DEF Inv, TypeOK, GoOn, Phases
<1>3. Measured'
  BY <1>1 DEF Measured, GoOn, Alive
<1>4. Ranked'
  BY DEF Ranked, GoOn
<1> QED
  BY <1>2, <1>3, <1>4 DEF Inv

\* CheckAll ends with results that are fair if it went through.
LEMMA EndKeeps ==
  ASSUME Inv, NEW rs \in [1..Size -> Outcome], NEW how \in Endings,
         End(how, rs), told' \in Servers \cup {None},
         how = "whole" => Fair(rs) /\ UNCHANGED told
  PROVE  Inv'
<1>1. rs \in Seq(Outcome) /\ Len(rs) = Size
  BY Subscribed, IsSeq
<1>2. Rearranged(Sort(rs), rs)
  BY <1>1, SortRearranges
<1>3. /\ Sort(rs) \in Seq(Outcome) /\ Len(Sort(rs)) = Size
      /\ \A k \in 1..Size : \E j \in 1..Size : Sort(rs)[k] = rs[j]
      /\ Ordered(Sort(rs))
  BY <1>1, <1>2 DEF Rearranged
<1>4. TypeOK'
  BY <1>3 DEF Inv, TypeOK, End, Phases
<1>5. Measured'
  BY DEF Measured, End
<1>6. ASSUME how = "whole" PROVE Fair(Sort(rs))
  <2>1. DOMAIN rs = 1..Size /\ DOMAIN Sort(rs) = 1..Size
    BY <1>3
  <2>2. \A j \in 1..Size : rs[j].key = told /\ rs[j].stale => rs[j].failed
    BY <1>6, <2>1 DEF Fair
  <2> QED
    BY <1>3, <2>1, <2>2 DEF Fair
<1>7. Ranked'
  BY <1>3, <1>6 DEF Ranked, End, Ordered, Better, Alive, Fair, LatencyOf
<1> QED
  BY <1>4, <1>5, <1>7 DEF Inv

\* The results are sorted anew with a winner that shows no old speed.
LEMMA RerankKeeps ==
  ASSUME Inv, phase = "winner", NEW winner \in Outcome, winner.stale = FALSE,
         Rerank(winner), ended' \in {ended, "late"}
  PROVE  Inv'
<1> DEFINE rs == [results EXCEPT ![1] = winner]
<1>1. /\ results \in Seq(Outcome) /\ Len(results) = Size
      /\ ended = "whole" => Fair(results)
  BY DEF Inv, TypeOK, Ranked
<1>2. /\ rs \in Seq(Outcome) /\ Len(rs) = Size /\ DOMAIN rs = 1..Size
      /\ DOMAIN results = 1..Size
      /\ rs[1] = winner
      /\ \A j \in 1..Size : j # 1 => rs[j] = results[j]
  BY <1>1, Subscribed
<1> HIDE DEF rs
<1>3. Rearranged(Sort(rs), rs)
  BY <1>2, SortRearranges
<1>4. /\ Sort(rs) \in Seq(Outcome) /\ Len(Sort(rs)) = Size
      /\ \A k \in 1..Size : \E j \in 1..Size : Sort(rs)[k] = rs[j]
      /\ Ordered(Sort(rs))
  BY <1>2, <1>3 DEF Rearranged
<1>5. results' = Sort(rs) /\ phase' = "switch"
      /\ UNCHANGED <<world, outcomes, active, told, copied>>
  BY DEF Rerank, rs
<1>6. TypeOK'
  BY <1>4, <1>5 DEF Inv, TypeOK, Phases, Endings
<1>7. Measured'
  BY <1>5 DEF Measured
<1>8. ASSUME ended = "whole" PROVE Fair(Sort(rs))
  <2>1. DOMAIN Sort(rs) = 1..Size
    BY <1>4
  <2>2. \A j \in 1..Size : rs[j].key = told /\ rs[j].stale => rs[j].failed
    BY <1>1, <1>2, <1>8 DEF Fair
  <2> QED
    BY <1>4, <2>1, <2>2 DEF Fair
<1>9. Ranked'
  BY <1>4, <1>5, <1>8 DEF Ranked, Ordered, Better, Alive, Fair, LatencyOf
<1> QED
  BY <1>6, <1>7, <1>9 DEF Inv

\* The first stage, whoever is late.
LEMMA FirstStageType ==
  ASSUME TypeOK, NEW late
  PROVE  /\ FirstStage(late) \in [1..Size -> Outcome]
         /\ \A i \in 1..Size :
              /\ FirstStage(late)[i].key = Subscription[i]
              /\ FirstStage(late)[i].stale => Alive(FirstStage(late)[i])
<1>1. ASSUME NEW i \in 1..Size
      PROVE  /\ FirstStage(late)[i] \in Outcome
             /\ FirstStage(late)[i].key = Subscription[i]
             /\ FirstStage(late)[i].stale => Alive(FirstStage(late)[i])
  <2> DEFINE s == Subscription[i]
  <2>1. s \in Servers
    BY Subscribed
  <2>2. FirstStage(late)[i] = Reached(s) \/ FirstStage(late)[i] = Unreached(s)
    BY DEF FirstStage
  <2> QED
    BY <2>1, <2>2, ReachedType
<1>2. FirstStage(late) = [i \in 1..Size |-> FirstStage(late)[i]]
  BY DEF FirstStage
<1> QED
  BY <1>1, <1>2

\* The second stage, however far it comes.
LEMMA SecondStageType ==
  ASSUME Inv, phase = "tunnel", NEW n \in 0..Size
  PROVE  /\ SecondStage(n) \in [1..Size -> Outcome]
         /\ \A i \in 1..Size :
              /\ SecondStage(n)[i].key = Subscription[i]
              /\ SecondStage(n)[i].stale => Alive(SecondStage(n)[i])
<1>1. ASSUME NEW i \in 1..Size
      PROVE  /\ SecondStage(n)[i] \in Outcome
             /\ SecondStage(n)[i].key = Subscription[i]
             /\ SecondStage(n)[i].stale => Alive(SecondStage(n)[i])
  <2>1. /\ outcomes[i] \in Outcome /\ outcomes[i].key = Subscription[i]
        /\ outcomes[i].stale => Alive(outcomes[i])
    BY DEF Inv, TypeOK, Measured
  <2>2. SecondStage(n)[i] = outcomes[i] \/ SecondStage(n)[i] = Through(outcomes[i])
    BY DEF SecondStage
  <2>3. TypeOK
    BY DEF Inv
  <2> QED
    BY <2>1, <2>2, <2>3, ThroughType
<1>2. SecondStage(n) = [i \in 1..Size |-> SecondStage(n)[i]]
  BY DEF SecondStage
<1> QED
  BY <1>1, <1>2

\* The third stage, whoever is measured.
LEMMA ThirdStageType ==
  ASSUME Inv, phase = "speed", NEW cands, NEW last
  PROVE  /\ ThirdStage(cands, last) \in [1..Size -> Outcome]
         /\ \A i \in 1..Size :
              /\ ThirdStage(cands, last)[i].key = Subscription[i]
              /\ Subscription[i] \in cands \ last =>
                   ThirdStage(cands, last)[i] = Timed(outcomes[i])
              /\ Subscription[i] \notin cands \cup last =>
                   ThirdStage(cands, last)[i] = outcomes[i]
<1>1. ASSUME NEW i \in 1..Size
      PROVE  /\ ThirdStage(cands, last)[i] \in Outcome
             /\ ThirdStage(cands, last)[i].key = Subscription[i]
             /\ Subscription[i] \in cands \ last =>
                  ThirdStage(cands, last)[i] = Timed(outcomes[i])
             /\ Subscription[i] \notin cands \cup last =>
                  ThirdStage(cands, last)[i] = outcomes[i]
  <2>1. outcomes[i] \in Outcome /\ outcomes[i].key = Subscription[i]
    BY DEF Inv, TypeOK, Measured
  <2>2. ThirdStage(cands, last)[i] =
          CASE outcomes[i].key \in last -> Untimed(outcomes[i])
            [] outcomes[i].key \in cands \ last -> Timed(outcomes[i])
            [] OTHER -> outcomes[i]
    BY DEF ThirdStage
  <2>3. TypeOK
    BY DEF Inv
  <2>4. /\ Untimed(outcomes[i]) \in Outcome
        /\ Untimed(outcomes[i]).key = Subscription[i]
        /\ Timed(outcomes[i]) \in Outcome
        /\ Timed(outcomes[i]).key = Subscription[i]
    BY <2>1, <2>3, TimedType
  <2>5. CASE Subscription[i] \in last
    BY <2>1, <2>2, <2>4, <2>5
  <2>6. CASE Subscription[i] \in cands \ last
    BY <2>1, <2>2, <2>4, <2>6
  <2>7. CASE Subscription[i] \notin cands \cup last
    BY <2>1, <2>2, <2>7
  <2> QED
    BY <2>5, <2>6, <2>7
<1>2. ThirdStage(cands, last) = [i \in 1..Size |-> ThirdStage(cands, last)[i]]
  BY DEF ThirdStage
<1> QED
  BY <1>1, <1>2

\* A third stage that goes through its candidates measures the server told of,
\* so that a comparison with it is fair.
LEMMA SpeedFair ==
  ASSUME Inv, phase = "speed"
  PROVE  Fair(ThirdStage(Candidates(Len(SpeedCandidates(outcomes))), {}))
<1> DEFINE cands == Candidates(Len(SpeedCandidates(outcomes)))
           rs == ThirdStage(cands, {})
<1>1. /\ outcomes \in Seq(Outcome) /\ Len(outcomes) = Size
      /\ \A i \in 1..Size : /\ outcomes[i].key = Subscription[i]
                            /\ outcomes[i].stale => Alive(outcomes[i])
  BY DEF Inv, TypeOK, Measured
<1>2. Distinct(outcomes)
  <2>1. DOMAIN outcomes = 1..Size
    BY <1>1
  <2> QED
    BY <1>1, <2>1, Subscribed DEF Distinct
<1>3. /\ rs \in [1..Size -> Outcome]
      /\ \A i \in 1..Size :
           /\ rs[i].key = Subscription[i]
           /\ Subscription[i] \in cands \ {} => rs[i] = Timed(outcomes[i])
           /\ Subscription[i] \notin cands \cup {} => rs[i] = outcomes[i]
  <2> HIDE DEF cands
  <2> QED
    BY ThirdStageType
<1> SUFFICES ASSUME NEW i \in 1..Size, rs[i].key = told, rs[i].stale
             PROVE  rs[i].failed
  <2>1. DOMAIN rs = 1..Size
    BY <1>3
  <2> HIDE DEF rs
  <2> QED
    BY <2>1 DEF Fair, rs
<1>4. outcomes[i] \in Outcome /\ outcomes[i].key = told
      /\ Subscription[i] = told
  BY <1>1, <1>3
<1>5. CASE told \in cands
  <2>1. rs[i] = Timed(outcomes[i])
    BY <1>3, <1>4, <1>5
  <2>2. Timed(outcomes[i]).stale => Timed(outcomes[i]).failed
    BY <1>4, TimedType DEF Inv
  <2> QED
    BY <2>1, <2>2
<1>6. CASE told \notin cands
  <2>1. rs[i] = outcomes[i]
    BY <1>3, <1>4, <1>6
  <2>2. Alive(outcomes[i])
    BY <1>1, <2>1
  <2>3. \E j \in 1..Len(SpeedCandidates(outcomes)) :
          SpeedCandidates(outcomes)[j].key = told
    BY <1>1, <1>2, <1>4, <2>2, ActiveMeasured
  <2> QED
    BY <1>6, <2>3 DEF Candidates
<1> QED
  BY <1>5, <1>6

\* Every step keeps the invariant.
LEMMA NextInv ==
  ASSUME Inv, [Next]_vars
  PROVE  Inv'
<1>1. /\ TypeOK /\ Measured /\ Ranked
      /\ active \in Servers \cup {None} /\ told \in Servers \cup {None}
  BY DEF Inv, TypeOK
<1>2. Size \in Nat /\ Size >= 1
  BY Subscribed
<1>3. CASE Latency
  <2>1. GoOn("tunnel", FirstStage({})) /\ told' = active
    BY <1>3 DEF Latency
  <2> QED
    BY <1>1, <2>1, FirstStageType, GoesOn
<1>4. CASE LatencyCut
  <2>1. PICK late \in SUBSET Servers : End("late", FirstStage(late)) /\ told' = active
    BY <1>4 DEF LatencyCut
  <2> QED
    BY <1>1, <2>1, FirstStageType, EndKeeps DEF Endings
<1>5. CASE Tunnel
  <2>1. phase = "tunnel" /\ GoOn("speed", SecondStage(Size)) /\ UNCHANGED told
    BY <1>5 DEF Tunnel
  <2>2. Size \in 0..Size
    BY <1>2
  <2> QED
    BY <1>1, <2>1, <2>2, SecondStageType, GoesOn
<1>6. CASE TunnelCut
  <2>1. phase = "tunnel" /\ UNCHANGED told
    BY <1>6 DEF TunnelCut
  <2>2. PICK n \in 0..Size :
          \/ End("late", SecondStage(n))
          \/ /\ n < Size /\ outcomes[n + 1].reach
             /\ \/ End("late", [SecondStage(n) EXCEPT ![n + 1] = Blocked(@)])
                \/ End("broken", SecondStage(n))
    BY <1>6 DEF TunnelCut
  <2>3. SecondStage(n) \in [1..Size -> Outcome]
    BY <2>1, SecondStageType
  <2>4. ASSUME NEW how \in {"late", "broken"}, End(how, SecondStage(n))
        PROVE  Inv'
    BY <1>1, <2>1, <2>3, <2>4, EndKeeps DEF Endings
  <2>5. ASSUME n < Size,
               End("late", [SecondStage(n) EXCEPT ![n + 1] = Blocked(@)])
        PROVE  Inv'
    <3>1. n + 1 \in 1..Size
      BY <1>2, <2>5
    <3>2. Blocked(SecondStage(n)[n + 1]) \in Outcome
      BY <1>1, <2>3, <3>1, ThroughType
    <3>3. [SecondStage(n) EXCEPT ![n + 1] = Blocked(@)] \in [1..Size -> Outcome]
      BY <2>3, <3>1, <3>2
    <3> QED
      BY <1>1, <2>1, <2>5, <3>3, EndKeeps DEF Endings
  <2> QED
    BY <2>2, <2>4, <2>5
<1>7. CASE Speed
  <2> DEFINE rs == ThirdStage(Candidates(Len(SpeedCandidates(outcomes))), {})
  <2>1. phase = "speed" /\ End("whole", rs) /\ UNCHANGED told
    BY <1>7 DEF Speed
  <2>2. rs \in [1..Size -> Outcome]
    BY <2>1, ThirdStageType
  <2>3. Fair(rs)
    BY <2>1, SpeedFair
  <2> HIDE DEF rs
  <2> QED
    BY <1>1, <2>1, <2>2, <2>3, EndKeeps DEF Endings
<1>8. CASE SpeedCut
  <2>1. phase = "speed" /\ UNCHANGED told
    BY <1>8 DEF SpeedCut
  <2>2. PICK cands, last : End("late", ThirdStage(cands, last))
    BY <1>8 DEF SpeedCut
  <2>3. ThirdStage(cands, last) \in [1..Size -> Outcome]
    BY <2>1, ThirdStageType
  <2> QED
    BY <1>1, <2>1, <2>2, <2>3, EndKeeps DEF Endings
<1>9. phase = "winner" => Head(results) \in Outcome
  BY <1>1, <1>2 DEF TypeOK, Ranked
<1>10. CASE Refresh
  <2>1. /\ phase = "winner" /\ Rerank(Remeasured(Head(results)))
        /\ ended' \in {ended, "late"}
    BY <1>10 DEF Refresh
  <2>2. /\ Remeasured(Head(results)) \in Outcome
        /\ Remeasured(Head(results)).stale = FALSE
    BY <1>1, <1>9, <2>1, RemeasuredType
  <2> QED
    BY <2>1, <2>2, RerankKeeps
<1>11. CASE RefreshCut
  <2>1. /\ phase = "winner" /\ Rerank(Unmeasured(Head(results)))
        /\ ended' \in {ended, "late"}
    BY <1>11 DEF RefreshCut
  <2>2. /\ Unmeasured(Head(results)) \in Outcome
        /\ Unmeasured(Head(results)).stale = FALSE
    BY <1>1, <1>9, <2>1, RemeasuredType
  <2> QED
    BY <2>1, <2>2, RerankKeeps
<1>12. CASE Choose
  <2>1. /\ results \in Seq(Outcome) /\ Len(results) = Size
        /\ active' \in {active, Head(results).key}
        /\ phase' = "latency" /\ ended' = "whole"
        /\ told' = None /\ copied' = None
        /\ UNCHANGED <<world, outcomes, results>>
    BY <1>1, <1>12 DEF Choose, TypeOK, Ranked
  <2>2. Head(results).key \in Servers
    <3>1. Head(results) \in Outcome
      BY <1>2, <2>1
    <3> QED
      BY <3>1 DEF Outcome
  <2> QED
    BY <1>1, <2>1, <2>2 DEF Inv, TypeOK, Measured, Ranked, Phases, Endings
<1>13. CASE Stay
  BY <1>1, <1>13 DEF Stay, Inv, TypeOK, Measured, Ranked, Phases, Endings
<1>14. CASE UserApply
  BY <1>1, <1>14 DEF UserApply, Inv, TypeOK, Measured, Ranked,
     Ordered, Better, Alive, LatencyOf, Fair
<1>15. CASE Change
  BY <1>1, <1>15 DEF Change, Inv, TypeOK, Measured, Ranked
<1>16. CASE UNCHANGED vars
  BY <1>1, <1>16
     DEF vars, Inv, TypeOK, Measured, Ranked, Ordered, Better, Alive, LatencyOf, Fair
<1> QED
  BY <1>3, <1>4, <1>5, <1>6, <1>7, <1>8, <1>10, <1>11, <1>12, <1>13, <1>14,
     <1>15, <1>16 DEF Next, WholeCheck

-----------------------------------------------------------------------------
(***************************************************************************)
(* The theorems                                                            *)
(***************************************************************************)

\* A switch is a step of Choose, from the server of the copy to the head of the
\* results, when nothing that keepCurrent weighs speaks against it.
LEMMA SwitchChosen ==
  ASSUME Inv, [Next]_vars, Switches
  PROVE  /\ phase \in {"winner", "switch"}
         /\ Alive(Head(results)) /\ Head(results).key # copied
         /\ ~KeepCurrent
<1>1. Choose
  BY DEF Next, WholeCheck, Switches, Latency, Tunnel, Speed, Refresh, LatencyCut,
     TunnelCut, SpeedCut, RefreshCut, Stay, UserApply, Change, GoOn, End, Rerank, vars
<1> QED
  BY <1>1 DEF Choose, Switches

\* A switch of a check that went through was measured against.
LEMMA SwitchFair ==
  ASSUME Inv, [Next]_vars, Switches, ended = "whole", told = copied,
         NEW i \in DOMAIN results, results[i].key = copied, results[i].stale
  PROVE  results[i].failed
BY SwitchChosen DEF Inv, Ranked, Fair

\* A switch is not to a server that the order ranks after the one left,
\* unless both speeds are known and the gain is there.
LEMMA SwitchUp ==
  ASSUME Inv, [Next]_vars, Switches,
         NEW i \in DOMAIN results, results[i].key = copied
  PROVE  ~Better(results[i], Head(results)) \/ Gains(Head(results), results[i])
<1> DEFINE best == Head(results)
           cur == results[i]
<1>1. /\ results \in Seq(Outcome) /\ Len(results) = Size /\ Ordered(results)
      /\ Alive(best) /\ best.key # copied /\ ~KeepCurrent
  BY SwitchChosen DEF Inv, TypeOK, Ranked
<1>2. i \in 1..Len(results) /\ best = results[1]
  BY <1>1, Subscribed
<1>3. best \in Outcome /\ cur \in Outcome
  BY <1>1, <1>2, Subscribed
<1>4. /\ best.speed \in Nat /\ cur.speed \in Nat
      /\ LatencyOf(best) \in Nat /\ LatencyOf(cur) \in Nat
  BY <1>3, LatencyType DEF Outcome
<1> SUFFICES ASSUME Better(cur, best) PROVE Gains(best, cur)
  OBVIOUS
<1>5. Alive(cur)
  BY DEF Better
<1>6. /\ cur.speed > 0 => best.speed > 0
      /\ cur.speed = 0 /\ best.speed = 0 => LatencyOf(best) <= LatencyOf(cur)
  <2> HIDE DEF best, cur
  <2> QED
    BY <1>1, <1>2, <1>5, HeadLeads DEF cur
<1>7. cur.speed > 0 /\ best.speed > 0
  <2> HIDE DEF best, cur
  <2> QED
    BY <1>1, <1>4, <1>6 DEF Better
<1>8. ~(100 * best.speed < 115 * cur.speed)
  BY <1>1, <1>5, <1>7 DEF KeepCurrent
<1> HIDE DEF best, cur
<1> QED
  BY <1>4, <1>7, <1>8 DEF Gains

\* The invariant of the rounds.
THEOREM Invariance == Spec => []Inv
<1>1. Inv /\ [Next]_vars => Inv'
  BY NextInv
<1> QED
  BY InitInv, <1>1, PTL DEF Spec

\* Types: whatever is measured, cut short, refreshed and applied.
THEOREM Types == Spec => []TypeOK
<1>1. Inv => TypeOK
  BY DEF Inv
<1> QED
  BY Invariance, <1>1, PTL

\* A check that went through replaces the server it takes for the active one
\* only after measuring it, or trying to: it is first among the candidates
\* whatever the others are, as long as it is the one the check was told of when
\* it began (speedCandidates, runCheck).
THEOREM ComparedAfresh == Spec => FairComparison
<1>1. Inv /\ [Next]_vars =>
        (Switches /\ ended = "whole" /\ told = copied => \A i \in DOMAIN results :
           results[i].key = copied /\ results[i].stale => results[i].failed)
  BY SwitchFair
<1>2. Inv /\ [Next]_vars =>
        [Switches /\ ended = "whole" /\ told = copied => \A i \in DOMAIN results :
           results[i].key = copied /\ results[i].stale => results[i].failed]_vars
  BY <1>1
<1> QED
  BY Invariance, <1>2, PTL DEF Spec, FairComparison

\* No check goes over to a server that Better ranks after the one left, but
\* for a measured gain: although the sort of a relation that is no order need
\* not put the best first, what it puts first leads where it matters (Sort,
\* keepCurrent).
THEOREM SwitchedUp == Spec => NoDowngrade
<1>1. Inv /\ [Next]_vars => (Switches => \A i \in DOMAIN results :
        results[i].key = copied =>
          ~Better(results[i], Head(results)) \/ Gains(Head(results), results[i]))
  BY SwitchUp
<1>2. Inv /\ [Next]_vars => [Switches => \A i \in DOMAIN results :
        results[i].key = copied =>
          ~Better(results[i], Head(results)) \/ Gains(Head(results), results[i])]_vars
  BY <1>1
<1> QED
  BY Invariance, <1>2, PTL DEF Spec, NoDowngrade
=============================================================================
