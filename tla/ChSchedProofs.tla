--------------------------- MODULE ChSchedProofs ---------------------------
(***************************************************************************)
(* Facts about the operators of ChSched, for every set of threads and      *)
(* every priority range: what the queue operations return, and that every  *)
(* scheduler service keeps the ready list and the thread states in         *)
(* agreement.                                                              *)
(***************************************************************************)
EXTENDS ChSched, Loops, SequenceTheorems, FiniteSetTheorems

----------------------------------------------------------------------------
(* Queues. *)

\* The element at place j after t was put at position i.
LEMMA PlaceAtElements ==
    ASSUME NEW S, NEW q \in Seq(S), NEW i \in 1..Len(q) + 1, NEW t \in S
    PROVE  /\ PlaceAt(q, i, t) \in Seq(S)
           /\ Len(PlaceAt(q, i, t)) = Len(q) + 1
           /\ \A j \in 1..Len(q) + 1 :
                PlaceAt(q, i, t)[j] =
                  IF j < i THEN q[j] ELSE IF j = i THEN t ELSE q[j - 1]
<1> DEFINE a == SubSeq(q, 1, i - 1)
           b == SubSeq(q, i, Len(q))
<1>1. /\ a \in Seq(S) /\ Len(a) = i - 1
      /\ \A j \in 1..i - 1 : a[j] = q[j]
  BY SubSeqProperties
<1>2. /\ b \in Seq(S) /\ Len(b) = Len(q) - i + 1
      /\ \A j \in 1..Len(q) - i + 1 : b[j] = q[i + j - 1]
  BY SubSeqProperties
<1> HIDE DEF a, b
<1> DEFINE c == a \o <<t>>
<1>3. /\ c \in Seq(S) /\ Len(c) = i
      /\ \A j \in 1..i : c[j] = IF j < i THEN q[j] ELSE t
  BY <1>1
<1> HIDE DEF c
<1>4. /\ c \o b \in Seq(S)
      /\ Len(c \o b) = Len(c) + Len(b)
      /\ \A j \in 1..Len(c) + Len(b) :
           (c \o b)[j] = IF j <= Len(c) THEN c[j] ELSE b[j - Len(c)]
  BY <1>2, <1>3, ConcatProperties
<1>5. Len(c) + Len(b) = Len(q) + 1 BY <1>2, <1>3
<1>6. \A j \in 1..Len(q) + 1 :
         (c \o b)[j] = IF j < i THEN q[j] ELSE IF j = i THEN t ELSE q[j - 1]
  <2> TAKE j \in 1..Len(q) + 1
  <2>0. j \in 1..Len(c) + Len(b) /\ Len(c) = i BY <1>3, <1>5
  <2>1. CASE j <= i
    <3>1. (c \o b)[j] = c[j] BY <1>4, <2>0, <2>1
    <3>2. j \in 1..i BY <2>1
    <3> QED BY <1>3, <2>1, <3>1, <3>2
  <2>2. CASE j > i
    <3>1. j - i \in 1..Len(q) - i + 1 /\ i + (j - i) - 1 = j - 1 BY <2>2
    <3>2. b[j - i] = q[j - 1] BY <1>2, <3>1
    <3>3. (c \o b)[j] = b[j - i] BY <1>4, <2>0, <2>2
    <3> QED BY <2>2, <3>2, <3>3
  <2>3. j <= i \/ j > i OBVIOUS
  <2> QED BY <2>1, <2>2, <2>3
<1> QED BY <1>4, <1>5, <1>6 DEF PlaceAt, a, b, c

\* Placing t adds t and nothing else, and duplicates nothing.
LEMMA PlaceAtMembers ==
    ASSUME NEW S, NEW q \in Seq(S), NEW i \in 1..Len(q) + 1, NEW t \in S
    PROVE  /\ PlaceAt(q, i, t) \in Seq(S)
           /\ Elems(PlaceAt(q, i, t)) = Elems(q) \cup {t}
           /\ NoDuplicates(q) /\ t \notin Elems(q) => NoDuplicates(PlaceAt(q, i, t))
<1> DEFINE r == PlaceAt(q, i, t)
<1>1. /\ r \in Seq(S) /\ Len(r) = Len(q) + 1
      /\ \A j \in 1..Len(q) + 1 :
           r[j] = IF j < i THEN q[j] ELSE IF j = i THEN t ELSE q[j - 1]
  BY PlaceAtElements
<1> HIDE DEF r
<1>2. ASSUME NEW j \in 1..Len(q) + 1 PROVE r[j] \in Elems(q) \cup {t}
  <2>1. CASE j < i BY <1>1, <2>1 DEF Elems
  <2>2. CASE j = i BY <1>1, <2>2 DEF Elems
  <2>3. CASE j > i
    <3>1. j - 1 \in 1..Len(q) /\ r[j] = q[j - 1] BY <1>1, <2>3
    <3> QED BY <3>1 DEF Elems
  <2> QED BY <2>1, <2>2, <2>3
<1>3. Elems(q) \cup {t} \subseteq Elems(r)
  <2>1. t \in Elems(r) BY <1>1 DEF Elems
  <2>2. ASSUME NEW j \in 1..Len(q) PROVE q[j] \in Elems(r)
    <3>1. CASE j < i BY <1>1, <3>1 DEF Elems
    <3>2. CASE j >= i
      <4>1. j + 1 \in 1..Len(q) + 1 /\ r[j + 1] = q[j] BY <1>1, <3>2
      <4> QED BY <1>1, <4>1 DEF Elems
    <3> QED BY <3>1, <3>2
  <2> QED BY <2>1, <2>2 DEF Elems
<1>4. ASSUME NoDuplicates(q), t \notin Elems(q) PROVE NoDuplicates(r)
  <2>1. \A j \in 1..Len(q) : q[j] # t BY <1>4 DEF Elems
  <2>2. \A j, l \in 1..Len(q) : q[j] = q[l] => j = l BY <1>4 DEF NoDuplicates
  <2> SUFFICES ASSUME NEW j \in 1..Len(r), NEW l \in 1..Len(r), r[j] = r[l], j < l
               PROVE  FALSE
    BY <1>1 DEF NoDuplicates
  <2>3. CASE l < i BY <1>1, <2>2, <2>3
  <2>4. CASE l = i BY <1>1, <2>1, <2>4
  <2>5. CASE j < i /\ i < l BY <1>1, <2>2, <2>5
  <2>6. CASE j = i BY <1>1, <2>1, <2>6
  <2>7. CASE i < j BY <1>1, <2>2, <2>7
  <2> QED BY <1>1, <2>3, <2>4, <2>5, <2>6, <2>7
<1>5. Elems(r) \subseteq Elems(q) \cup {t} BY <1>1, <1>2 DEF Elems
<1> QED BY <1>1, <1>3, <1>4, <1>5 DEF r
\* The scan of prio_insert() and chSchReadyI() always finds its place.
LEMMA BehindPosType ==
    ASSUME NEW S, NEW q \in Seq(S), NEW prio \in [S -> Int], NEW t \in S
    PROVE  /\ BehindPos(q, prio, t) \in 1..Len(q) + 1
           /\ \A j \in 1..BehindPos(q, prio, t) - 1 : prio[q[j]] >= prio[t]
           /\ BehindPos(q, prio, t) <= Len(q) =>
                prio[q[BehindPos(q, prio, t)]] < prio[t]
<1> DEFINE Stop == {i \in 1..Len(q) : prio[q[i]] < prio[t]}
<1>1. \E i \in 1..Len(q) + 1 :
         /\ \A j \in 1..i - 1 : prio[q[j]] >= prio[t]
         /\ i <= Len(q) => prio[q[i]] < prio[t]
  <2>1. CASE Stop = {}
    <3> WITNESS Len(q) + 1 \in 1..Len(q) + 1
    <3> QED BY <2>1
  <2>2. CASE Stop # {}
    <3>1. PICK i \in Stop : \A j \in Stop : i <= j
      <4>1. Stop \subseteq Nat OBVIOUS
      <4> HIDE DEF Stop
      <4> QED BY LeastNat, <2>2, <4>1
    <3>2. ASSUME NEW j \in 1..i - 1 PROVE prio[q[j]] >= prio[t]
      <4>1. j \in 1..Len(q) /\ j \notin Stop BY <3>1
      <4> QED BY <4>1
    <3> QED BY <3>1, <3>2
  <2> QED BY <2>1, <2>2
<1> QED BY <1>1 DEF BehindPos

\* The same for the scan of chSchDoRescheduleAhead().
LEMMA AheadPosType ==
    ASSUME NEW S, NEW q \in Seq(S), NEW prio \in [S -> Int], NEW t \in S
    PROVE  /\ AheadPos(q, prio, t) \in 1..Len(q) + 1
           /\ \A j \in 1..AheadPos(q, prio, t) - 1 : prio[q[j]] > prio[t]
           /\ AheadPos(q, prio, t) <= Len(q) =>
                prio[q[AheadPos(q, prio, t)]] <= prio[t]
<1> DEFINE Stop == {i \in 1..Len(q) : prio[q[i]] <= prio[t]}
<1>1. \E i \in 1..Len(q) + 1 :
         /\ \A j \in 1..i - 1 : prio[q[j]] > prio[t]
         /\ i <= Len(q) => prio[q[i]] <= prio[t]
  <2>1. CASE Stop = {}
    <3> WITNESS Len(q) + 1 \in 1..Len(q) + 1
    <3> QED BY <2>1
  <2>2. CASE Stop # {}
    <3>1. PICK i \in Stop : \A j \in Stop : i <= j
      <4>1. Stop \subseteq Nat OBVIOUS
      <4> HIDE DEF Stop
      <4> QED BY LeastNat, <2>2, <4>1
    <3>2. ASSUME NEW j \in 1..i - 1 PROVE prio[q[j]] > prio[t]
      <4>1. j \in 1..Len(q) /\ j \notin Stop BY <3>1
      <4> QED BY <4>1
    <3> QED BY <3>1, <3>2
  <2> QED BY <2>1, <2>2
<1> QED BY <1>1 DEF AheadPos

\* A queue in priority order stays so when t is placed behind threads of at
\* least its priority and before threads of at most its priority.
LEMMA PlaceAtSorted ==
    ASSUME NEW S, NEW q \in Seq(S), NEW prio \in [S -> Int], NEW t \in S,
           NEW i \in 1..Len(q) + 1, SortedByPrio(q, prio),
           \A j \in 1..i - 1 : prio[q[j]] >= prio[t],
           i <= Len(q) => prio[q[i]] <= prio[t]
    PROVE  SortedByPrio(PlaceAt(q, i, t), prio)
<1> DEFINE r == PlaceAt(q, i, t)
<1>1. /\ Len(r) = Len(q) + 1
      /\ \A j \in 1..Len(q) + 1 :
           r[j] = IF j < i THEN q[j] ELSE IF j = i THEN t ELSE q[j - 1]
  BY PlaceAtElements
<1> HIDE DEF r
<1>2. \A j \in 1..Len(q) : prio[q[j]] \in Int OBVIOUS
<1>3. \A j, l \in 1..Len(q) : j <= l => prio[q[j]] >= prio[q[l]]
  BY <1>2 DEF SortedByPrio
<1> SUFFICES ASSUME NEW j \in 1..Len(q) + 1, NEW l \in 1..Len(q) + 1, j < l
             PROVE  prio[r[j]] >= prio[r[l]]
  BY <1>1 DEF SortedByPrio, r
<1>4. CASE l < i
  <2>1. r[j] = q[j] /\ r[l] = q[l] BY <1>1, <1>4
  <2>2. j \in 1..Len(q) /\ l \in 1..Len(q) BY <1>4
  <2> QED BY <1>3, <2>1, <2>2
<1>5. CASE l = i
  <2>1. r[j] = q[j] /\ r[l] = t /\ j \in 1..i - 1 BY <1>1, <1>5
  <2> QED BY <2>1
<1>6. CASE j < i /\ i < l
  <2>1. j \in 1..Len(q) /\ l - 1 \in 1..Len(q) /\ j <= l - 1 BY <1>6
  <2>2. r[j] = q[j] /\ r[l] = q[l - 1] BY <1>1, <1>6
  <2> QED BY <1>3, <2>1, <2>2
<1>7. CASE j = i
  <2>1. i \in 1..Len(q) /\ l - 1 \in 1..Len(q) /\ i <= l - 1 BY <1>7
  <2>2. prio[q[i]] >= prio[q[l - 1]] BY <1>3, <2>1
  <2>3. r[j] = t /\ r[l] = q[l - 1] BY <1>1, <1>7
  <2>4. prio[t] \in Int OBVIOUS
  <2> QED BY <1>2, <2>1, <2>2, <2>3, <2>4
<1>8. CASE i < j
  <2>1. j - 1 \in 1..Len(q) /\ l - 1 \in 1..Len(q) /\ j - 1 <= l - 1 BY <1>8
  <2>2. r[j] = q[j - 1] /\ r[l] = q[l - 1] BY <1>1, <1>8
  <2> QED BY <1>3, <2>1, <2>2
<1> QED BY <1>4, <1>5, <1>6, <1>7, <1>8

\* prio_insert() adds the thread, keeps the others and keeps priority order.
LEMMA PrioInsert ==
    ASSUME NEW S, NEW q \in Seq(S), NEW prio \in [S -> Int], NEW t \in S
    PROVE  /\ prio_insert(q, prio, t) \in Seq(S)
           /\ Elems(prio_insert(q, prio, t)) = Elems(q) \cup {t}
           /\ NoDuplicates(q) /\ t \notin Elems(q)
                => NoDuplicates(prio_insert(q, prio, t))
           /\ SortedByPrio(q, prio) => SortedByPrio(prio_insert(q, prio, t), prio)
<1> DEFINE i == BehindPos(q, prio, t)
<1>1. /\ i \in 1..Len(q) + 1
      /\ \A j \in 1..i - 1 : prio[q[j]] >= prio[t]
      /\ i <= Len(q) => prio[q[i]] < prio[t]
  BY BehindPosType
<1>2. i <= Len(q) => prio[q[i]] <= prio[t] BY <1>1
<1> HIDE DEF i
<1>3. /\ PlaceAt(q, i, t) \in Seq(S)
      /\ Elems(PlaceAt(q, i, t)) = Elems(q) \cup {t}
      /\ NoDuplicates(q) /\ t \notin Elems(q) => NoDuplicates(PlaceAt(q, i, t))
  BY <1>1, PlaceAtMembers
<1>4. SortedByPrio(q, prio) => SortedByPrio(PlaceAt(q, i, t), prio)
  BY <1>1, <1>2, PlaceAtSorted
<1> QED BY <1>3, <1>4 DEF prio_insert, i

\* The same for the insertion of chSchDoRescheduleAhead().
LEMMA AheadInsert ==
    ASSUME NEW S, NEW q \in Seq(S), NEW prio \in [S -> Int], NEW t \in S
    PROVE  LET r == PlaceAt(q, AheadPos(q, prio, t), t)
           IN /\ r \in Seq(S)
              /\ Elems(r) = Elems(q) \cup {t}
              /\ NoDuplicates(q) /\ t \notin Elems(q) => NoDuplicates(r)
              /\ SortedByPrio(q, prio) => SortedByPrio(r, prio)
<1> DEFINE i == AheadPos(q, prio, t)
<1>1. /\ i \in 1..Len(q) + 1
      /\ \A j \in 1..i - 1 : prio[q[j]] > prio[t]
      /\ i <= Len(q) => prio[q[i]] <= prio[t]
  BY AheadPosType
<1> HIDE DEF i
<1>2. \A j \in 1..i - 1 : prio[q[j]] >= prio[t]
  <2> TAKE j \in 1..i - 1
  <2>1. q[j] \in S BY <1>1
  <2> QED BY <1>1, <2>1
<1>3. /\ PlaceAt(q, i, t) \in Seq(S)
      /\ Elems(PlaceAt(q, i, t)) = Elems(q) \cup {t}
      /\ NoDuplicates(q) /\ t \notin Elems(q) => NoDuplicates(PlaceAt(q, i, t))
  BY <1>1, PlaceAtMembers
<1>4. SortedByPrio(q, prio) => SortedByPrio(PlaceAt(q, i, t), prio)
  BY <1>1, <1>2, PlaceAtSorted
<1> QED BY <1>3, <1>4 DEF i

\* dequeue() removes the thread, keeps the others and keeps priority order.
LEMMA Dequeue ==
    ASSUME NEW S, NEW q \in Seq(S), NEW t \in Elems(q), NoDuplicates(q)
    PROVE  /\ dequeue(q, t) \in Seq(S)
           /\ Len(dequeue(q, t)) = Len(q) - 1
           /\ Elems(dequeue(q, t)) = Elems(q) \ {t}
           /\ NoDuplicates(dequeue(q, t))
           /\ \A prio \in [S -> Int] :
                SortedByPrio(q, prio) => SortedByPrio(dequeue(q, t), prio)
<1> DEFINE i == CHOOSE i \in 1..Len(q) : q[i] = t
           a == SubSeq(q, 1, i - 1)
           b == SubSeq(q, i + 1, Len(q))
           r == a \o b
<1>1. i \in 1..Len(q) /\ q[i] = t BY DEF Elems
<1> HIDE DEF i
<1>2. /\ a \in Seq(S) /\ Len(a) = i - 1
      /\ \A j \in 1..i - 1 : a[j] = q[j]
  BY <1>1, SubSeqProperties
<1>3. /\ b \in Seq(S) /\ Len(b) = Len(q) - i
      /\ \A j \in 1..Len(q) - i : b[j] = q[i + j]
  BY <1>1, SubSeqProperties
<1> HIDE DEF a, b
<1>4. /\ r \in Seq(S) /\ Len(r) = Len(a) + Len(b)
      /\ \A j \in 1..Len(a) + Len(b) :
           r[j] = IF j <= Len(a) THEN a[j] ELSE b[j - Len(a)]
  BY <1>2, <1>3, ConcatProperties
<1> HIDE DEF r
<1>5. /\ Len(r) = Len(q) - 1
      /\ \A j \in 1..Len(q) - 1 : r[j] = IF j < i THEN q[j] ELSE q[j + 1]
  <2>1. Len(a) + Len(b) = Len(q) - 1 /\ Len(a) = i - 1 BY <1>1, <1>2, <1>3
  <2>2. ASSUME NEW j \in 1..Len(q) - 1, j < i PROVE r[j] = q[j]
    <3>1. r[j] = a[j] BY <1>1, <1>4, <2>1, <2>2
    <3> QED BY <1>1, <1>2, <2>2, <3>1
  <2>3. ASSUME NEW j \in 1..Len(q) - 1, j >= i PROVE r[j] = q[j + 1]
    <3>0. j \in 1..Len(a) + Len(b) /\ ~ (j <= Len(a)) BY <1>1, <2>1, <2>3
    <3>1. r[j] = b[j - (i - 1)] BY <1>4, <2>1, <3>0
    <3>2. j - (i - 1) \in 1..Len(q) - i /\ i + (j - (i - 1)) = j + 1
      BY <1>1, <2>3
    <3> QED BY <1>3, <3>1, <3>2
  <2> QED BY <1>1, <1>4, <2>1, <2>2, <2>3
<1> DEFINE at(j) == IF j < i THEN j ELSE j + 1
<1>6. \A j \in 1..Len(r) : at(j) \in 1..Len(q) /\ r[j] = q[at(j)] /\ at(j) # i
  BY <1>1, <1>5
<1>7. \A j, l \in 1..Len(r) : j < l => at(j) < at(l) BY <1>1, <1>5
<1>8. \A j, l \in 1..Len(q) : q[j] = q[l] => j = l BY DEF NoDuplicates
<1>9. NoDuplicates(r)
  <2> SUFFICES ASSUME NEW j \in 1..Len(r), NEW l \in 1..Len(r), r[j] = r[l]
               PROVE  j = l
    BY DEF NoDuplicates
  <2>1. at(j) = at(l) BY <1>6, <1>8
  <2> QED BY <1>1, <1>5, <2>1
<1>10. Elems(r) = Elems(q) \ {t}
  <2>1. ASSUME NEW j \in 1..Len(r) PROVE r[j] \in Elems(q) /\ r[j] # t
    BY <1>1, <1>6, <1>8 DEF Elems
  <2>2. ASSUME NEW j \in 1..Len(q), q[j] # t PROVE q[j] \in Elems(r)
    <3>1. CASE j < i
      <4>1. j \in 1..Len(r) /\ r[j] = q[j] BY <1>1, <1>5, <3>1
      <4> QED BY <4>1 DEF Elems
    <3>2. CASE j > i
      <4>1. j - 1 \in 1..Len(r) /\ r[j - 1] = q[j] BY <1>1, <1>5, <3>2
      <4> QED BY <4>1 DEF Elems
    <3> QED BY <1>1, <2>2, <3>1, <3>2
  <2> QED BY <2>1, <2>2 DEF Elems
<1>11. ASSUME NEW prio \in [S -> Int], SortedByPrio(q, prio)
       PROVE  SortedByPrio(r, prio)
  <2> HIDE DEF at
  <2> SUFFICES ASSUME NEW j \in 1..Len(r), NEW l \in 1..Len(r), j < l
               PROVE  prio[r[j]] >= prio[r[l]]
    BY DEF SortedByPrio
  <2> QED BY <1>6, <1>7, <1>11 DEF SortedByPrio
<1> QED BY <1>4, <1>5, <1>9, <1>10, <1>11 DEF dequeue, i, a, b, r

\* A thread joins a queue at its end.
LEMMA AppendNew ==
    ASSUME NEW S, NEW q \in Seq(S), NEW t \in S
    PROVE  /\ Append(q, t) \in Seq(S) /\ Len(Append(q, t)) = Len(q) + 1
           /\ Elems(Append(q, t)) = Elems(q) \cup {t}
           /\ NoDuplicates(q) /\ t \notin Elems(q) => NoDuplicates(Append(q, t))
<1> DEFINE r == Append(q, t)
<1>1. /\ r \in Seq(S) /\ Len(r) = Len(q) + 1 /\ r[Len(q) + 1] = t
      /\ \A i \in 1..Len(q) : r[i] = q[i]
  BY AppendProperties
<1> HIDE DEF r
<1>2. \A i \in 1..Len(r) : i \in 1..Len(q) \/ i = Len(q) + 1 BY <1>1
<1>3. Elems(r) = Elems(q) \cup {t}
  <2>1. \A i \in 1..Len(r) : r[i] \in Elems(q) \cup {t} BY <1>1, <1>2 DEF Elems
  <2>2. \A i \in 1..Len(q) : i \in 1..Len(r) /\ r[i] = q[i] BY <1>1
  <2>3. Len(q) + 1 \in 1..Len(r) BY <1>1
  <2> QED BY <1>1, <2>1, <2>2, <2>3 DEF Elems
<1>4. ASSUME NoDuplicates(q), t \notin Elems(q) PROVE NoDuplicates(r)
  <2>1. \A i \in 1..Len(q) : q[i] # t BY <1>4 DEF Elems
  <2> QED BY <1>1, <1>2, <1>4, <2>1 DEF NoDuplicates
<1> QED BY <1>1, <1>3, <1>4 DEF r

----------------------------------------------------------------------------
(* Scheduler services. *)

\* A scheduler state that is well typed, whose ready list and thread states
\* agree, and in which the idle thread is alive.
SchedInv(s) ==
    /\ s \in SchedStates
    /\ ReadyListMembers(s)
    /\ s.p_state[Idle] \in Runnable

\* From s to r no priority changes, and no thread outside X enters or leaves a
\* wait state.
Keeps(s, r, X) ==
    /\ r.p_prio = s.p_prio
    /\ \A u \in AllThreads \ X :
          \/ r.p_state[u] = s.p_state[u]
          \/ r.p_state[u] \in Runnable /\ s.p_state[u] \in Runnable

\* Priorities are integers, at least that of the idle thread.
LEMMA PriosAreInts == Prios \subseteq Int /\ \A p \in Prios : p >= 1
BY SchedAssumption DEF Prios, IDLEPRIO

\* chSchReadyI() of a thread that is not runnable.
LEMMA ReadyI ==
    ASSUME NEW s, SchedInv(s), NEW t \in AllThreads, s.p_state[t] \notin Runnable
    PROVE  /\ SchedInv(chSchReadyI(s, t))
           /\ Keeps(s, chSchReadyI(s, t), {t})
           /\ chSchReadyI(s, t).p_state[t] = "READY"
           /\ chSchReadyI(s, t).r_current = s.r_current
           /\ ReadyListOK(s) => ReadyListOK(chSchReadyI(s, t))
<1> DEFINE r == chSchReadyI(s, t)
           q == prio_insert(s.r_queue, s.p_prio, t)
<1>1. /\ s.r_queue \in Seq(AllThreads) /\ s.p_prio \in [AllThreads -> Int]
      /\ t \notin Elems(s.r_queue)
      /\ s \in SchedStates
  BY PriosAreInts DEF SchedInv, SchedStates, ReadyListMembers, Runnable
<1>2. /\ q \in Seq(AllThreads)
      /\ Elems(q) = Elems(s.r_queue) \cup {t}
      /\ NoDuplicates(s.r_queue) => NoDuplicates(q)
      /\ SortedByPrio(s.r_queue, s.p_prio) => SortedByPrio(q, s.p_prio)
  BY <1>1, PrioInsert
<1> HIDE DEF q
<1>3. r = [s EXCEPT !.p_state = [s.p_state EXCEPT ![t] = "READY"], !.r_queue = q]
  BY <1>1 DEF chSchReadyI, q, SchedStates
<1>4. /\ r.r_queue = q /\ r.p_state = [s.p_state EXCEPT ![t] = "READY"]
      /\ r.p_prio = s.p_prio /\ r.r_current = s.r_current
      /\ r \in SchedStates
  <2>1. [s.p_state EXCEPT ![t] = "READY"] \in [AllThreads -> ThreadStates]
    BY <1>1 DEF SchedStates, ThreadStates
  <2>2. /\ r.r_queue = q /\ r.p_state = [s.p_state EXCEPT ![t] = "READY"]
        /\ r.p_prio = s.p_prio /\ r.r_current = s.r_current
    BY <1>1, <1>3 DEF SchedStates
  <2>3. r \in SchedStates
    BY <1>1, <1>2, <1>3, <2>1 DEF SchedStates
  <2> QED BY <2>2, <2>3
<1> HIDE DEF r
<1>5. ReadyListMembers(r)
  BY <1>1, <1>2, <1>4 DEF ReadyListMembers, SchedInv, SchedStates, Runnable
<1>6. r.p_state[Idle] \in Runnable
  BY <1>1, <1>4 DEF SchedInv, Runnable, AllThreads, SchedStates
<1>7. Keeps(s, r, {t}) /\ r.p_state[t] = "READY"
  BY <1>1, <1>4 DEF Keeps, SchedStates
<1>8. ReadyListOK(s) => ReadyListOK(r)
  BY <1>2, <1>4, <1>5 DEF ReadyListOK
<1> QED BY <1>4, <1>5, <1>6, <1>7, <1>8 DEF SchedInv, r

\* The head of a non-empty ready list leaves the rest of the list.
LEMMA HeadTail ==
    ASSUME NEW S, NEW q \in Seq(S), q # <<>>
    PROVE  /\ Head(q) \in S /\ Tail(q) \in Seq(S)
           /\ Head(q) \in Elems(q)
           /\ Elems(Tail(q)) \cup {Head(q)} = Elems(q)
           /\ NoDuplicates(q) => /\ NoDuplicates(Tail(q))
                                 /\ Elems(Tail(q)) = Elems(q) \ {Head(q)}
           /\ \A prio \in [S -> Int] : SortedByPrio(q, prio) =>
                /\ SortedByPrio(Tail(q), prio)
                /\ \A u \in Elems(q) : prio[u] <= prio[Head(q)]
<1>1. /\ Head(q) = q[1] /\ Len(q) \in Nat \ {0} /\ q[1] \in S
      /\ Tail(q) \in Seq(S) /\ Len(Tail(q)) = Len(q) - 1
      /\ \A i \in 1..Len(q) - 1 : Tail(q)[i] = q[i + 1]
  BY HeadTailProperties, EmptySeq
<1> DEFINE r == Tail(q)
<1> HIDE DEF r
<1>2. \A i \in 1..Len(q) : i # 1 => i - 1 \in 1..Len(r) /\ r[i - 1] = q[i]
  BY <1>1 DEF r
<1>3. \A i \in 1..Len(r) : i + 1 \in 1..Len(q) /\ r[i] = q[i + 1]
  BY <1>1 DEF r
<1>4. Elems(r) \cup {q[1]} = Elems(q)
  <2>1. \A i \in 1..Len(q) : q[i] \in Elems(r) \cup {q[1]}
    BY <1>1, <1>2 DEF Elems
  <2>2. 1 \in 1..Len(q) BY <1>1
  <2>3. \A i \in 1..Len(r) : r[i] \in Elems(q) BY <1>3 DEF Elems
  <2> QED BY <2>1, <2>2, <2>3 DEF Elems
<1>5. ASSUME NoDuplicates(q) PROVE NoDuplicates(r) /\ q[1] \notin Elems(r)
  <2>1. \A i, j \in 1..Len(q) : q[i] = q[j] => i = j BY <1>5 DEF NoDuplicates
  <2>2. NoDuplicates(r)
    <3> SUFFICES ASSUME NEW i \in 1..Len(r), NEW j \in 1..Len(r), r[i] = r[j]
                 PROVE  i = j
      BY DEF NoDuplicates
    <3>1. i + 1 = j + 1 BY <1>3, <2>1
    <3>2. Len(r) \in Nat BY <1>1 DEF r
    <3> QED BY <3>1, <3>2
  <2>3. \A i \in 1..Len(r) : r[i] # q[1]
    <3>1. 1 \in 1..Len(q) BY <1>1
    <3>2. \A i \in 1..Len(r) : i + 1 # 1 BY <1>1 DEF r
    <3> QED BY <1>3, <2>1, <3>1, <3>2
  <2> QED BY <2>2, <2>3 DEF Elems
<1>6. ASSUME NEW prio \in [S -> Int], SortedByPrio(q, prio)
      PROVE  SortedByPrio(r, prio) /\ \A u \in Elems(q) : prio[u] <= prio[q[1]]
  <2>1. \A i, j \in 1..Len(q) : i < j => prio[q[i]] >= prio[q[j]]
    BY <1>6 DEF SortedByPrio
  <2>2. SortedByPrio(r, prio)
    <3> SUFFICES ASSUME NEW i \in 1..Len(r), NEW j \in 1..Len(r), i < j
                 PROVE  prio[r[i]] >= prio[r[j]]
      BY DEF SortedByPrio
    <3>1. i + 1 < j + 1 BY <1>1 DEF r
    <3> QED BY <1>3, <2>1, <3>1
  <2>3. \A i \in 1..Len(q) : prio[q[i]] <= prio[q[1]]
    <3> TAKE i \in 1..Len(q)
    <3>1. 1 \in 1..Len(q) /\ q[i] \in S /\ prio[q[1]] \in Int /\ prio[q[i]] \in Int
      BY <1>1
    <3>2. CASE i = 1 BY <3>1, <3>2
    <3>3. CASE i # 1 BY <2>1, <3>1, <3>3
    <3> QED BY <3>2, <3>3
  <2> QED BY <2>2, <2>3 DEF Elems
<1> QED BY <1>1, <1>4, <1>5, <1>6 DEF r
\* The head of the ready list becomes current in place of a thread that has
\* just got the state newstate, which is not a runnable one.
LEMMA PickFirstOK ==
    ASSUME NEW s \in SchedStates,
           s.r_queue # <<>>, NoDuplicates(s.r_queue),
           Elems(s.r_queue) = {t \in AllThreads : s.p_state[t] = "READY"},
           \A t \in AllThreads : s.p_state[t] # "CURRENT",
           s.p_state[Idle] = "READY"
    PROVE  /\ SchedInv(PickFirst(s))
           /\ Keeps(s, PickFirst(s), {})
           /\ PickFirst(s).r_current = Head(s.r_queue)
           /\ PickFirst(s).r_queue = Tail(s.r_queue)
           /\ SortedByPrio(s.r_queue, s.p_prio) =>
                /\ ReadyListOK(PickFirst(s))
                /\ HighestRuns(PickFirst(s))
<1> DEFINE n == Head(s.r_queue)
           r == PickFirst(s)
           q == Tail(s.r_queue)
<1>1. /\ s.r_queue \in Seq(AllThreads) /\ s.p_prio \in [AllThreads -> Int]
      /\ s.p_state \in [AllThreads -> ThreadStates]
  BY PriosAreInts DEF SchedStates
<1>2. /\ n \in AllThreads /\ q \in Seq(AllThreads) /\ n \in Elems(s.r_queue)
      /\ NoDuplicates(q) /\ Elems(q) = Elems(s.r_queue) \ {n}
      /\ SortedByPrio(s.r_queue, s.p_prio) =>
           /\ SortedByPrio(q, s.p_prio)
           /\ \A u \in Elems(s.r_queue) : s.p_prio[u] <= s.p_prio[n]
  BY <1>1, HeadTail
<1>3. r = [s EXCEPT !.r_current = n, !.r_queue = q,
                    !.p_state = [s.p_state EXCEPT ![n] = "CURRENT"]]
  BY DEF PickFirst
<1> HIDE DEF n, q
<1>4. [s.p_state EXCEPT ![n] = "CURRENT"] \in [AllThreads -> ThreadStates]
  BY <1>1 DEF ThreadStates
<1>5. /\ r.r_queue = q /\ r.p_state = [s.p_state EXCEPT ![n] = "CURRENT"]
      /\ r.p_prio = s.p_prio /\ r.r_current = n
  BY <1>3 DEF SchedStates
<1>6. r \in SchedStates
  BY <1>2, <1>3, <1>4 DEF SchedStates
<1> HIDE DEF r
<1>7. ReadyListMembers(r)
  BY <1>1, <1>2, <1>5 DEF ReadyListMembers
<1>8. Keeps(s, r, {}) /\ r.p_state[Idle] \in Runnable
  BY <1>1, <1>2, <1>5 DEF Keeps, Runnable, AllThreads
<1>9. SortedByPrio(s.r_queue, s.p_prio) => ReadyListOK(r) /\ HighestRuns(r)
  BY <1>2, <1>5, <1>7 DEF ReadyListOK, HighestRuns
<1> QED BY <1>5, <1>6, <1>7, <1>8, <1>9 DEF SchedInv, r, n, q

\* The running thread leaves the CPU with the state newstate: nothing else
\* changes in the thread states and the ready list.
OffCPU(s, newstate) ==
    [s EXCEPT !.p_state[s.r_current] = newstate,
              !.p_preempt[s.r_current] = CH_TIME_QUANTUM]

\* The running thread gives up the CPU and nobody has it yet.
LEMMA LeaveCPU ==
    ASSUME NEW s, SchedInv(s), NEW newstate \in ThreadStates \ Runnable,
           s.r_current # Idle
    PROVE  /\ OffCPU(s, newstate) \in SchedStates
           /\ OffCPU(s, newstate).r_queue = s.r_queue
           /\ OffCPU(s, newstate).r_queue # <<>>
           /\ OffCPU(s, newstate).p_prio = s.p_prio
           /\ OffCPU(s, newstate).p_state =
                [s.p_state EXCEPT ![s.r_current] = newstate]
           /\ NoDuplicates(OffCPU(s, newstate).r_queue)
           /\ Elems(OffCPU(s, newstate).r_queue) =
                {t \in AllThreads : OffCPU(s, newstate).p_state[t] = "READY"}
           /\ \A t \in AllThreads : OffCPU(s, newstate).p_state[t] # "CURRENT"
           /\ OffCPU(s, newstate).p_state[Idle] = "READY"
<1> DEFINE c == s.r_current
           x == OffCPU(s, newstate)
<1>1. /\ s \in SchedStates /\ c \in AllThreads
      /\ s.p_state \in [AllThreads -> ThreadStates]
      /\ s.p_preempt \in [AllThreads -> 0..CH_TIME_QUANTUM]
  BY DEF SchedInv, SchedStates
<1>2. x = [s EXCEPT !.p_state = [s.p_state EXCEPT ![c] = newstate],
                    !.p_preempt = [s.p_preempt EXCEPT ![c] = CH_TIME_QUANTUM]]
  BY <1>1 DEF SchedStates, OffCPU
<1> HIDE DEF x
<1>3. /\ [s.p_state EXCEPT ![c] = newstate] \in [AllThreads -> ThreadStates]
      /\ [s.p_preempt EXCEPT ![c] = CH_TIME_QUANTUM] \in [AllThreads -> 0..CH_TIME_QUANTUM]
  BY <1>1, SchedAssumption
<1>4. /\ x.r_queue = s.r_queue /\ x.p_prio = s.p_prio
      /\ x.p_state = [s.p_state EXCEPT ![c] = newstate]
  BY <1>1, <1>2 DEF SchedStates
<1>5. x \in SchedStates BY <1>1, <1>2, <1>3 DEF SchedStates
<1>6. /\ NoDuplicates(x.r_queue)
      /\ Elems(x.r_queue) = {t \in AllThreads : x.p_state[t] = "READY"}
      /\ \A t \in AllThreads : x.p_state[t] # "CURRENT"
  BY <1>1, <1>4 DEF SchedInv, ReadyListMembers, Runnable
<1>7. x.p_state[Idle] = "READY"
  BY <1>1, <1>4 DEF SchedInv, ReadyListMembers, Runnable, AllThreads
<1>8. x.r_queue # <<>>
  <2>1. Idle \in Elems(x.r_queue) BY <1>6, <1>7 DEF AllThreads
  <2> QED BY <2>1 DEF Elems
<1> QED BY <1>4, <1>5, <1>6, <1>7, <1>8 DEF x

\* chSchGoSleepS() of a thread other than the idle one.
LEMMA GoSleepS ==
    ASSUME NEW s, SchedInv(s), NEW newstate \in ThreadStates \ Runnable,
           s.r_current # Idle
    PROVE  /\ SchedInv(chSchGoSleepS(s, newstate))
           /\ Keeps(s, chSchGoSleepS(s, newstate), {s.r_current})
           /\ chSchGoSleepS(s, newstate).p_state[s.r_current] = newstate
           /\ ReadyListOK(s) => /\ ReadyListOK(chSchGoSleepS(s, newstate))
                                /\ HighestRuns(chSchGoSleepS(s, newstate))
<1> DEFINE x == OffCPU(s, newstate)
           r == PickFirst(x)
<1>1. /\ x \in SchedStates
      /\ x.r_queue = s.r_queue /\ x.r_queue # <<>>
      /\ x.p_prio = s.p_prio
      /\ x.p_state = [s.p_state EXCEPT ![s.r_current] = newstate]
      /\ NoDuplicates(x.r_queue)
      /\ Elems(x.r_queue) = {t \in AllThreads : x.p_state[t] = "READY"}
      /\ \A t \in AllThreads : x.p_state[t] # "CURRENT"
      /\ x.p_state[Idle] = "READY"
  BY LeaveCPU
<1> HIDE DEF x
<1>2. /\ SchedInv(r) /\ Keeps(x, r, {})
      /\ SortedByPrio(x.r_queue, x.p_prio) => ReadyListOK(r) /\ HighestRuns(r)
  BY <1>1, PickFirstOK
<1> HIDE DEF r
<1>3. s.r_current \in AllThreads /\ s.p_state \in [AllThreads -> ThreadStates]
  BY DEF SchedInv, SchedStates
<1>4. Keeps(s, r, {s.r_current}) /\ r.p_state[s.r_current] = newstate
  BY <1>1, <1>2, <1>3 DEF Keeps
<1> QED BY <1>1, <1>2, <1>4 DEF chSchGoSleepS, OffCPU, ReadyListOK, r, x
\* The first ready thread n and the running thread change places: the ready
\* list q of the new state r holds the old running thread in place of n.
LEMMA SwitchOK ==
    ASSUME NEW s, SchedInv(s), s.r_queue # <<>>,
           NEW r \in SchedStates,
           r.r_current = Head(s.r_queue), r.p_prio = s.p_prio,
           r.p_state = [[s.p_state EXCEPT ![Head(s.r_queue)] = "CURRENT"]
                          EXCEPT ![s.r_current] = "READY"],
           Elems(r.r_queue) = Elems(Tail(s.r_queue)) \cup {s.r_current},
           NoDuplicates(Tail(s.r_queue)) /\ s.r_current \notin Elems(Tail(s.r_queue))
             => NoDuplicates(r.r_queue)
    PROVE  SchedInv(r) /\ Keeps(s, r, {})
<1> DEFINE n == Head(s.r_queue)
           c == s.r_current
           q == Tail(s.r_queue)
<1>1. /\ s.r_queue \in Seq(AllThreads) /\ c \in AllThreads
      /\ s.p_state \in [AllThreads -> ThreadStates]
      /\ NoDuplicates(s.r_queue)
      /\ Elems(s.r_queue) = {t \in AllThreads : s.p_state[t] = "READY"}
      /\ \A t \in AllThreads : s.p_state[t] = "CURRENT" <=> t = c
      /\ s.p_state[Idle] \in Runnable
  BY DEF SchedInv, SchedStates, ReadyListMembers
<1>2. /\ n \in AllThreads /\ n \in Elems(s.r_queue)
      /\ NoDuplicates(q) /\ Elems(q) = Elems(s.r_queue) \ {n}
  BY <1>1, HeadTail
<1> HIDE DEF n, c, q
<1>3. r.p_state = [[s.p_state EXCEPT ![n] = "CURRENT"] EXCEPT ![c] = "READY"]
  BY DEF n, c
<1>4. c \notin Elems(s.r_queue) /\ c # n BY <1>1, <1>2
<1>5. /\ r.r_current = n /\ Elems(r.r_queue) = Elems(q) \cup {c}
      /\ NoDuplicates(r.r_queue)
  BY <1>2, <1>4 DEF n, c, q
<1>6. /\ r.p_state[n] = "CURRENT" /\ r.p_state[c] = "READY"
      /\ \A u \in AllThreads \ {n, c} : r.p_state[u] = s.p_state[u]
  BY <1>1, <1>2, <1>3, <1>4
<1>7. ReadyListMembers(r) BY <1>1, <1>2, <1>4, <1>5, <1>6 DEF ReadyListMembers
<1>8. Keeps(s, r, {}) BY <1>1, <1>2, <1>6 DEF Keeps, Runnable
<1>9. r.p_state[Idle] \in Runnable BY <1>1, <1>6 DEF Runnable, AllThreads
<1> QED BY <1>7, <1>8, <1>9 DEF SchedInv

\* chSchDoRescheduleAhead() with somebody ready.
LEMMA RescheduleAhead ==
    ASSUME NEW s, SchedInv(s), s.r_queue # <<>>
    PROVE  /\ SchedInv(chSchDoRescheduleAhead(s))
           /\ Keeps(s, chSchDoRescheduleAhead(s), {})
           /\ ReadyListOK(s) => ReadyListOK(chSchDoRescheduleAhead(s))
           /\ ReadyListOK(s) /\ firstprio(s) >= s.p_prio[s.r_current]
                => HighestRuns(chSchDoRescheduleAhead(s))
<1> DEFINE n == Head(s.r_queue)
           c == s.r_current
           q == Tail(s.r_queue)
           p == PlaceAt(q, AheadPos(q, s.p_prio, c), c)
           r == chSchDoRescheduleAhead(s)
<1>1. /\ s.r_queue \in Seq(AllThreads) /\ c \in AllThreads
      /\ s.p_state \in [AllThreads -> ThreadStates]
      /\ s.p_prio \in [AllThreads -> Int] /\ s \in SchedStates
  BY PriosAreInts DEF SchedInv, SchedStates
<1>2. /\ n \in AllThreads /\ q \in Seq(AllThreads)
      /\ Elems(q) \cup {n} = Elems(s.r_queue)
      /\ SortedByPrio(s.r_queue, s.p_prio) =>
           /\ SortedByPrio(q, s.p_prio)
           /\ \A u \in Elems(s.r_queue) : s.p_prio[u] <= s.p_prio[n]
  BY <1>1, HeadTail
<1>3. /\ p \in Seq(AllThreads)
      /\ Elems(p) = Elems(q) \cup {c}
      /\ NoDuplicates(q) /\ c \notin Elems(q) => NoDuplicates(p)
      /\ SortedByPrio(q, s.p_prio) => SortedByPrio(p, s.p_prio)
  BY <1>1, <1>2, AheadInsert
<1>4. /\ r.r_current = n /\ r.r_queue = p /\ r.p_prio = s.p_prio
      /\ r.p_state = [[s.p_state EXCEPT ![n] = "CURRENT"] EXCEPT ![c] = "READY"]
  BY <1>1 DEF chSchDoRescheduleAhead, PickFirst, SchedStates
<1>5. r = [s EXCEPT !.r_current = n, !.r_queue = p, !.p_state = r.p_state]
  BY <1>1 DEF chSchDoRescheduleAhead, PickFirst, SchedStates
<1>6. r \in SchedStates
  <2> HIDE DEF r, p, q, n, c
  <2>1. r.p_state \in [AllThreads -> ThreadStates]
    BY <1>1, <1>4 DEF ThreadStates
  <2> QED BY <1>1, <1>2, <1>3, <1>5, <2>1 DEF SchedStates
<1> HIDE DEF r, p
<1>7. SchedInv(r) /\ Keeps(s, r, {}) BY <1>3, <1>4, <1>6, SwitchOK
<1>8. ReadyListOK(s) => ReadyListOK(r)
  BY <1>2, <1>3, <1>4, <1>7 DEF ReadyListOK, SchedInv
<1>9. ASSUME ReadyListOK(s), firstprio(s) >= s.p_prio[s.r_current]
      PROVE  HighestRuns(r)
  <2>1. s.p_prio[n] >= s.p_prio[c] BY <1>9 DEF firstprio
  <2>2. \A u \in Elems(q) \cup {c} : s.p_prio[u] <= s.p_prio[n]
    BY <1>1, <1>2, <1>9, <2>1 DEF ReadyListOK
  <2> QED BY <1>3, <1>4, <2>2 DEF HighestRuns
<1> QED BY <1>7, <1>8, <1>9 DEF r

\* chSchDoRescheduleBehind() with somebody ready.
LEMMA RescheduleBehind ==
    ASSUME NEW s, SchedInv(s), s.r_queue # <<>>
    PROVE  /\ SchedInv(chSchDoRescheduleBehind(s))
           /\ Keeps(s, chSchDoRescheduleBehind(s), {})
           /\ ReadyListOK(s) => ReadyListOK(chSchDoRescheduleBehind(s))
           /\ ReadyListOK(s) /\ firstprio(s) >= s.p_prio[s.r_current]
                => HighestRuns(chSchDoRescheduleBehind(s))
<1> DEFINE n == Head(s.r_queue)
           c == s.r_current
           q == Tail(s.r_queue)
           p == prio_insert(q, s.p_prio, c)
           r == chSchDoRescheduleBehind(s)
<1>1. /\ s.r_queue \in Seq(AllThreads) /\ c \in AllThreads
      /\ s.p_state \in [AllThreads -> ThreadStates]
      /\ s.p_preempt \in [AllThreads -> 0..CH_TIME_QUANTUM]
      /\ s.p_prio \in [AllThreads -> Int] /\ s \in SchedStates
  BY PriosAreInts DEF SchedInv, SchedStates
<1>2. /\ n \in AllThreads /\ q \in Seq(AllThreads)
      /\ Elems(q) \cup {n} = Elems(s.r_queue)
      /\ SortedByPrio(s.r_queue, s.p_prio) =>
           /\ SortedByPrio(q, s.p_prio)
           /\ \A u \in Elems(s.r_queue) : s.p_prio[u] <= s.p_prio[n]
  BY <1>1, HeadTail
<1>3. /\ p \in Seq(AllThreads)
      /\ Elems(p) = Elems(q) \cup {c}
      /\ NoDuplicates(q) /\ c \notin Elems(q) => NoDuplicates(p)
      /\ SortedByPrio(q, s.p_prio) => SortedByPrio(p, s.p_prio)
  BY <1>1, <1>2, PrioInsert
<1>4. /\ r.r_current = n /\ r.r_queue = p /\ r.p_prio = s.p_prio
      /\ r.p_state = [[s.p_state EXCEPT ![n] = "CURRENT"] EXCEPT ![c] = "READY"]
      /\ r.p_preempt = [s.p_preempt EXCEPT ![c] = CH_TIME_QUANTUM]
  BY <1>1 DEF chSchDoRescheduleBehind, chSchReadyI, PickFirst, SchedStates
<1>5. r = [s EXCEPT !.r_current = n, !.r_queue = p, !.p_state = r.p_state,
                    !.p_preempt = r.p_preempt]
  BY <1>1 DEF chSchDoRescheduleBehind, chSchReadyI, PickFirst, SchedStates
<1>6. r \in SchedStates
  <2> HIDE DEF r, p, q, n, c
  <2>1. r.p_state \in [AllThreads -> ThreadStates]
    BY <1>1, <1>4 DEF ThreadStates
  <2>2. r.p_preempt \in [AllThreads -> 0..CH_TIME_QUANTUM]
    BY <1>1, <1>4, SchedAssumption
  <2> QED BY <1>1, <1>2, <1>3, <1>5, <2>1, <2>2 DEF SchedStates
<1> HIDE DEF r, p
<1>7. SchedInv(r) /\ Keeps(s, r, {}) BY <1>3, <1>4, <1>6, SwitchOK
<1>8. ReadyListOK(s) => ReadyListOK(r)
  BY <1>2, <1>3, <1>4, <1>7 DEF ReadyListOK, SchedInv
<1>9. ASSUME ReadyListOK(s), firstprio(s) >= s.p_prio[s.r_current]
      PROVE  HighestRuns(r)
  <2>1. s.p_prio[n] >= s.p_prio[c] BY <1>9 DEF firstprio
  <2>2. \A u \in Elems(q) \cup {c} : s.p_prio[u] <= s.p_prio[n]
    BY <1>1, <1>2, <1>9, <2>1 DEF ReadyListOK
  <2> QED BY <1>3, <1>4, <2>2 DEF HighestRuns
<1> QED BY <1>7, <1>8, <1>9 DEF r

\* When somebody ready has at least priority 1 the ready list is not empty, and
\* when its first thread does not outrank the running one, nobody does.
LEMMA FirstPrio ==
    ASSUME NEW s, SchedInv(s)
    PROVE  /\ firstprio(s) \in Int
           /\ firstprio(s) >= s.p_prio[s.r_current] => s.r_queue # <<>>
           /\ ReadyListOK(s) /\ firstprio(s) <= s.p_prio[s.r_current] => HighestRuns(s)
<1>1. /\ s.r_queue \in Seq(AllThreads) /\ s.r_current \in AllThreads
      /\ s.p_prio \in [AllThreads -> Int]
      /\ s.p_prio[s.r_current] >= 1
  BY PriosAreInts DEF SchedInv, SchedStates
<1>2. s.r_queue # <<>> => s.p_prio[Head(s.r_queue)] \in Int
  BY <1>1, HeadTail
<1>3. ASSUME ReadyListOK(s), firstprio(s) <= s.p_prio[s.r_current]
      PROVE  HighestRuns(s)
  <2>1. CASE s.r_queue = <<>> BY <2>1 DEF HighestRuns, Elems
  <2>2. CASE s.r_queue # <<>>
    <3>1. \A u \in Elems(s.r_queue) :
             u \in AllThreads /\ s.p_prio[u] <= s.p_prio[Head(s.r_queue)]
      BY <1>1, <1>3, <2>2, HeadTail DEF ReadyListOK, Elems
    <3>2. s.p_prio[Head(s.r_queue)] <= s.p_prio[s.r_current]
      BY <1>3, <2>2 DEF firstprio
    <3> QED BY <1>1, <1>2, <2>2, <3>1, <3>2 DEF HighestRuns
  <2> QED BY <2>1, <2>2
<1> QED BY <1>1, <1>2, <1>3 DEF firstprio

\* chSchRescheduleS() restores the rule that the highest priority runs.
LEMMA RescheduleS ==
    ASSUME NEW s, SchedInv(s)
    PROVE  /\ SchedInv(chSchRescheduleS(s))
           /\ Keeps(s, chSchRescheduleS(s), {})
           /\ ReadyListOK(s) => /\ ReadyListOK(chSchRescheduleS(s))
                                /\ HighestRuns(chSchRescheduleS(s))
<1>0. s.p_prio[s.r_current] \in Int
  BY PriosAreInts DEF SchedInv, SchedStates
<1>1. CASE firstprio(s) > s.p_prio[s.r_current]
  <2>1. s.r_queue # <<>> /\ firstprio(s) >= s.p_prio[s.r_current]
    BY <1>0, <1>1, FirstPrio
  <2> QED BY <1>1, <2>1, RescheduleAhead DEF chSchRescheduleS, chSchIsRescRequiredI
<1>2. CASE ~ (firstprio(s) > s.p_prio[s.r_current])
  <2>1. chSchRescheduleS(s) = s
    BY <1>2 DEF chSchRescheduleS, chSchIsRescRequiredI
  <2>2. firstprio(s) <= s.p_prio[s.r_current] BY <1>0, <1>2, FirstPrio
  <2>3. Keeps(s, s, {}) BY DEF Keeps
  <2> QED BY <2>1, <2>2, <2>3, FirstPrio
<1> QED BY <1>1, <1>2

\* ... and so does the epilogue of the outermost interrupt.
LEMMA Epilogue ==
    ASSUME NEW s, SchedInv(s)
    PROVE  /\ SchedInv(IrqEpilogue(s))
           /\ Keeps(s, IrqEpilogue(s), {})
           /\ ReadyListOK(s) => /\ ReadyListOK(IrqEpilogue(s))
                                /\ HighestRuns(IrqEpilogue(s))
<1>0. s.p_prio[s.r_current] \in Int
  BY PriosAreInts DEF SchedInv, SchedStates
<1>1. CASE chSchIsPreemptionRequired(s)
  <2>1. s.r_queue # <<>> /\ firstprio(s) >= s.p_prio[s.r_current]
    BY <1>0, <1>1, FirstPrio DEF chSchIsPreemptionRequired
  <2> QED BY <1>1, <2>1, RescheduleAhead, RescheduleBehind
          DEF IrqEpilogue, chSchDoReschedule
<1>2. CASE ~ chSchIsPreemptionRequired(s)
  <2>1. IrqEpilogue(s) = s BY <1>2 DEF IrqEpilogue
  <2>2. firstprio(s) <= s.p_prio[s.r_current]
    BY <1>0, <1>2, FirstPrio DEF chSchIsPreemptionRequired
  <2>3. Keeps(s, s, {}) BY DEF Keeps
  <2> QED BY <2>1, <2>2, <2>3, FirstPrio
<1> QED BY <1>1, <1>2

\* chSchWakeupS() of a thread that is not runnable. It keeps the rule that the
\* highest priority runs also when the caller has just lowered its priority,
\* provided the thread it wakes is not below any ready one.
LEMMA WakeupS ==
    ASSUME NEW s, SchedInv(s), NEW t \in AllThreads, s.p_state[t] \notin Runnable
    PROVE  /\ SchedInv(chSchWakeupS(s, t))
           /\ Keeps(s, chSchWakeupS(s, t), {t})
           /\ chSchWakeupS(s, t).p_state[t] \in Runnable
           /\ ReadyListOK(s) => ReadyListOK(chSchWakeupS(s, t))
           /\ \/ HighestRuns(s)
              \/ \A u \in Elems(s.r_queue) : s.p_prio[u] <= s.p_prio[t]
              => HighestRuns(chSchWakeupS(s, t))
<1> DEFINE c == s.r_current
           r == chSchWakeupS(s, t)
<1>1. /\ s.r_queue \in Seq(AllThreads) /\ c \in AllThreads
      /\ s.p_state \in [AllThreads -> ThreadStates]
      /\ s.p_prio \in [AllThreads -> Int] /\ s \in SchedStates
      /\ NoDuplicates(s.r_queue)
      /\ Elems(s.r_queue) = {u \in AllThreads : s.p_state[u] = "READY"}
      /\ \A u \in AllThreads : s.p_state[u] = "CURRENT" <=> u = c
      /\ s.p_state[Idle] \in Runnable
  BY PriosAreInts DEF SchedInv, SchedStates, ReadyListMembers
<1>0. c = s.r_current OBVIOUS
<1> HIDE DEF c
<1>2. c \notin Elems(s.r_queue) /\ t \notin Elems(s.r_queue) /\ c # t
  BY <1>1 DEF Runnable
<1>3. CASE s.p_prio[t] <= s.p_prio[c]
  <2> DEFINE q == prio_insert(s.r_queue, s.p_prio, t)
  <2>1. r = chSchReadyI(s, t) BY <1>0, <1>3 DEF chSchWakeupS
  <2> HIDE DEF r
  <2>2. /\ SchedInv(r) /\ Keeps(s, r, {t}) /\ r.p_state[t] = "READY"
        /\ r.r_current = c
        /\ ReadyListOK(s) => ReadyListOK(r)
    BY <1>0, <2>1, ReadyI
  <2> HIDE DEF q
  <2>3. Elems(q) = Elems(s.r_queue) \cup {t}
    <3>1. /\ q \in Seq(AllThreads)
          /\ Elems(q) = Elems(s.r_queue) \cup {t}
          /\ NoDuplicates(s.r_queue) /\ t \notin Elems(s.r_queue) => NoDuplicates(q)
          /\ SortedByPrio(s.r_queue, s.p_prio) => SortedByPrio(q, s.p_prio)
      BY <1>1, PrioInsert DEF q
    <3> QED BY <3>1
  <2>4. r.r_queue = q BY <2>1, <1>1 DEF chSchReadyI, q, SchedStates
  <2>5. \A u \in Elems(s.r_queue) \cup {t} : u \in AllThreads /\ s.p_prio[u] \in Int
    BY <1>1
  <2>6. ASSUME \/ HighestRuns(s)
               \/ \A u \in Elems(s.r_queue) : s.p_prio[u] <= s.p_prio[t]
        PROVE  HighestRuns(r)
    <3>0. s.p_prio[c] \in Int /\ s.p_prio[t] \in Int BY <1>1
    <3>1. \A u \in Elems(s.r_queue) \cup {t} : s.p_prio[u] <= s.p_prio[c]
      BY <1>0, <1>3, <2>5, <2>6, <3>0 DEF HighestRuns
    <3>2. r.p_prio = s.p_prio BY <2>2 DEF Keeps
    <3>3. r.r_current = c /\ Elems(r.r_queue) = Elems(s.r_queue) \cup {t}
      BY <2>2, <2>3, <2>4
    <3> QED BY <3>1, <3>2, <3>3 DEF HighestRuns
  <2>7. SchedInv(r) /\ Keeps(s, r, {t}) /\ r.p_state[t] \in Runnable
        /\ (ReadyListOK(s) => ReadyListOK(r))
    BY <2>2 DEF Runnable
  <2> QED BY <2>6, <2>7 DEF r
<1>4. CASE ~ (s.p_prio[t] <= s.p_prio[c])
  <2> DEFINE q == prio_insert(s.r_queue, s.p_prio, c)
  <2>1. /\ q \in Seq(AllThreads)
        /\ Elems(q) = Elems(s.r_queue) \cup {c}
        /\ NoDuplicates(q)
        /\ SortedByPrio(s.r_queue, s.p_prio) => SortedByPrio(q, s.p_prio)
    <3> HIDE DEF q
    <3>1. /\ q \in Seq(AllThreads)
          /\ Elems(q) = Elems(s.r_queue) \cup {c}
          /\ NoDuplicates(s.r_queue) /\ c \notin Elems(s.r_queue) => NoDuplicates(q)
          /\ SortedByPrio(s.r_queue, s.p_prio) => SortedByPrio(q, s.p_prio)
      BY <1>1, PrioInsert DEF q
    <3> QED BY <1>1, <1>2, <3>1
  <2>2. /\ r.r_current = t /\ r.r_queue = q /\ r.p_prio = s.p_prio
        /\ r.p_state = [[s.p_state EXCEPT ![c] = "READY"] EXCEPT ![t] = "CURRENT"]
        /\ r = [s EXCEPT !.r_current = t, !.r_queue = q, !.p_state = r.p_state]
    BY <1>0, <1>1, <1>4 DEF chSchWakeupS, chSchReadyI, SchedStates
  <2> HIDE DEF q, r
  <2>3. r.p_state \in [AllThreads -> ThreadStates]
    <3>1. "READY" \in ThreadStates /\ "CURRENT" \in ThreadStates BY DEF ThreadStates
    <3>2. [s.p_state EXCEPT ![c] = "READY"] \in [AllThreads -> ThreadStates]
      BY <1>1, <3>1
    <3> QED BY <2>2, <3>1, <3>2
  <2>4. r \in SchedStates BY <1>1, <2>1, <2>2, <2>3 DEF SchedStates
  <2>5. /\ r.p_state[c] = "READY" /\ r.p_state[t] = "CURRENT"
        /\ \A u \in AllThreads \ {c, t} : r.p_state[u] = s.p_state[u]
    BY <1>1, <1>2, <2>2
  <2>6. ReadyListMembers(r)
    <3>1. Elems(r.r_queue) = {u \in AllThreads : r.p_state[u] = "READY"}
      BY <1>1, <1>2, <2>1, <2>2, <2>5 DEF Runnable
    <3>2. \A u \in AllThreads : r.p_state[u] = "CURRENT" <=> u = r.r_current
      BY <1>1, <2>2, <2>5
    <3> QED BY <2>1, <2>2, <3>1, <3>2 DEF ReadyListMembers
  <2>7. Keeps(s, r, {t}) /\ r.p_state[Idle] \in Runnable
    BY <1>1, <2>2, <2>5 DEF Keeps, Runnable, AllThreads
  <2>8. ReadyListOK(s) => ReadyListOK(r)
    BY <2>1, <2>2, <2>6 DEF ReadyListOK
  <2>9. ASSUME \/ HighestRuns(s)
               \/ \A u \in Elems(s.r_queue) : s.p_prio[u] <= s.p_prio[t]
        PROVE  HighestRuns(r)
    <3>1. \A u \in Elems(s.r_queue) \cup {c} : u \in AllThreads BY <1>1
    <3>2. \A u \in Elems(s.r_queue) \cup {c} : s.p_prio[u] <= s.p_prio[t]
      BY <1>0, <1>1, <1>4, <2>9, <3>1 DEF HighestRuns
    <3> QED BY <2>1, <2>2, <3>2 DEF HighestRuns
  <2> QED BY <2>4, <2>5, <2>6, <2>7, <2>8, <2>9 DEF SchedInv, Runnable, r
<1> QED BY <1>3, <1>4

\* Priority order depends only on the priorities of the queued threads.
LEMMA SortedCongruence ==
    ASSUME NEW S, NEW q \in Seq(S), NEW f \in [S -> Int], NEW g \in [S -> Int],
           \A u \in Elems(q) : f[u] = g[u], SortedByPrio(q, f)
    PROVE  SortedByPrio(q, g)
<1>1. \A i \in 1..Len(q) : f[q[i]] = g[q[i]] BY DEF Elems
<1> QED BY <1>1 DEF SortedByPrio

\* Another priority for a thread that is not in the ready list.
WithPrio(s, c, p) == [s EXCEPT !.p_prio[c] = p]

\* A thread that is in no queue changes its priority.
LEMMA NewPrio ==
    ASSUME NEW s, SchedInv(s), NEW c \in AllThreads, c \notin Elems(s.r_queue),
           NEW p \in Prios
    PROVE  LET r == WithPrio(s, c, p)
           IN /\ SchedInv(r)
              /\ r.p_state = s.p_state /\ r.r_current = s.r_current
              /\ r.r_queue = s.r_queue /\ r.p_preempt = s.p_preempt
              /\ r.p_prio = [s.p_prio EXCEPT ![c] = p]
              /\ ReadyListOK(s) => ReadyListOK(r)
<1> DEFINE r == WithPrio(s, c, p)
<1>1. /\ s \in SchedStates /\ s.p_prio \in [AllThreads -> Prios]
      /\ s.r_queue \in Seq(AllThreads)
  BY DEF SchedInv, SchedStates
<1>2. r = [s EXCEPT !.p_prio = [s.p_prio EXCEPT ![c] = p]]
  BY <1>1 DEF SchedStates, WithPrio
<1> HIDE DEF r
<1>3. /\ r.p_state = s.p_state /\ r.r_current = s.r_current
      /\ r.r_queue = s.r_queue /\ r.p_preempt = s.p_preempt
      /\ r.p_prio = [s.p_prio EXCEPT ![c] = p]
  BY <1>1, <1>2 DEF SchedStates
<1>4. [s.p_prio EXCEPT ![c] = p] \in [AllThreads -> Prios] BY <1>1
<1>5. r \in SchedStates BY <1>1, <1>2, <1>4 DEF SchedStates
<1>6. SchedInv(r) BY <1>3, <1>5 DEF SchedInv, ReadyListMembers
<1>7. ASSUME ReadyListOK(s) PROVE ReadyListOK(r)
  <2>0. \A u \in Elems(s.r_queue) : u \in AllThreads /\ u # c
    BY DEF SchedInv, ReadyListMembers
  <2>1. /\ s.p_prio \in [AllThreads -> Int] /\ r.p_prio \in [AllThreads -> Int]
        /\ \A u \in Elems(s.r_queue) : s.p_prio[u] = r.p_prio[u]
        /\ SortedByPrio(s.r_queue, s.p_prio)
    BY <1>1, <1>3, <1>4, <1>7, <2>0, PriosAreInts DEF ReadyListOK
  <2>2. SortedByPrio(s.r_queue, r.p_prio) BY <1>1, <2>1, SortedCongruence
  <2> QED BY <1>3, <1>6, <2>2 DEF ReadyListOK, SchedInv
<1> QED BY <1>3, <1>6, <1>7 DEF r

\* chSchReadyI() on any scheduler state.
LEMMA ReadyIType ==
    ASSUME NEW s \in SchedStates, NEW t \in AllThreads
    PROVE  chSchReadyI(s, t) \in SchedStates
<1> DEFINE q == prio_insert(s.r_queue, s.p_prio, t)
<1>1. s.r_queue \in Seq(AllThreads) /\ s.p_prio \in [AllThreads -> Int]
  BY PriosAreInts DEF SchedStates
<1>2. q \in Seq(AllThreads) BY <1>1, PrioInsert
<1>3. chSchReadyI(s, t) = [s EXCEPT !.p_state = [s.p_state EXCEPT ![t] = "READY"],
                                    !.r_queue = q]
  BY DEF chSchReadyI, SchedStates
<1> HIDE DEF q
<1>4. [s.p_state EXCEPT ![t] = "READY"] \in [AllThreads -> ThreadStates]
  BY DEF SchedStates, ThreadStates
<1> QED BY <1>2, <1>3, <1>4 DEF SchedStates

\* A chain of chSchReadyI() calls for different threads that wait: they become
\* ready, nothing else changes.
LEMMA ReadyAllOK ==
    ASSUME NEW s, SchedInv(s), NEW ts \in Seq(AllThreads), NoDuplicates(ts),
           \A u \in Elems(ts) : s.p_state[u] \notin Runnable
    PROVE  LET r == ReadyAll(s, ts)
           IN /\ SchedInv(r) /\ Keeps(s, r, Elems(ts)) /\ r.r_current = s.r_current
              /\ \A u \in Elems(ts) : r.p_state[u] = "READY"
              /\ ReadyListOK(s) => ReadyListOK(r)
<1> DEFINE n == Len(ts)
           Turn(i, x) == chSchReadyI(x, ts[i])
           F == [p \in (1..n) \X SchedStates |-> Turn(p[1], p[2])]
           Loop(b) == b = [i \in 0..n |-> IF i = 0 THEN s ELSE Turn(i, b[i - 1])]
           b == CHOOSE b : Loop(b)
<1>1. n \in Nat /\ s \in SchedStates BY DEF SchedInv
<1>2. \A i \in 1..n : ts[i] \in AllThreads /\ ts[i] \in Elems(ts) BY DEF Elems
<1>3. \A i, j \in 1..n : ts[i] = ts[j] => i = j BY DEF NoDuplicates
<1>4. ReadyAll(s, ts) = b[n] BY DEF ReadyAll
<1> HIDE DEF n
<1>5. F \in [(1..n) \X SchedStates -> SchedStates] BY <1>2, ReadyIType
<1>6. \E f \in [0..n -> SchedStates] : IsIteration(f, n, s, F)
  <2> HIDE DEF F
  <2> QED BY ONLY <1>1, <1>5, Iteration
<1>7. \E f : Loop(f)
  <2>1. PICK f \in [0..n -> SchedStates] : IsIteration(f, n, s, F) BY <1>6
  <2>2. \A i \in 0..n : f[i] \in SchedStates OBVIOUS
  <2>3. \A i \in 0..n : i # 0 =>
           /\ i \in 1..n /\ i - 1 \in 0..n
           /\ F[<<i, f[i - 1]>>] = Turn(i, f[i - 1])
    BY <1>1, <2>2
  <2> HIDE DEF F, Turn
  <2>4. Loop(f) BY <1>1, <2>1, <2>3 DEF IsIteration
  <2> QED BY <2>4
<1>8. Loop(b)
  <2> HIDE DEF Loop
  <2> QED BY <1>7
<1> HIDE DEF b
<1>9. b[0] = s /\ \A i \in 1..n : b[i] = Turn(i, b[i - 1])
  BY <1>1, <1>8
<1> DEFINE Readied(i, u) == \E j \in 1..i : u = ts[j]
           OK(i) == /\ SchedInv(b[i]) /\ (ReadyListOK(s) => ReadyListOK(b[i]))
                    /\ b[i].p_prio = s.p_prio /\ b[i].r_current = s.r_current
                    /\ \A u \in AllThreads :
                          b[i].p_state[u] = IF Readied(i, u) THEN "READY"
                                            ELSE s.p_state[u]
           Good == {i \in 0..n : OK(i)}
<1>10. OK(0) BY <1>9
<1>11. ASSUME NEW i \in 1..n, OK(i - 1) PROVE OK(i)
  <2>1. \A u \in AllThreads : Readied(i, u) <=> (Readied(i - 1, u) \/ u = ts[i])
    <3>1. \A j : j \in 1..i <=> j \in 1..i - 1 \/ j = i OBVIOUS
    <3> QED BY <3>1
  <2>2. b[i] = chSchReadyI(b[i - 1], ts[i]) BY <1>9
  <2>3. ts[i] \in AllThreads /\ s.p_state[ts[i]] \notin Runnable BY <1>2
  <2>4. ~ Readied(i - 1, ts[i])
    <3> SUFFICES ASSUME NEW j \in 1..i - 1, ts[i] = ts[j] PROVE FALSE
      OBVIOUS
    <3>1. j \in 1..n /\ j # i BY <1>1
    <3> QED BY <1>3, <3>1
  <2> HIDE DEF Readied
  <2>5. b[i - 1].p_state[ts[i]] \notin Runnable BY <1>11, <2>3, <2>4
  <2>6. /\ SchedInv(b[i]) /\ (ReadyListOK(s) => ReadyListOK(b[i]))
        /\ Keeps(b[i - 1], b[i], {ts[i]}) /\ b[i].r_current = s.r_current
    BY <1>11, <2>2, <2>3, <2>5, ReadyI
  <2>7. b[i].p_state = [b[i - 1].p_state EXCEPT ![ts[i]] = "READY"]
    BY <1>11, <2>2 DEF chSchReadyI, SchedInv, SchedStates
  <2>8. b[i - 1].p_state \in [AllThreads -> ThreadStates]
    BY <1>11 DEF SchedInv, SchedStates
  <2> QED BY <1>11, <2>1, <2>3, <2>6, <2>7, <2>8 DEF Keeps
<1>12. OK(n)
  <2>1. 0 \in Good BY <1>1, <1>10
  <2>2. \A i \in 1..n : i - 1 \in Good => i \in Good
    <3> TAKE i \in 1..n
    <3> HAVE i - 1 \in Good
    <3>1. OK(i - 1) OBVIOUS
    <3>2. OK(i)
      <4> HIDE DEF OK
      <4> QED BY <1>11, <3>1
    <3>3. i \in 0..n OBVIOUS
    <3> HIDE DEF OK
    <3> QED BY <3>2, <3>3
  <2> HIDE DEF Good
  <2>3. \A i \in 0..n : i \in Good BY <1>1, <2>1, <2>2, TurnInduction
  <2>4. n \in Good BY <1>1, <2>3
  <2> QED BY <2>4 DEF Good
<1>13. \A u \in AllThreads : Readied(n, u) <=> u \in Elems(ts) BY DEF n, Elems
<1> DEFINE r == b[n]
<1> HIDE DEF Readied, r
<1>14. /\ SchedInv(r) /\ (ReadyListOK(s) => ReadyListOK(r))
       /\ r.p_prio = s.p_prio /\ r.r_current = s.r_current
       /\ \A u \in AllThreads : r.p_state[u] = IF u \in Elems(ts) THEN "READY"
                                               ELSE s.p_state[u]
  BY <1>12, <1>13 DEF r
<1>15. Elems(ts) \subseteq AllThreads BY <1>2 DEF n, Elems
<1>16. Keeps(s, r, Elems(ts)) BY <1>14 DEF Keeps
<1> QED BY <1>4, <1>14, <1>15, <1>16 DEF r

----------------------------------------------------------------------------
(* The start of the system. *)

\* The scheduler state after the threads have been created in the order q.
Started(q, prio) ==
    [r_current |-> Head(q), r_queue |-> Tail(q),
     p_state |-> [t \in AllThreads |-> IF t = Head(q) THEN "CURRENT" ELSE "READY"],
     p_prio |-> prio,
     p_preempt |-> [t \in AllThreads |-> CH_TIME_QUANTUM]]

\* Threads that all may run are a consistent scheduler state.
LEMMA StartInv ==
    ASSUME NEW q \in [1..Cardinality(AllThreads) -> AllThreads], NoDuplicates(q),
           NEW prio \in [AllThreads -> Prios]
    PROVE  SchedInv(Started(q, prio))
<1> DEFINE n == Cardinality(AllThreads)
           s == Started(q, prio)
<1>1. IsFiniteSet(AllThreads) BY SchedAssumption, FS_AddElement DEF AllThreads
<1>2. n \in Nat /\ Cardinality(1..n) = n /\ IsFiniteSet(1..n)
  BY <1>1, FS_CardinalityType, FS_Interval
<1> HIDE DEF n
<1>3. q \in [1..n -> AllThreads] /\ q \in Seq(AllThreads) /\ Len(q) = n
  BY <1>2 DEF n
<1>4. q \in Injection(1..n, AllThreads)
  BY <1>2, <1>3 DEF n, Injection, IsInjective, NoDuplicates
<1>5. q \in Surjection(1..n, AllThreads) BY <1>1, <1>2, <1>4, FS_Injection DEF n
<1>6. Elems(q) = AllThreads
  <2>1. \A t \in AllThreads : \E i \in 1..n : q[i] = t BY <1>5 DEF Surjection
  <2> QED BY <1>3, <2>1 DEF Elems
<1>7. q # <<>>
  <2>1. Idle \in AllThreads BY DEF AllThreads
  <2>2. \E i \in 1..n : q[i] = Idle BY <1>5, <2>1 DEF Surjection
  <2> QED BY <1>2, <1>3, <2>2
<1>8. /\ Head(q) \in AllThreads /\ Tail(q) \in Seq(AllThreads)
      /\ NoDuplicates(Tail(q)) /\ Elems(Tail(q)) = AllThreads \ {Head(q)}
  BY <1>3, <1>6, <1>7, HeadTail
<1>9. s \in SchedStates
  <2>1. s.p_preempt \in [AllThreads -> 0..CH_TIME_QUANTUM]
    BY SchedAssumption DEF Started
  <2>2. s.p_state \in [AllThreads -> ThreadStates] BY DEF Started, ThreadStates
  <2> QED BY <1>8, <2>1, <2>2 DEF Started, SchedStates
<1>10. s.p_state[Idle] \in Runnable BY DEF Started, Runnable, AllThreads
<1>11. ReadyListMembers(s) BY <1>8 DEF Started, ReadyListMembers
<1> QED BY <1>9, <1>10, <1>11 DEF SchedInv
============================================================================
