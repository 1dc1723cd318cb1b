---------------------------- MODULE ServicesProofs ----------------------------
(***************************************************************************)
(* Theorems about the components that do not rest on the scheduler: time   *)
(* and what runs on it, and memory. The components of a part do not depend *)
(* on those of the other.                                                  *)
(*                                                                         *)
(* The virtual timers of chvt.c and the detection of the hazard mode that  *)
(* runs on them: first the facts about the delta list, for lists of any    *)
(* length and any times, i.e. when the timers expire before and after a    *)
(* timer is set or reset, a tick passes or the first timer is taken off.   *)
(* Then the timers expire exactly in their tick, for any set of timers,    *)
(* any delays and any range of the system time, and a window of the system *)
(* time is right around its wrap. Then the hazard mode, for every size of  *)
(* the window, every threshold and every timeout: the counter is that of   *)
(* the window, phase, mode and the event sent last agree, the mode has its *)
(* cancel timer, and it is entered only by a second burst of flashes.      *)
(*                                                                         *)
(* The heap (ChHeap) keeps its memory partitioned and its free blocks      *)
(* merged and sorted, for any number of threads, any memory and any        *)
(* requests. The inductive invariant adds where a thread may stand in the  *)
(* list: at a free block in front of the one it releases, alone in the     *)
(* list.                                                                   *)
(*                                                                         *)
(* The configuration (FlashDb): a save that returned 0 is durable, for any *)
(* number of items, values and word size. The inductive invariant says     *)
(* what dbSave() has already verified when it is interrupted by power or   *)
(* an error. Then half words put together, and the checksum, stay words,   *)
(* and the page is always one that a save left that stopped somewhere, so  *)
(* that a start finds a whole save, or the torn page of one that sums up   *)
(* to the checksum of an erased page.                                      *)
(***************************************************************************)
EXTENDS HazardHistory, ChVT, ChHeap, FlashDb, Loops, SequenceTheorems,
        FiniteSetTheorems

----------------------------------------------------------------------------
(* The delta list *)

\* A list of timers of T.
Lists(T) == Seq([vt : T, vt_time : Int])

\* No timer is in the list twice.
Distinct(list) ==
    \A i, j \in 1..Len(list) : list[i].vt = list[j].vt => i = j

\* Every timer expires no earlier than the one in front of it.
InOrder(list) == \A i \in 1..Len(list) : list[i].vt_time >= 0

\* The elements of a list.
LEMMA ListTypes ==
    ASSUME NEW T, NEW list \in Lists(T)
    PROVE  /\ Len(list) \in Nat
           /\ \A i \in 1..Len(list) :
                 list[i] \in [vt : T, vt_time : Int] /\ list[i].vt \in T /\ list[i].vt_time \in Int
           /\ DOMAIN list = 1..Len(list)
<1>1. list \in [1..Len(list) -> [vt : T, vt_time : Int]] /\ Len(list) \in Nat
  <2> DEFINE R == [vt : T, vt_time : Int]
  <2>1. list \in Seq(R) BY DEF Lists
  <2> HIDE DEF R
  <2>2. list \in [1..Len(list) -> R] /\ Len(list) \in Nat BY <2>1
  <2> QED BY <2>2 DEF R
<1>2. \A r \in [vt : T, vt_time : Int] : r.vt \in T /\ r.vt_time \in Int OBVIOUS
<1>3. \A i \in 1..Len(list) : list[i] \in [vt : T, vt_time : Int] BY <1>1
<1> QED BY <1>1, <1>2, <1>3

----------------------------------------------------------------------------
(* Expiry times *)

\* g sums up the times of the list.
Sums(list, g) ==
    /\ g[0] = 0
    /\ \A i \in 1..Len(list) : g[i] = g[i - 1] + list[i].vt_time

\* Expiry() is the sum of the times, and the only one.
LEMMA ExpirySums ==
    ASSUME NEW T, NEW list \in Lists(T)
    PROVE  /\ Expiry(list, 0) = 0
           /\ \A i \in 1..Len(list) :
                 Expiry(list, i) = Expiry(list, i - 1) + list[i].vt_time
           /\ \A i \in 0..Len(list) : Expiry(list, i) \in Int
<1> DEFINE n == Len(list)
           Loop(s) == s = [j \in 0..n |-> IF j = 0 THEN 0 ELSE s[j - 1] + list[j].vt_time]
           sum == CHOOSE s : Loop(s)
           F == [p \in (1..n) \X Int |-> p[2] + list[p[1]].vt_time]
<1>0. 0 \in Int OBVIOUS
<1>1. n \in Nat /\ \A i \in 1..n : list[i].vt_time \in Int BY ListTypes
<1>2. \A i : Expiry(list, i) = sum[i] BY DEF Expiry
<1> HIDE DEF n
<1>3. F \in [(1..n) \X Int -> Int] BY <1>1
<1>4. PICK f \in [0..n -> Int] : IsIteration(f, n, 0, F)
  <2> HIDE DEF F
  <2>1. n \in Nat BY <1>1
  <2> QED BY <2>1, <1>0, <1>3, Iteration
<1>5. Loop(f)
  <2>1. \A i \in 0..n : i # 0 =>
           i \in 1..n /\ f[i - 1] \in Int /\ F[<<i, f[i - 1]>>] = f[i - 1] + list[i].vt_time
    <3> TAKE i \in 0..n
    <3> HAVE i # 0
    <3>1. i \in 1..n /\ i - 1 \in 0..n BY <1>1
    <3>2. f[i - 1] \in Int BY <3>1
    <3>3. <<i, f[i - 1]>> \in (1..n) \X Int BY <3>1, <3>2
    <3> QED BY <3>1, <3>2, <3>3
  <2> HIDE DEF F
  <2> QED BY <1>4, <2>1 DEF IsIteration
<1>6. Loop(sum)
  <2> HIDE DEF Loop
  <2> QED BY <1>5
<1> HIDE DEF sum
<1>7. /\ sum[0] = 0
      /\ \A i \in 1..n : sum[i] = sum[i - 1] + list[i].vt_time
  BY <1>1, <1>6
<1>8. \A i \in 0..n : sum[i] \in Int
  <2> DEFINE Good == {i \in 0..n : sum[i] \in Int}
  <2>1. 0 \in Good BY <1>1, <1>7
  <2>2. ASSUME NEW i \in 1..n, i - 1 \in Good PROVE i \in Good
    <3>1. i \in 0..n /\ i - 1 \in 0..n /\ sum[i - 1] \in Int BY <1>1, <2>2
    <3>2. sum[i] = sum[i - 1] + list[i].vt_time BY <1>7
    <3>3. list[i].vt_time \in Int BY <1>1
    <3> QED BY <3>1, <3>2, <3>3
  <2> HIDE DEF Good
  <2>3. \A i \in 0..n : i \in Good BY <1>1, <2>1, <2>2, TurnInduction
  <2> QED BY <2>3 DEF Good
<1> QED BY <1>2, <1>7, <1>8 DEF n

LEMMA SumsUnique ==
    ASSUME NEW T, NEW list \in Lists(T), NEW g, Sums(list, g)
    PROVE  \A i \in 0..Len(list) : Expiry(list, i) = g[i]
<1> DEFINE Good == {i \in 0..Len(list) : Expiry(list, i) = g[i]}
<1>1. Len(list) \in Nat BY ListTypes
<1>2. 0 \in Good BY <1>1, ExpirySums DEF Sums
<1>3. ASSUME NEW i \in 1..Len(list), i - 1 \in Good PROVE i \in Good
  <2>1. i \in 0..Len(list) BY <1>1
  <2>2. Expiry(list, i) = Expiry(list, i - 1) + list[i].vt_time BY ExpirySums
  <2>3. g[i] = g[i - 1] + list[i].vt_time BY DEF Sums
  <2> QED BY <1>3, <2>1, <2>2, <2>3
<1> HIDE DEF Good
<1>4. \A i \in 0..Len(list) : i \in Good BY <1>1, <1>2, <1>3, TurnInduction
<1> QED BY <1>4 DEF Good

\* In an ordered list the times never decrease.
LEMMA ExpiryGrows ==
    ASSUME NEW T, NEW list \in Lists(T), InOrder(list),
           NEW i \in 0..Len(list), NEW j \in i..Len(list)
    PROVE  Expiry(list, i) <= Expiry(list, j)
<1> DEFINE n == Len(list) - i
           Good == {d \in 0..n : Expiry(list, i) <= Expiry(list, i + d)}
<1>1. Len(list) \in Nat /\ n \in Nat BY ListTypes
<1>2. \A x \in 0..Len(list) : Expiry(list, x) \in Int BY ExpirySums
<1>3. 0 \in Good BY <1>1, <1>2
<1>4. ASSUME NEW d \in 1..n, d - 1 \in Good PROVE d \in Good
  <2>1. i + d \in 1..Len(list) /\ i + (d - 1) \in 0..Len(list) /\ (i + d) - 1 = i + (d - 1)
        /\ i + d \in 0..Len(list)
    BY <1>1
  <2>2. Expiry(list, i + d) = Expiry(list, i + (d - 1)) + list[i + d].vt_time
    BY <2>1, ExpirySums
  <2>3. list[i + d].vt_time >= 0 /\ list[i + d].vt_time \in Int
    BY <2>1, ListTypes DEF InOrder
  <2>4. Expiry(list, i) <= Expiry(list, i + (d - 1)) /\ d \in 0..n BY <1>4
  <2>5. Expiry(list, i) \in Int /\ Expiry(list, i + (d - 1)) \in Int BY <1>2, <2>1
  <2>6. Expiry(list, i) <= Expiry(list, i + d) BY <2>2, <2>3, <2>4, <2>5
  <2> QED BY <2>4, <2>6
<1> HIDE DEF Good, n
<1>5. \A d \in 0..n : d \in Good BY <1>1, <1>3, <1>4, TurnInduction
<1>6. j - i \in 0..n /\ i + (j - i) = j BY <1>1 DEF n
<1> QED BY <1>5, <1>6 DEF Good

----------------------------------------------------------------------------
(* The ticks left for a timer *)

\* The ticks until the timer t expires, -1 when it is not armed.
Left(list, t) == IF Armed(list, t) THEN Expiry(list, Position(list, t)) ELSE -1

\* An armed timer is where Position() says.
LEMMA ArmedAt ==
    ASSUME NEW T, NEW list \in Lists(T), NEW t, Armed(list, t)
    PROVE  Position(list, t) \in 1..Len(list) /\ list[Position(list, t)].vt = t
BY DEF Armed, Position

\* A list without duplicates leaves its i-th timer what Expiry() says.
LEMMA LeftAt ==
    ASSUME NEW T, NEW list \in Lists(T), Distinct(list), NEW i \in 1..Len(list)
    PROVE  /\ Armed(list, list[i].vt)
           /\ Left(list, list[i].vt) = Expiry(list, i)
<1>1. Armed(list, list[i].vt) BY DEF Armed
<1>2. Position(list, list[i].vt) = i BY <1>1, ArmedAt DEF Distinct
<1> QED BY <1>1, <1>2 DEF Left

LEMMA LeftOff ==
    ASSUME NEW list, NEW t, ~Armed(list, t)
    PROVE  Left(list, t) = -1
BY DEF Left

\* The timers of an ordered list have as much time as the first one, at least.
LEMMA LeftBound ==
    ASSUME NEW T, NEW list \in Lists(T), InOrder(list), NEW t, Armed(list, t)
    PROVE  /\ list # <<>> /\ Left(list, t) \in Int
           /\ Left(list, t) >= list[1].vt_time /\ Left(list, t) >= 0
<1> DEFINE p == Position(list, t)
<1>1. p \in 1..Len(list) BY ArmedAt
<1>2. Left(list, t) = Expiry(list, p) BY DEF Left
<1> HIDE DEF p
<1>3. Len(list) \in Nat /\ 1 \in 1..Len(list) /\ p \in 0..Len(list) /\ 1 \in 0..Len(list)
      /\ p \in 1..Len(list) /\ 0 \in 0..Len(list)
  BY <1>1, ListTypes
<1>4. Expiry(list, 1) <= Expiry(list, p) BY <1>3, ExpiryGrows
<1>5. Expiry(list, 1 - 1) = 0 BY ExpirySums
<1>6. Expiry(list, 1) = Expiry(list, 1 - 1) + list[1].vt_time BY <1>3, ExpirySums
<1>7. Expiry(list, p) \in Int /\ list[1].vt_time \in Int /\ list[1].vt_time >= 0
  BY <1>3, ExpirySums, ListTypes DEF InOrder
<1>8. list # <<>> BY <1>3
<1> QED BY <1>2, <1>4, <1>5, <1>6, <1>7, <1>8

----------------------------------------------------------------------------
(* A tick, and the first timer taken off *)

LEMMA ElapseEffect ==
    ASSUME NEW T, NEW list \in Lists(T), Distinct(list), InOrder(list),
           list # <<>> => list[1].vt_time >= 1
    PROVE  /\ Elapse(list) \in Lists(T) /\ Distinct(Elapse(list)) /\ InOrder(Elapse(list))
           /\ (Elapse(list) = <<>>) = (list = <<>>)
           /\ \A t : Armed(Elapse(list), t) = Armed(list, t)
           /\ \A t : Armed(list, t) => Left(Elapse(list), t) = Left(list, t) - 1
<1>1. CASE list = <<>>
  <2>1. Elapse(list) = list BY <1>1 DEF Elapse
  <2>2. \A t : ~Armed(list, t) BY <1>1 DEF Armed
  <2> QED BY <2>1, <2>2
<1>2. CASE list # <<>>
  <2> DEFINE new == [list EXCEPT ![1].vt_time = @ - 1]
             n == Len(list)
             g == [i \in 0..n |-> IF i = 0 THEN 0 ELSE Expiry(list, i) - 1]
  <2>1. Elapse(list) = new BY <1>2 DEF Elapse
  <2>2. n \in Nat /\ n >= 1 /\ 1 \in 1..n
    <3>1. n \in Nat BY ListTypes
    <3>2. n # 0 BY <1>2, EmptySeq DEF Lists
    <3> QED BY <3>1, <3>2
  <2>3. \A i \in 1..n : list[i] \in [vt : T, vt_time : Int]
                        /\ list[i].vt \in T /\ list[i].vt_time \in Int
    BY ListTypes
  <2>4. [list[1] EXCEPT !.vt_time = @ - 1] \in [vt : T, vt_time : Int]
    BY <2>2, <2>3
  <2>5. new \in Lists(T) /\ Len(new) = n /\ \A i \in 1..n :
           /\ new[i].vt = list[i].vt
           /\ new[i].vt_time = IF i = 1 THEN list[1].vt_time - 1 ELSE list[i].vt_time
    <3> DEFINE R == [vt : T, vt_time : Int]
               head == [list[1] EXCEPT !.vt_time = @ - 1]
    <3>1. head \in R BY <2>4
    <3>2. list \in Seq(R) BY DEF Lists
    <3>3. new = [list EXCEPT ![1] = head] BY <2>2
    <3>4. head.vt = list[1].vt /\ head.vt_time = list[1].vt_time - 1 BY <2>2, <2>3
    <3> HIDE DEF R, head
    <3>5. [list EXCEPT ![1] = head] \in Seq(R) /\ Len([list EXCEPT ![1] = head]) = Len(list)
          /\ \A i \in 1..Len(list) : [list EXCEPT ![1] = head][i] = IF i = 1 THEN head ELSE list[i]
      BY <3>1, <3>2, <2>2
    <3> HIDE DEF new
    <3>6. new \in Seq(R) /\ Len(new) = n
          /\ \A i \in 1..n : new[i] = IF i = 1 THEN head ELSE list[i]
      BY <3>5, <3>3
    <3> QED BY <3>6, <3>4 DEF Lists, R
  <2> HIDE DEF new
  <2>6. Distinct(new) BY <2>5 DEF Distinct
  <2>7. InOrder(new)
    <3> SUFFICES ASSUME NEW i \in 1..n PROVE new[i].vt_time >= 0 BY <2>5 DEF InOrder
    <3>1. list[i].vt_time >= 0 BY DEF InOrder
    <3>2. list[1].vt_time >= 1 /\ list[1].vt_time \in Int BY <1>2, <2>2, <2>3
    <3> QED BY <2>5, <3>1, <3>2
  <2>8. Sums(new, g)
    <3>1. g[0] = 0 BY <2>2
    <3>2. ASSUME NEW i \in 1..n PROVE g[i] = g[i - 1] + new[i].vt_time
      <4>1. i \in 0..n /\ i - 1 \in 0..n /\ i # 0 BY <2>2
      <4>2. Expiry(list, i) = Expiry(list, i - 1) + list[i].vt_time BY ExpirySums
      <4>3. Expiry(list, i) \in Int /\ Expiry(list, i - 1) \in Int /\ list[i].vt_time \in Int
        BY <4>1, ExpirySums, ListTypes
      <4>4. CASE i = 1
        <5>1. Expiry(list, i - 1) = 0 BY <4>4, ExpirySums
        <5>2. new[i].vt_time = list[i].vt_time - 1 BY <4>4, <2>5
        <5> QED BY <4>1, <4>2, <4>3, <4>4, <5>1, <5>2
      <4>5. CASE i # 1
        <5>1. new[i].vt_time = list[i].vt_time /\ i - 1 # 0 BY <4>5, <2>5
        <5> QED BY <4>1, <4>2, <4>3, <5>1
      <4> QED BY <4>4, <4>5
    <3> QED BY <3>1, <3>2, <2>5 DEF Sums
  <2>9. \A i \in 1..n : Expiry(new, i) = Expiry(list, i) - 1
    <3> TAKE i \in 1..n
    <3>1. i \in 0..n /\ i # 0 BY <2>2
    <3>2. Expiry(new, i) = g[i] BY <3>1, <2>5, <2>8, SumsUnique
    <3> QED BY <3>1, <3>2
  <2> HIDE DEF g
  <2>10. ASSUME NEW t PROVE /\ Armed(new, t) = Armed(list, t)
                            /\ Armed(list, t) => Left(new, t) = Left(list, t) - 1
    <3>1. Armed(new, t) = Armed(list, t) BY <2>5 DEF Armed
    <3>2. ASSUME Armed(list, t) PROVE Left(new, t) = Left(list, t) - 1
      <4> DEFINE p == Position(list, t)
      <4>1. p \in 1..n /\ list[p].vt = t BY <3>2, ArmedAt
      <4> HIDE DEF p
      <4>2. Left(list, t) = Expiry(list, p) BY <3>2 DEF Left, p
      <4>3. Left(new, t) = Expiry(new, p) BY <4>1, <2>5, <2>6, LeftAt
      <4> QED BY <4>1, <4>2, <4>3, <2>9
    <3> QED BY <3>1, <3>2
  <2>11. new # <<>> BY <2>2, <2>5
  <2> QED BY <1>2, <2>1, <2>5, <2>6, <2>7, <2>10, <2>11
<1> QED BY <1>1, <1>2

LEMMA TailEffect ==
    ASSUME NEW T, NEW list \in Lists(T), Distinct(list), InOrder(list), Due(list)
    PROVE  /\ Tail(list) \in Lists(T) /\ Distinct(Tail(list)) /\ InOrder(Tail(list))
           /\ Head(list).vt \in T /\ Left(list, Head(list).vt) = 0
           /\ \A t : Left(Tail(list), t) = IF t = Head(list).vt THEN -1 ELSE Left(list, t)
<1> DEFINE n == Len(list)
           new == Tail(list)
           h == Head(list).vt
           g == [i \in 0..n - 1 |-> Expiry(list, i + 1)]
<1>1. list # <<>> /\ list[1].vt_time = 0 BY DEF Due
<1>2. n \in Nat /\ n >= 1 /\ 1 \in 1..n
  <2>1. n \in Nat BY ListTypes
  <2>2. n # 0 BY <1>1, EmptySeq DEF Lists
  <2> QED BY <2>1, <2>2
<1>3. new \in Lists(T) /\ Len(new) = n - 1 /\ (\A i \in 1..n - 1 : new[i] = list[i + 1])
      /\ Head(list) = list[1]
  <2> DEFINE R == [vt : T, vt_time : Int]
  <2>1. list \in Seq(R) BY DEF Lists
  <2> HIDE DEF R
  <2>2. Tail(list) \in Seq(R) /\ Len(Tail(list)) = Len(list) - 1
        /\ (\A i \in 1..Len(list) - 1 : Tail(list)[i] = list[i + 1]) /\ Head(list) = list[1]
    BY <2>1, <1>1, HeadTailProperties
  <2> QED BY <2>2 DEF Lists, R
<1>4. h = list[1].vt /\ h \in T BY <1>2, <1>3, ListTypes
<1> HIDE DEF new, h
<1>5. \A i \in 1..n - 1 : i + 1 \in 1..n /\ new[i].vt = list[i + 1].vt
                          /\ new[i].vt_time = list[i + 1].vt_time
  BY <1>2, <1>3
<1>6. Distinct(new)
  <2> SUFFICES ASSUME NEW i \in 1..n - 1, NEW j \in 1..n - 1, new[i].vt = new[j].vt
               PROVE  i = j
    BY <1>3 DEF Distinct
  <2>1. i + 1 = j + 1 BY <1>5 DEF Distinct
  <2> QED BY <2>1
<1>7. InOrder(new) BY <1>3, <1>5 DEF InOrder
<1>8. Expiry(list, 1) = 0
  <2>1. Expiry(list, 1) = Expiry(list, 1 - 1) + list[1].vt_time BY <1>2, ExpirySums
  <2>2. Expiry(list, 1 - 1) = 0 BY ExpirySums
  <2> QED BY <1>1, <2>1, <2>2
<1>9. Sums(new, g)
  <2>1. g[0] = 0 BY <1>2, <1>8
  <2>2. ASSUME NEW i \in 1..n - 1 PROVE g[i] = g[i - 1] + new[i].vt_time
    <3>1. i \in 0..n - 1 /\ i - 1 \in 0..n - 1 /\ i + 1 \in 1..n /\ (i - 1) + 1 = i
          /\ (i + 1) - 1 = i
      BY <1>2
    <3>2. Expiry(list, i + 1) = Expiry(list, (i + 1) - 1) + list[i + 1].vt_time
      BY <3>1, ExpirySums
    <3>3. g[i] = Expiry(list, i + 1) /\ g[i - 1] = Expiry(list, i) BY <3>1
    <3> QED BY <3>1, <3>2, <3>3, <1>5
  <2> QED BY <2>1, <2>2, <1>3 DEF Sums
<1>10. \A i \in 1..n - 1 : Expiry(new, i) = Expiry(list, i + 1)
  <2> TAKE i \in 1..n - 1
  <2>1. i \in 0..n - 1 BY <1>2
  <2>2. Expiry(new, i) = g[i] BY <2>1, <1>3, <1>9, SumsUnique
  <2> QED BY <2>1, <2>2
<1> HIDE DEF g
<1>11. Left(list, h) = 0 BY <1>2, <1>4, <1>8, LeftAt
<1>12. ASSUME NEW t PROVE Left(new, t) = IF t = h THEN -1 ELSE Left(list, t)
  <2>1. CASE t = h
    <3>1. ~Armed(new, t)
      <4> SUFFICES ASSUME NEW i \in 1..n - 1, new[i].vt = h PROVE FALSE
        BY <1>3, <2>1 DEF Armed
      <4>1. i + 1 = 1 BY <1>2, <1>4, <1>5 DEF Distinct
      <4> QED BY <4>1
    <3> QED BY <2>1, <3>1, LeftOff
  <2>2. CASE t # h /\ Armed(list, t)
    <3> DEFINE p == Position(list, t)
    <3>1. p \in 1..n /\ list[p].vt = t BY <2>2, ArmedAt
    <3> HIDE DEF p
    <3>2. p # 1 BY <2>2, <3>1, <1>4
    <3>3. p - 1 \in 1..n - 1 /\ (p - 1) + 1 = p BY <1>2, <3>1, <3>2
    <3>4. new[p - 1].vt = t BY <1>5, <3>1, <3>3
    <3>5. Left(new, t) = Expiry(new, p - 1) BY <3>3, <3>4, <1>3, <1>6, LeftAt
    <3>6. Expiry(new, p - 1) = Expiry(list, p) BY <1>10, <3>3
    <3>7. Left(list, t) = Expiry(list, p) BY <2>2 DEF Left, p
    <3> QED BY <2>2, <3>5, <3>6, <3>7
  <2>3. CASE t # h /\ ~Armed(list, t)
    <3>1. ~Armed(new, t) BY <2>3, <1>3, <1>5 DEF Armed
    <3> QED BY <2>3, <3>1, LeftOff
  <2> QED BY <2>1, <2>2, <2>3
<1> QED BY <1>3, <1>4, <1>6, <1>7, <1>11, <1>12 DEF new, h

----------------------------------------------------------------------------
(* A timer taken out *)

\* A list with mid between its elements up to lo and those behind hi.
Spliced(list, lo, mid, hi) ==
    SubSeq(list, 1, lo) \o mid \o SubSeq(list, hi + 1, Len(list))

Behind(list, hi) == IF hi <= Len(list) THEN Len(list) - hi ELSE 0

\* Its elements.
IsSplice(new, list, lo, mid, hi) ==
    /\ Len(new) = lo + Len(mid) + Behind(list, hi)
    /\ \A j \in 1..lo + Len(mid) + Behind(list, hi) :
          new[j] = IF j <= lo THEN list[j]
                   ELSE IF j <= lo + Len(mid) THEN mid[j - lo]
                   ELSE list[j - lo - Len(mid) + hi]

LEMMA Splice ==
    ASSUME NEW R, NEW list \in Seq(R), NEW mid \in Seq(R),
           NEW lo \in 0..Len(list), NEW hi \in Int, lo <= hi
    PROVE  /\ Spliced(list, lo, mid, hi) \in Seq(R)
           /\ IsSplice(Spliced(list, lo, mid, hi), list, lo, mid, hi)
<1> DEFINE n == Len(list)
           m == Len(mid)
           rest == Behind(list, hi)
           new == Spliced(list, lo, mid, hi)
           a == SubSeq(list, 1, lo)
           c == SubSeq(list, hi + 1, n)
<1>1. n \in Nat /\ m \in Nat /\ lo \in Nat /\ rest \in Nat
      /\ \A j \in 1..n : list[j] \in R
  BY LenProperties, ElementOfSeq DEF Behind
<1>2. a \in Seq(R) /\ Len(a) = lo /\ \A j \in 1..lo : a[j] = list[j]
  <2>1. \A j \in 1..lo : list[j] \in R BY <1>1
  <2>2. a \in Seq(R) /\ Len(a) = (IF 1 <= lo THEN lo - 1 + 1 ELSE 0)
        /\ \A j \in 1..lo - 1 + 1 : a[j] = list[1 + j - 1]
    BY <1>1, <2>1, SubSeqProperties
  <2> HIDE DEF a
  <2> QED BY <1>1, <2>2
<1>3. c \in Seq(R) /\ Len(c) = rest /\ \A j \in 1..rest : c[j] = list[hi + j]
  <2>1. \A j \in hi + 1..n : list[j] \in R BY <1>1
  <2>2. c \in Seq(R) /\ Len(c) = (IF hi + 1 <= n THEN n - (hi + 1) + 1 ELSE 0)
        /\ \A j \in 1..n - (hi + 1) + 1 : c[j] = list[(hi + 1) + j - 1]
    BY <1>1, <2>1, SubSeqProperties
  <2> HIDE DEF c
  <2>3. \A j : (hi + 1) + j - 1 = hi + j \/ j \notin Int OBVIOUS
  <2>4. Len(c) = rest
    <3>1. Len(c) = IF hi + 1 <= n THEN n - (hi + 1) + 1 ELSE 0 BY <2>2
    <3>2. CASE hi + 1 <= n
      <4>1. Len(c) = n - hi /\ hi <= n BY <1>1, <3>1, <3>2
      <4> QED BY <4>1 DEF Behind
    <3>3. CASE hi = n
      <4>1. Len(c) = 0 /\ n - hi = 0 /\ hi <= n BY <1>1, <3>1, <3>3
      <4> QED BY <4>1 DEF Behind
    <3>4. CASE n < hi
      <4>1. Len(c) = 0 /\ ~(hi <= n) BY <1>1, <3>1, <3>4
      <4> QED BY <4>1 DEF Behind
    <3> QED BY <1>1, <3>2, <3>3, <3>4
  <2>5. ASSUME NEW j \in 1..rest PROVE c[j] = list[hi + j]
    <3>1. j \in 1..n - (hi + 1) + 1 /\ (hi + 1) + j - 1 = hi + j BY <1>1, <2>5 DEF Behind
    <3> QED BY <2>2, <3>1
  <2> QED BY <2>2, <2>4, <2>5
<1> DEFINE ab == a \o mid
<1>4. ab \in Seq(R) /\ Len(ab) = lo + m
      /\ \A j \in 1..lo + m : ab[j] = IF j <= lo THEN a[j] ELSE mid[j - lo]
  <2> HIDE DEF a
  <2> QED BY <1>1, <1>2, ConcatProperties
<1>5. new = ab \o c BY DEF Spliced
<1> HIDE DEF a, c, n, m, rest, ab, new
<1>6. new \in Seq(R) /\ Len(new) = lo + m + rest
      /\ \A j \in 1..lo + m + rest :
            new[j] = IF j <= lo + m THEN ab[j] ELSE c[j - (lo + m)]
  <2>1. ab \o c \in Seq(R) /\ Len(ab \o c) = Len(ab) + Len(c)
        /\ \A j \in 1..Len(ab) + Len(c) :
              (ab \o c)[j] = IF j <= Len(ab) THEN ab[j] ELSE c[j - Len(ab)]
    BY <1>3, <1>4, ConcatProperties
  <2> QED BY <1>3, <1>4, <1>5, <2>1
<1>7. ASSUME NEW j \in 1..lo + m + rest
      PROVE  new[j] = IF j <= lo THEN list[j]
                      ELSE IF j <= lo + m THEN mid[j - lo] ELSE list[j - lo - m + hi]
  <2>1. CASE j <= lo
    <3>1. j \in 1..lo /\ j \in 1..lo + m BY <1>1, <2>1
    <3>2. new[j] = ab[j] BY <1>1, <1>6, <3>1
    <3>3. ab[j] = a[j] BY <1>4, <2>1, <3>1
    <3> QED BY <1>2, <2>1, <3>1, <3>2, <3>3
  <2>2. CASE lo < j /\ j <= lo + m
    <3>1. j \in 1..lo + m /\ ~(j <= lo) BY <1>1, <2>2
    <3>2. new[j] = ab[j] BY <1>6, <2>2
    <3> QED BY <1>4, <2>2, <3>1, <3>2
  <2>3. CASE lo + m < j
    <3>1. j - (lo + m) \in 1..rest /\ ~(j <= lo) /\ ~(j <= lo + m)
          /\ hi + (j - (lo + m)) = j - lo - m + hi
      BY <1>1, <2>3
    <3>2. new[j] = c[j - (lo + m)] BY <1>6, <3>1
    <3>3. c[j - (lo + m)] = list[hi + (j - (lo + m))] BY <1>3, <3>1
    <3> QED BY <3>1, <3>2, <3>3
  <2> QED BY <1>1, <2>1, <2>2, <2>3
<1> QED BY <1>6, <1>7 DEF m, rest, new, IsSplice

\* The timer behind the i-th one takes over its time.
ResetAt(list, new, i) ==
    /\ Len(new) = Len(list) - 1
    /\ \A j \in 1..Len(list) - 1 :
          /\ new[j].vt = list[IF j < i THEN j ELSE j + 1].vt
          /\ new[j].vt_time = IF j < i THEN list[j].vt_time
                              ELSE IF j = i THEN list[i + 1].vt_time + list[i].vt_time
                              ELSE list[j + 1].vt_time

LEMMA ResetShape ==
    ASSUME NEW T, NEW list \in Lists(T), NEW t, Armed(list, t)
    PROVE  /\ chVTResetI(list, t) \in Lists(T)
           /\ ResetAt(list, chVTResetI(list, t), Position(list, t))
<1> DEFINE n == Len(list)
           i == Position(list, t)
           moved == [list[i + 1] EXCEPT !.vt_time = @ + list[i].vt_time]
           mid == IF i = n THEN <<>> ELSE <<moved>>
           new == chVTResetI(list, t)
           R == [vt : T, vt_time : Int]
<1>1. n \in Nat /\ i \in 1..n BY ListTypes, ArmedAt
<1>2. list \in Seq(R) BY DEF Lists
<1>3. \A j \in 1..n : list[j] \in R /\ list[j].vt_time \in Int BY ListTypes
<1>4. new = SubSeq(list, 1, i - 1) \o mid \o SubSeq(list, (i + 1) + 1, n)
  <2>1. (i + 1) + 1 = i + 2 BY <1>1
  <2> QED BY <2>1 DEF chVTResetI
<1> HIDE DEF i, new
<1>5. i # n => /\ moved \in R /\ moved.vt = list[i + 1].vt
               /\ moved.vt_time = list[i + 1].vt_time + list[i].vt_time
  <2> SUFFICES ASSUME i # n
               PROVE  /\ moved \in R /\ moved.vt = list[i + 1].vt
                      /\ moved.vt_time = list[i + 1].vt_time + list[i].vt_time
    OBVIOUS
  <2>1. i + 1 \in 1..n BY <1>1
  <2> QED BY <1>1, <1>3, <2>1
<1> HIDE DEF R, moved
<1>6. mid \in Seq(R) /\ Len(mid) = (IF i = n THEN 0 ELSE 1) /\ (i # n => mid[1] = moved)
  BY <1>5
<1> HIDE DEF mid
<1>7. /\ new \in Seq(R) /\ Len(new) = n - 1
      /\ \A j \in 1..n - 1 :
            new[j] = IF j <= i - 1 THEN list[j]
                     ELSE IF j <= i - 1 + Len(mid) THEN mid[j - (i - 1)]
                     ELSE list[j - (i - 1) - Len(mid) + (i + 1)]
  <2> DEFINE lo == i - 1
             hi == i + 1
  <2>1. lo \in 0..Len(list) /\ hi \in Int /\ lo <= hi BY <1>1
  <2>2. new = Spliced(list, lo, mid, hi) BY <1>4 DEF Spliced
  <2>3. lo + Len(mid) + Behind(list, hi) = n - 1
    <3>1. CASE i = n
      <4>1. Len(mid) = 0 /\ ~(hi <= n) BY <1>1, <1>6, <3>1
      <4>2. Behind(list, hi) = 0 BY <4>1 DEF Behind
      <4> QED BY <1>1, <3>1, <4>1, <4>2
    <3>2. CASE i # n
      <4>1. Len(mid) = 1 /\ hi <= n BY <1>1, <1>6, <3>2
      <4>2. Behind(list, hi) = n - hi BY <4>1 DEF Behind
      <4> QED BY <1>1, <4>1, <4>2
    <3> QED BY <3>1, <3>2
  <2> HIDE DEF lo, hi, n
  <2>4. mid \in Seq(R) BY <1>6
  <2>5. new \in Seq(R) /\ IsSplice(new, list, lo, mid, hi) BY <1>2, <2>1, <2>2, <2>4, Splice
  <2> QED BY <2>3, <2>5 DEF lo, hi, IsSplice
<1>8. ASSUME NEW j \in 1..n - 1
      PROVE  /\ new[j].vt = list[IF j < i THEN j ELSE j + 1].vt
             /\ new[j].vt_time = IF j < i THEN list[j].vt_time
                                 ELSE IF j = i THEN list[i + 1].vt_time + list[i].vt_time
                                 ELSE list[j + 1].vt_time
  <2>1. CASE j < i BY <1>1, <1>7, <2>1
  <2>2. CASE j = i
    <3>1. i # n /\ ~(j <= i - 1) /\ j - (i - 1) = 1 BY <1>1, <2>2
    <3>2. j <= i - 1 + Len(mid) BY <1>1, <1>6, <2>2, <3>1
    <3>3. new[j] = moved BY <1>6, <1>7, <3>1, <3>2
    <3> QED BY <1>5, <2>2, <3>1, <3>3
  <2>3. CASE i < j
    <3>1. i # n /\ ~(j <= i - 1) /\ ~(j < i) /\ j # i BY <1>1, <2>3
    <3>2. Len(mid) = 1 BY <1>6, <3>1
    <3>3. ~(j <= i - 1 + Len(mid)) /\ j - (i - 1) - Len(mid) + (i + 1) = j + 1
      BY <1>1, <2>3, <3>2
    <3>4. new[j] = list[j + 1] BY <1>7, <3>1, <3>3
    <3> QED BY <3>1, <3>4
  <2> QED BY <1>1, <2>1, <2>2, <2>3
<1> QED BY <1>7, <1>8 DEF Lists, R, ResetAt, new, i

\* A timer that is reset is off, the others expire when they did.
LEMMA ResetEffect ==
    ASSUME NEW T, NEW list \in Lists(T), Distinct(list), InOrder(list),
           NEW t, Armed(list, t)
    PROVE  /\ chVTResetI(list, t) \in Lists(T)
           /\ Distinct(chVTResetI(list, t)) /\ InOrder(chVTResetI(list, t))
           /\ list[1].vt_time >= 1 =>
                 chVTResetI(list, t) = <<>> \/ chVTResetI(list, t)[1].vt_time >= 1
           /\ \A u : Left(chVTResetI(list, t), u) = IF u = t THEN -1 ELSE Left(list, u)
<1> DEFINE n == Len(list)
           i == Position(list, t)
           new == chVTResetI(list, t)
           g == [j \in 0..n - 1 |-> IF j < i THEN Expiry(list, j) ELSE Expiry(list, j + 1)]
<1>1. n \in Nat /\ i \in 1..n /\ list[i].vt = t BY ListTypes, ArmedAt
<1>2. \A j \in 1..n : list[j].vt_time \in Int /\ list[j].vt_time >= 0
  BY ListTypes DEF InOrder
<1>3. new \in Lists(T) /\ ResetAt(list, new, i) BY ResetShape
<1> HIDE DEF i, new
<1>4. Len(new) = n - 1 /\ \A j \in 1..n - 1 :
         /\ new[j].vt = list[IF j < i THEN j ELSE j + 1].vt
         /\ new[j].vt_time = IF j < i THEN list[j].vt_time
                             ELSE IF j = i THEN list[i + 1].vt_time + list[i].vt_time
                             ELSE list[j + 1].vt_time
  BY <1>3 DEF ResetAt
<1>5. \A j \in 1..n - 1 : (IF j < i THEN j ELSE j + 1) \in 1..n BY <1>1
<1>6. Distinct(new)
  <2> SUFFICES ASSUME NEW j \in 1..n - 1, NEW h \in 1..n - 1, new[j].vt = new[h].vt
               PROVE  j = h
    BY <1>4 DEF Distinct
  <2>1. (IF j < i THEN j ELSE j + 1) = (IF h < i THEN h ELSE h + 1)
    BY <1>4, <1>5 DEF Distinct
  <2> QED BY <1>1, <2>1
<1>7. ASSUME NEW j \in 1..n - 1 PROVE new[j].vt_time >= 0
  <2>1. j \in 1..n /\ j + 1 \in 1..n /\ i \in 1..n BY <1>1
  <2>2. list[j].vt_time >= 0 /\ list[j + 1].vt_time >= 0 /\ list[i].vt_time >= 0
        /\ list[j + 1].vt_time \in Int /\ list[i].vt_time \in Int
    BY <1>2, <2>1
  <2>3. CASE j < i BY <1>4, <2>2, <2>3
  <2>4. CASE j = i
    <3>1. new[j].vt_time = list[j + 1].vt_time + list[i].vt_time BY <1>1, <1>4, <2>4
    <3> QED BY <2>2, <3>1
  <2>5. CASE i < j
    <3>1. new[j].vt_time = list[j + 1].vt_time BY <1>1, <1>4, <2>5
    <3> QED BY <2>2, <3>1
  <2> QED BY <1>1, <2>3, <2>4, <2>5
<1>8. InOrder(new) BY <1>4, <1>7 DEF InOrder
<1>9. ASSUME list[1].vt_time >= 1 PROVE new = <<>> \/ new[1].vt_time >= 1
  <2>1. CASE n - 1 = 0 BY <1>3, <1>4, <2>1, EmptySeq DEF Lists
  <2>2. CASE n - 1 # 0
    <3>0. n - 1 >= 1 /\ n >= 2
      <4>1. n >= i /\ i >= 1 BY <1>1
      <4> HIDE DEF n
      <4> QED BY <1>1, <2>2, <4>1
    <3>1. 1 \in 1..n - 1 /\ 1 \in 1..n /\ 2 \in 1..n BY <1>1, <3>0
    <3>2. CASE 1 < i BY <1>4, <1>9, <3>1, <3>2
    <3>3. CASE i = 1
      <4>1. new[1].vt_time = list[1 + 1].vt_time + list[1].vt_time BY <1>4, <3>1, <3>3
      <4> QED BY <1>2, <1>9, <3>1, <4>1
    <3> QED BY <1>1, <3>2, <3>3
  <2> QED BY <2>1, <2>2
<1>10. \A j \in 0..n : Expiry(list, j) \in Int BY ExpirySums
<1>11. \A j \in 1..n : Expiry(list, j) = Expiry(list, j - 1) + list[j].vt_time BY ExpirySums
<1>12. Sums(new, g)
  <2>1. g[0] = 0
    <3>1. 0 \in 0..n - 1 /\ 0 < i BY <1>1
    <3> QED BY <3>1, ExpirySums
  <2>2. ASSUME NEW j \in 1..n - 1 PROVE g[j] = g[j - 1] + new[j].vt_time
    <3>1. j \in 0..n - 1 /\ j - 1 \in 0..n - 1 /\ j \in 1..n /\ j + 1 \in 1..n
          /\ (j + 1) - 1 = j /\ (j - 1) + 1 = j /\ j \in 0..n /\ j - 1 \in 0..n /\ j + 1 \in 0..n
      BY <1>1
    <3>2. Expiry(list, j) = Expiry(list, j - 1) + list[j].vt_time
          /\ Expiry(list, j + 1) = Expiry(list, j) + list[j + 1].vt_time
      BY <1>11, <3>1
    <3>3. Expiry(list, j - 1) \in Int /\ Expiry(list, j) \in Int /\ Expiry(list, j + 1) \in Int
          /\ list[j].vt_time \in Int /\ list[j + 1].vt_time \in Int
      BY <1>2, <1>10, <3>1
    <3>4. CASE j < i
      <4>1. g[j] = Expiry(list, j) /\ g[j - 1] = Expiry(list, j - 1) BY <1>1, <3>1, <3>4
      <4>2. new[j].vt_time = list[j].vt_time BY <1>4, <3>4
      <4> QED BY <3>2, <4>1, <4>2
    <3>5. CASE j = i
      <4>1. g[j] = Expiry(list, j + 1) /\ g[j - 1] = Expiry(list, j - 1) BY <1>1, <3>1, <3>5
      <4>2. new[j].vt_time = list[j + 1].vt_time + list[j].vt_time BY <1>1, <1>4, <3>5
      <4> QED BY <3>2, <3>3, <4>1, <4>2
    <3>6. CASE i < j
      <4>1. g[j] = Expiry(list, j + 1) /\ g[j - 1] = Expiry(list, j) BY <1>1, <3>1, <3>6
      <4>2. new[j].vt_time = list[j + 1].vt_time BY <1>1, <1>4, <3>6
      <4> QED BY <3>2, <4>1, <4>2
    <3> QED BY <1>1, <3>4, <3>5, <3>6
  <2> QED BY <2>1, <2>2, <1>4 DEF Sums
<1>13. ASSUME NEW j \in 1..n - 1 PROVE Expiry(new, j) = Expiry(list, IF j < i THEN j ELSE j + 1)
  <2>1. j \in 0..n - 1 BY <1>1
  <2>2. Expiry(new, j) = g[j] BY <2>1, <1>3, <1>4, <1>12, SumsUnique
  <2> QED BY <2>1, <2>2
<1> HIDE DEF g
<1>14. ASSUME NEW u PROVE Left(new, u) = IF u = t THEN -1 ELSE Left(list, u)
  <2>1. CASE u = t
    <3>1. ~Armed(new, t)
      <4> SUFFICES ASSUME NEW j \in 1..n - 1, new[j].vt = t PROVE FALSE
        BY <1>4 DEF Armed
      <4>1. (IF j < i THEN j ELSE j + 1) = i BY <1>1, <1>4, <1>5 DEF Distinct
      <4> QED BY <1>1, <4>1
    <3> QED BY <2>1, <3>1, LeftOff
  <2>2. CASE u # t /\ Armed(list, u)
    <3> DEFINE p == Position(list, u)
               q == IF p < i THEN p ELSE p - 1
    <3>1. p \in 1..n /\ list[p].vt = u BY <2>2, ArmedAt
    <3>2. Left(list, u) = Expiry(list, p) BY <2>2 DEF Left
    <3> HIDE DEF p
    <3>3. p # i BY <1>1, <2>2, <3>1
    <3>4. q \in 1..n - 1 /\ (IF q < i THEN q ELSE q + 1) = p BY <1>1, <3>1, <3>3
    <3> HIDE DEF q
    <3>5. new[q].vt = u BY <1>4, <3>1, <3>4
    <3>6. Left(new, u) = Expiry(new, q) BY <3>4, <3>5, <1>3, <1>4, <1>6, LeftAt
    <3>7. Expiry(new, q) = Expiry(list, p) BY <1>13, <3>4
    <3> QED BY <2>2, <3>2, <3>6, <3>7
  <2>3. CASE u # t /\ ~Armed(list, u)
    <3>1. ~Armed(new, u) BY <2>3, <1>4, <1>5 DEF Armed
    <3> QED BY <2>3, <3>1, LeftOff
  <2> QED BY <2>1, <2>2, <2>3
<1> QED BY <1>3, <1>6, <1>8, <1>9, <1>14 DEF new

----------------------------------------------------------------------------
(* A timer put in *)

\* The place for a timer that expires after so many ticks.
SetPlace(list, time, i) ==
    /\ i \in 1..Len(list) + 1
    /\ i <= Len(list) => Expiry(list, i) >= time
    /\ \A j \in 1..i - 1 : Expiry(list, j) < time

LEMMA SetPlaceExists ==
    ASSUME NEW T, NEW list \in Lists(T), NEW time \in Int
    PROVE  \E i \in 1..Len(list) + 1 : SetPlace(list, time, i)
<1> DEFINE n == Len(list)
           S == {i \in 1..n + 1 : i <= n => Expiry(list, i) >= time}
<1>1. n \in Nat BY ListTypes
<1>2. n + 1 \in S BY <1>1
<1>3. S \subseteq Nat /\ S # {} BY <1>1, <1>2
<1> HIDE DEF S
<1>4. PICK i \in S : \A y \in S : i <= y BY <1>3, LeastNat
<1>5. i \in 1..n + 1 /\ (i <= n => Expiry(list, i) >= time) BY <1>4 DEF S
<1>6. ASSUME NEW j \in 1..i - 1 PROVE Expiry(list, j) < time
  <2>1. j \in 1..n /\ j \in 1..n + 1 /\ j \in 0..n /\ ~(i <= j) BY <1>1, <1>5
  <2>2. j \notin S BY <1>4, <2>1
  <2>3. ~(Expiry(list, j) >= time) BY <2>1, <2>2 DEF S
  <2>4. Expiry(list, j) \in Int BY <2>1, ExpirySums
  <2> QED BY <2>3, <2>4
<1> QED BY <1>5, <1>6 DEF SetPlace

SetAt(list, new, t, delta, i) ==
    /\ Len(new) = Len(list) + 1
    /\ \A j \in 1..Len(list) + 1 :
          /\ new[j].vt = IF j = i THEN t ELSE list[IF j < i THEN j ELSE j - 1].vt
          /\ new[j].vt_time = IF j < i THEN list[j].vt_time
                              ELSE IF j = i THEN delta
                              ELSE IF j = i + 1 THEN list[i].vt_time - delta
                              ELSE list[j - 1].vt_time

LEMMA SetShape ==
    ASSUME NEW T, NEW list \in Lists(T), NEW t \in T, NEW time \in Int
    PROVE  /\ chVTSetI(list, t, time) \in Lists(T)
           /\ \E i \in 1..Len(list) + 1 :
                 /\ SetPlace(list, time, i)
                 /\ SetAt(list, chVTSetI(list, t, time), t, time - Expiry(list, i - 1), i)
<1> DEFINE n == Len(list)
           i == CHOOSE p \in 1..n + 1 : SetPlace(list, time, p)
           delta == time - Expiry(list, i - 1)
           put == [vt |-> t, vt_time |-> delta]
           later == [list[i] EXCEPT !.vt_time = @ - delta]
           next == IF i > n THEN <<>> ELSE <<later>>
           mid == <<put>> \o next
           new == chVTSetI(list, t, time)
           R == [vt : T, vt_time : Int]
<1>1. n \in Nat /\ i \in 1..n + 1 /\ SetPlace(list, time, i)
  BY ListTypes, SetPlaceExists
<1>2. list \in Seq(R) BY DEF Lists
<1>3. \A j \in 1..n : list[j] \in R /\ list[j].vt_time \in Int BY ListTypes
<1>4. new = ((SubSeq(list, 1, i - 1) \o <<put>>) \o next) \o SubSeq(list, i + 1, n)
  <2>1. i = CHOOSE p \in 1..n + 1 :
               /\ p <= n => Expiry(list, p) >= time
               /\ \A j \in 1..p - 1 : Expiry(list, j) < time
    BY DEF SetPlace
  <2> HIDE DEF i
  <2> QED BY <2>1 DEF chVTSetI
<1> HIDE DEF i, new
<1>5. i - 1 \in 0..n BY <1>1
<1>6. delta \in Int BY <1>5, ExpirySums
<1> HIDE DEF delta
<1>7. put \in R /\ put.vt = t /\ put.vt_time = delta BY <1>6
<1>8. i <= n => later \in R /\ later.vt = list[i].vt /\ later.vt_time = list[i].vt_time - delta
  <2> SUFFICES ASSUME i <= n
               PROVE later \in R /\ later.vt = list[i].vt /\ later.vt_time = list[i].vt_time - delta
    OBVIOUS
  <2>1. i \in 1..n BY <1>1
  <2> QED BY <1>3, <1>6, <2>1
<1> HIDE DEF put, later, R
<1>9. next \in Seq(R) /\ Len(next) = (IF i > n THEN 0 ELSE 1) /\ (i <= n => next[1] = later)
  BY <1>1, <1>8
<1>10. <<put>> \in Seq(R) /\ Len(<<put>>) = 1 /\ <<put>>[1] = put BY <1>7
<1> HIDE DEF next
<1>11. mid \in Seq(R) /\ Len(mid) = (IF i > n THEN 1 ELSE 2) /\ mid[1] = put
       /\ (i <= n => mid[2] = later)
  <2>1. mid \in Seq(R) /\ Len(mid) = 1 + Len(next)
        /\ \A j \in 1..1 + Len(next) : mid[j] = IF j <= 1 THEN <<put>>[j] ELSE next[j - 1]
    <3> DEFINE one == <<put>>
    <3>1. one \in Seq(R) /\ Len(one) = 1 BY <1>10
    <3> HIDE DEF one
    <3>2. one \o next \in Seq(R) /\ Len(one \o next) = 1 + Len(next)
          /\ \A j \in 1..1 + Len(next) :
                (one \o next)[j] = IF j <= 1 THEN one[j] ELSE next[j - 1]
      BY <1>9, <3>1, ConcatProperties
    <3> QED BY <3>2 DEF one
  <2> HIDE DEF mid
  <2>2. Len(next) \in {0, 1} BY <1>9
  <2>3. mid[1] = put BY <2>1, <2>2, <1>10
  <2>4. i <= n => mid[2] = later
    <3>1. ASSUME i <= n PROVE Len(next) = 1 BY <1>1, <1>9, <3>1
    <3> QED BY <2>1, <3>1, <1>9
  <2> QED BY <1>9, <2>1, <2>3, <2>4
<1>12. new = Spliced(list, i - 1, mid, i)
  <2> DEFINE a == SubSeq(list, 1, i - 1)
             one == <<put>>
  <2>1. a \in Seq(R)
    <3>1. \A j \in 1..i - 1 : list[j] \in R BY <1>1, <1>3
    <3> QED BY <1>1, <3>1, SubSeqProperties
  <2>2. one \in Seq(R) BY <1>10
  <2> HIDE DEF a, one
  <2>3. (a \o one) \o next = a \o (one \o next) BY <1>9, <2>1, <2>2, ConcatAssociative
  <2> QED BY <1>4, <2>3 DEF a, one, Spliced
<1> HIDE DEF mid
<1>13. new \in Seq(R) /\ IsSplice(new, list, i - 1, mid, i)
  <2>1. i \in Int /\ i - 1 <= i /\ i - 1 \in 0..Len(list) BY <1>1
  <2> QED BY <1>2, <1>11, <1>12, <2>1, Splice
<1>14. (i - 1) + Len(mid) + Behind(list, i) = n + 1
  <2>1. CASE i = n + 1
    <3>1. Len(mid) = 1 /\ ~(i <= n) BY <1>1, <1>11, <2>1
    <3>2. Behind(list, i) = 0 BY <3>1 DEF Behind
    <3> QED BY <1>1, <2>1, <3>1, <3>2
  <2>2. CASE i <= n
    <3>1. Len(mid) = 2 BY <1>1, <1>11, <2>2
    <3>2. Behind(list, i) = n - i BY <2>2 DEF Behind
    <3> QED BY <1>1, <3>1, <3>2
  <2> QED BY <1>1, <2>1, <2>2
<1>15. Len(new) = n + 1 /\ \A j \in 1..n + 1 :
          new[j] = IF j <= i - 1 THEN list[j]
                   ELSE IF j <= i - 1 + Len(mid) THEN mid[j - (i - 1)]
                   ELSE list[j - (i - 1) - Len(mid) + i]
  BY <1>13, <1>14 DEF IsSplice
<1>16. ASSUME NEW j \in 1..n + 1
       PROVE  /\ new[j].vt = IF j = i THEN t ELSE list[IF j < i THEN j ELSE j - 1].vt
              /\ new[j].vt_time = IF j < i THEN list[j].vt_time
                                  ELSE IF j = i THEN delta
                                  ELSE IF j = i + 1 THEN list[i].vt_time - delta
                                  ELSE list[j - 1].vt_time
  <2>1. CASE j < i
    <3>1. new[j] = list[j] BY <1>1, <1>15, <2>1
    <3> QED BY <1>1, <2>1, <3>1
  <2>2. CASE j = i
    <3>1. ~(j <= i - 1) /\ j - (i - 1) = 1 /\ ~(j < i) BY <1>1, <2>2
    <3>2. j <= i - 1 + Len(mid) BY <1>1, <1>11, <2>2
    <3>3. new[j] = put BY <1>11, <1>15, <3>1, <3>2
    <3> QED BY <1>7, <2>2, <3>1, <3>3
  <2>3. CASE j = i + 1
    <3>1. i <= n /\ ~(j <= i - 1) /\ j - (i - 1) = 2 /\ ~(j < i) /\ j # i /\ j - 1 = i
      BY <1>1, <2>3
    <3>2. j <= i - 1 + Len(mid) BY <1>1, <1>11, <2>3, <3>1
    <3>3. new[j] = later BY <1>11, <1>15, <3>1, <3>2
    <3> QED BY <1>8, <2>3, <3>1, <3>3
  <2>4. CASE i + 1 < j
    <3>1. i <= n /\ ~(j <= i - 1) /\ ~(j < i) /\ j # i /\ j # i + 1 BY <1>1, <2>4
    <3>2. Len(mid) = 2 BY <1>1, <1>11, <3>1
    <3>3. ~(j <= i - 1 + Len(mid)) /\ j - (i - 1) - Len(mid) + i = j - 1
      BY <1>1, <2>4, <3>2
    <3>4. new[j] = list[j - 1] BY <1>15, <3>1, <3>3
    <3> QED BY <3>1, <3>4
  <2> QED BY <1>1, <2>1, <2>2, <2>3, <2>4
<1>17. SetAt(list, new, t, delta, i) BY <1>15, <1>16 DEF SetAt
<1>18. new \in Lists(T) BY <1>13 DEF Lists, R
<1> QED BY <1>1, <1>17, <1>18 DEF new, delta

\* A timer that is set expires after its time, the others when they did.
LEMMA SetEffect ==
    ASSUME NEW T, NEW list \in Lists(T), Distinct(list), InOrder(list),
           NEW t \in T, ~Armed(list, t), NEW time \in Int, time >= 1
    PROVE  /\ chVTSetI(list, t, time) \in Lists(T)
           /\ Distinct(chVTSetI(list, t, time)) /\ InOrder(chVTSetI(list, t, time))
           /\ (list # <<>> => list[1].vt_time >= 1) => chVTSetI(list, t, time)[1].vt_time >= 1
           /\ \A u : Left(chVTSetI(list, t, time), u) = IF u = t THEN time ELSE Left(list, u)
<1> DEFINE n == Len(list)
           new == chVTSetI(list, t, time)
<1>1. n \in Nat BY ListTypes
<1>2. \A j \in 1..n : list[j].vt_time \in Int /\ list[j].vt_time >= 0
  BY ListTypes DEF InOrder
<1>3. PICK i \in 1..n + 1 :
         SetPlace(list, time, i) /\ SetAt(list, new, t, time - Expiry(list, i - 1), i)
  BY SetShape
<1>4. new \in Lists(T) BY SetShape
<1> DEFINE delta == time - Expiry(list, i - 1)
           g == [j \in 0..n + 1 |-> IF j < i THEN Expiry(list, j)
                                    ELSE IF j = i THEN time ELSE Expiry(list, j - 1)]
<1> HIDE DEF new
<1>5. \A j \in 0..n : Expiry(list, j) \in Int BY ExpirySums
<1>6. \A j \in 1..n : Expiry(list, j) = Expiry(list, j - 1) + list[j].vt_time BY ExpirySums
<1>7. i - 1 \in 0..n /\ Expiry(list, i - 1) \in Int BY <1>1, <1>5
<1>8. delta \in Int /\ delta >= 1
  <2>1. CASE i = 1
    <3>1. Expiry(list, i - 1) = 0 BY <2>1, ExpirySums
    <3> QED BY <3>1
  <2>2. CASE i # 1
    <3>1. i - 1 \in 1..i - 1 BY <1>1, <2>2
    <3>2. Expiry(list, i - 1) < time BY <1>3, <3>1 DEF SetPlace
    <3> QED BY <1>7, <3>2
  <2> QED BY <2>1, <2>2
<1>9. i <= n => /\ i \in 1..n
                /\ list[i].vt_time - delta = Expiry(list, i) - time
                /\ Expiry(list, i) >= time
  <2> SUFFICES ASSUME i <= n
               PROVE  /\ i \in 1..n
                      /\ list[i].vt_time - delta = Expiry(list, i) - time
                      /\ Expiry(list, i) >= time
    OBVIOUS
  <2>1. i \in 1..n BY <1>1
  <2>2. Expiry(list, i) = Expiry(list, i - 1) + list[i].vt_time BY <1>6, <2>1
  <2>3. Expiry(list, i) >= time BY <1>3 DEF SetPlace
  <2> QED BY <1>2, <1>7, <2>1, <2>2, <2>3
<1>10. Len(new) = n + 1 /\ \A j \in 1..n + 1 :
          /\ new[j].vt = IF j = i THEN t ELSE list[IF j < i THEN j ELSE j - 1].vt
          /\ new[j].vt_time = IF j < i THEN list[j].vt_time
                              ELSE IF j = i THEN delta
                              ELSE IF j = i + 1 THEN list[i].vt_time - delta
                              ELSE list[j - 1].vt_time
  BY <1>3 DEF SetAt
<1> HIDE DEF delta
<1>11. \A j \in 1..n + 1 : j # i => (IF j < i THEN j ELSE j - 1) \in 1..n BY <1>1
<1>12. \A j \in 1..n : list[j].vt # t BY DEF Armed
<1>13. Distinct(new)
  <2> SUFFICES ASSUME NEW j \in 1..n + 1, NEW h \in 1..n + 1, new[j].vt = new[h].vt
               PROVE  j = h
    BY <1>10 DEF Distinct
  <2>1. CASE j = i /\ h = i BY <2>1
  <2>2. CASE j = i /\ h # i BY <1>10, <1>11, <1>12, <2>2
  <2>3. CASE j # i /\ h = i BY <1>10, <1>11, <1>12, <2>3
  <2>4. CASE j # i /\ h # i
    <3> DEFINE a == IF j < i THEN j ELSE j - 1
               b == IF h < i THEN h ELSE h - 1
    <3>1. a \in 1..n /\ b \in 1..n BY <1>11, <2>4
    <3>2. new[j].vt = list[a].vt /\ new[h].vt = list[b].vt BY <1>10, <2>4
    <3>3. a = b
      <4> HIDE DEF a, b
      <4> QED BY <3>1, <3>2 DEF Distinct
    <3> QED BY <1>1, <2>4, <3>3
  <2> QED BY <2>1, <2>2, <2>3, <2>4
<1>14. InOrder(new)
  <2> SUFFICES ASSUME NEW j \in 1..n + 1 PROVE new[j].vt_time >= 0 BY <1>10 DEF InOrder
  <2>1. CASE j < i
    <3>1. j \in 1..n BY <1>1, <2>1
    <3> QED BY <1>2, <1>10, <2>1, <3>1
  <2>2. CASE j = i BY <1>8, <1>10, <2>2
  <2>3. CASE j = i + 1
    <3>1. i <= n /\ ~(j < i) /\ j # i BY <1>1, <2>3
    <3>2. new[j].vt_time = Expiry(list, i) - time BY <1>9, <1>10, <2>3, <3>1
    <3>3. Expiry(list, i) \in Int BY <1>1, <1>5, <3>1
    <3> QED BY <1>9, <3>1, <3>2, <3>3
  <2>4. CASE i + 1 < j
    <3>1. j - 1 \in 1..n /\ ~(j < i) /\ j # i /\ j # i + 1 BY <1>1, <2>4
    <3>2. new[j].vt_time = list[j - 1].vt_time BY <1>10, <3>1
    <3> QED BY <1>2, <3>1, <3>2
  <2> QED BY <1>1, <2>1, <2>2, <2>3, <2>4
<1>15. ASSUME list # <<>> => list[1].vt_time >= 1 PROVE new[1].vt_time >= 1
  <2>1. 1 \in 1..n + 1 BY <1>1
  <2>2. CASE i = 1 BY <1>8, <1>10, <2>1, <2>2
  <2>3. CASE 1 < i
    <3>1. new[1].vt_time = list[1].vt_time BY <1>10, <2>1, <2>3
    <3>2. n # 0 BY <1>1, <2>3
    <3>3. list # <<>> BY <3>2
    <3> QED BY <1>15, <3>1, <3>3
  <2> QED BY <1>1, <2>2, <2>3
<1>16. Sums(new, g)
  <2>1. g[0] = 0
    <3>1. 0 \in 0..n + 1 /\ 0 < i BY <1>1
    <3> QED BY <3>1, ExpirySums
  <2>2. ASSUME NEW j \in 1..n + 1 PROVE g[j] = g[j - 1] + new[j].vt_time
    <3>1. j \in 0..n + 1 /\ j - 1 \in 0..n + 1 BY <1>1
    <3>2. CASE j < i
      <4>1. j \in 1..n /\ j - 1 < i BY <1>1, <3>2
      <4>2. g[j] = Expiry(list, j) /\ g[j - 1] = Expiry(list, j - 1) BY <3>1, <3>2, <4>1
      <4>3. new[j].vt_time = list[j].vt_time BY <1>10, <3>2
      <4> QED BY <1>6, <4>1, <4>2, <4>3
    <3>3. CASE j = i
      <4>1. g[j] = time /\ g[j - 1] = Expiry(list, i - 1) BY <1>1, <3>1, <3>3
      <4>2. new[j].vt_time = time - Expiry(list, i - 1) BY <1>10, <3>3 DEF delta
      <4> QED BY <1>7, <4>1, <4>2
    <3>4. CASE j = i + 1
      <4>1. i <= n /\ ~(j < i) /\ j # i /\ ~(j - 1 < i) /\ j - 1 = i BY <1>1, <3>4
      <4>2. g[j] = Expiry(list, i) /\ g[j - 1] = time BY <3>1, <4>1
      <4>3. new[j].vt_time = Expiry(list, i) - time BY <1>9, <1>10, <3>4, <4>1
      <4>4. Expiry(list, i) \in Int BY <1>1, <1>5, <4>1
      <4> QED BY <4>2, <4>3, <4>4
    <3>5. CASE i + 1 < j
      <4>1. ~(j < i) /\ j # i /\ j # i + 1 /\ ~(j - 1 < i) /\ j - 1 # i /\ j - 1 \in 1..n
            /\ (j - 1) - 1 \in 0..n
        BY <1>1, <3>5
      <4>2. g[j] = Expiry(list, j - 1) /\ g[j - 1] = Expiry(list, (j - 1) - 1) BY <3>1, <4>1
      <4>3. new[j].vt_time = list[j - 1].vt_time BY <1>10, <4>1
      <4> QED BY <1>6, <4>1, <4>2, <4>3
    <3> QED BY <1>1, <3>2, <3>3, <3>4, <3>5
  <2> QED BY <2>1, <2>2, <1>10 DEF Sums
<1>17. ASSUME NEW j \in 1..n + 1
       PROVE  Expiry(new, j) = IF j < i THEN Expiry(list, j)
                               ELSE IF j = i THEN time ELSE Expiry(list, j - 1)
  <2>1. j \in 0..n + 1 BY <1>1
  <2>2. Expiry(new, j) = g[j] BY <2>1, <1>4, <1>10, <1>16, SumsUnique
  <2> QED BY <2>1, <2>2
<1> HIDE DEF g
<1>18. ASSUME NEW u PROVE Left(new, u) = IF u = t THEN time ELSE Left(list, u)
  <2>1. CASE u = t
    <3>1. new[i].vt = t BY <1>10
    <3>2. Left(new, t) = Expiry(new, i) BY <3>1, <1>4, <1>10, <1>13, LeftAt
    <3>3. Expiry(new, i) = time BY <1>17, <1>1
    <3> QED BY <2>1, <3>2, <3>3
  <2>2. CASE u # t /\ Armed(list, u)
    <3> DEFINE p == Position(list, u)
               q == IF p < i THEN p ELSE p + 1
    <3>1. p \in 1..n /\ list[p].vt = u BY <2>2, ArmedAt
    <3>2. Left(list, u) = Expiry(list, p) BY <2>2 DEF Left
    <3> HIDE DEF p
    <3>3. q \in 1..n + 1 /\ q # i /\ (IF q < i THEN q ELSE q - 1) = p BY <1>1, <3>1
    <3> HIDE DEF q
    <3>4. new[q].vt = u BY <1>10, <3>1, <3>3
    <3>5. Left(new, u) = Expiry(new, q) BY <3>3, <3>4, <1>4, <1>10, <1>13, LeftAt
    <3>6. Expiry(new, q) = Expiry(list, p) BY <1>17, <3>3
    <3> QED BY <2>2, <3>2, <3>5, <3>6
  <2>3. CASE u # t /\ ~Armed(list, u)
    <3>1. ~Armed(new, u) BY <2>3, <1>10, <1>11 DEF Armed
    <3> QED BY <2>3, <3>1, LeftOff
  <2> QED BY <2>1, <2>2, <2>3
<1> QED BY <1>4, <1>13, <1>14, <1>15, <1>18 DEF new

\* The times stored in a list are no longer than the time left for any timer.
LEMMA ListBounded ==
    ASSUME NEW T, NEW list \in Lists(T), Distinct(list), InOrder(list), NEW max \in Nat,
           \A t \in T : Left(list, t) <= max
    PROVE  list \in Seq([vt : T, vt_time : 0..max])
<1>1. Len(list) \in Nat BY ListTypes
<1>2. ASSUME NEW i \in 1..Len(list)
      PROVE  list[i] \in [vt : T, vt_time : 0..max]
  <2>1. /\ list[i] \in [vt : T, vt_time : Int]
        /\ list[i].vt \in T /\ list[i].vt_time \in Int /\ list[i].vt_time >= 0
    BY ListTypes DEF InOrder
  <2>2. Expiry(list, i) = Expiry(list, i - 1) + list[i].vt_time BY ExpirySums
  <2>3. 0 \in 0..Len(list) /\ i - 1 \in 0..Len(list) BY <1>1
  <2>4. Expiry(list, 0) = 0 /\ Expiry(list, i - 1) \in Int BY <2>3, ExpirySums
  <2>5. Expiry(list, i - 1) >= 0
    <3>1. Expiry(list, 0) <= Expiry(list, i - 1) BY <2>3, ExpiryGrows
    <3> QED BY <2>4, <3>1
  <2>6. Expiry(list, i) <= max BY <2>1, LeftAt
  <2>7. list[i].vt_time \in 0..max BY <2>1, <2>2, <2>4, <2>5, <2>6
  <2>8. list[i] = [vt |-> list[i].vt, vt_time |-> list[i].vt_time] BY <2>1
  <2> QED BY <2>1, <2>7, <2>8
<1>3. list = [i \in 1..Len(list) |-> list[i]]
  <2>1. list \in Seq([vt : T, vt_time : Int]) BY DEF Lists
  <2> QED BY <2>1
<1> DEFINE R == [vt : T, vt_time : 0..max]
<1>4. \A i \in 1..Len(list) : list[i] \in R BY <1>2
<1> HIDE DEF R
<1>5. list \in Seq(R)
  <2>1. list \in [1..Len(list) -> R] BY <1>3, <1>4
  <2> QED BY <1>1, <2>1, SeqDef
<1> QED BY <1>5 DEF R

----------------------------------------------------------------------------
(* The steps of ChVT *)

\* The list holds every timer once and in the order of expiry. Between two
\* ticks no timer is due: that is what makes the next tick take one from the
\* time of every timer, without a time running below zero.
VTInv ==
    /\ vtlist \in Lists(Timers)
    /\ Distinct(vtlist)
    /\ InOrder(vtlist)
    /\ ~ticking => (vtlist # <<>> => vtlist[1].vt_time >= 1)

\* The ticks left for every timer, as the promise sees them.
left == [t \in Timers |-> Left(vtlist, t)]

\* What the promise's steps do to left.
PSet(t) == left[t] = -1 /\ \E d \in 1..MaxDelay : left' = [left EXCEPT ![t] = d]
PReset(t) == left[t] # -1 /\ left' = [left EXCEPT ![t] = -1]
PExpire(t) == left[t] = 0 /\ left' = [left EXCEPT ![t] = -1]
PNoneDue == \A t \in Timers : left[t] # 0
PTick ==
    /\ PNoneDue
    /\ left' = [t \in Timers |-> IF left[t] = -1 THEN -1 ELSE left[t] - 1]

\* The promise's steps.
PNext ==
    \/ ~ticking /\ PTick /\ ticking' \in BOOLEAN /\ UNCHANGED fn
    \/ fn # NULL /\ fn' = NULL /\ left' = left /\ UNCHANGED ticking
    \/ /\ ticking /\ fn = NULL /\ PNoneDue
       /\ ticking' = FALSE /\ left' = left /\ UNCHANGED fn
    \/ \E t \in Timers :
          \/ Unlocked /\ (PSet(t) \/ PReset(t)) /\ UNCHANGED <<ticking, fn>>
          \/ ticking /\ fn = NULL /\ PExpire(t) /\ fn' = t /\ UNCHANGED ticking

\* Setting a timer keeps the list in shape and gives the timer its delay.
LEMMA SetStep ==
    ASSUME VTAssumption, VTInv, NEW t \in Timers, chVTSet(t)
    PROVE  VTInv' /\ PSet(t)
<1>1. PICK time \in 1..MaxDelay : vtlist' = chVTSetI(vtlist, t, time) BY DEF chVTSet
<1>2. ~Armed(vtlist, t) /\ ticking' = ticking BY DEF chVTSet
<1>3. time \in Int /\ time >= 1 BY DEF VTAssumption
<1>4. /\ vtlist' \in Lists(Timers) /\ Distinct(vtlist') /\ InOrder(vtlist')
      /\ (vtlist # <<>> => vtlist[1].vt_time >= 1) => vtlist'[1].vt_time >= 1
      /\ \A u : Left(vtlist', u) = IF u = t THEN time ELSE Left(vtlist, u)
  BY <1>1, <1>2, <1>3, SetEffect DEF VTInv
<1>5. VTInv' BY <1>2, <1>4 DEF VTInv, Lists, Distinct, InOrder
<1>6. left[t] = -1 BY <1>2, LeftOff DEF left
<1>7. left' = [left EXCEPT ![t] = time] BY <1>4 DEF left
<1> QED BY <1>5, <1>6, <1>7 DEF PSet

\* Resetting a timer switches it off and leaves all others their time.
LEMMA ResetStep ==
    ASSUME VTInv, NEW t \in Timers, chVTReset(t)
    PROVE  VTInv' /\ PReset(t)
<1>1. Armed(vtlist, t) /\ vtlist' = chVTResetI(vtlist, t) /\ ticking' = ticking
  BY DEF chVTReset
<1>2. /\ vtlist' \in Lists(Timers) /\ Distinct(vtlist') /\ InOrder(vtlist')
      /\ vtlist[1].vt_time >= 1 => vtlist' = <<>> \/ vtlist'[1].vt_time >= 1
      /\ \A u : Left(vtlist', u) = IF u = t THEN -1 ELSE Left(vtlist, u)
  BY <1>1, ResetEffect DEF VTInv
<1>3. vtlist # <<>> BY <1>1, LeftBound DEF VTInv
<1>4. VTInv' BY <1>1, <1>2, <1>3 DEF VTInv, Lists, Distinct, InOrder
<1>5. left' = [left EXCEPT ![t] = -1] BY <1>2 DEF left
<1>6. left[t] # -1
  <2>1. Left(vtlist, t) \in Int /\ Left(vtlist, t) >= vtlist[1].vt_time
    BY <1>1, LeftBound DEF VTInv
  <2>2. 1 \in 1..Len(vtlist) BY <1>3, EmptySeq, ListTypes DEF VTInv, Lists
  <2>3. vtlist[1].vt_time \in Int /\ vtlist[1].vt_time >= 0
    BY <2>2, ListTypes DEF VTInv, InOrder
  <2> QED BY <2>1, <2>3 DEF left
<1> QED BY <1>4, <1>5, <1>6 DEF PReset

\* With time left for the first timer no timer is due.
LEMMA NoneIsDue ==
    ASSUME VTInv, vtlist # <<>> => vtlist[1].vt_time >= 1
    PROVE  /\ \A t \in Timers : Armed(vtlist, t) =>
                 Left(vtlist, t) \in Int /\ Left(vtlist, t) >= 1
           /\ PNoneDue
<1>1. ASSUME NEW t \in Timers, Armed(vtlist, t)
      PROVE  Left(vtlist, t) \in Int /\ Left(vtlist, t) >= 1
  <2>1. /\ vtlist # <<>> /\ Left(vtlist, t) \in Int
        /\ Left(vtlist, t) >= vtlist[1].vt_time
    BY <1>1, LeftBound DEF VTInv
  <2>2. vtlist[1].vt_time \in Int
    <3>1. 1 \in 1..Len(vtlist) BY <2>1, EmptySeq, ListTypes DEF VTInv, Lists
    <3> QED BY <3>1, ListTypes DEF VTInv
  <2> QED BY <2>1, <2>2
<1>2. ASSUME NEW t \in Timers PROVE left[t] # 0
  <2>1. CASE Armed(vtlist, t) BY <1>1, <2>1 DEF left
  <2>2. CASE ~Armed(vtlist, t) BY <2>2, LeftOff DEF left
  <2> QED BY <2>1, <2>2
<1> QED BY <1>1, <1>2 DEF PNoneDue

\* A tick takes one from the time of every timer, none of which is due.
LEMMA TickStep ==
    ASSUME VTInv, Tick
    PROVE  VTInv' /\ PTick
<1>1. ~ticking /\ vtlist' = Elapse(vtlist) /\ ticking' = (vtlist # <<>>) BY DEF Tick, TickBegins
<1>2. vtlist # <<>> => vtlist[1].vt_time >= 1 BY <1>1 DEF VTInv
<1>3. /\ vtlist' \in Lists(Timers) /\ Distinct(vtlist') /\ InOrder(vtlist')
      /\ (vtlist' = <<>>) = (vtlist = <<>>)
      /\ \A t : Armed(vtlist', t) = Armed(vtlist, t)
      /\ \A t : Armed(vtlist, t) => Left(vtlist', t) = Left(vtlist, t) - 1
  BY <1>1, <1>2, ElapseEffect DEF VTInv
<1>4. VTInv' BY <1>1, <1>3 DEF VTInv, Lists, Distinct, InOrder
<1>5. /\ PNoneDue
      /\ \A t \in Timers : Armed(vtlist, t) =>
            Left(vtlist, t) \in Int /\ Left(vtlist, t) >= 1
  BY <1>2, NoneIsDue
<1>6. ASSUME NEW t \in Timers
      PROVE  Left(vtlist', t) = IF Left(vtlist, t) = -1 THEN -1 ELSE Left(vtlist, t) - 1
  <2>1. CASE Armed(vtlist, t) BY <1>3, <1>5, <2>1
  <2>2. CASE ~Armed(vtlist, t)
    <3>1. ~Armed(vtlist', t) BY <1>3, <2>2
    <3>2. Left(vtlist, t) = -1 /\ Left(vtlist', t) = -1 BY <2>2, <3>1, LeftOff
    <3> QED BY <3>2
  <2> QED BY <2>1, <2>2
<1>7. \A t \in Timers : left[t] = Left(vtlist, t) BY DEF left
<1>8. left' = [t \in Timers |-> IF left[t] = -1 THEN -1 ELSE left[t] - 1]
  BY <1>6, <1>7 DEF left
<1> QED BY <1>4, <1>5, <1>8 DEF PTick

\* The timer taken off by the tick has no time left; the others keep theirs.
LEMMA ExpireStep ==
    ASSUME VTInv, Expire
    PROVE  VTInv' /\ Head(vtlist).vt \in Timers /\ PExpire(Head(vtlist).vt)
<1> DEFINE head == Head(vtlist).vt
<1>1. ticking /\ Due(vtlist) /\ vtlist' = Tail(vtlist) /\ ticking' = ticking BY DEF Expire, TakeDueTimer
<1>2. /\ Tail(vtlist) \in Lists(Timers) /\ Distinct(Tail(vtlist)) /\ InOrder(Tail(vtlist))
      /\ head \in Timers /\ Left(vtlist, head) = 0
      /\ \A t : Left(Tail(vtlist), t) = IF t = head THEN -1 ELSE Left(vtlist, t)
  BY <1>1, TailEffect DEF VTInv
<1>3. VTInv' BY <1>1, <1>2 DEF VTInv, Lists, Distinct, InOrder
<1>4. left[head] = 0 BY <1>2 DEF left
<1>5. left' = [left EXCEPT ![head] = -1] BY <1>1, <1>2 DEF left
<1> QED BY <1>2, <1>3, <1>4, <1>5 DEF PExpire

\* When the loop ends the first timer has time left.
LEMMA TickDoneStep ==
    ASSUME VTInv, TickDone
    PROVE  VTInv' /\ left' = left /\ PNoneDue
<1>1. ~Due(vtlist) /\ vtlist' = vtlist /\ ~ticking' BY DEF TickDone, TickEnds
<1>2. vtlist # <<>> => vtlist[1].vt_time >= 1
  <2> HAVE vtlist # <<>>
  <2>1. 1 \in 1..Len(vtlist) BY EmptySeq, ListTypes DEF VTInv, Lists
  <2>2. vtlist[1].vt_time \in Int /\ vtlist[1].vt_time >= 0
    BY <2>1, ListTypes DEF VTInv, InOrder
  <2> QED BY <1>1, <2>2 DEF Due
<1>3. VTInv' BY <1>1, <1>2 DEF VTInv, Lists, Distinct, InOrder
<1>4. PNoneDue BY <1>2, NoneIsDue
<1> QED BY <1>1, <1>3, <1>4 DEF left

\* Every step of the timers is a step of the promise or none.
LEMMA VTStep ==
    ASSUME VTAssumption, VTInv, [VTNext]_vars
    PROVE  VTInv' /\ (PNext \/ UNCHANGED <<left, ticking, fn>>)
<1>1. ASSUME NEW t \in Timers, chVTSet(t) PROVE VTInv' /\ PNext
  <2>1. Unlocked /\ UNCHANGED <<ticking, fn>> BY <1>1 DEF chVTSet
  <2> QED BY <1>1, <2>1, SetStep DEF PNext
<1>2. ASSUME NEW t \in Timers, chVTReset(t) PROVE VTInv' /\ PNext
  <2>1. Unlocked /\ UNCHANGED <<ticking, fn>> BY <1>2 DEF chVTReset
  <2> QED BY <1>2, <2>1, ResetStep DEF PNext
<1>3. CASE Tick
  <2>1. ~ticking /\ ticking' \in BOOLEAN /\ UNCHANGED fn BY <1>3 DEF Tick, TickBegins
  <2> QED BY <1>3, <2>1, TickStep DEF PNext
<1>4. CASE Expire
  <2>1. VTInv' /\ Head(vtlist).vt \in Timers /\ PExpire(Head(vtlist).vt) BY <1>4, ExpireStep
  <2>2. ticking /\ fn = NULL /\ fn' = Head(vtlist).vt /\ UNCHANGED ticking
    BY <1>4 DEF Expire, TakeDueTimer
  <2> QED BY <2>1, <2>2 DEF PNext
<1>5. CASE TickDone
  <2>1. ticking /\ fn = NULL /\ ticking' = FALSE /\ UNCHANGED fn
    BY <1>5 DEF TickDone, TickEnds
  <2> QED BY <1>5, <2>1, TickDoneStep DEF PNext
<1>6. CASE CallbackReturns \/ UNCHANGED vars
  <2>1. /\ vtlist' = vtlist /\ ticking' = ticking
        /\ fn' = fn \/ (fn # NULL /\ fn' = NULL)
    BY <1>6 DEF CallbackReturns, vars, timervars
  <2>2. VTInv' BY <2>1 DEF VTInv, Lists, Distinct, InOrder
  <2>3. left' = left BY <2>1 DEF left
  <2> QED BY <2>1, <2>2, <2>3 DEF PNext
<1> QED BY <1>1, <1>2, <1>3, <1>4, <1>5, <1>6 DEF VTNext

\* Initially all timers are off.
LEMMA VTStart ==
    ASSUME VTInit
    PROVE  VTInv /\ left = [t \in Timers |-> -1]
<1>1. vtlist = <<>> /\ Len(vtlist) = 0 BY DEF VTInit
<1>2. VTInv
  <2>1. vtlist \in Lists(Timers) BY <1>1 DEF Lists
  <2> QED BY <1>1, <2>1 DEF VTInv, Distinct, InOrder
<1>3. \A t : ~Armed(vtlist, t) BY <1>1 DEF Armed
<1>4. \A t : Left(vtlist, t) = -1 BY <1>3, LeftOff
<1> QED BY <1>2, <1>4 DEF left

\* Every timer expires, and its function is called, exactly in the tick it was set to,
\* neither earlier nor later, however timers are set and reset around it by threads,
\* interrupt handlers and the callbacks of the same tick (chvt.c, chVTDoTickI()).
THEOREM TimersExact == VTSpec => TimersAreExact
<1>1. ASSUME VTInit PROVE VTInv /\ Promise!TimersInit
  <2>1. VTInv /\ left = [t \in Timers |-> -1] BY <1>1, VTStart
  <2>2. ~ticking /\ fn = NULL BY <1>1 DEF VTInit
  <2> QED BY <2>1, <2>2 DEF left, Left, Promise!TimersInit
<1>2. ASSUME VTInv, [VTNext]_vars
      PROVE  VTInv' /\ [Promise!TimersNext]_(Promise!timers)
  <2>1. VTInv' /\ (PNext \/ UNCHANGED <<left, ticking, fn>>) BY <1>2, VTAssumption, VTStep
  <2> QED BY <2>1 DEF left, Left, PNext, PTick, PNoneDue, PSet, PReset, PExpire, Unlocked,
       Promise!TimersNext, Promise!Tick, Promise!Set, Promise!Reset, Promise!Expire,
       Promise!Return, Promise!TickEnds, Promise!Outside, Promise!NoneDue, Promise!timers
<1> QED BY <1>1, <1>2, PTL DEF VTSpec, TimersAreExact, Promise!TimersSpec

----------------------------------------------------------------------------
(* Types, and the windows of the system time *)

\* No timer has more than the longest delay left.
VTBounds ==
    /\ \A t \in Timers : left[t] <= MaxDelay
    /\ vt_systime \in Times
    /\ ticking \in BOOLEAN
    /\ fn \in Timers \cup {NULL}

LEMMA VTBoundsStep ==
    ASSUME VTAssumption, VTInv, VTBounds, [VTNext]_vars
    PROVE  VTBounds'
<1>1. /\ TimeRange \in Nat /\ TimeRange > 0
      /\ MaxDelay \in Nat /\ MaxDelay >= 1
  BY DEF VTAssumption
<1>2. (vt_systime + 1) % TimeRange \in Times BY <1>1 DEF VTBounds, Times
<1>3. vt_systime' \in Times
  BY <1>2 DEF VTBounds, VTNext, vars, timervars, chVTSet, chVTReset, Tick, Expire, TickDone,
     CallbackReturns
<1>4. ticking' \in BOOLEAN
  BY DEF VTBounds, VTNext, vars, timervars, chVTSet, chVTReset, Tick, TickBegins, Expire,
     TakeDueTimer, TickDone, TickEnds, CallbackReturns
<1>5. fn' \in Timers \cup {NULL}
  <2>1. CASE Expire
    <3>1. Head(vtlist).vt \in Timers BY <2>1, ExpireStep
    <3> QED BY <2>1, <3>1 DEF Expire, TakeDueTimer
  <2>2. CASE ~Expire
    BY <2>2 DEF VTBounds, VTNext, vars, timervars, chVTSet, chVTReset, Tick, TickBegins,
       TickDone, TickEnds, CallbackReturns
  <2> QED BY <2>1, <2>2
<1>6. \A t \in Timers : left'[t] <= MaxDelay
  <2>1. PNext \/ left' = left BY VTStep
  <2>2. \A t \in Timers : left[t] \in Int /\ left[t] <= MaxDelay
    <3>1. \A t \in Timers : Left(vtlist, t) \in Int
      <4> TAKE t \in Timers
      <4>1. CASE Armed(vtlist, t) BY <4>1, LeftBound DEF VTInv
      <4>2. CASE ~Armed(vtlist, t) BY <4>2, LeftOff
      <4> QED BY <4>1, <4>2
    <3> QED BY <3>1 DEF VTBounds, left
  <2>3. left = [t \in Timers |-> left[t]] BY DEF left
  <2> HIDE DEF left
  <2>4. CASE PTick BY <1>1, <2>2, <2>3, <2>4 DEF PTick
  <2>5. ASSUME NEW u \in Timers, PSet(u) \/ PReset(u) \/ PExpire(u)
        PROVE  \A t \in Timers : left'[t] <= MaxDelay
    <3>1. \E d \in -1..MaxDelay : left' = [left EXCEPT ![u] = d]
      BY <1>1, <2>5 DEF PSet, PReset, PExpire
    <3> QED BY <1>1, <2>2, <2>3, <3>1
  <2> QED BY <2>1, <2>2, <2>4, <2>5 DEF PNext
<1> QED BY <1>3, <1>4, <1>5, <1>6 DEF VTBounds

\* The invariants give every variable its type.
LEMMA VTTypes ==
    ASSUME VTAssumption, VTInv, VTBounds
    PROVE  VTTypeOK
<1>1. vtlist \in Seq([vt : Timers, vt_time : 0..MaxDelay])
  BY ListBounded DEF VTAssumption, VTInv, VTBounds, left
<1> QED BY <1>1 DEF VTBounds, VTInv, Distinct, VTTypeOK, Times

\* Sums and differences of two times around the end of the range.
LEMMA AroundTheRange ==
    ASSUME VTAssumption, NEW x \in Times, NEW y \in Times
    PROVE  /\ (x + y) % TimeRange = IF x + y < TimeRange THEN x + y ELSE x + y - TimeRange
           /\ (x - y) % TimeRange = IF x >= y THEN x - y ELSE x - y + TimeRange
<1>1. /\ TimeRange \in Nat /\ TimeRange > 0
      /\ x \in Int /\ 0 <= x /\ x < TimeRange
      /\ y \in Int /\ 0 <= y /\ y < TimeRange
  BY DEF VTAssumption, Times
<1>2. ASSUME NEW a \in 0..TimeRange - 1 PROVE a % TimeRange = a BY <1>1
<1>3. ASSUME NEW a \in TimeRange..2 * TimeRange - 1 PROVE a % TimeRange = a - TimeRange
  BY <1>1
<1>4. ASSUME NEW a \in -TimeRange..-1 PROVE a % TimeRange = a + TimeRange BY <1>1
<1>5. (x + y) % TimeRange = IF x + y < TimeRange THEN x + y ELSE x + y - TimeRange
  <2>1. CASE x + y < TimeRange
    <3>1. x + y \in 0..TimeRange - 1 BY <1>1, <2>1
    <3> QED BY <1>2, <2>1, <3>1
  <2>2. CASE ~(x + y < TimeRange)
    <3>1. x + y \in TimeRange..2 * TimeRange - 1 BY <1>1, <2>2
    <3> QED BY <1>1, <1>3, <2>2, <3>1
  <2> QED BY <2>1, <2>2
<1>6. (x - y) % TimeRange = IF x >= y THEN x - y ELSE x - y + TimeRange
  <2>1. CASE x >= y
    <3>1. x - y \in 0..TimeRange - 1 BY <1>1, <2>1
    <3> QED BY <1>2, <2>1, <3>1
  <2>2. CASE ~(x >= y)
    <3>1. x - y \in -TimeRange..-1 BY <1>1, <2>2
    <3> QED BY <1>4, <2>2, <3>1
  <2> QED BY <2>1, <2>2
<1> QED BY <1>5, <1>6

\* Counting from x around the range meets y exactly after (y - x) % TimeRange steps.
LEMMA StepsTo ==
    ASSUME VTAssumption, NEW x \in Times, NEW y \in Times
    PROVE  /\ (y - x) % TimeRange \in Times
           /\ \A n \in Times : (x + n) % TimeRange = y <=> n = (y - x) % TimeRange
<1>1. /\ TimeRange \in Nat /\ TimeRange > 0
      /\ \A t \in Times : t \in Int /\ 0 <= t /\ t < TimeRange
      /\ \A t \in Int : 0 <= t /\ t < TimeRange => t \in Times
  BY DEF VTAssumption, Times
<1> DEFINE d == (y - x) % TimeRange
<1>2. d = IF y >= x THEN y - x ELSE y - x + TimeRange BY AroundTheRange
<1>3. \A n \in Times :
        (x + n) % TimeRange = IF x + n < TimeRange THEN x + n ELSE x + n - TimeRange
  BY AroundTheRange
<1> HIDE DEF d
<1>4. d \in Times BY <1>1, <1>2
<1>5. ASSUME NEW n \in Times PROVE (x + n) % TimeRange = y <=> n = d
  <2> DEFINE s == (x + n) % TimeRange
  <2>1. s = IF x + n < TimeRange THEN x + n ELSE x + n - TimeRange BY <1>3
  <2> HIDE DEF s
  <2>2. s = y <=> n = d BY <1>1, <1>2, <2>1
  <2> QED BY <2>2 DEF s
<1> QED BY <1>4, <1>5 DEF d

\* chTimeIsWithin() counts around the wrap, whatever the present time is.
LEMMA WindowWraps ==
    ASSUME VTAssumption, vt_systime \in Times,
           NEW start \in Times, NEW end \in Times, start # end
    PROVE  chTimeIsWithin(start, end) <=>
              \E n \in Times : /\ (start + n) % TimeRange = chTimeNow
                               /\ \A m \in 0..n : (start + m) % TimeRange # end
<1> DEFINE now == (vt_systime - start) % TimeRange
           stop == (end - start) % TimeRange
<1>1. now \in Times /\ \A n \in Times : (start + n) % TimeRange = vt_systime <=> n = now
  BY StepsTo
<1>2. stop \in Times /\ \A m \in Times : (start + m) % TimeRange = end <=> m = stop
  BY StepsTo
<1>3. chTimeIsWithin(start, end) <=> now < stop
  BY DEF chTimeIsWithin, chTimeElapsedSince, chTimeNow
<1> HIDE DEF now, stop
<1>4. /\ \A t \in Times : t \in Int /\ 0 <= t /\ 0..t \subseteq Times
  BY DEF VTAssumption, Times
<1>5. (\A m \in 0..now : (start + m) % TimeRange # end) <=> stop \notin 0..now
  BY <1>1, <1>2, <1>4
<1>6. stop \notin 0..now <=> now < stop BY <1>1, <1>2, <1>4
<1> QED BY <1>1, <1>3, <1>5, <1>6 DEF chTimeNow

\* A window of the system time contains the present exactly if counting from its
\* start meets the present before its end, also when the count wraps in between
\* (chvt.h:221-235).
THEOREM WindowsAlwaysWrap == VTSpec => []WindowsWrap
<1>1. ASSUME VTInit PROVE VTInv /\ VTBounds
  <2>1. VTInv /\ left = [t \in Timers |-> -1] BY <1>1, VTStart
  <2>2. vt_systime \in Times BY <1>1, VTAssumption DEF VTInit, VTAssumption, Times
  <2>3. \A t \in Timers : left[t] <= MaxDelay
    BY <2>1, VTAssumption DEF VTAssumption
  <2> QED BY <1>1, <2>1, <2>2, <2>3 DEF VTInit, VTBounds
<1>2. ASSUME VTInv, VTBounds, [VTNext]_vars PROVE VTInv' /\ VTBounds'
  BY <1>2, VTAssumption, VTStep, VTBoundsStep
<1>3. ASSUME VTInv, VTBounds PROVE WindowsWrap
  BY <1>3, VTAssumption, VTTypes, WindowWraps DEF WindowsWrap, VTBounds
<1> QED BY <1>1, <1>2, <1>3, PTL DEF VTSpec

----------------------------------------------------------------------------
(* The hazard mode *)

\* The flashes of a window.
Flashes(window) == {i \in DOMAIN window : window[i] = 1}

Windows == [0..NUM_HAZ - 1 -> 0..1]

\* A list of the timers that is in shape.
ListInv(list) ==
    /\ list \in Lists(HazardTimers)
    /\ Distinct(list)
    /\ InOrder(list)
    /\ \A t \in HazardTimers : Left(list, t) <= TimeoutCancel

\* No timer of the list is due.
NoneDue(list) == list # <<>> => list[1].vt_time >= 1

\* The sample of an edge is taken before the cancel timer that the edge has
\* prolonged expires.
SampleBeforeCancel(list) ==
    Armed(list, "vtsample") =>
        Armed(list, "vtcancel") /\ Left(list, "vtsample") < Left(list, "vtcancel")

TimersInv ==
    /\ ListInv(vtlist)
    /\ ~ticking => NoneDue(vtlist)
    /\ ticking \in BOOLEAN /\ fn \in HazardTimers \cup {NULL} /\ icu \in BOOLEAN
    /\ ~icu => vtlist = <<>>
    /\ SampleBeforeCancel(vtlist)
    /\ fn = "vtsample" => Armed(vtlist, "vtcancel")

WindowInv ==
    /\ hazArray \in Windows
    /\ hazSum = Cardinality(Flashes(hazArray))
    /\ hazIndex \in 0..NUM_HAZ - 1
    /\ hazCount \in 0..FlashesCancel

ModeInv ==
    /\ PendHazState \in 0..3
    /\ HazardState \in {"STATE_USER_O", "STATE_USER_H"}
    /\ sent \in {"EVENT_USER_H", "EVENT_USER_O"}
    /\ EventsTellMode

\* The mode is entered from a sample, and at that time the cancel timer runs:
\* what makes HazardModeIsTimed hold is the order in which the timers expire.
HazardInv == TimersInv /\ WindowInv /\ ModeInv /\ HazardModeIsTimed

----------------------------------------------------------------------------
(* The timers *)

\* A timer is armed exactly if it has time left.
LEMMA ArmedIsLeft ==
    ASSUME NEW list, ListInv(list), NEW t
    PROVE  /\ Left(list, t) \in Int /\ Left(list, t) >= -1
           /\ Armed(list, t) <=> Left(list, t) >= 0
<1>1. list \in Lists(HazardTimers) /\ InOrder(list) BY DEF ListInv
<1>2. CASE Armed(list, t) BY <1>1, <1>2, LeftBound
<1>3. CASE ~Armed(list, t)
  <2>1. Left(list, t) = -1 BY <1>3, LeftOff
  <2> QED BY <1>3, <2>1
<1> QED BY <1>2, <1>3

\* A timer that is set, after it is reset if it was armed, has its delay left.
LEMMA RestartEffect ==
    ASSUME NEW list, ListInv(list), NEW t \in HazardTimers,
           NEW time \in Int, time >= 1, time <= TimeoutCancel
    PROVE  /\ ListInv(Restart(list, t, time))
           /\ NoneDue(list) => NoneDue(Restart(list, t, time))
           /\ \A u : Left(Restart(list, t, time), u) = IF u = t THEN time ELSE Left(list, u)
<1> DEFINE off == IF Armed(list, t) THEN chVTResetI(list, t) ELSE list
           new == Restart(list, t, time)
<1>1. list \in Lists(HazardTimers) /\ Distinct(list) /\ InOrder(list) BY DEF ListInv
<1>2. /\ off \in Lists(HazardTimers) /\ Distinct(off) /\ InOrder(off)
      /\ NoneDue(list) => NoneDue(off)
      /\ \A u : Left(off, u) = IF u = t THEN -1 ELSE Left(list, u)
  <2>1. CASE Armed(list, t)
    <3>1. list # <<>> BY <1>1, <2>1, LeftBound
    <3>2. off = chVTResetI(list, t) BY <2>1
    <3> HIDE DEF off
    <3> QED BY <1>1, <2>1, <3>1, <3>2, ResetEffect DEF NoneDue
  <2>2. CASE ~Armed(list, t)
    <3>1. off = list /\ Left(list, t) = -1 BY <2>2, LeftOff
    <3> HIDE DEF off
    <3> QED BY <1>1, <3>1
  <2> QED BY <2>1, <2>2
<1>3. new = chVTSetI(off, t, time) BY DEF Restart
<1> HIDE DEF off, new
<1>4. ~Armed(off, t)
  <2> SUFFICES ASSUME Armed(off, t) PROVE FALSE OBVIOUS
  <2>1. Left(off, t) >= 0 BY <1>2, LeftBound
  <2> QED BY <1>2, <2>1
<1>5. /\ new \in Lists(HazardTimers) /\ Distinct(new) /\ InOrder(new)
      /\ NoneDue(off) => new[1].vt_time >= 1
      /\ \A u : Left(new, u) = IF u = t THEN time ELSE Left(off, u)
  BY <1>2, <1>3, <1>4, SetEffect DEF NoneDue
<1>6. \A u : Left(new, u) = IF u = t THEN time ELSE Left(list, u) BY <1>2, <1>5
<1>7. ListInv(new)
  <2>1. \A u \in HazardTimers : Left(new, u) <= TimeoutCancel BY <1>6 DEF ListInv
  <2> QED BY <1>5, <2>1 DEF ListInv
<1>8. NoneDue(list) => NoneDue(new) BY <1>2, <1>5 DEF NoneDue
<1> QED BY <1>6, <1>7, <1>8 DEF new

\* A timer that was off is set.
LEMMA SetIsRestart ==
    ASSUME NEW list, NEW t, NEW time, ~Armed(list, t)
    PROVE  chVTSetI(list, t, time) = Restart(list, t, time)
BY DEF Restart

\* The times of a list in shape are in the range of the type.
LEMMA ListType ==
    ASSUME HazardAssumption, NEW list, ListInv(list)
    PROVE  list \in Seq([vt : HazardTimers, vt_time : 0..TimeoutCancel])
BY ListBounded DEF HazardAssumption, ListInv

\* An edge: the sample is due before the prolonged cancel timer.
LEMMA EdgeTimers ==
    ASSUME HazardAssumption, TimersInv, HazardPeriodCB
    PROVE  TimersInv' /\ Armed(vtlist', "vtcancel")
<1> DEFINE a == chVTSetI(vtlist, "vtsample", SampleDelay)
           b == Restart(a, "vtoff", TimeoutOff)
<1>1. /\ {SampleDelay, TimeoutOff, TimeoutCancel} \subseteq Int
      /\ 1 <= SampleDelay /\ SampleDelay < TimeoutOff /\ TimeoutOff < TimeoutCancel
      /\ 1 <= TimeoutOff /\ 1 <= TimeoutCancel
      /\ SampleDelay <= TimeoutCancel /\ TimeoutOff <= TimeoutCancel
  BY DEF HazardAssumption
<1>2. /\ icu /\ ~Armed(vtlist, "vtsample") /\ vtlist' = Restart(b, "vtcancel", TimeoutCancel)
      /\ ticking' = ticking /\ fn' = fn /\ icu' = icu
  BY DEF HazardPeriodCB, StartTimers, hazstate
<1>3. {"vtsample", "vtoff", "vtcancel"} \subseteq HazardTimers BY DEF HazardTimers
<1>4. a = Restart(vtlist, "vtsample", SampleDelay) BY <1>2, SetIsRestart
<1>5. ListInv(vtlist) BY DEF TimersInv
<1> HIDE DEF a, b
<1>6. /\ ListInv(a)
      /\ NoneDue(vtlist) => NoneDue(a)
      /\ \A u : Left(a, u) = IF u = "vtsample" THEN SampleDelay ELSE Left(vtlist, u)
  BY <1>1, <1>3, <1>4, <1>5, RestartEffect
<1>7. /\ ListInv(b)
      /\ NoneDue(a) => NoneDue(b)
      /\ \A u : Left(b, u) = IF u = "vtoff" THEN TimeoutOff ELSE Left(a, u)
  BY <1>1, <1>3, <1>6, RestartEffect DEF b
<1>8. /\ ListInv(vtlist')
      /\ NoneDue(b) => NoneDue(vtlist')
      /\ \A u : Left(vtlist', u) = IF u = "vtcancel" THEN TimeoutCancel ELSE Left(b, u)
  BY <1>1, <1>2, <1>3, <1>7, RestartEffect
<1>9. Left(vtlist', "vtsample") = SampleDelay /\ Left(vtlist', "vtcancel") = TimeoutCancel
  BY <1>6, <1>7, <1>8
<1>10. Armed(vtlist', "vtcancel") BY <1>1, <1>8, <1>9, ArmedIsLeft
<1>11. SampleBeforeCancel(vtlist') BY <1>1, <1>9, <1>10 DEF SampleBeforeCancel
<1>12. TimersInv'
  BY <1>2, <1>6, <1>7, <1>8, <1>10, <1>11
  DEF TimersInv, ListInv, NoneDue, SampleBeforeCancel
<1> QED BY <1>10, <1>12

\* initHazard() starts with no timer armed.
LEMMA StartTimersInv ==
    ASSUME HazardAssumption, TimersInv, initHazard
    PROVE  TimersInv' /\ Armed(vtlist', "vtcancel")
<1>1. TimeoutCancel \in Int /\ 1 <= TimeoutCancel /\ TimeoutCancel <= TimeoutCancel
  BY DEF HazardAssumption
<1>2. /\ ~icu /\ ~ticking /\ icu' /\ icu' \in BOOLEAN
      /\ vtlist' = chVTSetI(vtlist, "vtcancel", TimeoutCancel)
      /\ ticking' = ticking /\ fn' = fn
  BY DEF initHazard
<1>3. vtlist = <<>> /\ ListInv(vtlist) /\ NoneDue(vtlist) BY <1>2 DEF TimersInv
<1>4. \A t : ~Armed(vtlist, t)
  <2>1. Len(vtlist) = 0 BY <1>3
  <2> QED BY <2>1 DEF Armed
<1>5. vtlist' = Restart(vtlist, "vtcancel", TimeoutCancel) BY <1>2, <1>4, SetIsRestart
<1>6. "vtcancel" \in HazardTimers BY DEF HazardTimers
<1>7. /\ ListInv(vtlist') /\ NoneDue(vtlist')
      /\ \A u : Left(vtlist', u) = IF u = "vtcancel" THEN TimeoutCancel ELSE Left(vtlist, u)
  BY <1>1, <1>3, <1>5, <1>6, RestartEffect
<1>8. Left(vtlist', "vtcancel") = TimeoutCancel /\ Left(vtlist', "vtsample") = -1
  BY <1>4, <1>7, LeftOff
<1>9. Armed(vtlist', "vtcancel") BY <1>1, <1>7, <1>8, ArmedIsLeft
<1>10. ~Armed(vtlist', "vtsample") BY <1>7, <1>8, ArmedIsLeft
<1>11. TimersInv'
  BY <1>2, <1>7, <1>9, <1>10
  DEF TimersInv, ListInv, NoneDue, SampleBeforeCancel
<1> QED BY <1>9, <1>11

\* A tick leaves the order of expiry as it was.
LEMMA TickTimers ==
    ASSUME TimersInv, HazardTick
    PROVE  /\ TimersInv' /\ fn' = fn
           /\ \A t \in HazardTimers : Armed(vtlist', t) = Armed(vtlist, t)
<1>1. /\ ~ticking /\ vtlist' = Elapse(vtlist) /\ ticking' = (vtlist # <<>>)
      /\ fn' = fn /\ icu' = icu
  BY DEF HazardTick, TickBegins, hazstate
<1>2. ListInv(vtlist) /\ NoneDue(vtlist) BY <1>1 DEF TimersInv
<1>3. /\ vtlist' \in Lists(HazardTimers) /\ Distinct(vtlist') /\ InOrder(vtlist')
      /\ (vtlist' = <<>>) = (vtlist = <<>>)
      /\ \A t : Armed(vtlist', t) = Armed(vtlist, t)
      /\ \A t : Armed(vtlist, t) => Left(vtlist', t) = Left(vtlist, t) - 1
  BY <1>1, <1>2, ElapseEffect DEF ListInv, NoneDue
<1>4. ListInv(vtlist')
  <2>1. ASSUME NEW t \in HazardTimers PROVE Left(vtlist', t) <= TimeoutCancel
    <3>1. Left(vtlist, t) \in Int /\ Left(vtlist, t) <= TimeoutCancel
      BY <1>2, ArmedIsLeft DEF ListInv
    <3>2. CASE Armed(vtlist, t)
      <4>1. Left(vtlist, t) \in Int /\ Left(vtlist, t) <= TimeoutCancel
            /\ Left(vtlist', t) = Left(vtlist, t) - 1
        BY <1>3, <3>1, <3>2
      <4>2. TimeoutCancel \in Int BY HazardAssumption DEF HazardAssumption
      <4> QED BY <4>1, <4>2
    <3>3. CASE ~Armed(vtlist, t)
      <4>1. ~Armed(vtlist', t) BY <1>3, <3>3
      <4> QED BY <3>1, <3>3, <4>1, LeftOff
    <3> QED BY <3>2, <3>3
  <2> QED BY <1>3, <2>1 DEF ListInv
<1>5. SampleBeforeCancel(vtlist')
  <2> SUFFICES ASSUME Armed(vtlist', "vtsample")
               PROVE  /\ Armed(vtlist', "vtcancel")
                      /\ Left(vtlist', "vtsample") < Left(vtlist', "vtcancel")
    BY DEF SampleBeforeCancel
  <2>1. Armed(vtlist, "vtsample") BY <1>3
  <2>2. Armed(vtlist, "vtcancel") /\ Left(vtlist, "vtsample") < Left(vtlist, "vtcancel")
    BY <2>1 DEF TimersInv, SampleBeforeCancel
  <2>3. Left(vtlist, "vtsample") \in Int /\ Left(vtlist, "vtcancel") \in Int
    BY <1>2, ArmedIsLeft
  <2>4. Left(vtlist', "vtsample") = Left(vtlist, "vtsample") - 1
        /\ Left(vtlist', "vtcancel") = Left(vtlist, "vtcancel") - 1
        /\ Armed(vtlist', "vtcancel")
    BY <1>3, <2>1, <2>2
  <2> QED BY <2>2, <2>3, <2>4
<1>6. TimersInv'
  BY <1>1, <1>3, <1>4, <1>5 DEF TimersInv, ListInv, NoneDue, SampleBeforeCancel
<1> QED BY <1>1, <1>3, <1>6

\* A timer expires; when it is the sample, the cancel timer stays armed.
LEMMA ExpireTimers ==
    ASSUME HazardAssumption, TimersInv, HazardExpire
    PROVE  /\ TimersInv'
           /\ Armed(vtlist, "vtcancel") => Armed(vtlist', "vtcancel") \/ fn' = "vtcancel"
<1> DEFINE head == Head(vtlist).vt
<1>1. /\ ticking /\ fn = NULL /\ Due(vtlist) /\ fn' = head /\ vtlist' = Tail(vtlist)
      /\ ticking' = ticking /\ icu' = icu
  BY DEF HazardExpire, TakeDueTimer, hazstate
<1>2. ListInv(vtlist) BY DEF TimersInv
<1>3. /\ vtlist' \in Lists(HazardTimers) /\ Distinct(vtlist') /\ InOrder(vtlist')
      /\ head \in HazardTimers /\ Left(vtlist, head) = 0
      /\ \A t : Left(vtlist', t) = IF t = head THEN -1 ELSE Left(vtlist, t)
  BY <1>1, <1>2, TailEffect DEF ListInv
<1> HIDE DEF head
<1>4. ListInv(vtlist')
  <2>1. TimeoutCancel \in Int /\ -1 <= TimeoutCancel BY DEF HazardAssumption
  <2>2. \A t \in HazardTimers : Left(vtlist', t) <= TimeoutCancel BY <1>2, <1>3, <2>1 DEF ListInv
  <2> QED BY <1>3, <2>2 DEF ListInv
<1>5. \A t : /\ Armed(vtlist, t) <=> Left(vtlist, t) >= 0
             /\ Armed(vtlist', t) <=> Left(vtlist', t) >= 0
  BY <1>2, <1>4, ArmedIsLeft
<1>6. ASSUME NEW t, t # head PROVE Armed(vtlist', t) <=> Armed(vtlist, t)
  <2>1. Left(vtlist', t) = Left(vtlist, t) BY <1>3, <1>6
  <2> QED BY <1>5, <2>1
<1>7. ~Armed(vtlist', head) BY <1>3, <1>5
<1>8. Armed(vtlist, head) BY <1>3, <1>5
<1>9. Armed(vtlist, "vtsample") => head # "vtcancel"
  <2> SUFFICES ASSUME Armed(vtlist, "vtsample"), head = "vtcancel" PROVE FALSE OBVIOUS
  <2>1. Left(vtlist, "vtsample") < Left(vtlist, "vtcancel") BY DEF TimersInv, SampleBeforeCancel
  <2>2. Left(vtlist, "vtsample") >= 0 /\ Left(vtlist, "vtsample") \in Int
    BY <1>2, <1>5, ArmedIsLeft
  <2> QED BY <1>3, <2>1, <2>2
<1>10. SampleBeforeCancel(vtlist')
  <2> SUFFICES ASSUME Armed(vtlist', "vtsample")
               PROVE  /\ Armed(vtlist', "vtcancel")
                      /\ Left(vtlist', "vtsample") < Left(vtlist', "vtcancel")
    BY DEF SampleBeforeCancel
  <2>1. head # "vtsample" /\ Armed(vtlist, "vtsample") BY <1>6, <1>7
  <2>2. head # "vtcancel" BY <1>9, <2>1
  <2>3. Armed(vtlist, "vtcancel") /\ Left(vtlist, "vtsample") < Left(vtlist, "vtcancel")
    BY <2>1 DEF TimersInv, SampleBeforeCancel
  <2> QED BY <1>3, <1>6, <2>1, <2>2, <2>3
<1>11. fn' = "vtsample" => Armed(vtlist', "vtcancel")
  <2> SUFFICES ASSUME head = "vtsample" PROVE Armed(vtlist', "vtcancel") BY <1>1
  <2>1. Armed(vtlist, "vtcancel") BY <1>8 DEF TimersInv, SampleBeforeCancel
  <2> QED BY <1>6, <2>1
<1>12. icu
  <2>1. vtlist # <<>> BY <1>1 DEF Due
  <2> QED BY <2>1 DEF TimersInv
<1>13. TimersInv'
  BY <1>1, <1>3, <1>4, <1>10, <1>11, <1>12
  DEF TimersInv, ListInv, NoneDue, SampleBeforeCancel
<1> QED BY <1>1, <1>6, <1>13

\* The tick ends, or a callback returns, with the list as it is.
LEMMA OtherTimers ==
    ASSUME HazardAssumption, TimersInv,
           HazardTickDone \/ (fn' = NULL /\ UNCHANGED <<vtlist, ticking, icu>>)
                    \/ UNCHANGED <<vtlist, ticking, fn, icu>>
    PROVE  TimersInv' /\ vtlist' = vtlist
<1>1. vtlist' = vtlist /\ icu' = icu BY DEF HazardTickDone, TickEnds, hazstate
<1>2. ListInv(vtlist') /\ SampleBeforeCancel(vtlist')
  BY <1>1 DEF TimersInv
<1>3. CASE HazardTickDone
  <2>1. ~Due(vtlist) /\ ~ticking' /\ ticking' \in BOOLEAN /\ fn' = fn
    BY <1>3 DEF HazardTickDone, TickEnds
  <2>2. NoneDue(vtlist)
    <3> SUFFICES ASSUME vtlist # <<>> PROVE vtlist[1].vt_time >= 1 BY DEF NoneDue
    <3>1. vtlist \in Lists(HazardTimers) /\ InOrder(vtlist) BY DEF TimersInv, ListInv
    <3>2. 1 \in 1..Len(vtlist) BY <3>1, EmptySeq, ListTypes DEF Lists
    <3>3. vtlist[1].vt_time \in Int /\ vtlist[1].vt_time >= 0
      BY <3>1, <3>2, ListTypes DEF InOrder
    <3> QED BY <2>1, <3>3 DEF Due
  <2> QED BY <1>1, <1>2, <2>1, <2>2 DEF TimersInv, ListInv, NoneDue, SampleBeforeCancel
<1>4. CASE (fn' = NULL \/ fn' = fn) /\ ticking' = ticking
  <2>1. fn' \in HazardTimers \cup {NULL} BY <1>4 DEF TimersInv
  <2>2. fn' = "vtsample" => fn = "vtsample" BY <1>4 DEF HazardAssumption, HazardTimers
  <2> QED
    BY <1>1, <1>2, <1>4, <2>1, <2>2 DEF TimersInv, ListInv, NoneDue, SampleBeforeCancel
<1> QED BY <1>1, <1>3, <1>4 DEF HazardTickDone, TickEnds
----------------------------------------------------------------------------
(* The window *)

\* A window is finite and holds NUM_HAZ flashes at most.
LEMMA FlashCount ==
    ASSUME HazardAssumption, NEW w \in Windows
    PROVE  /\ IsFiniteSet(Flashes(w))
           /\ Cardinality(Flashes(w)) \in 0..NUM_HAZ
<1>1. NUM_HAZ \in Nat /\ 0 \in Int /\ NUM_HAZ - 1 \in Int BY DEF HazardAssumption
<1>2. /\ IsFiniteSet(0..NUM_HAZ - 1)
      /\ Cardinality(0..NUM_HAZ - 1) = IF 0 > NUM_HAZ - 1 THEN 0 ELSE (NUM_HAZ - 1) - 0 + 1
  BY <1>1, FS_Interval
<1>3. Flashes(w) \subseteq 0..NUM_HAZ - 1 BY DEF Flashes, Windows
<1>4. /\ IsFiniteSet(Flashes(w))
      /\ Cardinality(Flashes(w)) <= Cardinality(0..NUM_HAZ - 1)
  BY <1>2, <1>3, FS_Subset
<1>5. Cardinality(Flashes(w)) \in Nat BY <1>4, FS_CardinalityType
<1> QED BY <1>1, <1>2, <1>4, <1>5

LEMMA EmptyWindow ==
    NoFlashes \in Windows /\ Cardinality(Flashes(NoFlashes)) = 0
<1>1. NoFlashes \in Windows BY DEF NoFlashes, Windows
<1>2. Flashes(NoFlashes) = {} BY DEF Flashes, NoFlashes
<1> QED BY <1>1, <1>2, FS_EmptySet

\* One more flash, in the place of an old one or of none.
LEMMA NextWindow ==
    ASSUME HazardAssumption, NEW w \in Windows, NEW i \in 0..NUM_HAZ - 1
    PROVE  /\ [w EXCEPT ![i] = 1] \in Windows
           /\ Cardinality(Flashes([w EXCEPT ![i] = 1])) = Cardinality(Flashes(w)) + 1 - w[i]
<1> DEFINE new == [w EXCEPT ![i] = 1]
<1>1. new \in Windows BY DEF Windows
<1>2. w[i] \in 0..1 /\ i \in DOMAIN w BY DEF Windows
<1>3. IsFiniteSet(Flashes(w)) /\ Cardinality(Flashes(w)) \in Int BY FlashCount
<1>4. CASE w[i] = 1
  <2>1. Flashes(new) = Flashes(w) BY <1>2, <1>4 DEF Flashes
  <2> QED BY <1>1, <1>3, <1>4, <2>1
<1>5. CASE w[i] = 0
  <2>1. Flashes(new) = Flashes(w) \cup {i} BY <1>2 DEF Flashes, Windows
  <2>2. i \notin Flashes(w) BY <1>5 DEF Flashes
  <2>3. Cardinality(Flashes(w) \cup {i}) = Cardinality(Flashes(w)) + 1
    BY <1>3, <2>2, FS_AddElement
  <2>4. Cardinality(Flashes(new)) = Cardinality(Flashes(w)) + 1 BY <2>1, <2>3
  <2>5. Cardinality(Flashes(w)) + 1 - w[i] = Cardinality(Flashes(w)) + 1 BY <1>3, <1>5
  <2> QED BY <1>1, <2>4, <2>5
<1>6. w[i] = 0 \/ w[i] = 1 BY <1>2
<1> HIDE DEF new
<1> QED BY <1>4, <1>5, <1>6

----------------------------------------------------------------------------
(* The state machine *)

\* A flash that is counted, or the one too many that cancels.
LEMMA CountInv ==
    ASSUME HazardAssumption, WindowInv, ModeInv, CountFlash
    PROVE  /\ WindowInv' /\ ModeInv'
           /\ HazardState' = "STATE_USER_H" =>
                 HazardState = "STATE_USER_H" \/ PendHazState = 2
<1>1. /\ NUM_HAZ \in Nat /\ NUM_HAZ >= 1 /\ FlashesCancel \in Nat /\ hazIndex \in 0..NUM_HAZ - 1
      /\ hazCount \in 0..FlashesCancel /\ hazArray \in Windows
      /\ hazSum = Cardinality(Flashes(hazArray))
  BY DEF HazardAssumption, WindowInv
<1>2. (hazIndex + 1) % NUM_HAZ \in 0..NUM_HAZ - 1 BY <1>1
<1>3. CASE /\ hazCount < FlashesCancel
           /\ hazArray' = [hazArray EXCEPT ![hazIndex] = 1]
           /\ hazSum' = WindowSum(hazArray[hazIndex])
           /\ hazIndex' = (hazIndex + 1) % NUM_HAZ
           /\ LET detected == WindowSum(hazArray[hazIndex]) > FlashesDetect
              IN /\ PendHazState' = IF detected /\ PendHazState \in {0, 2}
                                    THEN PendHazState + 1 ELSE PendHazState
                 /\ hazCount' = IF detected /\ PendHazState = 1
                                THEN hazCount + 1 ELSE hazCount
                 /\ IF detected /\ PendHazState = 2
                    THEN HazardState' = "STATE_USER_H" /\ sent' = "EVENT_USER_H"
                    ELSE UNCHANGED <<HazardState, sent>>
  <2>1. hazArray' \in Windows /\ hazSum' = Cardinality(Flashes(hazArray'))
    BY <1>1, <1>3, NextWindow DEF WindowSum
  <2>2. hazCount' \in 0..FlashesCancel BY <1>1, <1>3
  <2>3. WindowInv' BY <1>2, <1>3, <2>1, <2>2 DEF WindowInv, Flashes, Windows
  <2>4. ModeInv' BY <1>3 DEF ModeInv, EventsTellMode
  <2> QED BY <1>3, <2>3, <2>4
<1>4. CASE /\ LeaveHazardMode
           /\ PendHazState' = 0
           /\ hazArray' = NoFlashes /\ hazSum' = 0 /\ hazCount' = 0
           /\ hazIndex' = (hazIndex + 1) % NUM_HAZ
  <2>1. WindowInv' BY <1>1, <1>2, <1>4, EmptyWindow DEF WindowInv, Flashes, Windows
  <2>2. ModeInv' BY <1>4 DEF ModeInv, EventsTellMode, LeaveHazardMode
  <2> QED BY <1>4, <2>1, <2>2 DEF LeaveHazardMode
<1> QED BY <1>3, <1>4 DEF CountFlash

\* The callback of the sample: the mode is entered while the cancel timer runs.
LEMMA SampleInv ==
    ASSUME HazardAssumption, HazardInv, NEW l, NEW r, TimerFlashSample(l, r)
    PROVE  HazardInv'
<1>1. fn = "vtsample" /\ fn' = NULL /\ UNCHANGED <<vtlist, ticking, icu>>
  BY DEF TimerFlashSample, Callback
<1>2. TimersInv' /\ vtlist' = vtlist BY <1>1, OtherTimers DEF HazardInv
<1>3. Armed(vtlist', "vtcancel") BY <1>1, <1>2 DEF HazardInv, TimersInv
<1>4. WindowInv' /\ ModeInv'
  <2>1. CASE CountFlash BY <2>1, CountInv DEF HazardInv
  <2>2. CASE UNCHANGED <<hazvars, PendHazState, HazardState, sent>>
    BY <2>2 DEF hazvars, HazardInv, WindowInv, ModeInv, EventsTellMode, Flashes
  <2> QED BY <2>1, <2>2 DEF TimerFlashSample
<1> QED BY <1>2, <1>3, <1>4 DEF HazardInv, HazardModeIsTimed

\* The callback of a pause.
LEMMA OffInv ==
    ASSUME HazardAssumption, HazardInv, TimerFlashOff
    PROVE  HazardInv'
<1>1. fn = "vtoff" /\ fn' = NULL /\ UNCHANGED <<vtlist, ticking, icu>>
  BY DEF TimerFlashOff, Callback
<1>2. TimersInv' /\ vtlist' = vtlist BY <1>1, OtherTimers DEF HazardInv
<1>3. WindowInv'
  <2>1. FlashesCancel \in Nat BY DEF HazardAssumption
  <2> QED BY <2>1, EmptyWindow
       DEF TimerFlashOff, ForgetFlashes, HazardInv, WindowInv, Flashes, Windows
<1>4. ModeInv' BY DEF TimerFlashOff, HazardInv, ModeInv, EventsTellMode
<1>5. HazardModeIsTimed'
  BY <1>1, <1>2 DEF TimerFlashOff, HazardInv, HazardModeIsTimed
<1> QED BY <1>2, <1>3, <1>4, <1>5 DEF HazardInv

\* The callback of the cancel timer leaves the mode.
LEMMA CancelInv ==
    ASSUME HazardAssumption, HazardInv, TimerFlashCancel
    PROVE  HazardInv'
<1>1. fn = "vtcancel" /\ fn' = NULL /\ UNCHANGED <<vtlist, ticking, icu>>
  BY DEF TimerFlashCancel, Callback
<1>2. TimersInv' /\ vtlist' = vtlist BY <1>1, OtherTimers DEF HazardInv
<1>3. WindowInv'
  <2>1. FlashesCancel \in Nat BY DEF HazardAssumption
  <2> QED BY <2>1, EmptyWindow
       DEF TimerFlashCancel, ForgetFlashes, HazardInv, WindowInv, Flashes, Windows
<1>4. ModeInv' /\ HazardState' = "STATE_USER_O"
  BY DEF TimerFlashCancel, LeaveHazardMode, HazardInv, ModeInv, EventsTellMode
<1> QED BY <1>2, <1>3, <1>4 DEF HazardInv, HazardModeIsTimed

\* Steps of the timers leave the state machine alone.
LEMMA TimerStepInv ==
    ASSUME HazardAssumption, HazardInv,
           \/ HazardPeriodCB \/ initHazard \/ HazardTick \/ HazardExpire \/ HazardTickDone
           \/ UNCHANGED hazardvars
    PROVE  HazardInv'
<1>1. UNCHANGED <<hazvars, PendHazState, HazardState, sent>>
  BY DEF HazardPeriodCB, initHazard, HazardTick, TickBegins, HazardExpire, TakeDueTimer,
         HazardTickDone, TickEnds, hazardvars, hazstate, timervars
<1>2. WindowInv' /\ ModeInv'
  BY <1>1 DEF hazvars, HazardInv, WindowInv, ModeInv, EventsTellMode, Flashes
<1>3. HazardState' = HazardState BY <1>1
<1>4. TimersInv BY DEF HazardInv
<1>5. CASE HazardPeriodCB
  BY <1>2, <1>4, <1>5, EdgeTimers DEF HazardInv, HazardModeIsTimed
<1>6. CASE initHazard
  BY <1>2, <1>4, <1>6, StartTimersInv DEF HazardInv, HazardModeIsTimed
<1>7. CASE HazardTick
  <2>1. "vtcancel" \in HazardTimers BY DEF HazardTimers
  <2>2. TimersInv' /\ fn' = fn /\ Armed(vtlist', "vtcancel") = Armed(vtlist, "vtcancel")
    BY <1>4, <1>7, <2>1, TickTimers
  <2> QED BY <1>2, <1>3, <2>2 DEF HazardInv, HazardModeIsTimed
<1>8. CASE HazardExpire
  <2>1. fn # "vtcancel" BY <1>8 DEF HazardExpire, TakeDueTimer, HazardAssumption, HazardTimers
  <2>2. /\ TimersInv'
        /\ Armed(vtlist, "vtcancel") => Armed(vtlist', "vtcancel") \/ fn' = "vtcancel"
    BY <1>4, <1>8, ExpireTimers
  <2> QED BY <1>2, <1>3, <2>1, <2>2 DEF HazardInv, HazardModeIsTimed
<1>9. CASE HazardTickDone
  <2>1. fn' = fn BY <1>9 DEF HazardTickDone, TickEnds
  <2>2. TimersInv' /\ vtlist' = vtlist BY <1>4, <1>9, OtherTimers
  <2> QED BY <1>2, <1>3, <2>1, <2>2 DEF HazardInv, HazardModeIsTimed
<1>10. CASE UNCHANGED hazardvars
  <2>1. UNCHANGED <<vtlist, ticking, fn, icu>> BY <1>10 DEF hazardvars, hazstate, timervars
  <2>2. TimersInv' /\ vtlist' = vtlist BY <1>4, <2>1, OtherTimers
  <2> QED BY <1>2, <1>3, <2>1, <2>2 DEF HazardInv, HazardModeIsTimed
<1> QED BY <1>5, <1>6, <1>7, <1>8, <1>9, <1>10

\* Nothing is armed and nothing was seen.
LEMMA InitHazard ==
    ASSUME HazardAssumption, HazardInit
    PROVE  HazardInv
<1>1. vtlist = <<>> /\ Len(vtlist) = 0 BY DEF HazardInit
<1>2. \A t : ~Armed(vtlist, t) BY <1>1 DEF Armed
<1>3. \A t : Left(vtlist, t) = -1 BY <1>2, LeftOff
<1>4. ListInv(vtlist)
  <2>1. vtlist \in Lists(HazardTimers) BY <1>1 DEF Lists
  <2>2. -1 <= TimeoutCancel BY DEF HazardAssumption
  <2> QED BY <1>1, <1>3, <2>1, <2>2 DEF ListInv, Distinct, InOrder
<1>5. TimersInv
  BY <1>1, <1>2, <1>4
  DEF HazardInit, TimersInv, NoneDue, SampleBeforeCancel, HazardAssumption, HazardTimers
<1>6. WindowInv
  <2>1. NUM_HAZ \in Nat /\ NUM_HAZ >= 1 /\ FlashesCancel \in Nat BY DEF HazardAssumption
  <2> QED BY <2>1, EmptyWindow DEF HazardInit, WindowInv
<1>7. ModeInv /\ HazardModeIsTimed
  BY DEF HazardInit, ModeInv, EventsTellMode, HazardModeIsTimed
<1> QED BY <1>5, <1>6, <1>7 DEF HazardInv

\* The inductive invariant of the detection.
THEOREM HazardInvariant == HazardSpec => []HazardInv
<1>1. HazardInv /\ [HazardNext]_hazardvars => HazardInv'
  <2> USE HazardAssumption
  <2>1. ASSUME HazardInv, NEW lr \in Samples, TimerFlashSample(lr[1], lr[2]) PROVE HazardInv'
    BY <2>1, SampleInv
  <2> QED BY <2>1, OffInv, CancelInv, TimerStepInv DEF HazardNext
<1> QED BY <1>1, InitHazard, HazardAssumption, PTL DEF HazardSpec

\* hazSum is the number of flashes in the window (hazard_sensor.c:165-166), and
\* every variable keeps its type.
THEOREM SumIsThatOfWindow == HazardSpec => []SumMatchesWindow
<1>1. HazardInv => SumMatchesWindow
  <2> SUFFICES ASSUME HazardInv PROVE SumMatchesWindow OBVIOUS
  <2>1. hazSum \in 0..NUM_HAZ BY HazardAssumption, FlashCount DEF HazardInv, WindowInv
  <2>2. vtlist \in Seq([vt : HazardTimers, vt_time : 0..TimeoutCancel])
    BY HazardAssumption, ListType DEF HazardInv, TimersInv
  <2>3. HazardTypeOK
    BY <2>1, <2>2
    DEF HazardInv, TimersInv, WindowInv, ModeInv, HazardTypeOK, Windows
  <2> QED BY <2>3 DEF HazardInv, WindowInv, Flashes, SumMatchesWindow
<1> QED BY <1>1, HazardInvariant, PTL

\* The phase, the mode and the event sent last agree (hazard_sensor.c:175-176,
\* 196-201, 238-246).
THEOREM EventsAndModeAgree == HazardSpec => []EventsTellMode
<1>1. HazardInv => EventsTellMode BY DEF HazardInv, ModeInv
<1> QED BY <1>1, HazardInvariant, PTL

\* While the mode is on its cancel timer runs or its callback is due, so that
\* the mode cannot get stuck (hazard_sensor.c:99-103).
THEOREM ModeIsTimed == HazardSpec => []HazardModeIsTimed
<1>1. HazardInv => HazardModeIsTimed BY DEF HazardInv
<1> QED BY <1>1, HazardInvariant, PTL
----------------------------------------------------------------------------
(* Two bursts *)

\* The window holds flashes of the present burst only, and the phase remembers
\* that a burst has been long enough: first the present one, then the first one.
BurstInv ==
    /\ burst \in 0..MaxFlashes /\ first \in 0..MaxFlashes
    /\ hazSum <= burst \/ burst = MaxFlashes
    /\ PendHazState = 1 => burst > FlashesDetect
    /\ PendHazState = 2 => first > FlashesDetect

TwoBurstsInv == WindowInv /\ ModeInv /\ BurstInv

\* A flash, counted or not.
LEMMA FlashBurst ==
    ASSUME HazardAssumption, HistoryAssumption, TwoBurstsInv, CountFlash,
           burst' = AtMost(burst + 1, MaxFlashes), first' = first
    PROVE  /\ BurstInv'
           /\ HazardState = "STATE_USER_O" /\ HazardState' = "STATE_USER_H" =>
                 first > FlashesDetect /\ burst' > FlashesDetect
<1>1. /\ burst \in 0..MaxFlashes /\ first \in 0..MaxFlashes /\ MaxFlashes \in Nat
      /\ FlashesDetect \in Nat /\ FlashesDetect < MaxFlashes
      /\ hazSum <= burst \/ burst = MaxFlashes
  BY DEF TwoBurstsInv, BurstInv, HistoryAssumption, HazardAssumption
<1>2. hazArray[hazIndex] \in 0..1 BY DEF TwoBurstsInv, WindowInv, Windows
<1>3. hazSum \in Nat /\ 0 <= burst'
  <2>1. Cardinality(Flashes(hazArray)) \in 0..NUM_HAZ
    BY FlashCount DEF TwoBurstsInv, WindowInv
  <2> QED BY <1>1, <2>1 DEF TwoBurstsInv, WindowInv, AtMost
<1>4. burst' \in 0..MaxFlashes /\ burst <= burst' BY <1>1 DEF AtMost
<1>5. CASE /\ hazSum' = hazSum + 1 - hazArray[hazIndex]
           /\ PendHazState' = IF hazSum' > FlashesDetect /\ PendHazState \in {0, 2}
                              THEN PendHazState + 1 ELSE PendHazState
           /\ ~(hazSum' > FlashesDetect /\ PendHazState = 2) => HazardState' = HazardState
  <2>1. hazSum' <= burst' \/ burst' = MaxFlashes BY <1>1, <1>2, <1>3, <1>5 DEF AtMost
  <2>2. hazSum' > FlashesDetect => burst' > FlashesDetect
    BY <1>1, <1>2, <1>3, <1>4, <1>5, <2>1
  <2>3. PendHazState \in 0..3
        /\ PendHazState = 1 => burst > FlashesDetect
    BY DEF TwoBurstsInv, BurstInv, ModeInv
  <2>4. PendHazState = 2 => first > FlashesDetect BY DEF TwoBurstsInv, BurstInv
  <2>5. PendHazState' = 1 => burst' > FlashesDetect
    BY <1>1, <1>4, <1>5, <2>2 DEF TwoBurstsInv, BurstInv, ModeInv
  <2>6. PendHazState' = 2 => first' > FlashesDetect
    BY <1>5, <2>4 DEF TwoBurstsInv, ModeInv
  <2> QED BY <1>1, <1>4, <1>5, <2>1, <2>2, <2>4, <2>5, <2>6 DEF BurstInv
<1>6. CASE LeaveHazardMode /\ PendHazState' = 0 /\ hazSum' = 0
  BY <1>1, <1>3, <1>4, <1>6 DEF BurstInv, LeaveHazardMode
<1> QED BY <1>5, <1>6 DEF CountFlash, WindowSum

\* One step, and what it means for the entry of the mode.
LEMMA TwoBurstsStep ==
    ASSUME HazardAssumption, HistoryAssumption, TwoBurstsInv, [HistoryNext]_histvars
    PROVE  /\ TwoBurstsInv'
           /\ HazardState = "STATE_USER_O" /\ HazardState' = "STATE_USER_H" =>
                 first > FlashesDetect /\ burst' > FlashesDetect
<1> DEFINE Same == UNCHANGED <<hazvars, PendHazState, HazardState, sent, burst, first>>
<1>1. CASE Same
  BY <1>1 DEF hazvars, TwoBurstsInv, WindowInv, ModeInv, BurstInv, EventsTellMode, Flashes
<1>2. ASSUME NEW lr \in Samples, TimerFlashSample(lr[1], lr[2]),
             IF lr[1] /\ lr[2]
             THEN quiet' = 0 /\ burst' = AtMost(burst + 1, MaxFlashes)
             ELSE UNCHANGED <<quiet, burst>>,
             UNCHANGED first
      PROVE  /\ TwoBurstsInv'
             /\ HazardState = "STATE_USER_O" /\ HazardState' = "STATE_USER_H" =>
                   first > FlashesDetect /\ burst' > FlashesDetect
  <2>1. CASE lr[1] /\ lr[2]
    <3>1. CountFlash /\ burst' = AtMost(burst + 1, MaxFlashes) BY <1>2, <2>1 DEF TimerFlashSample
    <3>2. WindowInv' /\ ModeInv' BY <3>1, CountInv DEF TwoBurstsInv
    <3> QED BY <1>2, <3>1, <3>2, FlashBurst DEF TwoBurstsInv
  <2>2. CASE ~(lr[1] /\ lr[2])
    <3>1. Same BY <1>2, <2>2 DEF TimerFlashSample
    <3> QED BY <1>1, <3>1
  <2> QED BY <2>1, <2>2
<1>3. CASE /\ TimerFlashOff
           /\ first' = IF burst > first THEN burst ELSE first
           /\ burst' = 0
  <2>1. WindowInv'
    <3>1. FlashesCancel \in Nat BY DEF HazardAssumption
    <3> QED BY <1>3, <3>1, EmptyWindow
         DEF TimerFlashOff, ForgetFlashes, TwoBurstsInv, WindowInv, Flashes, Windows
  <2>2. ModeInv' BY <1>3 DEF TimerFlashOff, TwoBurstsInv, ModeInv, EventsTellMode
  <2>3. BurstInv'
    BY <1>3 DEF TimerFlashOff, ForgetFlashes, TwoBurstsInv, BurstInv, ModeInv,
                HistoryAssumption, HazardAssumption
  <2> QED BY <1>3, <2>1, <2>2, <2>3 DEF TwoBurstsInv, TimerFlashOff
<1>4. CASE TimerFlashCancel /\ first' = 0 /\ burst' = 0
  <2>1. WindowInv'
    <3>1. FlashesCancel \in Nat BY DEF HazardAssumption
    <3> QED BY <1>4, <3>1, EmptyWindow
         DEF TimerFlashCancel, ForgetFlashes, TwoBurstsInv, WindowInv, Flashes, Windows
  <2>2. ModeInv' /\ HazardState' = "STATE_USER_O" /\ PendHazState' = 0
    BY <1>4 DEF TimerFlashCancel, LeaveHazardMode, TwoBurstsInv, ModeInv, EventsTellMode
  <2>3. BurstInv'
    BY <1>4, <2>2 DEF TimerFlashCancel, ForgetFlashes, BurstInv, HistoryAssumption
  <2> QED BY <2>1, <2>2, <2>3 DEF TwoBurstsInv
<1>5. CASE (HazardPeriodCB \/ initHazard \/ HazardExpire \/ HazardTickDone) /\ UNCHANGED history
  <2>1. Same BY <1>5
    DEF HazardPeriodCB, initHazard, HazardExpire, HazardTickDone, hazstate, history
  <2> QED BY <1>1, <2>1
<1>6. CASE HazardTick /\ UNCHANGED <<burst, first>>
  <2>1. Same BY <1>6 DEF HazardTick, hazstate
  <2> QED BY <1>1, <2>1
<1>7. CASE UNCHANGED histvars
  <2>1. Same BY <1>7 DEF histvars, hazardvars, hazstate, timervars, history
  <2> QED BY <1>1, <2>1
<1> HIDE DEF Same
<1> QED BY <1>2, <1>3, <1>4, <1>5, <1>6, <1>7 DEF HistoryNext

\* Hazard mode needs two bursts of more than FlashesDetect flashes with a pause
\* between them, for every threshold and timeout (hazard_sensor.c:170-199).
THEOREM ModeNeedsTwoBursts == HistorySpec => EntryNeedsTwoBursts
<1>1. HistoryInit => TwoBurstsInv
  <2> SUFFICES ASSUME HistoryInit PROVE TwoBurstsInv OBVIOUS
  <2>1. HazardInv BY HazardAssumption, InitHazard DEF HistoryInit
  <2>2. BurstInv BY HistoryAssumption DEF HistoryInit, HazardInit, BurstInv
  <2> QED BY <2>1, <2>2 DEF HazardInv, TwoBurstsInv
<1>2. TwoBurstsInv /\ [HistoryNext]_histvars =>
        /\ TwoBurstsInv'
        /\ [(HazardState = "STATE_USER_O" /\ HazardState' = "STATE_USER_H") =>
              first > FlashesDetect /\ burst' > FlashesDetect]_histvars
  BY HazardAssumption, HistoryAssumption, TwoBurstsStep
<1> QED BY <1>1, <1>2, PTL DEF HistorySpec, EntryNeedsTwoBursts

----------------------------------------------------------------------------
(* The heap *)

Walking(t) == pc[t].at \in {"alloc", "free"}

\* Every block lies in the memory the core has given away.
InBounds == \A a \in Blocks : BASE <= a /\ blk[a].end <= nextmem

WalksOK ==
    /\ \A t, u \in Threads : Walking(t) /\ Walking(u) => t = u
    /\ \A t \in Threads :
          /\ Walking(t) => pc[t].qp \in Free \cup {NIL}
          /\ pc[t].at = "free" =>
                /\ pc[t].p \in Blocks
                /\ blk[pc[t].p].st = "used"
                /\ pc[t].qp # NIL => pc[t].qp < pc[t].p

Records == [st : {"free", "used", "core"}, end : Nat, next : Addr \cup {NIL}]

\* What concerns the memory only.
MemInv ==
    /\ Blocks \subseteq Addr
    /\ blk \in [Blocks -> Records]
    /\ h_free \in Addr \cup {NIL}
    /\ nextmem \in BASE..ENDMEM
    /\ InBounds /\ MemoryIsPartitioned /\ FreeBlocksAreMerged

HeapInv == MemInv /\ WalksOK /\ pc \in [Threads -> Doing]

LEMMA InitHeap == HeapInit => HeapInv
<1> SUFFICES ASSUME HeapInit PROVE HeapInv
  OBVIOUS
<1>1. pc \in [Threads -> Doing] /\ WalksOK
  BY DEF HeapInit, Call, Idle, Doing, WalksOK, Walking
<1>2. CASE /\ blk = [a \in {BASE} |-> Block("free", ENDMEM, NIL)]
           /\ h_free = BASE /\ nextmem = ENDMEM
  <2>1. Blocks = {BASE} /\ Free = {BASE}
    BY <1>2 DEF Blocks, Free, Block
  <2>2. blk[BASE] = Block("free", ENDMEM, NIL)
    BY <1>2
  <2>3. BASE \in Addr /\ ENDMEM # BASE
    BY HeapAssumption DEF Addr
  <2> QED
    BY <1>1, <1>2, <2>1, <2>2, <2>3, HeapAssumption
       DEF HeapInv, MemInv, InBounds, MemoryIsPartitioned, FreeBlocksAreMerged,
           ListIsSorted, NIL, Block, Records
<1>3. CASE /\ blk = [a \in {} |-> NIL]
           /\ h_free = NIL /\ nextmem = BASE
  <2>1. Blocks = {} /\ Free = {}
    BY <1>3 DEF Blocks, Free
  <2>2. blk \in [Blocks -> Records]
    BY <1>3, <2>1
  <2> QED
    BY <1>1, <1>3, <2>1, <2>2, HeapAssumption
       DEF HeapInv, MemInv, InBounds, MemoryIsPartitioned, FreeBlocksAreMerged, ListIsSorted
<1> QED BY <1>2, <1>3 DEF HeapInit

\* Where the list goes on from a place in it.
LEMMA NextIsFree ==
    ASSUME MemInv, NEW qp \in Free \cup {NIL}
    PROVE  /\ Next(qp) \in Free \cup {NIL}
           /\ Next(qp) # NIL => qp < Next(qp)
           /\ \A b \in Free : qp < b => Next(qp) # NIL /\ Next(qp) <= b
<1>1. Free \subseteq Addr BY DEF MemInv, Free
<1> QED
  BY <1>1, HeapAssumption
     DEF MemInv, Next, FreeBlocksAreMerged, ListIsSorted, NIL, Addr

----------------------------------------------------------------------------
(* Steps that leave the memory alone. *)

MemVars == <<blk, h_free, nextmem>>

LEMMA MemUnchanged == ASSUME MemInv, UNCHANGED MemVars PROVE MemInv'
BY DEF MemInv, MemVars, Blocks, Free, InBounds, MemoryIsPartitioned, FreeBlocksAreMerged,
       ListIsSorted

\* A thread that enters the list stands at its header, alone.
LEMMA BeginAlloc ==
    ASSUME HeapInv, NEW t \in Threads, NEW n \in Requests, chHeapAlloc(t, n) PROVE HeapInv'
<1>1. MemInv' BY MemUnchanged DEF HeapInv, chHeapAlloc, MemVars
<1>2. pc' = [pc EXCEPT ![t] = [at |-> "alloc", n |-> n, p |-> NIL, qp |-> NIL]]
  BY DEF chHeapAlloc, Step, Call
<1>3. pc' \in [Threads -> Doing]
  BY <1>2, HeapAssumption DEF Doing, HeapInv
<1>4. WalksOK'
  BY <1>2 DEF HeapInv, WalksOK, Walking, chHeapAlloc, Locked, Free, Blocks
<1> QED BY <1>1, <1>3, <1>4 DEF HeapInv

LEMMA BeginFree ==
    ASSUME HeapInv, NEW t \in Threads, NEW p \in Blocks, chHeapFree(t, p) PROVE HeapInv'
<1>1. MemInv' BY MemUnchanged DEF HeapInv, chHeapFree, MemVars
<1>2. pc' = [pc EXCEPT ![t] = [at |-> "free", n |-> 0, p |-> p, qp |-> NIL]]
  BY DEF chHeapFree, Step, Call
<1>3. pc' \in [Threads -> Doing]
  BY <1>2 DEF Doing, HeapInv, MemInv
<1>4. WalksOK'
  BY <1>2 DEF HeapInv, WalksOK, Walking, chHeapFree, Locked, Free, Blocks
<1> QED BY <1>1, <1>3, <1>4 DEF HeapInv

\* A thread that walks on comes to the next free block, still in front of its own.
LEMMA Walk ==
    ASSUME HeapInv, NEW t \in Threads, WalkOn(t) \/ GoOn(t) PROVE HeapInv'
<1>1. MemInv' BY MemUnchanged DEF HeapInv, WalkOn, GoOn, MemVars
<1>2. /\ pc' = [pc EXCEPT ![t] = [pc[t] EXCEPT !.qp = Next(@)]]
      /\ pc[t].at \in {"alloc", "free"}
      /\ UNCHANGED MemVars
  BY DEF WalkOn, GoOn, Step, MemVars
<1>3. pc[t].qp \in Free \cup {NIL}
  BY <1>2 DEF HeapInv, WalksOK, Walking
<1>4. /\ Next(pc[t].qp) \in Free \cup {NIL}
      /\ \A b \in Free : pc[t].qp < b => Next(pc[t].qp) # NIL /\ Next(pc[t].qp) <= b
  BY <1>3, NextIsFree DEF HeapInv
<1>5. Free \subseteq Addr /\ Free' = Free /\ Blocks' = Blocks
  BY <1>2 DEF Free, HeapInv, MemInv, MemVars, Blocks
<1>6. pc' \in [Threads -> Doing]
  BY <1>2, <1>4, <1>5 DEF HeapInv, Doing
<1>7. pc[t].at = "free" => (Next(pc[t].qp) # NIL => Next(pc[t].qp) < pc[t].p)
  <2> SUFFICES ASSUME pc[t].at = "free", Next(pc[t].qp) # NIL
               PROVE  Next(pc[t].qp) < pc[t].p
    OBVIOUS
  <2>1. /\ pc[t].p \in Blocks /\ blk[pc[t].p].st = "used"
        /\ pc[t].qp = NIL \/ pc[t].qp < pc[t].p
    BY DEF HeapInv, WalksOK
  <2>2. pc[t].p \in Addr /\ Next(pc[t].qp) \in Addr
    BY <1>4, <1>5, <2>1 DEF HeapInv, MemInv
  <2>3. pc[t].qp = NIL \/ pc[t].p > pc[t].qp
    BY <1>3, <1>5, <2>1, <2>2 DEF Addr
  <2>4. ~(pc[t].p < Next(pc[t].qp))
    BY <2>3 DEF WalkOn, GoOn, Here
  <2>5. pc[t].p # Next(pc[t].qp)
    BY <1>4, <2>1 DEF Free
  <2> QED BY <2>2, <2>4, <2>5, HeapAssumption DEF Addr
<1>8. WalksOK'
  BY <1>2, <1>4, <1>5, <1>7 DEF HeapInv, WalksOK, Walking, MemVars, Doing
<1> QED BY <1>1, <1>6, <1>8 DEF HeapInv

\* A thread that leaves the list: nobody else is in it.
LEMMA Leaves ==
    ASSUME HeapInv, NEW t \in Threads, Walking(t), NEW to \in Doing,
           to.at \in {"idle", "ask"}, pc' = [pc EXCEPT ![t] = to]
    PROVE  pc' \in [Threads -> Doing] /\ WalksOK'
BY DEF HeapInv, WalksOK, Walking

LEMMA IdleIsDoing == Idle \in Doing /\ Idle.at = "idle"
BY DEF Idle, Call, Doing

LEMMA GivesUp == ASSUME HeapInv, NEW t \in Threads, NothingFits(t) PROVE HeapInv'
<1>1. MemInv' BY MemUnchanged DEF HeapInv, NothingFits, MemVars
<1>2. pc' = [pc EXCEPT ![t] = [at |-> "ask", n |-> pc[t].n, p |-> NIL, qp |-> NIL]]
  BY DEF NothingFits, Step, Call
<1>3. /\ Walking(t)
      /\ [at |-> "ask", n |-> pc[t].n, p |-> NIL, qp |-> NIL] \in Doing
  BY DEF NothingFits, Walking, HeapInv, Doing
<1> QED BY <1>1, <1>2, <1>3, Leaves DEF HeapInv

----------------------------------------------------------------------------
(* Steps that change the memory. *)

\* The whole block is taken out of the list.
LEMMA TakeWholeInv == ASSUME HeapInv, NEW t \in Threads, TakeWhole(t) PROVE HeapInv'
<1> DEFINE qp == pc[t].qp
           hp == Next(qp)
<1> HIDE DEF qp, hp
<1>1. Walking(t) /\ hp # NIL /\ pc' = [pc EXCEPT ![t] = Idle] /\ nextmem' = nextmem
  BY DEF TakeWhole, Walking, Step, qp, hp
<1>2. pc' \in [Threads -> Doing] /\ WalksOK'
  BY <1>1, Leaves, IdleIsDoing
<1>3. MemInv /\ qp \in Free \cup {NIL}
  BY <1>1 DEF HeapInv, WalksOK, qp
<1>4. /\ hp \in Free /\ qp < hp
      /\ \A b \in Free : qp < b => hp <= b
  BY <1>1, <1>3, NextIsFree DEF hp
<1>5. Free \subseteq Blocks /\ Blocks \subseteq Addr /\ NIL \notin Addr
  BY <1>3 DEF Free, MemInv, Addr, NIL
<1>6. qp # hp /\ hp \in Blocks /\ blk[hp].st = "free"
  BY <1>3, <1>4, <1>5 DEF Addr, Free, NIL
<1>7. /\ Blocks' = Blocks
      /\ h_free' = IF qp = NIL THEN blk[hp].next ELSE h_free
      /\ blk' = [x \in Blocks |->
            IF x = qp THEN Block(blk[x].st, blk[x].end, blk[hp].next)
            ELSE IF x = hp THEN Block("used", blk[hp].end, NIL)
            ELSE blk[x]]
  <2>1. DEFINE b == [blk EXCEPT ![hp] = Block("used", blk[hp].end, NIL)]
  <2>2. /\ DOMAIN b = Blocks
        /\ \A x \in Blocks : b[x] = IF x = hp THEN Block("used", blk[hp].end, NIL) ELSE blk[x]
    BY <1>3, <1>6 DEF MemInv
  <2>3. /\ h_free' = IF qp = NIL THEN blk[hp].next ELSE h_free
        /\ blk' = [x \in DOMAIN b |->
              IF x = qp THEN Block(b[x].st, b[x].end, blk[hp].next) ELSE b[x]]
    BY DEF TakeWhole, Linked, qp, hp
  <2> HIDE DEF b
  <2>4. blk' = [x \in Blocks |->
              IF x = qp THEN Block(b[x].st, b[x].end, blk[hp].next) ELSE b[x]]
    BY <2>2, <2>3
  <2>5. ASSUME NEW x \in Blocks
        PROVE  (IF x = qp THEN Block(b[x].st, b[x].end, blk[hp].next) ELSE b[x]) =
               (IF x = qp THEN Block(blk[x].st, blk[x].end, blk[hp].next)
                ELSE IF x = hp THEN Block("used", blk[hp].end, NIL)
                ELSE blk[x])
    BY <1>6, <2>2
  <2> QED BY <2>3, <2>4, <2>5 DEF Blocks
<1>8. \A x \in Blocks :
         /\ blk'[x].end = blk[x].end
         /\ blk'[x].st = IF x = hp THEN "used" ELSE blk[x].st
         /\ blk'[x].next = IF x = qp THEN blk[hp].next ELSE IF x = hp THEN NIL ELSE blk[x].next
         /\ blk'[x] \in Records
  BY <1>3, <1>6, <1>7 DEF Block, Records, MemInv
<1>9. Free' = Free \ {hp}
  BY <1>5, <1>6, <1>7, <1>8 DEF Free
<1>10. InBounds' /\ MemoryIsPartitioned'
  BY <1>1, <1>3, <1>6, <1>7, <1>8 DEF MemInv, InBounds, MemoryIsPartitioned
<1>11. FreeBlocksAreMerged'
  <2>1. ListIsSorted /\ \A a \in Free : a \in Nat /\ a > 0
    BY <1>3, <1>5 DEF MemInv, FreeBlocksAreMerged, Addr
  <2>2. hp = IF qp = NIL THEN h_free ELSE blk[qp].next
    BY DEF hp, Next, qp
  <2>3. /\ h_free' \in Free' \cup {NIL} /\ (h_free' = NIL => Free' = {})
        /\ \A a \in Free' : h_free' <= a
    BY <1>3, <1>4, <1>6, <1>7, <1>9, <2>1, <2>2 DEF ListIsSorted, NIL
  <2>4. \A a \in Free' :
          /\ blk'[a].next = NIL \/ (blk'[a].next \in Free' /\ a < blk'[a].next)
          /\ \A b \in Free' : a < b => blk'[a].next # NIL /\ blk'[a].next <= b
    BY <1>3, <1>4, <1>5, <1>6, <1>8, <1>9, <2>1, <2>2 DEF ListIsSorted, NIL
  <2>5. \A a \in Free' : blk'[a].end \notin Free'
    BY <1>3, <1>5, <1>8, <1>9 DEF MemInv, FreeBlocksAreMerged
  <2> QED BY <2>3, <2>4, <2>5 DEF FreeBlocksAreMerged, ListIsSorted
<1>12. MemInv'
  BY <1>1, <1>3, <1>5, <1>6, <1>7, <1>8, <1>10, <1>11 DEF MemInv, Records
<1> QED BY <1>2, <1>12 DEF HeapInv

\* The block is cut in two and the second part takes its place in the list.
LEMMA SplitInv == ASSUME HeapInv, NEW t \in Threads, Split(t) PROVE HeapInv'
<1> DEFINE qp == pc[t].qp
           hp == Next(qp)
           fp == hp + HEADER + pc[t].n
<1> HIDE DEF qp, hp, fp
<1>1. Walking(t) /\ hp # NIL /\ pc' = [pc EXCEPT ![t] = Idle] /\ nextmem' = nextmem
  BY DEF Split, Walking, Step, qp, hp
<1>2. pc' \in [Threads -> Doing] /\ WalksOK'
  BY <1>1, Leaves, IdleIsDoing
<1>3. MemInv /\ qp \in Free \cup {NIL} /\ pc[t].n \in Nat
  BY <1>1 DEF HeapInv, WalksOK, Doing, qp
<1>4. /\ hp \in Free /\ qp < hp
      /\ \A b \in Free : qp < b => hp <= b
  BY <1>1, <1>3, NextIsFree DEF hp
<1>5. Free \subseteq Blocks /\ Blocks \subseteq Addr /\ NIL \notin Addr
  BY <1>3 DEF Free, MemInv, Addr, NIL
<1>6. qp # hp /\ hp \in Blocks /\ blk[hp].st = "free"
  BY <1>3, <1>4, <1>5 DEF Addr, Free, NIL
<1>7. blk[hp].end \in Nat /\ hp \in Nat /\ hp > 0 /\ BASE <= hp /\ blk[hp].end <= nextmem
  <2>1. blk[hp].end \in Nat BY <1>3, <1>6 DEF MemInv, Records
  <2>2. BASE <= hp /\ blk[hp].end <= nextmem BY <1>3, <1>6 DEF MemInv, InBounds
  <2>3. hp \in Nat /\ hp > 0
    <3>1. hp \in Addr BY <1>5, <1>6
    <3>2. Addr = 1..ENDMEM /\ ENDMEM \in Nat BY HeapAssumption DEF Addr
    <3> HIDE DEF hp
    <3> QED BY <3>1, <3>2
  <2> QED BY <2>1, <2>2, <2>3
<1>8. blk[hp].end - hp - HEADER >= pc[t].n + HEADER
  BY <1>3, <1>7, HeapAssumption DEF Split, Fragment, Size, qp, hp
<1>9. fp \in Addr /\ hp + HEADER <= fp /\ fp + HEADER <= blk[hp].end /\ hp < fp
  BY <1>3, <1>7, <1>8, HeapAssumption DEF MemInv, fp, Addr
<1>10. fp \notin Blocks
  BY <1>3, <1>5, <1>6, <1>7, <1>9, HeapAssumption DEF MemInv, MemoryIsPartitioned, Addr
<1>11. /\ Blocks' = Blocks \cup {fp}
       /\ h_free' = IF qp = NIL THEN fp ELSE h_free
       /\ blk' = [x \in Blocks \cup {fp} |->
             IF x = fp THEN Block("free", blk[hp].end, blk[hp].next)
             ELSE IF x = qp THEN Block(blk[x].st, blk[x].end, fp)
             ELSE IF x = hp THEN Block("used", fp, NIL)
             ELSE blk[x]]
  <2> DEFINE b == [x \in Blocks \cup {fp} |->
                      IF x = fp THEN Rest(hp, fp)
                      ELSE IF x = hp THEN Block("used", fp, NIL)
                      ELSE blk[x]]
  <2>1. DOMAIN b = Blocks \cup {fp}
    OBVIOUS
  <2>2. \A x \in Blocks \cup {fp} :
           b[x] = IF x = fp THEN Block("free", blk[hp].end, blk[hp].next)
                  ELSE IF x = hp THEN Block("used", fp, NIL)
                  ELSE blk[x]
    BY DEF Rest
  <2>3. /\ h_free' = IF qp = NIL THEN fp ELSE h_free
        /\ blk' = [x \in DOMAIN b |-> IF x = qp THEN Block(b[x].st, b[x].end, fp) ELSE b[x]]
    BY DEF Split, Linked, qp, hp, fp
  <2>4. qp # fp
    BY <1>3, <1>5, <1>9, <1>10
  <2> HIDE DEF b
  <2>5. ASSUME NEW x \in Blocks \cup {fp}
        PROVE  (IF x = qp THEN Block(b[x].st, b[x].end, fp) ELSE b[x]) =
               (IF x = fp THEN Block("free", blk[hp].end, blk[hp].next)
                ELSE IF x = qp THEN Block(blk[x].st, blk[x].end, fp)
                ELSE IF x = hp THEN Block("used", fp, NIL)
                ELSE blk[x])
    BY <1>6, <2>2, <2>4
  <2> QED BY <2>1, <2>3, <2>5 DEF Blocks
<1>12. /\ \A x \in Blocks :
             /\ blk'[x].end = IF x = hp THEN fp ELSE blk[x].end
             /\ blk'[x].st = IF x = hp THEN "used" ELSE blk[x].st
             /\ blk'[x].next = IF x = qp THEN fp ELSE IF x = hp THEN NIL ELSE blk[x].next
       /\ blk'[fp].end = blk[hp].end /\ blk'[fp].st = "free" /\ blk'[fp].next = blk[hp].next
       /\ \A x \in Blocks' : blk'[x] \in Records
  BY <1>3, <1>6, <1>7, <1>9, <1>10, <1>11 DEF Block, Records, MemInv, Addr
<1>13. Free' = (Free \ {hp}) \cup {fp}
  BY <1>5, <1>6, <1>10, <1>11, <1>12 DEF Free
<1>14. InBounds'
  BY <1>1, <1>3, <1>5, <1>6, <1>7, <1>9, <1>11, <1>12, HeapAssumption DEF MemInv, InBounds, Addr
<1>15. MemoryIsPartitioned'
  <2>1. MemoryIsPartitioned /\ \A a \in Blocks : a \in Nat /\ blk[a].end \in Nat
    BY <1>3, <1>5 DEF MemInv, Addr, Records
  <2>2. \A a \in Blocks' :
          /\ a + (IF blk'[a].st = "core" THEN 1 ELSE HEADER) <= blk'[a].end
          /\ blk'[a].end = nextmem' \/ blk'[a].end \in Blocks'
    BY <1>1, <1>6, <1>9, <1>10, <1>11, <1>12, <2>1 DEF MemoryIsPartitioned
  <2>3. \A a, b \in Blocks' : a < b => blk'[a].end <= b
    <3> SUFFICES ASSUME NEW a \in Blocks', NEW b \in Blocks', a < b
                 PROVE  blk'[a].end <= b
      OBVIOUS
    <3>1. fp \in Nat /\ hp <= fp /\ fp <= blk[hp].end
      BY <1>7, <1>9, HeapAssumption DEF Addr
    <3>2. \A x \in Blocks : x > hp => blk[hp].end <= x
      BY <1>6, <2>1 DEF MemoryIsPartitioned
    <3>3. CASE a \in Blocks \ {hp} /\ b \in Blocks
      BY <1>12, <2>1, <3>3 DEF MemoryIsPartitioned
    <3>4. CASE a = hp /\ b \in Blocks
      BY <1>6, <1>7, <1>12, <2>1, <3>1, <3>2, <3>4
    <3>5. CASE a = fp /\ b \in Blocks
      BY <1>7, <1>9, <1>12, <2>1, <3>1, <3>2, <3>5
    <3>6. CASE a \in Blocks \ {hp} /\ b = fp
      <4>1. a < hp
        BY <1>7, <1>9, <2>1, <3>1, <3>2, <3>6, HeapAssumption
      <4> QED BY <1>6, <1>7, <1>12, <2>1, <3>1, <3>6, <4>1 DEF MemoryIsPartitioned
    <3>7. CASE a = hp /\ b = fp
      BY <1>6, <1>12, <3>1, <3>7
    <3> QED BY <1>11, <3>1, <3>3, <3>4, <3>5, <3>6, <3>7
  <2>4. IF nextmem' = BASE THEN Blocks' = {} ELSE BASE \in Blocks'
    BY <1>1, <1>6, <1>11, <2>1 DEF MemoryIsPartitioned
  <2> QED BY <2>2, <2>3, <2>4 DEF MemoryIsPartitioned
<1>16. FreeBlocksAreMerged'
  <2>1. /\ ListIsSorted /\ MemoryIsPartitioned
        /\ \A a \in Blocks : a \in Nat /\ a > 0 /\ blk[a].end \in Nat
        /\ fp \in Nat /\ fp > 0
    BY <1>3, <1>5, <1>9, HeapAssumption DEF MemInv, FreeBlocksAreMerged, Addr, Records
  <2>2. hp = IF qp = NIL THEN h_free ELSE blk[qp].next
    BY DEF hp, Next, qp
  <2>3. \A a \in Free : a < hp \/ a = hp \/ fp < a
    BY <1>5, <1>6, <1>9, <2>1, HeapAssumption DEF MemoryIsPartitioned
  <2>4. /\ h_free' \in Free' \cup {NIL} /\ (h_free' = NIL => Free' = {})
        /\ \A a \in Free' : h_free' <= a
    BY <1>3, <1>4, <1>5, <1>6, <1>9, <1>11, <1>13, <2>1, <2>2, <2>3 DEF ListIsSorted, NIL
  <2>5. \A a \in Free' :
          /\ blk'[a].next = NIL \/ (blk'[a].next \in Free' /\ a < blk'[a].next)
          /\ \A b \in Free' : a < b => blk'[a].next # NIL /\ blk'[a].next <= b
    <3> SUFFICES ASSUME NEW a \in Free'
                 PROVE  /\ blk'[a].next = NIL \/ (blk'[a].next \in Free' /\ a < blk'[a].next)
                        /\ \A b \in Free' : a < b => blk'[a].next # NIL /\ blk'[a].next <= b
      OBVIOUS
    <3>1. /\ \A c \in Free : c \in Nat /\ c > 0
          /\ fp \in Nat /\ hp \in Nat /\ fp # NIL /\ hp < fp
      BY <1>4, <1>5, <1>9, <2>1 DEF NIL
    <3>2. /\ blk[hp].next = NIL \/ (blk[hp].next \in Free /\ hp < blk[hp].next)
          /\ \A b \in Free : hp < b => blk[hp].next # NIL /\ blk[hp].next <= b
      BY <1>4, <2>1 DEF ListIsSorted
    <3>3. CASE a = fp
      <4>1. blk'[a].next = blk[hp].next BY <1>12, <3>3
      <4>2. blk[hp].next # NIL => blk[hp].next \in Free' /\ fp < blk[hp].next
        BY <1>13, <2>3, <3>1, <3>2
      <4>3. \A b \in Free' : fp < b => b \in Free /\ hp < b
        BY <1>13, <3>1
      <4> QED BY <3>2, <3>3, <4>1, <4>2, <4>3
    <3>4. CASE a \in Free \ {hp} /\ a = qp
      <4>1. blk'[a].next = fp BY <1>5, <1>12, <3>4
      <4>2. \A b \in Free' : a < b => fp <= b
        BY <1>4, <1>13, <2>3, <3>1, <3>4
      <4>3. a < fp /\ fp \in Free' BY <1>4, <1>13, <3>1, <3>4
      <4> QED BY <3>1, <4>1, <4>2, <4>3
    <3>5. CASE a \in Free \ {hp} /\ a # qp
      <4>1. blk'[a].next = blk[a].next BY <1>5, <1>12, <3>5
      <4>2. /\ blk[a].next = NIL \/ (blk[a].next \in Free /\ a < blk[a].next)
            /\ \A b \in Free : a < b => blk[a].next # NIL /\ blk[a].next <= b
        BY <2>1, <3>5 DEF ListIsSorted
      <4>3. blk[a].next # hp
        <5> SUFFICES ASSUME blk[a].next = hp PROVE FALSE OBVIOUS
        <5>1. a < hp BY <1>4, <3>1, <3>5, <4>2 DEF NIL
        <5>2. CASE qp = NIL
          BY <1>4, <2>1, <2>2, <3>1, <3>5, <5>1, <5>2 DEF ListIsSorted
        <5>3. CASE qp \in Free /\ qp < a
          BY <1>4, <3>1, <3>5, <5>1, <5>3
        <5>4. CASE qp \in Free /\ a < qp
          <6>1. blk[a].next <= qp BY <4>2, <5>4
          <6>2. hp <= qp BY <6>1
          <6>3. qp \in Nat /\ hp \in Nat /\ qp < hp BY <1>4, <3>1, <5>4
          <6> QED BY <6>2, <6>3
        <5>5. a \in Nat /\ (qp # NIL => qp \in Free /\ qp \in Nat) BY <1>3, <3>1, <3>5
        <5>6. qp = NIL \/ (qp \in Free /\ (qp < a \/ a < qp)) BY <3>5, <5>5
        <5> QED BY <5>2, <5>3, <5>4, <5>6
      <4>4. a < fp => blk[a].next # NIL /\ blk[a].next <= fp
        <5> SUFFICES ASSUME a < fp PROVE blk[a].next # NIL /\ blk[a].next <= fp OBVIOUS
        <5>1. a \in Nat /\ a # hp BY <3>1, <3>5
        <5>2. ~(fp < a) BY <3>1, <5>1
        <5>3. a < hp BY <2>3, <3>5, <5>1, <5>2
        <5>4. blk[a].next # NIL /\ blk[a].next <= hp BY <1>4, <4>2, <5>3
        <5>5. blk[a].next \in Nat BY <3>1, <4>2, <5>4
        <5> QED BY <3>1, <5>4, <5>5
      <4> QED BY <1>13, <3>1, <4>1, <4>2, <4>3, <4>4
    <3> QED BY <1>13, <3>3, <3>4, <3>5
  <2>6. \A a \in Free' : blk'[a].end \notin Free'
    BY <1>3, <1>4, <1>5, <1>6, <1>9, <1>10, <1>12, <1>13, <2>1, <2>3, HeapAssumption
       DEF MemInv, FreeBlocksAreMerged, MemoryIsPartitioned
  <2> QED BY <2>4, <2>5, <2>6 DEF FreeBlocksAreMerged, ListIsSorted
<1>17. MemInv'
  <2>1. h_free' \in Addr \cup {NIL} /\ Blocks' \subseteq Addr
    BY <1>3, <1>9, <1>11 DEF MemInv
  <2>2. blk' \in [Blocks' -> Records]
    BY <1>11, <1>12
  <2> QED BY <1>1, <1>3, <1>14, <1>15, <1>16, <2>1, <2>2 DEF MemInv
<1> QED BY <1>2, <1>17 DEF HeapInv

\* A block at the end of what the core has given away: it is not in the list.
LEMMA FromCoreInv ==
    ASSUME HeapInv, NEW st \in {"used", "core"}, NEW size \in Nat, size > 0,
           st = "used" => size >= HEADER,
           FromCore(st, size), h_free' = h_free
    PROVE  MemInv' /\ Blocks \subseteq Blocks' /\ \A x \in Blocks : blk'[x] = blk[x]
<1>1. MemInv BY DEF HeapInv
<1>2. CASE ENDMEM - nextmem < size
  <2>1. UNCHANGED MemVars BY <1>2 DEF FromCore, MemVars
  <2> QED BY <1>1, <2>1, MemUnchanged DEF MemVars, Blocks
<1>3. CASE ~(ENDMEM - nextmem < size)
  <2>1. nextmem \in Nat /\ nextmem \in Addr /\ nextmem + size <= ENDMEM /\ BASE <= nextmem
    BY <1>1, <1>3, HeapAssumption DEF MemInv, Addr
  <2>2. \A x \in Blocks : /\ x \in Nat /\ x > 0 /\ blk[x].end \in Nat /\ x < blk[x].end
                          /\ blk[x].end <= nextmem /\ BASE <= x
    BY <1>1, HeapAssumption DEF MemInv, InBounds, MemoryIsPartitioned, Records, Addr
  <2>3. nextmem \notin Blocks
    BY <2>1, <2>2
  <2>4. /\ nextmem' = nextmem + size
        /\ Blocks' = Blocks \cup {nextmem}
        /\ blk' = [x \in Blocks \cup {nextmem} |->
              IF x = nextmem THEN Block(st, nextmem + size, NIL) ELSE blk[x]]
    BY <1>3 DEF FromCore, Blocks
  <2>5. /\ \A x \in Blocks : blk'[x] = blk[x]
        /\ blk'[nextmem].end = nextmem + size
        /\ blk'[nextmem].st = st /\ blk'[nextmem].st # "free"
        /\ \A x \in Blocks' : blk'[x] \in Records
    BY <1>1, <2>1, <2>3, <2>4 DEF Block, Records, MemInv
  <2>6. Free' = Free
    BY <2>3, <2>4, <2>5 DEF Free
  <2>7. InBounds'
    BY <2>1, <2>2, <2>4, <2>5 DEF InBounds
  <2>8. MemoryIsPartitioned'
    <3>1. \A a \in Blocks' :
            /\ a + (IF blk'[a].st = "core" THEN 1 ELSE HEADER) <= blk'[a].end
            /\ blk'[a].end = nextmem' \/ blk'[a].end \in Blocks'
      BY <1>1, <2>1, <2>2, <2>4, <2>5, HeapAssumption DEF MemInv, MemoryIsPartitioned
    <3>2. \A a, b \in Blocks' : a < b => blk'[a].end <= b
      BY <1>1, <2>1, <2>2, <2>4, <2>5 DEF MemInv, MemoryIsPartitioned
    <3>3. IF nextmem' = BASE THEN Blocks' = {} ELSE BASE \in Blocks'
      BY <1>1, <2>1, <2>4, HeapAssumption DEF MemInv, MemoryIsPartitioned
    <3> QED BY <3>1, <3>2, <3>3 DEF MemoryIsPartitioned
  <2>9. FreeBlocksAreMerged'
    <3>1. \A a \in Free : a \in Blocks
      BY DEF Free
    <3> QED
      BY <1>1, <2>5, <2>6, <3>1 DEF MemInv, FreeBlocksAreMerged, ListIsSorted
  <2>10. blk' \in [Blocks' -> Records] /\ Blocks' \subseteq Addr
    BY <1>1, <2>1, <2>4, <2>5 DEF MemInv
  <2>11. nextmem' \in BASE..ENDMEM
    BY <2>1, <2>4, HeapAssumption
  <2> QED BY <1>1, <2>4, <2>5, <2>7, <2>8, <2>9, <2>10, <2>11 DEF MemInv
<1> QED BY <1>2, <1>3

LEMMA AskProviderInv == ASSUME HeapInv, NEW t \in Threads, AskProvider(t) PROVE HeapInv'
<1>1. /\ FromCore("used", pc[t].n + HEADER) /\ h_free' = h_free
      /\ pc' = [pc EXCEPT ![t] = Idle] /\ pc[t].at = "ask"
  BY DEF AskProvider, Step
<1>2. pc[t].n + HEADER \in Nat /\ pc[t].n + HEADER > 0 /\ pc[t].n + HEADER >= HEADER
  BY HeapAssumption DEF HeapInv, Doing
<1>3. MemInv' /\ Blocks \subseteq Blocks' /\ \A x \in Blocks : blk'[x] = blk[x]
  BY <1>1, <1>2, FromCoreInv
<1>4. pc' \in [Threads -> Doing]
  BY <1>1, IdleIsDoing DEF HeapInv
<1>5. WalksOK'
  BY <1>1, <1>3, IdleIsDoing DEF HeapInv, WalksOK, Walking, Free
<1> QED BY <1>3, <1>4, <1>5 DEF HeapInv

LEMMA CoreAllocInv == ASSUME HeapInv, NEW n \in Requests, chCoreAlloc(n) PROVE HeapInv'
<1>1. MemInv' /\ Blocks \subseteq Blocks' /\ \A x \in Blocks : blk'[x] = blk[x]
  BY FromCoreInv, HeapAssumption DEF chCoreAlloc
<1>2. WalksOK' /\ pc' \in [Threads -> Doing]
  BY <1>1 DEF HeapInv, WalksOK, Walking, Free, chCoreAlloc
<1> QED BY <1>1, <1>2 DEF HeapInv

\* The block comes back, in its place and merged with its neighbours.
LEMMA InsertInv == ASSUME HeapInv, NEW t \in Threads, Insert(t) PROVE HeapInv'
<1> DEFINE qp == pc[t].qp
           p == pc[t].p
           np == Next(qp)
           mn == MergesNext(qp, p)
           mp == MergesPrev(qp, p)
           end1 == IF mn THEN blk[np].end ELSE blk[p].end
           next1 == IF mn THEN blk[np].next ELSE np
           rest == Blocks \ (IF mn THEN {np} ELSE {})
<1> HIDE DEF qp, p, np, mn, mp, end1, next1, rest
<1>1. /\ Walking(t) /\ pc[t].at = "free" /\ pc' = [pc EXCEPT ![t] = Idle]
      /\ nextmem' = nextmem
  BY DEF Insert, Walking, Step
<1>2. pc' \in [Threads -> Doing] /\ WalksOK'
  BY <1>1, Leaves, IdleIsDoing
<1>3. /\ MemInv /\ qp \in Free \cup {NIL}
      /\ p \in Blocks /\ blk[p].st = "used" /\ (qp # NIL => qp < p)
  BY <1>1 DEF HeapInv, WalksOK, qp, p
<1>4. /\ np \in Free \cup {NIL} /\ (np # NIL => qp < np)
      /\ \A b \in Free : qp < b => np # NIL /\ np <= b
  BY <1>3, NextIsFree DEF np
<1>5. /\ Free \subseteq Blocks
      /\ \A x \in Blocks : /\ x \in Nat /\ x > 0 /\ x \in Addr /\ blk[x].end \in Nat /\ x < blk[x].end
                           /\ blk[x].end <= nextmem /\ BASE <= x
  BY <1>3, HeapAssumption DEF MemInv, InBounds, MemoryIsPartitioned, Records, Addr, Free
<1>6. p \notin Free /\ (np # NIL => p < np)
  BY <1>3 DEF Insert, Here, np, p, qp, Free
<1>7. /\ mn <=> np # NIL /\ blk[p].end = np
      /\ mp <=> qp # NIL /\ blk[qp].end = p
  BY DEF mn, mp, MergesNext, MergesPrev, np
<1>8. qp # p /\ p # np /\ qp \in rest \cup {NIL} /\ p \in rest /\ (mn => qp # np)
  BY <1>3, <1>4, <1>5, <1>6, <1>7 DEF NIL, rest
<1>9. Merged(qp, p) = Block("free", end1, next1)
  BY DEF Merged, end1, next1, mn, np
\* The merged block covers what it is made of and nothing else.
<1>10. /\ end1 \in Nat /\ p < end1 /\ end1 <= nextmem /\ p + HEADER <= end1
       /\ \A x \in rest \ {p} : x < p \/ end1 <= x
       /\ end1 = nextmem \/ end1 \in rest
  <2>1. MemoryIsPartitioned
    BY <1>3 DEF MemInv
  <2>2. CASE mn
    <3>1. /\ end1 = blk[np].end /\ rest = Blocks \ {np}
          /\ np \in Blocks /\ blk[p].end = np /\ blk[np].st # "core"
      BY <1>4, <1>5, <1>7, <2>2 DEF end1, rest, Free
    <3> QED BY <1>3, <1>5, <2>1, <3>1, HeapAssumption DEF MemoryIsPartitioned
  <2>3. CASE ~mn
    <3>1. end1 = blk[p].end /\ rest = Blocks
      BY <2>3 DEF end1, rest
    <3> QED BY <1>3, <1>5, <2>1, <3>1, HeapAssumption DEF MemoryIsPartitioned
  <2> QED BY <2>2, <2>3
\* The list goes on behind it, and what comes next does not touch it.
<1>11. /\ end1 \notin Free
       /\ next1 \in (Free \cap rest) \cup {NIL} /\ (next1 # NIL => p < next1)
       /\ \A b \in Free \cap rest : p < b => next1 # NIL /\ next1 <= b
       /\ \A b \in Free \cap rest : b < p => qp # NIL /\ b <= qp
  <2>1. MemoryIsPartitioned /\ FreeBlocksAreMerged
    BY <1>3 DEF MemInv
  <2>2. \A b \in Free : b < p => qp # NIL /\ b <= qp
    BY <1>3, <1>4, <1>5, <1>6 DEF NIL
  <2>3. CASE mn
    <3>1. /\ end1 = blk[np].end /\ rest = Blocks \ {np} /\ next1 = blk[np].next
          /\ np \in Free /\ np # NIL
      BY <1>4, <1>7, <2>3 DEF end1, rest, next1
    <3> QED BY <1>3, <1>4, <1>5, <1>6, <2>1, <2>2, <3>1 DEF FreeBlocksAreMerged, ListIsSorted, NIL
  <2>4. CASE ~mn
    <3>1. end1 = blk[p].end /\ rest = Blocks /\ next1 = np
      BY <2>4 DEF end1, rest, next1
    <3>2. \A b \in Free : p < b => np # NIL /\ np <= b /\ blk[p].end <= np
      BY <1>3, <1>4, <1>5, <1>6, <2>1 DEF MemoryIsPartitioned, NIL
    <3> QED BY <1>3, <1>4, <1>5, <1>6, <1>7, <2>2, <2>4, <3>1, <3>2
  <2> QED BY <2>3, <2>4
<1>12. /\ \A x \in Blocks : blk[x] \in Records
       /\ end1 \in Nat /\ next1 \in Addr \cup {NIL}
       /\ Block("free", end1, next1) \in Records
  BY <1>3, <1>5, <1>10, <1>11 DEF MemInv, Records, Block
<1>13. /\ \A x, y \in rest : x < y => blk[x].end <= y
       /\ \A x \in rest : /\ x + (IF blk[x].st = "core" THEN 1 ELSE HEADER) <= blk[x].end
                          /\ blk[x].end = nextmem \/ blk[x].end \in rest \/ x = p
       /\ nextmem # BASE /\ BASE \in rest
  <2>1. MemoryIsPartitioned
    BY <1>3 DEF MemInv
  <2>2. mn => /\ \A x \in Blocks : blk[x].end = np => x = p
              /\ np # BASE
    BY <1>3, <1>4, <1>5, <1>7, <2>1 DEF MemoryIsPartitioned, Free
  <2> QED BY <1>3, <2>1, <2>2 DEF MemoryIsPartitioned, rest
<1>14. CASE mp
  <2>1. /\ Blocks' = rest \ {p} /\ h_free' = h_free
        /\ blk' = [x \in rest \ {p} |-> IF x = qp THEN Block("free", end1, next1) ELSE blk[x]]
    BY <1>9, <1>14 DEF Insert, Blocks, rest, mp, mn, np, qp, p
  <2>2. qp # NIL /\ blk[qp].end = p /\ qp \in rest \ {p} /\ qp \in Free /\ qp < p
    BY <1>3, <1>7, <1>8, <1>14
  <2>3. /\ \A x \in rest \ {p} :
              /\ blk'[x].end = IF x = qp THEN end1 ELSE blk[x].end
              /\ blk'[x].st = blk[x].st
              /\ blk'[x].next = IF x = qp THEN next1 ELSE blk[x].next
              /\ blk'[x] \in Records
    BY <1>12, <2>1, <2>2 DEF Block, Free, rest
  <2>4. Free' = Free \cap rest
    BY <1>5, <1>6, <2>1, <2>3 DEF Free, rest
  <2>5. InBounds'
    BY <1>1, <1>5, <1>10, <2>1, <2>3 DEF InBounds, rest
  <2>6. MemoryIsPartitioned'
    <3>1. \A a \in Blocks' :
            /\ a + (IF blk'[a].st = "core" THEN 1 ELSE HEADER) <= blk'[a].end
            /\ blk'[a].end = nextmem' \/ blk'[a].end \in Blocks'
      <4> SUFFICES ASSUME NEW a \in Blocks'
                   PROVE  /\ a + (IF blk'[a].st = "core" THEN 1 ELSE HEADER) <= blk'[a].end
                          /\ blk'[a].end = nextmem' \/ blk'[a].end \in Blocks'
        OBVIOUS
      <4>1. CASE a = qp
        BY <1>1, <1>5, <1>10, <2>1, <2>2, <2>3, <4>1, HeapAssumption DEF Free
      <4>2. CASE a # qp
        <5>1. blk[a].end # p
          BY <1>3, <1>5, <1>13, <2>1, <2>2, <4>2, HeapAssumption DEF rest
        <5> QED BY <1>1, <1>13, <2>1, <2>3, <4>2, <5>1
      <4> QED BY <4>1, <4>2
    <3>2. \A a, b \in Blocks' : a < b => blk'[a].end <= b
      <4> SUFFICES ASSUME NEW a \in Blocks', NEW b \in Blocks', a < b
                   PROVE  blk'[a].end <= b
        OBVIOUS
      <4>1. CASE a = qp
        <5>1. ~(b < p)
          BY <1>5, <1>13, <2>1, <2>2, <4>1 DEF rest
        <5> QED BY <1>10, <2>1, <2>3, <4>1, <5>1
      <4>2. CASE a # qp
        BY <1>13, <2>1, <2>3, <4>2
      <4> QED BY <4>1, <4>2
    <3>3. IF nextmem' = BASE THEN Blocks' = {} ELSE BASE \in Blocks'
      BY <1>1, <1>3, <1>5, <1>13, <2>1, <2>2, HeapAssumption DEF rest
    <3> QED BY <3>1, <3>2, <3>3 DEF MemoryIsPartitioned
  <2>7. FreeBlocksAreMerged'
    <3>1. FreeBlocksAreMerged
      BY <1>3 DEF MemInv
    <3>2. /\ h_free' \in Free' \cup {NIL} /\ (h_free' = NIL => Free' = {})
          /\ \A a \in Free' : h_free' <= a
      BY <1>4, <1>5, <1>7, <2>1, <2>2, <2>4, <3>1 DEF FreeBlocksAreMerged, ListIsSorted, rest, NIL
    <3>3. \A a \in Free' :
            /\ blk'[a].next = NIL \/ (blk'[a].next \in Free' /\ a < blk'[a].next)
            /\ \A b \in Free' : a < b => blk'[a].next # NIL /\ blk'[a].next <= b
      <4> SUFFICES ASSUME NEW a \in Free'
                   PROVE  /\ blk'[a].next = NIL \/ (blk'[a].next \in Free' /\ a < blk'[a].next)
                          /\ \A b \in Free' : a < b => blk'[a].next # NIL /\ blk'[a].next <= b
        OBVIOUS
      <4>1. CASE a = qp
        BY <1>3, <1>5, <1>6, <1>11, <2>2, <2>3, <2>4, <4>1 DEF rest
      <4>2. CASE a # qp
        <5>1. blk'[a].next = blk[a].next /\ a \in Free /\ a \in rest
          BY <1>5, <1>6, <2>3, <2>4, <4>2
        <5>2. mn => blk[a].next # np
          BY <1>4, <1>5, <1>7, <2>2, <3>1, <4>2, <5>1 DEF FreeBlocksAreMerged, ListIsSorted, NIL
        <5> QED BY <2>4, <3>1, <5>1, <5>2, <1>5 DEF FreeBlocksAreMerged, ListIsSorted, rest
      <4> QED BY <4>1, <4>2
    <3>4. \A a \in Free' : blk'[a].end \notin Free'
      BY <1>5, <1>6, <1>11, <2>3, <2>4, <3>1 DEF FreeBlocksAreMerged
    <3> QED BY <3>2, <3>3, <3>4 DEF FreeBlocksAreMerged, ListIsSorted
  <2>8. /\ Blocks' \subseteq Addr /\ blk' \in [Blocks' -> Records]
        /\ h_free' \in Addr \cup {NIL} /\ nextmem' \in BASE..ENDMEM
    BY <1>1, <1>3, <2>1, <2>3 DEF MemInv, rest
  <2> QED BY <1>2, <2>5, <2>6, <2>7, <2>8 DEF HeapInv, MemInv
<1>15. CASE ~mp
  <2>1. /\ Blocks' = rest /\ h_free' = IF qp = NIL THEN p ELSE h_free
        /\ blk' = [x \in rest |-> IF x = p THEN Block("free", end1, next1)
                                  ELSE IF x = qp THEN Block(blk[x].st, blk[x].end, p)
                                  ELSE blk[x]]
    <3> DEFINE b == [x \in rest |-> IF x = p THEN Block("free", end1, next1) ELSE blk[x]]
    <3>1. /\ h_free' = IF qp = NIL THEN p ELSE h_free
          /\ blk' = [x \in DOMAIN b |-> IF x = qp THEN Block(b[x].st, b[x].end, p) ELSE b[x]]
      BY <1>9, <1>15 DEF Insert, Linked, rest, mp, mn, np, qp, p
    <3>2. DOMAIN b = rest /\ \A x \in rest : b[x] = IF x = p THEN Block("free", end1, next1) ELSE blk[x]
      OBVIOUS
    <3> HIDE DEF b
    <3>3. ASSUME NEW x \in rest
          PROVE  (IF x = qp THEN Block(b[x].st, b[x].end, p) ELSE b[x]) =
                 (IF x = p THEN Block("free", end1, next1)
                  ELSE IF x = qp THEN Block(blk[x].st, blk[x].end, p) ELSE blk[x])
      BY <1>8, <3>2
    <3> QED BY <3>1, <3>2, <3>3 DEF Blocks
  <2>2. /\ \A x \in rest :
              /\ blk'[x].end = IF x = p THEN end1 ELSE blk[x].end
              /\ blk'[x].st = IF x = p THEN "free" ELSE blk[x].st
              /\ blk'[x].next = IF x = p THEN next1 ELSE IF x = qp THEN p ELSE blk[x].next
              /\ blk'[x] \in Records
    <3> SUFFICES ASSUME NEW x \in rest
                 PROVE  /\ blk'[x].end = IF x = p THEN end1 ELSE blk[x].end
                        /\ blk'[x].st = IF x = p THEN "free" ELSE blk[x].st
                        /\ blk'[x].next = IF x = p THEN next1 ELSE IF x = qp THEN p ELSE blk[x].next
                        /\ blk'[x] \in Records
      OBVIOUS
    <3>1. blk[x] \in Records /\ p \in Addr
      BY <1>3, <1>5, <1>12 DEF rest
    <3>2. CASE x = p
      BY <1>8, <1>12, <2>1, <3>2 DEF Block
    <3>3. CASE x = qp /\ x # p
      <4>1. blk'[x] = Block(blk[x].st, blk[x].end, p)
        BY <2>1, <3>3
      <4> QED BY <3>1, <3>3, <4>1 DEF Block, Records
    <3>4. CASE x # qp /\ x # p
      BY <2>1, <3>1, <3>4
    <3> QED BY <3>2, <3>3, <3>4
  <2>3. Free' = (Free \cap rest) \cup {p}
    BY <1>5, <1>6, <1>8, <2>1, <2>2 DEF Free, rest
  <2>4. InBounds'
    BY <1>1, <1>5, <1>10, <2>1, <2>2 DEF InBounds, rest
  <2>5. MemoryIsPartitioned'
    <3>1. \A a \in Blocks' :
            /\ a + (IF blk'[a].st = "core" THEN 1 ELSE HEADER) <= blk'[a].end
            /\ blk'[a].end = nextmem' \/ blk'[a].end \in Blocks'
      BY <1>1, <1>10, <1>13, <2>1, <2>2
    <3>2. \A a, b \in Blocks' : a < b => blk'[a].end <= b
      <4> SUFFICES ASSUME NEW a \in Blocks', NEW b \in Blocks', a < b
                   PROVE  blk'[a].end <= b
        OBVIOUS
      <4>1. CASE a = p
        <5>1. b \in rest \ {p} /\ ~(b < p)
          BY <1>3, <1>5, <2>1, <4>1 DEF rest
        <5>2. blk'[p].end = end1
          BY <1>8, <2>2
        <5> QED BY <1>10, <4>1, <5>1, <5>2
      <4>2. CASE a # p
        BY <1>13, <2>1, <2>2, <4>2
      <4> QED BY <4>1, <4>2
    <3>3. IF nextmem' = BASE THEN Blocks' = {} ELSE BASE \in Blocks'
      BY <1>1, <1>13, <2>1
    <3> QED BY <3>1, <3>2, <3>3 DEF MemoryIsPartitioned
  <2>6. FreeBlocksAreMerged'
    <3>1. FreeBlocksAreMerged
      BY <1>3 DEF MemInv
    <3>2. /\ h_free' \in Free' \cup {NIL} /\ (h_free' = NIL => Free' = {})
          /\ \A a \in Free' : h_free' <= a
      BY <1>3, <1>4, <1>5, <1>7, <1>8, <1>11, <2>1, <2>3, <3>1
         DEF FreeBlocksAreMerged, ListIsSorted, rest, NIL
    <3>3. \A a \in Free' :
            /\ blk'[a].next = NIL \/ (blk'[a].next \in Free' /\ a < blk'[a].next)
            /\ \A b \in Free' : a < b => blk'[a].next # NIL /\ blk'[a].next <= b
      <4> SUFFICES ASSUME NEW a \in Free'
                   PROVE  /\ blk'[a].next = NIL \/ (blk'[a].next \in Free' /\ a < blk'[a].next)
                          /\ \A b \in Free' : a < b => blk'[a].next # NIL /\ blk'[a].next <= b
        OBVIOUS
      <4>1. CASE a = p
        BY <1>5, <1>8, <1>11, <2>2, <2>3, <4>1 DEF rest
      <4>2. CASE a = qp
        BY <1>3, <1>5, <1>8, <1>11, <2>2, <2>3, <4>2 DEF rest, NIL
      <4>3. CASE a # qp /\ a # p
        <5>1. blk'[a].next = blk[a].next /\ a \in Free /\ a \in rest
          BY <1>5, <2>2, <2>3, <4>3
        <5>2. mn => blk[a].next # np
          BY <1>3, <1>4, <1>5, <1>7, <3>1, <4>3, <5>1 DEF FreeBlocksAreMerged, ListIsSorted, NIL
        <5>3. a < p => blk[a].next # NIL /\ blk[a].next <= p
          BY <1>3, <1>5, <1>11, <3>1, <4>3, <5>1 DEF FreeBlocksAreMerged, ListIsSorted
        <5> QED BY <1>3, <1>5, <2>3, <3>1, <5>1, <5>2, <5>3 DEF FreeBlocksAreMerged, ListIsSorted, rest
      <4> QED BY <4>1, <4>2, <4>3
    <3>4. \A a \in Free' : blk'[a].end \notin Free'
      <4>1. \A a \in Free \cap rest : blk[a].end # p
        <5> SUFFICES ASSUME NEW a \in Free \cap rest, blk[a].end = p PROVE FALSE
          OBVIOUS
        <5>1. a < p
          BY <1>5
        <5>2. qp # NIL /\ qp \in rest /\ a <= qp /\ qp < p
          BY <1>3, <1>8, <1>11, <5>1
        <5>3. a # qp
          BY <1>7, <1>15, <5>2
        <5> QED BY <1>5, <1>13, <5>2, <5>3 DEF rest
      <4>2. blk'[p].end \notin Free'
        BY <1>3, <1>5, <1>8, <1>10, <1>11, <2>2, <2>3
      <4>3. \A a \in Free \cap rest : a # p /\ blk'[a].end \notin Free'
        BY <1>6, <2>2, <2>3, <3>1, <4>1 DEF FreeBlocksAreMerged
      <4> QED BY <2>3, <4>2, <4>3
    <3> QED BY <3>2, <3>3, <3>4 DEF FreeBlocksAreMerged, ListIsSorted
  <2>7. /\ Blocks' \subseteq Addr /\ blk' \in [Blocks' -> Records]
        /\ h_free' \in Addr \cup {NIL} /\ nextmem' \in BASE..ENDMEM
    BY <1>1, <1>3, <1>5, <2>1, <2>2 DEF MemInv, rest
  <2> QED BY <1>2, <2>4, <2>5, <2>6, <2>7 DEF HeapInv, MemInv
<1> QED BY <1>14, <1>15

----------------------------------------------------------------------------
(* The theorems. *)

LEMMA HeapStep == HeapInv /\ [HeapNext]_heapvars => HeapInv'
<1> SUFFICES ASSUME HeapInv, [HeapNext]_heapvars PROVE HeapInv'
  OBVIOUS
<1>1. CASE UNCHANGED heapvars
  BY <1>1, MemUnchanged DEF heapvars, MemVars, HeapInv, WalksOK, Walking, Free, Blocks
<1>2. ASSUME NEW t \in Threads, NEW n \in Requests, chHeapAlloc(t, n) PROVE HeapInv'
  BY <1>2, BeginAlloc
<1>3. ASSUME NEW t \in Threads, NEW p \in Blocks, chHeapFree(t, p) PROVE HeapInv'
  BY <1>3, BeginFree
<1>4. ASSUME NEW t \in Threads,
             WalkOn(t) \/ GoOn(t) \/ TakeWhole(t) \/ Split(t) \/ NothingFits(t)
             \/ AskProvider(t) \/ Insert(t)
      PROVE  HeapInv'
  BY <1>4, Walk, TakeWholeInv, SplitInv, GivesUp, AskProviderInv, InsertInv
<1>5. ASSUME NEW n \in Requests, chCoreAlloc(n) PROVE HeapInv'
  BY <1>5, CoreAllocInv
<1> QED BY <1>1, <1>2, <1>3, <1>4, <1>5 DEF HeapNext

THEOREM HeapInvariance == HeapSpec => []HeapInv
BY InitHeap, HeapStep, PTL DEF HeapSpec

\* The memory of the heap is always partitioned into blocks (chheap.c:135-157 and
\* 198-222).
THEOREM HeapPartition == HeapSpec => []MemoryIsPartitioned
<1>1. HeapInv => MemoryIsPartitioned
  BY DEF HeapInv, MemInv
<1> QED BY <1>1, HeapInvariance, PTL

\* The free list is sorted and merged (chheap.c:203-219).
THEOREM HeapMerging == HeapSpec => []FreeBlocksAreMerged
<1>1. HeapInv => FreeBlocksAreMerged
  BY DEF HeapInv, MemInv
<1> QED BY <1>1, HeapInvariance, PTL

\* The variables keep their types.
THEOREM HeapTypes == HeapSpec => []HeapTypeOK
<1>1. HeapInv => HeapTypeOK
  BY DEF HeapInv, MemInv, HeapTypeOK, Records
<1> QED BY <1>1, HeapInvariance, PTL

----------------------------------------------------------------------------
(* The configuration *)

Words == 1..NumInts + 1

\* Functions on the right domains; what the words are does not matter.
Shapes ==
    /\ item \in Words
    /\ intArray = [n \in Items |-> intArray[n]]
    /\ flash = [n \in Words |-> flash[n]]

\* The words below the item at hand are on the page, and the page belongs to this save.
SaveInProgress ==
    stage \in {"low", "high", "verify"} =>
        /\ Checksum = Sum(intArray)
        /\ asked = intArray
        /\ durable = NONE
        /\ \A n \in 1..item - 1 : flash[n] = Data(n)

DurableOnPage ==
    durable # NONE => Image = durable /\ flash[NumInts + 1] = Sum(durable)

FlashInv == Shapes /\ SaveInProgress /\ DurableOnPage

----------------------------------------------------------------------------
(* The actions. *)

\* A new device: nothing was saved yet.
LEMMA InitFlash == FlashInit => FlashInv
BY FlashAssumption
   DEF FlashInit, FlashInv, Shapes, SaveInProgress, DurableOnPage, Words, Items, Erased

\* Changes in RAM between two saves do not touch the page.
LEMMA ChangeInv == ASSUME FlashInv, dbSetInt \/ dbSetJSON PROVE FlashInv'
<1>1. intArray' = [n \in Items |-> intArray'[n]]
  BY DEF FlashInv, Shapes, dbSetInt, dbSetJSON
<1>2. /\ stage = "ready" /\ stage' = stage
      /\ UNCHANGED <<Checksum, flash, item, durable, asked>>
  BY DEF dbSetInt, dbSetJSON
<1> QED BY <1>1, <1>2 DEF FlashInv, Shapes, SaveInProgress, DurableOnPage, Image

\* The page is the same, or it is erased and nothing is durable.
LEMMA EraseInv == ASSUME FlashInv, dbSave \/ EraseFails \/ Erase PROVE FlashInv'
<1>1. Erased = [n \in Words |-> Erased[n]] BY DEF Erased, Words
<1>2. CASE dbSave
  BY <1>2 DEF dbSave, ram, FlashInv, Shapes, SaveInProgress, DurableOnPage, Image
<1>3. CASE EraseFails
  <2>1. Shapes' BY <1>1, <1>3 DEF EraseFails, ram, FlashInv, Shapes
  <2>2. SaveInProgress' BY <1>3 DEF EraseFails, SaveInProgress
  <2>3. DurableOnPage' BY <1>3 DEF EraseFails, FlashInv, DurableOnPage, Image
  <2> QED BY <2>1, <2>2, <2>3 DEF FlashInv
<1>4. CASE Erase
  <2>1. 1 \in Words BY FlashAssumption DEF Words
  <2>2. Shapes' BY <1>1, <1>4, <2>1 DEF Erase, FlashInv, Shapes
  <2>3. SaveInProgress'
    BY <1>4 DEF Erase, SaveInProgress, NewChecksum
  <2>4. DurableOnPage' BY <1>4 DEF Erase, DurableOnPage
  <2> QED BY <2>2, <2>3, <2>4 DEF FlashInv
<1> QED BY <1>2, <1>3, <1>4

\* A half word goes to the word at hand; those below keep what was verified.
LEMMA ProgramInv ==
    ASSUME FlashInv, ProgramLow \/ ProgramHigh \/ ProgramFails PROVE FlashInv'
<1>1. /\ \/ \E v : flash' = [flash EXCEPT ![item] = v]
         \/ flash' = flash
      /\ stage \in {"low", "high", "verify"}
      /\ UNCHANGED <<intArray, Checksum, item, durable, asked>>
  BY DEF ProgramLow, ProgramHigh, ProgramFails, ram
<1>2. flash' = [n \in Words |-> flash'[n]] BY <1>1 DEF FlashInv, Shapes
<1>3. \A n \in 1..item - 1 : flash'[n] = flash[n]
  BY <1>1, FlashAssumption DEF FlashInv, Shapes, Words
<1>4. durable = NONE BY <1>1 DEF FlashInv, SaveInProgress
<1>5. Shapes' BY <1>1, <1>2 DEF FlashInv, Shapes
<1>6. SaveInProgress'
  BY <1>1, <1>3 DEF FlashInv, SaveInProgress, Data
<1> QED BY <1>1, <1>4, <1>5, <1>6 DEF FlashInv, DurableOnPage

\* A verified word is one more that is on the page; behind the last the save is
\* durable.
LEMMA VerifyInv == ASSUME FlashInv, Verify PROVE FlashInv'
<1>1. /\ stage = "verify" /\ UNCHANGED <<intArray, Checksum, flash, asked>>
      /\ item \in Words /\ durable = NONE
      /\ Checksum = Sum(intArray) /\ asked = intArray
      /\ \A n \in 1..item - 1 : flash[n] = Data(n)
  BY DEF Verify, ram, FlashInv, Shapes, SaveInProgress
<1>2. CASE stage' = "ready" /\ UNCHANGED <<item, durable>>
  BY <1>1, <1>2 DEF FlashInv, Shapes, SaveInProgress, DurableOnPage
<1>3. CASE Verified(item) /\ item <= NumInts /\ stage' = "low" /\ item' = item + 1 /\ UNCHANGED durable
  <2>1. item' \in Words BY <1>1, <1>3, FlashAssumption DEF Words
  <2>2. \A n \in 1..item' - 1 : flash[n] = Data(n)
    <3> SUFFICES ASSUME NEW n \in 1..item' - 1 PROVE flash[n] = Data(n)
      OBVIOUS
    <3>1. n = item \/ n \in 1..item - 1 BY <1>1, <1>3 DEF Words
    <3> QED BY <1>1, <1>3, <3>1 DEF Verified
  <2>3. \A n : Data(n)' = Data(n) BY <1>1 DEF Data
  <2>4. Shapes' BY <1>1, <2>1 DEF FlashInv, Shapes
  <2>5. SaveInProgress' BY <1>1, <1>3, <2>2, <2>3 DEF SaveInProgress
  <2> QED BY <1>1, <1>3, <2>4, <2>5 DEF FlashInv, DurableOnPage
<1>4. CASE Verified(item) /\ item > NumInts /\ stage' = "ready" /\ durable' = asked /\ UNCHANGED item
  <2>1. item = NumInts + 1 BY <1>1, <1>4, FlashAssumption DEF Words
  <2>2. \A n \in Items : flash[n] = intArray[n]
    BY <1>1, <2>1, FlashAssumption DEF Items, Data
  <2>3. Image = intArray BY <2>2 DEF Image, FlashInv, Shapes
  <2>4. flash[NumInts + 1] = Checksum
    BY <1>4, <2>1, FlashAssumption DEF Verified, Data
  <2>5. Image' = Image BY <1>1 DEF Image
  <2>6. DurableOnPage' BY <1>1, <1>4, <2>3, <2>4, <2>5 DEF DurableOnPage
  <2>7. Shapes' /\ SaveInProgress' BY <1>1, <1>4 DEF FlashInv, Shapes, SaveInProgress
  <2> QED BY <2>6, <2>7 DEF FlashInv
<1> QED BY <1>2, <1>3, <1>4 DEF Verify

\* Restoring and starting anew change RAM only.
LEMMA RestoreInv == ASSUME FlashInv, dbRestore \/ PowerUp PROVE FlashInv'
<1>1. /\ stage' = "ready"
      /\ UNCHANGED <<flash, item, durable, asked>>
      /\ intArray' \in {Image, Factory}
  BY DEF dbRestore, PowerUp
<1>2. intArray' = [n \in Items |-> intArray'[n]]
  BY <1>1, FlashAssumption DEF Image
<1> QED
  BY <1>1, <1>2 DEF FlashInv, Shapes, SaveInProgress, DurableOnPage, Image

----------------------------------------------------------------------------
(* The theorem. *)

\* The inductive invariant of a save.
THEOREM FlashInvariance == FlashSpec => []FlashInv
<1>1. FlashInv /\ [FlashNext]_dbvars => FlashInv'
  <2>1. ASSUME FlashInv, UNCHANGED dbvars PROVE FlashInv'
    BY <2>1 DEF dbvars, ram, FlashInv, Shapes, SaveInProgress, DurableOnPage, Image, Data
  <2> QED BY <2>1, ChangeInv, EraseInv, ProgramInv, VerifyInv, RestoreInv DEF FlashNext
<1> QED BY <1>1, InitFlash, PTL DEF FlashSpec

\* A save that returned 0 is on the page with its checksum until the page is
\* erased, whatever fails or restarts in between.
THEOREM SavesAreDurable == FlashSpec => []SavedIsRestored
<1>1. FlashInv => SavedIsRestored
  BY DEF FlashInv, DurableOnPage, SavedIsRestored, ChecksumFits
<1> QED BY <1>1, FlashInvariance, PTL

----------------------------------------------------------------------------
(* Types *)

\* The words and their halves.
LEMMA WordRange ==
    /\ Half * Half \in Nat \ {0} /\ 0 \in Word /\ Half * Half - 1 \in Word
    /\ \A x \in Int : x % (Half * Half) \in Word
    /\ \A x \in Word : LowHalf(x) \in 0..Half - 1 /\ HighHalf(x) \in 0..Half - 1
<1> DEFINE M == Half * Half
<1>1. Half \in Nat /\ Half >= 2 BY FlashAssumption
<1>2. M \in Nat /\ M >= 1 BY <1>1
<1>3. \A x \in Int : x % M \in 0..M - 1
  <2> HIDE DEF M
  <2> QED BY <1>2
<1>4. ASSUME NEW x \in Word PROVE LowHalf(x) \in 0..Half - 1 /\ HighHalf(x) \in 0..Half - 1
  <2>1. x \in Int /\ 0 <= x /\ x < Half * Half BY <1>2 DEF Word
  <2>2. x % Half \in 0..Half - 1 BY <1>1, <2>1
  <2> DEFINE d == x \div Half
  <2>3. d \in Int /\ x = Half * d + (x % Half) BY <1>1, <2>1
  <2> HIDE DEF d
  <2>4. d >= 0
    <3> SUFFICES ASSUME d <= -1 PROVE FALSE BY <2>3
    <3>1. Half * d <= Half * (-1) BY <1>1, <2>3
    <3> QED BY <1>1, <2>1, <2>2, <2>3, <3>1
  <2>5. d <= Half - 1
    <3> SUFFICES ASSUME d >= Half PROVE FALSE BY <1>1, <2>3
    <3>1. Half * d >= Half * Half BY <1>1, <2>3
    <3> QED BY <1>1, <2>1, <2>2, <2>3, <3>1
  <2> QED BY <1>1, <2>2, <2>3, <2>4, <2>5 DEF LowHalf, HighHalf, d
<1> QED BY <1>2, <1>3, <1>4 DEF Word

\* A high and a low half make a word.
LEMMA HalvesMakeWord ==
    ASSUME NEW x \in Word, NEW y \in Word
    PROVE  HighHalf(x) * Half + LowHalf(y) \in Word
<1>1. Half \in Nat /\ Half >= 2 BY FlashAssumption
<1> DEFINE h == HighHalf(x)
           l == LowHalf(y)
<1>2. h \in 0..Half - 1 /\ l \in 0..Half - 1 BY WordRange
<1> HIDE DEF h, l
<1>3. h * Half <= (Half - 1) * Half BY <1>1, <1>2
<1>4. (Half - 1) * Half = Half * Half - Half BY <1>1
<1>5. h * Half >= 0 /\ h * Half \in Int /\ Half * Half \in Int BY <1>1, <1>2
<1>6. h * Half + l \in 0..Half * Half - 1 BY <1>1, <1>2, <1>3, <1>4, <1>5
<1> QED BY <1>6 DEF Word, h, l

\* The checksum of words is a word.
LEMMA SumIsWord ==
    ASSUME NEW items \in [Items -> Word]
    PROVE  Sum(items) \in Word
<1> DEFINE M == Half * Half
           Turn(n, x) == (x + items[n]) % M
           Loop(s) == s = [n \in 0..NumInts |-> IF n = 0 THEN 0 ELSE Turn(n, s[n - 1])]
           sum == CHOOSE s : Loop(s)
           F == [p \in (1..NumInts) \X Word |-> Turn(p[1], p[2])]
<1>1. Sum(items) = sum[NumInts] BY DEF Sum
<1>2. NumInts \in Nat BY FlashAssumption
<1>3. /\ M \in Nat \ {0} /\ Word \subseteq Int /\ 0 \in Word
      /\ \A x \in Int : x % M \in Word
  BY WordRange DEF Word
<1> HIDE DEF M
<1>4. \A n \in 1..NumInts : items[n] \in Word /\ items[n] \in Int BY <1>3 DEF Items
<1>5. \A n \in 1..NumInts, x \in Word : Turn(n, x) \in Word
  <2> TAKE n \in 1..NumInts, x \in Word
  <2>1. x \in Int /\ items[n] \in Int BY <1>3, <1>4
  <2> QED BY <1>3, <2>1
<1> HIDE DEF Turn
<1>6. F \in [(1..NumInts) \X Word -> Word] BY <1>5
<1>7. PICK f \in [0..NumInts -> Word] : IsIteration(f, NumInts, 0, F)
  <2> HIDE DEF F
  <2>1. 0 \in Word BY <1>3
  <2> QED BY <1>2, <1>6, <2>1, Iteration
<1>8. Loop(f)
  <2>1. \A n \in 0..NumInts : n # 0 =>
           F[<<n, f[n - 1]>>] = Turn(n, f[n - 1])
    <3> TAKE n \in 0..NumInts
    <3> HAVE n # 0
    <3>1. n \in 1..NumInts /\ n - 1 \in 0..NumInts BY <1>2
    <3>2. <<n, f[n - 1]>> \in (1..NumInts) \X Word BY <3>1
    <3> QED BY <3>2
  <2> HIDE DEF F
  <2> QED BY <1>7, <2>1 DEF IsIteration
<1>9. Loop(sum)
  <2> HIDE DEF Loop
  <2> QED BY <1>8
<1> HIDE DEF sum
<1>10. sum[0] = 0 /\ \A j \in 1..NumInts : sum[j] = Turn(j, sum[j - 1])
  <2>1. \A j \in 0..NumInts : sum[j] = IF j = 0 THEN 0 ELSE Turn(j, sum[j - 1])
    BY <1>9
  <2> HIDE DEF Loop
  <2>2. 0 \in 0..NumInts /\ \A j \in 1..NumInts : j \in 0..NumInts /\ j # 0 BY <1>2
  <2> QED BY <2>1, <2>2
<1>11. \A j \in 0..NumInts : sum[j] \in Word
  <2> DEFINE Good == {j \in 0..NumInts : sum[j] \in Word}
  <2>1. 0 \in Word BY <1>3
  <2>2. 0 \in Good BY <1>2, <1>10, <2>1
  <2>3. ASSUME NEW j \in 1..NumInts, j - 1 \in Good PROVE j \in Good
    <3>1. j \in 0..NumInts /\ sum[j - 1] \in Word BY <1>2, <2>3
    <3> QED BY <1>5, <1>10, <3>1
  <2> HIDE DEF Good
  <2>4. \A j \in 0..NumInts : j \in Good BY <1>2, <2>2, <2>3, TurnInduction
  <2> QED BY <2>4 DEF Good
<1> QED BY <1>1, <1>2, <1>11

\* Every variable keeps its type: neither a half word that is programmed nor the
\* checksum leaves the range of a word (db.c:470-512).
THEOREM FlashTypeCorrect == FlashSpec => []FlashTypeOK
<1>1. FlashInit => FlashTypeOK
  BY FlashAssumption, WordRange DEF FlashInit, FlashTypeOK, Erased
<1>2. ASSUME FlashTypeOK, [FlashNext]_dbvars PROVE FlashTypeOK'
  <2>1. Factory \in [Items -> Word] /\ NumInts \in Nat /\ NumInts >= 1 BY FlashAssumption
  <2>2. Erased \in [1..NumInts + 1 -> Word] /\ 0 \in Word BY WordRange DEF Erased
  <2>3. Image \in [Items -> Word] /\ flash[NumInts + 1] \in Word
    BY <1>2, <2>1 DEF FlashTypeOK, Image, Items
  <2>4. CASE dbSetInt \/ dbSetJSON
    <3>1. intArray' \in [Items -> Word]
      BY <1>2, <2>4, FlashAssumption DEF FlashTypeOK, dbSetInt, dbSetJSON, Items
    <3> QED BY <1>2, <2>4, <3>1 DEF FlashTypeOK, dbSetInt, dbSetJSON
  <2>5. CASE dbSave BY <1>2, <2>5 DEF FlashTypeOK, dbSave, ram
  <2>6. CASE EraseFails BY <1>2, <2>2, <2>6 DEF FlashTypeOK, EraseFails, ram
  <2>7. CASE Erase
    <3>1. Checksum' \in Word BY <1>2, <2>7, SumIsWord DEF FlashTypeOK, Erase, NewChecksum
    <3> QED BY <1>2, <2>1, <2>2, <2>7, <3>1 DEF FlashTypeOK, Erase
  <2>8. CASE ProgramLow \/ ProgramHigh
    <3>1. Data(item) \in Word /\ flash[item] \in Word BY <1>2, <2>1 DEF FlashTypeOK, Data, Items
    <3>2. /\ HighHalf(flash[item]) * Half + LowHalf(Data(item)) \in Word
          /\ HighHalf(Data(item)) * Half + LowHalf(flash[item]) \in Word
      BY <3>1, HalvesMakeWord
    <3>3. flash' \in [1..NumInts + 1 -> Word]
      BY <1>2, <2>8, <3>2 DEF FlashTypeOK, ProgramLow, ProgramHigh
    <3> QED BY <1>2, <2>8, <3>3 DEF FlashTypeOK, ProgramLow, ProgramHigh, ram
  <2>9. CASE ProgramFails BY <1>2, <2>9 DEF FlashTypeOK, ProgramFails, ram
  <2>10. CASE Verify BY <1>2, <2>1, <2>10 DEF FlashTypeOK, Verify, ram
  <2>11. CASE dbRestore \/ PowerUp
    BY <1>2, <2>1, <2>2, <2>3, <2>11 DEF FlashTypeOK, dbRestore, PowerUp
  <2>12. CASE UNCHANGED dbvars BY <1>2, <2>12 DEF FlashTypeOK, dbvars, ram
  <2> QED BY <1>2, <2>4, <2>5, <2>6, <2>7, <2>8, <2>9, <2>10, <2>11, <2>12 DEF FlashNext
<1> QED BY <1>1, <1>2, PTL DEF FlashSpec

----------------------------------------------------------------------------
(* Torn pages *)

WordOf(items, n) == IF n <= NumInts THEN items[n] ELSE Sum(items)

\* A save of the items stopped at word i of the page.
StoppedAt(page, items, i) ==
    /\ \A n \in 1..i - 1 : page[n] = WordOf(items, n)
    /\ page[i] \in TornWords(WordOf(items, i))
    /\ \A n \in i + 1..NumInts + 1 : page[n] = Half * Half - 1

TornAt(i) == StoppedAt(flash, Saved, i)

\* The page is always what a save left that stopped somewhere, and one that is
\* still going on is at its loop counter.
PageIsTorn ==
    /\ \E i \in Words : TornAt(i)
    /\ stage \in {"low", "high", "verify"} => TornAt(item)

\* The halves of a word are what it was put together from.
LEMMA HalvesApart ==
    ASSUME NEW h \in 0..Half - 1, NEW l \in 0..Half - 1
    PROVE  /\ HighHalf(h * Half + l) = h
           /\ LowHalf(h * Half + l) = l
<1>1. Half \in Nat /\ Half >= 2 BY FlashAssumption
<1> DEFINE x == h * Half + l
           d == x \div Half
           r == x % Half
<1>2. x \in Int BY <1>1
<1>3. d \in Int /\ r \in 0..Half - 1 /\ x = Half * d + r BY <1>1, <1>2
<1>4. Half * (h - d) = r - l
  <2>1. Half * (h - d) = h * Half - Half * d BY <1>1, <1>3
  <2> QED BY <1>1, <1>3, <2>1
<1> HIDE DEF d, r
<1>5. h - d < 1
  <2> SUFFICES ASSUME h - d >= 1 PROVE FALSE BY <1>3
  <2>1. Half * (h - d) >= Half * 1 BY <1>1, <1>3
  <2> QED BY <1>1, <1>3, <1>4, <2>1
<1>6. h - d > -1
  <2> SUFFICES ASSUME h - d <= -1 PROVE FALSE BY <1>3
  <2>1. Half * (h - d) <= Half * (-1) BY <1>1, <1>3
  <2> QED BY <1>1, <1>3, <1>4, <2>1
<1>7. h = d BY <1>3, <1>5, <1>6
<1>8. r = l BY <1>1, <1>3, <1>4, <1>7
<1> QED BY <1>7, <1>8 DEF HighHalf, LowHalf, d, r

\* An erased word is a torn one of every word, and a word whose halves are both
\* programmed or not is one.
LEMMA TornWord ==
    ASSUME NEW w \in Word
    PROVE  /\ Half * Half - 1 \in TornWords(w)
           /\ \A v \in TornWords(w) :
                 /\ HighHalf(v) * Half + LowHalf(w) \in TornWords(w)
                 /\ HighHalf(w) * Half + LowHalf(v) \in TornWords(w)
<1>1. Half \in Nat /\ Half >= 2 BY FlashAssumption
<1> DEFINE H == {HighHalf(w), Half - 1}
           L == {LowHalf(w), Half - 1}
<1>2. TornWords(w) = {high * Half + low : high \in H, low \in L}
  BY DEF TornWords, HighHalf, LowHalf
<1>3. H \subseteq 0..Half - 1 /\ L \subseteq 0..Half - 1 BY <1>1, WordRange
<1>4. Half * Half - 1 = (Half - 1) * Half + (Half - 1) BY <1>1
<1>5. /\ HighHalf(w) \in H /\ LowHalf(w) \in L /\ Half - 1 \in H /\ Half - 1 \in L
  OBVIOUS
<1> HIDE DEF H, L
<1>6. ASSUME NEW v \in TornWords(w)
      PROVE  /\ HighHalf(v) * Half + LowHalf(w) \in TornWords(w)
             /\ HighHalf(w) * Half + LowHalf(v) \in TornWords(w)
  <2>1. PICK high \in H, low \in L : v = high * Half + low BY <1>2
  <2>2. HighHalf(v) = high /\ LowHalf(v) = low BY <1>3, <2>1, HalvesApart
  <2> QED BY <1>2, <1>5, <2>2
<1> QED BY <1>2, <1>4, <1>5, <1>6

\* The page of words consists of words.
LEMMA PageOfWords ==
    ASSUME NEW items \in [Items -> Word]
    PROVE  \A n \in Words : WordOf(items, n) \in Word
<1>1. Sum(items) \in Word BY SumIsWord
<1>2. \A n \in Words : n <= NumInts => n \in Items BY FlashAssumption DEF Words, Items
<1> QED BY <1>1, <1>2 DEF WordOf

\* What the page is for consists of words.
LEMMA SavedIsWords ==
    ASSUME FlashTypeOK
    PROVE  Saved \in [Items -> Word] /\ \A n \in Words : WordOf(Saved, n) \in Word
<1>1. Saved \in [Items -> Word] BY FlashAssumption DEF FlashTypeOK, Saved
<1> QED BY <1>1, PageOfWords

\* While a save goes on, the items in RAM are what the page is for.
LEMMA SavingItems ==
    ASSUME FlashTypeOK, FlashInv, stage \in {"low", "high", "verify"}
    PROVE  \A n : WordOf(Saved, n) = Data(n)
<1>1. intArray \in [Items -> Word] /\ asked = intArray /\ Checksum = Sum(intArray)
  BY DEF FlashTypeOK, FlashInv, SaveInProgress
<1>2. Saved = intArray BY <1>1, FlashAssumption DEF Saved
<1> QED BY <1>1, <1>2 DEF WordOf, Data

\* An erased page is a torn one, whatever it was erased for.
LEMMA ErasedIsTorn ==
    ASSUME NEW items \in [Items -> Word] PROVE StoppedAt(Erased, items, 1)
<1>1. 1 \in Words /\ NumInts \in Nat BY FlashAssumption DEF Words
<1>2. \A n \in Words : Erased[n] = Half * Half - 1 BY DEF Erased, Words
<1>3. Erased[1] \in TornWords(WordOf(items, 1)) BY <1>1, <1>2, PageOfWords, TornWord
<1>4. \A n \in 1 + 1..NumInts + 1 : n \in Words BY <1>1 DEF Words
<1>5. \A n \in 1..1 - 1 : FALSE OBVIOUS
<1> QED BY <1>2, <1>3, <1>4, <1>5 DEF StoppedAt

\* A step that leaves the page alone and does not go on with a save.
LEMMA PageStays ==
    ASSUME PageIsTorn, UNCHANGED <<flash, asked>>,
           stage' \in {"low", "high", "verify"} => UNCHANGED <<stage, item>>
    PROVE  PageIsTorn'
<1>1. \A i : TornAt(i)' <=> TornAt(i) BY DEF TornAt, Saved
<1> QED BY <1>1 DEF PageIsTorn

\* The page is erased.
LEMMA EraseTears ==
    ASSUME FlashTypeOK', flash' = Erased,
           stage' \in {"low", "high", "verify"} => item' = 1
    PROVE  PageIsTorn'
<1>1. Saved' \in [Items -> Word] BY FlashAssumption DEF FlashTypeOK, Saved
<1>3. TornAt(1)' BY <1>1, ErasedIsTorn DEF TornAt
<1>2. 1 \in Words BY FlashAssumption DEF Words
<1> QED BY <1>2, <1>3 DEF PageIsTorn

\* Programming a half word leaves a torn word.
LEMMA ProgramTears ==
    ASSUME FlashTypeOK, FlashInv, PageIsTorn, ProgramLow \/ ProgramHigh PROVE PageIsTorn'
<1> DEFINE w == Data(item)
<1>1. /\ stage \in {"low", "high"} /\ UNCHANGED <<asked, item>>
      /\ TornAt(item) /\ item \in Words /\ flash \in [Words -> Word]
  BY DEF ProgramLow, ProgramHigh, PageIsTorn, FlashTypeOK, Words
<1>2. WordOf(Saved, item) = w /\ w \in Word /\ flash[item] \in TornWords(w)
  BY <1>1, SavingItems, SavedIsWords DEF TornAt, StoppedAt
<1> HIDE DEF w
<1>3. PICK v \in TornWords(w) : flash' = [flash EXCEPT ![item] = v]
  <2>1. CASE flash' = flash BY <1>1, <1>2, <2>1
  <2>2. CASE flash' = [flash EXCEPT ![item] = HighHalf(@) * Half + LowHalf(w)]
    BY <1>1, <1>2, <2>2, TornWord
  <2>3. CASE flash' = [flash EXCEPT ![item] = HighHalf(w) * Half + LowHalf(@)]
    BY <1>1, <1>2, <2>3, TornWord
  <2> QED BY <2>1, <2>2, <2>3 DEF ProgramLow, ProgramHigh, w
<1>4. TornAt(item)'
  <2>1. Saved' = Saved BY <1>1 DEF Saved
  <2>2. item' = item /\ item \in Nat /\ NumInts \in Nat /\ item <= NumInts + 1
    BY <1>1, FlashAssumption DEF Words
  <2>3. \A n \in Words : n # item => flash'[n] = flash[n] BY <1>1, <1>3
  <2>4. \A n \in 1..item - 1 : n \in Words /\ n # item BY <2>2 DEF Words
  <2>5. \A n \in item + 1..NumInts + 1 : n \in Words /\ n # item BY <1>1, <2>2 DEF Words
  <2>6. flash'[item] \in TornWords(WordOf(Saved, item)) BY <1>1, <1>2, <1>3
  <2> QED BY <1>1, <2>1, <2>2, <2>3, <2>4, <2>5, <2>6 DEF TornAt, StoppedAt
<1> QED BY <1>1, <1>4 DEF PageIsTorn

\* The save goes on with the next word, which is still erased.
LEMMA VerifyTears ==
    ASSUME FlashTypeOK, FlashInv, PageIsTorn, Verify PROVE PageIsTorn'
<1>1. stage = "verify" /\ UNCHANGED <<flash, asked>> BY DEF Verify
<1>2. CASE stage' = "ready" BY <1>1, <1>2, PageStays
<1>3. CASE Verified(item) /\ item <= NumInts /\ item' = item + 1
  <2> DEFINE W(n) == WordOf(Saved, n)
  <2>1. StoppedAt(flash, Saved, item) /\ item \in Words
    BY <1>1 DEF PageIsTorn, TornAt, FlashTypeOK, Words
  <2>2. PICK j : j = item + 1 OBVIOUS
  <2>3. NumInts \in Nat /\ item \in Nat /\ j \in Words
    BY <1>3, <2>1, <2>2, FlashAssumption DEF Words
  <2>4. flash[item] = W(item) BY <1>1, <1>3, SavingItems DEF Verified
  <2>5. \A n \in 1..j - 1 : flash[n] = W(n)
    <3>1. \A n \in 1..j - 1 : n = item \/ n \in 1..item - 1 BY <2>2, <2>3
    <3> QED BY <2>1, <2>4, <3>1 DEF StoppedAt
  <2>6. flash[j] \in TornWords(W(j))
    <3>1. j \in item + 1..NumInts + 1 BY <2>2, <2>3 DEF Words
    <3> QED BY <2>1, <2>3, <3>1, SavedIsWords, TornWord DEF StoppedAt
  <2>7. \A n \in j + 1..NumInts + 1 : flash[n] = Half * Half - 1
    <3>1. \A n \in j + 1..NumInts + 1 : n \in item + 1..NumInts + 1 BY <2>2, <2>3
    <3> QED BY <2>1, <3>1 DEF StoppedAt
  <2>8. TornAt(j)'
    <3>1. StoppedAt(flash, Saved, j) BY <2>5, <2>6, <2>7 DEF StoppedAt
    <3>2. Saved' = Saved BY <1>1 DEF Saved
    <3> QED BY <1>1, <3>1, <3>2 DEF TornAt
  <2>9. TornAt(item)' BY <1>3, <2>2, <2>8 DEF TornAt
  <2> QED BY <2>3, <2>8, <2>9 DEF PageIsTorn
<1> QED BY <1>2, <1>3 DEF Verify

\* The page is torn, or complete, after every step.
LEMMA NextTears ==
    ASSUME FlashTypeOK, FlashTypeOK', FlashInv, PageIsTorn, [FlashNext]_dbvars
    PROVE  PageIsTorn'
<1>1. CASE dbSetInt \/ dbSetJSON BY <1>1, PageStays DEF dbSetInt, dbSetJSON
<1>2. CASE dbSave BY <1>2, PageStays DEF dbSave
<1>3. CASE EraseFails
  <2>1. CASE UNCHANGED <<flash, asked>> BY <1>3, <2>1, PageStays DEF EraseFails
  <2>2. CASE flash' = Erased BY <1>3, <2>2, EraseTears DEF EraseFails
  <2> QED BY <1>3, <2>1, <2>2 DEF EraseFails
<1>4. CASE Erase BY <1>4, EraseTears DEF Erase
<1>5. CASE ProgramLow \/ ProgramHigh BY <1>5, ProgramTears
<1>6. CASE ProgramFails BY <1>6, PageStays DEF ProgramFails
<1>7. CASE Verify BY <1>7, VerifyTears
<1>8. CASE dbRestore BY <1>8, PageStays DEF dbRestore
<1>9. CASE PowerUp BY <1>9, PageStays DEF PowerUp
<1>10. CASE UNCHANGED dbvars BY <1>10, PageStays DEF dbvars
<1> QED
  BY <1>1, <1>2, <1>3, <1>4, <1>5, <1>6, <1>7, <1>8, <1>9, <1>10 DEF FlashNext

\* A page whose checksum fits is whole, or it is torn and sums up to an erased checksum.
LEMMA FittingPages ==
    ASSUME FlashTypeOK, PageIsTorn, ChecksumFits
    PROVE  Image = Saved \/ LooksWhole(Saved, Image)
<1>1. PICK i \in Words : TornAt(i) BY DEF PageIsTorn
<1>2. /\ NumInts \in Nat /\ Saved \in [Items -> Word]
      /\ \A n \in Items : n \in Int /\ n >= 1 /\ n <= NumInts
  BY FlashAssumption, SavedIsWords DEF Items
<1>3. \A n \in Items : n < i => flash[n] = Saved[n]
  BY <1>1, <1>2 DEF TornAt, StoppedAt, WordOf, Words
<1>4. CASE i = NumInts + 1 BY <1>2, <1>3, <1>4 DEF Image
<1>5. CASE i # NumInts + 1
  <2>1. i \in Items /\ NumInts + 1 \in i + 1..NumInts + 1
    BY <1>1, <1>2, <1>5 DEF Words, Items
  <2>2. flash[i] \in TornWords(Saved[i]) BY <1>1, <1>2, <2>1 DEF TornAt, StoppedAt, WordOf
  <2>3. flash[NumInts + 1] = Half * Half - 1 BY <1>1, <2>1 DEF TornAt, StoppedAt
  <2>4. Image = Torn(Saved, i, flash[i])
    <3>1. \A n \in Items : n > i => flash[n] = Half * Half - 1
      BY <1>1, <1>2 DEF TornAt, StoppedAt, Words
    <3>2. \A n \in Items : n < i \/ n = i \/ n > i BY <1>1, <1>2 DEF Words
    <3>3. \A n \in Items : flash[n] = Torn(Saved, i, flash[i])[n]
      BY <1>1, <1>2, <1>3, <3>1, <3>2 DEF Torn, Words
    <3> QED BY <3>3 DEF Image, Torn
  <2>5. Sum(Image) = Half * Half - 1 BY <2>3 DEF ChecksumFits
  <2> QED BY <2>1, <2>2, <2>4, <2>5 DEF LooksWhole
<1> QED BY <1>4, <1>5

\* A start, and a restore from the console, bring back the factory's items, those of
\* the last save as a whole, or those of its torn page that sum up to an erased checksum
\* (db.c:500-523), whatever failed and wherever power was lost. No torn page is excluded:
\* the additive checksum gives this and, as TornPagesAreRejected shows, no more.
THEOREM TornPagesAreTold == FlashSpec => RestoresWholeSaves
<1>1. FlashInit => PageIsTorn
  <2> SUFFICES ASSUME FlashInit PROVE PageIsTorn OBVIOUS
  <2>1. FlashTypeOK
    BY FlashAssumption, WordRange DEF FlashInit, FlashTypeOK, Erased
  <2>2. TornAt(1) BY <2>1, SavedIsWords, ErasedIsTorn DEF FlashInit, TornAt
  <2>3. 1 \in Words BY FlashAssumption DEF Words
  <2> QED BY <2>2, <2>3 DEF PageIsTorn, FlashInit
<1>2. FlashTypeOK /\ FlashTypeOK' /\ FlashInv /\ PageIsTorn /\ [FlashNext]_dbvars
         => PageIsTorn'
  BY NextTears
<1>3. FlashTypeOK /\ PageIsTorn
         => [Restores => \/ intArray' \in {Factory, asked}
                         \/ LooksWhole(Saved, intArray')]_dbvars
  <2> SUFFICES ASSUME FlashTypeOK, PageIsTorn, Restores
               PROVE  intArray' \in {Factory, asked} \/ LooksWhole(Saved, intArray')
    OBVIOUS
  <2>1. CASE ChecksumFits
    <3>1. intArray' = Image BY <2>1 DEF Restores, PowerUp, dbRestore
    <3>2. Image = Saved \/ LooksWhole(Saved, Image) BY <2>1, FittingPages
    <3>3. CASE Image = Saved BY <3>1, <3>3 DEF Saved
    <3>4. CASE LooksWhole(Saved, Image) BY <3>1, <3>4
    <3> QED BY <3>2, <3>3, <3>4
  <2>2. CASE ~ChecksumFits BY <2>2 DEF Restores, PowerUp, dbRestore
  <2> QED BY <2>1, <2>2
<1> QED
  BY <1>1, <1>2, <1>3, FlashInvariance, FlashTypeCorrect, PTL
  DEF FlashSpec, RestoresWholeSaves
============================================================================
