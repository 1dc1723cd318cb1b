--------------------------- MODULE ChThreadsProofs ---------------------------
(***************************************************************************)
(* The life of threads: theorems about ChThreads for any threads, areas,   *)
(* priorities and number of references, over all the states before a      *)
(* registry is used in one of the two ways its code does not cover         *)
(* (`raced`, `stale`).                                                     *)
(* The reference counts are exact, so an area is given back once and never *)
(* under a reference; the registry is a ring through the threads that      *)
(* exist; a joiner finds its thread ended; a message is in one place.      *)
(***************************************************************************)
EXTENDS ChThreads, ChSchedProofs

\* A call that owns the area it works on: nobody else refers to it any more or yet.
Owning == {"create", "check", "unlink", "relink", "free"}

\* A call whose thread is not in the registry yet or any more, and one that is
\* taking it out.
Outside == {"create", "free"}
Removing == {"unlink", "relink"}

ThreadTypes ==
    /\ ThreadsTypeOK
    /\ SchedInv(k)
    /\ \A u \in AllThreads \ Dynamics : p_flags[u] = "STATIC"
    /\ call[Idle] = "none" /\ k.p_state[Main] # "FINAL"

\* The reference main and idle have to themselves.
Own(u) == IF u \in {Main, Idle} THEN 1 ELSE 0

Counted ==
    /\ \A t \in Threads, u \in AllThreads : held[t][u] <= MaxRefs
    /\ \A u \in AllThreads : p_refs[u] = HeldTo(u) + Own(u)

\* What the call c of a thread needs of the thread it works on.
CallFits(t) ==
    /\ call[t] \in {"join", "release"} => arg[t] \in AllThreads /\ Holds(t, arg[t])
    /\ call[t] \in Owning =>
          /\ arg[t] \in AllThreads \ free /\ p_refs[arg[t]] = 0
          /\ \A v \in AllThreads : call[v] \in Owning /\ arg[v] = arg[t] => v = t
    /\ call[t] = "create" =>
          arg[t] \in Dynamics /\ MaxRefs >= 1 /\ k.p_state[arg[t]] = "FINAL"
    /\ call[t] \in Removing \cup {"free"} => MayFree(arg[t])

AreasFit ==
    /\ \A u \in free : k.p_state[u] = "FINAL" /\ p_refs[u] = 0
    /\ \A t \in AllThreads : CallFits(t)

JoinsFit ==
    /\ \A u \in AllThreads :
          /\ NoDuplicates(p_waiting[u])
          /\ Elems(p_waiting[u]) =
                {t \in AllThreads : k.p_state[t] = "WTEXIT" /\ arg[t] = u}
          /\ k.p_state[u] = "FINAL" => p_waiting[u] = <<>>
    /\ \A t \in AllThreads :
          IF k.p_state[t] = "WTEXIT" THEN call[t] = "join"
          ELSE call[t] = "join" => k.p_state[arg[t]] = "FINAL"

\* The senders in the queue of a thread, those it serves.
MessagesFit ==
    /\ \A t \in AllThreads, u \in AllThreads :
          /\ t \in Elems(p_msgqueue[u]) => k.p_state[t] = "SNDMSGQ" /\ Holds(t, u)
          /\ t \in serving[u] => k.p_state[t] = "SNDMSG" /\ Holds(t, u)
    /\ \A t \in AllThreads, u \in AllThreads, v \in AllThreads :
          /\ t \in Elems(p_msgqueue[u]) /\ t \in Elems(p_msgqueue[v]) => u = v
          /\ t \in serving[u] /\ t \in serving[v] => u = v
    /\ \A t \in AllThreads :
          /\ k.p_state[t] = "SNDMSGQ" => \E u \in Threads : t \in Elems(p_msgqueue[u])
          /\ k.p_state[t] = "SNDMSG" => \E u \in Threads : t \in serving[u]
    /\ \A u \in AllThreads :
          /\ NoDuplicates(p_msgqueue[u])
          /\ IF k.p_state[u] = "WTMSG" THEN call[u] = "msgwait" /\ p_msgqueue[u] = <<>>
             ELSE call[u] = "msgwait" => p_msgqueue[u] # <<>>

\* The threads the registry should list.
Listed == {t \in AllThreads \ free :
              /\ ~\E u \in Threads : call[u] \in Outside /\ arg[u] = t
              /\ p_flags[t] = "STATIC" => k.p_state[t] # "FINAL"}

\* The ring through the header and the threads of s.
Node(s, i) == IF i \in 1..Len(s) THEN s[i] ELSE rlist
Ring(s, newer, older) ==
    \A i \in 0..Len(s) : newer[Node(s, i)] = Node(s, i + 1)
                         /\ older[Node(s, i + 1)] = Node(s, i)

\* The registry is a ring, but for the one thread that a release may be removing:
\* w would be the links forward without it.
RegistryFits ==
    \E s \in Seq(AllThreads), w \in [Nodes -> Nodes] :
        /\ NoDuplicates(s) /\ Elems(s) = Listed
        /\ Ring(s, w, p_older)
        /\ ~HalfRemoved => p_newer = w
        /\ \A t \in AllThreads : call[t] = "relink" =>
              p_newer = [w EXCEPT ![p_older[arg[t]]] = w[arg[t]]]

\* One thread at most removes another outside the lock, and the links it has
\* loaded are still those of the thread it removes.
LinksFit ==
    /\ \A t \in AllThreads :
          /\ got_older[t] # NULL => call[t] \in Removing /\ got_older[t] = p_older[arg[t]]
          /\ got_newer[t] # NULL => call[t] \in Removing /\ got_newer[t] = p_newer[arg[t]]
    /\ \A t, v \in AllThreads : Unlinking(t) /\ Unlinking(v) => t = v

ThreadsFit ==
    ThreadTypes /\ Counted /\ AreasFit /\ JoinsFit /\ MessagesFit /\ RegistryFits /\ LinksFit
ThreadsInv == raced \/ stale \/ ThreadsFit

----------------------------------------------------------------------------
(* Tallies: the sums that count references *)

\* n is the running sum of C.
IsTally(n, m, C) ==
    /\ n \in [0..m -> Nat]
    /\ n[0] = 0
    /\ \A i \in 1..m : n[i] = n[i - 1] + C[i]

\* A running sum exists.
LEMMA TallyExists ==
    ASSUME NEW m \in Nat, NEW C \in [1..m -> Nat]
    PROVE  \E n : IsTally(n, m, C)
<1> DEFINE F == [p \in (1..m) \X Nat |-> p[2] + C[p[1]]]
<1>1. F \in [(1..m) \X Nat -> Nat] OBVIOUS
<1>2. \A i \in 1..m, x \in Nat : F[<<i, x>>] = x + C[i] OBVIOUS
<1> HIDE DEF F
<1>3. 0 \in Nat OBVIOUS
<1>4. PICK n \in [0..m -> Nat] : IsIteration(n, m, 0, F)
  BY ONLY m \in Nat, <1>1, <1>3, Iteration
<1>5. n = [i \in 0..m |-> IF i = 0 THEN 0 ELSE F[<<i, n[i - 1]>>]]
  BY <1>4 DEF IsIteration
<1>6. n[0] = 0 BY <1>5
<1>7. \A i \in 1..m : n[i] = n[i - 1] + C[i]
  <2> TAKE i \in 1..m
  <2>1. i - 1 \in 0..m /\ i \in 0..m /\ i # 0 OBVIOUS
  <2>2. n[i] = F[<<i, n[i - 1]>>] BY <1>5, <2>1
  <2>3. n[i - 1] \in Nat BY <2>1
  <2> QED BY <1>2, <2>2, <2>3
<1> QED BY <1>6, <1>7 DEF IsTally

\* Equal summands, equal sums.
LEMMA TallySame ==
    ASSUME NEW m \in Nat, NEW C \in [1..m -> Nat], NEW n, NEW n1,
           IsTally(n, m, C), IsTally(n1, m, C)
    PROVE  n1[m] = n[m]
<1> DEFINE Good == {i \in 0..m : n1[i] = n[i]}
<1>1. 0 \in Good BY DEF IsTally
<1>2. \A i \in 1..m : i - 1 \in Good => i \in Good BY DEF IsTally
<1> HIDE DEF Good
<1>3. \A i \in 0..m : i \in Good BY <1>1, <1>2, TurnInduction
<1> QED BY <1>3 DEF Good

\* One summand is larger by one, so is the sum.
LEMMA TallyMore ==
    ASSUME NEW m \in Nat, NEW C \in [1..m -> Nat], NEW C1 \in [1..m -> Nat],
           NEW j \in 1..m, C1[j] = C[j] + 1,
           \A i \in 1..m : i # j => C1[i] = C[i],
           NEW n, NEW n1, IsTally(n, m, C), IsTally(n1, m, C1)
    PROVE  n1[m] = n[m] + 1
<1> DEFINE Good == {i \in 0..m : n1[i] = n[i] + (IF i < j THEN 0 ELSE 1)}
<1>1. 0 \in Good BY DEF IsTally
<1>2. \A i \in 1..m : i - 1 \in Good => i \in Good
  <2> TAKE i \in 1..m
  <2> HAVE i - 1 \in Good
  <2>1. n1[i] = n1[i - 1] + C1[i] /\ n[i] = n[i - 1] + C[i] BY DEF IsTally
  <2>2. C1[i] = IF i = j THEN C[i] + 1 ELSE C[i] OBVIOUS
  <2>3. n[i - 1] \in Nat /\ C[i] \in Nat BY DEF IsTally
  <2>4. n1[i - 1] = n[i - 1] + (IF i - 1 < j THEN 0 ELSE 1) OBVIOUS
  <2>5. CASE i < j BY <2>1, <2>2, <2>3, <2>4, <2>5
  <2>6. CASE i = j BY <2>1, <2>2, <2>3, <2>4, <2>6
  <2>7. CASE i > j BY <2>1, <2>2, <2>3, <2>4, <2>7
  <2> QED BY <2>5, <2>6, <2>7
<1> HIDE DEF Good
<1>3. \A i \in 0..m : i \in Good BY <1>1, <1>2, TurnInduction
<1>4. m \in 0..m /\ m >= j OBVIOUS
<1> QED BY <1>3, <1>4 DEF Good

\* A sum of zero has no summand, and a sum of nothing is zero.
LEMMA TallyZero ==
    ASSUME NEW m \in Nat, NEW C \in [1..m -> Nat], NEW n, IsTally(n, m, C)
    PROVE  /\ (\A i \in 1..m : C[i] = 0) => n[m] = 0
           /\ \A i \in 1..m : C[i] <= n[m]
<1>1. ASSUME \A i \in 1..m : C[i] = 0 PROVE n[m] = 0
  <2> DEFINE Good == {i \in 0..m : n[i] = 0}
  <2>1. 0 \in Good BY DEF IsTally
  <2>2. \A i \in 1..m : i - 1 \in Good => i \in Good BY <1>1 DEF IsTally
  <2> HIDE DEF Good
  <2>3. \A i \in 0..m : i \in Good BY <2>1, <2>2, TurnInduction
  <2> QED BY <2>3 DEF Good
<1>2. ASSUME NEW j \in 1..m PROVE C[j] <= n[m]
  <2> DEFINE Good == {i \in 0..m : i >= j => C[j] <= n[i]}
  <2>1. 0 \in Good OBVIOUS
  <2>2. \A i \in 1..m : i - 1 \in Good => i \in Good
    <3> TAKE i \in 1..m
    <3> HAVE i - 1 \in Good
    <3>1. n[i] = n[i - 1] + C[i] /\ n[i - 1] \in Nat /\ C[i] \in Nat BY DEF IsTally
    <3>2. i - 1 >= j => C[j] <= n[i - 1] OBVIOUS
    <3>3. CASE i = j BY <3>1, <3>3
    <3>4. CASE i # j BY <3>1, <3>2, <3>4
    <3> QED BY <3>3, <3>4
  <2> HIDE DEF Good
  <2>3. \A i \in 0..m : i \in Good BY <2>1, <2>2, TurnInduction
  <2> QED BY <2>3 DEF Good
<1> QED BY <1>1, <1>2

\* Where the first x summands are positive the sum is at least x.
LEMMA TallyLeast ==
    ASSUME NEW m \in Nat, NEW C \in [1..m -> Nat], NEW n, IsTally(n, m, C),
           NEW x \in Nat, x <= m, \A i \in 1..x : C[i] >= 1
    PROVE  x <= n[m]
<1> DEFINE Good == {i \in 0..m : IF i <= x THEN i <= n[i] ELSE x <= n[i]}
<1>1. 0 \in Good BY DEF IsTally
<1>2. \A i \in 1..m : i - 1 \in Good => i \in Good
  <2> TAKE i \in 1..m
  <2> HAVE i - 1 \in Good
  <2>1. n[i] = n[i - 1] + C[i] /\ n[i - 1] \in Nat /\ C[i] \in Nat BY DEF IsTally
  <2>2. CASE i <= x BY <2>1, <2>2
  <2>3. CASE i > x BY <2>1, <2>3
  <2> QED BY <2>2, <2>3
<1> HIDE DEF Good
<1>3. \A i \in 0..m : i \in Good BY <1>1, <1>2, TurnInduction
<1> QED BY <1>3 DEF Good

----------------------------------------------------------------------------
(* Counting references *)

Refs == [Threads -> [AllThreads -> Nat]]

\* HeldTo and HeldBy, for any references h.
RefsTo(h, u) ==
    LET n[i \in 0..MaxRefs] ==
            IF i = 0 THEN 0
            ELSE n[i - 1] + Cardinality({t \in Threads : h[t][u] >= i})
    IN n[MaxRefs]
RefsBy(h, t) ==
    LET n[i \in 0..MaxRefs] ==
            IF i = 0 THEN 0
            ELSE n[i - 1] + Cardinality({u \in AllThreads : h[t][u] >= i})
    IN n[MaxRefs]

\* The threads with so many references to u, and those t has so many to.
Holders(h, u) == [i \in 1..MaxRefs |-> Cardinality({t \in Threads : h[t][u] >= i})]
HeldOnes(h, t) == [i \in 1..MaxRefs |-> Cardinality({u \in AllThreads : h[t][u] >= i})]

LEMMA FiniteThreads ==
    /\ MaxRefs \in Nat
    /\ \A S \in SUBSET AllThreads : IsFiniteSet(S) /\ Cardinality(S) \in Nat
<1>1. IsFiniteSet(Threads \cup {Idle}) BY SchedAssumption, FS_AddElement
<1>2. IsFiniteSet(AllThreads) BY <1>1 DEF AllThreads
<1>3. ASSUME NEW S \in SUBSET AllThreads PROVE IsFiniteSet(S) /\ Cardinality(S) \in Nat
  <2>1. IsFiniteSet(S) BY <1>2, FS_Subset
  <2> QED BY <2>1, FS_CardinalityType
<1> QED BY <1>3, ThreadsAssumption

\* The number of references to u is a tally of its holders.
LEMMA RefsToTally ==
    ASSUME NEW h, NEW u
    PROVE  /\ Holders(h, u) \in [1..MaxRefs -> Nat]
           /\ \E n : IsTally(n, MaxRefs, Holders(h, u)) /\ RefsTo(h, u) = n[MaxRefs]
<1> DEFINE C == Holders(h, u)
           Turn(i, x) == x + Cardinality({t \in Threads : h[t][u] >= i})
           Loop(n) == n = [i \in 0..MaxRefs |-> IF i = 0 THEN 0 ELSE Turn(i, n[i - 1])]
           b == CHOOSE n : Loop(n)
<1>1. MaxRefs \in Nat BY FiniteThreads
<1>2. C \in [1..MaxRefs -> Nat]
  <2>1. \A i : {t \in Threads : h[t][u] >= i} \in SUBSET AllThreads BY DEF AllThreads
  <2>2. \A i : Cardinality({t \in Threads : h[t][u] >= i}) \in Nat
    BY <2>1, FiniteThreads
  <2> QED BY <2>2 DEF Holders
<1>3. \A i \in 1..MaxRefs : \A x : Turn(i, x) = x + C[i] BY DEF Holders
<1>4. RefsTo(h, u) = b[MaxRefs] BY DEF RefsTo
<1> HIDE DEF C, Turn
<1>5. \E n : Loop(n)
  <2>1. PICK n : IsTally(n, MaxRefs, C) BY <1>1, <1>2, TallyExists
  <2>2. n \in [0..MaxRefs -> Nat] /\ n[0] = 0 BY <2>1 DEF IsTally
  <2>3. ASSUME NEW i \in 0..MaxRefs, i # 0 PROVE n[i] = Turn(i, n[i - 1])
    <3>1. i \in 1..MaxRefs BY <1>1, <2>3
    <3>2. n[i] = n[i - 1] + C[i] BY <2>1, <3>1 DEF IsTally
    <3>3. Turn(i, n[i - 1]) = n[i - 1] + C[i] BY <1>3, <3>1
    <3> QED BY <3>2, <3>3
  <2>4. n = [i \in 0..MaxRefs |-> n[i]] BY <2>2
  <2>5. Loop(n) BY <2>2, <2>3, <2>4
  <2> QED BY <2>5
<1>6. Loop(b)
  <2> HIDE DEF Loop
  <2> QED BY <1>5
<1> HIDE DEF b
<1>7. b[0] = 0 /\ \A i \in 1..MaxRefs : b[i] = b[i - 1] + C[i] BY <1>1, <1>3, <1>6
<1>8. \A i \in 0..MaxRefs : b[i] \in Nat
  <2> DEFINE Good == {i \in 0..MaxRefs : b[i] \in Nat}
  <2>1. 0 \in Good BY <1>1, <1>7
  <2>2. \A i \in 1..MaxRefs : i - 1 \in Good => i \in Good BY <1>1, <1>2, <1>7
  <2> HIDE DEF Good
  <2>3. \A i \in 0..MaxRefs : i \in Good BY <1>1, <2>1, <2>2, TurnInduction
  <2> QED BY <2>3 DEF Good
<1>9. b = [i \in 0..MaxRefs |-> b[i]] BY <1>6
<1>10. IsTally(b, MaxRefs, C) BY <1>7, <1>8, <1>9 DEF IsTally
<1> QED BY <1>2, <1>4, <1>10 DEF C

\* The number of references t has is a tally too.
LEMMA RefsByTally ==
    ASSUME NEW h, NEW t
    PROVE  /\ HeldOnes(h, t) \in [1..MaxRefs -> Nat]
           /\ \E n : IsTally(n, MaxRefs, HeldOnes(h, t)) /\ RefsBy(h, t) = n[MaxRefs]
<1> DEFINE C == HeldOnes(h, t)
           Turn(i, x) == x + Cardinality({u \in AllThreads : h[t][u] >= i})
           Loop(n) == n = [i \in 0..MaxRefs |-> IF i = 0 THEN 0 ELSE Turn(i, n[i - 1])]
           b == CHOOSE n : Loop(n)
<1>1. MaxRefs \in Nat BY FiniteThreads
<1>2. C \in [1..MaxRefs -> Nat]
  <2>1. \A i : {u \in AllThreads : h[t][u] >= i} \in SUBSET AllThreads OBVIOUS
  <2>2. \A i : Cardinality({u \in AllThreads : h[t][u] >= i}) \in Nat
    BY <2>1, FiniteThreads
  <2> QED BY <2>2 DEF HeldOnes
<1>3. \A i \in 1..MaxRefs : \A x : Turn(i, x) = x + C[i] BY DEF HeldOnes
<1>4. RefsBy(h, t) = b[MaxRefs] BY DEF RefsBy
<1> HIDE DEF C, Turn
<1>5. \E n : Loop(n)
  <2>1. PICK n : IsTally(n, MaxRefs, C) BY <1>1, <1>2, TallyExists
  <2>2. n \in [0..MaxRefs -> Nat] /\ n[0] = 0 BY <2>1 DEF IsTally
  <2>3. ASSUME NEW i \in 0..MaxRefs, i # 0 PROVE n[i] = Turn(i, n[i - 1])
    <3>1. i \in 1..MaxRefs BY <1>1, <2>3
    <3>2. n[i] = n[i - 1] + C[i] BY <2>1, <3>1 DEF IsTally
    <3>3. Turn(i, n[i - 1]) = n[i - 1] + C[i] BY <1>3, <3>1
    <3> QED BY <3>2, <3>3
  <2>4. n = [i \in 0..MaxRefs |-> n[i]] BY <2>2
  <2>5. Loop(n) BY <2>2, <2>3, <2>4
  <2> QED BY <2>5
<1>6. Loop(b)
  <2> HIDE DEF Loop
  <2> QED BY <1>5
<1> HIDE DEF b
<1>7. b[0] = 0 /\ \A i \in 1..MaxRefs : b[i] = b[i - 1] + C[i] BY <1>1, <1>3, <1>6
<1>8. \A i \in 0..MaxRefs : b[i] \in Nat
  <2> DEFINE Good == {i \in 0..MaxRefs : b[i] \in Nat}
  <2>1. 0 \in Good BY <1>1, <1>7
  <2>2. \A i \in 1..MaxRefs : i - 1 \in Good => i \in Good BY <1>1, <1>2, <1>7
  <2> HIDE DEF Good
  <2>3. \A i \in 0..MaxRefs : i \in Good BY <1>1, <2>1, <2>2, TurnInduction
  <2> QED BY <2>3 DEF Good
<1>9. b = [i \in 0..MaxRefs |-> b[i]] BY <1>6
<1>10. IsTally(b, MaxRefs, C) BY <1>7, <1>8, <1>9 DEF IsTally
<1> QED BY <1>2, <1>4, <1>10 DEF C

\* The number of references to u depends on those only.
LEMMA RefsSame ==
    ASSUME NEW h, NEW h1, NEW u, \A t \in Threads : h1[t][u] = h[t][u]
    PROVE  RefsTo(h1, u) = RefsTo(h, u)
<1>1. Holders(h1, u) = Holders(h, u) BY DEF Holders
<1>2. PICK n : IsTally(n, MaxRefs, Holders(h, u)) /\ RefsTo(h, u) = n[MaxRefs]
  BY RefsToTally
<1>3. PICK n1 : IsTally(n1, MaxRefs, Holders(h, u)) /\ RefsTo(h1, u) = n1[MaxRefs]
  BY <1>1, RefsToTally
<1>4. MaxRefs \in Nat /\ Holders(h, u) \in [1..MaxRefs -> Nat]
  BY RefsToTally, FiniteThreads
<1> HIDE DEF Holders
<1> QED BY <1>2, <1>3, <1>4, TallySame

\* One more reference counts for one.
LEMMA RefsMore ==
    ASSUME NEW h \in Refs, NEW h1 \in Refs, NEW c \in Threads, NEW u \in AllThreads,
           h1[c][u] = h[c][u] + 1, h1[c][u] <= MaxRefs,
           \A t \in Threads \ {c} : h1[t][u] = h[t][u]
    PROVE  RefsTo(h1, u) = RefsTo(h, u) + 1
<1> DEFINE C == Holders(h, u)
           C1 == Holders(h1, u)
           j == h[c][u] + 1
           At(g, i) == {t \in Threads : g[t][u] >= i}
<1>1. MaxRefs \in Nat BY FiniteThreads
<1>2. h[c][u] \in Nat /\ h1[c][u] \in Nat BY DEF Refs
<1>3. j \in 1..MaxRefs BY <1>1, <1>2
<1>4. \A t \in Threads : h[t][u] \in Nat /\ h1[t][u] \in Nat BY DEF Refs
<1>5. C \in [1..MaxRefs -> Nat] /\ C1 \in [1..MaxRefs -> Nat] BY RefsToTally
<1>6. \A i \in 1..MaxRefs : C[i] = Cardinality(At(h, i)) /\ C1[i] = Cardinality(At(h1, i))
  BY DEF Holders
<1>7. \A i \in 1..MaxRefs : i # j => At(h1, i) = At(h, i) BY <1>2, <1>4
<1>8. At(h1, j) = At(h, j) \cup {c} /\ c \notin At(h, j) BY <1>2, <1>4
<1>9. C1[j] = C[j] + 1
  <2>1. At(h, j) \in SUBSET AllThreads BY DEF AllThreads
  <2>2. IsFiniteSet(At(h, j)) BY <2>1, FiniteThreads
  <2>3. Cardinality(At(h1, j)) = Cardinality(At(h, j)) + 1
    BY <1>8, <2>2, FS_AddElement
  <2> QED BY <1>3, <1>6, <2>3
<1>10. \A i \in 1..MaxRefs : i # j => C1[i] = C[i] BY <1>6, <1>7
<1>11. PICK n : IsTally(n, MaxRefs, C) /\ RefsTo(h, u) = n[MaxRefs] BY RefsToTally
<1>12. PICK n1 : IsTally(n1, MaxRefs, C1) /\ RefsTo(h1, u) = n1[MaxRefs] BY RefsToTally
<1> HIDE DEF C, C1, At, j
<1>13. n1[MaxRefs] = n[MaxRefs] + 1
  <2>1. IsTally(n, MaxRefs, C) /\ IsTally(n1, MaxRefs, C1) BY <1>11, <1>12
  <2> QED BY ONLY <1>1, <1>3, <1>5, <1>9, <1>10, <2>1, TallyMore
<1> QED BY <1>11, <1>12, <1>13

\* A count of zero means that there is no reference.
LEMMA RefsZero ==
    ASSUME NEW h \in Refs, NEW u \in AllThreads
    PROVE  /\ RefsTo(h, u) \in Nat
           /\ (\A t \in Threads : h[t][u] = 0) => RefsTo(h, u) = 0
           /\ \A t \in Threads :
                 h[t][u] <= MaxRefs /\ h[t][u] > 0 => RefsTo(h, u) >= 1
<1> DEFINE C == Holders(h, u)
           At(i) == {t \in Threads : h[t][u] >= i}
<1>1. MaxRefs \in Nat /\ C \in [1..MaxRefs -> Nat] BY FiniteThreads, RefsToTally
<1>2. PICK n : IsTally(n, MaxRefs, C) /\ RefsTo(h, u) = n[MaxRefs] BY RefsToTally
<1>3. \A i \in 1..MaxRefs : C[i] = Cardinality(At(i)) BY DEF Holders
<1>4. \A t \in Threads : h[t][u] \in Nat BY DEF Refs
<1>5. RefsTo(h, u) \in Nat BY <1>1, <1>2 DEF IsTally
<1>6. /\ (\A i \in 1..MaxRefs : C[i] = 0) => n[MaxRefs] = 0
      /\ \A i \in 1..MaxRefs : C[i] <= n[MaxRefs]
  <2> HIDE DEF C
  <2> QED BY <1>1, <1>2, TallyZero
<1>7. ASSUME \A t \in Threads : h[t][u] = 0 PROVE RefsTo(h, u) = 0
  <2>1. \A i \in 1..MaxRefs : At(i) = {} BY <1>7
  <2>2. \A i \in 1..MaxRefs : C[i] = 0 BY <1>3, <2>1, FS_EmptySet
  <2> QED BY <1>2, <1>6, <2>2
<1>8. ASSUME NEW t \in Threads, h[t][u] <= MaxRefs, h[t][u] > 0
      PROVE  RefsTo(h, u) >= 1
  <2>1. t \in At(1) /\ 1 \in 1..MaxRefs BY <1>1, <1>4, <1>8
  <2>2. At(1) \in SUBSET AllThreads BY DEF AllThreads
  <2>3. IsFiniteSet(At(1)) /\ Cardinality(At(1)) \in Nat BY <2>2, FiniteThreads
  <2>4. Cardinality(At(1)) # 0 BY <2>1, <2>3, FS_EmptySet
  <2>5. C[1] >= 1 BY <1>3, <2>1, <2>3, <2>4
  <2>6. C[1] <= n[MaxRefs] BY <1>6, <2>1
  <2> HIDE DEF C
  <2> QED BY <1>1, <1>2, <1>5, <2>1, <2>5, <2>6
<1> QED BY <1>5, <1>7, <1>8

\* A thread that has room for a reference has room for one more to each thread.
LEMMA RefsRoom ==
    ASSUME NEW h \in Refs, NEW t \in Threads, RefsBy(h, t) < MaxRefs,
           NEW u \in AllThreads
    PROVE  h[t][u] < MaxRefs
<1> DEFINE C == HeldOnes(h, t)
           At(i) == {v \in AllThreads : h[t][v] >= i}
<1>1. MaxRefs \in Nat /\ C \in [1..MaxRefs -> Nat] BY FiniteThreads, RefsByTally
<1>2. PICK n : IsTally(n, MaxRefs, C) /\ RefsBy(h, t) = n[MaxRefs] BY RefsByTally
<1>3. \A i \in 1..MaxRefs : C[i] = Cardinality(At(i)) BY DEF HeldOnes
<1>4. h[t][u] \in Nat BY DEF Refs
<1>5. SUFFICES ASSUME h[t][u] >= MaxRefs PROVE FALSE BY <1>1, <1>4
<1>6. \A i \in 1..MaxRefs : C[i] >= 1
  <2> TAKE i \in 1..MaxRefs
  <2>1. u \in At(i) BY <1>1, <1>4, <1>5
  <2>2. At(i) \in SUBSET AllThreads OBVIOUS
  <2>3. IsFiniteSet(At(i)) /\ Cardinality(At(i)) \in Nat BY <2>2, FiniteThreads
  <2>4. Cardinality(At(i)) # 0 BY <2>1, <2>3, FS_EmptySet
  <2> QED BY <1>3, <2>3, <2>4
<1> HIDE DEF C
<1>7. MaxRefs <= n[MaxRefs] BY <1>1, <1>2, <1>6, TallyLeast
<1>8. n[MaxRefs] \in Nat BY <1>1, <1>2 DEF IsTally
<1> QED BY <1>1, <1>2, <1>7, <1>8

\* The counts of the model.
LEMMA TheRefs ==
    /\ \A u : HeldTo(u) = RefsTo(held, u)
    /\ \A t : HeldBy(t) = RefsBy(held, t)
BY DEF HeldTo, HeldBy, RefsTo, RefsBy

----------------------------------------------------------------------------
(* The ring *)

NewerIns(n, o, t) == [[n EXCEPT ![t] = rlist] EXCEPT ![o[rlist]] = t]
OlderIns(o, t) == [o EXCEPT ![t] = o[rlist], ![rlist] = t]
NewerDel(n, o, t) == [n EXCEPT ![o[t]] = n[t]]
OlderDel(n, o, t) == [o EXCEPT ![n[t]] = o[t]]

\* The nodes of a ring are different, the header aside.
LEMMA RingNodes ==
    ASSUME NEW s \in Seq(AllThreads), NoDuplicates(s)
    PROVE  /\ \A i : Node(s, i) \in Nodes
           /\ \A i \in 1..Len(s) : Node(s, i) = s[i] /\ s[i] \in AllThreads /\ s[i] # rlist
           /\ Node(s, 0) = rlist /\ Node(s, Len(s) + 1) = rlist
           /\ \A i, j \in 0..Len(s) : Node(s, i) = Node(s, j) => i = j
           /\ \A i, j \in 1..Len(s) + 1 : Node(s, i) = Node(s, j) => i = j
<1>1. Len(s) \in Nat /\ \A i \in 1..Len(s) : s[i] \in AllThreads OBVIOUS
<1>2. rlist \notin AllThreads BY ThreadsAssumption
<1>3. \A i \in 1..Len(s) : Node(s, i) = s[i] BY DEF Node
<1>4. \A i : i \notin 1..Len(s) => Node(s, i) = rlist BY DEF Node
<1>5. 0 \notin 1..Len(s) /\ Len(s) + 1 \notin 1..Len(s) BY <1>1
<1>6. \A i, j \in 1..Len(s) : s[i] = s[j] => i = j BY DEF NoDuplicates
<1>7. \A i : Node(s, i) \in Nodes
  <2> TAKE i
  <2>1. CASE i \in 1..Len(s) BY <1>1, <1>3, <2>1 DEF Nodes
  <2>2. CASE i \notin 1..Len(s) BY <1>4, <2>2 DEF Nodes
  <2> QED BY <2>1, <2>2
<1>8. ASSUME NEW i \in 0..Len(s) + 1, i \notin 1..Len(s),
             NEW j \in 1..Len(s)
      PROVE  Node(s, i) # Node(s, j)
  BY <1>1, <1>2, <1>3, <1>4, <1>8
<1>9. ASSUME NEW i \in 0..Len(s), NEW j \in 0..Len(s), Node(s, i) = Node(s, j)
      PROVE  i = j
  <2>1. CASE i \in 1..Len(s) /\ j \in 1..Len(s) BY <1>3, <1>6, <1>9, <2>1
  <2>2. CASE i = 0 \/ j = 0
    <3>1. i \in 0..Len(s) + 1 /\ j \in 0..Len(s) + 1 BY <1>1
    <3> QED BY <1>1, <1>5, <1>8, <1>9, <2>2, <3>1
  <2> QED BY <1>1, <2>1, <2>2
<1>10. ASSUME NEW i \in 1..Len(s) + 1, NEW j \in 1..Len(s) + 1, Node(s, i) = Node(s, j)
       PROVE  i = j
  <2>1. CASE i \in 1..Len(s) /\ j \in 1..Len(s) BY <1>3, <1>6, <1>10, <2>1
  <2>2. CASE i = Len(s) + 1 \/ j = Len(s) + 1
    <3>1. i \in 0..Len(s) + 1 /\ j \in 0..Len(s) + 1 BY <1>1
    <3>2. (i = Len(s) + 1 \/ i \in 1..Len(s)) /\ (j = Len(s) + 1 \/ j \in 1..Len(s))
      BY <1>1
    <3> QED BY <1>5, <1>8, <1>10, <2>2, <3>1, <3>2
  <2> QED BY <1>1, <2>1, <2>2
<1> QED BY <1>1, <1>2, <1>3, <1>4, <1>5, <1>7, <1>9, <1>10

\* From each node of a ring the links lead to a node and back.
LEMMA RingLinks ==
    ASSUME NEW s \in Seq(AllThreads), NoDuplicates(s), NEW n, NEW o, Ring(s, n, o),
           NEW x \in Elems(s) \cup {rlist}
    PROVE  /\ n[x] \in Elems(s) \cup {rlist} /\ o[n[x]] = x
           /\ o[x] \in Elems(s) \cup {rlist} /\ n[o[x]] = x
           /\ x # rlist => n[x] # x /\ o[x] # x
           /\ Elems(s) # {} => n[rlist] # rlist /\ o[rlist] # rlist
<1>1. Len(s) \in Nat OBVIOUS
<1>2. /\ \A i \in 1..Len(s) : Node(s, i) = s[i] /\ s[i] # rlist
      /\ Node(s, 0) = rlist /\ Node(s, Len(s) + 1) = rlist
      /\ \A i, j \in 0..Len(s) : Node(s, i) = Node(s, j) => i = j
      /\ \A i, j \in 1..Len(s) + 1 : Node(s, i) = Node(s, j) => i = j
  BY RingNodes
<1>3. \A i \in 0..Len(s) : n[Node(s, i)] = Node(s, i + 1) /\ o[Node(s, i + 1)] = Node(s, i)
  BY DEF Ring
<1>4. \A i \in 0..Len(s) + 1 : Node(s, i) \in Elems(s) \cup {rlist}
  <2> TAKE i \in 0..Len(s) + 1
  <2>1. CASE i \in 1..Len(s) BY <1>2, <2>1 DEF Elems
  <2>2. CASE i = 0 \/ i = Len(s) + 1 BY <1>2, <2>2
  <2> QED BY <1>1, <2>1, <2>2
<1>5. PICK j \in 0..Len(s) : x = Node(s, j)
  <2>1. CASE x = rlist BY <1>1, <1>2, <2>1
  <2>2. CASE x \in Elems(s)
    <3>1. PICK j \in 1..Len(s) : x = s[j] BY <2>2 DEF Elems
    <3> QED BY <1>1, <1>2, <3>1
  <2> QED BY <2>1, <2>2
<1>6. n[x] \in Elems(s) \cup {rlist} /\ o[n[x]] = x
  <2>1. j + 1 \in 0..Len(s) + 1 BY <1>1
  <2> QED BY <1>3, <1>4, <1>5, <2>1
<1>7. PICK i \in 1..Len(s) + 1 : x = Node(s, i)
  <2>1. CASE j = 0
    <3>1. x = Node(s, Len(s) + 1) /\ Len(s) + 1 \in 1..Len(s) + 1 BY <1>1, <1>2, <1>5, <2>1
    <3> QED BY <3>1
  <2>2. CASE j # 0
    <3>1. j \in 1..Len(s) + 1 BY <1>1, <2>2
    <3> QED BY <1>5, <3>1
  <2> QED BY <2>1, <2>2
<1>8. o[x] \in Elems(s) \cup {rlist} /\ n[o[x]] = x
  <2>1. i - 1 \in 0..Len(s) /\ i - 1 \in 0..Len(s) + 1 /\ (i - 1) + 1 = i BY <1>1
  <2>2. o[x] = Node(s, i - 1) /\ n[Node(s, i - 1)] = x BY <1>3, <1>7, <2>1
  <2> QED BY <1>4, <2>1, <2>2
<1>9. ASSUME x # rlist PROVE n[x] # x /\ o[x] # x
  <2>1. j # 0 BY <1>2, <1>5, <1>9
  <2>2. j \in 1..Len(s) + 1 /\ j + 1 \in 1..Len(s) + 1 BY <1>1, <2>1
  <2>3. n[x] = Node(s, j + 1) BY <1>3, <1>5
  <2>4. n[x] # x BY <1>2, <1>5, <2>2, <2>3
  <2> QED BY <1>8, <2>4
<1>10. ASSUME Elems(s) # {} PROVE n[rlist] # rlist /\ o[rlist] # rlist
  <2>1. Len(s) # 0 BY <1>1, <1>10 DEF Elems
  <2>2. 0 \in 0..Len(s) /\ Len(s) \in 0..Len(s) /\ 0 + 1 = 1
        /\ 1 \in 1..Len(s) /\ Len(s) \in 1..Len(s)
    BY <1>1, <2>1
  <2>3. n[rlist] = Node(s, 1) BY <1>2, <1>3, <2>2
  <2>4. o[rlist] = Node(s, Len(s)) BY <1>2, <1>3, <2>2
  <2> QED BY <1>2, <2>2, <2>3, <2>4
<1> QED BY <1>6, <1>8, <1>9, <1>10

\* REG_INSERT() adds the newest thread.
LEMMA RingInsert ==
    ASSUME NEW s \in Seq(AllThreads), NoDuplicates(s),
           NEW n \in [Nodes -> Nodes], NEW o \in [Nodes -> Nodes], Ring(s, n, o),
           NEW t \in AllThreads, t \notin Elems(s)
    PROVE  /\ Ring(Append(s, t), NewerIns(n, o, t), OlderIns(o, t))
           /\ NewerIns(n, o, t) \in [Nodes -> Nodes]
           /\ OlderIns(o, t) \in [Nodes -> Nodes]
<1> DEFINE r == Append(s, t)
           m == Len(s)
           n1 == NewerIns(n, o, t)
           o1 == OlderIns(o, t)
<1>1. m \in Nat /\ r \in Seq(AllThreads) /\ Len(r) = m + 1
      /\ r[m + 1] = t /\ \A i \in 1..m : r[i] = s[i]
  OBVIOUS
<1>2. /\ \A i : Node(s, i) \in Nodes
      /\ \A i \in 1..m : Node(s, i) = s[i] /\ s[i] \in AllThreads /\ s[i] # rlist
      /\ Node(s, 0) = rlist /\ Node(s, m + 1) = rlist
      /\ \A i, j \in 0..m : Node(s, i) = Node(s, j) => i = j
  BY RingNodes
<1>3. \A i \in 0..m : n[Node(s, i)] = Node(s, i + 1) /\ o[Node(s, i + 1)] = Node(s, i)
  BY DEF Ring
<1>4. o[rlist] = Node(s, m) BY <1>1, <1>2, <1>3
<1>5. t # rlist /\ t \in Nodes /\ rlist \in Nodes BY ThreadsAssumption DEF Nodes
<1>6. \A i \in 0..m : Node(s, i) # t
  <2> TAKE i \in 0..m
  <2>1. CASE i = 0 BY <1>2, <1>5, <2>1
  <2>2. CASE i \in 1..m BY <1>2, <2>2 DEF Elems
  <2> QED BY <1>1, <2>1, <2>2
<1>7. /\ Node(r, 0) = rlist /\ Node(r, m + 1) = t /\ Node(r, m + 2) = rlist
      /\ \A i \in 1..m : Node(r, i) = Node(s, i)
  <2>1. 0 \notin 1..Len(r) /\ m + 1 \in 1..Len(r) /\ m + 2 \notin 1..Len(r)
        /\ \A i \in 1..m : i \in 1..Len(r)
    BY <1>1
  <2> HIDE DEF r
  <2> QED BY <1>1, <1>2, <2>1 DEF Node
<1>8. /\ n1 \in [Nodes -> Nodes] /\ o1 \in [Nodes -> Nodes]
      /\ n1[Node(s, m)] = t /\ n1[t] = rlist
      /\ \A x \in Nodes : x # t /\ x # Node(s, m) => n1[x] = n[x]
      /\ o1[t] = Node(s, m) /\ o1[rlist] = t
      /\ \A x \in Nodes : x # t /\ x # rlist => o1[x] = o[x]
  <2>1. Node(s, m) \in Nodes /\ Node(s, m) # t BY <1>1, <1>2, <1>6
  <2> QED BY <1>4, <1>5, <2>1 DEF NewerIns, OlderIns
<1> HIDE DEF r, n1, o1, m
<1>9. ASSUME NEW i \in 0..m + 1
      PROVE  n1[Node(r, i)] = Node(r, i + 1) /\ o1[Node(r, i + 1)] = Node(r, i)
  <2>1. CASE i = m + 1
    <3>1. i + 1 = m + 2 BY <1>1, <2>1
    <3> QED BY <1>7, <1>8, <2>1, <3>1
  <2>2. CASE i = m
    <3>1. Node(r, m) = Node(s, m)
      <4>1. m = 0 \/ m \in 1..m BY <1>1
      <4> QED BY <1>2, <1>7, <4>1
    <3> QED BY <1>7, <1>8, <2>2, <3>1
  <2>3. CASE i < m
    <3>1. i \in 0..m /\ m \in 0..m /\ i # m /\ i + 1 \in 1..m /\ i + 1 \in 0..m
      BY <1>1, <2>3
    <3>2. Node(r, i) = Node(s, i)
      <4>1. i = 0 \/ i \in 1..m BY <3>1
      <4> QED BY <1>2, <1>7, <4>1
    <3>3. Node(r, i + 1) = Node(s, i + 1) BY <1>7, <3>1
    <3>4. Node(s, i) # t /\ Node(s, i) # Node(s, m) BY <1>2, <1>6, <3>1
    <3>5. Node(s, i + 1) # t /\ Node(s, i + 1) # rlist BY <1>2, <1>6, <3>1
    <3> QED BY <1>2, <1>3, <1>8, <3>1, <3>2, <3>3, <3>4, <3>5
  <2>4. i = m + 1 \/ i = m \/ i < m BY <1>1
  <2> QED BY <2>1, <2>2, <2>3, <2>4
<1>10. Ring(r, n1, o1) BY <1>1, <1>9 DEF Ring
<1> QED BY <1>8, <1>10 DEF r, n1, o1

\* dequeue() closes the gap.
LEMMA DequeueAt ==
    ASSUME NEW s \in Seq(AllThreads), NoDuplicates(s), NEW j \in 1..Len(s)
    PROVE  /\ dequeue(s, s[j]) \in Seq(AllThreads)
           /\ Len(dequeue(s, s[j])) = Len(s) - 1
           /\ \A i \in 1..Len(s) - 1 :
                 dequeue(s, s[j])[i] = IF i < j THEN s[i] ELSE s[i + 1]
<1> DEFINE a == SubSeq(s, 1, j - 1)
           b == SubSeq(s, j + 1, Len(s))
           r == a \o b
           l == CHOOSE i \in 1..Len(s) : s[i] = s[j]
<1>1. l = j BY DEF NoDuplicates
<1>2. dequeue(s, s[j]) = r BY <1>1 DEF dequeue
<1> HIDE DEF l
<1>3. /\ a \in Seq(AllThreads) /\ Len(a) = j - 1
      /\ \A i \in 1..j - 1 : a[i] = s[i]
  BY SubSeqProperties
<1>4. /\ b \in Seq(AllThreads) /\ Len(b) = Len(s) - j
      /\ \A i \in 1..Len(s) - j : b[i] = s[j + i]
  BY SubSeqProperties
<1> HIDE DEF a, b
<1>5. /\ r \in Seq(AllThreads) /\ Len(r) = Len(a) + Len(b)
      /\ \A i \in 1..Len(a) + Len(b) :
           r[i] = IF i <= Len(a) THEN a[i] ELSE b[i - Len(a)]
  BY <1>3, <1>4, ConcatProperties
<1> HIDE DEF r
<1>6. Len(a) + Len(b) = Len(s) - 1 /\ Len(a) = j - 1 BY <1>3, <1>4
<1>7. ASSUME NEW i \in 1..Len(s) - 1, i < j PROVE r[i] = s[i]
  <2>1. r[i] = a[i] BY <1>5, <1>6, <1>7
  <2> QED BY <1>3, <1>7, <2>1
<1>8. ASSUME NEW i \in 1..Len(s) - 1, i >= j PROVE r[i] = s[i + 1]
  <2>0. i \in 1..Len(a) + Len(b) /\ ~ (i <= Len(a)) BY <1>6, <1>8
  <2>1. r[i] = b[i - (j - 1)] BY <1>5, <1>6, <2>0
  <2>2. i - (j - 1) \in 1..Len(s) - j /\ j + (i - (j - 1)) = i + 1 BY <1>8
  <2> QED BY <1>4, <2>1, <2>2
<1> QED BY <1>2, <1>5, <1>6, <1>7, <1>8

\* REG_REMOVE() of a thread of the ring.
LEMMA RingRemove ==
    ASSUME NEW s \in Seq(AllThreads), NoDuplicates(s),
           NEW n \in [Nodes -> Nodes], NEW o \in [Nodes -> Nodes], Ring(s, n, o),
           NEW x \in Elems(s)
    PROVE  /\ Ring(dequeue(s, x), NewerDel(n, o, x), OlderDel(n, o, x))
           /\ NewerDel(n, o, x) \in [Nodes -> Nodes]
           /\ OlderDel(n, o, x) \in [Nodes -> Nodes]
<1> DEFINE r == dequeue(s, x)
           m == Len(s)
           n1 == NewerDel(n, o, x)
           o1 == OlderDel(n, o, x)
<1>1. PICK j \in 1..m : x = s[j] BY DEF Elems
<1>2. m \in Nat OBVIOUS
<1>3. /\ r \in Seq(AllThreads) /\ Len(r) = m - 1
      /\ \A i \in 1..m - 1 : r[i] = IF i < j THEN s[i] ELSE s[i + 1]
  BY <1>1, DequeueAt
<1>4. /\ \A i : Node(s, i) \in Nodes
      /\ \A i \in 1..m : Node(s, i) = s[i] /\ s[i] \in AllThreads /\ s[i] # rlist
      /\ Node(s, 0) = rlist /\ Node(s, m + 1) = rlist
      /\ \A i, l \in 0..m : Node(s, i) = Node(s, l) => i = l
      /\ \A i, l \in 1..m + 1 : Node(s, i) = Node(s, l) => i = l
  BY RingNodes
<1>5. \A i \in 0..m : n[Node(s, i)] = Node(s, i + 1) /\ o[Node(s, i + 1)] = Node(s, i)
  BY DEF Ring
<1>6. o[x] = Node(s, j - 1) /\ n[x] = Node(s, j + 1)
  <2>1. j \in 0..m /\ j - 1 \in 0..m /\ (j - 1) + 1 = j BY <1>2
  <2>2. x = Node(s, j) BY <1>1, <1>4
  <2> QED BY <1>5, <2>1, <2>2
<1>7. /\ n1 \in [Nodes -> Nodes] /\ o1 \in [Nodes -> Nodes]
      /\ n1[Node(s, j - 1)] = Node(s, j + 1)
      /\ \A y \in Nodes : y # Node(s, j - 1) => n1[y] = n[y]
      /\ o1[Node(s, j + 1)] = Node(s, j - 1)
      /\ \A y \in Nodes : y # Node(s, j + 1) => o1[y] = o[y]
  <2>1. Node(s, j - 1) \in Nodes /\ Node(s, j + 1) \in Nodes BY <1>4
  <2> QED BY <1>6, <2>1 DEF NewerDel, OlderDel
<1>8. \A i \in 0..m : Node(r, i) = IF i < j THEN Node(s, i) ELSE Node(s, i + 1)
  <2> TAKE i \in 0..m
  <2> HIDE DEF r
  <2>1. CASE i = 0
    <3>1. i \notin 1..Len(r) /\ i < j BY <1>2, <1>3, <2>1
    <3> QED BY <1>4, <2>1, <3>1 DEF Node
  <2>2. CASE i = m /\ i # 0
    <3>1. i \notin 1..Len(r) /\ ~ (i < j) BY <1>2, <1>3, <2>2
    <3> QED BY <1>4, <2>2, <3>1 DEF Node
  <2>3. CASE i \in 1..m - 1
    <3>1. i \in 1..Len(r) /\ i \in 1..m /\ i + 1 \in 1..m BY <1>2, <1>3, <2>3
    <3>2. Node(r, i) = r[i] BY <3>1 DEF Node
    <3> QED BY <1>3, <1>4, <2>3, <3>1, <3>2
  <2> QED BY <1>2, <2>1, <2>2, <2>3
<1> HIDE DEF r, n1, o1, m
<1>9. ASSUME NEW i \in 0..m - 1
      PROVE  n1[Node(r, i)] = Node(r, i + 1) /\ o1[Node(r, i + 1)] = Node(r, i)
  <2>0. /\ i \in 0..m /\ i + 1 \in 0..m /\ i + 1 \in 1..m + 1 /\ (i + 1) + 1 = i + 2
        /\ j - 1 \in 0..m /\ j + 1 \in 1..m + 1 /\ m \in Nat
    BY <1>2
  <2>1. CASE i < j - 1
    <3>1. i < j /\ i + 1 < j /\ i # j - 1 /\ i + 1 # j + 1 BY <2>0, <2>1
    <3>2. Node(r, i) = Node(s, i) /\ Node(r, i + 1) = Node(s, i + 1)
      BY <1>8, <2>0, <3>1
    <3>3. Node(s, i) # Node(s, j - 1) /\ Node(s, i + 1) # Node(s, j + 1)
      BY <1>4, <2>0, <3>1
    <3> QED BY <1>4, <1>5, <1>7, <2>0, <3>2, <3>3
  <2>2. CASE i = j - 1
    <3>1. i < j /\ ~ (i + 1 < j) /\ i + 2 = j + 1 BY <2>0, <2>2
    <3>2. Node(r, i) = Node(s, j - 1) /\ Node(r, i + 1) = Node(s, j + 1)
      BY <1>8, <2>0, <2>2, <3>1
    <3> QED BY <1>7, <3>2
  <2>3. CASE i >= j
    <3>1. ~ (i < j) /\ ~ (i + 1 < j) /\ i + 1 # j - 1 /\ i + 2 # j + 1
          /\ i + 2 \in 1..m + 1
      BY <2>0, <2>3
    <3>2. Node(r, i) = Node(s, i + 1) /\ Node(r, i + 1) = Node(s, i + 2)
      BY <1>8, <2>0, <3>1
    <3>3. Node(s, i + 1) # Node(s, j - 1) /\ Node(s, i + 2) # Node(s, j + 1)
      BY <1>4, <2>0, <3>1
    <3>4. n[Node(s, i + 1)] = Node(s, i + 2) /\ o[Node(s, i + 2)] = Node(s, i + 1)
      BY <1>5, <2>0
    <3> QED BY <1>4, <1>7, <3>2, <3>3, <3>4
  <2> QED BY <2>0, <2>1, <2>2, <2>3
<1>10. Ring(r, n1, o1) BY <1>2, <1>3, <1>9 DEF Ring
<1> QED BY <1>7, <1>10 DEF r, n1, o1

\* A ring that comes back after one thread has no other.
LEMMA RingOne ==
    ASSUME NEW s \in Seq(AllThreads), NoDuplicates(s), NEW n, NEW o, Ring(s, n, o),
           NEW x, n[rlist] = x, n[x] = rlist
    PROVE  Elems(s) \subseteq {x}
<1>1. /\ \A i \in 1..Len(s) : Node(s, i) = s[i] /\ s[i] # rlist
      /\ Node(s, 0) = rlist
  BY RingNodes
<1>2. \A i \in 0..Len(s) : n[Node(s, i)] = Node(s, i + 1) BY DEF Ring
<1>3. Len(s) \in Nat OBVIOUS
<1>4. Node(s, 1) = x
  <2>1. 0 \in 0..Len(s) /\ 0 + 1 = 1 BY <1>3
  <2> QED BY <1>1, <1>2, <2>1
<1>5. Len(s) <= 1
  <2> SUFFICES ASSUME Len(s) >= 2 PROVE FALSE BY <1>3
  <2>1. 1 \in 0..Len(s) /\ 1 + 1 = 2 /\ 2 \in 1..Len(s) BY <1>3
  <2>2. n[Node(s, 1)] = Node(s, 2) BY <1>2, <2>1
  <2> QED BY <1>1, <1>4, <2>1, <2>2
<1>6. \A i \in 1..Len(s) : i = 1 BY <1>3, <1>5
<1>7. \A i \in 1..Len(s) : s[i] = x BY <1>1, <1>4, <1>6
<1> QED BY <1>7 DEF Elems

----------------------------------------------------------------------------
(* Steps of the scheduler *)

\* From s to r no thread outside X enters or leaves a wait state.
SameWaits(s, r, X) ==
    \A u \in AllThreads \ X :
        \/ r.p_state[u] = s.p_state[u]
        \/ r.p_state[u] \in Runnable /\ s.p_state[u] \in Runnable

LEMMA KeepsWaits ==
    ASSUME NEW s, NEW r, NEW X, Keeps(s, r, X)
    PROVE  SameWaits(s, r, X)
BY DEF Keeps, SameWaits

LEMMA WaitsChain ==
    ASSUME NEW s, NEW r, NEW z, NEW X, NEW Y, SameWaits(s, r, X), SameWaits(r, z, Y)
    PROVE  SameWaits(s, z, X \cup Y)
BY DEF SameWaits

\* The new thread is suspended.
LEMMA SuspendedOK ==
    ASSUME SchedInv(k), NEW tp \in Threads, k.p_state[tp] = "FINAL"
    PROVE  /\ SchedInv(Suspended(tp))
           /\ Suspended(tp).r_current = k.r_current
           /\ Suspended(tp).p_state = [k.p_state EXCEPT ![tp] = "SUSPENDED"]
<1> DEFINE st == [k.p_state EXCEPT ![tp] = "SUSPENDED"]
           pr == [k.p_prio EXCEPT ![tp] = ThdPrio[tp]]
           pe == [k.p_preempt EXCEPT ![tp] = CH_TIME_QUANTUM]
           r == Suspended(tp)
<1>1. /\ tp \in AllThreads /\ k \in SchedStates /\ tp # Idle
      /\ k.p_state \in [AllThreads -> ThreadStates]
      /\ k.p_prio \in [AllThreads -> Prios]
      /\ k.p_preempt \in [AllThreads -> 0..CH_TIME_QUANTUM]
  BY SchedAssumption DEF SchedInv, SchedStates, AllThreads
<1>2. st \in [AllThreads -> ThreadStates] BY <1>1 DEF ThreadStates
<1>3. pr \in [AllThreads -> Prios]
  <2>1. ThdPrio[tp] \in Prios
    BY ThreadsAssumption, SchedAssumption DEF Prios, UserPrios, IDLEPRIO, LOWPRIO
  <2> QED BY <1>1, <2>1
<1>4. pe \in [AllThreads -> 0..CH_TIME_QUANTUM] BY <1>1, SchedAssumption
<1>5. r = [k EXCEPT !.p_state = st, !.p_prio = pr, !.p_preempt = pe]
  BY <1>1 DEF Suspended, SchedStates
<1> HIDE DEF st, pr, pe, r
<1>6. /\ r.p_state = st /\ r.r_current = k.r_current /\ r.r_queue = k.r_queue
      /\ r \in SchedStates
  BY <1>1, <1>2, <1>3, <1>4, <1>5 DEF SchedStates
<1>7. \A u \in AllThreads : st[u] = IF u = tp THEN "SUSPENDED" ELSE k.p_state[u]
  BY <1>1 DEF st
<1>8. ReadyListMembers(k) BY DEF SchedInv
<1>9. {t \in AllThreads : st[t] = "READY"} = {t \in AllThreads : k.p_state[t] = "READY"}
  BY <1>7
<1>10. \A t \in AllThreads : st[t] = "CURRENT" <=> k.p_state[t] = "CURRENT" BY <1>7
<1>11. ReadyListMembers(r) BY <1>6, <1>8, <1>9, <1>10 DEF ReadyListMembers
<1>12. st[Idle] \in Runnable BY <1>1, <1>7 DEF SchedInv, AllThreads
<1>13. SchedInv(r) BY <1>6, <1>11, <1>12 DEF SchedInv
<1> QED BY <1>6, <1>13 DEF r, st

\* ... and started.
LEMMA StartedOK ==
    ASSUME SchedInv(k), NEW tp \in Threads, k.p_state[tp] = "FINAL"
    PROVE  /\ SchedInv(chSchWakeupS(Suspended(tp), tp))
           /\ SameWaits(k, chSchWakeupS(Suspended(tp), tp), {tp})
           /\ chSchWakeupS(Suspended(tp), tp).p_state[tp] \in Runnable
<1> DEFINE s == Suspended(tp)
<1>1. /\ SchedInv(s) /\ s.p_state = [k.p_state EXCEPT ![tp] = "SUSPENDED"]
      /\ tp \in AllThreads
  BY SuspendedOK DEF AllThreads
<1>2. k.p_state \in [AllThreads -> ThreadStates] BY DEF SchedInv, SchedStates
<1>3. s.p_state[tp] \notin Runnable BY <1>1, <1>2 DEF Runnable
<1>4. SameWaits(k, s, {tp}) BY <1>1, <1>2 DEF SameWaits
<1> HIDE DEF s
<1>5. /\ SchedInv(chSchWakeupS(s, tp)) /\ Keeps(s, chSchWakeupS(s, tp), {tp})
      /\ chSchWakeupS(s, tp).p_state[tp] \in Runnable
  BY <1>1, <1>3, WakeupS
<1>6. SameWaits(k, chSchWakeupS(s, tp), {tp} \cup {tp})
  BY <1>4, <1>5, KeepsWaits, WaitsChain
<1>7. {tp} \cup {tp} = {tp} OBVIOUS
<1> QED BY <1>5, <1>6, <1>7 DEF s

\* A thread goes from one wait state to another.
Waiting(s, t, st) == [s EXCEPT !.p_state[t] = st]

LEMMA Rewait ==
    ASSUME NEW s, SchedInv(s), NEW t \in AllThreads, s.p_state[t] \notin Runnable,
           NEW st \in ThreadStates \ Runnable,
           NEW r, r = Waiting(s, t, st)
    PROVE  /\ SchedInv(r) /\ r.r_current = s.r_current
           /\ r.p_state[t] = st /\ SameWaits(s, r, {t})
<1> DEFINE q == [s.p_state EXCEPT ![t] = st]
<1>1. s \in SchedStates /\ s.p_state \in [AllThreads -> ThreadStates]
  BY DEF SchedInv, SchedStates
<1>2. q \in [AllThreads -> ThreadStates] BY <1>1
<1>3. r = [s EXCEPT !.p_state = q] BY <1>1 DEF SchedStates, Waiting
<1>4. \A u \in AllThreads : q[u] = IF u = t THEN st ELSE s.p_state[u] BY <1>1
<1> HIDE DEF q
<1>5. /\ r.p_state = q /\ r.r_current = s.r_current /\ r.r_queue = s.r_queue
      /\ r \in SchedStates
  BY <1>1, <1>2, <1>3 DEF SchedStates
<1>6. ReadyListMembers(s) /\ s.p_state[Idle] \in Runnable BY DEF SchedInv
<1>7. {u \in AllThreads : q[u] = "READY"} = {u \in AllThreads : s.p_state[u] = "READY"}
  BY <1>4 DEF Runnable
<1>8. \A u \in AllThreads : q[u] = "CURRENT" <=> s.p_state[u] = "CURRENT"
  BY <1>4 DEF Runnable
<1>9. ReadyListMembers(r) BY <1>5, <1>6, <1>7, <1>8 DEF ReadyListMembers
<1>10. q[Idle] \in Runnable BY <1>4, <1>6 DEF AllThreads
<1> QED BY <1>4, <1>5, <1>9, <1>10 DEF SchedInv, SameWaits

\* chSchDoYieldS() and the tick.
LEMMA YieldOK ==
    ASSUME NEW s, SchedInv(s)
    PROVE  SchedInv(chSchDoYieldS(s)) /\ SameWaits(s, chSchDoYieldS(s), {})
<1>1. CASE firstprio(s) >= s.p_prio[s.r_current]
  <2>1. s.r_queue # <<>> BY <1>1, FirstPrio
  <2>2. SchedInv(chSchDoRescheduleBehind(s)) /\ Keeps(s, chSchDoRescheduleBehind(s), {})
    BY <2>1, RescheduleBehind
  <2> QED BY <1>1, <2>2, KeepsWaits DEF chSchDoYieldS
<1>2. CASE ~ (firstprio(s) >= s.p_prio[s.r_current])
  BY <1>2 DEF chSchDoYieldS, SameWaits
<1> QED BY <1>1, <1>2

LEMMA SliceOK ==
    ASSUME NEW s, SchedInv(s)
    PROVE  SchedInv(ConsumeSlice(s)) /\ SameWaits(s, ConsumeSlice(s), {})
<1> DEFINE c == s.r_current
           x == IF s.p_preempt[c] > 0 THEN s.p_preempt[c] - 1 ELSE 0
           q == [s.p_preempt EXCEPT ![c] = x]
           r == ConsumeSlice(s)
<1>1. /\ s \in SchedStates /\ c \in AllThreads
      /\ s.p_preempt \in [AllThreads -> 0..CH_TIME_QUANTUM]
  BY DEF SchedInv, SchedStates
<1>2. s.p_preempt[c] \in 0..CH_TIME_QUANTUM BY <1>1
<1>3. x \in 0..CH_TIME_QUANTUM BY <1>2, SchedAssumption
<1>4. q \in [AllThreads -> 0..CH_TIME_QUANTUM]
  <2> HIDE DEF x
  <2> QED BY <1>1, <1>3
<1>5. r = [s EXCEPT !.p_preempt = q] BY <1>1 DEF ConsumeSlice, SchedStates
<1> HIDE DEF q, r
<1>6. /\ r.p_state = s.p_state /\ r.r_current = s.r_current /\ r.r_queue = s.r_queue
      /\ r \in SchedStates
  BY <1>1, <1>4, <1>5 DEF SchedStates
<1>7. SchedInv(r) BY <1>6 DEF SchedInv, ReadyListMembers
<1> QED BY <1>6, <1>7 DEF SameWaits, r

----------------------------------------------------------------------------
(* What the invariant says of one state *)

LEMMA Typed ==
    ASSUME ThreadsFit
    PROVE  /\ SchedInv(k) /\ k.p_state \in [AllThreads -> ThreadStates]
           /\ p_refs \in [AllThreads -> Nat] /\ held \in Refs
           /\ \A t \in Threads : t \in AllThreads /\ t # Idle
           /\ \A t \in AllThreads : call[t] # "none" => t \in Threads
           /\ Main \in Threads /\ Main \notin free /\ Idle \notin free
           /\ free \subseteq Threads /\ Dynamics \subseteq Threads /\ Main \notin Dynamics
BY ThreadsAssumption, SchedAssumption
   DEF ThreadsFit, ThreadTypes, ThreadsTypeOK, SchedStates, Refs, AllThreads, Dynamics

\* The running thread.
LEMMA Runner ==
    ASSUME ThreadsFit, ThreadCode
    PROVE  /\ currp \in Threads /\ currp \in AllThreads /\ currp # Idle
           /\ k.p_state[currp] = "CURRENT" /\ currp \notin free
<1>1. currp \in AllThreads /\ currp # Idle
  BY Typed DEF ThreadCode, SchedInv, SchedStates, currp
<1>2. k.p_state[currp] = "CURRENT"
  BY <1>1, Typed DEF SchedInv, ReadyListMembers, currp
<1>3. currp \notin free
  BY <1>2 DEF ThreadsFit, AreasFit
<1> QED BY <1>1, <1>2, <1>3 DEF AllThreads

\* A thread somebody holds has a count, an area nobody works on and nobody else has.
LEMMA HeldFacts ==
    ASSUME ThreadsFit, NEW u \in AllThreads
    PROVE  /\ \A t \in Threads : Holds(t, u) => p_refs[u] >= 1
           /\ p_refs[u] = 0 => u \in Threads /\ u # Main
                               /\ \A t \in Threads : held[t][u] = 0
           /\ \A t \in Threads : Holds(t, u) => u \notin free
           /\ \A v \in AllThreads : call[v] \in Owning /\ arg[v] = u => p_refs[u] = 0
<1>1. /\ held \in Refs /\ p_refs \in [AllThreads -> Nat] BY Typed
<1>2. /\ p_refs[u] = RefsTo(held, u) + Own(u)
      /\ \A t \in Threads : held[t][u] <= MaxRefs
  BY TheRefs DEF ThreadsFit, Counted
<1>3. /\ RefsTo(held, u) \in Nat
      /\ \A t \in Threads : held[t][u] <= MaxRefs /\ held[t][u] > 0 => RefsTo(held, u) >= 1
  BY <1>1, RefsZero
<1>4. Own(u) \in {0, 1} /\ (Own(u) = 0 => u # Main /\ u # Idle) BY DEF Own
<1>5. \A t \in Threads : held[t][u] \in Nat BY <1>1 DEF Refs
<1>6. \A t \in Threads : Holds(t, u) => p_refs[u] >= 1
  BY <1>2, <1>3, <1>4 DEF Holds
<1>7. p_refs[u] = 0 => \A t \in Threads : held[t][u] = 0
  BY <1>5, <1>6 DEF Holds
<1>8. p_refs[u] = 0 => u \in Threads /\ u # Main BY <1>2, <1>3, <1>4 DEF AllThreads
<1>9. u \in free => p_refs[u] = 0 BY DEF ThreadsFit, AreasFit
<1>10. \A v \in AllThreads : call[v] \in Owning /\ arg[v] = u => p_refs[u] = 0
  BY DEF ThreadsFit, AreasFit, CallFits
<1> QED BY <1>6, <1>7, <1>8, <1>9, <1>10

\* A list of no threads is empty.
LEMMA NoElements ==
    ASSUME NEW S, NEW q \in Seq(S), Elems(q) = {}
    PROVE  q = <<>>
<1>1. Len(q) \in Nat OBVIOUS
<1>2. Len(q) # 0 => q[1] \in Elems(q) BY <1>1 DEF Elems
<1> QED BY <1>1, <1>2, EmptySeq

\* No reference dangles.
LEMMA NothingDangles == ASSUME ThreadsFit PROVE NoDanglingReference
<1> SUFFICES ASSUME NEW t \in Threads, NEW u \in AllThreads, u \in Uses(t)
             PROVE  u \notin free
  <2>1. \A t \in Threads : Uses(t) \subseteq AllThreads
    <3>1. \A t \in Threads : t \in AllThreads BY DEF AllThreads
    <3> QED BY <3>1 DEF Uses, ThreadsFit, AreasFit, CallFits, Owning
  <2> QED BY <2>1 DEF NoDanglingReference
<1>1. CASE Holds(t, u) BY <1>1, HeldFacts
<1>2. CASE call[t] \in {"join", "release", "check", "unlink", "relink", "free"} /\ arg[t] = u
  <2>1. CallFits(t) BY DEF ThreadsFit, AreasFit, AllThreads
  <2>2. CASE call[t] \in {"join", "release"}
    <3>1. Holds(t, u) BY <1>2, <2>1, <2>2 DEF CallFits
    <3> QED BY <3>1, HeldFacts
  <2>3. CASE call[t] \in {"check", "unlink", "relink", "free"}
    BY <1>2, <2>1, <2>3 DEF CallFits, Owning
  <2> QED BY <1>2, <2>2, <2>3
<1> QED BY <1>1, <1>2 DEF Uses

\* The thread that a release takes out is still to be listed.
LEMMA RemovedListed ==
    ASSUME ThreadsFit, NEW t \in AllThreads, call[t] \in Removing
    PROVE  arg[t] \in Listed /\ arg[t] # Main
<1>1. CallFits(t) BY DEF ThreadsFit, AreasFit
<1>2. /\ arg[t] \in AllThreads \ free /\ MayFree(arg[t]) /\ p_refs[arg[t]] = 0
      /\ \A v \in AllThreads : call[v] \in Outside => arg[v] # arg[t]
  BY <1>1 DEF CallFits, Owning, Removing, Outside
<1>3. \A u \in Threads : ~ (call[u] \in Outside /\ arg[u] = arg[t])
  BY <1>2 DEF AllThreads
<1> QED BY <1>2, <1>3, HeldFacts DEF Listed, MayFree

\* Where the registry leads.
LEMMA RegistryLinks ==
    ASSUME ThreadsFit
    PROVE  /\ \A x \in Listed \cup {rlist} :
                 /\ p_newer[x] \in Listed \cup {rlist}
                 /\ p_older[x] \in Listed \cup {rlist}
                 /\ x # rlist => p_older[x] # x
                 /\ \A t \in AllThreads : call[t] = "relink" => arg[t] # p_newer[x]
           /\ p_newer[rlist] # rlist /\ Main \in Listed
<1>1. PICK s \in Seq(AllThreads), w \in [Nodes -> Nodes] :
        /\ NoDuplicates(s) /\ Elems(s) = Listed
        /\ Ring(s, w, p_older)
        /\ ~HalfRemoved => p_newer = w
        /\ \A t \in AllThreads : call[t] = "relink" =>
              p_newer = [w EXCEPT ![p_older[arg[t]]] = w[arg[t]]]
  BY DEF ThreadsFit, RegistryFits
<1>0. \A t, v \in AllThreads : call[t] = "relink" /\ call[v] = "relink" => t = v
  BY DEF ThreadsFit, LinksFit, Unlinking
<1>2. Main \in Listed
  <2>1. Main \in AllThreads /\ Main \notin free /\ Main \notin Dynamics
    BY Typed DEF AllThreads
  <2>2. \A u \in Threads : ~ (call[u] \in Outside /\ arg[u] = Main)
    <3> SUFFICES ASSUME NEW u \in Threads, call[u] \in Outside PROVE arg[u] # Main
      OBVIOUS
    <3>1. u \in AllThreads /\ CallFits(u) BY DEF ThreadsFit, AreasFit, AllThreads
    <3>2. arg[u] \in AllThreads /\ p_refs[arg[u]] = 0 BY <3>1 DEF CallFits, Owning, Outside
    <3> QED BY <3>2, HeldFacts
  <2>3. k.p_state[Main] # "FINAL" BY DEF ThreadsFit, ThreadTypes
  <2> QED BY <2>1, <2>2, <2>3 DEF Listed
<1>3. Listed \subseteq AllThreads /\ rlist \notin AllThreads
  BY ThreadsAssumption DEF Listed
<1>4. \A t \in AllThreads : call[t] = "relink" => arg[t] \in Listed /\ arg[t] # Main
  BY RemovedListed DEF Removing
<1>5. \A x \in Listed \cup {rlist} :
        /\ w[x] \in Listed \cup {rlist} /\ p_older[w[x]] = x
        /\ p_older[x] \in Listed \cup {rlist} /\ w[p_older[x]] = x
        /\ x # rlist => w[x] # x /\ p_older[x] # x
        /\ w[rlist] # rlist
  BY <1>1, <1>2, RingLinks
<1>6. CASE ~HalfRemoved
  <2>1. p_newer = w /\ \A t \in AllThreads : call[t] # "relink"
    BY <1>1, <1>6 DEF HalfRemoved
  <2> QED BY <1>2, <1>5, <2>1
<1>7. CASE HalfRemoved
  <2>1. PICK t0 \in AllThreads : call[t0] = "relink" BY <1>7 DEF HalfRemoved
  <2> DEFINE h == arg[t0]
             y == p_older[h]
  <2>2. p_newer = [w EXCEPT ![y] = w[h]] BY <1>1, <2>1
  <2>3. \A t \in AllThreads : call[t] = "relink" => arg[t] = h BY <1>0, <2>1
  <2>4. h \in Listed /\ h # Main /\ h # rlist BY <1>3, <1>4, <2>1
  <2> HIDE DEF h
  <2>5. /\ w[h] \in Listed \cup {rlist} /\ p_older[w[h]] = h /\ w[h] # h
        /\ y \in Listed \cup {rlist} /\ w[y] = h
    BY <1>5, <2>4
  <2>6. y \in Nodes /\ Listed \cup {rlist} \subseteq Nodes BY <1>3, <2>5 DEF Nodes
  <2> HIDE DEF y
  <2>7. \A x \in Listed \cup {rlist} : p_newer[x] = IF x = y THEN w[h] ELSE w[x]
    BY <2>2, <2>6
  <2>8. \A x \in Listed \cup {rlist} : x # y => w[x] # h
    BY <1>5 DEF y
  <2>9. p_newer[rlist] # rlist
    <3>1. CASE rlist = y
      <4>1. SUFFICES ASSUME w[h] = rlist PROVE FALSE BY <2>7, <3>1
      <4>2. w[rlist] = h BY <2>5, <3>1
      <4>3. Listed \subseteq {h} BY <1>1, <4>1, <4>2, RingOne
      <4> QED BY <1>2, <2>4, <4>3
    <3>2. CASE rlist # y BY <1>5, <2>7, <3>2
    <3> QED BY <3>1, <3>2
  <2>10. ASSUME NEW x \in Listed \cup {rlist}
         PROVE  p_newer[x] \in Listed \cup {rlist} /\ p_newer[x] # h
    BY <1>5, <2>5, <2>7, <2>8
  <2> QED BY <1>2, <1>5, <2>3, <2>9, <2>10
<1> QED BY <1>6, <1>7

\* A removal stores through links of threads in use only.
LEMMA NothingStrays == ASSUME ThreadsFit PROVE NoStrayStore
<1> SUFFICES ASSUME NEW t \in Threads
             PROVE  got_older[t] \notin free /\ got_newer[t] \notin free
  BY DEF NoStrayStore
<1>1. t \in AllThreads BY DEF AllThreads
<1>2. free \subseteq AllThreads /\ rlist \notin free /\ NULL \notin free
  BY Typed, ThreadsAssumption, SchedAssumption DEF AllThreads
<1>3. \A x \in Listed \cup {rlist} : x \notin free BY <1>2 DEF Listed
<1>4. call[t] \in Removing =>
         p_older[arg[t]] \in Listed \cup {rlist} /\ p_newer[arg[t]] \in Listed \cup {rlist}
  BY <1>1, RemovedListed, RegistryLinks
<1> QED BY <1>1, <1>2, <1>3, <1>4 DEF ThreadsFit, LinksFit

\* The walk over the registry: the thread it starts with, then from link to link.
LEMMA TheWalk ==
    ASSUME p_newer \in [Nodes -> Nodes]
    PROVE  /\ Cardinality(Nodes) \in Nat
           /\ \E b : /\ b[0] = p_newer[rlist]
                     /\ \A i \in 1..Cardinality(Nodes) :
                          b[i] = IF b[i - 1] = rlist THEN rlist ELSE p_newer[b[i - 1]]
                     /\ Registered = {b[i] : i \in 0..Cardinality(Nodes)} \ {rlist}
<1> DEFINE n == Cardinality(Nodes)
           Turn(x) == IF x = rlist THEN rlist ELSE p_newer[x]
           F == [p \in (1..n) \X Nodes |-> Turn(p[2])]
           x0 == p_newer[rlist]
           Loop(b) == b = [i \in 0..n |-> IF i = 0 THEN x0 ELSE Turn(b[i - 1])]
           b == CHOOSE b : Loop(b)
<1>1. n \in Nat
  <2>1. IsFiniteSet(AllThreads) BY FiniteThreads
  <2>2. IsFiniteSet(AllThreads \cup {rlist}) BY <2>1, FS_AddElement
  <2> QED BY <2>2, FS_CardinalityType DEF Nodes
<1>2. Registered = {b[i] : i \in 0..n} \ {rlist} BY DEF Registered
<1>3. x0 \in Nodes /\ rlist \in Nodes BY DEF Nodes
<1>4. \A x \in Nodes : Turn(x) \in Nodes BY <1>3
<1> HIDE DEF n, x0, Turn
<1>5. F \in [(1..n) \X Nodes -> Nodes] BY <1>4
<1>6. \A i \in 1..n, x \in Nodes : F[<<i, x>>] = Turn(x) OBVIOUS
<1> HIDE DEF F
<1>7. PICK f \in [0..n -> Nodes] : IsIteration(f, n, x0, F)
  BY ONLY <1>1, <1>3, <1>5, Iteration
<1>8. Loop(f)
  <2>1. f = [i \in 0..n |-> IF i = 0 THEN x0 ELSE F[<<i, f[i - 1]>>]]
    BY <1>7 DEF IsIteration
  <2>2. ASSUME NEW i \in 0..n, i # 0 PROVE F[<<i, f[i - 1]>>] = Turn(f[i - 1])
    <3>1. i \in 1..n /\ i - 1 \in 0..n BY <1>1, <2>2
    <3>2. f[i - 1] \in Nodes BY <3>1
    <3> QED BY <1>6, <3>1, <3>2
  <2> QED BY <2>1, <2>2
<1>9. Loop(b)
  <2> HIDE DEF Loop
  <2> QED BY <1>8
<1> HIDE DEF b
<1>10. b[0] = x0 /\ \A i \in 1..n : b[i] = Turn(b[i - 1]) BY <1>1, <1>9
<1> QED BY <1>1, <1>2, <1>10 DEF n, x0, Turn

\* The walk meets threads that should be listed only.
LEMMA WalkListed ==
    ASSUME ThreadsFit
    PROVE  Registered \subseteq Listed
<1>1. p_newer \in [Nodes -> Nodes]
  BY DEF ThreadsFit, ThreadTypes, ThreadsTypeOK
<1> DEFINE n == Cardinality(Nodes)
<1>2. n \in Nat BY <1>1, TheWalk
<1>3. PICK b : /\ b[0] = p_newer[rlist]
               /\ \A i \in 1..n :
                    b[i] = IF b[i - 1] = rlist THEN rlist ELSE p_newer[b[i - 1]]
               /\ Registered = {b[i] : i \in 0..n} \ {rlist}
  BY <1>1, TheWalk
<1>4. \A x \in Listed \cup {rlist} : p_newer[x] \in Listed \cup {rlist}
  BY RegistryLinks
<1> HIDE DEF n
<1> DEFINE Good == {i \in 0..n : b[i] \in Listed \cup {rlist}}
<1>5. 0 \in Good BY <1>2, <1>3, <1>4
<1>6. \A i \in 1..n : i - 1 \in Good => i \in Good BY <1>2, <1>3, <1>4
<1> HIDE DEF Good
<1>7. \A i \in 0..n : i \in Good BY <1>2, <1>5, <1>6, TurnInduction
<1> QED BY <1>3, <1>7 DEF Good

\* ... and all of them, unless one is being removed.
LEMMA WalkAll ==
    ASSUME ThreadsFit, ~HalfRemoved
    PROVE  /\ Registered = Listed
           /\ \A t \in Listed \cup {rlist} : p_older[p_newer[t]] = t
<1>1. PICK s \in Seq(AllThreads) :
        NoDuplicates(s) /\ Elems(s) = Listed /\ Ring(s, p_newer, p_older)
  BY DEF ThreadsFit, RegistryFits
<1>2. p_newer \in [Nodes -> Nodes]
  BY DEF ThreadsFit, ThreadTypes, ThreadsTypeOK
<1> DEFINE n == Cardinality(Nodes)
<1>3. n \in Nat BY <1>2, TheWalk
<1>4. PICK b : /\ b[0] = p_newer[rlist]
               /\ \A i \in 1..n :
                    b[i] = IF b[i - 1] = rlist THEN rlist ELSE p_newer[b[i - 1]]
               /\ Registered = {b[i] : i \in 0..n} \ {rlist}
  BY <1>2, TheWalk
<1>5. Len(s) <= n
  <2>1. s \in [1..Len(s) -> Nodes] BY DEF Nodes
  <2>2. s \in Injection(1..Len(s), Nodes)
    <3>1. \A i, j \in 1..Len(s) : s[i] = s[j] => i = j BY <1>1 DEF NoDuplicates
    <3> QED BY <2>1, <3>1 DEF Injection, IsInjective
  <2>3. IsFiniteSet(Nodes)
    <3>1. IsFiniteSet(AllThreads) BY FiniteThreads
    <3> QED BY <3>1, FS_AddElement DEF Nodes
  <2>4. Cardinality(1..Len(s)) <= n BY <2>2, <2>3, FS_Injection
  <2>5. Cardinality(1..Len(s)) = Len(s)
    <3>1. 1 \in Int /\ Len(s) \in Int /\ Len(s) >= 0 OBVIOUS
    <3>2. Cardinality(1..Len(s)) = IF 1 > Len(s) THEN 0 ELSE Len(s) - 1 + 1
      BY <3>1, FS_Interval
    <3> QED BY <3>1, <3>2
  <2> QED BY <2>4, <2>5
<1> HIDE DEF n
<1>6. /\ \A i \in 1..Len(s) : Node(s, i) = s[i] /\ s[i] \in AllThreads /\ s[i] # rlist
      /\ Node(s, 0) = rlist
  BY <1>1, RingNodes
<1>7. \A i \in 0..Len(s) : p_newer[Node(s, i)] = Node(s, i + 1) BY <1>1 DEF Ring
<1>8. Len(s) \in Nat OBVIOUS
<1> DEFINE Good == {i \in 0..n : b[i] = Node(s, i + 1)}
<1>9. 0 \in Good
  <2>1. 0 \in 0..Len(s) BY <1>8
  <2> QED BY <1>3, <1>4, <1>6, <1>7, <2>1
<1>10. ASSUME NEW i \in 1..n, i - 1 \in Good PROVE i \in Good
  <2>1. b[i - 1] = Node(s, i) BY <1>10
  <2>2. CASE i \in 1..Len(s)
    <3>1. b[i] = p_newer[Node(s, i)] /\ i \in 0..Len(s) BY <1>4, <1>6, <2>1, <2>2
    <3> QED BY <1>3, <1>7, <3>1
  <2>3. CASE i \notin 1..Len(s)
    <3>1. i + 1 \notin 1..Len(s) BY <1>8, <2>3
    <3>2. Node(s, i) = rlist /\ Node(s, i + 1) = rlist BY <2>3, <3>1 DEF Node
    <3> QED BY <1>3, <1>4, <2>1, <3>2
  <2> QED BY <2>2, <2>3
<1> HIDE DEF Good
<1>11. \A i \in 0..n : i \in Good BY <1>3, <1>9, <1>10, TurnInduction
<1>12. \A i \in 0..n : b[i] = Node(s, i + 1) BY <1>11 DEF Good
<1>13. ASSUME NEW t \in Listed PROVE t \in Registered
  <2>1. PICK i \in 1..Len(s) : t = s[i] BY <1>1 DEF Elems
  <2>2. i - 1 \in 0..n /\ (i - 1) + 1 = i BY <1>3, <1>5, <1>8
  <2>3. b[i - 1] = t /\ t # rlist BY <1>6, <1>12, <2>1, <2>2
  <2> QED BY <1>4, <2>2, <2>3
<1>14. \A t \in Listed \cup {rlist} : p_older[p_newer[t]] = t BY <1>1, RingLinks
<1> QED BY <1>13, <1>14, WalkListed

----------------------------------------------------------------------------
(* How a step can change each part *)

\* Thread c gets a reference to u, or gives one back.
OneMore(c, u) ==
    /\ p_refs' \in [AllThreads -> Nat] /\ held' \in Refs
    /\ held[c][u] < MaxRefs
    /\ held'[c][u] = held[c][u] + 1
    /\ \A t \in Threads, v \in AllThreads :
          ~ (t = c /\ v = u) => held'[t][v] = held[t][v]
    /\ p_refs'[u] = p_refs[u] + 1
    /\ \A v \in AllThreads \ {u} : p_refs'[v] = p_refs[v]
OneLess(c, u) ==
    /\ p_refs' \in [AllThreads -> Nat] /\ held' \in Refs
    /\ held[c][u] = held'[c][u] + 1
    /\ \A t \in Threads, v \in AllThreads :
          ~ (t = c /\ v = u) => held'[t][v] = held[t][v]
    /\ p_refs[u] = p_refs'[u] + 1
    /\ \A v \in AllThreads \ {u} : p_refs'[v] = p_refs[v]

LEMMA PrimedRefs == \A u : HeldTo(u)' = RefsTo(held', u)
BY DEF HeldTo, RefsTo

LEMMA CountSame == ASSUME ThreadsFit, UNCHANGED refvars PROVE Counted'
<1>1. \A u : HeldTo(u)' = HeldTo(u) BY PrimedRefs, TheRefs DEF refvars
<1> QED BY <1>1 DEF ThreadsFit, Counted, Own, refvars

LEMMA CountMore ==
    ASSUME ThreadsFit, NEW c \in Threads, NEW u \in AllThreads, OneMore(c, u)
    PROVE  Counted'
<1>1. /\ held \in Refs /\ held' \in Refs /\ p_refs \in [AllThreads -> Nat]
      /\ p_refs' \in [AllThreads -> Nat] /\ MaxRefs \in Nat
  BY Typed, FiniteThreads DEF OneMore
<1>2. /\ \A t \in Threads, v \in AllThreads : held[t][v] <= MaxRefs
      /\ \A v \in AllThreads : p_refs[v] = RefsTo(held, v) + Own(v)
  BY TheRefs DEF ThreadsFit, Counted
<1>3. held[c][u] \in Nat BY <1>1 DEF Refs
<1>4. \A t \in Threads, v \in AllThreads : held'[t][v] <= MaxRefs
  BY <1>1, <1>2, <1>3 DEF OneMore
<1>5. \A t \in Threads \ {c} : held'[t][u] = held[t][u] BY DEF OneMore
<1>6. held'[c][u] = held[c][u] + 1 /\ held'[c][u] <= MaxRefs BY <1>4 DEF OneMore
<1>7. RefsTo(held', u) = RefsTo(held, u) + 1 BY ONLY <1>1, <1>5, <1>6, c \in Threads, u \in AllThreads, RefsMore
<1>8. RefsTo(held, u) \in Nat BY <1>1, RefsZero
<1>9. ASSUME NEW v \in AllThreads, v # u PROVE RefsTo(held', v) = RefsTo(held, v)
  <2>1. \A t \in Threads : held'[t][v] = held[t][v] BY <1>9 DEF OneMore
  <2> QED BY <2>1, RefsSame
<1>10. \A v \in AllThreads : Own(v)' = Own(v) BY DEF Own
<1>11. \A v \in AllThreads : p_refs'[v] = RefsTo(held', v) + Own(v)
  <2> TAKE v \in AllThreads
  <2>1. CASE v = u
    <3>1. Own(u) \in Nat BY DEF Own
    <3> QED BY <1>2, <1>7, <1>8, <2>1, <3>1 DEF OneMore
  <2>2. CASE v # u BY <1>2, <1>9, <2>2 DEF OneMore
  <2> QED BY <2>1, <2>2
<1> QED BY <1>4, <1>10, <1>11, PrimedRefs DEF Counted

LEMMA CountLess ==
    ASSUME ThreadsFit, NEW c \in Threads, NEW u \in AllThreads, OneLess(c, u)
    PROVE  Counted'
<1>1. /\ held \in Refs /\ held' \in Refs /\ p_refs \in [AllThreads -> Nat]
      /\ p_refs' \in [AllThreads -> Nat] /\ MaxRefs \in Nat
  BY Typed, FiniteThreads DEF OneLess
<1>2. /\ \A t \in Threads, v \in AllThreads : held[t][v] <= MaxRefs
      /\ \A v \in AllThreads : p_refs[v] = RefsTo(held, v) + Own(v)
  BY TheRefs DEF ThreadsFit, Counted
<1>3. held[c][u] \in Nat /\ held'[c][u] \in Nat BY <1>1 DEF Refs
<1>4. \A t \in Threads, v \in AllThreads : held'[t][v] <= MaxRefs
  <2> TAKE t \in Threads, v \in AllThreads
  <2>1. CASE t = c /\ v = u BY <1>1, <1>2, <1>3, <2>1 DEF OneLess
  <2>2. CASE ~ (t = c /\ v = u) BY <1>2, <2>2 DEF OneLess
  <2> QED BY <2>1, <2>2
<1>5. \A t \in Threads \ {c} : held[t][u] = held'[t][u] BY DEF OneLess
<1>6. held[c][u] = held'[c][u] + 1 /\ held[c][u] <= MaxRefs BY <1>2 DEF OneLess
<1>7. RefsTo(held, u) = RefsTo(held', u) + 1 BY ONLY <1>1, <1>5, <1>6, c \in Threads, u \in AllThreads, RefsMore
<1>8. RefsTo(held', u) \in Nat BY <1>1, RefsZero
<1>9. ASSUME NEW v \in AllThreads, v # u PROVE RefsTo(held', v) = RefsTo(held, v)
  <2>1. \A t \in Threads : held'[t][v] = held[t][v] BY <1>9 DEF OneLess
  <2> QED BY <2>1, RefsSame
<1>10. \A v \in AllThreads : Own(v)' = Own(v) BY DEF Own
<1>11. \A v \in AllThreads : p_refs'[v] = RefsTo(held', v) + Own(v)
  <2> TAKE v \in AllThreads
  <2>1. CASE v = u
    <3>1. Own(u) \in Nat /\ p_refs'[u] \in Nat BY <1>1 DEF Own
    <3>2. p_refs[u] = p_refs'[u] + 1 BY DEF OneLess
    <3> QED BY <1>2, <1>7, <1>8, <2>1, <3>1, <3>2
  <2>2. CASE v # u BY <1>2, <1>9, <2>2 DEF OneLess
  <2> QED BY <2>1, <2>2
<1> QED BY <1>4, <1>10, <1>11, PrimedRefs DEF Counted

\* A reference is taken as the code takes it.
LEMMA MoreStep ==
    ASSUME ThreadsFit, NEW c \in Threads, NEW u \in AllThreads, held[c][u] < MaxRefs,
           p_refs' = [p_refs EXCEPT ![u] = @ + 1],
           held' = [held EXCEPT ![c][u] = @ + 1]
    PROVE  OneMore(c, u)
<1>1. held \in Refs /\ p_refs \in [AllThreads -> Nat] BY Typed
<1>2. /\ p_refs' \in [AllThreads -> Nat] /\ p_refs'[u] = p_refs[u] + 1
      /\ \A v \in AllThreads \ {u} : p_refs'[v] = p_refs[v]
  BY <1>1
<1>3. held[c] \in [AllThreads -> Nat] /\ held[c][u] \in Nat BY <1>1 DEF Refs
<1> DEFINE g == [held[c] EXCEPT ![u] = held[c][u] + 1]
<1>4. g \in [AllThreads -> Nat] BY <1>3
<1>5. held' = [held EXCEPT ![c] = g] BY <1>1 DEF Refs
<1>6. g[u] = held[c][u] + 1 /\ \A v \in AllThreads \ {u} : g[v] = held[c][v] BY <1>3
<1> HIDE DEF g
<1>7. held' \in Refs /\ held'[c] = g /\ \A t \in Threads \ {c} : held'[t] = held[t]
  BY <1>1, <1>4, <1>5 DEF Refs
<1> QED BY <1>2, <1>6, <1>7 DEF OneMore

LEMMA LessStep ==
    ASSUME ThreadsFit, NEW c \in Threads, NEW u \in AllThreads, Holds(c, u),
           p_refs' = [p_refs EXCEPT ![u] = @ - 1],
           held' = [held EXCEPT ![c][u] = @ - 1]
    PROVE  OneLess(c, u)
<1>1. held \in Refs /\ p_refs \in [AllThreads -> Nat] BY Typed
<1>2. p_refs[u] >= 1 /\ p_refs[u] \in Nat BY <1>1, HeldFacts
<1>3. /\ p_refs' \in [AllThreads -> Nat] /\ p_refs[u] = p_refs'[u] + 1
      /\ \A v \in AllThreads \ {u} : p_refs'[v] = p_refs[v]
  BY <1>1, <1>2
<1>4. held[c] \in [AllThreads -> Nat] /\ held[c][u] \in Nat /\ held[c][u] > 0
  BY <1>1 DEF Refs, Holds
<1> DEFINE g == [held[c] EXCEPT ![u] = held[c][u] - 1]
<1>5. g \in [AllThreads -> Nat] BY <1>4
<1>6. held' = [held EXCEPT ![c] = g] BY <1>1 DEF Refs
<1>7. held[c][u] = g[u] + 1 /\ \A v \in AllThreads \ {u} : g[v] = held[c][v] BY <1>4
<1> HIDE DEF g
<1>8. held' \in Refs /\ held'[c] = g /\ \A t \in Threads \ {c} : held'[t] = held[t]
  BY <1>1, <1>5, <1>6 DEF Refs
<1> QED BY <1>3, <1>7, <1>8 DEF OneLess

\* The first reference, to a new thread.
LEMMA FirstStep ==
    ASSUME ThreadsFit, NEW c \in Threads, NEW u \in AllThreads, p_refs[u] = 0,
           MaxRefs >= 1,
           p_refs' = [p_refs EXCEPT ![u] = 1], held' = [held EXCEPT ![c][u] = 1]
    PROVE  OneMore(c, u)
<1>1. held \in Refs /\ p_refs \in [AllThreads -> Nat] /\ MaxRefs \in Nat
  BY Typed, FiniteThreads
<1>2. /\ p_refs' \in [AllThreads -> Nat] /\ p_refs'[u] = p_refs[u] + 1
      /\ \A v \in AllThreads \ {u} : p_refs'[v] = p_refs[v]
  BY <1>1
<1>3. held[c] \in [AllThreads -> Nat] /\ held[c][u] = 0 BY <1>1, HeldFacts DEF Refs
<1> DEFINE g == [held[c] EXCEPT ![u] = 1]
<1>4. g \in [AllThreads -> Nat] BY <1>3
<1>5. held' = [held EXCEPT ![c] = g] BY <1>1 DEF Refs
<1>6. g[u] = held[c][u] + 1 /\ \A v \in AllThreads \ {u} : g[v] = held[c][v] BY <1>3
<1> HIDE DEF g
<1>7. held' \in Refs /\ held'[c] = g /\ \A t \in Threads \ {c} : held'[t] = held[t]
  BY <1>1, <1>4, <1>5 DEF Refs
<1> QED BY <1>1, <1>2, <1>3, <1>6, <1>7 DEF OneMore

\* A thread that may take a reference has room for it.
LEMMA Room ==
    ASSUME ThreadsFit, NEW c \in Threads, HeldBy(c) < MaxRefs
    PROVE  MaxRefs >= 1 /\ \A u \in AllThreads : held[c][u] < MaxRefs
<1>1. held \in Refs /\ MaxRefs \in Nat BY Typed, FiniteThreads
<1>2. RefsBy(held, c) < MaxRefs BY TheRefs
<1>3. \A u \in AllThreads : held[c][u] < MaxRefs BY <1>1, <1>2, RefsRoom
<1>4. c \in AllThreads /\ held[c][c] \in Nat BY <1>1 DEF Refs, AllThreads
<1> QED BY <1>1, <1>3, <1>4

\* The calls of all threads but c go on.
OthersKeep(c) ==
    \A t \in AllThreads \ {c} : call'[t] = call[t] /\ arg'[t] = arg[t]

\* Thread c took a step: the areas the others own are as they were.
LEMMA AreasStep ==
    ASSUME ThreadsFit, NEW c \in AllThreads, OthersKeep(c), CallFits(c)',
           \A t \in Threads \ {c}, u \in AllThreads : held'[t][u] = held[t][u],
           \A u \in free' : k'.p_state[u] = "FINAL" /\ p_refs'[u] = 0,
           \A t \in AllThreads \ {c} : call[t] \in Owning =>
              /\ p_refs'[arg[t]] = 0 /\ arg[t] \notin free'
              /\ p_flags'[arg[t]] = p_flags[arg[t]]
              /\ k.p_state[arg[t]] = "FINAL" => k'.p_state[arg[t]] = "FINAL"
    PROVE  AreasFit'
<1> SUFFICES ASSUME NEW t \in AllThreads, t # c PROVE CallFits(t)'
  BY DEF AreasFit
<1>1. CallFits(t) BY DEF ThreadsFit, AreasFit
<1>2. call'[t] = call[t] /\ arg'[t] = arg[t] BY DEF OthersKeep
<1>3. call[t] \in {"join", "release"} => Holds(t, arg[t])'
  <2> SUFFICES ASSUME call[t] \in {"join", "release"} PROVE Holds(t, arg[t])' OBVIOUS
  <2>1. t \in Threads BY Typed
  <2>2. arg[t] \in AllThreads /\ held[t][arg[t]] > 0 BY <1>1 DEF CallFits, Holds
  <2>3. held'[t][arg[t]] = held[t][arg[t]] BY <2>1, <2>2
  <2> QED BY <1>2, <2>2, <2>3 DEF Holds
<1>4. ASSUME NEW v \in AllThreads, call[t] \in Owning,
             call'[v] \in Owning, arg'[v] = arg'[t]
      PROVE  v = t
  <2>1. CASE v = c
    <3>1. arg'[t] = arg'[c] /\ call'[c] \in Owning /\ call'[t] \in Owning
      BY <1>2, <1>4, <2>1
    <3>2. t = c BY <3>1 DEF CallFits
    <3> QED BY <3>2
  <2>2. CASE v # c
    <3>1. call'[v] = call[v] /\ arg'[v] = arg[v] BY <2>2 DEF OthersKeep
    <3> QED BY <1>1, <1>2, <1>4, <3>1 DEF CallFits
  <2> QED BY <2>1, <2>2
<1>5. call[t] \in Owning =>
        /\ arg[t] \in AllThreads \ free' /\ p_refs'[arg[t]] = 0
        /\ p_flags'[arg[t]] = p_flags[arg[t]]
        /\ k.p_state[arg[t]] = "FINAL" => k'.p_state[arg[t]] = "FINAL"
  BY <1>1 DEF CallFits
<1>6. call[t] = "create" =>
        arg[t] \in Dynamics /\ MaxRefs >= 1 /\ k'.p_state[arg[t]] = "FINAL"
  BY <1>1, <1>5 DEF CallFits, Owning
<1>7. call[t] \in Removing \cup {"free"} => MayFree(arg[t])'
  BY <1>1, <1>2, <1>5 DEF CallFits, Owning, Removing, MayFree
<1>8. (call[t] \in {"join", "release"} => arg[t] \in AllThreads) BY <1>1 DEF CallFits
<1>9. /\ call'[t] \in {"join", "release"} => arg'[t] \in AllThreads /\ Holds(t, arg[t])'
      /\ call'[t] \in Owning => arg'[t] \in AllThreads \ free' /\ p_refs'[arg'[t]] = 0
      /\ call'[t] \in Owning => \A v \in AllThreads :
            call'[v] \in Owning /\ arg'[v] = arg'[t] => v = t
      /\ call'[t] = "create" =>
            arg'[t] \in Dynamics /\ MaxRefs >= 1 /\ k'.p_state[arg'[t]] = "FINAL"
      /\ call'[t] \in Removing \cup {"free"} => MayFree(arg[t])'
  BY <1>2, <1>3, <1>4, <1>5, <1>6, <1>7, <1>8
<1> QED BY <1>9 DEF CallFits, Owning

\* No count leaves zero, no area changes hands, nothing ended begins again.
LEMMA AreasSame ==
    ASSUME ThreadsFit, NEW c \in AllThreads, OthersKeep(c), CallFits(c)',
           \A t \in Threads \ {c}, u \in AllThreads : held'[t][u] = held[t][u],
           UNCHANGED <<free, p_flags>>,
           \A u \in AllThreads : p_refs[u] = 0 =>
              /\ (\E t \in AllThreads \ {c} : call[t] \in Owning /\ arg[t] = u) \/ u \in free
                    => p_refs'[u] = 0
              /\ k.p_state[u] = "FINAL" => k'.p_state[u] = "FINAL"
    PROVE  AreasFit'
<1>1. free \subseteq AllThreads BY Typed DEF AllThreads
<1>2. \A u \in free' : k'.p_state[u] = "FINAL" /\ p_refs'[u] = 0
  BY <1>1 DEF ThreadsFit, AreasFit
<1>3. ASSUME NEW t \in AllThreads \ {c}, call[t] \in Owning
      PROVE  /\ p_refs'[arg[t]] = 0 /\ arg[t] \notin free'
             /\ p_flags'[arg[t]] = p_flags[arg[t]]
             /\ k.p_state[arg[t]] = "FINAL" => k'.p_state[arg[t]] = "FINAL"
  <2>1. arg[t] \in AllThreads \ free /\ p_refs[arg[t]] = 0
    BY <1>3 DEF ThreadsFit, AreasFit, CallFits
  <2> QED BY <1>3, <2>1
<1> QED BY <1>2, <1>3, AreasStep

\* Nothing of it changes at all but the scheduler.
LEMMA AreasKept ==
    ASSUME ThreadsFit, UNCHANGED <<refvars, callvars, free, p_flags>>,
           \A u \in AllThreads : k.p_state[u] = "FINAL" => k'.p_state[u] = "FINAL"
    PROVE  AreasFit'
<1>1. free \subseteq AllThreads BY Typed DEF AllThreads
<1>2. /\ p_refs' = p_refs /\ held' = held /\ call' = call /\ arg' = arg
      /\ free' = free /\ p_flags' = p_flags
  BY DEF refvars, callvars
<1>3. \A u \in free' : k'.p_state[u] = "FINAL" /\ p_refs'[u] = 0
  BY <1>1, <1>2 DEF ThreadsFit, AreasFit
<1>4. ASSUME NEW t \in AllThreads PROVE CallFits(t)'
  <2>1. CallFits(t) BY DEF ThreadsFit, AreasFit
  <2> QED BY <1>2, <2>1 DEF CallFits, Holds, MayFree, Owning, Removing
<1> QED BY <1>3, <1>4 DEF AreasFit

\* The joins, where nobody begins or ends one.
LEMMA JoinsSame ==
    ASSUME ThreadsFit, NEW c \in AllThreads, OthersKeep(c),
           \/ call'[c] = call[c] /\ arg'[c] = arg[c]
           \/ call'[c] # "join" /\ k.p_state[c] # "WTEXIT",
           p_waiting' = p_waiting,
           \A u \in AllThreads :
              /\ k'.p_state[u] = "WTEXIT" <=> k.p_state[u] = "WTEXIT"
              /\ k'.p_state[u] = "FINAL" => k.p_state[u] = "FINAL"
              /\ k.p_state[u] = "FINAL" /\ p_refs[u] # 0 => k'.p_state[u] = "FINAL"
    PROVE  JoinsFit'
<1>1. JoinsFit BY DEF ThreadsFit
<1>2. \A u \in AllThreads :
         {t \in AllThreads : k'.p_state[t] = "WTEXIT" /\ arg'[t] = u}
           = {t \in AllThreads : k.p_state[t] = "WTEXIT" /\ arg[t] = u}
  BY DEF OthersKeep
<1>3. \A u \in AllThreads :
        /\ NoDuplicates(p_waiting'[u])
        /\ Elems(p_waiting'[u]) =
             {t \in AllThreads : k'.p_state[t] = "WTEXIT" /\ arg'[t] = u}
        /\ k'.p_state[u] = "FINAL" => p_waiting'[u] = <<>>
  BY <1>1, <1>2 DEF JoinsFit
<1>4. ASSUME NEW t \in AllThreads
      PROVE  IF k'.p_state[t] = "WTEXIT" THEN call'[t] = "join"
             ELSE call'[t] = "join" => k'.p_state[arg'[t]] = "FINAL"
  <2>0. IF k.p_state[t] = "WTEXIT" THEN call[t] = "join"
        ELSE call[t] = "join" => k.p_state[arg[t]] = "FINAL"
    BY <1>1 DEF JoinsFit
  <2>1. CASE k.p_state[t] = "WTEXIT" BY <2>0, <2>1 DEF OthersKeep
  <2>2. CASE k.p_state[t] # "WTEXIT"
    <3> SUFFICES ASSUME call'[t] = "join" PROVE k'.p_state[arg'[t]] = "FINAL"
      BY <2>2
    <3>1. call[t] = "join" /\ arg'[t] = arg[t] BY DEF OthersKeep
    <3>2. k.p_state[arg[t]] = "FINAL" BY <2>0, <2>2, <3>1
    <3>3. t \in Threads /\ arg[t] \in AllThreads /\ Holds(t, arg[t])
      BY <3>1, Typed DEF ThreadsFit, AreasFit, CallFits
    <3>4. p_refs[arg[t]] >= 1 BY <3>3, HeldFacts
    <3> QED BY <3>1, <3>2, <3>3, <3>4
  <2> QED BY <2>1, <2>2
<1> QED BY <1>3, <1>4 DEF JoinsFit

\* The messages, where none is sent, taken or answered.
LEMMA MessagesSame ==
    ASSUME ThreadsFit,
           UNCHANGED msgvars,
           \A u \in AllThreads :
              /\ k'.p_state[u] = "SNDMSGQ" <=> k.p_state[u] = "SNDMSGQ"
              /\ k'.p_state[u] = "SNDMSG" <=> k.p_state[u] = "SNDMSG"
              /\ k'.p_state[u] = "WTMSG" <=> k.p_state[u] = "WTMSG"
              /\ call'[u] = "msgwait" <=> call[u] = "msgwait",
           \A t \in Threads, u \in AllThreads :
              k.p_state[t] \in {"SNDMSGQ", "SNDMSG"} => held'[t][u] = held[t][u]
    PROVE  MessagesFit'
<1>1. MessagesFit BY DEF ThreadsFit
<1>2. p_msgqueue' = p_msgqueue /\ serving' = serving BY DEF msgvars
<1>3. /\ p_msgqueue \in [AllThreads -> Seq(Threads)]
      /\ serving \in [AllThreads -> SUBSET Threads]
  BY DEF ThreadsFit, ThreadTypes, ThreadsTypeOK
<1>4. ASSUME NEW t \in AllThreads, NEW u \in AllThreads
      PROVE  /\ t \in Elems(p_msgqueue[u]) => k'.p_state[t] = "SNDMSGQ" /\ Holds(t, u)'
             /\ t \in serving[u] => k'.p_state[t] = "SNDMSG" /\ Holds(t, u)'
  <2>1. /\ t \in Elems(p_msgqueue[u]) => k.p_state[t] = "SNDMSGQ" /\ Holds(t, u)
        /\ t \in serving[u] => k.p_state[t] = "SNDMSG" /\ Holds(t, u)
    BY <1>1 DEF MessagesFit
  <2>2. t \in Elems(p_msgqueue[u]) \/ t \in serving[u] => t \in Threads
    BY <1>3 DEF Elems
  <2> QED BY <2>1, <2>2 DEF Holds
<1>5. \A t \in AllThreads :
        /\ k'.p_state[t] = "SNDMSGQ" => \E u \in Threads : t \in Elems(p_msgqueue[u])
        /\ k'.p_state[t] = "SNDMSG" => \E u \in Threads : t \in serving[u]
  BY <1>1 DEF MessagesFit
<1>6. \A u \in AllThreads :
        /\ NoDuplicates(p_msgqueue[u])
        /\ IF k'.p_state[u] = "WTMSG" THEN call'[u] = "msgwait" /\ p_msgqueue[u] = <<>>
           ELSE call'[u] = "msgwait" => p_msgqueue[u] # <<>>
  BY <1>1 DEF MessagesFit
<1>7. \A t \in AllThreads, u \in AllThreads, v \in AllThreads :
        /\ t \in Elems(p_msgqueue[u]) /\ t \in Elems(p_msgqueue[v]) => u = v
        /\ t \in serving[u] /\ t \in serving[v] => u = v
  BY <1>1 DEF MessagesFit
<1> QED BY <1>2, <1>4, <1>5, <1>6, <1>7 DEF MessagesFit

\* The registry, where no thread enters or leaves it and no link is loaded.
LEMMA RegistrySame ==
    ASSUME ThreadsFit, UNCHANGED regvars, Listed' = Listed, UNCHANGED copies,
           \A t \in AllThreads :
              /\ call'[t] = "relink" <=> call[t] = "relink"
              /\ call[t] \in Removing => call'[t] \in Removing /\ arg'[t] = arg[t]
    PROVE  RegistryFits' /\ LinksFit'
<1>1. RegistryFits /\ LinksFit /\ p_newer' = p_newer /\ p_older' = p_older
      /\ got_older' = got_older /\ got_newer' = got_newer
  BY DEF ThreadsFit, regvars, copies
<1>2. HalfRemoved' <=> HalfRemoved BY DEF HalfRemoved
<1>3. \A t \in AllThreads : call[t] = "relink" => arg'[t] = arg[t] BY DEF Removing
<1>4. RegistryFits' BY <1>1, <1>2, <1>3 DEF RegistryFits
<1>5. \A t \in AllThreads : Unlinking(t)' <=> Unlinking(t) BY <1>1 DEF Unlinking
<1>6. \A t, v \in AllThreads : Unlinking(t)' /\ Unlinking(v)' => t = v
  BY <1>1, <1>5 DEF LinksFit
<1>7. \A t \in AllThreads :
         /\ got_older'[t] # NULL => call'[t] \in Removing /\ got_older'[t] = p_older'[arg'[t]]
         /\ got_newer'[t] # NULL => call'[t] \in Removing /\ got_newer'[t] = p_newer'[arg'[t]]
  BY <1>1 DEF LinksFit
<1> QED BY <1>4, <1>6, <1>7 DEF LinksFit

\* Nobody is removing a thread outside the lock.
LEMMA NoRemoval ==
    ASSUME ThreadsFit, NEW c, c = currp, c \in AllThreads, call[c] \notin Removing, ~AtOnce
    PROVE  /\ \A t \in AllThreads : ~Unlinking(t) /\ call[t] # "relink"
           /\ ~HalfRemoved
<1>1. ~Unlinking(c) BY DEF ThreadsFit, LinksFit, Unlinking, Removing
<1>2. \A t \in AllThreads \ {c} : ~Unlinking(t) BY DEF AtOnce
<1>3. \A t \in AllThreads : ~Unlinking(t) BY <1>1, <1>2
<1> QED BY <1>3 DEF Unlinking, HalfRemoved

LEMMA LinksNone ==
    ASSUME UNCHANGED copies, \A t \in AllThreads : ~Unlinking(t),
           \A t \in AllThreads : call'[t] # "relink"
    PROVE  LinksFit'
<1>1. got_older' = got_older /\ got_newer' = got_newer BY DEF copies
<1>2. \A t \in AllThreads : got_older'[t] = NULL /\ got_newer'[t] = NULL
  BY <1>1 DEF Unlinking
<1>3. \A t \in AllThreads : ~Unlinking(t)' BY <1>2 DEF Unlinking
<1> QED BY <1>2, <1>3 DEF LinksFit

\* Who should be listed depends on creations and ends only.
LEMMA ListedSame ==
    ASSUME UNCHANGED <<free, p_flags>>,
           \A u \in AllThreads : k'.p_state[u] = "FINAL" <=> k.p_state[u] = "FINAL",
           \A t \in Threads :
              /\ call'[t] \in Outside <=> call[t] \in Outside
              /\ call[t] \in Outside => arg'[t] = arg[t]
    PROVE  Listed' = Listed
BY DEF Listed

----------------------------------------------------------------------------
(* Steps that only schedule, and steps that only refer *)

\* The states in which something waits for a thread, or a thread for something.
Marks == {"FINAL", "WTEXIT", "SNDMSGQ", "SNDMSG", "WTMSG"}

\* The threads of Y keep these.
SameMarks(Y) ==
    \A u \in Y : \A st \in Marks : k'.p_state[u] = st <=> k.p_state[u] = st

LEMMA MarksKept ==
    ASSUME NEW X, SameWaits(k, k', X)
    PROVE  SameMarks(AllThreads \ X)
BY DEF SameWaits, SameMarks, Marks, Runnable

LEMMA MarksNames ==
    ASSUME SameMarks(AllThreads)
    PROVE  \A u \in AllThreads :
              /\ k'.p_state[u] = "FINAL" <=> k.p_state[u] = "FINAL"
              /\ k'.p_state[u] = "WTEXIT" <=> k.p_state[u] = "WTEXIT"
              /\ k'.p_state[u] = "SNDMSGQ" <=> k.p_state[u] = "SNDMSGQ"
              /\ k'.p_state[u] = "SNDMSG" <=> k.p_state[u] = "SNDMSG"
              /\ k'.p_state[u] = "WTMSG" <=> k.p_state[u] = "WTMSG"
BY DEF SameMarks, Marks

Plain == Runnable \cup {"SUSPENDED", "SLEEPING"}

\* Thread t goes from one plain state to another, the rest stays in its state.
LEMMA PlainMove ==
    ASSUME NEW t \in AllThreads, SameWaits(k, k', {t}),
           k.p_state[t] \in Plain, k'.p_state[t] \in Plain
    PROVE  SameMarks(AllThreads)
BY DEF SameWaits, SameMarks, Marks, Runnable, Plain

\* Only the scheduler state changes.
LEMMA ScheduleStep ==
    ASSUME ThreadsFit, SchedInv(k'), SameMarks(AllThreads), isr' \in BOOLEAN,
           UNCHANGED <<refvars, p_flags, regvars, p_waiting, msgvars, free, callvars, history, copies>>
    PROVE  ThreadsFit'
<1>0. /\ p_refs' = p_refs /\ held' = held /\ call' = call /\ arg' = arg
      /\ free' = free /\ p_flags' = p_flags /\ p_newer' = p_newer /\ p_older' = p_older
      /\ p_waiting' = p_waiting /\ p_msgqueue' = p_msgqueue /\ serving' = serving
      /\ raced' = raced /\ stale' = stale
      /\ got_older' = got_older /\ got_newer' = got_newer
  BY DEF refvars, regvars, msgvars, callvars, history, copies
<1>1. \A u \in AllThreads :
         /\ k'.p_state[u] = "FINAL" <=> k.p_state[u] = "FINAL"
         /\ k'.p_state[u] = "WTEXIT" <=> k.p_state[u] = "WTEXIT"
         /\ k'.p_state[u] = "SNDMSGQ" <=> k.p_state[u] = "SNDMSGQ"
         /\ k'.p_state[u] = "SNDMSG" <=> k.p_state[u] = "SNDMSG"
         /\ k'.p_state[u] = "WTMSG" <=> k.p_state[u] = "WTMSG"
  BY MarksNames
<1>2. ThreadTypes'
  <2>1. k' \in SchedStates BY DEF SchedInv
  <2>2. Main \in AllThreads BY Typed
  <2>3. k'.p_state[Main] # "FINAL" BY <1>1, <2>2 DEF ThreadsFit, ThreadTypes
  <2> QED BY <1>0, <2>1, <2>3 DEF ThreadsFit, ThreadTypes, ThreadsTypeOK
<1>3. Counted' BY CountSame
<1>4. AreasFit' BY <1>1, AreasKept
<1>5. Idle \in AllThreads BY DEF AllThreads
<1>6. JoinsFit' BY <1>0, <1>1, <1>5, JoinsSame DEF OthersKeep
<1>7. MessagesFit' BY <1>0, <1>1, MessagesSame
<1>8. Listed' = Listed BY <1>0, <1>1, ListedSame
<1>9. RegistryFits' /\ LinksFit' BY <1>0, <1>8, RegistrySame
<1> QED BY <1>2, <1>3, <1>4, <1>6, <1>7, <1>9 DEF ThreadsFit

\* Only references change, and the call of the running thread.
LEMMA ReferStep ==
    ASSUME ThreadsFit, ThreadCode, NEW c, c = currp, NEW u \in AllThreads,
           \/ UNCHANGED refvars
           \/ OneLess(c, u)
           \/ /\ OneMore(c, u) /\ u \notin free
              /\ \A t \in AllThreads \ {c} : call[t] \in Owning => arg[t] # u,
           OthersKeep(c), CallFits(c)',
           call' \in [AllThreads -> Calls], arg' \in [AllThreads -> AllThreads \cup {NULL}],
           call[c] \in {"none", "join", "release", "check"},
           call'[c] \in {"none", "release", "check", "unlink"},
           UNCHANGED <<k, isr, p_flags, regvars, p_waiting, msgvars, free, copies>>,
           raced' \in BOOLEAN, stale' \in BOOLEAN
    PROVE  ThreadsFit'
<1>0. /\ k' = k /\ isr' = isr
      /\ free' = free /\ p_flags' = p_flags /\ p_newer' = p_newer /\ p_older' = p_older
      /\ p_waiting' = p_waiting /\ p_msgqueue' = p_msgqueue /\ serving' = serving
      /\ got_older' = got_older /\ got_newer' = got_newer
  BY DEF regvars, msgvars, copies
<1>1. /\ c \in Threads /\ c \in AllThreads /\ c # Idle
      /\ k.p_state[c] = "CURRENT"
  BY Runner
<1>2. /\ p_refs' \in [AllThreads -> Nat] /\ held' \in [Threads -> [AllThreads -> Nat]]
      /\ \A t \in Threads \ {c}, v \in AllThreads : held'[t][v] = held[t][v]
  BY <1>1, Typed DEF OneLess, OneMore, refvars, Refs
<1>3. ThreadTypes'
  <2>1. call'[Idle] = "none"
    BY <1>1 DEF OthersKeep, ThreadsFit, ThreadTypes, AllThreads
  <2> QED BY <1>0, <1>2, <2>1 DEF ThreadsFit, ThreadTypes, ThreadsTypeOK
<1>4. Counted' BY <1>1, CountSame, CountMore, CountLess
<1>5. AreasFit'
  <2>1. ASSUME NEW v \in AllThreads, p_refs[v] = 0,
               (\E t \in AllThreads \ {c} : call[t] \in Owning /\ arg[t] = v)
                 \/ v \in free
        PROVE  p_refs'[v] = 0
    <3>1. CASE UNCHANGED refvars BY <2>1, <3>1 DEF refvars
    <3>2. CASE OneLess(c, u)
      <4>1. p_refs'[u] \in Nat /\ p_refs[u] = p_refs'[u] + 1 BY <3>2 DEF OneLess
      <4>2. v # u BY <2>1, <4>1
      <4> QED BY <2>1, <3>2, <4>2 DEF OneLess
    <3>3. CASE /\ OneMore(c, u) /\ u \notin free
               /\ \A t \in AllThreads \ {c} : call[t] \in Owning => arg[t] # u
      BY <2>1, <3>3 DEF OneMore
    <3> QED BY <3>1, <3>2, <3>3
  <2>2. \A v \in AllThreads : p_refs[v] = 0 =>
           /\ (\E t \in AllThreads \ {c} : call[t] \in Owning /\ arg[t] = v) \/ v \in free
                 => p_refs'[v] = 0
           /\ k.p_state[v] = "FINAL" => k'.p_state[v] = "FINAL"
    BY <1>0, <2>1
  <2>3. UNCHANGED <<free, p_flags>> BY <1>0
  <2> QED BY ONLY ThreadsFit, <1>1, <1>2, <2>2, <2>3, OthersKeep(c), CallFits(c)',
                 AreasSame
<1>6. JoinsFit'
  <2>1. call'[c] # "join" /\ k.p_state[c] # "WTEXIT" BY <1>1
  <2> QED BY <1>0, <1>1, <2>1, JoinsSame
<1>7. MessagesFit'
  <2>1. \A v \in AllThreads : call'[v] = "msgwait" <=> call[v] = "msgwait"
    BY DEF OthersKeep
  <2>2. \A t \in Threads, v \in AllThreads :
           k.p_state[t] \in {"SNDMSGQ", "SNDMSG"} => held'[t][v] = held[t][v]
    BY <1>1, <1>2
  <2> QED BY <1>0, <2>1, <2>2, MessagesSame DEF msgvars
<1>8. \A t \in AllThreads :
         /\ call'[t] = "relink" <=> call[t] = "relink"
         /\ call[t] \in Removing => call'[t] \in Removing /\ arg'[t] = arg[t]
         /\ call'[t] \in Outside <=> call[t] \in Outside
         /\ call[t] \in Outside => arg'[t] = arg[t]
  BY DEF OthersKeep, Outside, Removing
<1>9. Listed' = Listed BY <1>0, <1>8, ListedSame DEF AllThreads
<1>10. RegistryFits' /\ LinksFit' BY <1>0, <1>8, <1>9, RegistrySame DEF regvars, copies
<1> QED BY <1>3, <1>4, <1>5, <1>6, <1>7, <1>10 DEF ThreadsFit

\* The running thread enters a call.
LEMMA Entered ==
    ASSUME ThreadsFit, NEW c \in Calls, NEW u \in AllThreads \cup {NULL},
           currp \in AllThreads, Enter(c, u)
    PROVE  /\ OthersKeep(currp) /\ call'[currp] = c /\ arg'[currp] = u
           /\ call' \in [AllThreads -> Calls]
           /\ arg' \in [AllThreads -> AllThreads \cup {NULL}]
BY DEF Enter, OthersKeep, ThreadsFit, ThreadTypes, ThreadsTypeOK

\* ... or has no call.
LEMMA NotEntered ==
    ASSUME ThreadsFit, UNCHANGED callvars
    PROVE  /\ OthersKeep(currp)
           /\ call' = call /\ arg' = arg
           /\ call' \in [AllThreads -> Calls]
           /\ arg' \in [AllThreads -> AllThreads \cup {NULL}]
BY DEF callvars, OthersKeep, ThreadsFit, ThreadTypes, ThreadsTypeOK

LEMMA NoCallFits ==
    ASSUME NEW t \in AllThreads, call'[t] \in {"none", "msgwait"}
    PROVE  CallFits(t)'
BY DEF CallFits, Owning, Removing

LEMMA ReleaseFits ==
    ASSUME NEW t \in AllThreads, call'[t] \in {"join", "release"},
           arg'[t] \in AllThreads, held'[t][arg'[t]] > 0
    PROVE  CallFits(t)'
BY DEF CallFits, Owning, Removing, Holds

LEMMA ResumeFit ==
    ASSUME ThreadsFit, NEW tp \in AllThreads, chThdResume(tp) PROVE ThreadsFit'
<1>1. SchedInv(k) /\ k.p_state[tp] = "SUSPENDED" /\ k' = chSchWakeupS(k, tp)
  BY Typed DEF chThdResume
<1>2. SchedInv(k') /\ Keeps(k, k', {tp}) /\ k'.p_state[tp] \in Runnable
  <2>1. k.p_state[tp] \notin Runnable BY <1>1 DEF Runnable
  <2> QED BY <1>1, <2>1, WakeupS
<1>3. SameMarks(AllThreads) BY <1>1, <1>2, KeepsWaits, PlainMove DEF Plain
<1>4. isr' \in BOOLEAN BY DEF chThdResume, ThreadsFit, ThreadTypes, ThreadsTypeOK
<1> QED BY <1>2, <1>3, <1>4, ScheduleStep DEF chThdResume

LEMMA SleepFit == ASSUME ThreadsFit, chThdSleep PROVE ThreadsFit'
<1>0. PICK c : c = currp OBVIOUS
<1>1. /\ SchedInv(k) /\ k' = chSchGoSleepS(k, "SLEEPING") /\ k.r_current = c
      /\ c # Idle /\ k.p_state[c] = "CURRENT" /\ c \in AllThreads
  BY <1>0, Typed, Runner DEF chThdSleep, Between, currp
<1>2. "SLEEPING" \in ThreadStates \ Runnable BY DEF ThreadStates, Runnable
<1>3. SchedInv(k') /\ Keeps(k, k', {c}) /\ k'.p_state[c] = "SLEEPING"
  BY <1>1, <1>2, GoSleepS
<1>4. SameMarks(AllThreads) BY <1>1, <1>3, KeepsWaits, PlainMove DEF Plain, Runnable
<1>5. isr' \in BOOLEAN BY DEF chThdSleep, ThreadsFit, ThreadTypes, ThreadsTypeOK
<1> QED BY <1>3, <1>4, <1>5, ScheduleStep DEF chThdSleep

\* A step in which the threads only take turns.
LEMMA TurnMarks == ASSUME SameWaits(k, k', {}) PROVE SameMarks(AllThreads)
<1>1. AllThreads \ {} = AllThreads OBVIOUS
<1> QED BY <1>1, MarksKept

LEMMA YieldFit == ASSUME ThreadsFit, chThdYield PROVE ThreadsFit'
<1>1. SchedInv(k) /\ k' = chSchDoYieldS(k) BY Typed DEF chThdYield
<1>2. SchedInv(k') /\ SameWaits(k, k', {}) BY <1>1, YieldOK
<1>3. isr' \in BOOLEAN BY DEF chThdYield, ThreadsFit, ThreadTypes, ThreadsTypeOK
<1> QED BY <1>2, <1>3, TurnMarks, ScheduleStep DEF chThdYield

LEMMA WakeFit ==
    ASSUME ThreadsFit, NEW t \in Threads, WakeSleeper(t) PROVE ThreadsFit'
<1>1. /\ SchedInv(k) /\ k.p_state[t] = "SLEEPING" /\ k' = chSchReadyI(k, t)
      /\ isr' = TRUE /\ t \in AllThreads
  BY Typed DEF WakeSleeper, Interrupt
<1>2. SchedInv(k') /\ Keeps(k, k', {t}) /\ k'.p_state[t] = "READY"
  <2>1. k.p_state[t] \notin Runnable BY <1>1 DEF Runnable
  <2> QED BY <1>1, <2>1, ReadyI
<1>3. SameMarks(AllThreads) BY <1>1, <1>2, KeepsWaits, PlainMove DEF Plain, Runnable
<1> QED BY <1>1, <1>2, <1>3, ScheduleStep DEF WakeSleeper, Interrupt

LEMMA TickFit == ASSUME ThreadsFit, chSysTimerHandlerI PROVE ThreadsFit'
<1>1. SchedInv(k) /\ k' = ConsumeSlice(k) /\ isr' = TRUE
  BY Typed DEF chSysTimerHandlerI, Interrupt
<1>2. SchedInv(k') /\ SameWaits(k, k', {}) BY <1>1, SliceOK
<1> QED BY <1>1, <1>2, TurnMarks, ScheduleStep DEF chSysTimerHandlerI, Interrupt

LEMMA IrqExitFit == ASSUME ThreadsFit, IrqExit PROVE ThreadsFit'
<1>1. SchedInv(k) /\ k' = IrqEpilogue(k) /\ isr' = FALSE BY Typed DEF IrqExit
<1>2. SchedInv(k') /\ SameWaits(k, k', {}) BY <1>1, Epilogue, KeepsWaits
<1> QED BY <1>1, <1>2, TurnMarks, ScheduleStep DEF IrqExit

\* No area a thread owns is held.
LEMMA HeldNotOwned ==
    ASSUME ThreadsFit, NEW t \in Threads, NEW u \in AllThreads, Holds(t, u)
    PROVE  /\ u \notin free
           /\ \A v \in AllThreads : call[v] \in Owning => arg[v] # u
<1>1. p_refs[u] >= 1 /\ u \notin free BY HeldFacts
<1>2. \A v \in AllThreads : call[v] \in Owning /\ arg[v] = u => p_refs[u] = 0
  BY HeldFacts
<1> QED BY <1>1, <1>2

LEMMA AddRefFit ==
    ASSUME ThreadsFit, NEW tp \in AllThreads, chThdAddRef(tp) PROVE ThreadsFit'
<1>0. PICK c : c = currp OBVIOUS
<1>1. /\ ThreadCode /\ c \in Threads /\ c \in AllThreads /\ call[c] = "none"
      /\ Holds(c, tp) /\ HeldBy(c) < MaxRefs
  BY <1>0, Runner DEF chThdAddRef, Between
<1>2. OneMore(c, tp)
  <2>1. held[c][tp] < MaxRefs BY <1>1, Room
  <2> QED BY <1>0, <1>1, <2>1, MoreStep DEF chThdAddRef
<1>3. tp \notin free /\ \A t \in AllThreads : call[t] \in Owning => arg[t] # tp
  BY <1>1, HeldNotOwned
<1>4. UNCHANGED callvars BY DEF chThdAddRef
<1>5. /\ OthersKeep(c) /\ call'[c] = "none"
      /\ call' \in [AllThreads -> Calls]
      /\ arg' \in [AllThreads -> AllThreads \cup {NULL}]
  BY <1>0, <1>1, <1>4, NotEntered
<1>6. CallFits(c)' BY <1>1, <1>5, NoCallFits
<1>7. /\ UNCHANGED <<k, isr, p_flags, regvars, p_waiting, msgvars, free, copies>>
      /\ raced' \in BOOLEAN /\ stale' \in BOOLEAN
  BY DEF chThdAddRef, history, ThreadsFit, ThreadTypes, ThreadsTypeOK
<1> QED BY <1>0, <1>1, <1>2, <1>3, <1>5, <1>6, <1>7, ReferStep

LEMMA ReleaseFit ==
    ASSUME ThreadsFit, NEW tp \in AllThreads, chThdRelease(tp) PROVE ThreadsFit'
<1>0. PICK c : c = currp OBVIOUS
<1>1. /\ ThreadCode /\ c \in Threads /\ c \in AllThreads
      /\ call[c] \in {"none", "release"} /\ Holds(c, tp)
  <2>1. ThreadCode /\ c \in Threads /\ c \in AllThreads
    BY <1>0, Runner DEF chThdRelease
  <2>2. CASE call[c] = "none" /\ Holds(c, tp) BY <2>1, <2>2
  <2>3. CASE call[c] = "release" /\ arg[c] = tp
    BY <2>1, <2>3 DEF ThreadsFit, AreasFit, CallFits
  <2> QED BY <1>0, <2>2, <2>3 DEF chThdRelease
<1>2. OneLess(c, tp)
  BY <1>0, <1>1, LessStep DEF chThdRelease, Decrement
<1>3. tp \notin free /\ \A t \in AllThreads : call[t] \in Owning => arg[t] # tp
  BY <1>1, HeldNotOwned
<1>4. /\ AfterDecrement(tp)
      /\ UNCHANGED <<k, isr, p_flags, regvars, p_waiting, msgvars, free, copies>>
  BY DEF chThdRelease, Decrement
<1>5. raced' \in BOOLEAN /\ stale' \in BOOLEAN
  BY DEF chThdRelease, Decrement, history, ThreadsFit, ThreadTypes, ThreadsTypeOK
<1>6. CASE p_refs[tp] = 1
  <2>1. "check" \in Calls /\ Enter("check", tp) BY <1>4, <1>6 DEF AfterDecrement, Calls
  <2>2. /\ OthersKeep(c) /\ call'[c] = "check" /\ arg'[c] = tp
        /\ call' \in [AllThreads -> Calls]
        /\ arg' \in [AllThreads -> AllThreads \cup {NULL}]
    BY <1>0, <1>1, <2>1, Entered
  <2>3. p_refs'[tp] = 0 /\ tp \notin free'
    <3>1. p_refs[tp] = p_refs'[tp] + 1 /\ p_refs'[tp] \in Nat BY <1>2 DEF OneLess
    <3> QED BY <1>3, <1>4, <1>6, <3>1
  <2>4. \A v \in AllThreads : call'[v] \in Owning /\ arg'[v] = tp => v = c
    BY <1>3, <2>2 DEF OthersKeep
  <2>5. CallFits(c)' BY <2>2, <2>3, <2>4 DEF CallFits, Owning, Removing
  <2>6. call'[c] \in {"none", "release", "check", "unlink"}
        /\ call[c] \in {"none", "join", "release", "check"}
    BY <1>1, <2>2
  <2> QED BY <1>0, <1>1, <1>2, <1>4, <1>5, <2>2, <2>5, <2>6, ReferStep
<1>7. CASE p_refs[tp] # 1
  <2>1. "none" \in Calls /\ Enter("none", NULL)
    BY <1>4, <1>7 DEF AfterDecrement, Calls, Leave
  <2>2. /\ OthersKeep(c) /\ call'[c] = "none"
        /\ call' \in [AllThreads -> Calls]
        /\ arg' \in [AllThreads -> AllThreads \cup {NULL}]
    BY <1>0, <1>1, <2>1, Entered
  <2>3. CallFits(c)' BY <1>1, <2>2, NoCallFits
  <2>4. call'[c] \in {"none", "release", "check", "unlink"}
        /\ call[c] \in {"none", "join", "release", "check"}
    BY <1>1, <2>2
  <2> QED BY <1>0, <1>1, <1>2, <1>4, <1>5, <2>2, <2>3, <2>4, ReferStep
<1> QED BY <1>6, <1>7

\* A thread of the registry that no release is about to decide on.
LEMMA ReferableListed ==
    ASSUME ThreadsFit, NEW u \in Listed, ~ReleasePending(u)
    PROVE  /\ u \in AllThreads /\ u \notin free
           /\ \A t \in AllThreads : call[t] \in Owning => arg[t] # u
<1>1. /\ u \in AllThreads /\ u \notin free
      /\ \A t \in Threads : ~ (call[t] \in Outside /\ arg[t] = u)
  BY DEF Listed
<1>2. ASSUME NEW t \in AllThreads, call[t] \in Owning, arg[t] = u PROVE FALSE
  <2>1. p_refs[u] = 0 BY <1>1, <1>2, HeldFacts
  <2>2. t \in Threads BY <1>2, Typed DEF Owning
  <2>3. call[t] \in {"check", "unlink", "relink"} BY <1>1, <1>2, <2>2 DEF Owning, Outside
  <2> QED BY <1>2, <2>1, <2>3 DEF ReleasePending
<1> QED BY <1>1, <1>2

LEMMA RegFirstFit ==
    ASSUME ThreadsFit, chRegFirstThread, ~raced' PROVE ThreadsFit'
<1>0. PICK c : c = currp OBVIOUS
<1> DEFINE tp == p_newer[rlist]
<1>1. /\ ThreadCode /\ c \in Threads /\ c \in AllThreads /\ call[c] = "none"
      /\ HeldBy(c) < MaxRefs /\ Reference(tp) /\ ~ReleasePending(tp)
  BY <1>0, Runner DEF chRegFirstThread, Between
<1>2. tp \in Listed BY RegistryLinks
<1> HIDE DEF tp
<1>3. /\ tp \in AllThreads /\ tp \notin free
      /\ \A t \in AllThreads : call[t] \in Owning => arg[t] # tp
  BY <1>1, <1>2, ReferableListed
<1>4. OneMore(c, tp)
  <2>1. held[c][tp] < MaxRefs BY <1>1, <1>3, Room
  <2> QED BY <1>0, <1>1, <1>3, <2>1, MoreStep DEF Reference
<1>5. UNCHANGED callvars BY DEF chRegFirstThread
<1>6. /\ OthersKeep(c) /\ call'[c] = "none"
      /\ call' \in [AllThreads -> Calls]
      /\ arg' \in [AllThreads -> AllThreads \cup {NULL}]
  BY <1>0, <1>1, <1>5, NotEntered
<1>7. CallFits(c)' BY <1>1, <1>6, NoCallFits
<1>8. UNCHANGED <<k, isr, p_flags, regvars, p_waiting, msgvars, free, copies>>
  BY DEF chRegFirstThread
<1>9. raced' \in BOOLEAN /\ stale' \in BOOLEAN
  BY DEF chRegFirstThread, ThreadsFit, ThreadTypes, ThreadsTypeOK
<1> QED BY <1>0, <1>1, <1>3, <1>4, <1>6, <1>7, <1>8, <1>9, ReferStep

LEMMA RegNextFit ==
    ASSUME ThreadsFit, NEW tp \in AllThreads, chRegNextThread(tp),
           ~raced', ~stale'
    PROVE  ThreadsFit'
<1>0. PICK c : c = currp OBVIOUS
<1> DEFINE ntp == p_newer[tp]
<1>1. /\ ThreadCode /\ c \in Threads /\ c \in AllThreads /\ call[c] = "none"
      /\ Holds(c, tp) /\ Enter("release", tp) /\ ntp \in Registered \cup {rlist}
      /\ UNCHANGED <<k, isr, p_flags, regvars, p_waiting, msgvars, free, copies>>
      /\ raced' \in BOOLEAN /\ stale' \in BOOLEAN
  BY <1>0, Runner DEF chRegNextThread, Between, ThreadsFit, ThreadTypes, ThreadsTypeOK
<1>2. ntp \in Listed \cup {rlist} BY <1>1, WalkListed
<1>3. \/ ntp = rlist /\ UNCHANGED refvars
      \/ ntp # rlist /\ HeldBy(c) < MaxRefs /\ Reference(ntp) /\ ~ReleasePending(ntp)
  BY <1>0 DEF chRegNextThread
<1> HIDE DEF ntp
<1>4. "release" \in Calls BY DEF Calls
<1>5. /\ OthersKeep(c) /\ call'[c] = "release" /\ arg'[c] = tp
      /\ call' \in [AllThreads -> Calls]
      /\ arg' \in [AllThreads -> AllThreads \cup {NULL}]
  BY <1>0, <1>1, <1>4, Entered
<1>6. held[c][tp] > 0 BY <1>1 DEF Holds
<1>7. CASE ntp = rlist /\ UNCHANGED refvars
  <2>1. held'[c][tp] > 0 BY <1>6, <1>7 DEF refvars
  <2>2. CallFits(c)' BY <1>1, <1>5, <2>1, ReleaseFits
  <2> QED BY <1>0, <1>1, <1>5, <1>7, <2>2, ReferStep
<1>8. CASE ntp # rlist /\ HeldBy(c) < MaxRefs /\ Reference(ntp) /\ ~ReleasePending(ntp)
  <2>1. /\ ntp \in AllThreads /\ ntp \notin free
        /\ \A t \in AllThreads : call[t] \in Owning => arg[t] # ntp
    BY <1>2, <1>8, ReferableListed
  <2>2. OneMore(c, ntp)
    <3>1. held[c][ntp] < MaxRefs BY <1>1, <1>8, <2>1, Room
    <3> QED BY <1>0, <1>1, <1>8, <2>1, <3>1, MoreStep DEF Reference
  <2>3. held'[c][tp] > 0
    <3>1. held[c][tp] \in Nat BY <1>1, Typed DEF Refs
    <3> QED BY <1>1, <1>6, <2>2, <3>1 DEF OneMore
  <2>4. CallFits(c)' BY <1>1, <1>5, <2>3, ReleaseFits
  <2> QED BY <1>0, <1>1, <1>5, <2>1, <2>2, <2>4, ReferStep
<1> QED BY <1>3, <1>7, <1>8

LEMMA JoinReturnFit == ASSUME ThreadsFit, JoinReturn PROVE ThreadsFit'
<1>0. PICK c : c = currp OBVIOUS
<1>1. /\ ThreadCode /\ c \in Threads /\ c \in AllThreads /\ call[c] = "join"
      /\ Enter("release", arg[c])
      /\ UNCHANGED <<k, isr, p_flags, regvars, p_waiting, msgvars, free, copies>>
      /\ UNCHANGED refvars /\ raced' \in BOOLEAN /\ stale' \in BOOLEAN
  BY <1>0, Runner DEF JoinReturn, history, ThreadsFit, ThreadTypes, ThreadsTypeOK
<1>2. arg[c] \in AllThreads /\ Holds(c, arg[c])
  BY <1>1 DEF ThreadsFit, AreasFit, CallFits
<1>3. "release" \in Calls BY DEF Calls
<1>4. /\ OthersKeep(c) /\ call'[c] = "release" /\ arg'[c] = arg[c]
      /\ call' \in [AllThreads -> Calls]
      /\ arg' \in [AllThreads -> AllThreads \cup {NULL}]
  BY <1>0, <1>1, <1>2, <1>3, Entered
<1>5. CallFits(c)'
  <2>1. held'[c][arg'[c]] > 0 BY <1>1, <1>2, <1>4 DEF Holds, refvars
  <2> QED BY <1>1, <1>2, <1>4, <2>1, ReleaseFits
<1> QED BY <1>0, <1>1, <1>2, <1>4, <1>5, ReferStep

----------------------------------------------------------------------------
(* Creation *)

\* A thread is made in an area that was the creator's alone.
LEMMA CreateStep ==
    ASSUME ThreadsFit, ThreadCode, NEW c, c = currp,
           NEW tp \in Threads, tp # Main, k.p_state[tp] = "FINAL", p_refs[tp] = 0,
           MaxRefs >= 1, NEW mode \in MemModes, tp \notin Dynamics => mode = "STATIC",
           ThreadInit(tp, mode), ~raced',
           SchedInv(k'), SameWaits(k, k', {tp}), k'.p_state[tp] \in Plain,
           held' = [held EXCEPT ![c][tp] = 1], free' = free \ {tp},
           OthersKeep(c), call'[c] = "none",
           call' \in [AllThreads -> Calls], arg' \in [AllThreads -> AllThreads \cup {NULL}],
           call[c] = "none" \/ (call[c] = "create" /\ arg[c] = tp),
           \A t \in AllThreads \ {c} : call[t] \in Owning => arg[t] # tp,
           isr' = isr, serving' = serving, stale' = stale, UNCHANGED copies,
           tp \in free \/ call[c] = "create"
    PROVE  ThreadsFit'
<1>1. /\ c \in Threads /\ c \in AllThreads /\ c # Idle /\ k.p_state[c] = "CURRENT"
      /\ tp \in AllThreads
  BY Runner DEF AllThreads
<1>2. \A u \in AllThreads :
         /\ k'.p_state[u] = "FINAL" <=> k.p_state[u] = "FINAL" /\ u # tp
         /\ k'.p_state[u] = "WTEXIT" <=> k.p_state[u] = "WTEXIT"
         /\ k'.p_state[u] = "SNDMSGQ" <=> k.p_state[u] = "SNDMSGQ"
         /\ k'.p_state[u] = "SNDMSG" <=> k.p_state[u] = "SNDMSG"
         /\ k'.p_state[u] = "WTMSG" <=> k.p_state[u] = "WTMSG"
  BY DEF SameWaits, Plain, Runnable
<1>3. OneMore(c, tp) BY <1>1, FirstStep DEF ThreadInit
<1>4. \A t \in Threads \ {c}, u \in AllThreads : held'[t][u] = held[t][u]
  BY <1>3 DEF OneMore
<1>5. p_waiting' = p_waiting
  <2>1. p_waiting[tp] = <<>> BY <1>1 DEF ThreadsFit, JoinsFit
  <2>2. p_waiting' = [p_waiting EXCEPT ![tp] = <<>>] BY DEF ThreadInit
  <2>3. p_waiting \in [AllThreads -> Seq(Threads)]
    BY DEF ThreadsFit, ThreadTypes, ThreadsTypeOK
  <2> QED BY <2>1, <2>2, <2>3
<1>6. p_msgqueue' = p_msgqueue
  <2>1. p_msgqueue \in [AllThreads -> Seq(Threads)]
    BY DEF ThreadsFit, ThreadTypes, ThreadsTypeOK
  <2>2. \A t \in Threads : ~ Holds(t, tp) BY <1>1, HeldFacts DEF Holds
  <2>3. Elems(p_msgqueue[tp]) = {}
    <3>1. Elems(p_msgqueue[tp]) \subseteq Threads BY <1>1, <2>1 DEF Elems
    <3>2. \A t \in Threads : t \notin Elems(p_msgqueue[tp])
      BY <1>1, <2>2 DEF ThreadsFit, MessagesFit, AllThreads
    <3> QED BY <3>1, <3>2
  <2>4. p_msgqueue[tp] = <<>> BY <1>1, <2>1, <2>3, NoElements
  <2>5. p_msgqueue' = [p_msgqueue EXCEPT ![tp] = <<>>] BY DEF ThreadInit
  <2> QED BY <2>1, <2>4, <2>5
<1>7. PICK s \in Seq(AllThreads) :
        /\ NoDuplicates(s) /\ Elems(s) = Listed /\ Ring(s, p_newer, p_older)
        /\ \A t \in AllThreads : ~Unlinking(t) /\ call[t] # "relink"
  <2>1. ~AtOnce /\ call[c] \notin Removing BY DEF ThreadInit, Removing
  <2>2. ~HalfRemoved /\ \A t \in AllThreads : ~Unlinking(t) /\ call[t] # "relink"
    BY <1>1, <2>1, NoRemoval
  <2> QED BY <2>2 DEF ThreadsFit, RegistryFits
<1>8. /\ p_newer \in [Nodes -> Nodes] /\ p_older \in [Nodes -> Nodes]
      /\ p_flags \in [AllThreads -> MemModes]
      /\ \A u \in AllThreads \ Dynamics : p_flags[u] = "STATIC"
  BY DEF ThreadsFit, ThreadTypes, ThreadsTypeOK
<1>9. tp \notin Listed
  <2>1. CASE tp \in free BY <2>1 DEF Listed
  <2>2. CASE call[c] = "create" /\ arg[c] = tp BY <1>1, <2>2 DEF Listed, Outside
  <2> QED BY <2>1, <2>2
<1>10. /\ p_newer' = NewerIns(p_newer, p_older, tp) /\ p_older' = OlderIns(p_older, tp)
  BY DEF ThreadInit, REG_INSERT, NewerIns, OlderIns
<1>11. /\ Ring(Append(s, tp), p_newer', p_older')
       /\ p_newer' \in [Nodes -> Nodes] /\ p_older' \in [Nodes -> Nodes]
  BY <1>1, <1>7, <1>8, <1>9, <1>10, RingInsert
<1>12. /\ p_flags' = [p_flags EXCEPT ![tp] = mode]
       /\ p_flags' \in [AllThreads -> MemModes] /\ p_flags'[tp] = mode
       /\ \A u \in AllThreads \ {tp} : p_flags'[u] = p_flags[u]
  BY <1>1, <1>8 DEF ThreadInit
<1>13. ThreadTypes'
  <2>1. k' \in SchedStates BY DEF SchedInv
  <2>2. Main \in AllThreads BY Typed
  <2>3. k'.p_state[Main] # "FINAL" BY <1>2, <2>2 DEF ThreadsFit, ThreadTypes
  <2>4. call'[Idle] = "none"
    BY <1>1 DEF OthersKeep, ThreadsFit, ThreadTypes, AllThreads
  <2>5. free' \subseteq Statics \cup Dynamics
    BY DEF ThreadsFit, ThreadTypes, ThreadsTypeOK
  <2>6. \A u \in AllThreads \ Dynamics : p_flags'[u] = "STATIC"
    BY <1>8, <1>12
  <2>7. /\ p_refs' \in [AllThreads -> Nat] /\ held' \in [Threads -> [AllThreads -> Nat]]
    BY <1>3 DEF OneMore, Refs
  <2>8. raced' \in BOOLEAN
    <3>1. raced' = (raced \/ AtOnce) BY DEF ThreadInit
    <3> QED BY <3>1
  <2>9. ThreadsTypeOK'
    <3>1. /\ p_waiting \in [AllThreads -> Seq(Threads)]
          /\ p_msgqueue \in [AllThreads -> Seq(Threads)]
          /\ serving \in [AllThreads -> SUBSET Threads] /\ isr \in BOOLEAN
          /\ stale \in BOOLEAN /\ got_older' = got_older /\ got_newer' = got_newer
          /\ got_older \in [AllThreads -> Nodes \cup {NULL}]
          /\ got_newer \in [AllThreads -> Nodes \cup {NULL}]
      BY DEF copies, ThreadsFit, ThreadTypes, ThreadsTypeOK
    <3> QED BY ONLY <1>5, <1>6, <1>11, <1>12, <2>1, <2>5, <2>7, <2>8, <3>1,
              call' \in [AllThreads -> Calls],
              arg' \in [AllThreads -> AllThreads \cup {NULL}],
              isr' = isr, serving' = serving, stale' = stale
            DEF ThreadsTypeOK
  <2> QED BY ONLY <2>3, <2>4, <2>6, <2>9, SchedInv(k') DEF ThreadTypes
<1>14. Counted' BY <1>1, <1>3, CountMore
<1>15. AreasFit'
  <2>1. CallFits(c)' BY <1>1, NoCallFits
  <2>2. \A u \in free' : k'.p_state[u] = "FINAL" /\ p_refs'[u] = 0
    <3> TAKE u \in free'
    <3>1. u \in free /\ u # tp /\ u \in AllThreads BY Typed
    <3> QED BY <1>2, <1>3, <3>1 DEF ThreadsFit, AreasFit, OneMore
  <2>3. ASSUME NEW t \in AllThreads \ {c}, call[t] \in Owning
        PROVE  /\ p_refs'[arg[t]] = 0 /\ arg[t] \notin free'
               /\ p_flags'[arg[t]] = p_flags[arg[t]]
               /\ k.p_state[arg[t]] = "FINAL" => k'.p_state[arg[t]] = "FINAL"
    <3>1. arg[t] \in AllThreads \ free /\ p_refs[arg[t]] = 0 /\ arg[t] # tp
      BY <2>3 DEF ThreadsFit, AreasFit, CallFits
    <3> QED BY <1>2, <1>3, <1>12, <3>1 DEF OneMore
  <2> QED BY <1>1, <1>4, <2>1, <2>2, <2>3, AreasStep
<1>16. JoinsFit'
  <2>1. call'[c] # "join" /\ k.p_state[c] # "WTEXIT" BY <1>1
  <2>2. \A u \in AllThreads :
           /\ k'.p_state[u] = "WTEXIT" <=> k.p_state[u] = "WTEXIT"
           /\ k'.p_state[u] = "FINAL" => k.p_state[u] = "FINAL"
           /\ k.p_state[u] = "FINAL" /\ p_refs[u] # 0 => k'.p_state[u] = "FINAL"
    BY <1>2
  <2> QED BY <1>1, <1>5, <2>1, <2>2, JoinsSame
<1>17. MessagesFit'
  <2>1. \A v \in AllThreads : call'[v] = "msgwait" <=> call[v] = "msgwait"
    BY DEF OthersKeep
  <2>2. \A t \in Threads, v \in AllThreads :
           k.p_state[t] \in {"SNDMSGQ", "SNDMSG"} => held'[t][v] = held[t][v]
    BY <1>1, <1>4
  <2> QED BY <1>2, <1>6, <2>1, <2>2, MessagesSame DEF msgvars
<1>18. Listed' = Listed \cup {tp}
  <2>1. \A u \in AllThreads \ {tp} : u \in free' <=> u \in free OBVIOUS
  <2>2. \A u \in AllThreads \ {tp} :
           (\E t \in Threads : call'[t] \in Outside /\ arg'[t] = u)
             <=> (\E t \in Threads : call[t] \in Outside /\ arg[t] = u)
    BY DEF OthersKeep, AllThreads, Outside
  <2>3. ~ \E t \in Threads : call'[t] \in Outside /\ arg'[t] = tp
    BY <1>1 DEF OthersKeep, Owning, AllThreads, Outside
  <2>4. \A u \in AllThreads \ {tp} : u \in Listed' <=> u \in Listed
    BY <1>2, <1>12, <2>1, <2>2 DEF Listed
  <2>5. tp \in Listed' BY <1>1, <1>2, <2>3 DEF Listed
  <2>6. Listed \subseteq AllThreads /\ Listed' \subseteq AllThreads BY DEF Listed
  <2> QED BY <1>1, <2>4, <2>5, <2>6
<1>19. RegistryFits'
  <2> DEFINE r == Append(s, tp)
  <2>1. /\ r \in Seq(AllThreads) /\ Elems(r) = Listed \cup {tp} /\ NoDuplicates(r)
    BY <1>1, <1>7, <1>9, AppendNew
  <2>2. \A t \in AllThreads : call'[t] # "relink"
    BY <1>7 DEF OthersKeep
  <2> HIDE DEF r
  <2>3. Ring(r, p_newer', p_older') BY <1>11 DEF r
  <2> QED BY <1>11, <1>18, <2>1, <2>2, <2>3 DEF RegistryFits
<1>20. LinksFit'
  <2>1. \A t \in AllThreads : call'[t] # "relink" BY <1>7 DEF OthersKeep
  <2> QED BY <1>7, <2>1, LinksNone
<1> QED BY <1>13, <1>14, <1>15, <1>16, <1>17, <1>19, <1>20 DEF ThreadsFit

\* The areas of free are nobody's.
LEMMA FreeFacts ==
    ASSUME ThreadsFit, NEW u \in free
    PROVE  /\ u \in Threads /\ u # Main /\ u \in AllThreads
           /\ k.p_state[u] = "FINAL" /\ p_refs[u] = 0
           /\ \A t \in AllThreads : call[t] \in Owning => arg[t] # u
           /\ \A t \in Threads : ~ Holds(t, u)
<1>1. u \in Threads /\ u # Main /\ u \in AllThreads BY Typed
<1>2. k.p_state[u] = "FINAL" /\ p_refs[u] = 0 BY DEF ThreadsFit, AreasFit
<1>3. \A t \in AllThreads : call[t] \in Owning => arg[t] # u
  BY DEF ThreadsFit, AreasFit, CallFits
<1> QED BY <1>1, <1>2, <1>3, HeldFacts DEF Holds

LEMMA CreateStaticFit ==
    ASSUME ThreadsFit, NEW tp \in Statics, chThdCreateStatic(tp) \/ chThdCreateI(tp),
           ~raced'
    PROVE  ThreadsFit'
<1>0. PICK c : c = currp OBVIOUS
<1>1. /\ ThreadCode /\ c \in Threads /\ c \in AllThreads /\ call[c] = "none"
      /\ HeldBy(c) < MaxRefs /\ tp \in free /\ ThreadInit(tp, "STATIC")
      /\ free' = free \ {tp} /\ held' = [held EXCEPT ![c][tp] = 1]
      /\ UNCHANGED <<isr, serving, callvars, stale, copies>>
      /\ k' = chSchWakeupS(Suspended(tp), tp) \/ k' = Suspended(tp)
  BY <1>0, Runner DEF chThdCreateStatic, chThdCreateI, Between
<1>2. /\ tp \in Threads /\ tp # Main /\ k.p_state[tp] = "FINAL" /\ p_refs[tp] = 0
      /\ \A t \in AllThreads : call[t] \in Owning => arg[t] # tp
  BY <1>1, FreeFacts
<1>3. MaxRefs >= 1 BY <1>1, Room
<1>4. tp \notin Dynamics BY ThreadsAssumption DEF Dynamics
<1>5. SchedInv(k') /\ SameWaits(k, k', {tp}) /\ k'.p_state[tp] \in Plain
  <2>1. SchedInv(k) /\ k.p_state \in [AllThreads -> ThreadStates] BY Typed
  <2>2. CASE k' = chSchWakeupS(Suspended(tp), tp)
    BY <1>2, <2>1, <2>2, StartedOK DEF Plain
  <2>3. CASE k' = Suspended(tp)
    <3>1. SchedInv(k') /\ k'.p_state = [k.p_state EXCEPT ![tp] = "SUSPENDED"]
      BY <1>2, <2>1, <2>3, SuspendedOK
    <3> QED BY <1>2, <2>1, <3>1 DEF SameWaits, Plain, AllThreads
  <2> QED BY <1>1, <2>2, <2>3
<1>6. /\ OthersKeep(c) /\ call'[c] = "none"
      /\ call' \in [AllThreads -> Calls]
      /\ arg' \in [AllThreads -> AllThreads \cup {NULL}]
  BY <1>0, <1>1, NotEntered
<1>7. "STATIC" \in MemModes BY DEF MemModes
<1> QED BY <1>0, <1>1, <1>2, <1>3, <1>4, <1>5, <1>6, <1>7, CreateStep

LEMMA CreateDynamicFit ==
    ASSUME ThreadsFit, chThdCreateDynamic, ~raced' PROVE ThreadsFit'
<1>0. PICK c : c = currp OBVIOUS
<1>1. /\ ThreadCode /\ c \in Threads /\ c \in AllThreads /\ call[c] = "create"
  BY <1>0, Runner DEF chThdCreateDynamic
<1> DEFINE tp == arg[c]
           mode == IF tp \in HeapAreas THEN "HEAP" ELSE "MEMPOOL"
<1>2. /\ ThreadInit(tp, mode) /\ k' = chSchWakeupS(Suspended(tp), tp)
      /\ held' = [held EXCEPT ![c][tp] = 1] /\ Enter("none", NULL)
      /\ UNCHANGED <<isr, serving, free, stale, copies>>
  BY <1>0 DEF chThdCreateDynamic, Leave
<1>3. /\ tp \in Dynamics /\ tp \notin free /\ k.p_state[tp] = "FINAL"
      /\ p_refs[tp] = 0 /\ MaxRefs >= 1
      /\ \A t \in AllThreads \ {c} : call[t] \in Owning => arg[t] # tp
  BY <1>1 DEF ThreadsFit, AreasFit, CallFits, Owning
<1> HIDE DEF tp
<1>4. tp \in Threads /\ tp # Main BY <1>3, Typed
<1>5. SchedInv(k') /\ SameWaits(k, k', {tp}) /\ k'.p_state[tp] \in Plain
  BY <1>2, <1>3, <1>4, StartedOK, Typed DEF Plain
<1>6. "none" \in Calls /\ NULL \in AllThreads \cup {NULL} BY DEF Calls
<1>7. /\ OthersKeep(c) /\ call'[c] = "none"
      /\ call' \in [AllThreads -> Calls]
      /\ arg' \in [AllThreads -> AllThreads \cup {NULL}]
  BY <1>0, <1>1, <1>2, <1>6, Entered
<1>8. mode \in MemModes BY DEF MemModes
<1> HIDE DEF mode
<1>9. free' = free \ {tp} BY <1>2, <1>3
<1>10. isr' = isr /\ serving' = serving /\ arg[c] = tp BY <1>2 DEF tp
<1> QED BY <1>0, <1>1, <1>2, <1>3, <1>4, <1>5, <1>7, <1>8, <1>9, <1>10, CreateStep


----------------------------------------------------------------------------
(* Areas: taken, given back, and the registry they leave *)

LinkTypes ==
    /\ got_older \in [AllThreads -> Nodes \cup {NULL}]
    /\ got_newer \in [AllThreads -> Nodes \cup {NULL}]

LEMMA LinksKept == ASSUME ThreadsFit, UNCHANGED copies PROVE LinkTypes'
BY DEF copies, LinkTypes, ThreadsFit, ThreadTypes, ThreadsTypeOK

LEMMA HistoryKept ==
    ASSUME ThreadsFit, UNCHANGED history
    PROVE  raced' = raced /\ raced' \in BOOLEAN /\ stale' \in BOOLEAN
BY DEF history, ThreadsFit, ThreadTypes, ThreadsTypeOK

\* Only the areas change, the registry, and the call of one thread.
LEMMA AreaStep ==
    ASSUME ThreadsFit, NEW c \in AllThreads, OthersKeep(c),
           call[c] \notin {"join", "msgwait"}, call'[c] \notin {"join", "msgwait"},
           c = Idle => call'[c] = "none",
           UNCHANGED <<k, isr, refvars, p_flags, p_waiting, msgvars>>,
           call' \in [AllThreads -> Calls], arg' \in [AllThreads -> AllThreads \cup {NULL}],
           free' \subseteq Statics \cup Dynamics,
           p_newer' \in [Nodes -> Nodes], p_older' \in [Nodes -> Nodes],
           LinkTypes', raced' \in BOOLEAN, stale' \in BOOLEAN,
           AreasFit', RegistryFits', LinksFit'
    PROVE  ThreadsFit'
<1>0. /\ k' = k /\ isr' = isr /\ p_refs' = p_refs /\ held' = held /\ p_flags' = p_flags
      /\ p_waiting' = p_waiting /\ p_msgqueue' = p_msgqueue /\ serving' = serving
  BY DEF refvars, msgvars
<1>1. ThreadTypes'
  <2>1. call'[Idle] = "none"
    BY DEF OthersKeep, ThreadsFit, ThreadTypes, AllThreads
  <2> QED BY <1>0, <2>1 DEF LinkTypes, ThreadsFit, ThreadTypes, ThreadsTypeOK
<1>2. Counted' BY <1>0, CountSame DEF refvars
<1>3. JoinsFit'
  <2>1. k.p_state[c] # "WTEXIT" BY DEF ThreadsFit, JoinsFit
  <2> QED BY <1>0, <2>1, JoinsSame
<1>4. MessagesFit'
  <2>1. \A v \in AllThreads : call'[v] = "msgwait" <=> call[v] = "msgwait"
    BY DEF OthersKeep
  <2> QED BY <1>0, <2>1, MessagesSame
<1> QED BY <1>1, <1>2, <1>3, <1>4 DEF ThreadsFit

LEMMA ReuseFit ==
    ASSUME ThreadsFit, NEW tp \in Statics, ReuseStatic(tp) PROVE ThreadsFit'
<1>1. /\ tp \notin free /\ k.p_state[tp] = "FINAL"
      /\ \A t \in Threads : ~Holds(t, tp) /\ arg[t] # tp
      /\ free' = free \cup {tp}
      /\ UNCHANGED <<k, isr, refvars, p_flags, regvars, p_waiting, msgvars, callvars, history, copies>>
  BY DEF ReuseStatic
<1>0. /\ k' = k /\ p_refs' = p_refs /\ held' = held /\ p_flags' = p_flags
      /\ call' = call /\ arg' = arg /\ p_newer' = p_newer /\ p_older' = p_older
  BY <1>1 DEF refvars, callvars, regvars
<1>2. /\ tp \in Threads /\ tp \in AllThreads /\ tp \notin {Main, Idle}
      /\ tp \notin Dynamics
  BY ThreadsAssumption, SchedAssumption DEF AllThreads, Dynamics
<1>3. p_refs[tp] = 0
  <2>1. \A t \in Threads : held[t][tp] = 0
    <3>1. \A t \in Threads : held[t][tp] \in Nat BY <1>2, Typed DEF Refs
    <3> QED BY <1>1, <3>1 DEF Holds
  <2>2. RefsTo(held, tp) = 0 BY <1>2, <2>1, Typed, RefsZero
  <2> QED BY <1>2, <2>2, TheRefs DEF ThreadsFit, Counted, Own
<1>4. Idle \in AllThreads /\ OthersKeep(Idle) /\ call[Idle] = "none"
  BY <1>0 DEF OthersKeep, AllThreads, ThreadsFit, ThreadTypes
<1>5. AreasFit'
  <2>1. CallFits(Idle)' BY <1>0, <1>4, NoCallFits
  <2>2. \A u \in free' : k'.p_state[u] = "FINAL" /\ p_refs'[u] = 0
    BY <1>0, <1>1, <1>3 DEF ThreadsFit, AreasFit
  <2>3. ASSUME NEW t \in AllThreads \ {Idle}, call[t] \in Owning
        PROVE  p_refs[arg[t]] = 0 /\ arg[t] \notin free'
    <3>1. t \in Threads BY DEF AllThreads
    <3>2. arg[t] # tp BY <1>1, <3>1
    <3>3. arg[t] \in AllThreads \ free /\ p_refs[arg[t]] = 0
      BY <2>3 DEF ThreadsFit, AreasFit, CallFits
    <3> QED BY <1>1, <3>2, <3>3
  <2> QED BY <1>0, <1>4, <2>1, <2>2, <2>3, AreasStep
<1>6. Listed' = Listed
  <2>1. p_flags[tp] = "STATIC" BY <1>2 DEF ThreadsFit, ThreadTypes
  <2>2. tp \notin Listed BY <1>1, <2>1 DEF Listed
  <2>3. tp \notin Listed' BY <1>1 DEF Listed
  <2>4. \A u \in AllThreads \ {tp} : u \in Listed' <=> u \in Listed
    BY <1>0, <1>1 DEF Listed
  <2>5. Listed \subseteq AllThreads /\ Listed' \subseteq AllThreads BY DEF Listed
  <2> QED BY <2>2, <2>3, <2>4, <2>5
<1>7. RegistryFits' /\ LinksFit' BY <1>0, <1>1, <1>6, RegistrySame
<1>8. /\ call \in [AllThreads -> Calls] /\ arg \in [AllThreads -> AllThreads \cup {NULL}]
      /\ free \subseteq Statics \cup Dynamics
      /\ p_newer \in [Nodes -> Nodes] /\ p_older \in [Nodes -> Nodes]
  BY DEF ThreadsFit, ThreadTypes, ThreadsTypeOK
<1>9. free' \subseteq Statics \cup Dynamics BY <1>1, <1>8
<1>10. LinkTypes' /\ raced' \in BOOLEAN /\ stale' \in BOOLEAN
  BY <1>1, LinksKept, HistoryKept
<1> QED BY <1>0, <1>1, <1>4, <1>5, <1>7, <1>8, <1>9, <1>10, AreaStep

LEMMA AllocFit ==
    ASSUME ThreadsFit, NEW tp \in Dynamics, chThdAlloc(tp) PROVE ThreadsFit'
<1>0. PICK c : c = currp OBVIOUS
<1>1. /\ ThreadCode /\ c \in Threads /\ c \in AllThreads /\ c # Idle /\ call[c] = "none"
      /\ HeldBy(c) < MaxRefs /\ tp \in free /\ free' = free \ {tp} /\ Enter("create", tp)
      /\ UNCHANGED <<k, isr, refvars, p_flags, regvars, p_waiting, msgvars, history, copies>>
  BY <1>0, Runner DEF chThdAlloc, Between
<1>2. /\ k' = k /\ p_refs' = p_refs /\ held' = held /\ p_flags' = p_flags
      /\ p_newer' = p_newer /\ p_older' = p_older
  BY <1>1 DEF refvars, regvars
<1>3. /\ tp \in Threads /\ tp \in AllThreads /\ k.p_state[tp] = "FINAL" /\ p_refs[tp] = 0
      /\ \A t \in AllThreads : call[t] \in Owning => arg[t] # tp
  BY <1>1, FreeFacts
<1>4. MaxRefs >= 1 BY <1>1, Room
<1>5. "create" \in Calls BY DEF Calls
<1>6. /\ OthersKeep(c) /\ call'[c] = "create" /\ arg'[c] = tp
      /\ call' \in [AllThreads -> Calls]
      /\ arg' \in [AllThreads -> AllThreads \cup {NULL}]
  BY <1>0, <1>1, <1>3, <1>5, Entered
<1>7. AreasFit'
  <2>1. CallFits(c)'
    <3>1. \A v \in AllThreads : call'[v] \in Owning /\ arg'[v] = tp => v = c
      BY <1>3, <1>6 DEF OthersKeep
    <3> QED BY <1>1, <1>2, <1>3, <1>4, <1>6, <3>1 DEF CallFits, Owning, Removing
  <2>2. \A u \in free' : k'.p_state[u] = "FINAL" /\ p_refs'[u] = 0
    BY <1>1, <1>2 DEF ThreadsFit, AreasFit
  <2>3. \A t \in AllThreads \ {c} : call[t] \in Owning =>
           p_refs[arg[t]] = 0 /\ arg[t] \notin free'
    BY <1>1 DEF ThreadsFit, AreasFit, CallFits
  <2> QED BY <1>1, <1>2, <1>6, <2>1, <2>2, <2>3, AreasStep
<1>8. Listed' = Listed
  <2>1. tp \notin Listed BY <1>1 DEF Listed
  <2>2. tp \notin Listed' BY <1>1, <1>6 DEF Listed, Outside
  <2>3. \A u \in AllThreads \ {tp} :
           (\E t \in Threads : call'[t] \in Outside /\ arg'[t] = u)
             <=> (\E t \in Threads : call[t] \in Outside /\ arg[t] = u)
    BY <1>1, <1>6 DEF OthersKeep, AllThreads, Outside
  <2>4. \A u \in AllThreads \ {tp} : u \in Listed' <=> u \in Listed
    BY <1>1, <1>2, <2>3 DEF Listed
  <2>5. Listed \subseteq AllThreads /\ Listed' \subseteq AllThreads BY DEF Listed
  <2> QED BY <2>1, <2>2, <2>4, <2>5
<1>9. RegistryFits' /\ LinksFit'
  <2>1. \A t \in AllThreads :
           /\ call'[t] = "relink" <=> call[t] = "relink"
           /\ call[t] \in Removing => call'[t] \in Removing /\ arg'[t] = arg[t]
    BY <1>1, <1>6 DEF OthersKeep, Removing
  <2> QED BY <1>1, <1>8, <2>1, RegistrySame
<1>10. /\ free' \subseteq Statics \cup Dynamics
       /\ p_newer \in [Nodes -> Nodes] /\ p_older \in [Nodes -> Nodes]
  BY <1>1 DEF ThreadsFit, ThreadTypes, ThreadsTypeOK
<1>11. LinkTypes' /\ raced' \in BOOLEAN /\ stale' \in BOOLEAN
  BY <1>1, LinksKept, HistoryKept
<1> QED BY <1>1, <1>2, <1>6, <1>7, <1>9, <1>10, <1>11, AreaStep

\* The release decides: nothing to free, or the thread is to be removed.
LEMMA ReleaseCheckFit == ASSUME ThreadsFit, ReleaseCheck PROVE ThreadsFit'
<1>0. PICK c : c = currp OBVIOUS
<1>1. /\ ThreadCode /\ c \in Threads /\ c \in AllThreads /\ call[c] = "check"
      /\ UNCHANGED <<k, isr, refvars, p_flags, regvars, p_waiting, msgvars, free>>
      /\ UNCHANGED history /\ UNCHANGED copies
  BY <1>0, Runner DEF ReleaseCheck
<1>2. PICK tp : tp = arg[c] OBVIOUS
<1>3. \/ ~MayFree(tp) /\ Enter("none", NULL)
      \/ MayFree(tp) /\ Enter("unlink", tp)
  BY <1>0, <1>2 DEF ReleaseCheck, Leave
<1>4. /\ tp \in AllThreads /\ tp \notin free /\ p_refs[tp] = 0
      /\ \A v \in AllThreads : call[v] \in Owning /\ arg[v] = tp => v = c
  BY <1>1, <1>2 DEF ThreadsFit, AreasFit, CallFits, Owning
<1>5. "none" \in Calls /\ "unlink" \in Calls /\ NULL \in AllThreads \cup {NULL}
  BY DEF Calls
<1>6. raced' \in BOOLEAN /\ stale' \in BOOLEAN BY <1>1, HistoryKept
<1>7. /\ OthersKeep(c) /\ call'[c] \in {"none", "unlink"}
      /\ call'[c] = "unlink" => MayFree(tp) /\ arg'[c] = tp
      /\ call' \in [AllThreads -> Calls]
      /\ arg' \in [AllThreads -> AllThreads \cup {NULL}]
  BY <1>0, <1>1, <1>3, <1>4, <1>5, Entered
<1>8. CallFits(c)'
  <2>1. CASE call'[c] = "none" BY <1>1, <2>1, NoCallFits
  <2>2. CASE call'[c] = "unlink"
    <3>1. \A v \in AllThreads : call'[v] \in Owning /\ arg'[v] = tp => v = c
      BY <1>4, <1>7 DEF OthersKeep
    <3>2. MayFree(tp)' BY <1>1, <1>7, <2>2 DEF MayFree
    <3>3. p_refs'[tp] = 0 /\ tp \notin free' BY <1>1, <1>4 DEF refvars
    <3> QED BY <1>4, <1>7, <2>2, <3>1, <3>2, <3>3 DEF CallFits, Owning
  <2> QED BY <1>7, <2>1, <2>2
<1>9. call'[c] \in {"none", "release", "check", "unlink"} BY <1>7
<1> QED BY <1>0, <1>1, <1>4, <1>6, <1>7, <1>8, <1>9, ReferStep

\* The thread c that removes another, while nobody is at the registry with it.
LEMMA Remover ==
    ASSUME ThreadsFit, NEW c \in AllThreads, c = currp, call[c] \in Removing, ~AtOnce
    PROVE  /\ arg[c] \in Listed /\ arg[c] \in AllThreads /\ arg[c] # rlist
           /\ \A t \in AllThreads \ {c} :
                 got_older[t] = NULL /\ got_newer[t] = NULL /\ call[t] # "relink"
           /\ got_older[c] # NULL => got_older[c] = p_older[arg[c]]
           /\ got_newer[c] # NULL => got_newer[c] = p_newer[arg[c]]
<1>1. arg[c] \in Listed BY RemovedListed
<1>2. arg[c] \in AllThreads /\ arg[c] # rlist BY <1>1, ThreadsAssumption DEF Listed
<1> QED BY <1>1, <1>2 DEF AtOnce, Unlinking, ThreadsFit, LinksFit

\* A removal goes on.
LEMMA RemovalAreas ==
    ASSUME ThreadsFit, NEW c \in AllThreads, call[c] \in Removing, OthersKeep(c),
           arg'[c] = arg[c], call'[c] \in Removing \cup {"free"},
           UNCHANGED <<k, refvars, p_flags, free>>
    PROVE  AreasFit'
<1>1. /\ k' = k /\ p_refs' = p_refs /\ held' = held /\ p_flags' = p_flags
      /\ free' = free
  BY DEF refvars
<1>2. /\ arg[c] \in AllThreads \ free /\ p_refs[arg[c]] = 0 /\ MayFree(arg[c])
      /\ \A v \in AllThreads : call[v] \in Owning /\ arg[v] = arg[c] => v = c
  BY DEF ThreadsFit, AreasFit, CallFits, Owning, Removing
<1>3. CallFits(c)'
  <2>1. \A v \in AllThreads : call'[v] \in Owning /\ arg'[v] = arg[c] => v = c
    BY <1>2 DEF OthersKeep
  <2>2. MayFree(arg[c])'
    <3>1. MayFree(arg[c]) BY <1>2
    <3> QED BY <1>1, <3>1 DEF MayFree
  <2>3. call'[c] \notin {"join", "release", "create"} BY DEF Removing
  <2> QED BY <1>1, <1>2, <2>1, <2>2, <2>3 DEF CallFits
<1>4. \A u \in free' : k'.p_state[u] = "FINAL" /\ p_refs'[u] = 0
  BY <1>1 DEF ThreadsFit, AreasFit
<1>5. \A t \in AllThreads \ {c} : call[t] \in Owning =>
         p_refs[arg[t]] = 0 /\ arg[t] \notin free
  BY DEF ThreadsFit, AreasFit, CallFits
<1> QED BY <1>1, <1>3, <1>4, <1>5, AreasStep

\* A link is loaded.
LEMMA LoadFit ==
    ASSUME ThreadsFit, LoadOlder \/ LoadNewer, ~raced' PROVE ThreadsFit'
<1>0. PICK c : c = currp OBVIOUS
<1>1. /\ ThreadCode /\ c \in Threads /\ c \in AllThreads /\ c # Idle
      /\ call[c] \in Removing
      /\ UNCHANGED <<k, isr, refvars, p_flags, regvars, p_waiting, msgvars, free, callvars>>
      /\ raced' = (raced \/ AtOnce) /\ stale' = stale
  BY <1>0, Runner DEF LoadOlder, LoadNewer, Removing
<1>2. PICK tp : tp = arg[c] OBVIOUS
<1>3. /\ p_newer \in [Nodes -> Nodes] /\ p_older \in [Nodes -> Nodes]
      /\ call \in [AllThreads -> Calls] /\ arg \in [AllThreads -> AllThreads \cup {NULL}]
      /\ free \subseteq Statics \cup Dynamics /\ LinkTypes
      /\ raced \in BOOLEAN /\ stale \in BOOLEAN
  BY DEF LinkTypes, ThreadsFit, ThreadTypes, ThreadsTypeOK
<1>4. ~AtOnce BY <1>1
<1>5. /\ tp \in AllThreads
      /\ \A t \in AllThreads \ {c} :
            got_older[t] = NULL /\ got_newer[t] = NULL /\ call[t] # "relink"
      /\ got_older[c] # NULL => got_older[c] = p_older[tp]
      /\ got_newer[c] # NULL => got_newer[c] = p_newer[tp]
  BY <1>0, <1>1, <1>2, <1>4, Remover
<1>6. \/ got_older' = [got_older EXCEPT ![c] = p_older[tp]] /\ got_newer' = got_newer
      \/ got_newer' = [got_newer EXCEPT ![c] = p_newer[tp]] /\ got_older' = got_older
  BY <1>0, <1>2 DEF LoadOlder, LoadNewer
<1>7. p_older[tp] \in Nodes /\ p_newer[tp] \in Nodes BY <1>3, <1>5 DEF Nodes
<1>8. LinkTypes' BY <1>3, <1>6, <1>7 DEF LinkTypes
<1>9. /\ \A t \in AllThreads \ {c} : got_older'[t] = NULL /\ got_newer'[t] = NULL
      /\ got_older'[c] # NULL => got_older'[c] = p_older[tp]
      /\ got_newer'[c] # NULL => got_newer'[c] = p_newer[tp]
  BY <1>1, <1>3, <1>5, <1>6 DEF LinkTypes
<1>10. /\ p_newer' = p_newer /\ p_older' = p_older /\ call' = call /\ arg' = arg
       /\ k' = k /\ p_flags' = p_flags /\ free' = free
  BY <1>1 DEF regvars, callvars
<1>11. LinksFit' BY <1>1, <1>2, <1>5, <1>9, <1>10 DEF LinksFit, Unlinking
<1>12. RegistryFits'
  <2>1. Listed' = Listed BY <1>10 DEF Listed
  <2>2. HalfRemoved' <=> HalfRemoved BY <1>10 DEF HalfRemoved
  <2>3. RegistryFits BY DEF ThreadsFit
  <2> QED BY <1>10, <2>1, <2>2, <2>3 DEF RegistryFits
<1>13. AreasFit' BY <1>1, AreasKept
<1>14. OthersKeep(c) /\ call'[c] \notin {"join", "msgwait"} /\ call[c] \notin {"join", "msgwait"}
  BY <1>1, <1>10 DEF OthersKeep, Removing
<1>15. raced' \in BOOLEAN /\ stale' \in BOOLEAN BY <1>1, <1>3
<1> QED BY <1>1, <1>3, <1>8, <1>10, <1>11, <1>12, <1>13, <1>14, <1>15, AreaStep

\* The first store of the removal.
LEMMA UnlinkNewerFit == ASSUME ThreadsFit, UnlinkNewer, ~raced' PROVE ThreadsFit'
<1>0. PICK c : c = currp OBVIOUS
<1>1. /\ ThreadCode /\ c \in Threads /\ c \in AllThreads /\ c # Idle
      /\ call[c] = "unlink" /\ call[c] \in Removing
      /\ got_older[c] # NULL /\ got_newer[c] # NULL
      /\ UNCHANGED <<k, isr, refvars, p_flags, p_older, p_waiting, msgvars, free>>
      /\ raced' = (raced \/ AtOnce) /\ stale' = stale
  BY <1>0, Runner DEF UnlinkNewer, Loaded, Removing
<1>2. PICK tp : tp = arg[c] OBVIOUS
<1>3. /\ p_newer \in [Nodes -> Nodes] /\ p_older \in [Nodes -> Nodes]
      /\ free \subseteq Statics \cup Dynamics /\ LinkTypes
      /\ raced \in BOOLEAN /\ stale \in BOOLEAN
  BY DEF LinkTypes, ThreadsFit, ThreadTypes, ThreadsTypeOK
<1>4. ~AtOnce BY <1>1
<1>5. /\ tp \in Listed /\ tp \in AllThreads /\ tp # rlist
      /\ \A t \in AllThreads \ {c} :
            got_older[t] = NULL /\ got_newer[t] = NULL /\ call[t] # "relink"
      /\ got_older[c] = p_older[tp] /\ got_newer[c] = p_newer[tp]
  BY <1>0, <1>1, <1>2, <1>4, Remover
<1>6. /\ p_newer' = [p_newer EXCEPT ![p_older[tp]] = p_newer[tp]]
      /\ got_older' \in {got_older, [got_older EXCEPT ![c] = NULL]}
      /\ got_newer' \in {got_newer, [got_newer EXCEPT ![c] = NULL]}
      /\ Enter("relink", tp)
  BY <1>0, <1>2, <1>5 DEF UnlinkNewer
<1>7. "relink" \in Calls BY DEF Calls
<1>8. /\ OthersKeep(c) /\ call'[c] = "relink" /\ arg'[c] = tp
      /\ call' \in [AllThreads -> Calls]
      /\ arg' \in [AllThreads -> AllThreads \cup {NULL}]
  BY <1>0, <1>1, <1>5, <1>6, <1>7, Entered
<1>9. /\ k' = k /\ p_flags' = p_flags /\ free' = free /\ p_older' = p_older
  BY <1>1
<1>10. tp \in Nodes /\ p_older[tp] \in Nodes /\ p_newer[tp] \in Nodes /\ p_older[tp] # tp
  BY <1>3, <1>5, RegistryLinks DEF Nodes
<1>11. p_newer' \in [Nodes -> Nodes] /\ p_newer'[tp] = p_newer[tp]
  BY <1>3, <1>6, <1>10
<1>12. LinkTypes' BY <1>3, <1>6 DEF LinkTypes
<1>13. LinksFit'
  <2>1. \A t \in AllThreads \ {c} :
           got_older'[t] = NULL /\ got_newer'[t] = NULL /\ call'[t] # "relink"
    BY <1>1, <1>3, <1>5, <1>6, <1>8 DEF LinkTypes, OthersKeep
  <2>2. got_older'[c] \in {NULL, p_older[tp]} /\ got_newer'[c] \in {NULL, p_newer[tp]}
    BY <1>1, <1>3, <1>5, <1>6 DEF LinkTypes
  <2>3. /\ got_older'[c] # NULL => got_older'[c] = p_older'[arg'[c]]
        /\ got_newer'[c] # NULL => got_newer'[c] = p_newer'[arg'[c]]
    BY <1>8, <1>9, <1>11, <2>2
  <2>4. call'[c] \in Removing BY <1>8 DEF Removing
  <2> QED BY <2>1, <2>3, <2>4 DEF LinksFit, Unlinking
<1>14. AreasFit'
  <2>1. arg'[c] = arg[c] /\ call'[c] \in Removing \cup {"free"}
    BY <1>2, <1>8 DEF Removing
  <2> QED BY <1>1, <1>8, <2>1, RemovalAreas
<1>15. RegistryFits'
  <2>1. \A t \in AllThreads : call[t] # "relink" BY <1>1, <1>5
  <2>2. ~HalfRemoved BY <2>1 DEF HalfRemoved
  <2>3. PICK s \in Seq(AllThreads) :
          NoDuplicates(s) /\ Elems(s) = Listed /\ Ring(s, p_newer, p_older)
    BY <2>2 DEF ThreadsFit, RegistryFits
  <2>4. Listed' = Listed
    <3>1. \A t \in Threads :
             /\ call'[t] \in Outside <=> call[t] \in Outside
             /\ call[t] \in Outside => arg'[t] = arg[t]
      BY <1>1, <1>8 DEF OthersKeep, AllThreads, Outside
    <3> QED BY <1>9, <3>1, ListedSame
  <2>5. HalfRemoved' BY <1>1, <1>8 DEF HalfRemoved
  <2>6. \A t \in AllThreads : call'[t] = "relink" => t = c
    BY <1>8, <2>1 DEF OthersKeep
  <2>7. p_newer' = [p_newer EXCEPT ![p_older'[tp]] = p_newer[tp]] BY <1>6, <1>9
  <2>8. Ring(s, p_newer, p_older') BY <1>9, <2>3
  <2>9. \A t \in AllThreads : call'[t] = "relink" =>
           p_newer' = [p_newer EXCEPT ![p_older'[arg'[t]]] = p_newer[arg'[t]]]
    BY <1>8, <2>6, <2>7
  <2> QED BY <1>3, <2>3, <2>4, <2>5, <2>8, <2>9 DEF RegistryFits
<1>16. /\ free' \subseteq Statics \cup Dynamics /\ p_older' \in [Nodes -> Nodes]
       /\ raced' \in BOOLEAN /\ stale' \in BOOLEAN
  BY <1>1, <1>3, <1>9
<1>17. UNCHANGED <<k, isr, refvars, p_flags, p_waiting, msgvars>> BY <1>1
<1>18. call[c] \notin {"join", "msgwait"} /\ call'[c] \notin {"join", "msgwait"}
  BY <1>1, <1>8
<1> QED BY <1>1, <1>8, <1>11, <1>12, <1>13, <1>14, <1>15, <1>16, <1>17, <1>18, AreaStep

\* The second store closes the ring.
LEMMA UnlinkOlderFit == ASSUME ThreadsFit, UnlinkOlder, ~raced' PROVE ThreadsFit'
<1>0. PICK c : c = currp OBVIOUS
<1>1. /\ ThreadCode /\ c \in Threads /\ c \in AllThreads /\ c # Idle
      /\ call[c] = "relink" /\ call[c] \in Removing
      /\ got_older[c] # NULL /\ got_newer[c] # NULL
      /\ UNCHANGED <<k, isr, refvars, p_flags, p_newer, p_waiting, msgvars, free>>
      /\ raced' = (raced \/ AtOnce) /\ stale' = stale
  BY <1>0, Runner DEF UnlinkOlder, Loaded, Removing
<1>2. PICK x : x = arg[c] OBVIOUS
<1>3. /\ p_newer \in [Nodes -> Nodes] /\ p_older \in [Nodes -> Nodes]
      /\ free \subseteq Statics \cup Dynamics /\ LinkTypes
      /\ raced \in BOOLEAN /\ stale \in BOOLEAN
  BY DEF LinkTypes, ThreadsFit, ThreadTypes, ThreadsTypeOK
<1>4. ~AtOnce BY <1>1
<1>5. /\ x \in Listed /\ x \in AllThreads /\ x # rlist
      /\ \A t \in AllThreads \ {c} :
            got_older[t] = NULL /\ got_newer[t] = NULL /\ call[t] # "relink"
      /\ got_older[c] = p_older[x] /\ got_newer[c] = p_newer[x]
  BY <1>0, <1>1, <1>2, <1>4, Remover
<1>6. /\ p_older' = [p_older EXCEPT ![p_newer[x]] = p_older[x]]
      /\ got_older' = [got_older EXCEPT ![c] = NULL]
      /\ got_newer' = [got_newer EXCEPT ![c] = NULL]
      /\ Enter("free", x)
  BY <1>0, <1>2, <1>5 DEF UnlinkOlder
<1>7. "free" \in Calls BY DEF Calls
<1>8. /\ OthersKeep(c) /\ call'[c] = "free" /\ arg'[c] = x
      /\ call' \in [AllThreads -> Calls]
      /\ arg' \in [AllThreads -> AllThreads \cup {NULL}]
  BY <1>0, <1>1, <1>5, <1>6, <1>7, Entered
<1>9. /\ k' = k /\ p_flags' = p_flags /\ free' = free /\ p_newer' = p_newer
  BY <1>1
<1>10. AreasFit'
  <2>1. arg'[c] = arg[c] /\ call'[c] \in Removing \cup {"free"} BY <1>2, <1>8
  <2> QED BY <1>1, <1>8, <2>1, RemovalAreas
<1>11. \A t \in AllThreads : call'[t] # "relink" BY <1>5, <1>8 DEF OthersKeep
<1>12. LinkTypes' BY <1>3, <1>6 DEF LinkTypes
<1>13. LinksFit'
  <2>1. \A t \in AllThreads : got_older'[t] = NULL /\ got_newer'[t] = NULL
    BY <1>1, <1>3, <1>5, <1>6 DEF LinkTypes
  <2> QED BY <1>11, <2>1 DEF LinksFit, Unlinking
<1>14. Listed' = Listed \ {x}
  <2>1. x \notin Listed' BY <1>1, <1>8 DEF Listed, Outside
  <2>2. \A u \in AllThreads \ {x} :
           (\E t \in Threads : call'[t] \in Outside /\ arg'[t] = u)
             <=> (\E t \in Threads : call[t] \in Outside /\ arg[t] = u)
    BY <1>1, <1>8 DEF OthersKeep, AllThreads, Outside
  <2>3. \A u \in AllThreads \ {x} : u \in Listed' <=> u \in Listed
    BY <1>9, <2>2 DEF Listed
  <2>4. Listed \subseteq AllThreads /\ Listed' \subseteq AllThreads BY DEF Listed
  <2> QED BY <2>1, <2>3, <2>4
<1>15. PICK s \in Seq(AllThreads), w \in [Nodes -> Nodes] :
         /\ NoDuplicates(s) /\ Elems(s) = Listed
         /\ Ring(s, w, p_older)
         /\ p_newer = [w EXCEPT ![p_older[x]] = w[x]]
  BY <1>1, <1>2 DEF ThreadsFit, RegistryFits
<1>16. p_older[x] # x BY <1>5, <1>15, RingLinks
<1>17. p_newer[x] = w[x]
  <2>1. x \in Nodes BY <1>5 DEF Nodes
  <2> QED BY <1>15, <1>16, <2>1
<1>18. p_newer' = NewerDel(w, p_older, x) /\ p_older' = OlderDel(w, p_older, x)
  BY <1>6, <1>9, <1>15, <1>17 DEF NewerDel, OlderDel
<1> DEFINE r == dequeue(s, x)
<1>19. /\ Ring(r, p_newer', p_older')
       /\ p_newer' \in [Nodes -> Nodes] /\ p_older' \in [Nodes -> Nodes]
  BY <1>3, <1>5, <1>15, <1>18, RingRemove
<1>20. r \in Seq(AllThreads) /\ Elems(r) = Listed' /\ NoDuplicates(r)
  BY <1>5, <1>14, <1>15, Dequeue
<1> HIDE DEF r
<1>21. RegistryFits' BY <1>11, <1>19, <1>20 DEF RegistryFits
<1>22. /\ free' \subseteq Statics \cup Dynamics
       /\ raced' \in BOOLEAN /\ stale' \in BOOLEAN
  BY <1>1, <1>3, <1>9
<1>23. UNCHANGED <<k, isr, refvars, p_flags, p_waiting, msgvars>> BY <1>1
<1>24. call[c] \notin {"join", "msgwait"} /\ call'[c] \notin {"join", "msgwait"}
  BY <1>1, <1>8
<1> QED BY <1>1, <1>8, <1>10, <1>12, <1>13, <1>19, <1>21, <1>22, <1>23, <1>24, AreaStep

\* The area is given back.
LEMMA ReleaseFreeFit == ASSUME ThreadsFit, ReleaseFree PROVE ThreadsFit'
<1>0. PICK c : c = currp OBVIOUS
<1>1. /\ ThreadCode /\ c \in Threads /\ c \in AllThreads /\ c # Idle
      /\ call[c] = "free"
      /\ UNCHANGED <<k, isr, refvars, p_flags, regvars, p_waiting, msgvars>>
      /\ UNCHANGED history /\ UNCHANGED copies
  BY <1>0, Runner DEF ReleaseFree
<1>2. PICK x : x = arg[c] OBVIOUS
<1>3. free' = free \cup {x} /\ Enter("none", NULL)
  BY <1>0, <1>2 DEF ReleaseFree, Leave
<1>4. /\ k' = k /\ p_refs' = p_refs /\ held' = held /\ p_flags' = p_flags
      /\ p_newer' = p_newer /\ p_older' = p_older
  BY <1>1 DEF refvars, regvars
<1>5. /\ x \in AllThreads /\ x \notin free /\ p_refs[x] = 0
      /\ \A v \in AllThreads : call[v] \in Owning /\ arg[v] = x => v = c
      /\ k.p_state[x] = "FINAL" /\ p_flags[x] # "STATIC"
  BY <1>1, <1>2 DEF ThreadsFit, AreasFit, CallFits, Owning, MayFree
<1>6. x \in Statics \cup Dynamics
  BY <1>5 DEF ThreadsFit, ThreadTypes
<1>7. "none" \in Calls /\ NULL \in AllThreads \cup {NULL} BY DEF Calls
<1>8. /\ OthersKeep(c) /\ call'[c] = "none"
      /\ call' \in [AllThreads -> Calls]
      /\ arg' \in [AllThreads -> AllThreads \cup {NULL}]
  BY <1>0, <1>1, <1>3, <1>7, Entered
<1>9. AreasFit'
  <2>1. CallFits(c)' BY <1>1, <1>8, NoCallFits
  <2>2. \A u \in free' : k'.p_state[u] = "FINAL" /\ p_refs'[u] = 0
    BY <1>3, <1>4, <1>5 DEF ThreadsFit, AreasFit
  <2>3. ASSUME NEW t \in AllThreads \ {c}, call[t] \in Owning
        PROVE  p_refs[arg[t]] = 0 /\ arg[t] \notin free'
    <3>1. arg[t] # x BY <1>5, <2>3
    <3>2. arg[t] \in AllThreads \ free /\ p_refs[arg[t]] = 0
      BY <2>3 DEF ThreadsFit, AreasFit, CallFits
    <3> QED BY <1>3, <3>1, <3>2
  <2> QED BY <1>1, <1>4, <1>8, <2>1, <2>2, <2>3, AreasStep
<1>10. Listed' = Listed
  <2>1. x \notin Listed' /\ x \notin Listed BY <1>1, <1>2, <1>3 DEF Listed, Outside
  <2>2. \A u \in AllThreads \ {x} :
           (\E t \in Threads : call'[t] \in Outside /\ arg'[t] = u)
             <=> (\E t \in Threads : call[t] \in Outside /\ arg[t] = u)
    BY <1>1, <1>2, <1>8 DEF OthersKeep, AllThreads, Outside
  <2>3. \A u \in AllThreads \ {x} : u \in Listed' <=> u \in Listed
    BY <1>3, <1>4, <2>2 DEF Listed
  <2>4. Listed \subseteq AllThreads /\ Listed' \subseteq AllThreads BY DEF Listed
  <2> QED BY <2>1, <2>3, <2>4
<1>11. RegistryFits' /\ LinksFit'
  <2>1. \A t \in AllThreads :
           /\ call'[t] = "relink" <=> call[t] = "relink"
           /\ call[t] \in Removing => call'[t] \in Removing /\ arg'[t] = arg[t]
    BY <1>1, <1>8 DEF OthersKeep, Removing
  <2> QED BY <1>1, <1>10, <2>1, RegistrySame
<1>12. /\ free' \subseteq Statics \cup Dynamics
       /\ p_newer' \in [Nodes -> Nodes] /\ p_older' \in [Nodes -> Nodes]
  BY <1>3, <1>4, <1>6 DEF ThreadsFit, ThreadTypes, ThreadsTypeOK
<1>13. LinkTypes' /\ raced' \in BOOLEAN /\ stale' \in BOOLEAN
  BY <1>1, LinksKept, HistoryKept
<1>14. UNCHANGED <<k, isr, refvars, p_flags, p_waiting, msgvars>> BY <1>1
<1> QED BY <1>1, <1>8, <1>9, <1>11, <1>12, <1>13, <1>14, AreaStep

----------------------------------------------------------------------------
(* Exit and join *)

\* A thread put in front of a list.
LEMMA ConsNew ==
    ASSUME NEW S, NEW q \in Seq(S), NEW t \in S
    PROVE  /\ <<t>> \o q \in Seq(S)
           /\ Elems(<<t>> \o q) = Elems(q) \cup {t}
           /\ NoDuplicates(q) /\ t \notin Elems(q) => NoDuplicates(<<t>> \o q)
<1> DEFINE r == <<t>> \o q
<1>1. /\ r \in Seq(S) /\ Len(r) = Len(q) + 1 /\ Len(q) \in Nat
      /\ \A i \in 1..Len(q) + 1 : r[i] = IF i = 1 THEN t ELSE q[i - 1]
  BY ConcatProperties
<1> HIDE DEF r
<1>2. Elems(r) = Elems(q) \cup {t}
  <2>1. ASSUME NEW i \in 1..Len(r) PROVE r[i] \in Elems(q) \cup {t}
    <3>1. CASE i = 1 BY <1>1, <3>1
    <3>2. CASE i # 1
      <4>1. i - 1 \in 1..Len(q) /\ r[i] = q[i - 1] BY <1>1, <3>2
      <4> QED BY <4>1 DEF Elems
    <3> QED BY <3>1, <3>2
  <2>2. ASSUME NEW i \in 1..Len(q) PROVE q[i] \in Elems(r)
    <3>1. i + 1 \in 1..Len(r) /\ r[i + 1] = q[i] BY <1>1
    <3> QED BY <3>1 DEF Elems
  <2>3. t \in Elems(r)
    <3>1. 1 \in 1..Len(r) /\ r[1] = t BY <1>1
    <3> QED BY <3>1 DEF Elems
  <2> QED BY <2>1, <2>2, <2>3 DEF Elems
<1>3. ASSUME NoDuplicates(q), t \notin Elems(q) PROVE NoDuplicates(r)
  <2> SUFFICES ASSUME NEW i \in 1..Len(r), NEW j \in 1..Len(r), r[i] = r[j]
               PROVE  i = j
    BY DEF NoDuplicates
  <2>1. \A m \in 1..Len(q) : q[m] # t BY <1>3 DEF Elems
  <2>2. \A m \in 1..Len(r) : m # 1 => m - 1 \in 1..Len(q) /\ r[m] = q[m - 1] BY <1>1
  <2>3. r[1] = t BY <1>1
  <2>4. CASE i = 1 \/ j = 1
    <3>1. ASSUME NEW m \in 1..Len(r), m # 1 PROVE r[m] # t BY <2>1, <2>2, <3>1
    <3> QED BY <2>3, <2>4, <3>1
  <2>5. CASE i # 1 /\ j # 1
    <3>1. i - 1 = j - 1 BY <1>3, <2>2, <2>5 DEF NoDuplicates
    <3> QED BY <3>1
  <2> QED BY <2>4, <2>5
<1> QED BY <1>1, <1>2, <1>3 DEF r

\* The joiners get ready, the thread ends.
LEMMA EndedOK ==
    ASSUME ThreadsFit, ThreadCode, NEW c, c = currp,
           k' = chSchGoSleepS(ReadyAll(k, p_waiting[c]), "FINAL")
    PROVE  /\ SchedInv(k') /\ k'.p_state[c] = "FINAL"
           /\ \A u \in Elems(p_waiting[c]) : k'.p_state[u] \in Runnable
           /\ SameWaits(k, k', Elems(p_waiting[c]) \cup {c})
<1> DEFINE W == p_waiting[c]
           s == ReadyAll(k, W)
<1>1. c \in Threads /\ c \in AllThreads /\ c # Idle /\ k.p_state[c] = "CURRENT"
  BY Runner
<1>2. W \in Seq(Threads) /\ NoDuplicates(W)
      /\ \A u \in Elems(W) : k.p_state[u] = "WTEXIT"
  BY <1>1 DEF ThreadsFit, ThreadTypes, ThreadsTypeOK, JoinsFit
<1>3. W \in Seq(AllThreads) /\ Elems(W) \subseteq AllThreads /\ c \notin Elems(W)
  BY <1>1, <1>2 DEF AllThreads, Elems
<1> HIDE DEF W
<1>4. /\ SchedInv(s) /\ Keeps(k, s, Elems(W)) /\ s.r_current = c
      /\ \A u \in Elems(W) : s.p_state[u] = "READY"
  <2>1. \A u \in Elems(W) : k.p_state[u] \notin Runnable BY <1>2 DEF Runnable
  <2>2. SchedInv(k) /\ k.r_current = c BY Typed DEF currp
  <2> QED BY <1>2, <1>3, <2>1, <2>2, ReadyAllOK
<1>5. k' = chSchGoSleepS(s, "FINAL") BY DEF W
<1> HIDE DEF s
<1>6. SchedInv(k') /\ Keeps(s, k', {c}) /\ k'.p_state[c] = "FINAL"
  <2>1. "FINAL" \in ThreadStates \ Runnable BY DEF ThreadStates, Runnable
  <2> QED BY <1>1, <1>4, <1>5, <2>1, GoSleepS
<1>7. SameWaits(k, k', Elems(W) \cup {c}) BY <1>4, <1>6, KeepsWaits, WaitsChain
<1>8. \A u \in Elems(W) : k'.p_state[u] \in Runnable
  BY <1>3, <1>4, <1>6 DEF Keeps, Runnable
<1> QED BY <1>6, <1>7, <1>8 DEF W

LEMMA ExitFit == ASSUME ThreadsFit, chThdExit, ~raced' PROVE ThreadsFit'
<1>0. PICK c : c = currp OBVIOUS
<1>1. /\ ThreadCode /\ c \in Threads /\ c \in AllThreads /\ c # Idle /\ c # Main
      /\ c \notin free /\ k.p_state[c] = "CURRENT" /\ call[c] = "none"
      /\ k' = chSchGoSleepS(ReadyAll(k, p_waiting[c]), "FINAL")
      /\ p_waiting' = [p_waiting EXCEPT ![c] = <<>>]
      /\ UNCHANGED <<isr, refvars, p_flags, msgvars, free, callvars, stale, copies>>
  BY <1>0, Runner DEF chThdExit, Between, Joiners
<1>2. \/ p_flags[c] = "STATIC" /\ REG_REMOVE(c) /\ raced' = (raced \/ AtOnce)
      \/ p_flags[c] # "STATIC" /\ UNCHANGED <<regvars, raced>>
  BY <1>0 DEF chThdExit
<1>3. /\ isr' = isr /\ p_refs' = p_refs /\ held' = held /\ p_flags' = p_flags
      /\ p_msgqueue' = p_msgqueue /\ serving' = serving /\ free' = free
      /\ call' = call /\ arg' = arg
  BY <1>1 DEF refvars, msgvars, callvars
<1>4. /\ SchedInv(k') /\ k'.p_state[c] = "FINAL"
      /\ \A u \in Elems(p_waiting[c]) : k'.p_state[u] \in Runnable
      /\ SameWaits(k, k', Elems(p_waiting[c]) \cup {c})
  BY <1>0, <1>1, EndedOK
<1>5. /\ \A u \in AllThreads : NoDuplicates(p_waiting[u])
      /\ \A u \in AllThreads : k.p_state[u] = "FINAL" => p_waiting[u] = <<>>
      /\ \A t \in AllThreads, u \in AllThreads :
            t \in Elems(p_waiting[u]) <=> k.p_state[t] = "WTEXIT" /\ arg[t] = u
      /\ p_waiting \in [AllThreads -> Seq(Threads)]
  BY DEF ThreadsFit, ThreadTypes, ThreadsTypeOK, JoinsFit
<1>6. \A u \in AllThreads :
         /\ k'.p_state[u] = "FINAL" <=> k.p_state[u] = "FINAL" \/ u = c
         /\ k'.p_state[u] = "WTEXIT" <=> k.p_state[u] = "WTEXIT" /\ arg[u] # c
         /\ k'.p_state[u] = "SNDMSGQ" <=> k.p_state[u] = "SNDMSGQ"
         /\ k'.p_state[u] = "SNDMSG" <=> k.p_state[u] = "SNDMSG"
         /\ k'.p_state[u] = "WTMSG" <=> k.p_state[u] = "WTMSG"
  <2> TAKE u \in AllThreads
  <2>1. CASE u = c BY <1>1, <1>4, <2>1
  <2>2. CASE u # c /\ u \in Elems(p_waiting[c])
    <3>1. k.p_state[u] = "WTEXIT" /\ arg[u] = c BY <1>1, <1>5, <2>2
    <3> QED BY <1>4, <2>2, <3>1 DEF Runnable
  <2>3. CASE u # c /\ u \notin Elems(p_waiting[c])
    <3>1. ~ (k.p_state[u] = "WTEXIT" /\ arg[u] = c) BY <1>1, <1>5, <2>3
    <3>2. u \in AllThreads \ (Elems(p_waiting[c]) \cup {c}) BY <2>3
    <3> QED BY <1>4, <2>3, <3>1, <3>2 DEF SameWaits, Runnable
  <2> QED BY <2>1, <2>2, <2>3
<1>7. /\ p_waiting' \in [AllThreads -> Seq(Threads)] /\ p_waiting'[c] = <<>>
      /\ \A u \in AllThreads \ {c} : p_waiting'[u] = p_waiting[u]
  BY <1>1, <1>5
<1>8. raced' \in BOOLEAN /\ stale' \in BOOLEAN
  BY <1>1, <1>2 DEF ThreadsFit, ThreadTypes, ThreadsTypeOK
<1>9. Counted' BY <1>1, CountSame
<1>10. AreasFit' BY <1>1, <1>6, AreasKept
<1>11. JoinsFit'
  <2>1. ASSUME NEW u \in AllThreads
        PROVE  /\ NoDuplicates(p_waiting'[u])
               /\ Elems(p_waiting'[u]) =
                    {t \in AllThreads : k'.p_state[t] = "WTEXIT" /\ arg'[t] = u}
               /\ k'.p_state[u] = "FINAL" => p_waiting'[u] = <<>>
    <3>1. CASE u = c
      <4>1. NoDuplicates(<<>>) /\ Elems(<<>>) = {} BY DEF NoDuplicates, Elems
      <4> QED BY <1>3, <1>6, <1>7, <3>1, <4>1
    <3>2. CASE u # c
      <4>1. p_waiting'[u] = p_waiting[u] BY <1>7, <3>2
      <4>2. Elems(p_waiting[u]) \subseteq AllThreads
        <5>1. p_waiting[u] \in Seq(Threads) BY <1>5
        <5> QED BY <5>1 DEF Elems, AllThreads
      <4>3. \A t \in AllThreads :
               t \in Elems(p_waiting[u]) <=> k'.p_state[t] = "WTEXIT" /\ arg'[t] = u
        BY <1>3, <1>5, <1>6, <3>2
      <4>4. Elems(p_waiting[u]) =
              {t \in AllThreads : k'.p_state[t] = "WTEXIT" /\ arg'[t] = u}
        BY <4>2, <4>3
      <4> QED BY <1>5, <1>6, <3>2, <4>1, <4>4
    <3> QED BY <3>1, <3>2
  <2>2. ASSUME NEW t \in AllThreads
        PROVE  IF k'.p_state[t] = "WTEXIT" THEN call'[t] = "join"
               ELSE call'[t] = "join" => k'.p_state[arg'[t]] = "FINAL"
    <3>1. IF k.p_state[t] = "WTEXIT" THEN call[t] = "join"
          ELSE call[t] = "join" => k.p_state[arg[t]] = "FINAL"
      BY DEF ThreadsFit, JoinsFit
    <3>2. call[t] = "join" => arg[t] \in AllThreads
      BY DEF ThreadsFit, AreasFit, CallFits
    <3> QED BY <1>3, <1>4, <1>6, <3>1, <3>2
  <2> QED BY <2>1, <2>2 DEF JoinsFit
<1>12. MessagesFit' BY <1>1, <1>3, <1>6, MessagesSame
<1>13. c \in Listed
  <2>1. \A t \in Threads : ~ (call[t] \in Outside /\ arg[t] = c)
    BY <1>1 DEF ThreadsFit, AreasFit, CallFits, MayFree, Outside, AllThreads
  <2> QED BY <1>1, <2>1 DEF Listed
<1>14. p_newer \in [Nodes -> Nodes] /\ p_older \in [Nodes -> Nodes]
  BY DEF ThreadsFit, ThreadTypes, ThreadsTypeOK
<1>15. /\ RegistryFits' /\ LinksFit'
       /\ p_newer' \in [Nodes -> Nodes] /\ p_older' \in [Nodes -> Nodes]
  <2>1. CASE p_flags[c] = "STATIC" /\ REG_REMOVE(c) /\ raced' = (raced \/ AtOnce)
    <3>1. /\ ~HalfRemoved
          /\ \A t \in AllThreads : ~Unlinking(t) /\ call[t] # "relink"
      <4>1. ~AtOnce /\ call[c] \notin Removing BY <1>1, <2>1 DEF Removing
      <4> QED BY <1>0, <1>1, <4>1, NoRemoval
    <3>2. PICK s \in Seq(AllThreads) :
            NoDuplicates(s) /\ Elems(s) = Listed /\ Ring(s, p_newer, p_older)
      BY <3>1 DEF ThreadsFit, RegistryFits
    <3>3. Listed' = Listed \ {c}
      <4>1. c \notin Listed' BY <1>3, <1>4, <2>1 DEF Listed
      <4>2. \A u \in AllThreads \ {c} : u \in Listed' <=> u \in Listed
        BY <1>3, <1>6 DEF Listed
      <4>3. Listed \subseteq AllThreads /\ Listed' \subseteq AllThreads BY DEF Listed
      <4> QED BY <4>1, <4>2, <4>3
    <3>4. p_newer' = NewerDel(p_newer, p_older, c) /\ p_older' = OlderDel(p_newer, p_older, c)
      BY <2>1 DEF REG_REMOVE, NewerDel, OlderDel
    <3> DEFINE r == dequeue(s, c)
    <3>5. /\ Ring(r, p_newer', p_older')
          /\ p_newer' \in [Nodes -> Nodes] /\ p_older' \in [Nodes -> Nodes]
      BY <1>13, <1>14, <3>2, <3>4, RingRemove
    <3>6. r \in Seq(AllThreads) /\ Elems(r) = Listed' /\ NoDuplicates(r)
      BY <1>13, <3>2, <3>3, Dequeue
    <3> HIDE DEF r
    <3>7. \A t \in AllThreads : call'[t] # "relink" BY <1>3, <3>1
    <3>8. RegistryFits' BY <3>5, <3>6, <3>7 DEF RegistryFits
    <3>9. LinksFit' BY <1>1, <3>1, <3>7, LinksNone
    <3> QED BY <3>5, <3>8, <3>9
  <2>2. CASE p_flags[c] # "STATIC" /\ UNCHANGED <<regvars, raced>>
    <3>1. Listed' = Listed
      <4>1. \A u \in AllThreads : u \in Listed' <=> u \in Listed
        BY <1>3, <1>6, <2>2 DEF Listed
      <4>2. Listed \subseteq AllThreads /\ Listed' \subseteq AllThreads BY DEF Listed
      <4> QED BY <4>1, <4>2
    <3>2. RegistryFits' /\ LinksFit' BY <1>1, <1>3, <2>2, <3>1, RegistrySame
    <3> QED BY <1>14, <2>2, <3>2 DEF regvars
  <2> QED BY <1>2, <2>1, <2>2
<1>16. ThreadTypes'
  <2>1. k' \in SchedStates BY <1>4 DEF SchedInv
  <2>2. Main \in AllThreads BY Typed
  <2>3. k'.p_state[Main] # "FINAL" BY <1>1, <1>6, <2>2 DEF ThreadsFit, ThreadTypes
  <2>4. LinkTypes' BY <1>1, LinksKept
  <2> QED BY <1>3, <1>4, <1>7, <1>8, <1>15, <2>1, <2>3, <2>4
          DEF LinkTypes, ThreadsFit, ThreadTypes, ThreadsTypeOK
<1> QED BY <1>9, <1>10, <1>11, <1>12, <1>15, <1>16 DEF ThreadsFit

\* Threads change their states, one its call: no area, reference or link changes.
LEMMA SwitchStep ==
    ASSUME ThreadsFit, NEW c \in AllThreads, c # Idle, OthersKeep(c), CallFits(c)',
           call[c] \notin {"create", "unlink", "relink", "free"},
           call'[c] \notin {"create", "unlink", "relink", "free"},
           SchedInv(k'),
           \A u \in AllThreads : k'.p_state[u] = "FINAL" <=> k.p_state[u] = "FINAL",
           UNCHANGED <<isr, refvars, p_flags, regvars, free, history, copies>>,
           call' \in [AllThreads -> Calls], arg' \in [AllThreads -> AllThreads \cup {NULL}],
           p_waiting' \in [AllThreads -> Seq(Threads)],
           p_msgqueue' \in [AllThreads -> Seq(Threads)],
           serving' \in [AllThreads -> SUBSET Threads],
           JoinsFit', MessagesFit'
    PROVE  ThreadsFit'
<1>0. /\ isr' = isr /\ p_refs' = p_refs /\ held' = held /\ p_flags' = p_flags
      /\ p_newer' = p_newer /\ p_older' = p_older /\ free' = free
      /\ raced' \in BOOLEAN /\ stale' \in BOOLEAN /\ LinkTypes'
  BY LinksKept, HistoryKept DEF refvars, regvars
<1>1. ThreadTypes'
  <2>1. k' \in SchedStates BY DEF SchedInv
  <2>2. Main \in AllThreads BY Typed
  <2>3. k'.p_state[Main] # "FINAL" BY <2>2 DEF ThreadsFit, ThreadTypes
  <2>4. call'[Idle] = "none"
    BY DEF OthersKeep, ThreadsFit, ThreadTypes, AllThreads
  <2> QED BY <1>0, <2>1, <2>3, <2>4 DEF LinkTypes, ThreadsFit, ThreadTypes, ThreadsTypeOK
<1>2. Counted' BY CountSame
<1>3. AreasFit'
  <2>1. \A u \in free' : k'.p_state[u] = "FINAL" /\ p_refs'[u] = 0
    <3>1. free \subseteq AllThreads BY Typed
    <3> QED BY <1>0, <3>1 DEF ThreadsFit, AreasFit
  <2>2. \A t \in AllThreads \ {c} : call[t] \in Owning =>
           /\ p_refs[arg[t]] = 0 /\ arg[t] \notin free
           /\ k.p_state[arg[t]] = "FINAL" => k'.p_state[arg[t]] = "FINAL"
    BY DEF ThreadsFit, AreasFit, CallFits
  <2> QED BY <1>0, <2>1, <2>2, AreasStep
<1>4. \A t \in AllThreads :
         /\ call'[t] = "relink" <=> call[t] = "relink"
         /\ call[t] \in Removing => call'[t] \in Removing /\ arg'[t] = arg[t]
         /\ call'[t] \in Outside <=> call[t] \in Outside
         /\ call[t] \in Outside => arg'[t] = arg[t]
  BY DEF OthersKeep, Outside, Removing
<1>5. Listed' = Listed BY <1>0, <1>4, ListedSame DEF AllThreads
<1>6. RegistryFits' /\ LinksFit' BY <1>4, <1>5, RegistrySame
<1> QED BY <1>1, <1>2, <1>3, <1>6 DEF ThreadsFit

LEMMA WaitFit ==
    ASSUME ThreadsFit, NEW tp \in AllThreads, chThdWait(tp) PROVE ThreadsFit'
<1>0. PICK c : c = currp OBVIOUS
<1>1. /\ ThreadCode /\ c \in Threads /\ c \in AllThreads /\ c # Idle /\ tp # c
      /\ k.p_state[c] = "CURRENT" /\ call[c] = "none" /\ Holds(c, tp)
      /\ UNCHANGED <<isr, refvars, p_flags, regvars, msgvars, free, history, copies>>
  BY <1>0, Runner DEF chThdWait, Between
<1>2. \/ /\ k.p_state[tp] = "FINAL" /\ Enter("release", tp) /\ UNCHANGED <<k, p_waiting>>
      \/ /\ k.p_state[tp] # "FINAL"
         /\ p_waiting' = [p_waiting EXCEPT ![tp] = <<c>> \o p_waiting[tp]]
         /\ k' = chSchGoSleepS(k, "WTEXIT") /\ Enter("join", tp)
  BY <1>0 DEF chThdWait
<1>3. p_refs' = p_refs /\ held' = held BY <1>1 DEF refvars
<1>4. held'[c][tp] > 0 BY <1>1, <1>3 DEF Holds
<1>5. "release" \in Calls /\ "join" \in Calls BY DEF Calls
<1>6. CASE /\ k.p_state[tp] = "FINAL" /\ Enter("release", tp) /\ UNCHANGED <<k, p_waiting>>
  <2>1. /\ OthersKeep(c) /\ call'[c] = "release" /\ arg'[c] = tp
        /\ call' \in [AllThreads -> Calls]
        /\ arg' \in [AllThreads -> AllThreads \cup {NULL}]
    BY <1>0, <1>1, <1>5, <1>6, Entered
  <2>2. CallFits(c)' BY <1>1, <1>4, <2>1, ReleaseFits
  <2>3. raced' \in BOOLEAN /\ stale' \in BOOLEAN BY <1>1, HistoryKept
  <2>4. call'[c] \in {"none", "release", "check", "unlink"} BY <2>1
  <2> QED BY <1>0, <1>1, <1>6, <2>1, <2>2, <2>3, <2>4, ReferStep
<1>7. CASE /\ k.p_state[tp] # "FINAL"
           /\ p_waiting' = [p_waiting EXCEPT ![tp] = <<c>> \o p_waiting[tp]]
           /\ k' = chSchGoSleepS(k, "WTEXIT") /\ Enter("join", tp)
  <2>1. /\ OthersKeep(c) /\ call'[c] = "join" /\ arg'[c] = tp
        /\ call' \in [AllThreads -> Calls]
        /\ arg' \in [AllThreads -> AllThreads \cup {NULL}]
    BY <1>0, <1>1, <1>5, <1>7, Entered
  <2>2. CallFits(c)' BY <1>1, <1>4, <2>1, ReleaseFits
  <2>3. SchedInv(k') /\ Keeps(k, k', {c}) /\ k'.p_state[c] = "WTEXIT"
    <3>1. "WTEXIT" \in ThreadStates \ Runnable BY DEF ThreadStates, Runnable
    <3>2. SchedInv(k) /\ k.r_current = c BY <1>0, Typed DEF currp
    <3> QED BY <1>1, <1>7, <3>1, <3>2, GoSleepS
  <2>4. \A u \in AllThreads :
           /\ k'.p_state[u] = "FINAL" <=> k.p_state[u] = "FINAL"
           /\ k'.p_state[u] = "WTEXIT" <=> k.p_state[u] = "WTEXIT" \/ u = c
           /\ k'.p_state[u] = "SNDMSGQ" <=> k.p_state[u] = "SNDMSGQ"
           /\ k'.p_state[u] = "SNDMSG" <=> k.p_state[u] = "SNDMSG"
           /\ k'.p_state[u] = "WTMSG" <=> k.p_state[u] = "WTMSG"
    BY <1>1, <2>3 DEF Keeps, Runnable
  <2>5. /\ \A u \in AllThreads : NoDuplicates(p_waiting[u])
        /\ \A u \in AllThreads : k.p_state[u] = "FINAL" => p_waiting[u] = <<>>
        /\ \A u \in AllThreads : Elems(p_waiting[u]) =
              {t \in AllThreads : k.p_state[t] = "WTEXIT" /\ arg[t] = u}
        /\ p_waiting \in [AllThreads -> Seq(Threads)]
    BY DEF ThreadsFit, ThreadTypes, ThreadsTypeOK, JoinsFit
  <2>6. c \notin Elems(p_waiting[tp]) BY <1>1, <2>5
  <2> DEFINE q == <<c>> \o p_waiting[tp]
  <2>7. /\ q \in Seq(Threads) /\ Elems(q) = Elems(p_waiting[tp]) \cup {c}
        /\ NoDuplicates(q)
    BY <1>1, <2>5, <2>6, ConsNew
  <2>8. p_waiting' = [p_waiting EXCEPT ![tp] = q] BY <1>7
  <2> HIDE DEF q
  <2>9. /\ p_waiting' \in [AllThreads -> Seq(Threads)] /\ p_waiting'[tp] = q
        /\ \A u \in AllThreads \ {tp} : p_waiting'[u] = p_waiting[u]
    BY <2>5, <2>7, <2>8
  <2>10. JoinsFit'
    <3>1. ASSUME NEW u \in AllThreads
          PROVE  /\ NoDuplicates(p_waiting'[u])
                 /\ Elems(p_waiting'[u]) =
                      {t \in AllThreads : k'.p_state[t] = "WTEXIT" /\ arg'[t] = u}
                 /\ k'.p_state[u] = "FINAL" => p_waiting'[u] = <<>>
      <4>1. CASE u = tp
        <5>1. \A t \in AllThreads :
                 k'.p_state[t] = "WTEXIT" /\ arg'[t] = tp
                   <=> (k.p_state[t] = "WTEXIT" /\ arg[t] = tp) \/ t = c
          BY <1>1, <2>1, <2>4 DEF OthersKeep
        <5>2. Elems(q) = {t \in AllThreads : k'.p_state[t] = "WTEXIT" /\ arg'[t] = tp}
          BY <1>1, <2>5, <2>7, <5>1
        <5> QED BY <1>7, <2>4, <2>7, <2>9, <4>1, <5>2
      <4>2. CASE u # tp
        <5>1. \A t \in AllThreads :
                 k'.p_state[t] = "WTEXIT" /\ arg'[t] = u
                   <=> k.p_state[t] = "WTEXIT" /\ arg[t] = u
          BY <1>1, <2>1, <2>4, <4>2 DEF OthersKeep
        <5> QED BY <2>4, <2>5, <2>9, <4>2, <5>1
      <4> QED BY <4>1, <4>2
    <3>2. ASSUME NEW t \in AllThreads
          PROVE  IF k'.p_state[t] = "WTEXIT" THEN call'[t] = "join"
                 ELSE call'[t] = "join" => k'.p_state[arg'[t]] = "FINAL"
      <4>1. IF k.p_state[t] = "WTEXIT" THEN call[t] = "join"
            ELSE call[t] = "join" => k.p_state[arg[t]] = "FINAL"
        BY DEF ThreadsFit, JoinsFit
      <4>2. call[t] = "join" => arg[t] \in AllThreads
        BY DEF ThreadsFit, AreasFit, CallFits
      <4> QED BY <2>1, <2>4, <4>1, <4>2 DEF OthersKeep
    <3> QED BY <3>1, <3>2 DEF JoinsFit
  <2>11. MessagesFit'
    <3>1. \A v \in AllThreads : call'[v] = "msgwait" <=> call[v] = "msgwait"
      BY <1>1, <2>1 DEF OthersKeep
    <3> QED BY <1>1, <1>3, <2>4, <3>1, MessagesSame
  <2>12. /\ p_msgqueue' \in [AllThreads -> Seq(Threads)]
         /\ serving' \in [AllThreads -> SUBSET Threads]
    BY <1>1 DEF msgvars, ThreadsFit, ThreadTypes, ThreadsTypeOK
  <2> QED BY <1>1, <2>1, <2>2, <2>3, <2>4, <2>9, <2>10, <2>11, <2>12, SwitchStep
<1> QED BY <1>2, <1>6, <1>7

----------------------------------------------------------------------------
(* Messages *)

\* What the invariant says of the messages, in one place.
LEMMA MessageFacts ==
    ASSUME ThreadsFit
    PROVE  /\ p_msgqueue \in [AllThreads -> Seq(Threads)]
           /\ serving \in [AllThreads -> SUBSET Threads]
           /\ \A t \in AllThreads, u \in AllThreads :
                 /\ t \in Elems(p_msgqueue[u]) => k.p_state[t] = "SNDMSGQ" /\ Holds(t, u)
                 /\ t \in serving[u] => k.p_state[t] = "SNDMSG" /\ Holds(t, u)
           /\ \A t \in AllThreads, u \in AllThreads, v \in AllThreads :
                 /\ t \in Elems(p_msgqueue[u]) /\ t \in Elems(p_msgqueue[v]) => u = v
                 /\ t \in serving[u] /\ t \in serving[v] => u = v
           /\ \A t \in AllThreads :
                 /\ k.p_state[t] = "SNDMSGQ" => \E u \in Threads : t \in Elems(p_msgqueue[u])
                 /\ k.p_state[t] = "SNDMSG" => \E u \in Threads : t \in serving[u]
           /\ \A u \in AllThreads :
                 /\ NoDuplicates(p_msgqueue[u])
                 /\ k.p_state[u] = "WTMSG" => call[u] = "msgwait" /\ p_msgqueue[u] = <<>>
                 /\ k.p_state[u] # "WTMSG" /\ call[u] = "msgwait" => p_msgqueue[u] # <<>>
BY DEF ThreadsFit, ThreadTypes, ThreadsTypeOK, MessagesFit

\* The receiver is woken if it waits, the sender sleeps.
LEMMA SentOK ==
    ASSUME ThreadsFit, ThreadCode, NEW c, c = currp, NEW tp \in AllThreads, tp # c,
           k' = chSchGoSleepS(Delivered(tp), "SNDMSGQ")
    PROVE  /\ SchedInv(k') /\ k'.p_state[c] = "SNDMSGQ"
           /\ k.p_state[tp] = "WTMSG" => k'.p_state[tp] \in Runnable
           /\ SameWaits(k, k', {tp, c})
           /\ k.p_state[tp] # "WTMSG" => SameWaits(k, k', {c})
<1>1. c \in Threads /\ c \in AllThreads /\ c # Idle /\ k.r_current = c /\ SchedInv(k)
  BY Runner, Typed DEF currp
<1> DEFINE s == Delivered(tp)
<1>2. /\ SchedInv(s) /\ s.r_current = c /\ SameWaits(k, s, {tp})
      /\ k.p_state[tp] = "WTMSG" => s.p_state[tp] = "READY"
      /\ k.p_state[tp] # "WTMSG" => s = k
  <2>1. CASE k.p_state[tp] = "WTMSG"
    <3>1. k.p_state[tp] \notin Runnable /\ s = chSchReadyI(k, tp)
      BY <2>1 DEF Runnable, Delivered
    <3>2. /\ SchedInv(s) /\ Keeps(k, s, {tp}) /\ s.p_state[tp] = "READY"
          /\ s.r_current = k.r_current
      BY <1>1, <3>1, ReadyI
    <3> QED BY <1>1, <2>1, <3>2, KeepsWaits
  <2>2. CASE k.p_state[tp] # "WTMSG"
    <3>1. s = k BY <2>2 DEF Delivered
    <3>2. SameWaits(k, k, {tp}) BY DEF SameWaits
    <3> QED BY <1>1, <2>2, <3>1, <3>2
  <2> QED BY <2>1, <2>2
<1> HIDE DEF s
<1>3. SchedInv(k') /\ Keeps(s, k', {c}) /\ k'.p_state[c] = "SNDMSGQ"
  <2>1. "SNDMSGQ" \in ThreadStates \ Runnable BY DEF ThreadStates, Runnable
  <2>2. k' = chSchGoSleepS(s, "SNDMSGQ") BY DEF s
  <2> QED BY <1>1, <1>2, <2>1, <2>2, GoSleepS
<1>4. SameWaits(s, k', {c}) BY <1>3, KeepsWaits
<1>5. SameWaits(k, k', {tp, c})
  <2>1. SameWaits(k, k', {tp} \cup {c}) BY <1>2, <1>4, WaitsChain
  <2>2. {tp} \cup {c} = {tp, c} OBVIOUS
  <2> QED BY <2>1, <2>2
<1>6. k.p_state[tp] = "WTMSG" => k'.p_state[tp] \in Runnable
  BY <1>2, <1>3 DEF Keeps, Runnable
<1> QED BY <1>2, <1>3, <1>4, <1>5, <1>6

LEMMA SendFit ==
    ASSUME ThreadsFit, NEW tp \in AllThreads, chMsgSend(tp) PROVE ThreadsFit'
<1>0. PICK c : c = currp OBVIOUS
<1>1. /\ ThreadCode /\ c \in Threads /\ c \in AllThreads /\ c # Idle /\ tp # c
      /\ tp \in Threads
      /\ k.p_state[c] = "CURRENT" /\ call[c] = "none" /\ Holds(c, tp)
      /\ UNCHANGED <<isr, refvars, p_flags, regvars, p_waiting, serving, free, callvars,
                     history, copies>>
      /\ p_msgqueue' = [p_msgqueue EXCEPT ![tp] = Append(p_msgqueue[tp], c)]
      /\ k' = chSchGoSleepS(Delivered(tp), "SNDMSGQ")
  BY <1>0, Runner DEF chMsgSend, Between, AllThreads
<1>2. /\ held' = held /\ serving' = serving /\ p_waiting' = p_waiting
      /\ call' = call /\ arg' = arg
  BY <1>1 DEF refvars, callvars
<1>3. /\ SchedInv(k') /\ k'.p_state[c] = "SNDMSGQ"
      /\ k.p_state[tp] = "WTMSG" => k'.p_state[tp] \in Runnable
      /\ SameWaits(k, k', {tp, c})
      /\ k.p_state[tp] # "WTMSG" => SameWaits(k, k', {c})
  BY <1>0, <1>1, SentOK
<1>4. \A u \in AllThreads :
         /\ k'.p_state[u] = "FINAL" <=> k.p_state[u] = "FINAL"
         /\ k'.p_state[u] = "WTEXIT" <=> k.p_state[u] = "WTEXIT"
         /\ k'.p_state[u] = "SNDMSGQ" <=> k.p_state[u] = "SNDMSGQ" \/ u = c
         /\ k'.p_state[u] = "SNDMSG" <=> k.p_state[u] = "SNDMSG"
         /\ k'.p_state[u] = "WTMSG" <=> k.p_state[u] = "WTMSG" /\ u # tp
  <2>1. CASE k.p_state[tp] = "WTMSG" BY <1>1, <1>3, <2>1 DEF SameWaits, Runnable
  <2>2. CASE k.p_state[tp] # "WTMSG" BY <1>1, <1>3, <2>2 DEF SameWaits, Runnable
  <2> QED BY <2>1, <2>2
<1>5. c \notin Elems(p_msgqueue[tp]) /\ \A u \in AllThreads : c \notin Elems(p_msgqueue[u])
  BY <1>1, MessageFacts
<1> DEFINE q == Append(p_msgqueue[tp], c)
<1>6. /\ q \in Seq(Threads) /\ Elems(q) = Elems(p_msgqueue[tp]) \cup {c}
      /\ NoDuplicates(q) /\ q # <<>>
  <2>1. p_msgqueue[tp] \in Seq(Threads) /\ NoDuplicates(p_msgqueue[tp])
    BY MessageFacts
  <2>2. /\ q \in Seq(Threads) /\ Elems(q) = Elems(p_msgqueue[tp]) \cup {c}
        /\ NoDuplicates(q)
    BY <1>1, <1>5, <2>1, AppendNew
  <2>3. q # <<>> BY <2>1
  <2> QED BY <2>2, <2>3
<1>7. p_msgqueue' = [p_msgqueue EXCEPT ![tp] = q] BY <1>1
<1> HIDE DEF q
<1>8. /\ p_msgqueue' \in [AllThreads -> Seq(Threads)] /\ p_msgqueue'[tp] = q
      /\ \A u \in AllThreads \ {tp} : p_msgqueue'[u] = p_msgqueue[u]
  BY <1>6, <1>7, MessageFacts
<1>9. \A u \in AllThreads : \A t :
         t \in Elems(p_msgqueue'[u]) <=>
            t \in Elems(p_msgqueue[u]) \/ (u = tp /\ t = c)
  BY <1>6, <1>8
<1>10. MessagesFit'
  <2>1. ASSUME NEW t \in AllThreads, NEW u \in AllThreads
        PROVE  /\ t \in Elems(p_msgqueue'[u]) => k'.p_state[t] = "SNDMSGQ" /\ Holds(t, u)'
               /\ t \in serving'[u] => k'.p_state[t] = "SNDMSG" /\ Holds(t, u)'
    <3>1. Holds(t, u)' <=> Holds(t, u) BY <1>2 DEF Holds
    <3> QED BY <1>1, <1>2, <1>4, <1>9, <3>1, MessageFacts
  <2>2. ASSUME NEW t \in AllThreads, NEW u \in AllThreads, NEW v \in AllThreads
        PROVE  /\ t \in Elems(p_msgqueue'[u]) /\ t \in Elems(p_msgqueue'[v]) => u = v
               /\ t \in serving'[u] /\ t \in serving'[v] => u = v
    <3>1. CASE t = c BY <1>2, <1>5, <1>9, <3>1, MessageFacts
    <3>2. CASE t # c
      <4>1. t \in Elems(p_msgqueue'[u]) => t \in Elems(p_msgqueue[u]) BY <1>9, <3>2
      <4>2. t \in Elems(p_msgqueue'[v]) => t \in Elems(p_msgqueue[v]) BY <1>9, <3>2
      <4> QED BY <1>2, <4>1, <4>2, MessageFacts
    <3> QED BY <3>1, <3>2
  <2>3. ASSUME NEW t \in AllThreads
        PROVE  /\ k'.p_state[t] = "SNDMSGQ" => \E u \in Threads : t \in Elems(p_msgqueue'[u])
               /\ k'.p_state[t] = "SNDMSG" => \E u \in Threads : t \in serving'[u]
    BY <1>1, <1>2, <1>4, <1>9, MessageFacts DEF AllThreads
  <2>4. ASSUME NEW u \in AllThreads
        PROVE  /\ NoDuplicates(p_msgqueue'[u])
               /\ IF k'.p_state[u] = "WTMSG" THEN call'[u] = "msgwait" /\ p_msgqueue'[u] = <<>>
                  ELSE call'[u] = "msgwait" => p_msgqueue'[u] # <<>>
    <3>1. CASE u = tp BY <1>2, <1>4, <1>6, <1>8, <3>1
    <3>2. CASE u # tp
      <4>1. p_msgqueue'[u] = p_msgqueue[u] BY <1>8, <3>2
      <4>2. k'.p_state[u] = "WTMSG" <=> k.p_state[u] = "WTMSG" BY <1>4, <3>2
      <4> QED BY <1>2, <4>1, <4>2, MessageFacts
    <3> QED BY <3>1, <3>2
  <2> QED BY <2>1, <2>2, <2>3, <2>4 DEF MessagesFit
<1>11. OthersKeep(c) BY <1>2 DEF OthersKeep
<1>12. JoinsFit' BY <1>1, <1>2, <1>4, <1>11, JoinsSame
<1>13. CallFits(c)' BY <1>1, <1>2, NoCallFits
<1>14. /\ p_waiting' \in [AllThreads -> Seq(Threads)]
       /\ serving' \in [AllThreads -> SUBSET Threads]
       /\ call' \in [AllThreads -> Calls] /\ arg' \in [AllThreads -> AllThreads \cup {NULL}]
  BY <1>2 DEF ThreadsFit, ThreadTypes, ThreadsTypeOK
<1> QED BY <1>1, <1>2, <1>3, <1>4, <1>8, <1>10, <1>11, <1>12, <1>13, <1>14, SwitchStep

\* The running thread takes the oldest message: its sender is served.
LEMMA TakeStep ==
    ASSUME ThreadsFit, ThreadCode, NEW c, c = currp, p_msgqueue[c] # <<>>, TakeMessage(k),
           call[c] \in {"none", "msgwait"}, call'[c] = "none", OthersKeep(c),
           call' \in [AllThreads -> Calls], arg' \in [AllThreads -> AllThreads \cup {NULL}],
           UNCHANGED <<isr, refvars, p_flags, regvars, p_waiting, free, history, copies>>
    PROVE  ThreadsFit'
<1>1. c \in Threads /\ c \in AllThreads /\ c # Idle /\ k.p_state[c] = "CURRENT"
  BY Runner
<1>2. PICK q : q = p_msgqueue[c] OBVIOUS
<1>3. q \in Seq(Threads) /\ q # <<>> /\ NoDuplicates(q) BY <1>1, <1>2, MessageFacts
<1>4. PICK tp : tp = Head(q) OBVIOUS
<1>5. /\ tp \in Threads /\ Tail(q) \in Seq(Threads) /\ tp \in Elems(q)
      /\ NoDuplicates(Tail(q)) /\ Elems(Tail(q)) = Elems(q) \ {tp}
  BY <1>3, <1>4, HeadTail
<1>6. tp \in AllThreads /\ k.p_state[tp] = "SNDMSGQ" /\ tp # c /\ Holds(tp, c)
  BY <1>1, <1>2, <1>5, MessageFacts DEF AllThreads
<1>7. /\ p_msgqueue' = [p_msgqueue EXCEPT ![c] = Tail(q)]
      /\ k' = [k EXCEPT !.p_state[tp] = "SNDMSG"]
      /\ serving' = [serving EXCEPT ![c] = serving[c] \cup {tp}]
  BY <1>2, <1>4 DEF TakeMessage
<1>8. held' = held /\ p_waiting' = p_waiting BY DEF refvars
<1>9. /\ SchedInv(k') /\ k'.p_state[tp] = "SNDMSG" /\ SameWaits(k, k', {tp})
  <2>1. "SNDMSG" \in ThreadStates \ Runnable /\ "SNDMSGQ" \notin Runnable
    BY DEF ThreadStates, Runnable
  <2>2. SchedInv(k) BY Typed
  <2>3. k.p_state[tp] \notin Runnable BY <1>6, <2>1
  <2>4. k' = Waiting(k, tp, "SNDMSG") BY <1>7 DEF Waiting
  <2> QED BY <1>6, <2>1, <2>2, <2>3, <2>4, Rewait
<1>10. \A u \in AllThreads :
          /\ k'.p_state[u] = "FINAL" <=> k.p_state[u] = "FINAL"
          /\ k'.p_state[u] = "WTEXIT" <=> k.p_state[u] = "WTEXIT"
          /\ k'.p_state[u] = "SNDMSGQ" <=> k.p_state[u] = "SNDMSGQ" /\ u # tp
          /\ k'.p_state[u] = "SNDMSG" <=> k.p_state[u] = "SNDMSG" \/ u = tp
          /\ k'.p_state[u] = "WTMSG" <=> k.p_state[u] = "WTMSG"
  BY <1>6, <1>9 DEF SameWaits, Runnable
<1>11. /\ p_msgqueue' \in [AllThreads -> Seq(Threads)] /\ p_msgqueue'[c] = Tail(q)
       /\ \A u \in AllThreads \ {c} : p_msgqueue'[u] = p_msgqueue[u]
  BY <1>1, <1>5, <1>7, MessageFacts
<1>12. /\ serving' \in [AllThreads -> SUBSET Threads]
       /\ \A u \in AllThreads : \A t :
             t \in serving'[u] <=> t \in serving[u] \/ (u = c /\ t = tp)
  <2>1. serving \in [AllThreads -> SUBSET Threads] BY MessageFacts
  <2>2. serving[c] \cup {tp} \in SUBSET Threads BY <1>1, <1>5, <2>1
  <2>3. serving' \in [AllThreads -> SUBSET Threads] BY <1>7, <2>1, <2>2
  <2>4. serving'[c] = serving[c] \cup {tp} BY <1>1, <1>7, <2>1
  <2>5. \A u \in AllThreads \ {c} : serving'[u] = serving[u] BY <1>7, <2>1
  <2> QED BY <2>3, <2>4, <2>5
<1>13. \A u \in AllThreads : \A t :
          t \in Elems(p_msgqueue'[u]) <=> t \in Elems(p_msgqueue[u]) /\ ~ (u = c /\ t = tp)
  BY <1>2, <1>5, <1>11
<1>14. MessagesFit'
  <2>1. ASSUME NEW t \in AllThreads, NEW u \in AllThreads
        PROVE  /\ t \in Elems(p_msgqueue'[u]) => k'.p_state[t] = "SNDMSGQ" /\ Holds(t, u)'
               /\ t \in serving'[u] => k'.p_state[t] = "SNDMSG" /\ Holds(t, u)'
    <3>1. Holds(t, u)' <=> Holds(t, u) BY <1>8 DEF Holds
    <3>2. t = tp /\ t \in Elems(p_msgqueue[u]) => u = c
      BY <1>1, <1>2, <1>5, MessageFacts
    <3> QED BY <1>6, <1>10, <1>12, <1>13, <3>1, <3>2, MessageFacts
  <2>2. ASSUME NEW t \in AllThreads, NEW u \in AllThreads, NEW v \in AllThreads
        PROVE  /\ t \in Elems(p_msgqueue'[u]) /\ t \in Elems(p_msgqueue'[v]) => u = v
               /\ t \in serving'[u] /\ t \in serving'[v] => u = v
    <3>1. \A y \in AllThreads : tp \notin serving[y] BY <1>6, MessageFacts
    <3>2. t \in Elems(p_msgqueue'[u]) /\ t \in Elems(p_msgqueue'[v]) => u = v
      <4>1. t \in Elems(p_msgqueue'[u]) => t \in Elems(p_msgqueue[u]) BY <1>13
      <4>2. t \in Elems(p_msgqueue'[v]) => t \in Elems(p_msgqueue[v]) BY <1>13
      <4> QED BY <4>1, <4>2, MessageFacts
    <3>3. t \in serving'[u] /\ t \in serving'[v] => u = v
      <4>1. CASE t = tp BY <1>12, <3>1, <4>1
      <4>2. CASE t # tp
        <5>1. t \in serving'[u] => t \in serving[u] BY <1>12, <4>2
        <5>2. t \in serving'[v] => t \in serving[v] BY <1>12, <4>2
        <5> QED BY <5>1, <5>2, MessageFacts
      <4> QED BY <4>1, <4>2
    <3> QED BY <3>2, <3>3
  <2>3. ASSUME NEW t \in AllThreads
        PROVE  /\ k'.p_state[t] = "SNDMSGQ" => \E u \in Threads : t \in Elems(p_msgqueue'[u])
               /\ k'.p_state[t] = "SNDMSG" => \E u \in Threads : t \in serving'[u]
    BY <1>1, <1>10, <1>12, <1>13, MessageFacts DEF AllThreads
  <2>4. ASSUME NEW u \in AllThreads
        PROVE  /\ NoDuplicates(p_msgqueue'[u])
               /\ IF k'.p_state[u] = "WTMSG" THEN call'[u] = "msgwait" /\ p_msgqueue'[u] = <<>>
                  ELSE call'[u] = "msgwait" => p_msgqueue'[u] # <<>>
    <3>1. CASE u = c BY <1>1, <1>5, <1>10, <1>11, <3>1
    <3>2. CASE u # c
      <4>1. p_msgqueue'[u] = p_msgqueue[u] /\ call'[u] = call[u]
        BY <1>11, <3>2 DEF OthersKeep
      <4>2. k'.p_state[u] = "WTMSG" <=> k.p_state[u] = "WTMSG" BY <1>10
      <4> QED BY <4>1, <4>2, MessageFacts
    <3> QED BY <3>1, <3>2
  <2> QED BY <2>1, <2>2, <2>3, <2>4 DEF MessagesFit
<1>15. JoinsFit' BY <1>1, <1>8, <1>10, JoinsSame
<1>16. CallFits(c)' BY <1>1, NoCallFits
<1>17. p_waiting' \in [AllThreads -> Seq(Threads)]
  BY <1>8 DEF ThreadsFit, ThreadTypes, ThreadsTypeOK
<1> QED BY <1>1, <1>9, <1>10, <1>11, <1>12, <1>14, <1>15, <1>16, <1>17, SwitchStep

LEMMA MsgWaitReturnFit == ASSUME ThreadsFit, MsgWaitReturn PROVE ThreadsFit'
<1>0. PICK c : c = currp OBVIOUS
<1>1. /\ ThreadCode /\ c \in AllThreads /\ k.p_state[c] = "CURRENT" /\ call[c] = "msgwait"
      /\ TakeMessage(k) /\ Enter("none", NULL)
      /\ UNCHANGED <<isr, refvars, p_flags, regvars, p_waiting, free, history, copies>>
  BY <1>0, Runner DEF MsgWaitReturn, Leave
<1>2. p_msgqueue[c] # <<>> BY <1>1, MessageFacts
<1>3. "none" \in Calls /\ NULL \in AllThreads \cup {NULL} BY DEF Calls
<1>4. /\ OthersKeep(c) /\ call'[c] = "none"
      /\ call' \in [AllThreads -> Calls]
      /\ arg' \in [AllThreads -> AllThreads \cup {NULL}]
  BY <1>0, <1>1, <1>3, Entered
<1> QED BY <1>0, <1>1, <1>2, <1>4, TakeStep

LEMMA MsgWaitFit == ASSUME ThreadsFit, chMsgWait PROVE ThreadsFit'
<1>0. PICK c : c = currp OBVIOUS
<1>1. /\ ThreadCode /\ c \in Threads /\ c \in AllThreads /\ c # Idle
      /\ k.p_state[c] = "CURRENT" /\ call[c] = "none"
      /\ UNCHANGED <<isr, refvars, p_flags, regvars, p_waiting, free, history, copies>>
  BY <1>0, Runner DEF chMsgWait, Between
<1>2. \/ p_msgqueue[c] # <<>> /\ TakeMessage(k) /\ UNCHANGED callvars
      \/ /\ p_msgqueue[c] = <<>> /\ k' = chSchGoSleepS(k, "WTMSG")
         /\ Enter("msgwait", NULL) /\ UNCHANGED msgvars
  BY <1>0 DEF chMsgWait
<1>3. CASE p_msgqueue[c] # <<>> /\ TakeMessage(k) /\ UNCHANGED callvars
  <2>1. /\ OthersKeep(c) /\ call'[c] = "none"
        /\ call' \in [AllThreads -> Calls]
        /\ arg' \in [AllThreads -> AllThreads \cup {NULL}]
    BY <1>0, <1>1, <1>3, NotEntered
  <2> QED BY <1>0, <1>1, <1>3, <2>1, TakeStep
<1>4. CASE /\ p_msgqueue[c] = <<>> /\ k' = chSchGoSleepS(k, "WTMSG")
           /\ Enter("msgwait", NULL) /\ UNCHANGED msgvars
  <2>1. "msgwait" \in Calls /\ NULL \in AllThreads \cup {NULL} BY DEF Calls
  <2>2. /\ OthersKeep(c) /\ call'[c] = "msgwait"
        /\ call' \in [AllThreads -> Calls]
        /\ arg' \in [AllThreads -> AllThreads \cup {NULL}]
    BY <1>0, <1>1, <1>4, <2>1, Entered
  <2>3. SchedInv(k') /\ Keeps(k, k', {c}) /\ k'.p_state[c] = "WTMSG"
    <3>1. "WTMSG" \in ThreadStates \ Runnable BY DEF ThreadStates, Runnable
    <3>2. SchedInv(k) /\ k.r_current = c BY <1>0, Typed DEF currp
    <3> QED BY <1>1, <1>4, <3>1, <3>2, GoSleepS
  <2>4. \A u \in AllThreads :
           /\ k'.p_state[u] = "FINAL" <=> k.p_state[u] = "FINAL"
           /\ k'.p_state[u] = "WTEXIT" <=> k.p_state[u] = "WTEXIT"
           /\ k'.p_state[u] = "SNDMSGQ" <=> k.p_state[u] = "SNDMSGQ"
           /\ k'.p_state[u] = "SNDMSG" <=> k.p_state[u] = "SNDMSG"
           /\ k'.p_state[u] = "WTMSG" <=> k.p_state[u] = "WTMSG" \/ u = c
    BY <1>1, <2>3 DEF Keeps, Runnable
  <2>5. p_msgqueue' = p_msgqueue /\ serving' = serving /\ held' = held
        /\ p_waiting' = p_waiting
    BY <1>1, <1>4 DEF msgvars, refvars
  <2>6. MessagesFit'
    <3>1. ASSUME NEW t \in AllThreads, NEW u \in AllThreads
          PROVE  /\ t \in Elems(p_msgqueue'[u]) => k'.p_state[t] = "SNDMSGQ" /\ Holds(t, u)'
                 /\ t \in serving'[u] => k'.p_state[t] = "SNDMSG" /\ Holds(t, u)'
      <4>1. Holds(t, u)' <=> Holds(t, u) BY <2>5 DEF Holds
      <4> QED BY <2>4, <2>5, <4>1, MessageFacts
    <3>2. ASSUME NEW t \in AllThreads
          PROVE  /\ k'.p_state[t] = "SNDMSGQ" => \E u \in Threads : t \in Elems(p_msgqueue'[u])
                 /\ k'.p_state[t] = "SNDMSG" => \E u \in Threads : t \in serving'[u]
      BY <2>4, <2>5, MessageFacts
    <3>3. ASSUME NEW u \in AllThreads
          PROVE  /\ NoDuplicates(p_msgqueue'[u])
                 /\ IF k'.p_state[u] = "WTMSG"
                    THEN call'[u] = "msgwait" /\ p_msgqueue'[u] = <<>>
                    ELSE call'[u] = "msgwait" => p_msgqueue'[u] # <<>>
      <4>1. CASE u = c BY <1>4, <2>2, <2>3, <2>5, <4>1, MessageFacts
      <4>2. CASE u # c BY <2>2, <2>4, <2>5, <4>2, MessageFacts DEF OthersKeep
      <4> QED BY <4>1, <4>2
    <3>4. \A t \in AllThreads, u \in AllThreads, v \in AllThreads :
             /\ t \in Elems(p_msgqueue'[u]) /\ t \in Elems(p_msgqueue'[v]) => u = v
             /\ t \in serving'[u] /\ t \in serving'[v] => u = v
      BY <2>5, MessageFacts
    <3> QED BY <3>1, <3>2, <3>3, <3>4 DEF MessagesFit
  <2>7. JoinsFit' BY <1>1, <2>2, <2>4, <2>5, JoinsSame
  <2>8. CallFits(c)' BY <1>1, <2>2, NoCallFits
  <2>9. /\ p_waiting' \in [AllThreads -> Seq(Threads)]
        /\ p_msgqueue' \in [AllThreads -> Seq(Threads)]
        /\ serving' \in [AllThreads -> SUBSET Threads]
    BY <2>5 DEF ThreadsFit, ThreadTypes, ThreadsTypeOK
  <2> QED BY <1>1, <2>2, <2>3, <2>4, <2>6, <2>7, <2>8, <2>9, SwitchStep
<1> QED BY <1>2, <1>3, <1>4

\* The sender is answered.
LEMMA MsgReleaseFit ==
    ASSUME ThreadsFit, NEW tp \in AllThreads, chMsgRelease(tp) PROVE ThreadsFit'
<1>0. PICK c : c = currp OBVIOUS
<1>1. /\ ThreadCode /\ c \in Threads /\ c \in AllThreads /\ c # Idle
      /\ k.p_state[c] = "CURRENT" /\ call[c] = "none" /\ tp \in serving[c]
      /\ UNCHANGED <<isr, refvars, p_flags, regvars, p_waiting, p_msgqueue, free, callvars,
                     history, copies>>
      /\ serving' = [serving EXCEPT ![c] = serving[c] \ {tp}]
      /\ k' = chSchWakeupS(k, tp)
  BY <1>0, Runner DEF chMsgRelease, Between
<1>2. /\ held' = held /\ p_msgqueue' = p_msgqueue /\ p_waiting' = p_waiting
      /\ call' = call /\ arg' = arg
  BY <1>1 DEF refvars, callvars
<1>3. k.p_state[tp] = "SNDMSG" /\ \A u \in AllThreads : tp \in serving[u] => u = c
  BY <1>1, MessageFacts
<1>4. SchedInv(k') /\ Keeps(k, k', {tp}) /\ k'.p_state[tp] \in Runnable
  <2>1. SchedInv(k) /\ k.p_state[tp] \notin Runnable BY <1>3, Typed DEF Runnable
  <2> QED BY <1>1, <2>1, WakeupS
<1>5. \A u \in AllThreads :
         /\ k'.p_state[u] = "FINAL" <=> k.p_state[u] = "FINAL"
         /\ k'.p_state[u] = "WTEXIT" <=> k.p_state[u] = "WTEXIT"
         /\ k'.p_state[u] = "SNDMSGQ" <=> k.p_state[u] = "SNDMSGQ"
         /\ k'.p_state[u] = "SNDMSG" <=> k.p_state[u] = "SNDMSG" /\ u # tp
         /\ k'.p_state[u] = "WTMSG" <=> k.p_state[u] = "WTMSG"
  BY <1>3, <1>4 DEF Keeps, Runnable
<1>6. /\ serving' \in [AllThreads -> SUBSET Threads]
      /\ \A u \in AllThreads : \A t :
            t \in serving'[u] <=> t \in serving[u] /\ ~ (u = c /\ t = tp)
  <2>1. serving \in [AllThreads -> SUBSET Threads] BY MessageFacts
  <2>2. serving[c] \ {tp} \in SUBSET Threads BY <1>1, <2>1
  <2>3. serving' \in [AllThreads -> SUBSET Threads] BY <1>1, <2>1, <2>2
  <2>4. serving'[c] = serving[c] \ {tp} BY <1>1, <2>1
  <2>5. \A u \in AllThreads \ {c} : serving'[u] = serving[u] BY <1>1, <2>1
  <2> QED BY <2>3, <2>4, <2>5
<1>7. MessagesFit'
  <2>1. ASSUME NEW t \in AllThreads, NEW u \in AllThreads
        PROVE  /\ t \in Elems(p_msgqueue'[u]) => k'.p_state[t] = "SNDMSGQ" /\ Holds(t, u)'
               /\ t \in serving'[u] => k'.p_state[t] = "SNDMSG" /\ Holds(t, u)'
    <3>1. Holds(t, u)' <=> Holds(t, u) BY <1>2 DEF Holds
    <3> QED BY <1>2, <1>3, <1>5, <1>6, <3>1, MessageFacts
  <2>2. ASSUME NEW t \in AllThreads
        PROVE  /\ k'.p_state[t] = "SNDMSGQ" => \E u \in Threads : t \in Elems(p_msgqueue'[u])
               /\ k'.p_state[t] = "SNDMSG" => \E u \in Threads : t \in serving'[u]
    BY <1>2, <1>5, <1>6, MessageFacts DEF AllThreads
  <2>3. \A t \in AllThreads, u \in AllThreads, v \in AllThreads :
           /\ t \in Elems(p_msgqueue'[u]) /\ t \in Elems(p_msgqueue'[v]) => u = v
           /\ t \in serving'[u] /\ t \in serving'[v] => u = v
    BY <1>2, <1>6, MessageFacts
  <2>4. ASSUME NEW u \in AllThreads
        PROVE  /\ NoDuplicates(p_msgqueue'[u])
               /\ IF k'.p_state[u] = "WTMSG" THEN call'[u] = "msgwait" /\ p_msgqueue'[u] = <<>>
                  ELSE call'[u] = "msgwait" => p_msgqueue'[u] # <<>>
    BY <1>2, <1>5, MessageFacts
  <2> QED BY <2>1, <2>2, <2>3, <2>4 DEF MessagesFit
<1>8. OthersKeep(c) BY <1>2 DEF OthersKeep
<1>9. JoinsFit' BY <1>1, <1>2, <1>5, <1>8, JoinsSame
<1>10. CallFits(c)' BY <1>1, <1>2, NoCallFits
<1>11. /\ p_waiting' \in [AllThreads -> Seq(Threads)]
       /\ p_msgqueue' \in [AllThreads -> Seq(Threads)]
       /\ call' \in [AllThreads -> Calls] /\ arg' \in [AllThreads -> AllThreads \cup {NULL}]
  BY <1>2 DEF ThreadsFit, ThreadTypes, ThreadsTypeOK
<1> QED BY <1>1, <1>2, <1>4, <1>5, <1>6, <1>7, <1>8, <1>9, <1>10, <1>11, SwitchStep

----------------------------------------------------------------------------
(* The invariant *)

\* What happened once, has.
LEMMA HistoryStays ==
    ASSUME ThreadStep \/ InterruptStep
    PROVE  (raced => raced') /\ (stale => stale')
<1>1. ASSUME NEW tp \in Statics,
             chThdCreateStatic(tp) \/ chThdCreateI(tp) \/ ReuseStatic(tp)
      PROVE  (raced => raced') /\ (stale => stale')
  <2>1. raced => raced'
    BY <1>1 DEF chThdCreateStatic, chThdCreateI, ReuseStatic, ThreadInit, history
  <2>2. stale => stale'
    BY <1>1 DEF chThdCreateStatic, chThdCreateI, ReuseStatic, ThreadInit, history
  <2> QED BY <2>1, <2>2
<1>2. ASSUME NEW tp \in Dynamics, chThdAlloc(tp)
      PROVE  (raced => raced') /\ (stale => stale')
  <2>1. raced => raced'
    BY <1>2 DEF chThdAlloc, history
  <2>2. stale => stale'
    BY <1>2 DEF chThdAlloc, history
  <2> QED BY <2>1, <2>2
<1>3. ASSUME chThdCreateDynamic PROVE (raced => raced') /\ (stale => stale')
  <2>1. raced => raced'
    BY <1>3 DEF chThdCreateDynamic, ThreadInit
  <2>2. stale => stale'
    BY <1>3 DEF chThdCreateDynamic, ThreadInit
  <2> QED BY <2>1, <2>2
<1>4. ASSUME NEW tp \in AllThreads,
             \/ chThdResume(tp) \/ chThdAddRef(tp) \/ chThdRelease(tp)
             \/ chThdWait(tp) \/ chMsgSend(tp) \/ chMsgRelease(tp)
      PROVE  (raced => raced') /\ (stale => stale')
  <2>1. raced => raced'
    BY <1>4 DEF chThdResume, chThdAddRef, chThdRelease, Decrement, chThdWait, chMsgSend,
     chMsgRelease, history
  <2>2. stale => stale'
    BY <1>4 DEF chThdResume, chThdAddRef, chThdRelease, Decrement, chThdWait, chMsgSend,
     chMsgRelease, history
  <2> QED BY <2>1, <2>2
<1>5. ASSUME NEW tp \in AllThreads, chRegNextThread(tp)
      PROVE  (raced => raced') /\ (stale => stale')
  <2>1. raced => raced'
    BY <1>5 DEF chRegNextThread
  <2>2. stale => stale'
    BY <1>5 DEF chRegNextThread
  <2> QED BY <2>1, <2>2
<1>6. ASSUME ReleaseCheck \/ ReleaseFree PROVE (raced => raced') /\ (stale => stale')
  <2>1. raced => raced'
    BY <1>6 DEF ReleaseCheck, ReleaseFree, history
  <2>2. stale => stale'
    BY <1>6 DEF ReleaseCheck, ReleaseFree, history
  <2> QED BY <2>1, <2>2
<1>7. ASSUME LoadOlder \/ LoadNewer PROVE (raced => raced') /\ (stale => stale')
  <2>1. raced => raced'
    BY <1>7 DEF LoadOlder, LoadNewer
  <2>2. stale => stale'
    BY <1>7 DEF LoadOlder, LoadNewer
  <2> QED BY <2>1, <2>2
<1>8. ASSUME UnlinkNewer \/ UnlinkOlder PROVE (raced => raced') /\ (stale => stale')
  <2>1. raced => raced'
    BY <1>8 DEF UnlinkNewer, UnlinkOlder
  <2>2. stale => stale'
    BY <1>8 DEF UnlinkNewer, UnlinkOlder
  <2> QED BY <2>1, <2>2
<1>9. ASSUME chRegFirstThread \/ chThdExit PROVE (raced => raced') /\ (stale => stale')
  <2>1. raced => raced'
    BY <1>9 DEF chRegFirstThread, chThdExit
  <2>2. stale => stale'
    BY <1>9 DEF chRegFirstThread, chThdExit
  <2> QED BY <2>1, <2>2
<1>10. ASSUME JoinReturn \/ chMsgWait \/ MsgWaitReturn \/ chThdSleep \/ chThdYield
       PROVE  (raced => raced') /\ (stale => stale')
  <2>1. raced => raced'
    BY <1>10 DEF JoinReturn, chMsgWait, MsgWaitReturn, chThdSleep, chThdYield, history
  <2>2. stale => stale'
    BY <1>10 DEF JoinReturn, chMsgWait, MsgWaitReturn, chThdSleep, chThdYield, history
  <2> QED BY <2>1, <2>2
<1>11. ASSUME InterruptStep PROVE (raced => raced') /\ (stale => stale')
  <2>1. raced => raced'
    BY <1>11 DEF InterruptStep, WakeSleeper, chSysTimerHandlerI, IrqExit, Interrupt, history
  <2>2. stale => stale'
    BY <1>11 DEF InterruptStep, WakeSleeper, chSysTimerHandlerI, IrqExit, Interrupt, history
  <2> QED BY <2>1, <2>2
<1> QED BY <1>1, <1>2, <1>3, <1>4, <1>5, <1>6, <1>7, <1>8, <1>9, <1>10, <1>11
        DEF ThreadStep

LEMMA StepFits ==
    ASSUME ThreadsFit, ThreadStep \/ InterruptStep, ~raced', ~stale'
    PROVE  ThreadsFit'
<1>1. ASSUME NEW tp \in Statics, chThdCreateStatic(tp) \/ chThdCreateI(tp) PROVE ThreadsFit'
  BY <1>1, CreateStaticFit
<1>2. ASSUME NEW tp \in Statics, ReuseStatic(tp) PROVE ThreadsFit' BY <1>2, ReuseFit
<1>3. ASSUME NEW tp \in Dynamics, chThdAlloc(tp) PROVE ThreadsFit' BY <1>3, AllocFit
<1>4. ASSUME chThdCreateDynamic PROVE ThreadsFit' BY <1>4, CreateDynamicFit
<1>5. ASSUME NEW tp \in AllThreads,
             \/ chThdResume(tp) \/ chThdAddRef(tp) \/ chThdRelease(tp) \/ chRegNextThread(tp)
             \/ chThdWait(tp) \/ chMsgSend(tp) \/ chMsgRelease(tp)
      PROVE  ThreadsFit'
  BY <1>5, ResumeFit, AddRefFit, ReleaseFit, RegNextFit, WaitFit, SendFit, MsgReleaseFit
<1>6. ASSUME ReleaseCheck \/ ReleaseFree PROVE ThreadsFit'
  BY <1>6, ReleaseCheckFit, ReleaseFreeFit
<1>12. ASSUME LoadOlder \/ LoadNewer \/ UnlinkNewer \/ UnlinkOlder PROVE ThreadsFit'
  BY <1>12, LoadFit, UnlinkNewerFit, UnlinkOlderFit
<1>7. ASSUME chRegFirstThread PROVE ThreadsFit' BY <1>7, RegFirstFit
<1>8. ASSUME chThdExit \/ JoinReturn PROVE ThreadsFit' BY <1>8, ExitFit, JoinReturnFit
<1>9. ASSUME chMsgWait \/ MsgWaitReturn PROVE ThreadsFit'
  BY <1>9, MsgWaitFit, MsgWaitReturnFit
<1>10. ASSUME chThdSleep \/ chThdYield PROVE ThreadsFit' BY <1>10, SleepFit, YieldFit
<1>11. ASSUME InterruptStep PROVE ThreadsFit'
  BY <1>11, WakeFit, TickFit, IrqExitFit DEF InterruptStep
<1> QED BY <1>1, <1>2, <1>3, <1>4, <1>5, <1>6, <1>7, <1>8, <1>9, <1>10, <1>11, <1>12
        DEF ThreadStep

\* The kernel has started: main runs, idle is ready, the registry lists both.
LEMMA StartFits == ASSUME ThreadsInit PROVE ThreadsFit
<1>1. /\ Main \in Threads /\ Main \in AllThreads /\ Idle \in AllThreads /\ Main # Idle
      /\ rlist \notin AllThreads /\ NULL \notin AllThreads
      /\ Threads \subseteq AllThreads /\ Dynamics \subseteq Threads
      /\ Main \notin Statics \cup Dynamics
      /\ Threads = {Main} \cup Statics \cup Dynamics
  BY ThreadsAssumption, SchedAssumption DEF AllThreads, Dynamics
<1>2. /\ k.r_current = Main /\ k.r_queue = <<Idle>>
      /\ k.p_state = [t \in AllThreads |->
                CASE t = Main -> "CURRENT" [] t = Idle -> "READY" [] OTHER -> "FINAL"]
      /\ k.p_prio = [t \in AllThreads |-> IF t = Idle THEN IDLEPRIO ELSE ThdPrio[t]]
      /\ k.p_preempt = [t \in AllThreads |-> CH_TIME_QUANTUM]
  BY DEF ThreadsInit
<1>3. /\ k.p_state[Main] = "CURRENT" /\ k.p_state[Idle] = "READY"
      /\ \A t \in AllThreads \ {Main, Idle} : k.p_state[t] = "FINAL"
      /\ k.p_state \in [AllThreads -> ThreadStates]
  BY <1>1, <1>2 DEF ThreadStates
<1>4. /\ p_refs = [t \in AllThreads |-> IF t \in {Main, Idle} THEN 1 ELSE 0]
      /\ p_flags = [t \in AllThreads |-> "STATIC"]
      /\ p_waiting = [t \in AllThreads |-> <<>>]
      /\ p_msgqueue = [t \in AllThreads |-> <<>>]
      /\ free = Statics \cup Dynamics
      /\ held = [t \in Threads |-> [u \in AllThreads |-> 0]]
      /\ serving = [t \in AllThreads |-> {}]
      /\ call = [t \in AllThreads |-> "none"]
      /\ arg = [t \in AllThreads |-> NULL]
      /\ isr = FALSE /\ raced = FALSE /\ stale = FALSE
      /\ got_older = [t \in AllThreads |-> NULL]
      /\ got_newer = [t \in AllThreads |-> NULL]
  BY DEF ThreadsInit
<1>5. SchedInv(k)
  <2>1. k.p_prio \in [AllThreads -> Prios]
    <3>1. IDLEPRIO \in Prios /\ UserPrios \subseteq Prios
      BY SchedAssumption DEF IDLEPRIO, LOWPRIO, UserPrios, Prios
    <3>2. \A t \in AllThreads \ {Idle} : ThdPrio[t] \in UserPrios
      BY ThreadsAssumption DEF AllThreads
    <3> QED BY <1>2, <3>1, <3>2
  <2>2. k.p_preempt \in [AllThreads -> 0..CH_TIME_QUANTUM]
    BY <1>2, SchedAssumption
  <2>3. <<Idle>> \in Seq(AllThreads) BY <1>1
  <2>4. k \in SchedStates
    <3>1. k = [r_current |-> k.r_current, r_queue |-> k.r_queue, p_state |-> k.p_state,
               p_prio |-> k.p_prio, p_preempt |-> k.p_preempt]
      BY DEF ThreadsInit
    <3> QED BY <1>1, <1>2, <1>3, <2>1, <2>2, <2>3, <3>1 DEF SchedStates
  <2>5. NoDuplicates(<<Idle>>) /\ Elems(<<Idle>>) = {Idle} BY DEF NoDuplicates, Elems
  <2>6. {t \in AllThreads : k.p_state[t] = "READY"} = {Idle} BY <1>1, <1>3
  <2>7. \A t \in AllThreads : k.p_state[t] = "CURRENT" <=> t = k.r_current
    BY <1>1, <1>2, <1>3
  <2>8. ReadyListMembers(k) BY <1>2, <2>5, <2>6, <2>7 DEF ReadyListMembers
  <2> QED BY <1>3, <2>4, <2>8 DEF SchedInv, Runnable
<1>6. /\ p_newer = [n \in Nodes |->
                      CASE n = rlist -> Main [] n = Main -> Idle [] OTHER -> rlist]
      /\ p_older = [n \in Nodes |->
                      CASE n = rlist -> Idle [] n = Idle -> Main [] OTHER -> rlist]
  BY DEF ThreadsInit
<1>7. /\ p_newer \in [Nodes -> Nodes] /\ p_older \in [Nodes -> Nodes]
      /\ p_newer[rlist] = Main /\ p_newer[Main] = Idle /\ p_newer[Idle] = rlist
      /\ p_older[rlist] = Idle /\ p_older[Idle] = Main /\ p_older[Main] = rlist
  <2>1. rlist \in Nodes /\ Main \in Nodes /\ Idle \in Nodes /\ rlist # Main /\ rlist # Idle
    BY <1>1 DEF Nodes
  <2> QED BY <1>1, <1>6, <2>1
<1>8. held \in Refs /\ \A t \in Threads, u \in AllThreads : held[t][u] = 0
  BY <1>4 DEF Refs
<1>9. /\ \A u \in AllThreads : p_refs[u] = Own(u)
      /\ p_refs \in [AllThreads -> Nat]
  BY <1>4 DEF Own
<1>10. ThreadTypes
  <2>1. k \in SchedStates BY <1>5 DEF SchedInv
  <2>2. p_flags \in [AllThreads -> MemModes] BY <1>4 DEF MemModes
  <2>3. call \in [AllThreads -> Calls] BY <1>4 DEF Calls
  <2>4. /\ p_waiting \in [AllThreads -> Seq(Threads)]
        /\ p_msgqueue \in [AllThreads -> Seq(Threads)]
        /\ serving \in [AllThreads -> SUBSET Threads]
        /\ arg \in [AllThreads -> AllThreads \cup {NULL}]
        /\ got_older \in [AllThreads -> Nodes \cup {NULL}]
        /\ got_newer \in [AllThreads -> Nodes \cup {NULL}]
    BY <1>4
  <2>5. ThreadsTypeOK
    BY <1>4, <1>7, <1>8, <1>9, <2>1, <2>2, <2>3, <2>4 DEF ThreadsTypeOK, Refs
  <2> QED BY <1>1, <1>3, <1>4, <1>5, <2>5 DEF ThreadTypes
<1>11. Counted
  <2>1. MaxRefs \in Nat BY ThreadsAssumption
  <2>2. \A u \in AllThreads : HeldTo(u) = 0 BY <1>8, RefsZero, TheRefs
  <2>3. \A u \in AllThreads : Own(u) \in Nat BY DEF Own
  <2> QED BY <1>8, <1>9, <2>1, <2>2, <2>3 DEF Counted
<1>12. AreasFit
  <2>1. \A u \in free : k.p_state[u] = "FINAL" /\ p_refs[u] = 0
    <3>1. \A u \in free : u \in AllThreads \ {Main, Idle}
      BY <1>1, <1>4, SchedAssumption
    <3> QED BY <1>3, <1>4, <3>1
  <2> QED BY <1>4, <2>1 DEF AreasFit, CallFits, Owning, Removing
<1>13. JoinsFit
  <2>1. NoDuplicates(<<>>) /\ Elems(<<>>) = {} BY DEF NoDuplicates, Elems
  <2>2. \A t \in AllThreads : k.p_state[t] # "WTEXIT" BY <1>3
  <2> QED BY <1>4, <2>1, <2>2 DEF JoinsFit
<1>14. MessagesFit
  <2>1. NoDuplicates(<<>>) /\ Elems(<<>>) = {} BY DEF NoDuplicates, Elems
  <2>2. \A t \in AllThreads : k.p_state[t] \notin {"SNDMSGQ", "SNDMSG", "WTMSG"} BY <1>3
  <2> QED BY <1>4, <2>1, <2>2 DEF MessagesFit
<1>15. RegistryFits
  <2> DEFINE s == <<Main, Idle>>
  <2>1. s \in Seq(AllThreads) /\ Len(s) = 2 BY <1>1
  <2>2. NoDuplicates(s) BY <1>1 DEF NoDuplicates
  <2>3. Elems(s) = {Main, Idle} BY DEF Elems
  <2>4. Listed = {Main, Idle}
    <3>1. AllThreads \ free = {Main, Idle}
      BY <1>1, <1>4, SchedAssumption DEF AllThreads
    <3>2. \A t \in Threads : call[t] \notin Outside BY <1>1, <1>4 DEF Outside
    <3>3. k.p_state[Main] # "FINAL" /\ k.p_state[Idle] # "FINAL" BY <1>3
    <3> QED BY <3>1, <3>2, <3>3 DEF Listed
  <2>5. /\ Node(s, 0) = rlist /\ Node(s, 1) = Main /\ Node(s, 2) = Idle
        /\ Node(s, 3) = rlist
    BY DEF Node
  <2> HIDE DEF s
  <2>6. \A i \in 0..2 : i = 0 \/ i = 1 \/ i = 2 OBVIOUS
  <2>7. Ring(s, p_newer, p_older) BY <1>7, <2>1, <2>5, <2>6 DEF Ring
  <2>8. \A t \in AllThreads : call[t] # "relink" BY <1>4
  <2> QED BY <1>7, <2>1, <2>2, <2>3, <2>4, <2>7, <2>8 DEF RegistryFits
<1>16. LinksFit BY <1>4 DEF LinksFit, Unlinking
<1> QED BY <1>10, <1>11, <1>12, <1>13, <1>14, <1>15, <1>16 DEF ThreadsFit

\* The parts of the registry, the areas and the calls fit together, up to the first
\* use of the registry that the model exempts (raced, stale): it is changed, or a thread
\* is taken from it, while a release is removing a thread outside the lock
\* (chdynamic.c:78-93), or an iteration goes on from an ended thread by a link to a
\* thread that is not registered (chregistry.c:137).
THEOREM ThreadsInvariant == ThreadsSpec => []ThreadsInv
<1>1. ThreadsInit => ThreadsInv BY StartFits DEF ThreadsInv
<1>2. ThreadsInv /\ [ThreadsNext]_vars => ThreadsInv'
  <2> SUFFICES ASSUME ThreadsInv, [ThreadsNext]_vars PROVE ThreadsInv'
    OBVIOUS
  <2>1. CASE UNCHANGED vars
    <3>1. UNCHANGED <<k, isr, p_refs, held, p_flags, p_newer, p_older, p_waiting,
                      p_msgqueue, serving, free, call, arg, raced, stale,
                      got_older, got_newer>>
      BY <2>1 DEF vars, refvars, regvars, msgvars, callvars, history, copies
    <3>2. raced' = raced /\ stale' = stale BY <3>1
    <3>3. ThreadsFit => ThreadsFit'
      <4> SUFFICES ASSUME ThreadsFit PROVE ThreadsFit'
        OBVIOUS
      <4>1. SchedInv(k') /\ isr' \in BOOLEAN
        BY <3>1, Typed DEF ThreadsFit, ThreadTypes, ThreadsTypeOK
      <4>2. SameMarks(AllThreads) BY <3>1 DEF SameMarks
      <4>3. UNCHANGED <<refvars, p_flags, regvars, p_waiting, msgvars, free, callvars, history, copies>>
        BY <3>1 DEF refvars, regvars, msgvars, callvars, history, copies
      <4> QED BY <4>1, <4>2, <4>3, ScheduleStep
    <3> QED BY <3>2, <3>3 DEF ThreadsInv
  <2>2. CASE ThreadStep \/ InterruptStep
    <3>1. CASE raced \/ stale BY <2>2, <3>1, HistoryStays DEF ThreadsInv
    <3>2. CASE ~ (raced \/ stale)
      <4>1. ThreadsFit BY <3>2 DEF ThreadsInv
      <4> QED BY <2>2, <4>1, StepFits DEF ThreadsInv
    <3> QED BY <3>1, <3>2
  <2> QED BY <2>1, <2>2 DEF ThreadsNext
<1> QED BY <1>1, <1>2, PTL DEF ThreadsSpec

\* Two holders that release at the same time, a release that meets the exit of its
\* thread, a join and a release of the same thread: the area is given back once,
\* after the thread has ended, and never while somebody refers to it
\* (chdynamic.c:75-77), up to the exempt uses of the registry.
THEOREM ThreadsSafe == ThreadsSpec => []SafeUnlessRaced
<1>1. ThreadsInv => SafeUnlessRaced
  BY NothingDangles, NothingStrays DEF ThreadsInv, SafeUnlessRaced, ThreadsFit, AreasFit
<1> QED BY <1>1, ThreadsInvariant, PTL

\* The count of a thread is the number of the references there are to it, however
\* many threads hold some, join it and iterate over the registry, up to the exempt
\* uses of it.
THEOREM RefsAlwaysCounted == ThreadsSpec => []RefsAreCounted
<1>1. ThreadsInv => RefsAreCounted
  <2> SUFFICES ASSUME ThreadsFit PROVE RefsAreCounted
    BY DEF ThreadsInv, RefsAreCounted
  <2>1. ASSUME NEW u \in Threads \ (free \cup {Main})
        PROVE  p_refs[u] = HeldTo(u)
    <3>1. u \in AllThreads /\ u # Idle BY Typed
    <3>2. p_refs[u] = HeldTo(u) + 0 BY <3>1 DEF ThreadsFit, Counted, Own
    <3>3. HeldTo(u) \in Nat BY <3>1, Typed, RefsZero, TheRefs
    <3> QED BY <3>2, <3>3
  <2> QED BY <2>1 DEF RefsAreCounted, ThreadsFit, ThreadTypes
<1> QED BY <1>1, ThreadsInvariant, PTL

\* The registry lists every thread from its creation to its exit, a dynamic one
\* until its area is given back, and its links back mirror those forward, up to the
\* exempt uses and between the two stores of a removal.
THEOREM RegistryStaysComplete == ThreadsSpec => []RegistryComplete
<1>1. ThreadsInv => RegistryComplete
  <2> SUFFICES ASSUME ThreadsFit, ~HalfRemoved PROVE RegistryComplete
    BY DEF ThreadsInv, RegistryComplete
  <2>1. Registered = Listed /\ \A t \in Listed \cup {rlist} : p_older[p_newer[t]] = t
    BY WalkAll
  <2> QED BY <2>1 DEF RegistryComplete, Listed, Outside
<1> QED BY <1>1, ThreadsInvariant, PTL

\* A thread waits for the exit of another exactly while it is in its list, none
\* waits for one that has ended, and a joiner that runs again finds the exit code, up
\* to the exempt uses of the registry.
THEOREM JoinersAlwaysWait == ThreadsSpec => []JoinersWait
<1>1. ThreadsInv => JoinersWait
  <2> SUFFICES ASSUME ThreadsFit PROVE JoinersWait
    BY DEF ThreadsInv, JoinersWait
  <2>1. ASSUME NEW t \in AllThreads, call[t] = "join", k.p_state[t] # "WTEXIT"
        PROVE  k.p_state[arg[t]] = "FINAL" /\ arg[t] \notin free
    <3>1. k.p_state[arg[t]] = "FINAL" BY <2>1 DEF ThreadsFit, JoinsFit
    <3>2. arg[t] \in AllThreads /\ Holds(t, arg[t]) /\ t \in Threads
      BY <2>1, Typed DEF ThreadsFit, AreasFit, CallFits
    <3>3. arg[t] \notin free BY <3>2, HeldFacts
    <3> QED BY <3>1, <3>3
  <2> QED BY <2>1 DEF JoinersWait, ThreadsFit, JoinsFit
<1> QED BY <1>1, ThreadsInvariant, PTL

\* A message is in one queue or with one receiver until it is answered; a receiver
\* sleeps only while its queue is empty, and finds a message when it is woken, up to
\* the exempt uses of the registry.
THEOREM MessagesRendezvous == ThreadsSpec => []Rendezvous
<1>1. ThreadsInv => Rendezvous
  <2> SUFFICES ASSUME ThreadsFit PROVE Rendezvous
    BY DEF ThreadsInv, Rendezvous
  <2>1. Threads \subseteq AllThreads BY DEF AllThreads
  <2>2. ASSUME NEW S, NEW A \in BOOLEAN, A => \E u : S = {u}, ~A => S = {}
        PROVE  Cardinality(S) = IF A THEN 1 ELSE 0
    <3>1. CASE A BY <2>2, <3>1, FS_Singleton
    <3>2. CASE ~A BY <2>2, <3>2, FS_EmptySet
    <3> QED BY <3>1, <3>2
  <2>3. ASSUME NEW t \in Threads
        PROVE  Cardinality({u \in Threads : t \in Elems(p_msgqueue[u])}) =
                 IF k.p_state[t] = "SNDMSGQ" THEN 1 ELSE 0
    <3>1. CASE k.p_state[t] = "SNDMSGQ"
      <4>1. PICK u \in Threads : t \in Elems(p_msgqueue[u])
        BY <2>1, <3>1, MessageFacts
      <4>2. \A v \in Threads : t \in Elems(p_msgqueue[v]) => v = u
        BY <2>1, <4>1, MessageFacts
      <4>3. {v \in Threads : t \in Elems(p_msgqueue[v])} = {u} BY <4>1, <4>2
      <4> QED BY <2>2, <3>1, <4>3
    <3>2. CASE k.p_state[t] # "SNDMSGQ"
      <4>1. {v \in Threads : t \in Elems(p_msgqueue[v])} = {}
        BY <2>1, <3>2, MessageFacts
      <4> QED BY <2>2, <3>2, <4>1
    <3> QED BY <3>1, <3>2
  <2>4. ASSUME NEW t \in Threads
        PROVE  Cardinality({u \in Threads : t \in serving[u]}) =
                 IF k.p_state[t] = "SNDMSG" THEN 1 ELSE 0
    <3>1. CASE k.p_state[t] = "SNDMSG"
      <4>1. PICK u \in Threads : t \in serving[u]
        BY <2>1, <3>1, MessageFacts
      <4>2. \A v \in Threads : t \in serving[v] => v = u
        BY <2>1, <4>1, MessageFacts
      <4>3. {v \in Threads : t \in serving[v]} = {u} BY <4>1, <4>2
      <4> QED BY <2>2, <3>1, <4>3
    <3>2. CASE k.p_state[t] # "SNDMSG"
      <4>1. {v \in Threads : t \in serving[v]} = {}
        BY <2>1, <3>2, MessageFacts
      <4> QED BY <2>2, <3>2, <4>1
    <3> QED BY <3>1, <3>2
  <2>5. ASSUME NEW u \in Threads
        PROVE  /\ NoDuplicates(p_msgqueue[u])
               /\ call[u] = "msgwait" =>
                     (k.p_state[u] = "WTMSG" <=> p_msgqueue[u] = <<>>)
    BY <2>1, MessageFacts
  <2> QED BY <2>3, <2>4, <2>5 DEF Rendezvous
<1> QED BY <1>1, ThreadsInvariant, PTL
============================================================================
