------------------------------- MODULE Loops -------------------------------
(***************************************************************************)
(* Facts about loops, which the models write as recursive functions: a     *)
(* loop whose body keeps its state in a set has one, and stays in the set. *)
(***************************************************************************)
EXTENDS Integers, WellFoundedInduction, TLAPS

\* Every non-empty set of naturals has a least element.
LEMMA LeastNat ==
    ASSUME NEW T, T \subseteq Nat, T # {}
    PROVE  \E x \in T : \A y \in T : x <= y
<1>1. \E x \in T : \A y \in T : ~ (<<y, x>> \in OpToRel(<, Nat))
  BY WFMin, NatLessThanWellFounded
<1>2. OpToRel(<, Nat) = {p \in Nat \X Nat : p[1] < p[2]} BY DEF OpToRel
<1>3. \A x, y \in Nat : <<y, x>> \notin {p \in Nat \X Nat : p[1] < p[2]} => x <= y
  OBVIOUS
<1> QED BY <1>1, <1>2, <1>3

\* Every non-empty set of naturals up to n has a greatest element.
LEMMA GreatestNat ==
    ASSUME NEW n \in Nat, NEW T, T \subseteq 0..n, T # {}
    PROVE  \E p \in T : \A q \in T : q <= p
<1> DEFINE Bound == {b \in Nat : \A q \in T : q <= b}
<1>1. n \in Bound OBVIOUS
<1>2. PICK b \in Bound : \A y \in Bound : b <= y
  <2>1. Bound \subseteq Nat /\ Bound # {} BY <1>1
  <2> HIDE DEF Bound
  <2> QED BY LeastNat, <2>1
<1>3. CASE b \in T BY <1>2, <1>3
<1>4. CASE b \notin T
  <2>1. \A q \in T : q \in 0..n /\ q <= b /\ q # b BY <1>2, <1>4
  <2>2. b \in Nat BY <1>2
  <2>3. \A q \in T : q <= b - 1 BY <2>1, <2>2
  <2>4. b # 0
    <3>1. PICK q \in T : TRUE OBVIOUS
    <3> QED BY <2>1, <3>1
  <2>5. b - 1 \in Bound BY <2>2, <2>3, <2>4
  <2> QED BY <1>2, <2>2, <2>5
<1> QED BY <1>3, <1>4

\* f is the recursive function of a loop of n turns with the body F.
IsIteration(f, n, x0, F) ==
    f = [i \in 0..n |-> IF i = 0 THEN x0 ELSE F[<<i, f[i - 1]>>]]

\* f follows the body F as long as the state of the loop is in S.
Follows(f, n, S, x0, F) ==
    /\ f[0] = x0
    /\ \A i \in 1..n : f[i - 1] \in S => f[i] = F[<<i, f[i - 1]>>]

\* A loop of n turns whose body F keeps its state in S: the recursive function
\* that TLA+ writes for it exists, and any such function stays in S.
LEMMA Iteration ==
    ASSUME NEW n \in Nat, NEW S, NEW x0 \in S, NEW F \in [(1..n) \X S -> S]
    PROVE  /\ \E f \in [0..n -> S] : IsIteration(f, n, x0, F)
           /\ \A f : Follows(f, n, S, x0, F) => \A i \in 0..n : f[i] \in S
<1> DEFINE Good(m) == \E f \in [0..m -> S] :
                 f = [i \in 0..m |-> IF i = 0 THEN x0 ELSE F[<<i, f[i - 1]>>]]
<1>1. Good(0)
  <2> DEFINE f == [i \in 0..0 |-> x0]
  <2>1. f \in [0..0 -> S] OBVIOUS
  <2>2. f = [i \in 0..0 |-> IF i = 0 THEN x0 ELSE F[<<i, f[i - 1]>>]] OBVIOUS
  <2> QED BY <2>1, <2>2
<1>2. ASSUME NEW m \in 0..n - 1, Good(m) PROVE Good(m + 1)
  <2>1. PICK f \in [0..m -> S] :
              f = [i \in 0..m |-> IF i = 0 THEN x0 ELSE F[<<i, f[i - 1]>>]]
    BY <1>2
  <2> DEFINE g == [i \in 0..m + 1 |-> IF i = m + 1 THEN F[<<i, f[m]>>] ELSE f[i]]
  <2>2. g \in [0..m + 1 -> S] OBVIOUS
  <2>3. \A i \in 0..m + 1 : g[i] = IF i = 0 THEN x0 ELSE F[<<i, g[i - 1]>>]
    <3> TAKE i \in 0..m + 1
    <3>1. CASE i = m + 1 BY <3>1
    <3>2. CASE i # m + 1
      <4>1. i \in 0..m /\ g[i] = f[i] BY <3>2
      <4>2. i # 0 => g[i - 1] = f[i - 1] BY <4>1
      <4> QED BY <2>1, <4>1, <4>2
    <3> QED BY <3>1, <3>2
  <2>4. g = [i \in 0..m + 1 |-> IF i = 0 THEN x0 ELSE F[<<i, g[i - 1]>>]]
    BY <2>3
  <2> HIDE DEF g
  <2> QED BY <2>2, <2>4
<1>3. Good(n)
  <2> DEFINE Bad == {m \in 0..n : ~ Good(m)}
  <2> SUFFICES Bad = {} OBVIOUS
  <2> SUFFICES ASSUME Bad # {} PROVE FALSE OBVIOUS
  <2> HIDE DEF Good
  <2>1. PICK x \in Bad : \A y \in Bad : x <= y
    <3>1. Bad \subseteq Nat OBVIOUS
    <3> HIDE DEF Bad
    <3> QED BY LeastNat, <3>1
  <2>2. x # 0 BY <1>1, <2>1
  <2>3. x - 1 \in 0..n - 1 /\ x - 1 \notin Bad BY <2>1, <2>2
  <2>4. Good(x) BY <2>3, <1>2, <2>2
  <2> QED BY <2>1, <2>4
<1>4. ASSUME NEW f, f[0] = x0,
             \A i \in 1..n : f[i - 1] \in S => f[i] = F[<<i, f[i - 1]>>]
      PROVE  \A i \in 0..n : f[i] \in S
  <2> DEFINE Bad == {i \in 0..n : f[i] \notin S}
  <2> SUFFICES ASSUME Bad # {} PROVE FALSE OBVIOUS
  <2>1. PICK x \in Bad : \A y \in Bad : x <= y
    <3>1. Bad \subseteq Nat OBVIOUS
    <3> HIDE DEF Bad
    <3> QED BY LeastNat, <3>1
  <2>2. x \in 1..n BY <1>4, <2>1
  <2>3. f[x - 1] \in S BY <2>1, <2>2
  <2> QED BY <1>4, <2>1, <2>2, <2>3
<1> QED BY <1>3, <1>4 DEF IsIteration, Follows

\* Induction over the turns of a loop, for a set of turns.
LEMMA TurnInduction ==
    ASSUME NEW n \in Nat, NEW Good, 0 \in Good,
           \A i \in 1..n : i - 1 \in Good => i \in Good
    PROVE  \A i \in 0..n : i \in Good
<1> DEFINE Bad == {i \in 0..n : i \notin Good}
<1> SUFFICES ASSUME Bad # {} PROVE FALSE OBVIOUS
<1>1. PICK x \in Bad : \A y \in Bad : x <= y
  <2>1. Bad \subseteq Nat OBVIOUS
  <2> HIDE DEF Bad
  <2> QED BY LeastNat, <2>1
<1>2. x \in 1..n BY <1>1
<1>3. x - 1 \in Good BY <1>1, <1>2
<1> QED BY <1>1, <1>2, <1>3
============================================================================
