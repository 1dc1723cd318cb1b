--------------------------- MODULE ChSerialProofs ---------------------------
(***************************************************************************)
(* Theorems about the I/O queues and the serial driver on top of them, for *)
(* any threads, bytes and sizes of the buffers: no thread waits for a byte *)
(* or a place that nobody was woken for, the transmitter does not stop     *)
(* with bytes left to send, and both queues are bounded streams of bytes.  *)
(***************************************************************************)
EXTENDS ChSerial, ChSchedProofs

----------------------------------------------------------------------------
(* The buffer *)

Places(x) == 0..(Size[x] - 1)

QueueStates(x) ==
    [q_waiting : Seq(Threads), q_counter : 0..Size[x],
     q_buffer : [Places(x) -> Bytes[x] \cup {NULL}],
     q_rdptr : Places(x), q_wrptr : Places(x)]

\* The bytes in the buffer g of a queue of the kind x.
Fill(x, g) == IF x = "iq" THEN g.q_counter ELSE Size[x] - g.q_counter

Wrap(x, i) == IF i < Size[x] THEN i ELSE i - Size[x]

\* The pointers are as far apart as the counter says.
InStep(x, g) == g.q_wrptr = Wrap(x, g.q_rdptr + Fill(x, g))

Stored(x, g) == [i \in 1..Fill(x, g) |-> g.q_buffer[(g.q_rdptr + i - 1) % Size[x]]]

LEMMA QueueFacts ==
    ASSUME NEW x \in Queues
    PROVE  /\ Size[x] \in Nat /\ Size[x] > 0
           /\ x = "iq" \/ x = "oq"
BY QueuesAssumption DEF Queues

LEMMA GoesAround ==
    ASSUME NEW x \in Queues, NEW i \in Places(x), NEW j \in 0..Size[x]
    PROVE  /\ (i + j) % Size[x] = Wrap(x, i + j)
           /\ Wrap(x, i + j) \in Places(x)
<1> DEFINE n == Size[x]
<1>1. n \in Nat /\ n > 0 /\ i \in 0..(n - 1) /\ j \in 0..n BY QueueFacts DEF Places
<1>2. Wrap(x, i + j) = IF i + j < n THEN i + j ELSE i + j - n BY <1>1 DEF Wrap
<1> HIDE DEF n
<1>3. CASE i + j < n
  <2>1. i + j \in 0..(n - 1) BY <1>1, <1>3
  <2>2. (i + j) % n = i + j BY <1>1, <2>1
  <2> QED BY <1>2, <1>3, <2>1, <2>2 DEF Places, n
<1>4. CASE ~(i + j < n)
  <2>1. i + j \in n..(2 * n - 1) BY <1>1, <1>4
  <2>2. (i + j) % n = i + j - n BY <1>1, <2>1
  <2>3. i + j - n \in 0..(n - 1) BY <1>1, <1>4
  <2> QED BY <1>2, <1>4, <2>2, <2>3 DEF Places, n
<1> QED BY <1>3, <1>4

LEMMA StoredType ==
    ASSUME NEW x \in Queues, NEW g \in QueueStates(x)
    PROVE  /\ Fill(x, g) \in 0..Size[x]
           /\ Stored(x, g) \in Seq(Bytes[x] \cup {NULL})
           /\ Len(Stored(x, g)) = Fill(x, g)
           /\ \A i \in 1..Fill(x, g) :
                 /\ Wrap(x, g.q_rdptr + (i - 1)) \in Places(x)
                 /\ Stored(x, g)[i] = g.q_buffer[Wrap(x, g.q_rdptr + (i - 1))]
<1> DEFINE n == Fill(x, g)
           B == Bytes[x] \cup {NULL}
<1>1. /\ g.q_counter \in 0..Size[x] /\ g.q_rdptr \in Places(x)
      /\ g.q_buffer \in [Places(x) -> B]
  BY DEF QueueStates
<1>2. n \in 0..Size[x] /\ n \in Nat BY <1>1, QueueFacts DEF Fill
<1> HIDE DEF n, B
<1>3. \A i \in 1..n :
         /\ Wrap(x, g.q_rdptr + (i - 1)) \in Places(x)
         /\ (g.q_rdptr + i - 1) % Size[x] = Wrap(x, g.q_rdptr + (i - 1))
  <2> TAKE i \in 1..n
  <2>1. i - 1 \in 0..Size[x] BY <1>2, QueueFacts
  <2>2. g.q_rdptr + i - 1 = g.q_rdptr + (i - 1) BY <1>1, <1>2, QueueFacts DEF Places
  <2> QED BY <1>1, <2>1, <2>2, GoesAround
<1>4. \A i \in 1..n : Stored(x, g)[i] = g.q_buffer[Wrap(x, g.q_rdptr + (i - 1))]
  BY <1>3 DEF Stored, n
<1>5. Stored(x, g) \in [1..n -> B]
  <2>1. \A i \in 1..n : Stored(x, g)[i] \in B BY <1>1, <1>3, <1>4
  <2> QED BY <2>1 DEF Stored, n
<1>6. Stored(x, g) \in Seq(B) /\ Len(Stored(x, g)) = n BY <1>2, <1>5
<1> QED BY <1>2, <1>3, <1>4, <1>6 DEF n, B

\* A handler is stopped only by a full input queue or an empty output queue.
LEMMA BlockedAtLimit ==
    ASSUME NEW x \in Queues, NEW g \in QueueStates(x), InStep(x, g)
    PROVE  IsrBlocked(g) <=> g.q_counter = Size[x]
<1>1. /\ Size[x] \in Nat /\ Size[x] > 0 /\ (x = "iq" \/ x = "oq")
      /\ g.q_counter \in 0..Size[x]
      /\ g.q_rdptr \in 0..(Size[x] - 1) /\ g.q_wrptr \in 0..(Size[x] - 1)
  BY QueueFacts DEF QueueStates, Places
<1>2. g.q_wrptr = Wrap(x, g.q_rdptr + Fill(x, g)) BY DEF InStep
<1>3. CASE x = "iq" BY <1>1, <1>2, <1>3 DEF Fill, Wrap, IsrBlocked
<1>4. CASE x = "oq" BY <1>1, <1>2, <1>4 DEF Fill, Wrap, IsrBlocked
<1> QED BY <1>1, <1>3, <1>4

\* A byte is written behind the others.
LEMMA ByteIn ==
    ASSUME NEW x \in Queues, NEW g \in QueueStates(x), NEW h \in QueueStates(x),
           InStep(x, g), Fill(x, g) < Size[x], NEW b \in Bytes[x],
           h.q_buffer = [g.q_buffer EXCEPT ![g.q_wrptr] = b],
           h.q_wrptr = Following(x, g.q_wrptr), h.q_rdptr = g.q_rdptr,
           Fill(x, h) = Fill(x, g) + 1
    PROVE  InStep(x, h) /\ Stored(x, h) = Append(Stored(x, g), b)
<1> DEFINE n == Size[x]
           u == Fill(x, g)
           r == g.q_rdptr
           w == g.q_wrptr
           B == Bytes[x] \cup {NULL}
           p(j) == Wrap(x, r + j)
<1>1. /\ n \in Nat /\ n > 0 /\ u \in 0..n /\ u < n /\ u + 1 \in 0..n
      /\ r \in 0..(n - 1) /\ w \in 0..(n - 1) /\ w = p(u)
      /\ g.q_buffer \in [0..(n - 1) -> B] /\ b \in B
  <2>1. u \in 0..n /\ n \in Nat /\ n > 0 BY QueueFacts, StoredType
  <2>2. /\ r \in Places(x) /\ w \in Places(x) /\ g.q_buffer \in [Places(x) -> B]
    BY DEF QueueStates
  <2>3. u < n OBVIOUS
  <2> HIDE DEF n, u
  <2>4. u + 1 \in 0..n BY <2>1, <2>3
  <2> QED BY <2>1, <2>2, <2>3, <2>4 DEF Places, InStep, n, u
<1>2. \A j \in 0..n : /\ p(j) = IF r + j < n THEN r + j ELSE r + j - n
                     /\ p(j) \in 0..(n - 1)
  <2> TAKE j \in 0..n
  <2>1. p(j) \in Places(x) BY <1>1, GoesAround DEF Places
  <2>2. p(j) = IF r + j < n THEN r + j ELSE r + j - n BY <1>1 DEF Wrap
  <2> QED BY <2>1, <2>2 DEF Places
<1>3. Following(x, w) = IF w + 1 < n THEN w + 1 ELSE 0 BY <1>1 DEF Following
<1>4. /\ h.q_buffer = [g.q_buffer EXCEPT ![w] = b] /\ h.q_rdptr = r
      /\ h.q_wrptr = Following(x, w) /\ Fill(x, h) = u + 1
  OBVIOUS
<1> HIDE DEF n, u, r, w, p, B
<1>5. Following(x, w) = p(u + 1)
  <2>1. p(u) = IF r + u < n THEN r + u ELSE r + u - n BY <1>1, <1>2
  <2>2. p(u + 1) = IF r + (u + 1) < n THEN r + (u + 1) ELSE r + (u + 1) - n
    BY <1>1, <1>2
  <2> QED BY <1>1, <1>3, <2>1, <2>2
<1>6. InStep(x, h) BY <1>4, <1>5 DEF InStep, p
<1>7. \A i \in 1..u : h.q_buffer[p(i - 1)] = g.q_buffer[p(i - 1)]
  <2> TAKE i \in 1..u
  <2>1. i - 1 \in 0..n /\ i - 1 < u /\ i \in Int BY <1>1
  <2>2. p(i - 1) = IF r + (i - 1) < n THEN r + (i - 1) ELSE r + (i - 1) - n
    BY <1>2, <2>1
  <2>3. w = IF r + u < n THEN r + u ELSE r + u - n BY <1>1, <1>2
  <2>4. p(i - 1) # w BY <1>1, <2>1, <2>2, <2>3
  <2>5. p(i - 1) \in 0..(n - 1) BY <1>2, <2>1
  <2> QED BY <1>1, <1>4, <2>4, <2>5
<1>8. h.q_buffer[p(u)] = b BY <1>1, <1>4
<1> DEFINE s == Stored(x, g)
           z == Stored(x, h)
           y == Append(s, b)
<1>9. /\ s \in Seq(B) /\ Len(s) = u
      /\ \A i \in 1..u : s[i] = g.q_buffer[p(i - 1)]
  BY StoredType DEF B, u, p, r
<1>10. /\ z \in Seq(B) /\ Len(z) = u + 1
       /\ \A i \in 1..(u + 1) : z[i] = h.q_buffer[p(i - 1)]
  <2>1. /\ z \in Seq(B) /\ Len(z) = Fill(x, h)
        /\ \A i \in 1..Fill(x, h) : z[i] = h.q_buffer[Wrap(x, h.q_rdptr + (i - 1))]
    BY StoredType DEF B
  <2> HIDE DEF z
  <2> QED BY <1>4, <2>1 DEF p
<1> HIDE DEF s, z
<1>11. /\ y \in Seq(B) /\ Len(y) = u + 1 /\ y[u + 1] = b
       /\ \A i \in 1..u : y[i] = s[i]
  BY <1>1, <1>9, AppendProperties
<1> HIDE DEF y
<1>12. ASSUME NEW i \in 1..(u + 1) PROVE z[i] = y[i]
  <2>1. CASE i \in 1..u
    <3>1. z[i] = h.q_buffer[p(i - 1)] BY <1>10
    <3>2. y[i] = g.q_buffer[p(i - 1)] BY <1>9, <1>11, <2>1
    <3> QED BY <1>7, <2>1, <3>1, <3>2
  <2>2. CASE i \notin 1..u
    <3>1. i = u + 1 /\ i - 1 = u BY <1>1, <2>2
    <3>2. z[i] = h.q_buffer[p(u)] BY <1>10, <3>1
    <3> QED BY <1>8, <1>11, <3>1, <3>2
  <2> QED BY <2>1, <2>2
<1>13. z = y BY <1>10, <1>11, <1>12, SeqEqual
<1> QED BY <1>6, <1>13 DEF s, z, y

\* The oldest byte is read.
LEMMA ByteOut ==
    ASSUME NEW x \in Queues, NEW g \in QueueStates(x), NEW h \in QueueStates(x),
           InStep(x, g), Fill(x, g) > 0,
           h.q_buffer = g.q_buffer,
           h.q_wrptr = g.q_wrptr, h.q_rdptr = Following(x, g.q_rdptr),
           Fill(x, h) = Fill(x, g) - 1
    PROVE  /\ InStep(x, h)
           /\ Stored(x, g) # <<>>
           /\ Head(Stored(x, g)) = g.q_buffer[g.q_rdptr]
           /\ Stored(x, h) = Tail(Stored(x, g))
<1> DEFINE n == Size[x]
           u == Fill(x, g)
           r == g.q_rdptr
           w == g.q_wrptr
           r1 == Following(x, r)
           B == Bytes[x] \cup {NULL}
           p(j) == Wrap(x, r + j)
           p1(j) == Wrap(x, r1 + j)
<1>1. /\ n \in Nat /\ n > 0 /\ u \in 0..n /\ u > 0 /\ u - 1 \in 0..n
      /\ r \in 0..(n - 1) /\ w \in 0..(n - 1) /\ w = p(u)
      /\ r1 \in 0..(n - 1)
  <2>1. u \in 0..n /\ n \in Nat /\ n > 0 BY QueueFacts, StoredType
  <2>2. r \in Places(x) /\ w \in Places(x) /\ r1 \in Places(x)
    BY DEF QueueStates
  <2>3. u > 0 OBVIOUS
  <2> HIDE DEF n, u, r1
  <2>4. u - 1 \in 0..n BY <2>1, <2>3
  <2> QED BY <2>1, <2>2, <2>3, <2>4 DEF Places, InStep, n, u
<1>2. r1 = IF r + 1 < n THEN r + 1 ELSE 0 BY <1>1 DEF Following
<1>3. /\ h.q_buffer = g.q_buffer /\ h.q_wrptr = w /\ h.q_rdptr = r1
      /\ Fill(x, h) = u - 1
  OBVIOUS
<1> HIDE DEF r1
<1>4. \A j \in 0..n : /\ p(j) = IF r + j < n THEN r + j ELSE r + j - n
                     /\ p1(j) = IF r1 + j < n THEN r1 + j ELSE r1 + j - n
  BY <1>1 DEF Wrap
<1> HIDE DEF n, u, r, w, p, p1, B
<1>5. \A j \in 0..(u - 1) : p1(j) = p(j + 1)
  <2> TAKE j \in 0..(u - 1)
  <2>1. j \in 0..n /\ j + 1 \in 0..n /\ j \in Int /\ 0 <= j /\ j < u BY <1>1
  <2>2. p1(j) = IF r1 + j < n THEN r1 + j ELSE r1 + j - n BY <1>4, <2>1
  <2>3. p(j + 1) = IF r + (j + 1) < n THEN r + (j + 1) ELSE r + (j + 1) - n
    BY <1>4, <2>1
  <2> QED BY <1>1, <1>2, <2>1, <2>2, <2>3
<1>6. InStep(x, h)
  <2>1. u - 1 \in 0..(u - 1) /\ (u - 1) + 1 = u BY <1>1
  <2>2. p1(u - 1) = w BY <1>1, <1>5, <2>1
  <2> QED BY <1>3, <2>2 DEF InStep, p1
<1> DEFINE s == Stored(x, g)
           z == Stored(x, h)
<1>7. /\ s \in Seq(B) /\ Len(s) = u
      /\ \A i \in 1..u : s[i] = g.q_buffer[p(i - 1)]
  BY StoredType DEF B, u, p, r
<1>8. /\ z \in Seq(B) /\ Len(z) = u - 1
      /\ \A i \in 1..(u - 1) : z[i] = g.q_buffer[p1(i - 1)]
  <2>1. /\ z \in Seq(B) /\ Len(z) = Fill(x, h)
        /\ \A i \in 1..Fill(x, h) : z[i] = h.q_buffer[Wrap(x, h.q_rdptr + (i - 1))]
    BY StoredType DEF B
  <2> HIDE DEF z
  <2> QED BY <1>3, <2>1 DEF p1
<1> HIDE DEF s, z
<1>9. s # <<>> /\ Head(s) = s[1] BY <1>1, <1>7
<1>10. Head(s) = g.q_buffer[r]
  <2>1. 1 \in 1..u /\ 1 - 1 = 0 /\ 0 \in 0..n BY <1>1
  <2>2. p(0) = r
    <3>1. p(0) = IF r + 0 < n THEN r + 0 ELSE r + 0 - n BY <1>4, <2>1
    <3> QED BY <1>1, <3>1
  <2>3. s[1] = g.q_buffer[p(0)] BY <1>7, <2>1
  <2> QED BY <1>9, <2>2, <2>3
<1>11. /\ Tail(s) \in Seq(B) /\ Len(Tail(s)) = u - 1
       /\ \A i \in 1..(u - 1) : Tail(s)[i] = s[i + 1]
  BY <1>7, <1>9, HeadTailProperties
<1>12. ASSUME NEW i \in 1..(u - 1) PROVE z[i] = Tail(s)[i]
  <2>1. i + 1 \in 1..u /\ i - 1 \in 0..(u - 1) /\ (i - 1) + 1 = i /\ (i + 1) - 1 = i
    BY <1>1
  <2>2. p1(i - 1) = p(i) BY <1>5, <2>1
  <2>3. s[i + 1] = g.q_buffer[p(i)] BY <1>7, <2>1
  <2>4. z[i] = g.q_buffer[p1(i - 1)] BY <1>8
  <2> QED BY <1>11, <2>2, <2>3, <2>4
<1>13. z = Tail(s) BY <1>8, <1>11, <1>12, SeqEqual
<1> QED BY <1>6, <1>9, <1>10, <1>13 DEF s, z, r

----------------------------------------------------------------------------
(* Threads, their calls and the queues *)

Messages == {"Q_OK", "Q_TIMEOUT", "Q_RESET", NULL}

\* A thread in the state of s with the call of c is in the queue f says: exactly
\* a thread that sleeps is in a queue, the one of its call.
ThreadFits(s, f, c, t) ==
    /\ s.p_state[t] \in Runnable \cup {"WTQUEUE"}
    /\ s.p_state[t] = "WTQUEUE" => c[t].at = "wait"
    /\ \A x \in Queues : t \in Elems(f[x].q_waiting) <=>
                          s.p_state[t] = "WTQUEUE" /\ c[t].x = x

\* The threads that were woken for a byte or a place of x and have not run since.
Woken(s, m, c, x) ==
    {t \in Threads : /\ c[t].at = "wait" /\ c[t].x = x
                     /\ s.p_state[t] \in Runnable /\ m[t] = "Q_OK"}

Served(s, m, g, c, x) ==
    g.q_waiting # <<>> => g.q_counter <= Cardinality(Woken(s, m, c, x))

QueueOK(x, g) ==
    /\ g \in QueueStates(x)
    /\ InStep(x, g)
    /\ NoDuplicates(g.q_waiting)

\* What every service keeps of the scheduler state s, the messages m, the
\* queues f and the calls c.
QueueInv(s, m, f, c) ==
    /\ SchedInv(s)
    /\ m \in [AllThreads -> Messages]
    /\ c \in [AllThreads -> Calls \cup {NoCall}] /\ c[Idle] = NoCall
    /\ f = [x \in Queues |-> f[x]]
    /\ \A x \in Queues : QueueOK(x, f[x])
    /\ \A t \in AllThreads : ThreadFits(s, f, c, t)
    /\ \A x \in Queues : Served(s, m, f[x], c, x)

\* Counting threads: V has all of W but perhaps t.
LEMMA FewerByOne ==
    ASSUME NEW W, NEW V, W \subseteq Threads, V \subseteq Threads,
           NEW t, W \ {t} \subseteq V
    PROVE  /\ Cardinality(W) \in Nat /\ Cardinality(V) \in Nat
           /\ Cardinality(W) - 1 <= Cardinality(V)
           /\ t \notin W => Cardinality(W) <= Cardinality(V)
<1>1. IsFiniteSet(Threads) BY SchedAssumption
<1>2. IsFiniteSet(W) /\ IsFiniteSet(V) BY <1>1, FS_Subset
<1>3. Cardinality(W) \in Nat /\ Cardinality(V) \in Nat BY <1>2, FS_CardinalityType
<1>4. CASE t \in W
  <2>1. /\ Cardinality(W \ {t}) = Cardinality(W) - 1
    BY <1>2, <1>4, FS_RemoveElement
  <2>2. Cardinality(W \ {t}) <= Cardinality(V) BY <1>2, FS_Subset
  <2> QED BY <1>3, <1>4, <2>1, <2>2
<1>5. CASE t \notin W
  <2>1. W \in SUBSET V BY <1>5
  <2>2. Cardinality(W) <= Cardinality(V) BY <1>2, <2>1, FS_Subset
  <2> QED BY <1>3, <2>2
<1> QED BY <1>4, <1>5

\* V has all of W and t in addition.
LEMMA OneMore ==
    ASSUME NEW W, NEW V, V \subseteq Threads, NEW t, t \notin W, W \cup {t} \subseteq V
    PROVE  Cardinality(W) \in Nat /\ Cardinality(W) + 1 <= Cardinality(V)
<1>1. IsFiniteSet(V) BY SchedAssumption, FS_Subset
<1>2. IsFiniteSet(W) BY <1>1, FS_Subset
<1>3. Cardinality(W \cup {t}) = Cardinality(W) + 1 BY <1>2, FS_AddElement
<1>4. Cardinality(W \cup {t}) <= Cardinality(V) BY <1>1, FS_Subset
<1> QED BY <1>2, <1>3, <1>4, FS_CardinalityType

LEMMA CallFacts ==
    /\ NoCall \notin Calls
    /\ \A c \in Calls : /\ c.at \in {"wait", "more"} /\ c.x \in Queues
                        /\ c.n \in 1..MaxN /\ c.time \in Times
BY DEF NoCall, Calls

\* A thread that waits in a call is one of the application's.
LEMMA WaitersAreThreads ==
    ASSUME NEW s, NEW m, NEW f, NEW c, QueueInv(s, m, f, c), NEW t \in AllThreads
    PROVE  /\ c[t].at = "wait" => t \in Threads /\ c[t] \in Calls
           /\ \A x \in Queues : t \in Elems(f[x].q_waiting) => t \in Threads
<1>1. NoCall.at # "wait" BY DEF NoCall
<1>2. c[t].at = "wait" => t \in Threads /\ c[t] \in Calls
  BY <1>1 DEF QueueInv, AllThreads
<1>3. ThreadFits(s, f, c, t) BY DEF QueueInv
<1> QED BY <1>2, <1>3 DEF ThreadFits

\* Two states of a buffer, apart from who waits.
SameBuffer(g, h) ==
    /\ h.q_counter = g.q_counter /\ h.q_buffer = g.q_buffer
    /\ h.q_rdptr = g.q_rdptr /\ h.q_wrptr = g.q_wrptr

LEMMA SameBufferOK ==
    ASSUME NEW x \in Queues, NEW g \in QueueStates(x), InStep(x, g), NEW h,
           SameBuffer(g, h), h.q_waiting \in Seq(Threads),
           h = [q_waiting |-> h.q_waiting, q_counter |-> h.q_counter,
                q_buffer |-> h.q_buffer, q_rdptr |-> h.q_rdptr, q_wrptr |-> h.q_wrptr]
    PROVE  /\ h \in QueueStates(x) /\ InStep(x, h)
           /\ Stored(x, h) = Stored(x, g) /\ Fill(x, h) = Fill(x, g)
<1>1. h \in QueueStates(x) BY DEF QueueStates, SameBuffer
<1> QED BY <1>1 DEF SameBuffer, InStep, Fill, Stored

\* The queue g with the threads w waiting.
LEMMA OtherWaiters ==
    ASSUME NEW x \in Queues, NEW g \in QueueStates(x), NEW w \in Seq(Threads), NEW h,
           h = [g EXCEPT !.q_waiting = w]
    PROVE  /\ SameBuffer(g, h) /\ h.q_waiting = w
           /\ h = [q_waiting |-> h.q_waiting, q_counter |-> h.q_counter,
                   q_buffer |-> h.q_buffer, q_rdptr |-> h.q_rdptr, q_wrptr |-> h.q_wrptr]
BY DEF QueueStates, SameBuffer

\* The function f with another value at x.
With(f, x, v) == [f EXCEPT ![x] = v]

\* A waiting thread is taken out of the queue x, which is h behind it, and made
\* ready with the message msg: for one byte or place more, or for none.
LEMMA Wakes ==
    ASSUME NEW x \in Queues, NEW s, NEW m, NEW f, NEW c, QueueInv(s, m, f, c),
           NEW t \in Elems(f[x].q_waiting), NEW msg \in Messages,
           NEW h, QueueOK(x, h), Elems(h.q_waiting) = Elems(f[x].q_waiting) \ {t},
           \/ msg = "Q_OK" /\ h.q_counter = f[x].q_counter + 1
           \/ h.q_counter = f[x].q_counter,
           NEW s1, s1 = chSchReadyI(s, t), NEW m1, m1 = With(m, t, msg),
           NEW f1, f1 = With(f, x, h)
    PROVE  QueueInv(s1, m1, f1, c) /\ s1.r_current = s.r_current
<1>1. /\ SchedInv(s) /\ m \in [AllThreads -> Messages]
      /\ f = [y \in Queues |-> f[y]]
      /\ \A y \in Queues : QueueOK(y, f[y]) /\ Served(s, m, f[y], c, y)
      /\ \A u \in AllThreads : ThreadFits(s, f, c, u)
  BY DEF QueueInv
<1>2. t \in AllThreads
  <2>1. f[x].q_waiting \in Seq(Threads) BY <1>1 DEF QueueOK, QueueStates
  <2> QED BY <2>1 DEF Elems, AllThreads
<1>3. s.p_state[t] = "WTQUEUE" /\ c[t].x = x /\ c[t].at = "wait" /\ t \in Threads
  BY <1>1, <1>2, WaitersAreThreads DEF ThreadFits
<1>4. /\ SchedInv(s1) /\ Keeps(s, s1, {t}) /\ s1.p_state[t] = "READY"
      /\ s1.r_current = s.r_current
  <2>1. s.p_state[t] \notin Runnable BY <1>3 DEF Runnable
  <2> QED BY <1>1, <1>2, <2>1, ReadyI
<1>5. /\ m1 \in [AllThreads -> Messages] /\ m1[t] = msg
      /\ \A u \in AllThreads \ {t} : m1[u] = m[u]
  BY <1>1, <1>2 DEF With
<1>6. /\ f1 = [y \in Queues |-> f1[y]] /\ f1[x] = h
      /\ \A y \in Queues \ {x} : f1[y] = f[y]
  BY <1>1 DEF With
<1>7. ASSUME NEW u \in AllThreads PROVE ThreadFits(s1, f1, c, u)
  <2>1. CASE u = t
    <3>1. ASSUME NEW y \in Queues PROVE t \notin Elems(f1[y].q_waiting)
      BY <1>1, <1>2, <1>3, <1>6 DEF ThreadFits
    <3> QED BY <1>4, <2>1, <3>1 DEF ThreadFits, Runnable
  <2>2. CASE u # t
    <3>1. \/ s1.p_state[u] = s.p_state[u]
          \/ s1.p_state[u] \in Runnable /\ s.p_state[u] \in Runnable
      BY <1>4, <2>2 DEF Keeps
    <3>2. ThreadFits(s, f, c, u) BY <1>1
    <3>3. \A y \in Queues : u \in Elems(f1[y].q_waiting) <=> u \in Elems(f[y].q_waiting)
      BY <1>6, <2>2
    <3>4. "WTQUEUE" \notin Runnable BY DEF Runnable
    <3> QED BY <3>1, <3>2, <3>3, <3>4 DEF ThreadFits
  <2> QED BY <2>1, <2>2
<1>8. \A y \in Queues : QueueOK(y, f1[y]) BY <1>1, <1>6
<1>9. ASSUME NEW y \in Queues PROVE Served(s1, m1, f1[y], c, y)
  <2> DEFINE W == Woken(s, m, c, y)
             V == Woken(s1, m1, c, y)
  <2>1. V \subseteq Threads /\ W \subseteq Threads BY DEF Woken
  <2>2. W \subseteq V /\ t \notin W
    <3>1. t \notin W BY <1>3 DEF Woken, Runnable
    <3>2. ASSUME NEW u \in W PROVE u \in V
      <4>1. u # t /\ u \in AllThreads BY <3>1 DEF Woken, AllThreads
      <4>2. s.p_state[u] \in Runnable => s1.p_state[u] \in Runnable
        BY <1>4, <4>1 DEF Keeps
      <4> QED BY <1>5, <4>1, <4>2 DEF Woken
    <3> QED BY <3>1, <3>2
  <2>3. Cardinality(W) \in Nat /\ Cardinality(V) \in Nat
        /\ Cardinality(W) <= Cardinality(V)
    <3> HIDE DEF W, V
    <3>1. W \ {t} \subseteq V BY <2>2
    <3> QED BY <2>1, <2>2, <3>1, FewerByOne
  <2>4. CASE y # x
    <3>1. f1[y] = f[y] /\ Served(s, m, f[y], c, y) BY <1>1, <1>6, <2>4
    <3>2. f[y].q_counter \in Int BY <1>1, QueueFacts DEF QueueOK, QueueStates
    <3> HIDE DEF W, V
    <3> QED BY <2>3, <3>1, <3>2 DEF Served, W, V
  <2>5. CASE y = x
    <3> SUFFICES h.q_counter <= Cardinality(V) BY <1>6, <2>5 DEF Served
    <3>1. f[x].q_counter \in Int BY <1>1, QueueFacts DEF QueueOK, QueueStates
    <3>2. f[x].q_waiting # <<>>
      <4>1. Elems(<<>>) = {} BY DEF Elems
      <4> QED BY <4>1
    <3>3. f[x].q_counter <= Cardinality(W) BY <1>1, <2>5, <3>2 DEF Served
    <3>4. CASE msg = "Q_OK" /\ h.q_counter = f[x].q_counter + 1
      <4>1. t \in V BY <1>3, <1>4, <1>5, <2>5, <3>4 DEF Woken, Runnable
      <4>2. W \cup {t} \subseteq V BY <2>2, <4>1
      <4> HIDE DEF W, V
      <4>3. Cardinality(W) + 1 <= Cardinality(V) BY <2>1, <2>2, <4>2, OneMore
      <4> QED BY <2>3, <3>1, <3>3, <3>4, <4>3
    <3>5. CASE h.q_counter = f[x].q_counter
      <4> HIDE DEF W, V
      <4> QED BY <2>3, <3>1, <3>3, <3>5
    <3> QED BY <3>4, <3>5
  <2> QED BY <2>4, <2>5
<1>10. QueueInv(s1, m1, f1, c)
  BY <1>4, <1>5, <1>6, <1>7, <1>8, <1>9 DEF QueueInv
<1> QED BY <1>4, <1>10

\* A byte or a place more at the queue x: the first thread that waits is woken.
LEMMA WakeOneOK ==
    ASSUME NEW x \in Queues, NEW s, NEW m, NEW f, NEW c, QueueInv(s, m, f, c),
           NEW g \in QueueStates(x), InStep(x, g), g.q_waiting = f[x].q_waiting,
           g.q_counter = f[x].q_counter + 1,
           NEW n, n = [s |-> s, m |-> m, q |-> [f EXCEPT ![x] = g]]
    PROVE  LET r == WakeOne(n, x)
           IN /\ QueueInv(r.s, r.m, r.q, c) /\ r.s.r_current = s.r_current
              /\ \A y \in Queues \ {x} : r.q[y] = f[y]
              /\ SameBuffer(g, r.q[x])
<1> DEFINE r == WakeOne(n, x)
           w == f[x].q_waiting
           f0 == [f EXCEPT ![x] = g]
<1>1. /\ f = [y \in Queues |-> f[y]]
      /\ \A y \in Queues : QueueOK(y, f[y])
  BY DEF QueueInv
<1>2. w \in Seq(Threads) /\ NoDuplicates(w) BY <1>1 DEF QueueOK, QueueStates
<1>3. /\ n.s = s /\ n.m = m /\ n.q = f0 /\ n.q[x] = g
      /\ f0[x] = g /\ \A y \in Queues \ {x} : f0[y] = f[y]
      /\ f0 = [y \in Queues |-> f0[y]]
  BY <1>1
<1> HIDE DEF f0
<1>4. CASE w = <<>>
  <2>1. r = n BY <1>3, <1>4 DEF WakeOne
  <2>2. QueueOK(x, g) BY <1>2 DEF QueueOK
  <2>3. QueueInv(s, m, f0, c)
    <3>1. \A y \in Queues : QueueOK(y, f0[y]) BY <1>1, <1>3, <2>2
    <3>2. \A t \in AllThreads : ThreadFits(s, f0, c, t)
      <4>1. \A y \in Queues : f0[y].q_waiting = f[y].q_waiting BY <1>3
      <4> QED BY <4>1 DEF QueueInv, ThreadFits
    <3>3. \A y \in Queues : Served(s, m, f0[y], c, y)
      BY <1>3, <1>4 DEF QueueInv, Served
    <3> QED BY <1>3, <3>1, <3>2, <3>3 DEF QueueInv
  <2>4. SameBuffer(g, g) BY DEF SameBuffer
  <2> QED BY <1>3, <2>1, <2>3, <2>4
<1>5. CASE w # <<>>
  <2> DEFINE t == Head(w)
             v == Tail(w)
             h == [g EXCEPT !.q_waiting = v]
  <2>1. /\ t \in Elems(w) /\ Tail(w) \in Seq(Threads) /\ NoDuplicates(Tail(w))
        /\ Elems(Tail(w)) = Elems(w) \ {t}
    BY <1>2, <1>5, HeadTail
  <2>2. r = [s |-> chSchReadyI(s, t), m |-> [m EXCEPT ![t] = "Q_OK"],
             q |-> [f0 EXCEPT ![x].q_waiting = Tail(w)]]
    BY <1>3, <1>5 DEF WakeOne
  <2>3. [f0 EXCEPT ![x].q_waiting = Tail(w)] = [f EXCEPT ![x] = h]
    BY <1>1 DEF f0
  <2> HIDE DEF t, h
  <2>4. SameBuffer(g, h) /\ h.q_waiting = Tail(w) /\ QueueOK(x, h)
    <3>1. /\ SameBuffer(g, h) /\ h.q_waiting = Tail(w)
          /\ h = [q_waiting |-> h.q_waiting, q_counter |-> h.q_counter,
                  q_buffer |-> h.q_buffer, q_rdptr |-> h.q_rdptr, q_wrptr |-> h.q_wrptr]
      <4>1. v \in Seq(Threads) /\ h = [g EXCEPT !.q_waiting = v] BY <2>1 DEF h
      <4> HIDE DEF v
      <4>2. /\ SameBuffer(g, h) /\ h.q_waiting = v
            /\ h = [q_waiting |-> h.q_waiting, q_counter |-> h.q_counter,
                    q_buffer |-> h.q_buffer, q_rdptr |-> h.q_rdptr,
                    q_wrptr |-> h.q_wrptr]
        BY <4>1, OtherWaiters
      <4> QED BY <4>2 DEF v
    <3>2. h \in QueueStates(x) /\ InStep(x, h) BY <2>1, <3>1, SameBufferOK
    <3> QED BY <2>1, <3>1, <3>2 DEF QueueOK
  <2>5. h.q_counter = f[x].q_counter + 1 BY <2>4 DEF SameBuffer
  <2>6. "Q_OK" \in Messages BY DEF Messages
  <2> HIDE DEF r
  <2>7. r.s = chSchReadyI(s, t) /\ r.m = With(m, t, "Q_OK") /\ r.q = With(f, x, h)
    BY <2>2, <2>3 DEF With
  <2>8. QueueInv(r.s, r.m, r.q, c) /\ r.s.r_current = s.r_current
    <3>1. t \in Elems(f[x].q_waiting) BY <2>1
    <3>2. Elems(h.q_waiting) = Elems(f[x].q_waiting) \ {t} BY <2>1, <2>4
    <3> HIDE DEF w
    <3>3. /\ x \in Queues /\ QueueInv(s, m, f, c) /\ "Q_OK" \in Messages
          /\ QueueOK(x, h) /\ h.q_counter = f[x].q_counter + 1
      BY <2>4, <2>5, <2>6
    <3> QED BY ONLY <2>7, <3>1, <3>2, <3>3, Wakes
  <2>9. r.q[x] = h /\ \A y \in Queues \ {x} : r.q[y] = f[y] BY <1>1, <2>7 DEF With
  <2>10. /\ QueueInv(r.s, r.m, r.q, c) /\ r.s.r_current = s.r_current
         /\ \A y \in Queues \ {x} : r.q[y] = f[y]
         /\ SameBuffer(g, r.q[x])
    BY <2>4, <2>8, <2>9
  <2> QED BY <2>10 DEF r
<1> QED BY <1>4, <1>5

\* A view on the kernel is a record of the three.
IsView(n) == n = [s |-> n.s, m |-> n.m, q |-> n.q]

\* chIQPutI(): a full queue refuses the byte.
LEMMA PutOK ==
    ASSUME NEW s, NEW m, NEW f, NEW c, QueueInv(s, m, f, c), NEW b \in Bytes["iq"],
           NEW n, n = [s |-> s, m |-> m, q |-> f], NEW r, r = chIQPutI(n, b)
    PROVE  /\ QueueInv(r.s, r.m, r.q, c) /\ r.s.r_current = s.r_current /\ IsView(r)
           /\ r.q["oq"] = f["oq"]
           /\ IF IsrBlocked(f["iq"])
              THEN r = n /\ Len(Stored("iq", f["iq"])) = Size["iq"]
              ELSE /\ Len(Stored("iq", f["iq"])) < Size["iq"]
                   /\ Stored("iq", r.q["iq"]) = Append(Stored("iq", f["iq"]), b)
<1> DEFINE x == "iq"
           g == f[x]
           p == Following(x, g.q_wrptr)
           e == [g.q_buffer EXCEPT ![g.q_wrptr] = b]
           h == [g EXCEPT !.q_buffer = e, !.q_wrptr = p, !.q_counter = @ + 1]
<1>1. x \in Queues /\ "oq" \in Queues \ {x} /\ f = [y \in Queues |-> f[y]]
  BY DEF QueueInv, Queues
<1>2. QueueOK(x, g) BY <1>1 DEF QueueInv
<1>3. /\ g \in QueueStates(x) /\ InStep(x, g) /\ Size[x] \in Nat /\ Size[x] > 0
      /\ g.q_counter \in 0..Size[x] /\ Fill(x, g) = g.q_counter
      /\ g.q_wrptr \in 0..(Size[x] - 1)
      /\ g.q_buffer \in [0..(Size[x] - 1) -> Bytes[x] \cup {NULL}]
  BY <1>1, <1>2, QueueFacts DEF QueueOK, QueueStates, Fill, Places
<1>4. n.s = s /\ n.m = m /\ n.q = f OBVIOUS
<1>5. Len(Stored(x, g)) = g.q_counter BY <1>1, <1>3, StoredType
<1>6. CASE IsrBlocked(g)
  <2>1. g.q_counter = Size[x] BY <1>1, <1>3, <1>6, BlockedAtLimit
  <2>2. r = n BY <1>4, <1>6 DEF chIQPutI
  <2>3. IsView(r) BY <2>2 DEF IsView
  <2> HIDE DEF x, g
  <2>4. r.q["oq"] = f["oq"] BY <1>4, <2>2
  <2>5. Len(Stored(x, g)) = Size[x] BY <1>5, <2>1
  <2> QED BY <1>4, <1>6, <2>2, <2>3, <2>4, <2>5 DEF x, g
<1>7. CASE ~IsrBlocked(g)
  <2>1. g.q_counter < Size[x] BY <1>1, <1>3, <1>7, BlockedAtLimit
  <2> DEFINE v == [s |-> s, m |-> m, q |-> [f EXCEPT ![x] = h]]
  <2>2. r = WakeOne(v, x)
    <3> DEFINE g1 == WriteByte(x, g, b)
               h1 == [g1 EXCEPT !.q_counter = @ + 1]
    <3>1. h1 = h
      <4>1. g1 = [g EXCEPT !.q_buffer = e, !.q_wrptr = p] BY DEF WriteByte
      <4>2. g1.q_counter = g.q_counter BY <1>3, <4>1 DEF QueueStates
      <4> QED BY <1>3, <4>1, <4>2 DEF QueueStates
    <3>2. r = WakeOne([n EXCEPT !.q["iq"] = h1], "iq") BY <1>4, <1>7 DEF chIQPutI
    <3> HIDE DEF h, h1
    <3>3. [n EXCEPT !.q["iq"] = h] = v BY <1>4
    <3> QED BY <3>1, <3>2, <3>3
  <2>3. /\ p \in 0..(Size[x] - 1) /\ e \in [0..(Size[x] - 1) -> Bytes[x] \cup {NULL}]
    BY <1>3 DEF Following
  <2> HIDE DEF p, e
  <2>4. /\ h.q_waiting = g.q_waiting /\ h.q_counter = g.q_counter + 1
        /\ h.q_buffer = e /\ h.q_wrptr = p /\ h.q_rdptr = g.q_rdptr
        /\ h = [q_waiting |-> h.q_waiting, q_counter |-> h.q_counter,
                q_buffer |-> h.q_buffer, q_rdptr |-> h.q_rdptr, q_wrptr |-> h.q_wrptr]
    <3> DEFINE d == g.q_counter + 1
    <3>1. /\ x \in Queues /\ g \in QueueStates(x)
          /\ h = [g EXCEPT !.q_buffer = e, !.q_wrptr = p, !.q_counter = d]
      BY <1>1, <1>3 DEF QueueStates
    <3> HIDE DEF h, x, g, d
    <3>2. h.q_waiting = g.q_waiting /\ h.q_counter = d
      BY ONLY <3>1 DEF QueueStates
    <3> QED BY ONLY <3>1, <3>2 DEF QueueStates, d
  <2> HIDE DEF h, x
  <2>5. h \in QueueStates(x)
    <3>1. h.q_counter \in 0..Size[x] BY <1>3, <2>1, <2>4
    <3>2. g.q_waiting \in Seq(Threads) /\ g.q_rdptr \in Places(x)
      BY <1>3 DEF QueueStates
    <3> QED BY <2>3, <2>4, <3>1, <3>2 DEF QueueStates, Places
  <2>6. Fill(x, h) = Fill(x, g) + 1 /\ Fill(x, g) < Size[x]
    BY <1>3, <2>1, <2>4 DEF Fill, x
  <2>7. InStep(x, h) /\ Stored(x, h) = Append(Stored(x, g), b)
    <3>1. b \in Bytes[x] BY DEF x
    <3>2. /\ h.q_buffer = [g.q_buffer EXCEPT ![g.q_wrptr] = b]
          /\ h.q_wrptr = Following(x, g.q_wrptr) /\ h.q_rdptr = g.q_rdptr
      BY <2>4 DEF e, p
    <3> HIDE DEF g
    <3> QED BY ONLY <1>1, <1>3, <2>5, <2>6, <3>1, <3>2, ByteIn
  <2>8. v = [s |-> s, m |-> m, q |-> [f EXCEPT ![x] = h]] OBVIOUS
  <2> HIDE DEF v
  <2>9. /\ QueueInv(r.s, r.m, r.q, c) /\ r.s.r_current = s.r_current
        /\ \A y \in Queues \ {x} : r.q[y] = f[y]
        /\ SameBuffer(h, r.q[x])
    <3>1. /\ QueueInv(s, m, f, c) /\ x \in Queues
          /\ h \in QueueStates(x) /\ InStep(x, h) /\ h.q_waiting = f[x].q_waiting
          /\ h.q_counter = f[x].q_counter + 1
      BY <1>1, <2>4, <2>5, <2>7
    <3> HIDE DEF g
    <3> QED BY ONLY <2>2, <2>8, <3>1, WakeOneOK
  <2>10. Stored(x, r.q[x]) = Stored(x, h)
    BY <2>9 DEF SameBuffer, Stored, Fill
  <2>11. IsView(r)
    <3>1. IsView(v) BY <2>8 DEF IsView
    <3> QED BY <2>2, <3>1 DEF IsView, WakeOne
  <2>12. r.q["oq"] = f["oq"] BY <1>1, <2>9
  <2> QED BY <1>5, <1>7, <2>1, <2>7, <2>9, <2>10, <2>11, <2>12 DEF x
<1> QED BY <1>6, <1>7

\* chOQGetI(): an empty queue has no byte.
LEMMA GetOK ==
    ASSUME NEW s, NEW m, NEW f, NEW c, QueueInv(s, m, f, c),
           NEW n, n = [s |-> s, m |-> m, q |-> f], NEW r, r = chOQGetI(n)
    PROVE  /\ QueueInv(r.s, r.m, r.q, c) /\ r.s.r_current = s.r_current /\ IsView(r)
           /\ r.q["iq"] = f["iq"]
           /\ IF IsrBlocked(f["oq"])
              THEN /\ r = n /\ Stored("oq", f["oq"]) = <<>>
                   /\ f["oq"].q_counter = Size["oq"]
              ELSE /\ Stored("oq", f["oq"]) # <<>>
                   /\ f["oq"].q_buffer[f["oq"].q_rdptr] = Head(Stored("oq", f["oq"]))
                   /\ Stored("oq", r.q["oq"]) = Tail(Stored("oq", f["oq"]))
                   /\ r.q["oq"].q_counter = f["oq"].q_counter + 1
<1> DEFINE x == "oq"
           g == f[x]
           p == Following(x, g.q_rdptr)
           h == [g EXCEPT !.q_rdptr = p, !.q_counter = @ + 1]
<1>1. x \in Queues /\ "iq" \in Queues \ {x} /\ f = [y \in Queues |-> f[y]]
  BY DEF QueueInv, Queues
<1>2. QueueOK(x, g) BY <1>1 DEF QueueInv
<1>3. /\ g \in QueueStates(x) /\ InStep(x, g) /\ Size[x] \in Nat /\ Size[x] > 0
      /\ g.q_counter \in 0..Size[x] /\ Fill(x, g) = Size[x] - g.q_counter
      /\ g.q_rdptr \in 0..(Size[x] - 1)
  BY <1>1, <1>2, QueueFacts DEF QueueOK, QueueStates, Fill, Places
<1>4. n.s = s /\ n.m = m /\ n.q = f OBVIOUS
<1>5. Stored(x, g) \in Seq(Bytes[x] \cup {NULL}) /\ Len(Stored(x, g)) = Size[x] - g.q_counter
  BY <1>1, <1>3, StoredType
<1>6. CASE IsrBlocked(g)
  <2>1. g.q_counter = Size[x] BY <1>1, <1>3, <1>6, BlockedAtLimit
  <2>2. r = n BY <1>4, <1>6 DEF chOQGetI
  <2>3. IsView(r) BY <2>2 DEF IsView
  <2> HIDE DEF x, g
  <2>4. r.q["iq"] = f["iq"] BY <1>4, <2>2
  <2>5. Stored(x, g) = <<>>
    <3>1. Len(Stored(x, g)) = 0 BY <1>3, <1>5, <2>1
    <3> QED BY <1>5, <3>1
  <2> QED BY <1>4, <1>6, <2>1, <2>2, <2>3, <2>4, <2>5 DEF x, g
<1>7. CASE ~IsrBlocked(g)
  <2>1. g.q_counter < Size[x] BY <1>1, <1>3, <1>7, BlockedAtLimit
  <2> DEFINE v == [s |-> s, m |-> m, q |-> [f EXCEPT ![x] = h]]
  <2>2. r = WakeOne(v, x)
    <3> DEFINE g1 == ReadByte(x, g)
               h1 == [g1 EXCEPT !.q_counter = @ + 1]
    <3>1. h1 = h
      <4>1. g1 = [g EXCEPT !.q_rdptr = p] BY DEF ReadByte
      <4>2. g1.q_counter = g.q_counter BY <1>3, <4>1 DEF QueueStates
      <4> QED BY <1>3, <4>1, <4>2 DEF QueueStates
    <3>2. r = WakeOne([n EXCEPT !.q["oq"] = h1], "oq") BY <1>4, <1>7 DEF chOQGetI
    <3> HIDE DEF h, h1
    <3>3. [n EXCEPT !.q["oq"] = h] = v BY <1>4
    <3> QED BY <3>1, <3>2, <3>3
  <2>3. p \in 0..(Size[x] - 1) BY <1>3 DEF Following
  <2> HIDE DEF p
  <2>4. /\ h.q_waiting = g.q_waiting /\ h.q_counter = g.q_counter + 1
        /\ h.q_buffer = g.q_buffer /\ h.q_wrptr = g.q_wrptr /\ h.q_rdptr = p
        /\ h = [q_waiting |-> h.q_waiting, q_counter |-> h.q_counter,
                q_buffer |-> h.q_buffer, q_rdptr |-> h.q_rdptr, q_wrptr |-> h.q_wrptr]
    <3> DEFINE d == g.q_counter + 1
    <3>1. x \in Queues /\ g \in QueueStates(x) /\ h = [g EXCEPT !.q_rdptr = p, !.q_counter = d]
      BY <1>1, <1>3 DEF QueueStates
    <3> HIDE DEF h, x, g, d
    <3>2. h.q_waiting = g.q_waiting /\ h.q_counter = d
      BY ONLY <3>1 DEF QueueStates
    <3> QED BY ONLY <3>1, <3>2 DEF QueueStates, d
  <2> HIDE DEF h, x
  <2>5. h \in QueueStates(x)
    <3>1. h.q_counter \in 0..Size[x] BY <1>3, <2>1, <2>4
    <3>2. /\ g.q_waiting \in Seq(Threads) /\ g.q_wrptr \in Places(x)
          /\ g.q_buffer \in [Places(x) -> Bytes[x] \cup {NULL}]
      BY <1>3 DEF QueueStates
    <3> QED BY <2>3, <2>4, <3>1, <3>2 DEF QueueStates, Places
  <2>6. Fill(x, h) = Fill(x, g) - 1 /\ Fill(x, g) > 0
    BY <1>3, <2>1, <2>4 DEF Fill, x
  <2>7. /\ InStep(x, h) /\ Stored(x, g) # <<>>
        /\ Head(Stored(x, g)) = g.q_buffer[g.q_rdptr]
        /\ Stored(x, h) = Tail(Stored(x, g))
    <3> HIDE DEF g
    <3> QED BY <1>1, <1>3, <2>4, <2>5, <2>6, ByteOut DEF p
  <2>8. v = [s |-> s, m |-> m, q |-> [f EXCEPT ![x] = h]] OBVIOUS
  <2> HIDE DEF v
  <2>9. /\ QueueInv(r.s, r.m, r.q, c) /\ r.s.r_current = s.r_current
        /\ \A y \in Queues \ {x} : r.q[y] = f[y]
        /\ SameBuffer(h, r.q[x])
    <3>1. /\ QueueInv(s, m, f, c) /\ x \in Queues
          /\ h \in QueueStates(x) /\ InStep(x, h) /\ h.q_waiting = f[x].q_waiting
          /\ h.q_counter = f[x].q_counter + 1
      BY <1>1, <2>4, <2>5, <2>7
    <3> HIDE DEF g
    <3> QED BY ONLY <2>2, <2>8, <3>1, WakeOneOK
  <2>10. Stored(x, r.q[x]) = Stored(x, h)
    BY <2>9 DEF SameBuffer, Stored, Fill
  <2>11. IsView(r)
    <3>1. IsView(v) BY <2>8 DEF IsView
    <3> QED BY <2>2, <3>1 DEF IsView, WakeOne
  <2>12. r.q["iq"] = f["iq"] BY <1>1, <2>9
  <2>13. r.q[x].q_counter = g.q_counter + 1 BY <2>4, <2>9 DEF SameBuffer
  <2> QED BY <1>7, <2>7, <2>9, <2>10, <2>11, <2>12, <2>13 DEF x
<1> QED BY <1>6, <1>7

\* A queue that has been initialised or reset.
LEMMA EmptiedOK ==
    ASSUME NEW x \in Queues, NEW e \in [Places(x) -> Bytes[x] \cup {NULL}],
           NEW h, h = Emptied(x, e)
    PROVE  QueueOK(x, h) /\ Stored(x, h) = <<>> /\ h.q_waiting = <<>>
<1>1. /\ h = [q_waiting |-> <<>>, q_counter |-> IF x = "iq" THEN 0 ELSE Size[x],
              q_buffer |-> e, q_rdptr |-> 0, q_wrptr |-> 0]
      /\ h.q_waiting = <<>> /\ h.q_rdptr = 0 /\ h.q_wrptr = 0
  BY DEF Emptied
<1>2. Size[x] \in Nat /\ Size[x] > 0 /\ 0 \in Places(x) /\ <<>> \in Seq(Threads)
  BY QueueFacts DEF Places
<1>3. h.q_counter \in 0..Size[x] BY <1>1, <1>2
<1>4. Fill(x, h) = 0 BY <1>1, <1>2, QueueFacts DEF Fill
<1>5. InStep(x, h) BY <1>1, <1>2, <1>4 DEF InStep, Wrap
<1>6. h \in QueueStates(x) BY <1>1, <1>2, <1>3 DEF QueueStates
<1>7. Stored(x, h) = <<>>
  <2>1. Len(Stored(x, h)) = 0 /\ Stored(x, h) \in Seq(Bytes[x] \cup {NULL})
    BY <1>4, <1>6, StoredType
  <2> QED BY <2>1
<1> QED BY <1>1, <1>5, <1>6, <1>7 DEF QueueOK, NoDuplicates

\* chIQResetI() and chOQResetI(): the threads that wait are sent away and the
\* queue is empty.
LEMMA ResetOK ==
    ASSUME NEW x \in Queues, NEW s, NEW m, NEW f, NEW c, QueueInv(s, m, f, c),
           NEW n, n = [s |-> s, m |-> m, q |-> f], NEW r, r = ResetI(n, x)
    PROVE  /\ QueueInv(r.s, r.m, r.q, c) /\ r.s.r_current = s.r_current /\ IsView(r)
           /\ \A y \in Queues \ {x} : r.q[y] = f[y]
           /\ Stored(x, r.q[x]) = <<>>
<1> DEFINE g == f[x]
           w == f[x].q_waiting
           h == Emptied(x, f[x].q_buffer)
           s1 == ReadyAll(s, w)
           m1 == [u \in AllThreads |-> IF u \in Elems(w) THEN "Q_RESET" ELSE m[u]]
           f1 == [f EXCEPT ![x] = h]
<1>1. /\ SchedInv(s) /\ m \in [AllThreads -> Messages]
      /\ c \in [AllThreads -> Calls \cup {NoCall}] /\ c[Idle] = NoCall
      /\ f = [y \in Queues |-> f[y]]
      /\ \A y \in Queues : QueueOK(y, f[y]) /\ Served(s, m, f[y], c, y)
      /\ \A u \in AllThreads : ThreadFits(s, f, c, u)
  BY DEF QueueInv
<1>2. r = [s |-> s1, m |-> m1, q |-> f1] BY <1>1 DEF ResetI
<1>3. /\ w \in Seq(Threads) /\ w \in Seq(AllThreads) /\ NoDuplicates(w)
  BY <1>1 DEF QueueOK, QueueStates, AllThreads
<1>4. \A u \in Elems(w) : /\ u \in Threads /\ u \in AllThreads
                          /\ s.p_state[u] = "WTQUEUE" /\ c[u].x = x
  <2> TAKE u \in Elems(w)
  <2>1. u \in Threads /\ u \in AllThreads BY <1>3 DEF Elems, AllThreads
  <2> QED BY <1>1, <2>1 DEF ThreadFits
<1>5. /\ SchedInv(s1) /\ Keeps(s, s1, Elems(w)) /\ s1.r_current = s.r_current
      /\ \A u \in Elems(w) : s1.p_state[u] = "READY"
  <2>1. \A u \in Elems(w) : s.p_state[u] \notin Runnable BY <1>4 DEF Runnable
  <2> HIDE DEF w
  <2> QED BY <1>1, <1>3, <2>1, ReadyAllOK
<1>6. g.q_buffer \in [Places(x) -> Bytes[x] \cup {NULL}]
  BY <1>1 DEF QueueOK, QueueStates
<1>7. QueueOK(x, h) /\ Stored(x, h) = <<>> /\ h.q_waiting = <<>>
  BY <1>6, EmptiedOK
<1> HIDE DEF h
<1>8. /\ f1 = [y \in Queues |-> f1[y]] /\ f1[x] = h
       /\ \A y \in Queues \ {x} : f1[y] = f[y]
  BY <1>1
<1>9. /\ m1 \in [AllThreads -> Messages]
       /\ \A u \in AllThreads \ Elems(w) : m1[u] = m[u]
  <2>1. "Q_RESET" \in Messages BY DEF Messages
  <2> QED BY <1>1, <2>1
<1> HIDE DEF s1, m1, f1
<1>10. ASSUME NEW u \in AllThreads PROVE ThreadFits(s1, f1, c, u)
  <2>1. CASE u \in Elems(w)
    <3>1. s1.p_state[u] = "READY" BY <1>5, <2>1
    <3>2. ASSUME NEW y \in Queues PROVE u \notin Elems(f1[y].q_waiting)
      <4>1. CASE y = x
        <5>1. Elems(<<>>) = {} BY DEF Elems
        <5> QED BY <1>7, <1>8, <4>1, <5>1
      <4>2. CASE y # x BY <1>1, <1>4, <1>8, <2>1, <4>2 DEF ThreadFits
      <4> QED BY <4>1, <4>2
    <3> QED BY <3>1, <3>2 DEF ThreadFits, Runnable
  <2>2. CASE u \notin Elems(w)
    <3>1. \/ s1.p_state[u] = s.p_state[u]
          \/ s1.p_state[u] \in Runnable /\ s.p_state[u] \in Runnable
      BY <1>5, <2>2 DEF Keeps
    <3>2. ThreadFits(s, f, c, u) BY <1>1
    <3>3. \A y \in Queues : u \in Elems(f1[y].q_waiting) <=> u \in Elems(f[y].q_waiting)
      <4>1. Elems(<<>>) = {} BY DEF Elems
      <4> QED BY <1>7, <1>8, <2>2, <4>1
    <3>4. "WTQUEUE" \notin Runnable BY DEF Runnable
    <3> QED BY <3>1, <3>2, <3>3, <3>4 DEF ThreadFits
  <2> QED BY <2>1, <2>2
<1>11. \A y \in Queues : QueueOK(y, f1[y]) BY <1>1, <1>7, <1>8
<1>12. ASSUME NEW y \in Queues PROVE Served(s1, m1, f1[y], c, y)
  <2>1. CASE y = x BY <1>7, <1>8, <2>1 DEF Served
  <2>2. CASE y # x
    <3> DEFINE W == Woken(s, m, c, y)
               V == Woken(s1, m1, c, y)
    <3>1. ASSUME NEW u \in W PROVE u \in V
      <4>1. /\ u \in Threads /\ u \in AllThreads /\ c[u].at = "wait" /\ c[u].x = y
            /\ s.p_state[u] \in Runnable /\ m[u] = "Q_OK"
        BY DEF Woken, AllThreads
      <4>2. u \notin Elems(w) BY <1>4, <2>2, <4>1
      <4>3. s1.p_state[u] \in Runnable /\ m1[u] = "Q_OK"
        BY <1>5, <1>9, <4>1, <4>2 DEF Keeps
      <4> QED BY <4>1, <4>3 DEF Woken
    <3>2. V \subseteq Threads /\ W \subseteq Threads BY DEF Woken
    <3> HIDE DEF V, W
    <3>3. Cardinality(W) \in Nat /\ Cardinality(V) \in Nat /\ Cardinality(W) <= Cardinality(V)
      <4>1. Idle \notin W BY <3>2, SchedAssumption
      <4>2. W \ {Idle} \subseteq V BY <3>1
      <4> QED BY <3>2, <4>1, <4>2, FewerByOne
    <3>4. f1[y] = f[y] /\ Served(s, m, f[y], c, y) BY <1>1, <1>8, <2>2
    <3>5. f[y].q_counter \in Int BY <1>1, QueueFacts DEF QueueOK, QueueStates
    <3> QED BY <3>3, <3>4, <3>5 DEF Served, V, W
  <2> QED BY <2>1, <2>2
<1>13. QueueInv(s1, m1, f1, c)
  BY <1>1, <1>5, <1>8, <1>9, <1>10, <1>11, <1>12 DEF QueueInv
<1>14. r.s = s1 /\ r.m = m1 /\ r.q = f1 /\ IsView(r) BY <1>2 DEF IsView
<1> QED BY <1>5, <1>7, <1>8, <1>13, <1>14

\* The running thread makes a step of its call behind which it does not wait: it
\* may take a byte or a place of its own, or one it was woken for.
LEMMA OwnStep ==
    ASSUME NEW s, NEW m, NEW f, NEW c, QueueInv(s, m, f, c), NEW t \in Threads,
           s.p_state[t] \in Runnable,
           NEW m1 \in [AllThreads -> Messages], NEW c1 \in [AllThreads -> Calls \cup {NoCall}],
           \A u \in AllThreads \ {t} : m1[u] = m[u] /\ c1[u] = c[u],
           NEW f1, f1 = [y \in Queues |-> f1[y]],
           \A y \in Queues :
              /\ QueueOK(y, f1[y]) /\ f1[y].q_waiting = f[y].q_waiting
              /\ \/ f1[y].q_counter = f[y].q_counter /\ t \notin Woken(s, m, c, y)
                 \/ f1[y].q_counter = f[y].q_counter - 1
                 \/ f1[y].q_counter = 0
    PROVE  QueueInv(s, m1, f1, c1)
<1>1. /\ SchedInv(s) /\ c[Idle] = NoCall
      /\ \A y \in Queues : QueueOK(y, f[y]) /\ Served(s, m, f[y], c, y)
      /\ \A u \in AllThreads : ThreadFits(s, f, c, u)
  BY DEF QueueInv
<1>2. c1[Idle] = NoCall BY <1>1, SchedAssumption DEF AllThreads
<1>3. \A u \in AllThreads : ThreadFits(s, f1, c1, u)
  <2> TAKE u \in AllThreads
  <2>1. ThreadFits(s, f, c, u) BY <1>1
  <2>2. CASE u = t BY <2>1, <2>2 DEF ThreadFits, Runnable
  <2>3. CASE u # t BY <2>1, <2>3 DEF ThreadFits
  <2> QED BY <2>2, <2>3
<1>4. ASSUME NEW y \in Queues PROVE Served(s, m1, f1[y], c1, y)
  <2> DEFINE W == Woken(s, m, c, y)
             V == Woken(s, m1, c1, y)
  <2>1. ASSUME NEW u \in W \ {t} PROVE u \in V
    <3>1. u \in Threads /\ u \in AllThreads BY DEF Woken, AllThreads
    <3> QED BY <3>1 DEF Woken
  <2>2. V \subseteq Threads /\ W \subseteq Threads BY DEF Woken
  <2>3. f[y].q_counter \in Nat /\ f1[y].q_counter \in Nat
    BY <1>1, QueueFacts DEF QueueOK, QueueStates
  <2>4. /\ QueueOK(y, f1[y]) /\ f1[y].q_waiting = f[y].q_waiting
        /\ \/ f1[y].q_counter = f[y].q_counter /\ t \notin W
           \/ f1[y].q_counter = f[y].q_counter - 1
           \/ f1[y].q_counter = 0
    OBVIOUS
  <2>5. Served(s, m, f[y], c, y) BY <1>1
  <2> HIDE DEF W, V
  <2>6. /\ Cardinality(W) \in Nat /\ Cardinality(V) \in Nat
        /\ Cardinality(W) - 1 <= Cardinality(V)
        /\ t \notin W => Cardinality(W) <= Cardinality(V)
    <3>1. W \ {t} \subseteq V BY <2>1
    <3> QED BY <2>2, <3>1, FewerByOne
  <2>7. f[y].q_waiting # <<>> => f[y].q_counter <= Cardinality(W) BY <2>5 DEF Served, W
  <2>8. f1[y].q_waiting # <<>> => f1[y].q_counter <= Cardinality(V)
    BY <2>3, <2>4, <2>6, <2>7
  <2> QED BY <2>8 DEF Served, V
<1> QED BY <1>1, <1>2, <1>3, <1>4 DEF QueueInv

\* The queue g with one more thread behind those that wait.
Joined(g, t) == [g EXCEPT !.q_waiting = Append(g.q_waiting, t)]

\* The running thread goes to sleep in the queue x of its call d, which has
\* nothing for it.
LEMMA SleepStep ==
    ASSUME NEW s, NEW m, NEW f, NEW c, QueueInv(s, m, f, c),
           NEW t \in Threads, t = s.r_current,
           NEW d \in Calls, d.at = "wait", NEW x \in Queues, d.x = x,
           f[x].q_counter = 0, c[t].at = "wait" => c[t].x = x,
           NEW s1, s1 = chSchGoSleepS(s, "WTQUEUE"),
           NEW m1 \in [AllThreads -> Messages],
           \A u \in AllThreads \ {t} : m1[u] = m[u],
           NEW c1, c1 = With(c, t, d),
           NEW h, h = Joined(f[x], t),
           NEW f1, f1 = With(f, x, h)
    PROVE  /\ QueueInv(s1, m1, f1, c1)
           /\ \A y \in Queues : Stored(y, f1[y]) = Stored(y, f[y])
           /\ \A y \in Queues : f1[y].q_counter = f[y].q_counter
<1> DEFINE w == f[x].q_waiting
           w1 == Append(w, t)
<1>1. /\ SchedInv(s) /\ m \in [AllThreads -> Messages]
      /\ c \in [AllThreads -> Calls \cup {NoCall}] /\ c[Idle] = NoCall
      /\ f = [y \in Queues |-> f[y]]
      /\ \A y \in Queues : QueueOK(y, f[y]) /\ Served(s, m, f[y], c, y)
      /\ \A u \in AllThreads : ThreadFits(s, f, c, u)
  BY DEF QueueInv
<1>2. t \in Threads /\ t \in AllThreads /\ t # Idle BY SchedAssumption DEF AllThreads
<1>3. s.p_state[t] \in Runnable
  BY <1>1, <1>2 DEF SchedInv, ReadyListMembers, Runnable
<1>4. w \in Seq(Threads) /\ NoDuplicates(w) /\ t \notin Elems(w)
  <2>1. t \notin Elems(w) BY <1>1, <1>2, <1>3 DEF ThreadFits, Runnable
  <2> QED BY <1>1, <2>1 DEF QueueOK, QueueStates
<1>5. /\ SchedInv(s1) /\ Keeps(s, s1, {t}) /\ s1.p_state[t] = "WTQUEUE"
  <2>1. "WTQUEUE" \in ThreadStates \ Runnable BY DEF ThreadStates, Runnable
  <2> QED BY <1>1, <1>2, <2>1, GoSleepS
<1> HIDE DEF w
<1>6. /\ w1 \in Seq(Threads) /\ NoDuplicates(w1) /\ Elems(w1) = Elems(w) \cup {t}
  BY <1>2, <1>4, AppendNew
<1>7. SameBuffer(f[x], h) /\ h.q_waiting = w1 /\ QueueOK(x, h)
      /\ Stored(x, h) = Stored(x, f[x])
  <2> DEFINE g == f[x]
  <2>1. g \in QueueStates(x) /\ InStep(x, g) BY <1>1 DEF QueueOK
  <2>2. h = [g EXCEPT !.q_waiting = w1] BY DEF Joined, w
  <2> HIDE DEF g, w1
  <2>3. /\ SameBuffer(g, h) /\ h.q_waiting = w1
        /\ h = [q_waiting |-> h.q_waiting, q_counter |-> h.q_counter,
                q_buffer |-> h.q_buffer, q_rdptr |-> h.q_rdptr, q_wrptr |-> h.q_wrptr]
    BY ONLY <2>1, <2>2 DEF QueueStates, SameBuffer
  <2>4. h \in QueueStates(x) /\ InStep(x, h) /\ Stored(x, h) = Stored(x, g)
    <3>1. x \in Queues /\ h.q_waiting \in Seq(Threads) BY <1>6, <2>3
    <3> QED BY ONLY <2>1, <2>3, <3>1, SameBufferOK
  <2> QED BY <1>6, <2>3, <2>4 DEF QueueOK, g
<1>8. /\ f1 = [y \in Queues |-> f1[y]] /\ f1[x] = h
      /\ \A y \in Queues \ {x} : f1[y] = f[y]
  BY <1>1 DEF With
<1>9. /\ c1 \in [AllThreads -> Calls \cup {NoCall}] /\ c1[t] = d /\ c1[Idle] = NoCall
      /\ \A u \in AllThreads \ {t} : c1[u] = c[u]
  <2>2. Idle \in AllThreads BY DEF AllThreads
  <2> QED BY <1>1, <1>2, <2>2 DEF With
<1>10. \A u \in AllThreads \ {t} : m1[u] = m[u] OBVIOUS
<1>11. ASSUME NEW u \in AllThreads PROVE ThreadFits(s1, f1, c1, u)
  <2>1. ThreadFits(s, f, c, u) BY <1>1
  <2>2. CASE u = t
    <3>1. ASSUME NEW y \in Queues, y # x PROVE t \notin Elems(f1[y].q_waiting)
      <4>1. "WTQUEUE" \notin Runnable BY DEF Runnable
      <4> QED BY <1>3, <1>8, <2>1, <2>2, <3>1, <4>1 DEF ThreadFits
    <3>2. t \in Elems(f1[x].q_waiting) BY <1>6, <1>7, <1>8
    <3> QED BY <1>5, <1>9, <2>2, <3>1, <3>2 DEF ThreadFits
  <2>3. CASE u # t
    <3>1. \/ s1.p_state[u] = s.p_state[u]
          \/ s1.p_state[u] \in Runnable /\ s.p_state[u] \in Runnable
      BY <1>5, <2>3 DEF Keeps
    <3>2. ASSUME NEW y \in Queues
          PROVE  u \in Elems(f1[y].q_waiting) <=> u \in Elems(f[y].q_waiting)
      <4>1. CASE y = x
        <5>1. f1[y].q_waiting = w1 /\ f[y].q_waiting = w BY <1>7, <1>8, <4>1 DEF w
        <5> HIDE DEF w1
        <5> QED BY <1>6, <2>3, <5>1
      <4>2. CASE y # x BY <1>8, <4>2
      <4> QED BY <4>1, <4>2
    <3>3. "WTQUEUE" \notin Runnable BY DEF Runnable
    <3> QED BY <1>9, <2>1, <2>3, <3>1, <3>2, <3>3 DEF ThreadFits
  <2> QED BY <2>2, <2>3
<1>12. \A y \in Queues : QueueOK(y, f1[y]) BY <1>1, <1>7, <1>8
<1>13. ASSUME NEW y \in Queues PROVE Served(s1, m1, f1[y], c1, y)
  <2> DEFINE W == Woken(s, m, c, y)
             V == Woken(s1, m1, c1, y)
  <2>1. V \subseteq Threads /\ W \subseteq Threads BY DEF Woken
  <2>2. CASE y = x
    <3>1. f1[y].q_counter = 0 BY <1>7, <1>8, <2>2 DEF SameBuffer
    <3> HIDE DEF W, V
    <3>2. Cardinality(V) \in Nat
      <4>1. V \ {t} \subseteq V OBVIOUS
      <4> QED BY <2>1, <4>1, FewerByOne
    <3> QED BY <3>1, <3>2 DEF Served, V
  <2>3. CASE y # x
    <3>1. t \notin W BY <2>3 DEF Woken
    <3>2. ASSUME NEW u \in W PROVE u \in V
      <4>1. /\ u \in Threads /\ u \in AllThreads /\ u # t /\ c[u].at = "wait" /\ c[u].x = y
            /\ s.p_state[u] \in Runnable /\ m[u] = "Q_OK"
        BY <3>1 DEF Woken, AllThreads
      <4>2. s1.p_state[u] \in Runnable /\ m1[u] = "Q_OK" /\ c1[u] = c[u]
        BY <1>5, <1>9, <1>10, <4>1 DEF Keeps
      <4> QED BY <4>1, <4>2 DEF Woken
    <3> HIDE DEF W, V
    <3>3. Cardinality(W) \in Nat /\ Cardinality(V) \in Nat /\ Cardinality(W) <= Cardinality(V)
      <4>1. W \ {t} \subseteq V BY <3>2
      <4> QED BY <2>1, <3>1, <4>1, FewerByOne
    <3>4. f1[y] = f[y] /\ Served(s, m, f[y], c, y) BY <1>1, <1>8, <2>3
    <3>5. f[y].q_counter \in Int BY <1>1, QueueFacts DEF QueueOK, QueueStates
    <3> QED BY <3>3, <3>4, <3>5 DEF Served, V, W
  <2> QED BY <2>2, <2>3
<1>14. QueueInv(s1, m1, f1, c1)
  BY <1>5, <1>8, <1>9, <1>11, <1>12, <1>13 DEF QueueInv
<1>15. \A y \in Queues : /\ Stored(y, f1[y]) = Stored(y, f[y])
                        /\ f1[y].q_counter = f[y].q_counter
  BY <1>7, <1>8 DEF SameBuffer
<1> QED BY <1>14, <1>15

\* Threads that may run change places.
LEMMA SwitchStep ==
    ASSUME NEW s, NEW m, NEW f, NEW c, QueueInv(s, m, f, c),
           NEW s1, SchedInv(s1), Keeps(s, s1, {})
    PROVE  QueueInv(s1, m, f, c)
<1>1. \A u \in AllThreads : \/ s1.p_state[u] = s.p_state[u]
                            \/ s1.p_state[u] \in Runnable /\ s.p_state[u] \in Runnable
  BY DEF Keeps
<1>2. \A u \in AllThreads : ThreadFits(s1, f, c, u)
  <2>1. "WTQUEUE" \notin Runnable BY DEF Runnable
  <2> QED BY <1>1, <2>1 DEF QueueInv, ThreadFits
<1>3. \A x \in Queues : Woken(s1, m, c, x) = Woken(s, m, c, x)
  BY <1>1 DEF Woken, AllThreads
<1> QED BY <1>2, <1>3 DEF QueueInv, Served

----------------------------------------------------------------------------
(* The steps of the threads *)

\* What the step from g to h that gives w is to the stream of the queue x.
StreamStep(x, g, h, w) ==
    LET a == Stored(x, g)
        z == Stored(x, h)
    IN \/ Len(a) < Size[x] /\ (\E b \in Bytes[x] : z = Append(a, b)) /\ w = "-"
       \/ a # <<>> /\ w = Head(a) /\ z = Tail(a)
       \/ Len(a) = Size[x] /\ w = "FULL" /\ z = a
       \/ a = <<>> /\ w = "EMPTY" /\ z = a
       \/ z = <<>> /\ w = "-"
       \/ z = a /\ w = "-"

\* The buffer behind the read and the write of a thread.
Taken(g) == LET r == ReadByte("iq", g) IN [r EXCEPT !.q_counter = @ - 1]
Given(g, b) == LET r == WriteByte("oq", g, b) IN [r EXCEPT !.q_counter = @ - 1]

LEMMA TakenOK ==
    ASSUME NEW g, QueueOK("iq", g), ~(g.q_counter <= 0), NEW h, h = Taken(g)
    PROVE  /\ QueueOK("iq", h) /\ h.q_waiting = g.q_waiting
           /\ h.q_counter = g.q_counter - 1
           /\ StreamStep("iq", g, h, g.q_buffer[g.q_rdptr])
<1> DEFINE x == "iq"
           p == Following(x, g.q_rdptr)
           d == g.q_counter - 1
<1>1. x \in Queues /\ g \in QueueStates(x) /\ InStep(x, g) /\ NoDuplicates(g.q_waiting)
  BY DEF QueueOK, Queues
<1>2. /\ Size[x] \in Nat /\ Size[x] > 0 /\ g.q_counter \in 0..Size[x]
      /\ g.q_rdptr \in 0..(Size[x] - 1) /\ g.q_wrptr \in Places(x)
      /\ g.q_waiting \in Seq(Threads) /\ g.q_buffer \in [Places(x) -> Bytes[x] \cup {NULL}]
  BY <1>1, QueueFacts DEF QueueStates, Places
<1>3. h = [g EXCEPT !.q_rdptr = p, !.q_counter = d]
  <2> DEFINE g1 == ReadByte(x, g)
  <2>1. g1 = [g EXCEPT !.q_rdptr = p] BY DEF ReadByte
  <2>2. g1.q_counter = g.q_counter BY <1>1, <2>1 DEF QueueStates
  <2>3. h = [g1 EXCEPT !.q_counter = @ - 1] BY DEF Taken
  <2> QED BY <1>1, <2>1, <2>2, <2>3 DEF QueueStates
<1>4. /\ p \in Places(x) /\ d \in 0..Size[x] BY <1>2 DEF Following, Places
<1> HIDE DEF p, d, x
<1>5. /\ h.q_waiting = g.q_waiting /\ h.q_counter = d
      /\ h.q_buffer = g.q_buffer /\ h.q_wrptr = g.q_wrptr /\ h.q_rdptr = p
      /\ h = [q_waiting |-> h.q_waiting, q_counter |-> h.q_counter,
              q_buffer |-> h.q_buffer, q_rdptr |-> h.q_rdptr, q_wrptr |-> h.q_wrptr]
  BY ONLY <1>1, <1>3 DEF QueueStates
<1>6. h \in QueueStates(x) BY <1>2, <1>4, <1>5 DEF QueueStates
<1>7. Fill(x, g) = g.q_counter /\ Fill(x, g) > 0 /\ Fill(x, h) = Fill(x, g) - 1
  BY <1>2, <1>5 DEF Fill, x, d
<1>8. /\ InStep(x, h) /\ Stored(x, g) # <<>>
      /\ Head(Stored(x, g)) = g.q_buffer[g.q_rdptr]
      /\ Stored(x, h) = Tail(Stored(x, g))
  BY <1>1, <1>5, <1>6, <1>7, ByteOut DEF p
<1>9. StreamStep(x, g, h, g.q_buffer[g.q_rdptr]) BY <1>8 DEF StreamStep
<1> QED BY <1>1, <1>5, <1>6, <1>8, <1>9 DEF QueueOK, x, d

LEMMA GivenOK ==
    ASSUME NEW g, QueueOK("oq", g), ~(g.q_counter <= 0), NEW b \in Bytes["oq"],
           NEW h, h = Given(g, b)
    PROVE  /\ QueueOK("oq", h) /\ h.q_waiting = g.q_waiting
           /\ h.q_counter = g.q_counter - 1
           /\ StreamStep("oq", g, h, "-")
<1> DEFINE x == "oq"
           p == Following(x, g.q_wrptr)
           e == [g.q_buffer EXCEPT ![g.q_wrptr] = b]
           d == g.q_counter - 1
<1>1. x \in Queues /\ g \in QueueStates(x) /\ InStep(x, g) /\ NoDuplicates(g.q_waiting)
  BY DEF QueueOK, Queues
<1>2. /\ Size[x] \in Nat /\ Size[x] > 0 /\ g.q_counter \in 0..Size[x]
      /\ g.q_wrptr \in 0..(Size[x] - 1) /\ g.q_rdptr \in Places(x)
      /\ g.q_waiting \in Seq(Threads) /\ g.q_buffer \in [Places(x) -> Bytes[x] \cup {NULL}]
  BY <1>1, QueueFacts DEF QueueStates, Places
<1>3. h = [g EXCEPT !.q_buffer = e, !.q_wrptr = p, !.q_counter = d]
  <2> DEFINE g1 == WriteByte(x, g, b)
  <2>1. g1 = [g EXCEPT !.q_buffer = e, !.q_wrptr = p] BY DEF WriteByte
  <2>2. g1.q_counter = g.q_counter BY <1>1, <2>1 DEF QueueStates
  <2>3. h = [g1 EXCEPT !.q_counter = @ - 1] BY DEF Given
  <2> QED BY <1>1, <2>1, <2>2, <2>3 DEF QueueStates
<1>4. /\ p \in Places(x) /\ d \in 0..Size[x]
      /\ e \in [Places(x) -> Bytes[x] \cup {NULL}]
  BY <1>2 DEF Following, Places
<1> HIDE DEF p, d, x, e
<1>5. /\ h.q_waiting = g.q_waiting /\ h.q_counter = d
      /\ h.q_buffer = e /\ h.q_wrptr = p /\ h.q_rdptr = g.q_rdptr
      /\ h = [q_waiting |-> h.q_waiting, q_counter |-> h.q_counter,
              q_buffer |-> h.q_buffer, q_rdptr |-> h.q_rdptr, q_wrptr |-> h.q_wrptr]
  BY ONLY <1>1, <1>3 DEF QueueStates
<1>6. h \in QueueStates(x) BY <1>2, <1>4, <1>5 DEF QueueStates
<1>7. /\ Fill(x, g) < Size[x] /\ Fill(x, h) = Fill(x, g) + 1
  BY <1>2, <1>5 DEF Fill, x, d
<1>8. /\ InStep(x, h) /\ Stored(x, h) = Append(Stored(x, g), b)
  <2>1. b \in Bytes[x] BY DEF x
  <2>2. h.q_buffer = [g.q_buffer EXCEPT ![g.q_wrptr] = b] BY <1>5 DEF e
  <2> QED BY <1>1, <1>5, <1>6, <1>7, <2>1, <2>2, ByteIn DEF p
<1>9. StreamStep(x, g, h, "-")
  <2>1. Len(Stored(x, g)) = Fill(x, g) BY <1>1, StoredType
  <2>2. b \in Bytes[x] BY DEF x
  <2> QED BY <1>7, <1>8, <2>1, <2>2 DEF StreamStep
<1> QED BY <1>1, <1>5, <1>6, <1>8, <1>9 DEF QueueOK, x, d

\* A timer runs only for a thread that waits, and fires in its interrupt.
TimerFits(t) ==
    /\ vt[t] = "fired" => isr
    /\ vt[t] # "off" => call[t].at = "wait"

\* The transmitter is on as long as it has bytes to send.
Sending ==
    state = "SD_READY" /\ ~stalled /\ q["oq"].q_counter < Size["oq"] => usart.txeie

SerialInv ==
    /\ QueueInv(k, rdymsg, q, call)
    /\ isr \in BOOLEAN
    /\ vt \in [AllThreads -> {"off", "armed", "fired"}]
    /\ state \in {"SD_STOP", "SD_READY"}
    /\ usart \in UsartStates
    /\ stalled \in BOOLEAN
    /\ isr => ~Locked
    /\ \A t \in AllThreads : TimerFits(t)
    /\ Sending

\* Each queue is a stream in the step.
Streams == \A x \in Queues : StreamStep(x, q[x], q'[x], said'[x])

LEMMA StillStream ==
    ASSUME NEW x \in Queues, NEW g, NEW h, NEW w, w = "-", Stored(x, h) = Stored(x, g)
    PROVE  StreamStep(x, g, h, w)
BY DEF StreamStep

\* A thread in a call is one of the application's.
LEMMA RunsInCall ==
    ASSUME SerialInv, call[currp].at = "wait" \/ call[currp].at = "more" \/ currp # Idle
    PROVE  /\ currp \in Threads /\ currp \in AllThreads
           /\ k.p_state[currp] = "CURRENT" /\ k.p_state[currp] \in Runnable
<1>1. SchedInv(k) /\ call[Idle] = NoCall BY DEF SerialInv, QueueInv
<1>2. currp \in AllThreads /\ k.p_state[currp] = "CURRENT"
  BY <1>1 DEF SchedInv, SchedStates, ReadyListMembers, currp
<1>3. NoCall.at # "wait" /\ NoCall.at # "more" BY DEF NoCall
<1> QED BY <1>1, <1>2, <1>3 DEF AllThreads, Runnable

\* What a step of a thread in a call leaves.
CallDone ==
    /\ QueueInv(k', rdymsg', q', call')
    /\ vt' \in [AllThreads -> {"off", "armed", "fired"}]
    /\ isr' = FALSE
    /\ \A u \in AllThreads : /\ vt'[u] # "fired"
                             /\ vt'[u] # "off" => call'[u].at = "wait"
    /\ q'["oq"].q_counter \in Int /\ q["oq"].q_counter \in Int
    /\ q'["oq"].q_counter <= q["oq"].q_counter
    /\ Streams

\* Only the messages of the running thread change in its calls.
MessagesKept ==
    /\ rdymsg' \in [AllThreads -> Messages]
    /\ \A u \in AllThreads \ {currp} : rdymsg'[u] = rdymsg[u]

\* The call ends for a thread that owes nothing to those who wait.
LEMMA ReturnOK ==
    ASSUME SerialInv, currp \in Threads, ~isr, UNCHANGED isr, MessagesKept, Return,
           \A y \in Queues : currp \notin Woken(k, rdymsg, call, y) \/ q[y].q_counter = 0
    PROVE  CallDone
<1>1. /\ QueueInv(k, rdymsg, q, call) /\ call \in [AllThreads -> Calls \cup {NoCall}]
      /\ q = [y \in Queues |-> q[y]] /\ \A y \in Queues : QueueOK(y, q[y])
      /\ vt \in [AllThreads -> {"off", "armed", "fired"}]
      /\ \A u \in AllThreads : TimerFits(u)
  BY DEF SerialInv, QueueInv
<1>2. /\ currp \in AllThreads /\ k.p_state[currp] \in Runnable
      /\ currp = k.r_current
  <2>1. SchedInv(k) BY DEF SerialInv, QueueInv
  <2> QED BY <2>1 DEF SchedInv, ReadyListMembers, currp, Runnable, AllThreads
<1>3. /\ k' = k /\ q' = q /\ call' = [call EXCEPT ![currp] = NoCall]
      /\ vt' = [vt EXCEPT ![currp] = "off"] /\ said' = Nothing
  BY DEF Return
<1>4. /\ call' \in [AllThreads -> Calls \cup {NoCall}]
      /\ \A u \in AllThreads \ {currp} : call'[u] = call[u]
  BY <1>1, <1>2, <1>3
<1>5. \A y \in Queues :
        /\ QueueOK(y, q[y]) /\ q[y].q_waiting = q[y].q_waiting
        /\ \/ q[y].q_counter = q[y].q_counter /\ currp \notin Woken(k, rdymsg, call, y)
           \/ q[y].q_counter = q[y].q_counter - 1
           \/ q[y].q_counter = 0
  BY <1>1
<1>6. QueueInv(k', rdymsg', q', call')
  <2>1. QueueInv(k, rdymsg', q, call')
    <3>1. /\ rdymsg' \in [AllThreads -> Messages]
          /\ \A u \in AllThreads \ {currp} : rdymsg'[u] = rdymsg[u] /\ call'[u] = call[u]
      BY <1>4 DEF MessagesKept
    <3>2. currp \in Threads OBVIOUS
    <3> QED BY ONLY <1>1, <1>2, <1>4, <1>5, <3>1, <3>2, OwnStep
  <2> QED BY <1>3, <2>1
<1>7. \A u \in AllThreads : vt'[u] # "fired" /\ (vt'[u] # "off" => call'[u].at = "wait")
  BY <1>1, <1>2, <1>3, <1>4 DEF TimerFits
<1>8. q["oq"].q_counter \in Int
  BY <1>1, QueueFacts DEF QueueOK, QueueStates, Queues
<1>9. Streams
  <2> SUFFICES ASSUME NEW x \in Queues PROVE StreamStep(x, q[x], q'[x], said'[x])
    BY DEF Streams
  <2>1. said'[x] = "-" BY <1>3 DEF Nothing
  <2> QED BY <1>3, <2>1, StillStream
<1> QED BY <1>1, <1>2, <1>3, <1>6, <1>7, <1>8, <1>9 DEF CallDone

\* One byte is moved: of what the call found, or the one the thread was woken for.
LEMMA MoveOK ==
    ASSUME SerialInv, currp \in Threads, ~isr, UNCHANGED isr, MessagesKept,
           NEW d \in Calls, ~ThreadBlocked(d.x), Move(d),
           call[currp].at = "wait" => call[currp].x = d.x
    PROVE  CallDone
<1> DEFINE x == d.x
<1>1. /\ QueueInv(k, rdymsg, q, call) /\ call \in [AllThreads -> Calls \cup {NoCall}]
      /\ q = [y \in Queues |-> q[y]] /\ \A y \in Queues : QueueOK(y, q[y])
      /\ vt \in [AllThreads -> {"off", "armed", "fired"}]
      /\ \A u \in AllThreads : TimerFits(u)
  BY DEF SerialInv, QueueInv
<1>2. /\ currp \in AllThreads /\ k.p_state[currp] \in Runnable
      /\ currp = k.r_current
  <2>1. SchedInv(k) BY DEF SerialInv, QueueInv
  <2> QED BY <2>1 DEF SchedInv, ReadyListMembers, currp, Runnable, AllThreads
<1>3. /\ k' = k /\ vt' = [vt EXCEPT ![currp] = "off"]
  BY DEF Move
<1>4. /\ call' \in [AllThreads -> Calls \cup {NoCall}]
      /\ \A u \in AllThreads \ {currp} : call'[u] = call[u]
  <2> DEFINE e == IF d.n = 1 THEN NoCall ELSE [d EXCEPT !.at = "more", !.n = d.n - 1]
  <2>1. call' = [call EXCEPT ![currp] = e] BY DEF Move
  <2>2. e \in Calls \cup {NoCall}
    <3>1. d.n # 1 => d.n - 1 \in 1..MaxN
      <4>1. MaxN \in Nat /\ d.n \in 1..MaxN BY QueuesAssumption, CallFacts
      <4> QED BY <4>1
    <3>2. d.n # 1 => [d EXCEPT !.at = "more", !.n = d.n - 1] \in Calls
      BY <3>1 DEF Calls
    <3> QED BY <3>2
  <2> HIDE DEF e
  <2> QED BY <1>1, <1>2, <2>1, <2>2
<1>5. x \in Queues /\ \A y \in Queues : y # x => currp \notin Woken(k, rdymsg, call, y)
  BY CallFacts DEF Woken
<1>6. /\ q' = [y \in Queues |-> q'[y]]
      /\ \A y \in Queues \ {x} : q'[y] = q[y]
      /\ QueueOK(x, q'[x]) /\ q'[x].q_waiting = q[x].q_waiting
      /\ q'[x].q_counter = q[x].q_counter - 1
      /\ Streams
  <2>0. "iq" \in Queues /\ "oq" \in Queues /\ \A y \in Queues : Nothing[y] = "-"
    BY DEF Queues, Nothing
  <2>1. CASE x = "iq" /\ q' = [q EXCEPT !["iq"] = Taken(q["iq"])]
                      /\ said' = [Nothing EXCEPT !["iq"] = Oldest("iq")]
    <3>1. /\ q' = [y \in Queues |-> q'[y]] /\ q'["iq"] = Taken(q["iq"])
          /\ \A y \in Queues \ {"iq"} : q'[y] = q[y]
      BY <1>1, <2>0, <2>1
    <3>2. ~(q["iq"].q_counter <= 0) BY <2>1 DEF ThreadBlocked
    <3>3. /\ QueueOK("iq", q'["iq"]) /\ q'["iq"].q_waiting = q["iq"].q_waiting
          /\ q'["iq"].q_counter = q["iq"].q_counter - 1
          /\ StreamStep("iq", q["iq"], q'["iq"], q["iq"].q_buffer[q["iq"].q_rdptr])
      BY <1>1, <2>0, <3>1, <3>2, TakenOK
    <3>4. said'["iq"] = q["iq"].q_buffer[q["iq"].q_rdptr] /\ said'["oq"] = "-"
      BY <2>0, <2>1 DEF Oldest, Nothing, Queues
    <3>5. StreamStep("oq", q["oq"], q'["oq"], said'["oq"])
      BY <2>0, <3>1, <3>4, StillStream
    <3>6. Streams BY <3>3, <3>4, <3>5 DEF Streams, Queues
    <3> QED BY <2>1, <3>1, <3>3, <3>6
  <2>2. CASE /\ x = "oq" /\ said' = Nothing
             /\ \E b \in Bytes["oq"] : q' = [q EXCEPT !["oq"] = Given(q["oq"], b)]
    <3>1. PICK b \in Bytes["oq"] : q' = [q EXCEPT !["oq"] = Given(q["oq"], b)]
      BY <2>2
    <3>2. /\ q' = [y \in Queues |-> q'[y]] /\ q'["oq"] = Given(q["oq"], b)
          /\ \A y \in Queues \ {"oq"} : q'[y] = q[y]
      BY <1>1, <2>0, <3>1
    <3>3. ~(q["oq"].q_counter <= 0) BY <2>2 DEF ThreadBlocked
    <3>4. /\ QueueOK("oq", q'["oq"]) /\ q'["oq"].q_waiting = q["oq"].q_waiting
          /\ q'["oq"].q_counter = q["oq"].q_counter - 1
          /\ StreamStep("oq", q["oq"], q'["oq"], "-")
      BY <1>1, <2>0, <3>2, <3>3, GivenOK
    <3>5. StreamStep("iq", q["iq"], q'["iq"], said'["iq"])
      BY <2>0, <2>2, <3>2, StillStream
    <3>6. Streams BY <2>0, <2>2, <3>4, <3>5 DEF Streams, Queues
    <3> QED BY <2>2, <3>2, <3>4, <3>6
  <2> QED BY <2>1, <2>2 DEF Move, Taken, Given
<1>7. QueueInv(k', rdymsg', q', call')
  <2>1. /\ rdymsg' \in [AllThreads -> Messages]
        /\ \A u \in AllThreads \ {currp} : rdymsg'[u] = rdymsg[u] /\ call'[u] = call[u]
    BY <1>4 DEF MessagesKept
  <2>2. \A y \in Queues :
           /\ QueueOK(y, q'[y]) /\ q'[y].q_waiting = q[y].q_waiting
           /\ \/ q'[y].q_counter = q[y].q_counter /\ currp \notin Woken(k, rdymsg, call, y)
              \/ q'[y].q_counter = q[y].q_counter - 1
              \/ q'[y].q_counter = 0
    <3> HIDE DEF x
    <3> QED BY <1>1, <1>5, <1>6
  <2>3. currp \in Threads OBVIOUS
  <2>4. q' = [y \in Queues |-> q'[y]] BY <1>6
  <2>5. QueueInv(k, rdymsg', q', call')
    BY ONLY <1>1, <1>2, <1>4, <2>1, <2>2, <2>3, <2>4, OwnStep
  <2> QED BY <1>3, <2>5
<1>8. \A u \in AllThreads : vt'[u] # "fired" /\ (vt'[u] # "off" => call'[u].at = "wait")
  BY <1>1, <1>2, <1>3, <1>4 DEF TimerFits
<1>9. /\ q["oq"].q_counter \in Int /\ q'["oq"].q_counter \in Int
      /\ q'["oq"].q_counter <= q["oq"].q_counter
  <2>1. q["oq"].q_counter \in Int
    BY <1>1, QueueFacts DEF QueueOK, QueueStates, Queues
  <2>2. q'["oq"].q_counter = q["oq"].q_counter \/ q'["oq"].q_counter = q["oq"].q_counter - 1
    BY <1>6 DEF Queues
  <2> QED BY <2>1, <2>2
<1> QED BY <1>1, <1>2, <1>3, <1>6, <1>7, <1>8, <1>9 DEF CallDone

\* The call waits for what its queue does not have.
LEMMA SleepOK ==
    ASSUME SerialInv, currp \in Threads, ~isr, UNCHANGED isr, MessagesKept,
           NEW d \in Calls, ThreadBlocked(d.x), Sleep(d),
           call[currp].at = "wait" => call[currp].x = d.x
    PROVE  CallDone
<1> DEFINE x == d.x
           e == [d EXCEPT !.at = "wait"]
<1>1. /\ QueueInv(k, rdymsg, q, call) /\ call \in [AllThreads -> Calls \cup {NoCall}]
      /\ q = [y \in Queues |-> q[y]] /\ \A y \in Queues : QueueOK(y, q[y])
      /\ vt \in [AllThreads -> {"off", "armed", "fired"}]
      /\ \A u \in AllThreads : TimerFits(u)
  BY DEF SerialInv, QueueInv
<1>2. currp \in AllThreads /\ currp = k.r_current
  BY DEF currp, AllThreads
<1>3. e \in Calls /\ e.at = "wait" /\ e.x = x /\ x \in Queues
  BY CallFacts DEF Calls
<1> HIDE DEF e, x
<1> DEFINE h == Joined(q[x], k.r_current)
<1>4. /\ q' = [q EXCEPT ![x] = h]
      /\ call' = [call EXCEPT ![k.r_current] = e]
      /\ vt' = [vt EXCEPT ![currp] = IF d.time = "TICKS" THEN "armed" ELSE "off"]
      /\ k' = chSchGoSleepS(k, "WTQUEUE") /\ said' = Nothing
  BY <1>1, <1>3 DEF Sleep, Joined, currp, x, e
<1>5. q[x].q_counter = 0
  <2>1. q[x].q_counter \in 0..Size[x] BY <1>1, <1>3 DEF QueueOK, QueueStates
  <2>2. q[x].q_counter <= 0 BY DEF ThreadBlocked, x
  <2> QED BY <1>3, <2>1, <2>2, QueueFacts
<1>6. k.r_current \in Threads /\ (call[k.r_current].at = "wait" => call[k.r_current].x = x)
  BY <1>2 DEF x
<1>7. /\ rdymsg' \in [AllThreads -> Messages]
      /\ \A u \in AllThreads \ {k.r_current} : rdymsg'[u] = rdymsg[u]
  BY DEF MessagesKept, currp
<1>8. /\ QueueInv(k', rdymsg', q', call')
      /\ \A y \in Queues : Stored(y, q'[y]) = Stored(y, q[y])
      /\ \A y \in Queues : q'[y].q_counter = q[y].q_counter
  <2> PICK g : g = h OBVIOUS
  <2>1. q' = [q EXCEPT ![x] = g] BY <1>4
  <2>2. PICK s, m, f, c : s = k /\ m = rdymsg /\ f = q /\ c = call OBVIOUS
  <2>3. PICK s1, m1, f1, c1 : s1 = k' /\ m1 = rdymsg' /\ f1 = q' /\ c1 = call' OBVIOUS
  <2>4. PICK y, o, t : y = x /\ o = e /\ t = k.r_current OBVIOUS
  <2> HIDE DEF h
  <2>5. /\ QueueInv(s, m, f, c) /\ t \in Threads /\ t = s.r_current
        /\ o \in Calls /\ o.at = "wait" /\ y \in Queues /\ o.x = y
        /\ f[y].q_counter = 0 /\ (c[t].at = "wait" => c[t].x = y)
        /\ s1 = chSchGoSleepS(s, "WTQUEUE") /\ m1 \in [AllThreads -> Messages]
        /\ \A u \in AllThreads \ {t} : m1[u] = m[u]
        /\ c1 = With(c, t, o)
        /\ g = Joined(f[y], t)
        /\ f1 = With(f, y, g)
    BY <1>1, <1>3, <1>4, <1>5, <1>6, <1>7, <2>1, <2>2, <2>3, <2>4 DEF h, With
  <2>6. /\ QueueInv(s1, m1, f1, c1)
        /\ \A z \in Queues : Stored(z, f1[z]) = Stored(z, f[z])
        /\ \A z \in Queues : f1[z].q_counter = f[z].q_counter
    BY ONLY <2>5, SleepStep
  <2> QED BY <2>2, <2>3, <2>6
<1>9. \A u \in AllThreads : vt'[u] # "fired" /\ (vt'[u] # "off" => call'[u].at = "wait")
  <2>1. call'[currp] = e /\ \A u \in AllThreads \ {currp} : call'[u] = call[u]
    BY <1>1, <1>2, <1>4
  <2> QED BY <1>1, <1>2, <1>3, <1>4, <2>1 DEF TimerFits
<1>10. q["oq"].q_counter \in Int /\ q'["oq"].q_counter = q["oq"].q_counter
  BY <1>1, <1>8, QueueFacts DEF QueueOK, QueueStates, Queues
<1>11. Streams
  <2> SUFFICES ASSUME NEW y \in Queues PROVE StreamStep(y, q[y], q'[y], said'[y])
    BY DEF Streams
  <2>1. said'[y] = "-" BY <1>4 DEF Nothing
  <2> QED BY <1>8, <2>1, StillStream
<1>12. vt' \in [AllThreads -> {"off", "armed", "fired"}] BY <1>1, <1>4
<1> QED BY <1>8, <1>9, <1>10, <1>11, <1>12 DEF CallDone

LEMMA AttemptOK ==
    ASSUME SerialInv, currp \in Threads, ~isr, UNCHANGED isr, MessagesKept,
           NEW d \in Calls, Attempt(d), call[currp].at = "wait" => call[currp].x = d.x
    PROVE  CallDone
<1>1. CASE ~ThreadBlocked(d.x) /\ Move(d) BY <1>1, MoveOK
<1>2. CASE ThreadBlocked(d.x) /\ Sleep(d) BY <1>2, SleepOK
<1>3. CASE ThreadBlocked(d.x) /\ Return
  <2>1. d.x \in Queues BY CallFacts
  <2>2. q[d.x].q_counter = 0
    <3>1. q[d.x].q_counter \in 0..Size[d.x]
      BY <2>1 DEF SerialInv, QueueInv, QueueOK, QueueStates
    <3>2. q[d.x].q_counter <= 0 BY <1>3 DEF ThreadBlocked
    <3> QED BY <2>1, <3>1, <3>2, QueueFacts
  <2>3. \A y \in Queues : currp \notin Woken(k, rdymsg, call, y) \/ q[y].q_counter = 0
    BY <2>2 DEF Woken
  <2> QED BY <1>3, <2>3, ReturnOK
<1> QED BY <1>1, <1>2, <1>3 DEF Attempt

LEMMA ThreadStepOK ==
    ASSUME SerialInv, ThreadStep
    PROVE  CallDone
<1>1. /\ call \in [AllThreads -> Calls \cup {NoCall}]
      /\ rdymsg \in [AllThreads -> Messages] /\ (isr => ~Locked)
      /\ isr \in BOOLEAN
  BY DEF SerialInv, QueueInv
<1>2. NoCall.at = "none" BY DEF NoCall
<1>3. ASSUME NEW x \in Queues, NEW n \in 1..MaxN, NEW time \in Times, Transfer(x, n, time)
      PROVE  CallDone
  <2> DEFINE d == [at |-> "more", x |-> x, n |-> n, time |-> time]
  <2>1. d \in Calls BY DEF Calls
  <2>2. currp \in Threads BY <1>3, RunsInCall DEF Transfer, ThreadCode
  <2>3. call[currp].at # "wait" BY <1>2, <1>3 DEF Transfer
  <2>4. Attempt(d) /\ ~isr /\ UNCHANGED isr /\ rdymsg' = rdymsg
    BY <1>3 DEF Transfer, ThreadCode
  <2> HIDE DEF d
  <2>5. MessagesKept BY <1>1, <2>4 DEF MessagesKept
  <2> QED BY <2>1, <2>2, <2>3, <2>4, <2>5, AttemptOK
<1>4. ASSUME NextByte PROVE CallDone
  <2>1. currp \in Threads /\ currp \in AllThreads BY <1>4, RunsInCall DEF NextByte
  <2>2. call[currp] \in Calls BY <1>1, <1>2, <1>4, <2>1 DEF NextByte
  <2> PICK d \in Calls : d = call[currp] BY <2>2
  <2>3. Attempt(d) /\ ~isr /\ UNCHANGED isr /\ rdymsg' = rdymsg
    BY <1>4 DEF NextByte, ThreadCode
  <2>4. MessagesKept BY <1>1, <2>3 DEF MessagesKept
  <2> QED BY <2>1, <2>3, <2>4, AttemptOK
<1>5. ASSUME Resume PROVE CallDone
  <2>1. call[currp].at = "wait" /\ ~isr /\ UNCHANGED isr
    BY <1>1, <1>5 DEF Resume, Locked
  <2>2. currp \in Threads /\ currp \in AllThreads BY <2>1, RunsInCall
  <2>3. call[currp] \in Calls BY <1>1, <1>2, <2>1, <2>2
  <2>4. MessagesKept
    <3>1. rdymsg' = [rdymsg EXCEPT ![currp] = NULL] BY <1>5 DEF Resume
    <3>2. NULL \in Messages BY DEF Messages
    <3> QED BY <1>1, <3>1, <3>2 DEF MessagesKept
  <2> PICK d \in Calls : d = call[currp] BY <2>3
  <2>5. CASE rdymsg[currp] = "Q_OK"
    <3>1. Attempt(d) BY <1>5, <2>5 DEF Resume
    <3> QED BY <2>1, <2>2, <2>4, <3>1, AttemptOK
  <2>6. CASE rdymsg[currp] # "Q_OK"
    <3>1. Return BY <1>5, <2>6 DEF Resume
    <3>2. \A y \in Queues : currp \notin Woken(k, rdymsg, call, y) BY <2>6 DEF Woken
    <3> QED BY <2>1, <2>2, <2>4, <3>1, <3>2, ReturnOK
  <2> QED BY <2>5, <2>6
<1> QED BY <1>3, <1>4, <1>5 DEF ThreadStep

\* A write switches the transmitter on.
LEMMA SerialThreadOK ==
    ASSUME SerialInv, SerialThreadStep
    PROVE  SerialInv' /\ Streams
<1>1. CallDone BY ThreadStepOK DEF SerialThreadStep
<1>2. /\ usart' = (IF Written THEN notify1(usart) ELSE usart)
      /\ stalled' = (stalled /\ ~Written) /\ state' = state
  BY DEF SerialThreadStep
<1>3. /\ usart \in UsartStates /\ stalled \in BOOLEAN
      /\ state \in {"SD_STOP", "SD_READY"} /\ Sending
  BY DEF SerialInv
<1>4. /\ usart' \in UsartStates /\ (~Written => usart' = usart)
      /\ (Written /\ state = "SD_READY" => usart'.txeie)
  <2> PICK u \in UsartStates : u = usart BY <1>3
  <2>1. notify1(u) \in UsartStates /\ (state = "SD_READY" => notify1(u).txeie)
    BY DEF notify1, UsartStates
  <2> QED BY <1>2, <1>3, <2>1
<1>5. Sending'
  <2>1. CASE Written BY <1>2, <1>4, <2>1 DEF Sending
  <2>2. CASE ~Written
    <3>1. q'["oq"].q_counter = q["oq"].q_counter
      BY <1>1, <2>2 DEF CallDone, Written
    <3>2. stalled' = stalled BY <1>2, <1>3, <2>2
    <3> QED BY <1>2, <1>3, <1>4, <2>2, <3>1, <3>2 DEF Sending
  <2> QED BY <2>1, <2>2
<1>6. \A t \in AllThreads : TimerFits(t)' BY <1>1 DEF CallDone, TimerFits
<1>7. stalled' \in BOOLEAN BY <1>2, <1>3
<1> QED BY <1>1, <1>2, <1>3, <1>4, <1>5, <1>6, <1>7 DEF CallDone, SerialInv

LEMMA sdStartOK ==
    ASSUME SerialInv, sdStart
    PROVE  SerialInv' /\ Streams
<1>1. /\ k' = k /\ isr' = isr /\ rdymsg' = rdymsg /\ vt' = vt /\ call' = call /\ q' = q
      /\ said' = Nothing /\ state' = "SD_READY" /\ usart' = usart_init(usart)
      /\ stalled' = (q["oq"].q_counter < Size["oq"])
  BY DEF sdStart
<1>2. usart' \in UsartStates
  <2> PICK u \in UsartStates : u = usart BY DEF SerialInv
  <2>1. usart_init(u) \in UsartStates BY DEF usart_init, UsartStates
  <2> QED BY <1>1, <2>1
<1>3. Sending' BY <1>1 DEF Sending
<1>4. \A t \in AllThreads : TimerFits(t)' BY <1>1 DEF SerialInv, TimerFits
<1>5. (isr => ~Locked)' BY <1>1 DEF SerialInv, Locked, currp
<1>6. Streams
  <2> SUFFICES ASSUME NEW x \in Queues PROVE StreamStep(x, q[x], q'[x], said'[x])
    BY DEF Streams
  <2>1. said'[x] = "-" BY <1>1 DEF Nothing
  <2> QED BY <1>1, <2>1, StillStream
<1> QED BY <1>1, <1>2, <1>3, <1>4, <1>5, <1>6 DEF SerialInv

\* The stop of the driver empties both queues and sends everybody away.
LEMMA sdStopOK ==
    ASSUME SerialInv, sdStop
    PROVE  SerialInv' /\ Streams
<1> PICK n : n = Now OBVIOUS
<1> PICK a : a = ResetI(n, "oq") OBVIOUS
<1> PICK z : z = ResetI(a, "iq") OBVIOUS
<1>1. /\ k' = chSchRescheduleS(z.s) /\ rdymsg' = z.m /\ q' = z.q
      /\ isr' = isr /\ vt' = vt /\ call' = call /\ said' = Nothing
      /\ state' = "SD_STOP" /\ usart' = Deinitialised /\ stalled' = FALSE /\ ~isr
  BY DEF sdStop, ThreadCode
<1>2. "iq" \in Queues /\ "oq" \in Queues \ {"iq"} /\ "oq" \in Queues
  BY DEF Queues
<1>3. QueueInv(k, rdymsg, q, call) /\ n = [s |-> k, m |-> rdymsg, q |-> q]
  BY DEF SerialInv, Now
<1>4. QueueInv(a.s, a.m, a.q, call) /\ IsView(a) /\ Stored("oq", a.q["oq"]) = <<>>
  BY <1>2, <1>3, ResetOK
<1>5. /\ QueueInv(z.s, z.m, z.q, call) /\ Stored("iq", z.q["iq"]) = <<>>
      /\ z.q["oq"] = a.q["oq"]
  <2>1. a = [s |-> a.s, m |-> a.m, q |-> a.q] BY <1>4 DEF IsView
  <2> QED BY <1>2, <1>4, <2>1, ResetOK
<1>6. QueueInv(k', rdymsg', q', call')
  <2> PICK s : s = k' OBVIOUS
  <2>1. SchedInv(z.s) BY <1>5 DEF QueueInv
  <2>2. SchedInv(s) /\ Keeps(z.s, s, {}) BY <1>1, <2>1, RescheduleS
  <2> QED BY <1>1, <1>5, <2>2, SwitchStep
<1>7. Streams
  <2>1. Stored("oq", q'["oq"]) = <<>> /\ Stored("iq", q'["iq"]) = <<>>
    BY <1>1, <1>4, <1>5
  <2>2. said'["oq"] = "-" /\ said'["iq"] = "-" BY <1>1, <1>2 DEF Nothing
  <2> QED BY <2>1, <2>2 DEF Streams, StreamStep, Queues
<1>8. usart' \in UsartStates /\ Sending' BY <1>1 DEF Deinitialised, UsartStates, Sending
<1>9. \A t \in AllThreads : TimerFits(t)' BY <1>1 DEF SerialInv, TimerFits
<1> QED BY <1>1, <1>6, <1>7, <1>8, <1>9 DEF SerialInv

----------------------------------------------------------------------------
(* The steps of timers, handlers and the USART *)

\* Nothing moves in a step that leaves the queues alone.
LEMMA QuietStream ==
    ASSUME said' = Nothing, q' = q
    PROVE  Streams
<1> SUFFICES ASSUME NEW x \in Queues PROVE StreamStep(x, q[x], q'[x], said'[x])
  BY DEF Streams
<1>1. said'[x] = "-" BY DEF Nothing
<1> QED BY <1>1, StillStream

LEMMA TimerExpiresOK ==
    ASSUME SerialInv, NEW t \in Threads, TimerExpires(t), UNCHANGED <<state, usart, stalled>>
    PROVE  SerialInv' /\ Streams
<1>1. /\ k' = k /\ isr' = TRUE /\ rdymsg' = rdymsg /\ call' = call /\ q' = q
      /\ vt' = [vt EXCEPT ![t] = "fired"] /\ vt[t] = "armed" /\ said' = Nothing
      /\ ~Locked
  BY DEF TimerExpires, IsrCode
<1>2. t \in AllThreads BY DEF AllThreads
<1>3. \A u \in AllThreads : TimerFits(u)'
  BY <1>1, <1>2 DEF SerialInv, TimerFits
<1>4. vt' \in [AllThreads -> {"off", "armed", "fired"}] BY <1>1 DEF SerialInv
<1>5. ~Locked' BY <1>1 DEF Locked, currp
<1>6. Sending' BY <1>1 DEF SerialInv, Sending
<1>7. Streams BY <1>1, QuietStream
<1> QED BY <1>1, <1>3, <1>4, <1>5, <1>6, <1>7 DEF SerialInv

\* A timer that fires behind the wakeup of its thread does nothing.
LEMMA TimerCallbackOK ==
    ASSUME SerialInv, NEW t \in Threads, TimerCallback(t), UNCHANGED <<state, usart, stalled>>
    PROVE  SerialInv' /\ Streams
<1>1. /\ QueueInv(k, rdymsg, q, call) /\ SchedInv(k)
      /\ q = [y \in Queues |-> q[y]] /\ \A y \in Queues : QueueOK(y, q[y])
      /\ \A u \in AllThreads : TimerFits(u)
      /\ vt \in [AllThreads -> {"off", "armed", "fired"}]
      /\ (isr => ~Locked) /\ ThreadFits(k, q, call, t)
  BY DEF SerialInv, QueueInv, AllThreads
<1>2. /\ isr' = isr /\ call' = call /\ said' = Nothing /\ vt[t] = "fired"
      /\ vt' = [vt EXCEPT ![t] = "off"]
  BY DEF TimerCallback
<1>3. t \in AllThreads /\ isr /\ ~Locked /\ call[t].at = "wait"
  BY <1>1, <1>2 DEF AllThreads, TimerFits
<1>4. QueueInv(k', rdymsg', q', call') /\ k'.r_current = k.r_current
      /\ \A y \in Queues : /\ Stored(y, q'[y]) = Stored(y, q[y])
                          /\ q'[y].q_counter = q[y].q_counter
  <2>1. CASE UNCHANGED <<k, rdymsg, q>> BY <1>1, <1>2, <2>1
  <2>2. CASE /\ k.p_state[t] # "READY"
             /\ k' = chSchReadyI(k, t)
             /\ rdymsg' = [rdymsg EXCEPT ![t] = "Q_TIMEOUT"]
             /\ q' = [q EXCEPT ![call[t].x].q_waiting = dequeue(@, t)]
    <3>1. k.p_state[t] = "WTQUEUE"
      <4>1. t # k.r_current BY <1>3 DEF Locked, currp
      <4> QED BY <1>1, <1>3, <2>2, <4>1
              DEF SchedInv, ReadyListMembers, ThreadFits, Runnable
    <3> PICK x : x = call[t].x OBVIOUS
    <3>2. x \in Queues
      <4>1. call[t] \in Calls BY <1>1, <1>3, WaitersAreThreads
      <4> QED BY <4>1, CallFacts
    <3> DEFINE g == q[x]
               w == dequeue(q[x].q_waiting, t)
               h == [q[x] EXCEPT !.q_waiting = dequeue(q[x].q_waiting, t)]
    <3>3. g \in QueueStates(x) /\ InStep(x, g) /\ g.q_waiting \in Seq(Threads)
          /\ NoDuplicates(g.q_waiting) /\ t \in Elems(g.q_waiting)
      BY <1>1, <3>1, <3>2 DEF QueueOK, QueueStates, ThreadFits
    <3>4. q' = [q EXCEPT ![x] = h] BY <1>1, <2>2, <3>2
    <3>5. /\ w \in Seq(Threads) /\ Elems(w) = Elems(g.q_waiting) \ {t} /\ NoDuplicates(w)
      BY <3>3, Dequeue
    <3>6. h = [g EXCEPT !.q_waiting = w] OBVIOUS
    <3> HIDE DEF g, w, h
    <3>7. /\ SameBuffer(g, h) /\ h.q_waiting = w
          /\ h = [q_waiting |-> h.q_waiting, q_counter |-> h.q_counter,
                  q_buffer |-> h.q_buffer, q_rdptr |-> h.q_rdptr, q_wrptr |-> h.q_wrptr]
      BY ONLY <3>3, <3>6 DEF QueueStates, SameBuffer
    <3>8. h \in QueueStates(x) /\ InStep(x, h) /\ Stored(x, h) = Stored(x, g)
      <4>1. h.q_waiting \in Seq(Threads) BY <3>5, <3>7
      <4> QED BY ONLY <3>2, <3>3, <3>7, <4>1, SameBufferOK
    <3>9. QueueOK(x, h) /\ h.q_counter = g.q_counter
      BY <3>5, <3>7, <3>8 DEF QueueOK, SameBuffer
    <3>10. QueueInv(k', rdymsg', q', call) /\ k'.r_current = k.r_current
      <4> PICK s, m, f, c : s = k /\ m = rdymsg /\ f = q /\ c = call OBVIOUS
      <4> PICK s1, m1, f1 : s1 = k' /\ m1 = rdymsg' /\ f1 = q' OBVIOUS
      <4> PICK j, msg : j = h /\ msg = "Q_TIMEOUT" OBVIOUS
      <4>1. /\ x \in Queues /\ QueueInv(s, m, f, c) /\ t \in Elems(f[x].q_waiting)
            /\ msg \in Messages /\ QueueOK(x, j)
            /\ Elems(j.q_waiting) = Elems(f[x].q_waiting) \ {t}
            /\ j.q_counter = f[x].q_counter
            /\ s1 = chSchReadyI(s, t) /\ m1 = With(m, t, msg) /\ f1 = With(f, x, j)
        BY <1>1, <2>2, <3>2, <3>3, <3>4, <3>5, <3>7, <3>9 DEF Messages, With, g
      <4>2. QueueInv(s1, m1, f1, c) /\ s1.r_current = s.r_current
        BY ONLY <4>1, Wakes
      <4> QED BY <4>2
    <3>11. q'[x] = h /\ \A y \in Queues \ {x} : q'[y] = q[y] BY <1>1, <3>2, <3>4
    <3>12. \A y \in Queues : /\ Stored(y, q'[y]) = Stored(y, q[y])
                            /\ q'[y].q_counter = q[y].q_counter
      BY <3>8, <3>9, <3>11 DEF g
    <3> QED BY <1>2, <3>10, <3>12
  <2> QED BY <2>1, <2>2 DEF TimerCallback
<1>5. \A u \in AllThreads : TimerFits(u)' BY <1>1, <1>2, <1>3 DEF TimerFits
<1>6. vt' \in [AllThreads -> {"off", "armed", "fired"}] BY <1>1, <1>2
<1>7. ~Locked' BY <1>2, <1>3, <1>4 DEF Locked, currp
<1>8. Sending' BY <1>4 DEF SerialInv, Sending, Queues
<1>9. Streams
  <2> SUFFICES ASSUME NEW y \in Queues PROVE StreamStep(y, q[y], q'[y], said'[y])
    BY DEF Streams
  <2>1. said'[y] = "-" BY <1>2 DEF Nothing
  <2> QED BY <1>4, <2>1, StillStream
<1> QED BY <1>2, <1>4, <1>5, <1>6, <1>7, <1>8, <1>9 DEF SerialInv

LEMMA IrqExitOK ==
    ASSUME SerialInv, IrqExit, UNCHANGED <<state, usart, stalled>>
    PROVE  SerialInv' /\ Streams
<1>1. /\ k' = IrqEpilogue(k) /\ isr' = FALSE /\ rdymsg' = rdymsg /\ vt' = vt
      /\ call' = call /\ q' = q /\ said' = Nothing
      /\ \A t \in AllThreads : vt[t] # "fired"
  BY DEF IrqExit
<1>2. QueueInv(k, rdymsg, q, call) /\ SchedInv(k) BY DEF SerialInv, QueueInv
<1>3. QueueInv(k', rdymsg', q', call')
  <2> PICK s : s = k' OBVIOUS
  <2>1. SchedInv(s) /\ Keeps(k, s, {}) BY <1>1, <1>2, Epilogue
  <2> QED BY <1>1, <1>2, <2>1, SwitchStep
<1>4. \A u \in AllThreads : TimerFits(u)' BY <1>1 DEF SerialInv, TimerFits
<1>5. Sending' BY <1>1 DEF SerialInv, Sending
<1>6. Streams BY <1>1, QuietStream
<1> QED BY <1>1, <1>3, <1>4, <1>5, <1>6 DEF SerialInv

\* The USART works on its own.
LEMMA UsartOK ==
    ASSUME SerialInv, Shift \/ TransmissionEnds
    PROVE  SerialInv' /\ Streams
<1>1. /\ k' = k /\ isr' = isr /\ rdymsg' = rdymsg /\ vt' = vt /\ call' = call /\ q' = q
      /\ said' = Nothing /\ state' = state /\ stalled' = stalled
  BY DEF Shift, TransmissionEnds
<1>2. usart' \in UsartStates /\ usart'.txeie = usart.txeie
  <2> PICK u \in UsartStates : u = usart BY DEF SerialInv
  <2>1. /\ [u EXCEPT !.txe = TRUE] \in UsartStates
        /\ [u EXCEPT !.txe = TRUE].txeie = u.txeie
        /\ [u EXCEPT !.busy = FALSE, !.tc = TRUE] \in UsartStates
        /\ [u EXCEPT !.busy = FALSE, !.tc = TRUE].txeie = u.txeie
    BY DEF UsartStates
  <2> QED BY <2>1 DEF Shift, TransmissionEnds
<1>3. Sending' BY <1>1, <1>2 DEF SerialInv, Sending
<1>4. \A t \in AllThreads : TimerFits(t)' BY <1>1 DEF SerialInv, TimerFits
<1>5. (isr => ~Locked)' BY <1>1 DEF SerialInv, Locked, currp
<1>6. Streams BY <1>1, QuietStream
<1> QED BY <1>1, <1>2, <1>3, <1>4, <1>5, <1>6 DEF SerialInv

\* What serve_interrupt() leaves of the transmitter interrupt.
LEMMA ServeUsart ==
    ASSUME NEW u \in UsartStates, NEW g, g = q["oq"], NEW u1, u1 = ServeTc(ServeTxe(u), u)
    PROVE  /\ u1 \in UsartStates
           /\ u.txeie /\ ~(u.txe /\ IsrBlocked(g)) => u1.txeie
<1>1. /\ ServeTxe(u) \in UsartStates
      /\ u.txeie /\ ~(u.txe /\ IsrBlocked(g)) => ServeTxe(u).txeie
  <2>1. /\ [u EXCEPT !.txeie = FALSE, !.tcie = TRUE] \in UsartStates
        /\ [u EXCEPT !.txe = FALSE, !.busy = TRUE] \in UsartStates
        /\ [u EXCEPT !.txe = FALSE, !.busy = TRUE].txeie = u.txeie
    BY DEF UsartStates
  <2> QED BY <2>1 DEF ServeTxe
<1> PICK v : v = ServeTxe(u) OBVIOUS
<1>2. /\ [v EXCEPT !.tc = FALSE, !.txeie = u.txeie, !.tcie = FALSE] \in UsartStates
      /\ [v EXCEPT !.tc = FALSE, !.txeie = u.txeie, !.tcie = FALSE].txeie = u.txeie
  BY <1>1 DEF UsartStates
<1> QED BY <1>1, <1>2 DEF ServeTc

LEMMA ServeInterruptOK ==
    ASSUME SerialInv, NEW rx \in Bytes["iq"] \cup {NULL}, ServeInterrupt(rx)
    PROVE  SerialInv' /\ Streams
<1> PICK u \in UsartStates : u = usart BY DEF SerialInv
<1> DEFINE tx == usart.txeie /\ usart.txe
<1> PICK n : n = Now OBVIOUS
<1> PICK a : a = IF rx = NULL THEN n ELSE chIQPutI(n, rx) OBVIOUS
<1> PICK z : z = IF tx THEN chOQGetI(a) ELSE a OBVIOUS
<1>1. /\ k' = z.s /\ rdymsg' = z.m /\ q' = z.q /\ isr' = TRUE
      /\ vt' = vt /\ call' = call /\ state' = state /\ stalled' = stalled
      /\ usart' = ServeTc(ServeTxe(u), u) /\ ~Locked
      /\ said' = [iq |-> IF rx # NULL /\ IsrBlocked(q["iq"]) THEN "FULL" ELSE "-",
                  oq |-> IF ~tx THEN "-"
                         ELSE IF IsrBlocked(q["oq"]) THEN "EMPTY" ELSE Oldest("oq")]
  BY DEF ServeInterrupt, IsrCode
<1>2. "iq" \in Queues /\ "oq" \in Queues BY DEF Queues
<1>3. QueueInv(k, rdymsg, q, call) /\ n = [s |-> k, m |-> rdymsg, q |-> q]
  BY DEF SerialInv, Now
<1>4. /\ QueueInv(a.s, a.m, a.q, call) /\ a.s.r_current = k.r_current
      /\ a = [s |-> a.s, m |-> a.m, q |-> a.q] /\ a.q["oq"] = q["oq"]
      /\ StreamStep("iq", q["iq"], a.q["iq"], said'["iq"])
  <2>1. CASE rx = NULL
    <3>1. a = n /\ said'["iq"] = "-" BY <1>1, <2>1
    <3>2. a.s = k /\ a.m = rdymsg /\ a.q = q BY <1>3, <3>1
    <3> QED BY <1>2, <1>3, <3>1, <3>2, StillStream
  <2>2. CASE rx # NULL
    <3>1. a = chIQPutI(n, rx) /\ rx \in Bytes["iq"] BY <2>2
    <3>2. /\ QueueInv(a.s, a.m, a.q, call) /\ a.s.r_current = k.r_current /\ IsView(a)
          /\ a.q["oq"] = q["oq"]
          /\ IF IsrBlocked(q["iq"])
             THEN a = n /\ Len(Stored("iq", q["iq"])) = Size["iq"]
             ELSE /\ Len(Stored("iq", q["iq"])) < Size["iq"]
                  /\ Stored("iq", a.q["iq"]) = Append(Stored("iq", q["iq"]), rx)
      BY <1>3, <3>1, PutOK
    <3>3. CASE IsrBlocked(q["iq"])
      <4>1. said'["iq"] = "FULL" /\ a.q["iq"] = q["iq"] BY <1>1, <1>3, <2>2, <3>2, <3>3
      <4> QED BY <3>2, <3>3, <4>1 DEF StreamStep, IsView
    <3>4. CASE ~IsrBlocked(q["iq"])
      <4>1. said'["iq"] = "-" BY <1>1, <3>4
      <4> QED BY <3>1, <3>2, <3>4, <4>1 DEF StreamStep, IsView
    <3> QED BY <3>3, <3>4
  <2> QED BY <2>1, <2>2
<1>5. /\ QueueInv(z.s, z.m, z.q, call) /\ z.s.r_current = k.r_current
      /\ z.q["iq"] = a.q["iq"]
      /\ StreamStep("oq", q["oq"], z.q["oq"], said'["oq"])
      /\ \/ z.q["oq"].q_counter = q["oq"].q_counter
            /\ (tx => q["oq"].q_counter = Size["oq"])
         \/ z.q["oq"].q_counter = q["oq"].q_counter + 1 /\ ~IsrBlocked(q["oq"])
  <2>1. CASE ~tx
    <3>1. z = a /\ said'["oq"] = "-" BY <1>1, <2>1
    <3> QED BY <1>2, <1>4, <2>1, <3>1, StillStream
  <2>2. CASE tx
    <3>1. z = chOQGetI(a) BY <2>2
    <3>2. /\ QueueInv(z.s, z.m, z.q, call) /\ z.s.r_current = a.s.r_current /\ IsView(z)
          /\ z.q["iq"] = a.q["iq"]
          /\ IF IsrBlocked(a.q["oq"])
             THEN /\ z = a /\ Stored("oq", a.q["oq"]) = <<>>
                  /\ a.q["oq"].q_counter = Size["oq"]
             ELSE /\ Stored("oq", a.q["oq"]) # <<>>
                  /\ a.q["oq"].q_buffer[a.q["oq"].q_rdptr] = Head(Stored("oq", a.q["oq"]))
                  /\ Stored("oq", z.q["oq"]) = Tail(Stored("oq", a.q["oq"]))
                  /\ z.q["oq"].q_counter = a.q["oq"].q_counter + 1
      BY <1>4, <3>1, GetOK
    <3>3. CASE IsrBlocked(q["oq"])
      <4>1. said'["oq"] = "EMPTY" BY <1>1, <2>2, <3>3
      <4>2. z.q["oq"] = q["oq"] /\ Stored("oq", q["oq"]) = <<>>
            /\ q["oq"].q_counter = Size["oq"]
        BY <1>4, <3>2, <3>3
      <4> QED BY <1>4, <3>2, <4>1, <4>2 DEF StreamStep
    <3>4. CASE ~IsrBlocked(q["oq"])
      <4>1. said'["oq"] = q["oq"].q_buffer[q["oq"].q_rdptr] BY <1>1, <2>2, <3>4 DEF Oldest
      <4> QED BY <1>4, <3>2, <3>4, <4>1 DEF StreamStep
    <3> QED BY <3>3, <3>4
  <2> QED BY <2>1, <2>2
<1>6. usart' \in UsartStates /\ Sending'
  <2> PICK g : g = q["oq"] OBVIOUS
  <2> PICK v : v = usart' OBVIOUS
  <2>1. /\ v \in UsartStates /\ (u.txeie /\ ~(u.txe /\ IsrBlocked(g)) => v.txeie)
    BY <1>1, ServeUsart
  <2>2. /\ QueueOK("oq", g) /\ Size["oq"] \in Nat /\ g.q_counter \in 0..Size["oq"]
        /\ (IsrBlocked(g) <=> g.q_counter = Size["oq"])
    <3>1. QueueOK("oq", g) BY <1>2, <1>3 DEF QueueInv
    <3>2. g \in QueueStates("oq") /\ InStep("oq", g) BY <3>1 DEF QueueOK
    <3> QED BY <1>2, <3>1, <3>2, QueueFacts, BlockedAtLimit DEF QueueStates
  <2>3. ASSUME state = "SD_READY", ~stalled, z.q["oq"].q_counter < Size["oq"]
        PROVE  v.txeie
    <3>1. g.q_counter < Size["oq"] BY <1>5, <2>2, <2>3
    <3>2. u.txeie /\ ~IsrBlocked(g) BY <2>2, <2>3, <3>1 DEF SerialInv, Sending
    <3> QED BY <2>1, <3>2
  <2> QED BY <1>1, <2>1, <2>3 DEF Sending
<1>7. Streams BY <1>1, <1>4, <1>5 DEF Streams, Queues
<1>8. \A t \in AllThreads : TimerFits(t)' BY <1>1 DEF SerialInv, TimerFits
<1>9. ~Locked' BY <1>1, <1>5 DEF Locked, currp
<1> QED BY <1>1, <1>5, <1>6, <1>7, <1>8, <1>9 DEF SerialInv

----------------------------------------------------------------------------
(* The invariant *)

\* The threads have been created and the driver is stopped.
LEMMA SerialInitOK ==
    ASSUME SerialInit
    PROVE  /\ SerialInv
           /\ \A x \in Queues : Stored(x, q[x]) = <<>> /\ said[x] = "-"
<1> DEFINE prio == [t \in AllThreads |-> IF t = Idle THEN IDLEPRIO ELSE InitPrio[t]]
<1>1. prio \in [AllThreads -> Prios]
  BY QueuesAssumption, SchedAssumption
     DEF AllThreads, Prios, UserPrios, IDLEPRIO, LOWPRIO
<1>2. /\ isr = FALSE /\ rdymsg = [t \in AllThreads |-> NULL]
      /\ vt = [t \in AllThreads |-> "off"] /\ call = [t \in AllThreads |-> NoCall]
      /\ q = [x \in Queues |-> Emptied(x, [i \in 0..(Size[x] - 1) |-> NULL])]
      /\ said = Nothing
      /\ state = "SD_STOP" /\ usart = Deinitialised /\ stalled = FALSE
  BY DEF SerialInit, QueuesInit
<1>3. PICK o \in [1..Cardinality(AllThreads) -> AllThreads] :
         NoDuplicates(o) /\ k = Started(o, prio)
  BY DEF SerialInit, QueuesInit, Started
<1> HIDE DEF prio
<1>4. SchedInv(k) BY <1>1, <1>3, StartInv
<1>5. \A t \in AllThreads : k.p_state[t] \in Runnable BY <1>3 DEF Started, Runnable
<1>6. ASSUME NEW x \in Queues
      PROVE  /\ QueueOK(x, q[x]) /\ Stored(x, q[x]) = <<>> /\ q[x].q_waiting = <<>>
  <2>1. [i \in Places(x) |-> NULL] \in [Places(x) -> Bytes[x] \cup {NULL}] OBVIOUS
  <2>2. q[x] = Emptied(x, [i \in Places(x) |-> NULL]) BY <1>2 DEF Places
  <2> QED BY <2>1, <2>2, EmptiedOK
<1>7. QueueInv(k, rdymsg, q, call)
  <2>1. /\ rdymsg \in [AllThreads -> Messages]
        /\ call \in [AllThreads -> Calls \cup {NoCall}] /\ call[Idle] = NoCall
    BY <1>2 DEF Messages, AllThreads
  <2>2. q = [x \in Queues |-> q[x]] BY <1>2
  <2>3. \A t \in AllThreads : ThreadFits(k, q, call, t)
    <3>1. Elems(<<>>) = {} BY DEF Elems
    <3>2. "WTQUEUE" \notin Runnable BY DEF Runnable
    <3> QED BY <1>5, <1>6, <3>1, <3>2 DEF ThreadFits
  <2>4. \A x \in Queues : Served(k, rdymsg, q[x], call, x) BY <1>6 DEF Served
  <2> QED BY <1>4, <1>6, <2>1, <2>2, <2>3, <2>4 DEF QueueInv
<1>8. \A t \in AllThreads : TimerFits(t) BY <1>2 DEF TimerFits
<1>9. usart \in UsartStates /\ Sending BY <1>2 DEF Deinitialised, UsartStates, Sending
<1>10. SerialInv BY <1>2, <1>7, <1>8, <1>9 DEF SerialInv
<1>11. \A x \in Queues : said[x] = "-" BY <1>2 DEF Nothing
<1> QED BY <1>6, <1>10, <1>11

\* Every step keeps the invariant and is a step of both streams.
LEMMA SerialStepOK ==
    ASSUME SerialInv, SerialNext
    PROVE  SerialInv' /\ Streams
<1>1. CASE SerialThreadStep BY <1>1, SerialThreadOK
<1>2. CASE TimerStep /\ UNCHANGED <<state, usart, stalled>>
  <2>1. ASSUME NEW t \in Threads, TimerExpires(t) PROVE SerialInv' /\ Streams
    BY <1>2, <2>1, TimerExpiresOK
  <2>2. ASSUME NEW t \in Threads, TimerCallback(t) PROVE SerialInv' /\ Streams
    BY <1>2, <2>2, TimerCallbackOK
  <2>3. CASE IrqExit BY <1>2, <2>3, IrqExitOK
  <2> QED BY <1>2, <2>1, <2>2, <2>3 DEF TimerStep
<1>3. CASE sdStart BY <1>3, sdStartOK
<1>4. CASE sdStop BY <1>4, sdStopOK
<1>5. CASE Shift \/ TransmissionEnds BY <1>5, UsartOK
<1>6. ASSUME NEW rx \in Bytes["iq"] \cup {NULL}, ServeInterrupt(rx)
      PROVE  SerialInv' /\ Streams
  BY <1>6, ServeInterruptOK
<1> QED BY <1>1, <1>2, <1>3, <1>4, <1>5, <1>6 DEF SerialNext

LEMMA SerialStutter ==
    ASSUME SerialInv, UNCHANGED vars
    PROVE  SerialInv'
<1>1. /\ k' = k /\ isr' = isr /\ rdymsg' = rdymsg /\ vt' = vt /\ call' = call /\ q' = q
      /\ state' = state /\ usart' = usart /\ stalled' = stalled
  BY DEF vars, queuevars
<1> QED BY <1>1 DEF SerialInv, TimerFits, Sending, Locked, currp

\* The inductive invariant of the queues and the driver: exactly the threads that
\* sleep are in a queue, the one of their call; the pointers of a buffer are as
\* far apart as its counter says; and the two properties below.
THEOREM SerialInvariant == SerialSpec => []SerialInv
<1>1. SerialInit => SerialInv BY SerialInitOK
<1>2. SerialInv /\ [SerialNext]_vars => SerialInv' BY SerialStepOK, SerialStutter
<1> QED BY <1>1, <1>2, PTL DEF SerialSpec

\* No thread waits for a byte or a place that nobody was woken for, however
\* bytes, timeouts, resets and other readers interleave (chqueues.c:180 and 145).
THEOREM NobodyEverStranded == SerialSpec => []NobodyIsStranded
<1>1. ASSUME SerialInv PROVE NobodyIsStranded
  <2>1. /\ SchedInv(k) /\ rdymsg \in [AllThreads -> Messages]
        /\ call \in [AllThreads -> Calls \cup {NoCall}]
        /\ \A x \in Queues : QueueOK(x, q[x]) /\ Served(k, rdymsg, q[x], call, x)
        /\ isr \in BOOLEAN /\ vt \in [AllThreads -> {"off", "armed", "fired"}]
    BY <1>1 DEF SerialInv, QueueInv
  <2>2. QueuesTypeOK
    <3>1. ASSUME NEW x \in Queues
          PROVE  /\ q[x].q_counter \in 0..Size[x]
                 /\ q[x].q_rdptr \in 0..(Size[x] - 1) /\ q[x].q_wrptr \in 0..(Size[x] - 1)
                 /\ q[x].q_buffer \in [0..(Size[x] - 1) -> Bytes[x] \cup {NULL}]
                 /\ Elems(q[x].q_waiting) \subseteq Threads /\ NoDuplicates(q[x].q_waiting)
      <4>1. q[x] \in QueueStates(x) /\ NoDuplicates(q[x].q_waiting)
        BY <2>1 DEF QueueOK
      <4>2. q[x].q_waiting \in Seq(Threads) BY <4>1 DEF QueueStates
      <4>3. Elems(q[x].q_waiting) \subseteq Threads BY <4>2 DEF Elems
      <4> QED BY <4>1, <4>3 DEF QueueStates, Places
    <3> QED BY <2>1, <3>1 DEF QueuesTypeOK, SchedInv, Messages
  <2> QED BY <2>1, <2>2 DEF NobodyIsStranded, Served, Woken
<1> QED BY <1>1, SerialInvariant, PTL

\* The transmission does not stop with bytes left to send (serial_lld.c:174-194).
THEOREM BytesAlwaysSent == SerialSpec => []BytesAreSent
<1>1. NobodyIsStranded /\ SerialInv => BytesAreSent
  BY DEF NobodyIsStranded, BytesAreSent, SerialTypeOK, SerialInv, Sending
<1> QED BY <1>1, NobodyEverStranded, SerialInvariant, PTL

\* Both queues are bounded streams for buffers of every size: bytes leave in the
\* order they came in, each once, whoever interrupts a transfer of several bytes,
\* and only a full queue refuses one.
THEOREM QueuesStream == SerialSpec => QueuesAreStreams
<1>1. \A x \in Queues : Content(x) = Stored(x, q[x]) /\ Content(x)' = Stored(x, q'[x])
  BY DEF Content, Stored, Fill
<1>2. "iq" \in Queues /\ "oq" \in Queues BY DEF Queues
<1>3. SerialInit => IStream!StreamInit /\ OStream!StreamInit
  BY <1>1, <1>2, SerialInitOK DEF IStream!StreamInit, OStream!StreamInit
<1>4. ASSUME SerialInv, [SerialNext]_vars
      PROVE  /\ [IStream!StreamNext]_<<Content("iq"), said["iq"]>>
             /\ [OStream!StreamNext]_<<Content("oq"), said["oq"]>>
  <2>1. CASE UNCHANGED vars
    <3>1. q' = q /\ said' = said BY <2>1 DEF vars, queuevars
    <3> QED BY <1>1, <1>2, <3>1
  <2>2. CASE SerialNext
    <3>1. /\ StreamStep("iq", q["iq"], q'["iq"], said'["iq"])
          /\ StreamStep("oq", q["oq"], q'["oq"], said'["oq"])
      BY <1>2, <1>4, <2>2, SerialStepOK DEF Streams
    <3>2. IStream!StreamNext
      BY <1>1, <1>2, <3>1 DEF StreamStep, IStream!StreamNext, IStream!Put, IStream!Get,
         IStream!Refuse, IStream!Clear, IStream!Quiet
    <3>3. OStream!StreamNext
      BY <1>1, <1>2, <3>1 DEF StreamStep, OStream!StreamNext, OStream!Put, OStream!Get,
         OStream!Refuse, OStream!Clear, OStream!Quiet
    <3> QED BY <3>2, <3>3
  <2> QED BY <1>4, <2>1, <2>2
<1>5. SerialInv /\ [SerialNext]_vars =>
        /\ [IStream!StreamNext]_<<Content("iq"), said["iq"]>>
        /\ [OStream!StreamNext]_<<Content("oq"), said["oq"]>>
  BY <1>4
<1> QED BY <1>3, <1>5, SerialInvariant, PTL
        DEF SerialSpec, QueuesAreStreams, IStream!StreamSpec, OStream!StreamSpec
=============================================================================
