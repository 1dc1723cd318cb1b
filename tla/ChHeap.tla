------------------------------- MODULE ChHeap -------------------------------
(***************************************************************************)
(* The heap, os/kernel/src/chheap.c, over the core allocator, chmemcore.c: *)
(* a list of free blocks in the order of their addresses, searched for the *)
(* first that fits, split on allocation and merged with its neighbours on  *)
(* release. Threads walk the list under the heap's mutex, one block a      *)
(* step; a heap that cannot serve a request asks the core for memory after *)
(* it has given the mutex back.                                            *)
(*                                                                         *)
(* Addresses and sizes count units of the alignment, so that every size is *)
(* aligned. A block is kept with its end, LIMIT() in the code, for its     *)
(* size; headers of blocks that no longer exist are not kept.              *)
(***************************************************************************)
EXTENDS Integers

CONSTANTS
    Threads,      \* the threads that use the heap
    HEADER,       \* sizeof(union heap_header)
    BASE, ENDMEM, \* the memory of the heap, or of the core allocator
    Requests      \* the sizes asked for; none is so large that adding to it
                  \* exceeds a size_t

ASSUME HeapAssumption ==
    /\ HEADER \in Nat \ {0} /\ BASE \in Nat \ {0} /\ ENDMEM \in Nat
    /\ BASE + HEADER <= ENDMEM
    /\ Requests \subseteq Nat

VARIABLES
    blk,          \* the blocks of memory by address: state, end, next free
    h_free,       \* h_free.next: the first free block, or NIL
    nextmem,      \* the first address the core has not given away
    pc            \* what every thread is doing in the heap

heapvars == <<blk, h_free, nextmem, pc>>

NIL == 0          \* no block, and as a place in the list its header
Addr == 1..ENDMEM

\* A thread has called nothing, walks the list to allocate n units or to free
\* the block p, standing at qp, or asks the core for n units.
Call(at, n, p) == [at |-> at, n |-> n, p |-> p, qp |-> NIL]
Idle == Call("idle", 0, NIL)
Doing == [at : {"idle", "alloc", "free", "ask"}, n : Nat, p : Addr \cup {NIL},
          qp : Addr \cup {NIL}]

Block(st, end, next) == [st |-> st, end |-> end, next |-> next]
Blocks == DOMAIN blk
Free == {a \in Blocks : blk[a].st = "free"}

HeapTypeOK ==
    /\ Blocks \subseteq Addr
    /\ blk \in [Blocks -> [st : {"free", "used", "core"}, end : Nat,
                           next : Addr \cup {NIL}]]
    /\ h_free \in Addr \cup {NIL}
    /\ nextmem \in BASE..ENDMEM
    /\ pc \in [Threads -> Doing]

\* chHeapInit() makes one free block of the buffer; _heap_init() starts with an
\* empty list and a core to ask. A core with nothing left stands for none.
HeapInit ==
    /\ \/ /\ blk = [a \in {BASE} |-> Block("free", ENDMEM, NIL)]
          /\ h_free = BASE /\ nextmem = ENDMEM
       \/ /\ blk = [a \in {} |-> NIL]
          /\ h_free = NIL /\ nextmem = BASE
    /\ pc = [t \in Threads |-> Idle]

\* h_mtx
Locked == \E t \in Threads : pc[t].at \in {"alloc", "free"}

Next(qp) == IF qp = NIL THEN h_free ELSE blk[qp].next
Size(a) == blk[a].end - a - HEADER

Step(t, to) == pc' = [pc EXCEPT ![t] = to]

\* qp->next = a, and the blocks of b are the other blocks of the memory.
Linked(b, qp, a) ==
    /\ h_free' = IF qp = NIL THEN a ELSE h_free
    /\ blk' = [x \in DOMAIN b |-> IF x = qp THEN Block(b[x].st, b[x].end, a) ELSE b[x]]

----------------------------------------------------------------------------
(* Allocation *)

chHeapAlloc(t, n) ==
    /\ pc[t] = Idle /\ ~Locked
    /\ Step(t, Call("alloc", n, NIL))
    /\ UNCHANGED <<blk, h_free, nextmem>>

WalkOn(t) ==
    /\ pc[t].at = "alloc"
    /\ Next(pc[t].qp) # NIL /\ Size(Next(pc[t].qp)) < pc[t].n
    /\ Step(t, [pc[t] EXCEPT !.qp = Next(@)])
    /\ UNCHANGED <<blk, h_free, nextmem>>

\* The rest is too small to be a block.
Fragment(a, n) == Size(a) < n + HEADER

TakeWhole(t) ==
    LET qp == pc[t].qp
        hp == Next(qp)
    IN /\ pc[t].at = "alloc"
       /\ hp # NIL /\ Size(hp) >= pc[t].n /\ Fragment(hp, pc[t].n)
       /\ Linked([blk EXCEPT ![hp] = Block("used", blk[hp].end, NIL)], qp, blk[hp].next)
       /\ Step(t, Idle)
       /\ UNCHANGED nextmem

\* Faulty: the rest keeps the size of the whole block.
RestTooLarge(hp, fp) == Block("free", blk[hp].end + HEADER, blk[hp].next)

\* The block that remains behind the allocated one.
Rest(hp, fp) == Block("free", blk[hp].end, blk[hp].next)

Split(t) ==
    LET qp == pc[t].qp
        hp == Next(qp)
        fp == hp + HEADER + pc[t].n
    IN /\ pc[t].at = "alloc"
       /\ hp # NIL /\ Size(hp) >= pc[t].n /\ ~Fragment(hp, pc[t].n)
       /\ Linked([x \in Blocks \cup {fp} |->
                     IF x = fp THEN Rest(hp, fp)
                     ELSE IF x = hp THEN Block("used", fp, NIL)
                     ELSE blk[x]], qp, fp)
       /\ Step(t, Idle)
       /\ UNCHANGED nextmem

\* Nothing fits: the mutex is given back.
NothingFits(t) ==
    /\ pc[t].at = "alloc"
    /\ Next(pc[t].qp) = NIL
    /\ Step(t, Call("ask", pc[t].n, NIL))
    /\ UNCHANGED <<blk, h_free, nextmem>>

\* A block of the core, as long as it has room; otherwise NULL.
FromCore(st, size) ==
    IF ENDMEM - nextmem < size THEN UNCHANGED <<blk, nextmem>>
    ELSE /\ nextmem' = nextmem + size
         /\ blk' = [x \in Blocks \cup {nextmem} |->
                IF x = nextmem THEN Block(st, nextmem + size, NIL)
                ELSE blk[x]]

AskProvider(t) ==
    /\ pc[t].at = "ask"
    /\ FromCore("used", pc[t].n + HEADER)
    /\ Step(t, Idle)
    /\ UNCHANGED h_free

\* Other users of the core take memory for good.
chCoreAlloc(n) ==
    /\ n > 0
    /\ FromCore("core", n)
    /\ UNCHANGED <<h_free, pc>>

----------------------------------------------------------------------------
(* Release *)

\* A block is freed once, by the thread that got it or another.
chHeapFree(t, p) ==
    /\ pc[t] = Idle /\ ~Locked
    /\ blk[p].st = "used"
    /\ Step(t, Call("free", 0, p))
    /\ UNCHANGED <<blk, h_free, nextmem>>

\* The block belongs between qp and the next one.
Here(t) ==
    LET qp == pc[t].qp
    IN /\ qp = NIL \/ pc[t].p > qp
       /\ Next(qp) = NIL \/ pc[t].p < Next(qp)

GoOn(t) ==
    /\ pc[t].at = "free" /\ ~Here(t)
    /\ Step(t, [pc[t] EXCEPT !.qp = Next(@)])
    /\ UNCHANGED <<blk, h_free, nextmem>>

\* Faulty: only the block behind is looked at.
MergesForwardOnly(qp, p) == FALSE

MergesNext(qp, p) == Next(qp) # NIL /\ blk[p].end = Next(qp)
MergesPrev(qp, p) == qp # NIL /\ blk[qp].end = p

\* The freed block, merged with the next one.
Merged(qp, p) ==
    IF MergesNext(qp, p)
    THEN Block("free", blk[Next(qp)].end, blk[Next(qp)].next)
    ELSE Block("free", blk[p].end, Next(qp))

Insert(t) ==
    LET qp == pc[t].qp
        p  == pc[t].p
        rest == Blocks \ IF MergesNext(qp, p) THEN {Next(qp)} ELSE {}
    IN /\ pc[t].at = "free" /\ Here(t)
       /\ IF MergesPrev(qp, p)
          THEN /\ blk' = [x \in rest \ {p} |-> IF x = qp THEN Merged(qp, p) ELSE blk[x]]
               /\ UNCHANGED h_free
          ELSE Linked([x \in rest |-> IF x = p THEN Merged(qp, p) ELSE blk[x]], qp, p)
       /\ Step(t, Idle)
       /\ UNCHANGED nextmem

HeapNext ==
    \/ \E t \in Threads :
          \/ \E n \in Requests : chHeapAlloc(t, n)
          \/ WalkOn(t) \/ TakeWhole(t) \/ Split(t) \/ NothingFits(t) \/ AskProvider(t)
          \/ \E p \in Blocks : chHeapFree(t, p)
          \/ GoOn(t) \/ Insert(t)
    \/ \E n \in Requests : chCoreAlloc(n)

HeapSpec == HeapInit /\ [][HeapNext]_heapvars

----------------------------------------------------------------------------
(* Properties *)

\* The blocks partition the memory: no two overlap, and every unit the core has
\* given away is in a block, through all splits and merges of all threads
\* (chheap.c:142-150 and 206-218).
MemoryIsPartitioned ==
    /\ \A a \in Blocks :
          /\ a + (IF blk[a].st = "core" THEN 1 ELSE HEADER) <= blk[a].end
          /\ blk[a].end = nextmem \/ blk[a].end \in Blocks
    /\ \A a, b \in Blocks : a < b => blk[a].end <= b
    /\ IF nextmem = BASE THEN Blocks = {} ELSE BASE \in Blocks

\* The list has exactly the free blocks, in the order of their addresses.
ListIsSorted ==
    /\ h_free \in Free \cup {NIL}
    /\ h_free = NIL => Free = {}
    /\ \A a \in Free : h_free <= a
    /\ \A a \in Free :
          /\ blk[a].next = NIL \/ (blk[a].next \in Free /\ a < blk[a].next)
          /\ \A b \in Free : a < b => blk[a].next # NIL /\ blk[a].next <= b

\* Free memory is in as few blocks as can be: no two free blocks touch, so a heap
\* that got everything back is one block again (testheap.c:90-139).
FreeBlocksAreMerged ==
    /\ ListIsSorted
    /\ \A a \in Free : blk[a].end \notin Free
============================================================================
