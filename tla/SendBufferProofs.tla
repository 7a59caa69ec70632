-------------------------- MODULE SendBufferProofs --------------------------
(***************************************************************************)
(* A packet that somebody holds keeps its bytes, and a chunk has one       *)
(* owner: proofs for any number of threads, chunks and sizes.              *)
(*                                                                         *)
(* PacketsStayIntact is not inductive.  That a thread's next packet is not *)
(* written over one that is held needs where each packet lies below the    *)
(* mark the thread carves from; that a recycled chunk holds none needs     *)
(* that a chunk is in the pool only when nothing refers to it.             *)
(***************************************************************************)
EXTENDS SendBuffer, FiniteSetTheorems, SequenceTheorems, TLAPS

\* A thread carves from its current chunk, at the mark, and not past the end.
CarvesAtTheMark ==
    \A t \in Thread : writing[t] # None =>
        /\ writing[t].chunk = current[t]
        /\ writing[t].at = used[writing[t].chunk]
        /\ writing[t].at + writing[t].size <= ChunkSize

\* What is held lies below the mark, and is what was written.
HeldBelowTheMark ==
    \A b \in live :
        /\ b.at + b.size <= used[b.chunk]
        /\ \A i \in b.at + 1 .. b.at + b.size : memory[b.chunk][i] = b.id

\* No two threads carve from one chunk.
OwnChunk == \A t, u \in Thread : current[t] # None /\ current[t] = current[u] => t = u

\* A chunk a thread carves from, or a held packet lies in, is in use.
ReferencedIsUsed ==
    /\ \A t \in Thread : current[t] # None => state[current[t]] = "used"
    /\ \A b \in live : state[b.chunk] = "used"

\* The pool has each pooled chunk, once, and no other.
PoolIsPooled ==
    /\ \A i \in 1..Len(pool) : state[pool[i]] = "pooled"
    /\ \A i, k \in 1..Len(pool) : pool[i] = pool[k] => i = k
    /\ \A c \in Chunk : state[c] = "pooled" => \E i \in 1..Len(pool) : pool[i] = c

Memory == memory \in [Chunk -> [1..ChunkSize -> 0..MaxBuffers]]

IInv ==
    /\ TypeOK /\ Memory
    /\ CarvesAtTheMark /\ HeldBelowTheMark
    /\ OwnChunk /\ ReferencedIsUsed /\ PoolIsPooled
-----------------------------------------------------------------------------
\* Nothing is held and no chunk is made at the start.
LEMMA InitHolds == Init => IInv
<1> SUFFICES ASSUME Init PROVE IInv
  OBVIOUS
<1> USE SendBufferAssumption DEF Init
<1>1. TypeOK
  <2>1. pool \in Seq(Chunk)
    OBVIOUS
  <2>2. DOMAIN memory = Chunk /\ poolClosed \in BOOLEAN /\ live \subseteq Buffer
    OBVIOUS
  <2>3. used \in [Chunk -> 0..ChunkSize] /\ count \in 0..MaxBuffers
    OBVIOUS
  <2> QED  BY <2>1, <2>2, <2>3 DEF TypeOK
<1>2. Memory
  BY DEF Memory
<1>3. CarvesAtTheMark /\ HeldBelowTheMark
  BY DEF CarvesAtTheMark, HeldBelowTheMark
<1>4. OwnChunk /\ ReferencedIsUsed
  BY DEF OwnChunk, ReferencedIsUsed
<1>5. PoolIsPooled
  BY DEF PoolIsPooled
<1> QED  BY <1>1, <1>2, <1>3, <1>4, <1>5 DEF IInv

\* Opening in the current chunk (Buffer.cpp:135-158) begins at the mark.
LEMMA OpenHereKeeps ==
  ASSUME IInv, NEW t \in Thread, NEW size \in Reserve, OpenHere(t, size)
  PROVE  IInv'
<1> DEFINE c == current[t]
           b == [id |-> count + 1, chunk |-> c, at |-> used[c], size |-> size]
<1> USE SendBufferAssumption DEF IInv
<1>1. /\ c \in Chunk /\ b \in Buffer /\ used[c] + size <= ChunkSize
      /\ writing' = [writing EXCEPT ![t] = b]
      /\ count' = count + 1 /\ count' \in 0..MaxBuffers
  BY DEF OpenHere, MayOpen, Current, Carve, FreeSize, TypeOK, Buffer
<1>2. UNCHANGED <<current, live, used, state, pool, poolClosed, memory>>
  BY DEF OpenHere
<1>3. TypeOK' /\ Memory'
  BY <1>1, <1>2 DEF Memory, TypeOK
<1>4. CarvesAtTheMark'
  BY <1>1, <1>2 DEF CarvesAtTheMark, TypeOK
<1>5. HeldBelowTheMark' /\ OwnChunk' /\ ReferencedIsUsed' /\ PoolIsPooled'
  BY <1>2 DEF HeldBelowTheMark, OwnChunk, ReferencedIsUsed, PoolIsPooled
<1> QED  BY <1>3, <1>4, <1>5

\* Closing writes only above what is held in the chunk, and moves the mark past what it keeps.
LEMMA CloseKeeps ==
  ASSUME IInv, NEW t \in Thread, NEW n \in 0..ChunkSize, Close(t, n)
  PROVE  IInv'
<1> DEFINE b == writing[t]
           c == b.chunk
           fills == [i \in 1..ChunkSize |-> IF b.at < i /\ i <= b.at + b.size THEN b.id
                                            ELSE memory[c][i]]
<1> USE SendBufferAssumption DEF IInv
<1>1. /\ b \in Buffer /\ b # None /\ n <= b.size /\ c \in Chunk
      /\ c = current[t] /\ b.at = used[c] /\ b.at + b.size <= ChunkSize
  BY DEF Close, TypeOK, CarvesAtTheMark, Buffer
<1>2. /\ memory' = [memory EXCEPT ![c] = fills]
      /\ used' = [used EXCEPT ![c] = used[c] + n]
      /\ live' = IF n = 0 THEN live ELSE live \cup {[b EXCEPT !.size = n]}
      /\ writing' = [writing EXCEPT ![t] = None]
      /\ UNCHANGED <<current, state, pool, poolClosed, count>>
  BY DEF Close, UsedAfter, Kept
<1>3. used[c] \in 0..ChunkSize /\ used[c] + n \in 0..ChunkSize
  BY <1>1 DEF TypeOK, Buffer
<1>4. [b EXCEPT !.size = n] \in Buffer
  BY <1>1 DEF Buffer
<1>5. fills \in [1..ChunkSize -> 0..MaxBuffers]
  BY <1>1 DEF Memory, TypeOK, Buffer
<1>6. TypeOK' /\ Memory'
  BY <1>1, <1>2, <1>3, <1>4, <1>5 DEF Memory, TypeOK
<1>8. CarvesAtTheMark'
  <2> SUFFICES ASSUME NEW u \in Thread, writing'[u] # None
               PROVE  /\ writing'[u].chunk = current'[u]
                      /\ writing'[u].at = used'[writing'[u].chunk]
                      /\ writing'[u].at + writing'[u].size <= ChunkSize
    BY DEF CarvesAtTheMark
  <2>1. u # t /\ writing'[u] = writing[u] /\ writing[u] \in Buffer
    BY <1>2 DEF TypeOK
  <2>2. writing[u].chunk = current[u] /\ current[u] # c
    BY <1>1, <2>1 DEF CarvesAtTheMark, OwnChunk, TypeOK
  <2> QED  BY <1>2, <2>1, <2>2 DEF CarvesAtTheMark, TypeOK, Buffer
<1>9. HeldBelowTheMark'
  <2> SUFFICES ASSUME NEW d \in live'
               PROVE  /\ d.at + d.size <= used'[d.chunk]
                      /\ \A i \in d.at + 1 .. d.at + d.size : memory'[d.chunk][i] = d.id
    BY DEF Memory, HeldBelowTheMark
  <2>1. CASE d \in live
    <3>1. d \in Buffer /\ d.at + d.size <= used[d.chunk] /\ used[d.chunk] \in 0..ChunkSize
      BY <2>1 DEF TypeOK, HeldBelowTheMark, Buffer
    <3>2. CASE d.chunk # c
      BY <1>1, <1>2, <2>1, <3>1, <3>2 DEF Memory, HeldBelowTheMark, TypeOK, Buffer
    <3>3. CASE d.chunk = c
      <4>1. d.at + d.size <= used'[c]
        BY <1>1, <1>2, <1>3, <3>1, <3>3 DEF TypeOK, Buffer
      <4>2. ASSUME NEW i \in d.at + 1 .. d.at + d.size
            PROVE  memory'[c][i] = d.id
        <5>1. i \in 1..ChunkSize /\ ~(b.at < i)
          BY <1>1, <1>3, <3>1, <3>3 DEF Buffer
        <5>2. memory'[c][i] = memory[c][i]
          BY <1>1, <1>2, <5>1 DEF Memory, TypeOK
        <5> QED  BY <2>1, <3>3, <5>2 DEF HeldBelowTheMark
      <4> QED  BY <3>3, <4>1, <4>2
    <3> QED  BY <3>2, <3>3
  <2>2. CASE d = [b EXCEPT !.size = n]
    <3>1. /\ d.at = b.at /\ d.size = n /\ d.chunk = c /\ d.id = b.id
          /\ b.at \in 0..ChunkSize /\ b.size \in 0..ChunkSize
      BY <1>1, <2>2 DEF Buffer
    <3>2. d.at + d.size <= used'[d.chunk]
      BY <1>1, <1>2, <1>3, <3>1 DEF TypeOK
    <3>3. ASSUME NEW i \in d.at + 1 .. d.at + d.size
          PROVE  memory'[d.chunk][i] = d.id
      <4>1. i \in 1..ChunkSize /\ b.at < i /\ i <= b.at + b.size
        BY <1>1, <3>1
      <4> QED  BY <1>1, <1>2, <3>1, <4>1 DEF Memory, TypeOK
    <3> QED  BY <3>2, <3>3
  <2> QED  BY <1>2, <2>1, <2>2
<1>10. OwnChunk' /\ PoolIsPooled'
  BY <1>2 DEF OwnChunk, PoolIsPooled
<1>11. ReferencedIsUsed'
  <2>1. state[c] = "used" /\ [b EXCEPT !.size = n].chunk = c
    BY <1>1 DEF ReferencedIsUsed, Buffer, TypeOK
  <2> QED  BY <1>2, <2>1 DEF ReferencedIsUsed
<1> QED  BY <1>6, <1>8, <1>9, <1>10, <1>11

\* Letting go of a packet disturbs nothing that others hold.
LEMMA ReleaseKeeps ==
  ASSUME IInv, NEW b \in live, Release(b)
  PROVE  IInv'
<1> USE DEF IInv, Memory, Release
<1>1. TypeOK' /\ Memory' /\ CarvesAtTheMark' /\ OwnChunk' /\ PoolIsPooled'
  BY DEF Memory, TypeOK, CarvesAtTheMark, OwnChunk, PoolIsPooled
<1>2. HeldBelowTheMark' /\ ReferencedIsUsed'
  BY DEF HeldBelowTheMark, ReferencedIsUsed
<1> QED  BY <1>1, <1>2

\* A thread that ends leaves its chunk to the packets still in it.
LEMMA ThreadEndsKeeps ==
  ASSUME IInv, NEW t \in Thread, ThreadEnds(t)
  PROVE  IInv'
<1> USE SendBufferAssumption DEF IInv, ThreadEnds
<1>1. TypeOK' /\ Memory' /\ HeldBelowTheMark' /\ PoolIsPooled'
  BY DEF Memory, TypeOK, HeldBelowTheMark, PoolIsPooled
<1>2. CarvesAtTheMark' /\ OwnChunk' /\ ReferencedIsUsed'
  BY DEF TypeOK, CarvesAtTheMark, OwnChunk, ReferencedIsUsed
<1> QED  BY <1>1, <1>2

\* A chunk nobody may be using: it is nobody's, and holds nothing.
LEMMA UnusedIsFree ==
  ASSUME IInv, NEW c \in Chunk, state[c] # "used"
  PROVE  /\ \A u \in Thread : current[u] # c /\ (writing[u] # None => writing[u].chunk # c)
         /\ \A b \in live : b.chunk # c
  BY SendBufferAssumption DEF IInv, TypeOK, CarvesAtTheMark, ReferencedIsUsed, Buffer

\* A chunk taken from the pool, or made, is reset while nothing refers to it.
LEMMA OpenElsewhereKeeps ==
  ASSUME IInv, NEW t \in Thread, NEW size \in Reserve, OpenElsewhere(t, size)
  PROVE  IInv'
<1> USE SendBufferAssumption DEF IInv
<1>1. PICK c \in Chunk :
         /\ IF pool # <<>> THEN c = Last(pool) /\ pool' = PoolWithout
            ELSE state[c] = "unmade" /\ pool' = pool
         /\ state' = [state EXCEPT ![c] = "used"]
         /\ used' = [used EXCEPT ![c] = 0]
         /\ current' = [current EXCEPT ![t] = c]
         /\ Carve(t, c, 0, size)
  BY DEF OpenElsewhere
<1> DEFINE b == [id |-> count + 1, chunk |-> c, at |-> 0, size |-> size]
<1>2. /\ writing[t] = None /\ count < MaxBuffers /\ UNCHANGED <<live, poolClosed, memory>>
      /\ writing' = [writing EXCEPT ![t] = b] /\ count' = count + 1
  BY <1>1 DEF OpenElsewhere, MayOpen, Carve
<1>3. b \in Buffer /\ size <= ChunkSize /\ count' \in 0..MaxBuffers
  BY <1>2 DEF Buffer, TypeOK
<1>4. /\ pool' \in Seq(Chunk) /\ Len(pool') <= Len(pool)
      /\ \A i \in 1..Len(pool') : pool'[i] = pool[i] /\ pool'[i] # c
      /\ \A i \in 1..Len(pool) : pool[i] # c => i \in 1..Len(pool')
      /\ state[c] # "used"
  <2>1. CASE pool = <<>>
    BY <1>1, <2>1 DEF TypeOK
  <2>2. CASE pool # <<>>
    <3>1. /\ Len(pool) \in Nat \ {0} /\ c = pool[Len(pool)]
          /\ pool' = SubSeq(pool, 1, Len(pool) - 1)
      BY <1>1, <2>2 DEF PoolWithout, Front, Last, TypeOK
    <3>2. /\ pool' \in Seq(Chunk) /\ Len(pool') = Len(pool) - 1
          /\ \A i \in 1..Len(pool) - 1 : pool'[i] = pool[i]
      <4> DEFINE n == Len(pool) - 1
      <4>1. n \in Nat /\ \A i \in 1..n : pool[i] \in Chunk
        BY <3>1 DEF TypeOK
      <4>2. /\ SubSeq(pool, 1, n) \in Seq(Chunk)
            /\ Len(SubSeq(pool, 1, n)) = IF 1 <= n THEN n - 1 + 1 ELSE 0
            /\ \A i \in 1 .. n - 1 + 1 : SubSeq(pool, 1, n)[i] = pool[1 + i - 1]
        <5> HIDE DEF n
        <5> QED  BY <4>1, SubSeqProperties
      <4>3. pool' = SubSeq(pool, 1, n)
        BY <3>1
      <4>4. Len(pool') = n /\ \A i \in 1..n : pool'[i] = pool[i]
        <5> HIDE DEF n
        <5>1. n \in Nat /\ Len(pool') = IF 1 <= n THEN n - 1 + 1 ELSE 0
          BY <4>1, <4>2, <4>3
        <5>2. Len(pool') = n
          BY <5>1
        <5>3. \A i \in 1..n : i \in 1 .. n - 1 + 1 /\ 1 + i - 1 = i
          BY <5>1
        <5> QED  BY <4>2, <4>3, <5>2, <5>3
      <4> QED  BY <4>2, <4>3, <4>4
    <3>3. \A i \in 1..Len(pool) - 1 : pool[i] # c
      BY <3>1 DEF PoolIsPooled
    <3>4. state[c] = "pooled"
      BY <3>1 DEF PoolIsPooled
    <3>5. \A i \in 1..Len(pool) : pool[i] # c => i \in 1..Len(pool) - 1
      BY <3>1
    <3> QED  BY <3>1, <3>2, <3>3, <3>4, <3>5
  <2> QED  BY <2>1, <2>2
<1>5. /\ \A u \in Thread : current[u] # c /\ (writing[u] # None => writing[u].chunk # c)
      /\ \A d \in live : d.chunk # c
  BY <1>4, UnusedIsFree
<1>6. TypeOK' /\ Memory'
  <2>1. writing' \in [Thread -> Buffer \cup {None}] /\ current' \in [Thread -> Chunk \cup {None}]
    BY <1>1, <1>2, <1>3 DEF Memory, TypeOK
  <2>2. /\ used' \in [Chunk -> 0..ChunkSize]
        /\ state' \in [Chunk -> {"unmade", "used", "returning", "pooled", "deleted"}]
    BY <1>1 DEF TypeOK
  <2> QED  BY <1>2, <1>3, <1>4, <2>1, <2>2 DEF TypeOK, Memory
<1>7. CarvesAtTheMark'
  <2> SUFFICES ASSUME NEW u \in Thread, writing'[u] # None
               PROVE  /\ writing'[u].chunk = current'[u]
                      /\ writing'[u].at = used'[writing'[u].chunk]
                      /\ writing'[u].at + writing'[u].size <= ChunkSize
    BY DEF CarvesAtTheMark
  <2>1. CASE u = t
    BY <1>1, <1>2, <1>3, <2>1 DEF TypeOK
  <2>2. CASE u # t
    <3>1. writing'[u] = writing[u] /\ current'[u] = current[u] /\ writing[u] \in Buffer
      BY <1>1, <1>2, <2>2 DEF TypeOK
    <3>2. writing[u].chunk \in Chunk /\ used'[writing[u].chunk] = used[writing[u].chunk]
      BY <1>1, <1>5, <3>1 DEF TypeOK, Buffer
    <3> QED  BY <3>1, <3>2 DEF CarvesAtTheMark
  <2> QED  BY <2>1, <2>2
<1>8. HeldBelowTheMark'
  BY <1>1, <1>2, <1>5 DEF HeldBelowTheMark, TypeOK, Buffer
<1>9. OwnChunk' /\ ReferencedIsUsed'
  BY <1>1, <1>2, <1>5 DEF OwnChunk, ReferencedIsUsed, TypeOK, Buffer
<1>10. PoolIsPooled'
  <2>1. \A i \in 1..Len(pool') : i \in 1..Len(pool) /\ pool[i] \in Chunk
    BY <1>4 DEF TypeOK
  <2>2. \A i \in 1..Len(pool') : state'[pool'[i]] = "pooled"
    BY <1>1, <1>4, <2>1 DEF PoolIsPooled, TypeOK
  <2>3. \A i, k \in 1..Len(pool') : pool'[i] = pool'[k] => i = k
    BY <1>4, <2>1 DEF PoolIsPooled
  <2>4. ASSUME NEW d \in Chunk, state'[d] = "pooled"
        PROVE  \E i \in 1..Len(pool') : pool'[i] = d
    <3>1. d # c /\ state[d] = "pooled"
      BY <1>1, <2>4 DEF TypeOK
    <3>2. PICK i \in 1..Len(pool) : pool[i] = d
      BY <3>1 DEF PoolIsPooled
    <3> QED  BY <1>4, <3>1, <3>2
  <2> QED  BY <2>2, <2>3, <2>4 DEF PoolIsPooled
<1> QED  BY <1>6, <1>7, <1>8, <1>9, <1>10

\* A chunk leaves use only once nothing refers to it.
LEMMA LetGoKeeps ==
  ASSUME IInv, NEW c \in Chunk, LetGo(c)
  PROVE  IInv'
<1> USE SendBufferAssumption DEF IInv, LetGo
<1>1. TypeOK' /\ Memory' /\ CarvesAtTheMark' /\ HeldBelowTheMark' /\ OwnChunk'
  BY DEF Memory, TypeOK, CarvesAtTheMark, HeldBelowTheMark, OwnChunk
<1>2. ReferencedIsUsed'
  BY DEF TypeOK, ReferencedIsUsed, Referenced, Buffer
<1>3. PoolIsPooled'
  BY DEF TypeOK, PoolIsPooled
<1> QED  BY <1>1, <1>2, <1>3

\* A returning chunk was not in the pool, and is there once afterwards.
LEMMA ParkKeeps ==
  ASSUME IInv, NEW c \in Chunk, Park(c)
  PROVE  IInv'
<1> USE SendBufferAssumption DEF IInv
<1>1. /\ state[c] = "returning" /\ state' = [state EXCEPT ![c] = "pooled"]
      /\ pool' = Append(pool, c)
      /\ UNCHANGED <<current, writing, live, used, poolClosed, memory, count>>
  BY DEF Park
<1>2. /\ pool' \in Seq(Chunk) /\ Len(pool') = Len(pool) + 1 /\ pool'[Len(pool) + 1] = c
      /\ \A i \in 1..Len(pool) : pool'[i] = pool[i] /\ pool[i] # c /\ pool[i] \in Chunk
      /\ Len(pool) \in Nat
  BY <1>1 DEF TypeOK, PoolIsPooled
<1>3. TypeOK' /\ Memory' /\ CarvesAtTheMark' /\ HeldBelowTheMark' /\ OwnChunk'
  BY <1>1, <1>2 DEF Memory, TypeOK, CarvesAtTheMark, HeldBelowTheMark, OwnChunk
<1>4. ReferencedIsUsed'
  BY <1>1 DEF TypeOK, ReferencedIsUsed, Buffer
<1>5. PoolIsPooled'
  <2>1. \A i \in 1..Len(pool') : i \in 1..Len(pool) \/ i = Len(pool) + 1
    BY <1>2
  <2>2. \A i \in 1..Len(pool') : state'[pool'[i]] = "pooled"
    BY <1>1, <1>2, <2>1 DEF PoolIsPooled, TypeOK
  <2>3. \A i, k \in 1..Len(pool') : pool'[i] = pool'[k] => i = k
    BY <1>2, <2>1 DEF PoolIsPooled
  <2>4. \A d \in Chunk : state'[d] = "pooled" => \E i \in 1..Len(pool') : pool'[i] = d
    BY <1>1, <1>2 DEF PoolIsPooled, TypeOK
  <2> QED  BY <2>2, <2>3, <2>4 DEF PoolIsPooled
<1> QED  BY <1>3, <1>4, <1>5

\* Shutdown deletes the chunks of the pool, which nothing refers to.
LEMMA DeletePooledKeeps ==
  ASSUME IInv, DeletePooled
  PROVE  IInv'
<1> USE SendBufferAssumption DEF IInv
<1>1. /\ state' = [c \in Chunk |-> IF c \in ToSet(pool) THEN "deleted" ELSE state[c]]
      /\ pool' = <<>>
      /\ UNCHANGED <<current, writing, live, used, poolClosed, memory, count>>
  BY DEF DeletePooled
<1>2. \A c \in Chunk : c \in ToSet(pool) <=> state[c] = "pooled"
  BY DEF ToSet, PoolIsPooled, TypeOK
<1>3. TypeOK' /\ Memory' /\ CarvesAtTheMark' /\ HeldBelowTheMark' /\ OwnChunk'
  BY <1>1 DEF Memory, TypeOK, CarvesAtTheMark, HeldBelowTheMark, OwnChunk
<1>4. ReferencedIsUsed'
  BY <1>1, <1>2 DEF TypeOK, ReferencedIsUsed, Buffer
<1>5. PoolIsPooled'
  BY <1>1, <1>2 DEF TypeOK, PoolIsPooled
<1> QED  BY <1>3, <1>4, <1>5

\* Every step preserves the invariant, one action at a time.
LEMMA StepKeeps == IInv /\ [Next]_vars => IInv'
<1> SUFFICES ASSUME IInv, [Next]_vars PROVE IInv'
  OBVIOUS
<1>1. CASE \E t \in Thread : \E size \in Reserve : OpenHere(t, size)
  BY <1>1, OpenHereKeeps
<1>2. CASE \E t \in Thread : \E size \in Reserve : OpenElsewhere(t, size)
  BY <1>2, OpenElsewhereKeeps
<1>3. CASE \E t \in Thread : \E n \in 0..ChunkSize : Close(t, n)
  BY <1>3, CloseKeeps
<1>4. CASE \E t \in Thread : ThreadEnds(t)
  BY <1>4, ThreadEndsKeeps
<1>5. CASE \E b \in live : Release(b)
  BY <1>5, ReleaseKeeps
<1>6. CASE \E c \in Chunk : LetGo(c)
  BY <1>6, LetGoKeeps
<1>7. CASE \E c \in Chunk : Park(c)
  BY <1>7, ParkKeeps
<1>8. CASE CloseThePool
  BY <1>8 DEF CloseThePool, IInv, TypeOK, Memory, CarvesAtTheMark, HeldBelowTheMark,
              OwnChunk, ReferencedIsUsed, PoolIsPooled
<1>9. CASE DeletePooled
  BY <1>9, DeletePooledKeeps
<1>10. CASE UNCHANGED vars
  BY <1>10 DEF vars, IInv, TypeOK, Memory, CarvesAtTheMark, HeldBelowTheMark,
               OwnChunk, ReferencedIsUsed, PoolIsPooled
<1> QED
  BY <1>1, <1>2, <1>3, <1>4, <1>5, <1>6, <1>7, <1>8, <1>9, <1>10 DEF Next

\* What every reachable state of the buffers and the pool satisfies.
THEOREM Invariant == Spec => []IInv
  BY InitHolds, StepKeeps, PTL DEF Spec
-----------------------------------------------------------------------------
\* The invariant gives the bytes of what is held, and that its chunk is in use.
LEMMA HeldIsIntact == IInv => PacketsStayIntact
  BY DEF IInv, HeldBelowTheMark, ReferencedIsUsed, PacketsStayIntact

\* The invariant gives one owner, by counting.
LEMMA OwnersAreOne == IInv => OneOwner
<1> SUFFICES ASSUME IInv, NEW c \in Chunk
             PROVE  /\ Cardinality({t \in Thread : current[t] = c}) <= 1
                    /\ Cardinality({i \in DOMAIN pool : pool[i] = c}) =
                           IF state[c] = "pooled" THEN 1 ELSE 0
                    /\ Referenced(c) => state[c] = "used"
  BY DEF OneOwner
<1> USE SendBufferAssumption DEF IInv
<1>1. Cardinality({t \in Thread : current[t] = c}) <= 1
  <2>1. CASE \E t \in Thread : current[t] = c
    <3>1. PICK t \in Thread : current[t] = c
      BY <2>1
    <3>2. {u \in Thread : current[u] = c} = {t}
      BY <3>1 DEF OwnChunk
    <3> QED  BY <3>2, FS_Singleton
  <2>2. CASE ~ \E t \in Thread : current[t] = c
    <3>1. {t \in Thread : current[t] = c} = {}
      BY <2>2
    <3> QED  BY <3>1, FS_EmptySet
  <2> QED  BY <2>1, <2>2
<1>2. DOMAIN pool = 1..Len(pool)
  BY DEF TypeOK
<1>3. Cardinality({i \in DOMAIN pool : pool[i] = c}) = IF state[c] = "pooled" THEN 1 ELSE 0
  <2>1. CASE state[c] = "pooled"
    <3>1. PICK i \in 1..Len(pool) : pool[i] = c
      BY <2>1 DEF PoolIsPooled
    <3>2. {k \in DOMAIN pool : pool[k] = c} = {i}
      BY <1>2, <3>1 DEF PoolIsPooled
    <3> QED  BY <2>1, <3>2, FS_Singleton
  <2>2. CASE state[c] # "pooled"
    <3>1. {i \in DOMAIN pool : pool[i] = c} = {}
      BY <1>2, <2>2 DEF PoolIsPooled
    <3> QED  BY <2>2, <3>1, FS_EmptySet
  <2> QED  BY <2>1, <2>2
<1>4. Referenced(c) => state[c] = "used"
  BY UnusedIsFree DEF Referenced
<1> QED  BY <1>1, <1>3, <1>4

\* As long as anybody holds a packet its bytes and its chunk stay (Buffer.h:51-53).
THEOREM Intact == Spec => []PacketsStayIntact
  BY Invariant, HeldIsIntact, PTL

\* A chunk is one thread's, or in the pool once, and what is referred to is in use
\* (Buffer.cpp:103-125).
THEOREM Ownership == Spec => []OneOwner
  BY Invariant, OwnersAreOne, PTL

\* Every reachable state is well typed, for any threads, chunks and sizes.
THEOREM TypeCorrect == Spec => []TypeOK
<1>1. IInv => TypeOK
  BY DEF IInv
<1> QED  BY Invariant, <1>1, PTL
=============================================================================
