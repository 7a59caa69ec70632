----------------------------- MODULE SendBuffer -----------------------------
(***************************************************************************)
(* The memory packets are sent from: SendBufferManager and its chunks.     *)
(*                                                                         *)
(* A thread carves buffers out of a chunk of its own, and they live on in  *)
(* the queues of sessions and in the kernel after the thread has taken     *)
(* another chunk.  A chunk nothing refers to any more goes through a       *)
(* shared pool to whichever thread wants one next.  A step is what one     *)
(* thread does up to the end of a section under gChunkPoolMutex.           *)
(***************************************************************************)
EXTENDS Integers, SequencesExt

CONSTANTS
    Thread,
    Main,           \* the thread that shuts the process down
    Chunk,          \* numbers of the chunks that may ever be made
    None,
    ChunkSize,      \* kChunkSize
    Reserve,        \* sizes callers reserve
    MaxBuffers      \* bound: buffers ever opened

ASSUME SendBufferAssumption ==
    /\ ChunkSize \in Nat \ {0} /\ MaxBuffers \in Nat
    /\ Reserve \subseteq 1..ChunkSize
    /\ None \notin Chunk /\ Main \in Thread

VARIABLES
    current,    \* tCurrentChunk of each thread
    writing,    \* the buffer a thread has opened and not closed
    live,       \* closed buffers that somebody still holds
    used,       \* _usedSize of each chunk
    state,      \* what has become of each chunk
    pool,       \* gChunkPool
    poolClosed, \* gChunkPoolClosed
    memory,     \* the buffer that last wrote each unit of a chunk
    count       \* buffers opened so far, which numbers them

vars == <<current, writing, live, used, state, pool, poolClosed, memory, count>>

Buffer == [id : 1..MaxBuffers, chunk : Chunk, at : 0..ChunkSize, size : 0..ChunkSize]

TypeOK ==
    /\ current \in [Thread -> Chunk \cup {None}]
    /\ writing \in [Thread -> Buffer \cup {None}]
    /\ live \subseteq Buffer
    /\ used \in [Chunk -> 0..ChunkSize]
    /\ state \in [Chunk -> {"unmade", "used", "returning", "pooled", "deleted"}]
    /\ pool \in Seq(Chunk) /\ poolClosed \in BOOLEAN
    /\ DOMAIN memory = Chunk /\ count \in 0..MaxBuffers

Init ==
    /\ current = [t \in Thread |-> None] /\ writing = [t \in Thread |-> None]
    /\ live = {} /\ count = 0
    /\ used = [c \in Chunk |-> 0] /\ state = [c \in Chunk |-> "unmade"]
    /\ pool = <<>> /\ poolClosed = FALSE
    /\ memory = [c \in Chunk |-> [i \in 1..ChunkSize |-> 0]]

\* What keeps a chunk: its thread, and the buffers carved out of it.
Referenced(c) ==
    \/ \E t \in Thread : current[t] = c
    \/ \E t \in Thread : writing[t] # None /\ writing[t].chunk = c
    \/ \E b \in live : b.chunk = c
-----------------------------------------------------------------------------
\* Wrong: the chunk handed out is still in the pool.
PoolKept == pool

PoolWithout == Front(pool)

FreeSize(c) == ChunkSize - used[c]

\* SendBufferChunk::Open in a chunk of which n units are used
Carve(t, c, n, size) ==
    /\ writing' = [writing EXCEPT ![t] = [id |-> count + 1, chunk |-> c, at |-> n, size |-> size]]
    /\ count' = count + 1

Current(t, size) == current[t] # None /\ FreeSize(current[t]) >= size

MayOpen(t) == writing[t] = None /\ count < MaxBuffers /\ ~poolClosed

\* SendBufferManager::Open with room in the chunk of the thread
OpenHere(t, size) ==
    /\ MayOpen(t)
    /\ Current(t, size)
    /\ Carve(t, current[t], used[current[t]], size)
    /\ UNCHANGED <<current, live, used, state, pool, poolClosed, memory>>

\* SendBufferManager::Open with a chunk from AcquireChunk, which is then Reset
OpenElsewhere(t, size) ==
    /\ MayOpen(t)
    /\ ~Current(t, size)
    /\ \E c \in Chunk :
          /\ IF pool # <<>> THEN c = Last(pool) /\ pool' = PoolWithout
             ELSE state[c] = "unmade" /\ pool' = pool
          /\ state' = [state EXCEPT ![c] = "used"]
          /\ used' = [used EXCEPT ![c] = 0]
          /\ current' = [current EXCEPT ![t] = c]
          /\ Carve(t, c, 0, size)
    /\ UNCHANGED <<live, poolClosed, memory>>

\* Wrong: what was written is not added to what is used.
UsedBefore(b, n) == used[b.chunk]

UsedAfter(b, n) == used[b.chunk] + n

\* SendBuffer::Close: the buffer is as long as what was written
Kept(b, n) == [b EXCEPT !.size = n]

\* MakePacket, up to the closing of the chunk: the caller has written in the reservation and
\* keeps n units of it, or gives up with 0.
Close(t, n) ==
    LET b == writing[t]
        fills == [i \in 1..ChunkSize |-> IF b.at < i /\ i <= b.at + b.size THEN b.id
                                         ELSE memory[b.chunk][i]]
    IN  /\ b # None /\ n <= b.size
        /\ memory' = [memory EXCEPT ![b.chunk] = fills]
        /\ used' = [used EXCEPT ![b.chunk] = UsedAfter(b, n)]
        /\ live' = IF n = 0 THEN live ELSE live \cup {Kept(b, n)}
        /\ writing' = [writing EXCEPT ![t] = None]
        /\ UNCHANGED <<current, state, pool, poolClosed, count>>

\* The last session that holds the buffer lets go of it.
Release(b) ==
    /\ live' = live \ {b}
    /\ UNCHANGED <<current, writing, used, state, pool, poolClosed, memory, count>>

\* A worker ends, and its tCurrentChunk with it; that of Main ends in Shutdown.
ThreadEnds(t) ==
    /\ writing[t] = None /\ current[t] # None
    /\ t = Main => poolClosed
    /\ current' = [current EXCEPT ![t] = None]
    /\ UNCHANGED <<writing, live, used, state, pool, poolClosed, memory, count>>
-----------------------------------------------------------------------------
\* ReturnChunkToPool, the deleter of a chunk: first gChunkPoolClosed, then the lock.
LetGo(c) ==
    /\ state[c] = "used" /\ ~Referenced(c)
    /\ state' = [state EXCEPT ![c] = IF poolClosed THEN "deleted" ELSE "returning"]
    /\ UNCHANGED <<current, writing, live, used, pool, poolClosed, memory, count>>

Park(c) ==
    /\ state[c] = "returning"
    /\ state' = [state EXCEPT ![c] = "pooled"]
    /\ pool' = Append(pool, c)
    /\ UNCHANGED <<current, writing, live, used, poolClosed, memory, count>>

\* SendBufferManager::Shutdown, after the workers have ended: the flag, and then
\* the chunks there are.
CloseThePool ==
    /\ ~poolClosed
    /\ \A t \in Thread \ {Main} : current[t] = None
    /\ \A c \in Chunk : state[c] # "returning"
    /\ poolClosed' = TRUE
    /\ UNCHANGED <<current, writing, live, used, state, pool, memory, count>>

DeletePooled ==
    /\ poolClosed /\ current[Main] = None /\ pool # <<>>
    /\ state' = [c \in Chunk |-> IF c \in ToSet(pool) THEN "deleted" ELSE state[c]]
    /\ pool' = <<>>
    /\ UNCHANGED <<current, writing, live, used, poolClosed, memory, count>>

Next ==
    \/ \E t \in Thread :
          \/ \E size \in Reserve : OpenHere(t, size) \/ OpenElsewhere(t, size)
          \/ \E n \in 0..ChunkSize : Close(t, n)
          \/ ThreadEnds(t)
    \/ \E b \in live : Release(b)
    \/ \E c \in Chunk : LetGo(c) \/ Park(c)
    \/ CloseThePool \/ DeletePooled

Spec == Init /\ [][Next]_vars
-----------------------------------------------------------------------------
\* As long as anybody holds a packet its bytes are those it was closed with, however
\* many threads retire, recycle and refill chunks meanwhile, and its chunk is not
\* deleted: one buffer may be handed to many sessions (Buffer.h:51-53).
PacketsStayIntact ==
    \A b \in live :
        /\ state[b.chunk] = "used"
        /\ \A i \in b.at + 1 .. b.at + b.size : memory[b.chunk][i] = b.id

\* A chunk is one thread's to carve, waits in the pool once, or is on its way there;
\* the section of AcquireChunk and that of the deleter never meet over one chunk
\* (Buffer.cpp:103-125).
OneOwner ==
    \A c \in Chunk :
        /\ Cardinality({t \in Thread : current[t] = c}) <= 1
        /\ Cardinality({i \in DOMAIN pool : pool[i] = c}) = IF state[c] = "pooled" THEN 1 ELSE 0
        /\ Referenced(c) => state[c] = "used"
=============================================================================
