-------------------------------- MODULE Arena --------------------------------
(***************************************************************************)
(* The arena allocator of dumbc (dumbc/src/arena.c; guslang/arena.c is the *)
(* same code): up to MaxChunks chunks of ChunkSize bytes, filled first-fit *)
(* and never reused before arena_free.                                     *)
(*                                                                         *)
(* malloc may fail at any time.  arena_initialize_chunk sets "initialized" *)
(* before it calls malloc, so a chunk whose malloc failed stays in use     *)
(* with data = NULL, and a later request is served from it: NULL when its  *)
(* offset is 0, and NULL plus an offset after that.                        *)
(***************************************************************************)
EXTENDS Integers

CONSTANTS ChunkSize,  \* ARENA_CHUNK_SIZE, 4096
          MaxChunks,  \* ARENA_MAX_CHUNKS, 1024
          Sizes       \* the sizes callers ask for

\* A request larger than a chunk is granted by the code and overruns it:
\* Sizes is what keeps callers inside one chunk (DumbcCodegen says when the
\* compiler's own requests leave it).
ASSUME ArenaAssumption ==
  /\ ChunkSize \in Nat
  /\ MaxChunks \in Nat
  /\ Sizes \subseteq 1..ChunkSize

VARIABLES
  numChunks,  \* arena->num_chunks
  data,       \* data[i]: "unset" (zeroed slot), "heap" or "null" (malloc failed)
  used,       \* used[i]: bytes of chunk i handed out
  freed,      \* arena_free has run
  blocks,     \* history: the non-NULL pointers handed out, with their length
  refused     \* history: some call has returned NULL

vars == <<numChunks, data, used, freed, blocks, refused>>

Chunks == 1..MaxChunks

TypeOK ==
  /\ numChunks \in 0..MaxChunks
  /\ data \in [Chunks -> {"unset", "heap", "null"}]
  /\ used \in [Chunks -> 0..ChunkSize]
  /\ freed \in BOOLEAN
  /\ blocks \subseteq [chunk : Chunks, start : 0..ChunkSize, len : Sizes]
  /\ refused \in BOOLEAN

Init ==
  /\ numChunks = 0
  /\ data = [i \in Chunks |-> "unset"]
  /\ used = [i \in Chunks |-> 0]
  /\ freed = FALSE
  /\ blocks = {}
  /\ refused = FALSE

(***************************************************************************)
(* The test of the first-fit loop.  It is strict: a request that would     *)
(* fill the chunk to its last byte is not served from it.                  *)
(***************************************************************************)
HasRoom_IgnoresRequest(i, s) == data[i] # "unset" /\ used[i] < ChunkSize
HasRoom_ToTheLast(i, s) == data[i] # "unset" /\ used[i] + s <= ChunkSize

HasRoom(i, s) == data[i] # "unset" /\ used[i] + s < ChunkSize

FirstFit(i, s) ==
  /\ i \in 1..numChunks
  /\ HasRoom(i, s)
  /\ \A j \in 1..(i - 1) : ~ HasRoom(j, s)

NoFit(s) == \A i \in 1..numChunks : ~ HasRoom(i, s)

(***************************************************************************)
(* arena_chunk_allocate: the pointer is data + used, used grows by s.  A   *)
(* NULL data with offset 0 is the NULL the caller tests for.               *)
(***************************************************************************)
ChunkAllocate_KeepsUsed(i, s, d) ==
  /\ UNCHANGED <<used, refused>>
  /\ blocks' = blocks \cup {[chunk |-> i, start |-> used[i], len |-> s]}

ChunkAllocate(i, s, d) ==
  /\ used' = [used EXCEPT ![i] = @ + s]
  /\ IF d = "null" /\ used[i] = 0
     THEN refused' = TRUE /\ UNCHANGED blocks
     ELSE /\ blocks' = blocks \cup {[chunk |-> i, start |-> used[i], len |-> s]}
          /\ UNCHANGED refused

AllocInChunk(s) ==
  \E i \in Chunks :
    /\ FirstFit(i, s)
    /\ ChunkAllocate(i, s, data[i])
    /\ UNCHANGED <<numChunks, data>>

AllocNewChunk(s) ==
  /\ NoFit(s)
  /\ numChunks < MaxChunks
  /\ numChunks' = numChunks + 1
  /\ data' = [data EXCEPT ![numChunks + 1] = "heap"]
  /\ ChunkAllocate(numChunks + 1, s, "heap")

\* malloc fails in arena_initialize_chunk: the slot is initialized and counted,
\* its data is NULL, and arena_alloc returns NULL.
AllocMallocFails_Silent(s) ==
  /\ NoFit(s)
  /\ numChunks < MaxChunks
  /\ numChunks' = numChunks + 1
  /\ data' = [data EXCEPT ![numChunks + 1] = "null"]
  /\ ChunkAllocate(numChunks + 1, s, "heap")

AllocMallocFails(s) ==
  /\ NoFit(s)
  /\ numChunks < MaxChunks
  /\ numChunks' = numChunks + 1
  /\ data' = [data EXCEPT ![numChunks + 1] = "null"]
  /\ refused' = TRUE
  /\ UNCHANGED <<used, blocks>>

AllocExhausted(s) ==
  /\ NoFit(s)
  /\ numChunks >= MaxChunks
  /\ refused' = TRUE
  /\ UNCHANGED <<numChunks, data, used, blocks>>

\* arena_alloc.  Callers do not allocate after arena_free, which leaves the
\* chunk table as it was.
Alloc(s) ==
  /\ ~ freed
  /\ UNCHANGED freed
  /\ AllocInChunk(s) \/ AllocNewChunk(s) \/ AllocMallocFails(s) \/ AllocExhausted(s)

Free ==
  /\ ~ freed
  /\ freed' = TRUE
  /\ UNCHANGED <<numChunks, data, used, blocks, refused>>

Next == (\E s \in Sizes : Alloc(s)) \/ Free

Spec == Init /\ [][Next]_vars

-----------------------------------------------------------------------------
(* Properties *)

Apart(a, b) ==
  \/ a.chunk # b.chunk
  \/ a.start + a.len <= b.start
  \/ b.start + b.len <= a.start

\* Two pointers arena_alloc has handed out never overlap and never reach past
\* the end of a chunk, whatever the sizes and however malloc fails.
BlocksDisjoint ==
  /\ \A b \in blocks : b.start + b.len <= ChunkSize
  /\ \A a, b \in blocks : a # b => Apart(a, b)

\* A pointer into a chunk malloc never gave (NULL plus an offset) is handed out
\* only after some call returned NULL: a caller that stops at the first NULL
\* never holds one.  dumbc does not always stop: parser_parse_expression
\* overwrites the E_OOM of a prefix function with the result of the next infix.
WildOnlyAfterNull ==
  (\E b \in blocks : data[b.chunk] # "heap") => refused

\* No request shares a chunk's last byte: a chunk is full only with the one request
\* of a chunk's size that it was opened for.
FullAlone ==
  \A i \in 1..numChunks : used[i] = ChunkSize =>
    \A b \in blocks : b.chunk = i => b.len = ChunkSize

\* First-fit keeps the arena at least half full: any two chunks that have been
\* used hold together a chunk's worth of bytes, so ARENA_MAX_CHUNKS runs out
\* only when half the arena's memory is really in use.  And more than half it may
\* not be, because the last byte of a chunk that several requests share stays free.
HalfFull ==
  /\ \A i, j \in 1..numChunks :
       i < j /\ used[j] > 0 => used[i] + used[j] >= ChunkSize
  /\ FullAlone

LiveBlocks == IF freed THEN {} ELSE {b \in blocks : data[b.chunk] = "heap"}

Abstract == INSTANCE Allocator WITH live <- LiveBlocks, open <- ~ freed

\* The arena implements the abstract allocator: the blocks in chunks malloc
\* gave are its live blocks, and every other step leaves them alone.
ImplementsAllocator == Abstract!Spec
=============================================================================
