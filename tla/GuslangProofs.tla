---------------------------- MODULE GuslangProofs ----------------------------
(***************************************************************************)
(* Proofs about the program of guslang/: its arena, which dumbc has too,   *)
(* and the loop of its main.                                               *)
(*                                                                         *)
(* The arena, for every chunk size, number of chunks and set of request    *)
(* sizes that fit a chunk.  The inductive invariant IInv adds to the       *)
(* properties what the chunk table knows: slots are opened in order        *)
(* (Slots), every block lies below the fill mark of its chunk (Packed),    *)
(* and a chunk without memory is evidence of an earlier NULL (NullSeen).   *)
(*                                                                         *)
(* The loop, for every set of inputs, buffer, alphabet and keywords that   *)
(* LineAssumption allows.  Its inductive invariant is LineInv, where the   *)
(* buffer lies in the input, and SaidInv, what has been printed of it: the *)
(* token t is the last one printed for the line, the strings so far are    *)
(* closed, and everything before the cursor is printed or blank.           *)
(***************************************************************************)
EXTENDS MCGuslang, ProofLemmas


Slots ==
  \A i \in Chunks :
    /\ i <= numChunks <=> data[i] # "unset"
    /\ i > numChunks => used[i] = 0

Packed ==
  /\ \A b \in blocks : b.chunk <= numChunks /\ b.start + b.len <= used[b.chunk]
  /\ \A a, b \in blocks : a # b => Apart(a, b)

NullSeen == (\E i \in Chunks : data[i] = "null") => refused

IInv == TypeOK /\ Slots /\ Packed /\ NullSeen /\ HalfFull

-----------------------------------------------------------------------------
\* The request sizes are naturals that fit a chunk.
LEMMA SizesFit == \A s \in Sizes : s \in Nat /\ 1 <= s /\ s <= ChunkSize
  BY ArenaAssumption

\* A block put at the fill mark of its chunk is apart from every block below it.
LEMMA FillMarkApart ==
  ASSUME IInv, NEW i \in Chunks, NEW s \in Sizes
  PROVE  LET n == [chunk |-> i, start |-> used[i], len |-> s]
         IN  \A b \in blocks : Apart(n, b) /\ Apart(b, n)
<1> DEFINE n == [chunk |-> i, start |-> used[i], len |-> s]
<1> SUFFICES ASSUME NEW b \in blocks PROVE Apart(n, b) /\ Apart(b, n)
  OBVIOUS
<1>1. b.start + b.len <= used[b.chunk] BY DEF IInv, Packed
<1>2. /\ b.chunk \in Chunks /\ b.start \in Int /\ b.len \in Int
      /\ used[i] \in Int /\ used[b.chunk] \in Int
  <2>1. b \in [chunk : Chunks, start : 0..ChunkSize, len : Sizes]
    BY DEF IInv, TypeOK
  <2>2. b.chunk \in Chunks /\ b.start \in 0..ChunkSize /\ b.len \in Sizes
    BY <2>1
  <2> QED BY <2>2, SizesFit DEF IInv, TypeOK
<1>3. n.chunk = i /\ n.start = used[i] /\ n.len = s OBVIOUS
<1> QED BY <1>1, <1>2, <1>3 DEF Apart

-----------------------------------------------------------------------------
\* chunk_allocate on a chunk with data d that has room for s, once the slot is
\* open, keeps what the invariant says of fill marks and blocks.
LEMMA ChunkAllocatePacks ==
  ASSUME IInv, NEW i \in Chunks, NEW s \in Sizes, NEW d \in {"heap", "null"},
         ChunkAllocate(i, s, d),
         used[i] + s <= ChunkSize,
         numChunks' \in 0..MaxChunks, numChunks <= numChunks', i <= numChunks'
  PROVE  /\ used' \in [Chunks -> 0..ChunkSize]
         /\ used'[i] = used[i] + s
         /\ \A j \in Chunks : j # i => used'[j] = used[j]
         /\ blocks' \subseteq [chunk : Chunks, start : 0..ChunkSize, len : Sizes]
         /\ refused' \in BOOLEAN /\ (refused => refused')
         /\ Packed'
<1> DEFINE n == [chunk |-> i, start |-> used[i], len |-> s]
<1>1. used \in [Chunks -> 0..ChunkSize] /\ ChunkSize \in Nat /\ s \in Nat /\ 1 <= s
  BY SizesFit, ArenaAssumption DEF IInv, TypeOK
<1>2. used' = [used EXCEPT ![i] = used[i] + s] BY DEF ChunkAllocate
<1>3. used' \in [Chunks -> 0..ChunkSize] /\ used'[i] = used[i] + s
      /\ \A j \in Chunks : j # i => used'[j] = used[j]
  BY <1>1, <1>2
<1>4. blocks' = blocks \/ blocks' = blocks \cup {n} BY DEF ChunkAllocate
<1>5. n \in [chunk : Chunks, start : 0..ChunkSize, len : Sizes] BY <1>1
<1>6. blocks' \subseteq [chunk : Chunks, start : 0..ChunkSize, len : Sizes]
  BY <1>4, <1>5 DEF IInv, TypeOK
<1>7. refused' \in BOOLEAN /\ (refused => refused')
  BY DEF ChunkAllocate, IInv, TypeOK
<1>8. \A b \in blocks' : b.chunk <= numChunks' /\ b.start + b.len <= used'[b.chunk]
  <2> SUFFICES ASSUME NEW b \in blocks'
               PROVE b.chunk <= numChunks' /\ b.start + b.len <= used'[b.chunk]
    OBVIOUS
  <2>1. CASE b = n
    BY <2>1, <1>1, <1>3
  <2>2. CASE b \in blocks
    <3>1. b \in [chunk : Chunks, start : 0..ChunkSize, len : Sizes]
      BY <2>2 DEF IInv, TypeOK
    <3>2. b.chunk \in Chunks /\ b.start \in 0..ChunkSize /\ b.len \in Sizes BY <3>1
    <3>3. b.chunk <= numChunks /\ b.start + b.len <= used[b.chunk]
      BY <2>2 DEF IInv, Packed
    <3>4. b.len \in Nat BY <3>2, SizesFit
    <3>5. used[b.chunk] <= used'[b.chunk] BY <3>2, <1>1, <1>3
    <3>6. b.chunk <= numChunks'
      BY <3>2, <3>3, ArenaAssumption DEF IInv, TypeOK, Chunks
    <3> QED BY <3>2, <3>3, <3>4, <3>5, <3>6, <1>1, <1>3
  <2> QED BY <1>4, <2>1, <2>2
<1>9. \A a, b \in blocks' : a # b => Apart(a, b)
  BY <1>4, FillMarkApart DEF IInv, Packed
<1> QED BY <1>3, <1>6, <1>7, <1>8, <1>9 DEF Packed

\* The invariant is inductive.
LEMMA InitIInv == Init => IInv
<1> SUFFICES ASSUME Init PROVE IInv OBVIOUS
<1>1. TypeOK
  <2>1. numChunks \in 0..MaxChunks BY ArenaAssumption DEF Init
  <2>2. data \in [Chunks -> {"unset", "heap", "null"}] BY DEF Init
  <2>3. used \in [Chunks -> 0..ChunkSize] BY ArenaAssumption DEF Init
  <2>4. blocks \subseteq [chunk : Chunks, start : 0..ChunkSize, len : Sizes]
    BY DEF Init
  <2>5. freed \in BOOLEAN /\ refused \in BOOLEAN BY DEF Init
  <2> QED BY <2>1, <2>2, <2>3, <2>4, <2>5 DEF TypeOK
<1>2. Slots BY ArenaAssumption DEF Init, Slots, Chunks
<1> QED BY <1>1, <1>2 DEF Init, IInv, Packed, NullSeen, HalfFull, FullAlone

\* One call served from a chunk in use.
LEMMA InChunkStep ==
  ASSUME IInv, NEW s \in Sizes, AllocInChunk(s), UNCHANGED freed
  PROVE  IInv'
<1>1. PICK i \in Chunks : /\ FirstFit(i, s)
                          /\ ChunkAllocate(i, s, data[i])
                          /\ UNCHANGED <<numChunks, data>>
  BY DEF AllocInChunk
<1>2. /\ numChunks \in 0..MaxChunks /\ ChunkSize \in Nat /\ MaxChunks \in Nat
      /\ used \in [Chunks -> 0..ChunkSize] /\ s \in Nat /\ 1 <= s
      /\ data \in [Chunks -> {"unset", "heap", "null"}]
  BY ArenaAssumption, SizesFit DEF IInv, TypeOK
<1>3. i <= numChunks /\ data[i] # "unset" /\ used[i] + s < ChunkSize
  BY <1>1, <1>2 DEF FirstFit, HasRoom
<1>4. data[i] \in {"heap", "null"} BY <1>2, <1>3
<1>5. /\ used' \in [Chunks -> 0..ChunkSize]
      /\ used'[i] = used[i] + s
      /\ \A j \in Chunks : j # i => used'[j] = used[j]
      /\ blocks' \subseteq [chunk : Chunks, start : 0..ChunkSize, len : Sizes]
      /\ refused' \in BOOLEAN /\ (refused => refused')
      /\ Packed'
  BY <1>1, <1>2, <1>3, <1>4, ChunkAllocatePacks
<1>6. TypeOK' BY <1>1, <1>2, <1>5 DEF IInv, TypeOK
<1>7. Slots' BY <1>1, <1>2, <1>3, <1>5 DEF IInv, Slots, Chunks
<1>8. NullSeen' BY <1>1, <1>5 DEF IInv, NullSeen
<1>10. FullAlone'
  <2> SUFFICES ASSUME NEW j \in 1..numChunks, used'[j] = ChunkSize, NEW b \in blocks', b.chunk = j
               PROVE  b.len = ChunkSize
    BY <1>1 DEF FullAlone
  <2>1. j \in Chunks BY <1>2 DEF Chunks
  <2>2. j # i
    <3>1. used[i] \in Int BY <1>2
    <3> QED BY <1>2, <1>3, <1>5, <3>1
  <2>3. used[j] = ChunkSize BY <1>5, <2>1, <2>2
  <2>4. blocks' = blocks \/ blocks' = blocks \cup {[chunk |-> i, start |-> used[i], len |-> s]}
    BY <1>1 DEF ChunkAllocate
  <2>5. b \in blocks BY <2>2, <2>4
  <2> QED BY <2>3, <2>5 DEF IInv, HalfFull, FullAlone
<1>9. HalfFull'
  <2> SUFFICES ASSUME NEW j \in 1..numChunks, NEW k \in 1..numChunks,
                      j < k, used'[k] > 0
               PROVE  used'[j] + used'[k] >= ChunkSize
    BY <1>1, <1>10 DEF HalfFull
  <2>1. j \in Chunks /\ k \in Chunks BY <1>2 DEF Chunks
  <2>2. CASE used[k] > 0
    <3>1. used[j] + used[k] >= ChunkSize BY <2>2 DEF IInv, HalfFull
    <3>2. used[j] <= used'[j] /\ used[k] <= used'[k] BY <2>1, <1>2, <1>5
    <3> QED BY <3>1, <3>2, <2>1, <1>2, <1>5
  <2>3. CASE ~ (used[k] > 0)
    <3>1. k = i /\ used[k] = 0 BY <2>1, <2>3, <1>2, <1>5
    <3>2. j # i /\ j \in 1..(i - 1) BY <3>1, <2>1 DEF Chunks
    <3>3. ~ HasRoom(j, s) BY <3>2, <1>1 DEF FirstFit
    <3>4. data[j] # "unset" BY <2>1, <1>2 DEF IInv, Slots
    <3>5. used[j] + s >= ChunkSize BY <3>3, <3>4, <2>1, <1>2 DEF HasRoom
    <3>6. used'[j] = used[j] /\ used'[k] = s BY <3>1, <3>2, <2>1, <1>2, <1>5
    <3> QED BY <3>5, <3>6
  <2> QED BY <2>2, <2>3
<1> QED BY <1>5, <1>6, <1>7, <1>8, <1>9 DEF IInv

\* One call that opens a chunk malloc gave.
LEMMA NewChunkStep ==
  ASSUME IInv, NEW s \in Sizes, AllocNewChunk(s), UNCHANGED freed
  PROVE  IInv'
<1> DEFINE i == numChunks + 1
<1>1. /\ numChunks \in 0..MaxChunks /\ ChunkSize \in Nat /\ MaxChunks \in Nat
      /\ used \in [Chunks -> 0..ChunkSize]
      /\ s \in Nat /\ 1 <= s /\ s <= ChunkSize
      /\ data \in [Chunks -> {"unset", "heap", "null"}]
  BY ArenaAssumption, SizesFit DEF IInv, TypeOK
<1>2. /\ numChunks < MaxChunks /\ numChunks' = i
      /\ data' = [data EXCEPT ![i] = "heap"] /\ ChunkAllocate(i, s, "heap")
  BY DEF AllocNewChunk
<1>3. i \in Chunks /\ numChunks' \in 0..MaxChunks /\ numChunks <= numChunks'
  BY <1>1, <1>2 DEF Chunks
<1>4. used[i] = 0 BY <1>1, <1>3 DEF IInv, Slots
<1>5. /\ used' \in [Chunks -> 0..ChunkSize]
      /\ used'[i] = used[i] + s
      /\ \A j \in Chunks : j # i => used'[j] = used[j]
      /\ blocks' \subseteq [chunk : Chunks, start : 0..ChunkSize, len : Sizes]
      /\ refused' \in BOOLEAN /\ (refused => refused')
      /\ Packed'
  <2> HIDE DEF i
  <2>1. used[i] + s <= ChunkSize BY <1>1, <1>4
  <2>2. i <= numChunks' BY <1>2, <1>3 DEF Chunks
  <2> QED BY <1>2, <1>3, <2>1, <2>2, ChunkAllocatePacks
<1>6. TypeOK' BY <1>1, <1>2, <1>3, <1>5 DEF IInv, TypeOK
<1>7. Slots' BY <1>1, <1>2, <1>3, <1>4, <1>5 DEF IInv, Slots, Chunks
<1>8. NullSeen' BY <1>1, <1>2, <1>3, <1>5 DEF IInv, NullSeen
<1>10. FullAlone'
  <2> SUFFICES ASSUME NEW j \in 1..numChunks', used'[j] = ChunkSize, NEW b \in blocks', b.chunk = j
               PROVE  b.len = ChunkSize
    BY DEF FullAlone
  <2>1. blocks' = blocks \cup {[chunk |-> i, start |-> used[i], len |-> s]}
    BY <1>2 DEF ChunkAllocate
  <2>2. CASE b \in blocks
    <3>1. b.chunk <= numChunks BY <2>2 DEF IInv, Packed
    <3>2. j \in 1..numChunks /\ j \in Chunks /\ j # i
      BY <1>1, <1>2, <3>1 DEF Chunks
    <3>3. used[j] = ChunkSize BY <1>5, <3>2
    <3> QED BY <2>2, <3>2, <3>3 DEF IInv, HalfFull, FullAlone
  <2>3. CASE b = [chunk |-> i, start |-> used[i], len |-> s]
    <3>1. b.len = s /\ j = i BY <2>3
    <3> HIDE DEF i
    <3>2. used'[i] = s BY <1>1, <1>4, <1>5
    <3> QED BY <3>1, <3>2
  <2> QED BY <2>1, <2>2, <2>3
<1>9. HalfFull'
  <2> SUFFICES ASSUME NEW j \in 1..numChunks', NEW k \in 1..numChunks',
                      j < k, used'[k] > 0
               PROVE  used'[j] + used'[k] >= ChunkSize
    BY <1>10 DEF HalfFull
  <2>1. j \in Chunks /\ k \in Chunks /\ j \in 1..numChunks /\ j # i
    BY <1>1, <1>2, <1>3 DEF Chunks
  <2>2. CASE k = i
    <3>1. data[j] # "unset" BY <2>1, <1>1 DEF IInv, Slots
    <3>2. ~ HasRoom(j, s) BY <2>1 DEF AllocNewChunk, NoFit
    <3>3. used[j] + s >= ChunkSize BY <3>1, <3>2, <2>1, <1>1 DEF HasRoom
    <3>4. used'[j] = used[j] /\ used'[k] = s BY <2>1, <2>2, <1>1, <1>4, <1>5
    <3> QED BY <3>3, <3>4
  <2>3. CASE k # i
    <3>1. k \in 1..numChunks BY <2>3, <1>1, <1>2
    <3>2. used'[j] = used[j] /\ used'[k] = used[k] BY <2>1, <2>3, <1>5
    <3> QED BY <2>1, <3>1, <3>2 DEF IInv, HalfFull
  <2> QED BY <2>2, <2>3
<1> QED BY <1>5, <1>6, <1>7, <1>8, <1>9 DEF IInv

\* One call whose malloc fails.
LEMMA MallocFailsStep ==
  ASSUME IInv, NEW s \in Sizes, AllocMallocFails(s), UNCHANGED freed
  PROVE  IInv'
<1> DEFINE i == numChunks + 1
<1>1. /\ numChunks \in 0..MaxChunks /\ ChunkSize \in Nat /\ MaxChunks \in Nat
      /\ used \in [Chunks -> 0..ChunkSize]
      /\ data \in [Chunks -> {"unset", "heap", "null"}]
  BY ArenaAssumption DEF IInv, TypeOK
<1>2. /\ numChunks < MaxChunks /\ numChunks' = i /\ refused'
      /\ data' = [data EXCEPT ![i] = "null"] /\ UNCHANGED <<used, blocks>>
  BY DEF AllocMallocFails
<1>3. i \in Chunks /\ numChunks' \in 0..MaxChunks BY <1>1, <1>2 DEF Chunks
<1>4. used[i] = 0 BY <1>1, <1>3 DEF IInv, Slots
<1>5. TypeOK' BY <1>1, <1>2, <1>3 DEF IInv, TypeOK, AllocMallocFails
<1>6. Slots' BY <1>1, <1>2, <1>3 DEF IInv, Slots, Chunks
<1>7. \A b \in blocks : b.chunk \in Chunks BY DEF IInv, TypeOK
<1>8. Packed'
  <2>1. \A a, b \in blocks' : a # b => Apart(a, b) BY <1>2 DEF IInv, Packed
  <2>2. \A b \in blocks' : b.chunk <= numChunks' /\ b.start + b.len <= used'[b.chunk]
    BY <1>1, <1>2, <1>3, <1>7 DEF IInv, Packed, Chunks
  <2> QED BY <2>1, <2>2 DEF Packed
<1>9. NullSeen' BY <1>2 DEF NullSeen
<1>10. HalfFull'
  <2>1. FullAlone'
    <3> SUFFICES ASSUME NEW j \in 1..numChunks', used[j] = ChunkSize, NEW b \in blocks, b.chunk = j
                 PROVE  b.len = ChunkSize
      BY <1>2 DEF FullAlone
    <3>1. b.chunk <= numChunks BY DEF IInv, Packed
    <3>2. j \in 1..numChunks BY <1>1, <1>2, <3>1
    <3> QED BY <3>2 DEF IInv, HalfFull, FullAlone
  <2> QED BY <1>1, <1>2, <1>4, <2>1 DEF IInv, HalfFull
<1> QED BY <1>5, <1>6, <1>8, <1>9, <1>10 DEF IInv

LEMMA NextIInv == IInv /\ [Next]_vars => IInv'
<1> SUFFICES ASSUME IInv, [Next]_vars PROVE IInv' OBVIOUS
<1>1. CASE \E s \in Sizes : Alloc(s)
  <2>1. PICK s \in Sizes : Alloc(s) BY <1>1
  <2>2. UNCHANGED freed BY <2>1 DEF Alloc
  <2>3. CASE AllocInChunk(s) BY <2>2, <2>3, InChunkStep
  <2>4. CASE AllocNewChunk(s) BY <2>2, <2>4, NewChunkStep
  <2>5. CASE AllocMallocFails(s) BY <2>2, <2>5, MallocFailsStep
  <2>6. CASE AllocExhausted(s)
    BY <2>2, <2>6
    DEF AllocExhausted, IInv, TypeOK, Slots, Packed, NullSeen, HalfFull, FullAlone
  <2> QED BY <2>1, <2>3, <2>4, <2>5, <2>6 DEF Alloc
<1>2. CASE Free
  BY <1>2 DEF Free, IInv, TypeOK, Slots, Packed, NullSeen, HalfFull, FullAlone
<1>3. CASE UNCHANGED vars
  BY <1>3 DEF vars, IInv, TypeOK, Slots, Packed, NullSeen, HalfFull, FullAlone
<1> QED BY <1>1, <1>2, <1>3 DEF Next

LEMMA Inductive == Spec => []IInv
  BY InitIInv, NextIInv, PTL DEF Spec

-----------------------------------------------------------------------------
\* The chunk table, its fill marks and the granted blocks keep their types.
THEOREM ArenaTypeOK == Spec => []TypeOK
<1>1. IInv => TypeOK BY DEF IInv
<1> QED BY <1>1, Inductive, PTL

\* No two pointers arena_alloc hands out overlap, and none reaches past its chunk.
THEOREM ArenaBlocksDisjoint == Spec => []BlocksDisjoint
<1>1. IInv => BlocksDisjoint
  <2> SUFFICES ASSUME IInv PROVE BlocksDisjoint OBVIOUS
  <2>1. \A a, b \in blocks : a # b => Apart(a, b) BY DEF IInv, Packed
  <2>2. ASSUME NEW b \in blocks PROVE b.start + b.len <= ChunkSize
    <3>1. b \in [chunk : Chunks, start : 0..ChunkSize, len : Sizes]
      BY DEF IInv, TypeOK
    <3>2. b.chunk \in Chunks /\ b.start \in 0..ChunkSize /\ b.len \in Nat
      BY <3>1, SizesFit
    <3>3. b.start + b.len <= used[b.chunk] BY DEF IInv, Packed
    <3>4. used[b.chunk] \in 0..ChunkSize BY <3>2 DEF IInv, TypeOK
    <3> QED BY <3>2, <3>3, <3>4, ArenaAssumption
  <2> QED BY <2>1, <2>2 DEF BlocksDisjoint
<1> QED BY <1>1, Inductive, PTL

\* A pointer into memory malloc never gave is handed out only after a NULL.
THEOREM ArenaWildOnlyAfterNull == Spec => []WildOnlyAfterNull
<1>1. IInv => WildOnlyAfterNull
  <2> SUFFICES ASSUME IInv, NEW b \in blocks, data[b.chunk] # "heap" PROVE refused
    BY DEF WildOnlyAfterNull
  <2>1. b.chunk \in Chunks BY DEF IInv, TypeOK
  <2>2. data[b.chunk] # "unset" BY <2>1 DEF IInv, Packed, Slots
  <2>3. data[b.chunk] = "null" BY <2>1, <2>2 DEF IInv, TypeOK
  <2> QED BY <2>1, <2>3 DEF IInv, NullSeen
<1> QED BY <1>1, Inductive, PTL

\* Any two used chunks hold together at least a chunk's worth of bytes, and no request
\* shares the last byte of a chunk.
THEOREM ArenaHalfFull == Spec => []HalfFull
<1>1. IInv => HalfFull BY DEF IInv
<1> QED BY <1>1, Inductive, PTL

-----------------------------------------------------------------------------
\* Serving s from the memory malloc gave to chunk i is a Grant of the abstract
\* allocator: the block at the fill mark joins the live blocks.
LEMMA ServeGrants ==
  ASSUME IInv, IInv', ~ freed, UNCHANGED freed,
         NEW i \in Chunks, NEW s \in Sizes,
         ChunkAllocate(i, s, "heap"), data'[i] = "heap",
         used[i] + s <= ChunkSize,
         \A b \in blocks : data'[b.chunk] = data[b.chunk]
  PROVE  Abstract!Grant
<1> DEFINE n == [chunk |-> i, start |-> used[i], len |-> s]
<1>1. used \in [Chunks -> 0..ChunkSize] /\ Chunks = 1..MaxChunks
  BY DEF IInv, TypeOK, Chunks
<1>2. n \in Abstract!Block BY <1>1 DEF Abstract!Block
<1>3. blocks' = blocks \cup {n} BY DEF ChunkAllocate
<1>4. LiveBlocks = {b \in blocks : data[b.chunk] = "heap"} BY DEF LiveBlocks
<1>5. LiveBlocks' = {b \in blocks' : data'[b.chunk] = "heap"}
  BY DEF LiveBlocks
<1>6. LiveBlocks' = LiveBlocks \cup {n} BY <1>3, <1>4, <1>5
<1>7. \A c \in LiveBlocks : Abstract!Apart(n, c)
  BY <1>4, FillMarkApart DEF Apart, Abstract!Apart
<1> QED BY <1>2, <1>6, <1>7 DEF Abstract!Grant

\* Every step of the arena is a step of the abstract allocator or a stutter.
LEMMA StepRefines ==
  ASSUME IInv, IInv', [Next]_vars
  PROVE  [Abstract!Next]_(Abstract!vars)
<1>0. /\ used \in [Chunks -> 0..ChunkSize] /\ numChunks \in 0..MaxChunks
      /\ data \in [Chunks -> {"unset", "heap", "null"}]
      /\ ChunkSize \in Nat /\ MaxChunks \in Nat
      /\ \A b \in blocks : b.chunk \in Chunks /\ b.chunk <= numChunks
  BY ArenaAssumption DEF IInv, TypeOK, Packed
<1>1. ASSUME NEW s \in Sizes, Alloc(s) PROVE Abstract!Next \/ UNCHANGED Abstract!vars
  <2>1. ~ freed /\ UNCHANGED freed BY <1>1 DEF Alloc
  <2>2. s \in Nat /\ 1 <= s /\ s <= ChunkSize BY SizesFit
  <2>3. CASE AllocInChunk(s)
    <3>1. PICK i \in Chunks : /\ FirstFit(i, s)
                              /\ ChunkAllocate(i, s, data[i])
                              /\ UNCHANGED <<numChunks, data>>
      BY <2>3 DEF AllocInChunk
    <3>2. HasRoom(i, s) BY <3>1 DEF FirstFit
    <3>3. data[i] # "unset" /\ used[i] + s <= ChunkSize
      BY <3>2, <2>2, <1>0 DEF HasRoom
    <3>4. CASE data[i] = "heap"
      <4>1. \A b \in blocks : data'[b.chunk] = data[b.chunk] BY <3>1
      <4>2. Abstract!Grant
        BY <3>1, <3>3, <3>4, <4>1, <2>1, ServeGrants
      <4> QED BY <4>2 DEF Abstract!Next
    <3>5. CASE data[i] = "null"
      <4>1. \/ blocks' = blocks
            \/ blocks' = blocks \cup {[chunk |-> i, start |-> used[i], len |-> s]}
        BY <3>1 DEF ChunkAllocate
      <4>2. LiveBlocks' = LiveBlocks BY <4>1, <3>1, <3>5, <2>1 DEF LiveBlocks
      <4> QED BY <4>2, <2>1 DEF Abstract!vars
    <3> QED BY <3>3, <3>4, <3>5, <1>0
  <2>4. CASE AllocNewChunk(s)
    <3> DEFINE i == numChunks + 1
    <3>1. /\ numChunks < MaxChunks /\ ChunkAllocate(i, s, "heap")
          /\ data' = [data EXCEPT ![i] = "heap"]
      BY <2>4 DEF AllocNewChunk
    <3>2. i \in Chunks BY <3>1, <1>0 DEF Chunks
    <3>3. data'[i] = "heap" BY <3>1, <3>2, <1>0
    <3>4. used[i] = 0 BY <3>2, <1>0 DEF IInv, Slots
    <3>5. \A b \in blocks : data'[b.chunk] = data[b.chunk]
      BY <3>1, <1>0 DEF Chunks
    <3>6. used[i] + s <= ChunkSize BY <3>4, <2>2, <1>0
    <3>7. Abstract!Grant
      <4> HIDE DEF i
      <4> QED BY <3>1, <3>2, <3>3, <3>5, <3>6, <2>1, ServeGrants
    <3> QED BY <3>7 DEF Abstract!Next
  <2>5. CASE AllocMallocFails(s)
    <3>1. /\ data' = [data EXCEPT ![numChunks + 1] = "null"] /\ blocks' = blocks
      BY <2>5 DEF AllocMallocFails
    <3>2. \A b \in blocks : data'[b.chunk] = data[b.chunk]
      BY <3>1, <1>0 DEF Chunks
    <3>3. LiveBlocks' = LiveBlocks BY <3>1, <3>2, <2>1 DEF LiveBlocks
    <3> QED BY <3>3, <2>1 DEF Abstract!vars
  <2>6. CASE AllocExhausted(s)
    <3>1. LiveBlocks' = LiveBlocks BY <2>6, <2>1 DEF AllocExhausted, LiveBlocks
    <3> QED BY <3>1, <2>1 DEF Abstract!vars
  <2> QED BY <1>1, <2>3, <2>4, <2>5, <2>6 DEF Alloc
<1>2. CASE Free
  <2>1. ~ freed /\ freed' = TRUE BY <1>2 DEF Free
  <2>2. LiveBlocks' = {} BY <2>1 DEF LiveBlocks
  <2>3. (~ freed)' = FALSE BY <2>1
  <2>4. Abstract!Release BY <2>1, <2>2, <2>3 DEF Abstract!Release
  <2> QED BY <2>4 DEF Abstract!Next
<1>3. CASE UNCHANGED vars
  BY <1>3 DEF vars, Abstract!vars, LiveBlocks
<1> QED BY <1>1, <1>2, <1>3 DEF Next

\* The arena implements the abstract allocator.
THEOREM ArenaImplements == Spec => ImplementsAllocator
<1>1. Init => Abstract!Init BY DEF Init, Abstract!Init, LiveBlocks
<1>2. IInv /\ IInv' /\ [Next]_vars => [Abstract!Next]_(Abstract!vars)
  BY StepRefines
<1> QED BY <1>1, <1>2, Inductive, PTL
        DEF Spec, ImplementsAllocator, Abstract!Spec

-----------------------------------------------------------------------------
(* The loop of main: where buffers begin *)

\* F is the function behind First, up to p.
IsFirst(p, F) ==
  F = [q \in 1..p |->
         CASE q = 1 -> 1
           [] q > 1 /\ (input[q - 1] = "newline" \/ q - F[q - 1] = LineLen - 1) -> q
           [] OTHER -> F[q - 1]]

\* Its values, one by one.
LEMMA FirstCases ==
  ASSUME NEW p \in Nat, NEW F, IsFirst(p, F)
  PROVE  \A q \in 1..p : /\ q = 1 => F[q] = 1
                         /\ q # 1 => F[q] = IF input[q - 1] = "newline" \/ q - F[q - 1] = LineLen - 1
                                            THEN q ELSE F[q - 1]
<1>1. \A q \in 1..p : F[q] = CASE q = 1 -> 1
                               [] q > 1 /\ (input[q - 1] = "newline" \/ q - F[q - 1] = LineLen - 1) -> q
                               [] OTHER -> F[q - 1]
  BY DEF IsFirst
<1> QED
  BY <1>1

\* One character more.
LEMMA FirstGrows ==
  ASSUME NEW p \in Nat \ {0}, NEW F, IsFirst(p, F)
  PROVE  \E G : IsFirst(p + 1, G)
<1> DEFINE v == IF input[p] = "newline" \/ (p + 1) - F[p] = LineLen - 1 THEN p + 1 ELSE F[p]
           G == [q \in 1..(p + 1) |-> IF q <= p THEN F[q] ELSE v]
<1>1. \A q \in 1..p : /\ F[q] = CASE q = 1 -> 1
                                  [] q > 1 /\ (input[q - 1] = "newline" \/ q - F[q - 1] = LineLen - 1) -> q
                                  [] OTHER -> F[q - 1]
                      /\ G[q] = F[q]
  BY DEF IsFirst
<1>2. G[p + 1] = v
  OBVIOUS
<1>3. ASSUME NEW q \in 1..(p + 1)
      PROVE  G[q] = CASE q = 1 -> 1
                      [] q > 1 /\ (input[q - 1] = "newline" \/ q - G[q - 1] = LineLen - 1) -> q
                      [] OTHER -> G[q - 1]
  <2> HIDE DEF G
  <2>1. CASE q = 1
    BY <1>1, <2>1
  <2>2. CASE q \in 2..p
    <3>1. q - 1 \in 1..p /\ q \in 1..p /\ q > 1 /\ q # 1
      BY <2>2
    <3> QED
      BY <1>1, <3>1
  <2>3. CASE q = p + 1
    <3>1. q - 1 = p /\ p \in 1..p /\ q > 1 /\ q # 1
      BY <2>3
    <3>2. G[q] = v /\ G[q - 1] = F[p]
      BY <1>1, <1>2, <2>3, <3>1
    <3>3. v = IF input[q - 1] = "newline" \/ q - G[q - 1] = LineLen - 1 THEN q ELSE G[q - 1]
      <4>1. input[q - 1] = input[p] /\ q - G[q - 1] = (p + 1) - F[p]
        BY <2>3, <3>1, <3>2
      <4> QED
        BY <2>3, <3>2, <4>1
    <3> HIDE DEF v
    <3> QED
      BY <3>1, <3>2, <3>3
  <2> QED
    BY <2>1, <2>2, <2>3
<1>4. IsFirst(p + 1, G)
  <2>1. G = [q \in 1..(p + 1) |-> G[q]]
    OBVIOUS
  <2> HIDE DEF G
  <2> QED
    BY <1>3, <2>1 DEF IsFirst
<1> QED
  BY <1>4

\* There is one for every text, and First is its value.
LEMMA FirstExists ==
  ASSUME NEW p \in Nat \ {0}
  PROVE  \E F : IsFirst(p, F) /\ Loop!First(p) = F[p]
<1> DEFINE Good(q) == \E F : IsFirst(q, F)
           B == { q \in Nat : q > 0 /\ ~ Good(q) }
<1>1. Good(1)
  <2> DEFINE F == [q \in 1..1 |-> 1]
  <2>1. F = [q \in 1..1 |-> CASE q = 1 -> 1
                              [] q > 1 /\ (input[q - 1] = "newline" \/ q - F[q - 1] = LineLen - 1) -> q
                              [] OTHER -> F[q - 1]]
    OBVIOUS
  <2> QED
    BY <2>1 DEF IsFirst
<1>2. \A q \in Nat \ {0} : Good(q) => Good(q + 1)
  BY FirstGrows
<1> HIDE DEF Good
<1>3. B = {}
  <2> SUFFICES ASSUME B # {} PROVE FALSE
    OBVIOUS
  <2>1. PICK q \in B : \A r \in B : q <= r
    BY Least
  <2>2. q # 1 /\ q \in Nat \ {0}
    BY <1>1, <2>1
  <2>3. q - 1 \in Nat \ {0} /\ (q - 1) + 1 = q /\ ~ (q <= q - 1)
    BY <2>2
  <2>4. Good(q - 1)
    BY <2>1, <2>3
  <2> QED
    BY <1>2, <2>1, <2>3, <2>4
<1>4. Good(p)
  BY <1>3
<1>5. IsFirst(p, CHOOSE F : IsFirst(p, F))
  BY <1>4 DEF Good
<1>6. Loop!First(p) = (CHOOSE F : IsFirst(p, F))[p]
  BY DEF Loop!First, IsFirst
<1> QED
  BY <1>5, <1>6

\* The functions of two texts agree.
LEMMA FirstAgrees ==
  ASSUME NEW p \in Nat, NEW r \in Nat, NEW F, IsFirst(p, F), NEW G, IsFirst(r, G), p <= r
  PROVE  \A q \in 1..p : F[q] = G[q]
<1> DEFINE B == { q \in Nat : q \in 1..p /\ F[q] # G[q] }
<1> SUFFICES B = {}
  OBVIOUS
<1> SUFFICES ASSUME B # {} PROVE FALSE
  OBVIOUS
<1>1. PICK q \in B : \A s \in B : q <= s
  BY Least
<1>2. q \in 1..p /\ q \in 1..r
  BY <1>1
<1>3. /\ q = 1 => F[q] = 1 /\ G[q] = 1
      /\ q # 1 => /\ F[q] = IF input[q - 1] = "newline" \/ q - F[q - 1] = LineLen - 1 THEN q ELSE F[q - 1]
                  /\ G[q] = IF input[q - 1] = "newline" \/ q - G[q - 1] = LineLen - 1 THEN q ELSE G[q - 1]
  BY <1>2, FirstCases
<1>4. q # 1 => F[q - 1] = G[q - 1]
  <2> SUFFICES ASSUME q # 1 PROVE F[q - 1] = G[q - 1]
    OBVIOUS
  <2>1. q - 1 \in 1..p /\ q - 1 \in Nat /\ ~ (q <= q - 1)
    BY <1>2
  <2> QED
    BY <1>1, <2>1
<1>5. F[q] = G[q]
  BY <1>3, <1>4, <1>2
<1> QED
  BY <1>1, <1>5

\* What First is, a character at a time.
LEMMA FirstIs ==
  /\ Loop!First(1) = 1
  /\ \A p \in Nat \ {0} :
       Loop!First(p + 1) = IF input[p] = "newline" \/ (p + 1) - Loop!First(p) = LineLen - 1
                           THEN p + 1 ELSE Loop!First(p)
<1>1. Loop!First(1) = 1
  <2>1. PICK F : IsFirst(1, F) /\ Loop!First(1) = F[1]
    BY FirstExists
  <2>2. F[1] = 1
    BY <2>1 DEF IsFirst
  <2> QED
    BY <2>1, <2>2
<1>2. ASSUME NEW p \in Nat \ {0}
      PROVE  Loop!First(p + 1) = IF input[p] = "newline" \/ (p + 1) - Loop!First(p) = LineLen - 1
                                 THEN p + 1 ELSE Loop!First(p)
  <2>1. PICK F : IsFirst(p, F) /\ Loop!First(p) = F[p]
    BY FirstExists
  <2>2. PICK G : IsFirst(p + 1, G) /\ Loop!First(p + 1) = G[p + 1]
    BY FirstExists
  <2>3. F[p] = G[p]
    BY <2>1, <2>2, FirstAgrees
  <2>4. G[p + 1] = IF input[p] = "newline" \/ (p + 1) - G[p] = LineLen - 1 THEN p + 1 ELSE G[p]
    <3>2. p + 1 \in Nat /\ p + 1 \in 1..(p + 1) /\ p + 1 # 1 /\ p + 1 > 1 /\ (p + 1) - 1 = p
      OBVIOUS
    <3>3. G[p + 1] = IF input[(p + 1) - 1] = "newline" \/ (p + 1) - G[(p + 1) - 1] = LineLen - 1
                     THEN p + 1 ELSE G[(p + 1) - 1]
      BY <2>2, <3>2, FirstCases
    <3> QED
      BY <3>2, <3>3
  <2> QED
    BY <2>1, <2>2, <2>3, <2>4
<1> QED
  BY <1>1, <1>2

\* No character is before the first of its buffer, which is the first of its own, and no
\* buffer reaches across the beginning of another.
LEMMA FirstBounds ==
  /\ \A p \in Nat \ {0} : Loop!First(p) \in 1..p
  /\ \A a \in Nat \ {0} : Loop!First(a) = a => \A p \in Nat : p >= a => Loop!First(p) >= a
<1>1. ASSUME NEW a \in Nat \ {0}, Loop!First(a) = a
      PROVE  \A p \in Nat : p >= a => Loop!First(p) \in a..p
  <2> DEFINE B == { p \in Nat : p >= a /\ Loop!First(p) \notin a..p }
  <2> SUFFICES ASSUME B # {} PROVE FALSE
    OBVIOUS
  <2>1. PICK p \in B : \A q \in B : p <= q
    BY Least
  <2>2. p \in Nat /\ p >= a /\ p # a
    BY <1>1, <2>1
  <2>3. p - 1 \in Nat \ {0} /\ (p - 1) + 1 = p /\ p - 1 >= a /\ ~ (p <= p - 1)
    BY <2>2
  <2>4. Loop!First(p - 1) \in a..(p - 1)
    BY <2>1, <2>3
  <2>5. Loop!First(p) = p \/ Loop!First(p) = Loop!First(p - 1)
    BY <2>3, FirstIs
  <2> QED
    BY <2>1, <2>2, <2>4, <2>5
<1>2. \A p \in Nat \ {0} : Loop!First(p) \in 1..p
  <2>1. 1 \in Nat \ {0} /\ Loop!First(1) = 1 /\ \A p \in Nat \ {0} : p >= 1
    BY FirstIs
  <2> QED
    BY <1>1, <2>1
<1> QED
  BY <1>1, <1>2

\* What fgets reads is one buffer.
LEMMA LineIsOne ==
  ASSUME LineLen \in Nat, NEW s \in Nat, NEW e \in Nat, s < e, Loop!First(s + 1) = s + 1,
         \A q \in (s + 1)..(e - 1) : input[q] # "newline" /\ q # s + LineLen - 1
  PROVE  /\ \A q \in (s + 1)..e : Loop!First(q) = s + 1
         /\ input[e] = "newline" \/ e = s + LineLen - 1 => Loop!First(e + 1) = e + 1
<1>1. \A q \in (s + 1)..e : Loop!First(q) = s + 1
  <2> DEFINE B == { q \in Nat : q \in (s + 1)..e /\ Loop!First(q) # s + 1 }
  <2> SUFFICES ASSUME B # {} PROVE FALSE
    OBVIOUS
  <2>1. PICK q \in B : \A r \in B : q <= r
    BY Least
  <2>2. q \in (s + 1)..e /\ q # s + 1
    BY <2>1
  <2>3. q - 1 \in (s + 1)..(e - 1) /\ q - 1 \in Nat \ {0} /\ (q - 1) + 1 = q /\ ~ (q <= q - 1) /\ q - 1 \in (s + 1)..e
    BY <2>2
  <2>4. Loop!First(q - 1) = s + 1
    BY <2>1, <2>3
  <2>5. input[q - 1] # "newline" /\ q - (s + 1) # LineLen - 1
    BY <2>2, <2>3
  <2>6. Loop!First(q) = s + 1
    BY <2>3, <2>4, <2>5, FirstIs
  <2> QED
    BY <2>1, <2>6
<1>2. ASSUME input[e] = "newline" \/ e = s + LineLen - 1
      PROVE  Loop!First(e + 1) = e + 1
  <2>1. e \in Nat \ {0} /\ e \in (s + 1)..e
    OBVIOUS
  <2>2. Loop!First(e) = s + 1
    BY <1>1, <2>1
  <2>3. e = s + LineLen - 1 => (e + 1) - (s + 1) = LineLen - 1
    OBVIOUS
  <2> QED
    BY <1>2, <2>1, <2>2, <2>3, FirstIs
<1> QED
  BY <1>1, <1>2

-----------------------------------------------------------------------------
(* The loop of main: what its steps look for *)

\* The buffer, where it lies in the input: up to its first NUL.
LineInv ==
  /\ input \in Seq(STRING)
  /\ taken \in 0..Len(input) /\ start \in 0..taken
  /\ status \in {"prompt", "lex", "101", "aborted", "returned"}
  /\ taken < Len(input) => Loop!First(taken + 1) = taken + 1
  /\ taken = 0 => status \in {"prompt", "returned"}
  /\ taken > 0 => /\ start < taken
                  /\ \A q \in (start + 1)..taken : Loop!First(q) = start + 1
                  /\ buff \in Seq(STRING) /\ Len(buff) <= taken - start
                  /\ \A q \in 1..Len(buff) : buff[q] = input[start + q] /\ buff[q] # "NUL"
                  /\ Len(buff) < taken - start => input[start + (Len(buff) + 1)] = "NUL"
                  /\ status = "aborted" <=> Len(buff) = 0

\* A place that is looked for and found.
LEMMA FirstPlace ==
  ASSUME NEW S \in SUBSET Nat, S # {}
  PROVE  \E m \in S : \A k \in Nat : k < m => k \notin S
<1>1. PICK m \in S : \A k \in S : m <= k
  BY Least
<1> QED
  BY <1>1

\* fgets reads up to a newline, the size of the buffer or the end of the input.
LEMMA LastReadIs ==
  ASSUME Loop!LoopAssumption, LineInv, taken < Len(input)
  PROVE  /\ Loop!LastRead \in (taken + 1)..Len(input)
         /\ \A q \in (taken + 1)..(Loop!LastRead - 1) : input[q] # "newline" /\ q # taken + LineLen - 1
         /\ Loop!LastRead = Len(input) \/ input[Loop!LastRead] = "newline" \/ Loop!LastRead = taken + LineLen - 1
<1>1. Len(input) \in Nat /\ taken \in Nat /\ LineLen \in Nat
  BY DEF LineInv, Loop!LoopAssumption
<1> DEFINE Ends(p) == p = Len(input) \/ p = taken + LineLen - 1 \/ input[p] = "newline"
           S == { p \in Nat : p \in (taken + 1)..Len(input) /\ Ends(p) }
<1>2. Len(input) \in S
  BY <1>1
<1>3. PICK m \in S : \A k \in Nat : k < m => k \notin S
  <2> HIDE DEF S
  <2>1. S \in SUBSET Nat
    BY DEF S
  <2> QED
    BY <1>2, <2>1, FirstPlace
<1>4. m \in (taken + 1)..Len(input) /\ Ends(m)
  OBVIOUS
<1>5. \A q \in (taken + 1)..(m - 1) : q # taken + LineLen - 1 /\ input[q] # "newline"
  <2> SUFFICES ASSUME NEW q \in (taken + 1)..(m - 1) PROVE ~ Ends(q)
    OBVIOUS
  <2>1. q \in Nat /\ q < m /\ q \in (taken + 1)..Len(input)
    BY <1>1, <1>4
  <2> QED
    BY <1>3, <2>1
<1>6. \E p \in (taken + 1)..Len(input) :
        /\ p = Len(input) \/ p = taken + LineLen - 1 \/ input[p] = "newline"
        /\ \A q \in (taken + 1)..(p - 1) : q # taken + LineLen - 1 /\ input[q] # "newline"
  BY <1>4, <1>5
<1> QED
  BY <1>6 DEF Loop!LastRead

\* strlen: the line up to its first NUL.
LEMMA LineIs ==
  ASSUME Loop!LoopAssumption, LineInv, taken < Len(input), Loop!ReadLine
  PROVE  /\ buff' \in Seq(STRING) /\ Len(buff') <= Loop!LastRead - taken
         /\ \A q \in 1..Len(buff') : buff'[q] = input[taken + q] /\ buff'[q] # "NUL"
         /\ Len(buff') < Loop!LastRead - taken => input[taken + (Len(buff') + 1)] = "NUL"
<1> DEFINE line == Loop!Line
           n == Loop!LastRead - taken
<1>1. Loop!LastRead \in (taken + 1)..Len(input) /\ Len(input) \in Nat /\ taken \in Nat /\ input \in Seq(STRING)
  BY LastReadIs DEF LineInv
<1>2. n \in Nat \ {0} /\ line \in Seq(STRING) /\ Len(line) = n /\ \A q \in 1..n : line[q] = input[taken + q]
  <2>1. \A q \in (taken + 1)..Loop!LastRead : input[q] \in STRING
    BY <1>1
  <2> QED
    BY <1>1, <2>1 DEF Loop!Line
<1> HIDE DEF line
<1>3. CASE \E q \in 1..n : line[q] = "NUL"
  <2> DEFINE S == { q \in 1..Len(line) : line[q] = "NUL" }
  <2>1. PICK m \in S : \A k \in Nat : k < m => k \notin S
    <3>1. S \in SUBSET Nat /\ S # {}
      BY <1>2, <1>3
    <3> HIDE DEF S
    <3> QED
      BY <3>1, FirstPlace
  <2>2. Loop!Min(S) = m
    <3>1. \A k \in S : m <= k /\ k \in Int
      BY <2>1, <1>2
    <3> HIDE DEF S
    <3> QED
      BY <2>1, <3>1 DEF Loop!Min
  <2>3. buff' = SubSeq(line, 1, m - 1)
    <3>1. S # {} /\ S = { i \in 1..Len(Loop!Line) : Loop!Line[i] = "NUL" }
      BY <2>1 DEF line
    <3>2. Loop!Contains(Loop!Line, "NUL")
      BY <1>2, <1>3 DEF Loop!Contains, line
    <3> HIDE DEF S
    <3> QED
      BY <2>2, <3>1, <3>2 DEF Loop!ReadLine, Loop!SelectInSeq, line
  <2>4. m \in 1..n /\ line[m] = "NUL" /\ \A k \in 1..(m - 1) : line[k] # "NUL" /\ line[k] \in STRING
    BY <1>2, <2>1
  <2>5. Len(buff') = m - 1 /\ buff' \in Seq(STRING) /\ \A k \in 1..(m - 1) : buff'[k] = line[k]
    BY <1>2, <2>3, <2>4
  <2> QED
    BY <1>2, <2>4, <2>5
<1>4. CASE ~ \E q \in 1..n : line[q] = "NUL"
  <2>1. buff' = line
    BY <1>2, <1>4 DEF Loop!ReadLine, Loop!Contains, line
  <2> QED
    BY <1>2, <1>4, <2>1
<1> QED
  BY <1>3, <1>4

-----------------------------------------------------------------------------
(* The loop of main: what a call of lexer_next_token finds *)

\* The call is in a buffer.
InLine ==
  /\ LineInv /\ status = "lex"
  /\ pos \in 1..(Len(buff) + 1)

\* The first place behind p whose character is not in S, which is before the end of the
\* buffer or at it.
LEMMA AfterIs ==
  ASSUME Len(buff) \in Nat, NEW p \in 1..(Len(buff) + 1), NEW S, "NUL" \notin S
  PROVE  /\ Loop!After(p, S) \in p..(Len(buff) + 1)
         /\ Loop!Char(Loop!After(p, S)) \notin S
         /\ \A r \in p..(Loop!After(p, S) - 1) : Loop!Char(r) \in S
<1> DEFINE B == { q \in Nat : q \in p..(Len(buff) + 1) /\ Loop!Char(q) \notin S }
<1>1. Len(buff) + 1 \in B
  BY DEF Loop!Char
<1>2. PICK m \in B : \A k \in Nat : k < m => k \notin B
  <2>1. B \in SUBSET Nat
    OBVIOUS
  <2> HIDE DEF B
  <2> QED
    BY <1>1, <2>1, FirstPlace
<1>3. m \in p..(Len(buff) + 1) /\ Loop!Char(m) \notin S
  OBVIOUS
<1>4. \A r \in p..(m - 1) : Loop!Char(r) \in S
  <2> SUFFICES ASSUME NEW r \in p..(m - 1) PROVE Loop!Char(r) \in S
    OBVIOUS
  <2>1. r \in Nat /\ r < m /\ r \in p..(Len(buff) + 1)
    BY <1>3
  <2> QED
    BY <1>2, <2>1
<1>5. \E q \in p..(Len(buff) + 1) : Loop!Char(q) \notin S /\ \A r \in p..(q - 1) : Loop!Char(r) \in S
  BY <1>3, <1>4
<1> QED
  BY <1>5 DEF Loop!After

\* The characters of the buffer are those of the input, and no NUL is among them.
LEMMA CharIs ==
  ASSUME InLine, NEW q \in 1..(Len(buff) + 1)
  PROVE  /\ Len(buff) \in Nat /\ start \in Nat /\ taken \in 1..Len(input) /\ Len(input) \in Nat
         /\ start + Len(buff) <= taken /\ start < taken
         /\ q = Len(buff) + 1 <=> Loop!Char(q) = "NUL"
         /\ q <= Len(buff) => Loop!Char(q) = input[start + q] /\ start + q \in (start + 1)..taken
         /\ start + q <= taken => Loop!Char(q) = input[start + q]
<1>1. /\ Len(buff) \in Nat /\ start \in Nat /\ taken \in 1..Len(input) /\ Len(input) \in Nat
      /\ Len(buff) <= taken - start /\ start < taken
  BY DEF InLine, LineInv
<1>2. CASE q <= Len(buff)
  <2>1. Loop!Char(q) = buff[q] /\ buff[q] = input[start + q] /\ buff[q] # "NUL"
    BY <1>1, <1>2 DEF InLine, LineInv, Loop!Char
  <2> QED
    BY <1>1, <1>2, <2>1
<1>3. CASE q = Len(buff) + 1
  <2>1. Loop!Char(q) = "NUL"
    BY <1>1, <1>3 DEF Loop!Char
  <2>2. start + q <= taken => input[start + q] = "NUL"
    BY <1>1, <1>3 DEF InLine, LineInv
  <2> QED
    BY <1>1, <1>3, <2>1, <2>2
<1> QED
  BY <1>1, <1>2, <1>3

\* Blanks lead to where a call begins.
LEMMA HereIs ==
  ASSUME InLine
  PROVE  /\ Loop!Here \in pos..(Len(buff) + 1) /\ Len(buff) \in Nat /\ pos \in 1..(Len(buff) + 1)
         /\ Loop!Char(Loop!Here) \notin Loop!Blanks
         /\ \A r \in pos..(Loop!Here - 1) : Loop!Char(r) \in Loop!Blanks
<1>1. Len(buff) \in Nat /\ pos \in 1..(Len(buff) + 1) /\ "NUL" \notin Loop!Blanks
  BY DEF InLine, LineInv, Loop!Blanks
<1> QED
  BY <1>1, AfterIs DEF Loop!Here

\* The quote that ends a string, or the NUL.
LEMMA ClosingIs ==
  ASSUME InLine, Loop!Char(Loop!Here) = "quote"
  PROVE  /\ Loop!Here <= Len(buff)
         /\ Loop!Closing \in (Loop!Here + 1)..(Len(buff) + 1)
         /\ Loop!Char(Loop!Closing) \in {"quote", "NUL"}
         /\ \A r \in (Loop!Here + 1)..(Loop!Closing - 1) : Loop!Char(r) # "quote"
<1>1. Loop!Here \in 1..(Len(buff) + 1) /\ Len(buff) \in Nat
  BY HereIs
<1>2. Loop!Here <= Len(buff)
  BY <1>1, CharIs
<1> DEFINE B == { q \in Nat : q \in (Loop!Here + 1)..(Len(buff) + 1) /\ Loop!Char(q) \in {"quote", "NUL"} }
<1>3. Len(buff) + 1 \in B
  BY <1>1, <1>2 DEF Loop!Char
<1>4. PICK m \in B : \A k \in Nat : k < m => k \notin B
  <2>1. B \in SUBSET Nat
    OBVIOUS
  <2> HIDE DEF B
  <2> QED
    BY <1>3, <2>1, FirstPlace
<1>5. \A r \in (Loop!Here + 1)..(m - 1) : Loop!Char(r) \notin {"quote", "NUL"}
  <2> SUFFICES ASSUME NEW r \in (Loop!Here + 1)..(m - 1) PROVE Loop!Char(r) \notin {"quote", "NUL"}
    OBVIOUS
  <2>1. r \in Nat /\ r < m /\ r \in (Loop!Here + 1)..(Len(buff) + 1)
    BY <1>1, <1>4
  <2> QED
    BY <1>4, <2>1
<1>6. \E q \in (Loop!Here + 1)..(Len(buff) + 1) :
        /\ Loop!Char(q) \in {"quote", "NUL"}
        /\ \A r \in (Loop!Here + 1)..(q - 1) : Loop!Char(r) \notin {"quote", "NUL"}
  BY <1>4, <1>5
<1> QED
  BY <1>2, <1>6 DEF Loop!Closing

-----------------------------------------------------------------------------
(* The loop of main: what it has printed *)

Reports == [type : Loop!Types, from : Nat, to : Nat]

\* The tokens the character p belongs to.
Said(p) == { k \in DOMAIN printed : p \in printed[k].from..printed[k].to }

\* The parts of the two properties: a character of a line that is done, a token, and a line
\* that did not end the program.
Settled(p) ==
  \/ Cardinality(Said(p)) = 1
  \/ Said(p) = {} /\ (input[p] \in Loop!Blanks \/ Loop!BehindNul(p) \/ Loop!GivenUp(p))

TypedAs(k) ==
  /\ k > 1 => printed[k - 1].to < printed[k].from
  /\ Loop!First(printed[k].to) = Loop!First(printed[k].from) /\ ~ Loop!BehindNul(printed[k].to)
  /\ Loop!IsTyped(k)

Even(S) == Cardinality(S) % 2 = 0

Resumed(p) ==
  \/ Even(Loop!QuotesOf(p))
  \/ \E q \in p..Loop!Finished : Loop!First(q) = Loop!First(p) /\ Loop!GivenUp(q)

\* The quotes of the buffer up to m.
QuotesTo(m) == { q \in (start + 1)..(start + m) : input[q] = "quote" }

\* How far the input has been looked at.
Cursor == IF status \in {"prompt", "returned"} THEN taken ELSE start + (pos - 1)

\* No run of characters of S goes on at place p.
Ended(S, p) == p > 1 /\ Loop!Char(p) \in S => Loop!Char(p - 1) \notin S

\* In a buffer: what is before the cursor is printed or blank, the token t is the last
\* one printed for this line, the words and numbers so far are whole, and the strings
\* are closed.
LexInv ==
  /\ pos \in 1..(Len(buff) + 1)
  /\ \A p \in (start + 1)..(start + (pos - 1)) :
       Cardinality(Said(p)) = 1 \/ (Said(p) = {} /\ input[p] \in Loop!Blanks)
  /\ Ended(Letters, pos) /\ Ended(Digits, pos)
  /\ type = "unset" => \A k \in 1..Len(printed) : printed[k].to <= start
  /\ type # "unset" => /\ type \in Loop!Types \ {"EOF"} /\ Len(printed) > 0
                       /\ printed[Len(printed)].type = type /\ printed[Len(printed)].from > start
  /\ Even(QuotesTo(pos - 1))

SaidInv ==
  /\ printed \in Seq(Reports)
  /\ \A k \in 1..Len(printed) :
       1 <= printed[k].from /\ printed[k].from <= printed[k].to /\ printed[k].to <= Cursor
  /\ \A k \in 1..Len(printed) : TypedAs(k)
  /\ \A p \in 1..Loop!Finished : Settled(p) /\ Resumed(p)
  /\ status = "lex" => LexInv
  /\ status = "101" => ~ Even(QuotesTo(Len(buff)))

\* What depends on the input alone.
LEMMA FirstStays ==
  ASSUME UNCHANGED input
  PROVE  \A p : /\ Loop!First(p)' = Loop!First(p)
                /\ Loop!BehindNul(p)' <=> Loop!BehindNul(p)
                /\ Loop!QuotesOf(p)' = Loop!QuotesOf(p)
<1>1. \A p : Loop!First(p)' = Loop!First(p)
  BY DEF Loop!First
<1>2. \A p : Loop!BehindNul(p)' <=> Loop!BehindNul(p)
  BY <1>1 DEF Loop!BehindNul
<1> QED
  BY <1>1, <1>2 DEF Loop!QuotesOf

\* A token that has been printed keeps its type.
LEMMA TypedStays ==
  ASSUME UNCHANGED input, NEW k, printed'[k] = printed[k], k > 1 => printed'[k - 1] = printed[k - 1]
  PROVE  TypedAs(k)' <=> TypedAs(k)
<1>1. \A p : /\ Loop!First(p)' = Loop!First(p)
             /\ Loop!BehindNul(p)' <=> Loop!BehindNul(p)
  BY FirstStays
<1>2. \A t, S : Loop!IsRun(t, S)' <=> Loop!IsRun(t, S)
  BY <1>1 DEF Loop!IsRun
<1>3. \A t, keyword : Loop!Spells(t, keyword)' <=> Loop!Spells(t, keyword)
  BY DEF Loop!Spells
<1>4. Loop!IsTyped(k)' <=> Loop!IsTyped(k)
  BY <1>1, <1>2, <1>3 DEF Loop!IsTyped, Loop!Blanks
<1> QED
  BY <1>1, <1>4 DEF TypedAs

\* Nothing is printed.
LEMMA SaidStays ==
  ASSUME UNCHANGED <<input, printed>>
  PROVE  /\ \A p : /\ Said(p)' = Said(p)
                   /\ Loop!GivenUp(p)' <=> Loop!GivenUp(p)
                   /\ Settled(p)' <=> Settled(p)
         /\ \A k : TypedAs(k)' <=> TypedAs(k)
<1>1. \A p : /\ Loop!First(p)' = Loop!First(p)
             /\ Loop!BehindNul(p)' <=> Loop!BehindNul(p)
  BY FirstStays
<1>2. \A p : Said(p)' = Said(p)
  BY DEF Said
<1>3. \A p : Loop!GivenUp(p)' <=> Loop!GivenUp(p)
  BY <1>1 DEF Loop!GivenUp
<1>4. \A p : Settled(p)' <=> Settled(p)
  BY <1>1, <1>2, <1>3 DEF Settled
<1>5. \A k : TypedAs(k)' <=> TypedAs(k)
  BY TypedStays
<1> QED
  BY <1>2, <1>3, <1>4, <1>5

\* A token is printed, of characters behind all tokens so far.
LEMMA SaidGrows ==
  ASSUME UNCHANGED input, printed \in Seq(Reports), NEW n \in Reports, printed' = Append(printed, n),
         \A k \in 1..Len(printed) : printed[k].to < n.from
  PROVE  /\ \A p \in Int : p < n.from => Said(p)' = Said(p)
         /\ \A p \in n.from..n.to : Cardinality(Said(p)') = 1
         /\ \A p : Loop!First(p) # Loop!First(n.from) /\ Loop!GivenUp(p) => Loop!GivenUp(p)'
         /\ \A k \in 1..Len(printed) : TypedAs(k) => TypedAs(k)'
<1>1. \A p : Loop!First(p)' = Loop!First(p)
  BY FirstStays
<1> DEFINE N == Len(printed)
<1>2. /\ N \in Nat /\ DOMAIN printed = 1..N /\ DOMAIN printed' = 1..(N + 1) /\ printed'[N + 1] = n
      /\ Len(printed') = N + 1
      /\ \A k \in 1..N : printed'[k] = printed[k] /\ printed[k].to \in Nat
  <2>1. \A k \in 1..N : printed[k] \in Reports
    OBVIOUS
  <2>2. \A k \in 1..N : printed[k].to \in Nat
    <3> HIDE DEF N
    <3> QED
      BY <2>1 DEF Reports
  <2> QED
    BY <2>2
<1>3. n.from \in Nat /\ n.to \in Nat
  BY DEF Reports
<1> HIDE DEF N
<1>4. \A k \in 1..(N + 1) : k \in 1..N \/ k = N + 1
  BY <1>2
<1>5. ASSUME NEW p \in Int, p < n.from PROVE Said(p)' = Said(p)
  <2>1. \A k : k \in Said(p)' <=> k \in 1..(N + 1) /\ p \in printed'[k].from..printed'[k].to
    BY <1>2 DEF Said
  <2>2. \A k : k \in Said(p) <=> k \in 1..N /\ p \in printed[k].from..printed[k].to
    BY <1>2 DEF Said
  <2>3. N + 1 \notin Said(p)' /\ 1..N \subseteq 1..(N + 1)
    BY <1>2, <1>3, <1>5, <2>1
  <2> QED
    BY <1>2, <1>4, <2>1, <2>2, <2>3
<1>6. ASSUME NEW p \in n.from..n.to PROVE Cardinality(Said(p)') = 1
  <2>1. \A k : k \in Said(p)' <=> k \in 1..(N + 1) /\ p \in printed'[k].from..printed'[k].to
    BY <1>2 DEF Said
  <2>2. \A k \in 1..N : ~ (p <= printed[k].to)
    BY <1>2, <1>3, <1>6 DEF N
  <2>3. \A k \in 1..N : k \notin Said(p)'
    BY <1>2, <2>1, <2>2
  <2>4. N + 1 \in Said(p)'
    BY <1>2, <1>6, <2>1
  <2>5. Said(p)' = {N + 1}
    BY <1>4, <2>1, <2>3, <2>4
  <2> QED
    BY <2>5, FS_Singleton
<1>7. ASSUME NEW p, Loop!First(p) # Loop!First(n.from), Loop!GivenUp(p) PROVE Loop!GivenUp(p)'
  BY <1>1, <1>2, <1>4, <1>7 DEF Loop!GivenUp
<1>8. ASSUME NEW k \in 1..N, TypedAs(k) PROVE TypedAs(k)'
  <2>1. printed'[k] = printed[k] /\ (k > 1 => k - 1 \in 1..N)
    BY <1>2
  <2>2. k > 1 => printed'[k - 1] = printed[k - 1]
    BY <1>2, <2>1
  <2> QED
    BY <1>8, <2>1, <2>2, TypedStays
<1> QED
  BY <1>5, <1>6, <1>7, <1>8 DEF N

\* The buffer stays where it is.
LEMMA LineStays ==
  ASSUME LineInv, UNCHANGED <<input, start, taken, buff>>,
         status' \in {"prompt", "lex", "101", "aborted", "returned"},
         taken = 0 => status' \in {"prompt", "returned"},
         taken > 0 => (status' = "aborted" <=> status = "aborted")
  PROVE  LineInv'
<1>1. \A p : Loop!First(p)' = Loop!First(p)
  BY FirstStays
<1> QED
  BY <1>1 DEF LineInv

-----------------------------------------------------------------------------
(* The loop of main: a token is printed *)

\* No quote, one more, or two.
LEMMA QuotesGrow ==
  ASSUME start \in Nat, NEW m \in Nat, NEW r \in Nat, m <= r
  PROVE  /\ (\A q \in (m + 1)..r : input[start + q] # "quote") => QuotesTo(r) = QuotesTo(m)
         /\ \A a \in (m + 1)..r :
              input[start + a] = "quote" /\ (\A q \in (m + 1)..r : q # a => input[start + q] # "quote") =>
                (Even(QuotesTo(m)) <=> ~ Even(QuotesTo(r)))
         /\ \A a \in (m + 1)..(r - 1) :
              /\ input[start + a] = "quote" /\ input[start + r] = "quote"
              /\ \A q \in (m + 1)..(r - 1) : q # a => input[start + q] # "quote"
              => (Even(QuotesTo(m)) <=> Even(QuotesTo(r)))
<1>1. IsFiniteSet(QuotesTo(m)) /\ Cardinality(QuotesTo(m)) \in Nat
  <2>1. IsFiniteSet((start + 1)..(start + m))
    BY FS_Interval
  <2>2. QuotesTo(m) \subseteq (start + 1)..(start + m)
    BY DEF QuotesTo
  <2> QED
    BY <2>1, <2>2, FS_Subset, FS_CardinalityType
<1>2. \A p : p \in QuotesTo(r) <=> p \in QuotesTo(m) \/ (p \in (start + (m + 1))..(start + r) /\ input[p] = "quote")
  BY DEF QuotesTo
<1>3. \A p \in (start + (m + 1))..(start + r) : \E q \in (m + 1)..r : p = start + q
  <2> SUFFICES ASSUME NEW p \in (start + (m + 1))..(start + r) PROVE \E q \in (m + 1)..r : p = start + q
    OBVIOUS
  <2>1. p - start \in (m + 1)..r /\ p = start + (p - start)
    OBVIOUS
  <2> QED
    BY <2>1
<1>4. \A q \in (m + 1)..r : start + q \in (start + (m + 1))..(start + r) /\ start + q \notin QuotesTo(m)
  BY DEF QuotesTo
<1>5. ASSUME \A q \in (m + 1)..r : input[start + q] # "quote"
      PROVE  QuotesTo(r) = QuotesTo(m)
  BY <1>2, <1>3, <1>5
<1>6. ASSUME NEW a \in (m + 1)..r, input[start + a] = "quote",
             \A q \in (m + 1)..r : q # a => input[start + q] # "quote"
      PROVE  Even(QuotesTo(m)) <=> ~ Even(QuotesTo(r))
  <2>1. QuotesTo(r) = QuotesTo(m) \cup {start + a} /\ start + a \notin QuotesTo(m)
    BY <1>2, <1>3, <1>4, <1>6
  <2>2. Cardinality(QuotesTo(r)) = Cardinality(QuotesTo(m)) + 1
    BY <1>1, <2>1, FS_AddElement
  <2> QED
    BY <1>1, <2>2 DEF Even
<1>7. ASSUME NEW a \in (m + 1)..(r - 1), input[start + a] = "quote",
             \A q \in (m + 1)..(r - 1) : q # a => input[start + q] # "quote",
             input[start + r] = "quote"
      PROVE  Even(QuotesTo(m)) <=> Even(QuotesTo(r))
  <2>1. r \in (m + 1)..r /\ a \in (m + 1)..r /\ \A q \in (m + 1)..r : q # a /\ q # r => input[start + q] # "quote"
    <3>1. \A q \in (m + 1)..r : q # r => q \in (m + 1)..(r - 1)
      OBVIOUS
    <3> QED
      BY <1>7, <3>1
  <2>2. start + a # start + r
    BY <1>7
  <2> DEFINE Q == QuotesTo(m) \cup {start + a}
  <2>3. QuotesTo(r) = Q \cup {start + r} /\ start + a \notin QuotesTo(m) /\ start + r \notin Q
    BY <1>2, <1>3, <1>4, <1>7, <2>1, <2>2
  <2>4. IsFiniteSet(Q) /\ Cardinality(Q) = Cardinality(QuotesTo(m)) + 1
    BY <1>1, <2>3, FS_AddElement
  <2>5. Cardinality(QuotesTo(r)) = Cardinality(QuotesTo(m)) + 1 + 1
    <3> HIDE DEF Q
    <3> QED
      BY <2>3, <2>4, FS_AddElement
  <2> QED
    BY <1>1, <2>5 DEF Even
<1> QED
  BY <1>5, <1>6, <1>7

\* What is known in a buffer.
LEMMA InBuffer ==
  ASSUME LineInv, SaidInv, status = "lex"
  PROVE  /\ InLine /\ LexInv /\ Loop!Finished = start /\ Cursor = start + (pos - 1)
         /\ start \in Nat /\ taken \in Nat /\ Len(buff) \in Nat /\ Len(input) \in Nat /\ pos \in 1..(Len(buff) + 1)
         /\ start + Len(buff) <= taken /\ taken <= Len(input) /\ start < taken
         /\ Loop!First(start + 1) = start + 1
         /\ \A p \in 1..start : Loop!First(p) \in 1..start
         /\ \A p \in (start + 1)..taken : Loop!First(p) = start + 1
         /\ \A p \in (taken + 1)..Len(input) : Loop!First(p) # start + 1
<1>1. InLine /\ LexInv
  BY DEF InLine, SaidInv, LexInv
<1>2. /\ start \in Nat /\ taken \in Nat /\ Len(buff) \in Nat /\ Len(input) \in Nat /\ pos \in 1..(Len(buff) + 1)
      /\ start + Len(buff) <= taken /\ taken <= Len(input) /\ start < taken
  BY <1>1, CharIs DEF InLine
<1>3. \A p \in (start + 1)..taken : Loop!First(p) = start + 1
  BY <1>1, <1>2 DEF InLine, LineInv
<1>4. \A p \in 1..start : Loop!First(p) \in 1..start
  BY <1>2, FirstBounds
<1>5. \A p \in (taken + 1)..Len(input) : Loop!First(p) # start + 1
  <2> SUFFICES ASSUME NEW p \in (taken + 1)..Len(input) PROVE Loop!First(p) # start + 1
    OBVIOUS
  <2>1. taken + 1 \in Nat \ {0} /\ p \in Nat /\ p >= taken + 1
    BY <1>2
  <2>2. Loop!First(taken + 1) = taken + 1
    BY <1>2 DEF LineInv
  <2>3. Loop!First(p) >= taken + 1 /\ Loop!First(p) \in Int
    BY <2>1, <2>2, FirstBounds
  <2>4. \A e \in Int : e >= taken + 1 => e # start + 1
    BY <1>2
  <2> QED
    BY <2>3, <2>4
<1> QED
  BY <1>1, <1>2, <1>3, <1>4, <1>5 DEF Loop!Finished, Cursor

\* What a call that prints the type t of the characters up to the one before next has
\* found in the buffer: a run of characters of S, a beginning of a keyword, and the
\* whole of it.
FindsRun(S, next) ==
  (\A r \in Loop!Here..(next - 1) : Loop!Char(r) \in S) /\ Loop!Char(next) \notin S

FindsKeyword(keyword, next) ==
  /\ (next - 1) - Loop!Here < Len(keyword)
  /\ \A r \in Loop!Here..(next - 1) : Loop!Char(r) = keyword[(r - Loop!Here) + 1]

Finds(t, next) ==
  /\ Loop!Char(Loop!Here) \in Letters =>
       /\ FindsRun(Letters, next)
       /\ t = IF FindsKeyword(END, next) THEN "END"
              ELSE IF FindsKeyword(PRINT, next) THEN "PRINT" ELSE "IDENTIFIER"
  /\ Loop!Char(Loop!Here) \in Digits => FindsRun(Digits, next) /\ t = "NUMERIC"
  /\ Loop!Char(Loop!Here) = "quote" =>
       /\ t = "STRING" /\ next - 1 > Loop!Here /\ Loop!Char(next - 1) = "quote"
       /\ \A r \in (Loop!Here + 1)..(next - 2) : Loop!Char(r) # "quote"
  /\ Loop!Char(Loop!Here) \notin Letters \cup Digits \cup {"quote"} =>
       next - 1 = Loop!Here /\ (type # "unset" => t = type)

\* The characters of a token that begins at Here, in the input.
LEMMA TokenIs ==
  ASSUME LineInv, SaidInv, status = "lex", NEW next \in (Loop!Here + 1)..(Len(buff) + 1)
  PROVE  /\ Loop!Here \in pos..Len(buff) /\ Loop!Here \in 1..Len(buff) /\ next - 1 \in Loop!Here..Len(buff)
         /\ start \in Nat /\ Len(buff) \in Nat /\ pos \in 1..(Len(buff) + 1)
         /\ \A r \in 1..Len(buff) :
              /\ Loop!Char(r) = input[start + r] /\ Loop!Char(r) # "NUL"
              /\ start + r \in (start + 1)..taken /\ Loop!First(start + r) = start + 1
         /\ \A p \in (start + Loop!Here)..(start + (next - 1)) :
              /\ p - start \in Loop!Here..(next - 1) /\ Loop!Char(p - start) = input[p]
              /\ p - (start + Loop!Here) = (p - start) - Loop!Here
<1> DEFINE h == Loop!Here
<1>1. /\ InLine /\ start \in Nat /\ taken \in Nat /\ Len(buff) \in Nat /\ pos \in 1..(Len(buff) + 1)
      /\ start + Len(buff) <= taken
      /\ \A p \in (start + 1)..taken : Loop!First(p) = start + 1
  BY InBuffer
<1>2. h \in pos..(Len(buff) + 1)
  BY <1>1, HereIs
<1> HIDE DEF h
<1>3. next \in (h + 1)..(Len(buff) + 1)
  BY DEF h
<1>4. h \in pos..Len(buff) /\ h \in 1..Len(buff) /\ next - 1 \in h..Len(buff)
  BY <1>1, <1>2, <1>3
<1>5. ASSUME NEW r \in 1..Len(buff)
      PROVE  /\ Loop!Char(r) = input[start + r] /\ Loop!Char(r) # "NUL"
             /\ start + r \in (start + 1)..taken /\ Loop!First(start + r) = start + 1
  <2>1. r \in 1..(Len(buff) + 1) /\ r <= Len(buff) /\ r # Len(buff) + 1
    BY <1>1
  <2>2. start + r \in (start + 1)..taken
    BY <1>1
  <2> QED
    BY <1>1, <2>1, <2>2, CharIs
<1>6. ASSUME NEW p \in (start + h)..(start + (next - 1))
      PROVE  p - start \in h..(next - 1) /\ Loop!Char(p - start) = input[p] /\ p - (start + h) = (p - start) - h
  <2>1. p - start \in h..(next - 1) /\ start + (p - start) = p /\ p - (start + h) = (p - start) - h
        /\ p - start \in 1..Len(buff)
    BY <1>1, <1>4
  <2> QED
    BY <1>5, <2>1
<1> QED
  BY <1>1, <1>4, <1>5, <1>6 DEF h

\* A run in the buffer is one in the input: it begins where the blanks end, or what is
\* before it has ended.
LEMMA RunNow ==
  ASSUME LineInv, SaidInv, status = "lex", UNCHANGED input,
         NEW next \in (Loop!Here + 1)..(Len(buff) + 1),
         NEW n, n.from = start + Loop!Here, n.to = start + (next - 1),
         NEW S, FindsRun(S, next), Ended(S, pos), Loop!Blanks \cap S = {}
  PROVE  Loop!IsRun(n, S)'
<1> DEFINE h == Loop!Here
<1>1. /\ InLine /\ start \in Nat /\ taken \in Nat /\ Len(buff) \in Nat /\ Len(input) \in Nat /\ pos \in 1..(Len(buff) + 1)
      /\ start + Len(buff) <= taken /\ taken <= Len(input) /\ start < taken
      /\ \A p \in 1..start : Loop!First(p) \in 1..start
      /\ \A p \in (start + 1)..taken : Loop!First(p) = start + 1
      /\ \A p \in (taken + 1)..Len(input) : Loop!First(p) # start + 1
  BY InBuffer
<1>2. /\ h \in pos..Len(buff) /\ h \in 1..Len(buff) /\ next - 1 \in h..Len(buff)
      /\ \A p \in (start + h)..(start + (next - 1)) :
           p - start \in h..(next - 1) /\ Loop!Char(p - start) = input[p]
      /\ Loop!First(start + h) = start + 1
  BY TokenIs
<1>3. \A r \in h..(next - 1) : Loop!Char(r) \in S
  BY DEF FindsRun
<1>4. Loop!Char(next) \notin S
  BY DEF FindsRun
<1>5. \A r \in pos..(h - 1) : Loop!Char(r) \in Loop!Blanks
  BY <1>1, HereIs
<1>6. \A p : Loop!First(p)' = Loop!First(p)
  BY FirstStays
<1> HIDE DEF h
<1>7. \A p \in (start + h)..(start + (next - 1)) : input[p] \in S
  BY <1>2, <1>3
<1>8. ASSUME NEW p \in {(start + h) - 1, (start + (next - 1)) + 1}, p \in 1..Len(input), Loop!First(p) = start + 1
      PROVE  input[p] \notin S
  <2>1. p \in (start + 1)..taken
    BY <1>1, <1>8
  <2>2. CASE p = (start + h) - 1
    <3>1. h - 1 \in 1..(Len(buff) + 1) /\ h - 1 <= Len(buff) /\ p = start + (h - 1)
      BY <1>1, <1>2, <2>1, <2>2
    <3>2. Loop!Char(h - 1) = input[p]
      BY <1>1, <3>1, CharIs
    <3>3. CASE h = pos
      <4>1. pos > 1 /\ h - 1 = pos - 1
        BY <1>1, <3>1, <3>3
      <4>2. h \in h..(next - 1)
        BY <1>1, <1>2
      <4>3. Loop!Char(pos) \in S
        BY <1>3, <3>3, <4>2
      <4> QED
        BY <3>2, <4>1, <4>3 DEF Ended
    <3>4. CASE h # pos
      <4>1. h - 1 \in pos..(h - 1)
        <5>1. h \in Int /\ pos \in Int /\ pos <= h
          BY <1>1, <1>2
        <5> QED
          BY <3>4, <5>1
      <4>2. Loop!Char(h - 1) \in Loop!Blanks
        BY <1>5, <4>1
      <4> QED
        BY <3>2, <4>2
    <3> QED
      BY <3>3, <3>4
  <2>3. CASE p = (start + (next - 1)) + 1
    <3>1. p = start + next /\ next \in 1..(Len(buff) + 1) /\ start + next <= taken
      BY <1>1, <1>2, <2>1, <2>3
    <3>2. Loop!Char(next) = input[p]
      BY <1>1, <3>1, CharIs
    <3> QED
      BY <1>4, <3>2
  <2> QED
    BY <1>8, <2>2, <2>3
<1>9. n.from = start + h /\ n.to = start + (next - 1)
  BY DEF h
<1> QED
  BY <1>2, <1>6, <1>7, <1>8, <1>9 DEF Loop!IsRun

\* A keyword in the buffer is one in the input.
LEMMA KeywordNow ==
  ASSUME LineInv, SaidInv, status = "lex", UNCHANGED input,
         NEW next \in (Loop!Here + 1)..(Len(buff) + 1),
         NEW n, n.from = start + Loop!Here, n.to = start + (next - 1), NEW keyword
  PROVE  Loop!Spells(n, keyword)' <=> FindsKeyword(keyword, next)
<1> DEFINE h == Loop!Here
<1>1. /\ h \in 1..Len(buff) /\ next - 1 \in h..Len(buff) /\ start \in Nat /\ Len(buff) \in Nat
      /\ \A r \in 1..Len(buff) : Loop!Char(r) = input[start + r]
      /\ \A p \in (start + h)..(start + (next - 1)) :
           /\ p - start \in h..(next - 1) /\ Loop!Char(p - start) = input[p]
           /\ p - (start + h) = (p - start) - h
  BY TokenIs
<1>2. n.from = start + h /\ n.to = start + (next - 1)
  OBVIOUS
<1>3. FindsKeyword(keyword, next) <=>
        /\ (next - 1) - h < Len(keyword)
        /\ \A r \in h..(next - 1) : Loop!Char(r) = keyword[(r - h) + 1]
  BY DEF FindsKeyword
<1> HIDE DEF h
<1>4. (start + (next - 1)) - (start + h) = (next - 1) - h
  BY <1>1
<1>5. ASSUME \A r \in h..(next - 1) : Loop!Char(r) = keyword[(r - h) + 1],
             NEW p \in (start + h)..(start + (next - 1))
      PROVE  input[p] = keyword[(p - (start + h)) + 1]
  <2>1. Loop!Char(p - start) = keyword[((p - start) - h) + 1]
    BY <1>1, <1>5
  <2> QED
    BY <1>1, <2>1
<1>6. ASSUME \A p \in (start + h)..(start + (next - 1)) : input[p] = keyword[(p - (start + h)) + 1],
             NEW r \in h..(next - 1)
      PROVE  Loop!Char(r) = keyword[(r - h) + 1]
  <2>1. start + r \in (start + h)..(start + (next - 1)) /\ (start + r) - (start + h) = r - h /\ r \in 1..Len(buff)
    BY <1>1
  <2>2. input[start + r] = keyword[((start + r) - (start + h)) + 1]
    BY <1>6, <2>1
  <2> QED
    BY <1>1, <2>1, <2>2
<1> QED
  BY <1>2, <1>3, <1>4, <1>5, <1>6 DEF Loop!Spells

\* A token is of the type its characters ask for.
LEMMA TypedNow ==
  ASSUME Loop!LoopAssumption, LineInv, SaidInv, status = "lex", UNCHANGED input,
         NEW t, NEW next \in (Loop!Here + 1)..(Len(buff) + 1), Finds(t, next),
         NEW n, n.type = t, n.from = start + Loop!Here, n.to = start + (next - 1),
         NEW N \in Nat, N = Len(printed), printed'[N + 1] = n, \A k \in 1..N : printed'[k] = printed[k]
  PROVE  TypedAs(N + 1)'
<1> DEFINE h == Loop!Here
<1>1. /\ InLine /\ LexInv /\ Cursor = start + (pos - 1)
      /\ start \in Nat /\ taken \in Nat /\ Len(buff) \in Nat /\ Len(input) \in Nat /\ pos \in 1..(Len(buff) + 1)
      /\ \A p \in 1..start : Loop!First(p) \in 1..start
  BY InBuffer
<1>2. /\ h \in pos..Len(buff) /\ h \in 1..Len(buff) /\ next - 1 \in h..Len(buff)
      /\ \A r \in 1..Len(buff) :
           /\ Loop!Char(r) = input[start + r] /\ Loop!Char(r) # "NUL"
           /\ start + r \in (start + 1)..taken /\ Loop!First(start + r) = start + 1
      /\ \A p \in (start + h)..(start + (next - 1)) :
           p - start \in h..(next - 1) /\ Loop!Char(p - start) = input[p]
  BY TokenIs
<1>3. \A k \in 1..N : printed[k].from \in Nat /\ printed[k].to \in Nat /\ 1 <= printed[k].from
                      /\ printed[k].from <= printed[k].to /\ printed[k].to <= start + (pos - 1)
  <2>1. \A k \in 1..N : printed[k] \in Reports
    BY DEF SaidInv
  <2> QED
    BY <1>1, <2>1 DEF SaidInv, Reports
<1>4. N \in Nat /\ printed'[N + 1] = n /\ \A k \in 1..N : printed'[k] = printed[k]
  OBVIOUS
<1>5. \A p : Loop!First(p)' = Loop!First(p) /\ (Loop!BehindNul(p)' <=> Loop!BehindNul(p))
  BY FirstStays
<1>6. n.type = t /\ n.from = start + h /\ n.to = start + (next - 1)
  OBVIOUS
<1>7. Loop!Char(h) \in Letters => Loop!IsRun(n, Letters)'
  BY <1>1, RunNow DEF Finds, LexInv, Loop!LoopAssumption
<1>8. Loop!Char(h) \in Digits => Loop!IsRun(n, Digits)' /\ t = "NUMERIC"
  BY <1>1, RunNow DEF Finds, LexInv, Loop!LoopAssumption
<1>9. Loop!Char(h) \in Letters =>
        t = IF Loop!Spells(n, END)' THEN "END" ELSE IF Loop!Spells(n, PRINT)' THEN "PRINT" ELSE "IDENTIFIER"
  <2>1. /\ Loop!Spells(n, END)' <=> FindsKeyword(END, next)
        /\ Loop!Spells(n, PRINT)' <=> FindsKeyword(PRINT, next)
    BY KeywordNow
  <2> QED
    BY <2>1 DEF Finds
<1>10. Loop!Char(h) = "quote" =>
         /\ t = "STRING" /\ next - 1 > h /\ Loop!Char(next - 1) = "quote"
         /\ \A r \in (h + 1)..(next - 2) : Loop!Char(r) # "quote"
  BY DEF Finds
<1>11. Loop!Char(h) \notin Letters \cup Digits \cup {"quote"} => next - 1 = h /\ (type # "unset" => t = type)
  BY DEF Finds
<1>12. Loop!Char(h) \notin Loop!Blanks
  BY <1>1, HereIs
<1> HIDE DEF h
<1>13. /\ Loop!Char(h) = input[start + h] /\ Loop!Char(next - 1) = input[start + (next - 1)]
       /\ Loop!First(start + h) = start + 1 /\ Loop!First(start + (next - 1)) = start + 1
  <2>1. next - 1 \in 1..Len(buff)
    BY <1>2
  <2> QED
    BY <1>2, <2>1
<1>14. ~ Loop!BehindNul(start + (next - 1))
  <2>1. ASSUME NEW q \in (start + 1)..(start + (next - 1)) PROVE input[q] # "NUL"
    <3>1. q - start \in 1..Len(buff) /\ start + (q - start) = q
      BY <1>1, <1>2
    <3> QED
      BY <1>2, <3>1
  <2> QED
    BY <1>13, <2>1 DEF Loop!BehindNul
<1>15. input[start + h] = "quote" =>
         /\ t = "STRING" /\ start + (next - 1) > start + h /\ input[start + (next - 1)] = "quote"
         /\ \A p \in ((start + h) + 1)..((start + (next - 1)) - 1) : input[p] # "quote"
  <2> SUFFICES ASSUME input[start + h] = "quote"
               PROVE  /\ start + (next - 1) > start + h /\ input[start + (next - 1)] = "quote"
                      /\ \A p \in ((start + h) + 1)..((start + (next - 1)) - 1) : input[p] # "quote"
    BY <1>10, <1>13
  <2>1. start + (next - 1) > start + h
    BY <1>1, <1>2, <1>10, <1>13
  <2>2. ASSUME NEW p \in ((start + h) + 1)..((start + (next - 1)) - 1) PROVE input[p] # "quote"
    <3>0. start \in Int /\ h \in Int /\ next \in Int
      BY <1>1, <1>2
    <3>1. p \in (start + h)..(start + (next - 1)) /\ p - start \in (h + 1)..(next - 2)
      BY ONLY <2>2, <3>0
    <3>2. Loop!Char(p - start) = input[p]
      BY <1>2, <3>1
    <3>3. Loop!Char(p - start) # "quote"
      BY <1>10, <1>13, <3>1
    <3> QED
      BY <3>2, <3>3
  <2> QED
    BY <1>10, <1>13, <2>1, <2>2
<1>16. N + 1 > 1 => printed[N].to < start + h
  <2> SUFFICES ASSUME N + 1 > 1 PROVE printed[N].to < start + h
    OBVIOUS
  <2>1. N \in 1..N
    BY <1>4
  <2>2. printed[N].to \in Nat /\ printed[N].to <= start + (pos - 1)
    BY <1>3, <2>1
  <2>3. start \in Int /\ pos \in Int /\ h \in Int /\ pos <= h
    BY <1>1, <1>2
  <2>4. \A e \in Int : e <= start + (pos - 1) => e < start + h
    BY <2>3
  <2> QED
    BY <2>2, <2>4
<1>17. ASSUME type # "unset" => t = type, N + 1 > 1, Loop!First(printed[N].from) = start + 1
       PROVE  t = printed[N].type
  <2>1. N \in 1..N /\ N > 0
    BY <1>4, <1>17
  <2>2. printed[N].from \notin 1..start
    <3>1. \A p \in 1..start : Loop!First(p) # start + 1
      <4>1. \A f \in 1..start : f # start + 1
        BY <1>1
      <4> QED
        BY <1>1, <4>1
    <3> QED
      BY <1>17, <3>1
  <2>3. ~ (printed[N].to <= start)
    <3>1. /\ printed[N].from \in Nat /\ printed[N].to \in Nat
          /\ 1 <= printed[N].from /\ printed[N].from <= printed[N].to
      BY <1>3, <2>1
    <3>2. start \in Nat
      BY <1>1
    <3>3. \A a, b \in Nat : 1 <= a /\ a <= b /\ a \notin 1..start => ~ (b <= start)
      BY <3>2
    <3> QED
      BY <2>2, <3>1, <3>3
  <2>4. type # "unset"
    BY <1>1, <2>1, <2>3 DEF LexInv
  <2>5. printed[N].type = type
    BY <1>1, <2>4 DEF LexInv
  <2> QED
    BY <1>17, <2>4, <2>5
<1>18. (N + 1) - 1 = N /\ (N + 1 > 1 => printed'[N] = printed[N])
  <2>1. N + 1 > 1 => N \in 1..N
    BY <1>4
  <2> QED
    BY <1>4, <2>1
<1>19. start + (next - 1) = start + h <=> next - 1 = h
  BY <1>1, <1>2
<1>20. Loop!IsTyped(N + 1)'
  <2>1. input[start + h] \in Letters =>
          /\ Loop!IsRun(n, Letters)'
          /\ n.type = IF Loop!Spells(n, END)' THEN "END"
                      ELSE IF Loop!Spells(n, PRINT)' THEN "PRINT" ELSE "IDENTIFIER"
    BY <1>6, <1>7, <1>9, <1>13
  <2>2. input[start + h] \in Digits => Loop!IsRun(n, Digits)' /\ n.type = "NUMERIC"
    BY <1>6, <1>8, <1>13
  <2>3. input[start + h] \notin Letters \cup Digits \cup {"quote"} =>
          /\ input[start + h] \notin Loop!Blanks /\ start + (next - 1) = start + h
          /\ N + 1 > 1 /\ Loop!First(printed[N].from) = start + 1 => n.type = printed[N].type
    BY <1>6, <1>11, <1>12, <1>13, <1>17, <1>19
  <2>4. /\ printed'[N + 1] = n /\ input' = input
        /\ printed'[N + 1].type = n.type /\ printed'[N + 1].from = start + h
        /\ printed'[N + 1].to = start + (next - 1)
    BY <1>4, <1>6
  <2>5. \A S : Loop!IsRun(printed[N + 1], S)' <=> Loop!IsRun(n, S)'
    BY <2>4 DEF Loop!IsRun
  <2>6. \A keyword : Loop!Spells(printed[N + 1], keyword)' <=> Loop!Spells(n, keyword)'
    BY <2>4 DEF Loop!Spells
  <2>7. input'[printed'[N + 1].from] \in Letters =>
          /\ Loop!IsRun(printed[N + 1], Letters)'
          /\ printed'[N + 1].type = IF Loop!Spells(printed[N + 1], END)' THEN "END"
                                    ELSE IF Loop!Spells(printed[N + 1], PRINT)' THEN "PRINT" ELSE "IDENTIFIER"
    BY <2>1, <2>4, <2>5, <2>6
  <2>8. input'[printed'[N + 1].from] \in Digits =>
          Loop!IsRun(printed[N + 1], Digits)' /\ printed'[N + 1].type = "NUMERIC"
    BY <2>2, <2>4, <2>5
  <2>9. input'[printed'[N + 1].from] = "quote" =>
          /\ printed'[N + 1].type = "STRING"
          /\ printed'[N + 1].to > printed'[N + 1].from /\ input'[printed'[N + 1].to] = "quote"
          /\ \A p \in (printed'[N + 1].from + 1)..(printed'[N + 1].to - 1) : input'[p] # "quote"
    BY <1>6, <1>15, <2>4
  <2>10. input'[printed'[N + 1].from] \notin Letters \cup Digits \cup {"quote"} =>
           /\ input'[printed'[N + 1].from] \notin Loop!Blanks /\ printed'[N + 1].to = printed'[N + 1].from
           /\ N + 1 > 1 /\ Loop!First(printed[(N + 1) - 1].from)' = Loop!First(printed[N + 1].from)' =>
                printed'[N + 1].type = printed'[(N + 1) - 1].type
    <3>1. Loop!First(printed[N + 1].from)' = start + 1
      BY <1>5, <1>13, <2>4
    <3>2. N + 1 > 1 => Loop!First(printed[(N + 1) - 1].from)' = Loop!First(printed[N].from)
      BY <1>5, <1>18
    <3> QED
      BY <1>18, <2>3, <2>4, <3>1, <3>2
  <2> QED
    BY <2>7, <2>8, <2>9, <2>10 DEF Loop!IsTyped, Loop!Blanks
<1> QED
  BY <1>4, <1>5, <1>6, <1>13, <1>14, <1>16, <1>18, <1>20 DEF TypedAs

-----------------------------------------------------------------------------
(* The loop of main: its steps *)

\* The last token printed, in a text that grows.
LEMMA Printed ==
  ASSUME printed \in Seq(Reports), NEW n \in Reports, printed' = Append(printed, n)
  PROVE  /\ printed' \in Seq(Reports) /\ Len(printed) \in Nat /\ Len(printed') = Len(printed) + 1
         /\ printed'[Len(printed) + 1] = n
         /\ \A k \in 1..Len(printed) : printed'[k] = printed[k]
         /\ \A k \in 1..Len(printed) : printed[k].from \in Nat /\ printed[k].to \in Nat
<1>1. \A k \in 1..Len(printed) : printed[k] \in Reports
  OBVIOUS
<1>2. \A k \in 1..Len(printed) : printed[k].from \in Nat /\ printed[k].to \in Nat
  BY <1>1 DEF Reports
<1> QED
  BY <1>2

\* A token is printed.
LEMMA ReportInv ==
  ASSUME Loop!LoopAssumption, LineInv, SaidInv, status = "lex",
         NEW t \in Loop!Types \ {"EOF"}, NEW next \in (Loop!Here + 1)..(Len(buff) + 1), Loop!Report(t, next),
         Finds(t, next), Even(QuotesTo(next - 1))
  PROVE  LineInv' /\ SaidInv'
<1> DEFINE h == Loop!Here
           n == [type |-> t, from |-> start + h, to |-> start + (next - 1)]
<1>1. /\ InLine /\ LexInv /\ Loop!Finished = start /\ Cursor = start + (pos - 1)
      /\ start \in Nat /\ taken \in Nat /\ Len(buff) \in Nat /\ Len(input) \in Nat /\ pos \in 1..(Len(buff) + 1)
      /\ start + Len(buff) <= taken /\ taken <= Len(input) /\ start < taken
      /\ Loop!First(start + 1) = start + 1
      /\ \A p \in 1..start : Loop!First(p) \in 1..start
      /\ \A p \in (start + 1)..taken : Loop!First(p) = start + 1
  BY InBuffer
<1>2. h \in pos..Len(buff) /\ h \in 1..Len(buff) /\ next \in (h + 1)..(Len(buff) + 1) /\ next - 1 \in h..Len(buff)
  BY <1>1, HereIs
<1>3. /\ type' = t /\ printed' = Append(printed, n) /\ pos' = next
      /\ input' = input /\ start' = start /\ taken' = taken /\ buff' = buff /\ status' = status
  BY DEF Loop!Report
<1>4. LineInv'
  BY <1>3, LineStays DEF LineInv
<1>5. n.type = t /\ n.from = start + h /\ n.to = start + (next - 1) /\ n \in Reports
  BY <1>1, <1>2 DEF Reports
<1> HIDE DEF n, h
<1>6. PICK N \in Nat : N = Len(printed)
  BY <1>3, <1>5, Printed DEF SaidInv
<1>7. /\ printed' \in Seq(Reports) /\ N \in Nat /\ Len(printed') = N + 1
      /\ printed'[N + 1] = n
      /\ \A k \in 1..N : printed'[k] = printed[k]
      /\ \A k \in 1..N : printed[k].from \in Nat /\ printed[k].to \in Nat
  BY <1>3, <1>5, <1>6, Printed DEF SaidInv
<1>8. \A k \in 1..N : 1 <= printed[k].from /\ printed[k].from <= printed[k].to /\ printed[k].to <= start + (pos - 1)
  BY <1>1, <1>6 DEF SaidInv
<1>9. \A k \in 1..N : printed[k].to < n.from
  <2>1. \A k \in 1..N : printed[k].to \in Nat /\ printed[k].to <= start + (pos - 1)
    BY <1>7, <1>8
  <2>2. start \in Int /\ pos \in Int /\ h \in Int /\ pos <= h
    BY <1>1, <1>2
  <2>3. \A e \in Nat : e <= start + (pos - 1) => e < start + h
    BY <2>2
  <2> QED
    BY <1>5, <2>1, <2>3
<1>10. /\ \A p \in Int : p < n.from => Said(p)' = Said(p)
       /\ \A p \in n.from..n.to : Cardinality(Said(p)') = 1
       /\ \A p : Loop!First(p) # Loop!First(n.from) /\ Loop!GivenUp(p) => Loop!GivenUp(p)'
       /\ \A k \in 1..N : TypedAs(k) => TypedAs(k)'
  <2>1. input' = input /\ printed \in Seq(Reports) /\ n \in Reports /\ printed' = Append(printed, n)
        /\ \A k \in 1..Len(printed) : printed[k].to < n.from
    BY <1>3, <1>5, <1>6, <1>9 DEF SaidInv
  <2> QED
    BY <1>6, <2>1, SaidGrows
<1>11. TypedAs(N + 1)'
  BY <1>2, <1>3, <1>5, <1>6, <1>7, TypedNow DEF h
<1>12. \A k \in 1..N : TypedAs(k)
  BY <1>6 DEF SaidInv
<1>13. DOMAIN printed = 1..N
  BY <1>6 DEF SaidInv
<1>14. /\ \A p : Loop!First(p)' = Loop!First(p)
       /\ \A p : Loop!BehindNul(p)' <=> Loop!BehindNul(p)
       /\ \A p : Loop!QuotesOf(p)' = Loop!QuotesOf(p)
  BY <1>3, FirstStays
<1>15. Loop!Finished' = start /\ Cursor' = start + (next - 1) /\ \A m : QuotesTo(m)' = QuotesTo(m)
  BY <1>3 DEF Loop!Finished, Cursor, QuotesTo
<1>16. \A k \in 1..(N + 1) : k \in 1..N \/ k = N + 1
  BY <1>7
<1>17. \A k \in 1..Len(printed') :
         1 <= printed'[k].from /\ printed'[k].from <= printed'[k].to /\ printed'[k].to <= start + (next - 1)
  <2> SUFFICES ASSUME NEW k \in 1..(N + 1)
               PROVE  1 <= printed'[k].from /\ printed'[k].from <= printed'[k].to /\ printed'[k].to <= start + (next - 1)
    BY <1>7
  <2>1. CASE k \in 1..N
    <3>1. pos - 1 <= next - 1
      BY <1>1, <1>2
    <3>2. printed'[k] = printed[k] /\ printed[k].to \in Nat
      BY <1>7, <2>1
    <3>3. 1 <= printed[k].from /\ printed[k].from <= printed[k].to /\ printed[k].to <= start + (pos - 1)
      BY <1>8, <2>1
    <3>4. start + (pos - 1) <= start + (next - 1)
      BY <1>1, <1>2
    <3>5. start + (pos - 1) \in Int /\ start + (next - 1) \in Int
      BY <1>1, <1>2
    <3>6. \A a, b, c \in Int : a <= b /\ b <= c => a <= c
      OBVIOUS
    <3> QED
      BY <3>2, <3>3, <3>4, <3>5, <3>6
  <2>2. CASE k = N + 1
    <3>1. printed'[k].from = start + h /\ printed'[k].to = start + (next - 1)
      BY <1>5, <1>7, <2>2
    <3>2. 1 <= start + h /\ start + h <= start + (next - 1) /\ start + (next - 1) <= start + (next - 1)
      BY <1>1, <1>2
    <3> QED
      BY <3>1, <3>2
  <2> QED
    BY <1>16, <2>1, <2>2
<1>18. \A k \in 1..Len(printed') : TypedAs(k)'
  <2>1. Len(printed') = N + 1
    BY <1>7
  <2>2. \A k \in 1..N : TypedAs(k)'
    BY <1>10, <1>12
  <2> QED
    BY <1>11, <1>16, <2>1, <2>2
<1>19. ASSUME NEW p \in 1..start PROVE Settled(p)' /\ Resumed(p)'
  <2>1. Settled(p) /\ Resumed(p)
    BY <1>1 DEF SaidInv
  <2>2. p \in Int /\ p < n.from
    BY <1>1, <1>2, <1>5
  <2>3. \A q \in 1..start : Loop!GivenUp(q) => Loop!GivenUp(q)'
    <3>1. Loop!First(n.from) = start + 1
      BY <1>1, <1>2, <1>5
    <3>2. \A q \in 1..start : Loop!First(q) # start + 1
      BY <1>1
    <3> QED
      BY <1>10, <3>1, <3>2
  <2>4. Settled(p)'
    BY <1>3, <1>10, <1>14, <2>1, <2>2, <2>3 DEF Settled, Loop!Blanks
  <2>5. \A q \in p..start : q \in 1..start
    BY <1>1
  <2>6. Resumed(p)'
    BY <1>1, <1>14, <1>15, <2>1, <2>3, <2>5 DEF Resumed, Even
  <2> QED
    BY <2>4, <2>6
<1>20. ASSUME NEW p \in (start + 1)..(start + (next - 1))
       PROVE  Cardinality(Said(p)') = 1 \/ (Said(p)' = {} /\ input[p] \in Loop!Blanks)
  <2>1. CASE p \in (start + 1)..(start + (pos - 1))
    <3>1. p \in Int /\ p < n.from
      BY <1>1, <1>2, <1>5, <2>1
    <3> QED
      BY <1>1, <1>10, <2>1, <3>1 DEF LexInv
  <2>2. CASE p \in (start + pos)..(start + (h - 1))
    <3>1. p \in Int /\ p < n.from /\ p - start \in pos..(h - 1) /\ p = start + (p - start)
          /\ p - start \in 1..(Len(buff) + 1) /\ p - start <= Len(buff)
      BY <1>1, <1>2, <1>5, <2>2
    <3>2. Said(p) = {}
      <4>1. ~ (p <= start + (pos - 1))
        BY <1>1, <1>2, <2>2
      <4>2. \A k \in 1..N : ~ (p \in printed[k].from..printed[k].to)
        <5> SUFFICES ASSUME NEW k \in 1..N PROVE ~ (p <= printed[k].to)
          BY <1>7
        <5>1. printed[k].to \in Nat /\ printed[k].to <= start + (pos - 1)
          BY <1>7, <1>8
        <5>2. start \in Int /\ pos \in Int /\ p \in Int
          BY <1>1, <3>1
        <5>3. \A e \in Nat : e <= start + (pos - 1) => ~ (p <= e)
          BY <4>1, <5>2
        <5> QED
          BY <5>1, <5>3
      <4> QED
        BY <1>13, <4>2 DEF Said
    <3>3. Loop!Char(p - start) = input[p]
      BY <1>1, <3>1, CharIs
    <3>4. Loop!Char(p - start) \in Loop!Blanks
      BY <1>1, <3>1, HereIs DEF h
    <3> QED
      BY <1>10, <3>1, <3>2, <3>3, <3>4
  <2>3. CASE p \in (start + h)..(start + (next - 1))
    BY <1>5, <1>10, <2>3
  <2> QED
    BY <1>1, <1>2, <2>1, <2>2, <2>3
<1>25. /\ Loop!Char(next) \in Letters => Loop!Char(next - 1) \notin Letters
       /\ Loop!Char(next) \in Digits => Loop!Char(next - 1) \notin Digits
  <2>1. next - 1 \in h..(next - 1)
    BY <1>2
  <2>2. CASE Loop!Char(h) \in Letters
    <3>1. Loop!Char(next) \notin Letters /\ Loop!Char(next - 1) \in Letters
      BY <2>1, <2>2 DEF Finds, FindsRun, h
    <3> QED
      BY <3>1 DEF Loop!LoopAssumption
  <2>3. CASE Loop!Char(h) \in Digits
    <3>1. Loop!Char(next) \notin Digits /\ Loop!Char(next - 1) \in Digits
      BY <2>1, <2>3 DEF Finds, FindsRun, h
    <3> QED
      BY <3>1 DEF Loop!LoopAssumption
  <2>4. CASE Loop!Char(h) = "quote"
    <3>1. Loop!Char(next - 1) = "quote"
      BY <2>4 DEF Finds, h
    <3> QED
      BY <3>1 DEF Loop!LoopAssumption
  <2>5. CASE Loop!Char(h) \notin Letters \cup Digits \cup {"quote"}
    <3>1. next - 1 = h
      BY <2>5 DEF Finds, h
    <3> QED
      BY <2>5, <3>1
  <2> QED
    BY <2>2, <2>3, <2>4, <2>5
<1>21. LexInv'
  <2>1. pos' \in 1..(Len(buff') + 1)
    BY <1>1, <1>2, <1>3
  <2>2. \A p \in (start' + 1)..(start' + (pos' - 1)) :
          Cardinality(Said(p)') = 1 \/ (Said(p)' = {} /\ input'[p] \in Loop!Blanks)
    BY <1>3, <1>20
  <2>3. Loop!Char(pos)' = Loop!Char(next) /\ Loop!Char(pos - 1)' = Loop!Char(next - 1)
    BY <1>3 DEF Loop!Char
  <2>3a. /\ Loop!Char(next) \in Letters => Loop!Char(next - 1) \notin Letters
         /\ Loop!Char(next) \in Digits => Loop!Char(next - 1) \notin Digits
    BY <1>25
  <2>4. type' # "unset" /\ type' \in Loop!Types \ {"EOF"}
    BY <1>3 DEF Loop!Types
  <2>5. Len(printed') > 0 /\ printed'[Len(printed')].type = type' /\ printed'[Len(printed')].from > start'
    <3>1. Len(printed') = N + 1 /\ N \in Nat /\ printed'[N + 1] = n
      BY <1>7
    <3>2. n.type = type' /\ n.from > start'
      BY <1>1, <1>2, <1>3, <1>5
    <3> QED
      BY <3>1, <3>2
  <2>6. Even(QuotesTo(pos - 1))'
    <3>1. QuotesTo(pos - 1)' = QuotesTo(next - 1)
      BY <1>3 DEF QuotesTo
    <3> QED
      BY <3>1 DEF Even
  <2>7. Ended(Letters, pos)' /\ Ended(Digits, pos)'
    BY <2>3, <2>3a DEF Ended
  <2> QED
    BY <2>1, <2>2, <2>4, <2>5, <2>6, <2>7 DEF LexInv, Even, Loop!Blanks, Loop!Types
<1>22. status' # "101"
  BY <1>3
<1>23. \A p \in 1..Loop!Finished' : Settled(p)' /\ Resumed(p)'
  BY <1>15, <1>19
<1>24. SaidInv'
  BY <1>7, <1>15, <1>17, <1>18, <1>21, <1>22, <1>23 DEF SaidInv, Reports, Loop!Types
<1> QED
  BY <1>4, <1>24

-----------------------------------------------------------------------------
(* The loop of main: the ways through lexer_next_token *)

\* A call that passes no quote.
LEMMA NoQuotes ==
  ASSUME InLine, NEW next \in Loop!Here..(Len(buff) + 1),
         \A r \in Loop!Here..(next - 1) : Loop!Char(r) # "quote"
  PROVE  QuotesTo(next - 1) = QuotesTo(pos - 1)
<1>1. /\ Loop!Here \in pos..(Len(buff) + 1) /\ Len(buff) \in Nat /\ pos \in 1..(Len(buff) + 1) /\ start \in Nat
      /\ \A r \in pos..(Loop!Here - 1) : Loop!Char(r) \in Loop!Blanks
  BY HereIs DEF InLine, LineInv
<1>2. ASSUME NEW r \in pos..(next - 1) PROVE input[start + r] # "quote"
  <2>1. r \in 1..(Len(buff) + 1) /\ r <= Len(buff)
    BY <1>1
  <2>2. Loop!Char(r) # "quote"
    <3>1. r \in pos..(Loop!Here - 1) \/ r \in Loop!Here..(next - 1)
      BY <1>1
    <3> QED
      BY <1>1, <3>1 DEF Loop!Blanks
  <2> QED
    BY <2>1, <2>2, CharIs
<1>3. pos - 1 \in Nat /\ next - 1 \in Nat /\ pos - 1 <= next - 1 /\ (pos - 1) + 1 = pos
  BY <1>1
<1> QED
  BY <1>1, <1>2, <1>3, QuotesGrow

\* A string's quotes: the one it begins with, and the one that may end it.
LEMMA StringQuotes ==
  ASSUME InLine, Loop!Char(Loop!Here) = "quote"
  PROVE  /\ Loop!Char(Loop!Closing) = "quote" => (Even(QuotesTo(pos - 1)) <=> Even(QuotesTo(Loop!Closing)))
         /\ Loop!Char(Loop!Closing) = "NUL" => (Even(QuotesTo(pos - 1)) <=> ~ Even(QuotesTo(Loop!Closing - 1)))
<1> DEFINE h == Loop!Here
           c == Loop!Closing
<1>1. /\ h \in pos..(Len(buff) + 1) /\ Len(buff) \in Nat /\ pos \in 1..(Len(buff) + 1) /\ start \in Nat
      /\ \A r \in pos..(h - 1) : Loop!Char(r) \in Loop!Blanks
  BY HereIs DEF InLine, LineInv
<1>2. /\ h <= Len(buff) /\ c \in (h + 1)..(Len(buff) + 1) /\ Loop!Char(c) \in {"quote", "NUL"}
      /\ \A r \in (h + 1)..(c - 1) : Loop!Char(r) # "quote"
  BY ClosingIs
<1>3. Loop!Char(h) = "quote"
  OBVIOUS
<1> HIDE DEF h, c
<1>4. \A r \in pos..(c - 1) : Loop!Char(r) = input[start + r]
  <2> SUFFICES ASSUME NEW r \in pos..(c - 1) PROVE Loop!Char(r) = input[start + r]
    OBVIOUS
  <2>1. r \in 1..(Len(buff) + 1) /\ r <= Len(buff)
    BY <1>1, <1>2
  <2> QED
    BY <2>1, CharIs
<1>5. ASSUME NEW r \in pos..(c - 1), r # h PROVE input[start + r] # "quote"
  <2>1. r \in pos..(h - 1) \/ r \in (h + 1)..(c - 1)
    BY <1>1, <1>2, <1>5
  <2> QED
    BY <1>1, <1>2, <1>4, <2>1 DEF Loop!Blanks
<1>6. input[start + h] = "quote" /\ h \in pos..(c - 1)
  BY <1>1, <1>2, <1>3, <1>4
<1>7. pos - 1 \in Nat /\ c - 1 \in Nat /\ c \in Nat /\ pos - 1 <= c - 1 /\ pos - 1 <= c /\ (pos - 1) + 1 = pos
  BY <1>1, <1>2
<1>8. CASE Loop!Char(c) = "quote"
  <2>1. c \in 1..(Len(buff) + 1) /\ c <= Len(buff)
    <3>1. c \in 1..(Len(buff) + 1)
      BY <1>1, <1>2
    <3>2. c # Len(buff) + 1
      BY <1>8, <3>1, CharIs
    <3> QED
      BY <1>1, <3>1, <3>2
  <2>2. input[start + c] = "quote"
    BY <1>8, <2>1, CharIs
  <2>3. PICK m \in Nat : m = pos - 1
    BY <1>7
  <2>4. h \in (m + 1)..(c - 1) /\ \A q \in (m + 1)..(c - 1) : q # h => input[start + q] # "quote"
    BY <1>5, <1>6, <1>7, <2>3
  <2>5. m <= c
    BY <1>7, <2>3
  <2>6. Even(QuotesTo(m)) <=> Even(QuotesTo(c))
    <3>1. PICK r \in Nat : r = c
      BY <1>7
    <3>2. \A a \in (m + 1)..(r - 1) :
            /\ input[start + a] = "quote" /\ input[start + r] = "quote"
            /\ \A q \in (m + 1)..(r - 1) : q # a => input[start + q] # "quote"
            => (Even(QuotesTo(m)) <=> Even(QuotesTo(r)))
      <4>1. start \in Nat /\ m <= r
        BY <1>1, <2>5, <3>1
      <4> QED
        BY <4>1, QuotesGrow, Zenon
    <3> QED
      BY <1>6, <2>2, <2>4, <3>1, <3>2
  <2> QED
    BY <1>8, <2>3, <2>6 DEF c
<1>9. CASE Loop!Char(c) = "NUL"
  <2>1. PICK m \in Nat : m = pos - 1
    BY <1>7
  <2>2. PICK r \in Nat : r = c - 1
    BY <1>7
  <2>3. h \in (m + 1)..r /\ \A q \in (m + 1)..r : q # h => input[start + q] # "quote"
    BY <1>5, <1>6, <1>7, <2>1, <2>2
  <2>4. m <= r
    BY <1>7, <2>1, <2>2
  <2>5. Even(QuotesTo(m)) <=> ~ Even(QuotesTo(r))
    BY <1>1, <1>6, <2>3, <2>4, QuotesGrow
  <2> QED
    BY <1>9, <2>1, <2>2, <2>5 DEF c
<1> QED
  BY <1>2, <1>8, <1>9 DEF c

\* A string.
LEMMA StringLiteralInv ==
  ASSUME Loop!LoopAssumption, LineInv, SaidInv, Loop!StringLiteral
  PROVE  LineInv' /\ SaidInv'
<1>1. InLine /\ LexInv /\ status = "lex"
  BY InBuffer DEF Loop!StringLiteral, Loop!Lexes
<1>2. Loop!Char(Loop!Here) = "quote" /\ Loop!Char(Loop!Closing) = "quote" /\ Loop!Report("STRING", Loop!Closing + 1)
  BY DEF Loop!StringLiteral, Loop!Lexes
<1> DEFINE c == Loop!Closing
<1>3. Loop!Here \in 1..Len(buff) /\ c \in (Loop!Here + 1)..Len(buff) /\ Len(buff) \in Nat
  <2>1. Loop!Here \in 1..(Len(buff) + 1) /\ Len(buff) \in Nat
    BY <1>1, HereIs
  <2>2. Loop!Here <= Len(buff) /\ c \in (Loop!Here + 1)..(Len(buff) + 1)
    BY <1>1, <1>2, ClosingIs
  <2>3. c \in 1..(Len(buff) + 1)
    BY <2>1, <2>2
  <2>4. c # Len(buff) + 1
    BY <1>1, <1>2, <2>3, CharIs
  <2> QED
    BY <2>1, <2>2, <2>4
<1>4. Even(QuotesTo(c))
  BY <1>1, <1>2, StringQuotes DEF LexInv
<1>5. Loop!Char(c) = "quote" /\ "quote" \notin Letters /\ "quote" \notin Digits
  BY <1>2 DEF Loop!LoopAssumption
<1>6. PICK next \in Nat : next = c + 1
  BY <1>3
<1>7. next - 1 = c /\ next \in (Loop!Here + 1)..(Len(buff) + 1) /\ next - 1 > Loop!Here
  BY <1>3, <1>6
<1>8. "STRING" \in Loop!Types \ {"EOF"}
  BY DEF Loop!Types
<1>9. Loop!Report("STRING", next) /\ Even(QuotesTo(next - 1)) /\ Loop!Char(next - 1) = "quote"
  BY <1>2, <1>4, <1>6, <1>7
<1>10. \A r \in (Loop!Here + 1)..(next - 2) : Loop!Char(r) # "quote"
  <2>1. next - 2 = c - 1
    BY <1>3, <1>6
  <2>2. \A r \in (Loop!Here + 1)..(c - 1) : Loop!Char(r) # "quote"
    BY <1>1, <1>2, ClosingIs
  <2> QED
    BY <2>1, <2>2
<1> HIDE DEF c
<1>11. Finds("STRING", next)
  BY <1>2, <1>5, <1>7, <1>9, <1>10 DEF Finds
<1> QED
  BY <1>1, <1>7, <1>8, <1>9, <1>11, ReportInv

\* Characters of one kind, which are not quotes, up to the first of another.
LEMMA RunIs ==
  ASSUME InLine, NEW S, "NUL" \notin S, "quote" \notin S, Loop!Char(Loop!Here) \in S
  PROVE  /\ Loop!After(Loop!Here, S) \in (Loop!Here + 1)..(Len(buff) + 1)
         /\ Loop!Char(Loop!After(Loop!Here, S)) \notin S
         /\ FindsRun(S, Loop!After(Loop!Here, S))
         /\ QuotesTo(Loop!After(Loop!Here, S) - 1) = QuotesTo(pos - 1)
<1> DEFINE a == Loop!After(Loop!Here, S)
<1>1. Loop!Here \in 1..(Len(buff) + 1) /\ Len(buff) \in Nat
  BY HereIs
<1>2. a \in Loop!Here..(Len(buff) + 1) /\ Loop!Char(a) \notin S /\ \A r \in Loop!Here..(a - 1) : Loop!Char(r) \in S
  BY <1>1, AfterIs
<1> HIDE DEF a
<1>3. a # Loop!Here
  BY <1>2
<1>4. a \in (Loop!Here + 1)..(Len(buff) + 1) /\ a - 1 \in Loop!Here..(a - 1)
  BY <1>1, <1>2, <1>3
<1>5. QuotesTo(a - 1) = QuotesTo(pos - 1)
  BY <1>2, NoQuotes
<1> QED
  BY <1>2, <1>4, <1>5 DEF a, FindsRun

\* strncmp with the length of the word.
LEMMA IsPrefixIs ==
  ASSUME InLine, NEW next \in (Loop!Here + 1)..(Len(buff) + 1), NEW T, NEW keyword \in Seq(T)
  PROVE  Loop!IsPrefix(SubSeq(buff, Loop!Here, next - 1), keyword) <=> FindsKeyword(keyword, next)
<1> DEFINE h == Loop!Here
           word == SubSeq(buff, h, next - 1)
           n == (next - 1) - h + 1
           m == Len(keyword)
<1>1. /\ h \in 1..Len(buff) /\ next - 1 \in h..Len(buff) /\ Len(buff) \in Nat /\ buff \in Seq(STRING)
      /\ \A r \in 1..Len(buff) : Loop!Char(r) = buff[r]
  <2>1. h \in 1..(Len(buff) + 1) /\ Len(buff) \in Nat
    BY HereIs
  <2> HIDE DEF h
  <2>2. next \in (h + 1)..(Len(buff) + 1)
    BY DEF h
  <2> QED
    BY <2>1, <2>2 DEF Loop!Char, InLine, LineInv
<1> HIDE DEF h
<1>2. n \in Nat \ {0} /\ n = (next - 1) - h + 1 /\ m \in Nat
  BY <1>1
<1>3. Len(word) = n /\ word \in Seq(STRING) /\ \A j \in 1..n : word[j] = buff[(h + j) - 1]
  <2>1. \A k \in h..(next - 1) : buff[k] \in STRING
    BY <1>1
  <2>2. h \in Int /\ next - 1 \in Int /\ h <= next - 1
    BY <1>1
  <2>3. /\ word \in Seq(STRING)
        /\ Len(word) = IF h <= next - 1 THEN (next - 1) - h + 1 ELSE 0
        /\ \A j \in 1..((next - 1) - h + 1) : word[j] = buff[h + j - 1]
    BY <2>1, <2>2, SubSeqProperties
  <2> QED
    BY <2>2, <2>3
<1> HIDE DEF word, n, m
<1>4. SubSeq(word, 1, n) = word
  BY <1>2, <1>3
<1>5. n <= m => /\ SubSeq(keyword, 1, n) \in Seq(T) /\ Len(SubSeq(keyword, 1, n)) = n
                /\ \A j \in 1..n : SubSeq(keyword, 1, n)[j] = keyword[j]
  BY <1>2 DEF m
<1>6. FindsKeyword(keyword, next) <=>
        (next - 1) - h < m /\ \A r \in h..(next - 1) : Loop!Char(r) = keyword[(r - h) + 1]
  BY DEF FindsKeyword, h, m
<1>7. (next - 1) - h < m <=> n <= m
  BY <1>1, <1>2
<1>8. (\A r \in h..(next - 1) : Loop!Char(r) = keyword[(r - h) + 1]) <=> \A j \in 1..n : word[j] = keyword[j]
  <2>1. ASSUME \A r \in h..(next - 1) : Loop!Char(r) = keyword[(r - h) + 1], NEW j \in 1..n
        PROVE  word[j] = keyword[j]
    <3>1. (h + j) - 1 \in h..(next - 1) /\ (((h + j) - 1) - h) + 1 = j /\ (h + j) - 1 \in 1..Len(buff)
      BY <1>1, <1>2
    <3>2. Loop!Char((h + j) - 1) = keyword[j]
      BY <2>1, <3>1
    <3> QED
      BY <1>1, <1>3, <3>1, <3>2
  <2>2. ASSUME \A j \in 1..n : word[j] = keyword[j], NEW r \in h..(next - 1)
        PROVE  Loop!Char(r) = keyword[(r - h) + 1]
    <3>1. (r - h) + 1 \in 1..n /\ (h + ((r - h) + 1)) - 1 = r /\ r \in 1..Len(buff)
      BY <1>1, <1>2
    <3>2. word[(r - h) + 1] = buff[r]
      BY <1>3, <3>1
    <3> QED
      BY <1>1, <2>2, <3>1, <3>2
  <2> QED
    BY <2>1, <2>2
<1>9. n <= m => (word = SubSeq(keyword, 1, n) <=> \A j \in 1..n : word[j] = keyword[j])
  BY <1>2, <1>3, <1>5
<1>10. Loop!IsPrefix(word, keyword) <=> n <= m /\ word = SubSeq(keyword, 1, n)
  BY <1>3, <1>4 DEF Loop!IsPrefix, m
<1> QED
  BY <1>6, <1>7, <1>8, <1>9, <1>10 DEF word, h

\* A word.
LEMMA WordInv ==
  ASSUME Loop!LoopAssumption, LineInv, SaidInv, Loop!Word
  PROVE  LineInv' /\ SaidInv'
<1>1. InLine /\ LexInv /\ status = "lex"
  BY InBuffer DEF Loop!Word, Loop!Lexes
<1>2. Loop!Char(Loop!Here) \in Letters
  BY DEF Loop!Word, Loop!Lexes
<1>3. PICK next : next = Loop!After(Loop!Here, Letters)
  OBVIOUS
<1>4. PICK t : t = Loop!WordType(SubSeq(buff, Loop!Here, next - 1))
  OBVIOUS
<1>5. Loop!Report(t, next)
  BY <1>3, <1>4 DEF Loop!Word
<1>6. t \in {"IDENTIFIER", "END", "PRINT"}
  BY <1>4 DEF Loop!WordType
<1>7. "NUL" \notin Letters /\ "quote" \notin Letters /\ "9" \notin Letters /\ Letters \cap Digits = {}
  BY DEF Loop!LoopAssumption
<1>8. /\ next \in (Loop!Here + 1)..(Len(buff) + 1) /\ FindsRun(Letters, next)
      /\ QuotesTo(next - 1) = QuotesTo(pos - 1)
  BY <1>1, <1>2, <1>3, <1>7, RunIs
<1>9. t \in Loop!Types \ {"EOF"} /\ Even(QuotesTo(next - 1))
  BY <1>1, <1>6, <1>8 DEF Loop!Types, LexInv
<1>10. t = IF FindsKeyword(END, next) THEN "END" ELSE IF FindsKeyword(PRINT, next) THEN "PRINT" ELSE "IDENTIFIER"
  <2>1. END \in Seq(Letters) /\ PRINT \in Seq(Letters)
    BY DEF Loop!LoopAssumption
  <2>2. /\ Loop!IsPrefix(SubSeq(buff, Loop!Here, next - 1), END) <=> FindsKeyword(END, next)
        /\ Loop!IsPrefix(SubSeq(buff, Loop!Here, next - 1), PRINT) <=> FindsKeyword(PRINT, next)
    BY <1>1, <1>8, <2>1, IsPrefixIs
  <2> QED
    BY <1>4, <2>2 DEF Loop!WordType
<1>11. Finds(t, next)
  BY <1>2, <1>7, <1>8, <1>10 DEF Finds
<1> QED
  BY <1>1, <1>5, <1>8, <1>9, <1>11, ReportInv

\* A number.
LEMMA IntegerLiteralInv ==
  ASSUME Loop!LoopAssumption, LineInv, SaidInv, Loop!IntegerLiteral
  PROVE  LineInv' /\ SaidInv'
<1>1. InLine /\ LexInv /\ status = "lex"
  BY InBuffer DEF Loop!IntegerLiteral, Loop!Lexes
<1>2. Loop!Char(Loop!Here) \in Digits
  BY DEF Loop!IntegerLiteral, Loop!Lexes
<1>3. PICK next : next = Loop!After(Loop!Here, Digits)
  OBVIOUS
<1>4. Loop!Report("NUMERIC", next)
  BY <1>3 DEF Loop!IntegerLiteral
<1>5. "NUL" \notin Digits /\ "quote" \notin Digits /\ "9" \notin Digits /\ Letters \cap Digits = {}
  BY DEF Loop!LoopAssumption
<1>6. /\ next \in (Loop!Here + 1)..(Len(buff) + 1) /\ FindsRun(Digits, next)
      /\ QuotesTo(next - 1) = QuotesTo(pos - 1)
  BY <1>1, <1>2, <1>3, <1>5, RunIs
<1>7. "NUMERIC" \in Loop!Types \ {"EOF"} /\ Even(QuotesTo(next - 1))
  BY <1>1, <1>6 DEF Loop!Types, LexInv
<1>8. Finds("NUMERIC", next)
  BY <1>2, <1>5, <1>6 DEF Finds
<1> QED
  BY <1>1, <1>4, <1>6, <1>7, <1>8, ReportInv

\* The call is behind all tokens.
LEMMA SaidNothing ==
  ASSUME InLine, SaidInv, NEW p \in Int, p >= start + pos
  PROVE  Said(p) = {}
<1>1. start \in Nat /\ pos \in Nat /\ Cursor = start + (pos - 1)
  BY HereIs DEF InLine, LineInv, Cursor
<1>2. \A k \in 1..Len(printed) : ~ (p \in printed[k].from..printed[k].to)
  <2> SUFFICES ASSUME NEW k \in 1..Len(printed) PROVE ~ (p <= printed[k].to)
    OBVIOUS
  <2>1. printed[k] \in Reports
    BY DEF SaidInv
  <2>2. printed[k].to \in Nat /\ printed[k].to <= start + (pos - 1)
    BY <1>1, <2>1 DEF SaidInv, Reports
  <2> QED
    BY <1>1, <2>2
<1>3. DOMAIN printed = 1..Len(printed)
  BY DEF SaidInv
<1> QED
  BY <1>2, <1>3 DEF Said

-----------------------------------------------------------------------------
(* The loop of main: the ends of lines, and of the program *)

\* The quotes of the buffer are those that strlen leaves.
LEMMA QuotesOfLine ==
  ASSUME LineInv, taken > 0
  PROVE  /\ \A p \in (start + 1)..taken : Loop!QuotesOf(p) = QuotesTo(Len(buff))
         /\ \A p \in (start + (Len(buff) + 1))..taken : Loop!BehindNul(p)
<1>1. /\ start \in Nat /\ taken \in Nat /\ Len(buff) \in Nat /\ Len(input) \in Nat
      /\ start + Len(buff) <= taken /\ taken <= Len(input) /\ start < taken
  BY DEF LineInv
<1>2. \A q \in (start + 1)..taken : Loop!First(q) = start + 1
  BY DEF LineInv
<1>3. ASSUME NEW p \in (start + (Len(buff) + 1))..taken PROVE Loop!BehindNul(p)
  <2>1. Loop!First(p) = start + 1 /\ start + (Len(buff) + 1) \in (start + 1)..p
    BY <1>1, <1>2
  <2>2. Len(buff) < taken - start
    BY <1>1
  <2>3. input[start + (Len(buff) + 1)] = "NUL"
    BY <1>1, <2>2 DEF LineInv
  <2> QED
    BY <2>1, <2>3 DEF Loop!BehindNul
<1>4. ASSUME NEW p \in (start + 1)..(start + Len(buff)) PROVE ~ Loop!BehindNul(p)
  <2>1. Loop!First(p) = start + 1
    BY <1>1, <1>2
  <2>2. ASSUME NEW q \in (start + 1)..p PROVE input[q] # "NUL"
    <3>1. q - start \in 1..Len(buff) /\ start + (q - start) = q
      BY <1>1
    <3> QED
      BY <1>1, <3>1 DEF LineInv
  <2> QED
    BY <2>1, <2>2 DEF Loop!BehindNul
<1>5. \A p \in (taken + 1)..Len(input) : Loop!First(p) # start + 1
  <2> SUFFICES ASSUME NEW p \in (taken + 1)..Len(input) PROVE Loop!First(p) # start + 1
    OBVIOUS
  <2>1. Loop!First(taken + 1) = taken + 1 /\ taken + 1 \in Nat \ {0} /\ p \in Nat /\ p >= taken + 1
    BY <1>1 DEF LineInv
  <2>2. Loop!First(p) >= taken + 1 /\ Loop!First(p) \in Int
    BY <2>1, FirstBounds
  <2> QED
    BY <1>1, <2>2
<1>6. ASSUME NEW p \in (start + 1)..taken PROVE Loop!QuotesOf(p) = QuotesTo(Len(buff))
  <2>1. \A q : q \in Loop!QuotesOf(p) <=> /\ q \in (start + 1)..Len(input) /\ Loop!First(q) = start + 1
                                          /\ input[q] = "quote" /\ ~ Loop!BehindNul(q)
    BY <1>2 DEF Loop!QuotesOf
  <2>2. \A q : q \in (start + 1)..Len(input) => \/ q \in (start + 1)..(start + Len(buff))
                                                \/ q \in (start + (Len(buff) + 1))..taken
                                                \/ q \in (taken + 1)..Len(input)
    BY <1>1
  <2>3. \A q \in (start + 1)..(start + Len(buff)) : q \in (start + 1)..Len(input) /\ q \in (start + 1)..taken
    BY <1>1
  <2>4. \A q : q \in QuotesTo(Len(buff)) <=> q \in (start + 1)..(start + Len(buff)) /\ input[q] = "quote"
    BY DEF QuotesTo
  <2> QED
    BY <1>2, <1>3, <1>4, <1>5, <2>1, <2>2, <2>3, <2>4
<1> QED
  BY <1>3, <1>6

\* main is through with a buffer.
LEMMA EndLineInv ==
  ASSUME LineInv, SaidInv, status = "lex", NEW next, Loop!EndLine(next),
         \A p \in (start + 1)..taken : Settled(p),
         \/ Even(QuotesTo(Len(buff)))
         \/ Loop!GivenUp(taken)
  PROVE  LineInv' /\ SaidInv'
<1>1. /\ InLine /\ LexInv /\ Loop!Finished = start /\ Cursor = start + (pos - 1)
      /\ start \in Nat /\ taken \in Nat /\ Len(buff) \in Nat /\ Len(input) \in Nat /\ pos \in 1..(Len(buff) + 1)
      /\ start + Len(buff) <= taken /\ taken <= Len(input) /\ start < taken
      /\ \A p \in (start + 1)..taken : Loop!First(p) = start + 1
  BY InBuffer
<1>2. /\ input' = input /\ start' = start /\ taken' = taken /\ buff' = buff /\ printed' = printed
      /\ status' = "prompt"
  BY DEF Loop!EndLine
<1>3. LineInv'
  BY <1>1, <1>2, LineStays
<1>4. /\ \A p : Loop!QuotesOf(p)' = Loop!QuotesOf(p)
      /\ \A p : Loop!First(p)' = Loop!First(p)
      /\ \A p : Loop!GivenUp(p)' <=> Loop!GivenUp(p)
      /\ \A p : Settled(p)' <=> Settled(p)
      /\ \A k : TypedAs(k)' <=> TypedAs(k)
  BY <1>2, FirstStays, SaidStays
<1>5. Loop!Finished' = taken /\ Cursor' = taken
  BY <1>2 DEF Loop!Finished, Cursor
<1>6. ASSUME NEW p \in 1..start PROVE Settled(p) /\ Resumed(p)'
  <2>1. Settled(p) /\ Resumed(p)
    BY <1>1 DEF SaidInv
  <2>2. \A q \in p..start : q \in p..taken
    BY <1>1
  <2> QED
    BY <1>1, <1>4, <1>5, <2>1, <2>2 DEF Resumed, Even
<1>7. ASSUME NEW p \in (start + 1)..taken PROVE Resumed(p)'
  <2>1. Loop!QuotesOf(p) = QuotesTo(Len(buff))
    BY <1>1, QuotesOfLine
  <2>2. taken \in p..taken /\ Loop!First(taken) = Loop!First(p)
    BY <1>1
  <2> QED
    BY <1>4, <1>5, <2>1, <2>2 DEF Resumed, Even
<1>8. \A p \in 1..Loop!Finished' : Settled(p)' /\ Resumed(p)'
  <2>1. \A p \in 1..taken : p \in 1..start \/ p \in (start + 1)..taken
    BY <1>1
  <2> QED
    BY <1>4, <1>5, <1>6, <1>7, <2>1
<1>9. \A k \in 1..Len(printed) :
        1 <= printed[k].from /\ printed[k].from <= printed[k].to /\ printed[k].to <= taken
  <2> SUFFICES ASSUME NEW k \in 1..Len(printed)
               PROVE  1 <= printed[k].from /\ printed[k].from <= printed[k].to /\ printed[k].to <= taken
    OBVIOUS
  <2>1. printed[k] \in Reports
    BY DEF SaidInv
  <2>2. printed[k].to \in Nat /\ printed[k].to <= start + (pos - 1)
        /\ 1 <= printed[k].from /\ printed[k].from <= printed[k].to
    BY <1>1, <2>1 DEF SaidInv, Reports
  <2> QED
    BY <1>1, <2>2
<1>10. printed \in Seq(Reports) /\ \A k \in 1..Len(printed) : TypedAs(k)
  BY DEF SaidInv
<1>11. SaidInv'
  BY <1>2, <1>4, <1>5, <1>8, <1>9, <1>10 DEF SaidInv, Reports, Loop!Types
<1> QED
  BY <1>3, <1>11

\* What is before the call is settled.
LEMMA SettledSoFar ==
  ASSUME LineInv, SaidInv, status = "lex"
  PROVE  \A p \in (start + 1)..(start + (Loop!Here - 1)) : Settled(p)
<1>1. /\ InLine /\ LexInv /\ start \in Nat /\ Len(buff) \in Nat /\ pos \in 1..(Len(buff) + 1)
  BY InBuffer
<1>2. /\ Loop!Here \in pos..(Len(buff) + 1)
      /\ \A r \in pos..(Loop!Here - 1) : Loop!Char(r) \in Loop!Blanks
  BY <1>1, HereIs
<1>3. ASSUME NEW p \in (start + 1)..(start + (pos - 1)) PROVE Settled(p)
  BY <1>1 DEF LexInv, Settled
<1>4. ASSUME NEW p \in (start + pos)..(start + (Loop!Here - 1)) PROVE Settled(p)
  <2>1. p - start \in pos..(Loop!Here - 1) /\ start + (p - start) = p /\ p - start \in 1..(Len(buff) + 1)
        /\ p - start <= Len(buff) /\ p \in Int /\ p >= start + pos
    BY <1>1, <1>2
  <2>2. input[p] \in Loop!Blanks
    BY <1>1, <1>2, <2>1, CharIs
  <2>3. Said(p) = {}
    BY <1>1, <2>1, SaidNothing
  <2> QED
    BY <2>2, <2>3 DEF Settled
<1> QED
  BY <1>1, <1>2, <1>3, <1>4

\* The buffer is at its end.
LEMMA AtEndInv ==
  ASSUME LineInv, SaidInv, Loop!AtEnd
  PROVE  LineInv' /\ SaidInv'
<1>1. status = "lex" /\ Loop!Char(Loop!Here) = "NUL" /\ Loop!EndLine(Loop!Here)
  BY DEF Loop!AtEnd, Loop!Lexes
<1>2. /\ InLine /\ LexInv
      /\ start \in Nat /\ taken \in Nat /\ Len(buff) \in Nat /\ pos \in 1..(Len(buff) + 1) /\ start < taken
  BY <1>1, InBuffer
<1>3. Loop!Here \in pos..(Len(buff) + 1) /\ Loop!Here \in 1..(Len(buff) + 1)
      /\ \A r \in pos..(Loop!Here - 1) : Loop!Char(r) \in Loop!Blanks
  BY <1>2, HereIs
<1>4. Loop!Here = Len(buff) + 1
  BY <1>1, <1>2, <1>3, CharIs
<1>5. ASSUME NEW p \in (start + (Len(buff) + 1))..taken PROVE Settled(p)
  <2>1. Loop!BehindNul(p)
    BY <1>2, QuotesOfLine
  <2>2. p \in Int /\ p >= start + pos
    BY <1>2
  <2> QED
    BY <1>2, <2>1, <2>2, SaidNothing DEF Settled
<1>6. \A p \in (start + 1)..taken : Settled(p)
  <2>1. \A p \in (start + 1)..taken :
          p \in (start + 1)..(start + (Loop!Here - 1)) \/ p \in (start + (Len(buff) + 1))..taken
    BY <1>2, <1>4
  <2> QED
    BY <1>1, <1>5, <2>1, SettledSoFar
<1>7. Even(QuotesTo(Len(buff)))
  <2>1. Loop!Here \in Loop!Here..(Len(buff) + 1) /\ Loop!Here - 1 = Len(buff)
    BY <1>2, <1>4
  <2>2. \A r \in Loop!Here..(Loop!Here - 1) : Loop!Char(r) # "quote"
    BY <1>2, <1>4
  <2>3. QuotesTo(Loop!Here - 1) = QuotesTo(pos - 1)
    BY <1>2, <2>1, <2>2, NoQuotes
  <2> QED
    BY <1>2, <2>1, <2>3 DEF LexInv
<1>8. PICK next : next = Loop!Here
  OBVIOUS
<1> QED
  BY <1>1, <1>6, <1>7, <1>8, EndLineInv

\* A string is not closed.
LEMMA UnterminatedInv ==
  ASSUME LineInv, SaidInv, Loop!Unterminated
  PROVE  LineInv' /\ SaidInv'
<1>1. /\ status = "lex" /\ Loop!Char(Loop!Here) = "quote" /\ Loop!Char(Loop!Closing) = "NUL"
      /\ pos' = Loop!Closing /\ status' = "101"
      /\ input' = input /\ start' = start /\ taken' = taken /\ buff' = buff /\ printed' = printed
  BY DEF Loop!Unterminated, Loop!Lexes
<1>2. /\ InLine /\ LexInv /\ Loop!Finished = start /\ Cursor = start + (pos - 1)
      /\ start \in Nat /\ taken \in Nat /\ Len(buff) \in Nat /\ pos \in 1..(Len(buff) + 1) /\ start < taken
  BY <1>1, InBuffer
<1>3. Loop!Here \in 1..(Len(buff) + 1) /\ Loop!Closing \in (Loop!Here + 1)..(Len(buff) + 1)
  BY <1>1, <1>2, HereIs, ClosingIs
<1>4. Loop!Closing = Len(buff) + 1
  <2>1. Loop!Closing \in 1..(Len(buff) + 1)
    BY <1>2, <1>3
  <2> QED
    BY <1>1, <1>2, <2>1, CharIs
<1>5. ~ Even(QuotesTo(Len(buff)))
  <2>1. Loop!Closing - 1 = Len(buff)
    BY <1>2, <1>4
  <2> QED
    BY <1>1, <1>2, <2>1, StringQuotes DEF LexInv
<1>6. LineInv'
  BY <1>1, <1>2, LineStays
<1>7. /\ \A p : Loop!QuotesOf(p)' = Loop!QuotesOf(p)
      /\ \A p : Loop!First(p)' = Loop!First(p)
      /\ \A p : Loop!GivenUp(p)' <=> Loop!GivenUp(p)
      /\ \A p : Settled(p)' <=> Settled(p)
      /\ \A k : TypedAs(k)' <=> TypedAs(k)
  BY <1>1, FirstStays, SaidStays
<1>8. Loop!Finished' = start /\ Cursor' = start + Len(buff) /\ ~ Even(QuotesTo(Len(buff)))'
  <2>1. pos' - 1 = Len(buff)
    BY <1>1, <1>2, <1>4
  <2> QED
    BY <1>1, <1>5, <2>1 DEF Loop!Finished, Cursor, QuotesTo, Even
<1>9. \A k \in 1..Len(printed) :
        1 <= printed[k].from /\ printed[k].from <= printed[k].to /\ printed[k].to <= start + Len(buff)
  <2> SUFFICES ASSUME NEW k \in 1..Len(printed)
               PROVE  1 <= printed[k].from /\ printed[k].from <= printed[k].to /\ printed[k].to <= start + Len(buff)
    OBVIOUS
  <2>1. printed[k] \in Reports
    BY DEF SaidInv
  <2>2. printed[k].to \in Nat /\ printed[k].to <= start + (pos - 1)
        /\ 1 <= printed[k].from /\ printed[k].from <= printed[k].to
    BY <1>2, <2>1 DEF SaidInv, Reports
  <2> QED
    BY <1>2, <2>2
<1>10. \A p \in 1..start : Settled(p)' /\ Resumed(p)'
  BY <1>2, <1>7, <1>8 DEF SaidInv, Resumed, Even
<1>11. printed \in Seq(Reports) /\ \A k \in 1..Len(printed) : TypedAs(k)
  BY DEF SaidInv
<1>12. SaidInv'
  BY <1>1, <1>7, <1>8, <1>9, <1>10, <1>11 DEF SaidInv, Reports, Loop!Types
<1> QED
  BY <1>6, <1>12

\* An unknown character.
LEMMA UnknownInv ==
  ASSUME Loop!LoopAssumption, LineInv, SaidInv, Loop!Unknown
  PROVE  LineInv' /\ SaidInv'
<1> DEFINE h == Loop!Here
<1>1. status = "lex" /\ Loop!Char(h) \notin Letters \cup Digits \cup {"quote", "NUL"}
  BY DEF Loop!Unknown
<1>2. PICK t \in IF type = "unset" THEN Loop!Types ELSE {type} :
        IF t = "EOF" THEN Loop!EndLine(h + 1) ELSE Loop!Report(t, h + 1)
  BY DEF Loop!Unknown
<1>3. /\ InLine /\ LexInv /\ start \in Nat /\ taken \in Nat /\ Len(buff) \in Nat /\ Len(input) \in Nat
      /\ pos \in 1..(Len(buff) + 1) /\ start + Len(buff) <= taken /\ taken <= Len(input) /\ start < taken
      /\ \A p \in 1..start : Loop!First(p) \in 1..start
      /\ \A p \in (start + 1)..taken : Loop!First(p) = start + 1
  BY <1>1, InBuffer
<1>4. /\ h \in pos..(Len(buff) + 1) /\ h \in 1..(Len(buff) + 1) /\ Loop!Char(h) \notin Loop!Blanks
      /\ \A r \in pos..(h - 1) : Loop!Char(r) \in Loop!Blanks
  BY <1>3, HereIs
<1>5. h <= Len(buff)
  <2>1. h # Len(buff) + 1
    BY <1>1, <1>3, <1>4, CharIs
  <2> QED
    BY <1>3, <1>4, <2>1
<1>6. h \in Loop!Here..h /\ h + 1 \in (h + 1)..(Len(buff) + 1) /\ (h + 1) - 1 = h /\ ~ (h > h)
  BY <1>3, <1>4, <1>5
<1>7. CASE t # "EOF"
  <2>1. PICK next \in Nat : next = h + 1
    BY <1>4
  <2>2. Loop!Report(t, next) /\ next \in (Loop!Here + 1)..(Len(buff) + 1) /\ next - 1 = Loop!Here
    BY <1>2, <1>6, <1>7, <2>1
  <2>3. t \in Loop!Types \ {"EOF"} /\ (type # "unset" => t = type)
    BY <1>2, <1>3, <1>7 DEF LexInv
  <2>4. Even(QuotesTo(next - 1))
    <3>1. \A r \in Loop!Here..(next - 1) : Loop!Char(r) # "quote"
      BY <1>1, <1>4, <2>2
    <3>2. next - 1 \in Nat /\ next \in Loop!Here..(Len(buff) + 1)
      BY <1>4, <2>1, <2>2
    <3> QED
      BY <1>3, <3>1, <3>2, NoQuotes DEF LexInv
  <2>5. Finds(t, next)
    BY <1>1, <2>2, <2>3 DEF Finds
  <2> QED
    BY <1>1, <2>2, <2>3, <2>4, <2>5, ReportInv
<1>8. CASE t = "EOF"
  <2>1. type = "unset" /\ Loop!EndLine(h + 1)
    BY <1>2, <1>3, <1>8 DEF LexInv
  <2>2. \A k \in 1..Len(printed) : printed[k].from \in 1..start /\ printed[k].to \in Nat /\ printed[k].to <= start
    <3> SUFFICES ASSUME NEW k \in 1..Len(printed)
                 PROVE  printed[k].from \in 1..start /\ printed[k].to \in Nat /\ printed[k].to <= start
      OBVIOUS
    <3>1. printed[k] \in Reports
      BY DEF SaidInv
    <3>2. /\ printed[k].from \in Nat /\ printed[k].to \in Nat
          /\ 1 <= printed[k].from /\ printed[k].from <= printed[k].to
      BY <3>1 DEF SaidInv, Reports
    <3>3. printed[k].to <= start
      BY <1>3, <2>1 DEF LexInv
    <3> QED
      BY <1>3, <3>2, <3>3
  <2>3. DOMAIN printed = 1..Len(printed)
    BY DEF SaidInv
  <2>4. \A k \in DOMAIN printed : Loop!First(printed[k].from) # start + 1
    BY <1>3, <2>2, <2>3
  <2>5. ASSUME NEW r \in (start + 1)..(start + (h - 1)) PROVE input[r] \in Loop!Blanks
    <3>1. CASE r \in (start + 1)..(start + (pos - 1))
      <4>1. \A k \in 1..Len(printed) : ~ (r \in printed[k].from..printed[k].to)
        <5>1. start \in Int /\ r \in Int /\ start < r
          BY <1>3, <3>1
        <5>2. \A e \in Int : e <= start => ~ (r <= e)
          BY <5>1
        <5>3. \A k \in 1..Len(printed) : printed[k].to \in Int /\ printed[k].to <= start
          BY <2>2
        <5> HIDE DEF h
        <5>4. \A k \in 1..Len(printed) : ~ (r <= printed[k].to)
          BY <5>2, <5>3, Zenon
        <5>5. \A k \in 1..Len(printed) : r \in printed[k].from..printed[k].to => r <= printed[k].to
          BY <5>1
        <5> QED
          BY <5>4, <5>5, Zenon
      <4>2. Said(r) = {}
        BY <2>3, <4>1 DEF Said
      <4>3. Cardinality(Said(r)) = 1 \/ (Said(r) = {} /\ input[r] \in Loop!Blanks)
        BY <1>3, <3>1 DEF LexInv
      <4>4. Cardinality({}) = 0
        BY FS_EmptySet
      <4> QED
        BY <4>2, <4>3, <4>4
    <3>2. CASE r \in (start + pos)..(start + (h - 1))
      <4>1. r - start \in pos..(h - 1) /\ start + (r - start) = r /\ r - start \in 1..(Len(buff) + 1)
            /\ r - start <= Len(buff)
        BY <1>3, <1>4, <3>2
      <4> QED
        BY <1>3, <1>4, <4>1, CharIs
    <3> QED
      BY <1>3, <1>4, <2>5, <3>1, <3>2
  <2>6. input[start + h] = Loop!Char(h)
    BY <1>3, <1>4, <1>5, CharIs
  <2>7. ASSUME NEW p \in (start + h)..taken PROVE Loop!GivenUp(p)
    <3>1. Loop!First(p) = start + 1 /\ start + h \in (start + 1)..p
      BY <1>3, <1>4
    <3>2. input[start + h] \notin Letters \cup Digits \cup Loop!Blanks \cup {"quote", "NUL"}
      BY <1>1, <1>4, <2>6
    <3>3. \A r \in (start + 1)..((start + h) - 1) : input[r] \in Loop!Blanks
      <4>1. (start + h) - 1 = start + (h - 1)
        BY <1>3, <1>4
      <4> QED
        BY <2>5, <4>1
    <3> QED
      BY <2>4, <3>1, <3>2, <3>3 DEF Loop!GivenUp
  <2>8. ASSUME NEW p \in (start + 1)..taken PROVE Settled(p)
    <3>1. CASE p \in (start + 1)..(start + (h - 1))
      BY <1>1, <3>1, SettledSoFar
    <3>2. CASE p \in (start + h)..taken
      <4>1. p \in Int /\ p >= start + pos
        BY <1>3, <1>4, <3>2
      <4>2. Said(p) = {}
        BY <1>3, <4>1, SaidNothing
      <4> QED
        BY <2>7, <3>2, <4>2 DEF Settled
    <3> QED
      BY <1>3, <1>4, <3>1, <3>2
  <2>9. Loop!GivenUp(taken)
    <3>1. taken \in (start + h)..taken
      BY <1>3, <1>4, <1>5
    <3> QED
      BY <2>7, <3>1
  <2>10. PICK next : next = h + 1
    OBVIOUS
  <2> QED
    BY <1>1, <2>1, <2>8, <2>9, <2>10, EndLineInv
<1> QED
  BY <1>7, <1>8

\* fgets reads the next buffer.
LEMMA ReadLineInv ==
  ASSUME Loop!LoopAssumption, LineInv, SaidInv, Loop!ReadLine
  PROVE  LineInv' /\ SaidInv'
<1>1. /\ status = "prompt" /\ taken < Len(input) /\ start' = taken /\ taken' = Loop!LastRead
      /\ pos' = 1 /\ type' = "unset" /\ input' = input /\ printed' = printed
      /\ status' = IF buff' = <<>> THEN "aborted" ELSE "lex"
  BY DEF Loop!ReadLine
<1>2. PICK e : e = Loop!LastRead
  OBVIOUS
<1>3. /\ e \in (taken + 1)..Len(input)
      /\ \A q \in (taken + 1)..(e - 1) : input[q] # "newline" /\ q # taken + LineLen - 1
      /\ e = Len(input) \/ input[e] = "newline" \/ e = taken + LineLen - 1
  BY <1>1, <1>2, LastReadIs
<1>4. taken \in Nat /\ Len(input) \in Nat /\ e \in Nat /\ taken < e /\ LineLen \in Nat /\ start \in Nat /\ start <= taken
  BY <1>3 DEF LineInv, Loop!LoopAssumption
<1>5. /\ \A q \in (taken + 1)..e : Loop!First(q) = taken + 1
      /\ e < Len(input) => Loop!First(e + 1) = e + 1
  <2>1. Loop!First(taken + 1) = taken + 1
    BY <1>1 DEF LineInv
  <2>2. PICK s \in Nat : s = taken
    BY <1>4
  <2>3. /\ \A q \in (s + 1)..e : Loop!First(q) = s + 1
        /\ input[e] = "newline" \/ e = s + LineLen - 1 => Loop!First(e + 1) = e + 1
    BY <1>3, <1>4, <2>1, <2>2, LineIsOne
  <2> QED
    BY <1>3, <1>4, <2>2, <2>3
<1>6. /\ buff' \in Seq(STRING) /\ Len(buff') <= e - taken
      /\ \A q \in 1..Len(buff') : buff'[q] = input[taken + q] /\ buff'[q] # "NUL"
      /\ Len(buff') < e - taken => input[taken + (Len(buff') + 1)] = "NUL"
  BY <1>1, <1>2, LineIs
<1>7. /\ \A p : Loop!QuotesOf(p)' = Loop!QuotesOf(p)
      /\ \A p : Loop!First(p)' = Loop!First(p)
      /\ \A p : Loop!GivenUp(p)' <=> Loop!GivenUp(p)
      /\ \A p : Settled(p)' <=> Settled(p)
      /\ \A k : TypedAs(k)' <=> TypedAs(k)
  BY <1>1, FirstStays, SaidStays
<1>8. LineInv'
  <2>1. /\ input' \in Seq(STRING) /\ taken' \in 0..Len(input') /\ start' \in 0..taken'
        /\ status' \in {"prompt", "lex", "101", "aborted", "returned"}
        /\ ~ (taken' = 0)
    BY <1>1, <1>2, <1>3, <1>4 DEF LineInv
  <2>2. taken' < Len(input') => Loop!First(taken + 1)' = taken' + 1
    BY <1>1, <1>2, <1>5, <1>7
  <2>3. start' < taken' /\ \A q \in (start' + 1)..taken' : Loop!First(q)' = start' + 1
    BY <1>1, <1>2, <1>4, <1>5, <1>7
  <2>4. /\ buff' \in Seq(STRING) /\ Len(buff') <= taken' - start'
        /\ \A q \in 1..Len(buff') : buff'[q] = input'[start' + q] /\ buff'[q] # "NUL"
        /\ Len(buff') < taken' - start' => input'[start' + (Len(buff') + 1)] = "NUL"
    BY <1>1, <1>2, <1>6
  <2>5. status' = "aborted" <=> Len(buff') = 0
    BY <1>1, <1>6
  <2> QED
    BY <2>1, <2>2, <2>3, <2>4, <2>5 DEF LineInv
<1>9. Loop!Finished = taken /\ Cursor = taken
  BY <1>1 DEF Loop!Finished, Cursor
<1>10. Loop!Finished' = taken /\ Cursor' = taken
  BY <1>1, <1>4 DEF Loop!Finished, Cursor
<1>11. \A k \in 1..Len(printed) :
         1 <= printed[k].from /\ printed[k].from <= printed[k].to /\ printed[k].to <= taken
  BY <1>9 DEF SaidInv
<1>12. printed \in Seq(Reports) /\ \A k \in 1..Len(printed) : TypedAs(k)
  BY DEF SaidInv
<1>13. \A p \in 1..taken : Settled(p)' /\ Resumed(p)'
  BY <1>7, <1>9, <1>10 DEF SaidInv, Resumed, Even
<1>14. LexInv'
  <2>1. pos' \in 1..(Len(buff') + 1) /\ (start' + 1)..(start' + (pos' - 1)) = {} /\ ~ (pos' > 1)
    BY <1>1, <1>4, <1>6
  <2>2. Even(QuotesTo(pos - 1))'
    <3>1. QuotesTo(pos - 1)' = {}
      BY <1>1, <1>4 DEF QuotesTo
    <3> QED
      BY <3>1, FS_EmptySet DEF Even
  <2>3. type' = "unset" /\ \A k \in 1..Len(printed') : printed'[k].to <= start'
    BY <1>1, <1>11
  <2> QED
    BY <2>1, <2>2, <2>3 DEF LexInv, Ended, Even, Loop!Blanks, Loop!Types
<1>15. SaidInv'
  BY <1>1, <1>7, <1>10, <1>11, <1>12, <1>13, <1>14 DEF SaidInv, Reports, Loop!Types
<1> QED
  BY <1>8, <1>15

\* Nothing happens, or main returns 0.
LEMMA StopInv ==
  ASSUME LineInv, SaidInv, UNCHANGED <<input, start, taken, buff, pos, type, printed>>,
         status' = status \/ (status = "prompt" /\ status' = "returned")
  PROVE  LineInv' /\ SaidInv'
<1>1. /\ input' = input /\ start' = start /\ taken' = taken /\ buff' = buff /\ pos' = pos /\ type' = type
      /\ printed' = printed
  OBVIOUS
<1>2. LineInv'
  BY <1>1, LineStays DEF LineInv
<1>3. /\ \A p : Loop!QuotesOf(p)' = Loop!QuotesOf(p)
      /\ \A p : Loop!First(p)' = Loop!First(p)
      /\ \A p : Loop!GivenUp(p)' <=> Loop!GivenUp(p)
      /\ \A p : Settled(p)' <=> Settled(p)
      /\ \A p : Said(p)' = Said(p)
      /\ \A k : TypedAs(k)' <=> TypedAs(k)
      /\ \A m : QuotesTo(m)' = QuotesTo(m)
      /\ \A q : Loop!Char(q)' = Loop!Char(q)
  BY <1>1, FirstStays, SaidStays DEF QuotesTo, Loop!Char
<1>4. Loop!Finished' = Loop!Finished /\ Cursor' = Cursor
  BY <1>1 DEF Loop!Finished, Cursor
<1>5. \A p : Resumed(p)' <=> Resumed(p)
  BY <1>3, <1>4 DEF Resumed, Even
<1>6. status' = "lex" => LexInv'
  <2> SUFFICES ASSUME LexInv PROVE LexInv'
    BY DEF SaidInv
  <2>1. \A p : Cardinality(Said(p))' = Cardinality(Said(p)) 
    BY <1>3
  <2>2. Even(QuotesTo(pos - 1))'
    BY <1>1 DEF LexInv, Even, QuotesTo
  <2>3. Loop!Char(pos)' = Loop!Char(pos) /\ Loop!Char(pos - 1)' = Loop!Char(pos - 1)
    BY <1>1 DEF Loop!Char
  <2> QED
    BY <1>1, <1>3, <2>1, <2>2, <2>3 DEF LexInv, Ended, Even, Loop!Blanks, Loop!Types
<1>7. status' = "101" => ~ Even(QuotesTo(Len(buff)))'
  BY <1>1 DEF SaidInv, Even, QuotesTo
<1>8. SaidInv'
  BY <1>1, <1>3, <1>4, <1>5, <1>6, <1>7 DEF SaidInv, Reports, Loop!Types
<1> QED
  BY <1>2, <1>8

-----------------------------------------------------------------------------
(* The loop of main: what it promises *)

\* The instance has the library's Cardinality.
LEMMA SameCardinality == \A S : Loop!Cardinality(S) = Cardinality(S)
  BY DEF Loop!Cardinality, Cardinality

\* Both hold before anything is read.
LEMMA LoopInit ==
  ASSUME Loop!LoopAssumption, Loop!Init
  PROVE  LineInv /\ SaidInv
<1>1. /\ input \in Seq(STRING) /\ Len(input) \in Nat /\ start = 0 /\ taken = 0 /\ printed = <<>>
      /\ status = "prompt"
  BY DEF Loop!Init, Loop!LoopAssumption
<1>2. LineInv
  BY <1>1, FirstIs DEF LineInv
<1>3. Loop!Finished = 0 /\ Len(printed) = 0 /\ printed \in Seq(Reports)
  BY <1>1 DEF Loop!Finished
<1>4. SaidInv
  BY <1>1, <1>3 DEF SaidInv
<1> QED
  BY <1>2, <1>4

\* Every step keeps both.
LEMMA LoopNext ==
  ASSUME Loop!LoopAssumption, LineInv, SaidInv, [Loop!Next]_Loop!vars
  PROVE  LineInv' /\ SaidInv'
<1>1. CASE Loop!Stop
  BY <1>1, StopInv DEF Loop!Stop
<1>2. CASE Loop!ReadLine
  BY <1>2, ReadLineInv
<1>3. CASE Loop!AtEnd
  BY <1>3, AtEndInv
<1>4. CASE Loop!StringLiteral
  BY <1>4, StringLiteralInv
<1>5. CASE Loop!Unterminated
  BY <1>5, UnterminatedInv
<1>6. CASE Loop!Word
  BY <1>6, WordInv
<1>7. CASE Loop!IntegerLiteral
  BY <1>7, IntegerLiteralInv
<1>8. CASE Loop!Unknown
  BY <1>8, UnknownInv
<1>9. CASE UNCHANGED Loop!vars
  BY <1>9, StopInv DEF Loop!vars
<1> QED
  BY <1>1, <1>2, <1>3, <1>4, <1>5, <1>6, <1>7, <1>8, <1>9 DEF Loop!Next

\* The invariant knows what each token is.
LEMMA InvTypes ==
  ASSUME LineInv, SaidInv
  PROVE  Loop!PrintedTypesAreTheText
<1>1. ASSUME NEW p \in 1..Loop!Finished PROVE Settled(p)
  BY DEF SaidInv
<1>2. ASSUME NEW k \in DOMAIN printed PROVE TypedAs(k)
  <2>1. k \in 1..Len(printed)
    BY DEF SaidInv
  <2> QED
    BY <2>1 DEF SaidInv
<1>3. ASSUME NEW p \in 1..Loop!Finished
      PROVE  LET tokens == { k \in DOMAIN printed : p \in printed[k].from..printed[k].to }
             IN \/ Loop!Cardinality(tokens) = 1
                \/ tokens = {} /\ (input[p] \in Loop!Blanks \/ Loop!BehindNul(p) \/ Loop!GivenUp(p))
  BY <1>1, SameCardinality DEF Settled, Said
<1>4. ASSUME NEW k \in DOMAIN printed
      PROVE  /\ k > 1 => printed[k - 1].to < printed[k].from
             /\ Loop!First(printed[k].to) = Loop!First(printed[k].from) /\ ~ Loop!BehindNul(printed[k].to)
             /\ Loop!IsTyped(k)
  BY <1>2 DEF TypedAs
<1> QED
  BY <1>3, <1>4 DEF Loop!PrintedTypesAreTheText

\* And it knows the quotes of each buffer.
LEMMA InvQuotes ==
  ASSUME LineInv, SaidInv
  PROVE  Loop!OddQuotesEndTheProgram
<1>1. status = "101" => Cardinality(Loop!QuotesOf(start + 1)) % 2 = 1
  <2> SUFFICES ASSUME status = "101" PROVE Cardinality(Loop!QuotesOf(start + 1)) % 2 = 1
    OBVIOUS
  <2>1. start \in Nat /\ taken \in Nat /\ Len(buff) \in Nat /\ start < taken /\ taken > 0
    BY DEF LineInv
  <2>2. Loop!QuotesOf(start + 1) = QuotesTo(Len(buff))
    <3>1. start + 1 \in (start + 1)..taken
      BY <2>1
    <3> QED
      BY <2>1, <3>1, QuotesOfLine
  <2>3. Cardinality(QuotesTo(Len(buff))) \in Nat
    <3>1. IsFiniteSet((start + 1)..(start + Len(buff)))
      BY <2>1, FS_Interval
    <3>2. QuotesTo(Len(buff)) \subseteq (start + 1)..(start + Len(buff))
      BY DEF QuotesTo
    <3> QED
      BY <3>1, <3>2, FS_Subset, FS_CardinalityType
  <2>4. ~ Even(QuotesTo(Len(buff)))
    BY DEF SaidInv
  <2>5. \A n \in Nat : n % 2 = 0 \/ n % 2 = 1
    OBVIOUS
  <2> QED
    BY <2>2, <2>3, <2>4, <2>5 DEF Even
<1>2. status = "aborted" <=> taken > 0 /\ input[start + 1] = "NUL"
  <2>1. taken \in Nat
    BY DEF LineInv
  <2>2. CASE taken = 0
    BY <2>2 DEF LineInv
  <2>3. CASE taken > 0
    <3>1. /\ Len(buff) \in Nat /\ start \in Nat /\ start < taken
          /\ status = "aborted" <=> Len(buff) = 0
      BY <2>3 DEF LineInv
    <3>2. CASE Len(buff) = 0
      <4>1. Len(buff) < taken - start /\ start + (Len(buff) + 1) = start + 1
        BY <2>1, <3>1, <3>2
      <4>2. input[start + (Len(buff) + 1)] = "NUL"
        BY <2>3, <4>1 DEF LineInv
      <4> QED
        BY <2>3, <3>1, <3>2, <4>1, <4>2
    <3>3. CASE Len(buff) # 0
      <4>1. 1 \in 1..Len(buff)
        BY <3>1, <3>3
      <4>2. input[start + 1] # "NUL"
        BY <2>3, <4>1 DEF LineInv
      <4> QED
        BY <3>1, <3>3, <4>2
    <3> QED
      BY <3>2, <3>3
  <2> QED
    BY <2>1, <2>2, <2>3
<1>3. ASSUME NEW p \in 1..Loop!Finished PROVE Resumed(p)
  BY DEF SaidInv
<1>4. \A S : Loop!Cardinality(S) = Cardinality(S)
  BY SameCardinality
<1> QED
  BY <1>1, <1>2, <1>3, <1>4 DEF Loop!OddQuotesEndTheProgram, Resumed, Even

\* A run of the loop in the specification of both parts, or one of the arena, where the
\* loop stays at its prompt.
LEMMA BothInit == MCInit => LineInv /\ SaidInv
  BY LineAssumption, LoopInit DEF MCInit

LEMMA BothNext == LineInv /\ SaidInv /\ [MCNext]_<<part, vars, loopVars>> => LineInv' /\ SaidInv'
<1> SUFFICES ASSUME LineInv, SaidInv, [MCNext]_<<part, vars, loopVars>> PROVE LineInv' /\ SaidInv'
  OBVIOUS
<1>1. Loop!Next \/ UNCHANGED loopVars
  BY DEF MCNext
<1>2. UNCHANGED loopVars => UNCHANGED Loop!vars
  BY DEF loopVars, Loop!vars
<1> QED
  BY <1>1, <1>2, LineAssumption, LoopNext

\* PrintedTypesAreTheText: for every input and every size of the buffer, each character main
\* has read is in exactly one token, unless it is blank, behind a NUL or on a line given up;
\* a word is printed as the keyword it begins or as an identifier, a number as a number, a
\* string as a string, each of them whole; and an unknown character as what is before it.
THEOREM GuslangPrintsTheText == MCSpec => []PrintedTypesAreTheText
<1>1. LineInv /\ SaidInv => PrintedTypesAreTheText
  BY InvTypes DEF PrintedTypesAreTheText
<1> QED
  BY <1>1, BothInit, BothNext, PTL DEF MCSpec

\* OddQuotesEndTheProgram: main returns 101 only at a buffer with an odd number of quotes,
\* aborts exactly at one that begins with a NUL, and goes on only behind an even number or a
\* line given up.
THEOREM GuslangCountsQuotes == MCSpec => []OddQuotesEndTheProgram
<1>1. LineInv /\ SaidInv => OddQuotesEndTheProgram
  BY InvQuotes DEF OddQuotesEndTheProgram
<1> QED
  BY <1>1, BothInit, BothNext, PTL DEF MCSpec
=============================================================================
