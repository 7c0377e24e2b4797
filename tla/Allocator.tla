------------------------------ MODULE Allocator ------------------------------
(***************************************************************************)
(* What a region allocator promises its callers, with nothing said of how  *)
(* it finds the room: a granted block has the requested length, lies       *)
(* inside one chunk and overlaps no block that is still live; a request    *)
(* may be refused at any time; releasing the region ends every block.      *)
(* Arena implements it (Arena!ImplementsAllocator).                        *)
(***************************************************************************)
EXTENDS Integers

CONSTANTS ChunkSize, MaxChunks, Sizes

VARIABLES live,   \* the blocks the caller may use
          open    \* FALSE once the region has been released

vars == <<live, open>>

Block == [chunk : 1..MaxChunks, start : 0..ChunkSize, len : Sizes]

Apart(a, b) ==
  \/ a.chunk # b.chunk
  \/ a.start + a.len <= b.start
  \/ b.start + b.len <= a.start

Init == live = {} /\ open = TRUE

Grant ==
  /\ open
  /\ \E b \in Block :
       /\ b.start + b.len <= ChunkSize
       /\ \A c \in live : Apart(b, c)
       /\ live' = live \cup {b}
  /\ UNCHANGED open

Release ==
  /\ open
  /\ live' = {}
  /\ open' = FALSE

Next == Grant \/ Release

Spec == Init /\ [][Next]_vars
=============================================================================
