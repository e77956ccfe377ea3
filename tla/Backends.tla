------------------------------ MODULE Backends ------------------------------
(***************************************************************************)
(* The solver seam (solve/mod.rs): one engine, solved by any registered    *)
(* backend, by the pointer prototype that is not registered or by the C++  *)
(* arena solver that tests hold against it.  A call runs one backend to    *)
(* its end; backends share nothing but the engine.                         *)
(***************************************************************************)
EXTENDS Wagner

CONSTANTS
  Digests,          \* the hash functions considered
  ParallelDigests,  \* those the parallel backend is run on
  CppDigests,       \* and the C++ solver, which takes many orders
  BucketBits,       \* the bits of a segment that lie in its leading two bytes
  Main, Worker,     \* the calling thread and the rayon pool
  Idle              \* no chunk

ASSUME DigestsAssumption ==
  ParallelDigests \cup CppDigests \cup Digests \subseteq [Key -> Row]

\* The leading bytes hold the most significant bits.  A segment of at most 16
\* bits lies in them whole; of a longer one the last byte is left out.
ASSUME BucketBitsAssumption ==
  /\ BucketBits \subseteq Bit
  /\ \A b \in Bit \ BucketBits, c \in BucketBits : b < c

ASSUME ThreadsAssumption == Worker # {} /\ Idle \notin Leaf

VARIABLES
  backend,  \* the backend called
  digest, pc, round, x, sols,
  todo, chunk, hashes, idxs, hstride, icount, nrows,
  history, next

common   == <<digest, pc, sols>>
listVars == <<round, x>>
flatVars == <<todo, chunk, hashes, idxs, hstride, icount, nrows>>
ptrVars  == <<history, next>>

vars == <<backend, common, listVars, flatVars, ptrVars>>

Reference == INSTANCE Solver
Bucket    == INSTANCE BucketSolver
Arena     == INSTANCE ArenaSolver WITH Workers <- {Main}
Parallel  == INSTANCE ArenaSolver WITH Workers <- Worker, Digests <- ParallelDigests
Pointer   == INSTANCE PointerSolver
Cpp       == INSTANCE CppArenaSolver WITH Digests <- CppDigests

-----------------------------------------------------------------------------
(* The locals of the backends that are not called stay empty.              *)

NoList == x = << >> /\ round = 1
NoPtr  == history = << >> /\ next = << >>
NoFlat ==
  /\ todo = << >> /\ chunk = << >> /\ hashes = << >> /\ idxs = << >>
  /\ hstride = 0 /\ icount = 0 /\ nrows = 0

Init ==
  \/ backend = "reference" /\ Reference!Init /\ NoFlat /\ NoPtr
  \/ backend = "bucket"    /\ Bucket!Init    /\ NoFlat /\ NoPtr
  \/ backend = "cpp"       /\ Cpp!Init       /\ NoFlat /\ NoPtr
  \/ backend = "arena"     /\ Arena!Init     /\ x = << >> /\ NoPtr
  \/ backend = "parallel"  /\ Parallel!Init  /\ x = << >> /\ NoPtr
  \/ backend = "pointer"   /\ Pointer!Init   /\ NoList /\ NoFlat

Next ==
  /\ UNCHANGED backend
  /\ \/ backend = "reference" /\ Reference!Next /\ UNCHANGED <<flatVars, ptrVars>>
     \/ backend = "bucket"    /\ Bucket!Next    /\ UNCHANGED <<flatVars, ptrVars>>
     \/ backend = "cpp"       /\ Cpp!Next       /\ UNCHANGED <<flatVars, ptrVars>>
     \/ backend = "arena"     /\ Arena!Next     /\ UNCHANGED <<x, ptrVars>>
     \/ backend = "parallel"  /\ Parallel!Next  /\ UNCHANGED <<x, ptrVars>>
     \/ backend = "pointer"   /\ Pointer!Next   /\ UNCHANGED <<listVars, flatVars>>

\* Some thread of the call fills leaf rows while there are any to fill.
Filling ==
  /\ UNCHANGED <<backend, x, ptrVars>>
  /\ \/ backend = "arena" /\ Arena!Fill
     \/ backend = "parallel" /\ Parallel!Fill

Spec == Init /\ [][Next]_vars /\ WF_vars(Filling)

-----------------------------------------------------------------------------
(* What the backend called stands for, in the terms of the reference       *)
(* solver: its control point, its round and its working list.              *)

Flat == backend \in {"arena", "parallel"}

StandsFor ==
  CASE Flat -> [pc    |-> IF pc = "fill" THEN "generate" ELSE pc,
                round |-> round,
                x     |-> IF pc = "fill" THEN << >> ELSE Arena!Unpacked]
    [] backend = "pointer" ->
               [pc    |-> IF pc = "push" THEN "merge" ELSE pc,
                round |-> IF Pointer!Lists = << >> THEN 1 ELSE Len(Pointer!Lists),
                x     |-> Pointer!Explicit(Pointer!Lists)]
    [] OTHER -> [pc |-> pc, round |-> round, x |-> x]

Engine == Digests \cup ParallelDigests \cup CppDigests

Expected == INSTANCE Solver WITH
  Digests <- Engine,
  pc <- StandsFor.pc, round <- StandsFor.round, x <- StandsFor.x

Promise == INSTANCE WagnerRounds WITH
  Digests <- Engine,
  pc <- StandsFor.pc, round <- StandsFor.round,
  rows <- Range(StandsFor.x), found <- Range(sols)

-----------------------------------------------------------------------------
\* Whatever their memory layout and however the pool's threads interleave, all
\* Rust backends do, list for list and in the same order, what the reference solver
\* does, and return the same solutions in the same order.
SameAsReference ==
  Expected!Init /\ [][backend # "cpp" => Expected!Next]_(Expected!vars)

\* Every backend keeps the promise of WagnerRounds, for which soundness is proved.
ImplementsRounds == Promise!Spec

\* solve/mod.rs, lines 1-3: all backends return the same solution set, which is
\* the set of all solutions.  The runs of a sorted list contain every colliding
\* pair, dropping pairs that share a leaf drops no solution, and everything
\* returned verifies.
SameSolutions == pc = "done" => Range(sols) = Solutions(digest)

\* No solution is returned twice: each merged vector has one parse into halves
\* and each unordered pair is visited once.
NoDuplicates == IsInjective(StandsFor.x) /\ IsInjective(sols)

\* The row count of the flat buffers, computed from the length of one of them,
\* is right for the other: no slice is read out of bounds.
BuffersAgree == Flat => Arena!BuffersAgree

\* Pointers stay good: lists are never rewritten, and a pair names two different
\* rows of the previous list that agreed on its leading segment.
PointersSound == backend = "pointer" => Pointer!PointersSound

\* The merge starts: no chunk is forgotten and no worker waits for ever.
Joins == <>(pc # "fill")

=============================================================================
