# A TLA+ verification project for Requihash and uniblake

The repository holds two programs that stand on each other: **Requihash**
(`src/Req`), a proof of work after Wagner's generalised birthday search with a
regularity binding, written as a Rust crate with a C++ twin and a corpus of
other solvers, and **uniblake** (`src/BLAKE/uniblake`), a C implementation of
BLAKE2b with kernels behind a self-test gate and states that can be exported.
This directory models the parts of both whose correctness a test can hardly
reach, checks them with TLC on small instances, and proves the central facts
with TLAPS for all instances.

`PROJECT.json` gives, for each definition, the source lines it models, and
lists the runs, the mutants that show each property can fail, the hazards and
the theorems.

## 1. Inventory

### Requihash

| component | source | state | operations | what makes it correct |
|---|---|---|---|---|
| parameters | `lib.rs` `Params` | none | `new`, `n_bounds`, `valid_n` | the bounds are those `new` enforces, until the products of 32 bits wrap |
| leaf keying | `lib.rs` `leaf_row_into` | base hash state | hash of (i mod k, i div k), expansion into segments | different leaves have different keys |
| encoding | `lib.rs` | 32-bit accumulator | expand, compress, minimal encoding | round trip; no significant bit shifted out |
| reference solver | `lib.rs` `solve_reference` | working list, round | leaf loop, sort, pair merge, root filter | returns all solutions, once each, and nothing else |
| arena, parallel, bucket, pointer backends; the C++ arena solver | `lib.rs`, `solve/`, `cpp/solver.h` | flat buffers and strides; bucket counts; pointer history | the same rounds in other memory layouts, one with a thread pool | the same solution set ("seam B", `solve/mod.rs:1`) |
| verifiers: reference, arena, early | `lib.rs`, `verify/` | row lists, cursors | length, distinctness, range, then collision and order pair by pair, root | Ok exactly for solutions, the same error everywhere |
| leaf hasher gate | `hash/` | the hasher chosen | `autodetect`, `hash_many` | a hasher that differs where the self-test looks is not chosen |
| bundled BLAKE2b | `blake2b.rs`, `cpp/blake2b.h` | chain, counter, buffer | init, update, finalize | the RFC digest however the input is cut |
| cross-check | `cpp/req_gen.cpp`, `bin/req_xcheck.rs` | a vector file | mine, encode, write; read, decode, encode again, compare | passes a file exactly as written |
| generation probe | `probe.rs` | batch buffers, XOF reader, rows | `generate` for each backend, iteration count and stub | each row is written once, with its leaf's digest |
| benches | `bin/req_bench.rs`, `report.rs`, `reqbench/src/stats.rs` | the series file | load, compare, append | a run is compared with what the lines of earlier runs tell and with nothing else |
| allocator | `reqbench/src/mem.rs`, `bin/req_memcheck.rs` | two atomics | alloc, dealloc, realloc, reset, peak | the peak is that of the section measured |
| C++ twin | `cpp/` | as the Rust engine | as the Rust engine, but for a sort that is not stable | as the Rust engine |
| corpus: rz | `SOLVER_CORPUS/rz` | slots of buckets, packed trees in two parities, fill counts | `digit0`, `digitodd`, `digiteven`, `digitK`, `candidate` | sound; nothing lost but to a full bucket or remembered list, to the hash test (`lib.rs:342`: a pair that cancels its last hash word too soon), and past `MAXSOLS` |
| corpus: rk | `SOLVER_CORPUS/rk` | tuple lists, forks of each round, nonce | `find_proof`, `single_attempt` | the same, for the nonce returned |
| corpus: cs | `SOLVER_CORPUS/cs-rs` | a stack of lists with their depths | constructor, `solve`, `verify_results` | what is returned verifies |
| corpus: cs variants, eq-bucket-variants | `SOLVER_CORPUS/cs/variants`, `eq-bucket-variants` | arenas, buckets | the same searches in C++ | not modelled |

### uniblake

| component | source | state | operations | what makes it correct |
|---|---|---|---|---|
| streaming core | `ub_core.c` | `ub_state`: chain, counter, flag, buffer | init, update, final, copy, one-shot | the RFC digest however the input is cut |
| dispatch and gate | `ub_core.c`, `ub_selftest.c` | statics `g_active_fn`, `g_active_id`, `g_initialized` | ensure_init, force, active_kernel | no digest comes from a kernel that is wrong |
| snapshots | `ub_snapshot.c` | a byte image that outlives the process | export, import | a refused image is named by its code; what the header cannot tell is let through |
| kernels, CPU probe | `kernel_*.c`, `ub_probe.c` | none | compression, CPU query | compute the RFC function |

### How they interact

A solver or verifier owns an *engine* (`Requihash`), which holds a precomputed
BLAKE2b state and gives it rows of leaves. Backends share nothing but the
engine, and a call runs to its end; only the parallel backend has threads, and
only while it fills leaf rows. The corpus solvers share no code with the engine;
the benches run each of them and the engine, count their memory with the
allocator and keep the results in the series file, which outlives the process. uniblake's callers own their `ub_state` memory;
all of them share the three statics, which no lock guards. Snapshots and
the series file are the only things that survive a process.

### What is hard

* Concurrency: the pool's threads in the parallel fill; threads racing through
  `ensure_init` and `ub_force_kernel`; allocations of other threads around a
  reset of the counters.
* Order: stability of sorts (the lists of all backends are compared in order),
  the order of error checks, canonical order at each node of the tree.
* State that moves: index vectors taken out of a list in use, strides and row
  counts that change within a round, pointers into lists that are re-sorted,
  bytes left in a buffer.
* Edges: last run of a list, segments wider than a bucket key, an exactly full
  buffer, a counter carry no test can reach, the empty message.
* Capacity: slots, remembered lists, tuple lists, forks and solutions that run
  out while references to what was kept go on being made.
* Failure: kernels or hashers that are wrong everywhere or only in part,
  damaged images, processes that restart, runs that end within a line of the
  series file.

`PROJECT.json` lists these as hazards, each at its line with the properties that
would catch it, or with the reason why none does yet.

## 2. Modules

```
Wagner                   leaves, rows, vectors; the merge of two rows and of a sorted
                         list; Valid, the rule of a solution    <- Wagner_proofs
  WagnerRounds           abstract: what any backend promises   <- WagnerRounds_proofs
  Solver  BucketSolver  ArenaSolver  PointerSolver  CppArenaSolver
    Backends             the seam: one of them called; each implements Solver
                         and WagnerRounds        <- MCBackends, Backends_proofs
  Verifier  ArenaVerifier  EarlyVerifier
    Verifiers            the seam; each implements Verifier
                                           <- MCVerifiers, Verifiers_proofs
Blake2b                  BLAKE2b after RFC 7693, compression free
  HashObject             abstract: absorb pieces, hand out one digest
  UniBlakeState          ub_state and the primitives on it
    UniBlakeStream       update's loop a block at a time
    BundledStream        the Rust crate's buffering
    HashStreams          either of them      <- MCHashStreams, HashStreams_proofs
    UniBlake             a process: gate, slots, snapshots, restart <- MCUniBlake
UniBlakeThreads          the statics under threads         <- UniBlakeThreads_proofs
Codec                    what Params::new accepts, n_bounds, widths; the loops
                         of compress_array and expand_array
  CrossCheck             a vector from the C++ miner to the Rust tool
                                         <- MCCrossCheck, CrossCheck_proofs
XorRows                  rows of words, their sums; solutions without duplicates
  RkTuples               Khovratovich's solver
  RzBuckets              Tromp's solver
KList                    the k-list solver by stack merge
GenProbe                 the generation probe
LeafHasherGate           seam A: self-test and choice
CountingAlloc            the counting allocator
Baseline                 the series file and its comparison
Workbench                any one of the seven above
                                         <- MCWorkbench, Workbench_proofs
```

**Data.** A segment is the set of its one-bits, so XOR is symmetric difference
and no bits are packed. A hash function is a constant: any function from keys to
rows. What is proved or checked holds for BLAKE2b because it holds for every
function considered, and it never depends on how digests look. A chaining value
of BLAKE2b is the list of what was compressed into it (block, counter, flag, and
whether a correct kernel did it), so two digests are equal exactly when nothing
was absorbed differently.

**Solvers.** `Solver` has an action for the leaf loop, one for each round and one
for the collection of roots; a round's body is the operator `Emitted`, in the
order in which the code pushes rows. `ArenaSolver` keeps the flat `hashes` and
`idxs` with stride, count and the `nrows` division of `lib.rs:367`; `TakeChunk`,
`FillChunk` and `Join` are rayon's `par_chunks_mut`, with the arena backend as
the case of one thread. `BucketSolver` has the counting sort and the scan of
adjacent rows; `BucketBits` are the bits of a segment that its two-byte key
covers. `CppArenaSolver` takes any order that is sorted, `std::sort` not being
stable. `PointerSolver` keeps the history of lists of pointer rows and rebuilds
vectors at the end, swapping the children of a node as `reconstruct` does.

**Verifiers.** One action per exit and per step: the checks before hashing, the
collision and order rejections, the fold of a pair, the end of a round, the
root. The arena verifier's taken vectors become empty, as `mem::take` leaves
them; the early verifier has no vectors, and its slices are those of the code.

**Seams.** `Backends` and `Verifiers` choose a backend in `Init` and run it.
`StandsFor` gives, for each backend, the reference's control point, round and
list; `Expected == INSTANCE Solver WITH ...` is the refinement, and
`SameAsReference` states that every behaviour of every Rust backend is one of the
reference's, list for list and in the same order. The C++ solver cannot keep
that order; it keeps `ImplementsRounds`, the promise without an order, and
returns the same set.

**uniblake.** `UniBlake` is a sequential process: `Update`, `Final` and the
others are whole calls, built from the same operators that `UniBlakeStream`
steps through. `Restart` ends the process, by a crash or not, and starts
another: the statics and the slots are gone, the image stays, and the
environment may be different. The store hands `Import` the image as it was stored
or an altered one (`Altered`): a piece of it, one of a foreign program, family or
version, one with a length out of range, or one with another digest length, buffer
fill or byte count within its range, which no check can tell. A state set up from
the last is marked in what its caller means by it (`sound`).
`UniBlakeThreads` splits calls into reads and stores of single statics.
Each thread has a queue of stores not yet visible to others; `InOrder` says if
they leave it in program order (x86) or in any order (C's memory model gives
racing plain accesses no order at all, and the compiler may exchange them).

**Encoding.** In `Codec` a word is the set of the positions of its one-bits, which
makes shifts, masks and the width of the accumulator exact: 32 bits in Rust, 64
in C++. An action is an iteration of a loop, a byte read or written. The three
callers (encoding, decoding, expansion of a digest into a row) differ in buffers,
widths and padding, which `EncodeCall`, `DecodeCall` and `RowCall` give.
`CrossCheck` takes a solution through them: the C++ encoder, a file that may be
damaged or marked as a Zcash vector, the Rust decoder, the comparison with the
listed indices, the Rust encoder, the comparison with the file. The parameters are
computed in words of `ParamWord` values, and `Accepts` decides what the rest sees.

**Corpus.** `RzBuckets` takes the four digit routines bucket by bucket: a slot
number past `NSLOTS` is counted and not stored, a reader caps the count, a rest
value remembers `XFULL` slots, and `candidate` unfolds packed trees through the
slots of all earlier rounds, kept in two arrays by parity. `LayoutExact` is apart from
it: the byte offsets of a slot's digits at the code's own `WN`, `WK`. `RkTuples` has
an action for a leaf filled, one for a bucket resolved, one for the end of a round
and those that end an attempt or go to the next nonce; a fork is the pair of
references the code stores, valid only while the lists it names are those it was
made from. `KList` works on the bytes of a value, with `BigShr` and its carry; the
stack is the code's, one list pushed for each list hashed and merged while the
depths on top agree. In all three a solver keeps `full`, set where something is
dropped, so that `OnlyFullListsLose` can be stated. These modules, like those of the probe
and the series, take no sequence library and no fold: what a loop builds up is a
recursive function of its counter, about which one can reason.

**Around the engine.** `LeafHasherGate` has a candidate as a record of where it is
wrong: from a class or a counter on, in a lane, in a short group, in length.
`GenProbe` has the three loop shapes, a batch at a time, with the buffers
the code reuses. In `CountingAlloc` an allocation is the call of the system
allocator, the update of `current` and the update of `peak`, each a step, in any
interleaving with other threads and the reset; `settled` and `touched` bound what the peak
may be, and `blurred` notes a section in which they cannot. In `Baseline` a run
loads the file, makes its records, compares and appends, and may end at any byte of
a line: between two fields, in a key, which leaves another key or none that can be
read, or in a number, which leaves its first digits or none. The next run writes on
where it stopped. `told` is what the open line has told so far, of each name the
first value; `counted` are the figures lines have told, each entered when it was
complete. Neither looks at the file. `Workbench` chooses one of the seven in `Init` and runs it.

**Names.** Definitions have the source's names where possible. A definition with
a name like `Merge_KeepsLead`, after the comment "Slip:", is a plausible mistake
in the definition that follows it; it is used by no specification, and shows
that the properties would notice the mistake.

## 3. Runs

| run | asks | result |
|---|---|---|
| `rounds_k2` | Is whatever any backend may return, dropping any pairs, a solution? | yes |
| `backends` | Do all backends do what the reference does and return all solutions once? Does the C++ solver, in any order of equal rows? Does the parallel fill join? | yes |
| `bucket_agree` | The same of the bucket backend where a segment is wider than its key | **no** |
| `verifiers` | Do all verifiers decide the rule, with the same error, and return? | yes |
| `streams` | Do both streams give the RFC digest, however the input is cut, and end? | yes |
| `uniblake` | Are all digests right, with bad kernels, copies, snapshots and restarts, and is each image refused that the header's checks can tell from an exported one? | yes; what they cannot tell is imported and hashes wrong |
| `uniblake_import` | Is an imported state usable in a new process? | **no** |
| `threads` | Do racing threads never call null and agree on a kernel, with stores in order? | yes |
| `threads_reordered` | And with stores out of order? | **no** |
| `codec` | Are rows and encodings exact, in either width of accumulator, and is the cross-check? Do `new` and `n_bounds` agree? | yes, until the products of `n_bounds` wrap |
| `codec_truncated` | Does the encoding round-trip for all accepted parameters? | **no** |
| `workbench` | Are the corpus solvers sound, and complete but for what full lists (in rz also the hash test and the cap on solutions) drop? Does the probe write each row, the gate choose a right hasher, the allocator count the section, the series compare with what earlier lines tell? | yes; of a line cut short that may be wrong |

### The bounds, and why they are enough

* `rounds_k2`: K = 2 with one-bit segments: four leaves, three segments, and
  *every subset* of the possible merges as the next list. K = 2 is the least
  where a merge of merges happens, and with it a shared leaf, a canonical order
  above the leaves and a segment that no round collides on. Rows are those with
  at most one bit set. The theorems below have no such bound.
* `backends`: K = 2 with two-bit segments: eight leaves, runs of one to eight
  rows, lists that grow and lists that run empty (`DeadEndDigest`), up to several
  solutions. The hash functions are a family that neither empties nor fills all
  lists; all functions would be 2^48. The parallel backend runs on one function,
  with two workers in all orders: its merge is the arena's, and what the pool
  adds, the fill, does not depend on the function. The C++ solver runs on seven
  functions in which runs of two to four equal rows come in both rounds, in all
  their orders.
* `verifiers`: K = 3, two-bit segments, eight leaves: all three rounds,
  vectors with up to two nodes of the tree exchanged (each gives an order failure
  at its round), and one vector per reason to refuse before hashing; functions
  with at most two marked leaves give each collision failure at each round and a
  root that is not zero.
* `streams`: blocks of two bytes, counter words of three values, messages to
  seven bytes in any pieces, empty ones included: four blocks, exactly full
  buffers, and two carries of the counter, which real input reaches only past
  2^64 bytes. Two byte values are enough to tell stale bytes from zeros.
* `uniblake`: two kernels of which one is always or only sometimes wrong, two
  slots (a copy needs two), one piece of three bytes (longer than a block), two
  values of the environment. At each import the image may come back altered, in one
  way at a time; it does so while no other slot is in use, and a state set up from a
  changed image is not exported again. Word size six and
  messages to six bytes put the end of the battery's reach inside the bound.
  Slots are symmetric.
* `threads`: three threads, two calls each, one thread that forces either kernel.
  `UniBlakeThreads_proofs` has no such bound.
* `workbench`, rz and rk: K = 3 with three-bit words and 16 leaves, 200 functions. Three
  rounds are the least in which an array of one parity holds two rounds. Six slots, four
  remembered slots and two solutions; lists of four, eight buckets with two forks
  each per round and three nonces: on some functions each of these runs out, on
  others none does. `LayoutExact` is at the code's own parameters.
* `workbench`, cs: bytes of three bits, one to eight lists, three requests that the
  constructor refuses, 40 functions for each of the others; digests of one to four
  bytes, so that shifts carry between bytes and past the first.
* `workbench`, the rest: eight leaves in batches of 1, 3 and 4, classes 2, 3 and 5,
  so that batches end short and classes end apart, with one to three iterations;
  a self-test of eight keys in three classes with four lanes, candidates wrong by
  length, class, counter, lane or short group; two threads, three blocks of two sizes,
  words of 16 values, one reset; two benchmarks, two sets of samples (a least time of three digits, a
  deviation of two digits or of one), runs to five, of which the last writes nothing more and a cut
  one counts twice. Without cuts a run has up to four before it, three being the least of
  which one is a minority; or two are cut and one more runs. A line is cut
  between any fields, in its key, which leaves the other benchmark's, a foreign one or
  none, or in a number, which leaves it without its last digit or none.
* `codec`: all requests with `n` to 520 around each multiple of 8 and `k` to 70,
  and some `k` far beyond; rows for every accepted pair, so for every collision
  length from 8 to 25; encodings for every accepted pair with 2 to 16 indices,
  and with 128 at collision length 8, 25 and the one past it, which has to be
  refused. 128 indices are needed because length 25 occurs only with `k + 1` a
  multiple of 8. Indices count up, under two patterns, so that neighbours differ in low
  and high bits. Words of parameters have 16 bits instead of 32; the `k` far beyond are those about
  which the products of `n_bounds` wrap (`8191` stands for `2^29 - 1`, 65535 for the last
  `k` of all).

`CHECK_DEADLOCK FALSE` is set throughout: a call that has returned, or a caller
who makes no further call, stops, and the bounds on messages and calls stop the
others. `Joins` and `Returns` say what must not stop.

### Fairness

* `Backends`: `WF(Filling)`. A pool thread that has taken a chunk runs on, and an
  idle one takes the next: rayon's `for_each` returns only when all chunks are
  done. `Joins` needs nothing else; the merge itself is not assumed to go on.
* `Verifiers`: `WF(Next)`. One thread runs a call to its end.
* `HashStreams`: `WF(Loop)`, the body of update's loop, and not the caller.
* `WagnerRounds`, `UniBlake`, `UniBlakeThreads`, `CrossCheck` and `Workbench` assume
  none: what they state is safety.

### What was found

1. **Bucket backend** (`bucket_agree`). `solve/bucket.rs:94` groups adjacent rows
   of a bucket, and a bucket is keyed by the leading two bytes. Where a segment
   has three bytes (collision length above 16 bits), equal rows need not be
   adjacent and pairs are lost, although `solve/mod.rs:1` promises the same
   solution set. Everything it does return is still a solution.
2. **Import in a new process** (`uniblake_import`). `ub_blake2b_import` does not
   initialise the library, and `update` and `final` call through `g_active_fn`
   unchecked (`ub_core.c:275`): the use `uniblake.h:83` recommends ends in a null
   call when nothing else was called first.
3. **Publication** (`threads_reordered`). `UniBlake.md:434` promises race-free
   initialisation or install-before-publish; `ub_core.c:140-142` are plain
   stores. In program order (`threads`) they are enough; out of order they are
   not.
4. **Short trees** (`codec_truncated`). `lib.rs:650` rounds the encoded length
   down. With k = 1 or 2 the collision length is a multiple of 4 or 8, `2^k (ℓ+1)`
   is not a multiple of 8, and the last index is cut off and not decoded.
   `Params::new` accepts both, and `SPEC.md:225` promises the round trip.
5. **Bounds of a large k** (`codec`, which states it and passes). `lib.rs:94` says
   `n_bounds` is `None` for `k > 63`; the code has no such test and multiplies in 32
   bits. As long as 8 (k + 1) does not wrap the answer is `None` all the same. In a
   release build it is `Some((0, 0))` for k = 2^29 - 1 and `Some((8, 512))` for 2^29,
   with none of which `new` agrees, and for k = 2^32 - 1 it divides by zero.
6. **Snapshots changed within their ranges** (`uniblake`, which states it and passes).
   `uniblake.h:95` promises that a caller never silently misreads a blob.
   `ub_snapshot.c:97-100` tests that the digest length and the buffer fill are in
   range; one changed in its range, or a changed byte count, is imported with OK, and
   every digest of the state is then wrong.
7. **Lines cut short** (`workbench`, which states it and passes). `stats.rs:143` says
   that malformed lines of the series are skipped. `field_u128` reads the digits
   there are, so a line cut in the digits of `mad_ns` counts with the first of them; and as
   the next run writes on behind a cut line, one cut after its key counts with the
   figures of that run's first record.

The last three are stated by the properties as what does happen, so that the rest of
what is promised is checked and proved beside it.

That `codec` passes also answers a question the comment at `lib.rs:74-80` leaves
open: it justifies the bound of 25 bits by the width of the accumulator, but an
encoded index has one bit more, 26. With 7 bits left over that would be 33. It
fits because 26 and 8 are even, so at most 6 are left over; at length 26 (27 bits)
`NoBitLost` fails, as its mutant shows. `BitsKept` proves it for all parameters.

### What reading showed

These have no run: no document says otherwise, or the properties are stated so as
to leave them out.

* `ub_force_kernel` beside `ensure_init` can leave `g_active_id` and
  `g_active_fn` on different kernels for good, even in program order.
* `load_baseline` counts records of fewer than three repetitions,
  which `Verdict::Untracked` is documented to keep from being baselines, and
  `field_str` does not undo the escapes of `json_str`.
* rz hashes one block of leaves more than its list holds. rk searches nonces from 2,
  where the comment at `lib.rs:334` has 1; its `check_nk` accepts k of 8 and more, for
  which `hash_leaf` has no words, and widths for which the first fill count wraps. cs
  accepts k = 1 and returns every item, which its own verifier refuses.
* A reset of the allocator's counters while blocks are live makes a later free wrap
  the live count; the drivers free nothing older than the reset.
* `SolveArena` (C++) is said to have the output of `Solve`, which it has as a set; the tests sort
  before they compare.
* The generation probe absorbs m as 16 bits.

## 4. Proofs

The proofs hold for all values of the constants, from the assumptions
stated in the modules alone (`K` and `CollisionBits` positive, `Digests` any
functions from keys to rows; a solution is 2^k indices of
one bit more than the collision length, digests are bytes, the two parameters are words, a
word holds 25 · 512 and is a multiple of 64; a block of at least a byte, a counter word larger
than a block, messages shorter than the counter's range; no kernel is called
"null" or "auto"; a self-test with a key for each of its classes and each lane; all
blocks together fit in the address space; a sample is at least one number, the band a number,
what a cut leaves of a key is a string, and what a number loses is a divisor above zero;
a digest of the corpus solvers has a row of words for every leaf hashed).

**The data** (`Wagner_proofs`). Lemmas about constants alone, which the proofs of
solvers and verifiers share: powers of two, spans of a vector and their halves,
the XOR of disjoint sets of leaves (`XorOfUnion`, a parity count over finite
sets), trees, and one round on a list. `IsTree` is the rule below a node, `ConcatOfTrees` says that two
disjoint trees in order whose segments collide make one, `IsNode` that a row
stands for a node of a vector and `FoldIsNode` that folding two brothers gives
their parent. Of a round they say that `Kept` keeps exactly the elements of a
set, each once, that `StableOrder` is a permutation that brings equal keys together
(`StableOrderProperties`; every position counts those before it), and that the pairs
emitted are exactly the pairs of positions that `Emits` names, each once. `Kept`
takes the kept positions by their number: that these are numbered 1, 2, ... each
once is a pigeonhole argument (`KeptPlaces`). `GoodListNext` and
`CompleteNext` are the two halves of what a round does. It leaves the list *good*: no
two rows have one vector, and each row is the XOR of its own leaves, which make a tree.
And if the scan brings equal leading segments together (`Contiguous`) it leaves the list
*complete*: every node of every solution is in the list of its round, because its
two children are in the list before, collide, share no leaf, and are therefore met
as a pair and merged into it. A good list of the last round yields nothing but
solutions, a good and complete one all of them (`RootsAreSolutions`).

**Solvers are sound** (`WagnerRounds_proofs`). `TypeCorrect`, `RowsCorrect`,
`SolversValid`: every row of every round is the XOR of the rows of
its own 2^(round-1) distinct leaves with the collided segments cancelled, and its
leaves make a tree in canonical order, so whatever is returned is a solution by
the whole rule. The invariant is `TypeOK /\ RowsAreXors /\ RowsAreTrees /\
FoundValid`; the last alone is not inductive, since that a
returned row cancels in *collided* segments, and that the nodes below its root
collide and are ordered, is nowhere looked at and follows from how the row was
made (`MergeIsXor`, `MergeIsTree`). It covers any backend that
`ImplementsRounds`, also one that drops pairs, as the bucket backend does.

**Every backend keeps the promise, and returns all solutions** (`Backends_proofs`).
The invariant, `BackendInv`, has three parts. `ListInv` is about the list a backend
stands for, whatever holds it: it is good, complete if the backend is `Sorting`, and
what is returned are its roots. `FlatInv` is about the two buffers of the arena and the
parallel backend: stride, vector length and row count are those of the round and both
buffers are full; while the pool fills them every leaf is still to be taken, held by
a thread, or written at its place. `PtrInv` is about the history of the pointer
backend: lists are not empty, and their pointers good. The argument is one for all six: each of a
backend's actions is a step on its list (`ListStep`), leaf rows, a round in some
order that is a permutation (`Scans`), the selection of roots, or nothing; `ListInv` is preserved by
such steps alone. What differs is the way to it. The buffers are read back as the
list by division with remainder (`PackedRows`, `FlatMerge`); the vectors walked
through the pointers are those that merging builds (`PointerMerge`, which needs that
lists once pushed are never changed, `VectorsPrefix`); a scatter by leading bytes and
any order the C++ sort may take are shown to be scans (`BucketOrderScans`, `SortedOrderScans`).

From it follow `SortedSolutions` (what a call returns is the set of all solutions),
`NothingButSolutions`, `BackendsNoDuplicates`, `BackendsBuffersAgree`, `BackendsPointersSound` and the
two refinements: `BackendsImplementRounds`, for all six, so that what is proved of
`WagnerRounds` holds of each, and `BackendsSameAsReference`, for those in Rust.
`Sorting` is the one hypothesis of `SortedSolutions` and `BackendsSameAsReference`: it
excludes the bucket backend where a segment is wider than its two-byte key, and
nothing else. There both are false, as `bucket_agree` shows; with it `AllSolutions`
says the same without a hypothesis on the backend for every segment of at most 16
bits. All this holds for any `K`, segment width, hash functions and number of
workers.

**Verifiers decide the rule, and agree** (`Verifiers_proofs`). `VerifiersDecide`:
each of the three verifiers returns Ok exactly for the vectors that are `Valid`;
`ErrorsComeFirst` that an error names the first rule the vector breaks in the
reference's order, the checks before hashing (length, distinctness, range) included:
that rule fails and all earlier ones hold. `RowsFold` and `MovedOutOnce` are the other
invariants of the run, and `VerifiersAgree` is the refinement: the arena and the early-reject
verifier take the reference's steps on the reference's rows. The proof has three
parts. `EInv` is about the reference alone: while a call folds, the vector has
passed its screening, row j of a round stands for node j (`IsNode`), and every pair
behind the current one has collided and was in order (`Passed`), which is what
makes both answers exact. `ArenaInv` says how the flat buffers, their stride and the
index vectors moved out hold the reference's rows (`FlatWrite`: a row written at
its place leaves the others alone, by division with remainder); `EarlyInv` that the
slices read from the input are the vectors the reference builds, and that a row
whose leading segments are no longer stored is the reference's with those segments
zero (`Widened`, `WidenedFold`). Each step of the two is then a step of the
reference, so `EInv` carries over.

**The stream implements the hash object** (`HashStreams_proofs`).
`TypeCorrect`, `Streamed`, `Held` and `StreamIsObject`: `ub_update_with`, with its
loop a block at a time, and `ub_final_with` hand out the RFC digest of all bytes
absorbed, once. The invariant is `TypeOK`, `ChainIsMessage` (chain, buffer and
remaining input are the message, the counter's value that of the bytes taken),
`LoopHolds` (in the loop the buffer is empty and input remains; between calls
only an empty message leaves the buffer empty) and the bound on the message.
`IncCounterValue` is the carry: the two words hold the sum, for any word size.
`FinalDigest` compares the padded last block with the RFC's, where the block
count is a division.

**So does the Rust crate's stream** (same module). `StreamsHold` and
`StreamsAreObjects` state it of a program built with either. The invariant is
uniblake's for its stream and, for the crate's, that what was handed over so far
is the message, cut into chain, buffer and the input still to be read. The crate
takes every byte through its buffer and compresses a full one when the next byte
comes, where uniblake compresses blocks straight from its input; both end in the
same lemma, `FinalWithDigest`.

**The codec moves bits, and the cross-check decides** (`CrossCheck_proofs`).
`BitsKept`, `NeverPanics` and `OutputRegrouped` are about the two loops, for any
call of the `Shape` the tools make: groups of 8 to 26 bits in at most four bytes, any
input, any stale buffer. Seen as one stream of bits, `LoopInv` says of the state
between two iterations that g groups are moved, that the bits held are those read
and not yet given, fewer than a group (`Counts`), that the low bits of the
accumulator are the last bits read (`Holds`), and that the output so far is the
stream so far (`Written`). What makes it fit is in `CompressNumbers` and
`ExpandNumbers`: the bits held are a difference of multiples of 8 and of the
group's length, hence for a length of 26 even, never 7 before a group is loaded and
never 25 before a byte is read, so 32 bits suffice.

`CrossChecked` adds the tools. `CrossInv`: the call under way is the one the stage
names, and the file is the encoding of the indices or a damaged copy of it. Both
engines write the same bytes (`EncodeEnds`: `Encoded` is a definition without an
accumulator), and what fills whole bytes decodes to what was encoded
(`DecodeEnds`). Without the condition on whole bytes that is false, as
`codec_truncated` shows.

`BoundsAgree` needs number theory only: the recursion of `gcd` has a
solution, the greatest common divisor, and may be unfolded (`GcdUnfolds`), so `Step`
is the least common multiple of 8 and k + 1 (`CommonMultiples`), and the two bounds are its first multiple that
has segments of 8 bits and its last with 25 and one digest (`BoundsAreExact`). It holds as far as
8 (k + 1) stays below the word: from k = 63 on there is no such multiple, whether or not
25 (k + 1) wraps. At the two `k` where it first does not, and at the last `k` of the word, the
theorem gives what the wrapped products make of it.

**Threads are safe in program order** (`UniBlakeThreads_proofs`). `ThreadsNeverNull` and
`ThreadsOneKernel`, each under the hypothesis `InOrder`, for any number of threads,
kernels and calls. A thread's queue of stores is what makes the invariant:
`Published` says that wherever `g_initialized` is set, in memory or in a queue, a
function comes before it in the same place; `Prepared` that a thread past
`ensure_init` sees a function, in memory or in its own queue; `KernelsRead` that what it read
is a kernel. `Agreed` adds, while no kernel is forced, that there is only one to
read. Without `InOrder` the theorem is false, as `threads_reordered` shows.

**The gate tells** (`Workbench_proofs`, as are the next six). `GateHolds`: for
every batched hasher of the declared family of faults (wrong from a class or from a
counter on, in a lane, in a short group, in length; not in class and counter jointly, nor in
the prefix), digests are the scalar ones wherever the self-test has a key to
tell. The argument is in what passing it says: each class has a key among the first
ones, each counter its first key, a multiple of the classes, each lane a job of the
first group, and a group left short is at the end.

**The peak covers the section** (`PeakIsCovered`), for any threads, blocks and sizes.
The count and the peak are two atomics, so a thread may have added its block and not
yet have noted the new count when others add and subtract. What makes the peak right
is `Seen`: every set of blocks that were counted at once is covered by the peak, or by
a count that some call is about to note. Adding a block sees the sets with that block
by the addition's own count; noting a count moves it into the peak; a subtraction
leaves fewer sets to see. The bytes of a set of blocks are the number of its cells
(`BytesCount`), since the sum is taken by a fold.

**The probe writes its rows** (`RowsHold`), for every leaf count, class number, lane
count and m. `ProbeInv` says that what has been written is `Emitted` of the leaves
visited so far: the first leaves, in the batched and the single shape; in the
streamed one the classes that are through, and of the open class the leaves up to
where the stream stands, the place of a read being the leaf's number in its class.

**The series compares with what counts** (`EntriesAreEarlier`, `VerdictsAreRobust`), for
any benchmarks, samples, band and number of runs, wherever runs were cut. The
invariant is `StatsInv`, and of it `Paired`: to each figure that counts belongs a line
that parses and is read as that figure, to each such line a figure, and to different ones
different. It holds while a broken line is still written to for two reasons.
`Matches` says that what the open line has told is what the scan for the first field of
each name reads of it, which writing more keeps (`JoinedRead`), so that the
line parses from the write on that completes it (`CompleteReads`). And a line that parses is read alike
whatever follows on it (`ReadsOn`). load_baseline therefore reads
one line for each figure that counts (`LoadedIs`), in another order perhaps, and a
median depends on how many values there are below and above, which a bijection does not
change (`RankedMoves`). That a verdict is not owed to a minority is a count: values
that all lie on one side of the upper median are half of them at most
(`FewNear`).

**Slots are read where they were written** (`LayoutIsExact`). That the byte at a place of
a slot is a recursion over the rounds that dropped words before it; the recursion has
one solution, and in it the last bytes of a slot are the last of the hash, whatever
was dropped. The places themselves are numbers of the code's own parameters.

**Tuples stand for their leaves** (`TuplesAreSound`), for any hash functions, number and
width of words, list lengths and number of forks. That words are a group under XOR is
shown by induction on their bits, and `RowOf` adds over one list of leaves behind
another. `RkInv` says what a tuple of any round resolves to through the forks of the
rounds before (`AllStand`): 2^n leaves of the attempt whose rows XOR to zeros, the
bucket, and the blocks it carries. Two things make it inductive. References number
only what was kept, so what is dropped when a list or the forks are full shifts
nothing; and pushing the forks of a round leaves the resolution through those below
them as it was. In the round under way it must hold of the lists of both rounds at
once, and of the solutions of the last.

**Slots stand for their trees** (`BucketsAreSound`), for any hash functions, number and
width of words, rest bits, bucket sizes, list lengths and `MaxSols`. A packed tree holds
no leaves, only a bucket and two slot numbers of the round before, so what it stands for
is in the slots of all earlier rounds. `RzInv` therefore has a clause for each round at
every time (`RoundOk`): the rounds read already, whose counts are reset but whose slots
stay, the round being written, and those to come, which are empty. In each the slots
stand for leaves whose rows XOR to zeros, the bucket with the rest bits, and the hash;
no bucket has more than `NSlots` of them, whatever its count says; every tree is one
of those the blocks or buckets so far give (`Made`), and no two slots hold the same. The
fields of a tree come apart again because a slot number fits its field (`TreeFields`),
and writing round q changes no tree of a lower one because the two parities keep their
rounds apart (`TreesApart`, `RzPuts`). That no solution is kept twice needs the last
clause in every round: lists of different leaves tell the slots of a round apart
(`RoundsTell`), for the two halves of such a list are those of the two slots it was made
of (`MadeOf`), and a pair of slots is met once (`PairsOf`, `TreeIsNew`). That the halves are in
order is kept only of lists without a repeated leaf (`LeafList`): the code compares first
leaves, and puts equal ones in the order they came.

Not in the prover's reach, and left to TLC: liveness (`Joins`, `Returns`).

Only model-checked: uniblake's gate and snapshots (`DigestsRight`, `NeverMisread`), and that
the corpus solvers lose a solution only to a full list, rz also to its hash test and
past `MAXSOLS` (`OnlyFullListsLose`).

## 5. Not modelled, and why

* Kernels and the CPU probe: straight-line arithmetic. A kernel is right or wrong
  by assumption, and `Faults` says how.
* `ub_bench_force`, the benches' own loops, instrumentation: timing and printing.
* The C++ twins of the BLAKE2b, of `Solve` and of the verifiers: the same algorithms,
  line for line. What differs, the sort of `SolveArena` and the 64-bit accumulator of
  the encoding, is modelled.
* The cs solver in C++ and its variants: `KList` models the Rust port of the same
  algorithm. The variants keep its merges in other representations and are timed against
  it; of them only the arena of v4 (row slots freed and read again, index widths
  with a pool each) would add a question, and it is an experiment of its own.
* eq-bucket-variants: two C++ solvers that differ in how they scan a bucket, which
  `BucketSolver` asks of the engine.
* `verify_cost` of the probe, `req_profile`, `req_vecencode`, `RunRecord`, provenance, the RSS cross-check:
  they time, format and write.
* Snapshots damaged in the body, but for the byte count: chain, buffer and parameters
  are read as they come. The image has no checksum, so nothing in the code could notice.
* Vendored and third-party code, vectors, figures, scripts.

## 6. Plan

1. *Done*: the Wagner family, both seams, BLAKE2b streams, uniblake's process and
   threads, encoding, parameters and cross-check, the leaf hasher gate, the corpus
   (rz, rk, cs), the probe, the allocator and the series, the C++ arena solver;
   soundness of solvers, the three verifiers and their agreement, the refinement of
   both streams, threads in program order, the leaf hasher gate, the counting allocator,
   the probe, the series, the tuples and forks of rk, the buckets and the layout of rz,
   the encoding, the cross-check and the parameter bounds, and of all backends
   completeness, the refinements and the layout of their lists proved.
2. *Model*: the arena of cs v4 as a refinement of `KList` (free lists, widths,
   disjoint live ranges).
3. *Proofs*, in this order: uniblake's digests with restarts and copies; that rk and rz
   lose nothing while no list is full.
