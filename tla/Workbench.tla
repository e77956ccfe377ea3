----------------------------- MODULE Workbench -----------------------------
(***************************************************************************)
(* What stands around the engine: the solvers of SOLVER_CORPUS by which it *)
(* is compared, and the code that measures them and the engine.  They      *)
(* share nothing; a behaviour is one of them at work.                      *)
(***************************************************************************)
EXTENDS XorRows, Integers

CONSTANTS
  \* KList
  ByteBits, Points, ListDigests(_),
  \* RkTuples and RzBuckets, over rows of K + 1 words
  ListLength, ForkMultiplier, MaxNonce, RowDigests,
  RestBits, HashesPerBlake, NSlots, XFull, MaxSols, TailBits, BlockDigests,
  \* GenProbe
  Class, LeafCount, Degree, Iterations,
  \* CountingAlloc
  Thread, Measurer, SizeOf, Usize, MaxResets,
  \* LeafHasherGate
  OutputLen, BatteryKeys, BatteryK, Lanes, Candidates, Batches,
  \* Baseline
  Key, Samples, BandPct, TornKeys, Tens, MaxRuns

VARIABLES
  part,  \* "cs", "rk", "rz", "probe", "gate", "mem" or "stats"
  pc, digest, at, sols, full,
  point, i, depth, merged, stack, verdict,
  mode, nonce, tuples, next, forks, made, proof,
  r, slots, nslots, nsols,
  probe, class, reader, inputs, writes,
  cand, chosen, batch, out,
  current, peak, call, held, fresh, resets, settled, touched, blurred,
  tool, lines, open, told, baseline, records, done, runs, counted

csVars    == <<point, i, depth, merged, stack, verdict>>
rkVars    == <<mode, nonce, tuples, next, forks, made, proof>>
rzVars    == <<r, slots, nslots, nsols>>
probeVars == <<probe, class, reader, inputs, writes>>
gateVars  == <<cand, chosen, batch, out>>
memVars   == <<current, peak, call, held, fresh, resets, settled, touched, blurred>>
statsVars == <<tool, lines, open, told, baseline, records, done, runs, counted>>

vars ==
  <<part, pc, digest, at, sols, full,
    csVars, rkVars, rzVars, probeVars, gateVars, memVars, statsVars>>

Cs    == INSTANCE KList WITH Digests <- ListDigests
Rk    == INSTANCE RkTuples WITH Digests <- RowDigests
Rz    == INSTANCE RzBuckets WITH Digests <- BlockDigests
Probe == INSTANCE GenProbe
Gate  == INSTANCE LeafHasherGate
Mem   == INSTANCE CountingAlloc WITH Word <- Usize
Stats == INSTANCE Baseline

ASSUME PartsAssumption ==
  /\ Rk!PointAssumption
  /\ Rz!ShapeAssumption
  /\ Probe!ProbeAssumption
  /\ Gate!GateAssumption
  /\ Mem!AllocAssumption
  /\ Stats!BaselineAssumption

-----------------------------------------------------------------------------
(* The variables of the parts that are not at work.                        *)

NoCs ==
  /\ point = 0 /\ i = 0 /\ depth = 0
  /\ merged = << >> /\ stack = << >> /\ verdict = FALSE

NoRk ==
  /\ mode = "" /\ nonce = 0 /\ tuples = << >> /\ next = << >>
  /\ forks = << >> /\ made = << >> /\ proof = << >>

NoRz == r = 0 /\ slots = << >> /\ nslots = << >> /\ nsols = 0

NoProbe ==
  /\ probe = << >> /\ class = 0 /\ reader = 0 /\ inputs = << >> /\ writes = << >>

NoGate == cand = << >> /\ chosen = "" /\ batch = << >> /\ out = << >>

NoMem ==
  /\ current = 0 /\ peak = 0 /\ call = << >> /\ held = {} /\ fresh = {}
  /\ resets = 0 /\ settled = 0 /\ touched = 0 /\ blurred = FALSE

NoStats ==
  /\ tool = "" /\ lines = << >> /\ open = FALSE /\ told = << >> /\ baseline = {}
  /\ records = << >> /\ done = 0 /\ runs = 0 /\ counted = << >>

NoSolver == digest = << >> /\ sols = << >> /\ full = FALSE

Init ==
  \/ /\ part = "cs" /\ Cs!Init
     /\ at = 0 /\ full = FALSE /\ NoRk /\ NoRz /\ NoProbe /\ NoGate /\ NoMem /\ NoStats
  \/ part = "rk" /\ Rk!Init /\ NoCs /\ NoRz /\ NoProbe /\ NoGate /\ NoMem /\ NoStats
  \/ part = "rz" /\ Rz!Init /\ NoCs /\ NoRk /\ NoProbe /\ NoGate /\ NoMem /\ NoStats
  \/ /\ part = "probe" /\ Probe!Init
     /\ NoSolver /\ NoCs /\ NoRk /\ NoRz /\ NoGate /\ NoMem /\ NoStats
  \/ /\ part = "gate" /\ Gate!Init /\ at = 0
     /\ NoSolver /\ NoCs /\ NoRk /\ NoRz /\ NoProbe /\ NoMem /\ NoStats
  \/ /\ part = "mem" /\ Mem!Init /\ pc = "" /\ at = 0
     /\ NoSolver /\ NoCs /\ NoRk /\ NoRz /\ NoProbe /\ NoGate /\ NoStats
  \/ /\ part = "stats" /\ Stats!Init /\ at = 0
     /\ NoSolver /\ NoCs /\ NoRk /\ NoRz /\ NoProbe /\ NoGate /\ NoMem

Next ==
  /\ UNCHANGED part
  /\ \/ /\ part = "cs" /\ Cs!Next
        /\ UNCHANGED <<at, full, rkVars, rzVars, probeVars, gateVars, memVars, statsVars>>
     \/ /\ part = "rk" /\ Rk!Next
        /\ UNCHANGED <<csVars, rzVars, probeVars, gateVars, memVars, statsVars>>
     \/ /\ part = "rz" /\ Rz!Next
        /\ UNCHANGED <<csVars, rkVars, probeVars, gateVars, memVars, statsVars>>
     \/ /\ part = "probe" /\ Probe!Next
        /\ UNCHANGED <<digest, sols, full, csVars, rkVars, rzVars, gateVars, memVars, statsVars>>
     \/ /\ part = "gate" /\ Gate!Next
        /\ UNCHANGED <<digest, at, sols, full,
                       csVars, rkVars, rzVars, probeVars, memVars, statsVars>>
     \/ /\ part = "mem" /\ Mem!Next
        /\ UNCHANGED <<pc, digest, at, sols, full,
                       csVars, rkVars, rzVars, probeVars, gateVars, statsVars>>
     \/ /\ part = "stats" /\ Stats!Next
        /\ UNCHANGED <<digest, at, sols, full, csVars, rkVars, rzVars, probeVars, gateVars, memVars>>

Spec == Init /\ [][Next]_vars

-----------------------------------------------------------------------------
\* What Khovratovich's solver keeps in its lists stands for leaves: those its
\* references lead to through the forks, whatever was dropped.  The proof it returns
\* cancels, has the right length and no leaf twice, and passes its own test.
TuplesSound == part = "rk" => Rk!TuplesStand /\ Rk!ProofTests

\* What Tromp's solver keeps in its buckets stands for leaves: those its packed
\* trees lead to through the slots of all earlier rounds, whatever was not kept.  Its
\* solutions cancel, have the right length and order, no leaf twice, and differ.
BucketsSound == part = "rz" => Rz!SlotsStand /\ Rz!SolutionsSound

\* A solver with lists of fixed length loses a solution only if some list was full.
\* Tromp's may lose one besides where a pair cancels its last hash word too soon,
\* which it drops in any round, and those past the MAXSOLS it keeps.  The paper's,
\* whose lists have no bound, holds in them every vector that cancels so far, once,
\* and what it returns passes its own test.
OnlyFullListsLose ==
  /\ part = "cs" => Cs!StackIsCounter /\ Cs!SolvedVerifies
  /\ part = "rk" => Rk!NothingMissed
  /\ part = "rz" => Rz!NothingMissed

\* The bytes Tromp's solver reads of a slot are those of the digit it means.
LayoutExact == part = "rz" => Rz!LayoutExact

\* Every loop shape of the generation probe writes each row once, with its leaf's
\* digest, and its stubbed variants in the same order.
RowsExact == part = "probe" => Probe!RowsExact

\* A leaf hasher with a fault of the declared family is chosen only if its self-test
\* could not tell, and is right wherever it could.
GateSound == part = "gate" => Gate!GateSound

\* The peak the allocator reports is that of the section measured.
PeakCovers == part = "mem" => Mem!PeakCovers

\* A run is compared with the medians of what the lines of earlier runs have told,
\* cut lines included, of each name the first.
EntriesEarlier == part = "stats" => Stats!EntriesEarlier

\* A minority of the lines that count decides no verdict.
VerdictRobust == part = "stats" => Stats!VerdictRobust

=============================================================================
