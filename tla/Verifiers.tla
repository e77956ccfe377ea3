------------------------------ MODULE Verifiers ------------------------------
(***************************************************************************)
(* The verifier seam (verify/mod.rs): one engine and a submitted vector,   *)
(* checked by any of the three verifiers.                                  *)
(***************************************************************************)
EXTENDS Wagner

CONSTANTS
  Digests,  \* the hash functions considered
  Inputs    \* the index vectors submitted

ASSUME DigestsAssumption == Digests \subseteq [Key -> Row]
ASSUME InputsAssumption  == Inputs \subseteq Seq(Nat)

VARIABLES
  verifier,  \* the verifier called
  digest, indices, pc, round, verdict,
  i, x, xc,
  stride, nrows,
  hashes, idx, r, w, out_hashes, out_idx,
  level, next, span, a

common   == <<digest, indices, pc, round, verdict>>
treeVars == <<i, x, xc>>
rowVars  == <<stride, nrows>>
flatVars == <<hashes, idx, r, w, out_hashes, out_idx>>
spanVars == <<level, next, span, a>>

vars == <<verifier, common, treeVars, rowVars, flatVars, spanVars>>

Reference == INSTANCE Verifier
Arena     == INSTANCE ArenaVerifier
Early     == INSTANCE EarlyVerifier

-----------------------------------------------------------------------------
(* The locals of the verifiers that are not called stay empty.             *)

NoTree == i = 1 /\ x = << >> /\ xc = << >>
NoRows == stride = 0 /\ nrows = 0
NoFlat == /\ hashes = << >> /\ idx = << >> /\ out_hashes = << >> /\ out_idx = << >>
          /\ r = 0 /\ w = 0
NoSpan == level = << >> /\ next = << >> /\ span = 0 /\ a = 0

Init ==
  \/ verifier = "reference" /\ Reference!Init /\ NoRows /\ NoFlat /\ NoSpan
  \/ verifier = "arena"     /\ Arena!Init     /\ NoTree /\ NoSpan
  \/ verifier = "early"     /\ Early!Init     /\ NoTree /\ NoFlat

Next ==
  /\ UNCHANGED verifier
  /\ \/ verifier = "reference" /\ Reference!Next /\ UNCHANGED <<rowVars, flatVars, spanVars>>
     \/ verifier = "arena"     /\ Arena!Next     /\ UNCHANGED <<treeVars, spanVars>>
     \/ verifier = "early"     /\ Early!Next     /\ UNCHANGED <<treeVars, flatVars>>

\* One sequential call: the caller runs it to its return.
Spec == Init /\ [][Next]_vars /\ WF_vars(Next)

-----------------------------------------------------------------------------
(* What the verifier called stands for, in the reference verifier's terms: *)
(* its cursor, the rows of the round and the rows built for the next one.  *)

StandsFor ==
  CASE verifier = "arena" ->
         [i |-> r + 1,
          x |-> Arena!Unpack(hashes, stride, nrows, indices, round - 1),
          xc |-> Arena!Unpack(out_hashes, stride - 1, w, indices, round)]
    [] verifier = "early" ->
         [i |-> a + 1,
          x |-> Early!Explicit(level, stride, span),
          xc |-> Early!Explicit(next, stride - 1, 2 * span)]
    [] OTHER -> [i |-> i, x |-> x, xc |-> xc]

Expected == INSTANCE Verifier WITH
  i <- StandsFor.i, x <- StandsFor.x, xc <- StandsFor.xc

-----------------------------------------------------------------------------
\* Every call is, step for step, a call of the reference verifier with the same
\* verdict: the rows the other two shorten lose no segment that still matters,
\* and the input slices of the early one stand for the vectors it never builds.
SameAsReference == Expected!Spec

\* Consensus contract of verify/mod.rs: a call returns Ok exactly for the
\* solutions, where a solution is stated on the leaves without any fold.
OkIffValid == Expected!OkIffValid

\* Whichever error is returned names the first rule the vector breaks, in the
\* order length, distinctness, range, then round by round and pair by pair
\* collision before ordering, and the root last: the early returns of all three.
ErrorIsFirst == Expected!ErrorIsFirst

\* What makes the code's unchecked x[i + 1] and its final assert safe: every
\* round starts with 2^(K - round + 1) rows, so pairs never straddle the end,
\* and row j of a round is the XOR and the concatenation of its span.
FoldShape == Expected!FoldShape

\* A moved-out index vector is never read again: what the arena verifier has yet
\* to look at is whole, and what it has absorbed is empty.
TakenOnce == verifier = "arena" => Arena!TakenOnce

\* Every call returns.
Returns == <>(pc = "done")

=============================================================================
