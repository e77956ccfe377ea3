--------------------------- MODULE CountingAlloc ---------------------------
(***************************************************************************)
(* The counting allocator (reqbench/src/mem.rs, and its copy in            *)
(* req_memcheck.rs): two atomics beside the system allocator, which any    *)
(* thread of the process updates, and a reset by the measuring thread      *)
(* while blocks are live.                                                  *)
(***************************************************************************)
EXTENDS Integers, FiniteSets, FiniteSetsExt

CONSTANTS
  Thread,    \* the threads of the process
  Measurer,  \* the thread that resets and reads
  SizeOf,    \* the blocks of the system allocator, with their sizes
  Word,      \* values of a usize
  MaxResets  \* bound on resets

Block == DOMAIN SizeOf

Bytes(B) == MapThenSumSet(LAMBDA b : SizeOf[b], B)

\* The blocks of a process fit in its address space together.
AllocAssumption ==
  /\ Measurer \in Thread
  /\ IsFiniteSet(Block) /\ \A b \in Block : SizeOf[b] \in Nat
  /\ Word \in Nat /\ Bytes(Block) < Word

VARIABLES
  current, peak,
  call,     \* the call each thread is in
  held,     \* blocks the system has handed out, until they are uncounted
  fresh,    \* blocks the current count includes: those allocated since the reset
  resets,
  \* What the peak is compared with, since the last reset:
  settled,  \* the most bytes in blocks whose alloc has returned
  touched,  \* the most bytes in blocks the system or the count still had
  blurred   \* the reset overlapped a call, or a block older than it was freed

vars == <<current, peak, call, held, fresh, resets, settled, touched, blurred>>

-----------------------------------------------------------------------------
NoCall == [op |-> "none"]

InCall(op, b) == \E t \in Thread : call[t].op = op /\ call[t].block = b

\* Blocks that their owner can use, and blocks not yet both freed and uncounted.
Returned == {b \in fresh : ~\E op \in {"add", "max", "free", "sub"} : InCall(op, b)}

Init ==
  /\ current = 0 /\ peak = 0
  /\ call = [t \in Thread |-> NoCall]
  /\ held = {}
  /\ fresh = {}
  /\ resets = 0
  /\ settled = 0 /\ touched = 0
  /\ blurred = FALSE

\* System.alloc; a null answer is not counted and changes nothing.
Alloc(t) ==
  /\ call[t] = NoCall
  /\ \E b \in Block \ held :
       /\ held' = held \cup {b}
       /\ fresh' = fresh \cup {b}
       /\ call' = [call EXCEPT ![t] = [op |-> "add", block |-> b]]
       /\ touched' = Max({touched, Bytes(fresh) + SizeOf[b]})
  /\ UNCHANGED <<current, peak, resets, settled, blurred>>

\* Slip: the peak is taken of the count before the block.
CountOf_Before(t) == current

CountOf(t) == current + SizeOf[call[t].block]

AddCurrent(t) ==
  /\ call[t].op = "add"
  /\ current' = (current + SizeOf[call[t].block]) % Word
  /\ call' = [call EXCEPT ![t] = [op |-> "max", block |-> @.block, cur |-> CountOf(t) % Word]]
  /\ UNCHANGED <<peak, held, fresh, resets, settled, touched, blurred>>

MaxPeak(t) ==
  /\ call[t].op = "max"
  /\ peak' = Max({peak, call[t].cur})
  /\ call' = [call EXCEPT ![t] = NoCall]
  /\ settled' = Max({settled, Bytes(Returned \cup ({call[t].block} \cap fresh))})
  /\ UNCHANGED <<current, held, fresh, resets, touched, blurred>>

\* dealloc of a block some thread owns: first the system, then the count.
Dealloc(t) ==
  /\ call[t] = NoCall
  /\ \E b \in held :
       /\ ~\E op \in {"add", "max", "sub"} : InCall(op, b)
       /\ call' = [call EXCEPT ![t] = [op |-> "sub", block |-> b]]
       /\ blurred' = (blurred \/ b \notin fresh)
  /\ UNCHANGED <<current, peak, held, fresh, resets, settled, touched>>

SubCurrent(t) ==
  /\ call[t].op = "sub"
  /\ LET b == call[t].block IN
       /\ current' = (current - SizeOf[b]) % Word
       /\ held' = held \ {b}
       /\ fresh' = fresh \ {b}
  /\ call' = [call EXCEPT ![t] = NoCall]
  /\ UNCHANGED <<peak, resets, settled, touched, blurred>>

\* The first store of reset, and the second.
ResetCurrent ==
  /\ call[Measurer] = NoCall
  /\ resets < MaxResets
  /\ resets' = resets + 1
  /\ current' = 0
  /\ call' = [call EXCEPT ![Measurer] = [op |-> "reset"]]
  /\ fresh' = {}
  /\ settled' = 0 /\ touched' = 0
  /\ blurred' = (\E t \in Thread \ {Measurer} : call[t] # NoCall)
  /\ UNCHANGED <<peak, held>>

ResetPeak ==
  /\ call[Measurer].op = "reset"
  /\ peak' = 0
  /\ call' = [call EXCEPT ![Measurer] = NoCall]
  /\ blurred' = (blurred \/ touched > 0 \/ \E t \in Thread \ {Measurer} : call[t] # NoCall)
  /\ UNCHANGED <<current, held, fresh, resets, settled, touched>>

Next ==
  \/ \E t \in Thread : Alloc(t) \/ AddCurrent(t) \/ MaxPeak(t) \/ Dealloc(t) \/ SubCurrent(t)
  \/ ResetCurrent \/ ResetPeak

Spec == Init /\ [][Next]_vars

-----------------------------------------------------------------------------
\* As long as the last reset met no call halfway and no block older than it has
\* been freed, the peak covers what was ever in use at once since the reset, and
\* claims no more than was ever allocated or still counted at once, however the
\* threads' updates of the two counters interleave.
PeakCovers ==
  ~blurred /\ call[Measurer].op # "reset" => settled <= peak /\ peak <= touched

=============================================================================
