-------------------------- MODULE UniBlakeThreads --------------------------
(***************************************************************************)
(* Threads that hash at the same time, each with a ub_state of its own.    *)
(* What they share is the three statics of ub_core.c, plain words that     *)
(* ensure_init and ub_force_kernel write one after the other.  The kernels *)
(* compiled in have passed their battery, and hashing is reduced to the    *)
(* calls through the pointer.                                              *)
(***************************************************************************)
EXTENDS Naturals, Sequences, FiniteSets

CONSTANTS
  Thread,    \* the threads
  Kernel,    \* the kernels compiled in
  Chosen,    \* what UB_FORCE_IMPL or the probe selects
  Forcing,   \* the threads that select a kernel by ub_force_kernel
  InOrder,   \* whether plain stores become visible in the order written
  MaxCalls   \* bound: calls of a thread

ASSUME ChosenAssumption == Chosen \in Kernel
ASSUME KernelAssumption == Kernel \cap {"null", "auto"} = {}
ASSUME ForcingAssumption == Forcing \subseteq Thread

VARIABLES
  g,       \* the statics, as every thread reads them
  stores,  \* by thread: stores not yet visible, in program order
  pc,      \* by thread: where it is
  calls,   \* by thread: calls begun
  called,  \* by thread: the kernels its compressions ran
  told,    \* by thread: the kernels ub_active_kernel named
  forced   \* history: ub_force_kernel has been called

vars == <<g, stores, pc, calls, called, told, forced>>

Init ==
  /\ g = [fn |-> "null", id |-> "auto", initialized |-> FALSE]
  /\ stores = [t \in Thread |-> <<>>]
  /\ pc = [t \in Thread |-> "idle"]
  /\ calls = [t \in Thread |-> 0]
  /\ called = [t \in Thread |-> {}]
  /\ told = [t \in Thread |-> {}]
  /\ forced = FALSE

Goto(t, where) == pc' = [pc EXCEPT ![t] = where]

Store(name, value) == [name |-> name, value |-> value]

\* A thread sees its own stores before the others do.
Read(t, name) ==
  LET mine == {i \in 1 .. Len(stores[t]) : stores[t][i].name = name}
  IN  IF mine = {} THEN g[name]
      ELSE stores[t][CHOOSE i \in mine : \A j \in mine : j <= i].value

\* Slip: the process is published as initialized before the kernel is in place.
Install_PublishFirst(k) ==
  <<Store("initialized", TRUE), Store("fn", k), Store("id", k)>>

\* The three assignments that end ensure_init and ub_force_kernel.
Install(k) ==
  <<Store("fn", k), Store("id", k), Store("initialized", TRUE)>>

\* Slip: a thread probes the core it runs on, and the cores differ.
Probe_PerCore(t) ==
  LET first == CHOOSE u \in Thread : TRUE
  IN  CHOOSE k \in Kernel : (k = Chosen) = (t = first)

\* The environment and the win-list are the same for every thread.
Probe(t) == Chosen

Begin(t) == calls[t] < MaxCalls /\ calls' = [calls EXCEPT ![t] = @ + 1]

\* ub_blake2b_init_personal or ub_active_kernel reads g_initialized.
EnsureInit(t) ==
  /\ pc[t] = "idle"
  /\ Begin(t)
  /\ Goto(t, IF Read(t, "initialized") THEN "ready" ELSE "selftest")
  /\ UNCHANGED <<g, stores, called, told, forced>>

\* The battery runs on locals; then the statics are written.
Gate(t) ==
  /\ pc[t] = "selftest"
  /\ stores' = [stores EXCEPT ![t] = @ \o Install(Probe(t))]
  /\ Goto(t, "ready")
  /\ UNCHANGED <<g, calls, called, told, forced>>

ForceKernel(t, k) ==
  /\ pc[t] = "idle" /\ t \in Forcing
  /\ Begin(t)
  /\ stores' = [stores EXCEPT ![t] = @ \o Install(k)]
  /\ forced' = TRUE
  /\ UNCHANGED <<g, pc, called, told>>

\* ub_active_kernel returns g_active_id.
ActiveKernel(t) ==
  /\ pc[t] = "ready"
  /\ told' = [told EXCEPT ![t] = @ \union {Read(t, "id")}]
  /\ Goto(t, "idle")
  /\ UNCHANGED <<g, stores, calls, called, forced>>

CallKernel(t) == called' = [called EXCEPT ![t] = @ \union {Read(t, "fn")}]

\* An update that overfills the buffer calls through g_active_fn; others do not.
Update(t) ==
  /\ pc[t] = "ready"
  /\ CallKernel(t) \/ UNCHANGED called
  /\ Goto(t, "hashing")
  /\ UNCHANGED <<g, stores, calls, told, forced>>

\* final reads the pointer again.
Final(t) ==
  /\ pc[t] = "hashing"
  /\ CallKernel(t)
  /\ Goto(t, "idle")
  /\ UNCHANGED <<g, stores, calls, told, forced>>

\* A store reaches the other threads: the oldest, or any store but one to a word
\* an older store is to, when plain stores may be reordered.
Visible(t, i) ==
  /\ i \in 1 .. Len(stores[t])
  /\ IF InOrder THEN i = 1
     ELSE \A j \in 1 .. i - 1 : stores[t][j].name # stores[t][i].name
  /\ g' = [g EXCEPT ![stores[t][i].name] = stores[t][i].value]
  /\ stores' = [stores EXCEPT ![t] = SubSeq(@, 1, i - 1) \o SubSeq(@, i + 1, Len(@))]
  /\ UNCHANGED <<pc, calls, called, told, forced>>

Next ==
  \E t \in Thread :
    \/ EnsureInit(t) \/ Gate(t) \/ ActiveKernel(t) \/ Update(t) \/ Final(t)
    \/ \E k \in Kernel : ForceKernel(t, k)
    \/ \E i \in 1 .. 3 * MaxCalls : Visible(t, i)

Spec == Init /\ [][Next]_vars

-----------------------------------------------------------------------------
\* No thread calls through g_active_fn before a kernel is in it.
NeverNull == \A t \in Thread : "null" \notin called[t]

\* Until somebody calls ub_force_kernel, threads that race through ensure_init
\* install the same kernel: it never changes under a running hash, and it is
\* the one ub_active_kernel names to any thread.
OneKernel ==
  ~forced =>
    Cardinality(UNION {called[t] \union told[t] : t \in Thread}) <= 1

=============================================================================
