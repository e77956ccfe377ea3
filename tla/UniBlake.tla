------------------------------ MODULE UniBlake ------------------------------
(***************************************************************************)
(* A process that uses uniblake: kernels behind an oracle gate, streaming  *)
(* states in the caller's memory, and snapshots that outlive the process   *)
(* and may come back damaged.  Calls are atomic; threads are in            *)
(* UniBlakeThreads.                                                        *)
(***************************************************************************)
EXTENDS UniBlakeState, Functions

CONSTANTS
  Kernel,      \* the kernels compiled in
  Default,     \* the one the CPU probe chooses
  Faults,      \* what may be wrong with the kernels: functions on Kernel
  Environment, \* values of UB_FORCE_IMPL
  Battery,     \* the byte strings of the self-test
  Slot,        \* the caller's ub_state buffers
  OutLens,     \* digest lengths asked for, 0 and too large among them
  Personals,   \* personalizations
  Inputs,      \* byte strings handed to one update
  MaxMessage,  \* bound: bytes of a message
  Unset        \* memory nobody has written

ASSUME DefaultAssumption == Default \in Kernel
ASSUME FaultsAssumption == Faults \subseteq [Kernel -> {"none", "wrong", "high"}]

VARIABLES
  fault,   \* what is wrong with each kernel
  env,     \* UB_FORCE_IMPL
  proc,    \* g_active_fn, g_active_id, g_initialized
  live,    \* the states, by slot
  meant,   \* history: what each state should be the hash of
  image,   \* the exported snapshot
  imageOf, \* history: what the snapshot should be the hash of
  answer,  \* what final or ub_blake2b just returned, and of what
  verdict, \* what import just returned, and history: what the image had suffered
  crashed  \* the process called through a null pointer

vars == <<fault, env, proc, live, meant, image, imageOf, answer, verdict, crashed>>

-----------------------------------------------------------------------------
(* Kernels and the gate.                                                   *)

\* A faulty kernel is wrong on every block, or only past the low counter word.
Errs(k, t) == fault[k] = "wrong" \/ (fault[k] = "high" /\ t[2] # 0)

\* The compressions of `after' that `before' lacks were done by k.
DoneBy(k, before, after) ==
  [after EXCEPT !.chain =
     [i \in DOMAIN @ |->
        IF i > Len(before.chain) /\ Errs(k, @[i].t)
        THEN [@[i] EXCEPT !.right = FALSE] ELSE @[i]]]

Updated(k, S, data) == DoneBy(k, S, UpdateWith(S, data, TRUE))

Finalized(k, S) == DoneBy(k, S, FinalWith(S, TRUE))

\* ub_kernel_matches_oracle: full-length digests of the battery.
MatchesOracle(k) ==
  \A data \in Battery, personal \in Personals :
    LET start == InitWith(OutBytes, personal)
    IN  Output(Finalized(k, Updated(k, start, data))) =
          Digest(Param(OutBytes, personal), data)

SelfTest == \A k \in Kernel : MatchesOracle(k)

Chosen == IF env \in Kernel THEN env ELSE Default

NewProcess == [fn |-> "null", id |-> "auto", initialized |-> FALSE]

Select(k) == [fn |-> k, id |-> k, initialized |-> TRUE]

EnsureInitFails == ~proc.initialized /\ ~SelfTest

\* The statics after ensure_init.
EnsureInit ==
  IF proc.initialized \/ ~SelfTest THEN proc ELSE Select(Chosen)

-----------------------------------------------------------------------------
Init ==
  /\ fault \in Faults
  /\ env \in Environment
  /\ proc = NewProcess
  /\ live = [s \in Slot |-> Unset]
  /\ meant = [s \in Slot |-> Unset]
  /\ image = Unset
  /\ imageOf = Unset
  /\ answer = Unset
  /\ verdict = Unset
  /\ crashed = FALSE

\* A call returns without a digest or an import code.
Returns == answer' = Unset /\ verdict' = Unset /\ UNCHANGED <<fault, env, crashed>>

Set(s, state, means) ==
  /\ live' = [live EXCEPT ![s] = state]
  /\ meant' = [meant EXCEPT ![s] = means]

ActiveKernel ==
  /\ ~crashed
  /\ proc' = EnsureInit
  /\ Returns
  /\ UNCHANGED <<live, meant, image, imageOf>>

\* Slip: a forced kernel is taken on trust.
ForceKernel_Ungated(k) ==
  /\ ~crashed
  /\ proc' = IF k \in Kernel THEN Select(k) ELSE proc
  /\ Returns
  /\ UNCHANGED <<live, meant, image, imageOf>>

\* Refused for a kernel that is not compiled in or fails the battery.
ForceKernel(k) ==
  /\ ~crashed
  /\ proc' = IF k \in Kernel /\ MatchesOracle(k) THEN Select(k) ELSE proc
  /\ Returns
  /\ UNCHANGED <<live, meant, image, imageOf>>

\* What a state should be the hash of, and whether it, or the image it was
\* imported from, is still as the library left it.
Meaning(outlen, personal, msg) ==
  [param |-> Param(outlen, personal), msg |-> msg, sound |-> TRUE]

InitRefused(outlen) == EnsureInitFails \/ outlen \notin 1 .. OutBytes

\* A refused length still leaves the library initialized.
InitPersonal(s, outlen, personal) ==
  /\ ~crashed
  /\ proc' = EnsureInit
  /\ IF InitRefused(outlen)
     THEN UNCHANGED <<live, meant>>
     ELSE Set(s, InitWith(outlen, personal),
              Meaning(outlen, personal, <<>>))
  /\ Returns
  /\ UNCHANGED <<image, imageOf>>

\* The kernel is called through the pointer, whoever set the state up.
Crash ==
  /\ crashed' = TRUE
  /\ answer' = Unset /\ verdict' = Unset
  /\ UNCHANGED <<fault, env, proc, live, meant, image, imageOf>>

Update(s, data) ==
  /\ ~crashed /\ live[s] # Unset
  /\ Len(meant[s].msg) + Len(data) <= MaxMessage
  /\ IF proc.fn = "null" /\ Overfills(live[s], data)
     THEN Crash
     ELSE /\ Set(s, IF proc.fn = "null" THEN UpdateWith(live[s], data, TRUE)
                                        ELSE Updated(proc.fn, live[s], data),
                 [meant[s] EXCEPT !.msg = @ \o data])
          /\ Returns
          /\ UNCHANGED <<proc, image, imageOf>>

\* A digest handed out: its bytes, how many, and what it should be of.
Answer(S, means) == [digest |-> Output(S), length |-> S.outlen, of |-> means]

\* The caller's buffer has the length it asked for, or the largest there is.
Final(s) ==
  /\ ~crashed /\ live[s] # Unset
  /\ \E outcap \in {meant[s].param.outlen, OutBytes} :
       \/ /\ FinalRefused(live[s], outcap)
          /\ Returns
          /\ UNCHANGED <<proc, live, meant, image, imageOf>>
       \/ /\ ~FinalRefused(live[s], outcap)
          /\ proc.fn = "null"
          /\ Crash
       \/ /\ ~FinalRefused(live[s], outcap)
          /\ proc.fn # "null"
          /\ live' = [live EXCEPT ![s] = Finalized(proc.fn, @)]
          /\ answer' = Answer(live'[s], meant[s])
          /\ verdict' = Unset
          /\ UNCHANGED <<fault, env, proc, meant, image, imageOf, crashed>>

Copy(dst, src) ==
  /\ ~crashed /\ live[src] # Unset
  /\ Set(dst, live[src], meant[src])
  /\ Returns
  /\ UNCHANGED <<proc, image, imageOf>>

\* ub_blake2b: a state on the stack, through all three calls.
OneShot(data, outlen, personal) ==
  /\ ~crashed
  /\ proc' = EnsureInit
  /\ answer' = IF InitRefused(outlen) THEN Unset
               ELSE LET start == InitWith(outlen, personal)
                        done == Finalized(proc'.fn, Updated(proc'.fn, start, data))
                    IN  Answer(done, Meaning(outlen, personal, data))
  /\ verdict' = Unset
  /\ UNCHANGED <<fault, env, live, meant, image, imageOf, crashed>>

-----------------------------------------------------------------------------
(* Snapshots.                                                              *)

\* The wire image: a header of single bytes, then the body in fixed width.
Wire(S) ==
  [cut |-> "whole", magic |-> "UBS1", version |-> 1, family |-> "BLAKE2b",
   outlen |-> S.outlen, buflen |-> S.buflen,
   body |-> [param |-> S.param, chain |-> S.chain, t |-> S.t, f |-> S.f, buf |-> S.buf]]

\* Bound: a state that was changed is not exported again.
Export(s) ==
  /\ ~crashed /\ live[s] # Unset /\ meant[s].sound
  /\ image' = Wire(live[s])
  /\ imageOf' = meant[s]
  /\ Returns
  /\ UNCHANGED <<proc, live, meant>>

\* Slip: the length is checked before the header is read.
ImportCode_LengthFirst(w) ==
  IF w.cut # "whole" THEN "ETRUNCATED"
  ELSE IF w.magic # "UBS1" THEN "EMAGIC"
  ELSE IF w.family # "BLAKE2b" THEN "EFAMILY"
  ELSE IF w.version # 1 THEN "EVERSION"
  ELSE IF w.outlen \notin 1 .. OutBytes \/ w.buflen > BlockBytes THEN "ECORRUPT"
  ELSE "OK"

\* The first check that fails gives the code.
ImportCode(w) ==
  IF w.cut = "stub" THEN "ETRUNCATED"
  ELSE IF w.magic # "UBS1" THEN "EMAGIC"
  ELSE IF w.family # "BLAKE2b" THEN "EFAMILY"
  ELSE IF w.version # 1 THEN "EVERSION"
  ELSE IF w.cut = "header" THEN "ETRUNCATED"
  ELSE IF w.outlen \notin 1 .. OutBytes \/ w.buflen > BlockBytes THEN "ECORRUPT"
  ELSE "OK"

\* Every field of the state comes from the image.
Unwire(w) ==
  [param |-> w.body.param, chain |-> w.body.chain, t |-> w.body.t, f |-> w.body.f,
   buf |-> w.body.buf, buflen |-> w.buflen, outlen |-> w.outlen]

\* What may come back instead of the image: a piece of it, what another program,
\* hash or version wrote, which may be shorter, a length out of range, or another
\* digest length, fill or byte count in its range.
Happenings == {"none", "truncated", "foreign", "family", "version", "length", "changed"}

Altered(w, happening) ==
  CASE happening = "none" -> {w}
    [] happening = "truncated" -> {[w EXCEPT !.cut = cut] : cut \in {"header", "stub"}}
    [] happening = "foreign" ->
         {[w EXCEPT !.magic = "other", !.cut = cut] : cut \in {"whole", "header"}}
    [] happening = "family" ->
         {[w EXCEPT !.family = "BLAKE3", !.cut = cut] : cut \in {"whole", "header"}}
    [] happening = "version" ->
         {[w EXCEPT !.version = v, !.cut = cut] : v \in {0, 2}, cut \in {"whole", "header"}}
    [] happening = "length" ->
         {[w EXCEPT !.outlen = n] : n \in {0, OutBytes + 1}}
           \union {[w EXCEPT !.buflen = BlockBytes + 1]}
    [] happening = "changed" ->
         {[w EXCEPT !.outlen = n] : n \in (1 .. OutBytes) \ {w.outlen}}
           \union {[w EXCEPT !.buflen = n] : n \in (0 .. BlockBytes) \ {w.buflen}}
           \union {[w EXCEPT !.body.t[1] = (@ + 1) % WordValues]}

\* The store hands back the image, or it altered.  A refused image leaves the
\* state as it was.  Bound: an altered image is met before another state is set up.
Import(s, happening) ==
  /\ ~crashed /\ image # Unset
  /\ happening # "none" => \A other \in Slot \ {s} : live[other] = Unset
  /\ \E w \in Altered(image, happening) :
       /\ verdict' = [code |-> ImportCode(w), after |-> happening]
       /\ IF ImportCode(w) = "OK"
          THEN Set(s, Unwire(w), [imageOf EXCEPT !.sound = happening # "changed"])
          ELSE UNCHANGED <<live, meant>>
  /\ answer' = Unset
  /\ UNCHANGED <<fault, env, proc, image, imageOf, crashed>>

\* The process ends, by a crash or otherwise, and another starts: only the
\* image is left.
Restart ==
  /\ proc' = NewProcess
  /\ live' = [s \in Slot |-> Unset]
  /\ meant' = [s \in Slot |-> Unset]
  /\ answer' = Unset /\ verdict' = Unset
  /\ crashed' = FALSE
  /\ env' \in Environment
  /\ UNCHANGED <<fault, image, imageOf>>

Next ==
  \/ ActiveKernel
  \/ \E k \in Kernel \union {"absent"} : ForceKernel(k)
  \/ \E s \in Slot, outlen \in OutLens, personal \in Personals :
       InitPersonal(s, outlen, personal)
  \/ \E s \in Slot, data \in Inputs : Update(s, data)
  \/ \E s \in Slot : Final(s)
  \/ \E dst \in Slot, src \in Slot : Copy(dst, src)
  \/ \E data \in Inputs, outlen \in OutLens, personal \in Personals :
       OneShot(data, outlen, personal)
  \/ \E s \in Slot : Export(s)
  \/ \E s \in Slot, happening \in Happenings : Import(s, happening)
  \/ Restart

Spec == Init /\ [][Next]_vars

-----------------------------------------------------------------------------
\* The digests handed out are the RFC digests of what the caller absorbed, for
\* the length and personalization it asked for, through copies, snapshots, changes
\* of kernel and of process: all of them, and only those of states that no change
\* import let pass went into; such a change never goes without effect.  The gate
\* catches a kernel that is wrong on the battery; one that is wrong past the low
\* counter word passes it.
DigestsRight ==
  /\ answer # Unset
  /\ Len(answer.of.msg) < WordValues \/ "high" \notin Range(fault)
  =>
    answer.of.sound <=>
      /\ answer.digest = Digest(answer.of.param, answer.of.msg)
      /\ answer.length = answer.of.param.outlen

\* An image is imported as it was exported, or changed within the ranges of its
\* fields, which nothing in it reveals; every other is refused, and one of another
\* family, or of another version of ours, as such even when it is cut short.
NeverMisread ==
  verdict # Unset =>
    /\ verdict.code = "OK" <=> verdict.after \in {"none", "changed"}
    /\ verdict.after = "family" => verdict.code = "EFAMILY"
    /\ verdict.after = "version" => verdict.code = "EVERSION"

\* Importing an exported state in any process, a fresh one included, leaves a
\* state that final and update can work on.
ImportUsable == ~crashed
=============================================================================
