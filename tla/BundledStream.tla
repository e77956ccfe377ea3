--------------------------- MODULE BundledStream ---------------------------
(***************************************************************************)
(* The BLAKE2b bundled with Requihash: update copies into the buffer and   *)
(* compresses a full one only when another byte comes; finalize consumes   *)
(* the state.  It buffers differently from uniblake and promises the same. *)
(***************************************************************************)
EXTENDS UniBlakeState

CONSTANTS
  OutLens,    \* digest lengths asked for
  Personals,  \* personalizations
  Inputs,     \* byte strings handed to one update
  MaxMessage  \* bound: bytes of a message

VARIABLES
  S,       \* the state
  in,      \* what update has still to take in
  msg,     \* history: everything handed to update
  digests  \* what finalize returned

vars == <<S, in, msg, digests>>

Init ==
  /\ \E outlen \in OutLens, person \in Personals : S = InitWith(outlen, person)
  /\ in = <<>>
  /\ msg = <<>>
  /\ digests = <<>>

Consumed == digests # <<>>

Update(input) ==
  /\ in = <<>> /\ ~Consumed
  /\ Len(msg) + Len(input) <= MaxMessage
  /\ in' = input
  /\ msg' = msg \o input
  /\ UNCHANGED <<S, digests>>

\* Slip: a buffer that is just full is not flushed.
Flushed_Overfull(state) ==
  IF state.buflen <= BlockBytes THEN state
  ELSE [Compress(IncCounter(state, BlockBytes), state.buf, TRUE) EXCEPT !.buflen = 0]

Flushed(state) ==
  IF state.buflen < BlockBytes THEN state
  ELSE [Compress(IncCounter(state, BlockBytes), state.buf, TRUE) EXCEPT !.buflen = 0]

\* One turn of update's loop.
Take ==
  LET state == Flushed(S)
      take == IF Fill(state) < Len(in) THEN Fill(state) ELSE Len(in)
  IN  /\ in # <<>>
      /\ S' = Stash(state, SubSeq(in, 1, take))
      /\ in' = After(in, take)
      /\ UNCHANGED <<msg, digests>>

Finalize ==
  /\ in = <<>> /\ ~Consumed
  /\ digests' = <<Output(FinalWith(S, TRUE))>>
  /\ UNCHANGED <<S, in, msg>>

Next == (\E input \in Inputs : Update(input)) \/ Take \/ Finalize

Spec == Init /\ [][Next]_vars
=============================================================================
