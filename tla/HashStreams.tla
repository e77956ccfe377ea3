----------------------------- MODULE HashStreams -----------------------------
(***************************************************************************)
(* The two streaming BLAKE2b implementations a program may be built with,  *)
(* uniblake (whose variables these are) and the one bundled with the Rust  *)
(* crate.  A hash is done by one of them from its init to its digest.      *)
(***************************************************************************)
EXTENDS UniBlakeStream

VARIABLE impl  \* which of the two

Bundled == INSTANCE BundledStream

StreamsInit ==
  \/ impl = "uniblake" /\ Init
  \/ impl = "bundled" /\ Bundled!Init /\ pc = "ready"

StreamsNext ==
  /\ UNCHANGED impl
  /\ \/ impl = "uniblake" /\ Next
     \/ impl = "bundled" /\ Bundled!Next /\ UNCHANGED pc

\* What update does once it has its input; the caller may never call again.
Loop ==
  /\ UNCHANGED impl
  /\ \/ impl = "uniblake" /\ (NextBlock \/ StashRest)
     \/ impl = "bundled" /\ Bundled!Take /\ UNCHANGED pc

StreamsSpec ==
  StreamsInit /\ [][StreamsNext]_<<impl, vars>> /\ WF_<<impl, vars>>(Loop)

-----------------------------------------------------------------------------
\* The loop of either update takes in at least a byte a turn: update returns.
Returns == in # <<>> ~> in = <<>>

=============================================================================
