---------------------------- MODULE HashObject ----------------------------
(***************************************************************************)
(* What a streaming hash promises, whatever it buffers: bytes are absorbed *)
(* in pieces, and the one digest handed out is the RFC digest of their     *)
(* concatenation.                                                          *)
(***************************************************************************)
EXTENDS Blake2b

CONSTANT Params  \* the parameter blocks considered

VARIABLES
  param,   \* the parameter block hashing began with
  msg,     \* everything absorbed
  digests  \* the digests handed out

Init ==
  /\ param \in Params
  /\ msg = <<>>
  /\ digests = <<>>

Absorb ==
  /\ msg' \in Seq(Byte)
  /\ Len(msg') >= Len(msg)
  /\ SubSeq(msg', 1, Len(msg)) = msg
  /\ UNCHANGED <<param, digests>>

Finish ==
  /\ digests = <<>>
  /\ digests' = <<Digest(param, msg)>>
  /\ UNCHANGED <<param, msg>>

Next == Absorb \/ Finish

Spec == Init /\ [][Next]_<<param, msg, digests>>
=============================================================================
