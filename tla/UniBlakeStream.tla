--------------------------- MODULE UniBlakeStream ---------------------------
(***************************************************************************)
(* One ub_state from ub_init_with on, the loop of ub_update_with taken one *)
(* compression at a time.                                                  *)
(***************************************************************************)
EXTENDS UniBlakeState

CONSTANTS
  OutLens,    \* digest lengths asked for
  Personals,  \* personalizations
  Inputs,     \* byte strings handed to one update
  MaxMessage  \* bound: bytes of a message

ASSUME OutLensAssumption == OutLens \subseteq 1 .. OutBytes
ASSUME InputsAssumption == Inputs \subseteq Seq(Byte)
ASSUME MaxMessageAssumption ==
  MaxMessage \in Nat /\ MaxMessage < WordValues * WordValues

VARIABLES
  S,       \* the state
  pc,      \* "ready" between calls, "loop" inside update
  in,      \* what update has still to take in
  msg,     \* history: everything handed to update
  digests  \* what final returned

vars == <<S, pc, in, msg, digests>>

Init ==
  /\ \E outlen \in OutLens, personal \in Personals : S = InitWith(outlen, personal)
  /\ pc = "ready"
  /\ in = <<>>
  /\ msg = <<>>
  /\ digests = <<>>

Update(data) ==
  /\ pc = "ready"
  /\ Len(msg) + Len(data) <= MaxMessage
  /\ msg' = msg \o data
  /\ IF Overfills(S, data)
     THEN /\ S' = FillBlock(S, data, TRUE)
          /\ in' = After(data, Fill(S))
          /\ pc' = "loop"
     ELSE /\ S' = Stash(S, data)
          /\ UNCHANGED <<in, pc>>
  /\ UNCHANGED digests

LoopEnds(data) == Len(data) <= BlockBytes

NextBlock ==
  /\ pc = "loop"
  /\ ~LoopEnds(in)
  /\ S' = WholeBlock(S, in, TRUE)
  /\ in' = After(in, BlockBytes)
  /\ UNCHANGED <<pc, msg, digests>>

StashRest ==
  /\ pc = "loop"
  /\ LoopEnds(in)
  /\ S' = Stash(S, in)
  /\ in' = <<>>
  /\ pc' = "ready"
  /\ UNCHANGED <<msg, digests>>

Final ==
  /\ pc = "ready"
  /\ ~FinalRefused(S, S.outlen)
  /\ S' = FinalWith(S, TRUE)
  /\ digests' = Append(digests, Output(S'))
  /\ UNCHANGED <<pc, in, msg>>

Next == (\E data \in Inputs : Update(data)) \/ NextBlock \/ StashRest \/ Final

Spec == Init /\ [][Next]_vars

-----------------------------------------------------------------------------
Counter == (0 .. WordValues - 1) \X (0 .. WordValues - 1)

CompressionType ==
  [block : Block, t : Counter, last : BOOLEAN, right : BOOLEAN]

ChainType == Seq(CompressionType)

StateType ==
  [param  : [outlen : OutLens, personal : Personals],
   chain  : ChainType,
   t      : Counter,
   f      : BOOLEAN,
   buf    : Block,
   buflen : 0 .. BlockBytes,
   outlen : OutLens]

\* Every field stays in the range the asserts of ub_update_with and
\* ub_final_with rely on; the buffer is never filled beyond its end.
TypeOK ==
  /\ S \in StateType
  /\ pc \in {"ready", "loop"}
  /\ in \in Seq(Byte)
  /\ msg \in Seq(Byte)
  /\ digests \in Seq([param : [outlen : OutLens, personal : Personals],
                      chain : ChainType])

\* The number a two-word counter holds.
Value(t) == t[1] + WordValues * t[2]

\* Bytes compressed so far.
Taken == Len(S.chain) * BlockBytes

\* The chain is the first blocks of m, each compressed with the count of the
\* bytes up to its end.
CutInto(chain, m) ==
  \A i \in 1 .. Len(chain) :
    /\ \A p \in 0 .. BlockBytes - 1 :
         chain[i].block[p] = m[(i - 1) * BlockBytes + p + 1]
    /\ Value(chain[i].t) = i * BlockBytes
    /\ ~chain[i].last
    /\ chain[i].right

\* Until final: chain, buffer and what update still holds are the message, in
\* order and counted, wherever the pieces were cut.
ChainIsMessage ==
  ~S.f =>
    /\ Len(msg) = Taken + S.buflen + Len(in)
    /\ CutInto(S.chain, msg)
    /\ Value(S.t) = Taken
    /\ \A p \in 0 .. S.buflen - 1 : S.buf[p] = msg[Taken + p + 1]
    /\ \A j \in 1 .. Len(in) : in[j] = msg[Taken + S.buflen + j]

\* The last block waits for final: once everything handed over is taken in,
\* some of it is still in the buffer, so no block was compressed as not last
\* before a byte was known to follow it.
LastBlockHeld == (in = <<>> /\ msg # <<>> /\ ~S.f) => S.buflen > 0

\* The stream hands out one digest, the RFC digest of all it absorbed.
Object == INSTANCE HashObject WITH
            Params <- [outlen : OutLens, personal : Personals],
            param <- S.param

ImplementsObject == Object!Spec
=============================================================================
