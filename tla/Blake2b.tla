------------------------------ MODULE Blake2b ------------------------------
(***************************************************************************)
(* BLAKE2b as RFC 7693 defines it: a message is cut into blocks, each      *)
(* block is compressed with the count of bytes up to its end, and the last *)
(* block, padded with zeros and possibly empty only for the empty message, *)
(* carries a flag.  The compression function is free: a chaining value is  *)
(* the list of everything that was compressed into it, so two of them are  *)
(* equal exactly when nothing was absorbed differently.                    *)
(***************************************************************************)
EXTENDS Naturals, Sequences

CONSTANTS
  BlockBytes,  \* bytes of a block (128)
  WordValues,  \* values of a counter word (2^64)
  OutBytes,    \* largest digest length (64)
  Byte         \* the byte values considered, zero among them

ASSUME BlockAssumption == BlockBytes \in Nat \ {0}
ASSUME WordAssumption == WordValues \in Nat /\ WordValues > BlockBytes
ASSUME OutAssumption == OutBytes \in Nat \ {0}
ASSUME ByteAssumption == 0 \in Byte

Block == [0 .. BlockBytes - 1 -> Byte]

ZeroBlock == [p \in 0 .. BlockBytes - 1 |-> 0]

\* The two-word counter holding n.
CounterOf(n) == <<n % WordValues, (n \div WordValues) % WordValues>>

\* One call of the compression function: what it was given, and whether the
\* code that ran computes the function.
Compression(block, t, last, right) ==
  [block |-> block, t |-> t, last |-> last, right |-> right]

\* Every message but the empty one ends in a block holding at least one byte.
BlockCount(msg) ==
  IF msg = <<>> THEN 1 ELSE (Len(msg) + BlockBytes - 1) \div BlockBytes

PaddedBlock(msg, i) ==
  [p \in 0 .. BlockBytes - 1 |->
     LET at == (i - 1) * BlockBytes + p + 1
     IN  IF at <= Len(msg) THEN msg[at] ELSE 0]

Chain(msg) ==
  [i \in 1 .. BlockCount(msg) |->
     LET last == i = BlockCount(msg)
     IN  Compression(PaddedBlock(msg, i),
                     CounterOf(IF last THEN Len(msg) ELSE i * BlockBytes),
                     last, TRUE)]

\* The parameter block sets the first chaining value.
Param(outlen, personal) == [outlen |-> outlen, personal |-> personal]

Digest(param, msg) == [param |-> param, chain |-> Chain(msg)]
=============================================================================
