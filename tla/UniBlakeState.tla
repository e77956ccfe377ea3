--------------------------- MODULE UniBlakeState ---------------------------
(***************************************************************************)
(* struct ub_state and the streaming primitives that take the kernel as an *)
(* argument: ub_init_with, ub_update_with and ub_final_with.  `right' says *)
(* whether the kernel they call computes the compression function.         *)
(***************************************************************************)
EXTENDS Blake2b

\* Slip: the carry into the high word is lost.
IncCounter_NoCarry(S, inc) ==
  [S EXCEPT !.t[1] = (@ + inc) % WordValues]

\* The low word wraps, and it has wrapped when it is below what was added.
IncCounter(S, inc) ==
  LET low == (S.t[1] + inc) % WordValues
  IN  [S EXCEPT !.t = <<low, IF low < inc THEN (@[2] + 1) % WordValues
                                          ELSE @[2]>>]

\* A kernel reads h, t, f and a block, and changes h alone.
Compress(S, block, right) ==
  [S EXCEPT !.chain = Append(@, Compression(block, S.t, S.f, right))]

\* memcpy of data into the buffer, from offset `at'.
Put(buf, at, data) ==
  [p \in 0 .. BlockBytes - 1 |->
     IF p >= at /\ p < at + Len(data) THEN data[p - at + 1] ELSE buf[p]]

InitWith(outlen, personal) ==
  [param |-> Param(outlen, personal), chain |-> <<>>, t |-> <<0, 0>>,
   f |-> FALSE, buf |-> ZeroBlock, buflen |-> 0, outlen |-> outlen]

\* Slip: what the buffer already holds is forgotten.
Fill_Whole(S) == BlockBytes

Fill(S) == BlockBytes - S.buflen

\* Slip: a full buffer is compressed though nothing follows it.
Overfills_Full(S, data) == Len(data) >= Fill(S)

Overfills(S, data) == Len(data) > Fill(S)

\* The buffer is topped up, counted and compressed.
FillBlock(S, data, right) ==
  LET full == Put(S.buf, S.buflen, SubSeq(data, 1, Fill(S)))
  IN  Compress(IncCounter([S EXCEPT !.buf = full, !.buflen = 0], BlockBytes),
               full, right)

\* A whole block is compressed where it lies in the input.
WholeBlock(S, data, right) ==
  Compress(IncCounter(S, BlockBytes), Put(ZeroBlock, 0, SubSeq(data, 1, BlockBytes)),
           right)

Stash(S, data) ==
  [S EXCEPT !.buf = Put(@, S.buflen, data), !.buflen = @ + Len(data)]

After(data, n) == SubSeq(data, n + 1, Len(data))

\* The whole of ub_update_with: at least one byte is always left to stash.
UpdateWith(S, data, right) ==
  IF ~Overfills(S, data) THEN Stash(S, data)
  ELSE LET rest == After(data, Fill(S))
           iterations == (Len(rest) - 1) \div BlockBytes
           state[i \in 0 .. iterations] ==
             IF i = 0 THEN FillBlock(S, data, right)
             ELSE WholeBlock(state[i - 1], After(rest, (i - 1) * BlockBytes), right)
       IN  Stash(state[iterations], After(rest, iterations * BlockBytes))

FinalRefused(S, outcap) == outcap < S.outlen \/ S.f

\* Slip: what an earlier block left in the buffer is compressed again.
FinalWith_Unpadded(S, right) ==
  LET counted == [IncCounter(S, S.buflen) EXCEPT !.f = TRUE]
  IN  Compress(counted, counted.buf, right)

\* The count of the last bytes, the flag, the zero padding, the last block.
FinalWith(S, right) ==
  LET padded == Put(S.buf, S.buflen, [i \in 1 .. Fill(S) |-> 0])
      closed == [IncCounter(S, S.buflen) EXCEPT !.f = TRUE, !.buf = padded]
  IN  Compress(closed, padded, right)

\* What final copies out of h.
Output(S) == [param |-> S.param, chain |-> S.chain]
=============================================================================
