----------------------------- MODULE ArenaSolver -----------------------------
(***************************************************************************)
(* solve_arena_with_leaves and its two leaf fills: rows live in flat       *)
(* buffers (hashes: hstride segments per row, idxs: icount leaves per      *)
(* row), each round sorts row ids instead of rows, and the leaf rows are   *)
(* written by worker threads in any order before the merge starts          *)
(* (solve/parallel.rs; one worker is the serial fill of solve_arena).      *)
(***************************************************************************)
EXTENDS Wagner

CONSTANTS
  Digests,
  Workers,  \* threads of the rayon pool
  Idle      \* no chunk

VARIABLES
  digest,
  pc,       \* "fill", "merge" or "done"
  round,
  todo,     \* chunks no worker has taken
  chunk,    \* the chunk each worker is filling
  hashes,
  idxs,
  hstride,
  icount,
  nrows,
  sols

vars == <<digest, pc, round, todo, chunk, hashes, idxs, hstride, icount, nrows, sols>>

\* Segment s of row q, and the index slice of row q, of the flat buffers.
Cell(q, s)    == hashes[(q - 1) * hstride + s]
IndexSlice(q) == SubSeq(idxs, (q - 1) * icount + 1, q * icount)

-----------------------------------------------------------------------------

Init ==
  /\ digest \in Digests
  /\ pc = "fill"
  /\ round = 1
  /\ todo = Leaf
  /\ chunk = [wk \in Workers |-> Idle]
  /\ hstride = K + 1
  /\ icount = 1
  /\ nrows = InitSize
  /\ hashes = [c \in 1 .. InitSize * (K + 1) |-> {}]
  /\ idxs = [q \in 1 .. InitSize |-> 0]
  /\ sols = << >>

TakeChunk(wk) ==
  /\ pc = "fill"
  /\ chunk[wk] = Idle
  /\ \E leaf \in todo :
       /\ chunk' = [chunk EXCEPT ![wk] = leaf]
       /\ todo' = todo \ {leaf}
  /\ UNCHANGED <<digest, pc, round, hashes, idxs, hstride, icount, nrows, sols>>

\* Slip: the worker never reports its chunk done.
FillChunk_Stuck(wk) ==
  /\ chunk[wk] # Idle
  /\ hashes' = [c \in DOMAIN hashes |->
       LET s == c - chunk[wk] * hstride IN
       IF s \in 1 .. hstride THEN LeafRow(digest, chunk[wk])[s] ELSE hashes[c]]
  /\ UNCHANGED <<digest, pc, round, todo, chunk, idxs, hstride, icount, nrows, sols>>

\* slot.copy_from_slice(&leaf_row(leaf)).
FillChunk(wk) ==
  /\ chunk[wk] # Idle
  /\ hashes' = [c \in DOMAIN hashes |->
       LET s == c - chunk[wk] * hstride IN
       IF s \in 1 .. hstride THEN LeafRow(digest, chunk[wk])[s] ELSE hashes[c]]
  /\ chunk' = [chunk EXCEPT ![wk] = Idle]
  /\ UNCHANGED <<digest, pc, round, todo, idxs, hstride, icount, nrows, sols>>

\* for_each returns when every chunk is filled; then the leaf ids are set.
Join ==
  /\ pc = "fill"
  /\ todo = {}
  /\ \A wk \in Workers : chunk[wk] = Idle
  /\ pc' = "merge"
  /\ idxs' = [q \in 1 .. nrows |-> q - 1]
  /\ UNCHANGED <<digest, round, todo, chunk, hashes, hstride, icount, nrows, sols>>

-----------------------------------------------------------------------------

\* Row ids sorted by leading segment; sort_by is stable.
Order == StableOrder([q \in 1 .. nrows |-> Cell(q, 1)])

\* Row-id pairs of the runs, in the order the loops emit them.
RunPairs(order) ==
  LET pairs == Kept(PairGrid(nrows),
        {pq \in (1 .. nrows) \X (1 .. nrows) :
          /\ pq[1] < pq[2]
          /\ \A t \in pq[1] .. pq[2] : Cell(order[t], 1) = Cell(order[pq[1]], 1)
          /\ SlicesDistinct(IndexSlice(order[pq[1]]), IndexSlice(order[pq[2]]))})
  IN  [m \in DOMAIN pairs |-> <<order[pairs[m][1]], order[pairs[m][2]]>>]

\* Slip: the row count of the next round from the stride of this one.
RowCount_OldStride(hash_len, idx_len) == hash_len \div hstride

\* Rows in the buffers of the next round, from their lengths.
RowCount(hash_len, idx_len) ==
  IF hstride - 1 = 0 THEN idx_len \div (2 * icount) ELSE hash_len \div (hstride - 1)

MergeRound ==
  /\ pc = "merge"
  /\ round <= K
  /\ nrows > 0
  /\ LET pairs       == RunPairs(Order)
         new_hstride == hstride - 1
         new_icount  == 2 * icount
         \* pair that emits cell c of a buffer of the given stride, and where in it
         pair(c, stride)  == pairs[((c - 1) \div stride) + 1]
         place(c, stride) == ((c - 1) % stride) + 1
         out_hashes == [c \in 1 .. Len(pairs) * new_hstride |->
           LET s == place(c, new_hstride) + 1 IN
           SymDiff(Cell(pair(c, new_hstride)[1], s), Cell(pair(c, new_hstride)[2], s))]
         out_idxs == [c \in 1 .. Len(pairs) * new_icount |->
           Canonical(IndexSlice(pair(c, new_icount)[1]),
                     IndexSlice(pair(c, new_icount)[2]))[place(c, new_icount)]]
     IN  /\ hashes' = out_hashes
         /\ idxs' = out_idxs
         /\ hstride' = new_hstride
         /\ icount' = new_icount
         /\ nrows' = RowCount(Len(out_hashes), Len(out_idxs))
  /\ round' = round + 1
  /\ UNCHANGED <<digest, pc, todo, chunk, sols>>

Collect ==
  /\ pc = "merge"
  /\ round > K \/ nrows = 0
  /\ pc' = "done"
  /\ LET roots == Kept([q \in 1 .. nrows |-> q],
           {q \in 1 .. nrows : /\ \A s \in 1 .. hstride : Cell(q, s) = {}
                              /\ IsInjective(IndexSlice(q))})
     IN  sols' = [m \in DOMAIN roots |-> IndexSlice(roots[m])]
  /\ UNCHANGED <<digest, round, todo, chunk, hashes, idxs, hstride, icount, nrows>>

Fill == (\E wk \in Workers : TakeChunk(wk) \/ FillChunk(wk)) \/ Join

Next ==
  \/ Fill
  \/ MergeRound
  \/ Collect

Spec == Init /\ [][Next]_vars

-----------------------------------------------------------------------------

\* The flat buffers read as rows.
Unpacked ==
  [q \in 1 .. nrows |->
     [h |-> [s \in 1 .. hstride |-> Cell(q, s)], idx |-> IndexSlice(q)]]

\* The two flat buffers describe the same rows: the row count computed from one
\* is the row count of the other, so no slice of idxs is read out of bounds.
BuffersAgree ==
  /\ Len(hashes) = nrows * hstride
  /\ Len(idxs) = nrows * icount
  /\ hstride = K + 2 - round

=============================================================================
