------------------------- MODULE HashStreams_proofs -------------------------
(***************************************************************************)
(* For every block size, counter width and cutting of the message: the     *)
(* chain is the message cut into blocks, the last block is held back, and  *)
(* the digest is the digest of RFC 7693.  First for uniblake's stream      *)
(* (Spec), then for a program built with either of the two (StreamsSpec):  *)
(* the BLAKE2b bundled with Requihash keeps a full buffer until another    *)
(* byte comes, and so cuts the message elsewhere in its code.              *)
(***************************************************************************)
EXTENDS HashStreams, TLAPS

\* Division with remainder is unique.
LEMMA DivisionUnique ==
  ASSUME NEW W \in Nat \ {0}, NEW q \in Nat, NEW r \in 0 .. W - 1
  PROVE  (q * W + r) \div W = q /\ (q * W + r) % W = r
<1>1. (q * W + r) \div W = q
  BY SMT
<1>2. (q * W + r) % W = r
  BY SMT
<1>3. QED
  BY <1>1, <1>2

\* Adding less than a word's range wraps at most once.
LEMMA WrapOnce ==
  ASSUME NEW W \in Nat \ {0}, NEW a \in 0 .. W - 1, NEW b \in 0 .. W - 1
  PROVE  (a + b) % W = IF a + b < W THEN a + b ELSE a + b - W
  BY SMT

\* What is left after n elements.
LEMMA AfterProperties ==
  ASSUME NEW data \in Seq(Byte), NEW n \in 0 .. Len(data)
  PROVE  /\ After(data, n) \in Seq(Byte)
         /\ Len(After(data, n)) = Len(data) - n
         /\ \A j \in 1 .. Len(data) - n : After(data, n)[j] = data[j + n]
  BY DEF After

\* What is taken first.
LEMMA FirstProperties ==
  ASSUME NEW data \in Seq(Byte), NEW n \in 0 .. Len(data)
  PROVE  /\ SubSeq(data, 1, n) \in Seq(Byte)
         /\ Len(SubSeq(data, 1, n)) = n
         /\ \A j \in 1 .. n : SubSeq(data, 1, n)[j] = data[j]
  OBVIOUS

\* A copy that fits changes the bytes it covers and no other.
LEMMA PutProperties ==
  ASSUME NEW buf \in Block, NEW at \in Nat, NEW data \in Seq(Byte)
  PROVE  /\ Put(buf, at, data) \in Block
         /\ \A p \in 0 .. BlockBytes - 1 :
              Put(buf, at, data)[p] =
                IF p >= at /\ p < at + Len(data) THEN data[p - at + 1] ELSE buf[p]
  BY BlockAssumption DEF Put, Block

\* memset(S, 0, ...) leaves a block.
LEMMA ZeroBlockType == ZeroBlock \in Block
  BY ByteAssumption, BlockAssumption DEF ZeroBlock, Block

\* Counting touches t alone and stays in range, whatever was counted before.
LEMMA IncCounterType ==
  ASSUME NEW T \in StateType, NEW inc \in 0 .. BlockBytes
  PROVE  /\ IncCounter(T, inc) = [T EXCEPT !.t = IncCounter(T, inc).t]
         /\ IncCounter(T, inc) \in StateType
         /\ IncCounter(T, inc).t \in Counter
<1> DEFINE lo == T.t[1]
           hi == T.t[2]
           low == (lo + inc) % WordValues
           high == IF low < inc THEN (hi + 1) % WordValues ELSE hi
<1>1. lo \in 0 .. WordValues - 1 /\ hi \in 0 .. WordValues - 1 /\ T.t = <<lo, hi>>
  BY DEF StateType, Counter
<1>2. IncCounter(T, inc) = [T EXCEPT !.t = <<low, high>>]
  BY <1>1 DEF IncCounter
<1>3. low \in 0 .. WordValues - 1 /\ (hi + 1) % WordValues \in 0 .. WordValues - 1
  BY <1>1, WordAssumption, BlockAssumption
<1> HIDE DEF lo, hi, low
<1>4. high \in 0 .. WordValues - 1
  BY <1>1, <1>3
<1>5. <<low, high>> \in Counter
  BY <1>3, <1>4 DEF Counter
<1> HIDE DEF high
<1>6. IncCounter(T, inc).t = <<low, high>>
  BY <1>2 DEF StateType
<1>7. IncCounter(T, inc) \in StateType
  BY <1>2, <1>5 DEF StateType
<1>8. QED
  BY <1>2, <1>5, <1>6, <1>7

\* The carry is right as long as the count fits the two words.
LEMMA IncCounterValue ==
  ASSUME NEW T \in StateType, NEW inc \in 0 .. BlockBytes,
         Value(T.t) + inc < WordValues * WordValues
  PROVE  Value(IncCounter(T, inc).t) = Value(T.t) + inc
<1> DEFINE lo == T.t[1]
           hi == T.t[2]
           low == (lo + inc) % WordValues
           high == IF low < inc THEN (hi + 1) % WordValues ELSE hi
<1>1. lo \in 0 .. WordValues - 1 /\ hi \in 0 .. WordValues - 1 /\ T.t = <<lo, hi>>
  BY DEF StateType, Counter
<1>2. IncCounter(T, inc).t = <<low, high>>
  BY <1>1 DEF IncCounter, StateType
<1>3. inc \in 0 .. WordValues - 1 /\ WordValues \in Nat \ {0}
  BY WordAssumption, BlockAssumption
<1>4. lo + WordValues * hi + inc < WordValues * WordValues
  BY <1>1 DEF Value
<1> HIDE DEF lo, hi
<1>5. low = IF lo + inc < WordValues THEN lo + inc ELSE lo + inc - WordValues
  BY <1>1, <1>3, WrapOnce
<1> HIDE DEF low, high
<1>6. SUFFICES low + WordValues * high = lo + WordValues * hi + inc
  BY <1>2, <1>6 DEF Value, lo, hi
<1>7. CASE lo + inc < WordValues
  <2>1. high = hi
    BY <1>1, <1>5, <1>7, BlockAssumption DEF high
  <2>2. QED
    BY <2>1, <1>1, <1>5, <1>7, WordAssumption
<1>8. CASE ~(lo + inc < WordValues)
  <2>1. low = lo + inc - WordValues /\ low < inc
    BY <1>1, <1>5, <1>8, WordAssumption, BlockAssumption
  <2>2. hi + 1 < WordValues
    BY <1>1, <1>4, <1>8, WordAssumption, BlockAssumption
  <2>3. high = hi + 1
    BY <2>1, <2>2, <1>1, WordAssumption DEF high
  <2>4. WordValues * (hi + 1) = WordValues * hi + WordValues
    BY <1>1, WordAssumption
  <2>5. QED
    BY <2>1, <2>3, <2>4, <1>1, WordAssumption, BlockAssumption
<1>9. QED
  BY <1>7, <1>8

\* What Append does, for a set given by name.
LEMMA AppendFacts ==
  ASSUME NEW X, NEW seq \in Seq(X), NEW e \in X
  PROVE  /\ Append(seq, e) \in Seq(X)
         /\ Len(Append(seq, e)) = Len(seq) + 1
         /\ \A i \in 1 .. Len(seq) : Append(seq, e)[i] = seq[i]
         /\ Append(seq, e)[Len(seq) + 1] = e
  OBVIOUS

\* A compression is appended, and nothing else changes.
LEMMA CompressProperties ==
  ASSUME NEW T \in StateType, NEW block \in Block
  PROVE  LET U == Compress(T, block, TRUE)
         IN  /\ U \in StateType
             /\ U = [T EXCEPT !.chain = U.chain]
             /\ Len(U.chain) = Len(T.chain) + 1
             /\ \A i \in 1 .. Len(T.chain) : U.chain[i] = T.chain[i]
             /\ U.chain[Len(T.chain) + 1] = Compression(block, T.t, T.f, TRUE)
<1> DEFINE U == Compress(T, block, TRUE)
           e == Compression(block, T.t, T.f, TRUE)
<1>1. T.chain \in ChainType /\ T.t \in Counter /\ T.f \in BOOLEAN
  BY DEF StateType
<1>2. e \in CompressionType
  BY <1>1 DEF Compression, CompressionType
<1>3. U = [T EXCEPT !.chain = Append(T.chain, e)]
  BY DEF Compress
<1>4. U.chain = Append(T.chain, e)
  BY <1>3 DEF StateType
<1> HIDE DEF e
<1>5. /\ Append(T.chain, e) \in ChainType
      /\ Len(Append(T.chain, e)) = Len(T.chain) + 1
      /\ \A i \in 1 .. Len(T.chain) : Append(T.chain, e)[i] = T.chain[i]
      /\ Append(T.chain, e)[Len(T.chain) + 1] = e
  BY <1>1, <1>2, AppendFacts DEF ChainType
<1>6. U \in StateType
  BY <1>3, <1>5 DEF StateType
<1> HIDE DEF U
<1>7. QED
  BY <1>3, <1>4, <1>5, <1>6 DEF e, U

-----------------------------------------------------------------------------
\* The fields a step of update leaves alone.
SameFields(U, T) ==
  /\ U.param = T.param
  /\ U.f = T.f
  /\ U.outlen = T.outlen

\* One more block, counted, after those there were.
OneMore(U, T) ==
  /\ U.t = IncCounter(T, BlockBytes).t
  /\ Len(U.chain) = Len(T.chain) + 1
  /\ \A i \in 1 .. Len(T.chain) : U.chain[i] = T.chain[i]
  /\ U.chain[Len(T.chain) + 1].t = U.t
  /\ U.chain[Len(T.chain) + 1].last = T.f
  /\ U.chain[Len(T.chain) + 1].right

\* The first block of a long update: the buffer, then the first bytes.
LEMMA FillBlockProperties ==
  ASSUME NEW T \in StateType, NEW data \in Seq(Byte), Overfills(T, data)
  PROVE  LET U == FillBlock(T, data, TRUE)
         IN  /\ U \in StateType
             /\ SameFields(U, T)
             /\ OneMore(U, T)
             /\ U.buflen = 0
             /\ \A p \in 0 .. BlockBytes - 1 :
                  U.chain[Len(T.chain) + 1].block[p] =
                    IF p < T.buflen THEN T.buf[p] ELSE data[p - T.buflen + 1]
<1> DEFINE first == SubSeq(data, 1, Fill(T))
           full == Put(T.buf, T.buflen, first)
           V == [T EXCEPT !.buf = full, !.buflen = 0]
           W == IncCounter(V, BlockBytes)
           U == Compress(W, full, TRUE)
<1>1. T.buflen \in 0 .. BlockBytes /\ T.buflen \in Nat /\ T.buf \in Block
  BY BlockAssumption DEF StateType
<1>2. Fill(T) \in 0 .. Len(data) /\ Fill(T) = BlockBytes - T.buflen
  BY <1>1, BlockAssumption DEF Overfills, Fill
<1>3. /\ full \in Block
      /\ \A p \in 0 .. BlockBytes - 1 :
           full[p] = IF p < T.buflen THEN T.buf[p] ELSE data[p - T.buflen + 1]
  <2>1. /\ first \in Seq(Byte)
        /\ Len(first) = Fill(T)
        /\ \A j \in 1 .. Fill(T) : first[j] = data[j]
    BY <1>2, FirstProperties
  <2> HIDE DEF first
  <2>2. /\ full \in Block
        /\ \A p \in 0 .. BlockBytes - 1 :
             full[p] = IF p >= T.buflen /\ p < T.buflen + Len(first)
                       THEN first[p - T.buflen + 1] ELSE T.buf[p]
    BY <1>1, <2>1, PutProperties
  <2> HIDE DEF full
  <2>3. QED
    BY <1>1, <1>2, <2>1, <2>2, BlockAssumption
<1> HIDE DEF full
<1>4. V \in StateType
  <2>1. [T EXCEPT !.buf = full] \in StateType
    BY <1>3 DEF StateType
  <2>2. 0 \in 0 .. BlockBytes
    BY BlockAssumption
  <2>3. QED
    BY <2>1, <2>2 DEF StateType
<1>5. IncCounter(V, BlockBytes).t = IncCounter(T, BlockBytes).t
  BY DEF IncCounter, StateType
<1>6. W \in StateType /\ W = [V EXCEPT !.t = W.t]
  <2>1. BlockBytes \in 0 .. BlockBytes
    BY BlockAssumption
  <2> HIDE DEF V
  <2>2. QED
    BY <1>4, <2>1, IncCounterType
<1>7. /\ SameFields(W, T) /\ W.buflen = 0 /\ W.chain = T.chain
      /\ W.t = IncCounter(T, BlockBytes).t
  BY <1>5, <1>6 DEF SameFields, StateType
<1> HIDE DEF W
<1>8. /\ U \in StateType
      /\ U = [W EXCEPT !.chain = U.chain]
      /\ Len(U.chain) = Len(W.chain) + 1
      /\ \A i \in 1 .. Len(W.chain) : U.chain[i] = W.chain[i]
      /\ U.chain[Len(W.chain) + 1] = Compression(full, W.t, W.f, TRUE)
  BY <1>3, <1>6, CompressProperties
<1> HIDE DEF U
<1>9. SameFields(U, T) /\ U.buflen = 0 /\ U.t = W.t
  BY <1>6, <1>7, <1>8 DEF SameFields, StateType
<1>10. OneMore(U, T)
  BY <1>7, <1>8, <1>9 DEF OneMore, Compression, SameFields
<1>11. U.chain[Len(T.chain) + 1].block = full
  BY <1>7, <1>8 DEF Compression
<1>12. U = FillBlock(T, data, TRUE)
  BY DEF FillBlock, U, W, full
<1>13. QED
  BY <1>3, <1>8, <1>9, <1>10, <1>11, <1>12

\* A later block of a long update, compressed where it lies.
LEMMA WholeBlockProperties ==
  ASSUME NEW T \in StateType, NEW data \in Seq(Byte), Len(data) > BlockBytes
  PROVE  LET U == WholeBlock(T, data, TRUE)
         IN  /\ U \in StateType
             /\ SameFields(U, T)
             /\ OneMore(U, T)
             /\ U.buflen = T.buflen
             /\ \A p \in 0 .. BlockBytes - 1 :
                  U.chain[Len(T.chain) + 1].block[p] = data[p + 1]
<1> DEFINE first == SubSeq(data, 1, BlockBytes)
           block == Put(ZeroBlock, 0, first)
           W == IncCounter(T, BlockBytes)
           U == Compress(W, block, TRUE)
<1>1. /\ first \in Seq(Byte)
      /\ Len(first) = BlockBytes
      /\ \A j \in 1 .. BlockBytes : first[j] = data[j]
  <2>1. BlockBytes \in 0 .. Len(data)
    BY BlockAssumption
  <2>2. QED
    BY <2>1, FirstProperties
<1> HIDE DEF first
<1>2. /\ block \in Block
      /\ \A p \in 0 .. BlockBytes - 1 :
           block[p] = IF p >= 0 /\ p < 0 + Len(first)
                      THEN first[p - 0 + 1] ELSE ZeroBlock[p]
  BY <1>1, ZeroBlockType, PutProperties
<1> HIDE DEF block
<1>3. \A p \in 0 .. BlockBytes - 1 : block[p] = data[p + 1]
  BY <1>1, <1>2, BlockAssumption
<1>4. W \in StateType /\ W = [T EXCEPT !.t = W.t]
  <2>1. BlockBytes \in 0 .. BlockBytes
    BY BlockAssumption
  <2>2. QED
    BY <2>1, IncCounterType
<1>5. SameFields(W, T) /\ W.buflen = T.buflen /\ W.chain = T.chain
  BY <1>4 DEF SameFields, StateType
<1>6. /\ U \in StateType
      /\ U = [W EXCEPT !.chain = U.chain]
      /\ Len(U.chain) = Len(W.chain) + 1
      /\ \A i \in 1 .. Len(W.chain) : U.chain[i] = W.chain[i]
      /\ U.chain[Len(W.chain) + 1] = Compression(block, W.t, W.f, TRUE)
  BY <1>2, <1>4, CompressProperties
<1>7. U = WholeBlock(T, data, TRUE)
  BY DEF WholeBlock, block, first
<1>8. W.t = IncCounter(T, BlockBytes).t
  OBVIOUS
<1> HIDE DEF U, W
<1>9. SameFields(U, T) /\ U.buflen = T.buflen /\ U.t = W.t
  BY <1>4, <1>5, <1>6 DEF SameFields, StateType
<1>10. OneMore(U, T)
  BY <1>5, <1>6, <1>8, <1>9 DEF OneMore, Compression, SameFields
<1>11. U.chain[Len(T.chain) + 1].block = block
  BY <1>5, <1>6 DEF Compression
<1>12. QED
  BY <1>3, <1>6, <1>7, <1>9, <1>10, <1>11

\* The tail of an update joins the buffer and nothing is compressed.
LEMMA StashProperties ==
  ASSUME NEW T \in StateType, NEW data \in Seq(Byte), ~Overfills(T, data)
  PROVE  LET U == Stash(T, data)
         IN  /\ U \in StateType
             /\ SameFields(U, T)
             /\ U.t = T.t
             /\ U.chain = T.chain
             /\ U.buflen = T.buflen + Len(data)
             /\ \A p \in 0 .. T.buflen + Len(data) - 1 :
                  U.buf[p] = IF p < T.buflen THEN T.buf[p]
                             ELSE data[p - T.buflen + 1]
<1> DEFINE full == Put(T.buf, T.buflen, data)
           n == T.buflen + Len(data)
           V == [T EXCEPT !.buf = full]
           U == [V EXCEPT !.buflen = n]
<1>1. T.buflen \in 0 .. BlockBytes /\ T.buflen \in Nat /\ T.buf \in Block
  BY BlockAssumption DEF StateType
<1>2. /\ full \in Block
      /\ \A p \in 0 .. BlockBytes - 1 :
           full[p] = IF p >= T.buflen /\ p < T.buflen + Len(data)
                    THEN data[p - T.buflen + 1] ELSE T.buf[p]
  BY <1>1, PutProperties
<1>3. n \in 0 .. BlockBytes
  BY <1>1, BlockAssumption DEF Overfills, Fill
<1>4. Stash(T, data) = U
  BY DEF Stash, StateType
<1>5. \A p \in 0 .. n - 1 :
        full[p] = IF p < T.buflen THEN T.buf[p] ELSE data[p - T.buflen + 1]
  BY <1>1, <1>2, <1>3, BlockAssumption
<1> HIDE DEF full
<1>6. V \in StateType
  BY <1>2 DEF StateType
<1>7. U \in StateType
  BY <1>3, <1>6 DEF StateType
<1>8. SameFields(U, T) /\ U.t = T.t /\ U.chain = T.chain /\ U.buflen = n /\ U.buf = full
  BY DEF SameFields, StateType
<1> HIDE DEF U
<1>9. \A p \in 0 .. T.buflen + Len(data) - 1 :
        U.buf[p] = IF p < T.buflen THEN T.buf[p] ELSE data[p - T.buflen + 1]
  <2>1. U.buf = full
    BY <1>8
  <2>2. QED
    BY <1>1, <1>3, <1>5, <2>1
<1>10. U.buflen = T.buflen + Len(data)
  BY <1>8
<1>11. QED
  BY <1>4, <1>7, <1>8, <1>9, <1>10

\* A chain is cut from every message its own one begins.
LEMMA CutKept ==
  ASSUME NEW chain, Len(chain) \in Nat,
         NEW m \in Seq(Byte), NEW m2 \in Seq(Byte),
         CutInto(chain, m),
         Len(chain) * BlockBytes <= Len(m),
         \A j \in 1 .. Len(m) : m2[j] = m[j]
  PROVE  CutInto(chain, m2)
<1> DEFINE n == Len(chain)
<1>1. ASSUME NEW i \in 1 .. n, NEW p \in 0 .. BlockBytes - 1
      PROVE  (i - 1) * BlockBytes + p + 1 \in 1 .. Len(m)
  <2> DEFINE start == (i - 1) * BlockBytes
             end == i * BlockBytes
  <2>1. start \in Nat /\ start + BlockBytes = end /\ end \in Nat
    BY BlockAssumption
  <2>2. end <= n * BlockBytes /\ n * BlockBytes \in Nat
    BY BlockAssumption
  <2> HIDE DEF start, end
  <2>3. end <= Len(m)
    BY <2>1, <2>2
  <2>4. start + p + 1 \in 1 .. Len(m)
    BY <2>1, <2>3, BlockAssumption
  <2>5. QED
    BY <2>4 DEF start
<1>2. QED
  BY <1>1 DEF CutInto

\* One more block of a message that may have grown meanwhile.
LEMMA CutGrows ==
  ASSUME NEW T \in StateType, NEW U \in StateType,
         NEW m \in Seq(Byte), NEW m2 \in Seq(Byte),
         ~T.f,
         CutInto(T.chain, m),
         Len(T.chain) * BlockBytes <= Len(m),
         \A j \in 1 .. Len(m) : m2[j] = m[j],
         OneMore(U, T),
         Value(U.t) = (Len(T.chain) + 1) * BlockBytes,
         \A p \in 0 .. BlockBytes - 1 :
           U.chain[Len(T.chain) + 1].block[p] = m2[Len(T.chain) * BlockBytes + p + 1]
  PROVE  CutInto(U.chain, m2)
<1> DEFINE n == Len(T.chain)
<1>1. n \in Nat
  BY DEF StateType, ChainType
<1>2. /\ Len(U.chain) = n + 1
      /\ \A i \in 1 .. n : U.chain[i] = T.chain[i]
      /\ Value(U.chain[n + 1].t) = (n + 1) * BlockBytes
      /\ ~U.chain[n + 1].last
      /\ U.chain[n + 1].right
  BY DEF OneMore
<1> HIDE DEF n
<1>3. SUFFICES ASSUME NEW i \in 1 .. n + 1
      PROVE /\ \A p \in 0 .. BlockBytes - 1 :
                 U.chain[i].block[p] = m2[(i - 1) * BlockBytes + p + 1]
            /\ Value(U.chain[i].t) = i * BlockBytes
            /\ ~U.chain[i].last
            /\ U.chain[i].right
  BY <1>2, <1>3 DEF CutInto
<1>4. CASE i = n + 1
  <2>1. i - 1 = n
    BY <1>1, <1>4
  <2>2. QED
    BY <1>2, <1>4, <2>1 DEF n
<1>5. CASE i \in 1 .. n
  <2>1. U.chain[i] = T.chain[i]
    BY <1>2, <1>5
  <2>2. CutInto(T.chain, m2)
    BY <1>1, CutKept DEF n
  <2>3. QED
    BY <1>5, <2>1, <2>2 DEF CutInto, n
<1>6. QED
  BY <1>1, <1>4, <1>5

-----------------------------------------------------------------------------
(* The inductive invariant.  LoopHolds ties the input left over to the     *)
(* place in update; Bounded bounds the count, so that the two counter      *)
(* words hold it, and says that only final hands out a digest.             *)

LoopHolds ==
  /\ pc = "ready" => in = <<>>
  /\ pc = "loop" => in # <<>> /\ S.buflen = 0
  /\ (pc = "ready" /\ ~S.f /\ msg # <<>>) => S.buflen > 0

Bounded ==
  /\ Len(msg) <= MaxMessage
  /\ ~S.f => digests = <<>>

IInv == TypeOK /\ ChainIsMessage /\ LoopHolds /\ Bounded

\* ub_init_with establishes the invariant.
LEMMA InitIInv == Init => IInv
<1> SUFFICES ASSUME Init PROVE IInv
  OBVIOUS
<1>1. PICK outlen \in OutLens, personal \in Personals : S = InitWith(outlen, personal)
  BY DEF Init
<1>2. S \in StateType
  BY <1>1, ZeroBlockType, BlockAssumption, WordAssumption
     DEF InitWith, Param, StateType, ChainType, Counter
<1>3. S.chain = <<>> /\ S.t = <<0, 0>> /\ S.buflen = 0 /\ ~S.f
  BY <1>1 DEF InitWith
<1>4. TypeOK
  BY <1>2 DEF TypeOK, Init
<1>5. Taken = 0 /\ Value(S.t) = 0
  BY <1>3, BlockAssumption, WordAssumption DEF Taken, Value
<1>6. CutInto(S.chain, msg)
  BY <1>3 DEF CutInto
<1>7. ChainIsMessage
  BY <1>3, <1>5, <1>6 DEF ChainIsMessage, Init
<1>8. LoopHolds /\ Bounded
  BY <1>3, MaxMessageAssumption DEF LoopHolds, Bounded, Init
<1>9. QED
  BY <1>4, <1>7, <1>8 DEF IInv

\* Appending to the message moves none of its bytes.
LEMMA MessageGrows ==
  ASSUME NEW m \in Seq(Byte), NEW data \in Seq(Byte)
  PROVE  /\ m \o data \in Seq(Byte)
         /\ Len(m \o data) = Len(m) + Len(data)
         /\ \A j \in 1 .. Len(m) : (m \o data)[j] = m[j]
         /\ \A j \in 1 .. Len(data) : (m \o data)[Len(m) + j] = data[j]
  OBVIOUS

\* The bytes compressed are a natural number, one block more each time.
LEMMA TakenType ==
  ASSUME TypeOK
  PROVE  /\ Len(S.chain) \in Nat
         /\ Taken \in Nat
         /\ (Len(S.chain) + 1) * BlockBytes = Taken + BlockBytes
<1>1. Len(S.chain) \in Nat
  BY DEF TypeOK, StateType, ChainType
<1>2. QED
  BY <1>1, BlockAssumption DEF Taken

\* update with little: everything goes to the buffer.
LEMMA UpdateShortIInv ==
  ASSUME IInv, NEW data \in Inputs, Update(data), ~Overfills(S, data)
  PROVE  IInv'
<1>1. data \in Seq(Byte)
  BY InputsAssumption
<1>2. TypeOK /\ S \in StateType /\ S.buflen \in Nat
  BY BlockAssumption DEF IInv, TypeOK, StateType
<1>3. /\ S' = Stash(S, data) /\ msg' = msg \o data /\ pc = "ready" /\ pc' = pc
      /\ in = <<>> /\ in' = in /\ digests' = digests
      /\ Len(msg) + Len(data) <= MaxMessage
  BY DEF Update, IInv, LoopHolds
<1>4. /\ S' \in StateType
      /\ SameFields(S', S) /\ S'.t = S.t /\ S'.chain = S.chain
      /\ S'.buflen = S.buflen + Len(data)
      /\ \A p \in 0 .. S.buflen + Len(data) - 1 :
           S'.buf[p] = IF p < S.buflen THEN S.buf[p] ELSE data[p - S.buflen + 1]
  BY <1>1, <1>2, <1>3, StashProperties
<1>5. /\ msg \in Seq(Byte)
      /\ msg' \in Seq(Byte)
      /\ Len(msg') = Len(msg) + Len(data)
      /\ \A j \in 1 .. Len(msg) : msg'[j] = msg[j]
      /\ \A j \in 1 .. Len(data) : msg'[Len(msg) + j] = data[j]
  BY <1>1, <1>2, <1>3, MessageGrows DEF TypeOK
<1>6. TypeOK'
  BY <1>2, <1>3, <1>4, <1>5 DEF TypeOK
<1>7. ASSUME ~S'.f
      PROVE  /\ Len(msg') = Taken' + S'.buflen + Len(in')
             /\ CutInto(S'.chain, msg')
             /\ Value(S'.t) = Taken'
             /\ \A p \in 0 .. S'.buflen - 1 : S'.buf[p] = msg'[Taken' + p + 1]
             /\ \A j \in 1 .. Len(in') : in'[j] = msg'[Taken' + S'.buflen + j]
  <2>1. /\ Len(msg) = Taken + S.buflen
        /\ CutInto(S.chain, msg)
        /\ Value(S.t) = Taken
        /\ \A p \in 0 .. S.buflen - 1 : S.buf[p] = msg[Taken + p + 1]
    <3>1. ~S.f
      BY <1>4, <1>7 DEF SameFields
    <3>2. Len(in) = 0
      BY <1>3
    <3>3. QED
      BY <3>1, <3>2, <1>2, TakenType DEF IInv, ChainIsMessage
  <2>2. Taken' = Taken /\ Taken \in Nat
    BY <1>2, <1>4, TakenType DEF Taken
  <2>3. Len(msg') = Taken' + S'.buflen + Len(in')
    BY <1>1, <1>2, <1>3, <1>4, <1>5, <2>1, <2>2
  <2>4. CutInto(S'.chain, msg')
    <3>1. Len(S.chain) \in Nat /\ Len(S.chain) * BlockBytes <= Len(msg)
      BY <1>2, <2>1, <2>2, TakenType DEF Taken
    <3>2. CutInto(S.chain, msg')
      BY <3>1, <2>1, <1>5, CutKept
    <3>3. QED
      BY <3>2, <1>4
  <2>5. ASSUME NEW p \in 0 .. S'.buflen - 1
        PROVE  S'.buf[p] = msg'[Taken' + p + 1]
    <3>0. /\ p \in 0 .. S.buflen + Len(data) - 1
          /\ S'.buf[p] = IF p < S.buflen THEN S.buf[p] ELSE data[p - S.buflen + 1]
      BY <1>1, <1>2, <1>4
    <3>1. CASE p < S.buflen
      <4>1. Taken + p + 1 \in 1 .. Len(msg) /\ p \in 0 .. S.buflen - 1
        BY <3>0, <3>1, <2>1, <2>2, <1>2, <1>1
      <4>2. S'.buf[p] = S.buf[p]
        BY <3>0, <3>1
      <4>3. S.buf[p] = msg[Taken + p + 1] /\ msg'[Taken + p + 1] = msg[Taken + p + 1]
        BY <4>1, <2>1, <1>5
      <4>4. QED
        BY <4>2, <4>3, <2>2
    <3>2. CASE ~(p < S.buflen)
      <4> DEFINE j == p - S.buflen + 1
      <4>1. j \in 1 .. Len(data) /\ Len(msg) + j = Taken + p + 1
        <5>1. /\ Len(data) \in Nat /\ S.buflen \in Nat /\ Taken \in Nat
              /\ Len(msg) = Taken + S.buflen
          BY <2>1, <2>2, <1>1, <1>2
        <5>2. p \in 0 .. S.buflen + Len(data) - 1
          BY <3>0
        <5> DEFINE b == S.buflen
               d == Len(data)
               m == Len(msg)
               k == Taken
        <5>3. b \in Nat /\ d \in Nat /\ k \in Nat /\ m = k + b /\ p \in 0 .. b + d - 1 /\ ~(p < b)
          BY <5>1, <5>2, <3>2
        <5> HIDE DEF b, d, m, k
        <5>4. p - b + 1 \in 1 .. d /\ m + (p - b + 1) = k + p + 1
          BY <5>3
        <5>5. QED
          BY <5>4 DEF b, d, m, k
      <4>2. S'.buf[p] = data[j]
        BY <3>0, <3>2
      <4> HIDE DEF j
      <4>3. msg'[Len(msg) + j] = data[j]
        BY <4>1, <1>5
      <4>4. QED
        BY <4>1, <4>2, <4>3, <2>2
    <3>3. QED
      BY <3>1, <3>2
  <2>6. Len(in') = 0
    BY <1>3
  <2>7. QED
    BY <2>1, <2>2, <2>3, <2>4, <2>5, <2>6, <1>4
<1>8. ChainIsMessage'
  BY <1>7 DEF ChainIsMessage
<1>9. LoopHolds'
  <2>1. ASSUME ~S'.f, msg' # <<>>
        PROVE  S'.buflen > 0
    <3>1. Len(msg') > 0
      BY <1>5, <2>1
    <3>2. ~S.f /\ (msg # <<>> => S.buflen > 0)
      BY <1>3, <1>4, <2>1 DEF IInv, LoopHolds, SameFields
    <3>3. CASE msg = <<>>
      BY <1>1, <1>2, <1>4, <1>5, <3>1, <3>3
    <3>4. CASE msg # <<>>
      BY <1>1, <1>2, <1>4, <3>2, <3>4
    <3>5. QED
      BY <3>3, <3>4
  <2>2. QED
    BY <1>3, <2>1 DEF LoopHolds
<1>10. Bounded'
  BY <1>3, <1>4, <1>5 DEF IInv, Bounded, SameFields
<1>11. QED
  BY <1>6, <1>8, <1>9, <1>10 DEF IInv

\* update with more than the buffer takes: one block is complete.
LEMMA UpdateLongIInv ==
  ASSUME IInv, NEW data \in Inputs, Update(data), Overfills(S, data)
  PROVE  IInv'
<1> DEFINE n == Len(S.chain)
<1>1. data \in Seq(Byte)
  BY InputsAssumption
<1>2. /\ TypeOK /\ S \in StateType /\ S.buflen \in 0 .. BlockBytes /\ S.buflen \in Nat
      /\ msg \in Seq(Byte)
  BY BlockAssumption DEF IInv, TypeOK, StateType
<1>3. /\ S' = FillBlock(S, data, TRUE) /\ msg' = msg \o data
      /\ in' = After(data, Fill(S)) /\ in = <<>>
      /\ pc = "ready" /\ pc' = "loop" /\ digests' = digests
      /\ Len(msg) + Len(data) <= MaxMessage
  BY DEF Update, IInv, LoopHolds
<1>4. /\ S' \in StateType /\ SameFields(S', S) /\ OneMore(S', S) /\ S'.buflen = 0
      /\ \A p \in 0 .. BlockBytes - 1 :
           S'.chain[n + 1].block[p] =
             IF p < S.buflen THEN S.buf[p] ELSE data[p - S.buflen + 1]
  BY <1>1, <1>2, <1>3, FillBlockProperties
<1>5. /\ msg' \in Seq(Byte)
      /\ Len(msg') = Len(msg) + Len(data)
      /\ \A j \in 1 .. Len(msg) : msg'[j] = msg[j]
      /\ \A j \in 1 .. Len(data) : msg'[Len(msg) + j] = data[j]
  BY <1>1, <1>2, <1>3, MessageGrows
<1>6. Fill(S) \in 0 .. Len(data) /\ Fill(S) = BlockBytes - S.buflen /\ Fill(S) < Len(data)
  BY <1>1, <1>2, BlockAssumption DEF Overfills, Fill
<1>7. /\ in' \in Seq(Byte)
      /\ Len(in') = Len(data) - Fill(S)
      /\ \A j \in 1 .. Len(data) - Fill(S) : in'[j] = data[j + Fill(S)]
  BY <1>1, <1>3, <1>6, AfterProperties
<1>8. TypeOK'
  BY <1>2, <1>3, <1>4, <1>5, <1>7 DEF TypeOK
<1>9. /\ n \in Nat /\ Taken \in Nat /\ (n + 1) * BlockBytes = Taken + BlockBytes
      /\ n * BlockBytes = Taken
      /\ Taken' = Taken + BlockBytes
  BY <1>2, <1>4, TakenType DEF OneMore, Taken
<1>10. ASSUME ~S'.f
       PROVE  /\ Len(msg') = Taken' + S'.buflen + Len(in')
              /\ CutInto(S'.chain, msg')
              /\ Value(S'.t) = Taken'
              /\ \A p \in 0 .. S'.buflen - 1 : S'.buf[p] = msg'[Taken' + p + 1]
              /\ \A j \in 1 .. Len(in') : in'[j] = msg'[Taken' + S'.buflen + j]
  <2>1. /\ ~S.f
        /\ Len(msg) = Taken + S.buflen
        /\ CutInto(S.chain, msg)
        /\ Value(S.t) = Taken
        /\ \A p \in 0 .. S.buflen - 1 : S.buf[p] = msg[Taken + p + 1]
    <3>1. ~S.f
      BY <1>4, <1>10 DEF SameFields
    <3>2. Len(in) = 0
      BY <1>3
    <3>3. QED
      BY <3>1, <3>2, <1>2, <1>9 DEF IInv, ChainIsMessage
  <2>2. Len(msg') = Taken' + S'.buflen + Len(in')
    <3>1. /\ Len(data) \in Nat /\ S.buflen \in Nat /\ Taken \in Nat /\ BlockBytes \in Nat
          /\ Len(msg) = Taken + S.buflen /\ Len(msg') = Len(msg) + Len(data)
      BY <1>1, <1>2, <1>5, <1>9, <2>1, BlockAssumption
    <3>2. /\ Taken' = Taken + BlockBytes /\ S'.buflen = 0
          /\ Len(in') = Len(data) - (BlockBytes - S.buflen)
      BY <1>4, <1>6, <1>7, <1>9
    <3>3. QED
      BY <3>1, <3>2
  <2>3. Value(S'.t) = Taken'
    <3>1. S'.t = IncCounter(S, BlockBytes).t
      BY <1>4 DEF OneMore
    <3>2. BlockBytes \in 0 .. BlockBytes
      BY BlockAssumption
    <3>3. Value(S.t) + BlockBytes < WordValues * WordValues
      <4>1. Taken + BlockBytes <= Len(msg) + Len(data)
        BY <1>1, <1>2, <1>6, <1>9, <2>1, BlockAssumption
      <4>2. WordValues * WordValues \in Nat
        BY WordAssumption
      <4>3. QED
        BY <4>1, <4>2, <1>1, <1>2, <1>3, <1>9, <2>1, MaxMessageAssumption, BlockAssumption
    <3>4. QED
      BY <3>1, <3>2, <3>3, <1>2, <1>9, <2>1, IncCounterValue
  <2>4. ASSUME NEW p \in 0 .. BlockBytes - 1
        PROVE  S'.chain[n + 1].block[p] = msg'[n * BlockBytes + p + 1]
    <3>0. S'.chain[n + 1].block[p] =
            IF p < S.buflen THEN S.buf[p] ELSE data[p - S.buflen + 1]
      BY <1>4
    <3>1. CASE p < S.buflen
      <4>1. p \in 0 .. S.buflen - 1 /\ Taken + p + 1 \in 1 .. Len(msg)
        BY <3>1, <1>2, <1>9, <2>1, BlockAssumption
      <4>2. S.buf[p] = msg[Taken + p + 1] /\ msg'[Taken + p + 1] = msg[Taken + p + 1]
        BY <4>1, <2>1, <1>5
      <4>3. S'.chain[n + 1].block[p] = S.buf[p]
        BY <3>0, <3>1
      <4>4. QED
        BY <4>2, <4>3, <1>9
    <3>2. CASE ~(p < S.buflen)
      <4> DEFINE j == p - S.buflen + 1
      <4>0. Len(data) \in Nat /\ S.buflen + Len(data) > BlockBytes
        BY <1>1, <1>2, <1>6, BlockAssumption
      <4>1. j \in 1 .. Len(data) /\ Len(msg) + j = Taken + p + 1
        <5>1. p >= S.buflen /\ S.buflen \in Nat /\ Taken \in Nat
              /\ Len(msg) = Taken + S.buflen
          BY <3>2, <1>2, <1>9, <2>1, BlockAssumption
        <5>2. QED
          BY <4>0, <5>1, BlockAssumption
      <4>2. S'.chain[n + 1].block[p] = data[j]
        BY <3>0, <3>2
      <4> HIDE DEF j
      <4>3. msg'[Len(msg) + j] = data[j]
        BY <4>1, <1>5
      <4>4. QED
        BY <4>1, <4>2, <4>3, <1>9
    <3>3. QED
      BY <3>1, <3>2
  <2>5. CutInto(S'.chain, msg')
    <3>1. n * BlockBytes <= Len(msg)
      BY <1>2, <1>9, <2>1
    <3>2. Value(S'.t) = (n + 1) * BlockBytes
      BY <1>9, <2>3
    <3>3. QED
      BY <3>1, <3>2, <1>2, <1>4, <1>5, <2>1, <2>4, CutGrows
  <2>6. ASSUME NEW j \in 1 .. Len(in')
        PROVE  in'[j] = msg'[Taken' + S'.buflen + j]
    <3> DEFINE l == j + Fill(S)
    <3>1. /\ j \in 1 .. Len(data) - Fill(S)
          /\ l \in 1 .. Len(data)
          /\ Len(msg) + l = Taken' + S'.buflen + j
      <4>1. j \in 1 .. Len(data) - Fill(S) /\ Len(data) \in Nat /\ Fill(S) \in Nat
        BY <1>1, <1>6, <1>7, BlockAssumption
      <4>2. Len(msg) + Fill(S) = Taken' + S'.buflen /\ Len(msg) \in Nat
            /\ Taken' + S'.buflen \in Nat
        <5>1. Taken' + S'.buflen = Taken + BlockBytes
          BY <1>4, <1>9, BlockAssumption
        <5>2. /\ Len(msg) = Taken + S.buflen /\ Fill(S) = BlockBytes - S.buflen
              /\ S.buflen \in Nat /\ Taken \in Nat
          BY <1>2, <1>6, <1>9, <2>1
        <5>3. QED
          BY <5>1, <5>2, BlockAssumption
      <4>3. QED
        BY <4>1, <4>2
    <3>2. in'[j] = data[l]
      BY <3>1, <1>7
    <3> HIDE DEF l
    <3>3. msg'[Len(msg) + l] = data[l]
      BY <3>1, <1>5
    <3>4. QED
      BY <3>1, <3>2, <3>3
  <2>7. QED
    BY <2>2, <2>3, <2>5, <2>6, <1>4
<1>11. ChainIsMessage'
  BY <1>10 DEF ChainIsMessage
<1>12. LoopHolds'
  <2>1. in' # <<>>
    BY <1>1, <1>6, <1>7
  <2>2. pc' # "ready" /\ S'.buflen = 0
    BY <1>3, <1>4
  <2>3. QED
    BY <2>1, <2>2 DEF LoopHolds
<1>13. Bounded'
  BY <1>3, <1>4, <1>5 DEF IInv, Bounded, SameFields
<1>14. QED
  BY <1>8, <1>11, <1>12, <1>13 DEF IInv

\* One turn of update's loop.
LEMMA NextBlockIInv ==
  ASSUME IInv, NextBlock
  PROVE  IInv'
<1> DEFINE n == Len(S.chain)
<1>1. /\ TypeOK /\ S \in StateType /\ msg \in Seq(Byte) /\ in \in Seq(Byte)
      /\ Len(in) \in Nat /\ Len(in) > BlockBytes /\ S.buflen = 0
      /\ Len(msg) <= MaxMessage /\ Len(msg) \in Nat
  BY BlockAssumption DEF IInv, TypeOK, NextBlock, LoopEnds, LoopHolds, Bounded
<1>2. /\ S' = WholeBlock(S, in, TRUE) /\ in' = After(in, BlockBytes)
      /\ pc = "loop" /\ pc' = "loop" /\ msg' = msg /\ digests' = digests
  BY DEF NextBlock
<1>3. /\ S' \in StateType /\ SameFields(S', S) /\ OneMore(S', S) /\ S'.buflen = 0
      /\ \A p \in 0 .. BlockBytes - 1 : S'.chain[n + 1].block[p] = in[p + 1]
  BY <1>1, <1>2, WholeBlockProperties
<1>4. /\ in' \in Seq(Byte)
      /\ Len(in') = Len(in) - BlockBytes
      /\ \A j \in 1 .. Len(in) - BlockBytes : in'[j] = in[j + BlockBytes]
  <2>1. BlockBytes \in 0 .. Len(in)
    BY <1>1, BlockAssumption
  <2>2. QED
    BY <2>1, <1>1, <1>2, AfterProperties
<1>5. TypeOK'
  BY <1>1, <1>2, <1>3, <1>4 DEF TypeOK
<1>6. /\ n \in Nat /\ Taken \in Nat /\ (n + 1) * BlockBytes = Taken + BlockBytes
      /\ n * BlockBytes = Taken
      /\ Taken' = Taken + BlockBytes
  BY <1>1, <1>3, TakenType DEF OneMore, Taken
<1>7. ASSUME ~S'.f
      PROVE  /\ Len(msg') = Taken' + S'.buflen + Len(in')
             /\ CutInto(S'.chain, msg')
             /\ Value(S'.t) = Taken'
             /\ \A p \in 0 .. S'.buflen - 1 : S'.buf[p] = msg'[Taken' + p + 1]
             /\ \A j \in 1 .. Len(in') : in'[j] = msg'[Taken' + S'.buflen + j]
  <2>1. /\ ~S.f
        /\ Len(msg) = Taken + Len(in)
        /\ CutInto(S.chain, msg)
        /\ Value(S.t) = Taken
        /\ \A j \in 1 .. Len(in) : in[j] = msg[Taken + j]
    <3>1. ~S.f
      BY <1>3, <1>7 DEF SameFields
    <3>2. QED
      BY <3>1, <1>1, <1>6 DEF IInv, ChainIsMessage
  <2>2. Len(msg') = Taken' + S'.buflen + Len(in')
    <3>1. Len(msg') = Taken + Len(in)
      BY <1>2, <2>1
    <3>2. Taken' + S'.buflen + Len(in') = Taken + BlockBytes + 0 + (Len(in) - BlockBytes)
      BY <1>3, <1>4, <1>6
    <3>3. QED
      BY <3>1, <3>2, <1>1, <1>6, BlockAssumption
  <2>3. Value(S'.t) = Taken'
    <3>1. S'.t = IncCounter(S, BlockBytes).t
      BY <1>3 DEF OneMore
    <3>2. BlockBytes \in 0 .. BlockBytes
      BY BlockAssumption
    <3>3. Value(S.t) + BlockBytes < WordValues * WordValues
      <4>1. WordValues * WordValues \in Nat
        BY WordAssumption
      <4>2. QED
        BY <4>1, <1>1, <1>6, <2>1, MaxMessageAssumption, BlockAssumption
    <3>4. QED
      BY <3>1, <3>2, <3>3, <1>1, <1>6, <2>1, IncCounterValue
  <2>4. ASSUME NEW p \in 0 .. BlockBytes - 1
        PROVE  S'.chain[n + 1].block[p] = msg'[n * BlockBytes + p + 1]
    <3>1. p + 1 \in 1 .. Len(in) /\ Taken + (p + 1) = Taken + p + 1
      BY <1>1, <1>6, BlockAssumption
    <3>2. in[p + 1] = msg[Taken + (p + 1)]
      BY <3>1, <2>1
    <3>3. QED
      BY <3>1, <3>2, <1>2, <1>3, <1>6
  <2>5. CutInto(S'.chain, msg')
    <3>1. n * BlockBytes <= Len(msg)
      BY <1>1, <1>6, <2>1
    <3>2. Value(S'.t) = (n + 1) * BlockBytes
      BY <1>6, <2>3
    <3>3. QED
      BY <3>1, <3>2, <1>1, <1>2, <1>3, <2>1, <2>4, CutGrows
  <2>6. ASSUME NEW j \in 1 .. Len(in')
        PROVE  in'[j] = msg'[Taken' + S'.buflen + j]
    <3>1. /\ j \in 1 .. Len(in) - BlockBytes
          /\ j + BlockBytes \in 1 .. Len(in)
          /\ Taken + (j + BlockBytes) = Taken' + S'.buflen + j
      BY <1>1, <1>3, <1>4, <1>6, BlockAssumption
    <3>2. in'[j] = in[j + BlockBytes] /\ in[j + BlockBytes] = msg[Taken + (j + BlockBytes)]
      BY <3>1, <1>4, <2>1
    <3>3. QED
      BY <3>1, <3>2, <1>2
  <2>7. QED
    BY <2>2, <2>3, <2>5, <2>6, <1>3
<1>8. ChainIsMessage'
  BY <1>7 DEF ChainIsMessage
<1>9. LoopHolds'
  <2>1. in' # <<>>
    BY <1>1, <1>4, BlockAssumption
  <2>2. QED
    BY <2>1, <1>2, <1>3 DEF LoopHolds
<1>10. Bounded'
  BY <1>2, <1>3 DEF IInv, Bounded, SameFields
<1>11. QED
  BY <1>5, <1>8, <1>9, <1>10 DEF IInv

\* The end of a long update: at least one byte goes to the buffer.
LEMMA StashRestIInv ==
  ASSUME IInv, StashRest
  PROVE  IInv'
<1>1. /\ TypeOK /\ S \in StateType /\ msg \in Seq(Byte) /\ in \in Seq(Byte)
      /\ Len(in) \in Nat /\ Len(in) <= BlockBytes /\ Len(in) > 0 /\ S.buflen = 0
  BY BlockAssumption DEF IInv, TypeOK, StashRest, LoopEnds, LoopHolds
<1>2. /\ S' = Stash(S, in) /\ in' = <<>> /\ pc = "loop" /\ pc' = "ready"
      /\ msg' = msg /\ digests' = digests
  BY DEF StashRest
<1>3. ~Overfills(S, in)
  BY <1>1, BlockAssumption DEF Overfills, Fill
<1>4. /\ S' \in StateType
      /\ SameFields(S', S) /\ S'.t = S.t /\ S'.chain = S.chain
      /\ S'.buflen = Len(in)
      /\ \A p \in 0 .. Len(in) - 1 : S'.buf[p] = in[p + 1]
  <2>1. /\ S' \in StateType
        /\ SameFields(S', S) /\ S'.t = S.t /\ S'.chain = S.chain
        /\ S'.buflen = S.buflen + Len(in)
        /\ \A p \in 0 .. S.buflen + Len(in) - 1 :
             S'.buf[p] = IF p < S.buflen THEN S.buf[p] ELSE in[p - S.buflen + 1]
    BY <1>1, <1>2, <1>3, StashProperties
  <2>2. QED
    BY <2>1, <1>1
<1>5. TypeOK'
  BY <1>1, <1>2, <1>4 DEF TypeOK
<1>6. Taken' = Taken /\ Taken \in Nat
  BY <1>1, <1>4, TakenType DEF Taken
<1>7. ASSUME ~S'.f
      PROVE  /\ Len(msg') = Taken' + S'.buflen + Len(in')
             /\ CutInto(S'.chain, msg')
             /\ Value(S'.t) = Taken'
             /\ \A p \in 0 .. S'.buflen - 1 : S'.buf[p] = msg'[Taken' + p + 1]
             /\ \A j \in 1 .. Len(in') : in'[j] = msg'[Taken' + S'.buflen + j]
  <2>1. /\ Len(msg) = Taken + Len(in)
        /\ CutInto(S.chain, msg)
        /\ Value(S.t) = Taken
        /\ \A j \in 1 .. Len(in) : in[j] = msg[Taken + j]
    <3>1. ~S.f
      BY <1>4, <1>7 DEF SameFields
    <3>2. QED
      BY <3>1, <1>1, <1>6 DEF IInv, ChainIsMessage
  <2>2. Len(in') = 0
    BY <1>2
  <2>3. Len(msg') = Taken' + S'.buflen + Len(in')
    BY <1>1, <1>2, <1>4, <1>6, <2>1, <2>2
  <2>4. ASSUME NEW p \in 0 .. S'.buflen - 1
        PROVE  S'.buf[p] = msg'[Taken' + p + 1]
    <3>1. /\ p \in 0 .. Len(in) - 1 /\ p + 1 \in 1 .. Len(in)
          /\ Taken + (p + 1) = Taken' + p + 1
      BY <1>1, <1>4, <1>6
    <3>2. S'.buf[p] = in[p + 1] /\ in[p + 1] = msg[Taken + (p + 1)]
      BY <3>1, <1>4, <2>1
    <3>3. QED
      BY <3>1, <3>2, <1>2
  <2>5. QED
    BY <1>2, <1>4, <1>6, <2>1, <2>2, <2>3, <2>4
<1>8. ChainIsMessage'
  BY <1>7 DEF ChainIsMessage
<1>9. LoopHolds'
  BY <1>1, <1>2, <1>4 DEF LoopHolds
<1>10. Bounded'
  BY <1>2, <1>4 DEF IInv, Bounded, SameFields
<1>11. QED
  BY <1>5, <1>8, <1>9, <1>10 DEF IInv

-----------------------------------------------------------------------------
\* The last block: padded, counted to its last byte, flagged.
LEMMA FinalProperties ==
  ASSUME NEW T \in StateType
  PROVE  LET U == FinalWith(T, TRUE)
             padded == U.chain[Len(T.chain) + 1].block
         IN  /\ U \in StateType
             /\ U.f /\ U.param = T.param
             /\ Len(U.chain) = Len(T.chain) + 1
             /\ \A i \in 1 .. Len(T.chain) : U.chain[i] = T.chain[i]
             /\ U.chain[Len(T.chain) + 1] =
                  Compression(padded, IncCounter(T, T.buflen).t, TRUE, TRUE)
             /\ padded \in Block
             /\ \A p \in 0 .. BlockBytes - 1 :
                  padded[p] = IF p < T.buflen THEN T.buf[p] ELSE 0
<1> DEFINE zeros == [i \in 1 .. Fill(T) |-> 0]
           filled == Put(T.buf, T.buflen, zeros)
           C == IncCounter(T, T.buflen)
           F == [C EXCEPT !.f = TRUE]
           V == [F EXCEPT !.buf = filled]
           U == Compress(V, filled, TRUE)
<1>1. T.buflen \in 0 .. BlockBytes /\ T.buflen \in Nat /\ T.buf \in Block
  BY BlockAssumption DEF StateType
<1>2. /\ zeros \in Seq(Byte) /\ Len(zeros) = BlockBytes - T.buflen
      /\ \A i \in 1 .. Len(zeros) : zeros[i] = 0
  <2>1. Fill(T) \in Nat /\ Fill(T) = BlockBytes - T.buflen
    BY <1>1, BlockAssumption DEF Fill
  <2>2. QED
    BY <2>1, ByteAssumption
<1> HIDE DEF zeros
<1>3. /\ filled \in Block
      /\ \A p \in 0 .. BlockBytes - 1 :
           filled[p] = IF p >= T.buflen /\ p < T.buflen + Len(zeros)
                       THEN zeros[p - T.buflen + 1] ELSE T.buf[p]
  BY <1>1, <1>2, PutProperties
<1> HIDE DEF filled
<1>4. \A p \in 0 .. BlockBytes - 1 :
        filled[p] = IF p < T.buflen THEN T.buf[p] ELSE 0
  BY <1>1, <1>2, <1>3, BlockAssumption
<1>5. C \in StateType /\ C = [T EXCEPT !.t = C.t]
  BY <1>1, IncCounterType
<1>6. C.param = T.param /\ C.chain = T.chain
  BY <1>5 DEF StateType
<1> HIDE DEF C
<1>7. F \in StateType /\ F.f /\ F.t = C.t /\ F.param = T.param /\ F.chain = T.chain
  BY <1>5, <1>6 DEF StateType
<1> HIDE DEF F
<1>8. V \in StateType /\ V.f /\ V.t = C.t /\ V.param = T.param /\ V.chain = T.chain
  BY <1>3, <1>7 DEF StateType
<1> HIDE DEF V
<1>9. /\ U \in StateType
      /\ U = [V EXCEPT !.chain = U.chain]
      /\ Len(U.chain) = Len(V.chain) + 1
      /\ \A i \in 1 .. Len(V.chain) : U.chain[i] = V.chain[i]
      /\ U.chain[Len(V.chain) + 1] = Compression(filled, V.t, V.f, TRUE)
  BY <1>3, <1>8, CompressProperties
<1>10. FinalWith(T, TRUE) = U
  BY DEF FinalWith, U, V, F, C, filled, zeros
<1> HIDE DEF U
<1>11. U.f /\ U.param = T.param
  BY <1>8, <1>9 DEF StateType
<1>12. /\ U.chain[Len(T.chain) + 1] = Compression(filled, C.t, TRUE, TRUE)
       /\ U.chain[Len(T.chain) + 1].block = filled
  BY <1>8, <1>9 DEF Compression, StateType
<1>13. QED
  BY <1>3, <1>4, <1>8, <1>9, <1>10, <1>11, <1>12 DEF C

\* ub_final_with preserves it: what the chain holds of the message is claimed
\* only until the flag is set.
LEMMA FinalIInv ==
  ASSUME IInv, Final
  PROVE  IInv'
<1>1. /\ TypeOK /\ S \in StateType
      /\ S' = FinalWith(S, TRUE) /\ digests' = Append(digests, Output(S'))
      /\ pc = "ready" /\ pc' = pc /\ in = <<>> /\ in' = in /\ msg' = msg
  BY DEF IInv, TypeOK, LoopHolds, Final
<1>2. S' \in StateType /\ S'.f
  BY <1>1, FinalProperties
<1>3. Output(S') \in [param : [outlen : OutLens, personal : Personals],
                       chain : ChainType]
  BY <1>2 DEF Output, StateType
<1>4. TypeOK'
  BY <1>1, <1>2, <1>3, AppendFacts DEF TypeOK
<1>5. ChainIsMessage' /\ LoopHolds' /\ Bounded'
  BY <1>1, <1>2 DEF IInv, ChainIsMessage, LoopHolds, Bounded
<1>6. QED
  BY <1>4, <1>5 DEF IInv

\* Every step of the stream, refused calls and stutters included, preserves
\* the invariant.
LEMMA NextIInv == IInv /\ [Next]_vars => IInv'
<1> SUFFICES ASSUME IInv, [Next]_vars PROVE IInv'
  OBVIOUS
<1>1. ASSUME NEW data \in Inputs, Update(data) PROVE IInv'
  BY <1>1, UpdateShortIInv, UpdateLongIInv
<1>2. CASE NextBlock
  BY <1>2, NextBlockIInv
<1>3. CASE StashRest
  BY <1>3, StashRestIInv
<1>4. CASE Final
  BY <1>4, FinalIInv
<1>5. CASE UNCHANGED vars
  BY <1>5 DEF vars, IInv, TypeOK, ChainIsMessage, LoopHolds, Bounded, Taken
<1>6. QED
  BY <1>1, <1>2, <1>3, <1>4, <1>5 DEF Next

\* The invariant holds of every reachable state of the stream.
THEOREM Inductive == Spec => []IInv
<1>1. QED
  BY InitIInv, NextIInv, PTL DEF Spec

\* Every field stays in range: no byte is written beyond the buffer.
THEOREM TypeCorrect == Spec => []TypeOK
<1>1. IInv => TypeOK
  BY DEF IInv
<1>2. QED
  BY <1>1, Inductive, PTL

\* Wherever the message is cut, what was compressed and counted is the message.
THEOREM Streamed == Spec => []ChainIsMessage
<1>1. IInv => ChainIsMessage
  BY DEF IInv
<1>2. QED
  BY <1>1, Inductive, PTL

\* No block is compressed before a byte is known to follow it.
THEOREM Held == Spec => []LastBlockHeld
<1>1. IInv => LastBlockHeld
  BY DEF IInv, TypeOK, LoopHolds, LastBlockHeld
<1>2. QED
  BY <1>1, Inductive, PTL

-----------------------------------------------------------------------------
(* The digest final hands out is the digest of RFC 7693.                   *)

\* Two words that hold k are the counter of k.
LEMMA CounterUnique ==
  ASSUME NEW t \in Counter, NEW k \in Nat, Value(t) = k
  PROVE  t = CounterOf(k)
<1> DEFINE lo == t[1]
           hi == t[2]
<1>1. lo \in 0 .. WordValues - 1 /\ hi \in 0 .. WordValues - 1 /\ t = <<lo, hi>>
  BY DEF Counter
<1>2. k = hi * WordValues + lo
  BY <1>1, WordAssumption DEF Value
<1> HIDE DEF lo, hi
<1>3. WordValues \in Nat \ {0} /\ hi \in Nat
  BY <1>1, WordAssumption, BlockAssumption
<1>4. k \div WordValues = hi /\ k % WordValues = lo
  BY <1>1, <1>2, <1>3, DivisionUnique
<1>5. hi % WordValues = hi
  <2>1. hi = 0 * WordValues + hi
    BY <1>3
  <2>2. QED
    BY <1>1, <1>3, <2>1, DivisionUnique
<1>6. QED
  BY <1>1, <1>4, <1>5 DEF CounterOf

\* n whole blocks and a last one of b bytes, none only for the empty message.
LEMMA BlockCountValue ==
  ASSUME NEW m \in Seq(Byte), NEW n \in Nat, NEW b \in 0 .. BlockBytes,
         Len(m) = n * BlockBytes + b,
         m # <<>> => b > 0
  PROVE  BlockCount(m) = n + 1
<1>1. CASE m = <<>>
  <2>1. n * BlockBytes = 0
    <3>1. n * BlockBytes \in Nat
      BY BlockAssumption
    <3>2. QED
      BY <1>1, <3>1, BlockAssumption
  <2>2. n = 0
    BY <2>1, BlockAssumption
  <2>3. QED
    BY <1>1, <2>2 DEF BlockCount
<1>2. CASE m # <<>>
  <2> DEFINE q == n + 1
             r == b - 1
  <2>1. q \in Nat /\ r \in 0 .. BlockBytes - 1
    BY <1>2, BlockAssumption
  <2>2. Len(m) + BlockBytes - 1 = q * BlockBytes + r
    BY BlockAssumption
  <2> HIDE DEF q, r
  <2>3. (q * BlockBytes + r) \div BlockBytes = q
    BY <2>1, BlockAssumption, DivisionUnique
  <2>4. BlockCount(m) = q
    BY <1>2, <2>2, <2>3 DEF BlockCount
  <2>5. QED
    BY <2>4 DEF q
<1>3. QED
  BY <1>1, <1>2

\* The last block put on a stream that holds all of the message gives its digest.
LEMMA FinalWithDigest ==
  ASSUME TypeOK, ChainIsMessage, ~S.f, in = <<>>, Len(msg) <= MaxMessage,
         msg # <<>> => S.buflen > 0
  PROVE  Output(FinalWith(S, TRUE)) = Digest(S.param, msg)
<1> DEFINE n == Len(S.chain)
           b == S.buflen
           U == FinalWith(S, TRUE)
<1>1. /\ TypeOK /\ S \in StateType
      /\ ~S.f /\ in = <<>> /\ Len(msg) <= MaxMessage
      /\ msg \in Seq(Byte) /\ b \in 0 .. BlockBytes /\ (msg # <<>> => b > 0)
  BY DEF TypeOK, StateType
<1>2. /\ n \in Nat /\ Taken = n * BlockBytes /\ Taken \in Nat
  BY <1>1, TakenType DEF Taken
<1>3. /\ Len(msg) = n * BlockBytes + b
      /\ CutInto(S.chain, msg)
      /\ Value(S.t) = Taken
      /\ \A p \in 0 .. b - 1 : S.buf[p] = msg[Taken + p + 1]
  <2>1. Len(in) = 0
    BY <1>1
  <2>2. QED
    BY <1>1, <1>2, <2>1 DEF ChainIsMessage
<1>4. BlockCount(msg) = n + 1
  BY <1>1, <1>2, <1>3, BlockCountValue
<1> DEFINE padded == U.chain[n + 1].block
<1>5. /\ U \in StateType /\ U.param = S.param
      /\ Len(U.chain) = n + 1
      /\ \A i \in 1 .. n : U.chain[i] = S.chain[i]
      /\ U.chain[n + 1] = Compression(padded, IncCounter(S, b).t, TRUE, TRUE)
      /\ padded \in Block
      /\ \A p \in 0 .. BlockBytes - 1 : padded[p] = IF p < b THEN S.buf[p] ELSE 0
  BY <1>1, FinalProperties
<1> HIDE DEF U
<1>6. IncCounter(S, b).t = CounterOf(Len(msg))
  <2>1. WordValues * WordValues \in Nat /\ Len(msg) \in Nat
    BY <1>1, WordAssumption
  <2>2. Value(S.t) + b = Len(msg)
    BY <1>2, <1>3
  <2>3. Value(S.t) + b < WordValues * WordValues
    BY <1>1, <2>1, <2>2, MaxMessageAssumption
  <2>4. Value(IncCounter(S, b).t) = Len(msg) /\ IncCounter(S, b).t \in Counter
    BY <1>1, <2>2, <2>3, IncCounterValue, IncCounterType
  <2>5. QED
    BY <2>1, <2>4, CounterUnique
<1>7. padded = PaddedBlock(msg, n + 1)
  <2>1. ASSUME NEW p \in 0 .. BlockBytes - 1
        PROVE  padded[p] = PaddedBlock(msg, n + 1)[p]
    <3>1. PaddedBlock(msg, n + 1)[p] =
            IF Taken + p + 1 <= Len(msg) THEN msg[Taken + p + 1] ELSE 0
      <4>1. (n + 1 - 1) * BlockBytes = Taken
        BY <1>2
      <4>2. QED
        BY <4>1 DEF PaddedBlock
    <3>2. Taken + p + 1 <= Len(msg) <=> p < b
      BY <1>1, <1>2, <1>3, BlockAssumption
    <3>3. p < b => S.buf[p] = msg[Taken + p + 1]
      BY <1>1, <1>3, BlockAssumption
    <3>4. padded[p] = IF p < b THEN S.buf[p] ELSE 0
      BY <1>5
    <3>5. QED
      BY <3>1, <3>2, <3>3, <3>4
  <2>2. padded = [p \in 0 .. BlockBytes - 1 |-> padded[p]]
    BY <1>5 DEF Block
  <2>3. PaddedBlock(msg, n + 1) = [p \in 0 .. BlockBytes - 1 |-> PaddedBlock(msg, n + 1)[p]]
    BY DEF PaddedBlock
  <2> HIDE DEF padded
  <2>4. QED
    BY <2>1, <2>2, <2>3, Zenon
<1>8. ASSUME NEW i \in 1 .. n
      PROVE  U.chain[i] =
               Compression(PaddedBlock(msg, i), CounterOf(i * BlockBytes), FALSE, TRUE)
  <2> DEFINE e == S.chain[i]
  <2>1. e \in CompressionType
    <3>1. S.chain \in Seq(CompressionType)
      BY <1>1 DEF StateType, ChainType
    <3>2. QED
      BY <3>1
  <2>2. /\ \A p \in 0 .. BlockBytes - 1 : e.block[p] = msg[(i - 1) * BlockBytes + p + 1]
        /\ Value(e.t) = i * BlockBytes /\ ~e.last /\ e.right
    BY <1>3 DEF CutInto
  <2> HIDE DEF e
  <2>3. e.t = CounterOf(i * BlockBytes)
    <3>1. i * BlockBytes \in Nat
      BY BlockAssumption
    <3>2. e.t \in Counter
      BY <2>1 DEF CompressionType
    <3>3. QED
      BY <2>2, <3>1, <3>2, CounterUnique
  <2>4. e.block = PaddedBlock(msg, i)
    <3>1. ASSUME NEW p \in 0 .. BlockBytes - 1
          PROVE  e.block[p] = PaddedBlock(msg, i)[p]
      <4> DEFINE start == (i - 1) * BlockBytes
                 end == i * BlockBytes
      <4>1. /\ start \in Nat /\ end \in Nat /\ start + BlockBytes = end
            /\ end <= n * BlockBytes
        BY <1>2, BlockAssumption
      <4>2. PaddedBlock(msg, i)[p] =
              IF start + p + 1 <= Len(msg) THEN msg[start + p + 1] ELSE 0
        BY DEF PaddedBlock
      <4>3. e.block[p] = msg[start + p + 1]
        BY <2>2
      <4> HIDE DEF start, end
      <4>4. start + p + 1 <= Len(msg)
        <5>1. n * BlockBytes <= Len(msg) /\ Len(msg) \in Nat /\ n * BlockBytes \in Nat
          BY <1>1, <1>2, <1>3, BlockAssumption
        <5>2. QED
          BY <4>1, <5>1, BlockAssumption
      <4>5. QED
        BY <4>2, <4>3, <4>4
    <3>2. e.block = [p \in 0 .. BlockBytes - 1 |-> e.block[p]]
      BY <2>1 DEF Block, CompressionType
    <3>3. PaddedBlock(msg, i) = [p \in 0 .. BlockBytes - 1 |-> PaddedBlock(msg, i)[p]]
      BY DEF PaddedBlock
    <3>4. QED
      BY <3>1, <3>2, <3>3, Zenon
  <2>5. e.last = FALSE /\ e.right = TRUE
    BY <2>1, <2>2 DEF CompressionType
  <2>6. e = Compression(PaddedBlock(msg, i), CounterOf(i * BlockBytes), FALSE, TRUE)
    BY <2>1, <2>3, <2>4, <2>5 DEF Compression, CompressionType
  <2>7. QED
    BY <1>5, <2>6 DEF e
<1> HIDE DEF padded, n
<1>9. U.chain = Chain(msg)
  <2>1. U.chain = [i \in 1 .. n + 1 |-> U.chain[i]]
    BY <1>5 DEF StateType, ChainType
  <2>2. Chain(msg) = [i \in 1 .. n + 1 |-> Chain(msg)[i]]
    BY <1>4 DEF Chain
  <2>3. ASSUME NEW i \in 1 .. n + 1
        PROVE  U.chain[i] = Chain(msg)[i]
    <3>1. Chain(msg)[i] =
            Compression(PaddedBlock(msg, i),
                        CounterOf(IF i = n + 1 THEN Len(msg) ELSE i * BlockBytes),
                        i = n + 1, TRUE)
      BY <1>4 DEF Chain
    <3>2. CASE i = n + 1
      BY <3>1, <3>2, <1>5, <1>6, <1>7
    <3>3. CASE i # n + 1
      <4>1. i \in 1 .. n /\ (i = n + 1) = FALSE
        BY <1>2, <3>3
      <4>2. QED
        BY <3>1, <4>1, <1>8
    <3>4. QED
      BY <3>2, <3>3
  <2>4. QED
    BY <2>1, <2>2, <2>3, Zenon
<1>10. QED
  BY <1>5, <1>9 DEF Output, Digest, U

\* The digest final hands out, once, is the digest of all that was absorbed.
LEMMA FinalDigest ==
  ASSUME IInv, Final
  PROVE  Output(S') = Digest(S.param, msg)
<1>1. /\ TypeOK /\ ChainIsMessage /\ ~S.f /\ in = <<>> /\ Len(msg) <= MaxMessage
      /\ msg # <<>> => S.buflen > 0
      /\ S' = FinalWith(S, TRUE)
  BY DEF IInv, LoopHolds, Bounded, Final, FinalRefused
<1>2. QED
  BY <1>1, FinalWithDigest

\* The promise speaks of the same function.
LEMMA SameDigest ==
  ASSUME NEW prm, NEW m
  PROVE  Object!Digest(prm, m) = Digest(prm, m)
  BY DEF Object!Digest, Digest, Object!Chain, Chain, Object!BlockCount, BlockCount,
         Object!PaddedBlock, PaddedBlock, Object!CounterOf, CounterOf,
         Object!Compression, Compression

\* Every step is a step of the abstract hash object: updates absorb, the loop
\* stutters, and the first final is the only Finish.
LEMMA StepIsObject ==
  ASSUME IInv, [Next]_vars
  PROVE  [Object!Next]_<<S.param, msg, digests>>
<1>1. TypeOK /\ S \in StateType /\ msg \in Seq(Byte)
  BY DEF IInv, TypeOK
<1>2. ASSUME NEW data \in Inputs, Update(data)
      PROVE  Object!Absorb
  <2>1. data \in Seq(Byte) /\ msg' = msg \o data /\ digests' = digests
    BY <1>2, InputsAssumption DEF Update
  <2>2. msg' \in Seq(Byte) /\ Len(msg') >= Len(msg) /\ SubSeq(msg', 1, Len(msg)) = msg
    <3>1. /\ msg' \in Seq(Byte) /\ Len(msg') = Len(msg) + Len(data)
          /\ \A j \in 1 .. Len(msg) : msg'[j] = msg[j]
      BY <1>1, <2>1, MessageGrows
    <3>2. Len(msg) \in 0 .. Len(msg')
      BY <1>1, <2>1, <3>1
    <3>3. /\ SubSeq(msg', 1, Len(msg)) \in Seq(Byte)
          /\ Len(SubSeq(msg', 1, Len(msg))) = Len(msg)
          /\ \A j \in 1 .. Len(msg) : SubSeq(msg', 1, Len(msg))[j] = msg'[j]
      BY <3>1, <3>2, FirstProperties
    <3> DEFINE begin == SubSeq(msg', 1, Len(msg))
    <3> HIDE DEF begin
    <3>4. begin = msg
      BY <1>1, <3>1, <3>3 DEF begin
    <3>5. QED
      BY <3>1, <3>2, <3>4 DEF begin
  <2>3. S'.param = S.param
    <3>1. CASE Overfills(S, data)
      <4>1. S' = FillBlock(S, data, TRUE)
        BY <1>2, <3>1 DEF Update
      <4>2. SameFields(FillBlock(S, data, TRUE), S)
        BY <1>1, <2>1, <3>1, FillBlockProperties
      <4>3. QED
        BY <4>1, <4>2 DEF SameFields
    <3>2. CASE ~Overfills(S, data)
      <4>1. S' = Stash(S, data)
        BY <1>2, <3>2 DEF Update
      <4>2. SameFields(Stash(S, data), S)
        BY <1>1, <2>1, <3>2, StashProperties
      <4>3. QED
        BY <4>1, <4>2 DEF SameFields
    <3>3. QED
      BY <3>1, <3>2
  <2>4. QED
    BY <2>1, <2>2, <2>3 DEF Object!Absorb
<1>3. CASE NextBlock
  <2>1. in \in Seq(Byte) /\ Len(in) > BlockBytes
    BY <1>1, <1>3, BlockAssumption DEF TypeOK, NextBlock, LoopEnds
  <2>2. S'.param = S.param
    BY <1>1, <1>3, <2>1, WholeBlockProperties DEF NextBlock, SameFields
  <2>3. QED
    BY <1>3, <2>2 DEF NextBlock
<1>4. CASE StashRest
  <2>1. in \in Seq(Byte) /\ ~Overfills(S, in)
    BY <1>1, <1>4, BlockAssumption
       DEF IInv, TypeOK, StashRest, LoopEnds, LoopHolds, Overfills, Fill
  <2>2. S'.param = S.param
    BY <1>1, <1>4, <2>1, StashProperties DEF StashRest, SameFields
  <2>3. QED
    BY <1>4, <2>2 DEF StashRest
<1>5. CASE Final
  <2>1. Output(S') = Object!Digest(S.param, msg)
    BY <1>5, FinalDigest, SameDigest
  <2>2. digests = <<>>
    BY <1>5 DEF IInv, Bounded, Final, FinalRefused
  <2>3. digests' = <<Output(S')>>
    BY <1>5, <2>2 DEF Final
  <2>4. S'.param = S.param
    BY <1>1, <1>5, FinalProperties DEF Final
  <2>5. QED
    BY <1>5, <2>1, <2>2, <2>3, <2>4 DEF Object!Next, Object!Finish, Final
<1>6. CASE UNCHANGED vars
  BY <1>6 DEF vars
<1>7. QED
  BY <1>2, <1>3, <1>4, <1>5, <1>6 DEF Next, Object!Next

\* The stream implements the hash object: one digest, of the whole message.
THEOREM StreamIsObject == Spec => ImplementsObject
<1>1. Init => Object!Init
  <2> SUFFICES ASSUME Init PROVE Object!Init
    OBVIOUS
  <2>1. S.param \in [outlen : OutLens, personal : Personals]
    BY InitIInv DEF IInv, TypeOK, StateType
  <2>2. QED
    BY <2>1 DEF Init, Object!Init
<1>2. QED
  BY <1>1, StepIsObject, Inductive, PTL DEF Spec, ImplementsObject, Object!Spec

-----------------------------------------------------------------------------

\* The two share the primitives on the state.
LEMMA SamePrimitives ==
  /\ \A T : Bundled!Fill(T) = Fill(T)
  /\ \A T, data : Bundled!Stash(T, data) = Stash(T, data)
  /\ \A data, n : Bundled!After(data, n) = After(data, n)
  /\ \A T : Bundled!FinalWith(T, TRUE) = FinalWith(T, TRUE)
  /\ \A T : Bundled!Output(T) = Output(T)
  /\ \A outlen, person : Bundled!InitWith(outlen, person) = InitWith(outlen, person)
<1>1. \A T : Bundled!Fill(T) = Fill(T)
  BY DEF Bundled!Fill, Fill
<1>2. \A T, data : Bundled!Stash(T, data) = Stash(T, data)
  BY DEF Bundled!Stash, Stash, Bundled!Put, Put
<1>3. \A data, n : Bundled!After(data, n) = After(data, n)
  BY DEF Bundled!After, After
<1>4. \A T : Bundled!FinalWith(T, TRUE) = FinalWith(T, TRUE)
  BY DEF Bundled!FinalWith, FinalWith, Bundled!Put, Put, Bundled!Fill, Fill,
         Bundled!IncCounter, IncCounter, Bundled!Compress, Compress,
         Bundled!Compression, Compression
<1>5. \A T : Bundled!Output(T) = Output(T)
  BY DEF Bundled!Output, Output
<1>6. \A outlen, person : Bundled!InitWith(outlen, person) = InitWith(outlen, person)
  BY DEF Bundled!InitWith, InitWith, Bundled!Param, Param, Bundled!ZeroBlock, ZeroBlock
<1>7. QED
  BY <1>1, <1>2, <1>3, <1>4, <1>5, <1>6

\* What update compresses when its buffer is full and a byte follows.
FlushedState(T) == Compress(IncCounter(T, BlockBytes), T.buf, TRUE)

LEMMA FlushedIs ==
  ASSUME NEW T
  PROVE  Bundled!Flushed(T) =
           IF T.buflen < BlockBytes THEN T ELSE [FlushedState(T) EXCEPT !.buflen = 0]
  BY DEF Bundled!Flushed, FlushedState, Bundled!IncCounter, IncCounter,
         Bundled!Compress, Compress, Bundled!Compression, Compression

\* The state T, the input left over and the message m belong together.
Stands(T, rest, m) ==
  LET taken == Len(T.chain) * BlockBytes
  IN  /\ Len(m) = taken + T.buflen + Len(rest)
      /\ CutInto(T.chain, m)
      /\ Value(T.t) = taken
      /\ \A p \in 0 .. T.buflen - 1 : T.buf[p] = m[taken + p + 1]
      /\ \A j \in 1 .. Len(rest) : rest[j] = m[taken + T.buflen + j]

LEMMA StandsIsMessage == ~S.f => (ChainIsMessage <=> Stands(S, in, msg))
  BY DEF ChainIsMessage, Stands, Taken

-----------------------------------------------------------------------------
\* The full buffer becomes a block, counted, and the buffer is empty.
LEMMA FlushProperties ==
  ASSUME NEW T \in StateType, T.buflen = BlockBytes
  PROVE  LET U == [FlushedState(T) EXCEPT !.buflen = 0]
         IN  /\ U \in StateType
             /\ SameFields(U, T)
             /\ OneMore(U, T)
             /\ U.buflen = 0
             /\ \A p \in 0 .. BlockBytes - 1 :
                  U.chain[Len(T.chain) + 1].block[p] = T.buf[p]
<1> DEFINE C == IncCounter(T, BlockBytes)
           F == Compress(C, T.buf, TRUE)
           U == [F EXCEPT !.buflen = 0]
<1>1. BlockBytes \in 0 .. BlockBytes /\ 0 \in 0 .. BlockBytes /\ T.buf \in Block
  BY BlockAssumption DEF StateType
<1>2. C \in StateType /\ C = [T EXCEPT !.t = C.t]
  BY <1>1, IncCounterType
<1> HIDE DEF C
<1>3. /\ C.param = T.param /\ C.f = T.f /\ C.outlen = T.outlen
      /\ C.chain = T.chain /\ C.buf = T.buf
  BY <1>2 DEF StateType
<1>4. /\ F \in StateType
      /\ F = [C EXCEPT !.chain = F.chain]
      /\ Len(F.chain) = Len(C.chain) + 1
      /\ \A i \in 1 .. Len(C.chain) : F.chain[i] = C.chain[i]
      /\ F.chain[Len(C.chain) + 1] = Compression(T.buf, C.t, C.f, TRUE)
  BY <1>1, <1>2, CompressProperties
<1> HIDE DEF F
<1>5. F.param = T.param /\ F.f = T.f /\ F.outlen = T.outlen /\ F.t = C.t
  BY <1>2, <1>3, <1>4 DEF StateType
<1>6. /\ U \in StateType /\ U.buflen = 0 /\ U.chain = F.chain /\ U.t = F.t
      /\ U.param = F.param /\ U.f = F.f /\ U.outlen = F.outlen
  BY <1>1, <1>4 DEF StateType
<1> HIDE DEF U
<1>7. SameFields(U, T)
  BY <1>5, <1>6 DEF SameFields
<1> DEFINE e == Compression(T.buf, C.t, C.f, TRUE)
<1>8. e.block = T.buf /\ e.t = C.t /\ e.last = C.f /\ e.right = TRUE
  BY DEF Compression
<1> HIDE DEF e
<1>9. U.chain[Len(T.chain) + 1] = e
  BY <1>3, <1>4, <1>6 DEF e
<1>10. OneMore(U, T)
  <2>1. U.t = IncCounter(T, BlockBytes).t
    BY <1>5, <1>6 DEF C
  <2>2. Len(U.chain) = Len(T.chain) + 1
    BY <1>3, <1>4, <1>6
  <2>3. \A i \in 1 .. Len(T.chain) : U.chain[i] = T.chain[i]
    BY <1>3, <1>4, <1>6
  <2>4. QED
    BY <2>1, <2>2, <2>3, <1>3, <1>5, <1>6, <1>8, <1>9 DEF OneMore
<1>11. \A p \in 0 .. BlockBytes - 1 : U.chain[Len(T.chain) + 1].block[p] = T.buf[p]
  BY <1>8, <1>9
<1>12. [FlushedState(T) EXCEPT !.buflen = 0] = U
  BY DEF FlushedState, C, F, U
<1>13. QED
  BY <1>6, <1>7, <1>10, <1>11, <1>12

\* Flushing keeps state, rest and message together.
LEMMA FlushStands ==
  ASSUME NEW T \in StateType, T.buflen = BlockBytes, ~T.f,
         NEW rest \in Seq(Byte), NEW m \in Seq(Byte), Len(m) <= MaxMessage,
         Stands(T, rest, m)
  PROVE  Stands([FlushedState(T) EXCEPT !.buflen = 0], rest, m)
<1> DEFINE U == [FlushedState(T) EXCEPT !.buflen = 0]
           n == Len(T.chain)
           taken == n * BlockBytes
<1>1. /\ U \in StateType /\ SameFields(U, T) /\ OneMore(U, T) /\ U.buflen = 0
      /\ \A p \in 0 .. BlockBytes - 1 : U.chain[n + 1].block[p] = T.buf[p]
  BY FlushProperties
<1> HIDE DEF U
<1>2. n \in Nat
  BY DEF StateType, ChainType
<1>3. taken \in Nat /\ (n + 1) * BlockBytes = taken + BlockBytes
  BY <1>2, BlockAssumption
<1>4. /\ Len(m) = taken + BlockBytes + Len(rest)
      /\ CutInto(T.chain, m)
      /\ Value(T.t) = taken
      /\ \A p \in 0 .. BlockBytes - 1 : T.buf[p] = m[taken + p + 1]
      /\ \A j \in 1 .. Len(rest) : rest[j] = m[taken + BlockBytes + j]
  BY DEF Stands
<1>5. Len(m) \in Nat /\ Len(rest) \in Nat
  OBVIOUS
<1>6. Value(U.t) = taken + BlockBytes
  <2>1. BlockBytes \in 0 .. BlockBytes
    BY BlockAssumption
  <2>2. Value(T.t) + BlockBytes < WordValues * WordValues
    <3>1. WordValues * WordValues \in Nat
      BY WordAssumption
    <3>2. QED
      BY <3>1, <1>3, <1>4, <1>5, MaxMessageAssumption, BlockAssumption
  <2>3. QED
    BY <1>1, <1>4, <2>1, <2>2, IncCounterValue DEF OneMore
<1>7. CutInto(U.chain, m)
  <2>1. n * BlockBytes <= Len(m)
    BY <1>3, <1>4, <1>5, BlockAssumption
  <2>2. \A p \in 0 .. BlockBytes - 1 : U.chain[n + 1].block[p] = m[n * BlockBytes + p + 1]
    BY <1>1, <1>4
  <2>3. Value(U.t) = (n + 1) * BlockBytes
    BY <1>3, <1>6
  <2>4. QED
    BY <1>1, <1>4, <2>1, <2>2, <2>3, CutGrows
<1>8. Len(U.chain) * BlockBytes = taken + BlockBytes
  BY <1>1, <1>3 DEF OneMore
<1> HIDE DEF taken, n
<1>9. Len(m) = taken + BlockBytes + 0 + Len(rest)
  BY <1>3, <1>4, <1>5, BlockAssumption
<1>10. \A j \in 1 .. Len(rest) : taken + BlockBytes + 0 + j = taken + BlockBytes + j
  BY <1>3, BlockAssumption
<1>11. QED
  BY <1>1, <1>4, <1>6, <1>7, <1>8, <1>9, <1>10 DEF Stands, U

\* What goes to the buffer leaves the rest and keeps all three together.
LEMMA StashStands ==
  ASSUME NEW T \in StateType, NEW rest \in Seq(Byte), NEW m \in Seq(Byte),
         NEW k \in 0 .. Len(rest), k <= Fill(T),
         Stands(T, rest, m)
  PROVE  LET U == Stash(T, SubSeq(rest, 1, k))
         IN  /\ U \in StateType
             /\ SameFields(U, T)
             /\ U.buflen = T.buflen + k
             /\ After(rest, k) \in Seq(Byte)
             /\ Len(After(rest, k)) = Len(rest) - k
             /\ Stands(U, After(rest, k), m)
<1> DEFINE first == SubSeq(rest, 1, k)
           more == After(rest, k)
           U == Stash(T, first)
           taken == Len(T.chain) * BlockBytes
<1>1. /\ first \in Seq(Byte) /\ Len(first) = k
      /\ \A j \in 1 .. k : first[j] = rest[j]
  BY FirstProperties
<1>2. /\ more \in Seq(Byte) /\ Len(more) = Len(rest) - k
      /\ \A j \in 1 .. Len(rest) - k : more[j] = rest[j + k]
  BY AfterProperties
<1> HIDE DEF first, more
<1>3. T.buflen \in 0 .. BlockBytes /\ T.buflen \in Nat
  BY BlockAssumption DEF StateType
<1>4. k \in Nat /\ ~Overfills(T, first)
  BY <1>1, <1>3, BlockAssumption DEF Overfills, Fill
<1>5. /\ U \in StateType /\ SameFields(U, T) /\ U.t = T.t /\ U.chain = T.chain
      /\ U.buflen = T.buflen + k
      /\ \A p \in 0 .. T.buflen + k - 1 :
           U.buf[p] = IF p < T.buflen THEN T.buf[p] ELSE first[p - T.buflen + 1]
  BY <1>1, <1>4, StashProperties
<1> HIDE DEF U
<1>6. Len(T.chain) \in Nat /\ taken \in Nat
  BY BlockAssumption DEF StateType, ChainType
<1>7. /\ Len(m) = taken + T.buflen + Len(rest)
      /\ CutInto(T.chain, m)
      /\ Value(T.t) = taken
      /\ \A p \in 0 .. T.buflen - 1 : T.buf[p] = m[taken + p + 1]
      /\ \A j \in 1 .. Len(rest) : rest[j] = m[taken + T.buflen + j]
  BY DEF Stands
<1>8. Len(U.chain) * BlockBytes = taken
  BY <1>5
<1> HIDE DEF taken
<1>9. Len(m) = taken + U.buflen + Len(more)
  BY <1>2, <1>3, <1>4, <1>5, <1>6, <1>7
<1>10. ASSUME NEW p \in 0 .. U.buflen - 1
       PROVE  U.buf[p] = m[taken + p + 1]
  <2>1. U.buflen = T.buflen + k
    BY <1>5
  <2>2. p \in 0 .. T.buflen + k - 1
    BY <1>3, <1>4, <2>1
  <2>3. CASE p < T.buflen
    BY <1>3, <1>5, <1>7, <2>2, <2>3
  <2>4. CASE ~(p < T.buflen)
    <3> DEFINE q == p - T.buflen + 1
    <3>1. q \in 1 .. k /\ q \in 1 .. Len(rest) /\ taken + T.buflen + q = taken + p + 1
      BY <1>3, <1>4, <1>6, <2>2, <2>4
    <3>2. U.buf[p] = first[q]
      BY <1>5, <2>2, <2>4
    <3> HIDE DEF q
    <3>3. QED
      BY <1>1, <1>7, <3>1, <3>2
  <2>5. QED
    BY <2>3, <2>4
<1>11. ASSUME NEW j \in 1 .. Len(more)
       PROVE  more[j] = m[taken + U.buflen + j]
  <2>1. /\ j \in 1 .. Len(rest) - k /\ j + k \in 1 .. Len(rest)
        /\ taken + T.buflen + (j + k) = taken + U.buflen + j
    BY <1>2, <1>3, <1>4, <1>5, <1>6
  <2>2. QED
    BY <1>2, <1>7, <2>1
<1>12. Stands(U, more, m)
  BY <1>5, <1>7, <1>8, <1>9, <1>10, <1>11 DEF Stands
<1>13. QED
  BY <1>2, <1>5, <1>12 DEF U, first, more

\* A new piece is the rest, and the message grows by it.
LEMMA PieceStands ==
  ASSUME NEW T \in StateType, NEW m \in Seq(Byte), NEW piece \in Seq(Byte),
         Stands(T, <<>>, m)
  PROVE  Stands(T, piece, m \o piece)
<1> DEFINE m2 == m \o piece
           taken == Len(T.chain) * BlockBytes
<1>1. T.buflen \in Nat /\ Len(T.chain) \in Nat /\ taken \in Nat
  BY BlockAssumption DEF StateType, ChainType
<1>2. /\ m2 \in Seq(Byte) /\ Len(m2) = Len(m) + Len(piece)
      /\ \A j \in 1 .. Len(m) : m2[j] = m[j]
      /\ \A j \in 1 .. Len(piece) : m2[Len(m) + j] = piece[j]
  BY MessageGrows
<1> HIDE DEF m2
<1>3. /\ Len(m) = taken + T.buflen
      /\ CutInto(T.chain, m)
      /\ Value(T.t) = taken
      /\ \A p \in 0 .. T.buflen - 1 : T.buf[p] = m[taken + p + 1]
  <2>1. Len(<<>>) = 0
    OBVIOUS
  <2>2. Len(m) = taken + T.buflen + Len(<<>>)
    BY DEF Stands
  <2>3. QED
    BY <1>1, <2>1, <2>2 DEF Stands
<1>4. taken <= Len(m)
  BY <1>1, <1>3
<1>5. CutInto(T.chain, m2)
  BY <1>1, <1>2, <1>3, <1>4, CutKept
<1> HIDE DEF taken
<1>6. ASSUME NEW p \in 0 .. T.buflen - 1
      PROVE  T.buf[p] = m2[taken + p + 1]
  <2>1. taken + p + 1 \in 1 .. Len(m)
    BY <1>1, <1>3
  <2>2. QED
    BY <1>2, <1>3, <2>1
<1>7. Len(m2) = taken + T.buflen + Len(piece)
  BY <1>2, <1>3
<1>8. \A j \in 1 .. Len(piece) : piece[j] = m2[taken + T.buflen + j]
  BY <1>2, <1>3
<1>9. QED
  BY <1>3, <1>5, <1>6, <1>7, <1>8 DEF Stands, m2, taken

-----------------------------------------------------------------------------
\* Flushed, then topped up: update's loop takes in at least a byte.
BundledInv ==
  /\ TypeOK
  /\ pc = "ready" /\ ~S.f
  /\ Len(msg) <= MaxMessage
  /\ Stands(S, in, msg)
  /\ in = <<>> /\ msg # <<>> => S.buflen > 0

LEMMA BundledInitInv == Bundled!Init /\ pc = "ready" => BundledInv
<1> SUFFICES ASSUME Bundled!Init, pc = "ready" PROVE BundledInv
  OBVIOUS
<1>1. PICK outlen \in OutLens, person \in Personals : S = InitWith(outlen, person)
  BY SamePrimitives DEF Bundled!Init
<1>2. Init
  BY <1>1 DEF Bundled!Init, Init
<1>3. IInv
  BY <1>2, InitIInv
<1>4. ~S.f /\ msg = <<>>
  BY <1>1, <1>2 DEF InitWith, Init
<1>5. QED
  BY <1>3, <1>4, StandsIsMessage DEF IInv, Bounded, BundledInv

\* One turn of the loop.
LEMMA TakeInv ==
  ASSUME BundledInv, Bundled!Take, UNCHANGED pc
  PROVE  BundledInv' /\ S'.param = S.param
<1> DEFINE T == IF S.buflen < BlockBytes THEN S ELSE [FlushedState(S) EXCEPT !.buflen = 0]
           take == IF Fill(T) < Len(in) THEN Fill(T) ELSE Len(in)
<1>1. /\ TypeOK /\ S \in StateType /\ ~S.f /\ Stands(S, in, msg)
      /\ in \in Seq(Byte) /\ msg \in Seq(Byte) /\ Len(msg) <= MaxMessage
  BY DEF BundledInv, TypeOK
<1>2. T \in StateType /\ SameFields(T, S) /\ T.buflen \in 0 .. BlockBytes - 1
      /\ Stands(T, in, msg)
  <2>1. S.buflen \in 0 .. BlockBytes
    BY <1>1 DEF StateType
  <2>2. CASE S.buflen < BlockBytes
    BY <1>1, <2>1, <2>2, BlockAssumption DEF SameFields
  <2>3. CASE ~(S.buflen < BlockBytes)
    <3> DEFINE U == [FlushedState(S) EXCEPT !.buflen = 0]
    <3>1. S.buflen = BlockBytes
      BY <2>1, <2>3, BlockAssumption
    <3>2. U \in StateType /\ SameFields(U, S) /\ U.buflen = 0
      BY <1>1, <3>1, FlushProperties
    <3>3. Stands(U, in, msg)
      BY <1>1, <3>1, FlushStands
    <3>4. 0 \in 0 .. BlockBytes - 1
      BY BlockAssumption
    <3>5. T = U
      BY <2>3
    <3> HIDE DEF T, U
    <3>6. QED
      BY <3>2, <3>3, <3>4, <3>5
  <2>4. QED
    BY <2>2, <2>3
<1>3. /\ in # <<>>
      /\ S' = Stash(T, SubSeq(in, 1, take))
      /\ in' = After(in, take)
      /\ msg' = msg /\ digests' = digests /\ pc' = pc
  <2>1. Bundled!Flushed(S) = T
    BY FlushedIs
  <2> HIDE DEF T
  <2>2. QED
    BY <2>1, SamePrimitives DEF Bundled!Take
<1> HIDE DEF T
<1>4. Fill(T) \in Nat /\ Fill(T) > 0 /\ Len(in) \in Nat /\ Len(in) > 0
  <2>1. Len(in) \in Nat /\ Len(in) > 0
    BY <1>1, <1>3
  <2>2. QED
    BY <1>2, <2>1, BlockAssumption DEF Fill
<1>5. take \in 0 .. Len(in) /\ take <= Fill(T) /\ take > 0
  BY <1>4
<1> HIDE DEF take
<1>6. /\ S' \in StateType /\ SameFields(S', T) /\ S'.buflen = T.buflen + take
      /\ in' \in Seq(Byte)
      /\ Stands(S', in', msg)
  BY <1>1, <1>2, <1>3, <1>5, StashStands
<1>7. S'.buflen > 0
  BY <1>2, <1>4, <1>5, <1>6, BlockAssumption
<1>8. ~S'.f /\ S'.param = S.param
  BY <1>1, <1>2, <1>6 DEF SameFields
<1>9. TypeOK'
  BY <1>1, <1>3, <1>6 DEF TypeOK
<1>10. (Stands(S, in, msg))'
  BY <1>3, <1>6
<1>11. pc' = "ready"
  BY <1>3 DEF BundledInv
<1>12. QED
  BY <1>1, <1>3, <1>7, <1>8, <1>9, <1>10, <1>11 DEF BundledInv

LEMMA BundledNextInv ==
  ASSUME BundledInv, Bundled!Next, UNCHANGED pc
  PROVE  BundledInv' /\ [Object!Next]_<<S.param, msg, digests>>
<1>1. /\ TypeOK /\ S \in StateType /\ ~S.f /\ Stands(S, in, msg) /\ pc = "ready"
      /\ in \in Seq(Byte) /\ msg \in Seq(Byte) /\ Len(msg) <= MaxMessage
      /\ (in = <<>> /\ msg # <<>> => S.buflen > 0)
  BY DEF BundledInv, TypeOK
<1>2. ASSUME NEW input \in Inputs, Bundled!Update(input)
      PROVE  BundledInv' /\ Object!Absorb
  <2>1. /\ in = <<>> /\ in' = input /\ msg' = msg \o input
        /\ Len(msg) + Len(input) <= MaxMessage
        /\ S' = S /\ digests' = digests /\ pc' = pc
    BY <1>2 DEF Bundled!Update
  <2>2. input \in Seq(Byte)
    BY InputsAssumption
  <2>3. /\ msg' \in Seq(Byte) /\ Len(msg') = Len(msg) + Len(input)
        /\ \A j \in 1 .. Len(msg) : msg'[j] = msg[j]
    BY <1>1, <2>1, <2>2, MessageGrows
  <2>4. Stands(S', in', msg')
    <3>1. Stands(S, <<>>, msg)
      BY <1>1, <2>1
    <3>2. Stands(S, input, msg \o input)
      BY <1>1, <2>2, <3>1, PieceStands
    <3>3. QED
      BY <2>1, <3>2
  <2>5. in' = <<>> /\ msg' # <<>> => S'.buflen > 0
    <3> SUFFICES ASSUME in' = <<>>, msg' # <<>> PROVE S'.buflen > 0
      OBVIOUS
    <3>1. Len(input) = 0
      BY <2>1
    <3>2. msg # <<>>
      BY <1>1, <2>3, <3>1
    <3>3. QED
      BY <1>1, <2>1, <3>2
  <2>6. TypeOK'
    BY <1>1, <2>1, <2>2, <2>3 DEF TypeOK
  <2>7. BundledInv'
    <3>1. (Stands(S, in, msg))'
      BY <2>4
    <3>2. QED
      BY <1>1, <2>1, <2>3, <2>5, <2>6, <3>1 DEF BundledInv
  <2>8. Object!Absorb
    <3> DEFINE begin == SubSeq(msg', 1, Len(msg))
    <3>1. Len(msg) \in Nat /\ Len(input) \in Nat
      BY <1>1, <2>2
    <3>2. Len(msg) \in 0 .. Len(msg') /\ Len(msg') >= Len(msg)
      BY <2>3, <3>1
    <3>3. /\ begin \in Seq(Byte) /\ Len(begin) = Len(msg)
          /\ \A j \in 1 .. Len(msg) : begin[j] = msg'[j]
      BY <2>3, <3>2, FirstProperties
    <3> HIDE DEF begin
    <3>4. begin = msg
      BY <1>1, <2>3, <3>3
    <3>5. QED
      BY <2>1, <2>3, <3>2, <3>4 DEF Object!Absorb, begin
  <2>9. QED
    BY <2>7, <2>8
<1>3. CASE Bundled!Take
  <2>1. msg' = msg /\ digests' = digests
    BY <1>3 DEF Bundled!Take
  <2>2. QED
    BY <1>3, <2>1, TakeInv
<1>4. CASE Bundled!Finalize
  <2>1. /\ in = <<>> /\ digests = <<>>
        /\ digests' = <<Output(FinalWith(S, TRUE))>>
        /\ S' = S /\ in' = in /\ msg' = msg /\ pc' = pc
    BY <1>4, SamePrimitives DEF Bundled!Finalize, Bundled!Consumed
  <2>2. Output(FinalWith(S, TRUE)) = Digest(S.param, msg)
    BY <1>1, <2>1, StandsIsMessage, FinalWithDigest
  <2>3. Object!Finish
    BY <2>1, <2>2, SameDigest DEF Object!Finish
  <2>4. TypeOK'
    <3>1. FinalWith(S, TRUE) \in StateType
      BY <1>1, FinalProperties
    <3>2. Output(FinalWith(S, TRUE)) \in [param : [outlen : OutLens, personal : Personals],
                                          chain : ChainType]
      BY <3>1 DEF Output, StateType
    <3>3. \A D : \A d \in D : <<d>> \in Seq(D)
      OBVIOUS
    <3>4. digests' \in Seq([param : [outlen : OutLens, personal : Personals],
                            chain : ChainType])
      BY <2>1, <3>2, <3>3, Zenon
    <3>5. QED
      BY <1>1, <2>1, <3>4 DEF TypeOK
  <2>5. BundledInv'
    <3>1. (Stands(S, in, msg))'
      BY <1>1, <2>1
    <3>2. QED
      BY <1>1, <2>1, <2>4, <3>1 DEF BundledInv
  <2>6. QED
    BY <2>3, <2>5 DEF Object!Next
<1>5. QED
  BY <1>2, <1>3, <1>4 DEF Bundled!Next, Object!Next

-----------------------------------------------------------------------------
\* Whichever of the two is used holds its own invariant.
StreamsInv ==
  \/ impl = "uniblake" /\ IInv
  \/ impl = "bundled" /\ BundledInv

LEMMA StreamsInductive == StreamsSpec => []StreamsInv
<1>1. StreamsInit => StreamsInv
  BY InitIInv, BundledInitInv DEF StreamsInit, StreamsInv
<1>2. ASSUME StreamsInv, [StreamsNext]_<<impl, vars>>
      PROVE  StreamsInv'
  <2>1. CASE UNCHANGED <<impl, vars>>
    <3>1. IInv => IInv'
      BY <2>1, NextIInv
    <3>2. BundledInv => BundledInv'
      BY <2>1 DEF vars, BundledInv, TypeOK, Stands
    <3>3. QED
      BY <1>2, <2>1, <3>1, <3>2 DEF StreamsInv
  <2>2. CASE StreamsNext
    BY <1>2, <2>2, NextIInv, BundledNextInv DEF StreamsInv, StreamsNext
  <2>3. QED
    BY <1>2, <2>1, <2>2
<1>3. QED
  BY <1>1, <1>2, PTL DEF StreamsSpec

\* What was compressed, counted, buffered and handed over is the message, in the
\* Rust crate's stream as in uniblake's.
THEOREM StreamsHold == StreamsSpec => [](TypeOK /\ ChainIsMessage /\ LastBlockHeld)
<1>1. IInv => TypeOK /\ ChainIsMessage /\ LastBlockHeld
  BY DEF IInv, TypeOK, LoopHolds, LastBlockHeld
<1>2. BundledInv => TypeOK /\ ChainIsMessage /\ LastBlockHeld
  BY StandsIsMessage DEF BundledInv, LastBlockHeld
<1>3. StreamsInv => TypeOK /\ ChainIsMessage /\ LastBlockHeld
  BY <1>1, <1>2 DEF StreamsInv
<1>4. QED
  BY <1>3, StreamsInductive, PTL

\* Each of them hands out one digest, that of all it was given.
THEOREM StreamsAreObjects == StreamsSpec => ImplementsObject
<1>1. StreamsInit => Object!Init
  <2> SUFFICES ASSUME StreamsInit PROVE Object!Init
    OBVIOUS
  <2>1. StreamsInv
    BY InitIInv, BundledInitInv DEF StreamsInit, StreamsInv
  <2>2. S.param \in [outlen : OutLens, personal : Personals]
    BY <2>1 DEF StreamsInv, IInv, BundledInv, TypeOK, StateType
  <2>3. msg = <<>> /\ digests = <<>>
    BY DEF StreamsInit, Init, Bundled!Init
  <2>4. QED
    BY <2>2, <2>3 DEF Object!Init
<1>2. ASSUME StreamsInv, [StreamsNext]_<<impl, vars>>
      PROVE  [Object!Next]_<<S.param, msg, digests>>
  <2>1. CASE UNCHANGED <<impl, vars>>
    BY <2>1 DEF vars
  <2>2. CASE StreamsNext
    BY <1>2, <2>2, StepIsObject, BundledNextInv DEF StreamsInv, StreamsNext
  <2>3. QED
    BY <1>2, <2>1, <2>2
<1>3. QED
  BY <1>1, <1>2, StreamsInductive, PTL DEF StreamsSpec, ImplementsObject, Object!Spec

=============================================================================
