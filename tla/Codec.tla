-------------------------------- MODULE Codec --------------------------------
(***************************************************************************)
(* The parameters (n, k) of the Rust engine: what Params::new accepts, the *)
(* range of n that n_bounds works out for a k, and the widths derived from *)
(* them.  Parameters are u32; ParamWord is the modulus their arithmetic    *)
(* wraps at in a release build.                                            *)
(*                                                                         *)
(* compress_array and expand_array_into, and the two encodings built on    *)
(* them: the minimal encoding of a solution, and the row of a leaf from    *)
(* its digest.  A word is the set of the positions of its one bits, so     *)
(* that shifts, masks and the width of the accumulator are exact: 32 bits  *)
(* in Rust, the 64 of size_t in the C++ twin.                              *)
(*                                                                         *)
(* One call runs at a time, one byte of its loop per action.               *)
(***************************************************************************)
EXTENDS Integers, Sequences

CONSTANT ParamWord

ASSUME ParamWordAssumption ==
  ParamWord \in Nat /\ ParamWord > 25 * 512 /\ ParamWord % 64 = 0

VARIABLES
  call,       \* the call under way: its function, buffers and widths
  i,          \* iterations done
  j,          \* first byte of the group to read or write next
  accBits,    \* acc_bits
  acc,        \* acc_value
  out         \* the output buffer

codecVars == <<call, i, j, accBits, acc, out>>

-----------------------------------------------------------------------------
(* Parameters and widths.                                                  *)

CollisionBits(n, k) == n \div (k + 1)

ByteWidth(bits) == (bits + 7) \div 8

RowBytes(n, k) == (k + 1) * ByteWidth(CollisionBits(n, k))

SolutionWidth(n, k) == (2^k * (CollisionBits(n, k) + 1)) \div 8

\* Slip: the accumulator bound taken one bit too wide.
Accepts_Wide(n, k) ==
  /\ k < n /\ n % 8 = 0 /\ n % (k + 1) = 0 /\ k # 0 /\ n <= 512
  /\ CollisionBits(n, k) \in 8..26

Accepts(n, k) ==
  /\ k < n
  /\ n % 8 = 0
  /\ n % (k + 1) = 0
  /\ k # 0
  /\ n <= 512
  /\ CollisionBits(n, k) \in 8..25

(* The pair <<a, b>> of the loop, until b is 0.                             *)
Gcd[ab \in Nat \X Nat] == IF ab[2] = 0 THEN ab[1] ELSE Gcd[<<ab[2], ab[1] % ab[2]>>]

(* m, which is 0 at the last k there is. *)
Segments(k) == (k + 1) % ParamWord

(* lcm(8, k + 1). *)
Step(k) == ((8 \div Gcd[<<8, Segments(k)>>]) * Segments(k)) % ParamWord

NoBounds == <<>>

Up(n, step) == (((n + step - 1) \div step) * step) % ParamWord
Down(n, step) == (n \div step) * step

Least(k) == (8 * Segments(k)) % ParamWord

Most(k) ==
  LET wide == (25 * Segments(k)) % ParamWord
  IN  IF wide < 512 THEN wide ELSE 512

\* Slip: the upper bound rounded to the step above it.
NBounds_HighUp(k) ==
  LET lo == Up(Least(k), Step(k))
      hi == Up(Most(k), Step(k))
  IN  IF k # 0 /\ lo <= hi THEN <<lo, hi>> ELSE NoBounds

(* Smallest and largest valid n: a multiple of the step with segments of 8 *)
(* bits at least, and of 25 bits and a digest of 64 bytes at most.         *)
NBounds(k) ==
  LET lo == Up(Least(k), Step(k))
      hi == Down(Most(k), Step(k))
  IN  IF k # 0 /\ lo <= hi THEN <<lo, hi>> ELSE NoBounds

(* n_bounds divides by the step, in every build.                           *)
NBoundsPanics(k) == k # 0 /\ Step(k) = 0

ValidN(k) ==
  IF NBounds(k) = NoBounds
  THEN {}
  ELSE {n \in NBounds(k)[1]..NBounds(k)[2] : (n - NBounds(k)[1]) % Step(k) = 0}

-----------------------------------------------------------------------------
(* The loops.                                                              *)

Impls == {"rust", "cpp"}
AccWidth(impl) == IF impl = "rust" THEN 32 ELSE 64

Byte == SUBSET (0..7)
LowByte == 0..7
Shl(word, s, width) == {b + s : b \in word} \cap 0..(width - 1)
Shr(word, s) == {b - s : b \in {c \in word : c >= s}}

(* No call made yet.                                                      *)
Idle == [op |-> "idle", impl |-> "rust", input |-> <<>>, outLen |-> 0,
         bitLen |-> 8, pad |-> 0]

Width == ByteWidth(call.bitLen) + call.pad
Mask == 0..(call.bitLen - 1)
(* Bits below byte x of a group.                                           *)
Below(x) == 8 * (Width - x - 1)

Zeroed(len) == [t \in 1..len |-> {}]
Stale(len) == [t \in 1..len |-> LowByte]

StartInto(c, buffer) ==
  /\ call' = c
  /\ i' = 0 /\ j' = 0
  /\ accBits' = 0 /\ acc' = {}
  /\ out' = buffer

Start(c) == StartInto(c, Zeroed(c.outLen))

CodecInit ==
  /\ call = Idle
  /\ i = 0 /\ j = 0
  /\ accBits = 0 /\ acc = {}
  /\ out = <<>>

(* The group of bytes at from, as one number of bitLen bits.               *)
Group(bytes, from) ==
  UNION {Shl(bytes[from + x + 1] \cap Shr(Mask, Below(x)), Below(x), 32) :
         x \in call.pad..(Width - 1)}

\* Slip: groups cut without the mask: bits of the group before stay in.
Cut_Unmasked(word, low, x) ==
  IF x < call.pad THEN {} ELSE Shr(word, low + Below(x)) \cap LowByte

(* Byte x of the group cut out of the accumulator above its low bits.      *)
Cut(word, low, x) ==
  IF x < call.pad
  THEN {}
  ELSE Shr(word, low + Below(x)) \cap Shr(Mask, Below(x)) \cap LowByte

(* One iteration of compress_array: take a group when fewer than 8 bits    *)
(* are held, then hand out the highest 8.                                  *)
CompressByte ==
  LET load == accBits < 8
      bits == IF load THEN accBits + call.bitLen - 8 ELSE accBits - 8
      held == IF load
              THEN Shl(acc, call.bitLen, AccWidth(call.impl)) \cup Group(call.input, j)
              ELSE acc
  IN  /\ call.op = "compress" /\ i < call.outLen
      /\ out' = [out EXCEPT ![i + 1] = Shr(held, bits) \cap LowByte]
      /\ acc' = held
      /\ accBits' = bits
      /\ j' = IF load THEN j + Width ELSE j
      /\ i' = i + 1
      /\ UNCHANGED call

(* One iteration of expand_array_into: push a byte, and cut one group once *)
(* its bits are held.                                                      *)
ExpandByte ==
  LET held == Shl(acc, 8, AccWidth(call.impl)) \cup call.input[i + 1]
      full == accBits + 8 >= call.bitLen
      bits == IF full THEN accBits + 8 - call.bitLen ELSE accBits + 8
  IN  /\ call.op = "expand" /\ i < Len(call.input)
      /\ out' = [t \in DOMAIN out |->
                   IF full /\ t - 1 \in j..(j + Width - 1)
                   THEN Cut(held, bits, t - 1 - j)
                   ELSE out[t]]
      /\ acc' = held
      /\ accBits' = bits
      /\ j' = IF full THEN j + Width ELSE j
      /\ i' = i + 1
      /\ UNCHANGED call

CodecStep == CompressByte \/ ExpandByte

Finished ==
  \/ call.op = "compress" /\ i = call.outLen
  \/ call.op = "expand" /\ i = Len(call.input)

-----------------------------------------------------------------------------
(* The calls.                                                              *)

BigEndian(word) == [b \in 1..4 |-> Shr(word, 8 * (4 - b)) \cap LowByte]

FromBytes(bytes) == UNION {Shl(bytes[b], 8 * (Len(bytes) - b), 32) : b \in DOMAIN bytes}

\* Slip: the encoded length rounded up.
EncodeCall_LengthUp(impl, indices, cbl) ==
  [op |-> "compress", impl |-> impl,
   input |-> [t \in 1..(4 * Len(indices)) |->
                BigEndian(indices[((t - 1) \div 4) + 1])[((t - 1) % 4) + 1]],
   outLen |-> ByteWidth((cbl + 1) * Len(indices)),
   bitLen |-> cbl + 1,
   pad |-> 4 - ByteWidth(cbl + 1)]

(* get_minimal_from_indices: cbl + 1 bits of every index.                  *)
EncodeCall(impl, indices, cbl) ==
  [op |-> "compress", impl |-> impl,
   input |-> [t \in 1..(4 * Len(indices)) |->
                BigEndian(indices[((t - 1) \div 4) + 1])[((t - 1) % 4) + 1]],
   outLen |-> ((cbl + 1) * Len(indices)) \div 8,
   bitLen |-> cbl + 1,
   pad |-> 4 - ByteWidth(cbl + 1)]

(* get_indices_from_minimal, up to its chunks of four bytes.               *)
DecodeCall(impl, minimal, cbl) ==
  [op |-> "expand", impl |-> impl, input |-> minimal,
   outLen |-> (8 * 4 * Len(minimal)) \div (cbl + 1),
   bitLen |-> cbl + 1,
   pad |-> 4 - ByteWidth(cbl + 1)]

Decoded == [t \in 1..(Len(out) \div 4) |-> FromBytes(SubSeq(out, (4 * t) - 3, 4 * t))]

(* The expansion that ends leaf_row_into, and ExpandSlice.                 *)
RowCall(impl, digest, n, k) ==
  [op |-> "expand", impl |-> impl, input |-> SubSeq(digest, 1, n \div 8),
   outLen |-> RowBytes(n, k),
   bitLen |-> CollisionBits(n, k),
   pad |-> 0]

-----------------------------------------------------------------------------
(* What the loops are to do: move a stream of bits, highest first, from    *)
(* groups into bytes or from bytes into groups.                            *)

Compressing == call.op = "compress"
Consumed == IF Compressing THEN (j \div Width) * call.bitLen ELSE 8 * i
Emitted == IF Compressing THEN 8 * i ELSE (j \div Width) * call.bitLen

StreamBit(t) ==
  IF Compressing
  THEN call.bitLen - 1 - (t % call.bitLen) \in Group(call.input, (t \div call.bitLen) * Width)
  ELSE 7 - (t % 8) \in call.input[(t \div 8) + 1]

(* The bits the last iteration worked on: what is left, and what it handed *)
(* out of the same accumulator.                                            *)
Held ==
  IF i = 0 THEN 0
  ELSE IF Compressing THEN accBits + 8
  ELSE IF accBits < 8 THEN accBits + call.bitLen
  ELSE accBits

(* The accumulator never runs over: the bits an iteration works on, those  *)
(* it hands out included, are the last bits read, in 32 bits as in 64 (the *)
(* comment at T2.3 F14 in Params::new).                                    *)
NoBitLost ==
  /\ accBits = Consumed - Emitted
  /\ \A b \in 0..(Held - 1) : b \in acc <=> StreamBit(Consumed - 1 - b)

(* No iteration indexes past the end of a buffer or shifts by 32 or more:  *)
(* a panic in Rust, undefined in C++.                                      *)
NoPanic ==
  ~Finished =>
    /\ call.op = "compress" =>
         /\ accBits < 8 => j + Width <= Len(call.input)
         /\ accBits >= 8 \/ accBits + call.bitLen >= 8
    /\ call.op = "expand" /\ accBits + 8 >= call.bitLen =>
         /\ j + Width <= call.outLen
         /\ accBits + 8 - call.bitLen + Below(call.pad) < 32

(* What a finished call leaves is the stream regrouped, every group of the *)
(* output filled and nothing left of what the buffer held before: the doc  *)
(* of expand_array_into says it is "fully overwritten".                    *)
OutputExact ==
  Finished =>
    IF Compressing
    THEN \A t \in 0..(8 * call.outLen - 1) :
            7 - (t % 8) \in out[(t \div 8) + 1] <=> StreamBit(t)
    ELSE LET groups == call.outLen \div Width
         IN  /\ groups = (8 * Len(call.input)) \div call.bitLen
             /\ \A g \in 0..(groups - 1) :
                  FromBytes(SubSeq(out, g * Width + 1, (g + 1) * Width))
                    = {b \in Mask : StreamBit((g + 1) * call.bitLen - 1 - b)}
=============================================================================
