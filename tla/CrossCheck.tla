----------------------------- MODULE CrossCheck -----------------------------
(***************************************************************************)
(* The wire between the two implementations: req_gen mines a solution with *)
(* the C++ engine and writes a vector file, req_xcheck reads it with the   *)
(* Rust crate, decodes it, encodes it again and compares both.  Parameters *)
(* the constructors refuse end in an error on either side.  Next to the    *)
(* file, either engine expands digests into rows.                          *)
(*                                                                         *)
(* Whether the verifier accepts the solution is the Verifiers module's     *)
(* matter; a solution here is any list of distinct indices in range.       *)
(***************************************************************************)
EXTENDS Codec

CONSTANTS
  Requests,           \* pairs [n, k] asked for
  Solutions(_, _),    \* the solutions the miner may find at (n, k)
  Digests(_)          \* the digests of n / 8 bytes a leaf may have

(* Requests are any two words; a solution found has 2^k indices of cbl + 1 *)
(* bits, and a digest the bytes asked for.                                 *)
ASSUME RequestsAssumption ==
  Requests \subseteq [n : 0..(ParamWord - 1), k : 0..(ParamWord - 1)]

ASSUME SolutionsAssumption ==
  \A q \in Requests : Accepts(q.n, q.k) =>
    \A s \in Solutions(q.n, q.k) :
      s \in Seq(SUBSET (0..CollisionBits(q.n, q.k))) /\ Len(s) = 2^q.k

ASSUME DigestsAssumption ==
  \A q \in Requests : Accepts(q.n, q.k) =>
    Digests(q.n \div 8) \subseteq [1..(q.n \div 8) -> Byte]

VARIABLES
  p,          \* the parameters
  stage,      \* how far the tools are
  indices,    \* the solution, as the file lists it
  file        \* the file: its minimal encoding, and what was done to it

vars == <<codecVars, p, stage, indices, file>>

Cbl == CollisionBits(p.n, p.k)

NoFile == [minimal |-> <<>>, state |-> "none", keying |-> "regular"]

Init ==
  /\ CodecInit
  /\ p \in Requests
  /\ stage = "asked"
  /\ indices = <<>>
  /\ file = NoFile

(* Params::new fails.                                                      *)
Refuse ==
  /\ stage = "asked" /\ ~Accepts(p.n, p.k)
  /\ stage' = "refused"
  /\ UNCHANGED <<codecVars, p, indices, file>>

(* A leaf row, on either side; leaf_row_into writes where its caller says. *)
ExpandRow ==
  /\ stage = "asked" /\ Accepts(p.n, p.k)
  /\ \E impl \in Impls, digest \in Digests(p.n \div 8) :
        LET c == RowCall(impl, digest, p.n, p.k)
        IN  \/ Start(c)
            \/ impl = "rust" /\ StartInto(c, Stale(c.outLen))
  /\ stage' = "row"
  /\ UNCHANGED <<p, indices, file>>

(* req_gen: a solution is found and encoded.                               *)
Mine ==
  /\ stage = "asked" /\ Accepts(p.n, p.k)
  /\ \E s \in Solutions(p.n, p.k) :
        /\ indices' = s
        /\ Start(EncodeCall("cpp", s, Cbl))
  /\ stage' = "encode"
  /\ UNCHANGED <<p, file>>

Flip(minimal) == [minimal EXCEPT ![1] = LowByte \ @]

(* The vector file req_xcheck reads: the one written, one marked as a      *)
(* Zcash vector, or one whose encoding was damaged on the way.             *)
Write ==
  /\ stage = "encode" /\ Finished
  /\ file' \in {[minimal |-> out, state |-> "intact", keying |-> "regular"],
                [minimal |-> out, state |-> "intact", keying |-> "single"],
                [minimal |-> Append(out, {}), state |-> "longer", keying |-> "regular"],
                [minimal |-> SubSeq(out, 1, Len(out) - 1), state |-> "shorter", keying |-> "regular"],
                [minimal |-> Flip(out), state |-> "flipped", keying |-> "regular"]}
  /\ stage' = "written"
  /\ UNCHANGED <<codecVars, p, indices>>

(* check_vector leaves vectors of the other construction alone.            *)
Skip ==
  /\ stage = "written" /\ file.keying = "single"
  /\ stage' = "skipped"
  /\ UNCHANGED <<codecVars, p, indices, file>>

Decode ==
  /\ stage = "written" /\ file.keying # "single"
  /\ Start(DecodeCall("rust", file.minimal, Cbl))
  /\ stage' = "decode"
  /\ UNCHANGED <<p, indices, file>>

(* Its first comparison: the indices the file lists.                       *)
CompareIndices ==
  /\ stage = "decode" /\ Finished
  /\ IF Decoded = indices
     THEN /\ stage' = "reencode"
          /\ Start(EncodeCall("rust", indices, Cbl))
     ELSE /\ stage' = "failed"
          /\ UNCHANGED codecVars
  /\ UNCHANGED <<p, indices, file>>

\* Slip: the second comparison left out.
SameEncoding_Untested == TRUE

SameEncoding == out = file.minimal

(* Its second: the bytes of the file.                                      *)
CompareMinimal ==
  /\ stage = "reencode" /\ Finished
  /\ stage' = IF SameEncoding THEN "passed" ELSE "failed"
  /\ UNCHANGED <<codecVars, p, indices, file>>

Iterate == CodecStep /\ UNCHANGED <<p, stage, indices, file>>

Next ==
  \/ Refuse
  \/ ExpandRow
  \/ Mine
  \/ Iterate
  \/ Write
  \/ Skip
  \/ Decode
  \/ CompareIndices
  \/ CompareMinimal

Spec == Init /\ [][Next]_vars

-----------------------------------------------------------------------------
(* n_bounds and valid_n of a k name exactly the n that Params::new accepts *)
(* with it, and None when there is none, as the doc of n_bounds says, for  *)
(* as long as 8 (k + 1) stays below the word.  At the first k where it     *)
(* does not, 2^29 - 1, the release build returns (0, 0) where the doc says *)
(* None, and at the next one every multiple of 8 up to 512, none of which  *)
(* new accepts; the last k of all, and no other, divides by zero.          *)
BoundsExact ==
  stage = "asked" =>
    /\ 8 * (p.k + 1) < ParamWord =>
         /\ Accepts(p.n, p.k) <=> p.n \in ValidN(p.k)
         /\ NBounds(p.k) = NoBounds <=> p.k \notin 1..63
    /\ p.k = (ParamWord \div 8) - 1 => NBounds(p.k) = <<0, 0>>
    /\ p.k = ParamWord \div 8 => NBounds(p.k) = <<8, 512>>
    /\ NBoundsPanics(p.k) <=> p.k = ParamWord - 1

(* The indices fill whole bytes.                                           *)
WholeBytes == (Len(indices) * (Cbl + 1)) % 8 = 0

(* The cross-check passes a file exactly as written, of the announced      *)
(* width, and fails one that was damaged; a file as written fails only     *)
(* when its indices do not fill whole bytes.                               *)
CrossCheckExact ==
  /\ stage = "passed" =>
       file.state = "intact" /\ Len(file.minimal) = SolutionWidth(p.n, p.k)
  /\ stage = "failed" => file.state # "intact" \/ ~WholeBytes

(* SPEC.md of the minimal encoding: it "round-trips".                      *)
RoundTrips == stage = "failed" => file.state # "intact"
=============================================================================
