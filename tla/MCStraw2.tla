------------------------------ MODULE MCStraw2 ------------------------------
(***************************************************************************)
(* Buckets of three items, or of two with two sets of weights; the weights *)
(* at the bounds: none, the lightest, and the heaviest that an int holds.  *)
(* Beside them, what a straw is made of: the logarithm of every hash, and  *)
(* the hash of samples that differ in one bit of one argument.             *)
(***************************************************************************)
EXTENDS Straw2, CrushHash, FiniteSets

CONSTANTS
  LastHash,                \* the logarithms of 0 .. LastHash are looked at
  Tolerance,               \* the error allowed a logarithm, in units of 2^24
  Samples                  \* how many samples are hashed

ASSUME SweepAssumption ==
  LastHash \in 0 .. 65535 /\ Tolerance \in Nat /\ Samples \in Nat \ {0}

VARIABLES
  xin,                     \* the argument of crush_ln
  sampled,                 \* the samples taken so far
  flips                    \* how many of the lower 16 bits of the hash have changed
                           \* with the j-th of k arguments, in all samples together

sweep == <<xin, sampled, flips>>

MCWeights == {<<0, 0>>, <<0, 1>>, <<127, Low - 1>>}
MCMaxItems == (0 :> 3) @@ (2 :> 2)

Place == {p \in (1 .. 5) \X (1 .. 5) : p[2] <= p[1]}

Flipped(word, k) ==
  IF k < 16 THEN <<word[1], HalfXor(word[2], 2 ^ k)>>
            ELSE <<HalfXor(word[1], 2 ^ (k - 16)), word[2]>>

Ones(half) == Cardinality({k \in 0 .. 15 : (half \div 2 ^ k) % 2 = 1})

Changes(k, j) ==
  LET args == [i \in 1 .. k |-> Word(7 * sampled + i)]
      other == [args EXCEPT ![j] = Flipped(@, sampled % 32)]
  IN  Ones(HalfXor(crush_hash32(CRUSH_HASH_RJENKINS1, args)[2],
                   crush_hash32(CRUSH_HASH_RJENKINS1, other)[2]))

MCInit == Init /\ xin = 0 /\ sampled = 0 /\ flips = [p \in Place |-> 0]

ChangeBucket ==
  /\ xin = 0 /\ sampled = 0
  /\ Next
  /\ UNCHANGED sweep

(* The sweeps start from one of the states of the bucket. *)
Start ==
  /\ hashOf = [id \in Ids |-> 0] /\ bucket.weight_set = <<>>
  /\ bucket.items = <<0>> /\ bucket.item_weights = <<Zero>>

NextHash ==
  /\ Start /\ sampled = 0 /\ xin < LastHash
  /\ xin' = xin + 1
  /\ UNCHANGED <<vars, sampled, flips>>

NextSample ==
  /\ Start /\ xin = 0 /\ sampled < Samples
  /\ sampled' = sampled + 1
  /\ flips' = [p \in Place |-> flips[p] + Changes(p[1], p[2])]
  /\ UNCHANGED <<vars, xin>>

MCSpec == MCInit /\ [][ChangeBucket \/ NextHash \/ NextSample]_<<vars, sweep>>

-----------------------------------------------------------------------------
One == <<2 ^ 20, 0>>       \* 2^44, the logarithm of 2

(* The tables are read inside their bounds, and every logarithm is below   *)
(* 2^48: the caller's difference stays negative, so that a draw is longer  *)
(* for a heavier item, and longer than the S64_MIN of one without weight.  *)
DrawsNegative ==
  LET x == Normalize(xin).x
  IN  /\ Index1(x) + 2 <= Len(RH_LH_tbl)
      /\ Index2(x) + 1 <= Len(LL_tbl)
      /\ IsBelow48(crush_ln(xin)) /\ IsBelow48(crush_ln(xin + 1))

(* Twice the number is one more in the logarithm, exactly: the tables see  *)
(* the normalised number only (crush_ln, the shift and iexpon).            *)
DoublingAddsOne ==
  LET twice == 2 * (xin + 1) - 1
  IN  twice < 65535 => crush_ln(twice) = Plus(crush_ln(xin), One)

(* A larger hash draws a straw that is at least as long: the entries of    *)
(* both tables fit together where one index moves and the other wraps.     *)
LargerHashLongerStraw ==
  xin > 0 => AtMost(crush_ln(xin - 1), crush_ln(xin))

(* The logarithm of a product is the sum of the logarithms but for the     *)
(* error of the tables.                                                    *)
LogarithmOfProduct ==
  \A y \in {2, 3, 5, 7, 11, 101, 255, 256, 257} :
    LET product == (xin + 1) * (y + 1) - 1
        sum == Plus(crush_ln(xin), crush_ln(y))
        error == <<Tolerance, 0>>
    IN  product < 65535 =>
          /\ AtMost(crush_ln(product), Plus(sum, error))
          /\ AtMost(sum, Plus(crush_ln(product), error))

(* crush_ln is a logarithm that a straw can be made of: it stays below the *)
(* 2^48 that the caller subtracts, grows with the hash and obeys the laws  *)
(* of a logarithm (crush_ln, generate_exponential_distribution).           *)
LikeALogarithm ==
  Start => DrawsNegative /\ DoublingAddsOne /\ LargerHashLongerStraw /\ LogarithmOfProduct

(* One bit of one argument changes half of the bits that the draws use,    *)
(* within five standard deviations: every function mixes each of its       *)
(* arguments, and none of them forgets the result of a call of             *)
(* crush_hashmix, whose three parameters are changed in place.             *)
Avalanche ==
  sampled = Samples =>
    \A p \in Place : (flips[p] - 8 * sampled) * (flips[p] - 8 * sampled) <= 25 * 4 * sampled
=============================================================================
