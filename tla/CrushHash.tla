----------------------------- MODULE CrushHash ------------------------------
(***************************************************************************)
(* Robert Jenkins' hash as crush_hash.c computes it.  A 32-bit word is the *)
(* pair of its halves: TLC's integers have 32 bits with the sign.          *)
(***************************************************************************)
EXTENDS Integers, Sequences, SequencesExt, Bitwise

Half == 2 ^ 16

(* The conversion of an int to __u32. *)
Word(n) == <<(n \div Half) % Half, n % Half>>

Minus(v, w) ==
  <<(v[1] - w[1] - (IF v[2] < w[2] THEN 1 ELSE 0)) % Half, (v[2] - w[2]) % Half>>

(* Exclusive or, byte by byte. *)
ByteXor == [i \in 0 .. 255 |-> [j \in 0 .. 255 |-> i ^^ j]]
HalfXor(m, n) == 256 * ByteXor[m \div 256][n \div 256] + ByteXor[m % 256][n % 256]
Xored(v, w) == <<HalfXor(v[1], w[1]), HalfXor(v[2], w[2])>>

Right(w, s) == <<w[1] \div 2 ^ s, (w[1] % 2 ^ s) * 2 ^ (16 - s) + w[2] \div 2 ^ s>>
Left(w, s) ==
  <<(w[1] % 2 ^ (16 - s)) * 2 ^ s + w[2] \div 2 ^ (16 - s), (w[2] % 2 ^ (16 - s)) * 2 ^ s>>

(* Three lines of crush_hashmix; s holds their shifts. *)
Lines(v, s) ==
  LET a == Xored(Minus(Minus(v.a, v.b), v.c), Right(v.c, s[1]))
      b == Xored(Minus(Minus(v.b, v.c), a), Left(a, s[2]))
      c == Xored(Minus(Minus(v.c, a), b), Right(b, s[3]))
  IN  [a |-> a, b |-> b, c |-> c]

crush_hashmix(v) == FoldLeft(Lines, v, << <<13, 8, 13>>, <<12, 16, 5>>, <<3, 10, 15>> >>)

(* Bug: a function instead of a macro, which changes only what it is given *)
(* by reference.                                                           *)
BugMixInto(local, names) ==
  LET v == crush_hashmix([a |-> local[names[1]], b |-> local[names[2]], c |-> local["hash"]])
  IN  [local EXCEPT ![names[1]] = v.a, ![names[2]] = v.b]

(* One call of the macro on two of the local variables and hash. *)
MixInto(local, names) ==
  LET v == crush_hashmix([a |-> local[names[1]], b |-> local[names[2]], c |-> local["hash"]])
  IN  [local EXCEPT ![names[1]] = v.a, ![names[2]] = v.b, !["hash"] = v.c]

(* The variables that the function of k arguments mixes, call by call. *)
Schedule == <<
  << <<"b", "x">>, <<"y", "a">> >>,
  << <<"a", "b">>, <<"x", "a">>, <<"b", "y">> >>,
  << <<"a", "b">>, <<"c", "x">>, <<"y", "a">>, <<"b", "x">>, <<"y", "c">> >>,
  << <<"a", "b">>, <<"c", "d">>, <<"a", "x">>, <<"y", "b">>, <<"c", "x">>, <<"y", "d">> >>,
  << <<"a", "b">>, <<"c", "d">>, <<"e", "x">>, <<"y", "a">>, <<"b", "x">>, <<"y", "c">>,
     <<"d", "x">>, <<"y", "e">> >> >>

crush_hash_seed == Word(1315423911)

(* crush_hash32_rjenkins1 and its variants of 2 to 5 arguments; the one of *)
(* a single argument has a copy of it in b.                                *)
Rjenkins1(args) ==
  LET k == Len(args)
      arg == args \o <<args[1], args[1], args[1], args[1]>>
      local == [a |-> arg[1], b |-> arg[2], c |-> arg[3], d |-> arg[4], e |-> arg[5],
                x |-> Word(231232), y |-> Word(1232),
                hash |-> FoldLeft(Xored, crush_hash_seed, args)]
  IN  FoldLeft(MixInto, local, Schedule[k]).hash

CRUSH_HASH_RJENKINS1 == 0

(* crush_hash32, crush_hash32_2, ... *)
crush_hash32(type, args) ==
  IF type = CRUSH_HASH_RJENKINS1 THEN Rjenkins1(args) ELSE Word(0)
=============================================================================
