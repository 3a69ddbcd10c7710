------------------------------ MODULE KeccakF ------------------------------
(***************************************************************************)
(* keccakF1600 (crypto/sha3/keccakf.go).  A lane of 64 bits is the set of  *)
(* the bits that are one: ^ is the symmetric difference and &^ the         *)
(* difference.  The code unrolls four rounds that work in place: each      *)
(* takes its five rows from five places and writes them back there, so     *)
(* that after four rounds every lane is where it belongs.                  *)
(***************************************************************************)
EXTENDS Integers, Sequences, SequencesExt

CONSTANT States   \* what the permutation is applied to: functions on 0..24

VARIABLES
  a,   \* the lanes
  n    \* rounds that are done

Xor(p, q) == (p \ q) \cup (q \ p)
Rotl(p, k) == {(b + k) % 64 : b \in p}

(* The constants of the 24 rounds.                                         *)
rc == <<{0}, {1, 7, 15}, {1, 3, 7, 15, 63}, {15, 31, 63},
        {0, 1, 3, 7, 15}, {0, 31}, {0, 7, 15, 31, 63}, {0, 3, 15, 63},
        {1, 3, 7}, {3, 7}, {0, 3, 15, 31}, {1, 3, 31},
        {0, 1, 3, 7, 15, 31}, {0, 1, 3, 7, 63}, {0, 3, 7, 15, 63}, {0, 1, 15, 63},
        {1, 15, 63}, {7, 63}, {1, 3, 15}, {1, 3, 31, 63},
        {0, 7, 15, 31, 63}, {7, 15, 63}, {0, 31}, {3, 15, 31, 63}>>

(* The lanes of each row, from bc0 to bc4, in the four rounds.             *)
Rows1 == <<<<0, 6, 12, 18, 24>>, <<3, 9, 10, 16, 22>>, <<1, 7, 13, 19, 20>>,
           <<4, 5, 11, 17, 23>>, <<8, 14, 15, 21, 2>>>>
Rows2 == <<<<0, 16, 7, 23, 14>>, <<18, 9, 20, 11, 2>>, <<6, 22, 13, 4, 15>>,
           <<24, 10, 1, 17, 8>>, <<12, 3, 19, 5, 21>>>>
Rows3 == <<<<0, 11, 22, 8, 19>>, <<23, 9, 15, 1, 12>>, <<16, 2, 13, 24, 5>>,
           <<14, 20, 6, 17, 3>>, <<7, 18, 4, 10, 21>>>>
Rows4 == <<<<0, 1, 2, 3, 4>>, <<8, 9, 5, 6, 7>>, <<11, 12, 13, 14, 10>>,
           <<19, 15, 16, 17, 18>>, <<22, 23, 24, 20, 21>>>>
Rows == <<Rows1, Rows2, Rows3, Rows4>>

(* By how much the lanes of a row are rotated, from bc0 to bc4.            *)
Rotations(round, row) ==
  IF round = 1 /\ row = 5 THEN <<55, 39, 41, 2, 62>>
  ELSE <<<<0, 44, 43, 21, 14>>, <<28, 20, 3, 45, 61>>, <<1, 6, 25, 8, 18>>,
         <<27, 36, 10, 15, 56>>, <<62, 55, 39, 41, 2>>>>[row]

(* d0 to d4, from the columns bc0 to bc4 at the start of a round; a lane's *)
(* column is its number modulo 5 wherever the round before has left it.    *)
Column(x) == FoldLeft(LAMBDA t, y : Xor(t, a[x + 5 * y]), {}, <<0, 1, 2, 3, 4>>)
Theta ==
  LET bc == <<Column(0), Column(1), Column(2), Column(3), Column(4)>>
      D(x) == Xor(bc[((x + 4) % 5) + 1], Rotl(bc[((x + 1) % 5) + 1], 1))
  IN <<D(0), D(1), D(2), D(3), D(4)>>

(* Mutant: in a row the lanes of &^ are exchanged.                         *)
ChiSwapped(b, x) == Xor(b[x + 1], b[((x + 1) % 5) + 1] \ b[((x + 2) % 5) + 1])

Chi(b, x) == Xor(b[x + 1], b[((x + 2) % 5) + 1] \ b[((x + 1) % 5) + 1])

(* A row's new lanes go to the places its old ones came from, by column:   *)
(* the one that goes to the place l.                                       *)
RowOut(r, w, d, l) ==
  LET places == Rows[r][w]
      BC(k) == Rotl(Xor(a[places[k]], d[(places[k] % 5) + 1]), Rotations(r, w)[k])
      bc == <<BC(1), BC(2), BC(3), BC(4), BC(5)>>
  IN Chi(bc, l % 5)

Init ==
  /\ a \in States
  /\ n = 0

(* The next of the 24 rounds.                                              *)
Round ==
  /\ n < 24
  /\ n' = n + 1
  /\ LET r == (n % 4) + 1
         d == Theta
         RowOf(l) == CHOOSE w \in 1..5 : \E k \in 1..5 : Rows[r][w][k] = l
         out == [l \in 0..24 |-> RowOut(r, RowOf(l), d, l)]
     IN a' = [out EXCEPT ![0] = Xor(@, rc[n'])]

Next == Round
Spec == Init /\ [][Next]_<<a, n>>

-----------------------------------------------------------------------------
(* Keccak-f[1600] as it is specified, on lanes <<x, y>>: theta, rho and pi *)
(* by the walk <<x, y>> -> <<y, 2x + 3y>>, chi, and iota by its shift      *)
(* register of eight bits.                                                 *)
Walk[t \in 0..23] ==
  IF t = 0 THEN <<1, 0>>
  ELSE LET w == Walk[t - 1] IN <<w[2], (2 * w[1] + 3 * w[2]) % 5>>
Rho(x, y) ==
  IF x = 0 /\ y = 0 THEN 0
  ELSE LET t == CHOOSE t \in 0..23 : Walk[t] = <<x, y>> IN (((t + 1) * (t + 2)) \div 2) % 64

Register[t \in 0..167] ==
  IF t = 0 THEN {0}
  ELSE LET shifted == {b + 1 : b \in Register[t - 1]} IN
         IF 8 \in shifted THEN Xor(shifted \ {8}, {0, 4, 5, 6}) ELSE shifted
Iota(i) == {2^j - 1 : j \in {j \in 0..6 : 0 \in Register[j + 7 * (i - 1)]}}

(* The lane <<x, y>> after round i, given the lanes S(_, _) before it.     *)
Specified(S(_, _), i, x, y) ==
  LET C(u) == FoldLeft(LAMBDA t, v : Xor(t, S(u, v)), {}, <<0, 1, 2, 3, 4>>)
      c == <<C(0), C(1), C(2), C(3), C(4)>>
      AfterTheta(u, v) == Xor(S(u, v), Xor(c[((u + 4) % 5) + 1], Rotl(c[((u + 1) % 5) + 1], 1)))
      AfterPi(u, v) == LET w == (u + 3 * v) % 5 IN Rotl(AfterTheta(w, u), Rho(w, u))
      chi == Xor(AfterPi(x, y), AfterPi((x + 2) % 5, y) \ AfterPi((x + 1) % 5, y))
  IN IF x = 0 /\ y = 0 THEN Xor(chi, Iota(i)) ELSE chi

(* Where the lane <<x, y>> is after i rounds.                              *)
PlaceOf(i, x, y) ==
  IF i = 0 THEN x + 5 * y
  ELSE LET row == Rows[((i - 1) % 4) + 1][y + 1] IN row[CHOOSE k \in 1..5 : row[k] % 5 = x]

FollowsKeccak(Shift(_, _)) ==
  /\ n' = n + 1
  /\ LET Before(x, y) == a[PlaceOf(n, x, y)] IN
       \A x, y \in 0..4 : a'[PlaceOf(n', x, y)] = Specified(Before, n', (x + Shift(y, n')) % 5, y)

(* Every round is one of Keccak-f on lanes that are where the round before *)
(* has left them, but for the last row of rounds 1, 5, 9, ...: there the   *)
(* lanes come out one place to the side, for bc0 is the second of the row. *)
RoundsFollowKeccak == [][FollowsKeccak(LAMBDA y, i : IF y = 4 /\ i % 4 = 1 THEN 1 ELSE 0)]_<<a, n>>

(* What the comment of keccakF1600 says (keccakf.go:31-32): it applies the *)
(* Keccak permutation, of which a step is a round.                         *)
KeccakRound == FollowsKeccak(LAMBDA y, i : 0)

=============================================================================
