------------------------------- MODULE Sponge -------------------------------
(***************************************************************************)
(* The hash functions of crypto/sha3/sha3.go: a digest absorbs a message   *)
(* in Writes of any length and squeezes its sum out of a copy.  A byte of  *)
(* the message is its number; the state is what was absorbed since the     *)
(* last permutation and before each of those.                              *)
(***************************************************************************)
EXTENDS Integers, Sequences, SequencesExt

CONSTANTS
  OutputSizes,   \* in bytes: 28, 32, 48, 64
  Lengths,       \* of a Write
  MaxBytes       \* bound: bytes of a message

laneSize == 8
stateSize == laneSize * laneSize

VARIABLES
  outputSize,
  digest,    \* absorbed: counted by the code; block: pairs <<byte of the state, what was
             \* absorbed there>>; blocks: those that a permutation has closed
  written,   \* bytes the caller has given to Write
  fate,      \* "ok", "panics" or "hangs", of the last call
  sum        \* the last Sum: of so many bytes, its blocks and the bytes squeezed

spongeVars == <<outputSize, digest, written, fate, sum>>

NoSum == [of |-> -1]
rate == stateSize - 2 * outputSize
minInt(v1, v2) == v1

(* Go's m % rate, whose sign is that of m.                                 *)
InRate(m) == IF rate > 0 THEN m % rate ELSE m % (-rate)

Empty == [absorbed |-> 0, block |-> {}, blocks |-> <<>>, taken |-> 0, fate |-> "ok"]

(* The bytes go into one lane; what is shifted out of it is lost.          *)
unalignedAbsorb(d, len) ==
  LET offset == InRate(d.absorbed) IN
    [d EXCEPT !.absorbed = @ + len, !.taken = @ + len,
              !.block = @ \cup {<<offset + i, written + d.taken + i>> :
                                  i \in {i \in 0..(len - 1) : (offset % laneSize) + i < laneSize}}]

keccakF1600(d) == [d EXCEPT !.blocks = Append(@, d.block), !.block = {}]
PermuteIfFull(d) == IF InRate(d.absorbed) = 0 THEN keccakF1600(d) ELSE d

(* The rest of the first lane.  minInt takes its first argument, so that a *)
(* write that ends within the lane is sliced beyond its end, which panics: *)
(* what is written is a slice without capacity to spare (otherwise what    *)
(* lies behind it would be absorbed).                                      *)
AbsorbFirst(d, len) ==
  LET offset == InRate(d.absorbed)
      toAbsorb == minInt(laneSize - (offset % laneSize), len)
  IN IF len = 0 \/ (offset % laneSize = 0 /\ len >= 8) THEN d
     ELSE IF toAbsorb > len THEN [d EXCEPT !.fate = "panics"]
     ELSE PermuteIfFull(unalignedAbsorb(d, toAbsorb))

(* Whole lanes up to the end of a block, as often as any are left.         *)
AbsorbLanes(d, len) ==
  LET firstLane == InRate(d.absorbed) \div laneSize
      lastLane == minInt(rate \div laneSize, firstLane + ((len - d.taken) \div laneSize))
      bytes == (lastLane - firstLane) * laneSize
  IN IF d.fate # "ok" \/ len - d.taken < laneSize THEN d
     ELSE IF bytes <= 0 THEN [d EXCEPT !.fate = "hangs"]
     ELSE IF bytes > len - d.taken THEN [d EXCEPT !.fate = "panics"]
     ELSE PermuteIfFull([d EXCEPT !.absorbed = @ + bytes, !.taken = @ + bytes,
            !.block = @ \cup {<<firstLane * laneSize + i, written + d.taken + i>> : i \in 0..(bytes - 1)}])

Init ==
  /\ outputSize \in OutputSizes
  /\ digest = Empty
  /\ written = 0
  /\ fate = "ok"
  /\ sum = NoSum

(* What a Write of so many bytes makes of the digest.                      *)
Absorbing(len) ==
  LET lanes == FoldLeft(LAMBDA d, i : AbsorbLanes(d, len), AbsorbFirst(digest, len), [i \in 1..(len \div laneSize) |-> i])
  IN IF rate = 0 THEN [digest EXCEPT !.fate = "panics"]
     ELSE IF lanes.fate = "ok" /\ lanes.taken < len
       THEN unalignedAbsorb(lanes, len - lanes.taken) ELSE lanes

Write(len) ==
  /\ fate = "ok"
  /\ written + len <= MaxBytes
  /\ digest' = [Absorbing(len) EXCEPT !.taken = 0, !.fate = "ok"]
  /\ fate' = Absorbing(len).fate
  /\ written' = written + len
  /\ UNCHANGED <<outputSize, sum>>

Reset ==
  /\ fate = "ok"
  /\ digest' = Empty
  /\ written' = 0
  /\ UNCHANGED <<outputSize, fate, sum>>

(* pad: the first and the last bit of the padding.                         *)
Padding(d) ==
  LET offset == InRate(d.absorbed) IN
    {<<laneSize * (offset \div laneSize) + (offset % laneSize), "open">>,
     <<laneSize * ((rate \div laneSize) - 1) + 7, "close">>}

(* squeeze: whole lanes, with a permutation when a block is used up, and   *)
(* of the bytes as many as are wanted.  A byte is <<permutations, place>>. *)
Squeezed ==
  LET lanes == (outputSize + laneSize - 1) \div laneSize
      Lane(k) == <<k \div (rate \div laneSize), k % (rate \div laneSize)>>
      bytes == [j \in 0..(lanes * laneSize - 1) |->
                  <<Lane(j \div laneSize)[1], laneSize * Lane(j \div laneSize)[2] + (j % laneSize)>>]
  IN [j \in 0..(outputSize - 1) |-> bytes[j]]

(* Mutant: Sum pads the digest itself and not a copy.                      *)
SumInPlace ==
  /\ fate = "ok" /\ rate >= laneSize
  /\ sum' = [of |-> written, bytes |-> Squeezed,
             blocks |-> Append(digest.blocks, digest.block \cup Padding(digest))]
  /\ digest' = [digest EXCEPT !.block = {}, !.blocks = sum'.blocks]
  /\ UNCHANGED <<outputSize, written, fate>>

(* Sum pads and squeezes a copy of the digest.                             *)
Sum ==
  /\ fate = "ok"
  /\ IF rate < laneSize
       THEN fate' = "panics" /\ sum' = NoSum
       ELSE /\ fate' = "ok"
            /\ sum' = [of |-> written, bytes |-> Squeezed,
                       blocks |-> Append(digest.blocks, digest.block \cup Padding(digest))]
  /\ UNCHANGED <<outputSize, digest, written>>

Next == (\E len \in Lengths : Write(len)) \/ Reset \/ Sum

Spec == Init /\ [][Next]_spongeVars

-----------------------------------------------------------------------------
(* The blocks of a message of so many bytes, cut every rate bytes.         *)
FullBlocks(m) == [b \in 1..(m \div rate) |-> {<<i, (b - 1) * rate + i>> : i \in 0..(rate - 1)}]
LastBlock(m) == {<<i, m - (m % rate) + i>> : i \in 0..((m % rate) - 1)}

(* The digest whose rate is positive, which of the package's sizes is that *)
(* of 28 bytes: a Write that reaches the end of the lane it starts in, or  *)
(* is empty, goes through; however a message is cut into such Writes the   *)
(* same blocks are permuted in the same order; and a Sum, which leaves the *)
(* digest as it is, pads and permutes the last of them and takes its bytes *)
(* from the state, rate bytes at a time.                                   *)
ChunkingInvisible ==
  rate > 0 =>
    /\ fate = "ok" =>
         /\ digest.blocks = FullBlocks(written) /\ digest.block = LastBlock(written)
         /\ \A len \in Lengths :
              len = 0 \/ (written % laneSize) + len >= laneSize => Absorbing(len).fate = "ok"
    /\ sum # NoSum =>
         /\ sum.blocks = Append(FullBlocks(sum.of),
              LastBlock(sum.of) \cup {<<sum.of % rate, "open">>, <<rate - 1, "close">>})
         /\ \A j \in 0..(outputSize - 1) : sum.bytes[j] = <<j \div rate, j % rate>>

(* What the comment of the constructors says: that the package works for   *)
(* each of the four sizes.  A Write of a whole lane would then end.        *)
SizeSupported == digest = Empty => Absorbing(laneSize).fate = "ok"

(* What the comment of Write says: that bytes which are not aligned, or    *)
(* too few for a lane, are slower, and no more than that.                  *)
UnalignedOnlySlower == fate = "ok" => \A len \in 1..(laneSize - 1) : Absorbing(len).fate # "panics"

=============================================================================
