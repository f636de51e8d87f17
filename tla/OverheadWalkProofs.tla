------------------------- MODULE OverheadWalkProofs -------------------------
(***************************************************************************)
(* The loops of block_arithmetic.rs compute their closed forms, for every  *)
(* block size, header size, start position and length.                     *)
(***************************************************************************)
EXTENDS OverheadWalk, BlockArithmeticProofs

\* Skipping the rest of a block header lands in the usable area and passes
\* no usable byte.
LEMMA SkipHeader ==
    ASSUME NEW p \in Nat
    PROVE  LET pos == p + remaining_in_block_header(p)
           IN  /\ remaining_in_block_header(p) \in Nat
               /\ pos \in Nat /\ pos >= p
               /\ pos % BlockSize >= BlockHeaderSize
               /\ pos % BlockSize < BlockSize
               /\ DataOffset(pos) = DataOffset(p)
               /\ remaining_in_block(pos) = BlockSize - (pos % BlockSize)
               /\ \A z \in Nat : p <= z /\ z <= pos => DataOffset(z) = DataOffset(p)
<1> DEFINE h == remaining_in_block_header(p)
           pos == p + h
<1>1. p % BlockSize \in 0 .. (BlockSize - 1) BY OffsetType
<1>2. h \in Nat /\ (h = 0 \/ (p % BlockSize) + h = BlockHeaderSize)
      /\ (h = 0 => p % BlockSize >= BlockHeaderSize)
  BY <1>1, BlockSizeNat DEF remaining_in_block_header, SaturatingSub
<1> HIDE DEF h
<1>3. pos \in Nat /\ pos >= p BY <1>2
<1>4. pos % BlockSize >= BlockHeaderSize
  <2>1. CASE h = 0 BY <2>1, <1>2
  <2>2. CASE h # 0
    <3>1. (p % BlockSize) + h < BlockSize BY <2>2, <1>2, BlockSizeNat
    <3>2. pos % BlockSize = (p % BlockSize) + h
      BY <3>1, <1>2, StepInBlock, BlockSizeNat
    <3> QED BY <3>2, <2>2, <1>2, BlockSizeNat
  <2> QED BY <2>1, <2>2
<1>5. \A z \in Nat : p <= z /\ z <= pos => DataOffset(z) = DataOffset(p)
  <2> SUFFICES ASSUME NEW z \in Nat, p <= z, z <= pos
               PROVE  DataOffset(z) = DataOffset(p)
    OBVIOUS
  <2> DEFINE x == z - p
  <2>1. x \in Nat /\ z = p + x /\ x <= h BY <1>2
  <2> HIDE DEF x
  <2>2. CASE h = 0 BY <2>1, <2>2
  <2>3. CASE h # 0
    <3>1. (p % BlockSize) + x <= BlockHeaderSize BY <2>1, <2>3, <1>1, <1>2, BlockSizeNat
    <3> QED BY <3>1, <2>1, DataOffsetInHeader
  <2> QED BY <2>2, <2>3
<1>6. DataOffset(pos) = DataOffset(p) BY <1>3, <1>5
<1>7. pos % BlockSize < BlockSize BY <1>3, OffsetType, BlockSizeNat
<1>8. remaining_in_block(pos) = BlockSize - (pos % BlockSize)
  BY <1>4, BlockSizeNat DEF remaining_in_block, is_block_boundary
<1> QED BY <1>2, <1>3, <1>4, <1>5, <1>6, <1>7, <1>8 DEF h

\* The loop invariant holds when a loop is entered.
LEMMA WalkInit == Init => WalkInv
<1> SUFFICES ASSUME Init PROVE WalkInv OBVIOUS
<1>1. TypeOK
  <2>1. begin \in Nat /\ arg \in Nat /\ cur \in Nat
    BY WalkAssumption DEF Init
  <2>2. bytes \in Nat BY <2>1 DEF Init
  <2>3. loop \in {"add", "distance"} /\ done \in BOOLEAN BY DEF Init
  <2> QED BY <2>1, <2>2, <2>3 DEF TypeOK
<1>2. begin \in Nat /\ arg \in Nat /\ DataOffset(begin) \in Nat
      /\ DataOffset(arg) \in Nat
  BY <1>1, DataOffsetType DEF TypeOK
<1>3. cur > arg => distance_without_overhead(begin, arg) = 0
  <2> SUFFICES ASSUME cur > arg
               PROVE  distance_without_overhead(begin, arg) = 0
    OBVIOUS
  <2>1. DataOffset(arg) <= DataOffset(begin)
    BY <1>2, DataOffsetMonotone DEF Init
  <2> QED BY <2>1, <1>2 DEF distance_without_overhead, SaturatingSub
<1> QED BY <1>1, <1>2, <1>3 DEF Init, WalkInv

\* An iteration of add_with_overhead preserves it.
LEMMA AddIterateInv == WalkInv /\ AddIterate => WalkInv'
<1> SUFFICES ASSUME WalkInv, AddIterate PROVE WalkInv' OBVIOUS
<1> DEFINE pos == cur + remaining_in_block_header(cur)
           n == Smaller(bytes, remaining_in_block(pos))
<1>1. /\ cur \in Nat /\ bytes \in Nat /\ begin \in Nat /\ arg \in Nat
      /\ loop = "add" /\ bytes > 0 /\ ~done /\ cur >= begin
      /\ DataOffset(cur) + bytes = DataOffset(begin) + arg
  BY DEF WalkInv, TypeOK, AddIterate
<1>2. /\ pos \in Nat /\ pos >= cur
      /\ pos % BlockSize >= BlockHeaderSize
      /\ pos % BlockSize < BlockSize
      /\ DataOffset(pos) = DataOffset(cur)
      /\ remaining_in_block(pos) = BlockSize - (pos % BlockSize)
  BY <1>1, SkipHeader
<1>3. pos % BlockSize \in Nat BY <1>2, OffsetType
<1> HIDE DEF pos
<1>4. /\ n \in Nat /\ n > 0 /\ n <= bytes
      /\ (pos % BlockSize) + n <= BlockSize
  BY <1>1, <1>2, <1>3, BlockSizeNat DEF Smaller
<1>5. cur' = pos + n /\ bytes' = bytes - n
  BY <1>2, <1>3, BlockSizeNat DEF AddIterate, pos
<1> HIDE DEF n
<1>6. DataOffset(cur') = DataOffset(pos) + n
  BY <1>2, <1>4, <1>5, DataOffsetInData
<1>7. is_possible_chunk_boundary(cur')
  <2>1. CASE (pos % BlockSize) + n < BlockSize
    <3>1. (pos + n) % BlockSize = (pos % BlockSize) + n
      BY <2>1, <1>2, <1>4, StepInBlock, BlockSizeNat
    <3>2. (pos + n) % BlockSize > BlockHeaderSize
      BY <3>1, <1>2, <1>3, <1>4, BlockSizeNat
    <3>3. pos + n \in Nat BY <1>2, <1>4
    <3> QED BY <3>2, <3>3, <1>5, PossibleBoundary
  <2>2. CASE (pos % BlockSize) + n = BlockSize
    <3>1. (pos + n) % BlockSize = 0
      BY <2>2, <1>2, <1>4, StepToBoundary, BlockSizeNat
    <3>2. pos + n \in Nat BY <1>2, <1>4
    <3> QED BY <3>1, <3>2, <1>5, PossibleBoundary
  <2> QED BY <2>1, <2>2, <1>3, <1>4, BlockSizeNat
<1>8. cur' \in Nat /\ bytes' \in Nat /\ cur' > begin
  BY <1>1, <1>2, <1>4, <1>5
<1>9. UNCHANGED <<loop, begin, arg, done>> BY DEF AddIterate
<1>10. DataOffset(cur) \in Nat /\ DataOffset(begin) \in Nat
  BY <1>1, DataOffsetType
<1>11. DataOffset(cur') + bytes' = DataOffset(begin) + arg
  BY <1>1, <1>2, <1>4, <1>5, <1>6, <1>10
<1>12. TypeOK' BY <1>1, <1>8, <1>9 DEF WalkInv, TypeOK
<1> QED BY <1>1, <1>7, <1>8, <1>9, <1>11, <1>12 DEF WalkInv

\* An iteration of distance_without_overhead preserves it.
LEMMA DistanceIterateInv == WalkInv /\ DistanceIterate => WalkInv'
<1> SUFFICES ASSUME WalkInv, DistanceIterate PROVE WalkInv' OBVIOUS
<1> DEFINE pos == cur + remaining_in_block_header(cur)
           avail == BlockSize - (pos % BlockSize)
           step == Smaller(avail, arg - pos)
<1>1. /\ cur \in Nat /\ bytes \in Nat /\ begin \in Nat /\ arg \in Nat
      /\ loop = "distance" /\ cur < arg /\ ~done
      /\ DataOffset(cur) = DataOffset(begin) + bytes
  BY DEF WalkInv, TypeOK, DistanceIterate
<1>2. /\ pos \in Nat /\ pos >= cur
      /\ pos % BlockSize >= BlockHeaderSize
      /\ pos % BlockSize < BlockSize
      /\ DataOffset(pos) = DataOffset(cur)
      /\ remaining_in_block(pos) = avail
      /\ \A z \in Nat : cur <= z /\ z <= pos => DataOffset(z) = DataOffset(cur)
  BY <1>1, SkipHeader
<1>3. pos % BlockSize \in Nat BY <1>2, OffsetType
<1>4. /\ UNCHANGED <<loop, begin, arg, done>>
      /\ pos >= arg => cur' = pos /\ bytes' = bytes
      /\ pos < arg => cur' = pos + step /\ bytes' = bytes + step
  BY <1>1, <1>2, <1>3, BlockSizeNat DEF DistanceIterate
<1>5. DataOffset(begin) \in Nat BY <1>1, DataOffsetType
<1> HIDE DEF pos
<1>6. CASE pos >= arg
  <2>1. DataOffset(arg) = DataOffset(cur) BY <1>1, <1>2, <1>6
  <2>2. distance_without_overhead(begin, arg) = bytes
    BY <2>1, <1>1, <1>5 DEF distance_without_overhead, SaturatingSub
  <2>3. TypeOK' BY <1>1, <1>2, <1>4, <1>6 DEF WalkInv, TypeOK
  <2> QED BY <2>2, <2>3, <1>1, <1>2, <1>4, <1>6 DEF WalkInv
<1>7. CASE pos < arg
  <2>1. step \in Nat /\ pos + step <= arg /\ (pos % BlockSize) + step <= BlockSize
    BY <1>1, <1>2, <1>3, <1>7, BlockSizeNat DEF Smaller
  <2> HIDE DEF step
  <2>2. cur' = pos + step /\ bytes' = bytes + step BY <1>4, <1>7
  <2>3. DataOffset(pos + step) = DataOffset(pos) + step
    BY <2>1, <1>2, DataOffsetInData
  <2>4. DataOffset(cur') = DataOffset(begin) + bytes'
    BY <2>2, <2>3, <1>1, <1>2, <1>5, <2>1
  <2>5. TypeOK' BY <1>1, <1>2, <1>4, <2>1, <2>2 DEF WalkInv, TypeOK
  <2> QED BY <2>1, <2>2, <2>4, <2>5, <1>1, <1>2, <1>4 DEF WalkInv
<1> QED BY <1>1, <1>2, <1>6, <1>7

\* The loop invariant gives the result when the loop returns.
LEMMA WalkInvComputes == WalkInv => WalkComputes
<1> SUFFICES ASSUME WalkInv, done PROVE WalkComputes BY DEF WalkComputes
<1>1. /\ cur \in Nat /\ bytes \in Nat /\ begin \in Nat /\ arg \in Nat
      /\ loop \in {"add", "distance"}
  BY DEF WalkInv, TypeOK
<1>2. DataOffset(begin) \in Nat /\ DataOffset(cur) \in Nat
  BY <1>1, DataOffsetType
<1>3. CASE loop = "add"
  <2>1. /\ DataOffset(cur) = DataOffset(begin) + arg
        /\ cur >= begin
        /\ cur = begin \/ is_possible_chunk_boundary(cur)
        /\ cur = begin => arg = 0
    BY <1>1, <1>2, <1>3 DEF WalkInv
  <2>2. CASE arg = 0
    <3>1. cur = begin
      <4> SUFFICES ASSUME cur # begin PROVE FALSE OBVIOUS
      <4>1. DataOffset(begin) < DataOffset(cur)
        BY <1>1, <2>1, DataOffsetStrict
      <4> QED BY <4>1, <2>1, <2>2, <1>2
    <3> QED BY <3>1, <2>2, <1>3 DEF WalkComputes, add_with_overhead
  <2>3. CASE arg # 0
    <3>1. is_possible_chunk_boundary(cur) BY <2>1, <2>3
    <3>2. /\ add_with_overhead(begin, arg) \in Nat
          /\ is_possible_chunk_boundary(add_with_overhead(begin, arg))
          /\ DataOffset(add_with_overhead(begin, arg)) = DataOffset(begin) + arg
      BY <1>1, <2>3, AddWithOverheadFacts
    <3>3. cur = add_with_overhead(begin, arg)
      BY <3>1, <3>2, <2>1, <1>1, DataOffsetInjective
    <3> QED BY <3>3, <1>3 DEF WalkComputes
  <2> QED BY <2>2, <2>3
<1>4. CASE loop = "distance"
  <2>1. cur >= arg BY <1>4 DEF WalkInv
  <2>2. CASE cur > arg BY <2>2, <1>4 DEF WalkInv, WalkComputes
  <2>3. CASE cur = arg
    <3>1. DataOffset(arg) = DataOffset(begin) + bytes
      BY <2>3, <1>1, <1>4 DEF WalkInv
    <3>2. bytes = distance_without_overhead(begin, arg)
      BY <3>1, <1>1, <1>2 DEF distance_without_overhead, SaturatingSub
    <3> QED BY <3>2, <1>4 DEF WalkComputes
  <2> QED BY <2>1, <2>2, <2>3, <1>1
<1> QED BY <1>1, <1>3, <1>4

\* The loop invariant holds throughout.
THEOREM WalkInvariant == Spec => []WalkInv
<1>1. Init => WalkInv BY WalkInit
<1>2. WalkInv /\ [Next]_vars => WalkInv'
  <2> SUFFICES ASSUME WalkInv, [Next]_vars PROVE WalkInv' OBVIOUS
  <2>1. CASE AddReturn BY <2>1 DEF AddReturn, WalkInv, TypeOK
  <2>2. CASE AddIterate BY <2>2, AddIterateInv
  <2>3. CASE DistanceReturn BY <2>3 DEF DistanceReturn, WalkInv, TypeOK
  <2>4. CASE DistanceIterate BY <2>4, DistanceIterateInv
  <2>5. CASE Terminated \/ UNCHANGED vars
    BY <2>5 DEF Terminated, vars, WalkInv, TypeOK
  <2> QED BY <2>1, <2>2, <2>3, <2>4, <2>5 DEF Next
<1> QED BY <1>1, <1>2, PTL DEF Spec

(***************************************************************************)
(* The loops of add_with_overhead and distance_without_overhead return     *)
(* their closed forms: the arithmetic all the other modules are built on   *)
(* is the arithmetic the code performs.                                    *)
(***************************************************************************)
THEOREM WalkCorrect == Spec => []WalkComputes
BY WalkInvariant, WalkInvComputes, PTL

(***************************************************************************)
(* distance_without_overhead, applied to what the add_with_overhead loop   *)
(* returned, gives back the length.                                        *)
(***************************************************************************)
THEOREM WalkInverse == Spec => []DistanceInvertsAdd
<1>1. WalkInv => DistanceInvertsAdd
  <2> SUFFICES ASSUME WalkInv, done, loop = "add"
               PROVE  distance_without_overhead(begin, cur) = arg
    BY DEF DistanceInvertsAdd
  <2>1. cur = add_with_overhead(begin, arg)
    BY WalkInvComputes DEF WalkComputes
  <2>2. begin \in Nat /\ arg \in Nat BY DEF WalkInv, TypeOK
  <2> QED BY <2>1, <2>2, DistanceInverse
<1> QED BY <1>1, WalkInvariant, PTL
=============================================================================
