----------------------- MODULE BlockArithmeticProofs -----------------------
(***************************************************************************)
(* Facts about the layout arithmetic, for every block size and every       *)
(* header size that BlockArithmetic allows.                                *)
(***************************************************************************)
EXTENDS BlockArithmetic, TLAPS

---------------------------------------------------------------------------
(* Division by the symbolic block size. *)

\* Quotient and remainder recompose the dividend.
LEMMA DivMod ==
    ASSUME NEW a \in Nat, NEW b \in Nat \ {0}
    PROVE  /\ a = b * (a \div b) + (a % b)
           /\ a % b \in 0 .. (b - 1)
           /\ a \div b \in Nat
OBVIOUS

\* They are the only ones that do.
LEMMA QuotientUnique ==
    ASSUME NEW b \in Nat \ {0}, NEW q \in Nat, NEW r \in 0 .. (b - 1),
           NEW q2 \in Nat, NEW r2 \in 0 .. (b - 1), b * q + r = b * q2 + r2
    PROVE  q = q2 /\ r = r2
<1>1. ASSUME q < q2 PROVE FALSE
  <2>1. q2 >= q + 1 BY <1>1
  <2>2. b * q2 >= b * (q + 1) BY <2>1
  <2>3. b * (q + 1) = b * q + b OBVIOUS
  <2> QED BY <2>2, <2>3
<1>2. ASSUME q2 < q PROVE FALSE
  <2>1. q >= q2 + 1 BY <1>2
  <2>2. b * q >= b * (q2 + 1) BY <2>1
  <2>3. b * (q2 + 1) = b * q2 + b OBVIOUS
  <2> QED BY <2>2, <2>3
<1> QED BY <1>1, <1>2

LEMMA DivModUnique ==
    ASSUME NEW b \in Nat \ {0}, NEW a \in Nat, NEW q \in Nat,
           NEW r \in 0 .. (b - 1), a = b * q + r
    PROVE  a \div b = q /\ a % b = r
BY DivMod, QuotientUnique

LEMMA Distribute ==
    ASSUME NEW b \in Nat, NEW q \in Nat
    PROVE  /\ b * (q + 1) = b * q + b
           /\ (q + 1) * b = q * b + b
           /\ b * q \in Nat
           /\ q * b \in Nat
OBVIOUS

\* A step inside a block moves the offset in the block and nothing else.
LEMMA StepInBlock ==
    ASSUME NEW b \in Nat \ {0}, NEW p \in Nat, NEW x \in Nat, (p % b) + x < b
    PROVE  (p + x) \div b = p \div b /\ (p + x) % b = (p % b) + x
<1> DEFINE q == p \div b
           r == p % b
<1>1. q \in Nat /\ r \in Nat /\ p = b * q + r BY DivMod
<1>2. r + x < b OBVIOUS
<1> HIDE DEF q, r
<1>3. b * q \in Nat BY <1>1
<1>4. p + x = b * q + (r + x) BY <1>1, <1>3
<1>5. r + x \in 0 .. (b - 1) BY <1>1, <1>2
<1>6. p + x \in Nat OBVIOUS
<1>7. (p + x) \div b = q /\ (p + x) % b = r + x
  BY <1>1, <1>4, <1>5, <1>6, DivModUnique
<1> QED BY <1>7 DEF q, r

\* A step up to the end of a block lands on the first byte of the next.
LEMMA StepToBoundary ==
    ASSUME NEW b \in Nat \ {0}, NEW p \in Nat, NEW x \in Nat, (p % b) + x = b
    PROVE  (p + x) \div b = (p \div b) + 1 /\ (p + x) % b = 0
<1> DEFINE q == p \div b
           r == p % b
<1>1. q \in Nat /\ r \in Nat /\ p = b * q + r BY DivMod
<1>2. r + x = b OBVIOUS
<1> HIDE DEF q, r
<1>3. b * q \in Nat /\ b * (q + 1) = b * q + b BY <1>1, Distribute
<1>4. p + x = b * (q + 1) + 0 BY <1>1, <1>2, <1>3
<1>5. 0 \in 0 .. (b - 1) /\ q + 1 \in Nat /\ p + x \in Nat BY <1>1
<1>6. (p + x) \div b = q + 1 /\ (p + x) % b = 0
  BY <1>4, <1>5, DivModUnique
<1> QED BY <1>6 DEF q, r

---------------------------------------------------------------------------
(* Positions. *)

LEMMA BlockSizeNat ==
    /\ BlockSize \in Nat \ {0}
    /\ USABLE_BLOCK_SIZE \in Nat \ {0}
    /\ BlockHeaderSize \in Nat \ {0}
    /\ BlockHeaderSize < BlockSize
    /\ USABLE_BLOCK_SIZE = BlockSize - BlockHeaderSize
BY LayoutAssumption DEF USABLE_BLOCK_SIZE

LEMMA OffsetType ==
    ASSUME NEW p \in Nat
    PROVE  /\ p % BlockSize \in 0 .. (BlockSize - 1)
           /\ p \div BlockSize \in Nat
           /\ p = BlockSize * (p \div BlockSize) + (p % BlockSize)
BY DivMod, BlockSizeNat

\* The valid chunk positions of a block: {0} and past the alias.
LEMMA PossibleBoundary ==
    ASSUME NEW p \in Nat
    PROVE  is_possible_chunk_boundary(p)
             <=> p % BlockSize = 0 \/ p % BlockSize > BlockHeaderSize
BY OffsetType, BlockSizeNat
   DEF is_possible_chunk_boundary, remaining_in_block, is_block_boundary

LEMMA DataOffsetType ==
    ASSUME NEW p \in Nat
    PROVE  DataOffset(p) \in Nat
<1>1. (p \div BlockSize) * USABLE_BLOCK_SIZE \in Nat
  BY OffsetType, BlockSizeNat
<1>2. SaturatingSub(p % BlockSize, BlockHeaderSize) \in Nat
  BY OffsetType, BlockSizeNat DEF SaturatingSub
<1> QED BY <1>1, <1>2 DEF DataOffset

\* Walking through a block header passes no usable byte.
LEMMA DataOffsetInHeader ==
    ASSUME NEW p \in Nat, NEW x \in Nat, (p % BlockSize) + x <= BlockHeaderSize
    PROVE  DataOffset(p + x) = DataOffset(p)
<1>1. p % BlockSize \in Nat BY OffsetType
<1>2. (p % BlockSize) + x < BlockSize BY <1>1, BlockSizeNat
<1>3. /\ (p + x) \div BlockSize = p \div BlockSize
      /\ (p + x) % BlockSize = (p % BlockSize) + x
  BY <1>2, StepInBlock, BlockSizeNat
<1>4. SaturatingSub((p + x) % BlockSize, BlockHeaderSize)
        = SaturatingSub(p % BlockSize, BlockHeaderSize)
  BY <1>1, <1>3, BlockSizeNat DEF SaturatingSub
<1> QED BY <1>3, <1>4 DEF DataOffset

\* Walking through the usable area of one block, up to its end, passes one
\* usable byte per position.
LEMMA DataOffsetInData ==
    ASSUME NEW p \in Nat, NEW x \in Nat,
           p % BlockSize >= BlockHeaderSize, (p % BlockSize) + x <= BlockSize
    PROVE  DataOffset(p + x) = DataOffset(p) + x
<1>1. p % BlockSize \in Nat /\ p \div BlockSize \in Nat BY OffsetType
<1>2. CASE (p % BlockSize) + x < BlockSize
  <2>1. /\ (p + x) \div BlockSize = p \div BlockSize
        /\ (p + x) % BlockSize = (p % BlockSize) + x
    BY <1>2, StepInBlock, BlockSizeNat
  <2>2. SaturatingSub((p + x) % BlockSize, BlockHeaderSize)
          = SaturatingSub(p % BlockSize, BlockHeaderSize) + x
    BY <1>1, <2>1, BlockSizeNat DEF SaturatingSub
  <2>3. (p \div BlockSize) * USABLE_BLOCK_SIZE \in Nat BY <1>1, BlockSizeNat
  <2>4. SaturatingSub(p % BlockSize, BlockHeaderSize) \in Nat
    BY <1>1, BlockSizeNat DEF SaturatingSub
  <2> QED BY <2>1, <2>2, <2>3, <2>4 DEF DataOffset
<1>3. CASE (p % BlockSize) + x = BlockSize
  <2>1. /\ (p + x) \div BlockSize = (p \div BlockSize) + 1
        /\ (p + x) % BlockSize = 0
    BY <1>3, StepToBoundary, BlockSizeNat
  <2>2. ((p \div BlockSize) + 1) * USABLE_BLOCK_SIZE
          = (p \div BlockSize) * USABLE_BLOCK_SIZE + USABLE_BLOCK_SIZE
    BY <1>1, BlockSizeNat, Distribute
  <2>3. SaturatingSub(p % BlockSize, BlockHeaderSize) + x = USABLE_BLOCK_SIZE
    BY <1>1, <1>3, BlockSizeNat DEF SaturatingSub
  <2>4. SaturatingSub((p + x) % BlockSize, BlockHeaderSize) = 0
    BY <2>1, BlockSizeNat DEF SaturatingSub
  <2>5. (p \div BlockSize) * USABLE_BLOCK_SIZE \in Nat BY <1>1, BlockSizeNat
  <2>6. SaturatingSub(p % BlockSize, BlockHeaderSize) \in Nat
    BY <1>1, BlockSizeNat DEF SaturatingSub
  <2> QED BY <2>1, <2>2, <2>3, <2>4, <2>5, <2>6, BlockSizeNat DEF DataOffset
<1> QED BY <1>1, <1>2, <1>3, BlockSizeNat

\* DataOffset never decreases along the file.
LEMMA DataOffsetMonotone ==
    ASSUME NEW p \in Nat, NEW q \in Nat, p <= q
    PROVE  DataOffset(p) <= DataOffset(q)
<1> DEFINE a == p \div BlockSize
           b == q \div BlockSize
           sp == SaturatingSub(p % BlockSize, BlockHeaderSize)
           sq == SaturatingSub(q % BlockSize, BlockHeaderSize)
<1>1. /\ a \in Nat /\ b \in Nat
      /\ p % BlockSize \in 0 .. (BlockSize - 1)
      /\ q % BlockSize \in 0 .. (BlockSize - 1)
      /\ p = BlockSize * a + (p % BlockSize)
      /\ q = BlockSize * b + (q % BlockSize)
  BY OffsetType
<1>2. sp \in 0 .. (USABLE_BLOCK_SIZE - 1) /\ sq \in 0 .. (USABLE_BLOCK_SIZE - 1)
  BY <1>1, BlockSizeNat DEF SaturatingSub
<1>3. a <= b
  <2> SUFFICES ASSUME a >= b + 1 PROVE FALSE BY <1>1
  <2>1. BlockSize * a >= BlockSize * (b + 1) BY <1>1, BlockSizeNat
  <2>2. BlockSize * (b + 1) = BlockSize * b + BlockSize BY <1>1, BlockSizeNat
  <2>3. BlockSize * a \in Nat /\ BlockSize * b \in Nat BY <1>1, BlockSizeNat
  <2> HIDE DEF a, b
  <2> QED BY <1>1, <2>1, <2>2, <2>3, BlockSizeNat
<1>4. a * USABLE_BLOCK_SIZE \in Nat /\ b * USABLE_BLOCK_SIZE \in Nat
  BY <1>1, BlockSizeNat
<1>5. CASE a = b
  <2>1. p % BlockSize <= q % BlockSize
    <3>1. BlockSize * a = BlockSize * b /\ BlockSize * a \in Nat
      BY <1>1, <1>5, BlockSizeNat
    <3> HIDE DEF a, b
    <3> QED BY <1>1, <3>1
  <2>2. sp <= sq BY <2>1, <1>1, BlockSizeNat DEF SaturatingSub
  <2> QED BY <2>2, <1>5, <1>4, <1>2 DEF DataOffset
<1>6. CASE a < b
  <2>1. b >= a + 1 BY <1>1, <1>6
  <2>2. b * USABLE_BLOCK_SIZE >= (a + 1) * USABLE_BLOCK_SIZE
    BY <2>1, <1>1, BlockSizeNat
  <2>3. (a + 1) * USABLE_BLOCK_SIZE = a * USABLE_BLOCK_SIZE + USABLE_BLOCK_SIZE
    BY <1>1, BlockSizeNat, Distribute
  <2>4. DataOffset(p) = a * USABLE_BLOCK_SIZE + sp
        /\ DataOffset(q) = b * USABLE_BLOCK_SIZE + sq
    BY DEF DataOffset
  <2> HIDE DEF a, b, sp, sq
  <2> QED BY <2>2, <2>3, <2>4, <1>2, <1>4, BlockSizeNat
<1> QED BY <1>1, <1>3, <1>5, <1>6

\* The position right after the n-th usable byte: n usable bytes lie before
\* it, and a chunk may begin there.
LEMMA AfterUsableByteFacts ==
    ASSUME NEW n \in Nat \ {0}
    PROVE  /\ AfterUsableByte(n) \in Nat
           /\ DataOffset(AfterUsableByte(n)) = n
           /\ is_possible_chunk_boundary(AfterUsableByte(n))
<1> DEFINE q == (n - 1) \div USABLE_BLOCK_SIZE
           r == (n - 1) % USABLE_BLOCK_SIZE
           byte == BlockSize * q + (BlockHeaderSize + r)
<1>1. /\ q \in Nat /\ r \in 0 .. (USABLE_BLOCK_SIZE - 1)
      /\ n - 1 = USABLE_BLOCK_SIZE * q + r
  <2>1. n - 1 \in Nat OBVIOUS
  <2> QED BY <2>1, DivMod, BlockSizeNat
<1>2. AfterUsableByte(n) = q * BlockSize + BlockHeaderSize + r + 1
  BY DEF AfterUsableByte
<1> HIDE DEF q, r
<1>3. /\ BlockSize * q \in Nat /\ q * BlockSize = BlockSize * q
      /\ USABLE_BLOCK_SIZE * q \in Nat
      /\ q * USABLE_BLOCK_SIZE = USABLE_BLOCK_SIZE * q
  BY <1>1, BlockSizeNat
<1>4. byte \in Nat /\ AfterUsableByte(n) = byte + 1
  BY <1>1, <1>2, <1>3, BlockSizeNat
<1>5. BlockHeaderSize + r \in 0 .. (BlockSize - 1) BY <1>1, BlockSizeNat
<1>6. byte \div BlockSize = q /\ byte % BlockSize = BlockHeaderSize + r
  <2> DEFINE s == BlockHeaderSize + r
  <2>1. byte = BlockSize * q + s OBVIOUS
  <2>2. s \in 0 .. (BlockSize - 1) BY <1>5
  <2>3. byte \in Nat /\ q \in Nat /\ BlockSize \in Nat \ {0}
    BY <1>1, <1>4, BlockSizeNat
  <2> HIDE DEF byte, s
  <2>4. byte \div BlockSize = q /\ byte % BlockSize = s
    BY <2>1, <2>2, <2>3, DivModUnique
  <2> QED BY <2>4 DEF s
<1>7. DataOffset(byte) = n - 1
  <2>1. SaturatingSub(byte % BlockSize, BlockHeaderSize) = r
    BY <1>1, <1>6, BlockSizeNat DEF SaturatingSub
  <2>2. DataOffset(byte) = q * USABLE_BLOCK_SIZE + r
    BY <2>1, <1>6 DEF DataOffset
  <2> HIDE DEF byte
  <2> QED BY <2>2, <1>1, <1>3
<1> HIDE DEF byte
<1>8. DataOffset(byte + 1) = DataOffset(byte) + 1
  BY <1>4, <1>5, <1>6, <1>1, BlockSizeNat, DataOffsetInData
<1>9. (byte + 1) % BlockSize = 0 \/ (byte + 1) % BlockSize > BlockHeaderSize
  <2>1. CASE BlockHeaderSize + r + 1 < BlockSize
    <3>1. (byte % BlockSize) + 1 < BlockSize BY <2>1, <1>6, <1>1, BlockSizeNat
    <3>2. (byte + 1) % BlockSize = (byte % BlockSize) + 1
      <4>1. byte \in Nat /\ 1 \in Nat /\ BlockSize \in Nat \ {0}
        BY <1>4, BlockSizeNat
      <4> QED BY <4>1, <3>1, StepInBlock
    <3> QED BY <3>2, <1>1, <1>6, BlockSizeNat
  <2>2. CASE BlockHeaderSize + r + 1 = BlockSize
    <3>1. (byte % BlockSize) + 1 = BlockSize BY <2>2, <1>6, <1>1, BlockSizeNat
    <3> QED BY <3>1, <1>4, StepToBoundary, BlockSizeNat
  <2> QED BY <2>1, <2>2, <1>5, <1>1, BlockSizeNat
<1>10. byte + 1 \in Nat BY <1>4
<1>11. DataOffset(byte + 1) = n BY <1>7, <1>8
<1>12. is_possible_chunk_boundary(byte + 1) BY <1>9, <1>10, PossibleBoundary
<1> QED BY <1>4, <1>10, <1>11, <1>12

\* Between two chunk positions there is a usable byte.
LEMMA DataOffsetStrict ==
    ASSUME NEW p \in Nat, NEW q \in Nat, p < q,
           is_possible_chunk_boundary(q)
    PROVE  DataOffset(p) < DataOffset(q)
<1> DEFINE z == q - 1
<1>1. z \in Nat /\ p <= z /\ q = z + 1 OBVIOUS
<1> HIDE DEF z
<1>2. DataOffset(p) <= DataOffset(z) BY <1>1, DataOffsetMonotone
<1>3. z % BlockSize >= BlockHeaderSize /\ (z % BlockSize) + 1 <= BlockSize
  <2>1. z % BlockSize \in 0 .. (BlockSize - 1) BY <1>1, OffsetType
  <2>2. q % BlockSize = 0 \/ q % BlockSize > BlockHeaderSize
    BY PossibleBoundary
  <2>3. CASE (z % BlockSize) + 1 < BlockSize
    <3>1. q % BlockSize = (z % BlockSize) + 1
      BY <2>3, <1>1, StepInBlock, BlockSizeNat
    <3> QED BY <3>1, <2>1, <2>2, BlockSizeNat
  <2>4. CASE (z % BlockSize) + 1 = BlockSize BY <2>4, <2>1, BlockSizeNat
  <2> QED BY <2>1, <2>3, <2>4, BlockSizeNat
<1>4. DataOffset(q) = DataOffset(z) + 1 BY <1>1, <1>3, DataOffsetInData
<1>5. DataOffset(p) \in Nat /\ DataOffset(z) \in Nat
  BY <1>1, DataOffsetType
<1> QED BY <1>2, <1>4, <1>5

\* DataOffset tells chunk positions apart.
LEMMA DataOffsetInjective ==
    ASSUME NEW p \in Nat, NEW q \in Nat, DataOffset(p) = DataOffset(q),
           is_possible_chunk_boundary(p), is_possible_chunk_boundary(q)
    PROVE  p = q
<1>1. DataOffset(p) \in Nat /\ DataOffset(q) \in Nat BY DataOffsetType
<1>2. CASE p < q BY <1>1, <1>2, DataOffsetStrict
<1>3. CASE q < p BY <1>1, <1>3, DataOffsetStrict
<1> QED BY <1>2, <1>3

\* Laying out length > 0 bytes from begin ends length usable bytes further
\* on, at a position where a chunk may begin.
LEMMA AddWithOverheadFacts ==
    ASSUME NEW p \in Nat, NEW length \in Nat \ {0}
    PROVE  /\ add_with_overhead(p, length) \in Nat
           /\ add_with_overhead(p, length) > p
           /\ is_possible_chunk_boundary(add_with_overhead(p, length))
           /\ DataOffset(add_with_overhead(p, length)) = DataOffset(p) + length
<1> DEFINE e == add_with_overhead(p, length)
<1>1. DataOffset(p) \in Nat BY DataOffsetType
<1>2. DataOffset(p) + length \in Nat \ {0} BY <1>1
<1>3. e = AfterUsableByte(DataOffset(p) + length)
  BY DEF add_with_overhead
<1>4. /\ e \in Nat /\ is_possible_chunk_boundary(e)
      /\ DataOffset(e) = DataOffset(p) + length
  BY <1>2, <1>3, AfterUsableByteFacts
<1> HIDE DEF e
<1>5. e > p
  <2> SUFFICES ASSUME e <= p PROVE FALSE BY <1>4
  <2>1. DataOffset(e) <= DataOffset(p) BY <1>4, DataOffsetMonotone
  <2> QED BY <2>1, <1>1, <1>4
<1> QED BY <1>4, <1>5 DEF e

\* Rounding up moves forward to a position where a chunk may begin.
LEMMA RoundUpFacts ==
    ASSUME NEW p \in Nat
    PROVE  /\ round_up_to_possible_chunk_boundary(p) \in Nat
           /\ round_up_to_possible_chunk_boundary(p) >= p
           /\ is_possible_chunk_boundary(round_up_to_possible_chunk_boundary(p))
<1> DEFINE o == p % BlockSize
           e == round_up_to_possible_chunk_boundary(p)
<1>1. o \in 0 .. (BlockSize - 1) BY OffsetType
<1>2. CASE o = 0 \/ o > BlockHeaderSize
  <2>1. e = p
    BY <1>1, <1>2, BlockSizeNat DEF round_up_to_possible_chunk_boundary,
       SaturatingSub, remaining_in_block, is_block_boundary
  <2> QED BY <2>1, <1>2, PossibleBoundary
<1>3. CASE o # 0 /\ o <= BlockHeaderSize
  <2> DEFINE x == BlockHeaderSize + 1 - o
  <2>1. x \in Nat BY <1>1, <1>3, BlockSizeNat
  <2>2. e = p + x
    BY <1>1, <1>3, BlockSizeNat DEF round_up_to_possible_chunk_boundary,
       SaturatingSub, remaining_in_block, is_block_boundary
  <2>3. o + x = BlockHeaderSize + 1 BY <1>1, BlockSizeNat
  <2>4. p + x \in Nat /\ p + x >= p BY <2>1
  <2> HIDE DEF x
  <2>5. CASE BlockHeaderSize + 1 < BlockSize
    <3>1. (p + x) % BlockSize = BlockHeaderSize + 1
      BY <2>1, <2>3, <2>5, StepInBlock, BlockSizeNat
    <3>2. (p + x) % BlockSize > BlockHeaderSize BY <3>1, BlockSizeNat
    <3>3. is_possible_chunk_boundary(p + x) BY <3>2, <2>4, PossibleBoundary
    <3> QED BY <3>3, <2>2, <2>4
  <2>6. CASE BlockHeaderSize + 1 = BlockSize
    <3>1. (p + x) % BlockSize = 0
      BY <2>1, <2>3, <2>6, StepToBoundary, BlockSizeNat
    <3>2. is_possible_chunk_boundary(p + x) BY <3>1, <2>4, PossibleBoundary
    <3> QED BY <3>2, <2>2, <2>4
  <2> QED BY <2>5, <2>6, BlockSizeNat
<1> QED BY <1>1, <1>2, <1>3, BlockSizeNat

\* A chunk ends past all of its bytes, leaves a file position to each of its
\* records, and the next chunk may begin where it ends.
LEMMA ChunkEndFacts ==
    ASSUME NEW begin \in Nat, is_possible_chunk_boundary(begin),
           NEW data_size \in Nat, NEW num_records \in Nat
    PROVE  /\ chunk_end(begin, data_size, num_records) \in Nat
           /\ chunk_end(begin, data_size, num_records) > begin
           /\ chunk_end(begin, data_size, num_records)
                >= add_with_overhead(begin, ChunkHeaderSize + data_size)
           /\ chunk_end(begin, data_size, num_records) >= begin + num_records
           /\ is_possible_chunk_boundary(chunk_end(begin, data_size, num_records))
<1> DEFINE a == add_with_overhead(begin, ChunkHeaderSize + data_size)
           r == round_up_to_possible_chunk_boundary(begin + num_records)
<1>1. canonical_chunk_address(begin) = begin
  BY PossibleBoundary, OffsetType, BlockSizeNat DEF canonical_chunk_address
<1>2. chunk_end(begin, data_size, num_records) = Larger(a, r)
  BY <1>1 DEF chunk_end
<1>3. ChunkHeaderSize + data_size \in Nat \ {0} BY LayoutAssumption
<1>4. a \in Nat /\ a > begin /\ is_possible_chunk_boundary(a)
  BY <1>3, AddWithOverheadFacts
<1>5. begin + num_records \in Nat OBVIOUS
<1>6. r \in Nat /\ r >= begin + num_records /\ is_possible_chunk_boundary(r)
  BY <1>5, RoundUpFacts
<1> HIDE DEF a, r
<1>7. Larger(a, r) \in {a, r} /\ Larger(a, r) >= a /\ Larger(a, r) >= r
  BY <1>4, <1>6 DEF Larger
<1>8. /\ Larger(a, r) \in Nat /\ Larger(a, r) > begin
      /\ Larger(a, r) >= begin + num_records
      /\ is_possible_chunk_boundary(Larger(a, r))
  BY <1>4, <1>6, <1>7
<1> QED BY <1>2, <1>7, <1>8 DEF a

(***************************************************************************)
(* distance_without_overhead undoes add_with_overhead ("This is the        *)
(* inverse of add_with_overhead", block_arithmetic.rs), for every start    *)
(* position, also one inside a block header, and every length.             *)
(***************************************************************************)
THEOREM DistanceInverse ==
    ASSUME NEW p \in Nat, NEW length \in Nat
    PROVE  distance_without_overhead(p, add_with_overhead(p, length)) = length
<1>1. DataOffset(p) \in Nat BY DataOffsetType
<1>2. CASE length = 0
  BY <1>1, <1>2 DEF distance_without_overhead, add_with_overhead, SaturatingSub
<1>3. CASE length # 0
  <2>1. DataOffset(add_with_overhead(p, length)) = DataOffset(p) + length
    BY <1>3, AddWithOverheadFacts
  <2> QED BY <2>1, <1>1 DEF distance_without_overhead, SaturatingSub
<1> QED BY <1>2, <1>3

(***************************************************************************)
(* And the other way round, for a span that ends where a chunk may begin:  *)
(* the data size write_padding_to_multiple derives from the distance makes *)
(* a chunk that ends exactly at the position it aimed for.                 *)
(***************************************************************************)
THEOREM AddInverse ==
    ASSUME NEW p \in Nat, NEW q \in Nat, p < q, is_possible_chunk_boundary(q)
    PROVE  add_with_overhead(p, distance_without_overhead(p, q)) = q
<1> DEFINE d == distance_without_overhead(p, q)
<1>1. DataOffset(p) \in Nat /\ DataOffset(q) \in Nat BY DataOffsetType
<1>2. DataOffset(p) < DataOffset(q) BY DataOffsetStrict
<1>3. d \in Nat \ {0} /\ DataOffset(p) + d = DataOffset(q)
  BY <1>1, <1>2 DEF distance_without_overhead, SaturatingSub
<1> HIDE DEF d
<1>4. /\ add_with_overhead(p, d) \in Nat
      /\ is_possible_chunk_boundary(add_with_overhead(p, d))
      /\ DataOffset(add_with_overhead(p, d)) = DataOffset(q)
  BY <1>3, AddWithOverheadFacts
<1>5. add_with_overhead(p, d) = q BY <1>4, DataOffsetInjective
<1> QED BY <1>5 DEF d
=============================================================================
