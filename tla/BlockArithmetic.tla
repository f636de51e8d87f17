-------------------------- MODULE BlockArithmetic --------------------------
(***************************************************************************)
(* Arithmetic of the Riegeli block/chunk layout (block_arithmetic.rs,      *)
(* constants.rs).                                                          *)
(*                                                                         *)
(* A file is cut into blocks of BlockSize bytes.  Every block starts with  *)
(* a block header of BlockHeaderSize bytes; the other bytes carry chunks,  *)
(* which run across blocks as if the block headers were not there.         *)
(*                                                                         *)
(* The two loops of the source, add_with_overhead and                      *)
(* distance_without_overhead, are given here in closed form, in terms of   *)
(* DataOffset.  Module OverheadWalk has the loops themselves and shows     *)
(* that they compute these closed forms.                                   *)
(*                                                                         *)
(* Positions are natural numbers: the u64 saturation of chunk_end only     *)
(* matters for sizes past any real stream, which the reader rejects before *)
(* it follows them.                                                        *)
(***************************************************************************)
EXTENDS Integers

CONSTANTS BlockSize,        \* 65536 in the code
          BlockHeaderSize,  \* 24
          ChunkHeaderSize   \* 40

ASSUME LayoutAssumption ==
    /\ BlockHeaderSize \in Nat \ {0}
    /\ BlockSize \in Nat
    /\ BlockSize > BlockHeaderSize
    /\ ChunkHeaderSize \in Nat \ {0}

USABLE_BLOCK_SIZE == BlockSize - BlockHeaderSize

Larger(a, b)  == IF a >= b THEN a ELSE b
Smaller(a, b) == IF a <= b THEN a ELSE b
SaturatingSub(a, b) == IF a >= b THEN a - b ELSE 0

---------------------------------------------------------------------------
is_block_boundary(pos) == pos % BlockSize = 0

round_down_to_block_boundary(pos) == pos - (pos % BlockSize)

\* Bytes up to the next block boundary; 0 at a boundary.
remaining_in_block(pos) ==
    IF is_block_boundary(pos) THEN 0 ELSE BlockSize - (pos % BlockSize)

\* Bytes of a block header still ahead of pos; 0 in the usable area.
remaining_in_block_header(pos) ==
    SaturatingSub(BlockHeaderSize, pos % BlockSize)

\* A chunk may begin at a block boundary (its header then follows the block
\* header) or past the byte that follows the block header, never in between.
is_possible_chunk_boundary(pos) == remaining_in_block(pos) < USABLE_BLOCK_SIZE

\* Mutant: positions inside and right behind a block header are kept.
round_up_identity(pos) == pos

round_up_to_possible_chunk_boundary(pos) ==
    pos + SaturatingSub(remaining_in_block(pos), USABLE_BLOCK_SIZE - 1)

\* boundary + BlockHeaderSize is an alias of the chunk begin at the boundary.
canonical_chunk_address(pos) ==
    IF pos % BlockSize = BlockHeaderSize THEN pos - BlockHeaderSize ELSE pos

---------------------------------------------------------------------------
(***************************************************************************)
(* The number of usable bytes of the file before pos.  All the positions   *)
(* of a block header, and the position right after it, have the same       *)
(* DataOffset.                                                             *)
(***************************************************************************)
DataOffset(pos) ==
    (pos \div BlockSize) * USABLE_BLOCK_SIZE
        + SaturatingSub(pos % BlockSize, BlockHeaderSize)

\* The position right after the usable byte number n - 1 of the file, for
\* n > 0: a block boundary, never the alias behind the block header.
AfterUsableByte(n) ==
    ((n - 1) \div USABLE_BLOCK_SIZE) * BlockSize
        + BlockHeaderSize + ((n - 1) % USABLE_BLOCK_SIZE) + 1

\* Closed form of the loop that lays length bytes out from chunk_begin.
add_with_overhead(chunk_begin, length) ==
    IF length = 0 THEN chunk_begin
    ELSE AfterUsableByte(DataOffset(chunk_begin) + length)

\* Closed form of the loop that counts usable bytes in chunk_begin .. pos-1.
distance_without_overhead(chunk_begin, pos) ==
    SaturatingSub(DataOffset(pos), DataOffset(chunk_begin))

\* Mutant: the records' positions are forgotten.
chunk_end_data_only(chunk_begin, data_size, num_records) ==
    add_with_overhead(canonical_chunk_address(chunk_begin),
                      ChunkHeaderSize + data_size)

\* Where a chunk ends: past its bytes, and far enough for each of its records
\* to own one file position.
chunk_end(chunk_begin, data_size, num_records) ==
    LET begin == canonical_chunk_address(chunk_begin)
    IN  Larger(add_with_overhead(begin, ChunkHeaderSize + data_size),
               round_up_to_possible_chunk_boundary(begin + num_records))
=============================================================================
