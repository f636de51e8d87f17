------------------------- MODULE RecordReaderProofs -------------------------
(***************************************************************************)
(* The reader: what it returns, and how it gets past damage, for every     *)
(* file, every length at which it is found, and every sequence of calls.   *)
(***************************************************************************)
EXTENDS RecordReader, BlockArithmeticProofs, SequenceTheorems

---------------------------------------------------------------------------
(* Positions. *)

\* A canonical address is no alias.
LEMMA CanonicalFacts ==
    ASSUME NEW p \in Nat
    PROVE  /\ canonical_chunk_address(p) \in Nat
           /\ canonical_chunk_address(p) <= p
           /\ canonical_chunk_address(p) % BlockSize # BlockHeaderSize
           /\ canonical_chunk_address(canonical_chunk_address(p))
                = canonical_chunk_address(p)
           /\ p % BlockSize # BlockHeaderSize => canonical_chunk_address(p) = p
           /\ p % BlockSize = BlockHeaderSize =>
                /\ canonical_chunk_address(p) = p - BlockHeaderSize
                /\ is_block_boundary(p - BlockHeaderSize)
<1>1. CASE p % BlockSize # BlockHeaderSize
  BY <1>1 DEF canonical_chunk_address
<1>2. CASE p % BlockSize = BlockHeaderSize
  <2> DEFINE q == p \div BlockSize
  <2>1. q \in Nat /\ p = BlockSize * q + BlockHeaderSize BY <1>2, OffsetType
  <2> HIDE DEF q
  <2> DEFINE z == p - BlockHeaderSize
  <2>2. z = BlockSize * q + 0 /\ z \in Nat
    BY <2>1, BlockSizeNat, Distribute
  <2>3. 0 \in 0 .. (BlockSize - 1) BY BlockSizeNat
  <2>4. z % BlockSize = 0 BY <2>1, <2>2, <2>3, BlockSizeNat, DivModUnique
  <2>5. canonical_chunk_address(p) = z BY <1>2 DEF canonical_chunk_address
  <2>6. z <= p BY BlockSizeNat
  <2> HIDE DEF z
  <2>7. canonical_chunk_address(z) = z
    BY <2>4, BlockSizeNat DEF canonical_chunk_address
  <2> QED
    BY <1>2, <2>2, <2>4, <2>5, <2>6, <2>7, BlockSizeNat DEF is_block_boundary, z
<1> QED BY <1>1, <1>2

\* Where a chunk ends, wherever it begins.
LEMMA ChunkEndAnywhere ==
    ASSUME NEW begin \in Nat, NEW data_size \in Nat, NEW num_records \in Nat
    PROVE  /\ chunk_end(begin, data_size, num_records) \in Nat
           /\ is_possible_chunk_boundary(chunk_end(begin, data_size, num_records))
           /\ chunk_end(begin, data_size, num_records) > canonical_chunk_address(begin)
           /\ chunk_end(begin, data_size, num_records)
                >= canonical_chunk_address(begin) + num_records
<1> DEFINE c == canonical_chunk_address(begin)
           e == add_with_overhead(c, ChunkHeaderSize + data_size)
           r == round_up_to_possible_chunk_boundary(c + num_records)
<1>1. c \in Nat BY CanonicalFacts
<1> HIDE DEF c
<1>2. ChunkHeaderSize + data_size \in Nat \ {0} BY LayoutAssumption
<1>3. e \in Nat /\ e > c /\ is_possible_chunk_boundary(e)
  BY <1>1, <1>2, AddWithOverheadFacts
<1>4. r \in Nat /\ r >= c + num_records /\ is_possible_chunk_boundary(r)
  BY <1>1, RoundUpFacts
<1>5. chunk_end(begin, data_size, num_records) = Larger(e, r) BY DEF chunk_end, c
<1> HIDE DEF e, r
<1> QED BY <1>1, <1>3, <1>4, <1>5 DEF Larger, c

\* A chunk boundary is no alias.
LEMMA PossibleNoAlias ==
    ASSUME NEW p \in Nat, is_possible_chunk_boundary(p)
    PROVE  p % BlockSize # BlockHeaderSize
BY PossibleBoundary, BlockSizeNat, OffsetType

\* The first chunk behind the preamble.
LEMMA FirstDataChunkFacts ==
    /\ FirstDataChunk \in Nat /\ FirstDataChunk > 0
    /\ FirstDataChunk % BlockSize # BlockHeaderSize
<1>1. FirstDataChunk \in Nat /\ FirstDataChunk > 0 /\ FirstDataChunk > BlockHeaderSize
      /\ FirstDataChunk <= BlockSize
  BY LayoutAssumption, ReaderAssumption, BlockSizeNat DEF FirstDataChunk
<1>2. CASE FirstDataChunk < BlockSize
  <2>1. FirstDataChunk % BlockSize = FirstDataChunk
    <3>1. FirstDataChunk = BlockSize * 0 + FirstDataChunk BY <1>1, BlockSizeNat
    <3>2. FirstDataChunk \in 0 .. (BlockSize - 1) BY <1>1, <1>2, BlockSizeNat
    <3> QED BY <1>1, <3>1, <3>2, BlockSizeNat, DivModUnique
  <2> QED BY <1>1, <2>1, BlockSizeNat
<1>3. CASE FirstDataChunk = BlockSize
  <2>1. FirstDataChunk % BlockSize = 0
    <3>1. FirstDataChunk = BlockSize * 1 + 0 BY <1>1, <1>3, BlockSizeNat
    <3>2. 0 \in 0 .. (BlockSize - 1) BY BlockSizeNat
    <3> QED BY <1>1, <3>1, <3>2, BlockSizeNat, DivModUnique
  <2> QED BY <1>1, <2>1, BlockSizeNat
<1> QED BY <1>1, <1>2, <1>3, BlockSizeNat

\* The position behind an alias is none.
LEMMA AliasStep ==
    ASSUME NEW p \in Nat, p % BlockSize = BlockHeaderSize
    PROVE  (p + 1) % BlockSize # BlockHeaderSize
<1>1. CASE BlockHeaderSize + 1 < BlockSize
  <2>1. (p % BlockSize) + 1 < BlockSize BY <1>1
  <2>2. p \in Nat /\ 1 \in Nat /\ BlockSize \in Nat \ {0} BY BlockSizeNat
  <2>3. (p + 1) % BlockSize = (p % BlockSize) + 1 BY ONLY <2>1, <2>2, StepInBlock
  <2> QED BY <2>3, BlockSizeNat
<1>2. CASE BlockHeaderSize + 1 = BlockSize
  <2>1. (p % BlockSize) + 1 = BlockSize BY <1>2
  <2>2. (p + 1) % BlockSize = 0 BY <2>1, StepToBoundary, BlockSizeNat
  <2> QED BY <2>2, BlockSizeNat
<1> QED BY <1>1, <1>2, BlockSizeNat

LEMMA SameAfterBlocks ==
    ASSUME NEW q \in Nat
    PROVE  is_block_boundary(BlockSize * q) /\ BlockSize * q \in Nat
<1> DEFINE z == BlockSize * q
<1>1. z \in Nat /\ z = BlockSize * q + 0 BY BlockSizeNat, Distribute
<1>2. 0 \in 0 .. (BlockSize - 1) BY BlockSizeNat
<1>3. z % BlockSize = 0 BY <1>1, <1>2, BlockSizeNat, DivModUnique
<1> QED BY <1>1, <1>3 DEF is_block_boundary

\* Boundaries are BlockSize apart.
LEMMA BoundaryGap ==
    ASSUME NEW a \in Nat, NEW b \in Nat, is_block_boundary(a), is_block_boundary(b), a < b
    PROVE  a + BlockSize <= b
<1> DEFINE j == a \div BlockSize
           k == b \div BlockSize
<1>1. j \in Nat /\ k \in Nat /\ a = BlockSize * j /\ b = BlockSize * k
  BY OffsetType, BlockSizeNat DEF is_block_boundary
<1> HIDE DEF j, k
<1>2. ASSUME k <= j PROVE FALSE
  <2>1. BlockSize * k <= BlockSize * j BY <1>1, <1>2, BlockSizeNat
  <2> QED BY <1>1, <2>1
<1>3. j + 1 <= k BY <1>1, <1>2
<1>4. BlockSize * (j + 1) <= BlockSize * k BY <1>1, <1>3, BlockSizeNat
<1>5. BlockSize * (j + 1) = BlockSize * j + BlockSize BY <1>1, BlockSizeNat, Distribute
<1> QED BY <1>1, <1>4, <1>5

LEMMA BoundaryAfter ==
    ASSUME NEW p \in Nat, is_block_boundary(p)
    PROVE  p + BlockSize \in Nat /\ is_block_boundary(p + BlockSize) /\ p < p + BlockSize
<1> DEFINE q == p \div BlockSize
<1>1. q \in Nat /\ p = BlockSize * q + (p % BlockSize) BY OffsetType
<1>2. p % BlockSize = 0 BY DEF is_block_boundary
<1> HIDE DEF q
<1>3. BlockSize * q \in Nat /\ BlockSize * (q + 1) = BlockSize * q + BlockSize
  BY <1>1, Distribute, BlockSizeNat
<1>4. p + BlockSize = BlockSize * (q + 1) BY <1>1, <1>2, <1>3
<1>5. is_block_boundary(p + BlockSize) BY <1>1, <1>4, SameAfterBlocks
<1> QED BY <1>5, BlockSizeNat

\* The first boundary at or behind a position.
LEMMA NextBoundaryFacts ==
    ASSUME NEW p \in Nat
    PROVE  /\ next_block_boundary(p) \in Nat
           /\ next_block_boundary(p) >= p
           /\ is_block_boundary(next_block_boundary(p))
           /\ is_block_boundary(p) => next_block_boundary(p) = p
           /\ round_down_to_block_boundary(p) \in Nat
           /\ round_down_to_block_boundary(p) <= p
           /\ \A b \in Nat : is_block_boundary(b) /\ p <= b => next_block_boundary(p) <= b
<1> DEFINE q == p \div BlockSize
           r == p % BlockSize
           d == round_down_to_block_boundary(p)
<1>1. q \in Nat /\ r \in 0 .. (BlockSize - 1) /\ p = BlockSize * q + r BY OffsetType
<1>2. d = p - r BY DEF round_down_to_block_boundary
<1>3. is_block_boundary(p) <=> r = 0 BY DEF is_block_boundary
<1> HIDE DEF q, r, d
<1>4. d = BlockSize * q /\ d \in Nat /\ d <= p /\ is_block_boundary(d)
  <2>1. BlockSize * q \in Nat /\ is_block_boundary(BlockSize * q) BY <1>1, SameAfterBlocks
  <2>2. d = BlockSize * q BY <1>1, <1>2, <2>1
  <2> QED BY <1>1, <2>1, <2>2
<1>5. CASE is_block_boundary(p)
  BY <1>4, <1>5 DEF next_block_boundary, d
<1>6. CASE ~is_block_boundary(p)
  <2>1. next_block_boundary(p) = d + BlockSize BY <1>6 DEF next_block_boundary, d
  <2>2. d + BlockSize = BlockSize * (q + 1) /\ q + 1 \in Nat
    BY <1>1, <1>4, BlockSizeNat, Distribute
  <2>3. is_block_boundary(d + BlockSize) /\ d + BlockSize \in Nat BY <2>2, SameAfterBlocks
  <2>4. d + BlockSize >= p BY <1>1, <1>4, BlockSizeNat
  <2>5. ASSUME NEW b \in Nat, is_block_boundary(b), p <= b PROVE d + BlockSize <= b
    <3>1. d < b BY <1>1, <1>3, <1>4, <1>6, <2>5, BlockSizeNat
    <3> QED BY <1>4, <2>5, <3>1, BoundaryGap
  <2> QED BY <1>4, <1>6, <2>1, <2>3, <2>4, <2>5 DEF d
<1> QED BY <1>5, <1>6

---------------------------------------------------------------------------
(* The file. *)

LEMMA FileFacts ==
    ASSUME FileType(file)
    PROVE  /\ Chunks \in Seq(ChunkType) /\ Len(Chunks) \in Nat /\ Len(Chunks) >= 1
           /\ DOMAIN Chunks = 1 .. Len(Chunks)
           /\ Chunk(1).begin = 0 /\ Chunk(1).type = "signature"
           /\ lengths \subseteq Nat
           /\ \A b \in DOMAIN blocks : b \in Nat /\ blocks[b] \in BlockType
<1>1. Chunks \in Seq(ChunkType) /\ Chunks # <<>> BY DEF FileType, Chunks
<1>2. Len(Chunks) \in Nat /\ DOMAIN Chunks = 1 .. Len(Chunks) BY <1>1
<1>3. Len(Chunks) # 0 BY <1>1, EmptySeq
<1> QED
  BY <1>1, <1>2, <1>3 DEF FileType, Chunks, Chunk, blocks, lengths

LEMMA ChunkFacts ==
    ASSUME FileType(file), NEW i \in DOMAIN Chunks
    PROVE  /\ Chunk(i) \in ChunkType
           /\ Chunk(i).begin \in Nat /\ Chunk(i).data_size \in Nat
           /\ Chunk(i).num_records \in Nat
           /\ End(Chunk(i)) \in Nat
           /\ End(Chunk(i)) = chunk_end(Chunk(i).begin, Chunk(i).data_size,
                                        Chunk(i).num_records)
           /\ End(Chunk(i)) % BlockSize # BlockHeaderSize
           /\ canonical_chunk_address(End(Chunk(i))) = End(Chunk(i))
           /\ End(Chunk(i)) > canonical_chunk_address(Chunk(i).begin)
           /\ canonical_chunk_address(Chunk(i).begin) = Chunk(i).begin =>
                /\ End(Chunk(i)) > Chunk(i).begin
                /\ End(Chunk(i)) >= Chunk(i).begin + Chunk(i).num_records
<1>1. Chunk(i) \in ChunkType BY FileFacts, ElementOfSeq DEF Chunk
<1>2. /\ Chunk(i).begin \in Nat /\ Chunk(i).data_size \in Nat
      /\ Chunk(i).num_records \in Nat /\ Chunk(i).end \in Nat
  BY <1>1 DEF ChunkType
<1>3. Chunk(i).end = chunk_end(Chunk(i).begin, Chunk(i).data_size, Chunk(i).num_records)
  <2>1. \A j \in DOMAIN Chunks :
          Chunks[j].end = chunk_end(Chunks[j].begin, Chunks[j].data_size,
                                    Chunks[j].num_records)
    BY Zenon DEF FileType, Chunks
  <2> QED BY <2>1, Zenon DEF Chunk
<1>4. /\ is_possible_chunk_boundary(Chunk(i).end)
      /\ Chunk(i).end > canonical_chunk_address(Chunk(i).begin)
      /\ Chunk(i).end >= canonical_chunk_address(Chunk(i).begin) + Chunk(i).num_records
  <2> DEFINE b == Chunk(i).begin
             d == Chunk(i).data_size
             n == Chunk(i).num_records
  <2>1. b \in Nat /\ d \in Nat /\ n \in Nat BY <1>2
  <2>2. Chunk(i).end = chunk_end(b, d, n) BY <1>3
  <2> HIDE DEF b, d, n
  <2>3. /\ is_possible_chunk_boundary(chunk_end(b, d, n))
        /\ chunk_end(b, d, n) > canonical_chunk_address(b)
        /\ chunk_end(b, d, n) >= canonical_chunk_address(b) + n
    BY <2>1, ChunkEndAnywhere
  <2> QED BY <2>2, <2>3 DEF b, n
<1>5. Chunk(i).end % BlockSize # BlockHeaderSize BY <1>2, <1>4, PossibleNoAlias
<1>6. canonical_chunk_address(Chunk(i).end) = Chunk(i).end BY <1>2, <1>5, CanonicalFacts
<1> QED BY <1>1, <1>2, <1>3, <1>4, <1>5, <1>6 DEF End

LEMMA DataFacts ==
    ASSUME NEW c \in ChunkType
    PROVE  /\ DataBegin(c) \in Nat /\ DataBegin(c) > c.begin
           /\ DataEnd(c) \in Nat
<1>1. c.begin \in Nat /\ c.data_size \in Nat BY DEF ChunkType
<1>2. ChunkHeaderSize \in Nat \ {0} /\ ChunkHeaderSize + c.data_size \in Nat \ {0}
  BY <1>1, LayoutAssumption
<1> QED BY <1>1, <1>2, AddWithOverheadFacts DEF DataBegin, DataEnd

\* A longer file fits what a shorter one does.
LEMMA ClaimsMonotone ==
    ASSUME NEW c \in ChunkType, NEW m \in Nat, NEW n \in Nat, m <= n, ClaimsFit(c, m)
    PROVE  ClaimsFit(c, n)
<1>1. c.begin \in Nat /\ c.data_size \in Nat /\ c.num_records \in Nat BY DEF ChunkType
<1>2. DataBegin(c) \in Nat BY DataFacts
<1> QED BY <1>1, <1>2 DEF ClaimsFit, SaturatingSub

\* What read_chunk_header_at returns.
LEMMA HeaderOutcome ==
    ASSUME FileType(file), len \in lengths, stream_len \in Nat, stream_len <= len,
           NEW p \in Nat
    PROVE  LET h == read_chunk_header_at(p)
           IN  /\ h.kind \in {"eof", "error", "chunk"}
               /\ h.stream_len \in Nat /\ h.stream_len <= len
               /\ h.kind = "eof" => canonical_chunk_address(p) >= len
               /\ h.kind = "chunk" =>
                    /\ h.chunk \in DOMAIN Chunks
                    /\ Chunk(h.chunk).begin = canonical_chunk_address(p)
                    /\ HeaderReadable(Chunk(h.chunk))
                    /\ ClaimsFit(Chunk(h.chunk), len)
<1> DEFINE chunk_begin == canonical_chunk_address(p)
           h == read_chunk_header_at(p)
<1>0. len \in Nat BY FileFacts
<1>1. CASE chunk_begin >= len
  <2>1. h = [kind |-> "eof", chunk |-> 0, stream_len |-> stream_len]
    BY <1>1 DEF read_chunk_header_at
  <2> QED BY <1>1, <2>1
<1>2. CASE ~(chunk_begin >= len) /\ \A i \in ChunkAt(chunk_begin) : ~HeaderReadable(Chunk(i))
  <2>1. h = [kind |-> "error", chunk |-> 0, stream_len |-> stream_len]
    BY <1>2 DEF read_chunk_header_at
  <2> QED BY <1>2, <2>1
<1>3. CASE ~(chunk_begin >= len) /\ \E i \in ChunkAt(chunk_begin) : HeaderReadable(Chunk(i))
  <2> DEFINE i == CHOOSE j \in ChunkAt(chunk_begin) : HeaderReadable(Chunk(j))
             length == IF ClaimsFit(Chunk(i), stream_len) THEN stream_len ELSE len
  <2>1. i \in ChunkAt(chunk_begin) /\ HeaderReadable(Chunk(i)) BY <1>3
  <2>2. h = IF ClaimsFit(Chunk(i), length) /\ InteriorAgrees(Chunk(i))
            THEN [kind |-> "chunk", chunk |-> i, stream_len |-> length]
            ELSE [kind |-> "error", chunk |-> 0, stream_len |-> length]
    BY <1>3 DEF read_chunk_header_at
  <2> HIDE DEF i, h
  <2>3. i \in DOMAIN Chunks /\ Chunk(i).begin = chunk_begin BY <2>1 DEF ChunkAt
  <2>4. length \in Nat /\ length <= len BY <1>0
  <2>5. Chunk(i) \in ChunkType BY <2>3, ChunkFacts
  <2> HIDE DEF length
  <2>6. ClaimsFit(Chunk(i), length) => ClaimsFit(Chunk(i), len)
    BY <1>0, <2>4, <2>5, ClaimsMonotone
  <2>7. CASE ClaimsFit(Chunk(i), length) /\ InteriorAgrees(Chunk(i))
    <3>1. h = [kind |-> "chunk", chunk |-> i, stream_len |-> length] BY <2>2, <2>7
    <3> QED BY <2>1, <2>3, <2>4, <2>6, <2>7, <3>1 DEF h
  <2>8. CASE ~(ClaimsFit(Chunk(i), length) /\ InteriorAgrees(Chunk(i)))
    <3>1. h = [kind |-> "error", chunk |-> 0, stream_len |-> length] BY <2>2, <2>8
    <3> QED BY <2>4, <3>1 DEF h
  <2> QED BY <2>7, <2>8
<1> QED BY <1>1, <1>2, <1>3

---------------------------------------------------------------------------
(* Types. *)

LocalType == [chunk : 0 .. Len(Chunks), at : Nat, begin : Nat, boundary : Nat,
              end : Nat, target : Nat, index : Nat, scan_pos : Nat]

LEMMA NoLocalsType == ASSUME FileType(file) PROVE NoLocals \in LocalType
BY FileFacts DEF NoLocals, LocalType

LEMMA LocalUpdate ==
    ASSUME local \in LocalType, NEW p \in Nat, NEW i \in 0 .. Len(Chunks)
    PROVE  /\ [local EXCEPT !.chunk = i] \in LocalType
           /\ [local EXCEPT !.chunk = i].chunk = i
           /\ [local EXCEPT !.at = p] \in LocalType
           /\ [local EXCEPT !.end = p] \in LocalType
           /\ [local EXCEPT !.boundary = p] \in LocalType
           /\ [local EXCEPT !.scan_pos = p] \in LocalType
<1> DEFINE S == 0 .. Len(Chunks)
<1>1. i \in S OBVIOUS
<1>2. LocalType = [chunk : S, at : Nat, begin : Nat, boundary : Nat, end : Nat,
                   target : Nat, index : Nat, scan_pos : Nat]
  BY DEF LocalType
<1> HIDE DEF S
<1> QED BY <1>1, <1>2

LEMMA TypeFacts ==
    ASSUME TypeInv
    PROVE  /\ FileType(file) /\ len \in lengths /\ len \in Nat
           /\ stream_len \in Nat /\ stream_len <= len
           /\ next_chunk_file_pos \in Nat /\ current_chunk_begin \in Nat
           /\ current_record_index \in Nat
           /\ current_decoder \in 0 .. Len(Chunks)
           /\ current_decoder # 0 => current_decoder \in DOMAIN Chunks
           /\ local \in LocalType
           /\ pc = "data" => local.chunk \in DOMAIN Chunks
           /\ from \in Nat /\ delivered \subseteq Nat
           /\ Cursor \in Nat
<1>1. FileType(file) BY DEF TypeInv
<1>2. DOMAIN Chunks = 1 .. Len(Chunks) /\ Len(Chunks) \in Nat /\ lengths \subseteq Nat
  BY <1>1, FileFacts
<1>3. local \in LocalType BY DEF TypeInv, TypeOK, LocalType
<1>4. local.chunk \in 0 .. Len(Chunks) BY <1>3 DEF LocalType
<1> QED BY <1>1, <1>2, <1>3, <1>4 DEF TypeInv, TypeOK, Cursor

\* The file is the same; it can only have grown.
LEMMA FileKept ==
    ASSUME TypeInv, UNCHANGED file
    PROVE  /\ FileType(file)' /\ UNCHANGED <<Chunks, lengths, blocks>>
           /\ \A i : UNCHANGED Chunk(i)
           /\ LocalType' = LocalType
BY DEF TypeInv, FileType, Chunks, lengths, blocks, Chunk, LocalType

LEMMA ReturnTypes ==
    ASSUME TypeInv, NEW r \in {"none", "ok", "record", "eof", "error"}, Return(r)
    PROVE  /\ op' = "none" /\ pc' \in {"gone", "idle"}
           /\ local' = NoLocals /\ local' \in LocalType
           /\ result' = r
           /\ op # "new" => pc' = "idle"
BY NoLocalsType DEF TypeInv, Return

\* Where a numeric seek begins to scan: not behind the position it seeks, unless
\* that lies in the preamble.
LEMMA ScanOriginFacts ==
    ASSUME FileType(file), NEW target \in Nat, NEW block_begin \in Nat, block_begin <= target
    PROVE  /\ ScanOrigin(target, block_begin) \in Nat
           /\ ScanOrigin(target, block_begin) >= FirstDataChunk
           /\ ScanOrigin(target, block_begin) <= Larger(target, FirstDataChunk)
           /\ ScanOrigin(target, block_begin) % BlockSize # BlockHeaderSize
<1> DEFINE block == blocks[block_begin]
           next == block_begin + block.next_chunk
           chunk_begin == IF block.previous_chunk = 0 THEN block_begin
                          ELSE IF next > target THEN block_begin - block.previous_chunk
                          ELSE next
           Fallback == \/ block_begin = 0
                       \/ block_begin + BlockHeaderSize > len
                       \/ ~ValidBlock(block_begin)
                       \/ chunk_begin < FirstDataChunk
                       \/ ~is_possible_chunk_boundary(chunk_begin)
<1>1. ScanOrigin(target, block_begin) = IF Fallback THEN FirstDataChunk ELSE chunk_begin
  BY DEF ScanOrigin
<1>2. CASE Fallback
  <2>1. ScanOrigin(target, block_begin) = FirstDataChunk BY <1>1, <1>2
  <2> QED BY <2>1, FirstDataChunkFacts DEF Larger
<1>3. CASE ~Fallback
  <2>1. ScanOrigin(target, block_begin) = chunk_begin BY <1>1, <1>3
  <2>2. block_begin \in DOMAIN blocks BY <1>3 DEF ValidBlock
  <2>3. block \in BlockType BY <2>2, FileFacts
  <2>4. block.previous_chunk \in Nat /\ block.next_chunk \in Nat BY <2>3 DEF BlockType
  <2>5. chunk_begin \in Int /\ chunk_begin <= target /\ chunk_begin >= FirstDataChunk
    BY <1>3, <2>4, FirstDataChunkFacts
  <2>6. is_possible_chunk_boundary(chunk_begin) BY <1>3
  <2> HIDE DEF chunk_begin
  <2>7. chunk_begin \in Nat BY <2>5, FirstDataChunkFacts
  <2>8. chunk_begin % BlockSize # BlockHeaderSize BY <2>6, <2>7, PossibleNoAlias
  <2>9. chunk_begin <= Larger(target, FirstDataChunk)
    BY <2>5, <2>7, FirstDataChunkFacts DEF Larger
  <2> QED BY <2>1, <2>5, <2>7, <2>8, <2>9
<1> QED BY <1>2, <1>3

RegionType == [begin : Nat, end : Nat]

\* Where a region begins: at the canonical address, or behind the last region.
LEMMA RegionBeginFacts ==
    ASSUME TypeInv, NEW at \in Nat
    PROVE  /\ RegionBegin(at) \in Nat
           /\ canonical_chunk_address(at) <= RegionBegin(at) /\ RegionBegin(at) <= at
           /\ last_skipped_region # NoRegion /\ last_skipped_region.end <= at =>
                last_skipped_region.end <= RegionBegin(at)
<1>1. canonical_chunk_address(at) \in Nat /\ canonical_chunk_address(at) <= at
  BY CanonicalFacts
<1>2. last_skipped_region # NoRegion => last_skipped_region.end \in Nat
  BY DEF TypeInv, TypeOK
<1> QED BY <1>1, <1>2 DEF RegionBegin

\* Where a region ends: behind its begin and the address that failed, and not
\* at an alias of its begin.
LEMMA RegionEndFacts ==
    ASSUME TypeInv
    PROVE  /\ RegionEnd \in Nat
           /\ RegionEnd > local.begin /\ RegionEnd > local.at
           /\ canonical_chunk_address(RegionEnd) > local.begin
           /\ Region \in RegionType /\ Region.begin = local.begin /\ Region.end = RegionEnd
           /\ RegionEnd % BlockSize = BlockHeaderSize =>
                \/ RegionEnd = local.end \/ RegionEnd = local.begin + 1
                \/ RegionEnd = local.at + 1
<1> DEFINE e == Larger(local.end, Larger(local.begin + 1, local.at + 1))
<1>1. local.end \in Nat /\ local.begin \in Nat /\ local.at \in Nat
  BY TypeFacts DEF LocalType
<1>2. /\ e \in Nat /\ e > local.begin /\ e > local.at
      /\ e = local.end \/ e = local.begin + 1 \/ e = local.at + 1
  BY <1>1 DEF Larger
<1>3. RegionEnd = IF canonical_chunk_address(e) <= local.begin THEN e + 1 ELSE e
  BY DEF RegionEnd
<1> HIDE DEF e
<1>4. CASE canonical_chunk_address(e) <= local.begin
  <2>1. RegionEnd = e + 1 BY <1>3, <1>4
  <2>2. e % BlockSize = BlockHeaderSize
    BY <1>1, <1>2, <1>4, CanonicalFacts
  <2>3. (e + 1) % BlockSize # BlockHeaderSize BY <1>2, <2>2, AliasStep
  <2>4. canonical_chunk_address(e + 1) = e + 1 BY <1>2, <2>3, CanonicalFacts
  <2> QED BY <1>1, <1>2, <2>1, <2>3, <2>4 DEF Region, RegionType
<1>5. CASE ~(canonical_chunk_address(e) <= local.begin)
  <2>1. RegionEnd = e BY <1>3, <1>5
  <2>2. canonical_chunk_address(e) \in Nat BY <1>2, CanonicalFacts
  <2> QED BY <1>1, <1>2, <1>5, <2>1, <2>2 DEF Region, RegionType
<1> QED BY <1>4, <1>5

LEMMA OpenType == ASSUME TypeInv, Open PROVE TypeInv'
<1>1. /\ UNCHANGED <<file, recovery, len, cursor, pos, last_pos, last_record_is_valid,
                     skips, delivered, regions, seeks>>
      /\ pc = "open" /\ op = "new"
  BY DEF Open, TypeInv, OperationInv
<1>2. FileType(file)' /\ UNCHANGED <<Chunks, lengths>> BY <1>1, FileKept
<1>3. stream_len' \in Nat /\ stream_len' <= len' BY <1>1, TypeFacts DEF Open
<1>4. from' \in Nat BY TypeFacts DEF Open
<1>5. at_eof' \in BOOLEAN BY DEF Open, TypeInv, TypeOK
<1>6. local' \in LocalType BY TypeFacts, NoLocalsType DEF Open, Return
<1>7. \/ op' = "new" /\ pc' = "preamble" /\ result' = result
      \/ op' = "none" /\ pc' \in {"gone", "idle"} /\ result' \in {"ok", "error"}
  BY <1>1 DEF Open, Goto, Return
<1>8. OperationInv' BY <1>7 DEF OperationInv
<1>9. TypeOK'
  BY <1>1, <1>2, <1>3, <1>4, <1>5, <1>6, <1>7 DEF TypeInv, TypeOK, LocalType, cursor, skips
<1> QED BY <1>1, <1>2, <1>3, <1>7, <1>8, <1>9, TypeFacts DEF TypeInv, cursor
LEMMA PreambleType == ASSUME TypeInv, Preamble PROVE TypeInv'
<1>1. /\ UNCHANGED <<file, recovery, len, cursor, pos, last_pos, flags, stream_len, skips,
                     from, delivered, regions, seeks>>
      /\ pc = "preamble" /\ op = "new"
  BY DEF Preamble, TypeInv, OperationInv
<1>2. FileType(file)' /\ UNCHANGED <<Chunks, lengths>> BY <1>1, FileKept
<1>3. local' \in LocalType
  <2>1. local \in LocalType /\ NoLocals \in LocalType /\ 0 \in Nat /\ 0 \in 0 .. Len(Chunks)
    BY TypeFacts, NoLocalsType, FileFacts
  <2>2. local' \in {NoLocals, [local EXCEPT !.at = 0]} BY DEF Preamble, Return, FailAt
  <2> QED BY <2>1, <2>2, LocalUpdate
<1>4. \/ op' = "new" /\ pc' = "recover" /\ result' = result
      \/ op' = "none" /\ pc' \in {"gone", "idle"} /\ result' = "ok"
  BY <1>1 DEF Preamble, FailAt, Goto, Return
<1>5. OperationInv' BY <1>4 DEF OperationInv
<1>6. TypeOK'
  BY <1>1, <1>2, <1>3, <1>4 DEF TypeInv, TypeOK, LocalType, cursor, skips, flags
<1> QED BY <1>1, <1>2, <1>4, <1>5, <1>6, TypeFacts DEF TypeInv, cursor

LEMMA ReadRecordType == ASSUME TypeInv, ReadRecord PROVE TypeInv'
<1>1. /\ UNCHANGED <<file, recovery, len, cursor, pos, last_pos, flags, stream_len,
                     last_skipped_region, local, result, history>>
      /\ op' = "read_record" /\ pc' = "record" /\ pending_trusted_end' = None
  BY DEF ReadRecord
<1>2. FileType(file)' /\ UNCHANGED <<Chunks, lengths>> BY <1>1, FileKept
<1>3. OperationInv' BY <1>1 DEF OperationInv
<1>4. TypeOK'
  BY <1>1, <1>2 DEF TypeInv, TypeOK, cursor, flags, history
<1> QED BY <1>1, <1>2, <1>3, <1>4, TypeFacts DEF TypeInv

PositionType == [chunk_begin : Nat, record_index : Nat]

LEMMA TakeRecordType == ASSUME TypeInv, TakeRecord PROVE TypeInv'
<1>1. /\ UNCHANGED <<file, recovery, len, current_chunk_begin, next_chunk_file_pos, at_eof,
                     stream_len, skips, from, regions, seeks, io_errors>>
      /\ pc = "record" /\ op = "read_record"
  BY DEF TakeRecord, TypeInv, OperationInv
<1>2. FileType(file)' /\ UNCHANGED <<Chunks, lengths>> BY <1>1, FileKept
<1>3. /\ current_chunk_begin \in Nat /\ current_record_index \in Nat
      /\ last_pos \in PositionType /\ pos \in PositionType /\ delivered \subseteq Nat
  BY TypeFacts DEF TypeInv, TypeOK, PositionType
<1>4. last_pos' \in PositionType /\ pos' \in PositionType /\ current_record_index' \in Nat
  BY <1>3 DEF TakeRecord, RecordPosition, PositionType
<1>5. delivered' \subseteq Nat
  <2>1. CASE delivered' = delivered BY <1>3, <2>1
  <2>2. CASE delivered' = delivered \cup {Numeric(last_pos')}
    <3>1. Numeric(last_pos') \in Nat BY <1>4 DEF Numeric, PositionType
    <3> QED BY <1>3, <2>2, <3>1
  <2> QED BY <2>1, <2>2 DEF TakeRecord
<1>6. current_decoder' \in {0, current_decoder} BY DEF TakeRecord
<1>7. last_record_is_valid' \in BOOLEAN BY DEF TakeRecord, TypeInv, TypeOK
<1>8. local' \in LocalType BY TypeFacts, NoLocalsType DEF TakeRecord, Return
<1>9. \/ op' = op /\ pc' = "header" /\ result' = result /\ current_decoder' = 0
      \/ op' = "none" /\ pc' = "idle" /\ result' = "record"
  BY <1>1 DEF TakeRecord, Goto, Return
<1>10. OperationInv' BY <1>1, <1>9 DEF OperationInv
<1>11. TypeOK'
  <2>1. current_decoder' \in 0 .. Len(Chunks) BY <1>6, TypeFacts, FileFacts
  <2> QED
    BY <1>1, <1>2, <1>4, <1>5, <1>7, <1>8, <1>9, <2>1
       DEF TypeInv, TypeOK, LocalType, PositionType, skips
<1> QED BY <1>1, <1>2, <1>9, <1>10, <1>11, TypeFacts DEF TypeInv

LEMMA LoadHeaderType == ASSUME TypeInv, LoadHeader PROVE TypeInv'
<1> DEFINE header == read_chunk_header_at(next_chunk_file_pos)
<1>1. /\ UNCHANGED <<file, recovery, len, cursor, last_pos, last_record_is_valid,
                     last_skipped_region, from, delivered, regions, seeks>>
      /\ pc = "header" /\ op \in {"read_record", "seek"} /\ pending_trusted_end' = None
  BY DEF LoadHeader, TypeInv, OperationInv
<1>2. FileType(file)' /\ UNCHANGED <<Chunks, lengths>> BY <1>1, FileKept
<1>3. /\ header.stream_len \in Nat /\ header.stream_len <= len
      /\ header.kind = "chunk" => header.chunk \in DOMAIN Chunks
  BY TypeFacts, HeaderOutcome
<1> HIDE DEF header
<1>4. stream_len' \in Nat /\ stream_len' <= len'
  BY <1>1, <1>3, TypeFacts DEF LoadHeader, header
<1>5. at_eof' \in BOOLEAN BY DEF LoadHeader, TypeInv, TypeOK
<1>6. pos' \in PositionType
  <2>1. pos \in PositionType /\ local.target \in Nat /\ local.index \in Nat
    BY TypeFacts DEF TypeInv, TypeOK, PositionType, LocalType
  <2>2. pos' \in {pos, RecordPosition(local.target, local.index)} BY DEF LoadHeader
  <2> QED BY <2>1, <2>2 DEF RecordPosition, PositionType
<1>7. local' \in LocalType /\ (pc' = "data" => local'.chunk # 0)
  <2>1. local \in LocalType /\ NoLocals \in LocalType /\ next_chunk_file_pos \in Nat
        /\ DOMAIN Chunks = 1 .. Len(Chunks) /\ Len(Chunks) \in Nat
    BY TypeFacts, NoLocalsType, FileFacts
  <2>2. CASE FailAt(next_chunk_file_pos)
    BY <2>1, <2>2 DEF FailAt, Goto, LocalType
  <2>3. CASE Return("ok") \/ Return("eof") BY <2>1, <2>3 DEF Return
  <2>4. CASE header.kind = "chunk" /\ Goto("data") /\ local' = [local EXCEPT !.chunk = header.chunk]
    <3>1. header.chunk \in 0 .. Len(Chunks) /\ header.chunk # 0 BY <1>3, <2>1, <2>4
    <3> QED BY <2>1, <2>4, <3>1, LocalUpdate
  <2> QED BY <2>2, <2>3, <2>4 DEF LoadHeader, header
<1>8. \/ op' = op /\ pc' \in {"data", "recover"} /\ result' = result
      \/ op' = "none" /\ pc' = "idle" /\ result' \in {"ok", "eof"}
  BY <1>1 DEF LoadHeader, FailAt, Goto, Return
<1>9. OperationInv' BY <1>1, <1>8 DEF OperationInv
<1>10. TypeOK'
  BY <1>1, <1>2, <1>4, <1>5, <1>6, <1>7, <1>8
     DEF TypeInv, TypeOK, LocalType, PositionType, cursor
<1> QED BY <1>1, <1>2, <1>4, <1>7, <1>8, <1>9, <1>10, TypeFacts DEF TypeInv, cursor

LEMMA LoadDataType == ASSUME TypeInv, LoadData PROVE TypeInv'
<1> DEFINE c == Chunk(local.chunk)
<1>1. /\ UNCHANGED <<file, recovery, len, last_pos, last_record_is_valid, stream_len,
                     last_skipped_region, delivered, regions, seeks>>
      /\ pc = "data" /\ op \in {"read_record", "seek"} /\ current_decoder = 0
  BY DEF LoadData, TypeInv, OperationInv
<1>2. FileType(file)' /\ UNCHANGED <<Chunks, lengths>> BY <1>1, FileKept
<1>3. /\ c.begin \in Nat /\ End(c) \in Nat /\ c.num_records \in Nat
      /\ local.chunk \in 0 .. Len(Chunks) /\ Len(Chunks) \in Nat
  BY <1>1, TypeFacts, ChunkFacts, FileFacts
<1>4. /\ local \in LocalType /\ NoLocals \in LocalType
      /\ local.target \in Nat /\ local.index \in Nat /\ next_chunk_file_pos \in Nat
      /\ pos \in PositionType /\ current_chunk_begin \in Nat /\ current_record_index \in Nat
      /\ from \in Nat
  BY TypeFacts, NoLocalsType DEF TypeInv, TypeOK, PositionType, LocalType
<1>5. pending_trusted_end \in Nat \cup {None} /\ at_eof \in BOOLEAN BY DEF TypeInv, TypeOK
<1> HIDE DEF c
<1>6. CASE DataUnreadable \/ DataRejected
  <2>1. /\ current_chunk_begin' \in Nat /\ current_record_index' \in Nat
        /\ next_chunk_file_pos' \in Nat
        /\ UNCHANGED <<current_decoder, pos, at_eof, from>>
    BY <1>3, <1>4, <1>6 DEF DataUnreadable, DataRejected, cursor, c
  <2>2. pending_trusted_end' \in Nat \cup {None}
    BY <1>3, <1>5, <1>6 DEF DataUnreadable, DataRejected, c
  <2>3. local' \in LocalType /\ pc' = "recover" /\ op' = op /\ result' = result
    BY <1>3, <1>4, <1>6 DEF DataUnreadable, DataRejected, FailAt, Goto, LocalType, c
  <2>4. OperationInv' BY <1>1, <2>3 DEF OperationInv
  <2>5. TypeOK'
    BY <1>1, <1>2, <2>1, <2>2, <2>3 DEF TypeInv, TypeOK, LocalType
  <2> QED BY <1>1, <1>2, <2>1, <2>3, <2>4, <2>5, TypeFacts DEF TypeInv
<1>7. CASE ChunkSkipped
  <2>1. /\ current_chunk_begin' \in Nat /\ current_record_index' \in Nat
        /\ next_chunk_file_pos' \in Nat /\ pending_trusted_end' \in Nat
        /\ UNCHANGED <<current_decoder, pos, at_eof, from>>
    BY <1>3, <1>4, <1>7 DEF ChunkSkipped, c
  <2>2. local' \in LocalType /\ pc' = "header" /\ op' = op /\ result' = result
    <3>1. 0 \in 0 .. Len(Chunks) BY <1>3
    <3> QED BY <1>4, <1>7, <3>1, LocalUpdate DEF ChunkSkipped, Goto
  <2>3. OperationInv' BY <1>1, <2>2 DEF OperationInv
  <2>4. TypeOK'
    BY <1>1, <1>2, <2>1, <2>2 DEF TypeInv, TypeOK, LocalType
  <2> QED BY <1>1, <1>2, <2>1, <2>2, <2>3, <2>4, TypeFacts DEF TypeInv
<1>8. CASE ChunkLoaded
  <2> DEFINE index == IF op = "seek" /\ c.begin = local.target
                      THEN Smaller(local.index, c.num_records) ELSE 0
  <2>1. index \in Nat BY <1>3, <1>4 DEF Smaller
  <2>2. /\ current_chunk_begin' = c.begin /\ current_record_index' = index
        /\ next_chunk_file_pos' = End(c) /\ pending_trusted_end' = End(c)
        /\ current_decoder' = local.chunk
        /\ pos' \in {RecordPosition(local.target, index), RecordPosition(c.begin, 0)}
        /\ from' \in {from, c.begin + index}
    BY <1>8 DEF ChunkLoaded, c
  <2> HIDE DEF index
  <2>3. pos' \in PositionType /\ from' \in Nat
    BY <1>3, <1>4, <2>1, <2>2 DEF RecordPosition, PositionType
  <2>4. at_eof' \in BOOLEAN BY <1>5, <1>8 DEF ChunkLoaded
  <2>5. /\ local' \in LocalType
        /\ \/ pc' = "record" /\ op' = op /\ result' = result /\ op # "seek"
           \/ pc' = "idle" /\ op' = "none" /\ result' = "ok"
    <3>1. 0 \in 0 .. Len(Chunks) BY <1>3
    <3>2. [local EXCEPT !.chunk = 0] \in LocalType BY <1>4, <3>1, LocalUpdate
    <3> QED BY <1>1, <1>4, <1>8, <3>2 DEF ChunkLoaded, Goto, Return
  <2>6. OperationInv' BY <1>1, <2>5 DEF OperationInv
  <2>7. TypeOK'
    BY <1>1, <1>2, <1>3, <2>1, <2>2, <2>3, <2>4, <2>5 DEF TypeInv, TypeOK, LocalType, PositionType
  <2> QED BY <1>1, <1>2, <2>5, <2>6, <2>7, TypeFacts DEF TypeInv
<1> QED BY <1>6, <1>7, <1>8 DEF LoadData

\* The part of seek() before load_chunk_at.
LEMMA StartSeekFacts ==
    ASSUME TypeInv, NEW chunk_begin \in Nat, NEW index \in Nat, StartSeek(chunk_begin, index)
    PROVE  /\ current_decoder' = 0 /\ at_eof' = FALSE
           /\ next_chunk_file_pos' = canonical_chunk_address(chunk_begin)
           /\ current_chunk_begin' = canonical_chunk_address(chunk_begin)
           /\ canonical_chunk_address(chunk_begin) \in Nat
           /\ current_record_index' = 0 /\ pending_trusted_end' = None
           /\ op' = "seek" /\ pc' = "header" /\ result' = result
           /\ local' \in LocalType
           /\ local'.target = canonical_chunk_address(chunk_begin)
           /\ local'.index = index
<1> DEFINE p == canonical_chunk_address(chunk_begin)
<1>1. p \in Nat BY CanonicalFacts
<1>2. local' = [NoLocals EXCEPT !.target = p, !.index = index] BY DEF StartSeek
<1>3. /\ current_decoder' = 0 /\ at_eof' = FALSE
      /\ next_chunk_file_pos' = p /\ current_chunk_begin' = p
      /\ current_record_index' = 0 /\ pending_trusted_end' = None
      /\ op' = "seek" /\ pc' = "header" /\ result' = result
  BY DEF StartSeek
<1> HIDE DEF p
<1>4. /\ local' \in LocalType /\ local'.target = p /\ local'.index = index
  <2>1. Len(Chunks) \in Nat BY TypeFacts, FileFacts
  <2>2. local' = [chunk |-> 0, at |-> 0, begin |-> 0, boundary |-> 0, end |-> 0,
                  target |-> p, index |-> index, scan_pos |-> 0]
    BY <1>2 DEF NoLocals
  <2> QED BY <1>1, <2>1, <2>2 DEF LocalType
<1> QED BY <1>1, <1>3, <1>4 DEF p

LEMMA SeekType == ASSUME TypeInv, Seek PROVE TypeInv'
<1>1. /\ UNCHANGED <<file, recovery, len, pos, last_pos, last_record_is_valid, stream_len,
                     last_skipped_region>>
      /\ pc = "idle" /\ op = "none"
  BY DEF Seek, TypeInv, OperationInv
<1>2. FileType(file)' /\ UNCHANGED <<Chunks, lengths>> BY <1>1, FileKept
<1>3. CASE SeekFails /\ UNCHANGED <<from, delivered, regions>>
  <2>1. /\ UNCHANGED <<cursor, at_eof>> /\ pending_trusted_end' = None
        /\ op' = "none" /\ pc' = "idle" /\ result' = "error" /\ local' \in LocalType
    BY <1>1, <1>3, TypeFacts, NoLocalsType DEF SeekFails, Return
  <2>2. OperationInv' BY <2>1 DEF OperationInv
  <2>3. TypeOK' BY <1>1, <1>2, <1>3, <2>1 DEF TypeInv, TypeOK, LocalType, cursor
  <2> QED BY <1>1, <1>2, <2>1, <2>2, <2>3, TypeFacts DEF TypeInv
<1>4. ASSUME NEW chunk_begin \in Addresses, NEW index \in Indices,
             StartSeek(chunk_begin, index), from' = next_chunk_file_pos',
             delivered' = {}, regions' = {}
      PROVE  TypeInv'
  <2>1. chunk_begin \in Nat /\ index \in Nat BY ReaderAssumption
  <2>2. /\ current_decoder' = 0 /\ at_eof' = FALSE
        /\ next_chunk_file_pos' \in Nat /\ current_chunk_begin' \in Nat /\ from' \in Nat
        /\ current_record_index' = 0 /\ pending_trusted_end' = None
        /\ op' = "seek" /\ pc' = "header" /\ result' = result
        /\ local' \in LocalType
    BY <1>4, <2>1, StartSeekFacts
  <2>3. OperationInv' BY <2>2 DEF OperationInv
  <2>4. 0 \in 0 .. Len(Chunks) BY TypeFacts, FileFacts
  <2>5. TypeOK' BY <1>1, <1>2, <1>4, <2>2, <2>4 DEF TypeInv, TypeOK, LocalType
  <2> QED BY <1>1, <1>2, <2>2, <2>3, <2>5, TypeFacts DEF TypeInv
<1> QED BY <1>3, <1>4 DEF Seek

LEMMA SeekNumericType == ASSUME TypeInv, SeekNumeric PROVE TypeInv'
<1>1. /\ UNCHANGED <<file, recovery, len, cursor, pos, last_pos, flags, stream_len,
                     last_skipped_region, io_errors>>
      /\ op' = "seek_numeric" /\ pc' = "measure" /\ result' = result
      /\ pending_trusted_end' = None /\ from' = Cursor /\ delivered' = {} /\ regions' = {}
  BY DEF SeekNumeric
<1>2. FileType(file)' /\ UNCHANGED <<Chunks, lengths>> BY <1>1, FileKept
<1>3. local' \in LocalType
  <2>1. PICK numeric \in Numerics : local' = [NoLocals EXCEPT !.target = numeric]
    BY DEF SeekNumeric
  <2>2. numeric \in Nat /\ Len(Chunks) \in Nat BY TypeFacts, FileFacts, ReaderAssumption
  <2> QED BY <2>1, <2>2 DEF NoLocals, LocalType
<1>4. OperationInv' BY <1>1 DEF OperationInv
<1>5. TypeOK'
  BY <1>1, <1>2, <1>3, TypeFacts DEF TypeInv, TypeOK, LocalType, cursor, flags
<1> QED BY <1>1, <1>2, <1>4, <1>5, TypeFacts DEF TypeInv

LEMMA MeasureOriginType == ASSUME TypeInv, MeasureOrigin PROVE TypeInv'
<1>1. /\ UNCHANGED <<file, recovery, len, cursor, pos, last_pos, flags, skips, from,
                     delivered, regions, seeks>>
      /\ pc = "measure" /\ op = "seek_numeric"
  BY DEF MeasureOrigin, TypeInv, OperationInv
<1>2. FileType(file)' /\ UNCHANGED <<Chunks, lengths>> BY <1>1, FileKept
<1>3. stream_len' \in Nat /\ stream_len' <= len'
  BY <1>1, TypeFacts DEF MeasureOrigin
<1>4. local' \in LocalType BY TypeFacts, NoLocalsType DEF MeasureOrigin, Return
<1>5. \/ op' = op /\ pc' = "origin" /\ result' = result
      \/ op' = "none" /\ pc' = "idle" /\ result' = "error"
  BY <1>1 DEF MeasureOrigin, Goto, Return
<1>6. OperationInv' BY <1>1, <1>5 DEF OperationInv
<1>7. TypeOK'
  BY <1>1, <1>2, <1>3, <1>4, <1>5 DEF TypeInv, TypeOK, LocalType, cursor, flags, skips
<1> QED BY <1>1, <1>2, <1>3, <1>5, <1>6, <1>7, TypeFacts DEF TypeInv

\* What resolve_scan_origin leaves: an error, or a position to scan from.
LEMMA OriginResolved ==
    ASSUME TypeInv, ResolveScanOrigin
    PROVE  /\ pc = "origin" /\ op = "seek_numeric" /\ local' \in LocalType
           /\ \/ /\ op' = op /\ pc' = "peek" /\ result' = result
                 /\ local'.target = local.target
                 /\ FirstDataChunk <= local'.scan_pos
                 /\ local'.scan_pos <= Larger(local.target, FirstDataChunk)
                 /\ local'.scan_pos % BlockSize # BlockHeaderSize
              \/ op' = "none" /\ pc' = "idle" /\ result' = "error"
<1> DEFINE block_begin == round_down_to_block_boundary(Smaller(local.target, stream_len))
           origin == ScanOrigin(local.target, block_begin)
<1>1. pc = "origin" /\ op = "seek_numeric" BY DEF ResolveScanOrigin, TypeInv, OperationInv
<1>2. local \in LocalType /\ local.target \in Nat /\ stream_len \in Nat BY TypeFacts DEF LocalType
<1>3. Smaller(local.target, stream_len) \in Nat
      /\ Smaller(local.target, stream_len) <= local.target
  BY <1>2 DEF Smaller
<1>4. block_begin \in Nat /\ block_begin <= local.target BY <1>2, <1>3, NextBoundaryFacts
<1>5. /\ origin \in Nat /\ FirstDataChunk <= origin
      /\ origin <= Larger(local.target, FirstDataChunk)
      /\ origin % BlockSize # BlockHeaderSize
  BY <1>2, <1>4, TypeFacts, FirstDataChunkFacts, ScanOriginFacts
<1>6. /\ FirstDataChunk \in Nat /\ FirstDataChunk <= Larger(local.target, FirstDataChunk)
      /\ FirstDataChunk % BlockSize # BlockHeaderSize
  BY <1>2, FirstDataChunkFacts DEF Larger
<1>7. CASE Return("error")
  BY <1>1, <1>7, TypeFacts, NoLocalsType DEF Return
<1>8. ASSUME NEW p \in {origin, FirstDataChunk}, Goto("peek"),
             local' = [local EXCEPT !.scan_pos = p]
      PROVE  /\ local' \in LocalType /\ op' = op /\ pc' = "peek" /\ result' = result
             /\ local'.target = local.target /\ local'.scan_pos = p
  <2>1. p \in Nat /\ 0 \in 0 .. Len(Chunks) BY <1>5, <1>6, TypeFacts, FileFacts
  <2>2. local' \in LocalType BY <1>2, <1>8, <2>1, LocalUpdate
  <2>3. local'.target = local.target /\ local'.scan_pos = p BY <1>2, <1>8 DEF LocalType
  <2> QED BY <1>8, <2>2, <2>3 DEF Goto
<1>9. \/ Return("error")
      \/ \E p \in {origin, FirstDataChunk} : Goto("peek") /\ local' = [local EXCEPT !.scan_pos = p]
  BY DEF ResolveScanOrigin
<1> HIDE DEF origin
<1> QED BY <1>1, <1>5, <1>6, <1>7, <1>8, <1>9, FirstDataChunkFacts

LEMMA ResolveScanOriginType == ASSUME TypeInv, ResolveScanOrigin PROVE TypeInv'
<1>1. UNCHANGED <<file, recovery, len, cursor, pos, last_pos, flags, stream_len, skips,
                  from, delivered, regions, seeks>>
  BY DEF ResolveScanOrigin
<1>2. FileType(file)' /\ UNCHANGED <<Chunks, lengths>> BY <1>1, FileKept
<1>3. /\ local' \in LocalType /\ op = "seek_numeric"
      /\ \/ op' = op /\ pc' = "peek" /\ result' = result
         \/ op' = "none" /\ pc' = "idle" /\ result' = "error"
  BY OriginResolved
<1>4. OperationInv' BY <1>3 DEF OperationInv
<1>5. TypeOK'
  BY <1>1, <1>2, <1>3 DEF TypeInv, TypeOK, LocalType, cursor, flags, skips
<1> QED BY <1>1, <1>2, <1>3, <1>4, <1>5, TypeFacts DEF TypeInv


\* What one step of the scan of a numeric seek does.
LEMMA PeekSteps ==
    ASSUME TypeInv, PeekHeader
    PROVE  LET h == read_chunk_header_at(local.scan_pos)
               c == Chunk(h.chunk)
           IN  /\ pc = "peek" /\ op = "seek_numeric"
               /\ UNCHANGED <<file, recovery, len, last_pos, last_record_is_valid,
                              last_skipped_region, delivered, regions, seeks>>
               /\ stream_len' \in {stream_len, h.stream_len}
               /\ \/ /\ SeekFails /\ from' = Cursor /\ pos' = pos
                  \/ h.kind = "eof" /\ ScanAtEof
                  \/ /\ FailAt(local.scan_pos)
                     /\ UNCHANGED <<cursor, pos, at_eof, pending_trusted_end, from>>
                  \/ h.kind = "chunk" /\ ScanChunk(c)
BY DEF PeekHeader, ScanAtEof, ScanChunk

LEMMA PeekHeaderType == ASSUME TypeInv, PeekHeader PROVE TypeInv'
<1> DEFINE h == read_chunk_header_at(local.scan_pos)
           c == Chunk(h.chunk)
<1>1. /\ pc = "peek" /\ op = "seek_numeric"
      /\ UNCHANGED <<file, recovery, len, last_pos, last_record_is_valid,
                     last_skipped_region, delivered, regions, seeks>>
      /\ stream_len' \in {stream_len, h.stream_len}
      /\ \/ /\ SeekFails /\ from' = Cursor /\ pos' = pos
         \/ h.kind = "eof" /\ ScanAtEof
         \/ /\ FailAt(local.scan_pos)
            /\ UNCHANGED <<cursor, pos, at_eof, pending_trusted_end, from>>
         \/ h.kind = "chunk" /\ ScanChunk(c)
  BY PeekSteps
<1>2. FileType(file)' /\ UNCHANGED <<Chunks, lengths>> BY <1>1, FileKept
<1>3. /\ local \in LocalType /\ NoLocals \in LocalType /\ local.scan_pos \in Nat
      /\ local.target \in Nat /\ from \in Nat /\ pos \in PositionType
      /\ Len(Chunks) \in Nat /\ 0 \in 0 .. Len(Chunks)
  BY TypeFacts, NoLocalsType, FileFacts DEF LocalType, TypeInv, TypeOK, PositionType
<1>4. /\ h.stream_len \in Nat /\ h.stream_len <= len
      /\ h.kind = "chunk" => h.chunk \in DOMAIN Chunks
  BY <1>3, TypeFacts, HeaderOutcome
<1>5. Sought \in Nat BY <1>3, FirstDataChunkFacts DEF Sought, Larger
<1> HIDE DEF h
<1>6. stream_len' \in Nat /\ stream_len' <= len' BY <1>1, <1>4, TypeFacts
<1>7. CASE SeekFails /\ from' = Cursor /\ pos' = pos
  <2>1. /\ UNCHANGED <<cursor, at_eof>> /\ pending_trusted_end' = None
        /\ op' = "none" /\ pc' = "idle" /\ result' = "error" /\ local' \in LocalType
    BY <1>1, <1>3, <1>7 DEF SeekFails, Return
  <2>2. OperationInv' BY <2>1 DEF OperationInv
  <2>3. from' \in Nat BY <1>7, TypeFacts DEF Cursor
  <2>4. TypeOK' BY <1>1, <1>2, <1>3, <1>6, <1>7, <2>1, <2>3 DEF TypeInv, TypeOK, LocalType, cursor
  <2> QED BY <1>1, <1>2, <1>6, <2>1, <2>2, <2>4, TypeFacts DEF TypeInv
<1>8. CASE ScanAtEof
  <2>1. /\ current_decoder' = 0 /\ current_chunk_begin' \in Nat /\ current_record_index' = 0
        /\ next_chunk_file_pos' \in Nat /\ pos' \in PositionType /\ from' \in Nat
        /\ at_eof' = TRUE /\ pending_trusted_end' = pending_trusted_end
    BY <1>3, <1>5, <1>8 DEF ScanAtEof, RecordPosition, PositionType, Smaller
  <2>2. op' = "none" /\ pc' = "idle" /\ result' = "ok" /\ local' \in LocalType
    BY <1>1, <1>3, <1>8 DEF ScanAtEof, Return
  <2>3. OperationInv' BY <2>2 DEF OperationInv
  <2>4. TypeOK'
    BY <1>1, <1>2, <1>3, <1>6, <2>1, <2>2 DEF TypeInv, TypeOK, LocalType, PositionType
  <2> QED BY <1>1, <1>2, <1>6, <2>1, <2>2, <2>3, <2>4, TypeFacts DEF TypeInv
<1>9. CASE /\ FailAt(local.scan_pos)
           /\ UNCHANGED <<cursor, pos, at_eof, pending_trusted_end, from>>
  <2>1. local' \in LocalType BY <1>3, <1>9, LocalUpdate DEF FailAt
  <2>2. op' = op /\ pc' = "recover" /\ result' = result BY <1>9 DEF FailAt, Goto
  <2>3. OperationInv' BY <1>1, <2>2 DEF OperationInv
  <2>4. TypeOK'
    BY <1>1, <1>2, <1>6, <1>9, <2>1, <2>2 DEF TypeInv, TypeOK, LocalType, cursor
  <2> QED BY <1>1, <1>2, <1>6, <2>2, <2>3, <2>4, TypeFacts DEF TypeInv
<1>10. CASE h.kind = "chunk" /\ ScanChunk(c)
  <2> DEFINE index == SaturatingSub(local.target, local.scan_pos)
             end == chunk_end(local.scan_pos, c.data_size, c.num_records)
  <2>1. index \in Nat BY <1>3 DEF SaturatingSub
  <2>2. end \in Nat
    <3>1. c.data_size \in Nat /\ c.num_records \in Nat BY <1>4, <1>10, TypeFacts, ChunkFacts
    <3> QED BY <1>3, <3>1, ChunkEndAnywhere
  <2>3. \/ StartSeek(local.scan_pos, index) /\ from' = Sought /\ pos' = pos
        \/ /\ local' = [local EXCEPT !.scan_pos = end]
           /\ UNCHANGED <<cursor, pos, at_eof, pending_trusted_end, from, delivered,
                          op, pc, result>>
    BY <1>10 DEF ScanChunk
  <2> HIDE DEF index, end
  <2>4. CASE StartSeek(local.scan_pos, index) /\ from' = Sought /\ pos' = pos
    <3>1. /\ current_decoder' = 0 /\ at_eof' = FALSE
          /\ next_chunk_file_pos' \in Nat /\ current_chunk_begin' \in Nat
          /\ current_record_index' = 0 /\ pending_trusted_end' = None
          /\ op' = "seek" /\ pc' = "header" /\ result' = result
          /\ local' \in LocalType
      BY <1>3, <2>1, <2>4, StartSeekFacts
    <3>2. OperationInv' BY <3>1 DEF OperationInv
    <3>3. TypeOK'
      BY <1>1, <1>2, <1>3, <1>5, <1>6, <2>4, <3>1 DEF TypeInv, TypeOK, LocalType, PositionType
    <3> QED BY <1>1, <1>2, <1>6, <3>1, <3>2, <3>3, TypeFacts DEF TypeInv
  <2>5. CASE /\ local' = [local EXCEPT !.scan_pos = end]
             /\ UNCHANGED <<cursor, pos, at_eof, pending_trusted_end, from, delivered,
                            op, pc, result>>
    <3>1. local' \in LocalType BY <1>3, <2>2, <2>5, LocalUpdate
    <3>2. OperationInv' BY <2>5 DEF OperationInv, TypeInv
    <3>3. TypeOK'
      BY <1>1, <1>2, <1>6, <2>5, <3>1 DEF TypeInv, TypeOK, LocalType, cursor
    <3> QED BY <1>1, <1>2, <1>6, <2>5, <3>2, <3>3, TypeFacts DEF TypeInv
  <2> QED BY <2>3, <2>4, <2>5
<1> QED BY <1>1, <1>7, <1>8, <1>9, <1>10

\* What try_recover_at does before it looks for the end of a region.
LEMMA RecoverSteps ==
    ASSUME TypeInv, Recover
    PROVE  LET begin == RegionBegin(local.at)
           IN  /\ pc = "recover" /\ op \in {"new", "read_record", "seek", "seek_numeric"}
               /\ UNCHANGED <<file, recovery, len, cursor, pos, last_pos, flags, stream_len,
                              last_skipped_region, delivered, regions, seeks, io_errors>>
               /\ pending_trusted_end' = None
               /\ local' \in LocalType
               /\ \/ ~recovery /\ Return("error") /\ from' = Smaller(from, Cursor)
                  \/ /\ recovery /\ op' = op /\ result' = result /\ from' = from
                     /\ local'.at = local.at /\ local'.begin = begin
                     /\ local'.target = local.target /\ local'.scan_pos = local.scan_pos
                     /\ local'.index = local.index
                     /\ \/ /\ pc' = "region" /\ pending_trusted_end # None
                           /\ local'.end = pending_trusted_end
                        \/ /\ pc' = "resync" /\ pending_trusted_end = None
                           /\ is_block_boundary(local'.boundary)
                           /\ begin < local'.boundary
                           /\ \A b \in Nat : is_block_boundary(b) /\ begin < b =>
                                local'.boundary <= b
<1> DEFINE begin == RegionBegin(local.at)
           next == next_block_boundary(begin)
           boundary == IF next = begin THEN begin + BlockSize ELSE next
<1>1. pc = "recover" /\ op \in {"new", "read_record", "seek", "seek_numeric"}
  BY DEF Recover, TypeInv, OperationInv
<1>2. /\ UNCHANGED <<file, recovery, len, cursor, pos, last_pos, flags, stream_len,
                     last_skipped_region, delivered, regions, seeks, io_errors>>
      /\ pending_trusted_end' = None
      /\ \/ ~recovery /\ Return("error") /\ from' = Smaller(from, Cursor)
         \/ /\ recovery /\ pending_trusted_end # None
            /\ Goto("region") /\ from' = from
            /\ local' = [local EXCEPT !.begin = begin, !.end = pending_trusted_end]
         \/ /\ recovery /\ pending_trusted_end = None
            /\ Goto("resync") /\ from' = from
            /\ local' = [local EXCEPT !.begin = begin, !.boundary = boundary]
  BY DEF Recover
<1>3. local \in LocalType /\ local.at \in Nat /\ NoLocals \in LocalType
  BY TypeFacts, NoLocalsType DEF LocalType
<1>4. begin \in Nat BY <1>3, RegionBeginFacts
<1>5. pending_trusted_end \in Nat \cup {None} BY DEF TypeInv, TypeOK
<1> HIDE DEF begin
<1>6. /\ boundary \in Nat /\ is_block_boundary(boundary) /\ begin < boundary
      /\ \A b \in Nat : is_block_boundary(b) /\ begin < b => boundary <= b
  <2>1. /\ next \in Nat /\ next >= begin /\ is_block_boundary(next)
        /\ \A b \in Nat : is_block_boundary(b) /\ begin <= b => next <= b
    BY <1>4, NextBoundaryFacts
  <2> HIDE DEF next
  <2>2. CASE next = begin
    <3>1. boundary = begin + BlockSize BY <2>2
    <3>2. is_block_boundary(begin + BlockSize) BY <1>4, <2>1, <2>2, BoundaryAfter
    <3>3. \A b \in Nat : is_block_boundary(b) /\ begin < b => begin + BlockSize <= b
      BY <1>4, <2>1, <2>2, BoundaryGap
    <3>4. begin + BlockSize \in Nat /\ begin < begin + BlockSize BY <1>4, BlockSizeNat
    <3> HIDE DEF boundary
    <3> QED BY <3>1, <3>2, <3>3, <3>4
  <2>3. CASE next # begin
    BY <1>4, <2>1, <2>3
  <2> QED BY <2>2, <2>3
<1> HIDE DEF boundary
<1>7. CASE ~recovery /\ Return("error") /\ from' = Smaller(from, Cursor)
  BY <1>1, <1>2, <1>3, <1>7 DEF Return
<1>8. CASE /\ recovery /\ pending_trusted_end # None
           /\ Goto("region") /\ from' = from
           /\ local' = [local EXCEPT !.begin = begin, !.end = pending_trusted_end]
  <2>1. pending_trusted_end \in Nat BY <1>5, <1>8
  <2>2. /\ local' \in LocalType /\ local'.at = local.at /\ local'.begin = begin
        /\ local'.target = local.target /\ local'.scan_pos = local.scan_pos
        /\ local'.index = local.index /\ local'.end = pending_trusted_end
    BY <1>3, <1>4, <1>8, <2>1 DEF LocalType
  <2> QED BY <1>1, <1>2, <1>8, <2>2 DEF Goto, begin
<1>9. CASE /\ recovery /\ pending_trusted_end = None
           /\ Goto("resync") /\ from' = from
           /\ local' = [local EXCEPT !.begin = begin, !.boundary = boundary]
  <2>1. /\ local' \in LocalType /\ local'.at = local.at /\ local'.begin = begin
        /\ local'.target = local.target /\ local'.scan_pos = local.scan_pos
        /\ local'.index = local.index /\ local'.boundary = boundary
    BY <1>3, <1>4, <1>6, <1>9 DEF LocalType
  <2> QED BY <1>1, <1>2, <1>6, <1>9, <2>1 DEF Goto, begin
<1> QED BY <1>2, <1>7, <1>8, <1>9

LEMMA RecoverType == ASSUME TypeInv, Recover PROVE TypeInv'
<1>1. /\ pc = "recover" /\ op \in {"new", "read_record", "seek", "seek_numeric"}
      /\ UNCHANGED <<file, recovery, len, cursor, pos, last_pos, flags, stream_len,
                     last_skipped_region, delivered, regions, seeks, io_errors>>
      /\ pending_trusted_end' = None
      /\ local' \in LocalType
  BY RecoverSteps
<1>2. FileType(file)' /\ UNCHANGED <<Chunks, lengths>> BY <1>1, FileKept
<1>3. /\ \/ op' = op /\ pc' \in {"region", "resync"} /\ result' = result
         \/ op' = "none" /\ pc' \in {"gone", "idle"} /\ result' = "error"
      /\ from' \in {from, Smaller(from, Cursor)}
  BY RecoverSteps DEF Return
<1>4. from' \in Nat BY <1>3, TypeFacts DEF Cursor, Smaller
<1>5. OperationInv' BY <1>1, <1>3 DEF OperationInv
<1>6. TypeOK'
  BY <1>1, <1>2, <1>3, <1>4 DEF TypeInv, TypeOK, LocalType, cursor, flags
<1> QED BY <1>1, <1>2, <1>3, <1>5, <1>6, TypeFacts DEF TypeInv, cursor

\* One block header of resolve_boundary_resync.
LEMMA ResyncSteps ==
    ASSUME TypeInv, Resync
    PROVE  /\ pc = "resync" /\ op \in {"new", "read_record", "seek", "seek_numeric"}
           /\ UNCHANGED <<file, recovery, len, cursor, pos, last_pos, flags, stream_len, skips,
                          from, delivered, regions, seeks>>
           /\ op' = op /\ result' = result
           /\ local' \in LocalType
           /\ local'.at = local.at /\ local'.begin = local.begin
           /\ local'.target = local.target /\ local'.scan_pos = local.scan_pos
           /\ local'.index = local.index
           /\ LET boundary == local.boundary
                  target == boundary + blocks[boundary].next_chunk
              IN  \/ /\ pc' = "region"
                     /\ \/ local'.end = Smaller(boundary, Larger(stream_len, local.begin))
                        \/ /\ ValidBlock(boundary) /\ boundary + BlockHeaderSize <= len
                           /\ blocks[boundary].previous_chunk # 0
                           /\ target \in Nat /\ boundary <= target
                           /\ target > stream_len \/ is_possible_chunk_boundary(target)
                           /\ local'.end = Smaller(target, Larger(stream_len, local.begin))
                  \/ /\ pc' = "resync"
                     /\ boundary + BlockHeaderSize <= len
                     /\ \/ /\ ~ValidBlock(boundary)
                           /\ local'.boundary = boundary + BlockSize
                        \/ /\ ValidBlock(boundary) /\ blocks[boundary].previous_chunk # 0
                           /\ target \in Nat /\ boundary <= target
                           /\ ~is_possible_chunk_boundary(target)
                           /\ local'.boundary = next_block_boundary(target)
<1> DEFINE boundary == local.boundary
           target == boundary + blocks[boundary].next_chunk
<1>1. pc = "resync" /\ op \in {"new", "read_record", "seek", "seek_numeric"}
  BY DEF Resync, TypeInv, OperationInv
<1>2. UNCHANGED <<file, recovery, len, cursor, pos, last_pos, flags, stream_len, skips,
                  from, delivered, regions, seeks>>
  BY DEF Resync
<1>3. /\ local \in LocalType /\ boundary \in Nat /\ local.begin \in Nat
      /\ stream_len \in Nat /\ len \in Nat
  BY TypeFacts DEF LocalType
<1>4. ValidBlock(boundary) => target \in Nat /\ boundary <= target
  <2>1. SUFFICES ASSUME ValidBlock(boundary) PROVE target \in Nat /\ boundary <= target
    OBVIOUS
  <2>2. blocks[boundary] \in BlockType BY <2>1, TypeFacts, FileFacts DEF ValidBlock
  <2>3. blocks[boundary].next_chunk \in Nat BY <2>2 DEF BlockType
  <2> QED BY <1>3, <2>3
<1>5. ASSUME NEW p \in Nat, ResyncAt(p)
      PROVE  /\ pc' = "region" /\ op' = op /\ result' = result
             /\ local' \in LocalType
             /\ local'.at = local.at /\ local'.begin = local.begin
             /\ local'.target = local.target /\ local'.scan_pos = local.scan_pos
             /\ local'.index = local.index
             /\ local'.end = Smaller(p, Larger(stream_len, local.begin))
  <2> DEFINE e == Smaller(p, Larger(stream_len, local.begin))
  <2>1. e \in Nat BY <1>3 DEF Smaller, Larger
  <2>2. local' = [local EXCEPT !.end = e] BY <1>5 DEF ResyncAt
  <2>3. pc' = "region" /\ op' = op /\ result' = result BY <1>5 DEF ResyncAt, Goto
  <2> HIDE DEF e
  <2>4. /\ local' \in LocalType
        /\ local'.at = local.at /\ local'.begin = local.begin
        /\ local'.target = local.target /\ local'.scan_pos = local.scan_pos
        /\ local'.index = local.index /\ local'.end = e
    BY <1>3, <2>1, <2>2 DEF LocalType
  <2> QED BY <2>3, <2>4 DEF e
<1>6. ASSUME NEW b \in Nat, ResyncFrom(b)
      PROVE  /\ pc' = "resync" /\ op' = op /\ result' = result
             /\ local' \in LocalType
             /\ local'.at = local.at /\ local'.begin = local.begin
             /\ local'.target = local.target /\ local'.scan_pos = local.scan_pos
             /\ local'.index = local.index
             /\ local'.boundary = b
  BY <1>3, <1>6 DEF ResyncFrom, Goto, LocalType
<1>7. CASE ResyncAt(boundary)
  <2> HIDE DEF boundary
  <2>1. /\ pc' = "region" /\ op' = op /\ result' = result
        /\ local' \in LocalType
        /\ local'.at = local.at /\ local'.begin = local.begin
        /\ local'.target = local.target /\ local'.scan_pos = local.scan_pos
        /\ local'.index = local.index
        /\ local'.end = Smaller(boundary, Larger(stream_len, local.begin))
    BY <1>3, <1>5, <1>7
  <2> QED BY <1>1, <1>2, <2>1 DEF boundary
<1>8. CASE /\ boundary + BlockHeaderSize <= len /\ ~ValidBlock(boundary)
           /\ ResyncFrom(boundary + BlockSize)
  <2>1. boundary + BlockSize \in Nat BY <1>3, BlockSizeNat
  <2>2. /\ pc' = "resync" /\ op' = op /\ result' = result
        /\ local' \in LocalType
        /\ local'.at = local.at /\ local'.begin = local.begin
        /\ local'.target = local.target /\ local'.scan_pos = local.scan_pos
        /\ local'.index = local.index
        /\ local'.boundary = boundary + BlockSize
    BY <1>6, <1>8, <2>1
  <2> QED BY <1>1, <1>2, <1>8, <2>2
<1>9. CASE /\ boundary + BlockHeaderSize <= len /\ ValidBlock(boundary)
           /\ blocks[boundary].previous_chunk # 0
           /\ target > stream_len \/ is_possible_chunk_boundary(target)
           /\ ResyncAt(target)
  <2>1. target \in Nat /\ boundary <= target BY <1>4, <1>9
  <2> HIDE DEF target
  <2>2. /\ pc' = "region" /\ op' = op /\ result' = result
        /\ local' \in LocalType
        /\ local'.at = local.at /\ local'.begin = local.begin
        /\ local'.target = local.target /\ local'.scan_pos = local.scan_pos
        /\ local'.index = local.index
        /\ local'.end = Smaller(target, Larger(stream_len, local.begin))
    BY <1>5, <1>9, <2>1
  <2> QED BY <1>1, <1>2, <1>9, <2>1, <2>2 DEF target
<1>10. CASE /\ boundary + BlockHeaderSize <= len /\ ValidBlock(boundary)
            /\ blocks[boundary].previous_chunk # 0
            /\ ~(target > stream_len \/ is_possible_chunk_boundary(target))
            /\ ResyncFrom(next_block_boundary(target))
  <2>1. target \in Nat /\ boundary <= target BY <1>4, <1>10
  <2> HIDE DEF target
  <2>2. next_block_boundary(target) \in Nat BY <2>1, NextBoundaryFacts
  <2>3. /\ pc' = "resync" /\ op' = op /\ result' = result
        /\ local' \in LocalType
        /\ local'.at = local.at /\ local'.begin = local.begin
        /\ local'.target = local.target /\ local'.scan_pos = local.scan_pos
        /\ local'.index = local.index
        /\ local'.boundary = next_block_boundary(target)
    BY <1>6, <1>10, <2>2
  <2> QED BY <1>1, <1>2, <1>10, <2>1, <2>3 DEF target
<1>11. boundary + BlockHeaderSize > len \/ boundary + BlockHeaderSize <= len
  BY <1>3, BlockSizeNat
<1>12. \/ ResyncAt(boundary)
       \/ /\ ~(boundary + BlockHeaderSize > len) /\ ~ValidBlock(boundary)
          /\ ResyncFrom(boundary + BlockSize)
       \/ /\ ~(boundary + BlockHeaderSize > len) /\ ValidBlock(boundary)
          /\ blocks[boundary].previous_chunk # 0
          /\ target > stream_len \/ is_possible_chunk_boundary(target)
          /\ ResyncAt(target)
       \/ /\ ~(boundary + BlockHeaderSize > len) /\ ValidBlock(boundary)
          /\ blocks[boundary].previous_chunk # 0
          /\ ~(target > stream_len \/ is_possible_chunk_boundary(target))
          /\ ResyncFrom(next_block_boundary(target))
  BY Zenon DEF Resync
<1> HIDE DEF boundary, target
<1> QED BY <1>7, <1>8, <1>9, <1>10, <1>11, <1>12

LEMMA ResyncType == ASSUME TypeInv, Resync PROVE TypeInv'
<1>1. /\ pc = "resync" /\ op \in {"new", "read_record", "seek", "seek_numeric"}
      /\ UNCHANGED <<file, recovery, len, cursor, pos, last_pos, flags, stream_len, skips,
                     from, delivered, regions, seeks>>
      /\ op' = op /\ result' = result
      /\ local' \in LocalType
      /\ pc' \in {"region", "resync"}
  BY ResyncSteps
<1>2. FileType(file)' /\ UNCHANGED <<Chunks, lengths>> BY <1>1, FileKept
<1>3. OperationInv' BY <1>1 DEF OperationInv
<1>4. TypeOK'
  BY <1>1, <1>2 DEF TypeInv, TypeOK, LocalType, cursor, flags, skips
<1> QED BY <1>1, <1>2, <1>3, <1>4, TypeFacts DEF TypeInv, cursor

\* What the callback's answer does.
LEMMA ReportSteps ==
    ASSUME TypeInv, ReportRegion
    PROVE  /\ pc = "region" /\ op \in {"new", "read_record", "seek", "seek_numeric"}
           /\ UNCHANGED <<file, recovery, len, current_chunk_begin, current_record_index,
                          last_pos, stream_len, pending_trusted_end, delivered, seeks>>
           /\ last_skipped_region' = Region /\ regions' = regions \cup {Region}
           /\ last_record_is_valid' = FALSE /\ at_eof' \in BOOLEAN
           /\ current_decoder' = 0 /\ next_chunk_file_pos' = RegionEnd
           /\ local' \in LocalType /\ pos' \in PositionType /\ from' \in Nat
           /\ \/ /\ op' = "none" /\ pc' \in {"gone", "idle"} /\ result' = "error"
                 /\ local' = NoLocals
                 /\ op # "new" => pc' = "idle"
                 /\ op = "new" => pc' = "gone"
                 /\ from' = IF op = "seek_numeric" THEN local.begin ELSE from
              \/ /\ op # "seek_numeric" /\ from' = from
                 /\ op' = "none" /\ pc' = "idle" /\ result' \in {"ok", "eof"}
                 /\ local' = NoLocals
              \/ /\ op = "read_record" /\ from' = from
                 /\ op' = op /\ pc' = "header" /\ result' = result /\ local' = NoLocals
              \/ /\ op = "seek_numeric" /\ from' = Sought
                 /\ op' = op /\ pc' = "peek" /\ result' = result
                 /\ local'.target = local.target /\ local'.scan_pos = RegionEnd
<1>1. /\ pc = "region" /\ op \in {"new", "read_record", "seek", "seek_numeric"}
      /\ UNCHANGED <<file, recovery, len, current_chunk_begin, current_record_index,
                     last_pos, stream_len, pending_trusted_end, delivered, seeks>>
      /\ last_skipped_region' = Region /\ regions' = regions \cup {Region}
      /\ last_record_is_valid' = FALSE /\ at_eof' \in BOOLEAN
      /\ current_decoder' = 0 /\ next_chunk_file_pos' = Region.end
      /\ \/ /\ Return("error") /\ pos' = pos
            /\ from' = IF op = "seek_numeric" THEN Region.begin ELSE from
         \/ /\ ResumeAt(Region.end)
            /\ from' = IF op = "seek_numeric" THEN Sought ELSE from
  BY DEF ReportRegion, ConsumeRegion
<1>2. Region.begin = local.begin /\ Region.end = RegionEnd /\ RegionEnd \in Nat
  BY RegionEndFacts
<1>3. /\ local \in LocalType /\ NoLocals \in LocalType /\ local.begin \in Nat
      /\ local.target \in Nat /\ from \in Nat /\ pos \in PositionType
      /\ FileType(file)
  BY TypeFacts, NoLocalsType DEF LocalType, TypeInv, TypeOK, PositionType
<1>4. Sought \in Nat BY <1>3, FirstDataChunkFacts DEF Sought, Larger
<1>5. RecordPosition(RegionEnd, 0) \in PositionType
  BY <1>2 DEF RecordPosition, PositionType
<1>6. CASE /\ Return("error") /\ pos' = pos
           /\ from' = IF op = "seek_numeric" THEN Region.begin ELSE from
  BY <1>1, <1>2, <1>3, <1>6 DEF Return
<1>7. CASE op # "seek_numeric" /\ ResumeAt(Region.end) /\ from' = from
  BY <1>1, <1>2, <1>3, <1>5, <1>7 DEF ResumeAt, Return, Goto
<1>8. CASE op = "seek_numeric" /\ ResumeAt(Region.end) /\ from' = Sought
  <2>1. /\ op' = op /\ pc' = "peek" /\ result' = result /\ pos' = pos
        /\ local' = [NoLocals EXCEPT !.target = local.target, !.scan_pos = RegionEnd]
    BY <1>2, <1>8 DEF ResumeAt, Goto
  <2>2. /\ local' \in LocalType
        /\ local'.target = local.target /\ local'.scan_pos = RegionEnd
    <3>1. local' = [chunk |-> 0, at |-> 0, begin |-> 0, boundary |-> 0, end |-> 0,
                    target |-> local.target, index |-> 0, scan_pos |-> RegionEnd]
      BY <2>1 DEF NoLocals
    <3>2. Len(Chunks) \in Nat BY <1>3, FileFacts
    <3> QED BY <1>2, <1>3, <3>1, <3>2 DEF LocalType
  <2> QED BY <1>1, <1>2, <1>3, <1>4, <1>8, <2>1, <2>2
<1> QED BY <1>1, <1>6, <1>7, <1>8

LEMMA ReportRegionType == ASSUME TypeInv, ReportRegion PROVE TypeInv'
<1>1. /\ op \in {"new", "read_record", "seek", "seek_numeric"}
      /\ UNCHANGED <<file, recovery, len, current_chunk_begin, current_record_index,
                     last_pos, stream_len, pending_trusted_end, delivered, seeks>>
      /\ last_skipped_region' = Region /\ regions' = regions \cup {Region}
      /\ last_record_is_valid' = FALSE /\ at_eof' \in BOOLEAN
      /\ current_decoder' = 0 /\ next_chunk_file_pos' = RegionEnd
      /\ local' \in LocalType /\ pos' \in PositionType /\ from' \in Nat
      /\ \/ op' = "none" /\ pc' \in {"gone", "idle"} /\ result' \in {"ok", "eof", "error"}
         \/ op' = "read_record" /\ pc' = "header" /\ result' = result
         \/ op' = "seek_numeric" /\ pc' = "peek" /\ result' = result
  BY ReportSteps
<1>2. FileType(file)' /\ UNCHANGED <<Chunks, lengths>> BY <1>1, FileKept
<1>3. OperationInv' BY <1>1 DEF OperationInv
<1>4. RegionEnd \in Nat /\ Region \in RegionType BY RegionEndFacts
<1>5. regions' \subseteq RegionType /\ last_skipped_region' \in RegionType
  BY <1>1, <1>4 DEF TypeInv, TypeOK, RegionType
<1>6. 0 \in 0 .. Len(Chunks) BY TypeFacts, FileFacts
<1>7. TypeOK'
  BY <1>1, <1>2, <1>4, <1>5, <1>6
     DEF TypeInv, TypeOK, LocalType, PositionType, RegionType
<1> QED BY <1>1, <1>2, <1>3, <1>7, TypeFacts DEF TypeInv

LEMMA GrowType == ASSUME TypeInv, Grow PROVE TypeInv'
<1>1. /\ UNCHANGED <<file, recovery, cursor, pos, last_pos, flags, stream_len, skips, control,
                     history>>
      /\ len' \in lengths /\ len' > len
  BY DEF Grow
<1>2. FileType(file)' /\ UNCHANGED <<Chunks, lengths>> BY <1>1, FileKept
<1>3. OperationInv' BY <1>1 DEF OperationInv, TypeInv, control
<1>4. TypeOK'
  BY <1>1, <1>2 DEF TypeInv, TypeOK, cursor, flags, skips, control, history
<1>5. stream_len' <= len'
  <2>1. len' \in Nat BY <1>1, TypeFacts, FileFacts
  <2> QED BY <1>1, <2>1, TypeFacts
<1> QED BY <1>1, <1>2, <1>3, <1>4, <1>5 DEF TypeInv, cursor, control

LEMMA StutterType == ASSUME TypeInv, UNCHANGED vars PROVE TypeInv'
<1>1. UNCHANGED <<file, recovery, len, cursor, pos, last_pos, flags, stream_len, skips,
                  control, history>>
  BY DEF vars
<1>2. FileType(file)' /\ UNCHANGED <<Chunks, lengths>> BY <1>1, FileKept
<1>3. OperationInv' BY <1>1 DEF OperationInv, TypeInv, control
<1>4. TypeOK'
  BY <1>1, <1>2 DEF TypeInv, TypeOK, cursor, flags, skips, control, history
<1> QED BY <1>1, <1>2, <1>3, <1>4 DEF TypeInv, cursor, control

LEMMA TypeNext == TypeInv /\ [Next]_vars => TypeInv'
BY OpenType, PreambleType, ReadRecordType, TakeRecordType, LoadHeaderType, LoadDataType,
   SeekType, SeekNumericType, MeasureOriginType, ResolveScanOriginType, PeekHeaderType,
   RecoverType, ResyncType, ReportRegionType, GrowType, StutterType
   DEF Next, Step

LEMMA TypeInit == Init => TypeInv
<1>1. SUFFICES ASSUME Init PROVE TypeInv OBVIOUS
<1>2. FileType(file) /\ len \in lengths /\ recovery \in BOOLEAN
  BY <1>1, ReaderAssumption DEF Init, InitReader
<1>3. NoLocals \in LocalType /\ len \in Nat /\ Len(Chunks) \in Nat
  BY <1>2, NoLocalsType, FileFacts
<1>4. RecordPosition(0, 0) \in PositionType BY DEF RecordPosition, PositionType
<1>5. OperationInv BY <1>1 DEF Init, InitReader, OperationInv
<1>6. TypeOK
  <2>1. /\ current_chunk_begin \in Nat /\ next_chunk_file_pos \in Nat
        /\ current_decoder \in 0 .. Len(Chunks) /\ current_record_index \in Nat
        /\ stream_len \in Nat /\ from \in Nat
    BY <1>1, <1>3, FirstDataChunkFacts, BlockSizeNat DEF Init, InitReader
  <2>2. pos \in PositionType /\ last_pos \in PositionType /\ local \in LocalType
    BY <1>1, <1>3, <1>4 DEF Init, InitReader
  <2>3. at_eof \in BOOLEAN /\ last_record_is_valid \in BOOLEAN
    BY <1>1 DEF Init, InitReader
  <2>4. /\ last_skipped_region = NoRegion /\ pending_trusted_end = None
        /\ op = "new" /\ pc = "open" /\ result = "none" /\ delivered = {} /\ regions = {}
    BY <1>1 DEF Init, InitReader
  <2> QED BY <1>2, <2>1, <2>2, <2>3, <2>4 DEF TypeOK, LocalType, PositionType
<1> QED BY <1>1, <1>2, <1>3, <1>5, <1>6 DEF TypeInv, Init, InitReader

(***************************************************************************)
(* Types: positions stay u64, whatever a header or a block header claims   *)
(* and whatever is sought; the chunk at hand is one of the file's.         *)
(***************************************************************************)
THEOREM ReaderTypes == Spec => []TypeOK
<1>1. Spec => []TypeInv BY TypeInit, TypeNext, PTL DEF Spec
<1>2. TypeInv => TypeOK BY DEF TypeInv
<1> QED BY <1>1, <1>2, PTL

---------------------------------------------------------------------------
(* What the steps of load_next_chunk and load_chunk_at do. *)

LEMMA LoadHeaderSteps ==
    ASSUME TypeInv, LoadHeader
    PROVE  /\ pc = "header" /\ op \in {"read_record", "seek"} /\ current_decoder = 0
           /\ UNCHANGED <<file, recovery, len, cursor, last_skipped_region, from, delivered,
                          regions>>
           /\ pending_trusted_end' = None
           /\ \/ /\ op' = "none" /\ pc' = "idle" /\ local' = NoLocals
                 /\ canonical_chunk_address(next_chunk_file_pos) >= len
              \/ /\ op' = op /\ pc' = "recover" /\ local'.at = next_chunk_file_pos
                 /\ local'.target = local.target /\ local'.index = local.index
              \/ /\ op' = op /\ pc' = "data"
                 /\ local'.target = local.target /\ local'.index = local.index
                 /\ local'.chunk \in DOMAIN Chunks
                 /\ Chunk(local'.chunk).begin = canonical_chunk_address(next_chunk_file_pos)
                 /\ HeaderReadable(Chunk(local'.chunk))
                 /\ ClaimsFit(Chunk(local'.chunk), len)
                 /\ Chunk(local'.chunk).begin < len
<1> DEFINE h == read_chunk_header_at(next_chunk_file_pos)
<1>1. /\ pc = "header" /\ op \in {"read_record", "seek"} /\ current_decoder = 0
      /\ UNCHANGED <<file, recovery, len, cursor, last_skipped_region, from, delivered,
                     regions>>
      /\ pending_trusted_end' = None
  BY DEF LoadHeader, TypeInv, OperationInv
<1>2. /\ h.kind = "eof" => canonical_chunk_address(next_chunk_file_pos) >= len
      /\ h.kind = "chunk" =>
           /\ h.chunk \in DOMAIN Chunks
           /\ Chunk(h.chunk).begin = canonical_chunk_address(next_chunk_file_pos)
           /\ HeaderReadable(Chunk(h.chunk))
           /\ ClaimsFit(Chunk(h.chunk), len)
  BY TypeFacts, HeaderOutcome
<1>3. h.kind = "chunk" => Chunk(h.chunk).begin < len
  <2>1. SUFFICES ASSUME h.kind = "chunk" PROVE Chunk(h.chunk).begin < len OBVIOUS
  <2>2. HeaderReadable(Chunk(h.chunk)) /\ h.chunk \in DOMAIN Chunks BY <1>2, <2>1
  <2> HIDE DEF h
  <2>3. Chunk(h.chunk) \in ChunkType /\ Chunk(h.chunk).begin \in Nat
    BY <2>2, TypeFacts, ChunkFacts
  <2>4. DataBegin(Chunk(h.chunk)) \in Nat /\ DataBegin(Chunk(h.chunk)) > Chunk(h.chunk).begin
    BY <2>3, DataFacts
  <2> QED BY <2>2, <2>3, <2>4, TypeFacts DEF HeaderReadable
<1>4. local \in LocalType /\ next_chunk_file_pos \in Nat BY TypeFacts
<1>5. \/ h.kind = "eof" /\ (Return("ok") \/ Return("eof"))
      \/ FailAt(next_chunk_file_pos)
      \/ h.kind = "chunk" /\ Goto("data") /\ local' = [local EXCEPT !.chunk = h.chunk]
  BY DEF LoadHeader
<1> HIDE DEF h
<1>6. CASE h.kind = "eof" /\ (Return("ok") \/ Return("eof"))
  BY <1>1, <1>2, <1>6 DEF Return
<1>7. CASE FailAt(next_chunk_file_pos)
  BY <1>1, <1>4, <1>7 DEF FailAt, Goto, LocalType
<1>8. CASE h.kind = "chunk" /\ Goto("data") /\ local' = [local EXCEPT !.chunk = h.chunk]
  <2>1. /\ local'.chunk = h.chunk
        /\ local'.target = local.target /\ local'.index = local.index
    BY <1>4, <1>8 DEF LocalType
  <2> QED BY <1>1, <1>2, <1>3, <1>8, <2>1 DEF Goto
<1> QED BY <1>5, <1>6, <1>7, <1>8

LEMMA LoadDataSteps ==
    ASSUME TypeInv, LoadData
    PROVE  LET c == Chunk(local.chunk)
           IN  /\ pc = "data" /\ op \in {"read_record", "seek"} /\ current_decoder = 0
               /\ local.chunk \in DOMAIN Chunks
               /\ UNCHANGED <<file, recovery, len, last_skipped_region, delivered, regions>>
               /\ \/ /\ op' = op /\ pc' = "recover" /\ local'.at = next_chunk_file_pos
                     /\ local'.target = local.target /\ local'.index = local.index
                     /\ UNCHANGED <<cursor, from, pending_trusted_end>>
                  \/ /\ op' = op /\ pc' = "recover" /\ local'.at = c.begin
                     /\ local'.target = local.target /\ local'.index = local.index
                     /\ next_chunk_file_pos' = c.begin /\ current_decoder' = 0
                     /\ pending_trusted_end' = End(c) /\ from' = from
                  \/ /\ op' = op /\ pc' = "header"
                     /\ local'.target = local.target /\ local'.index = local.index
                     /\ DataReadable(c) /\ ~Rejected(c) /\ ~HasRecords(c)
                     /\ next_chunk_file_pos' = End(c) /\ current_decoder' = 0
                     /\ pending_trusted_end' = End(c) /\ from' = from
                  \/ /\ DataReadable(c) /\ ~Rejected(c) /\ HasRecords(c)
                     /\ next_chunk_file_pos' = End(c) /\ current_decoder' = local.chunk
                     /\ current_chunk_begin' = c.begin
                     /\ pending_trusted_end' = End(c)
                     /\ current_record_index' \in 0 .. c.num_records
                     /\ current_record_index' > 0 =>
                          /\ op = "seek" /\ c.begin = local.target
                          /\ current_record_index' = Smaller(local.index, c.num_records)
                     /\ op = "seek" /\ c.begin = local.target =>
                          current_record_index' = Smaller(local.index, c.num_records)
                     /\ from' = IF current_record_index' > 0
                                THEN c.begin + current_record_index' ELSE from
                     /\ \/ op = "seek" /\ op' = "none" /\ pc' = "idle"
                        \/ op = "read_record" /\ op' = op /\ pc' = "record"
<1> DEFINE c == Chunk(local.chunk)
<1>1. /\ pc = "data" /\ op \in {"read_record", "seek"} /\ current_decoder = 0
      /\ local.chunk \in DOMAIN Chunks
      /\ UNCHANGED <<file, recovery, len, last_skipped_region, delivered, regions>>
  BY TypeFacts DEF LoadData, TypeInv, OperationInv
<1>2. /\ local \in LocalType /\ next_chunk_file_pos \in Nat /\ c.begin \in Nat
      /\ c.num_records \in Nat /\ local.index \in Nat
  BY <1>1, TypeFacts, ChunkFacts DEF LocalType
<1> HIDE DEF c
<1>3. CASE DataUnreadable
  BY <1>1, <1>2, <1>3 DEF DataUnreadable, FailAt, Goto, LocalType
<1>4. CASE DataRejected
  BY <1>1, <1>2, <1>4 DEF DataRejected, FailAt, Goto, LocalType, c
<1>5. CASE ChunkSkipped
  BY <1>1, <1>2, <1>5 DEF ChunkSkipped, Goto, LocalType, c
<1>6. CASE ChunkLoaded
  <2> DEFINE index == IF op = "seek" /\ c.begin = local.target
                      THEN Smaller(local.index, c.num_records) ELSE 0
  <2>1. /\ index \in 0 .. c.num_records
        /\ index > 0 => /\ op = "seek" /\ c.begin = local.target
                        /\ index = Smaller(local.index, c.num_records)
        /\ op = "seek" /\ c.begin = local.target => index = Smaller(local.index, c.num_records)
    BY <1>2 DEF Smaller
  <2>2. /\ DataReadable(c) /\ ~Rejected(c) /\ HasRecords(c)
        /\ next_chunk_file_pos' = End(c) /\ current_decoder' = local.chunk
        /\ current_chunk_begin' = c.begin
        /\ pending_trusted_end' = End(c)
        /\ current_record_index' = index
        /\ \/ /\ op = "seek" /\ op' = "none" /\ pc' = "idle"
              /\ from' = IF index > 0 THEN c.begin + index ELSE from
           \/ op = "read_record" /\ op' = op /\ pc' = "record" /\ from' = from
    BY <1>1, <1>6 DEF ChunkLoaded, Return, Goto, c
  <2> HIDE DEF index
  <2>3. from' = IF index > 0 THEN c.begin + index ELSE from
    BY <2>1, <2>2
  <2> QED BY <1>1, <2>1, <2>2, <2>3 DEF c
<1> QED BY <1>3, <1>4, <1>5, <1>6 DEF LoadData

---------------------------------------------------------------------------
(* Records are returned in order. *)

\* Every record returned lies in front of this position.
Reached == IF current_decoder # 0 THEN current_chunk_begin + current_record_index
           ELSE canonical_chunk_address(next_chunk_file_pos)

\* The parts of OrderInv that speak of the cursor, and of the region.
CursorOrder ==
    /\ current_decoder # 0 =>
         /\ current_chunk_begin = Chunk(current_decoder).begin
         /\ canonical_chunk_address(current_chunk_begin) = current_chunk_begin
         /\ current_record_index <= Chunk(current_decoder).num_records
         /\ next_chunk_file_pos = End(Chunk(current_decoder))
    /\ \A n \in delivered : n < Reached

LEMMA CursorKept ==
    ASSUME OrderInv, UNCHANGED <<file, cursor>>, delivered' \in {delivered, {}}
    PROVE  CursorOrder'
<1>1. \A i : UNCHANGED Chunk(i) BY DEF Chunk, Chunks
<1>2. UNCHANGED <<current_chunk_begin, next_chunk_file_pos, current_decoder,
                  current_record_index>>
  BY DEF cursor
<1> QED BY <1>1, <1>2 DEF OrderInv, CursorOrder, Reached, End

LEMMA OrderOpen == ASSUME TypeInv, OrderInv, Open \/ Preamble PROVE OrderInv'
<1>1. /\ UNCHANGED <<file, cursor, delivered>> /\ op = "new"
  BY DEF Open, Preamble, TypeInv, OperationInv
<1>2. CursorOrder' BY <1>1, CursorKept
<1>3. delivered' = {} BY <1>1 DEF OrderInv
<1>4. \/ op' = "none" /\ pc' \in {"idle", "gone"}
      \/ op' = "new" /\ pc' \in {"preamble", "recover"}
  BY <1>1 DEF Open, Preamble, Return, Goto, FailAt
<1> QED BY <1>2, <1>3, <1>4 DEF OrderInv, CursorOrder, Reached

LEMMA OrderReadRecord == ASSUME TypeInv, OrderInv, ReadRecord PROVE OrderInv'
<1>1. /\ UNCHANGED <<file, cursor, delivered>> /\ op' = "read_record" /\ pc' = "record"
  BY DEF ReadRecord, history
<1>2. CursorOrder' BY <1>1, CursorKept
<1> QED BY <1>1, <1>2 DEF OrderInv, CursorOrder, Reached

LEMMA OrderTakeRecord == ASSUME TypeInv, OrderInv, TakeRecord PROVE OrderInv'
<1>1. /\ UNCHANGED <<file, current_chunk_begin, next_chunk_file_pos>>
      /\ op = "read_record" /\ op' \in {"read_record", "none"} /\ pc' \in {"idle", "header"}
  BY DEF TakeRecord, TypeInv, OperationInv, Return, Goto
<1>2. \A i : UNCHANGED Chunk(i) BY <1>1, FileKept
<1>3. /\ current_chunk_begin \in Nat /\ current_record_index \in Nat
      /\ next_chunk_file_pos \in Nat /\ delivered \subseteq Nat
  BY TypeFacts
<1>4. CASE /\ current_decoder # 0
           /\ current_record_index < Chunk(current_decoder).num_records
  <2>1. /\ current_record_index' = current_record_index + 1
        /\ last_pos' = RecordPosition(current_chunk_begin, current_record_index)
        /\ delivered' = delivered \cup {Numeric(last_pos')}
        /\ current_decoder' = current_decoder
    BY <1>4 DEF TakeRecord
  <2>2. Numeric(last_pos') = current_chunk_begin + current_record_index
    BY <2>1 DEF Numeric, RecordPosition
  <2>3. \A n \in delivered : n < current_chunk_begin + current_record_index
    BY <1>4 DEF OrderInv
  <2>4. \A n \in delivered' : n < current_chunk_begin + current_record_index'
    BY <1>3, <2>1, <2>2, <2>3
  <2>5. current_record_index' <= Chunk(current_decoder).num_records
    <3>1. Chunk(current_decoder).num_records \in Nat BY <1>4, TypeFacts, ChunkFacts
    <3> QED BY <1>3, <1>4, <2>1, <3>1
  <2> QED BY <1>1, <1>2, <1>4, <2>1, <2>4, <2>5 DEF OrderInv, End
<1>5. CASE ~(/\ current_decoder # 0
             /\ current_record_index < Chunk(current_decoder).num_records)
  <2>1. /\ current_decoder' = 0 /\ delivered' = delivered
    BY <1>5 DEF TakeRecord
  <2>2. \A n \in delivered : n < canonical_chunk_address(next_chunk_file_pos)
    <3>1. CASE current_decoder = 0 BY <3>1 DEF OrderInv
    <3>2. CASE current_decoder # 0
      <4> DEFINE c == Chunk(current_decoder)
      <4>1. /\ c.begin \in Nat /\ c.num_records \in Nat /\ End(c) \in Nat
            /\ canonical_chunk_address(End(c)) = End(c)
            /\ canonical_chunk_address(c.begin) = c.begin =>
                 End(c) >= c.begin + c.num_records
        BY <3>2, TypeFacts, ChunkFacts
      <4>2. /\ current_chunk_begin = c.begin /\ canonical_chunk_address(c.begin) = c.begin
            /\ current_record_index <= c.num_records /\ next_chunk_file_pos = End(c)
            /\ \A n \in delivered : n < current_chunk_begin + current_record_index
        BY <3>2 DEF OrderInv
      <4> HIDE DEF c
      <4> QED BY <1>3, <4>1, <4>2
    <3> QED BY <3>1, <3>2
  <2> QED BY <1>1, <2>1, <2>2 DEF OrderInv
<1> QED BY <1>4, <1>5

LEMMA OrderLoadHeader == ASSUME TypeInv, OrderInv, LoadHeader PROVE OrderInv'
<1>1. /\ UNCHANGED <<file, cursor, delivered>> /\ op \in {"read_record", "seek"}
      /\ \/ op' = "none" /\ pc' = "idle"
         \/ op' = op /\ pc' = "recover" /\ local'.at = next_chunk_file_pos
         \/ /\ op' = op /\ pc' = "data"
            /\ Chunk(local'.chunk).begin = canonical_chunk_address(next_chunk_file_pos)
  BY LoadHeaderSteps
<1>2. CursorOrder' BY <1>1, CursorKept
<1>3. \A i : UNCHANGED Chunk(i) BY <1>1, FileKept
<1>4. next_chunk_file_pos' = next_chunk_file_pos BY <1>1 DEF cursor
<1> QED BY <1>1, <1>2, <1>3, <1>4 DEF OrderInv, CursorOrder, Reached

LEMMA OrderLoadData == ASSUME TypeInv, OrderInv, LoadData PROVE OrderInv'
<1> DEFINE c == Chunk(local.chunk)
<1>1. /\ pc = "data" /\ op \in {"read_record", "seek"} /\ current_decoder = 0
      /\ local.chunk \in DOMAIN Chunks
      /\ UNCHANGED <<file, delivered>>
  BY LoadDataSteps
<1>2. /\ \A i : UNCHANGED Chunk(i)
      /\ \A i : End(Chunk(i))' = End(Chunk(i))
  BY <1>1, FileKept DEF End
<1>3. /\ c.begin = canonical_chunk_address(next_chunk_file_pos)
      /\ \A n \in delivered : n < c.begin
  BY <1>1 DEF OrderInv
<1>4. /\ c.begin \in Nat /\ next_chunk_file_pos \in Nat /\ delivered \subseteq Nat
      /\ canonical_chunk_address(c.begin) = c.begin
  BY <1>1, <1>3, TypeFacts, ChunkFacts, CanonicalFacts
<1>5. /\ End(c) \in Nat /\ canonical_chunk_address(End(c)) = End(c) /\ End(c) > c.begin
      /\ c.num_records \in Nat
  BY <1>1, <1>4, TypeFacts, ChunkFacts
<1>6. op \in {"new", "seek", "seek_numeric"} => delivered = {} BY DEF OrderInv
<1>7. local.chunk # 0 BY <1>1, TypeFacts, FileFacts
<1> HIDE DEF c
<1>8. CASE /\ op' = op /\ pc' = "recover" /\ local'.at = next_chunk_file_pos
           /\ UNCHANGED <<cursor, from, pending_trusted_end>>
  <2>1. CursorOrder' BY <1>1, <1>8, CursorKept
  <2>2. next_chunk_file_pos' = next_chunk_file_pos BY <1>8 DEF cursor
  <2> QED BY <1>1, <1>6, <1>8, <2>1, <2>2 DEF OrderInv, CursorOrder, Reached
<1>9. CASE /\ op' = op /\ pc' = "recover" /\ local'.at = c.begin
           /\ next_chunk_file_pos' = c.begin /\ current_decoder' = 0
  BY <1>1, <1>3, <1>4, <1>6, <1>9 DEF OrderInv
<1>10. CASE /\ op' = op /\ pc' = "header"
            /\ next_chunk_file_pos' = End(c) /\ current_decoder' = 0
  <2>1. \A n \in delivered : n < End(c) BY <1>3, <1>4, <1>5
  <2> QED BY <1>1, <1>5, <1>6, <1>10, <2>1 DEF OrderInv
<1>11. CASE /\ next_chunk_file_pos' = End(c) /\ current_decoder' = local.chunk
            /\ current_chunk_begin' = c.begin
            /\ current_record_index' \in 0 .. c.num_records
            /\ op' \in {op, "none"} /\ pc' \in {"idle", "record"}
  <2>1. \A n \in delivered : n < c.begin + current_record_index' BY <1>3, <1>4, <1>5, <1>11
  <2> QED BY <1>1, <1>2, <1>4, <1>5, <1>6, <1>7, <1>11, <2>1 DEF OrderInv, c
<1> QED BY LoadDataSteps, <1>8, <1>9, <1>10, <1>11 DEF c

LEMMA OrderSeek == ASSUME TypeInv, OrderInv, Seek PROVE OrderInv'
<1>1. UNCHANGED file BY DEF Seek
<1>2. CASE SeekFails /\ UNCHANGED delivered
  <2>1. UNCHANGED cursor /\ op' = "none" /\ pc' \in {"idle", "gone"}
    BY <1>2 DEF SeekFails, Return
  <2>2. CursorOrder' BY <1>1, <1>2, <2>1, CursorKept
  <2> QED BY <2>1, <2>2 DEF OrderInv, CursorOrder, Reached
<1>3. ASSUME NEW chunk_begin, NEW index, StartSeek(chunk_begin, index), delivered' = {}
      PROVE  OrderInv'
  BY <1>3 DEF StartSeek, OrderInv
<1> QED BY <1>2, <1>3 DEF Seek

LEMMA OrderNumeric ==
    ASSUME TypeInv, OrderInv, SeekNumeric \/ MeasureOrigin \/ ResolveScanOrigin
    PROVE  OrderInv'
<1>1. /\ UNCHANGED <<file, cursor>> /\ delivered' = {}
      /\ op' \in {"seek_numeric", "none"} /\ pc' \in {"measure", "origin", "peek", "idle", "gone"}
  BY DEF SeekNumeric, MeasureOrigin, ResolveScanOrigin, OrderInv, TypeInv, OperationInv,
         Return, Goto
<1>2. CursorOrder' BY <1>1, CursorKept
<1> QED BY <1>1, <1>2 DEF OrderInv, CursorOrder, Reached

LEMMA OrderPeekHeader == ASSUME TypeInv, OrderInv, PeekHeader PROVE OrderInv'
<1> DEFINE c == Chunk(read_chunk_header_at(local.scan_pos).chunk)
<1>1. /\ pc = "peek" /\ op = "seek_numeric" /\ UNCHANGED <<file, delivered>>
      /\ \/ SeekFails
         \/ ScanAtEof
         \/ FailAt(local.scan_pos) /\ UNCHANGED cursor
         \/ ScanChunk(c)
  BY PeekSteps
<1>2. delivered' = {} BY <1>1 DEF OrderInv
<1> HIDE DEF c
<1>3. ASSUME UNCHANGED cursor, op' \in {"none", "seek_numeric"},
             pc' \in {"idle", "peek", "recover"}
      PROVE  OrderInv'
  <2>1. CursorOrder' BY <1>1, <1>3, CursorKept
  <2> QED BY <1>2, <1>3, <2>1 DEF OrderInv, CursorOrder, Reached
<1>4. CASE SeekFails
  <2>1. UNCHANGED cursor /\ op' = "none" /\ pc' = "idle" BY <1>1, <1>4 DEF SeekFails, Return
  <2> QED BY <1>3, <2>1
<1>5. CASE FailAt(local.scan_pos) /\ UNCHANGED cursor
  BY <1>1, <1>3, <1>5 DEF FailAt, Goto
<1>6. CASE ScanAtEof
  BY <1>1, <1>2, <1>6 DEF ScanAtEof, Return, OrderInv
<1>7. CASE ScanChunk(c)
  <2>1. CASE UNCHANGED <<cursor, op, pc>> BY <1>1, <1>3, <2>1
  <2>2. CASE StartSeek(local.scan_pos, SaturatingSub(local.target, local.scan_pos))
    BY <1>2, <2>2 DEF StartSeek, OrderInv
  <2> QED BY <1>7, <2>1, <2>2 DEF ScanChunk
<1> QED BY <1>1, <1>4, <1>5, <1>6, <1>7

LEMMA OrderRecover == ASSUME TypeInv, OrderInv, Recover PROVE OrderInv'
<1>1. /\ pc = "recover" /\ op \in {"new", "read_record", "seek", "seek_numeric"}
      /\ UNCHANGED <<file, cursor, delivered>>
      /\ \/ op' = "none" /\ pc' \in {"idle", "gone"}
         \/ /\ op' = op /\ pc' \in {"region", "resync"}
            /\ local'.at = local.at /\ local'.begin = RegionBegin(local.at)
  BY RecoverSteps DEF Return
<1>2. CursorOrder' BY <1>1, CursorKept
<1>3. next_chunk_file_pos' = next_chunk_file_pos BY <1>1 DEF cursor
<1>4. local.at \in Nat BY TypeFacts DEF LocalType
<1>5. /\ canonical_chunk_address(local.at) <= RegionBegin(local.at)
      /\ RegionBegin(local.at) <= local.at
  BY <1>4, RegionBeginFacts
<1> QED BY <1>1, <1>2, <1>3, <1>5 DEF OrderInv, CursorOrder, Reached

LEMMA OrderResync == ASSUME TypeInv, OrderInv, Resync PROVE OrderInv'
<1>1. /\ pc = "resync" /\ UNCHANGED <<file, cursor, delivered>>
      /\ op' = op /\ pc' \in {"region", "resync"}
      /\ local'.at = local.at /\ local'.begin = local.begin
  BY ResyncSteps
<1>2. CursorOrder' BY <1>1, CursorKept
<1>3. next_chunk_file_pos' = next_chunk_file_pos BY <1>1 DEF cursor
<1> QED BY <1>1, <1>2, <1>3 DEF OrderInv, CursorOrder, Reached

LEMMA OrderReportRegion == ASSUME TypeInv, OrderInv, ReportRegion PROVE OrderInv'
<1>1. /\ pc = "region" /\ op \in {"new", "read_record", "seek", "seek_numeric"}
      /\ UNCHANGED delivered
      /\ current_decoder' = 0 /\ next_chunk_file_pos' = RegionEnd
      /\ \/ op' = "none" /\ pc' \in {"idle", "gone"}
         \/ op' = "read_record" /\ pc' = "header" /\ op = "read_record"
         \/ op' = "seek_numeric" /\ pc' = "peek" /\ op = "seek_numeric"
  BY ReportSteps
<1>2. CASE op # "read_record"
  <2>1. delivered' = {} BY <1>1, <1>2 DEF OrderInv
  <2> QED BY <1>1, <2>1 DEF OrderInv
<1>3. CASE op = "read_record"
  <2>1. current_decoder = 0 BY <1>1, <1>3 DEF TypeInv
  <2>2. \A n \in delivered : n < canonical_chunk_address(local.at)
    BY <1>1, <1>3, <2>1 DEF OrderInv
  <2>3. canonical_chunk_address(local.at) <= local.begin BY <1>1 DEF OrderInv
  <2>4. canonical_chunk_address(RegionEnd) > local.begin BY RegionEndFacts
  <2>5. /\ local.at \in Nat /\ local.begin \in Nat /\ delivered \subseteq Nat
        /\ RegionEnd \in Nat
    BY TypeFacts, RegionEndFacts DEF LocalType
  <2>6. canonical_chunk_address(local.at) \in Nat /\ canonical_chunk_address(RegionEnd) \in Nat
    BY <2>5, CanonicalFacts
  <2>7. \A n \in delivered : n < canonical_chunk_address(RegionEnd)
    BY <2>2, <2>3, <2>4, <2>5, <2>6
  <2> QED BY <1>1, <1>3, <2>7 DEF OrderInv
<1> QED BY <1>2, <1>3

LEMMA OrderKept ==
    ASSUME OrderInv, UNCHANGED <<file, cursor, op, pc, local, delivered>>
    PROVE  OrderInv'
<1>1. CursorOrder' BY CursorKept
<1>2. \A i : UNCHANGED Chunk(i) BY DEF Chunk, Chunks
<1>3. next_chunk_file_pos' = next_chunk_file_pos BY DEF cursor
<1> QED BY <1>1, <1>2, <1>3 DEF OrderInv, CursorOrder, Reached

LEMMA OrderNext == TypeInv /\ OrderInv /\ [Next]_vars => OrderInv'
<1>1. ASSUME TypeInv, OrderInv, Grow PROVE OrderInv'
  BY <1>1, OrderKept DEF Grow, control, history
<1>2. ASSUME OrderInv, UNCHANGED vars PROVE OrderInv'
  BY <1>2, OrderKept DEF vars, control, history
<1> QED
  BY <1>1, <1>2, OrderOpen, OrderReadRecord, OrderTakeRecord, OrderLoadHeader, OrderLoadData,
     OrderSeek, OrderNumeric, OrderPeekHeader, OrderRecover, OrderResync, OrderReportRegion
     DEF Next, Step

LEMMA OrderInit == Init => OrderInv
BY DEF Init, InitReader, OrderInv

(***************************************************************************)
(* Records are returned in file order, each once, since the last seek: for *)
(* every file, however damaged, whatever its headers claim, and whenever   *)
(* it grows or a read fails.                                               *)
(***************************************************************************)
THEOREM ReaderReturnsInOrder == Spec => ReturnsInOrder
<1>1. Spec => [](TypeInv /\ OrderInv)
  BY TypeInit, TypeNext, OrderInit, OrderNext, PTL DEF Spec
<1>2. ASSUME TypeInv, OrderInv, Next, pc = "record", result' = "record", pc' = "idle"
      PROVE  \A m \in delivered : m < Numeric(last_pos')
  <2>1. TakeRecord
    BY <1>2 DEF Next, Step, Open, Preamble, LoadHeader, LoadData, MeasureOrigin,
                ResolveScanOrigin, PeekHeader, Recover, Resync, ReportRegion, ReadRecord,
                Seek, SeekNumeric, Grow, control
  <2>2. /\ current_decoder # 0
        /\ last_pos' = RecordPosition(current_chunk_begin, current_record_index)
    BY <1>2, <2>1 DEF TakeRecord, Goto
  <2>3. Numeric(last_pos') = current_chunk_begin + current_record_index
    BY <2>2 DEF Numeric, RecordPosition
  <2> QED BY <1>2, <2>2, <2>3 DEF OrderInv
<1>3. TypeInv /\ OrderInv /\ [Next]_vars =>
        [pc = "record" /\ result' = "record" /\ pc' = "idle" =>
           \A m \in delivered : m < Numeric(last_pos')]_vars
  BY <1>2
<1> QED BY <1>1, <1>3, PTL DEF Spec, ReturnsInOrder
=============================================================================
