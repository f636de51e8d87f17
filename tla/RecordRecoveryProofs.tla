------------------------ MODULE RecordRecoveryProofs ------------------------
(***************************************************************************)
(* The reader among damage: what it does not move past, that the regions   *)
(* it reports advance, and what becomes of the records that nothing has    *)
(* happened to.  For files laid out as a writer does (ChunksDisjoint,      *)
(* FileTiled), with block headers that do not lie (BlocksTruthful),        *)
(* whatever else has been damaged.                                         *)
(***************************************************************************)
EXTENDS RecordReaderProofs

---------------------------------------------------------------------------
(* Without a callback, the reader does not move past damage. *)

\* What a step leaves alone of the file.
LEMMA FileSame ==
    ASSUME UNCHANGED file
    PROVE  /\ UNCHANGED <<Chunks, lengths, blocks, DOMAIN Chunks, DOMAIN blocks>>
           /\ \A i : UNCHANGED Chunk(i)
           /\ \A i : Damaged(Chunk(i))' = Damaged(Chunk(i))
           /\ \A i : HasRecords(Chunk(i))' = HasRecords(Chunk(i))
           /\ ChunksDisjoint' = ChunksDisjoint
           /\ \A b : Opens(b)' = Opens(b)
           /\ BlocksTruthful' = BlocksTruthful
<1>1. UNCHANGED <<Chunks, lengths, blocks>> BY DEF Chunks, lengths, blocks
<1>2. \A i : UNCHANGED Chunk(i) BY <1>1 DEF Chunk
<1>3. \A i : Damaged(Chunk(i))' = Damaged(Chunk(i))
  BY <1>1, <1>2 DEF Damaged, Rejected, ValidBlock, BoundariesIn, DataEnd
<1>4. \A i : HasRecords(Chunk(i))' = HasRecords(Chunk(i)) BY <1>2 DEF HasRecords
<1>5. ChunksDisjoint' = ChunksDisjoint
  BY DEF ChunksDisjoint
<1>6. \A b : Opens(b)' = Opens(b) BY <1>1 DEF Opens, ValidBlock
<1>7. BlocksTruthful' = BlocksTruthful BY DEF BlocksTruthful
<1> QED BY <1>1, <1>2, <1>3, <1>4, <1>5, <1>6, <1>7

\* Block headers have been read along with the header and the data.
LEMMA ReadBoundaries ==
    ASSUME NEW c \in ChunkType, DataReadable(c),
           \A b \in BoundariesIn(c.begin, DataBegin(c)) : ValidBlock(b)
    PROVE  \A b \in BoundariesIn(c.begin, DataEnd(c)) : ValidBlock(b)
<1>1. DataBegin(c) \in Nat /\ DataEnd(c) \in Nat /\ c.begin \in Nat /\ c.data_size \in Nat
  BY DataFacts DEF ChunkType
<1> SUFFICES ASSUME NEW b \in BoundariesIn(c.begin, DataEnd(c)) PROVE ValidBlock(b)
  OBVIOUS
<1>2. b \in Int /\ b >= c.begin /\ b < DataEnd(c) /\ is_block_boundary(b)
  BY <1>1 DEF BoundariesIn
<1>3. CASE b < DataBegin(c)
  <2>1. b \in BoundariesIn(c.begin, DataBegin(c)) BY <1>1, <1>2, <1>3 DEF BoundariesIn
  <2> QED BY <2>1
<1>4. CASE b >= DataBegin(c)
  <2>1. b \in BoundariesIn(DataBegin(c), DataEnd(c)) BY <1>1, <1>2, <1>4 DEF BoundariesIn
  <2>2. c.data_size # 0
    <3>1. SUFFICES ASSUME c.data_size = 0 PROVE FALSE OBVIOUS
    <3>2. ChunkHeaderSize + c.data_size = ChunkHeaderSize BY <3>1, LayoutAssumption
    <3>3. DataEnd(c) = DataBegin(c) BY <3>2 DEF DataEnd, DataBegin
    <3> QED BY <1>1, <1>2, <1>4, <3>3
  <2> QED BY <1>1, <2>1, <2>2 DEF DataReadable
<1> QED BY <1>1, <1>2, <1>3, <1>4

\* A chunk that has been read is not damaged.
LEMMA ReadUndamaged ==
    ASSUME NEW c \in ChunkType, HeaderReadable(c), DataReadable(c), ~Rejected(c)
    PROVE  ~Damaged(c)
BY ReadBoundaries DEF Damaged, HeaderReadable

LEMMA FoundKept ==
    ASSUME TypeInv, FoundInv, UNCHANGED file, len' \in Nat, len <= len',
           current_decoder' \in {0, current_decoder},
           pc' # "data" \/ (pc' = pc /\ local' = local)
    PROVE  FoundInv'
<1>1. UNCHANGED <<Chunks, blocks>> /\ \A i : UNCHANGED Chunk(i) BY FileSame
<1>2. \A i : Damaged(Chunk(i))' = Damaged(Chunk(i)) BY FileSame
<1>3. \A i : HasRecords(Chunk(i))' = HasRecords(Chunk(i)) BY FileSame
<1>4. ASSUME NEW i \in DOMAIN Chunks, ClaimsFit(Chunk(i), len)
      PROVE  ClaimsFit(Chunk(i), len)'
  <2>1. Chunk(i) \in ChunkType BY <1>4, TypeFacts, ChunkFacts
  <2>2. ClaimsFit(Chunk(i), len') BY <1>4, <2>1, TypeFacts, ClaimsMonotone
  <2> QED BY <1>1, <2>2 DEF ClaimsFit, DataBegin
<1>5. ASSUME NEW i \in DOMAIN Chunks, HeaderReadable(Chunk(i))
      PROVE  HeaderReadable(Chunk(i))'
  <2>1. Chunk(i) \in ChunkType BY <1>5, TypeFacts, ChunkFacts
  <2>2. DataBegin(Chunk(i)) \in Nat BY <2>1, DataFacts
  <2>3. DataBegin(Chunk(i)) <= len' BY <1>5, <2>2, TypeFacts DEF HeaderReadable
  <2>4. DataBegin(Chunk(i))' = DataBegin(Chunk(i)) BY <1>1 DEF DataBegin
  <2> QED
    BY <1>1, <1>5, <2>3, <2>4 DEF HeaderReadable, ValidBlock, LeadsBackTo, BoundariesIn
<1>6. pc' = "data" => HeaderReadable(Chunk(local.chunk))' /\ ClaimsFit(Chunk(local.chunk), len)'
  BY <1>4, <1>5, TypeFacts DEF FoundInv
<1>7. pc' = "data" => (HeaderReadable(Chunk(local.chunk)) /\ ClaimsFit(Chunk(local.chunk), len))'
  BY <1>6
<1>8. current_decoder' # 0 => ClaimsFit(Chunk(current_decoder), len)'
  BY <1>4, TypeFacts DEF FoundInv
<1>9. current_decoder' # 0 =>
        ~Damaged(Chunk(current_decoder))' /\ HasRecords(Chunk(current_decoder))'
  BY <1>2, <1>3 DEF FoundInv
<1> QED BY <1>7, <1>8, <1>9 DEF FoundInv

LEMMA FoundNext == TypeInv /\ OrderInv /\ FoundInv /\ [Next]_vars => FoundInv'
<1> SUFFICES ASSUME TypeInv, OrderInv, FoundInv, [Next]_vars PROVE FoundInv' OBVIOUS
<1>1. len \in Nat BY TypeFacts
<1>2. CASE LoadHeader
  <2>1. UNCHANGED <<file, len, cursor>> /\ current_decoder = 0 BY <1>2, LoadHeaderSteps
  <2>2. current_decoder' = 0 BY <2>1 DEF cursor
  <2>3. CASE pc' # "data" BY <1>1, <2>1, <2>2, <2>3, FoundKept
  <2>4. CASE pc' = "data"
    <3>1. HeaderReadable(Chunk(local'.chunk)) /\ ClaimsFit(Chunk(local'.chunk), len)
      BY <1>2, <2>4, LoadHeaderSteps
    <3>2. UNCHANGED <<Chunks, blocks>> /\ \A i : UNCHANGED Chunk(i) BY <2>1, FileSame
    <3> DEFINE c == Chunk(local'.chunk)
    <3>3. Chunk(local.chunk)' = c BY <3>2 DEF Chunk
    <3>4. HeaderReadable(Chunk(local.chunk))' /\ ClaimsFit(Chunk(local.chunk), len)'
      BY <2>1, <3>1, <3>2, <3>3
         DEF HeaderReadable, ClaimsFit, DataBegin, ValidBlock, LeadsBackTo, BoundariesIn
    <3> QED BY <2>2, <2>4, <3>4 DEF FoundInv
  <2> QED BY <2>3, <2>4
<1>3. CASE LoadData
  <2> DEFINE c == Chunk(local.chunk)
  <2>1. UNCHANGED <<file, len>> /\ current_decoder = 0 /\ pc = "data" /\ pc' # "data"
        /\ local.chunk \in DOMAIN Chunks
    BY <1>3, LoadDataSteps
  <2>2. CASE current_decoder' = 0 BY <1>1, <2>1, <2>2, FoundKept
  <2>3. CASE /\ DataReadable(c) /\ ~Rejected(c) /\ HasRecords(c)
             /\ current_decoder' = local.chunk
    <3>1. HeaderReadable(c) /\ ClaimsFit(c, len) BY <2>1 DEF FoundInv
    <3>2. c \in ChunkType BY <2>1, TypeFacts, ChunkFacts
    <3>3. ~Damaged(c) BY <2>3, <3>1, <3>2, ReadUndamaged
    <3>4. /\ Damaged(Chunk(local.chunk))' = Damaged(Chunk(local'.chunk))
          /\ \A i : UNCHANGED Chunk(i)
          /\ \A i : Damaged(Chunk(i))' = Damaged(Chunk(i))
          /\ \A i : HasRecords(Chunk(i))' = HasRecords(Chunk(i))
      BY <2>1, FileSame
    <3>5. ~Damaged(Chunk(current_decoder))' /\ HasRecords(Chunk(current_decoder))'
      BY <2>3, <3>3, <3>4
    <3>6. Chunk(current_decoder)' = c BY <2>3, <3>4
    <3>7. ClaimsFit(Chunk(current_decoder), len)'
      BY <2>1, <3>1, <3>6 DEF ClaimsFit, DataBegin
    <3> QED BY <2>1, <3>5, <3>7 DEF FoundInv
  <2> QED
    <3>1. current_decoder' = 0
          \/ (/\ DataReadable(c) /\ ~Rejected(c) /\ HasRecords(c)
              /\ current_decoder' = local.chunk)
      BY <1>3, <2>1, LoadDataSteps DEF cursor
    <3> QED BY <2>2, <2>3, <3>1
<1>4. CASE Grow
  <2>1. /\ UNCHANGED <<file, current_decoder, pc, local>> /\ len' \in lengths /\ len' > len
    BY <1>4 DEF Grow, cursor, control
  <2>2. len' \in Nat BY <2>1, TypeFacts, FileFacts
  <2> QED BY <1>1, <2>1, <2>2, FoundKept
<1>5. CASE PeekHeader
  <2>1. UNCHANGED <<file, len>> /\ current_decoder' \in {0, current_decoder} /\ pc' # "data"
    BY <1>5, PeekSteps
       DEF SeekFails, ScanAtEof, FailAt, ScanChunk, StartSeek, Return, Goto, cursor
  <2> QED BY <1>1, <2>1, FoundKept
<1>6. CASE Recover \/ Resync \/ ReportRegion
  <2>1. UNCHANGED <<file, len>> /\ current_decoder' \in {0, current_decoder} /\ pc' # "data"
    BY <1>6, RecoverSteps, ResyncSteps, ReportSteps DEF Return, cursor
  <2> QED BY <1>1, <2>1, FoundKept
<1>7. CASE Open \/ Preamble \/ TakeRecord \/ ReadRecord
  <2>1. UNCHANGED <<file, len>> /\ current_decoder' \in {0, current_decoder} /\ pc' # "data"
    BY <1>7 DEF Open, Preamble, TakeRecord, ReadRecord, FailAt, Return, Goto, cursor
  <2> QED BY <1>1, <2>1, FoundKept
<1>8. CASE Seek \/ SeekNumeric \/ MeasureOrigin \/ ResolveScanOrigin
  <2>1. UNCHANGED <<file, len>> /\ current_decoder' \in {0, current_decoder} /\ pc' # "data"
    BY <1>8 DEF Seek, SeekNumeric, MeasureOrigin, ResolveScanOrigin, StartSeek, SeekFails,
                Return, Goto, cursor
  <2> QED BY <1>1, <2>1, FoundKept
<1>9. CASE UNCHANGED vars
  BY <1>1, <1>9, FoundKept DEF vars, cursor, control
<1> QED
  BY <1>2, <1>3, <1>4, <1>5, <1>6, <1>7, <1>8, <1>9 DEF Next, Step

LEMMA FoundInit == Init => FoundInv
BY DEF Init, InitReader, FoundInv

\* Of two chunks, one lies in front of the other.
LEMMA DisjointFacts ==
    ASSUME ChunksDisjoint, NEW i \in DOMAIN Chunks, NEW j \in DOMAIN Chunks
    PROVE  /\ is_possible_chunk_boundary(Chunk(i).begin)
           /\ Chunk(i).begin = Chunk(j).begin => i = j
           /\ Chunk(i).begin < Chunk(j).begin =>
                /\ FirstDataChunk <= Chunk(j).begin
                /\ Chunk(i).begin + Chunk(i).num_records <= Chunk(j).begin
                /\ Plausible(file, Chunk(i)) => End(Chunk(i)) <= Chunk(j).begin
BY DEF ChunksDisjoint, Disjoint, Chunk, Chunks

\* A plausible chunk ends in front of the chunks behind it.
LEMMA EndInFront ==
    ASSUME TypeInv, ChunksDisjoint, NEW i \in DOMAIN Chunks, NEW j \in DOMAIN Chunks,
           Chunk(i).begin < Chunk(j).begin, ClaimsFit(Chunk(i), len)
    PROVE  End(Chunk(i)) <= Chunk(j).begin
<1>1. Plausible(file, Chunk(i)) BY TypeFacts DEF Plausible, lengths
<1> QED BY <1>1, DisjointFacts

\* Nothing is damaged between the record at hand and the end of its chunk.
LEMMA BehindCursor ==
    ASSUME TypeInv, OrderInv, FoundInv, ChunksDisjoint, NEW i \in DOMAIN Chunks,
           Damaged(Chunk(i)), Cursor <= Chunk(i).begin
    PROVE  next_chunk_file_pos <= Chunk(i).begin
<1>1. CASE current_decoder = 0 BY <1>1 DEF Cursor
<1>2. CASE current_decoder # 0
  <2> DEFINE c == Chunk(current_decoder)
  <2>1. current_decoder \in DOMAIN Chunks /\ current_record_index \in Nat
    BY <1>2, TypeFacts
  <2>2. c.begin \in Nat /\ Chunk(i).begin \in Nat BY <2>1, TypeFacts, ChunkFacts
  <2>3. /\ ~Damaged(c) /\ ClaimsFit(c, len)
        /\ current_chunk_begin = c.begin /\ next_chunk_file_pos = End(c)
    BY <1>2 DEF FoundInv, OrderInv
  <2>4. c.begin + current_record_index <= Chunk(i).begin BY <1>2, <2>3 DEF Cursor
  <2>5. c.begin # Chunk(i).begin
    <3>1. c.begin = Chunk(i).begin => current_decoder = i
      BY <2>1, DisjointFacts
    <3> QED BY <2>3, <3>1
  <2>6. c.begin < Chunk(i).begin BY <2>1, <2>2, <2>4, <2>5
  <2> QED BY <2>1, <2>3, <2>6, EndInFront
<1> QED BY <1>1, <1>2

\* The damage at or behind a position lies at or behind another.
NoDamageBetween(lo, hi) ==
    \A i \in DOMAIN Chunks :
      Damaged(Chunk(i)) /\ lo <= Chunk(i).begin => hi <= Chunk(i).begin

LEMMA PassFacts ==
    ASSUME TypeInv, PassInv, ~recovery
    PROVE  /\ pc \notin {"resync", "region"}
           /\ pc \in {"open", "preamble"} => next_chunk_file_pos = FirstDataChunk
           /\ pc \notin {"open", "preamble", "gone"} /\ op # "new" =>
                NoDamageBetween(from, next_chunk_file_pos)
           /\ pc = "peek" => NoDamageBetween(Sought, local.scan_pos)
BY DEF PassInv, NoDamageBetween

\* It suffices to look at what the step has made of the positions.
LEMMA PassStep ==
    ASSUME UNCHANGED <<file, recovery>>,
           ~recovery =>
             /\ pc' \notin {"resync", "region"}
             /\ pc' \in {"open", "preamble"} => next_chunk_file_pos' = FirstDataChunk
             /\ pc' \notin {"open", "preamble", "gone"} /\ op' # "new" =>
                  NoDamageBetween(from', next_chunk_file_pos')
             /\ pc' = "peek" =>
                  NoDamageBetween(Larger(local'.target, FirstDataChunk), local'.scan_pos)
    PROVE  PassInv'
<1>1. /\ UNCHANGED DOMAIN Chunks /\ \A i : UNCHANGED Chunk(i)
      /\ \A i : Damaged(Chunk(i))' = Damaged(Chunk(i))
  BY FileSame
<1>2. Sought' = Larger(local'.target, FirstDataChunk) BY DEF Sought
<1> QED BY <1>1, <1>2 DEF PassInv, NoDamageBetween

LEMMA BoundaryZero ==
    ASSUME NEW b \in BoundariesIn(0, FirstDataChunk) PROVE b = 0
<1>1. FirstDataChunk <= BlockSize /\ FirstDataChunk \in Nat
  BY LayoutAssumption, ReaderAssumption, BlockSizeNat, FirstDataChunkFacts
     DEF FirstDataChunk
<1>2. b \in Nat /\ b < BlockSize /\ is_block_boundary(b) BY <1>1, BlockSizeNat DEF BoundariesIn
<1>3. is_block_boundary(0)
  <2>1. BlockSize * 0 = 0 BY BlockSizeNat
  <2> QED BY <2>1, SameAfterBlocks
<1>4. 0 < b => 0 + BlockSize <= b BY <1>2, <1>3, BoundaryGap
<1> QED BY <1>2, <1>4, BlockSizeNat

\* The first data chunk begins where the signature ends.
LEMMA FirstAfterSignature == add_with_overhead(0, ChunkHeaderSize) = FirstDataChunk
<1>1. add_with_overhead(0, ChunkHeaderSize) = AfterUsableByte(DataOffset(0) + ChunkHeaderSize)
  BY LayoutAssumption DEF add_with_overhead
<1>2. 0 \div BlockSize = 0 /\ 0 % BlockSize = 0
  <2>1. 0 = BlockSize * 0 + 0 /\ 0 \in 0 .. (BlockSize - 1) BY BlockSizeNat
  <2> QED BY <2>1, BlockSizeNat, DivModUnique
<1>3. DataOffset(0) = 0
  <2>1. 0 * USABLE_BLOCK_SIZE = 0 BY BlockSizeNat
  <2>2. SaturatingSub(0, BlockHeaderSize) = 0 BY BlockSizeNat DEF SaturatingSub
  <2> QED BY <1>2, <2>1, <2>2 DEF DataOffset
<1> DEFINE n == ChunkHeaderSize - 1
<1>4. n \in 0 .. (USABLE_BLOCK_SIZE - 1)
  BY LayoutAssumption, ReaderAssumption, BlockSizeNat
<1>5. n \div USABLE_BLOCK_SIZE = 0 /\ n % USABLE_BLOCK_SIZE = n
  <2>1. n \in Nat /\ n = USABLE_BLOCK_SIZE * 0 + n BY <1>4, BlockSizeNat
  <2> HIDE DEF n
  <2> QED BY <1>4, <2>1, BlockSizeNat, DivModUnique
<1>6. 0 + ChunkHeaderSize = ChunkHeaderSize BY LayoutAssumption
<1>7. AfterUsableByte(ChunkHeaderSize) = 0 * BlockSize + BlockHeaderSize + n + 1
  BY <1>5 DEF AfterUsableByte
<1>8. 0 * BlockSize + BlockHeaderSize + n + 1 = BlockHeaderSize + ChunkHeaderSize
  BY BlockSizeNat, LayoutAssumption
<1> QED BY <1>1, <1>3, <1>6, <1>7, <1>8 DEF FirstDataChunk

\* The preamble that is accepted is not damaged: the signature chunk is followed
\* by the first chunk of the writer.
LEMMA PreamblePasses ==
    ASSUME TypeInv, ChunksDisjoint, validate_file_preamble
    PROVE  NoDamageBetween(from, FirstDataChunk)
<1>1. SUFFICES ASSUME NEW i \in DOMAIN Chunks, Damaged(Chunk(i))
               PROVE  FirstDataChunk <= Chunk(i).begin
  BY DEF NoDamageBetween
<1>2. /\ 1 \in DOMAIN Chunks /\ Chunk(1).begin = 0 /\ Chunk(1).type = "signature"
      /\ Chunk(i).begin \in Nat
  BY TypeFacts, FileFacts, ChunkFacts
<1>3. CASE i # 1
  <2>1. Chunk(1).begin # Chunk(i).begin BY <1>2, <1>3, DisjointFacts
  <2>2. Chunk(1).begin < Chunk(i).begin BY <1>2, <2>1
  <2> QED BY <1>2, <2>2, DisjointFacts
<1>4. CASE i = 1
  <2> DEFINE c == Chunk(1)
  <2>1. /\ c.header_ok /\ c.data_ok /\ c.decodes /\ c.data_size = 0 /\ c.num_records = 0
        /\ ValidBlock(0)
    BY DEF validate_file_preamble
  <2>2. ~Rejected(c) BY <1>2, <2>1 DEF Rejected
  <2>3. DataEnd(c) = FirstDataChunk
    <3>1. DataEnd(c) = add_with_overhead(0, ChunkHeaderSize)
      <4>1. ChunkHeaderSize + 0 = ChunkHeaderSize BY LayoutAssumption
      <4> QED BY <1>2, <2>1, <4>1 DEF DataEnd
    <3> QED BY <3>1, FirstAfterSignature
  <2>4. \A b \in BoundariesIn(c.begin, DataEnd(c)) : ValidBlock(b)
    BY <1>2, <2>1, <2>3, BoundaryZero
  <2>5. ~Damaged(c) BY <2>1, <2>2, <2>4 DEF Damaged
  <2> QED BY <1>1, <1>4, <2>5
<1> QED BY <1>3, <1>4

LEMMA PassOpen ==
    ASSUME TypeInv, ChunksDisjoint, PassInv, Open \/ Preamble PROVE PassInv'
<1>1. /\ UNCHANGED <<file, recovery, cursor>> /\ pc \in {"open", "preamble"} /\ op = "new"
      /\ current_decoder = 0
  BY DEF Open, Preamble, TypeInv, OperationInv
<1>2. next_chunk_file_pos' = next_chunk_file_pos BY <1>1 DEF cursor
<1>3. next_chunk_file_pos \in Nat BY TypeFacts
<1>4. CASE Open
  <2>1. \/ pc' = "gone"
        \/ pc' = "preamble" /\ op' = "new"
        \/ pc' = "idle" /\ from' = next_chunk_file_pos
    BY <1>1, <1>4 DEF Open, Return, Goto
  <2>2. NoDamageBetween(next_chunk_file_pos, next_chunk_file_pos) BY DEF NoDamageBetween
  <2> QED BY <1>1, <1>2, <2>1, <2>2, PassFacts, PassStep
<1>5. CASE Preamble
  <2>1. /\ from' = from
        /\ \/ pc' = "idle" /\ validate_file_preamble
           \/ pc' = "recover" /\ op' = "new"
    BY <1>1, <1>5 DEF Preamble, Return, FailAt, Goto
  <2> QED BY <1>1, <1>2, <2>1, PreamblePasses, PassFacts, PassStep
<1> QED BY <1>4, <1>5

\* Steps that move neither the cursor nor the position sought.
LEMMA PassKept ==
    ASSUME TypeInv, PassInv, UNCHANGED <<file, recovery, next_chunk_file_pos, from>>,
           pc \notin {"open", "preamble", "gone"}, op # "new",
           pc' \notin {"resync", "region", "open", "preamble"},
           pc' = "peek" => pc = "peek" /\ local' = local
    PROVE  PassInv'
<1>1. Larger(local.target, FirstDataChunk) = Sought BY DEF Sought
<1> QED BY <1>1, PassFacts, PassStep

LEMMA PassLoadData ==
    ASSUME TypeInv, OrderInv, FoundInv, ChunksDisjoint, PassInv, LoadData
    PROVE  PassInv'
<1> DEFINE c == Chunk(local.chunk)
<1>1. /\ pc = "data" /\ op \in {"read_record", "seek"} /\ local.chunk \in DOMAIN Chunks
      /\ UNCHANGED <<file, recovery>>
      /\ pc' \in {"idle", "record", "header", "recover"}
  BY LoadDataSteps DEF TypeInv, OperationInv
<1>2. /\ c \in ChunkType /\ c.begin \in Nat /\ c.num_records \in Nat
      /\ from \in Nat /\ next_chunk_file_pos \in Nat
      /\ c.begin = canonical_chunk_address(next_chunk_file_pos)
      /\ HeaderReadable(c) /\ ClaimsFit(c, len)
  BY <1>1, TypeFacts, ChunkFacts DEF OrderInv, FoundInv
<1>3. c.begin <= next_chunk_file_pos BY <1>2, CanonicalFacts
<1> HIDE DEF c
<1>4. \/ UNCHANGED <<next_chunk_file_pos, from>>
      \/ next_chunk_file_pos' = c.begin /\ from' = from
      \/ /\ DataReadable(c) /\ ~Rejected(c) /\ next_chunk_file_pos' = End(c)
         /\ \/ from' = from
            \/ from' = c.begin + current_record_index' /\ current_record_index' \in Nat
  BY <1>1, <1>2, LoadDataSteps DEF cursor, c
<1>5. CASE UNCHANGED <<next_chunk_file_pos, from>> BY <1>1, <1>5, PassKept
<1>6. CASE next_chunk_file_pos' = c.begin /\ from' = from
  <2>1. ~recovery => NoDamageBetween(from', next_chunk_file_pos')
    <3>1. SUFFICES ASSUME ~recovery, NEW i \in DOMAIN Chunks, Damaged(Chunk(i)),
                          from <= Chunk(i).begin
                   PROVE  c.begin <= Chunk(i).begin
      BY <1>6 DEF NoDamageBetween
    <3>2. next_chunk_file_pos <= Chunk(i).begin BY <1>1, <3>1, PassFacts DEF NoDamageBetween
    <3>3. Chunk(i).begin \in Nat BY TypeFacts, ChunkFacts
    <3> QED BY <1>2, <1>3, <3>2, <3>3
  <2> QED BY <1>1, <2>1, PassStep
<1>7. CASE /\ DataReadable(c) /\ ~Rejected(c) /\ next_chunk_file_pos' = End(c)
           /\ \/ from' = from
              \/ from' = c.begin + current_record_index' /\ current_record_index' \in Nat
  <2>1. ~Damaged(c) BY <1>2, <1>7, ReadUndamaged
  <2>2. ~recovery => NoDamageBetween(from', next_chunk_file_pos')
    <3>1. SUFFICES ASSUME ~recovery, NEW i \in DOMAIN Chunks, Damaged(Chunk(i)),
                          from' <= Chunk(i).begin
                   PROVE  End(c) <= Chunk(i).begin
      BY <1>7 DEF NoDamageBetween
    <3>2. Chunk(i).begin \in Nat BY TypeFacts, ChunkFacts
    <3>3. c.begin <= Chunk(i).begin
      <4>1. CASE from' = from
        <5>1. next_chunk_file_pos <= Chunk(i).begin
          BY <1>1, <3>1, <4>1, PassFacts DEF NoDamageBetween
        <5> QED BY <1>2, <1>3, <3>2, <5>1
      <4>2. CASE from' = c.begin + current_record_index' /\ current_record_index' \in Nat
        BY <1>2, <3>1, <3>2, <4>2
      <4> QED BY <1>7, <4>1, <4>2
    <3>4. c.begin # Chunk(i).begin
      <4>1. c.begin = Chunk(i).begin => local.chunk = i BY <1>1, DisjointFacts DEF c
      <4> QED BY <2>1, <3>1, <4>1 DEF c
    <3>5. c.begin < Chunk(i).begin BY <1>2, <3>2, <3>3, <3>4
    <3> QED BY <1>1, <1>2, <3>5, EndInFront DEF c
  <2> QED BY <1>1, <2>2, PassStep
<1> QED BY <1>4, <1>5, <1>6, <1>7

\* What is sought from the cursor on.
LEMMA PassFromCursor ==
    ASSUME TypeInv, OrderInv, FoundInv, ChunksDisjoint
    PROVE  NoDamageBetween(Cursor, next_chunk_file_pos)
BY BehindCursor DEF NoDamageBetween

LEMMA PassSeek ==
    ASSUME TypeInv, OrderInv, FoundInv, ChunksDisjoint, PassInv, Seek \/ SeekNumeric
    PROVE  PassInv'
<1>1. UNCHANGED <<file, recovery>> /\ pc = "idle" /\ op = "none"
  BY DEF Seek, SeekNumeric, TypeInv, OperationInv
<1>2. CASE SeekFails /\ from' = from
  <2>1. pc' = "idle" /\ next_chunk_file_pos' = next_chunk_file_pos
    BY <1>1, <1>2 DEF SeekFails, Return, cursor
  <2> QED BY <1>1, <1>2, <2>1, PassKept
<1>3. ASSUME NEW chunk_begin, NEW index, StartSeek(chunk_begin, index), from' = next_chunk_file_pos'
      PROVE  PassInv'
  <2>1. pc' = "header" BY <1>3 DEF StartSeek
  <2>2. NoDamageBetween(from', next_chunk_file_pos') BY <1>3 DEF NoDamageBetween
  <2> QED BY <1>1, <2>1, <2>2, PassStep
<1>4. CASE SeekNumeric
  <2>1. pc' = "measure" /\ from' = Cursor /\ next_chunk_file_pos' = next_chunk_file_pos
    BY <1>4 DEF SeekNumeric, cursor
  <2> QED BY <1>1, <2>1, PassFromCursor, PassStep
<1> QED BY <1>2, <1>3, <1>4 DEF Seek

LEMMA PassOrigin ==
    ASSUME TypeInv, PassInv, MeasureOrigin \/ ResolveScanOrigin
    PROVE  PassInv'
<1>1. /\ UNCHANGED <<file, recovery, next_chunk_file_pos, from>> /\ op = "seek_numeric"
      /\ pc \in {"measure", "origin"}
  BY DEF MeasureOrigin, ResolveScanOrigin, TypeInv, OperationInv, cursor
<1>2. CASE MeasureOrigin
  <2>1. pc' \in {"origin", "idle"} BY <1>1, <1>2 DEF MeasureOrigin, Goto, Return
  <2> QED BY <1>1, <2>1, PassKept
<1>3. CASE ResolveScanOrigin
  <2>1. CASE pc' # "peek"
    <3>1. pc' = "idle" BY <1>3, <2>1, OriginResolved
    <3> QED BY <1>1, <3>1, PassKept
  <2>2. CASE pc' = "peek"
    <3>1. /\ local'.target = local.target /\ local' \in LocalType
          /\ local'.scan_pos <= Larger(local.target, FirstDataChunk)
      BY <1>3, <2>2, OriginResolved
    <3>2. local'.scan_pos \in Nat /\ Larger(local.target, FirstDataChunk) \in Nat
      BY <3>1, TypeFacts, FirstDataChunkFacts DEF LocalType, Larger
    <3>3. NoDamageBetween(Larger(local'.target, FirstDataChunk), local'.scan_pos)
      BY <3>1, <3>2, TypeFacts, ChunkFacts DEF NoDamageBetween
    <3> QED BY <1>1, <2>2, <3>3, PassFacts, PassStep
  <2> QED BY <2>1, <2>2
<1> QED BY <1>2, <1>3

\* Where the scan goes on behind a chunk.
LEMMA ScanEnd ==
    ASSUME FileType(file), NEW i \in DOMAIN Chunks, NEW p \in Nat,
           Chunk(i).begin = canonical_chunk_address(p)
    PROVE  chunk_end(p, Chunk(i).data_size, Chunk(i).num_records) = End(Chunk(i))
<1>1. canonical_chunk_address(Chunk(i).begin) = canonical_chunk_address(p) BY CanonicalFacts
<1>2. End(Chunk(i)) = chunk_end(Chunk(i).begin, Chunk(i).data_size, Chunk(i).num_records)
  BY ChunkFacts
<1> QED BY <1>1, <1>2 DEF chunk_end

LEMMA PassPeekHeader ==
    ASSUME TypeInv, OrderInv, FoundInv, ChunksDisjoint, PassInv, PeekHeader
    PROVE  PassInv'
<1> DEFINE h == read_chunk_header_at(local.scan_pos)
           c == Chunk(h.chunk)
<1>1. /\ pc = "peek" /\ op = "seek_numeric" /\ UNCHANGED <<file, recovery>>
      /\ \/ /\ SeekFails /\ from' = Cursor
         \/ ScanAtEof
         \/ FailAt(local.scan_pos) /\ UNCHANGED <<cursor, from>>
         \/ h.kind = "chunk" /\ ScanChunk(c)
  BY PeekSteps
<1>2. /\ local.scan_pos \in Nat /\ local.target \in Nat /\ Sought \in Nat
      /\ local.target <= Sought /\ local \in LocalType
  BY TypeFacts, FirstDataChunkFacts DEF LocalType, Sought, Larger
<1>3. ~recovery => NoDamageBetween(Sought, local.scan_pos) BY <1>1, PassFacts
<1>4. h.kind = "chunk" =>
        /\ h.chunk \in DOMAIN Chunks /\ c.begin = canonical_chunk_address(local.scan_pos)
        /\ ClaimsFit(c, len)
  BY <1>2, TypeFacts, HeaderOutcome
<1> HIDE DEF h
<1>5. CASE SeekFails /\ from' = Cursor
  <2>1. pc' = "idle" /\ next_chunk_file_pos' = next_chunk_file_pos
    BY <1>1, <1>5 DEF SeekFails, Return, cursor
  <2> QED BY <1>1, <1>5, <2>1, PassFromCursor, PassStep
<1>6. CASE ScanAtEof
  <2>1. /\ pc' = "idle" /\ next_chunk_file_pos' = local.scan_pos
        /\ from' = Smaller(Sought, local.scan_pos)
    BY <1>1, <1>6 DEF ScanAtEof, Return
  <2>2. ~recovery => NoDamageBetween(from', next_chunk_file_pos')
    BY <1>3, <2>1 DEF NoDamageBetween, Smaller
  <2> QED BY <1>1, <2>1, <2>2, PassStep
<1>7. CASE FailAt(local.scan_pos) /\ UNCHANGED <<cursor, from>>
  <2>1. pc' = "recover" /\ next_chunk_file_pos' = next_chunk_file_pos
    BY <1>7 DEF FailAt, Goto, cursor
  <2> QED BY <1>1, <1>7, <2>1, PassKept
<1>8. CASE h.kind = "chunk" /\ ScanChunk(c)
  <2>1. /\ h.chunk \in DOMAIN Chunks /\ c.begin = canonical_chunk_address(local.scan_pos)
        /\ ClaimsFit(c, len)
    BY <1>4, <1>8
  <2>2. c.begin \in Nat /\ c.begin <= local.scan_pos BY <1>2, <2>1, CanonicalFacts
  <2>3. CASE ScanStopsAt(c)
    <3>1. /\ pc' = "header" /\ next_chunk_file_pos' = c.begin /\ from' = Sought
      BY <1>8, <2>1, <2>3 DEF ScanChunk, StartSeek
    <3>2. ~recovery => NoDamageBetween(from', next_chunk_file_pos')
      <4>1. SUFFICES ASSUME ~recovery, NEW i \in DOMAIN Chunks, Damaged(Chunk(i)),
                            Sought <= Chunk(i).begin
                     PROVE  c.begin <= Chunk(i).begin
        BY <3>1 DEF NoDamageBetween
      <4>2. local.scan_pos <= Chunk(i).begin BY <1>3, <4>1 DEF NoDamageBetween
      <4>3. Chunk(i).begin \in Nat BY TypeFacts, ChunkFacts
      <4> QED BY <1>2, <2>2, <4>2, <4>3
    <3> QED BY <1>1, <3>1, <3>2, PassStep
  <2>4. CASE ~ScanStopsAt(c)
    <3>1. /\ UNCHANGED <<cursor, from, op, pc>>
          /\ local' = [local EXCEPT !.scan_pos =
                         chunk_end(local.scan_pos, c.data_size, c.num_records)]
      BY <1>8, <2>4 DEF ScanChunk
    <3>2. chunk_end(local.scan_pos, c.data_size, c.num_records) = End(c)
      BY <1>2, <2>1, TypeFacts, ScanEnd
    <3>3. local'.scan_pos = End(c) /\ local'.target = local.target
      BY <1>2, <3>1, <3>2 DEF LocalType
    <3>4. local.scan_pos < local.target BY <1>2, <2>4 DEF ScanStopsAt
    <3>5. ~recovery => NoDamageBetween(Sought, End(c))
      <4>1. SUFFICES ASSUME NEW i \in DOMAIN Chunks, Damaged(Chunk(i)),
                            Sought <= Chunk(i).begin
                     PROVE  End(c) <= Chunk(i).begin
        BY DEF NoDamageBetween
      <4>2. Chunk(i).begin \in Nat BY TypeFacts, ChunkFacts
      <4>3. c.begin < Chunk(i).begin BY <1>2, <2>2, <3>4, <4>1, <4>2
      <4> QED BY <2>1, <4>3, EndInFront
    <3>6. ~recovery => NoDamageBetween(from, next_chunk_file_pos)
      BY <1>1, PassFacts
    <3>7. ~recovery => NoDamageBetween(Larger(local'.target, FirstDataChunk), local'.scan_pos)
      BY <3>3, <3>5 DEF Sought
    <3>8. next_chunk_file_pos' = next_chunk_file_pos /\ pc' = "peek" BY <1>1, <3>1 DEF cursor
    <3> QED BY <1>1, <3>1, <3>6, <3>7, <3>8, PassStep
  <2> QED BY <2>3, <2>4
<1> QED BY <1>1, <1>5, <1>6, <1>7, <1>8

LEMMA PassRecover ==
    ASSUME TypeInv, OrderInv, FoundInv, ChunksDisjoint, PassInv, Recover
    PROVE  PassInv'
<1>1. /\ pc = "recover" /\ UNCHANGED <<file, recovery, cursor>>
      /\ \/ ~recovery /\ Return("error") /\ from' = Smaller(from, Cursor)
         \/ recovery
  BY RecoverSteps
<1>2. next_chunk_file_pos' = next_chunk_file_pos BY <1>1 DEF cursor
<1>3. CASE ~recovery
  <2>1. /\ op = "new" => pc' = "gone"
        /\ op # "new" => pc' = "idle"
    BY <1>1, <1>3 DEF Return
  <2>2. op # "new" => NoDamageBetween(from, next_chunk_file_pos)
    BY <1>1, <1>3, PassFacts
  <2>3. NoDamageBetween(Cursor, next_chunk_file_pos) BY PassFromCursor
  <2>4. op # "new" => NoDamageBetween(from', next_chunk_file_pos')
    BY <1>1, <1>2, <1>3, <2>2, <2>3 DEF Smaller
  <2>5. pc' \in {"gone", "idle"} BY <2>1
  <2> QED BY <1>1, <1>2, <1>3, <2>1, <2>4, <2>5, PassStep
<1>4. CASE recovery BY <1>1, <1>4, PassStep
<1> QED BY <1>3, <1>4

LEMMA PassNext ==
    TypeInv /\ OrderInv /\ FoundInv /\ ChunksDisjoint /\ PassInv /\ [Next]_vars => PassInv'
<1> SUFFICES ASSUME TypeInv, OrderInv, FoundInv, ChunksDisjoint, PassInv, [Next]_vars
             PROVE  PassInv'
  OBVIOUS
<1>1. CASE ReadRecord
  <2>1. /\ UNCHANGED <<file, recovery, next_chunk_file_pos, from>> /\ pc = "idle"
        /\ op = "none" /\ pc' = "record"
    BY <1>1 DEF ReadRecord, cursor, history, TypeInv, OperationInv
  <2> QED BY <2>1, PassKept
<1>2. CASE TakeRecord
  <2>1. /\ UNCHANGED <<file, recovery, next_chunk_file_pos, from>> /\ pc = "record"
        /\ op = "read_record" /\ pc' \in {"idle", "header"}
    BY <1>2 DEF TakeRecord, TypeInv, OperationInv, Return, Goto
  <2> QED BY <2>1, PassKept
<1>3. CASE LoadHeader
  <2>1. /\ UNCHANGED <<file, recovery, cursor, from>> /\ pc = "header"
        /\ op \in {"read_record", "seek"} /\ pc' \in {"idle", "recover", "data"}
    BY <1>3, LoadHeaderSteps
  <2>2. UNCHANGED next_chunk_file_pos BY <2>1 DEF cursor
  <2> QED BY <2>1, <2>2, PassKept
<1>4. CASE Resync \/ ReportRegion
  <2>1. pc \in {"resync", "region"} /\ UNCHANGED <<file, recovery>>
    BY <1>4, ResyncSteps, ReportSteps
  <2>2. recovery BY <2>1, PassFacts
  <2> QED BY <2>1, <2>2, PassStep
<1>5. CASE Grow \/ UNCHANGED vars
  <2>1. UNCHANGED <<file, recovery, next_chunk_file_pos, from, pc, op, local>>
    BY <1>5 DEF Grow, vars, cursor, control, history
  <2>2. Larger(local.target, FirstDataChunk) = Sought BY DEF Sought
  <2> QED BY <2>1, <2>2, PassFacts, PassStep
<1> QED
  BY <1>1, <1>2, <1>3, <1>4, <1>5, PassOpen, PassLoadData, PassSeek, PassOrigin,
     PassPeekHeader, PassRecover
     DEF Next, Step

LEMMA PassInit == Init => PassInv
BY DEF Init, InitReader, PassInv

\* The file stays what it is.
LEMMA FileConstant == [Next]_vars => UNCHANGED file
<1>1. ASSUME Step PROVE UNCHANGED file
  BY <1>1 DEF Step, Open, Preamble, TakeRecord, LoadHeader, LoadData, MeasureOrigin,
              ResolveScanOrigin, PeekHeader, Recover, Resync, ReportRegion
<1> QED
  BY <1>1 DEF Next, ReadRecord, Seek, SeekNumeric, Grow, vars

(***************************************************************************)
(* Without a recovery callback the reader never moves past a damaged       *)
(* chunk, however often it is called and whatever it is asked to seek: for *)
(* every file whose chunks are disjoint, of any length and with any        *)
(* damage, growing or not, and with reads that fail.                       *)
(***************************************************************************)
THEOREM ReaderNeverPassesDamage == Spec /\ ChunksDisjoint => []NeverPassesDamage
<1> DEFINE Inv == TypeInv /\ OrderInv /\ FoundInv /\ ChunksDisjoint /\ PassInv
<1>1. Init /\ ChunksDisjoint => Inv BY TypeInit, OrderInit, FoundInit, PassInit
<1>2. Inv /\ [Next]_vars => Inv'
  BY TypeNext, OrderNext, FoundNext, PassNext, FileConstant, FileSame
<1>3. Inv => NeverPassesDamage
  <2>1. SUFFICES ASSUME TypeInv, OrderInv, FoundInv, ChunksDisjoint, PassInv,
                        pc = "idle", ~recovery, NEW i \in DOMAIN Chunks,
                        Damaged(Chunk(i)), from <= Chunk(i).begin
                 PROVE  Cursor <= Chunk(i).begin
    BY DEF NeverPassesDamage
  <2>2. op = "none" BY <2>1 DEF TypeInv, OperationInv
  <2>3. next_chunk_file_pos <= Chunk(i).begin
    BY <2>1, <2>2, PassFacts DEF NoDamageBetween
  <2>4. CASE current_decoder = 0 BY <2>3, <2>4 DEF Cursor
  <2>5. CASE current_decoder # 0
    <3> DEFINE c == Chunk(current_decoder)
    <3>1. /\ current_decoder \in DOMAIN Chunks /\ current_record_index \in Nat
          /\ next_chunk_file_pos \in Nat /\ Chunk(i).begin \in Nat
      BY <2>1, <2>5, TypeFacts, ChunkFacts
    <3>2. /\ current_chunk_begin = c.begin /\ canonical_chunk_address(c.begin) = c.begin
          /\ current_record_index <= c.num_records /\ next_chunk_file_pos = End(c)
      BY <2>1, <2>5 DEF OrderInv
    <3>3. /\ c.begin \in Nat /\ c.num_records \in Nat /\ End(c) \in Nat
          /\ canonical_chunk_address(c.begin) = c.begin => End(c) >= c.begin + c.num_records
      BY <2>1, <3>1, TypeFacts, ChunkFacts
    <3> HIDE DEF c
    <3>4. current_chunk_begin + current_record_index <= Chunk(i).begin
      BY <2>3, <3>1, <3>2, <3>3
    <3> QED BY <2>5, <3>4 DEF Cursor
  <2> QED BY <2>4, <2>5
<1> HIDE DEF Inv
<1> QED BY <1>1, <1>2, <1>3, PTL DEF Spec

---------------------------------------------------------------------------
(* Regions advance. *)

\* A chunk found at a settled position begins there, not at the boundary in front.
LEMMA FoundAtSettled ==
    ASSUME FileType(file), NEW p \in Nat, Settled(p), NEW i \in DOMAIN Chunks,
           Chunk(i).begin = canonical_chunk_address(p), HeaderReadable(Chunk(i))
    PROVE  Chunk(i).begin = p
<1>1. SUFFICES ASSUME p % BlockSize = BlockHeaderSize PROVE FALSE BY CanonicalFacts
<1> DEFINE b == p - BlockHeaderSize
           c == Chunk(i)
<1>2. c.begin = b /\ is_block_boundary(b) /\ b \in Nat BY <1>1, CanonicalFacts
<1>3. c \in ChunkType BY ChunkFacts
<1>4. DataBegin(c) \in Nat /\ DataBegin(c) > c.begin BY <1>3, DataFacts
<1> HIDE DEF b, c
<1>5. b \in BoundariesIn(c.begin, DataBegin(c)) BY <1>2, <1>4 DEF BoundariesIn
<1>6. ValidBlock(b) /\ LeadsBackTo(b, c.begin) BY <1>5 DEF HeaderReadable, c
<1>7. blocks[b] \in BlockType BY <1>6, FileFacts DEF ValidBlock
<1>8. blocks[b].previous_chunk = 0 BY <1>2, <1>6, <1>7 DEF LeadsBackTo, BlockType
<1> QED BY <1>1, <1>6, <1>8 DEF Settled, Opens, b

LEMMA NoAliasSettled == ASSUME NEW p, p % BlockSize # BlockHeaderSize PROVE Settled(p)
BY DEF Settled

\* The parts of AdvanceInv that speak of the cursor.
CursorAdvanced ==
    /\ Settled(next_chunk_file_pos)
    /\ pending_trusted_end # None => pending_trusted_end % BlockSize # BlockHeaderSize
    /\ regions # {} =>
         last_skipped_region # NoRegion /\ last_skipped_region.end <= next_chunk_file_pos

LEMMA AdvanceKept ==
    ASSUME AdvanceInv, UNCHANGED <<file, last_skipped_region>>, regions' \in {regions, {}},
           pending_trusted_end' \in {pending_trusted_end, None},
           next_chunk_file_pos' = next_chunk_file_pos
    PROVE  CursorAdvanced'
<1>1. UNCHANGED blocks BY FileSame
<1> QED BY <1>1 DEF AdvanceInv, CursorAdvanced, Settled, Opens, ValidBlock

\* Behind a chunk that has been found, the position is settled.
LEMMA BehindChunk ==
    ASSUME TypeInv, OrderInv, FoundInv, AdvanceInv, pc = "data"
    PROVE  LET c == Chunk(local.chunk)
           IN  /\ c.begin = next_chunk_file_pos
               /\ End(c) \in Nat /\ next_chunk_file_pos < End(c)
               /\ End(c) % BlockSize # BlockHeaderSize
<1> DEFINE c == Chunk(local.chunk)
<1>1. local.chunk \in DOMAIN Chunks /\ next_chunk_file_pos \in Nat BY TypeFacts
<1>2. c.begin = canonical_chunk_address(next_chunk_file_pos) /\ HeaderReadable(c)
      /\ Settled(next_chunk_file_pos)
  BY DEF OrderInv, FoundInv, AdvanceInv
<1>3. c.begin = next_chunk_file_pos BY <1>1, <1>2, TypeFacts, FoundAtSettled
<1>4. canonical_chunk_address(c.begin) = c.begin BY <1>1, <1>2, CanonicalFacts
<1> QED BY <1>1, <1>3, <1>4, TypeFacts, ChunkFacts

LEMMA AdvanceOpen == ASSUME TypeInv, AdvanceInv, Open \/ Preamble PROVE AdvanceInv'
<1>1. /\ UNCHANGED <<file, cursor, skips, regions>> /\ op = "new"
      /\ \/ op' = "none" /\ pc' \in {"idle", "gone"}
         \/ op' = "new" /\ pc' = "preamble"
         \/ op' = "new" /\ pc' = "recover" /\ local' = [local EXCEPT !.at = 0]
  BY DEF Open, Preamble, TypeInv, OperationInv, Return, FailAt, Goto
<1>2. next_chunk_file_pos' = next_chunk_file_pos
      /\ UNCHANGED <<last_skipped_region, pending_trusted_end>>
  BY <1>1 DEF cursor, skips
<1>3. CursorAdvanced' BY <1>1, <1>2, AdvanceKept
<1>4. regions' = {} BY <1>1 DEF AdvanceInv
<1>5. pc' = "recover" => local'.at = 0 BY <1>1, TypeFacts DEF LocalType
<1> QED BY <1>1, <1>3, <1>4, <1>5 DEF AdvanceInv, CursorAdvanced

LEMMA AdvanceRead ==
    ASSUME TypeInv, AdvanceInv, ReadRecord \/ TakeRecord PROVE AdvanceInv'
<1>1. /\ UNCHANGED <<file, next_chunk_file_pos, last_skipped_region, regions>>
      /\ pending_trusted_end' \in {pending_trusted_end, None}
      /\ op' \in {"read_record", "none"} /\ pc' \in {"record", "header", "idle"}
  BY DEF ReadRecord, TakeRecord, TypeInv, OperationInv, Return, Goto, cursor, skips, history
<1>2. CursorAdvanced' BY <1>1, AdvanceKept
<1> QED BY <1>1, <1>2 DEF AdvanceInv, CursorAdvanced

LEMMA AdvanceLoadHeader == ASSUME TypeInv, AdvanceInv, LoadHeader PROVE AdvanceInv'
<1>1. /\ UNCHANGED <<file, cursor, last_skipped_region, regions>>
      /\ pending_trusted_end' = None /\ op \in {"read_record", "seek"}
      /\ \/ op' = "none" /\ pc' = "idle"
         \/ op' = op /\ pc' = "recover" /\ local'.at = next_chunk_file_pos
         \/ op' = op /\ pc' = "data"
  BY LoadHeaderSteps
<1>2. next_chunk_file_pos' = next_chunk_file_pos BY <1>1 DEF cursor
<1>3. CursorAdvanced' BY <1>1, <1>2, AdvanceKept
<1> QED BY <1>1, <1>2, <1>3 DEF AdvanceInv, CursorAdvanced

LEMMA AdvanceLoadData ==
    ASSUME TypeInv, OrderInv, FoundInv, AdvanceInv, LoadData PROVE AdvanceInv'
<1> DEFINE c == Chunk(local.chunk)
<1>1. /\ pc = "data" /\ UNCHANGED <<file, last_skipped_region, regions>>
      /\ op \in {"read_record", "seek"} /\ op' \in {op, "none"}
      /\ pc' \in {"recover", "header", "record", "idle"}
      /\ \/ /\ op' = op /\ local'.at = next_chunk_file_pos
            /\ UNCHANGED <<cursor, pending_trusted_end>>
         \/ /\ op' = op /\ local'.at = c.begin
            /\ next_chunk_file_pos' = c.begin /\ pending_trusted_end' = End(c)
         \/ /\ pc' # "recover"
            /\ next_chunk_file_pos' = End(c) /\ pending_trusted_end' = End(c)
  BY LoadDataSteps
<1>2. /\ c.begin = next_chunk_file_pos
      /\ End(c) \in Nat /\ next_chunk_file_pos < End(c)
      /\ End(c) % BlockSize # BlockHeaderSize
  BY <1>1, BehindChunk
<1>3. next_chunk_file_pos \in Nat BY TypeFacts
<1> HIDE DEF c
<1>4. regions # {} =>
        /\ last_skipped_region # NoRegion /\ last_skipped_region.end \in Nat
        /\ last_skipped_region.end <= next_chunk_file_pos
  BY DEF AdvanceInv, TypeInv, TypeOK
<1>5. UNCHANGED blocks BY <1>1, FileSame
<1>6. CASE /\ op' = op /\ local'.at = next_chunk_file_pos
           /\ UNCHANGED <<cursor, pending_trusted_end>>
  <2>1. next_chunk_file_pos' = next_chunk_file_pos BY <1>6 DEF cursor
  <2>2. CursorAdvanced' BY <1>1, <1>6, <2>1, AdvanceKept
  <2> QED BY <1>1, <1>6, <2>1, <2>2 DEF AdvanceInv, CursorAdvanced
<1>7. CASE /\ op' = op /\ local'.at = c.begin
           /\ next_chunk_file_pos' = c.begin /\ pending_trusted_end' = End(c)
  <2>1. Settled(next_chunk_file_pos)'
    BY <1>2, <1>5, <1>7 DEF AdvanceInv, Settled, Opens, ValidBlock
  <2> QED BY <1>1, <1>2, <1>4, <1>7, <2>1 DEF AdvanceInv
<1>8. CASE /\ pc' # "recover"
           /\ next_chunk_file_pos' = End(c) /\ pending_trusted_end' = End(c)
  <2>1. Settled(next_chunk_file_pos)' BY <1>2, <1>8 DEF Settled
  <2>2. regions # {} => last_skipped_region.end <= End(c) BY <1>2, <1>3, <1>4
  <2> QED BY <1>1, <1>2, <1>4, <1>8, <2>1, <2>2 DEF AdvanceInv
<1> QED BY <1>1, <1>6, <1>7, <1>8

LEMMA AdvanceSeek == ASSUME TypeInv, AdvanceInv, Seek PROVE AdvanceInv'
<1>1. UNCHANGED <<file, last_skipped_region>> /\ op = "none"
  BY DEF Seek, TypeInv, OperationInv
<1>2. CASE SeekFails /\ UNCHANGED regions
  <2>1. /\ next_chunk_file_pos' = next_chunk_file_pos /\ pending_trusted_end' = None
        /\ op' = "none" /\ pc' = "idle"
    BY <1>1, <1>2 DEF SeekFails, Return, cursor
  <2>2. CursorAdvanced' BY <1>1, <1>2, <2>1, AdvanceKept
  <2> QED BY <2>1, <2>2 DEF AdvanceInv, CursorAdvanced
<1>3. ASSUME NEW chunk_begin \in Addresses, NEW index \in Indices,
             StartSeek(chunk_begin, index), regions' = {}
      PROVE  AdvanceInv'
  <2>1. chunk_begin \in Nat BY ReaderAssumption
  <2>2. /\ next_chunk_file_pos' = canonical_chunk_address(chunk_begin)
        /\ pending_trusted_end' = None /\ op' = "seek" /\ pc' = "header"
    BY <1>3 DEF StartSeek
  <2>3. next_chunk_file_pos' % BlockSize # BlockHeaderSize BY <2>1, <2>2, CanonicalFacts
  <2>4. Settled(next_chunk_file_pos)' BY <2>3 DEF Settled
  <2> QED BY <1>3, <2>2, <2>4 DEF AdvanceInv
<1> QED BY <1>2, <1>3 DEF Seek

LEMMA AdvanceNumeric ==
    ASSUME TypeInv, AdvanceInv, SeekNumeric \/ MeasureOrigin \/ ResolveScanOrigin
    PROVE  AdvanceInv'
<1>1. /\ UNCHANGED <<file, next_chunk_file_pos, last_skipped_region>> /\ regions' = {}
      /\ pending_trusted_end' \in {pending_trusted_end, None}
      /\ op' \in {"seek_numeric", "none"} /\ pc' \in {"measure", "origin", "peek", "idle", "gone"}
  BY DEF SeekNumeric, MeasureOrigin, ResolveScanOrigin, AdvanceInv, TypeInv, OperationInv,
         Return, Goto, cursor, skips
<1>2. CursorAdvanced' BY <1>1, AdvanceKept
<1>3. pc' = "peek" => local'.scan_pos % BlockSize # BlockHeaderSize
  <2>1. CASE ResolveScanOrigin BY <2>1, OriginResolved
  <2>2. CASE SeekNumeric \/ MeasureOrigin BY <2>2 DEF SeekNumeric, MeasureOrigin, Return, Goto
  <2> QED BY <2>1, <2>2
<1>4. pc' = "peek" => Settled(local.scan_pos)' BY <1>3 DEF Settled
<1> QED BY <1>1, <1>2, <1>4 DEF AdvanceInv, CursorAdvanced

LEMMA AdvancePeekHeader == ASSUME TypeInv, AdvanceInv, PeekHeader PROVE AdvanceInv'
<1> DEFINE h == read_chunk_header_at(local.scan_pos)
           c == Chunk(h.chunk)
<1>1. /\ pc = "peek" /\ op = "seek_numeric"
      /\ UNCHANGED <<file, last_skipped_region, regions>>
      /\ \/ SeekFails
         \/ ScanAtEof
         \/ FailAt(local.scan_pos) /\ UNCHANGED <<cursor, pending_trusted_end>>
         \/ h.kind = "chunk" /\ ScanChunk(c)
  BY PeekSteps
<1>2. /\ local \in LocalType /\ local.scan_pos \in Nat /\ Settled(local.scan_pos)
      /\ regions # {} =>
           /\ last_skipped_region # NoRegion /\ last_skipped_region.end \in Nat
           /\ last_skipped_region.end <= local.scan_pos
           /\ last_skipped_region.end <= next_chunk_file_pos
  BY <1>1, TypeFacts DEF AdvanceInv, LocalType, TypeInv, TypeOK
<1>3. h.kind = "chunk" =>
        /\ h.chunk \in DOMAIN Chunks /\ c.begin = canonical_chunk_address(local.scan_pos)
        /\ HeaderReadable(c)
  BY <1>2, TypeFacts, HeaderOutcome
<1>4. UNCHANGED blocks BY <1>1, FileSame
<1> HIDE DEF h
<1>5. CASE SeekFails
  <2>1. /\ next_chunk_file_pos' = next_chunk_file_pos /\ pending_trusted_end' = None
        /\ op' = "none" /\ pc' = "idle"
    BY <1>1, <1>5 DEF SeekFails, Return, cursor
  <2>2. CursorAdvanced' BY <1>1, <2>1, AdvanceKept
  <2> QED BY <2>1, <2>2 DEF AdvanceInv, CursorAdvanced
<1>6. CASE ScanAtEof
  <2>1. /\ next_chunk_file_pos' = local.scan_pos /\ op' = "none" /\ pc' = "idle"
        /\ pending_trusted_end' = pending_trusted_end
    BY <1>1, <1>6 DEF ScanAtEof, Return
  <2>2. Settled(next_chunk_file_pos)' BY <1>2, <1>4, <2>1 DEF Settled, Opens, ValidBlock
  <2> QED BY <1>1, <1>2, <2>1, <2>2 DEF AdvanceInv
<1>7. CASE FailAt(local.scan_pos) /\ UNCHANGED <<cursor, pending_trusted_end>>
  <2>1. /\ next_chunk_file_pos' = next_chunk_file_pos
        /\ op' = "seek_numeric" /\ pc' = "recover"
        /\ local'.at = local.scan_pos /\ local'.scan_pos = local.scan_pos
    BY <1>1, <1>2, <1>7 DEF FailAt, Goto, cursor, LocalType
  <2>2. CursorAdvanced' BY <1>1, <1>7, <2>1, AdvanceKept
  <2> QED BY <1>1, <1>2, <2>1, <2>2 DEF AdvanceInv, CursorAdvanced
<1>8. CASE h.kind = "chunk" /\ ScanChunk(c)
  <2>1. h.chunk \in DOMAIN Chunks /\ c.begin = canonical_chunk_address(local.scan_pos)
        /\ HeaderReadable(c)
    BY <1>3, <1>8
  <2>2. c.begin = local.scan_pos BY <1>2, <2>1, TypeFacts, FoundAtSettled
  <2>3. CASE ScanStopsAt(c)
    <3>1. /\ next_chunk_file_pos' = c.begin /\ pending_trusted_end' = None
          /\ op' = "seek" /\ pc' = "header"
      BY <1>8, <2>1, <2>3 DEF ScanChunk, StartSeek
    <3>2. Settled(next_chunk_file_pos)'
      BY <1>2, <1>4, <2>2, <3>1 DEF Settled, Opens, ValidBlock
    <3> QED BY <1>1, <1>2, <2>2, <3>1, <3>2 DEF AdvanceInv
  <2>4. CASE ~ScanStopsAt(c)
    <3>1. /\ UNCHANGED <<cursor, pending_trusted_end, op, pc>>
          /\ local' = [local EXCEPT !.scan_pos =
                         chunk_end(local.scan_pos, c.data_size, c.num_records)]
      BY <1>8, <2>4 DEF ScanChunk
    <3>2. chunk_end(local.scan_pos, c.data_size, c.num_records) = End(c)
      BY <1>2, <2>1, TypeFacts, ScanEnd
    <3>3. local'.scan_pos = End(c) BY <1>2, <3>1, <3>2 DEF LocalType
    <3>4. canonical_chunk_address(c.begin) = c.begin BY <1>2, <2>1, CanonicalFacts
    <3>5. End(c) \in Nat /\ End(c) > c.begin /\ End(c) % BlockSize # BlockHeaderSize
      BY <2>1, <3>4, TypeFacts, ChunkFacts
    <3> HIDE DEF c
    <3>6. Settled(local.scan_pos)' BY <3>3, <3>5 DEF Settled
    <3>7. next_chunk_file_pos' = next_chunk_file_pos BY <3>1 DEF cursor
    <3>8. CursorAdvanced' BY <1>1, <3>1, <3>7, AdvanceKept
    <3>9. regions # {} => last_skipped_region.end <= End(c) BY <1>2, <2>2, <3>5
    <3> QED BY <1>1, <3>1, <3>3, <3>6, <3>8, <3>9 DEF AdvanceInv, CursorAdvanced
  <2> QED BY <2>3, <2>4
<1> QED BY <1>1, <1>5, <1>6, <1>7, <1>8

LEMMA AdvanceRecover == ASSUME TypeInv, AdvanceInv, Recover PROVE AdvanceInv'
<1> DEFINE begin == RegionBegin(local.at)
<1>1. /\ pc = "recover" /\ op \in {"new", "read_record", "seek", "seek_numeric"}
      /\ UNCHANGED <<file, cursor, last_skipped_region, regions>>
      /\ pending_trusted_end' = None /\ local' \in LocalType
      /\ \/ op' = "none" /\ pc' \in {"idle", "gone"}
         \/ /\ op' = op
            /\ local'.at = local.at /\ local'.begin = begin /\ local'.scan_pos = local.scan_pos
            /\ \/ /\ pc' = "region" /\ pending_trusted_end # None
                  /\ local'.end = pending_trusted_end
               \/ /\ pc' = "resync" /\ is_block_boundary(local'.boundary)
                  /\ begin < local'.boundary
                  /\ \A b \in Nat : is_block_boundary(b) /\ begin < b => local'.boundary <= b
  BY RecoverSteps DEF Return
<1>2. next_chunk_file_pos' = next_chunk_file_pos BY <1>1 DEF cursor
<1>3. CursorAdvanced' BY <1>1, <1>2, AdvanceKept
<1>4. local.at \in Nat BY TypeFacts DEF LocalType
<1>5. regions # {} => last_skipped_region # NoRegion /\ last_skipped_region.end <= local.at
  BY <1>1 DEF AdvanceInv
<1>6. regions # {} => last_skipped_region.end <= begin BY <1>4, <1>5, RegionBeginFacts
<1> HIDE DEF begin
<1>7. CASE op' = "none" /\ pc' \in {"idle", "gone"}
  BY <1>3, <1>7 DEF AdvanceInv, CursorAdvanced
<1>8. CASE op' = op /\ pc' = "region" /\ local'.end = pending_trusted_end
           /\ pending_trusted_end # None
           /\ local'.at = local.at /\ local'.begin = begin /\ local'.scan_pos = local.scan_pos
  <2>1. local'.end % BlockSize # BlockHeaderSize BY <1>8 DEF AdvanceInv
  <2>2. Settled(local.end)' BY <2>1 DEF Settled
  <2> QED BY <1>1, <1>2, <1>3, <1>6, <1>8, <2>2 DEF AdvanceInv, CursorAdvanced
<1>9. CASE /\ op' = op /\ pc' = "resync" /\ is_block_boundary(local'.boundary)
           /\ begin < local'.boundary
           /\ \A b \in Nat : is_block_boundary(b) /\ begin < b => local'.boundary <= b
           /\ local'.at = local.at /\ local'.begin = begin /\ local'.scan_pos = local.scan_pos
  <2>1. ASSUME NEW b \in DOMAIN blocks, is_block_boundary(b), begin < b, b < local'.boundary
        PROVE  FALSE
    <3>1. b \in Nat /\ local'.boundary \in Nat BY <1>1, TypeFacts, FileFacts DEF LocalType
    <3> QED BY <1>9, <2>1, <3>1
  <2>2. UNCHANGED blocks BY <1>1, FileSame
  <2>3. \A b \in DOMAIN blocks' :
          is_block_boundary(b) /\ local'.begin < b /\ b < local'.boundary => ~Opens(b)'
    BY <1>9, <2>1, <2>2
  <2> QED BY <1>1, <1>2, <1>3, <1>6, <1>9, <2>3 DEF AdvanceInv, CursorAdvanced
<1> QED BY <1>1, <1>7, <1>8, <1>9

\* The scan for a chunk begin does not step over a boundary where one opens.
LEMMA AdvanceResync ==
    ASSUME TypeInv, OrderInv, AdvanceInv, BlocksTruthful, Resync PROVE AdvanceInv'
<1> DEFINE boundary == local.boundary
           target == boundary + blocks[boundary].next_chunk
           cap == Larger(stream_len, local.begin)
<1>1. /\ pc = "resync"
      /\ UNCHANGED <<file, cursor, skips, regions>>
      /\ op' = op
      /\ local'.at = local.at /\ local'.begin = local.begin
      /\ local'.scan_pos = local.scan_pos
      /\ \/ /\ pc' = "region"
            /\ \/ local'.end = Smaller(boundary, cap)
               \/ /\ ValidBlock(boundary) /\ blocks[boundary].previous_chunk # 0
                  /\ target \in Nat /\ boundary <= target
                  /\ local'.end = Smaller(target, cap)
         \/ /\ pc' = "resync"
            /\ \/ ~ValidBlock(boundary) /\ local'.boundary = boundary + BlockSize
               \/ /\ ValidBlock(boundary) /\ blocks[boundary].previous_chunk # 0
                  /\ target \in Nat /\ boundary <= target
                  /\ local'.boundary = next_block_boundary(target)
  BY ResyncSteps
<1>2. /\ boundary \in Nat /\ local.begin \in Nat /\ cap \in Nat
      /\ is_block_boundary(boundary) /\ local.begin < boundary
  BY <1>1, TypeFacts DEF LocalType, AdvanceInv, Larger
<1>3. next_chunk_file_pos' = next_chunk_file_pos
      /\ UNCHANGED <<last_skipped_region, pending_trusted_end>>
  BY <1>1 DEF cursor, skips
<1>4. CursorAdvanced' BY <1>1, <1>3, AdvanceKept
<1>5. UNCHANGED blocks /\ \A b : Opens(b)' = Opens(b) BY <1>1, FileSame
<1>6. \A b \in DOMAIN blocks : b \in Nat BY TypeFacts, FileFacts
<1>7. ASSUME NEW b \in DOMAIN blocks, is_block_boundary(b), local.begin < b, b < boundary
      PROVE  ~Opens(b)
  BY <1>1, <1>7 DEF AdvanceInv
<1>8. ASSUME ValidBlock(boundary), blocks[boundary].previous_chunk # 0,
             target \in Nat, boundary <= target,
             NEW b \in DOMAIN blocks, is_block_boundary(b), local.begin < b, b < target
      PROVE  ~Opens(b)
  <2>1. CASE b < boundary BY <1>7, <1>8, <2>1
  <2>2. CASE b = boundary BY <1>8, <2>2 DEF Opens
  <2>3. CASE boundary < b
    <3>1. Opens(b) => target <= b
      BY <1>8, <2>3 DEF BlocksTruthful, Truthful, ValidBlock, Opens, blocks
    <3>2. b \in Nat BY <1>6
    <3> QED BY <1>8, <3>1, <3>2
  <2>4. b \in Nat BY <1>6
  <2> QED BY <1>2, <2>1, <2>2, <2>3, <2>4
<1> HIDE DEF boundary, target, cap
<1>9. ASSUME NEW p \in Nat, pc' = "region", local'.end = Smaller(p, cap),
             \A b \in DOMAIN blocks :
               is_block_boundary(b) /\ local.begin < b /\ b < p => ~Opens(b)
      PROVE  AdvanceInv'
  <2> DEFINE e == Smaller(p, cap)
             b == e - BlockHeaderSize
  <2>1. e \in Nat /\ e <= p BY <1>2, <1>9 DEF Smaller
  <2>2. local.begin < e - BlockHeaderSize => Settled(e)
    <3>1. SUFFICES ASSUME local.begin < b, e % BlockSize = BlockHeaderSize, Opens(b)
                   PROVE  FALSE
      BY DEF Settled
    <3>2. is_block_boundary(b) BY <2>1, <3>1, CanonicalFacts
    <3>3. b < p BY <2>1, BlockSizeNat
    <3>4. b \in DOMAIN blocks BY <3>1 DEF Opens, ValidBlock
    <3> QED BY <1>9, <3>1, <3>2, <3>3, <3>4
  <2> HIDE DEF e
  <2>3. local'.end = e BY <1>9 DEF e
  <2>4. local'.begin < local'.end - BlockHeaderSize => Settled(local.end)'
    BY <1>1, <1>5, <2>2, <2>3 DEF Settled
  <2> QED BY <1>1, <1>3, <1>4, <1>9, <2>4 DEF AdvanceInv, CursorAdvanced
<1>10. ASSUME NEW p \in Nat, pc' = "resync", local'.boundary = p,
              is_block_boundary(p), local.begin < p,
              \A b \in DOMAIN blocks :
                is_block_boundary(b) /\ local.begin < b /\ b < p => ~Opens(b)
       PROVE  AdvanceInv'
  <2>1. \A b \in DOMAIN blocks' :
          is_block_boundary(b) /\ local'.begin < b /\ b < local'.boundary => ~Opens(b)'
    BY <1>1, <1>5, <1>10
  <2> QED BY <1>1, <1>3, <1>4, <1>10, <2>1 DEF AdvanceInv, CursorAdvanced
<1>11. CASE pc' = "region" /\ local'.end = Smaller(boundary, cap)
  BY <1>2, <1>7, <1>9, <1>11
<1>12. CASE /\ pc' = "region" /\ ValidBlock(boundary) /\ blocks[boundary].previous_chunk # 0
            /\ target \in Nat /\ boundary <= target
            /\ local'.end = Smaller(target, cap)
  BY <1>8, <1>9, <1>12
<1>13. CASE pc' = "resync" /\ ~ValidBlock(boundary) /\ local'.boundary = boundary + BlockSize
  <2>1. /\ boundary + BlockSize \in Nat /\ is_block_boundary(boundary + BlockSize)
        /\ local.begin < boundary + BlockSize
    BY <1>2, BoundaryAfter
  <2>2. ASSUME NEW b \in DOMAIN blocks, is_block_boundary(b), local.begin < b,
               b < boundary + BlockSize
        PROVE  ~Opens(b)
    <3>1. b \in Nat BY <1>6
    <3>2. CASE b < boundary BY <1>7, <2>2, <3>2
    <3>3. CASE b = boundary BY <1>13, <3>3 DEF Opens
    <3>4. CASE boundary < b
      <4>1. boundary + BlockSize <= b BY <1>2, <2>2, <3>1, <3>4, BoundaryGap
      <4> QED BY <2>1, <2>2, <3>1, <4>1
    <3> QED BY <1>2, <3>1, <3>2, <3>3, <3>4
  <2> QED BY <1>10, <1>13, <2>1, <2>2
<1>14. CASE /\ pc' = "resync" /\ ValidBlock(boundary) /\ blocks[boundary].previous_chunk # 0
            /\ target \in Nat /\ boundary <= target
            /\ local'.boundary = next_block_boundary(target)
  <2> DEFINE p == next_block_boundary(target)
  <2>1. /\ p \in Nat /\ target <= p /\ is_block_boundary(p)
        /\ \A b \in Nat : is_block_boundary(b) /\ target <= b => p <= b
    BY <1>14, NextBoundaryFacts
  <2> HIDE DEF p
  <2>2. local.begin < p BY <1>2, <1>14, <2>1
  <2>3. ASSUME NEW b \in DOMAIN blocks, is_block_boundary(b), local.begin < b, b < p
        PROVE  ~Opens(b)
    <3>1. b \in Nat BY <1>6
    <3>2. b < target BY <1>14, <2>1, <2>3, <3>1
    <3> QED BY <1>8, <1>14, <2>3, <3>2
  <2> QED BY <1>10, <1>14, <2>1, <2>2, <2>3 DEF p
<1> QED BY <1>1, <1>11, <1>12, <1>13, <1>14 DEF boundary, target, cap

\* The end of a region is settled.
LEMMA RegionEndSettled ==
    ASSUME TypeInv, OrderInv, AdvanceInv, pc = "region" PROVE Settled(RegionEnd)
<1>1. SUFFICES ASSUME RegionEnd % BlockSize = BlockHeaderSize PROVE Settled(RegionEnd)
  BY DEF Settled
<1>2. /\ RegionEnd \in Nat /\ canonical_chunk_address(RegionEnd) > local.begin
      /\ \/ RegionEnd = local.end \/ RegionEnd = local.begin + 1 \/ RegionEnd = local.at + 1
  BY <1>1, RegionEndFacts
<1>3. /\ local.begin \in Nat /\ local.at \in Nat
      /\ canonical_chunk_address(local.at) <= local.begin
  BY TypeFacts DEF LocalType, OrderInv
<1>4. canonical_chunk_address(RegionEnd) = RegionEnd - BlockHeaderSize
  BY <1>1, <1>2, CanonicalFacts
<1>5. CASE RegionEnd = local.end
  <2>1. local.begin < local.end - BlockHeaderSize
    BY <1>2, <1>3, <1>4, <1>5, BlockSizeNat
  <2> QED BY <1>5, <2>1 DEF AdvanceInv
<1>6. CASE RegionEnd = local.begin + 1
  BY <1>2, <1>3, <1>4, <1>6, BlockSizeNat
<1>7. CASE RegionEnd = local.at + 1
  <2>1. local.at % BlockSize # BlockHeaderSize BY <1>1, <1>3, <1>7, AliasStep
  <2>2. canonical_chunk_address(local.at) = local.at BY <1>3, <2>1, CanonicalFacts
  <2> QED BY <1>2, <1>3, <1>4, <1>7, <2>2, BlockSizeNat
<1> QED BY <1>2, <1>5, <1>6, <1>7

LEMMA AdvanceReportRegion ==
    ASSUME TypeInv, OrderInv, AdvanceInv, ReportRegion PROVE AdvanceInv'
<1>1. /\ pc = "region" /\ UNCHANGED <<file, pending_trusted_end>>
      /\ last_skipped_region' = Region /\ regions' = regions \cup {Region}
      /\ next_chunk_file_pos' = RegionEnd
      /\ \/ op' = "none" /\ pc' \in {"gone", "idle"}
         \/ op' = "read_record" /\ pc' = "header"
         \/ op' = "seek_numeric" /\ pc' = "peek" /\ local'.scan_pos = RegionEnd
  BY ReportSteps
<1>2. Settled(RegionEnd) BY <1>1, RegionEndSettled
<1>3. RegionEnd \in Nat /\ Region.end = RegionEnd /\ Region # NoRegion
  <2>1. RegionEnd \in Nat /\ Region.end = RegionEnd BY RegionEndFacts
  <2>2. Region.end # NoRegion.end BY <2>1 DEF NoRegion, None
  <2> QED BY <2>1, <2>2
<1>4. UNCHANGED blocks BY <1>1, FileSame
<1>5. Settled(next_chunk_file_pos)' BY <1>1, <1>2, <1>4 DEF Settled, Opens, ValidBlock
<1>6. pc' = "peek" => Settled(local.scan_pos)'
  BY <1>1, <1>2, <1>4 DEF Settled, Opens, ValidBlock
<1>7. pending_trusted_end' # None => pending_trusted_end' % BlockSize # BlockHeaderSize
  BY <1>1 DEF AdvanceInv
<1> QED BY <1>1, <1>3, <1>5, <1>6, <1>7 DEF AdvanceInv

LEMMA AdvanceNext ==
    TypeInv /\ OrderInv /\ FoundInv /\ BlocksTruthful /\ AdvanceInv /\ [Next]_vars
      => AdvanceInv'
<1> SUFFICES ASSUME TypeInv, OrderInv, FoundInv, BlocksTruthful, AdvanceInv, [Next]_vars
             PROVE  AdvanceInv'
  OBVIOUS
<1>1. CASE Grow \/ UNCHANGED vars
  <2>1. /\ UNCHANGED <<file, next_chunk_file_pos, pc, op, local, last_skipped_region,
                       pending_trusted_end, regions>>
    BY <1>1 DEF Grow, vars, cursor, control, history, skips
  <2>2. CursorAdvanced' BY <2>1, AdvanceKept
  <2>3. UNCHANGED blocks /\ \A b : Opens(b)' = Opens(b) BY <2>1, FileSame
  <2>4. pc' = "peek" => Settled(local.scan_pos)'
    BY <2>1, <2>3 DEF AdvanceInv, Settled
  <2>5. pc' = "region" /\ local'.begin < local'.end - BlockHeaderSize => Settled(local.end)'
    BY <2>1, <2>3 DEF AdvanceInv, Settled
  <2>6. pc' = "resync" => \A b \in DOMAIN blocks' :
          is_block_boundary(b) /\ local'.begin < b /\ b < local'.boundary => ~Opens(b)'
    BY <2>1, <2>3 DEF AdvanceInv
  <2> QED BY <2>1, <2>2, <2>4, <2>5, <2>6 DEF AdvanceInv, CursorAdvanced
<1> QED
  BY <1>1, AdvanceOpen, AdvanceRead, AdvanceLoadHeader, AdvanceLoadData, AdvanceSeek,
     AdvanceNumeric, AdvancePeekHeader, AdvanceRecover, AdvanceResync, AdvanceReportRegion
     DEF Next, Step

LEMMA AdvanceInit == Init => AdvanceInv
BY FirstDataChunkFacts DEF Init, InitReader, AdvanceInv, Settled, None

(***************************************************************************)
(* A region begins at or behind the end of the one reported before it, and *)
(* is not empty: for every file whose block headers do not lie, whatever   *)
(* its chunk headers claim, growing or not, and with reads that fail.      *)
(***************************************************************************)
THEOREM ReaderRegionsAdvance == Spec /\ BlocksTruthful => RegionsAdvance
<1> DEFINE Inv == TypeInv /\ OrderInv /\ FoundInv /\ BlocksTruthful /\ AdvanceInv
           Advances ==
             ~(regions' \subseteq regions) =>
               /\ last_skipped_region'.begin < last_skipped_region'.end
               /\ regions # {} => last_skipped_region.end <= last_skipped_region'.begin
<1>1. Init /\ BlocksTruthful => Inv BY TypeInit, OrderInit, FoundInit, AdvanceInit
<1>2. Inv /\ [Next]_vars => Inv'
  BY TypeNext, OrderNext, FoundNext, AdvanceNext, FileConstant, FileSame
<1>3. Inv /\ [Next]_vars => [Advances]_vars
  <2>1. SUFFICES ASSUME TypeInv, AdvanceInv, Next, ~(regions' \subseteq regions)
                 PROVE  Advances
    OBVIOUS
  <2>2. ReportRegion
    BY <2>1 DEF Next, Step, Open, Preamble, TakeRecord, LoadHeader, LoadData, MeasureOrigin,
                ResolveScanOrigin, PeekHeader, Recover, Resync, ReadRecord,
                Seek, SeekNumeric, Grow, history, vars
  <2>3. pc = "region" /\ last_skipped_region' = Region BY <2>1, <2>2, ReportSteps
  <2>4. Region.begin = local.begin /\ Region.end = RegionEnd /\ RegionEnd > local.begin
    BY <2>1, RegionEndFacts
  <2>5. local.begin \in Nat /\ RegionEnd \in Nat BY <2>1, TypeFacts, RegionEndFacts DEF LocalType
  <2>6. regions # {} => last_skipped_region.end <= local.begin
    BY <2>1, <2>3 DEF AdvanceInv
  <2> QED BY <2>3, <2>4, <2>5, <2>6
<1> HIDE DEF Inv
<1>4. [][Advances]_vars => RegionsAdvance BY PTL DEF RegionsAdvance
<1> HIDE DEF Advances
<1> QED BY <1>1, <1>2, <1>3, <1>4, PTL DEF Spec

---------------------------------------------------------------------------
(* Nothing is lost silently. *)

\* ExactInv, in terms of what it depends on.
Covers(lo, hi, D, R) ==
    \A i \in DOMAIN Chunks : \A k \in 0 .. (Chunk(i).num_records - 1) :
      LET n == Chunk(i).begin + k
      IN  lo <= n /\ n < hi /\ IntactRecords(Chunk(i)) =>
            n \in D \/ \E r \in R : InRegion(Chunk(i), r)

Loading == {"header", "data", "recover", "resync", "region"}
Scanning == {"peek", "recover", "resync", "region"}

Ahead(f, next, o, p, l, length) ==
    \A i \in DOMAIN Chunks :
      next <= Chunk(i).begin =>
        \/ f <= Chunk(i).begin
        \/ /\ o = "seek" /\ p \in Loading
           /\ Chunk(i).begin = next /\ next = l.target /\ next < length
           /\ f = Chunk(i).begin + l.index /\ l.index <= Chunk(i).num_records

LEMMA ExactParts ==
    ASSUME ExactInv
    PROVE  /\ Covers(from, Cursor, delivered, regions)
           /\ op = "seek_numeric" /\ pc \in Scanning =>
                /\ FirstDataChunk <= local.scan_pos
                /\ Covers(Sought, local.scan_pos, delivered, regions)
           /\ \A n \in delivered : from <= n
           /\ current_decoder # 0 => from <= Cursor
           /\ pc \in {"measure", "origin"} => from = Cursor
           /\ op = "new" => from = 0
           /\ op # "seek_numeric" => Ahead(from, next_chunk_file_pos, op, pc, local, len)
BY DEF ExactInv, Accounted, Covers, Ahead, SoughtIn, Loading, Scanning

\* It suffices to look at what the step has made of the positions.
LEMMA ExactStep ==
    ASSUME UNCHANGED file,
           Covers(from', Cursor', delivered', regions'),
           op' = "seek_numeric" /\ pc' \in Scanning =>
             /\ FirstDataChunk <= local'.scan_pos
             /\ Covers(Larger(local'.target, FirstDataChunk), local'.scan_pos,
                       delivered', regions'),
           \A n \in delivered' : from' <= n,
           current_decoder' # 0 => from' <= Cursor',
           pc' \in {"measure", "origin"} => from' = Cursor',
           op' = "new" => from' = 0,
           op' # "seek_numeric" =>
             Ahead(from', next_chunk_file_pos', op', pc', local', len')
    PROVE  ExactInv'
<1>1. UNCHANGED DOMAIN Chunks /\ \A i : UNCHANGED Chunk(i) BY FileSame
<1>2. \A i : IntactRecords(Chunk(i))' = IntactRecords(Chunk(i))
  BY <1>1 DEF IntactRecords, ValidBlock, BoundariesIn, End, blocks
<1>3. Accounted(from, Cursor)'
  BY <1>1, <1>2 DEF Accounted, Covers, InRegion, End
<1>4. Sought' = Larger(local'.target, FirstDataChunk) BY DEF Sought
<1>5. op' = "seek_numeric" /\ pc' \in Scanning =>
        FirstDataChunk <= local'.scan_pos /\ Accounted(Sought, local.scan_pos)'
  BY <1>1, <1>2, <1>4 DEF Accounted, Covers, InRegion, End
<1>6. op' # "seek_numeric" =>
        \A i \in DOMAIN Chunks' :
          next_chunk_file_pos' <= (Chunk(i).begin)' =>
            from' <= (Chunk(i).begin)' \/ SoughtIn(i)'
  BY <1>1 DEF Ahead, SoughtIn, Loading
<1> QED BY <1>3, <1>5, <1>6 DEF ExactInv, Scanning

LEMMA RecordNat ==
    ASSUME FileType(file), NEW i \in DOMAIN Chunks,
           NEW k \in 0 .. (Chunk(i).num_records - 1)
    PROVE  /\ k \in Nat /\ Chunk(i).begin \in Nat /\ Chunk(i).num_records \in Nat
           /\ Chunk(i).begin + k \in Nat /\ Chunk(i).begin <= Chunk(i).begin + k
           /\ Chunk(i).begin + k < Chunk(i).begin + Chunk(i).num_records
BY ChunkFacts

LEMMA CoversMono ==
    ASSUME FileType(file), NEW lo \in Int, NEW hi \in Int, NEW lo2 \in Int, NEW hi2 \in Int,
           NEW D, NEW R, NEW D2, NEW R2, Covers(lo, hi, D, R),
           lo <= lo2, hi2 <= hi, D \subseteq D2, R \subseteq R2
    PROVE  Covers(lo2, hi2, D2, R2)
<1>1. SUFFICES ASSUME NEW i \in DOMAIN Chunks, NEW k \in 0 .. (Chunk(i).num_records - 1),
                      lo2 <= Chunk(i).begin + k, Chunk(i).begin + k < hi2,
                      IntactRecords(Chunk(i))
               PROVE  \/ Chunk(i).begin + k \in D2
                      \/ \E r \in R2 : InRegion(Chunk(i), r)
  BY DEF Covers
<1>2. Chunk(i).begin + k \in Nat BY RecordNat
<1>3. lo <= Chunk(i).begin + k /\ Chunk(i).begin + k < hi BY <1>1, <1>2
<1>4. Chunk(i).begin + k \in D \/ \E r \in R : InRegion(Chunk(i), r)
  BY <1>1, <1>3 DEF Covers
<1> QED BY <1>4

LEMMA CoversNone ==
    ASSUME FileType(file), NEW lo \in Int, NEW hi \in Int, NEW D, NEW R, hi <= lo
    PROVE  Covers(lo, hi, D, R)
BY RecordNat DEF Covers

LEMMA CoversJoin ==
    ASSUME FileType(file), NEW lo \in Int, NEW mid \in Int, NEW hi \in Int, NEW D, NEW R,
           Covers(lo, mid, D, R), Covers(mid, hi, D, R)
    PROVE  Covers(lo, hi, D, R)
<1>1. SUFFICES ASSUME NEW i \in DOMAIN Chunks, NEW k \in 0 .. (Chunk(i).num_records - 1),
                      lo <= Chunk(i).begin + k, Chunk(i).begin + k < hi,
                      IntactRecords(Chunk(i))
               PROVE  \/ Chunk(i).begin + k \in D
                      \/ \E r \in R : InRegion(Chunk(i), r)
  BY DEF Covers
<1>2. Chunk(i).begin + k \in Nat BY RecordNat
<1>3. Chunk(i).begin + k < mid \/ mid <= Chunk(i).begin + k BY <1>2
<1> QED BY <1>1, <1>3 DEF Covers

\* The records between the begin and the end of a chunk are its own.
LEMMA RecordOwner ==
    ASSUME TypeInv, ChunksDisjoint, NEW j \in DOMAIN Chunks, ClaimsFit(Chunk(j), len),
           NEW i \in DOMAIN Chunks, NEW k \in 0 .. (Chunk(i).num_records - 1),
           Chunk(j).begin <= Chunk(i).begin + k, Chunk(i).begin + k < End(Chunk(j))
    PROVE  i = j
<1>1. /\ Chunk(i).begin \in Nat /\ k \in Nat /\ Chunk(i).num_records \in Nat
      /\ Chunk(i).begin + k < Chunk(i).begin + Chunk(i).num_records
      /\ Chunk(j).begin \in Nat /\ End(Chunk(j)) \in Nat
  BY TypeFacts, RecordNat, ChunkFacts
<1>2. CASE Chunk(i).begin = Chunk(j).begin BY <1>2, DisjointFacts
<1>3. CASE Chunk(i).begin < Chunk(j).begin
  <2>1. Chunk(i).begin + Chunk(i).num_records <= Chunk(j).begin BY <1>3, DisjointFacts
  <2> QED BY <1>1, <2>1
<1>4. CASE Chunk(j).begin < Chunk(i).begin
  <2>1. End(Chunk(j)) <= Chunk(i).begin BY <1>4, EndInFront
  <2> QED BY <1>1, <2>1
<1> QED BY <1>1, <1>2, <1>3, <1>4

\* A record that begins in a region has its chunk in the region.
LEMMA CoversRegion ==
    ASSUME TypeInv, ChunksDisjoint, NEW lo \in Int, NEW hi \in Int, NEW D, NEW R,
           NEW r \in R, r.begin \in Nat, r.end = hi, r.begin <= lo
    PROVE  Covers(lo, hi, D, R)
<1>1. SUFFICES ASSUME NEW i \in DOMAIN Chunks, NEW k \in 0 .. (Chunk(i).num_records - 1),
                      lo <= Chunk(i).begin + k, Chunk(i).begin + k < hi
               PROVE  InRegion(Chunk(i), r)
  BY DEF Covers
<1>2. /\ Chunk(i).begin \in Nat /\ k \in Nat /\ Chunk(i).num_records \in Nat
      /\ Chunk(i).begin + k < Chunk(i).begin + Chunk(i).num_records
  BY TypeFacts, RecordNat
<1>3. is_possible_chunk_boundary(Chunk(i).begin) BY DisjointFacts
<1>4. canonical_chunk_address(Chunk(i).begin) = Chunk(i).begin
  BY <1>2, <1>3, PossibleNoAlias, CanonicalFacts
<1>5. End(Chunk(i)) \in Nat /\ End(Chunk(i)) >= Chunk(i).begin + Chunk(i).num_records
  BY <1>4, TypeFacts, ChunkFacts
<1>6. r.begin < End(Chunk(i)) BY <1>1, <1>2, <1>5
<1>7. Chunk(i).begin < r.end BY <1>1, <1>2
<1> QED BY <1>6, <1>7 DEF InRegion

\* No chunk begins behind the position in front of what is sought.
LEMMA AheadAt ==
    ASSUME FileType(file), NEW f \in Int, NEW next \in Int, f <= next,
           NEW o, NEW p, NEW l, NEW length
    PROVE  Ahead(f, next, o, p, l, length)
BY ChunkFacts DEF Ahead

LEMMA AheadFar ==
    ASSUME FileType(file), NEW f \in Int, NEW next \in Int, NEW next2 \in Int, next < next2,
           NEW o, NEW p, NEW l, NEW length, NEW o2, NEW p2, NEW l2, NEW length2,
           Ahead(f, next, o, p, l, length)
    PROVE  Ahead(f, next2, o2, p2, l2, length2)
<1>1. SUFFICES ASSUME NEW i \in DOMAIN Chunks, next2 <= Chunk(i).begin
               PROVE  f <= Chunk(i).begin
  BY DEF Ahead
<1>2. Chunk(i).begin \in Nat BY ChunkFacts
<1>3. next <= Chunk(i).begin /\ next # Chunk(i).begin BY <1>1, <1>2
<1> QED BY <1>3 DEF Ahead

LEMMA AheadKept ==
    ASSUME NEW f, NEW next \in Int, NEW o, NEW p, NEW l, NEW length \in Int,
           NEW o2, NEW p2, NEW l2, NEW length2 \in Int,
           Ahead(f, next, o, p, l, length),
           o = "seek" /\ p \in Loading =>
             /\ o2 = o /\ p2 \in Loading /\ length <= length2
             /\ l2.target = l.target /\ l2.index = l.index
    PROVE  Ahead(f, next, o2, p2, l2, length2)
BY DEF Ahead

\* The cursor lies in the chunk at hand, in front of the next.
LEMMA CursorFacts ==
    ASSUME TypeInv, OrderInv
    PROVE  Cursor \in Nat /\ Cursor <= next_chunk_file_pos
<1>1. CASE current_decoder = 0 BY <1>1, TypeFacts DEF Cursor
<1>2. CASE current_decoder # 0
  <2> DEFINE c == Chunk(current_decoder)
  <2>1. current_decoder \in DOMAIN Chunks /\ current_record_index \in Nat
    BY <1>2, TypeFacts
  <2>2. /\ current_chunk_begin = c.begin /\ canonical_chunk_address(c.begin) = c.begin
        /\ current_record_index <= c.num_records /\ next_chunk_file_pos = End(c)
    BY <1>2 DEF OrderInv
  <2>3. /\ c.begin \in Nat /\ c.num_records \in Nat /\ End(c) \in Nat
        /\ canonical_chunk_address(c.begin) = c.begin => End(c) >= c.begin + c.num_records
    BY <2>1, TypeFacts, ChunkFacts
  <2> HIDE DEF c
  <2> QED BY <1>2, <2>1, <2>2, <2>3 DEF Cursor
<1> QED BY <1>1, <1>2

\* Steps that move nothing but the operation.
LEMMA ExactKept ==
    ASSUME ExactInv, UNCHANGED <<file, next_chunk_file_pos, from, delivered, regions>>,
           Cursor' = Cursor, current_decoder' \in {0, current_decoder},
           op' = "seek_numeric" /\ pc' \in Scanning =>
             /\ op = "seek_numeric" /\ pc \in Scanning
             /\ local'.target = local.target /\ local'.scan_pos = local.scan_pos,
           pc' \in {"measure", "origin"} => pc \in {"measure", "origin"},
           op' = "new" => op = "new",
           op' # "seek_numeric" => Ahead(from, next_chunk_file_pos, op', pc', local', len')
    PROVE  ExactInv'
<1>1. Covers(from', Cursor', delivered', regions') BY ExactParts
<1>2. op' = "seek_numeric" /\ pc' \in Scanning =>
        /\ FirstDataChunk <= local'.scan_pos
        /\ Covers(Larger(local'.target, FirstDataChunk), local'.scan_pos, delivered', regions')
  BY ExactParts DEF Sought
<1>3. /\ \A n \in delivered' : from' <= n
      /\ current_decoder' # 0 => from' <= Cursor'
      /\ pc' \in {"measure", "origin"} => from' = Cursor'
      /\ op' = "new" => from' = 0
  BY ExactParts
<1> QED BY <1>1, <1>2, <1>3, ExactStep

LEMMA CursorSame ==
    ASSUME UNCHANGED cursor
    PROVE  UNCHANGED <<next_chunk_file_pos, current_decoder>> /\ Cursor' = Cursor
BY DEF cursor, Cursor

\* No records lie in front of the first chunk behind the preamble.
LEMMA NothingInFront ==
    ASSUME FileType(file), ChunksDisjoint, NEW D, NEW R
    PROVE  Covers(0, FirstDataChunk, D, R)
<1>1. SUFFICES ASSUME NEW i \in DOMAIN Chunks, NEW k \in 0 .. (Chunk(i).num_records - 1),
                      Chunk(i).begin + k < FirstDataChunk, IntactRecords(Chunk(i))
               PROVE  FALSE
  BY DEF Covers
<1>2. 1 \in DOMAIN Chunks /\ Chunk(1).begin = 0 /\ Chunk(1).type = "signature"
  BY FileFacts
<1>3. i # 1 BY <1>1, <1>2 DEF IntactRecords
<1>4. Chunk(i).begin # Chunk(1).begin BY <1>2, <1>3, DisjointFacts
<1>5. Chunk(1).begin < Chunk(i).begin BY <1>2, <1>4, ChunkFacts
<1>6. FirstDataChunk <= Chunk(i).begin BY <1>2, <1>5, DisjointFacts
<1> QED BY <1>1, <1>6, RecordNat, FirstDataChunkFacts

LEMMA ExactInit == Init /\ TypeInv /\ ChunksDisjoint => ExactInv
<1> SUFFICES ASSUME Init, TypeInv, ChunksDisjoint PROVE ExactInv OBVIOUS
<1>1. /\ current_decoder = 0 /\ next_chunk_file_pos = FirstDataChunk /\ op = "new"
      /\ pc = "open" /\ from = 0 /\ delivered = {} /\ regions = {}
  BY DEF Init, InitReader
<1>2. Covers(from, Cursor, delivered, regions)
  BY <1>1, TypeFacts, NothingInFront DEF Cursor
<1>3. Accounted(from, Cursor) BY <1>2 DEF Accounted, Covers
<1>4. \A i \in DOMAIN Chunks : from <= Chunk(i).begin BY <1>1, TypeFacts, ChunkFacts
<1> QED BY <1>1, <1>3, <1>4 DEF ExactInv

LEMMA ExactOpen ==
    ASSUME TypeInv, OrderInv, ExactInv, Open \/ Preamble PROVE ExactInv'
<1>1. /\ UNCHANGED <<file, cursor, delivered, regions>> /\ op = "new"
      /\ current_decoder = 0
      /\ from' = from \/ (from' = next_chunk_file_pos /\ op' = "none")
      /\ op' \in {"new", "none"} /\ pc' \in {"idle", "gone", "preamble", "recover"}
  BY DEF Open, Preamble, TypeInv, OperationInv, Return, FailAt, Goto
<1>2. from = 0 /\ next_chunk_file_pos \in Nat BY <1>1, ExactParts, TypeFacts
<1>3. UNCHANGED <<next_chunk_file_pos, current_decoder>> /\ Cursor' = Cursor
  BY <1>1, CursorSame
<1>4. CASE from' = from
  <2>1. Ahead(from, next_chunk_file_pos, op', pc', local', len')
    BY <1>2, TypeFacts, AheadAt
  <2> QED BY <1>1, <1>3, <1>4, <2>1, ExactKept
<1>5. CASE from' = next_chunk_file_pos /\ op' = "none"
  <2>1. Ahead(from', next_chunk_file_pos', op', pc', local', len')
    BY <1>2, <1>3, <1>5, TypeFacts, AheadAt
  <2>2. Cursor = next_chunk_file_pos BY <1>1 DEF Cursor
  <2>3. Covers(from', Cursor', delivered', regions')
    BY <1>2, <1>3, <1>5, <2>2, TypeFacts, CoversNone
  <2>4. delivered' = {} BY <1>1 DEF OrderInv
  <2> QED BY <1>1, <1>3, <1>5, <2>1, <2>3, <2>4, ExactStep
<1> QED BY <1>1, <1>4, <1>5

LEMMA ExactReadRecord == ASSUME TypeInv, ExactInv, ReadRecord PROVE ExactInv'
<1>1. /\ UNCHANGED <<file, len, cursor, from, delivered, regions>>
      /\ op = "none" /\ op' = "read_record" /\ pc' = "record"
  BY DEF ReadRecord, TypeInv, OperationInv, history
<1>2. UNCHANGED <<next_chunk_file_pos, current_decoder>> /\ Cursor' = Cursor
  BY <1>1, CursorSame
<1>3. Ahead(from, next_chunk_file_pos, op', pc', local', len')
  BY <1>1, TypeFacts, ExactParts, AheadKept
<1> QED BY <1>1, <1>2, <1>3, ExactKept

LEMMA ExactTakeRecord ==
    ASSUME TypeInv, OrderInv, FoundInv, ChunksDisjoint, ExactInv, TakeRecord
    PROVE  ExactInv'
<1> DEFINE c == Chunk(current_decoder)
<1>1. /\ UNCHANGED <<file, len, next_chunk_file_pos, from, regions>>
      /\ op = "read_record" /\ pc = "record"
  BY DEF TakeRecord, TypeInv, OperationInv
<1>2. from \in Nat /\ Cursor \in Nat /\ next_chunk_file_pos \in Nat /\ FileType(file)
      /\ Cursor <= next_chunk_file_pos /\ delivered \subseteq Nat
  BY TypeFacts, CursorFacts
<1>3. Ahead(from', next_chunk_file_pos', op', pc', local', len')
  BY <1>1, TypeFacts, ExactParts, AheadKept
<1>4. CASE current_decoder # 0 /\ current_record_index < c.num_records
  <2>1. /\ UNCHANGED <<current_decoder, current_chunk_begin>>
        /\ current_record_index' = current_record_index + 1
        /\ delivered' = delivered \cup {current_chunk_begin + current_record_index}
        /\ op' = "none" /\ pc' = "idle"
    BY <1>1, <1>4 DEF TakeRecord, Return, RecordPosition, Numeric
  <2>2. Cursor' = Cursor + 1 /\ delivered' = delivered \cup {Cursor}
    BY <1>4, <2>1, TypeFacts DEF Cursor
  <2>3. from <= Cursor BY <1>4, ExactParts
  <2>4. Covers(from, Cursor, delivered', regions)
    BY <1>2, <2>2, ExactParts, CoversMono
  <2>5. Covers(Cursor, Cursor + 1, delivered', regions)
    <3>1. SUFFICES ASSUME NEW i \in DOMAIN Chunks,
                          NEW k \in 0 .. (Chunk(i).num_records - 1),
                          Cursor <= Chunk(i).begin + k, Chunk(i).begin + k < Cursor + 1
                   PROVE  Chunk(i).begin + k \in delivered'
      BY DEF Covers
    <3>2. Chunk(i).begin + k = Cursor BY <1>2, <3>1, RecordNat
    <3> QED BY <2>2, <3>2
  <2>6. Covers(from', Cursor', delivered', regions')
    BY <1>1, <1>2, <2>2, <2>4, <2>5, CoversJoin
  <2>7. \A n \in delivered' : from' <= n BY <1>1, <2>2, <2>3, ExactParts
  <2>8. from' <= Cursor' BY <1>1, <1>2, <2>2, <2>3
  <2> QED BY <1>1, <1>3, <2>1, <2>6, <2>7, <2>8, ExactStep
<1>5. CASE ~(current_decoder # 0 /\ current_record_index < c.num_records)
  <2>1. /\ current_decoder' = 0 /\ op' = op /\ pc' = "header" /\ delivered' = delivered
    BY <1>5 DEF TakeRecord, Goto
  <2>2. Cursor' = next_chunk_file_pos BY <1>1, <2>1 DEF Cursor
  <2>3. Covers(Cursor, next_chunk_file_pos, delivered, regions)
    <3>1. CASE current_decoder = 0
      <4>1. Cursor = next_chunk_file_pos BY <3>1 DEF Cursor
      <4> QED BY <1>2, <4>1, CoversNone
    <3>2. CASE current_decoder # 0
      <4>1. /\ current_decoder \in DOMAIN Chunks /\ c.begin \in Nat /\ c.num_records \in Nat
            /\ ClaimsFit(c, len) /\ current_chunk_begin = c.begin
            /\ current_record_index \in Nat /\ current_record_index <= c.num_records
            /\ next_chunk_file_pos = End(c)
        BY <3>2, TypeFacts, ChunkFacts DEF OrderInv, FoundInv
      <4>2. Cursor = c.begin + c.num_records
        BY <1>5, <3>2, <4>1 DEF Cursor
      <4>3. SUFFICES ASSUME NEW i \in DOMAIN Chunks,
                            NEW k \in 0 .. (Chunk(i).num_records - 1),
                            Cursor <= Chunk(i).begin + k,
                            Chunk(i).begin + k < next_chunk_file_pos
                     PROVE  FALSE
        BY DEF Covers
      <4>4. Chunk(i).begin + k \in Nat
            /\ Chunk(i).begin + k < Chunk(i).begin + Chunk(i).num_records
        BY <1>2, RecordNat
      <4>5. c.begin <= Chunk(i).begin + k BY <4>1, <4>2, <4>3, <4>4
      <4>6. i = current_decoder BY <4>1, <4>3, <4>5, RecordOwner
      <4> QED BY <4>1, <4>2, <4>3, <4>4, <4>6
    <3> QED BY <3>1, <3>2
  <2>4. Covers(from', Cursor', delivered', regions')
    BY <1>1, <1>2, <2>1, <2>2, <2>3, ExactParts, CoversJoin
  <2> QED BY <1>1, <1>3, <2>1, <2>4, ExactParts, ExactStep
<1> QED BY <1>4, <1>5

LEMMA ExactLoadHeader ==
    ASSUME TypeInv, ChunksDisjoint, ExactInv, LoadHeader PROVE ExactInv'
<1>1. /\ op \in {"read_record", "seek"} /\ pc = "header"
      /\ UNCHANGED <<file, len, cursor, from, delivered, regions>>
      /\ \/ /\ op' = "none" /\ pc' = "idle"
            /\ canonical_chunk_address(next_chunk_file_pos) >= len
         \/ /\ op' = op /\ pc' \in {"recover", "data"}
            /\ local'.target = local.target /\ local'.index = local.index
  BY LoadHeaderSteps
<1>2. UNCHANGED <<next_chunk_file_pos, current_decoder>> /\ Cursor' = Cursor
  BY <1>1, CursorSame
<1>3. Ahead(from, next_chunk_file_pos, op, pc, local, len) BY <1>1, ExactParts
<1>4. Ahead(from, next_chunk_file_pos, op', pc', local', len')
  <2>1. CASE op' = "none" /\ canonical_chunk_address(next_chunk_file_pos) >= len
    <3>1. SUFFICES ASSUME NEW i \in DOMAIN Chunks, next_chunk_file_pos <= Chunk(i).begin
                   PROVE  from <= Chunk(i).begin
      BY DEF Ahead
    <3>2. Chunk(i).begin \in Nat /\ is_possible_chunk_boundary(Chunk(i).begin)
      BY TypeFacts, ChunkFacts, DisjointFacts
    <3>3. canonical_chunk_address(Chunk(i).begin) = Chunk(i).begin
      BY <3>2, PossibleNoAlias, CanonicalFacts
    <3>4. ~(Chunk(i).begin = next_chunk_file_pos /\ next_chunk_file_pos < len)
      BY <2>1, <3>3, TypeFacts
    <3> QED BY <1>3, <3>1, <3>4 DEF Ahead
  <2>2. CASE /\ op' = op /\ pc' \in {"recover", "data"}
             /\ local'.target = local.target /\ local'.index = local.index
    <3>1. pc' \in Loading BY <2>2 DEF Loading
    <3> QED BY <1>1, <1>3, <2>2, <3>1, TypeFacts, AheadKept
  <2> QED BY <1>1, <2>1, <2>2
<1> QED BY <1>1, <1>2, <1>4, ExactKept

LEMMA ExactLoadData ==
    ASSUME TypeInv, OrderInv, FoundInv, AdvanceInv, ChunksDisjoint, ExactInv, LoadData
    PROVE  ExactInv'
<1> DEFINE c == Chunk(local.chunk)
           next == next_chunk_file_pos
<1>1. /\ pc = "data" /\ op \in {"read_record", "seek"} /\ current_decoder = 0
      /\ local.chunk \in DOMAIN Chunks /\ local.chunk # 0
      /\ UNCHANGED <<file, len, delivered, regions>>
  BY LoadDataSteps, TypeFacts, FileFacts
<1>2. /\ c.begin = next /\ End(c) \in Nat /\ next < End(c)
      /\ c.num_records \in Nat /\ c.begin + c.num_records <= End(c)
      /\ ClaimsFit(c, len)
  <2>1. c.begin = next /\ c.begin = canonical_chunk_address(next)
    BY <1>1, BehindChunk DEF OrderInv
  <2>2. canonical_chunk_address(c.begin) = c.begin BY <2>1
  <2> QED BY <1>1, <2>2, BehindChunk, TypeFacts, ChunkFacts DEF FoundInv
<1>3. /\ from \in Nat /\ next \in Nat /\ FileType(file) /\ len \in Nat
      /\ Cursor = next /\ local \in LocalType
  BY <1>1, TypeFacts DEF Cursor
<1>4. Ahead(from, next, op, pc, local, len) /\ Covers(from, next, delivered, regions)
      /\ \A n \in delivered : from <= n
  BY <1>1, <1>3, ExactParts
<1>5. CASE /\ op' = op /\ pc' = "recover" /\ next_chunk_file_pos' = next
           /\ current_decoder' = 0 /\ from' = from
           /\ local'.target = local.target /\ local'.index = local.index
  <2>1. pc' \in Loading BY <1>5 DEF Loading
  <2>2. Ahead(from, next, op', pc', local', len')
    BY <1>1, <1>3, <1>4, <1>5, <2>1, AheadKept
  <2>3. Cursor' = Cursor BY <1>3, <1>5 DEF Cursor
  <2> QED BY <1>1, <1>5, <2>2, <2>3, ExactKept
<1>6. CASE /\ op' = op /\ pc' = "header" /\ ~HasRecords(c)
           /\ next_chunk_file_pos' = End(c) /\ current_decoder' = 0 /\ from' = from
  <2>1. Covers(next, End(c), delivered, regions)
    <3>1. SUFFICES ASSUME NEW i \in DOMAIN Chunks,
                          NEW k \in 0 .. (Chunk(i).num_records - 1),
                          next <= Chunk(i).begin + k, Chunk(i).begin + k < End(c),
                          IntactRecords(Chunk(i))
                   PROVE  FALSE
      BY DEF Covers
    <3>2. i = local.chunk BY <1>1, <1>2, <3>1, RecordOwner
    <3> QED BY <1>6, <3>1, <3>2 DEF IntactRecords, HasRecords
  <2>2. Covers(from, End(c), delivered, regions)
    BY <1>2, <1>3, <1>4, <2>1, CoversJoin
  <2>3. Cursor' = End(c) BY <1>6 DEF Cursor
  <2>4. Ahead(from, End(c), op', pc', local', len')
    BY <1>2, <1>3, <1>4, AheadFar
  <2> QED BY <1>1, <1>4, <1>6, <2>2, <2>3, <2>4, ExactStep
<1>7. CASE /\ next_chunk_file_pos' = End(c) /\ current_decoder' = local.chunk
           /\ current_chunk_begin' = c.begin
           /\ current_record_index' \in 0 .. c.num_records
           /\ current_record_index' > 0 => op = "seek"
           /\ op = "seek" /\ c.begin = local.target =>
                current_record_index' = Smaller(local.index, c.num_records)
           /\ from' = IF current_record_index' > 0
                      THEN c.begin + current_record_index' ELSE from
           /\ op' \in {"none", "read_record"} /\ pc' \in {"idle", "record"}
  <2> DEFINE index == current_record_index'
  <2>1. Cursor' = next + index /\ index \in Nat /\ next + index <= End(c)
    BY <1>1, <1>2, <1>3, <1>7 DEF Cursor
  <2>2. CASE index > 0
    <3>1. from' = next + index /\ delivered' = {}
      BY <1>1, <1>2, <1>7, <2>2 DEF OrderInv
    <3>2. Covers(from', Cursor', delivered', regions')
      BY <1>3, <2>1, <3>1, CoversNone
    <3>3. from' \in Int /\ from' <= End(c) /\ from' <= Cursor'
      <4>1. next + index \in Int BY <1>3, <2>1
      <4>2. from' = Cursor' BY <2>1, <3>1
      <4>3. from' \in Int BY <3>1, <4>1
      <4> QED BY <2>1, <3>1, <4>1, <4>2, <4>3
    <3>4. Ahead(from', next_chunk_file_pos', op', pc', local', len')
      BY <1>2, <1>3, <1>7, <3>3, AheadAt
    <3> QED BY <1>1, <1>7, <3>1, <3>2, <3>3, <3>4, ExactStep
  <2>3. CASE index = 0
    <3>1. from' = from /\ Cursor' = next BY <1>3, <1>7, <2>1, <2>3
    <3>2. from <= next
      <4>1. from <= c.begin
            \/ /\ op = "seek" /\ c.begin = local.target
               /\ from = c.begin + local.index /\ local.index <= c.num_records
        BY <1>1, <1>2, <1>3, <1>4 DEF Ahead
      <4>2. CASE from <= c.begin BY <1>2, <4>2
      <4>3. CASE /\ op = "seek" /\ c.begin = local.target
                 /\ from = c.begin + local.index /\ local.index <= c.num_records
        <5>1. Smaller(local.index, c.num_records) = 0 BY <1>7, <2>3, <4>3
        <5>2. local.index = 0 BY <4>3, <5>1 DEF Smaller
        <5> QED BY <1>2, <1>3, <4>3, <5>2
      <4> QED BY <4>1, <4>2, <4>3
    <3>3. Covers(from', Cursor', delivered', regions') BY <1>1, <1>4, <3>1
    <3>4. from <= End(c) BY <1>2, <1>3, <3>2
    <3>5. Ahead(from', next_chunk_file_pos', op', pc', local', len')
      BY <1>2, <1>3, <1>7, <3>1, <3>4, AheadAt
    <3> QED BY <1>1, <1>4, <1>7, <3>1, <3>2, <3>3, <3>5, ExactStep
  <2> QED BY <2>1, <2>2, <2>3
<1>8. \/ UNCHANGED cursor /\ op' = op /\ pc' = "recover" /\ from' = from
         /\ local'.target = local.target /\ local'.index = local.index
      \/ /\ op' = op /\ pc' = "recover" /\ next_chunk_file_pos' = c.begin
         /\ current_decoder' = 0 /\ from' = from
         /\ local'.target = local.target /\ local'.index = local.index
      \/ /\ op' = op /\ pc' = "header" /\ ~HasRecords(c)
         /\ next_chunk_file_pos' = End(c) /\ current_decoder' = 0 /\ from' = from
      \/ /\ next_chunk_file_pos' = End(c) /\ current_decoder' = local.chunk
         /\ current_chunk_begin' = c.begin
         /\ current_record_index' \in 0 .. c.num_records
         /\ current_record_index' > 0 => op = "seek"
         /\ op = "seek" /\ c.begin = local.target =>
              current_record_index' = Smaller(local.index, c.num_records)
         /\ from' = IF current_record_index' > 0
                    THEN c.begin + current_record_index' ELSE from
         /\ op' \in {"none", "read_record"} /\ pc' \in {"idle", "record"}
  BY LoadDataSteps
<1>9. UNCHANGED cursor => next_chunk_file_pos' = next /\ current_decoder' = 0
  BY <1>1 DEF cursor
<1> HIDE DEF c
<1> QED BY <1>2, <1>5, <1>6, <1>7, <1>8, <1>9

LEMMA ExactSeek ==
    ASSUME TypeInv, ExactInv, Seek PROVE ExactInv'
<1>1. UNCHANGED <<file, len>> /\ op = "none" /\ pc = "idle"
  BY DEF Seek, TypeInv, OperationInv
<1>2. CASE SeekFails /\ UNCHANGED <<from, delivered, regions>>
  <2>1. UNCHANGED cursor /\ op' = "none" /\ pc' = "idle"
    BY <1>1, <1>2 DEF SeekFails, Return
  <2>2. UNCHANGED <<next_chunk_file_pos, current_decoder>> /\ Cursor' = Cursor
    BY <2>1, CursorSame
  <2>3. Ahead(from, next_chunk_file_pos, op', pc', local', len')
    BY <1>1, TypeFacts, ExactParts, AheadKept
  <2> QED BY <1>1, <1>2, <2>1, <2>2, <2>3, ExactKept
<1>3. ASSUME NEW chunk_begin \in Addresses, NEW index \in Indices,
             StartSeek(chunk_begin, index), from' = next_chunk_file_pos', delivered' = {}
      PROVE  ExactInv'
  <2>1. chunk_begin \in Nat /\ index \in Nat BY ReaderAssumption
  <2>2. /\ current_decoder' = 0 /\ op' = "seek" /\ pc' = "header"
        /\ next_chunk_file_pos' \in Nat
    BY <1>3, <2>1, StartSeekFacts
  <2>3. Cursor' = from' BY <1>3, <2>2 DEF Cursor
  <2>4. Covers(from', Cursor', delivered', regions')
    BY <1>3, <2>2, <2>3, TypeFacts, CoversNone
  <2>5. Ahead(from', next_chunk_file_pos', op', pc', local', len')
    BY <1>3, <2>2, TypeFacts, AheadAt
  <2> QED BY <1>1, <1>3, <2>2, <2>4, <2>5, ExactStep
<1> QED BY <1>2, <1>3 DEF Seek

LEMMA ExactNumeric ==
    ASSUME TypeInv, OrderInv, ExactInv, SeekNumeric \/ MeasureOrigin \/ ResolveScanOrigin
    PROVE  ExactInv'
<1>1. /\ UNCHANGED <<file, len, cursor>>
      /\ pc \in {"measure", "origin"} => op = "seek_numeric"
  BY DEF SeekNumeric, MeasureOrigin, ResolveScanOrigin, TypeInv, OperationInv
<1>2. UNCHANGED <<next_chunk_file_pos, current_decoder>> /\ Cursor' = Cursor
  BY <1>1, CursorSame
<1>3. Cursor \in Nat /\ Cursor <= next_chunk_file_pos BY CursorFacts
<1>4. /\ FileType(file) /\ next_chunk_file_pos \in Nat
      /\ FirstDataChunk \in Nat
  BY TypeFacts, FirstDataChunkFacts
<1>5. CASE SeekNumeric
  <2>1. from' = Cursor /\ delivered' = {} /\ op' = "seek_numeric" /\ pc' = "measure"
    BY <1>5 DEF SeekNumeric
  <2>2. Covers(from', Cursor', delivered', regions')
    BY <1>2, <1>3, <1>4, <2>1, CoversNone
  <2> QED BY <1>1, <1>2, <1>3, <2>1, <2>2, ExactStep DEF Scanning
<1>6. CASE MeasureOrigin \/ ResolveScanOrigin
  <2>1. pc \in {"measure", "origin"} /\ UNCHANGED <<from, delivered, regions>>
    BY <1>6 DEF MeasureOrigin, ResolveScanOrigin
  <2>2. from = Cursor BY <2>1, ExactParts
  <2>3. Ahead(from, next_chunk_file_pos, op', pc', local', len')
    BY <1>3, <1>4, <2>2, AheadAt
  <2>4. CASE op' = "none" /\ pc' = "idle"
    BY <1>1, <1>2, <2>1, <2>3, <2>4, ExactKept
  <2>5. CASE op' = "seek_numeric" /\ pc' = "origin"
    BY <1>1, <1>2, <2>1, <2>5, ExactKept DEF Scanning
  <2>6. CASE /\ op' = "seek_numeric" /\ pc' = "peek" /\ local' \in LocalType
             /\ local'.target = local.target /\ FirstDataChunk <= local'.scan_pos
             /\ local'.scan_pos <= Larger(local.target, FirstDataChunk)
    <3>1. local'.scan_pos \in Nat /\ Larger(local.target, FirstDataChunk) \in Nat
      BY <1>4, <2>6, TypeFacts DEF LocalType, Larger
    <3>2. Covers(Larger(local'.target, FirstDataChunk), local'.scan_pos,
                 delivered', regions')
      BY <1>4, <2>6, <3>1, CoversNone
    <3>3. /\ Covers(from', Cursor', delivered', regions')
          /\ \A n \in delivered' : from' <= n
          /\ from' <= Cursor'
      BY <1>2, <1>3, <2>1, <2>2, ExactParts
    <3> QED BY <1>1, <2>6, <3>2, <3>3, ExactStep
  <2>7. CASE MeasureOrigin
    <3>1. \/ op' = "seek_numeric" /\ pc' = "origin"
          \/ op' = "none" /\ pc' = "idle"
      BY <1>1, <2>1, <2>7 DEF MeasureOrigin, Return, Goto
    <3> QED BY <2>4, <2>5, <3>1
  <2>8. CASE ResolveScanOrigin BY <2>4, <2>6, <2>8, OriginResolved
  <2> QED BY <1>6, <2>7, <2>8
<1> QED BY <1>5, <1>6

\* The chunk at which a numeric seek stops is the one of the record sought, or
\* the record sought does not lie in front of it.
LEMMA ExactScanStop ==
    ASSUME TypeInv, AdvanceInv, ChunksDisjoint, pc = "peek",
           NEW j \in DOMAIN Chunks, Chunk(j).begin = local.scan_pos,
           HeaderReadable(Chunk(j)), ScanStopsAt(Chunk(j)), FirstDataChunk <= local.scan_pos,
           NEW l, l.target = local.scan_pos,
           l.index = SaturatingSub(local.target, local.scan_pos)
    PROVE  Ahead(Sought, local.scan_pos, "seek", "header", l, len)
<1> DEFINE c == Chunk(j)
<1>1. /\ c \in ChunkType /\ c.begin \in Nat /\ c.num_records \in Nat
      /\ local.target \in Nat /\ FirstDataChunk \in Nat /\ FileType(file) /\ len \in Nat
  BY TypeFacts, ChunkFacts, FirstDataChunkFacts DEF LocalType
<1>2. CASE local.target <= local.scan_pos
  <2>1. Sought \in Int /\ Sought <= local.scan_pos BY <1>1, <1>2 DEF Sought, Larger
  <2> QED BY <1>1, <2>1, AheadAt
<1>3. CASE local.scan_pos < local.target
  <2>1. Sought = local.target BY <1>1, <1>3 DEF Sought, Larger
  <2>2. l.index = local.target - local.scan_pos BY <1>1, <1>3 DEF SaturatingSub
  <2>3. local.target < c.begin + c.num_records BY <1>1, <1>3 DEF ScanStopsAt
  <2>4. c.begin < len
    <3>1. DataBegin(c) \in Nat /\ c.begin < DataBegin(c) BY <1>1, DataFacts
    <3>2. DataBegin(c) <= len BY DEF HeaderReadable
    <3> QED BY <1>1, <3>1, <3>2
  <2>5. SUFFICES ASSUME NEW i \in DOMAIN Chunks, local.scan_pos <= Chunk(i).begin
                 PROVE  \/ Sought <= Chunk(i).begin
                        \/ /\ Chunk(i).begin = local.scan_pos
                           /\ Sought = Chunk(i).begin + l.index
                           /\ l.index <= Chunk(i).num_records
    BY <2>4 DEF Ahead, Loading
  <2>6. Chunk(i).begin \in Nat BY <1>1, ChunkFacts
  <2>7. CASE c.begin < Chunk(i).begin
    <3>1. c.begin + c.num_records <= Chunk(i).begin BY <2>7, DisjointFacts
    <3> QED BY <1>1, <2>1, <2>3, <2>6, <3>1
  <2>8. CASE Chunk(i).begin = c.begin
    <3>1. i = j BY <2>8, DisjointFacts
    <3>2. Sought = c.begin + l.index /\ l.index <= c.num_records
      BY <1>1, <2>1, <2>2, <2>3
    <3> QED BY <2>8, <3>1, <3>2
  <2> QED BY <1>1, <2>5, <2>6, <2>7, <2>8
<1> QED BY <1>1, <1>2, <1>3

LEMMA ExactPeekHeader ==
    ASSUME TypeInv, OrderInv, AdvanceInv, ChunksDisjoint, ExactInv, PeekHeader
    PROVE  ExactInv'
<1> DEFINE h == read_chunk_header_at(local.scan_pos)
           c == Chunk(h.chunk)
<1>1. /\ pc = "peek" /\ op = "seek_numeric"
      /\ UNCHANGED <<file, len, delivered, regions>>
      /\ \/ SeekFails /\ from' = Cursor
         \/ ScanAtEof
         \/ FailAt(local.scan_pos) /\ UNCHANGED <<cursor, from>>
         \/ h.kind = "chunk" /\ ScanChunk(c)
  BY PeekSteps
<1>2. /\ local \in LocalType /\ local.scan_pos \in Nat /\ local.target \in Nat
      /\ Sought \in Nat /\ local.target <= Sought /\ FileType(file) /\ len \in Nat
      /\ FirstDataChunk \in Nat /\ Settled(local.scan_pos)
      /\ Cursor \in Nat /\ Cursor <= next_chunk_file_pos /\ next_chunk_file_pos \in Nat
  BY <1>1, TypeFacts, CursorFacts, FirstDataChunkFacts
     DEF LocalType, Sought, Larger, AdvanceInv
<1>3. /\ FirstDataChunk <= local.scan_pos
      /\ Covers(Sought, local.scan_pos, delivered, regions)
      /\ Covers(from, Cursor, delivered, regions)
      /\ delivered = {}
      /\ current_decoder # 0 => from <= Cursor
  BY <1>1, ExactParts DEF OrderInv, Scanning
<1>4. h.kind = "chunk" =>
        /\ h.chunk \in DOMAIN Chunks /\ c.begin = canonical_chunk_address(local.scan_pos)
        /\ HeaderReadable(c) /\ ClaimsFit(c, len)
  BY <1>2, TypeFacts, HeaderOutcome
<1> HIDE DEF h
<1>5. CASE SeekFails /\ from' = Cursor
  <2>1. UNCHANGED cursor /\ op' = "none" /\ pc' = "idle"
    BY <1>1, <1>5 DEF SeekFails, Return
  <2>2. UNCHANGED <<next_chunk_file_pos, current_decoder>> /\ Cursor' = Cursor
    BY <2>1, CursorSame
  <2>3. Covers(from', Cursor', delivered', regions') BY <1>2, <1>5, <2>2, CoversNone
  <2>4. Ahead(from', next_chunk_file_pos', op', pc', local', len')
    BY <1>2, <1>5, <2>2, AheadAt
  <2> QED BY <1>1, <1>2, <1>3, <1>5, <2>1, <2>2, <2>3, <2>4, ExactStep
<1>6. CASE ScanAtEof
  <2>1. /\ op' = "none" /\ pc' = "idle" /\ current_decoder' = 0
        /\ next_chunk_file_pos' = local.scan_pos
        /\ from' = Smaller(Sought, local.scan_pos)
    BY <1>1, <1>6 DEF ScanAtEof, Return
  <2>2. Cursor' = local.scan_pos BY <2>1 DEF Cursor
  <2>3. from' \in Int /\ from' <= local.scan_pos
        /\ (from' = Sought \/ from' = local.scan_pos)
    BY <1>2, <2>1 DEF Smaller
  <2>4. Covers(from', Cursor', delivered', regions')
    BY <1>1, <1>2, <1>3, <2>2, <2>3, CoversNone
  <2>5. Ahead(from', next_chunk_file_pos', op', pc', local', len')
    BY <1>2, <2>1, <2>3, AheadAt
  <2> QED BY <1>1, <1>3, <2>1, <2>4, <2>5, ExactStep
<1>7. CASE FailAt(local.scan_pos) /\ UNCHANGED <<cursor, from>>
  <2>1. /\ op' = "seek_numeric" /\ pc' = "recover"
        /\ local'.target = local.target /\ local'.scan_pos = local.scan_pos
    BY <1>1, <1>2, <1>7 DEF FailAt, Goto, LocalType
  <2>2. UNCHANGED <<next_chunk_file_pos, current_decoder>> /\ Cursor' = Cursor
    BY <1>7, CursorSame
  <2>3. pc \in Scanning BY <1>1 DEF Scanning
  <2> QED BY <1>1, <1>7, <2>1, <2>2, <2>3, ExactKept
<1>8. CASE h.kind = "chunk" /\ ScanChunk(c)
  <2>1. h.chunk \in DOMAIN Chunks /\ c.begin = canonical_chunk_address(local.scan_pos)
        /\ HeaderReadable(c) /\ ClaimsFit(c, len)
    BY <1>4, <1>8
  <2>2. c.begin = local.scan_pos BY <1>2, <2>1, FoundAtSettled
  <2>3. CASE ScanStopsAt(c)
    <3> DEFINE index == SaturatingSub(local.target, local.scan_pos)
    <3>1. StartSeek(local.scan_pos, index) /\ from' = Sought
      BY <1>8, <2>3 DEF ScanChunk
    <3>2. index \in Nat BY <1>2 DEF SaturatingSub
    <3>3. /\ current_decoder' = 0 /\ op' = "seek" /\ pc' = "header"
          /\ next_chunk_file_pos' = local.scan_pos
          /\ local'.target = local.scan_pos /\ local'.index = index
      BY <1>2, <2>1, <2>2, <3>1, <3>2, StartSeekFacts
    <3>4. Ahead(Sought, local.scan_pos, "seek", "header", local', len)
      BY <1>1, <1>3, <2>1, <2>2, <2>3, <3>3, ExactScanStop
    <3>5. Cursor' = local.scan_pos BY <3>3 DEF Cursor
    <3>6. Covers(from', Cursor', delivered', regions') BY <1>1, <1>3, <3>1, <3>5
    <3>7. Ahead(from', next_chunk_file_pos', op', pc', local', len')
      BY <1>1, <3>1, <3>3, <3>4
    <3> QED BY <1>1, <1>3, <3>3, <3>6, <3>7, ExactStep
  <2>4. CASE ~ScanStopsAt(c)
    <3>1. /\ UNCHANGED <<cursor, from, op, pc>>
          /\ local' = [local EXCEPT !.scan_pos =
                         chunk_end(local.scan_pos, c.data_size, c.num_records)]
      BY <1>8, <2>4 DEF ScanChunk
    <3>2. chunk_end(local.scan_pos, c.data_size, c.num_records) = End(c)
      BY <1>2, <2>1, ScanEnd
    <3>3. local'.scan_pos = End(c) /\ local'.target = local.target
      BY <1>2, <3>1, <3>2 DEF LocalType
    <3>4. /\ End(c) \in Nat /\ c.begin < End(c) /\ c.num_records \in Nat
          /\ c.begin + c.num_records <= End(c)
      BY <1>2, <2>1, <2>2, ChunkFacts
    <3>5. c.begin + c.num_records <= Sought
      BY <1>2, <2>2, <2>4, <3>4 DEF ScanStopsAt
    <3>6. Covers(Sought, End(c), delivered, regions)
      <4>1. SUFFICES ASSUME NEW i \in DOMAIN Chunks,
                            NEW k \in 0 .. (Chunk(i).num_records - 1),
                            Sought <= Chunk(i).begin + k, Chunk(i).begin + k < End(c)
                     PROVE  FALSE
        BY DEF Covers
      <4>2. Chunk(i).begin + k \in Nat
            /\ Chunk(i).begin + k < Chunk(i).begin + Chunk(i).num_records
        BY <1>2, RecordNat
      <4>3. c.begin <= Chunk(i).begin + k
        BY <1>2, <2>2, <3>4, <3>5, <4>1, <4>2
      <4>4. i = h.chunk BY <2>1, <4>1, <4>3, RecordOwner
      <4> QED BY <1>2, <2>2, <3>4, <3>5, <4>1, <4>2, <4>4
    <3>7. Covers(Larger(local'.target, FirstDataChunk), local'.scan_pos,
                 delivered', regions')
      BY <1>1, <3>3, <3>6 DEF Sought
    <3>8. FirstDataChunk <= local'.scan_pos BY <1>2, <1>3, <2>2, <3>3, <3>4
    <3>9. UNCHANGED <<next_chunk_file_pos, current_decoder>> /\ Cursor' = Cursor
      BY <3>1, CursorSame
    <3> QED BY <1>1, <1>3, <3>1, <3>7, <3>8, <3>9, ExactStep
  <2> QED BY <2>3, <2>4
<1> QED BY <1>1, <1>5, <1>6, <1>7, <1>8

LEMMA ExactRecover ==
    ASSUME TypeInv, OrderInv, ExactInv, Recover \/ Resync PROVE ExactInv'
<1>1. /\ pc \in {"recover", "resync"} /\ UNCHANGED <<file, len, cursor, delivered, regions>>
      /\ op \in {"new", "read_record", "seek", "seek_numeric"}
      /\ \/ op' = "none" /\ pc' \in {"idle", "gone"} /\ from' = Smaller(from, Cursor)
         \/ /\ op' = op /\ pc' \in {"region", "resync"} /\ from' = from
            /\ local'.target = local.target /\ local'.index = local.index
            /\ local'.scan_pos = local.scan_pos
  BY RecoverSteps, ResyncSteps DEF Return
<1>2. UNCHANGED <<next_chunk_file_pos, current_decoder>> /\ Cursor' = Cursor
  BY <1>1, CursorSame
<1>3. /\ Cursor \in Nat /\ Cursor <= next_chunk_file_pos /\ from \in Nat
      /\ FileType(file) /\ next_chunk_file_pos \in Nat /\ delivered \subseteq Nat
      /\ len \in Nat
  BY TypeFacts, CursorFacts
<1>4. CASE op' = "none" /\ pc' \in {"idle", "gone"} /\ from' = Smaller(from, Cursor)
  <2>1. /\ from' \in Int /\ from' <= Cursor /\ from' <= from
        /\ from' = from \/ from' = Cursor
    BY <1>3, <1>4 DEF Smaller
  <2>2. Covers(from', Cursor', delivered', regions')
    BY <1>1, <1>2, <1>3, <2>1, ExactParts, CoversNone
  <2>3. \A n \in delivered' : from' <= n BY <1>1, <1>3, <2>1, ExactParts
  <2>4. from' <= next_chunk_file_pos BY <1>3, <2>1
  <2>5. Ahead(from', next_chunk_file_pos', op', pc', local', len')
    BY <1>2, <1>3, <2>1, <2>4, AheadAt
  <2> QED BY <1>1, <1>2, <1>4, <2>1, <2>2, <2>3, <2>5, ExactStep
<1>5. CASE /\ op' = op /\ pc' \in {"region", "resync"} /\ from' = from
           /\ local'.target = local.target /\ local'.index = local.index
           /\ local'.scan_pos = local.scan_pos
  <2>1. pc \in Scanning /\ pc \in Loading /\ pc' \in Loading
    BY <1>1, <1>5 DEF Scanning, Loading
  <2>2. op' # "seek_numeric" => Ahead(from, next_chunk_file_pos, op', pc', local', len')
    BY <1>1, <1>3, <1>5, <2>1, ExactParts, AheadKept
  <2> QED BY <1>1, <1>2, <1>5, <2>1, <2>2, ExactKept
<1> QED BY <1>1, <1>4, <1>5

LEMMA ExactReportRegion ==
    ASSUME TypeInv, OrderInv, AdvanceInv, ChunksDisjoint, ExactInv, ReportRegion
    PROVE  ExactInv'
<1>1. /\ pc = "region" /\ op \in {"new", "read_record", "seek", "seek_numeric"}
      /\ UNCHANGED <<file, len, delivered>> /\ regions' = regions \cup {Region}
      /\ current_decoder' = 0 /\ next_chunk_file_pos' = RegionEnd
      /\ op # "seek_numeric" =>
           from' = from /\ op' \in {"none", "read_record"} /\ pc' \in {"gone", "idle", "header"}
      /\ op = "seek_numeric" =>
           \/ op' = "none" /\ pc' \in {"gone", "idle"} /\ from' = local.begin
           \/ /\ op' = op /\ pc' = "peek" /\ from' = Sought
              /\ local'.target = local.target /\ local'.scan_pos = RegionEnd
  BY ReportSteps
<1>2. /\ RegionEnd \in Nat /\ local.begin < RegionEnd /\ local.at < RegionEnd
      /\ Region.begin = local.begin /\ Region.end = RegionEnd
      /\ Region \in regions' /\ regions \subseteq regions'
  BY <1>1, RegionEndFacts
<1>3. /\ local.begin \in Nat /\ local.at \in Nat /\ local.scan_pos \in Nat
      /\ local.begin <= local.at /\ from \in Nat /\ next_chunk_file_pos \in Nat
      /\ FileType(file) /\ Sought \in Nat /\ FirstDataChunk \in Nat
  BY <1>1, TypeFacts, FirstDataChunkFacts DEF LocalType, OrderInv, Sought, Larger
<1>4. Cursor' = RegionEnd BY <1>1 DEF Cursor
<1>5. CASE op # "seek_numeric"
  <2>1. current_decoder = 0 BY <1>1, <1>5 DEF TypeInv
  <2>2. Cursor = next_chunk_file_pos BY <2>1 DEF Cursor
  <2>3. local.at <= next_chunk_file_pos /\ (op # "new" => local.at = next_chunk_file_pos)
    BY <1>1, <1>3, <1>5 DEF AdvanceInv
  <2>4. Covers(from, next_chunk_file_pos, delivered, regions')
    BY <1>2, <1>3, <2>2, ExactParts, CoversMono
  <2>5. Covers(next_chunk_file_pos, RegionEnd, delivered, regions')
    <3>1. local.begin <= next_chunk_file_pos BY <1>3, <2>3
    <3> QED BY <1>2, <1>3, <3>1, CoversRegion
  <2>6. Covers(from', Cursor', delivered', regions')
    BY <1>1, <1>2, <1>3, <1>4, <1>5, <2>4, <2>5, CoversJoin
  <2>7. Ahead(from', next_chunk_file_pos', op', pc', local', len')
    <3>1. CASE op = "new"
      <4>1. from' = 0 BY <1>1, <1>5, <3>1, ExactParts
      <4> QED BY <1>1, <1>2, <1>3, <4>1, AheadAt
    <3>2. CASE op # "new"
      <4>1. next_chunk_file_pos < RegionEnd BY <1>2, <2>3, <3>2
      <4>2. Ahead(from, next_chunk_file_pos, op, pc, local, len) BY <1>5, ExactParts
      <4> QED BY <1>1, <1>2, <1>3, <1>5, <4>1, <4>2, AheadFar
    <3> QED BY <3>1, <3>2
  <2> QED BY <1>1, <1>5, <2>6, <2>7, ExactParts, ExactStep
<1>6. CASE op = "seek_numeric" /\ op' = "none" /\ from' = local.begin
  <2>1. delivered' = {} BY <1>1, <1>6 DEF OrderInv
  <2>2. Covers(from', Cursor', delivered', regions')
    BY <1>2, <1>3, <1>4, <1>6, CoversRegion
  <2>3. Ahead(from', next_chunk_file_pos', op', pc', local', len')
    BY <1>1, <1>2, <1>3, <1>6, AheadAt
  <2> QED BY <1>1, <1>6, <2>1, <2>2, <2>3, ExactStep
<1>7. CASE /\ op = "seek_numeric" /\ op' = op /\ pc' = "peek" /\ from' = Sought
           /\ local'.target = local.target /\ local'.scan_pos = RegionEnd
  <2>1. delivered' = {} /\ delivered = {} BY <1>1, <1>7 DEF OrderInv
  <2>2. local.at = local.scan_pos BY <1>1, <1>7 DEF AdvanceInv
  <2>3. /\ FirstDataChunk <= local.scan_pos
        /\ Covers(Sought, local.scan_pos, delivered, regions)
    BY <1>1, <1>7, ExactParts DEF Scanning
  <2>4. Covers(Sought, local.scan_pos, delivered, regions')
    BY <1>2, <1>3, <2>3, CoversMono
  <2>5. Covers(local.scan_pos, RegionEnd, delivered, regions')
    BY <1>2, <1>3, <2>2, CoversRegion
  <2>6. Covers(Sought, RegionEnd, delivered, regions')
    BY <1>2, <1>3, <2>4, <2>5, CoversJoin
  <2>7. FirstDataChunk <= RegionEnd BY <1>2, <1>3, <2>2, <2>3
  <2>8. Sought = Larger(local'.target, FirstDataChunk) BY <1>7 DEF Sought
  <2> QED BY <1>1, <1>4, <1>7, <2>1, <2>6, <2>7, <2>8, ExactStep
<1> QED BY <1>1, <1>5, <1>6, <1>7

LEMMA ExactNext ==
    TypeInv /\ OrderInv /\ FoundInv /\ AdvanceInv /\ ChunksDisjoint /\ ExactInv /\ [Next]_vars
      => ExactInv'
<1> SUFFICES ASSUME TypeInv, OrderInv, FoundInv, AdvanceInv, ChunksDisjoint, ExactInv,
                    [Next]_vars
             PROVE  ExactInv'
  OBVIOUS
<1>1. CASE Grow \/ UNCHANGED vars
  <2>1. /\ UNCHANGED <<file, cursor, op, pc, local, from, delivered, regions>>
        /\ len' = len \/ (len' \in lengths /\ len < len')
    BY <1>1 DEF Grow, vars, control, history
  <2>2. UNCHANGED <<next_chunk_file_pos, current_decoder>> /\ Cursor' = Cursor
    BY <2>1, CursorSame
  <2>3. len \in Nat /\ len' \in Nat /\ len <= len' /\ next_chunk_file_pos \in Nat
    BY <2>1, TypeFacts, FileFacts
  <2>4. op' # "seek_numeric" => Ahead(from, next_chunk_file_pos, op', pc', local', len')
    BY <2>1, <2>3, ExactParts, AheadKept
  <2> QED BY <2>1, <2>2, <2>4, ExactKept
<1> QED
  BY <1>1, ExactOpen, ExactReadRecord, ExactTakeRecord, ExactLoadHeader, ExactLoadData,
     ExactSeek, ExactNumeric, ExactPeekHeader, ExactRecover, ExactReportRegion
     DEF Next, Step

(***************************************************************************)
(* Nothing is lost silently and nothing is returned twice: of the records  *)
(* between the position sought (or the beginning) and the cursor, exactly  *)
(* those have been returned whose chunk no reported region touches.  For   *)
(* every file that a writer has laid out, whatever has been damaged since, *)
(* growing or not, through seeks and reads that fail, with any callback.   *)
(***************************************************************************)
THEOREM ReaderReadsExactly ==
    Spec /\ ChunksDisjoint /\ BlocksTruthful => []ReadsExactly
<1> DEFINE Inv == /\ TypeInv /\ OrderInv /\ FoundInv /\ AdvanceInv
                  /\ ChunksDisjoint /\ BlocksTruthful /\ ExactInv
<1>1. Init /\ ChunksDisjoint /\ BlocksTruthful => Inv
  BY TypeInit, OrderInit, FoundInit, AdvanceInit, ExactInit
<1>2. Inv /\ [Next]_vars => Inv'
  BY TypeNext, OrderNext, FoundNext, AdvanceNext, ExactNext, FileConstant, FileSame
<1>3. Inv => ReadsExactly
  <2>1. SUFFICES ASSUME TypeInv, OrderInv, ExactInv, pc = "idle" PROVE ReadsExactly
    BY DEF ReadsExactly
  <2>2. Accounted(from, Cursor) BY <2>1 DEF ExactInv
  <2>3. ASSUME NEW n \in delivered PROVE from <= n /\ n < Cursor
    <3>1. from <= n BY <2>1 DEF ExactInv
    <3>2. CASE current_decoder # 0 BY <2>1, <3>1, <3>2 DEF OrderInv, Cursor
    <3>3. CASE current_decoder = 0
      <4>1. n < canonical_chunk_address(next_chunk_file_pos)
        BY <2>1, <3>3 DEF OrderInv
      <4>2. /\ n \in Nat /\ next_chunk_file_pos \in Nat
            /\ canonical_chunk_address(next_chunk_file_pos) \in Nat
            /\ canonical_chunk_address(next_chunk_file_pos) <= next_chunk_file_pos
        BY <2>1, TypeFacts, CanonicalFacts
      <4> QED BY <3>1, <3>3, <4>1, <4>2 DEF Cursor
    <3> QED BY <3>1, <3>2, <3>3
  <2> QED BY <2>2, <2>3 DEF ReadsExactly, Accounted
<1> HIDE DEF Inv
<1> QED BY <1>1, <1>2, <1>3, PTL DEF Spec

---------------------------------------------------------------------------
(* Regions cover damage. *)

\* No chunk begins or ends in a block header or right behind it.
LEMMA AliasInside ==
    ASSUME NEW b \in Nat, is_block_boundary(b), NEW e \in Nat,
           is_possible_chunk_boundary(e), b < e
    PROVE  b + BlockHeaderSize < e
<1>1. SUFFICES ASSUME e <= b + BlockHeaderSize PROVE FALSE BY BlockSizeNat
<1> DEFINE x == e - b
<1>2. x \in Nat /\ x > 0 /\ x <= BlockHeaderSize /\ e = b + x BY <1>1, BlockSizeNat
<1> HIDE DEF x
<1>3. b % BlockSize = 0 BY DEF is_block_boundary
<1>4. (b % BlockSize) + x < BlockSize BY <1>2, <1>3, BlockSizeNat
<1>5. BlockSize \in Nat \ {0} BY BlockSizeNat
<1>6. (b + x) % BlockSize = (b % BlockSize) + x BY ONLY <1>2, <1>4, <1>5, b \in Nat, StepInBlock
<1>7. e % BlockSize = x BY <1>2, <1>3, <1>6
<1> QED BY <1>2, <1>7, BlockSizeNat, PossibleBoundary

\* Usable bytes are no further apart than their positions.
LEMMA DataOffsetContracts ==
    ASSUME NEW p \in Nat, NEW q \in Nat, p <= q
    PROVE  DataOffset(q) - DataOffset(p) <= q - p
<1> DEFINE a == p \div BlockSize
           b == q \div BlockSize
           r == p % BlockSize
           s == q % BlockSize
           U == USABLE_BLOCK_SIZE
<1>1. /\ a \in Nat /\ b \in Nat /\ r \in 0 .. (BlockSize - 1) /\ s \in 0 .. (BlockSize - 1)
      /\ p = BlockSize * a + r /\ q = BlockSize * b + s
  BY OffsetType
<1>2. DataOffset(p) = a * U + SaturatingSub(r, BlockHeaderSize)
      /\ DataOffset(q) = b * U + SaturatingSub(s, BlockHeaderSize)
  BY DEF DataOffset
<1> HIDE DEF a, b, r, s
<1>3. U \in Nat \ {0} /\ U = BlockSize - BlockHeaderSize BY BlockSizeNat
<1> HIDE DEF U
<1>4. a <= b
  <2>1. SUFFICES ASSUME b + 1 <= a PROVE FALSE BY <1>1
  <2>2. BlockSize * (b + 1) <= BlockSize * a BY <1>1, <2>1, BlockSizeNat
  <2>3. BlockSize * (b + 1) = BlockSize * b + BlockSize BY <1>1, BlockSizeNat, Distribute
  <2>4. BlockSize * a \in Nat /\ BlockSize * b \in Nat BY <1>1, BlockSizeNat, Distribute
  <2> QED BY <1>1, <2>2, <2>3, <2>4, BlockSizeNat
<1> DEFINE k == b - a
<1>5. k \in Nat BY <1>1, <1>4
<1>6. BlockSize * b = BlockSize * a + BlockSize * k BY <1>1, <1>5, BlockSizeNat
<1>7. b * U = a * U + U * k BY <1>1, <1>3, <1>5
<1>8. BlockSize * k = U * k + BlockHeaderSize * k BY <1>3, <1>5, BlockSizeNat
<1>9. /\ BlockSize * a \in Nat /\ BlockSize * k \in Nat /\ U * k \in Nat /\ a * U \in Nat
      /\ BlockHeaderSize * k \in Nat
  BY <1>1, <1>3, <1>5, BlockSizeNat
<1>10. k = 0 \/ BlockHeaderSize * k >= BlockHeaderSize BY <1>5, BlockSizeNat
<1>11. k = 0 => BlockSize * k = 0 /\ U * k = 0 /\ BlockHeaderSize * k = 0
  BY <1>3, BlockSizeNat
<1> HIDE DEF k
<1> QED
  BY <1>1, <1>2, <1>5, <1>6, <1>7, <1>8, <1>9, <1>10, <1>11, BlockSizeNat DEF SaturatingSub

\* Where the parts of a chunk lie.
LEMMA FileExtent ==
    ASSUME FileType(file), ChunksDisjoint, NEW i \in DOMAIN Chunks
    PROVE  LET c == Chunk(i)
           IN  /\ c \in ChunkType /\ c.begin \in Nat /\ c.data_size \in Nat
               /\ c.num_records \in Nat
               /\ is_possible_chunk_boundary(c.begin)
               /\ canonical_chunk_address(c.begin) = c.begin
               /\ DataBegin(c) \in Nat /\ c.begin < DataBegin(c)
               /\ DataEnd(c) \in Nat /\ DataBegin(c) + c.data_size <= DataEnd(c)
               /\ End(c) \in Nat /\ DataEnd(c) <= End(c)
               /\ c.begin + c.num_records <= End(c)
               /\ is_possible_chunk_boundary(End(c))
               /\ canonical_chunk_address(End(c)) = End(c)
<1> DEFINE c == Chunk(i)
           b == c.begin
           d == c.data_size
           n == c.num_records
<1>1. c \in ChunkType /\ b \in Nat /\ d \in Nat /\ n \in Nat
      /\ End(c) = chunk_end(b, d, n) /\ End(c) \in Nat
      /\ canonical_chunk_address(End(c)) = End(c)
  BY ChunkFacts
<1>2. is_possible_chunk_boundary(b) BY DisjointFacts
<1>3. DataBegin(c) = add_with_overhead(b, ChunkHeaderSize)
      /\ DataEnd(c) = add_with_overhead(b, ChunkHeaderSize + d)
  BY DEF DataBegin, DataEnd
<1> HIDE DEF b, d, n
<1>4. canonical_chunk_address(b) = b BY <1>1, <1>2, PossibleNoAlias, CanonicalFacts
<1>5. /\ chunk_end(b, d, n) >= add_with_overhead(b, ChunkHeaderSize + d)
      /\ chunk_end(b, d, n) >= b + n /\ is_possible_chunk_boundary(chunk_end(b, d, n))
  BY <1>1, <1>2, ChunkEndFacts
<1> DEFINE x == add_with_overhead(b, ChunkHeaderSize)
           y == add_with_overhead(b, ChunkHeaderSize + d)
<1>6. ChunkHeaderSize \in Nat \ {0} /\ ChunkHeaderSize + d \in Nat \ {0}
  BY <1>1, LayoutAssumption
<1>7. /\ x \in Nat /\ x > b /\ is_possible_chunk_boundary(x)
      /\ DataOffset(x) = DataOffset(b) + ChunkHeaderSize
      /\ y \in Nat /\ y > b
      /\ DataOffset(y) = DataOffset(b) + (ChunkHeaderSize + d)
      /\ DataOffset(b) \in Nat
  BY <1>1, <1>6, AddWithOverheadFacts, DataOffsetType
<1> HIDE DEF x, y
<1>8. x <= y
  <2>1. SUFFICES ASSUME y < x PROVE FALSE BY <1>7
  <2>2. DataOffset(y) < DataOffset(x) BY <1>7, <2>1, DataOffsetStrict
  <2> QED BY <1>1, <1>6, <1>7, <2>2
<1>9. x + d <= y
  <2>1. DataOffset(y) - DataOffset(x) <= y - x BY <1>7, <1>8, DataOffsetContracts
  <2>2. DataOffset(y) - DataOffset(x) = d BY <1>1, <1>6, <1>7
  <2> QED BY <1>1, <1>7, <2>1, <2>2
<1> QED BY <1>1, <1>2, <1>3, <1>4, <1>5, <1>7, <1>9 DEF b, d, n, x, y

LEMMA ChunkExtent ==
    ASSUME TypeInv, ChunksDisjoint, NEW i \in DOMAIN Chunks
    PROVE  LET c == Chunk(i)
           IN  /\ c \in ChunkType /\ c.begin \in Nat /\ c.data_size \in Nat
               /\ c.num_records \in Nat
               /\ is_possible_chunk_boundary(c.begin)
               /\ canonical_chunk_address(c.begin) = c.begin
               /\ DataBegin(c) \in Nat /\ c.begin < DataBegin(c)
               /\ DataEnd(c) \in Nat /\ DataBegin(c) + c.data_size <= DataEnd(c)
               /\ End(c) \in Nat /\ DataEnd(c) <= End(c)
               /\ c.begin + c.num_records <= End(c)
               /\ is_possible_chunk_boundary(End(c))
               /\ canonical_chunk_address(End(c)) = End(c)
BY FileExtent, TypeFacts

\* A chunk whose claims do not fit is cut off.
LEMMA UnfitBad ==
    ASSUME TypeInv, ChunksDisjoint, NEW i \in DOMAIN Chunks, ~ClaimsFit(Chunk(i), len)
    PROVE  End(Chunk(i)) > len
<1> DEFINE c == Chunk(i)
<1>1. /\ c.begin \in Nat /\ c.data_size \in Nat /\ c.num_records \in Nat
      /\ DataBegin(c) \in Nat /\ c.begin < DataBegin(c)
      /\ DataEnd(c) \in Nat /\ DataBegin(c) + c.data_size <= DataEnd(c)
      /\ End(c) \in Nat /\ DataEnd(c) <= End(c)
      /\ c.begin + c.num_records <= End(c)
  BY ChunkExtent
<1>2. len \in Nat BY TypeFacts
<1>3. ~(c.data_size <= SaturatingSub(len, DataBegin(c)))
      \/ ~(c.num_records <= SaturatingSub(len, c.begin))
  BY DEF ClaimsFit
<1> HIDE DEF c
<1> QED BY <1>1, <1>2, <1>3 DEF SaturatingSub, c

\* In the extent of a chunk that fits, block headers lead to it.
LEMMA FileLeads ==
    ASSUME FileType(file), len \in lengths, ChunksDisjoint, FileTiled, NEW i \in DOMAIN Chunks,
           ClaimsFit(Chunk(i), len), NEW b \in Nat,
           Chunk(i).begin <= b, b < End(Chunk(i)), ValidBlock(b)
    PROVE  LeadsBackTo(b, Chunk(i).begin) /\ LeadsOnTo(b, End(Chunk(i)))
<1>1. b \in DOMAIN blocks /\ blocks[b].ok BY DEF ValidBlock
<1>2. blocks[b] \in BlockType BY <1>1, FileFacts
<1>3. Leads(file, b) BY <1>1 DEF FileTiled, Tiled, blocks
<1>4. PICK j \in DOMAIN Chunks :
        /\ Chunk(j).begin + blocks[b].previous_chunk = b
        /\ \A k \in DOMAIN Chunks : Chunk(k).begin <= b => Chunk(k).begin <= Chunk(j).begin
        /\ Plausible(file, Chunk(j)) => b + blocks[b].next_chunk = End(Chunk(j))
  BY <1>3 DEF Leads, blocks, Chunks, Chunk
<1>5. /\ Chunk(i).begin \in Nat /\ Chunk(j).begin \in Nat
      /\ End(Chunk(i)) \in Nat
      /\ blocks[b].previous_chunk \in Nat
  BY <1>2, ChunkFacts DEF BlockType
<1>6. Chunk(i).begin <= Chunk(j).begin /\ Chunk(j).begin <= b BY <1>4, <1>5
<1>7. Plausible(file, Chunk(i)) BY DEF Plausible, lengths
<1>8. i = j
  <2>1. SUFFICES ASSUME Chunk(i).begin < Chunk(j).begin PROVE FALSE
    BY <1>5, <1>6, DisjointFacts
  <2>2. End(Chunk(i)) <= Chunk(j).begin BY <1>7, <2>1, DisjointFacts
  <2> QED BY <1>5, <1>6, <2>2
<1> QED BY <1>4, <1>5, <1>7, <1>8 DEF LeadsBackTo, LeadsOnTo

LEMMA ExtentLeads ==
    ASSUME TypeInv, ChunksDisjoint, FileTiled, NEW i \in DOMAIN Chunks,
           ClaimsFit(Chunk(i), len), NEW b \in Nat,
           Chunk(i).begin <= b, b < End(Chunk(i)), ValidBlock(b)
    PROVE  LeadsBackTo(b, Chunk(i).begin) /\ LeadsOnTo(b, End(Chunk(i)))
BY FileLeads, TypeFacts

\* What the positions of CoverInv are.
LEMMA EndStands ==
    ASSUME TypeInv, ChunksDisjoint, FileTiled, lengths = {len}, NEW i \in DOMAIN Chunks
    PROVE  Stands(End(Chunk(i)))
<1>1. End(Chunk(i)) \in Nat /\ canonical_chunk_address(End(Chunk(i))) = End(Chunk(i))
      /\ len \in Nat
  BY TypeFacts, ChunkExtent
<1>2. CASE ~ClaimsFit(Chunk(i), len) BY <1>1, <1>2, UnfitBad DEF Stands
<1>3. CASE ClaimsFit(Chunk(i), len)
  <2>1. Plausible(file, Chunk(i)) BY <1>3, TypeFacts DEF Plausible, lengths
  <2>2. ChunkOrEnd(file, End(Chunk(i)))
    BY <2>1 DEF FileTiled, Tiled, Chunks, Chunk
  <2>3. CASE \E j \in DOMAIN Chunks : Chunk(j).begin = End(Chunk(i))
    BY <1>1, <2>3 DEF Stands, ChunkAt
  <2>4. CASE \A n \in lengths : n <= End(Chunk(i)) BY <2>4, TypeFacts DEF Stands
  <2> QED BY <2>2, <2>3, <2>4 DEF ChunkOrEnd, Chunks, Chunk, lengths
<1> QED BY <1>2, <1>3

LEMMA BeginStands ==
    ASSUME TypeInv, ChunksDisjoint, NEW i \in DOMAIN Chunks
    PROVE  Stands(Chunk(i).begin)
<1>1. canonical_chunk_address(Chunk(i).begin) = Chunk(i).begin BY ChunkExtent
<1> QED BY <1>1 DEF Stands, ChunkAt

\* Every position of the file lies in a chunk.
LEMMA Covered ==
    ASSUME TypeInv, FileTiled, NEW p \in Nat, p < len
    PROVE  \E i \in DOMAIN Chunks : Chunk(i).begin <= p /\ p < End(Chunk(i))
<1>1. len \in file.lengths /\ len \in Nat BY TypeFacts DEF lengths
<1>2. p \in 0 .. (len - 1) BY <1>1
<1> QED BY <1>1, <1>2 DEF FileTiled, Tiled, Chunks, Chunk

\* A chunk that covers a boundary and ends behind the file is cut off.
LEMMA BoundaryCut ==
    ASSUME TypeInv, ChunksDisjoint, FileTiled, NEW b \in Nat, is_block_boundary(b),
           b < len, len <= b + BlockHeaderSize
    PROVE  InBad(b) /\ InBad(b + BlockHeaderSize)
<1>1. PICK i \in DOMAIN Chunks : Chunk(i).begin <= b /\ b < End(Chunk(i)) BY Covered
<1>2. Chunk(i).begin \in Nat /\ End(Chunk(i)) \in Nat
      /\ is_possible_chunk_boundary(End(Chunk(i)))
  BY ChunkExtent
<1>3. b + BlockHeaderSize < End(Chunk(i)) BY <1>1, <1>2, AliasInside
<1>4. Bad(i) BY <1>2, <1>3, TypeFacts, BlockSizeNat DEF Bad
<1> QED BY <1>1, <1>2, <1>3, <1>4, BlockSizeNat DEF InBad

LEMMA BoundaryStands ==
    ASSUME TypeInv, ChunksDisjoint, FileTiled, NEW b \in Nat, is_block_boundary(b),
           b + BlockHeaderSize > len
    PROVE  Stands(b)
<1>1. len \in Nat BY TypeFacts
<1>2. CASE len <= b BY <1>2 DEF Stands
<1>3. CASE b < len BY <1>1, <1>3, BoundaryCut, BlockSizeNat DEF Stands
<1> QED BY <1>1, <1>2, <1>3

\* The position behind one in a bad chunk.
LEMMA BehindBad ==
    ASSUME TypeInv, ChunksDisjoint, FileTiled, lengths = {len}, NEW p \in Nat, InBad(p)
    PROVE  Stands(p + 1)
<1>1. PICK i \in DOMAIN Chunks : Bad(i) /\ Chunk(i).begin <= p /\ p < End(Chunk(i))
  BY DEF InBad
<1>2. Chunk(i).begin \in Nat /\ End(Chunk(i)) \in Nat BY ChunkExtent
<1>3. CASE p + 1 < End(Chunk(i))
  <2>1. InBad(p + 1) BY <1>1, <1>2, <1>3 DEF InBad
  <2> QED BY <2>1 DEF Stands
<1>4. CASE p + 1 = End(Chunk(i)) BY <1>4, EndStands
<1> QED BY <1>1, <1>2, <1>3, <1>4

\* The chunk at the canonical address of a position also covers the position.
LEMMA CoversAlias ==
    ASSUME TypeInv, ChunksDisjoint, NEW p \in Nat, NEW i \in DOMAIN Chunks,
           Chunk(i).begin = canonical_chunk_address(p)
    PROVE  Chunk(i).begin <= p /\ p < End(Chunk(i))
<1>1. /\ Chunk(i).begin \in Nat /\ End(Chunk(i)) \in Nat /\ Chunk(i).begin < End(Chunk(i))
      /\ is_possible_chunk_boundary(End(Chunk(i)))
  <2> DEFINE c == Chunk(i)
  <2>1. /\ c.begin \in Nat /\ End(c) \in Nat /\ is_possible_chunk_boundary(End(c))
        /\ c.begin < DataBegin(c) /\ DataBegin(c) + c.data_size <= DataEnd(c)
        /\ DataBegin(c) \in Nat /\ DataEnd(c) \in Nat
        /\ DataEnd(c) <= End(c) /\ c.data_size \in Nat
    BY ChunkExtent
  <2> HIDE DEF c
  <2>2. c.begin < End(c) BY <2>1
  <2> QED BY <2>1, <2>2 DEF c
<1>2. CASE p % BlockSize # BlockHeaderSize BY <1>1, <1>2, CanonicalFacts
<1>3. CASE p % BlockSize = BlockHeaderSize
  <2>1. /\ Chunk(i).begin = p - BlockHeaderSize /\ is_block_boundary(Chunk(i).begin)
    BY <1>3, CanonicalFacts
  <2>2. Chunk(i).begin + BlockHeaderSize < End(Chunk(i)) BY <1>1, <2>1, AliasInside
  <2> QED BY <1>1, <2>1, <2>2, BlockSizeNat
<1> QED BY <1>2, <1>3

\* The header of a chunk that is not bad can be read.
LEMMA GoodHeader ==
    ASSUME TypeInv, ChunksDisjoint, FileTiled, NEW i \in DOMAIN Chunks, ~Bad(i)
    PROVE  /\ HeaderReadable(Chunk(i)) /\ ClaimsFit(Chunk(i), len)
           /\ InteriorAgrees(Chunk(i)) /\ DataReadable(Chunk(i))
<1> DEFINE c == Chunk(i)
<1>1. /\ c.begin \in Nat /\ c.data_size \in Nat /\ DataBegin(c) \in Nat
      /\ c.begin < DataBegin(c)
      /\ DataEnd(c) \in Nat /\ DataBegin(c) + c.data_size <= DataEnd(c)
      /\ End(c) \in Nat /\ DataEnd(c) <= End(c)
  BY ChunkExtent
<1>2. len \in Nat /\ End(c) <= len /\ ~Damaged(c) BY <1>1, TypeFacts DEF Bad
<1>3. ClaimsFit(c, len) BY <1>1, <1>2, UnfitBad
<1>4. ASSUME NEW b \in BoundariesIn(c.begin, DataEnd(c))
      PROVE  ValidBlock(b) /\ LeadsBackTo(b, c.begin) /\ LeadsOnTo(b, End(c))
  <2>1. b \in Nat /\ c.begin <= b /\ b < End(c) BY <1>1 DEF BoundariesIn
  <2>2. ValidBlock(b) BY <1>2 DEF Damaged
  <2> QED BY <1>3, <2>1, <2>2, ExtentLeads
<1>5. BoundariesIn(c.begin, DataBegin(c)) \subseteq BoundariesIn(c.begin, DataEnd(c))
  BY <1>1 DEF BoundariesIn
<1>6. BoundariesIn(c.begin + 1, DataBegin(c)) \subseteq BoundariesIn(c.begin, DataEnd(c))
  BY <1>1 DEF BoundariesIn
<1>7. BoundariesIn(DataBegin(c), DataEnd(c)) \subseteq BoundariesIn(c.begin, DataEnd(c))
  BY <1>1 DEF BoundariesIn
<1>8. HeaderReadable(c)
  <2>1. c.header_ok BY <1>2 DEF Damaged
  <2>2. DataBegin(c) <= len BY <1>1, <1>2
  <2> QED BY <1>4, <1>5, <2>1, <2>2 DEF HeaderReadable
<1>9. InteriorAgrees(c) BY <1>4, <1>6 DEF InteriorAgrees
<1>10. DataReadable(c) BY <1>1, <1>2, <1>4, <1>7 DEF DataReadable
<1> QED BY <1>3, <1>8, <1>9, <1>10

\* Where the reader stands, a header that cannot be read means damage.
LEMMA FailsInBad ==
    ASSUME TypeInv, ChunksDisjoint, FileTiled, NEW p \in Nat, Stands(p), stream_len = len,
           read_chunk_header_at(p).kind = "error"
    PROVE  InBad(p)
<1> DEFINE a == canonical_chunk_address(p)
<1>1. a \in Nat /\ a <= p /\ len \in Nat BY TypeFacts, CanonicalFacts
<1>2. a < len
  <2>1. SUFFICES ASSUME a >= len PROVE FALSE BY <1>1
  <2>2. read_chunk_header_at(p) = [kind |-> "eof", chunk |-> 0, stream_len |-> stream_len]
    BY <2>1 DEF read_chunk_header_at
  <2> QED BY <2>2
<1>3. CASE len <= p
  <2>1. p % BlockSize = BlockHeaderSize BY <1>1, <1>2, <1>3, CanonicalFacts
  <2>2. a = p - BlockHeaderSize /\ is_block_boundary(a) BY <2>1, CanonicalFacts
  <2>3. a + BlockHeaderSize = p BY <1>1, <2>2, BlockSizeNat
  <2> HIDE DEF a
  <2>4. InBad(a + BlockHeaderSize) BY <1>1, <1>2, <1>3, <2>2, <2>3, BoundaryCut
  <2> QED BY <2>3, <2>4
<1>4. ASSUME NEW i \in ChunkAt(a) PROVE InBad(p)
  <2>1. i \in DOMAIN Chunks /\ Chunk(i).begin = a BY DEF ChunkAt
  <2>2. Bad(i)
    <3>1. SUFFICES ASSUME ~Bad(i) PROVE FALSE OBVIOUS
    <3>2. HeaderReadable(Chunk(i)) /\ ClaimsFit(Chunk(i), len) /\ InteriorAgrees(Chunk(i))
      BY <2>1, <3>1, GoodHeader
    <3>3. \A j \in ChunkAt(a) : j = i BY <2>1, DisjointFacts DEF ChunkAt
    <3>4. (CHOOSE j \in ChunkAt(a) : HeaderReadable(Chunk(j))) = i
      BY <1>4, <3>2, <3>3
    <3>5. read_chunk_header_at(p) = [kind |-> "chunk", chunk |-> i, stream_len |-> len]
      BY <1>1, <1>2, <1>4, <3>2, <3>4 DEF read_chunk_header_at
    <3> QED BY <3>5
  <2>3. Chunk(i).begin <= p /\ p < End(Chunk(i)) BY <2>1, CoversAlias
  <2> QED BY <2>1, <2>2, <2>3 DEF InBad
<1> QED BY <1>3, <1>4 DEF Stands

LEMMA HeaderLength ==
    ASSUME NEW p, stream_len = len PROVE read_chunk_header_at(p).stream_len = len
BY DEF read_chunk_header_at

\* A preamble that is refused is damaged or cut off.
LEMMA PreambleFails ==
    ASSUME TypeInv, ChunksDisjoint, FileTiled, ~validate_file_preamble
    PROVE  InBad(0)
<1> DEFINE c == Chunk(1)
<1>1. 1 \in DOMAIN Chunks /\ c.begin = 0 /\ c.type = "signature" /\ len \in Nat
  BY TypeFacts, FileFacts
<1>2. /\ c.data_size \in Nat /\ DataBegin(c) \in Nat /\ 0 < DataBegin(c)
      /\ DataEnd(c) \in Nat /\ DataBegin(c) + c.data_size <= DataEnd(c)
      /\ End(c) \in Nat /\ DataEnd(c) <= End(c)
  BY <1>1, ChunkExtent
<1>3. ASSUME ~Bad(1) PROVE FALSE
  <2>1. End(c) <= len /\ ~Damaged(c) BY <1>1, <1>2, <1>3 DEF Bad
  <2>2. DataBegin(c) = FirstDataChunk BY <1>1, FirstAfterSignature DEF DataBegin
  <2>3. FirstDataChunk <= len BY <1>1, <1>2, <2>1, <2>2
  <2>4. ValidBlock(0)
    <3>1. is_block_boundary(0)
      <4>1. BlockSize * 0 = 0 BY BlockSizeNat
      <4> QED BY <4>1, SameAfterBlocks
    <3>2. 0 < DataEnd(c) BY <1>2
    <3>3. 0 \in BoundariesIn(0, DataEnd(c)) BY <1>2, <3>1, <3>2 DEF BoundariesIn
    <3> QED BY <1>1, <2>1, <3>3 DEF Damaged
  <2>5. c.header_ok /\ c.data_ok /\ c.decodes BY <1>1, <2>1 DEF Damaged, Rejected
  <2>6. c.data_size = 0 /\ c.num_records = 0
    <3>1. ClaimsFit(c, len) BY <1>1, <1>2, <2>1, UnfitBad
    <3>2. Plausible(file, c) BY <3>1, TypeFacts DEF Plausible, lengths
    <3> QED BY <3>2 DEF FileTiled, Tiled, Chunks, Chunk
  <2> QED BY <2>3, <2>4, <2>5, <2>6 DEF validate_file_preamble
<1>4. c.begin <= 0 /\ 0 < End(c) BY <1>1, <1>2
<1> QED BY <1>1, <1>3, <1>4 DEF InBad

LEMMA FirstStands ==
    ASSUME TypeInv, ChunksDisjoint, FileTiled, lengths = {len}
    PROVE  Stands(FirstDataChunk)
<1> DEFINE c == Chunk(1)
<1>1. 1 \in DOMAIN Chunks /\ c.begin = 0 /\ len \in Nat BY TypeFacts, FileFacts
<1>2. /\ c.data_size \in Nat /\ c.num_records \in Nat
      /\ DataBegin(c) \in Nat /\ 0 < DataBegin(c)
      /\ DataEnd(c) \in Nat /\ DataBegin(c) + c.data_size <= DataEnd(c)
      /\ End(c) \in Nat /\ DataEnd(c) <= End(c)
      /\ End(c) = chunk_end(0, c.data_size, c.num_records)
  BY <1>1, ChunkExtent, TypeFacts, ChunkFacts
<1>3. DataBegin(c) = FirstDataChunk BY <1>1, FirstAfterSignature DEF DataBegin
<1>4. CASE ClaimsFit(c, len)
  <2>1. Plausible(file, c) BY <1>4, TypeFacts DEF Plausible, lengths
  <2>2. c.data_size = 0 /\ c.num_records = 0
    BY <2>1 DEF FileTiled, Tiled, Chunks, Chunk
  <2>3. End(c) = FirstDataChunk
    <3>1. canonical_chunk_address(0) = 0 BY <1>1, ChunkExtent
    <3>2. ChunkHeaderSize + 0 = ChunkHeaderSize /\ 0 + 0 = 0 BY LayoutAssumption
    <3>3. round_up_to_possible_chunk_boundary(0) = 0
      <4>1. is_possible_chunk_boundary(0) BY <1>1, DisjointFacts
      <4>2. remaining_in_block(0) <= USABLE_BLOCK_SIZE - 1 /\ remaining_in_block(0) = 0
        <5>1. BlockSize * 0 = 0 BY BlockSizeNat
        <5>2. is_block_boundary(0) BY <5>1, SameAfterBlocks
        <5> QED BY <5>2, BlockSizeNat DEF remaining_in_block
      <4> QED BY <4>2, BlockSizeNat DEF round_up_to_possible_chunk_boundary, SaturatingSub
    <3>4. chunk_end(0, 0, 0) = Larger(FirstDataChunk, 0)
      BY <3>1, <3>2, <3>3, FirstAfterSignature DEF chunk_end
    <3> QED BY <1>2, <2>2, <3>4, FirstDataChunkFacts DEF Larger
  <2> QED BY <1>1, <2>3, EndStands
<1>5. CASE ~ClaimsFit(c, len)
  <2>1. End(c) > len BY <1>1, <1>5, UnfitBad
  <2>2. FirstDataChunk <= End(c) BY <1>2, <1>3
  <2>3. CASE FirstDataChunk = End(c) BY <1>1, <1>2, <2>1, <2>3 DEF Stands
  <2>4. CASE FirstDataChunk < End(c)
    <3>1. Bad(1) /\ c.begin <= FirstDataChunk BY <1>1, <2>1, FirstDataChunkFacts DEF Bad
    <3>2. InBad(FirstDataChunk) BY <1>1, <2>4, <3>1 DEF InBad
    <3> QED BY <3>2 DEF Stands
  <2> QED BY <1>2, <2>2, <2>3, <2>4, FirstDataChunkFacts
<1> QED BY <1>4, <1>5

\* A block header that can be read leads to chunks, or behind the file.
LEMMA BlockStands ==
    ASSUME TypeInv, ChunksDisjoint, FileTiled, lengths = {len}, NEW b \in Nat, ValidBlock(b)
    PROVE  /\ Stands(b - blocks[b].previous_chunk)
           /\ Stands(b + blocks[b].next_chunk)
<1>1. b \in DOMAIN blocks /\ blocks[b].ok BY DEF ValidBlock
<1>2. blocks[b] \in BlockType BY <1>1, TypeFacts, FileFacts
<1>3. Leads(file, b) BY <1>1 DEF FileTiled, Tiled, blocks
<1> DEFINE e == b + blocks[b].next_chunk
<1>4. PICK i \in DOMAIN Chunks :
        Chunk(i).begin + blocks[b].previous_chunk = b /\ ChunkOrEnd(file, e)
  BY <1>3 DEF Leads, blocks, Chunks, Chunk
<1>5. blocks[b].previous_chunk \in Nat /\ e \in Nat BY <1>2 DEF BlockType
<1>6. Chunk(i).begin \in Nat BY ChunkExtent
<1>7. b - blocks[b].previous_chunk = Chunk(i).begin BY <1>4, <1>5, <1>6
<1>8. Stands(e)
  <2>1. CASE \E j \in DOMAIN Chunks : Chunk(j).begin = e
    BY <2>1, BeginStands
  <2>2. CASE \A n \in lengths : n <= e BY <2>2, TypeFacts DEF Stands
  <2> QED BY <1>4, <2>1, <2>2 DEF ChunkOrEnd, Chunks, Chunk, lengths
<1> QED BY <1>7, <1>8, BeginStands

\* Where a numeric seek begins to scan.
LEMMA OriginStands ==
    ASSUME TypeInv, ChunksDisjoint, FileTiled, lengths = {len}, NEW target,
           NEW block_begin \in Nat
    PROVE  Stands(ScanOrigin(target, block_begin))
<1>1. Stands(FirstDataChunk) BY FirstStands
<1>2. ASSUME ValidBlock(block_begin), blocks[block_begin].previous_chunk = 0
      PROVE  Stands(block_begin)
  <2>1. Stands(block_begin - 0) BY <1>2, BlockStands
  <2>2. block_begin - 0 = block_begin OBVIOUS
  <2> QED BY <2>1, <2>2
<1>3. ValidBlock(block_begin) =>
        /\ Stands(block_begin - blocks[block_begin].previous_chunk)
        /\ Stands(block_begin + blocks[block_begin].next_chunk)
  BY BlockStands
<1> DEFINE back == block_begin - blocks[block_begin].previous_chunk
           next == block_begin + blocks[block_begin].next_chunk
<1>4. ValidBlock(block_begin) /\ ScanOrigin(target, block_begin) # FirstDataChunk =>
        \/ /\ blocks[block_begin].previous_chunk = 0
           /\ ScanOrigin(target, block_begin) = block_begin
        \/ ScanOrigin(target, block_begin) = back
        \/ ScanOrigin(target, block_begin) = next
  BY DEF ScanOrigin
<1>5. ScanOrigin(target, block_begin) # FirstDataChunk => ValidBlock(block_begin)
  BY DEF ScanOrigin
<1> HIDE DEF back, next
<1>6. ValidBlock(block_begin) => Stands(back) /\ Stands(next) BY <1>3 DEF back, next
<1> QED BY <1>1, <1>2, <1>4, <1>5, <1>6

\* The end of a region.
LEMMA RegionEndStands ==
    ASSUME TypeInv, ChunksDisjoint, FileTiled, lengths = {len},
           InBad(local.at), Stands(local.end),
           canonical_chunk_address(local.at) <= local.begin, local.begin <= local.at
    PROVE  Stands(RegionEnd)
<1> DEFINE e == Larger(local.end, Larger(local.begin + 1, local.at + 1))
<1>1. local.at \in Nat /\ local.begin \in Nat /\ local.end \in Nat
  BY TypeFacts DEF LocalType
<1>2. e \in Nat /\ e > local.at /\ (e = local.end \/ e = local.at + 1) BY <1>1 DEF Larger
<1>3. RegionEnd = IF canonical_chunk_address(e) <= local.begin THEN e + 1 ELSE e
  BY DEF RegionEnd
<1> HIDE DEF e
<1>4. Stands(e) BY <1>1, <1>2, BehindBad
<1>5. CASE canonical_chunk_address(e) <= local.begin
  <2>1. PICK i \in DOMAIN Chunks :
          Bad(i) /\ Chunk(i).begin <= local.at /\ local.at < End(Chunk(i))
    BY DEF InBad
  <2>2. /\ Chunk(i).begin \in Nat /\ End(Chunk(i)) \in Nat
        /\ is_possible_chunk_boundary(End(Chunk(i)))
    BY ChunkExtent
  <2> DEFINE b == canonical_chunk_address(e)
  <2>3. b \in Nat /\ b <= local.at BY <1>1, <1>2, <1>5, CanonicalFacts
  <2>4. e % BlockSize = BlockHeaderSize BY <1>1, <1>2, <2>3, CanonicalFacts
  <2>5. is_block_boundary(b) /\ b = e - BlockHeaderSize BY <1>2, <2>4, CanonicalFacts
  <2> HIDE DEF b
  <2>6. b + BlockHeaderSize < End(Chunk(i)) BY <1>1, <2>1, <2>2, <2>3, <2>5, AliasInside
  <2>7. Chunk(i).begin <= e /\ e < End(Chunk(i))
    BY <1>1, <1>2, <2>1, <2>2, <2>3, <2>5, <2>6, BlockSizeNat
  <2>8. InBad(e) BY <2>1, <2>7 DEF InBad
  <2>9. Stands(e + 1) BY <1>2, <2>8, BehindBad
  <2> QED BY <1>3, <1>5, <2>9
<1>6. CASE ~(canonical_chunk_address(e) <= local.begin) BY <1>3, <1>4, <1>6
<1> QED BY <1>5, <1>6

---------------------------------------------------------------------------
\* It suffices to look at what the step has made of the positions.
LEMMA CoverStep ==
    ASSUME UNCHANGED <<file, len>>, pc' # "open" => stream_len' = len,
           Stands(next_chunk_file_pos'),
           pending_trusted_end' # None => Stands(pending_trusted_end'),
           pc' = "peek" => Stands(local'.scan_pos),
           pc' \in {"recover", "resync", "region"} => InBad(local'.at),
           pc' = "resync" => is_block_boundary(local'.boundary),
           pc' = "region" => Stands(local'.end),
           \A r \in regions' : \E i \in DOMAIN Chunks : InRegion(Chunk(i), r) /\ Bad(i)
    PROVE  CoverNow'
<1>1. UNCHANGED <<Chunks, DOMAIN Chunks>> /\ \A i : UNCHANGED Chunk(i) BY FileSame
<1>2. \A i : Damaged(Chunk(i))' = Damaged(Chunk(i)) BY FileSame
<1>3. \A i : Bad(i)' = Bad(i) BY <1>1, <1>2 DEF Bad, End
<1>4. Stands(next_chunk_file_pos)' BY <1>1, <1>3 DEF Stands, InBad, ChunkAt, End
<1>5. pending_trusted_end' # None => Stands(pending_trusted_end)'
  BY <1>1, <1>3 DEF Stands, InBad, ChunkAt, End
<1>6. pc' = "peek" => Stands(local.scan_pos)' BY <1>1, <1>3 DEF Stands, InBad, ChunkAt, End
<1>7. pc' \in {"recover", "resync", "region"} => InBad(local.at)'
  BY <1>1, <1>3 DEF InBad, End
<1>8. pc' = "region" => Stands(local.end)' BY <1>1, <1>3 DEF Stands, InBad, ChunkAt, End
<1>9. (\A r \in regions : \E i \in DOMAIN Chunks : InRegion(Chunk(i), r) /\ Bad(i))'
  BY <1>1, <1>3 DEF InRegion, End
<1> QED BY <1>4, <1>5, <1>6, <1>7, <1>8, <1>9 DEF CoverNow

\* Steps that leave the position and the regions alone.
LEMMA CoverKept ==
    ASSUME CoverNow, UNCHANGED <<file, len, next_chunk_file_pos>>, stream_len' = len,
           pending_trusted_end' \in {pending_trusted_end, None},
           regions' \in {regions, {}},
           pc' \notin {"peek", "recover", "resync", "region"}
    PROVE  CoverNow'
BY CoverStep DEF CoverNow

\* The file is as a writer lays it out and does not grow, and no read fails.
Calm == /\ TypeInv /\ OrderInv /\ FoundInv /\ ChunksDisjoint /\ FileTiled /\ AddressesOfChunks
        /\ lengths = {len} /\ io_errors = 0 /\ io_errors' = 0 /\ CoverNow

LEMMA CoverOpen == ASSUME Calm, Open PROVE CoverNow'
<1>1. /\ UNCHANGED <<file, len, next_chunk_file_pos, pending_trusted_end, regions>>
      /\ stream_len' = len /\ pc' \in {"idle", "gone", "preamble"}
  BY DEF Calm, Open, IoError, Return, Goto, cursor, skips
<1> QED BY <1>1, CoverKept DEF Calm

LEMMA CoverPreamble == ASSUME Calm, Preamble PROVE CoverNow'
<1>1. /\ UNCHANGED <<file, len, next_chunk_file_pos, stream_len, pending_trusted_end, regions>>
      /\ pc = "preamble"
      /\ \/ pc' \in {"idle", "gone"}
         \/ pc' = "recover" /\ ~validate_file_preamble /\ local' = [local EXCEPT !.at = 0]
  BY DEF Calm, Preamble, IoError, Return, FailAt, Goto, cursor, skips
<1>2. stream_len = len BY <1>1 DEF Calm, CoverNow
<1>3. CASE pc' \in {"idle", "gone"} BY <1>1, <1>2, <1>3, CoverKept DEF Calm
<1>4. CASE pc' = "recover" /\ ~validate_file_preamble /\ local' = [local EXCEPT !.at = 0]
  <2>1. local'.at = 0 BY <1>4, TypeFacts DEF Calm, LocalType
  <2>2. InBad(local'.at) BY <1>4, <2>1, PreambleFails DEF Calm
  <2> QED BY <1>1, <1>2, <1>4, <2>2, CoverStep DEF Calm, CoverNow
<1> QED BY <1>1, <1>3, <1>4

LEMMA CoverRead == ASSUME Calm, ReadRecord \/ TakeRecord PROVE CoverNow'
<1>1. /\ UNCHANGED <<file, len, next_chunk_file_pos, stream_len, regions>>
      /\ pending_trusted_end' \in {pending_trusted_end, None}
      /\ pc # "open" /\ pc' \in {"record", "header", "idle", "gone"}
  BY DEF ReadRecord, TakeRecord, Return, Goto, cursor, skips, history
<1> QED BY <1>1, CoverKept DEF Calm, CoverNow

LEMMA CoverLoadHeader == ASSUME Calm, LoadHeader PROVE CoverNow'
<1> DEFINE h == read_chunk_header_at(next_chunk_file_pos)
<1>1. /\ UNCHANGED <<file, len, next_chunk_file_pos, regions>> /\ pc = "header"
      /\ pending_trusted_end' = None
  BY LoadHeaderSteps DEF Calm, cursor
<1>2. stream_len = len BY <1>1 DEF Calm, CoverNow
<1>3. h.stream_len = len BY <1>2, HeaderLength
<1>4. /\ stream_len' = h.stream_len
      /\ \/ pc' \in {"idle", "gone", "data"}
         \/ h.kind = "error" /\ pc' = "recover"
            /\ local' = [local EXCEPT !.at = next_chunk_file_pos]
  BY DEF Calm, LoadHeader, IoError, Return, FailAt, Goto
<1> HIDE DEF h
<1>5. CASE pc' \in {"idle", "gone", "data"} BY <1>1, <1>3, <1>4, <1>5, CoverKept DEF Calm
<1>6. CASE h.kind = "error" /\ pc' = "recover"
           /\ local' = [local EXCEPT !.at = next_chunk_file_pos]
  <2>1. local'.at = next_chunk_file_pos BY <1>6, TypeFacts DEF Calm, LocalType
  <2>2. InBad(next_chunk_file_pos)
    BY <1>2, <1>6, TypeFacts, FailsInBad DEF Calm, CoverNow, h
  <2> QED BY <1>1, <1>3, <1>4, <1>6, <2>1, <2>2, CoverStep DEF Calm, CoverNow
<1> QED BY <1>4, <1>5, <1>6

LEMMA CoverLoadData == ASSUME Calm, LoadData PROVE CoverNow'
<1> DEFINE i == local.chunk
           c == Chunk(local.chunk)
<1>1. /\ pc = "data" /\ i \in DOMAIN Chunks /\ next_chunk_file_pos \in Nat
      /\ c.begin = canonical_chunk_address(next_chunk_file_pos)
      /\ UNCHANGED <<file, len, stream_len, regions>>
      /\ local \in LocalType
  BY TypeFacts DEF Calm, OrderInv, LoadData
<1>2. stream_len = len BY <1>1 DEF Calm, CoverNow
<1>3. /\ \A r \in regions' : \E j \in DOMAIN Chunks : InRegion(Chunk(j), r) /\ Bad(j)
      /\ Stands(End(c)) /\ Stands(c.begin) /\ Stands(next_chunk_file_pos)
  BY <1>1, EndStands, BeginStands DEF Calm, CoverNow
<1>4. c.begin <= next_chunk_file_pos /\ next_chunk_file_pos < End(c)
  BY <1>1, CoversAlias DEF Calm
<1>5. CASE DataUnreadable
  <2>1. /\ pc' = "recover" /\ local' = [local EXCEPT !.at = next_chunk_file_pos]
        /\ UNCHANGED <<next_chunk_file_pos, pending_trusted_end>> /\ ~DataReadable(c)
    BY <1>5 DEF Calm, DataUnreadable, IoError, FailAt, Goto, cursor
  <2>2. Bad(i) BY <1>1, <2>1, GoodHeader DEF Calm
  <2>3. InBad(next_chunk_file_pos) BY <1>1, <1>4, <2>2 DEF InBad
  <2>4. local'.at = next_chunk_file_pos BY <1>1, <2>1 DEF LocalType
  <2> QED BY <1>1, <1>2, <1>3, <2>1, <2>3, <2>4, CoverStep DEF Calm, CoverNow
<1>6. CASE DataRejected
  <2>1. /\ pc' = "recover" /\ local' = [local EXCEPT !.at = c.begin]
        /\ next_chunk_file_pos' = c.begin /\ pending_trusted_end' = End(c) /\ Rejected(c)
    BY <1>6 DEF DataRejected, FailAt, Goto
  <2>2. Bad(i) BY <2>1 DEF Bad, Damaged
  <2>3. c.begin \in Nat /\ End(c) \in Nat BY <1>1, ChunkExtent DEF Calm
  <2>4. InBad(c.begin) BY <1>1, <1>4, <2>2, <2>3 DEF InBad
  <2>5. local'.at = c.begin BY <1>1, <2>1 DEF LocalType
  <2> QED BY <1>1, <1>2, <1>3, <2>1, <2>4, <2>5, CoverStep
<1>7. CASE ChunkSkipped \/ ChunkLoaded
  <2>1. /\ next_chunk_file_pos' = End(c) /\ pending_trusted_end' = End(c)
        /\ pc' \in {"header", "idle", "gone", "record"}
    BY <1>7 DEF ChunkSkipped, ChunkLoaded, Return, Goto
  <2> QED BY <1>1, <1>2, <1>3, <2>1, CoverStep
<1> QED BY <1>5, <1>6, <1>7 DEF LoadData

LEMMA CoverSeek == ASSUME Calm, Seek PROVE CoverNow'
<1>1. PICK a \in Addresses, index \in Indices :
        /\ StartSeek(a, index)
        /\ UNCHANGED <<file, len, stream_len>> /\ pc = "idle" /\ regions' = {}
  BY DEF Calm, Seek, SeekFails, IoError
<1>2. a \in Nat /\ index \in Nat BY ReaderAssumption
<1>3. /\ next_chunk_file_pos' = canonical_chunk_address(a) /\ pending_trusted_end' = None
      /\ pc' = "header"
  BY <1>1, <1>2, StartSeekFacts DEF Calm
<1>4. ChunkAt(canonical_chunk_address(a)) # {} BY DEF Calm, AddressesOfChunks
<1>5. Stands(next_chunk_file_pos') BY <1>2, <1>3, <1>4, CanonicalFacts DEF Stands
<1>6. stream_len = len BY <1>1 DEF Calm, CoverNow
<1> QED BY <1>1, <1>3, <1>5, <1>6, CoverStep

LEMMA CoverNumeric ==
    ASSUME Calm, SeekNumeric \/ MeasureOrigin \/ ResolveScanOrigin PROVE CoverNow'
<1>1. CASE SeekNumeric \/ MeasureOrigin
  <2>1. /\ UNCHANGED <<file, len, next_chunk_file_pos>>
        /\ stream_len' \in {len, stream_len} /\ pc # "open"
        /\ pending_trusted_end' \in {pending_trusted_end, None}
        /\ regions' \in {regions, {}} /\ pc' \in {"measure", "origin", "idle", "gone"}
    BY <1>1 DEF SeekNumeric, MeasureOrigin, Return, Goto, cursor, skips
  <2> QED BY <2>1, CoverKept DEF Calm, CoverNow
<1>2. CASE ResolveScanOrigin
  <2> DEFINE b == round_down_to_block_boundary(Smaller(local.target, stream_len))
  <2>1. /\ UNCHANGED <<file, len, next_chunk_file_pos, stream_len, pending_trusted_end, regions>>
        /\ pc = "origin" /\ pc' = "peek"
        /\ local' = [local EXCEPT !.scan_pos = ScanOrigin(local.target, b)]
    BY <1>2 DEF Calm, ResolveScanOrigin, IoError, Goto, cursor, skips
  <2>2. b \in Nat
    <3>1. local.target \in Nat /\ stream_len \in Nat BY TypeFacts DEF Calm, LocalType
    <3>2. Smaller(local.target, stream_len) \in Nat BY <3>1 DEF Smaller
    <3> QED BY <3>2, NextBoundaryFacts
  <2> HIDE DEF b
  <2>3. local'.scan_pos = ScanOrigin(local.target, b) BY <2>1, TypeFacts DEF Calm, LocalType
  <2>4. Stands(local'.scan_pos) BY <2>2, <2>3, OriginStands DEF Calm
  <2> QED BY <2>1, <2>4, CoverStep DEF Calm, CoverNow
<1> QED BY <1>1, <1>2

LEMMA CoverPeekHeader == ASSUME Calm, PeekHeader PROVE CoverNow'
<1> DEFINE h == read_chunk_header_at(local.scan_pos)
           c == Chunk(h.chunk)
<1>1. /\ UNCHANGED <<file, len, regions>> /\ pc = "peek" /\ stream_len' = h.stream_len
      /\ \/ h.kind = "eof" /\ ScanAtEof
         \/ /\ h.kind = "error" /\ FailAt(local.scan_pos)
            /\ UNCHANGED <<cursor, pending_trusted_end>>
         \/ h.kind = "chunk" /\ ScanChunk(c)
  BY DEF Calm, PeekHeader, SeekFails, IoError
<1>2. stream_len = len /\ Stands(local.scan_pos) BY <1>1 DEF Calm, CoverNow
<1>3. stream_len' = len BY <1>1, <1>2, HeaderLength
<1>4. local \in LocalType /\ local.scan_pos \in Nat /\ local.target \in Nat
  BY TypeFacts DEF Calm, LocalType
<1>5. /\ h.kind = "error" => InBad(local.scan_pos)
      /\ h.kind = "chunk" =>
           h.chunk \in DOMAIN Chunks /\ c.begin = canonical_chunk_address(local.scan_pos)
  BY <1>2, <1>4, TypeFacts, FailsInBad, HeaderOutcome DEF Calm
<1> HIDE DEF h
<1>6. CASE h.kind = "eof" /\ ScanAtEof
  <2>1. /\ next_chunk_file_pos' = local.scan_pos /\ UNCHANGED pending_trusted_end
        /\ pc' \in {"idle", "gone"}
    BY <1>6 DEF ScanAtEof, Return
  <2> QED BY <1>1, <1>2, <1>3, <2>1, CoverStep DEF Calm, CoverNow
<1>7. CASE h.kind = "error" /\ FailAt(local.scan_pos)
           /\ UNCHANGED <<cursor, pending_trusted_end>>
  <2>1. pc' = "recover" /\ local' = [local EXCEPT !.at = local.scan_pos]
        /\ UNCHANGED next_chunk_file_pos
    BY <1>7 DEF FailAt, Goto, cursor
  <2>2. local'.at = local.scan_pos BY <1>4, <2>1 DEF LocalType
  <2> QED BY <1>1, <1>3, <1>5, <1>7, <2>1, <2>2, CoverStep DEF Calm, CoverNow
<1>8. CASE h.kind = "chunk" /\ ScanChunk(c)
  <2>1. CASE ScanStopsAt(c)
    <3> DEFINE index == SaturatingSub(local.target, local.scan_pos)
    <3>1. StartSeek(local.scan_pos, index) BY <1>8, <2>1 DEF ScanChunk
    <3>2. index \in Nat BY <1>4 DEF SaturatingSub
    <3> HIDE DEF index
    <3>3. /\ next_chunk_file_pos' = c.begin /\ pending_trusted_end' = None /\ pc' = "header"
      BY <1>4, <1>5, <1>8, <3>1, <3>2, StartSeekFacts DEF Calm
    <3>4. Stands(c.begin) BY <1>5, <1>8, BeginStands DEF Calm
    <3> QED BY <1>1, <1>3, <3>3, <3>4, CoverStep DEF Calm, CoverNow
  <2>2. CASE ~ScanStopsAt(c)
    <3> DEFINE e == chunk_end(local.scan_pos, c.data_size, c.num_records)
    <3>1. /\ UNCHANGED <<next_chunk_file_pos, pending_trusted_end, pc>>
          /\ local' = [local EXCEPT !.scan_pos = e]
      BY <1>8, <2>2 DEF ScanChunk, cursor
    <3>2. e = End(c) BY <1>4, <1>5, <1>8, TypeFacts, ScanEnd DEF Calm
    <3> HIDE DEF e
    <3>3. local'.scan_pos = e BY <1>4, <3>1 DEF LocalType
    <3>4. Stands(e) BY <1>5, <1>8, <3>2, EndStands DEF Calm
    <3> QED BY <1>1, <1>3, <3>1, <3>3, <3>4, CoverStep DEF Calm, CoverNow
  <2> QED BY <2>1, <2>2
<1> QED BY <1>1, <1>6, <1>7, <1>8

LEMMA CoverRecover == ASSUME Calm, Recover PROVE CoverNow'
<1>1. /\ pc = "recover" /\ UNCHANGED <<file, len, cursor, stream_len, regions>>
      /\ pending_trusted_end' = None
      /\ \/ Return("error")
         \/ /\ local'.at = local.at
            /\ \/ /\ pc' = "region" /\ pending_trusted_end # None
                  /\ local'.end = pending_trusted_end
               \/ pc' = "resync" /\ is_block_boundary(local'.boundary)
  BY RecoverSteps DEF Calm
<1>2. UNCHANGED next_chunk_file_pos BY <1>1 DEF cursor
<1>3. stream_len = len /\ InBad(local.at) BY <1>1 DEF Calm, CoverNow
<1>4. CASE Return("error")
  <2>1. pc' \in {"idle", "gone"} BY <1>4 DEF Return
  <2> QED BY <1>1, <1>2, <1>3, <2>1, CoverKept DEF Calm
<1>5. CASE /\ local'.at = local.at
           /\ \/ /\ pc' = "region" /\ pending_trusted_end # None
                 /\ local'.end = pending_trusted_end
              \/ pc' = "resync" /\ is_block_boundary(local'.boundary)
  BY <1>1, <1>2, <1>3, <1>5, CoverStep DEF Calm, CoverNow
<1> QED BY <1>1, <1>4, <1>5

\* The end that resolve_boundary_resync returns.
LEMMA SmallerStands ==
    ASSUME TypeInv, stream_len = len, NEW p \in Nat, Stands(p), NEW b \in Nat
    PROVE  Stands(Smaller(p, Larger(stream_len, b)))
<1>1. len \in Nat BY TypeFacts
<1>2. Smaller(p, Larger(stream_len, b)) = p \/ len <= Smaller(p, Larger(stream_len, b))
  BY <1>1 DEF Smaller, Larger
<1> QED BY <1>2 DEF Stands

LEMMA CoverResync == ASSUME Calm, Resync PROVE CoverNow'
<1> DEFINE boundary == local.boundary
           target == boundary + blocks[boundary].next_chunk
<1>1. /\ pc = "resync"
      /\ UNCHANGED <<file, len, cursor, stream_len, skips, regions>>
      /\ local'.at = local.at /\ local' \in LocalType
      /\ pc' \in {"region", "resync"}
      /\ pc' = "resync" => \/ local'.boundary = boundary + BlockSize
                           \/ target \in Nat /\ local'.boundary = next_block_boundary(target)
  BY ResyncSteps DEF Calm
<1>2. UNCHANGED <<next_chunk_file_pos, pending_trusted_end>> BY <1>1 DEF cursor, skips
<1>3. stream_len = len /\ InBad(local.at) /\ is_block_boundary(boundary)
  BY <1>1 DEF Calm, CoverNow
<1>4. local \in LocalType /\ boundary \in Nat /\ local.begin \in Nat
  BY TypeFacts DEF Calm, LocalType
<1>5. pc' = "resync" => is_block_boundary(local'.boundary)
  BY <1>1, <1>3, <1>4, BoundaryAfter, NextBoundaryFacts
<1>6. ASSUME pc' = "region" PROVE Stands(local'.end)
  <2>1. \/ /\ boundary + BlockHeaderSize > len
           /\ local' = [local EXCEPT !.end = Smaller(boundary, Larger(stream_len, local.begin))]
        \/ /\ ValidBlock(boundary) /\ blocks[boundary].previous_chunk = 0
           /\ local' = [local EXCEPT !.end = Smaller(boundary, Larger(stream_len, local.begin))]
        \/ /\ ValidBlock(boundary)
           /\ local' = [local EXCEPT !.end = Smaller(target, Larger(stream_len, local.begin))]
    BY <1>6 DEF Calm, Resync, ResyncAt, ResyncFrom, Goto, IoError
  <2>2. ASSUME NEW p \in Nat, Stands(p),
               local' = [local EXCEPT !.end = Smaller(p, Larger(stream_len, local.begin))]
        PROVE  Stands(local'.end)
    <3>1. local'.end = Smaller(p, Larger(stream_len, local.begin))
      BY <1>4, <2>2 DEF LocalType
    <3> QED BY <1>3, <1>4, <2>2, <3>1, SmallerStands DEF Calm
  <2>3. boundary + BlockHeaderSize > len => Stands(boundary)
    BY <1>3, <1>4, BoundaryStands DEF Calm
  <2>4. ValidBlock(boundary) => target \in Nat /\ Stands(target)
        /\ Stands(boundary - blocks[boundary].previous_chunk)
    <3>1. SUFFICES ASSUME ValidBlock(boundary) PROVE target \in Nat
      BY <1>4, BlockStands DEF Calm
    <3>2. blocks[boundary] \in BlockType
      BY <3>1, TypeFacts, FileFacts DEF Calm, ValidBlock
    <3> QED BY <1>4, <3>2 DEF BlockType
  <2>5. boundary - 0 = boundary BY <1>4
  <2> QED BY <1>4, <2>1, <2>2, <2>3, <2>4, <2>5
<1> QED BY <1>1, <1>2, <1>3, <1>5, <1>6, CoverStep DEF Calm, CoverNow

LEMMA CoverReportRegion == ASSUME Calm, ReportRegion PROVE CoverNow'
<1>1. /\ pc = "region" /\ UNCHANGED <<file, len, stream_len, pending_trusted_end>>
      /\ regions' = regions \cup {Region} /\ next_chunk_file_pos' = RegionEnd
      /\ pc' \in {"gone", "idle", "header", "peek"}
      /\ pc' = "peek" => local'.scan_pos = RegionEnd
  BY ReportSteps DEF Calm
<1>2. stream_len = len /\ InBad(local.at) /\ Stands(local.end) BY <1>1 DEF Calm, CoverNow
<1>3. canonical_chunk_address(local.at) <= local.begin /\ local.begin <= local.at
  BY <1>1 DEF Calm, OrderInv
<1>4. Stands(RegionEnd) BY <1>2, <1>3, RegionEndStands DEF Calm
<1>5. /\ RegionEnd \in Nat /\ RegionEnd > local.at
      /\ Region.begin = local.begin /\ Region.end = RegionEnd
      /\ local.at \in Nat /\ local.begin \in Nat
  BY RegionEndFacts, TypeFacts DEF Calm, LocalType
<1>6. \E i \in DOMAIN Chunks : InRegion(Chunk(i), Region) /\ Bad(i)
  <2>1. PICK i \in DOMAIN Chunks :
          Bad(i) /\ Chunk(i).begin <= local.at /\ local.at < End(Chunk(i))
    BY <1>2 DEF InBad
  <2>2. Chunk(i).begin \in Nat /\ End(Chunk(i)) \in Nat BY ChunkExtent DEF Calm
  <2>3. InRegion(Chunk(i), Region) BY <1>3, <1>5, <2>1, <2>2 DEF InRegion
  <2> QED BY <2>1, <2>3
<1> QED BY <1>1, <1>2, <1>4, <1>6, CoverStep DEF Calm, CoverNow

LEMMA IoErrorsCount ==
    ASSUME [Next]_vars PROVE io_errors' = io_errors \/ IoError
<1>1. ASSUME Step PROVE io_errors' = io_errors \/ IoError
  BY <1>1 DEF Step, Open, Preamble, TakeRecord, LoadHeader, LoadData, DataUnreadable,
              DataRejected, ChunkSkipped, ChunkLoaded, MeasureOrigin, ResolveScanOrigin,
              PeekHeader, SeekFails, Recover, Resync, ReportRegion, ConsumeRegion, NoIoError
<1> QED
  BY <1>1 DEF Next, ReadRecord, Seek, SeekFails, SeekNumeric, Grow, vars, history, NoIoError

LEMMA CoverNext ==
    ASSUME TypeInv, OrderInv, FoundInv, ChunksDisjoint, FileTiled, AddressesOfChunks,
           CoverInv, [Next]_vars
    PROVE  CoverInv'
<1>1. /\ io_errors \in Nat /\ io_errors' \in Nat
      /\ io_errors' = 0 => io_errors = 0
  BY IoErrorsCount DEF CoverInv, IoError
<1>2. SUFFICES ASSUME lengths' = {len'}, io_errors' = 0 PROVE CoverNow'
  BY <1>1 DEF CoverInv
<1>3. UNCHANGED lengths BY FileConstant, FileSame
<1>4. len = len' /\ lengths = {len} BY <1>2, <1>3, TypeFacts
<1>5. Calm BY <1>1, <1>2, <1>4 DEF Calm, CoverInv
<1>6. CASE Grow
  <2>1. len' \in Nat /\ len' > len BY <1>6, TypeFacts, FileFacts DEF Grow
  <2> QED BY <1>4, <2>1
<1>7. CASE UNCHANGED vars
  <2>1. UNCHANGED <<file, len, next_chunk_file_pos, stream_len, pending_trusted_end, pc,
                    local, regions>>
    BY <1>7 DEF vars, cursor, skips, control, history
  <2> QED BY <1>5, <2>1, CoverStep DEF Calm, CoverNow
<1> QED
  BY <1>5, <1>6, <1>7, CoverOpen, CoverPreamble, CoverRead, CoverLoadHeader, CoverLoadData,
     CoverSeek, CoverNumeric, CoverPeekHeader, CoverRecover, CoverResync, CoverReportRegion
     DEF Next, Step

LEMMA CoverInit == Init /\ TypeInv /\ ChunksDisjoint /\ FileTiled => CoverInv
<1> SUFFICES ASSUME Init, TypeInv, ChunksDisjoint, FileTiled PROVE CoverInv OBVIOUS
<1>1. /\ pc = "open" /\ next_chunk_file_pos = FirstDataChunk /\ pending_trusted_end = None
      /\ regions = {} /\ io_errors = 0
  BY DEF Init, InitReader
<1>2. lengths = {len} => Stands(FirstDataChunk) BY FirstStands
<1> QED BY <1>1, <1>2 DEF CoverInv, CoverNow

(***************************************************************************)
(* Damage is reported only where there is damage: in a file that does not  *)
(* grow, every region covers part of a damaged or truncated chunk unless a *)
(* read has failed.  For every file that a writer has laid out, whatever   *)
(* has been damaged or cut off since, from wherever a numeric seek starts, *)
(* and for seeks to addresses of chunks.                                   *)
(***************************************************************************)
THEOREM ReaderRegionsCoverDamage ==
    Spec /\ ChunksDisjoint /\ FileTiled /\ AddressesOfChunks => []RegionsCoverDamage
<1> DEFINE Inv == /\ TypeInv /\ OrderInv /\ FoundInv
                  /\ ChunksDisjoint /\ FileTiled /\ AddressesOfChunks /\ CoverInv
<1>1. Init /\ ChunksDisjoint /\ FileTiled /\ AddressesOfChunks => Inv
  BY TypeInit, OrderInit, FoundInit, CoverInit
<1>2. Inv /\ [Next]_vars => Inv'
  <2> SUFFICES ASSUME Inv, [Next]_vars PROVE Inv' OBVIOUS
  <2>1. UNCHANGED file BY FileConstant
  <2>2. TypeInv' /\ OrderInv' /\ FoundInv' /\ CoverInv'
    BY TypeNext, OrderNext, FoundNext, CoverNext
  <2>3. ChunksDisjoint' /\ FileTiled' /\ AddressesOfChunks'
    BY <2>1 DEF ChunksDisjoint, FileTiled, AddressesOfChunks, ChunkAt, Chunk, Chunks
  <2> QED BY <2>2, <2>3
<1>3. Inv => RegionsCoverDamage BY DEF CoverInv, CoverNow, RegionsCoverDamage, Bad
<1> HIDE DEF Inv
<1> QED BY <1>1, <1>2, <1>3, PTL DEF Spec
=============================================================================
