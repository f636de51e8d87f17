---------------------------- MODULE RecordReader ----------------------------
(***************************************************************************)
(* RecordReader (record_reader.rs): reads the chunks of a file that may be *)
(* damaged, truncated and still growing, and resynchronises after damage   *)
(* through the block headers.                                              *)
(*                                                                         *)
(* The file is what its writer, and the damage done to it since, have left *)
(* on the disk; its visible length grows between any two steps.  A step of *)
(* the reader is one of the reads whose results it combines with others:   *)
(* a chunk header, the data of a chunk, the block header at a boundary.    *)
(* (A header or the data of a chunk that has grown into view stays there,  *)
(* so reading one in several pieces is no different from reading it at     *)
(* once when its last piece is read.)                                      *)
(***************************************************************************)
EXTENDS BlockArithmetic, Sequences, FiniteSets

CONSTANTS
    Files,        \* the files to read, see FileType
    Recoveries,   \* whether the caller sets a recovery callback: TRUE, FALSE or either
    Addresses,    \* bound: chunk addresses given to seek
    Indices,      \* bound: record indices given to seek
    Numerics,     \* bound: positions given to seek_numeric
    MaxSeeks,     \* bound: number of seeks
    MaxIoErrors   \* bound: number of reads that fail

ChunkType == [type : {"signature", "metadata", "padding", "simple", "unknown"},
              begin : Nat, end : Nat,
              data_size : Nat, num_records : Nat,  \* as the header claims
              header_ok : BOOLEAN,   \* is_header_valid
              data_ok   : BOOLEAN,   \* is_data_valid
              decodes   : BOOLEAN]   \* the decoder, or validate_special_chunk, accepts it
BlockType == [ok : BOOLEAN, previous_chunk : Nat, next_chunk : Nat]

\* chunks and blocks describe the complete file; lengths are the sizes at
\* which a reader may find it.
FileType(f) ==
    /\ f.chunks \in Seq(ChunkType) /\ f.chunks # <<>>
    /\ f.chunks[1].type = "signature" /\ f.chunks[1].begin = 0
    /\ \A i \in DOMAIN f.chunks :
         f.chunks[i].end = chunk_end(f.chunks[i].begin, f.chunks[i].data_size,
                                     f.chunks[i].num_records)
    /\ \A b \in DOMAIN f.blocks : b \in Nat /\ f.blocks[b] \in BlockType
    /\ 0 \in DOMAIN f.blocks
    /\ f.lengths # {} /\ f.lengths \subseteq Nat

ASSUME ReaderAssumption ==
    /\ \A f \in Files : FileType(f)
    /\ Recoveries \subseteq BOOLEAN /\ Recoveries # {}
    /\ Addresses \subseteq Nat /\ Indices \subseteq Nat /\ Numerics \subseteq Nat
    /\ MaxSeeks \in Nat /\ MaxIoErrors \in Nat
    \* a chunk header meets at most one block header
    /\ ChunkHeaderSize <= USABLE_BLOCK_SIZE

VARIABLES
    file, len,             \* the file and its visible length
    (* fields of struct RecordReader *)
    recovery,              \* is Some(_); chosen by the caller of new
    current_chunk_begin, next_chunk_file_pos,
    current_decoder,       \* number of the chunk being decoded, 0 for None
    current_record_index,
    pos, last_pos,
    at_eof, last_record_is_valid,
    stream_len,            \* the length as last measured
    last_skipped_region, pending_trusted_end,
    (* the operation in progress *)
    op, pc, local,
    result,                \* what the last operation returned
    (* history *)
    from,                  \* where reading was last positioned
    delivered,             \* numeric positions of the records returned since
    regions,               \* regions reported since
    seeks, io_errors

cursor  == <<current_chunk_begin, next_chunk_file_pos, current_decoder,
             current_record_index>>
flags   == <<at_eof, last_record_is_valid>>
skips   == <<last_skipped_region, pending_trusted_end>>
control == <<op, pc, local, result>>
history == <<from, delivered, regions, seeks, io_errors>>
vars    == <<file, recovery, len, cursor, pos, last_pos, flags, stream_len, skips,
             control, history>>

None == -1  \* Option::None of a position
NoRegion == [begin |-> None, end |-> None]

\* Locals of the operation: the chunk being loaded, the address that failed,
\* the region under construction, the position sought.
NoLocals == [chunk |-> 0, at |-> 0, begin |-> 0, boundary |-> 0, end |-> 0,
             target |-> 0, index |-> 0, scan_pos |-> 0]

RecordPosition(chunk_begin, record_index) ==
    [chunk_begin |-> chunk_begin, record_index |-> record_index]
Numeric(p) == p.chunk_begin + p.record_index

FirstDataChunk == BlockHeaderSize + ChunkHeaderSize

---------------------------------------------------------------------------
(* What the file shows at its current length. *)

Chunks == file.chunks
Chunk(i) == Chunks[i]
blocks == file.blocks
lengths == file.lengths
End(c) == c.end  \* chunk_end of begin, data_size and num_records

\* The chunk whose header stands at a canonical address; bytes that are not
\* the header of a chunk do not hash to one.
ChunkAt(b) == {i \in DOMAIN Chunks : Chunk(i).begin = b}

BoundariesIn(lo, hi) == {b \in lo .. (hi - 1) : is_block_boundary(b)}

ValidBlock(b) == b \in DOMAIN blocks /\ blocks[b].ok

LeadsBackTo(b, chunk_begin) == b - blocks[b].previous_chunk = chunk_begin
LeadsOnTo(b, end) == b + blocks[b].next_chunk = end

DataBegin(c) == add_with_overhead(c.begin, ChunkHeaderSize)
DataEnd(c) == add_with_overhead(c.begin, ChunkHeaderSize + c.data_size)

HeaderReadable(c) ==
    /\ c.header_ok
    /\ DataBegin(c) <= len
    /\ \A b \in BoundariesIn(c.begin, DataBegin(c)) :
          ValidBlock(b) /\ LeadsBackTo(b, c.begin)

\* The header's claims against a length of the stream.
ClaimsFit(c, length) ==
    /\ c.data_size <= SaturatingSub(length, DataBegin(c))
    /\ c.num_records <= SaturatingSub(length, c.begin)

InteriorAgrees(c) ==
    \A b \in BoundariesIn(c.begin + 1, DataBegin(c)) : LeadsOnTo(b, End(c))

(***************************************************************************)
(* read_chunk_header_at, with the is_header_valid test that each of its    *)
(* callers makes next: a clean end of file, an error, or a chunk; and      *)
(* stream_len, re-measured if the claims exceed it.                        *)
(***************************************************************************)
read_chunk_header_at(position) ==
    LET chunk_begin == canonical_chunk_address(position)
        Outcome(kind, i, length) ==
            [kind |-> kind, chunk |-> i, stream_len |-> length]
    IN  IF chunk_begin >= len THEN Outcome("eof", 0, stream_len)
        ELSE IF \A i \in ChunkAt(chunk_begin) : ~HeaderReadable(Chunk(i))
        THEN Outcome("error", 0, stream_len)
        ELSE LET i == CHOOSE j \in ChunkAt(chunk_begin) : HeaderReadable(Chunk(j))
                 length == IF ClaimsFit(Chunk(i), stream_len) THEN stream_len ELSE len
             IN  IF ClaimsFit(Chunk(i), length) /\ InteriorAgrees(Chunk(i))
                 THEN Outcome("chunk", i, length)
                 ELSE Outcome("error", 0, length)

\* read_chunk_data
DataReadable(c) ==
    c.data_size > 0 =>
      /\ DataEnd(c) <= len
      /\ \A b \in BoundariesIn(DataBegin(c), DataEnd(c)) :
            ValidBlock(b) /\ LeadsBackTo(b, c.begin) /\ LeadsOnTo(b, End(c))

\* What is done with a chunk whose data could be read.
Rejected(c) == \/ ~c.data_ok
               \/ c.type = "unknown" /\ c.num_records > 0
               \/ c.type # "unknown" /\ ~c.decodes
HasRecords(c) == c.type = "simple"

\* A read fails with an I/O error.
IoError == io_errors < MaxIoErrors /\ io_errors' = io_errors + 1
NoIoError == io_errors' = io_errors

---------------------------------------------------------------------------
Return(r) ==
    /\ op' = "none"
    /\ pc' = IF op = "new" /\ r = "error" THEN "gone" ELSE "idle"
    /\ local' = NoLocals
    /\ result' = r

Goto(step) == pc' = step /\ UNCHANGED <<op, result>>

\* An error at address `at`, on its way to try_recover_at.
FailAt(at) == Goto("recover") /\ local' = [local EXCEPT !.at = at]

---------------------------------------------------------------------------
(* new *)

InitReader ==
    /\ recovery \in Recoveries
    /\ current_chunk_begin = BlockHeaderSize
    /\ next_chunk_file_pos = FirstDataChunk
    /\ current_decoder = 0 /\ current_record_index = 0
    /\ pos = RecordPosition(0, 0) /\ last_pos = RecordPosition(0, 0)
    /\ at_eof = FALSE /\ last_record_is_valid = TRUE
    /\ stream_len = 0
    /\ last_skipped_region = NoRegion /\ pending_trusted_end = None
    /\ op = "new" /\ pc = "open" /\ local = NoLocals /\ result = "none"
    /\ from = 0 /\ delivered = {} /\ regions = {}
    /\ seeks = 0 /\ io_errors = 0

Init == file \in Files /\ len \in lengths /\ InitReader

\* Measure the stream; an empty file is a valid file without records, and
\* its preamble is not looked at when it has grown.
Open ==
    /\ pc = "open"
    /\ \/ /\ NoIoError
          /\ stream_len' = len
          /\ IF len = 0
             THEN at_eof' = TRUE /\ Return("ok") /\ from' = next_chunk_file_pos
             ELSE /\ Goto("preamble")
                  /\ UNCHANGED <<at_eof, local, from>>
       \/ /\ IoError /\ Return("error")
          /\ UNCHANGED <<stream_len, at_eof, from>>
    /\ UNCHANGED <<file, recovery, len, cursor, pos, last_pos, last_record_is_valid,
                   skips, delivered, regions, seeks>>

\* The signature chunk is compared byte by byte with the one new() writes.
validate_file_preamble ==
    /\ FirstDataChunk <= len
    /\ ValidBlock(0)
    /\ Chunk(1).header_ok /\ Chunk(1).data_ok /\ Chunk(1).decodes
    /\ Chunk(1).data_size = 0 /\ Chunk(1).num_records = 0

Preamble ==
    /\ pc = "preamble"
    /\ \/ NoIoError /\ IF validate_file_preamble THEN Return("ok") ELSE FailAt(0)
       \/ IoError /\ FailAt(0)
    /\ UNCHANGED <<file, recovery, len, cursor, pos, last_pos, flags, stream_len, skips,
                   from, delivered, regions, seeks>>

---------------------------------------------------------------------------
(* read_record *)

ReadRecord ==
    /\ pc = "idle"
    /\ op' = "read_record" /\ pc' = "record"
    /\ pending_trusted_end' = None
    /\ UNCHANGED <<file, recovery, len, cursor, pos, last_pos, flags, stream_len,
                   last_skipped_region, local, result, history>>

\* The loop of read_record: the next record of the decoder, or another chunk.
TakeRecord ==
    /\ pc = "record"
    /\ IF /\ current_decoder # 0
          /\ current_record_index < Chunk(current_decoder).num_records
       THEN /\ last_pos' = RecordPosition(current_chunk_begin, current_record_index)
            /\ current_record_index' = current_record_index + 1
            /\ pos' = RecordPosition(current_chunk_begin, current_record_index + 1)
            /\ last_record_is_valid' = TRUE
            /\ delivered' = delivered \cup {Numeric(last_pos')}
            /\ Return("record")
            /\ UNCHANGED current_decoder
       ELSE /\ current_decoder' = 0
            /\ Goto("header")
            /\ UNCHANGED <<local, pos, last_pos, current_record_index,
                           last_record_is_valid, delivered>>
    /\ UNCHANGED <<file, recovery, len, current_chunk_begin, next_chunk_file_pos, at_eof,
                   stream_len, skips, from, regions, seeks, io_errors>>

---------------------------------------------------------------------------
(* load_next_chunk and load_chunk_at: one loop over chunks that carry no   *)
(* records, with the header and the data of a chunk read in turn.          *)

LoadHeader ==
    LET header == read_chunk_header_at(next_chunk_file_pos)
    IN  /\ pc = "header"
        /\ pending_trusted_end' = None
        /\ \/ /\ NoIoError
              /\ stream_len' = header.stream_len
              /\ \/ /\ header.kind = "eof"
                    /\ at_eof' = TRUE
                    /\ IF op = "seek"
                       THEN /\ pos' = RecordPosition(local.target, local.index)
                            /\ Return("ok")
                       ELSE pos' = pos /\ Return("eof")
                 \/ /\ header.kind = "error"
                    /\ FailAt(next_chunk_file_pos)
                    /\ UNCHANGED <<pos, at_eof>>
                 \/ /\ header.kind = "chunk"
                    /\ Goto("data")
                    /\ local' = [local EXCEPT !.chunk = header.chunk]
                    /\ UNCHANGED <<pos, at_eof>>
           \/ /\ IoError
              /\ FailAt(next_chunk_file_pos)
              /\ UNCHANGED <<pos, at_eof, stream_len>>
        /\ UNCHANGED <<file, recovery, len, cursor, last_pos, last_record_is_valid,
                       last_skipped_region, from, delivered, regions, seeks>>

\* Mutant: the header's extent is trusted although the data is not there.
DataUnreadable_Advanced ==
    /\ NoIoError /\ ~DataReadable(Chunk(local.chunk))
    /\ next_chunk_file_pos' = End(Chunk(local.chunk))
    /\ FailAt(next_chunk_file_pos)
    /\ UNCHANGED <<current_chunk_begin, current_decoder, current_record_index, pos, at_eof, from,
                   pending_trusted_end>>

\* The data cannot be read: nothing about the chunk's extent is trusted.  The
\* stream is positioned even for a chunk without data, and that may fail.
DataUnreadable ==
    /\ (NoIoError /\ ~DataReadable(Chunk(local.chunk))) \/ IoError
    /\ FailAt(next_chunk_file_pos)
    /\ UNCHANGED <<cursor, pos, at_eof, from, pending_trusted_end>>

\* Mutant: the reader has already moved past the chunk.
DataRejected_Advanced ==
    LET c == Chunk(local.chunk)
    IN  /\ NoIoError /\ DataReadable(c) /\ Rejected(c)
        /\ pending_trusted_end' = End(c)
        /\ next_chunk_file_pos' = End(c)
        /\ FailAt(c.begin)
        /\ UNCHANGED <<current_chunk_begin, current_record_index, current_decoder,
                       pos, at_eof, from>>

\* The data was read and is refused: exactly this chunk is bad.  The reader
\* stays in front of it.
DataRejected ==
    LET c == Chunk(local.chunk)
    IN  /\ NoIoError /\ DataReadable(c) /\ Rejected(c)
        /\ pending_trusted_end' = End(c)
        /\ next_chunk_file_pos' = c.begin
        /\ IF op = "seek" /\ c.data_ok
           THEN current_chunk_begin' = c.begin /\ current_record_index' = 0
           ELSE UNCHANGED <<current_chunk_begin, current_record_index>>
        /\ FailAt(c.begin)
        /\ UNCHANGED <<current_decoder, pos, at_eof, from>>

ChunkSkipped ==
    LET c == Chunk(local.chunk)
    IN  /\ NoIoError /\ DataReadable(c) /\ ~Rejected(c) /\ ~HasRecords(c)
        /\ pending_trusted_end' = End(c)
        /\ next_chunk_file_pos' = End(c)
        /\ IF op = "seek"
           THEN current_chunk_begin' = c.begin /\ current_record_index' = 0
           ELSE UNCHANGED <<current_chunk_begin, current_record_index>>
        /\ Goto("header") /\ local' = [local EXCEPT !.chunk = 0]
        /\ UNCHANGED <<current_decoder, pos, at_eof, from>>

\* Mutant: the index sought is applied to whatever chunk was loaded.
ChunkLoaded_IndexAnywhere ==
    LET c == Chunk(local.chunk)
        index == IF op = "seek" THEN Smaller(local.index, c.num_records) ELSE 0
    IN  /\ NoIoError /\ DataReadable(c) /\ ~Rejected(c) /\ HasRecords(c)
        /\ pending_trusted_end' = End(c)
        /\ next_chunk_file_pos' = End(c)
        /\ current_chunk_begin' = c.begin
        /\ current_decoder' = local.chunk
        /\ current_record_index' = index
        /\ from' = from
        /\ IF op = "seek"
           THEN /\ pos' = RecordPosition(local.target, index)
                /\ at_eof' = at_eof /\ Return("ok")
           ELSE /\ pos' = RecordPosition(c.begin, 0)
                /\ at_eof' = FALSE
                /\ Goto("record") /\ local' = [local EXCEPT !.chunk = 0]

\* Mutant: the next chunk is looked for at this one.
ChunkLoaded_NotAdvanced ==
    LET c == Chunk(local.chunk)
    IN  /\ NoIoError /\ DataReadable(c) /\ ~Rejected(c) /\ HasRecords(c)
        /\ current_chunk_begin' = c.begin
        /\ current_decoder' = local.chunk
        /\ current_record_index' = 0
        /\ UNCHANGED <<next_chunk_file_pos, pending_trusted_end, pos, at_eof, from>>
        /\ IF op = "seek" THEN Return("ok")
           ELSE Goto("record") /\ local' = [local EXCEPT !.chunk = 0]

\* A seek applies its index to the addressed chunk only, clamped to it.
ChunkLoaded ==
    LET c == Chunk(local.chunk)
        index == IF op = "seek" /\ c.begin = local.target
                 THEN Smaller(local.index, c.num_records) ELSE 0
    IN  /\ NoIoError /\ DataReadable(c) /\ ~Rejected(c) /\ HasRecords(c)
        /\ pending_trusted_end' = End(c)
        /\ next_chunk_file_pos' = End(c)
        /\ current_chunk_begin' = c.begin
        /\ current_decoder' = local.chunk
        /\ current_record_index' = index
        /\ IF op = "seek"
           THEN /\ pos' = RecordPosition(local.target, index)
                /\ from' = IF index > 0 THEN c.begin + index ELSE from
                /\ at_eof' = at_eof
                /\ Return("ok")
           ELSE /\ pos' = RecordPosition(c.begin, 0)
                /\ from' = from
                /\ at_eof' = FALSE
                /\ Goto("record") /\ local' = [local EXCEPT !.chunk = 0]

LoadData ==
    /\ pc = "data"
    /\ DataUnreadable \/ DataRejected \/ ChunkSkipped \/ ChunkLoaded
    /\ UNCHANGED <<file, recovery, len, last_pos, last_record_is_valid, stream_len,
                   last_skipped_region, delivered, regions, seeks>>

---------------------------------------------------------------------------
(* seek *)

\* The part of seek() before load_chunk_at; history aside.
StartSeek(chunk_begin, index) ==
    LET chunk_file_pos == canonical_chunk_address(chunk_begin)
    IN  /\ current_decoder' = 0
        /\ at_eof' = FALSE
        /\ next_chunk_file_pos' = chunk_file_pos
        /\ current_chunk_begin' = chunk_file_pos
        /\ current_record_index' = 0
        /\ pending_trusted_end' = None
        /\ op' = "seek" /\ pc' = "header" /\ result' = result
        /\ local' = [NoLocals EXCEPT !.target = chunk_file_pos, !.index = index]

\* The stream cannot be positioned.
SeekFails ==
    /\ IoError
    /\ pending_trusted_end' = None
    /\ Return("error")
    /\ UNCHANGED <<cursor, at_eof>>

Seek ==
    /\ pc = "idle" /\ seeks < MaxSeeks
    /\ \E chunk_begin \in Addresses, index \in Indices :
         \/ /\ NoIoError /\ StartSeek(chunk_begin, index)
            /\ from' = next_chunk_file_pos'
            /\ delivered' = {} /\ regions' = {}
         \/ SeekFails /\ UNCHANGED <<from, delivered, regions>>
    /\ seeks' = seeks + 1
    /\ UNCHANGED <<file, recovery, len, pos, last_pos, last_record_is_valid, stream_len,
                   last_skipped_region>>

---------------------------------------------------------------------------
(* seek_numeric *)

\* Where the next record is looked for.
Cursor == IF current_decoder # 0 THEN current_chunk_begin + current_record_index
                                 ELSE next_chunk_file_pos

SeekNumeric ==
    /\ pc = "idle" /\ seeks < MaxSeeks
    /\ op' = "seek_numeric" /\ pc' = "measure" /\ result' = result
    /\ \E numeric \in Numerics : local' = [NoLocals EXCEPT !.target = numeric]
    /\ pending_trusted_end' = None
    \* It may fail and leave the reader where it is.
    /\ from' = Cursor /\ delivered' = {} /\ regions' = {}
    /\ seeks' = seeks + 1
    /\ UNCHANGED <<file, recovery, len, cursor, pos, last_pos, flags, stream_len,
                   last_skipped_region, io_errors>>

\* resolve_scan_origin: measure the stream if the target is past it ...
MeasureOrigin ==
    /\ pc = "measure"
    /\ \/ /\ NoIoError
          /\ stream_len' = IF local.target > stream_len THEN len ELSE stream_len
          /\ Goto("origin") /\ local' = local
       \/ /\ IoError /\ local.target > stream_len
          /\ Return("error") /\ stream_len' = stream_len
    /\ UNCHANGED <<file, recovery, len, cursor, pos, last_pos, flags, skips, from,
                   delivered, regions, seeks>>

\* ... and follow the block header at or below the target.
ScanOrigin(target, block_begin) ==
    LET block == blocks[block_begin]
        next == block_begin + block.next_chunk
        chunk_begin == IF block.previous_chunk = 0 THEN block_begin
                       ELSE IF next > target THEN block_begin - block.previous_chunk
                       ELSE next
    IN  IF \/ block_begin = 0
           \/ block_begin + BlockHeaderSize > len
           \/ ~ValidBlock(block_begin)
           \/ chunk_begin < FirstDataChunk
           \/ ~is_possible_chunk_boundary(chunk_begin)
        THEN FirstDataChunk
        ELSE chunk_begin

ResolveScanOrigin ==
    LET block_begin == round_down_to_block_boundary(Smaller(local.target, stream_len))
    IN  /\ pc = "origin"
        /\ \/ /\ NoIoError
              /\ Goto("peek")
              /\ local' = [local EXCEPT !.scan_pos =
                             ScanOrigin(local.target, block_begin)]
           \/ /\ IoError /\ block_begin # 0  \* in the read
              /\ Goto("peek")
              /\ local' = [local EXCEPT !.scan_pos = FirstDataChunk]
           \/ /\ IoError /\ block_begin # 0  \* in the seek
              /\ Return("error")
        /\ UNCHANGED <<file, recovery, len, cursor, pos, last_pos, flags, stream_len, skips,
                       from, delivered, regions, seeks>>

\* What a numeric position asks for: no record lies in front of the first
\* chunk behind the preamble.
Sought == Larger(local.target, FirstDataChunk)

\* Mutant: the cursor stays where it was before the seek.
ScanAtEof_KeepsCursor ==
    /\ at_eof' = TRUE
    /\ pos' = RecordPosition(local.scan_pos, 0)
    /\ current_decoder' = 0
    /\ current_chunk_begin' = local.scan_pos
    /\ current_record_index' = 0
    /\ from' = Smaller(Sought, local.scan_pos)
    /\ Return("ok")
    /\ UNCHANGED <<next_chunk_file_pos, pending_trusted_end, delivered>>

\* The end of the file: appended chunks would begin at scan_pos.
ScanAtEof ==
    /\ at_eof' = TRUE
    /\ pos' = RecordPosition(local.scan_pos, 0)
    /\ current_decoder' = 0
    /\ current_chunk_begin' = local.scan_pos
    /\ current_record_index' = 0
    /\ next_chunk_file_pos' = local.scan_pos
    /\ from' = Smaller(Sought, local.scan_pos)
    /\ Return("ok")
    /\ UNCHANGED <<pending_trusted_end, delivered>>

\* Mutant: the index of a target in front of the chunk is not clamped to 0.
ScanChunk_NegativeIndex(c) ==
    IF local.scan_pos + c.num_records > local.target \/ local.scan_pos >= local.target
    THEN /\ StartSeek(local.scan_pos, local.target - local.scan_pos)
         /\ from' = local.target
         /\ UNCHANGED <<pos, delivered>>
    ELSE /\ local' = [local EXCEPT !.scan_pos =
                        chunk_end(local.scan_pos, c.data_size, c.num_records)]
         /\ UNCHANGED <<cursor, pos, at_eof, pending_trusted_end, from, delivered,
                        op, pc, result>>

ScanStopsAt(c) ==
    \/ local.scan_pos >= local.target
    \/ local.scan_pos + c.num_records > local.target

\* One chunk of the scan: it is the one, or the scan goes on behind it.
ScanChunk(c) ==
    IF ScanStopsAt(c)
    THEN /\ StartSeek(local.scan_pos, SaturatingSub(local.target, local.scan_pos))
         /\ from' = Sought
         /\ UNCHANGED <<pos, delivered>>
    ELSE /\ local' = [local EXCEPT !.scan_pos =
                        chunk_end(local.scan_pos, c.data_size, c.num_records)]
         /\ UNCHANGED <<cursor, pos, at_eof, pending_trusted_end, from, delivered,
                        op, pc, result>>

PeekHeader ==
    LET header == read_chunk_header_at(local.scan_pos)
        Stay == UNCHANGED <<cursor, pos, at_eof, pending_trusted_end, from, delivered>>
    IN  /\ pc = "peek" /\ op = "seek_numeric"
        /\ \/ /\ header.kind = "chunk" /\ ScanStopsAt(Chunk(header.chunk))
              /\ stream_len' = header.stream_len
              /\ SeekFails /\ from' = Cursor
              /\ UNCHANGED <<pos, delivered>>
           \/ /\ NoIoError
              /\ stream_len' = header.stream_len
              /\ \/ header.kind = "eof" /\ ScanAtEof
                 \/ header.kind = "error" /\ FailAt(local.scan_pos) /\ Stay
                 \/ header.kind = "chunk" /\ ScanChunk(Chunk(header.chunk))
           \/ IoError /\ FailAt(local.scan_pos) /\ Stay /\ stream_len' = stream_len
        /\ UNCHANGED <<file, recovery, len, last_pos, last_record_is_valid,
                       last_skipped_region, regions, seeks>>

---------------------------------------------------------------------------
(* try_recover_at *)

\* Where the region begins: never inside the one reported before it.
RegionBegin(at) ==
    LET begin == canonical_chunk_address(at)
    IN  IF /\ last_skipped_region # NoRegion
           /\ last_skipped_region.end <= at /\ begin < last_skipped_region.end
        THEN last_skipped_region.end
        ELSE begin

next_block_boundary(p) ==
    IF is_block_boundary(p) THEN p ELSE round_down_to_block_boundary(p) + BlockSize

\* report_region_at: without a callback the error stands; a trusted extent
\* is the region, otherwise its end is sought from the next block boundary.
Recover ==
    LET begin == RegionBegin(local.at)
        next == next_block_boundary(begin)
    IN  /\ pc = "recover"
        /\ pending_trusted_end' = None
        /\ \/ /\ ~recovery /\ Return("error")
              /\ from' = Smaller(from, Cursor)  \* a seek that failed in its chunk
           \/ /\ recovery /\ pending_trusted_end # None
              /\ Goto("region") /\ from' = from
              /\ local' = [local EXCEPT !.begin = begin, !.end = pending_trusted_end]
           \/ /\ recovery /\ pending_trusted_end = None
              /\ Goto("resync") /\ from' = from
              /\ local' = [local EXCEPT !.begin = begin, !.boundary =
                             IF next = begin THEN begin + BlockSize ELSE next]
        /\ UNCHANGED <<file, recovery, len, cursor, pos, last_pos, flags, stream_len,
                       last_skipped_region, delivered, regions, seeks, io_errors>>

\* resolve_boundary_resync, one block header per step; the end it returns is
\* cut off at the length last measured.
ResyncAt(position) ==
    /\ Goto("region")
    /\ local' = [local EXCEPT !.end =
                   Smaller(position, Larger(stream_len, local.begin))]
ResyncFrom(boundary) ==
    Goto("resync") /\ local' = [local EXCEPT !.boundary = boundary]

\* Mutant: the boundary is taken for the beginning of a chunk.
Resync_AtBoundary ==
    /\ pc = "resync"
    /\ NoIoError
    /\ ResyncAt(local.boundary)
    /\ UNCHANGED <<file, recovery, len, cursor, pos, last_pos, flags, stream_len, skips,
                   from, delivered, regions, seeks>>

Resync ==
    LET boundary == local.boundary
        target == boundary + blocks[boundary].next_chunk
    IN  /\ pc = "resync"
        /\ \/ /\ NoIoError
              /\ IF boundary + BlockHeaderSize > len THEN ResyncAt(boundary)
                 ELSE IF ~ValidBlock(boundary) THEN ResyncFrom(boundary + BlockSize)
                 ELSE IF blocks[boundary].previous_chunk = 0 THEN ResyncAt(boundary)
                 ELSE IF target > stream_len \/ is_possible_chunk_boundary(target)
                 THEN ResyncAt(target)
                 ELSE ResyncFrom(next_block_boundary(target))
           \/ IoError /\ ResyncAt(boundary)
        /\ UNCHANGED <<file, recovery, len, cursor, pos, last_pos, flags, stream_len, skips,
                       from, delivered, regions, seeks>>

\* Mutant: no forward progress margin.
RegionEnd_NoProgress == local.end

\* The end of the region: past its begin, past the address that failed, and
\* not an alias of its begin.
RegionEnd ==
    LET end == Larger(local.end, Larger(local.begin + 1, local.at + 1))
    IN  IF canonical_chunk_address(end) <= local.begin THEN end + 1 ELSE end

\* The operation continues behind the region.
ResumeAt(end) ==
    \/ op = "new" /\ Return("ok") /\ pos' = pos
    \/ op = "read_record" /\ at_eof' /\ Return("eof") /\ pos' = pos
    \/ /\ op = "read_record" /\ ~at_eof'
       /\ Goto("header") /\ local' = NoLocals /\ pos' = pos
    \/ op = "seek" /\ Return("ok") /\ pos' = RecordPosition(end, 0)
    \/ /\ op = "seek_numeric" /\ Goto("peek") /\ pos' = pos
       /\ local' = [NoLocals EXCEPT !.target = local.target, !.scan_pos = end]

Region == [begin |-> local.begin, end |-> RegionEnd]

\* The region is consumed, whatever the callback answers.
ConsumeRegion ==
    /\ last_skipped_region' = Region
    /\ last_record_is_valid' = FALSE
    /\ current_decoder' = 0
    /\ next_chunk_file_pos' = Region.end
    /\ \/ NoIoError /\ at_eof' = FALSE
       \/ IoError /\ at_eof' = TRUE   \* the seek to the end failed

\* The callback is asked; the operation goes on behind the region if its
\* answer is true.
ReportRegion ==
    LET region == Region
    IN  /\ pc = "region" /\ op \in {"new", "read_record", "seek", "seek_numeric"}
        /\ ConsumeRegion
        /\ regions' = regions \cup {region}
        /\ \/ /\ Return("error") /\ pos' = pos
              /\ from' = IF op = "seek_numeric" THEN region.begin ELSE from
           \/ /\ ResumeAt(region.end)
              /\ from' = IF op = "seek_numeric" THEN Sought ELSE from
        /\ UNCHANGED <<file, recovery, len, current_chunk_begin, current_record_index,
                       last_pos, stream_len, pending_trusted_end, delivered, seeks>>

---------------------------------------------------------------------------
\* The writer appends to the file.
Grow ==
    /\ pc # "gone"
    /\ len' \in {n \in lengths : n > len}
    /\ UNCHANGED <<file, recovery, cursor, pos, last_pos, flags, stream_len, skips, control,
                   history>>

Step == \/ Open \/ Preamble \/ TakeRecord \/ LoadHeader \/ LoadData
        \/ MeasureOrigin \/ ResolveScanOrigin \/ PeekHeader
        \/ Recover \/ Resync \/ ReportRegion

Next == Step \/ ReadRecord \/ Seek \/ SeekNumeric \/ Grow
          \/ (pc = "gone" /\ UNCHANGED vars)

\* Operations are sequential code, the caller keeps reading, and the file
\* is finished in the end.
Spec == /\ Init /\ [][Next]_vars
        /\ WF_vars(Step) /\ WF_vars(ReadRecord) /\ WF_vars(Grow)

---------------------------------------------------------------------------
(* Properties *)

\* The types of the reader's fields, locals and history: positions are u64,
\* so no seek computes an index below 0, and the decoder is one of the file's
\* chunks.
TypeOK ==
    /\ len \in lengths /\ recovery \in BOOLEAN
    /\ current_chunk_begin \in Nat /\ next_chunk_file_pos \in Nat
    /\ current_decoder \in 0 .. Len(Chunks) /\ current_record_index \in Nat
    /\ pos \in [chunk_begin : Nat, record_index : Nat]
    /\ last_pos \in [chunk_begin : Nat, record_index : Nat]
    /\ at_eof \in BOOLEAN /\ last_record_is_valid \in BOOLEAN
    /\ stream_len \in Nat
    /\ last_skipped_region \in [begin : Nat, end : Nat] \cup {NoRegion}
    /\ pending_trusted_end \in Nat \cup {None}
    /\ op \in {"none", "new", "read_record", "seek", "seek_numeric"}
    /\ pc \in {"open", "preamble", "idle", "gone", "record", "header", "data",
               "measure", "origin", "peek", "recover", "resync", "region"}
    /\ local \in [chunk : 0 .. Len(Chunks), at : Nat, begin : Nat,
                  boundary : Nat, end : Nat, target : Nat, index : Nat,
                  scan_pos : Nat]
    /\ result \in {"none", "ok", "record", "eof", "error"}
    /\ from \in Nat /\ delivered \subseteq Nat
    /\ regions \subseteq [begin : Nat, end : Nat]

FileEnd == CHOOSE n \in lengths : \A m \in lengths : m <= n

\* A chunk of records that nothing has happened to.
IntactRecords(c) ==
    /\ c.type = "simple" /\ c.header_ok /\ c.data_ok /\ c.decodes
    /\ \A b \in BoundariesIn(c.begin, End(c)) : ValidBlock(b)

InRegion(c, region) == c.begin < region.end /\ region.begin < End(c)

(***************************************************************************)
(* Nothing is lost silently and nothing is returned twice: of the records  *)
(* between the position that was sought (or the beginning) and the cursor, *)
(* exactly those have been returned whose chunk no reported region         *)
(* touches.  (read_record: "skipping a chunk with records would lose data  *)
(* silently"; seek: the index "must NOT skip records of that following     *)
(* chunk".)  Through damage, truncation, growth and seeks.                 *)
(***************************************************************************)
ReadsExactly ==
    pc = "idle" =>
      /\ \A i \in DOMAIN Chunks : \A k \in 0 .. (Chunk(i).num_records - 1) :
           LET n == Chunk(i).begin + k
           IN  from <= n /\ n < Cursor /\ IntactRecords(Chunk(i)) =>
                 n \in delivered \/ \E r \in regions : InRegion(Chunk(i), r)
      /\ \A n \in delivered : from <= n /\ n < Cursor

(***************************************************************************)
(* Records are returned in file order, each once: a record returned lies   *)
(* behind every record returned since the last seek.                       *)
(***************************************************************************)
ReturnsInOrder ==
    [][pc = "record" /\ result' = "record" /\ pc' = "idle" =>
         \A m \in delivered : m < Numeric(last_pos')]_vars

(***************************************************************************)
(* "Regions reported during forward reads never overlap"                   *)
(* (report_region_at): a region begins at or behind the end of the one     *)
(* reported before it, and is not empty.  With a callback that cancels,    *)
(* this is also "never re-invoked for a region it rejected".               *)
(***************************************************************************)
RegionsAdvance ==
    [][~(regions' \subseteq regions) =>
         /\ last_skipped_region'.begin < last_skipped_region'.end
         /\ regions # {} => last_skipped_region.end <= last_skipped_region'.begin]_vars

\* Damage to a chunk, for good: truncation of a growing file is not.
Damaged(c) ==
    \/ ~c.header_ok \/ Rejected(c)
    \/ \E b \in BoundariesIn(c.begin, DataEnd(c)) : ~ValidBlock(b)

(***************************************************************************)
(* Damage is reported only where there is damage: in a file that does not  *)
(* grow, every region covers part of a damaged or truncated chunk, unless  *)
(* a read has failed.  A numeric seek finds its way from any position, and *)
(* a seek to the address of a chunk stays on chunks.                       *)
(***************************************************************************)
RegionsCoverDamage ==
    lengths = {len} /\ io_errors = 0 =>
      \A r \in regions : \E i \in DOMAIN Chunks :
         /\ InRegion(Chunk(i), r)
         /\ Damaged(Chunk(i)) \/ End(Chunk(i)) > len

(***************************************************************************)
(* "A bare retry must re-hit this chunk" (load_next_chunk): without a      *)
(* recovery callback the reader does not move past damage.  However often  *)
(* it is called, it stays in front of a damaged chunk at or behind the     *)
(* position sought, so the error is returned again.                        *)
(***************************************************************************)
NeverPassesDamage ==
    pc = "idle" /\ ~recovery =>
      \A i \in DOMAIN Chunks :
         Damaged(Chunk(i)) /\ from <= Chunk(i).begin => Cursor <= Chunk(i).begin

(***************************************************************************)
(* However the file was damaged and however the callback answers, a caller *)
(* with a callback that keeps reading reaches the end of the finished file *)
(* (report_region_at: "forward progress no matter what").                  *)
(***************************************************************************)
ReachesEnd ==
    []<>(~recovery \/ pc = "gone" \/ (len = FileEnd /\ result = "eof"))

(***************************************************************************)
(* ReaderOptions::recovery: "The region's end() is exactly where the       *)
(* reader resumes: one bad chunk when its header is trustworthy [...], the *)
(* next block boundary otherwise."  A region ends at a block boundary, at  *)
(* a chunk, or at the end of the file.                                     *)
(***************************************************************************)
RegionsEndAtResync ==
    [][~(regions' \subseteq regions) =>
         LET end == last_skipped_region'.end
         IN  is_block_boundary(end) \/ ChunkAt(end) # {} \/ end >= len]_vars

---------------------------------------------------------------------------
(* The inductive invariants behind the properties. *)

\* Which operation a step belongs to.
OperationInv ==
    /\ pc \in {"idle", "gone"} => op = "none"
    /\ pc \in {"open", "preamble"} => op = "new"
    /\ pc = "record" => op = "read_record"
    /\ pc \in {"header", "data"} => op \in {"read_record", "seek"}
    /\ pc \in {"measure", "origin", "peek"} => op = "seek_numeric"
    /\ pc \in {"recover", "resync", "region"} =>
         op \in {"new", "read_record", "seek", "seek_numeric"}

\* Alone, the types are not inductive: the steps of an operation rely on the
\* ones before.
TypeInv ==
    /\ TypeOK /\ OperationInv
    /\ FileType(file)
    /\ stream_len <= len
    /\ pc = "data" => local.chunk # 0
    /\ pc \in {"open", "preamble", "header", "data"} => current_decoder = 0
    /\ pc \in {"recover", "resync", "region"} =>
         current_decoder = 0 \/ op = "seek_numeric"

(***************************************************************************)
(* For all files.  The chunk at hand is the one at the canonical address   *)
(* of the position, and no record returned lies at or behind the cursor.   *)
(***************************************************************************)
OrderInv ==
    /\ op \in {"new", "seek", "seek_numeric"} => delivered = {}
    /\ current_decoder # 0 =>
         /\ current_chunk_begin = Chunk(current_decoder).begin
         /\ canonical_chunk_address(current_chunk_begin) = current_chunk_begin
         /\ current_record_index <= Chunk(current_decoder).num_records
         /\ next_chunk_file_pos = End(Chunk(current_decoder))
    /\ pc = "data" =>
         Chunk(local.chunk).begin = canonical_chunk_address(next_chunk_file_pos)
    /\ pc \in {"recover", "resync", "region"} /\ op \in {"read_record", "seek"} =>
         canonical_chunk_address(local.at) = canonical_chunk_address(next_chunk_file_pos)
    /\ pc \in {"resync", "region"} =>
         canonical_chunk_address(local.at) <= local.begin /\ local.begin <= local.at
    /\ \A n \in delivered :
         n < IF current_decoder # 0 THEN current_chunk_begin + current_record_index
             ELSE canonical_chunk_address(next_chunk_file_pos)

(***************************************************************************)
(* A file as a writer lays it out, whatever was damaged since: chunks, and *)
(* the positions of their records, do not overlap, unless a header claims  *)
(* more than the file has; and a block header that still hashes leads past *)
(* no boundary where another says that a chunk begins.                     *)
(***************************************************************************)
Plausible(f, c) == \E n \in f.lengths : ClaimsFit(c, n)

Disjoint(f) ==
    \A i, j \in DOMAIN f.chunks :
      LET c == f.chunks[i]
          d == f.chunks[j]
      IN  /\ is_possible_chunk_boundary(c.begin)
          /\ c.begin = d.begin => i = j
          /\ c.begin < d.begin =>
               /\ FirstDataChunk <= d.begin
               /\ c.begin + c.num_records <= d.begin
               /\ Plausible(f, c) => End(c) <= d.begin
ChunksDisjoint == Disjoint(file)

\* A block header that says that a chunk begins at its boundary.
Opens(b) == ValidBlock(b) /\ blocks[b].previous_chunk = 0

Truthful(f) ==
    \A a, b \in DOMAIN f.blocks :
      f.blocks[a].ok /\ f.blocks[b].ok /\ f.blocks[b].previous_chunk = 0 /\ a < b =>
        a + f.blocks[a].next_chunk <= b
BlocksTruthful == Truthful(file)

(***************************************************************************)
(* More of a writer's layout: the chunks tile the file, the signature is   *)
(* empty, and a block header that still hashes leads back to the chunk its *)
(* boundary lies in, and on to where the next one begins.                  *)
(***************************************************************************)
ChunkOrEnd(f, p) ==
    (\E i \in DOMAIN f.chunks : f.chunks[i].begin = p) \/ \A n \in f.lengths : n <= p

Leads(f, b) ==
    \E i \in DOMAIN f.chunks :
      LET c == f.chunks[i]
      IN  /\ c.begin + f.blocks[b].previous_chunk = b
          /\ \A j \in DOMAIN f.chunks : f.chunks[j].begin <= b => f.chunks[j].begin <= c.begin
          /\ Plausible(f, c) => b + f.blocks[b].next_chunk = End(c)
          /\ ChunkOrEnd(f, b + f.blocks[b].next_chunk)

Tiled(f) ==
    /\ \A i \in DOMAIN f.chunks : Plausible(f, f.chunks[i]) => ChunkOrEnd(f, End(f.chunks[i]))
    /\ \A n \in f.lengths : \A p \in 0 .. (n - 1) :
         \E i \in DOMAIN f.chunks : f.chunks[i].begin <= p /\ p < End(f.chunks[i])
    /\ Plausible(f, f.chunks[1]) => f.chunks[1].data_size = 0 /\ f.chunks[1].num_records = 0
    /\ \A b \in DOMAIN f.blocks : f.blocks[b].ok => Leads(f, b)
FileTiled == Tiled(file)

\* Callers seek to addresses of chunks.
AddressesOfChunks == \A a \in Addresses : ChunkAt(canonical_chunk_address(a)) # {}

\* boundary + BlockHeaderSize, where no chunk begins at the boundary.
Settled(p) == p % BlockSize = BlockHeaderSize => ~Opens(p - BlockHeaderSize)

\* The chunk at hand has been found at the length the file has now.
FoundInv ==
    /\ pc = "data" =>
         HeaderReadable(Chunk(local.chunk)) /\ ClaimsFit(Chunk(local.chunk), len)
    /\ current_decoder # 0 =>
         /\ ~Damaged(Chunk(current_decoder))
         /\ HasRecords(Chunk(current_decoder))
         /\ ClaimsFit(Chunk(current_decoder), len)

(***************************************************************************)
(* For files with BlocksTruthful.  A region never ends at the alias of a   *)
(* chunk that can be read, so the position does not fall behind the last   *)
(* region when it is canonicalised.                                        *)
(***************************************************************************)
AdvanceInv ==
    /\ Settled(next_chunk_file_pos)
    /\ pc = "peek" => Settled(local.scan_pos)
    /\ pending_trusted_end # None => pending_trusted_end % BlockSize # BlockHeaderSize
    /\ pc = "resync" =>
         /\ is_block_boundary(local.boundary) /\ local.begin < local.boundary
         /\ \A b \in DOMAIN blocks :
              is_block_boundary(b) /\ local.begin < b /\ b < local.boundary => ~Opens(b)
    /\ pc = "region" /\ local.begin < local.end - BlockHeaderSize =>
         Settled(local.end)
    /\ pc \in {"open", "preamble", "measure", "origin"} \/ op = "new" => regions = {}
    /\ pc \in {"recover", "resync", "region"} =>
         /\ op \in {"read_record", "seek"} => local.at = next_chunk_file_pos
         /\ op = "seek_numeric" => local.at = local.scan_pos
         /\ op = "new" => local.at = 0
    /\ regions # {} =>
         /\ last_skipped_region # NoRegion
         /\ last_skipped_region.end <= next_chunk_file_pos
         /\ op = "seek_numeric" => last_skipped_region.end <= local.scan_pos
         /\ pc \in {"resync", "region"} => last_skipped_region.end <= local.begin

\* Without a callback, for files with ChunksDisjoint.
PassInv ==
    ~recovery =>
      /\ pc \notin {"resync", "region"}
      /\ pc \in {"open", "preamble"} => next_chunk_file_pos = FirstDataChunk
      /\ pc \notin {"open", "preamble", "gone"} /\ op # "new" =>
           \A i \in DOMAIN Chunks :
             Damaged(Chunk(i)) /\ from <= Chunk(i).begin =>
               next_chunk_file_pos <= Chunk(i).begin
      /\ pc = "peek" =>
           \A i \in DOMAIN Chunks :
             Damaged(Chunk(i)) /\ Sought <= Chunk(i).begin =>
               local.scan_pos <= Chunk(i).begin

\* Every record in lo .. hi - 1 has been returned or lies in a region.
Accounted(lo, hi) ==
    \A i \in DOMAIN Chunks : \A k \in 0 .. (Chunk(i).num_records - 1) :
      LET n == Chunk(i).begin + k
      IN  lo <= n /\ n < hi /\ IntactRecords(Chunk(i)) =>
            n \in delivered \/ \E r \in regions : InRegion(Chunk(i), r)

\* The chunk that a numeric seek has found and is about to load: the record
\* sought is not its first.
SoughtIn(i) ==
    /\ op = "seek" /\ pc \in {"header", "data", "recover", "resync", "region"}
    /\ Chunk(i).begin = next_chunk_file_pos /\ next_chunk_file_pos = local.target
    /\ next_chunk_file_pos < len
    /\ from = Chunk(i).begin + local.index
    /\ local.index <= Chunk(i).num_records

(***************************************************************************)
(* For files with ChunksDisjoint and BlocksTruthful.  What lies between    *)
(* the position sought and the cursor is accounted for, and so is what a   *)
(* numeric seek scans past; and nothing behind the cursor lies in front of *)
(* the position sought.                                                    *)
(***************************************************************************)
ExactInv ==
    /\ Accounted(from, Cursor)
    /\ op = "seek_numeric" /\ pc \in {"peek", "recover", "resync", "region"} =>
         FirstDataChunk <= local.scan_pos /\ Accounted(Sought, local.scan_pos)
    /\ \A n \in delivered : from <= n
    /\ current_decoder # 0 => from <= Cursor
    /\ pc \in {"measure", "origin"} => from = Cursor
    /\ op = "new" => from = 0
    /\ op # "seek_numeric" =>
         \A i \in DOMAIN Chunks :
           next_chunk_file_pos <= Chunk(i).begin => from <= Chunk(i).begin \/ SoughtIn(i)

\* A chunk that is damaged or cut off, and a position in one.
Bad(i) == Damaged(Chunk(i)) \/ End(Chunk(i)) > len
InBad(p) == \E i \in DOMAIN Chunks : Bad(i) /\ Chunk(i).begin <= p /\ p < End(Chunk(i))

\* Where the reader may look for a chunk.
Stands(p) == len <= p \/ ChunkAt(canonical_chunk_address(p)) # {} \/ InBad(p)

(***************************************************************************)
(* For files with ChunksDisjoint and FileTiled that do not grow, while no *)
(* read has failed.  The reader looks for chunks where one begins, in a    *)
(* bad one or behind the end; so an address that fails lies in a bad one.  *)
(***************************************************************************)
CoverNow ==
    /\ pc # "open" => stream_len = len
    /\ Stands(next_chunk_file_pos)
    /\ pending_trusted_end # None => Stands(pending_trusted_end)
    /\ pc = "peek" => Stands(local.scan_pos)
    /\ pc \in {"recover", "resync", "region"} => InBad(local.at)
    /\ pc = "resync" => is_block_boundary(local.boundary)
    /\ pc = "region" => Stands(local.end)
    /\ \A r \in regions : \E i \in DOMAIN Chunks : InRegion(Chunk(i), r) /\ Bad(i)
CoverInv == io_errors \in Nat /\ (lengths = {len} /\ io_errors = 0 => CoverNow)
=============================================================================
