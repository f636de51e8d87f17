---------------------------- MODULE RecordWriter ----------------------------
(***************************************************************************)
(* RecordWriter (record_writer.rs): batches records into chunks and lays   *)
(* the chunks out on an append-only stream, with a block header at every   *)
(* block boundary.                                                         *)
(*                                                                         *)
(* The unit of interleaving with the outside world is one call on the      *)
(* underlying `writer: W`: every write_all is a step of its own and may    *)
(* fail after part of its bytes have reached the stream.  A public         *)
(* operation (new, write_record, flush, close, drop) is the sequence of    *)
(* steps from its call to its return; between operations pc = "idle".      *)
(*                                                                         *)
(* The stream is modelled by its length and by what its bytes mean: which  *)
(* block header stands at which boundary, and which chunks are complete.   *)
(* A record is the number of the write_record call that accepted it; its   *)
(* size, and the size its chunk is encoded to, are inputs.                 *)
(***************************************************************************)
EXTENDS BlockArithmetic, Sequences

CONSTANTS
    ChunkSize,     \* options.chunk_size
    FinalPadding,  \* options.final_padding, 0 when unset
    WithMetadata,  \* options.metadata is Some(_)
    RecordSizes,   \* bound: sizes of the records written
    DataSizes,     \* bound: sizes a chunk's records may be encoded to
    MaxRecords     \* bound: number of records accepted

ASSUME WriterAssumption ==
    /\ ChunkSize \in Nat
    /\ FinalPadding \in Nat
    /\ WithMetadata \in BOOLEAN
    /\ RecordSizes \subseteq Nat
    /\ DataSizes \subseteq Nat
    /\ MaxRecords \in Nat
    \* new() lays the signature chunk out in the first block.
    /\ ChunkHeaderSize <= USABLE_BLOCK_SIZE

VARIABLES
    (* fields of struct RecordWriter *)
    file_pos,           \* where the writer believes the stream ends
    last_chunk_start,
    encoder,            \* records handed to the active encoder
    accumulated_bytes,  \* accounted size of the chunk being built
    pending_record_count,
    closed,
    failed,             \* the failure latch
    (* the operation in progress *)
    op,                 \* the public operation, "none" between operations
    pc,                 \* its next step
    after,              \* the step that follows the chunk being written
    added_size,         \* write_record_impl's local
    chunk,              \* the chunk being written by write_chunk_raw
    (* the stream *)
    len,                \* bytes the stream has accepted
    blocks,             \* block boundary |-> block header written there
    chunks,             \* complete chunks, in file order
    published,          \* records of the complete chunks, in file order
    synced,             \* how many were published at the last writer.flush()
    (* history *)
    accepted,           \* number of records that entered an encoder
    io_error            \* some call on the stream has returned an error

fields   == <<file_pos, last_chunk_start, encoder, accumulated_bytes,
              pending_record_count, closed, failed>>
control  == <<op, pc, after, added_size, chunk>>
stream   == <<len, blocks, chunks, published, synced>>
history  == <<accepted, io_error>>
vars     == <<fields, control, stream, history>>

RecordOverhead == 8  \* accounted per record on top of its size

\* The writer object is gone: new() failed, or it was closed or dropped.
Gone == pc = "gone"

NoChunk == [type |-> "none", begin |-> 0, end |-> 0, size |-> 0,
            offset |-> 0, recs |-> <<>>, accounted |-> 0]

WithBlock(f, boundary, hdr) ==
    [b \in DOMAIN f \cup {boundary} |-> IF b = boundary THEN hdr ELSE f[b]]

---------------------------------------------------------------------------
(* The end of an operation. *)

\* new() hands the writer to the caller.  close() consumes it: Drop runs when it
\* has returned, Ok or Err, and is what flush_internal is entered for again.
Leave ==
    \/ op = "close" /\ op' = "drop" /\ pc' = "flush_internal"
    \/ op = "drop" /\ op' = "none" /\ pc' = "gone"
    \/ op \notin {"close", "drop"} /\ op' = "none" /\ pc' = "idle"

Return ==
    /\ Leave
    /\ chunk' = NoChunk
    /\ UNCHANGED <<after, added_size>>

\* Mutant: the error is returned to the caller and not latched.
Fail_NotLatched ==
    /\ Leave
    /\ chunk' = NoChunk
    /\ UNCHANGED <<after, added_size, failed>>

(***************************************************************************)
(* An error return.  write_record, flush and flush_internal latch it.      *)
(* new() does not: `?` drops the half-built writer, and Drop runs          *)
(* flush_internal on it (the signature is written before the writer        *)
(* exists, so an error there just ends new()).                             *)
(***************************************************************************)
Fail ==
    /\ chunk' = NoChunk
    /\ UNCHANGED <<after, added_size>>
    /\ IF op = "new"
       THEN /\ failed' = failed
            /\ IF pc \in {"block_header", "signature"}
               THEN op' = "none" /\ pc' = "gone"
               ELSE op' = "drop" /\ pc' = "flush_internal"
       ELSE failed' = TRUE /\ Leave

\* A write_all of n bytes that fails after k < n of them.
FailedWrite(n) ==
    /\ \E k \in 0 .. (n - 1) : len' = len + k
    /\ io_error' = TRUE
    /\ Fail
    /\ UNCHANGED <<file_pos, last_chunk_start, encoder, accumulated_bytes,
                   pending_record_count, closed, blocks, chunks,
                   published, synced, accepted>>

---------------------------------------------------------------------------
(* new *)

SignatureEnd == BlockHeaderSize + ChunkHeaderSize

Init ==
    /\ file_pos = 0 /\ last_chunk_start = 0
    /\ encoder = <<>> /\ accumulated_bytes = 0 /\ pending_record_count = 0
    /\ closed = FALSE /\ failed = FALSE
    /\ op = "new" /\ pc = "block_header" /\ after = "return"
    /\ added_size = 0 /\ chunk = NoChunk
    /\ len = 0 /\ blocks = << >> /\ chunks = << >>
    /\ published = <<>> /\ synced = 0
    /\ accepted = 0 /\ io_error = FALSE

NewBlockHeader ==
    /\ pc = "block_header"
    /\ \/ /\ blocks' = WithBlock(blocks, len, [prev |-> 0, next |-> SignatureEnd])
          /\ len' = len + BlockHeaderSize
          /\ file_pos' = BlockHeaderSize
          /\ pc' = "signature"
          /\ UNCHANGED <<last_chunk_start, encoder, accumulated_bytes,
                         pending_record_count, closed, failed, op, after,
                         added_size, chunk, chunks, published, synced, history>>
       \/ FailedWrite(BlockHeaderSize)

NewSignature ==
    /\ pc = "signature"
    /\ \/ /\ chunks' = << [type |-> "signature", begin |-> 0,
                            end |-> SignatureEnd, num_records |-> 0] >>
          /\ len' = len + ChunkHeaderSize
          /\ file_pos' = file_pos + ChunkHeaderSize
          /\ IF WithMetadata THEN op' = op /\ pc' = "metadata"
                             ELSE op' = "none" /\ pc' = "idle"
          /\ UNCHANGED <<last_chunk_start, encoder, accumulated_bytes,
                         pending_record_count, closed, failed, after,
                         added_size, chunk, blocks, published, synced, history>>
       \/ FailedWrite(ChunkHeaderSize)

---------------------------------------------------------------------------
(* write_chunk_raw *)

\* Its first part: place the chunk and fix its extent.
StartChunk(type, recs, data_size, then) ==
    /\ chunk' = [type   |-> type,
                 begin  |-> file_pos,
                 end    |-> chunk_end(file_pos, data_size, Len(recs)),
                 size   |-> ChunkHeaderSize + data_size,
                 offset |-> 0,
                 recs   |-> recs,
                 accounted |-> accumulated_bytes]
    /\ last_chunk_start' = file_pos
    /\ pc' = "data"
    /\ after' = then
    /\ UNCHANGED <<op, added_size>>

\* The optional FileMetadata chunk: its own encoder, no records.
WriteMetadata ==
    /\ pc = "metadata"
    /\ \/ /\ \E data_size \in DataSizes :
                StartChunk("metadata", <<>>, data_size, "return")
          /\ UNCHANGED <<file_pos, encoder, accumulated_bytes,
                         pending_record_count, closed, failed, stream, history>>
       \/ /\ Fail  \* metadata_encoder failed
          /\ UNCHANGED <<file_pos, last_chunk_start, encoder, accumulated_bytes,
                         pending_record_count, closed, stream, history>>

AtBoundary ==
    /\ \/ pc = "data" /\ chunk.offset < chunk.size
       \/ pc = "pad" /\ file_pos < chunk.end
    /\ is_block_boundary(file_pos)

\* Mutant: absolute positions in place of distances from the boundary.
WriteBlockHeader_Absolute ==
    /\ AtBoundary
    /\ blocks' = WithBlock(blocks, len, [prev |-> chunk.begin,
                                         next |-> chunk.end])
    /\ len' = len + BlockHeaderSize
    /\ file_pos' = file_pos + BlockHeaderSize
    /\ UNCHANGED <<last_chunk_start, encoder, accumulated_bytes,
                   pending_record_count, closed, failed, control,
                   chunks, published, synced, history>>

\* A block header inside or in front of the chunk, in either loop.
WriteBlockHeader ==
    /\ AtBoundary
    /\ \/ /\ blocks' = WithBlock(blocks, len, [prev |-> file_pos - chunk.begin,
                                               next |-> chunk.end - file_pos])
          /\ len' = len + BlockHeaderSize
          /\ file_pos' = file_pos + BlockHeaderSize
          /\ UNCHANGED <<last_chunk_start, encoder, accumulated_bytes,
                         pending_record_count, closed, failed, control,
                         chunks, published, synced, history>>
       \/ FailedWrite(BlockHeaderSize)

\* write_bytes_with_block_headers: header and data bytes up to the boundary.
WriteBytes ==
    LET space_in_block == BlockSize - (file_pos % BlockSize)
        to_write == Smaller(chunk.size - chunk.offset, space_in_block)
    IN  /\ pc = "data"
        /\ ~is_block_boundary(file_pos)
        /\ \/ /\ len' = len + to_write
              /\ file_pos' = file_pos + to_write
              /\ chunk' = [chunk EXCEPT !.offset = @ + to_write]
              /\ pc' = IF chunk'.offset < chunk.size THEN "data" ELSE "pad"
              /\ UNCHANGED <<last_chunk_start, encoder, accumulated_bytes,
                             pending_record_count, closed, failed, op, after,
                             added_size, blocks, chunks, published, synced,
                             history>>
           \/ FailedWrite(to_write)

\* Mutant: the zeros run to the end of the block, past the chunk's end.
WriteZeros_ToBlockEnd ==
    LET to_write == BlockSize - (file_pos % BlockSize)
    IN  /\ pc = "pad"
        /\ file_pos < chunk.end
        /\ ~is_block_boundary(file_pos)
        /\ len' = len + to_write
        /\ file_pos' = file_pos + to_write
        /\ UNCHANGED <<last_chunk_start, encoder, accumulated_bytes,
                       pending_record_count, closed, failed, control,
                       blocks, chunks, published, synced, history>>

\* The zeros behind the data of a chunk with more records than bytes.
WriteZeros ==
    LET space_in_block == BlockSize - (file_pos % BlockSize)
        to_write == Smaller(chunk.end - file_pos, space_in_block)
    IN  /\ pc = "pad"
        /\ file_pos < chunk.end
        /\ ~is_block_boundary(file_pos)
        /\ \/ /\ len' = len + to_write
              /\ file_pos' = file_pos + to_write
              /\ UNCHANGED <<last_chunk_start, encoder, accumulated_bytes,
                             pending_record_count, closed, failed, control,
                             blocks, chunks, published, synced, history>>
           \/ FailedWrite(to_write)

\* write_chunk_raw returns Ok.
ChunkWritten ==
    /\ pc = "pad"
    /\ file_pos >= chunk.end
    /\ chunks' = Append(chunks, [type |-> chunk.type, begin |-> chunk.begin,
                                 end |-> chunk.end,
                                 num_records |-> Len(chunk.recs)])
    /\ published' = published \o chunk.recs
    /\ IF after = "return"
       THEN Return
       ELSE /\ pc' = after
            /\ chunk' = NoChunk
            /\ UNCHANGED <<op, after, added_size>>
    /\ UNCHANGED <<fields, len, blocks, synced, history>>

---------------------------------------------------------------------------
(* flush_chunk: encode the pending records, then write_chunk_raw. *)

\* Mutant: the encoder is not replaced by a fresh one.
FlushChunk_KeepsEncoder ==
    /\ pc = "flush_chunk"
    /\ accumulated_bytes' = 0
    /\ pending_record_count' = 0
    /\ \E data_size \in DataSizes : StartChunk("data", encoder, data_size, after)
    /\ UNCHANGED <<file_pos, encoder, closed, failed, stream, history>>

FlushChunk ==
    /\ pc = "flush_chunk"
    /\ encoder' = <<>>
    /\ accumulated_bytes' = 0
    /\ pending_record_count' = 0
    /\ \/ /\ \E data_size \in DataSizes :
                StartChunk("data", encoder, data_size, after)
          /\ failed' = failed
       \/ Fail /\ last_chunk_start' = last_chunk_start  \* encode() failed
    /\ UNCHANGED <<file_pos, closed, stream, history>>

---------------------------------------------------------------------------
(* write_record *)

\* Mutant: no flush before a record that does not fit.
WriteRecord_NoFlushBefore(size) ==
    /\ pc = "idle" /\ ~closed /\ ~failed
    /\ accepted < MaxRecords
    /\ op' = "write_record"
    /\ added_size' = size + RecordOverhead
    /\ pc' = "add"
    /\ UNCHANGED <<fields, after, chunk, stream, history>>

WriteRecord(size) ==
    /\ pc = "idle" /\ ~closed /\ ~failed
    /\ accepted < MaxRecords
    /\ op' = "write_record"
    /\ added_size' = size + RecordOverhead
    /\ IF /\ accumulated_bytes + size + RecordOverhead > ChunkSize
          /\ accumulated_bytes > 0
       THEN pc' = "flush_chunk" /\ after' = "add"
       ELSE pc' = "add" /\ after' = after
    /\ UNCHANGED <<fields, chunk, stream, history>>

\* encoder.add_record, and the flush when not even an empty record fits.
AddRecord ==
    /\ pc = "add"
    /\ accumulated_bytes' = accumulated_bytes + added_size
    /\ pending_record_count' = pending_record_count + 1
    /\ UNCHANGED <<file_pos, last_chunk_start, closed, stream, io_error>>
    /\ \/ /\ encoder' = Append(encoder, accepted + 1)
          /\ accepted' = accepted + 1
          /\ failed' = failed
          /\ IF accumulated_bytes' + RecordOverhead > ChunkSize
             THEN /\ pc' = "flush_chunk" /\ after' = "return"
                  /\ UNCHANGED <<op, added_size, chunk>>
             ELSE Return
       \/ Fail /\ UNCHANGED <<encoder, accepted>>  \* the encoder refused it

---------------------------------------------------------------------------
(* flush, close, drop *)

\* Mutant: pending records are forgotten.
StartFlush_PaddingOnly == "padding"

StartFlush == IF pending_record_count > 0 THEN "flush_chunk" ELSE "padding"

Flush ==
    /\ pc = "idle" /\ ~closed /\ ~failed
    /\ op' = "flush"
    /\ pc' = StartFlush
    /\ after' = "padding"
    /\ UNCHANGED <<fields, added_size, chunk, stream, history>>

Close ==
    /\ pc = "idle"
    /\ op' \in {"close", "drop"}
    /\ pc' = "flush_internal"
    /\ UNCHANGED <<fields, after, added_size, chunk, stream, history>>

\* Mutant: closed is set but not looked at.
FlushInternal_Again ==
    /\ pc = "flush_internal"
    /\ closed' = TRUE
    /\ IF failed THEN Leave /\ after' = after
                 ELSE op' = op /\ pc' = StartFlush /\ after' = "padding"
    /\ UNCHANGED <<file_pos, last_chunk_start, encoder, accumulated_bytes,
                   pending_record_count, failed, added_size, chunk, stream,
                   history>>

\* Drop behind close() finds the writer closed and returns at once.
FlushInternal ==
    /\ pc = "flush_internal"
    /\ closed' = TRUE
    /\ IF closed \/ failed
       THEN Leave /\ after' = after
       ELSE op' = op /\ pc' = StartFlush /\ after' = "padding"
    /\ UNCHANGED <<file_pos, last_chunk_start, encoder, accumulated_bytes,
                   pending_record_count, failed, added_size, chunk, stream,
                   history>>

(***************************************************************************)
(* write_padding_to_multiple: pos_after_padding grows the end of the       *)
(* padding chunk in steps of final_padding, one step per iteration.  Its   *)
(* first loop, which makes room for a chunk header, is the same search:    *)
(* a span with a chunk header of usable bytes is at least that long.       *)
(***************************************************************************)
StartPadding ==
    /\ pc = "padding"
    /\ IF FinalPadding <= 1 \/ file_pos % FinalPadding = 0
       THEN pc' = "sync" /\ chunk' = chunk
       ELSE /\ pc' = "pad_search"
            /\ chunk' = [NoChunk EXCEPT
                 !.begin = file_pos,
                 !.end = file_pos + FinalPadding - (file_pos % FinalPadding)]
    /\ UNCHANGED <<fields, op, after, added_size, stream, history>>

PaddingFits ==
    /\ is_possible_chunk_boundary(chunk.end)
    /\ distance_without_overhead(chunk.begin, chunk.end) >= ChunkHeaderSize

\* Mutant: the search does not grow the span when it does not fit.
SearchPadding_NoGrowth ==
    /\ pc = "pad_search"
    /\ IF PaddingFits
       THEN StartChunk("padding", <<>>,
                distance_without_overhead(chunk.begin, chunk.end) - ChunkHeaderSize,
                "sync")
       ELSE UNCHANGED <<last_chunk_start, control>>
    /\ UNCHANGED <<file_pos, encoder, accumulated_bytes, pending_record_count,
                   closed, failed, stream, history>>

SearchPadding ==
    /\ pc = "pad_search"
    /\ IF PaddingFits
       THEN StartChunk("padding", <<>>,
                distance_without_overhead(chunk.begin, chunk.end) - ChunkHeaderSize,
                "sync")
       ELSE /\ chunk' = [chunk EXCEPT !.end = @ + FinalPadding]
            /\ UNCHANGED <<last_chunk_start, op, pc, after, added_size>>
    /\ UNCHANGED <<file_pos, encoder, accumulated_bytes, pending_record_count,
                   closed, failed, stream, history>>

\* writer.flush()
Sync ==
    /\ pc = "sync"
    /\ \/ /\ synced' = Len(published)
          /\ Return
          /\ UNCHANGED <<failed, io_error>>
       \/ /\ io_error' = TRUE
          /\ Fail
          /\ synced' = synced
    /\ UNCHANGED <<file_pos, last_chunk_start, encoder, accumulated_bytes,
                   pending_record_count, closed, len, blocks, chunks,
                   published, accepted>>

---------------------------------------------------------------------------
\* A step of the operation in progress.
Step ==
    \/ NewBlockHeader \/ NewSignature \/ WriteMetadata
    \/ WriteBlockHeader \/ WriteBytes \/ WriteZeros \/ ChunkWritten
    \/ FlushChunk \/ AddRecord
    \/ FlushInternal \/ StartPadding \/ SearchPadding \/ Sync

\* The caller invokes an operation.
Call ==
    \/ \E size \in RecordSizes : WriteRecord(size)
    \/ Flush
    \/ Close

Next == Step \/ Call \/ (Gone /\ UNCHANGED vars)

\* Operations are sequential code: once called they keep taking steps.
Spec == Init /\ [][Next]_vars /\ WF_vars(Step)

---------------------------------------------------------------------------
(* Properties *)

InChunk == pc \in {"data", "pad"}

\* The types of the writer's fields, of the operation in progress and of the
\* stream.
TypeOK ==
    /\ file_pos \in Nat /\ last_chunk_start \in Nat /\ len \in Nat
    /\ accumulated_bytes \in Nat /\ pending_record_count \in Nat
    /\ encoder \in Seq(Nat) /\ published \in Seq(Nat)
    /\ closed \in BOOLEAN /\ failed \in BOOLEAN /\ io_error \in BOOLEAN
    /\ op \in {"none", "new", "write_record", "flush", "close", "drop"}
    /\ pc \in {"block_header", "signature", "metadata", "idle", "gone", "data",
               "pad", "flush_chunk", "add", "flush_internal", "padding",
               "pad_search", "sync"}
    /\ after \in {"return", "add", "padding", "sync"}
    /\ added_size \in Nat
    /\ chunk \in [type : {"none", "metadata", "data", "padding"},
                  begin : Nat, end : Nat, size : Nat, offset : Nat,
                  recs : Seq(Nat), accounted : Nat]
    /\ DOMAIN blocks \subseteq Nat
    /\ \A b \in DOMAIN blocks : blocks[b] \in [prev : Nat, next : Nat]
    /\ chunks \in Seq([type : {"signature", "metadata", "data", "padding"},
                       begin : Nat, end : Nat, num_records : Nat])
    /\ synced \in Nat /\ accepted \in Nat

(***************************************************************************)
(* While no call on the stream has failed, file_pos is the true length of  *)
(* the stream; and it never runs past the end write_chunk_raw computed     *)
(* for the chunk in progress: the data of a chunk, its zeros and the block *)
(* headers between them fill begin .. end exactly.  ("A counter that       *)
(* doesn't account for them overshoots the chunk end", write_chunk_raw.)   *)
(***************************************************************************)
PositionTracksStream ==
    /\ ~io_error => file_pos = len
    /\ InChunk => chunk.begin <= file_pos /\ file_pos <= chunk.end

(***************************************************************************)
(* The complete chunks tile the file from 0: each begins, at a position    *)
(* where a chunk may begin, where the one before it ends, and the next     *)
(* chunk is placed at the end of the last.                                 *)
(***************************************************************************)
ChunksTile ==
    /\ \A i \in DOMAIN chunks :
         /\ is_possible_chunk_boundary(chunks[i].begin)
         /\ chunks[i].begin < chunks[i].end
         /\ chunks[i].begin = IF i = 1 THEN 0 ELSE chunks[i - 1].end
    /\ pc \notin {"block_header", "signature"} /\ ~io_error /\ chunks # <<>> =>
         IF InChunk THEN chunk.begin = chunks[Len(chunks)].end
                    ELSE file_pos = chunks[Len(chunks)].end

\* The chunks on the stream and the one being written.
Extents ==
    {[begin |-> chunks[i].begin, end |-> chunks[i].end] : i \in DOMAIN chunks}
      \cup (IF InChunk THEN {[begin |-> chunk.begin, end |-> chunk.end]} ELSE {})
      \cup (IF pc = "signature" THEN {[begin |-> 0, end |-> SignatureEnd]} ELSE {})

(***************************************************************************)
(* Every block boundary the stream has passed carries a block header, and  *)
(* the header leads to a chunk that covers the boundary: previous_chunk to *)
(* its begin and next_chunk to its end.  A reader that lands on any block  *)
(* resynchronises through these two distances.                             *)
(***************************************************************************)
BlockHeadersLead ==
    ~io_error =>
      \A b \in 0 .. (len - 1) : is_block_boundary(b) =>
         /\ b \in DOMAIN blocks
         /\ \E e \in Extents :
              /\ e.begin = b - blocks[b].prev /\ e.begin <= b
              /\ e.end = b + blocks[b].next /\ b < e.end

(***************************************************************************)
(* Each record owns a file position: record i of a chunk has the numeric   *)
(* position begin + i, and the positions of a chunk stay below the begin   *)
(* of the next one, however small the records were compressed.             *)
(***************************************************************************)
RecordPositionsDisjoint ==
    \A i \in DOMAIN chunks :
        chunks[i].begin + chunks[i].num_records <= chunks[i].end

(***************************************************************************)
(* No record is lost, duplicated or reordered on its way from the encoder  *)
(* through write_chunk_raw to the stream while nothing has failed.         *)
(***************************************************************************)
InOrder == [i \in 1 .. accepted |-> i]
RecordsConserved ==
    ~failed /\ ~io_error => published \o chunk.recs \o encoder = InOrder

(***************************************************************************)
(* The flush policy of write_record_impl: a chunk of several records is    *)
(* accounted at most chunk_size, sizes and 8 bytes per record together, so *)
(* that num_records stays below chunk_size / 8 (it has 56 bits in the      *)
(* chunk header); and between operations there is room for one more empty  *)
(* record, or nothing pending.                                             *)
(***************************************************************************)
ChunkSizeRespected ==
    /\ InChunk => /\ Len(chunk.recs) > 1 => chunk.accounted <= ChunkSize
                  /\ RecordOverhead * Len(chunk.recs) <= chunk.accounted
    /\ pc = "idle" /\ ~failed =>
         \/ accumulated_bytes = 0
         \/ accumulated_bytes + RecordOverhead <= ChunkSize

(***************************************************************************)
(* "After this call, the file contains all records written so far and is   *)
(* in a valid, readable state" (flush): when flush or close reaches        *)
(* writer.flush() with no failure behind it, every accepted record is in a *)
(* complete chunk and the file length is a multiple of final_padding.      *)
(***************************************************************************)
FlushPublishesAll ==
    pc = "sync" /\ ~io_error =>
        /\ published = InOrder
        /\ FinalPadding > 0 => len % FinalPadding = 0

(***************************************************************************)
(* "A failed writer refuses all further operations: the stream may hold a  *)
(* partial chunk and file_pos may no longer match the true stream length"  *)
(* (struct RecordWriter): once a call on the stream has failed, no byte is *)
(* added to it.                                                            *)
(***************************************************************************)
NoWriteAfterError == [][io_error => len' = len]_vars

---------------------------------------------------------------------------
(* The inductive invariant behind the layout properties. *)

\* new() has written the signature chunk.
Started == pc \notin {"block_header", "signature"}

\* The first two write_alls of new().
StartInv ==
    /\ pc = "block_header" => /\ op = "new" /\ file_pos = 0 /\ chunks = <<>>
                              /\ ~io_error
    /\ pc = "signature" =>
         /\ op = "new" /\ file_pos = BlockHeaderSize /\ chunks = <<>>
         /\ ~io_error
    /\ Started /\ ~io_error => chunks # <<>>
    /\ op = "new" =>
         /\ pc \in {"block_header", "signature", "metadata", "data", "pad"}
         /\ pending_record_count = 0
         /\ Started => WithMetadata
         /\ InChunk => after = "return"

\* An error leaves nothing to do but to let the writer go.
ErrorInv ==
    /\ failed => pc \in {"idle", "flush_internal", "gone"}
    /\ io_error => /\ pc \in {"idle", "flush_internal", "gone", "padding", "sync"}
                   /\ \/ failed \/ pc = "gone"
                      \/ /\ WithMetadata /\ pending_record_count = 0
                         /\ op = "drop" /\ pc # "idle"

\* The chunk in progress: where its bytes go and how many have gone there.
ChunkInv ==
    InChunk =>
      /\ chunk.type # "none"
      /\ is_possible_chunk_boundary(chunk.begin)
      /\ is_possible_chunk_boundary(chunk.end)
      /\ chunk.size > 0
      /\ chunk.end >= add_with_overhead(chunk.begin, chunk.size)
      /\ chunk.end >= chunk.begin + Len(chunk.recs)
      /\ chunk.begin <= file_pos /\ file_pos <= chunk.end
      /\ chunk.begin < chunk.end
      /\ pc = "data" =>
           /\ chunk.offset < chunk.size
           /\ DataOffset(file_pos) = DataOffset(chunk.begin) + chunk.offset
           /\ is_block_boundary(file_pos) \/ file_pos % BlockSize >= BlockHeaderSize

\* The options under which an error in new() has no consequences: see
\* NoWriteAfterError.
OptionsSeparate == ~WithMetadata \/ FinalPadding <= 1

(***************************************************************************)
(* The invariant of write_chunk_raw and its callers: together the parts    *)
(* are preserved by every step of every operation, if OptionsSeparate or   *)
(* no call on the stream has failed.                                       *)
(* They tie the byte counter of write_bytes_with_block_headers to the      *)
(* position of the stream and both to the extent computed beforehand.      *)
(***************************************************************************)
WriterInv ==
    /\ TypeOK /\ StartInv /\ ErrorInv /\ ChunkInv
    /\ ~io_error => file_pos = len
    /\ Started /\ ~InChunk /\ ~io_error => is_possible_chunk_boundary(file_pos)
    /\ pc = "pad_search" => chunk.begin = file_pos /\ chunk.begin < chunk.end
    /\ ChunksTile
    /\ RecordPositionsDisjoint
    /\ BlockHeadersLead

---------------------------------------------------------------------------
(* The inductive invariant behind the records' properties. *)

RecordTypes ==
    /\ accepted \in Nat /\ synced \in Nat
    /\ encoder \in Seq(Nat) /\ published \in Seq(Nat)
    /\ accumulated_bytes \in Nat
    /\ {"recs", "accounted"} \subseteq DOMAIN chunk
    /\ chunk.recs \in Seq(Nat) /\ chunk.accounted \in Nat
    /\ failed \in BOOLEAN /\ io_error \in BOOLEAN

\* Which operation a step belongs to, and what follows its chunk.
OperationInv ==
    /\ pc \in {"idle", "gone"} => op = "none"
    /\ pc \in {"block_header", "signature", "metadata"} => op = "new"
    /\ pc = "add" => op = "write_record"
    /\ pc \in {"padding", "pad_search", "sync"} => op \in {"flush", "close", "drop"}
    /\ pc = "flush_internal" => op \in {"close", "drop"}
    /\ pc = "flush_chunk" =>
         \/ op = "write_record" /\ after \in {"return", "add"}
         \/ op \in {"flush", "close", "drop"} /\ after = "padding"
    /\ InChunk =>
         \/ op = "new" /\ after = "return"
         \/ op = "write_record" /\ after \in {"return", "add"}
         \/ op \in {"flush", "close", "drop"} /\ after \in {"padding", "sync"}

\* Nothing has happened to the log.
LogUntouched ==
    /\ accepted = 0 /\ synced = 0
    /\ published = <<>> /\ chunk.recs = <<>> /\ encoder = <<>>

\* A failed writer only waits to be dropped; after an error that is not
\* latched, which only new() has, no record was written.
FailureInv ==
    /\ failed => pc \in {"idle", "flush_internal", "gone"}
    /\ op = "new" => LogUntouched
    /\ io_error /\ ~failed /\ pc # "gone" => LogUntouched /\ op = "drop"

\* The batch in the encoder: counted, accounted, and gone when it was flushed.
BatchInv ==
    /\ ~InChunk => chunk.recs = <<>>
    /\ ~failed =>
         /\ pending_record_count = Len(encoder)
         /\ RecordOverhead * Len(encoder) <= accumulated_bytes
         /\ encoder = <<>> => accumulated_bytes = 0
         /\ Len(encoder) > 1 => accumulated_bytes <= ChunkSize
         /\ InChunk \/ pc \in {"padding", "pad_search", "sync"} => encoder = <<>>
         /\ pc = "flush_chunk" => encoder # <<>>
    /\ op = "write_record" => added_size \in Nat /\ added_size >= RecordOverhead
    /\ pc = "add" => encoder = <<>> \/ accumulated_bytes + added_size <= ChunkSize

(***************************************************************************)
(* The invariant of the records on their way to the stream, for all        *)
(* options.                                                                *)
(***************************************************************************)
RecordsInv ==
    /\ RecordTypes /\ OperationInv /\ FailureInv /\ BatchInv
    /\ RecordsConserved /\ ChunkSizeRespected

\* The span of the padding chunk ends at a multiple of final_padding.
PaddingInv ==
    /\ pc = "pad_search" \/ (InChunk /\ after = "sync") =>
         FinalPadding > 1 /\ chunk.end % FinalPadding = 0
    /\ pc = "sync" /\ FinalPadding > 0 => file_pos % FinalPadding = 0

\* flush_internal is entered with closed set only by the Drop behind close().
ClosedInv ==
    /\ closed \in BOOLEAN
    /\ closed => op \in {"close", "drop"} \/ Gone
    /\ closed /\ pc = "flush_internal" => op = "drop"
    /\ op \in {"close", "drop"} /\ pc # "flush_internal" => closed

\* close() has returned; what is left is Drop, which must change nothing.
Shut == Gone \/ (closed /\ pc = "flush_internal")

(***************************************************************************)
(* The writer implements the append-only log of RecordLog: forget chunks,  *)
(* blocks, buffering and the steps of an operation, and what is left is    *)
(* the log.  It is closed once close() has returned Ok: Drop, which comes  *)
(* behind it, neither flushes again nor fails.                             *)
(***************************************************************************)
Log == INSTANCE RecordLog WITH
    log     <- InOrder,
    visible <- published,
    durable <- synced,
    state   <- IF failed \/ io_error THEN "failed"
               ELSE IF Shut THEN "closed" ELSE "open"

ImplementsLog == Log!Spec

\* Every operation returns, whatever padding and chunk sizes are configured.
OperationsReturn == (pc \notin {"idle", "gone"}) ~> (pc \in {"idle", "gone"})
=============================================================================
