------------------------- MODULE RecordWriterProofs -------------------------
(***************************************************************************)
(* The layout RecordWriter produces, for every block size, header size,    *)
(* chunk size, padding and record size, and what becomes of the records.   *)
(***************************************************************************)
EXTENDS RecordWriter, BlockArithmeticProofs, SequenceTheorems

ChunkRecord == [type : {"none", "metadata", "data", "padding"},
                begin : Nat, end : Nat, size : Nat, offset : Nat,
                recs : Seq(Nat), accounted : Nat]

LEMMA NoChunkType == NoChunk \in ChunkRecord
BY DEF NoChunk, ChunkRecord

\* The initial state: an empty stream, and new() about to write to it.
LEMMA InitInv == Init => WriterInv
<1> SUFFICES ASSUME Init PROVE WriterInv OBVIOUS
<1>1. TypeOK
  <2>1. DOMAIN blocks = {} BY DEF Init
  <2>2. chunks \in Seq([type : {"signature", "metadata", "data", "padding"},
                        begin : Nat, end : Nat, num_records : Nat])
    BY DEF Init
  <2>3. encoder \in Seq(Nat) /\ published \in Seq(Nat) BY DEF Init
  <2>4. chunk \in ChunkRecord BY NoChunkType DEF Init
  <2> QED BY <2>1, <2>2, <2>3, <2>4 DEF Init, TypeOK, ChunkRecord
<1>2. StartInv /\ ErrorInv /\ ChunkInv
  BY DEF Init, StartInv, ErrorInv, ChunkInv, Started, InChunk
<1>3. ChunksTile /\ RecordPositionsDisjoint
  <2>1. DOMAIN chunks = {} BY DEF Init
  <2> QED BY <2>1 DEF Init, ChunksTile, RecordPositionsDisjoint
<1>4. BlockHeadersLead
  <2>1. 0 .. (len - 1) = {} BY DEF Init
  <2> QED BY <2>1 DEF BlockHeadersLead
<1> QED BY <1>1, <1>2, <1>3, <1>4 DEF WriterInv, Init, Started, InChunk

\* Where an operation leaves the writer.
LEMMA LeaveFacts ==
    ASSUME Leave
    PROVE  /\ op' \in {"none", "drop"} /\ pc' \in {"gone", "flush_internal", "idle"}
           /\ pc' = "flush_internal" <=> op' = "drop"
           /\ op = "close" => op' = "drop"
           /\ op = "drop" => pc' = "gone"
           /\ op \notin {"close", "drop"} => pc' = "idle"
BY DEF Leave

\* What an error return does.
LEMMA FailFacts ==
    ASSUME TypeOK, Fail
    PROVE  /\ chunk' \in ChunkRecord
           /\ after' = after /\ added_size' = added_size
           /\ failed' \in BOOLEAN
           /\ op' \in {"none", "drop"}
           /\ pc' \in {"gone", "flush_internal", "idle"}
           /\ failed => failed'
           /\ op # "new" => failed' /\ Leave
           /\ op = "new" => /\ failed' = failed
                            /\ pc' = "gone" \/ (pc' = "flush_internal" /\ op' = "drop")
<1>1. chunk' \in ChunkRecord /\ after' = after /\ added_size' = added_size
  BY NoChunkType DEF Fail
<1>2. failed \in BOOLEAN BY DEF TypeOK
<1>3. CASE op = "new"
  <2>1. failed' = failed BY <1>3 DEF Fail
  <2>2. failed' \in BOOLEAN /\ (failed => failed') BY <2>1, <1>2
  <2>3. \/ op' = "none" /\ pc' = "gone"
        \/ op' = "drop" /\ pc' = "flush_internal"
    BY <1>3 DEF Fail
  <2> QED BY <1>1, <1>3, <2>1, <2>2, <2>3
<1>4. CASE op # "new" BY <1>1, <1>2, <1>4, LeaveFacts DEF Fail
<1> QED BY <1>3, <1>4

\* What a successful return does.
LEMMA ReturnFacts ==
    ASSUME Return
    PROVE  /\ chunk' \in ChunkRecord
           /\ after' = after /\ added_size' = added_size
           /\ Leave
BY NoChunkType DEF Return

(***************************************************************************)
(* A step that touches neither the stream nor a chunk in progress disturbs *)
(* no part of the layout.                                                  *)
(***************************************************************************)
LEMMA QuietStep ==
    ASSUME WriterInv, TypeOK', StartInv', ErrorInv',
           UNCHANGED <<file_pos, len, blocks, chunks>>,
           Started, ~InChunk, Started', ~InChunk', io_error => io_error',
           pc' = "pad_search" => /\ chunk'.begin = file_pos'
                                 /\ chunk'.begin < chunk'.end
    PROVE  WriterInv'
<1>1. ChunkInv' BY DEF ChunkInv
<1>2. ChunksTile' BY DEF WriterInv, ChunksTile, Started
<1>3. RecordPositionsDisjoint' BY DEF WriterInv, RecordPositionsDisjoint
<1>4. Extents' = Extents BY DEF Extents, Started
<1>5. BlockHeadersLead'
  <2> SUFFICES ASSUME ~io_error'
               PROVE  \A b \in 0 .. (len' - 1) : is_block_boundary(b) =>
                        /\ b \in DOMAIN blocks'
                        /\ \E e \in Extents' :
                             /\ e.begin = b - blocks'[b].prev /\ e.begin <= b
                             /\ e.end = b + blocks'[b].next /\ b < e.end
    BY DEF BlockHeadersLead
  <2> QED BY <1>4 DEF WriterInv, BlockHeadersLead
<1>6. ~io_error' => file_pos' = len' BY DEF WriterInv
<1>7. Started' /\ ~InChunk' /\ ~io_error' => is_possible_chunk_boundary(file_pos')
  BY DEF WriterInv
<1> QED BY <1>1, <1>2, <1>3, <1>5, <1>6, <1>7 DEF WriterInv

\* A failed write_all leaves the complete chunks as they are.
LEMMA FailedWriteInv ==
    ASSUME WriterInv, NEW n \in Nat, FailedWrite(n),
           pc \in {"block_header", "signature", "data", "pad"}
    PROVE  WriterInv'
<1>1. /\ chunk' \in ChunkRecord
      /\ after' = after /\ added_size' = added_size
      /\ failed' \in BOOLEAN
      /\ op' \in {"none", "drop"}
      /\ pc' \in {"gone", "flush_internal", "idle"}
      /\ op # "new" => failed'
      /\ op = "new" => /\ failed' = failed
                       /\ pc' = "gone" \/ (pc' = "flush_internal" /\ op' = "drop")
  BY FailFacts DEF FailedWrite, WriterInv
<1>2. len' \in Nat /\ io_error' = TRUE
  BY DEF FailedWrite, WriterInv, TypeOK
<1>3. UNCHANGED <<file_pos, last_chunk_start, encoder, accumulated_bytes,
                  pending_record_count, closed, blocks, chunks, published,
                  synced, accepted>>
  BY DEF FailedWrite
<1>4. TypeOK'
  BY <1>1, <1>2, <1>3 DEF WriterInv, TypeOK, ChunkRecord
<1>5. ~InChunk' /\ Started' /\ pc' # "pad_search" BY <1>1 DEF InChunk, Started
<1>6. StartInv'
  BY <1>1, <1>2, <1>3, <1>5 DEF StartInv, Started
<1>7. ErrorInv'
  <2>1. CASE op # "new" BY <2>1, <1>1, <1>2 DEF ErrorInv
  <2>2. CASE op = "new"
    <3>1. pending_record_count = 0 BY <2>2 DEF WriterInv, StartInv
    <3>2. pc' = "gone" \/ WithMetadata
      BY <2>2 DEF FailedWrite, Fail, WriterInv, StartInv, Started
    <3> QED BY <3>1, <3>2, <2>2, <1>1, <1>2, <1>3 DEF ErrorInv, WriterInv
  <2> QED BY <2>1, <2>2
<1>8. ChunkInv' BY <1>5 DEF ChunkInv
<1>9. ChunksTile'
  BY <1>2, <1>3 DEF WriterInv, ChunksTile
<1>10. RecordPositionsDisjoint' BY <1>3 DEF WriterInv, RecordPositionsDisjoint
<1>11. BlockHeadersLead' BY <1>2 DEF BlockHeadersLead
<1> QED BY <1>2, <1>4, <1>5, <1>6, <1>7, <1>8, <1>9, <1>10, <1>11 DEF WriterInv
---------------------------------------------------------------------------
(* Steps that leave the stream alone. *)

LEMMA WriteRecordInv ==
    ASSUME WriterInv, NEW size \in RecordSizes, WriteRecord(size)
    PROVE  WriterInv'
<1>1. /\ pc = "idle" /\ pc' \in {"flush_chunk", "add"} /\ op' = "write_record"
      /\ after' \in {"add", after} /\ added_size' = size + RecordOverhead
      /\ UNCHANGED <<fields, chunk, stream, history>> /\ ~failed
  BY DEF WriteRecord
<1>2. TypeOK'
  BY <1>1, WriterAssumption DEF WriterInv, TypeOK, fields, stream, history,
     RecordOverhead
<1>3. ~io_error BY <1>1 DEF WriterInv, ErrorInv
<1>4. StartInv' /\ ErrorInv'
  BY <1>1, <1>3 DEF WriterInv, StartInv, ErrorInv, Started, fields, stream, history
<1> QED
  BY <1>1, <1>2, <1>4, QuietStep DEF Started, InChunk, fields, stream, history

LEMMA AddRecordInv == ASSUME WriterInv, AddRecord PROVE WriterInv'
<1>1. /\ pc = "add"
      /\ UNCHANGED <<file_pos, last_chunk_start, closed, stream, io_error>>
      /\ accumulated_bytes' = accumulated_bytes + added_size
      /\ pending_record_count' = pending_record_count + 1
  BY DEF AddRecord
<1>2. ~io_error /\ ~failed /\ op # "new"
  BY <1>1 DEF WriterInv, ErrorInv, StartInv
<1>3. /\ chunk' \in ChunkRecord /\ added_size' = added_size
      /\ after' \in {after, "return"} /\ failed' \in BOOLEAN
      /\ op' \in {"none", "drop", op} /\ op' # "new"
      /\ pc' \in {"flush_chunk", "idle", "flush_internal", "gone"}
      /\ failed' => pc' # "flush_chunk"
      /\ encoder' \in Seq(Nat) /\ accepted' \in Nat
  <2>1. CASE Fail /\ UNCHANGED <<encoder, accepted>>
    BY <2>1, <1>2, FailFacts, LeaveFacts DEF WriterInv, TypeOK
  <2>2. CASE /\ encoder' = Append(encoder, accepted + 1)
             /\ accepted' = accepted + 1 /\ failed' = failed
             /\ pc' = "flush_chunk" /\ after' = "return"
             /\ UNCHANGED <<op, added_size, chunk>>
    BY <2>2, <1>2 DEF WriterInv, TypeOK, ChunkRecord
  <2>3. CASE /\ encoder' = Append(encoder, accepted + 1)
             /\ accepted' = accepted + 1 /\ failed' = failed /\ Return
    BY <2>3, <1>2, ReturnFacts, LeaveFacts DEF WriterInv, TypeOK
  <2> QED BY <2>1, <2>2, <2>3 DEF AddRecord
<1>4. TypeOK'
  <2>1. TypeOK BY DEF WriterInv
  <2>2. accumulated_bytes' \in Nat /\ pending_record_count' \in Nat
    BY <1>1, <2>1 DEF TypeOK
  <2>3. op' \in {"none", "write_record", "flush", "close", "drop"}
        /\ added_size' \in Nat
    BY <1>2, <1>3, <2>1 DEF TypeOK
  <2> QED BY <1>1, <1>3, <2>1, <2>2, <2>3 DEF TypeOK, ChunkRecord, stream
<1>5. StartInv' /\ ErrorInv'
  BY <1>1, <1>2, <1>3 DEF WriterInv, StartInv, ErrorInv, Started, stream
<1> QED BY <1>1, <1>3, <1>4, <1>5, QuietStep DEF Started, InChunk, stream

LEMMA FlushInv == ASSUME WriterInv, Flush PROVE WriterInv'
<1>1. /\ pc = "idle" /\ ~failed /\ op' = "flush" /\ after' = "padding"
      /\ pc' \in {"flush_chunk", "padding"}
      /\ UNCHANGED <<fields, added_size, chunk, stream, history>>
  BY DEF Flush, StartFlush
<1>2. ~io_error BY <1>1 DEF WriterInv, ErrorInv
<1>3. TypeOK' BY <1>1 DEF WriterInv, TypeOK, fields, stream, history
<1>4. StartInv' /\ ErrorInv'
  BY <1>1, <1>2 DEF WriterInv, StartInv, ErrorInv, Started, fields, stream, history
<1> QED
  BY <1>1, <1>3, <1>4, QuietStep DEF Started, InChunk, fields, stream, history

LEMMA CloseInv == ASSUME WriterInv, Close PROVE WriterInv'
<1>1. /\ pc = "idle" /\ op' \in {"close", "drop"} /\ pc' = "flush_internal"
      /\ UNCHANGED <<fields, after, added_size, chunk, stream, history>>
  BY DEF Close
<1>2. TypeOK' BY <1>1 DEF WriterInv, TypeOK, fields, stream, history
<1>3. StartInv' /\ ErrorInv'
  BY <1>1 DEF WriterInv, StartInv, ErrorInv, Started, fields, stream, history
<1> QED
  BY <1>1, <1>2, <1>3, QuietStep DEF Started, InChunk, fields, stream, history

LEMMA FlushInternalInv == ASSUME WriterInv, FlushInternal PROVE WriterInv'
<1>1. /\ pc = "flush_internal" /\ closed' = TRUE
      /\ after' \in {after, "padding"}
      /\ UNCHANGED <<file_pos, last_chunk_start, encoder, accumulated_bytes,
                     pending_record_count, failed, added_size, chunk, stream,
                     history>>
      /\ \/ Leave
         \/ ~failed /\ pc' = StartFlush /\ op' = op
  BY DEF FlushInternal
<1>2. /\ pc' \in {"gone", "flush_internal", "idle", "flush_chunk", "padding"}
      /\ op' \in {"none", "drop", op}
      /\ op' = "new" => op = "new"
      /\ pc' \in {"flush_chunk", "padding"} => ~failed /\ op' = op
      /\ pc' = "flush_chunk" => pending_record_count > 0
      /\ op = "drop" => pc' \in {"gone", "flush_chunk", "padding"}
  BY <1>1, LeaveFacts DEF StartFlush
<1>3. TypeOK' BY <1>1, <1>2 DEF WriterInv, TypeOK, stream, history
<1>4. StartInv'
  BY <1>1, <1>2 DEF WriterInv, StartInv, Started, stream, history, TypeOK
<1>5. ErrorInv'
  BY <1>1, <1>2 DEF WriterInv, ErrorInv, stream, history, TypeOK
<1> QED
  BY <1>1, <1>2, <1>3, <1>4, <1>5, QuietStep DEF Started, InChunk, stream, history

LEMMA StartPaddingInv ==
    ASSUME OptionsSeparate \/ ~io_error, WriterInv, StartPadding
    PROVE  WriterInv'
<1>1. /\ pc = "padding" /\ pc' \in {"sync", "pad_search"}
      /\ pc' = "pad_search" => FinalPadding > 1
      /\ pc' = "sync" => chunk' = chunk
      /\ pc' = "pad_search" => chunk' = [NoChunk EXCEPT
            !.begin = file_pos,
            !.end = file_pos + FinalPadding - (file_pos % FinalPadding)]
      /\ UNCHANGED <<fields, op, after, added_size, stream, history>>
  BY WriterAssumption DEF StartPadding
<1>2. file_pos \in Nat BY DEF WriterInv, TypeOK
<1>3. pc' = "pad_search" =>
        /\ chunk' \in ChunkRecord
        /\ chunk'.begin = file_pos /\ chunk'.begin < chunk'.end
  <2> SUFFICES ASSUME pc' = "pad_search"
               PROVE  /\ chunk' \in ChunkRecord
                      /\ chunk'.begin = file_pos /\ chunk'.begin < chunk'.end
    OBVIOUS
  <2>1. FinalPadding \in Nat \ {0} BY <1>1, WriterAssumption
  <2>2. file_pos % FinalPadding \in 0 .. (FinalPadding - 1)
    BY <1>2, <2>1, DivMod
  <2> DEFINE e == file_pos + FinalPadding - (file_pos % FinalPadding)
  <2>3. e \in Nat /\ file_pos < e BY <1>2, <2>1, <2>2
  <2>4. chunk' = [NoChunk EXCEPT !.begin = file_pos, !.end = e] BY <1>1
  <2> HIDE DEF e
  <2> QED BY <1>2, <2>3, <2>4, NoChunkType DEF ChunkRecord
<1>4. TypeOK'
  BY <1>1, <1>3 DEF WriterInv, TypeOK, ChunkRecord, fields, stream, history
<1>5. StartInv'
  BY <1>1 DEF WriterInv, StartInv, Started, fields, stream, history
<1>6. ErrorInv'
  BY <1>1, WriterAssumption
     DEF WriterInv, ErrorInv, OptionsSeparate, fields, stream, history
<1> QED
  BY <1>1, <1>3, <1>4, <1>5, <1>6, QuietStep
     DEF Started, InChunk, fields, stream, history

LEMMA SyncInv == ASSUME WriterInv, Sync PROVE WriterInv'
<1>1. /\ pc = "sync"
      /\ UNCHANGED <<file_pos, last_chunk_start, encoder, accumulated_bytes,
                     pending_record_count, closed, len, blocks, chunks,
                     published, accepted>>
  BY DEF Sync
<1>2. ~failed /\ op # "new" /\ (io_error => op = "drop")
  BY <1>1 DEF WriterInv, ErrorInv, StartInv
<1>3. /\ chunk' \in ChunkRecord /\ after' = after /\ added_size' = added_size
      /\ failed' \in BOOLEAN /\ io_error' \in BOOLEAN /\ synced' \in Nat
      /\ op' \in {"none", "drop"}
      /\ pc' \in {"gone", "flush_internal", "idle"}
      /\ io_error => io_error'
      /\ io_error' => failed' \/ pc' = "gone"
  <2>1. CASE Return /\ synced' = Len(published) /\ UNCHANGED <<failed, io_error>>
    <3>1. io_error => pc' = "gone" BY <2>1, <1>2, ReturnFacts, LeaveFacts
    <3> QED BY <3>1, <2>1, ReturnFacts, LeaveFacts DEF WriterInv, TypeOK
  <2>2. CASE Fail /\ io_error' = TRUE /\ synced' = synced
    BY <2>2, <1>2, FailFacts DEF WriterInv, TypeOK
  <2> QED BY <2>1, <2>2 DEF Sync
<1>4. TypeOK' BY <1>1, <1>3 DEF WriterInv, TypeOK, ChunkRecord
<1>5. StartInv' BY <1>1, <1>3 DEF WriterInv, StartInv, Started
<1>6. ErrorInv' BY <1>3 DEF ErrorInv
<1> QED BY <1>1, <1>3, <1>4, <1>5, <1>6, QuietStep DEF Started, InChunk

---------------------------------------------------------------------------
(* Steps that place a chunk. *)

\* Block headers that lead to a chunk keep doing so while no chunk is lost.
LEMMA LeadsKept ==
    ASSUME BlockHeadersLead, ~io_error, UNCHANGED <<len, blocks>>,
           Extents \subseteq Extents'
    PROVE  BlockHeadersLead'
BY DEF BlockHeadersLead

LEMMA StartChunkInv ==
    ASSUME WriterInv, pc \in {"metadata", "flush_chunk", "pad_search"},
           NEW type \in {"metadata", "data", "padding"}, NEW recs \in Seq(Nat),
           NEW data_size \in Nat, NEW then \in {"return", "add", "padding", "sync"},
           StartChunk(type, recs, data_size, then),
           UNCHANGED <<file_pos, closed, failed, stream, history>>,
           encoder' \in Seq(Nat), accumulated_bytes' \in Nat,
           pending_record_count' \in Nat,
           op = "new" => pending_record_count' = 0 /\ then = "return"
    PROVE  WriterInv'
<1>1. ~io_error /\ ~failed /\ Started /\ ~InChunk
  BY DEF WriterInv, ErrorInv, Started, InChunk
<1>2. file_pos \in Nat /\ is_possible_chunk_boundary(file_pos)
  BY <1>1 DEF WriterInv, TypeOK
<1> DEFINE end == chunk_end(file_pos, data_size, Len(recs))
           size == ChunkHeaderSize + data_size
<1>3. Len(recs) \in Nat /\ size \in Nat /\ size > 0 BY LayoutAssumption
<1>4. /\ end \in Nat /\ end > file_pos /\ is_possible_chunk_boundary(end)
      /\ end >= add_with_overhead(file_pos, size)
      /\ end >= file_pos + Len(recs)
  BY <1>2, <1>3, ChunkEndFacts
<1>5. chunk' = [type |-> type, begin |-> file_pos, end |-> end, size |-> size,
                offset |-> 0, recs |-> recs, accounted |-> accumulated_bytes]
  BY DEF StartChunk
<1>6. last_chunk_start' = file_pos /\ pc' = "data" /\ after' = then
      /\ UNCHANGED <<op, added_size>>
  BY DEF StartChunk
<1> HIDE DEF end, size
<1>7. TypeOK'
  <2>1. chunk' \in ChunkRecord
    BY <1>2, <1>3, <1>4, <1>5 DEF WriterInv, TypeOK, ChunkRecord
  <2> QED
    BY <2>1, <1>2, <1>6 DEF WriterInv, TypeOK, ChunkRecord, stream, history
<1>8. StartInv' /\ ErrorInv'
  BY <1>1, <1>6 DEF WriterInv, StartInv, ErrorInv, Started, InChunk, stream, history
<1>9. ChunkInv'
  <2>1. DataOffset(file_pos) \in Nat BY <1>2, DataOffsetType
  <2>2. is_block_boundary(file_pos) \/ file_pos % BlockSize >= BlockHeaderSize
    <3>1. file_pos % BlockSize = 0 \/ file_pos % BlockSize > BlockHeaderSize
      BY <1>2, PossibleBoundary
    <3> QED BY <3>1, <1>2, OffsetType, BlockSizeNat DEF is_block_boundary
  <2> QED BY <2>1, <2>2, <1>2, <1>3, <1>4, <1>5, <1>6 DEF ChunkInv, stream, history
<1>10. ChunksTile'
  BY <1>1, <1>5, <1>6 DEF WriterInv, ChunksTile, InChunk, Started, stream, history
<1>11. RecordPositionsDisjoint'
  BY DEF WriterInv, RecordPositionsDisjoint, stream
<1>12. BlockHeadersLead'
  <2>1. Extents \subseteq Extents'
    BY <1>1 DEF Extents, Started, stream
  <2> QED BY <2>1, <1>1, LeadsKept DEF WriterInv, stream
<1> QED
  BY <1>1, <1>6, <1>7, <1>8, <1>9, <1>10, <1>11, <1>12
     DEF WriterInv, InChunk, stream, history

LEMMA WriteMetadataInv ==
    ASSUME WriterInv, WriteMetadata
    PROVE  WriterInv'
<1>1. pc = "metadata" /\ ~failed /\ ~io_error
  BY DEF WriteMetadata, WriterInv, ErrorInv
<1>2. ASSUME NEW data_size \in DataSizes,
             StartChunk("metadata", <<>>, data_size, "return"),
             UNCHANGED <<file_pos, encoder, accumulated_bytes,
                         pending_record_count, closed, failed, stream, history>>
      PROVE  WriterInv'
  <2>1. data_size \in Nat /\ <<>> \in Seq(Nat) BY WriterAssumption
  <2>2. op = "new" => pending_record_count' = 0
    BY <1>2 DEF WriterInv, StartInv
  <2>3. encoder' \in Seq(Nat) /\ accumulated_bytes' \in Nat
        /\ pending_record_count' \in Nat
    BY <1>2 DEF WriterInv, TypeOK
  <2> QED BY <1>1, <1>2, <2>1, <2>2, <2>3, StartChunkInv
<1>3. ASSUME Fail, UNCHANGED <<file_pos, last_chunk_start, encoder,
                         accumulated_bytes, pending_record_count, closed,
                         stream, history>>
      PROVE  WriterInv'
  <2>1. /\ chunk' \in ChunkRecord /\ after' = after /\ added_size' = added_size
        /\ failed' \in BOOLEAN /\ op' \in {"none", "drop"}
        /\ pc' \in {"gone", "flush_internal", "idle"}
    BY <1>3, FailFacts DEF WriterInv
  <2>2. TypeOK' BY <2>1, <1>3 DEF WriterInv, TypeOK, ChunkRecord, stream, history
  <2>3. StartInv' /\ ErrorInv'
    BY <1>1, <2>1, <1>3
       DEF WriterInv, StartInv, ErrorInv, Started, stream, history
  <2> QED
    BY <1>1, <1>3, <2>1, <2>2, <2>3, QuietStep DEF Started, InChunk, stream, history
<1> QED BY <1>2, <1>3 DEF WriteMetadata

LEMMA FlushChunkInv == ASSUME WriterInv, FlushChunk PROVE WriterInv'
<1>1. /\ pc = "flush_chunk" /\ encoder' = <<>> /\ accumulated_bytes' = 0
      /\ pending_record_count' = 0
      /\ UNCHANGED <<file_pos, closed, stream, history>>
  BY DEF FlushChunk
<1>2. ~failed /\ ~io_error /\ op # "new"
  BY <1>1 DEF WriterInv, ErrorInv, StartInv
<1>3. encoder' \in Seq(Nat) /\ encoder \in Seq(Nat)
      /\ after \in {"return", "add", "padding", "sync"}
  BY <1>1 DEF WriterInv, TypeOK
<1>4. ASSUME NEW data_size \in DataSizes,
             StartChunk("data", encoder, data_size, after), failed' = failed
      PROVE  WriterInv'
  <2>1. data_size \in Nat BY WriterAssumption
  <2> QED BY <1>1, <1>2, <1>3, <1>4, <2>1, StartChunkInv
<1>5. ASSUME Fail, last_chunk_start' = last_chunk_start
      PROVE  WriterInv'
  <2>1. /\ chunk' \in ChunkRecord /\ after' = after /\ added_size' = added_size
        /\ failed' /\ failed' \in BOOLEAN
        /\ op' \in {"none", "drop"} /\ pc' \in {"gone", "flush_internal", "idle"}
    BY <1>2, <1>5, FailFacts, LeaveFacts DEF WriterInv
  <2>2. TypeOK'
    BY <2>1, <1>1, <1>3, <1>5 DEF WriterInv, TypeOK, ChunkRecord, stream, history
  <2>3. StartInv' /\ ErrorInv'
    BY <1>1, <1>2, <2>1
       DEF WriterInv, StartInv, ErrorInv, Started, stream, history
  <2> QED
    BY <1>1, <2>1, <2>2, <2>3, QuietStep DEF Started, InChunk, stream, history
<1> QED BY <1>4, <1>5 DEF FlushChunk

LEMMA SearchPaddingInv == ASSUME WriterInv, SearchPadding PROVE WriterInv'
<1> DEFINE d == distance_without_overhead(chunk.begin, chunk.end)
<1>1. /\ pc = "pad_search"
      /\ UNCHANGED <<file_pos, encoder, accumulated_bytes, pending_record_count,
                     closed, failed, stream, history>>
  BY DEF SearchPadding
<1>2. /\ ~failed /\ ~io_error /\ op # "new"
      /\ chunk.begin = file_pos /\ chunk.begin < chunk.end
  BY <1>1 DEF WriterInv, ErrorInv, StartInv
<1>3. CASE PaddingFits
  <2>1. chunk.begin \in Nat /\ chunk.end \in Nat BY DEF WriterInv, TypeOK
  <2>2. d \in Nat /\ d >= ChunkHeaderSize
    BY <1>3, <2>1, DataOffsetType
       DEF PaddingFits, distance_without_overhead, SaturatingSub
  <2>3. d - ChunkHeaderSize \in Nat /\ <<>> \in Seq(Nat)
    BY <2>2, LayoutAssumption
  <2>4. StartChunk("padding", <<>>, d - ChunkHeaderSize, "sync")
    BY <1>3 DEF SearchPadding
  <2>5. encoder' \in Seq(Nat) /\ accumulated_bytes' \in Nat
        /\ pending_record_count' \in Nat
    BY <1>1 DEF WriterInv, TypeOK
  <2> HIDE DEF d
  <2> QED BY <1>1, <1>2, <2>3, <2>4, <2>5, StartChunkInv
<1>4. CASE ~PaddingFits
  <2>1. chunk' = [chunk EXCEPT !.end = @ + FinalPadding]
        /\ UNCHANGED <<last_chunk_start, op, pc, after, added_size>>
    BY <1>4 DEF SearchPadding
  <2>2. chunk' \in ChunkRecord /\ chunk'.begin = file_pos
        /\ chunk'.begin < chunk'.end
    <3>1. chunk \in ChunkRecord BY DEF WriterInv, TypeOK, ChunkRecord
    <3> DEFINE e == chunk.end + FinalPadding
    <3>2. chunk.begin \in Nat /\ chunk.end \in Nat BY <3>1 DEF ChunkRecord
    <3>3. e \in Nat /\ chunk.end <= e BY <3>2, WriterAssumption
    <3>4. chunk' = [chunk EXCEPT !.end = e] BY <2>1
    <3> HIDE DEF e
    <3>5. chunk' \in ChunkRecord /\ chunk'.begin = chunk.begin /\ chunk'.end = e
      BY <3>1, <3>3, <3>4 DEF ChunkRecord
    <3> QED BY <3>2, <3>3, <3>5, <1>2
  <2>3. TypeOK'
    BY <2>1, <2>2, <1>1 DEF WriterInv, TypeOK, ChunkRecord, stream, history
  <2>4. StartInv' /\ ErrorInv'
    BY <1>1, <1>2, <2>1
       DEF WriterInv, StartInv, ErrorInv, Started, stream, history
  <2> QED
    BY <1>1, <2>1, <2>2, <2>3, <2>4, QuietStep
       DEF Started, InChunk, stream, history
<1> QED BY <1>3, <1>4
---------------------------------------------------------------------------
(* Steps that write. *)

\* No block boundary lies strictly inside a stretch of one block.
LEMMA NoBoundaryInside ==
    ASSUME NEW p \in Nat, NEW n \in Nat, (p % BlockSize) + n <= BlockSize,
           NEW b \in Nat, p < b, b < p + n
    PROVE  ~is_block_boundary(b)
<1> DEFINE x == b - p
<1>1. x \in Nat /\ x > 0 /\ x < n /\ b = p + x OBVIOUS
<1>2. p % BlockSize \in Nat BY OffsetType
<1> HIDE DEF x
<1>3. (p % BlockSize) + x < BlockSize BY <1>1, <1>2, BlockSizeNat
<1>4. (p + x) % BlockSize = (p % BlockSize) + x
  BY <1>1, <1>3, StepInBlock, BlockSizeNat
<1> QED BY <1>1, <1>2, <1>4 DEF is_block_boundary

\* The stream grows by n bytes of one block; its first byte is a block header
\* that leads to the chunk if it is at a boundary.
LEMMA LeadsGrow ==
    ASSUME WriterInv, ~io_error, NEW n \in Nat,
           (len % BlockSize) + n <= BlockSize, len' = len + n,
           Extents \subseteq Extents',
           \A b \in DOMAIN blocks : b < len => /\ b \in DOMAIN blocks'
                                              /\ blocks'[b] = blocks[b],
           is_block_boundary(len) =>
             /\ len \in DOMAIN blocks'
             /\ \E e \in Extents' :
                  /\ e.begin = len - blocks'[len].prev /\ e.begin <= len
                  /\ e.end = len + blocks'[len].next /\ len < e.end
    PROVE  BlockHeadersLead'
<1>1. len \in Nat BY DEF WriterInv, TypeOK
<1> SUFFICES ASSUME NEW b \in 0 .. (len' - 1), is_block_boundary(b)
             PROVE  /\ b \in DOMAIN blocks'
                    /\ \E e \in Extents' :
                         /\ e.begin = b - blocks'[b].prev /\ e.begin <= b
                         /\ e.end = b + blocks'[b].next /\ b < e.end
  BY DEF BlockHeadersLead
<1>2. b \in Nat /\ b < len + n BY <1>1
<1>3. CASE b < len
  <2>1. b \in 0 .. (len - 1) BY <1>1, <1>2, <1>3
  <2>2. /\ b \in DOMAIN blocks
        /\ \E e \in Extents :
             /\ e.begin = b - blocks[b].prev /\ e.begin <= b
             /\ e.end = b + blocks[b].next /\ b < e.end
    BY <2>1 DEF WriterInv, BlockHeadersLead
  <2> QED BY <2>2, <1>3
<1>4. CASE b = len BY <1>4
<1>5. CASE len < b BY <1>1, <1>2, <1>5, NoBoundaryInside
<1> QED BY <1>1, <1>2, <1>3, <1>4, <1>5

LEMMA WriteBlockHeaderInv ==
    ASSUME WriterInv, WriteBlockHeader
    PROVE  WriterInv'
<1>1. /\ InChunk /\ is_block_boundary(file_pos)
      /\ pc = "pad" => file_pos < chunk.end
  BY DEF WriteBlockHeader, AtBoundary, InChunk
<1>2. ~io_error /\ ~failed /\ file_pos = len /\ Started
  BY <1>1 DEF WriterInv, ErrorInv, InChunk, Started
<1>3. /\ file_pos \in Nat /\ chunk \in ChunkRecord
      /\ chunk.begin \in Nat /\ chunk.end \in Nat
      /\ chunk.begin <= file_pos /\ file_pos <= chunk.end
      /\ is_possible_chunk_boundary(chunk.end)
      /\ is_possible_chunk_boundary(chunk.begin)
  BY <1>1 DEF WriterInv, TypeOK, ChunkInv, ChunkRecord
<1>4. CASE FailedWrite(BlockHeaderSize)
  <2>1. pc \in {"block_header", "signature", "data", "pad"} BY <1>1 DEF InChunk
  <2> QED BY <2>1, <1>4, FailedWriteInv, BlockSizeNat
<1>5. CASE
    /\ blocks' = WithBlock(blocks, len, [prev |-> file_pos - chunk.begin,
                                         next |-> chunk.end - file_pos])
    /\ len' = len + BlockHeaderSize
    /\ file_pos' = file_pos + BlockHeaderSize
    /\ UNCHANGED <<last_chunk_start, encoder, accumulated_bytes,
                   pending_record_count, closed, failed, control,
                   chunks, published, synced, history>>
  <2>1. file_pos < chunk.end
    <3>1. CASE pc = "pad" BY <3>1, <1>1
    <3>2. CASE pc = "data"
      <4>1. /\ DataOffset(file_pos) = DataOffset(chunk.begin) + chunk.offset
            /\ chunk.offset < chunk.size
            /\ chunk.end >= add_with_overhead(chunk.begin, chunk.size)
        BY <3>2, <1>1 DEF WriterInv, ChunkInv
      <4>2. chunk.offset \in Nat /\ chunk.size \in Nat \ {0}
        BY <4>1, <1>3 DEF ChunkRecord
      <4>3. /\ add_with_overhead(chunk.begin, chunk.size) \in Nat
            /\ DataOffset(add_with_overhead(chunk.begin, chunk.size))
                 = DataOffset(chunk.begin) + chunk.size
        BY <4>2, <1>3, AddWithOverheadFacts
      <4>4. DataOffset(add_with_overhead(chunk.begin, chunk.size))
              <= DataOffset(chunk.end)
        BY <4>1, <4>3, <1>3, DataOffsetMonotone
      <4>5. DataOffset(chunk.begin) \in Nat /\ DataOffset(chunk.end) \in Nat
        BY <1>3, DataOffsetType
      <4>6. file_pos # chunk.end BY <4>1, <4>2, <4>3, <4>4, <4>5
      <4> QED BY <4>6, <1>3
    <3> QED BY <3>1, <3>2, <1>1 DEF InChunk
  <2>2. file_pos % BlockSize = 0 BY <1>1 DEF is_block_boundary
  <2>3. file_pos + BlockHeaderSize \in Nat BY <1>3, BlockSizeNat
  <2>4. (file_pos + BlockHeaderSize) % BlockSize = BlockHeaderSize
    <3>1. (file_pos % BlockSize) + BlockHeaderSize < BlockSize BY <2>2, BlockSizeNat
    <3>2. (file_pos + BlockHeaderSize) % BlockSize
            = (file_pos % BlockSize) + BlockHeaderSize
      BY <3>1, <1>3, StepInBlock, BlockSizeNat
    <3> QED BY <3>2, <2>2, BlockSizeNat
  <2>5. DataOffset(file_pos + BlockHeaderSize) = DataOffset(file_pos)
    <3>1. (file_pos % BlockSize) + BlockHeaderSize <= BlockHeaderSize
      BY <2>2, BlockSizeNat
    <3> QED BY <3>1, <1>3, DataOffsetInHeader, BlockSizeNat
  <2>6. file_pos + BlockHeaderSize <= chunk.end
    <3> SUFFICES ASSUME chunk.end < file_pos + BlockHeaderSize PROVE FALSE
      BY <1>3, <2>3
    <3>1. DataOffset(chunk.end) <= DataOffset(file_pos + BlockHeaderSize)
      BY <1>3, <2>3, DataOffsetMonotone
    <3>2. DataOffset(file_pos) < DataOffset(chunk.end)
      BY <1>3, <2>1, DataOffsetStrict
    <3>3. DataOffset(file_pos) \in Nat /\ DataOffset(chunk.end) \in Nat
      BY <1>3, DataOffsetType
    <3> QED BY <3>1, <3>2, <3>3, <2>5
  <2>7. UNCHANGED <<op, pc, after, added_size, chunk>> BY <1>5 DEF control
  <2> DEFINE hdr == [prev |-> file_pos - chunk.begin, next |-> chunk.end - file_pos]
  <2>8. /\ hdr \in [prev : Nat, next : Nat]
        /\ hdr.prev = file_pos - chunk.begin /\ hdr.next = chunk.end - file_pos
    BY <1>3
  <2>9. blocks' = [b \in DOMAIN blocks \cup {len} |->
                      IF b = len THEN hdr ELSE blocks[b]]
    BY <1>5 DEF WithBlock
  <2> HIDE DEF hdr
  <2>10. TypeOK'
    <3>1. len \in Nat BY <1>2, <1>3
    <3>2. DOMAIN blocks \subseteq Nat
          /\ \A b \in DOMAIN blocks : blocks[b] \in [prev : Nat, next : Nat]
      BY DEF WriterInv, TypeOK
    <3>3. DOMAIN blocks' \subseteq Nat
          /\ \A b \in DOMAIN blocks' : blocks'[b] \in [prev : Nat, next : Nat]
      BY <3>1, <3>2, <2>8, <2>9
    <3>4. len' \in Nat /\ file_pos' \in Nat BY <3>1, <2>3, <1>5, BlockSizeNat
    <3> QED BY <3>3, <3>4, <2>7, <1>5 DEF WriterInv, TypeOK, history
  <2>11. StartInv' /\ ErrorInv'
    BY <1>1, <1>2, <1>5, <2>7
       DEF WriterInv, StartInv, ErrorInv, Started, InChunk, history
  <2>12. ChunkInv'
    <3>1. chunk.begin <= file_pos + BlockHeaderSize BY <1>3, BlockSizeNat
    <3> QED BY <3>1, <1>1, <1>5, <2>4, <2>5, <2>6, <2>7, BlockSizeNat
         DEF WriterInv, ChunkInv, InChunk
  <2>13. ChunksTile'
    BY <1>1, <1>2, <1>5, <2>7 DEF WriterInv, ChunksTile, InChunk, Started, history
  <2>14. RecordPositionsDisjoint'
    BY <1>5 DEF WriterInv, RecordPositionsDisjoint
  <2>15. Extents' = Extents BY <1>5, <2>7 DEF Extents, InChunk
  <2>16. [begin |-> chunk.begin, end |-> chunk.end] \in Extents'
    BY <1>1, <2>15 DEF Extents
  <2>17. BlockHeadersLead'
    <3>1. (len % BlockSize) + BlockHeaderSize <= BlockSize
      BY <1>2, <2>2, BlockSizeNat
    <3>2. \A b \in DOMAIN blocks : b < len => /\ b \in DOMAIN blocks'
                                              /\ blocks'[b] = blocks[b]
      <4>1. len \in Nat BY <1>2, <1>3
      <4> QED BY <2>9, <4>1
    <3>3. len \in DOMAIN blocks' /\ blocks'[len] = hdr BY <2>9
    <3> DEFINE e == [begin |-> chunk.begin, end |-> chunk.end]
    <3>4. /\ e.begin = len - blocks'[len].prev /\ e.begin <= len
          /\ e.end = len + blocks'[len].next /\ len < e.end
      BY <3>3, <2>8, <2>1, <1>2, <1>3
    <3>5. \E x \in Extents' :
            /\ x.begin = len - blocks'[len].prev /\ x.begin <= len
            /\ x.end = len + blocks'[len].next /\ len < x.end
      BY <3>4, <2>16
    <3> QED BY <3>1, <3>2, <3>3, <3>5, <2>15, <1>2, <1>5, LeadsGrow, BlockSizeNat
  <2> QED
    BY <1>1, <1>2, <1>5, <2>7, <2>10, <2>11, <2>12, <2>13, <2>14, <2>17
       DEF WriterInv, InChunk, history
<1> QED BY <1>4, <1>5 DEF WriteBlockHeader
\* Both loops of write_chunk_raw write n > 0 bytes up to a block boundary at
\* most: the stream grows, and no block header is due on the way.
LEMMA GrowInChunk ==
    ASSUME WriterInv, InChunk, ~is_block_boundary(file_pos),
           NEW n \in Nat, n > 0, (file_pos % BlockSize) + n <= BlockSize,
           len' = len + n, file_pos' = file_pos + n,
           UNCHANGED <<last_chunk_start, encoder, accumulated_bytes,
                       pending_record_count, closed, failed, op, after,
                       added_size, blocks, chunks, published, synced, history>>,
           chunk' \in ChunkRecord, InChunk', chunk'.type = chunk.type,
           chunk'.begin = chunk.begin, chunk'.end = chunk.end,
           chunk'.size = chunk.size, chunk'.recs = chunk.recs,
           file_pos' <= chunk.end,
           pc' = "data" =>
             /\ chunk'.offset < chunk.size
             /\ DataOffset(file_pos') = DataOffset(chunk.begin) + chunk'.offset
             /\ \/ is_block_boundary(file_pos')
                \/ file_pos' % BlockSize >= BlockHeaderSize
    PROVE  WriterInv'
<1>1. ~io_error /\ ~failed /\ file_pos = len /\ Started /\ Started'
  BY DEF WriterInv, ErrorInv, InChunk, Started
<1>2. file_pos \in Nat /\ file_pos' \in Nat /\ len' \in Nat
  BY <1>1 DEF WriterInv, TypeOK
<1>3. TypeOK' BY <1>2 DEF WriterInv, TypeOK, InChunk, ChunkRecord, history
<1>4. StartInv' /\ ErrorInv'
  BY <1>1 DEF WriterInv, StartInv, ErrorInv, Started, InChunk, history
<1>5. ChunkInv'
  <2>1. chunk.begin \in Nat /\ chunk.begin <= file_pos
    BY DEF WriterInv, TypeOK, ChunkInv
  <2>2. chunk.begin <= file_pos' BY <2>1, <1>2
  <2> QED BY <2>2 DEF WriterInv, ChunkInv
<1>6. ChunksTile'
  BY <1>1 DEF WriterInv, ChunksTile, Started, history
<1>7. RecordPositionsDisjoint' BY DEF WriterInv, RecordPositionsDisjoint
<1>8. Extents' = Extents BY <1>1 DEF Extents, Started
<1>9. BlockHeadersLead'
  <2>1. ~is_block_boundary(len) /\ (len % BlockSize) + n <= BlockSize BY <1>1
  <2>2. \A b \in DOMAIN blocks : b < len => /\ b \in DOMAIN blocks'
                                            /\ blocks'[b] = blocks[b]
    OBVIOUS
  <2> QED BY <2>1, <2>2, <1>1, <1>8, LeadsGrow
<1> QED
  BY <1>1, <1>3, <1>4, <1>5, <1>6, <1>7, <1>9 DEF WriterInv, InChunk, history

LEMMA WriteBytesInv ==
    ASSUME WriterInv, WriteBytes
    PROVE  WriterInv'
<1> DEFINE space == BlockSize - (file_pos % BlockSize)
           n == Smaller(chunk.size - chunk.offset, space)
<1>1. pc = "data" /\ ~is_block_boundary(file_pos) /\ InChunk
  BY DEF WriteBytes, InChunk
<1>2. /\ file_pos \in Nat /\ chunk \in ChunkRecord
      /\ chunk.begin \in Nat /\ chunk.end \in Nat
      /\ chunk.size \in Nat \ {0} /\ chunk.offset \in Nat
      /\ chunk.offset < chunk.size
      /\ chunk.end >= add_with_overhead(chunk.begin, chunk.size)
      /\ DataOffset(file_pos) = DataOffset(chunk.begin) + chunk.offset
      /\ file_pos % BlockSize >= BlockHeaderSize
  BY <1>1 DEF WriterInv, TypeOK, ChunkInv, ChunkRecord
<1>3. file_pos % BlockSize \in 0 .. (BlockSize - 1) BY <1>2, OffsetType
<1>4. /\ n \in Nat /\ n > 0 /\ (file_pos % BlockSize) + n <= BlockSize
      /\ chunk.offset + n <= chunk.size
  BY <1>2, <1>3, BlockSizeNat DEF Smaller
<1>5. \/ FailedWrite(n)
      \/ /\ len' = len + n
         /\ file_pos' = file_pos + n
         /\ chunk' = [chunk EXCEPT !.offset = @ + n]
         /\ pc' = IF chunk'.offset < chunk.size THEN "data" ELSE "pad"
         /\ UNCHANGED <<last_chunk_start, encoder, accumulated_bytes,
                        pending_record_count, closed, failed, op, after,
                        added_size, blocks, chunks, published, synced, history>>
  BY DEF WriteBytes
<1> HIDE DEF n
<1>6. CASE FailedWrite(n)
  <2>1. pc \in {"block_header", "signature", "data", "pad"} BY <1>1
  <2> QED BY <2>1, <1>4, <1>6, FailedWriteInv
<1>7. CASE
    /\ len' = len + n
    /\ file_pos' = file_pos + n
    /\ chunk' = [chunk EXCEPT !.offset = @ + n]
    /\ pc' = IF chunk'.offset < chunk.size THEN "data" ELSE "pad"
    /\ UNCHANGED <<last_chunk_start, encoder, accumulated_bytes,
                   pending_record_count, closed, failed, op, after,
                   added_size, blocks, chunks, published, synced, history>>
  <2> DEFINE q == file_pos + n
             o == chunk.offset + n
  <2>1. q \in Nat /\ file_pos' = q /\ o \in Nat BY <1>2, <1>4, <1>7
  <2>2. chunk' = [chunk EXCEPT !.offset = o] BY <1>7
  <2>3. DataOffset(q) = DataOffset(chunk.begin) + o
    <3>1. DataOffset(q) = DataOffset(file_pos) + n
      BY <1>2, <1>4, DataOffsetInData
    <3>2. DataOffset(chunk.begin) \in Nat BY <1>2, DataOffsetType
    <3> QED BY <3>1, <3>2, <1>2, <1>4
  <2>4. q % BlockSize = 0 \/ q % BlockSize > BlockHeaderSize
    <3>1. CASE (file_pos % BlockSize) + n < BlockSize
      <4>1. q % BlockSize = (file_pos % BlockSize) + n
        BY <3>1, <1>2, <1>4, StepInBlock, BlockSizeNat
      <4> QED BY <4>1, <1>2, <1>3, <1>4, BlockSizeNat
    <3>2. CASE (file_pos % BlockSize) + n = BlockSize
      BY <3>2, <1>2, <1>4, StepToBoundary, BlockSizeNat
    <3> QED BY <3>1, <3>2, <1>3, <1>4, BlockSizeNat
  <2> HIDE DEF q, o
  <2>5. is_possible_chunk_boundary(q) BY <2>1, <2>4, PossibleBoundary
  <2>6. is_block_boundary(q) \/ q % BlockSize >= BlockHeaderSize
    <3>1. q % BlockSize \in Nat BY <2>1, OffsetType
    <3> QED BY <3>1, <2>4, BlockSizeNat DEF is_block_boundary
  <2>7. q <= chunk.end
    <3> DEFINE a == add_with_overhead(chunk.begin, chunk.size)
    <3>1. a \in Nat /\ DataOffset(a) = DataOffset(chunk.begin) + chunk.size
      BY <1>2, AddWithOverheadFacts
    <3>2. a <= chunk.end BY <1>2, <3>1
    <3> HIDE DEF a
    <3>3. DataOffset(a) <= DataOffset(chunk.end)
      BY <3>1, <3>2, <1>2, DataOffsetMonotone
    <3>4. DataOffset(chunk.begin) \in Nat /\ DataOffset(chunk.end) \in Nat
      BY <1>2, DataOffsetType
    <3>5. DataOffset(q) <= DataOffset(chunk.end)
      BY <3>1, <3>3, <3>4, <2>3, <2>1, <1>2, <1>4 DEF o
    <3>6. ASSUME chunk.end < q PROVE FALSE
      <4>1. DataOffset(chunk.end) < DataOffset(q)
        BY <3>6, <1>2, <2>1, <2>5, DataOffsetStrict
      <4> QED BY <4>1, <3>4, <3>5, <2>1, DataOffsetType
    <3> QED BY <3>6, <1>2, <2>1
  <2>8. /\ chunk' \in ChunkRecord /\ chunk'.type = chunk.type
        /\ chunk'.begin = chunk.begin /\ chunk'.end = chunk.end
        /\ chunk'.size = chunk.size /\ chunk'.recs = chunk.recs
        /\ chunk'.offset = o
    BY <1>2, <2>1, <2>2 DEF ChunkRecord
  <2>9. InChunk' /\ (pc' = "data" => chunk'.offset < chunk.size)
    BY <1>7 DEF InChunk
  <2>10. WriterInv'
    BY <1>1, <1>4, <1>7, <2>1, <2>3, <2>6, <2>7, <2>8, <2>9, GrowInChunk
  <2> QED BY <2>10
<1> QED BY <1>5, <1>6, <1>7

LEMMA WriteZerosInv ==
    ASSUME WriterInv, WriteZeros
    PROVE  WriterInv'
<1> DEFINE space == BlockSize - (file_pos % BlockSize)
           n == Smaller(chunk.end - file_pos, space)
<1>1. pc = "pad" /\ ~is_block_boundary(file_pos) /\ InChunk /\ file_pos < chunk.end
  BY DEF WriteZeros, InChunk
<1>2. /\ file_pos \in Nat /\ chunk \in ChunkRecord
      /\ chunk.begin \in Nat /\ chunk.end \in Nat
  BY <1>1 DEF WriterInv, TypeOK, ChunkInv, ChunkRecord
<1>3. file_pos % BlockSize \in 0 .. (BlockSize - 1) BY <1>2, OffsetType
<1>4. /\ n \in Nat /\ n > 0 /\ (file_pos % BlockSize) + n <= BlockSize
      /\ file_pos + n <= chunk.end
  BY <1>1, <1>2, <1>3, BlockSizeNat DEF Smaller
<1>5. \/ FailedWrite(n)
      \/ /\ len' = len + n
         /\ file_pos' = file_pos + n
         /\ UNCHANGED <<last_chunk_start, encoder, accumulated_bytes,
                        pending_record_count, closed, failed, control,
                        blocks, chunks, published, synced, history>>
  BY DEF WriteZeros
<1> HIDE DEF n
<1>6. CASE FailedWrite(n)
  <2>1. pc \in {"block_header", "signature", "data", "pad"} BY <1>1
  <2> QED BY <2>1, <1>4, <1>6, FailedWriteInv
<1>7. CASE
    /\ len' = len + n
    /\ file_pos' = file_pos + n
    /\ UNCHANGED <<last_chunk_start, encoder, accumulated_bytes,
                   pending_record_count, closed, failed, control,
                   blocks, chunks, published, synced, history>>
  <2>1. UNCHANGED <<op, pc, after, added_size, chunk>> BY <1>7 DEF control
  <2>2. InChunk' /\ pc' # "data" BY <1>1, <2>1 DEF InChunk
  <2> QED BY <1>1, <1>2, <1>4, <1>7, <2>1, <2>2, GrowInChunk
<1> QED BY <1>5, <1>6, <1>7
---------------------------------------------------------------------------
(* Steps that complete a chunk. *)

\* What write_chunk_raw's caller sees of the list of chunks.
LEMMA AppendFacts ==
    ASSUME NEW S, NEW s \in Seq(S), NEW c \in S, s # <<>>
    PROVE  /\ Append(s, c) \in Seq(S) /\ Len(Append(s, c)) = Len(s) + 1
           /\ Len(s) \in Nat /\ Len(s) > 0
           /\ DOMAIN s = 1 .. Len(s)
           /\ DOMAIN Append(s, c) = 1 .. (Len(s) + 1)
           /\ \A i \in DOMAIN s : Append(s, c)[i] = s[i]
           /\ Append(s, c)[Len(s) + 1] = c
<1>1. Len(s) \in Nat /\ DOMAIN s = 1 .. Len(s) OBVIOUS
<1>2. Len(s) \in Nat \ {0} BY EmptySeq
<1>3. Append(s, c) \in Seq(S) /\ Len(Append(s, c)) = Len(s) + 1 OBVIOUS
<1>4. DOMAIN Append(s, c) = 1 .. (Len(s) + 1) BY <1>1, <1>3
<1>5. ASSUME NEW i \in 1 .. Len(s) PROVE Append(s, c)[i] = s[i]
  BY <1>1, <1>5
<1>6. Append(s, c)[Len(s) + 1] = c BY <1>1
<1> QED BY <1>1, <1>2, <1>3, <1>4, <1>5, <1>6

LEMMA ChunkWrittenInv == ASSUME WriterInv, ChunkWritten PROVE WriterInv'
<1> DEFINE c == [type |-> chunk.type, begin |-> chunk.begin,
                 end |-> chunk.end, num_records |-> Len(chunk.recs)]
           ChunkDescr == [type : {"signature", "metadata", "data", "padding"},
                          begin : Nat, end : Nat, num_records : Nat]
<1>1. /\ pc = "pad" /\ file_pos >= chunk.end /\ InChunk /\ Started
      /\ chunks' = Append(chunks, c) /\ published' = published \o chunk.recs
      /\ UNCHANGED <<fields, len, blocks, synced, history>>
  BY DEF ChunkWritten, InChunk, Started
<1>2. ~io_error /\ ~failed /\ file_pos = len /\ chunks # <<>>
  BY <1>1 DEF WriterInv, ErrorInv, StartInv
<1>3. /\ chunk \in ChunkRecord /\ file_pos \in Nat
      /\ chunk.begin \in Nat /\ chunk.end \in Nat
      /\ chunk.recs \in Seq(Nat) /\ published \in Seq(Nat)
      /\ chunks \in Seq(ChunkDescr)
  BY DEF WriterInv, TypeOK, ChunkRecord
<1>4. /\ file_pos = chunk.end
      /\ chunk.begin < chunk.end
      /\ is_possible_chunk_boundary(chunk.begin)
      /\ is_possible_chunk_boundary(chunk.end)
      /\ chunk.begin + Len(chunk.recs) <= chunk.end
      /\ chunk.type # "none"
      /\ chunk.begin = chunks[Len(chunks)].end
  <2>1. chunk.begin = chunks[Len(chunks)].end
    BY <1>1, <1>2 DEF WriterInv, ChunksTile, Started
  <2> QED BY <1>1, <1>3, <2>1 DEF WriterInv, ChunkInv
<1>5. /\ chunk' \in ChunkRecord /\ added_size' = added_size /\ after' = after
      /\ op' \in {"none", "drop", op} /\ op' # "new"
      /\ pc' \in {"idle", "gone", "flush_internal", "add", "padding", "sync"}
  <2>1. CASE after = "return"
    <3>1. Return BY <2>1 DEF ChunkWritten
    <3> QED BY <3>1, ReturnFacts, LeaveFacts
  <2>2. CASE after # "return"
    <3>1. pc' = after /\ chunk' = NoChunk /\ UNCHANGED <<op, after, added_size>>
      BY <2>2 DEF ChunkWritten
    <3>2. op # "new" BY <2>2, <1>1 DEF WriterInv, StartInv
    <3>3. after \in {"add", "padding", "sync"} BY <2>2 DEF WriterInv, TypeOK
    <3> QED BY <3>1, <3>2, <3>3, NoChunkType
  <2> QED BY <2>1, <2>2
<1>6. c \in ChunkDescr
  BY <1>3, <1>4 DEF ChunkRecord
<1>7. /\ c.begin = chunk.begin /\ c.end = chunk.end
      /\ c.num_records = Len(chunk.recs)
  OBVIOUS
<1> HIDE DEF c, ChunkDescr
<1>8. /\ chunks' \in Seq(ChunkDescr) /\ Len(chunks') = Len(chunks) + 1
      /\ Len(chunks) \in Nat /\ Len(chunks) > 0
      /\ DOMAIN chunks = 1 .. Len(chunks)
      /\ DOMAIN chunks' = 1 .. (Len(chunks) + 1)
      /\ \A i \in DOMAIN chunks : chunks'[i] = chunks[i]
      /\ chunks'[Len(chunks) + 1] = c
  BY <1>1, <1>2, <1>3, <1>6, AppendFacts
<1>9. TypeOK'
  <2>1. published' \in Seq(Nat) BY <1>1, <1>3
  <2> QED BY <2>1, <1>1, <1>5, <1>8
       DEF WriterInv, TypeOK, ChunkRecord, fields, history, ChunkDescr
<1>10. Started' /\ ~InChunk' /\ pc' # "pad_search" /\ ~io_error'
       /\ file_pos' = file_pos /\ len' = len
  BY <1>1, <1>2, <1>5 DEF Started, InChunk, fields, history
<1>11. StartInv' /\ ErrorInv'
  <2>1. chunks' # <<>> BY <1>8
  <2> QED BY <2>1, <1>1, <1>2, <1>5, <1>10
       DEF StartInv, ErrorInv, Started, fields, history
<1>12. ChunkInv' BY <1>10 DEF ChunkInv
<1>13. ChunksTile'
  <2>1. ASSUME NEW i \in DOMAIN chunks'
        PROVE  /\ is_possible_chunk_boundary(chunks'[i].begin)
               /\ chunks'[i].begin < chunks'[i].end
               /\ chunks'[i].begin = IF i = 1 THEN 0 ELSE chunks'[i - 1].end
    <3>1. CASE i \in DOMAIN chunks
      <4>1. i = 1 \/ i - 1 \in DOMAIN chunks BY <3>1, <1>8
      <4> QED BY <3>1, <4>1, <1>8 DEF WriterInv, ChunksTile
    <3>2. CASE i = Len(chunks) + 1
      <4>1. i # 1 /\ i - 1 = Len(chunks) /\ Len(chunks) \in DOMAIN chunks
        BY <3>2, <1>8
      <4> QED BY <3>2, <4>1, <1>4, <1>7, <1>8
    <3> QED BY <3>1, <3>2, <1>8
  <2>2. file_pos' = chunks'[Len(chunks')].end
    BY <1>4, <1>7, <1>8, <1>10
  <2> QED BY <2>1, <2>2, <1>10 DEF ChunksTile
<1>14. RecordPositionsDisjoint'
  <2>1. ASSUME NEW i \in DOMAIN chunks'
        PROVE  chunks'[i].begin + chunks'[i].num_records <= chunks'[i].end
    <3>1. CASE i \in DOMAIN chunks
      BY <3>1, <1>8 DEF WriterInv, RecordPositionsDisjoint
    <3>2. CASE i = Len(chunks) + 1 BY <3>2, <1>4, <1>7, <1>8
    <3> QED BY <3>1, <3>2, <1>8
  <2> QED BY <2>1 DEF RecordPositionsDisjoint
<1>15. BlockHeadersLead'
  <2>1. Extents \subseteq Extents'
    <3> SUFFICES ASSUME NEW e \in Extents PROVE e \in Extents' OBVIOUS
    <3>1. CASE e = [begin |-> chunk.begin, end |-> chunk.end]
      <4>1. Len(chunks) + 1 \in DOMAIN chunks'
            /\ e = [begin |-> chunks'[Len(chunks) + 1].begin,
                    end |-> chunks'[Len(chunks) + 1].end]
        BY <3>1, <1>7, <1>8
      <4> QED BY <4>1 DEF Extents
    <3>2. CASE e # [begin |-> chunk.begin, end |-> chunk.end]
      <4>1. PICK i \in DOMAIN chunks :
               e = [begin |-> chunks[i].begin, end |-> chunks[i].end]
        BY <3>2, <1>1 DEF Extents, Started
      <4>2. i \in DOMAIN chunks'
            /\ e = [begin |-> chunks'[i].begin, end |-> chunks'[i].end]
        BY <4>1, <1>8
      <4> QED BY <4>2 DEF Extents
    <3> QED BY <3>1, <3>2
  <2> QED BY <2>1, <1>1, <1>2, LeadsKept DEF WriterInv
<1> QED
  BY <1>2, <1>4, <1>9, <1>10, <1>11, <1>12, <1>13, <1>14, <1>15 DEF WriterInv

LEMMA NewBlockHeaderInv ==
    ASSUME WriterInv, NewBlockHeader
    PROVE  WriterInv'
<1>1. /\ pc = "block_header" /\ op = "new" /\ file_pos = 0 /\ len = 0
      /\ chunks = <<>> /\ ~io_error /\ ~failed /\ pending_record_count = 0
  BY DEF NewBlockHeader, WriterInv, StartInv, ErrorInv
<1>2. CASE FailedWrite(BlockHeaderSize)
  BY <1>1, <1>2, FailedWriteInv, BlockSizeNat
<1>3. CASE
    /\ blocks' = WithBlock(blocks, len, [prev |-> 0, next |-> SignatureEnd])
    /\ len' = len + BlockHeaderSize
    /\ file_pos' = BlockHeaderSize
    /\ pc' = "signature"
    /\ UNCHANGED <<last_chunk_start, encoder, accumulated_bytes,
                   pending_record_count, closed, failed, op, after,
                   added_size, chunk, chunks, published, synced, history>>
  <2> DEFINE hdr == [prev |-> 0, next |-> SignatureEnd]
  <2>1. SignatureEnd \in Nat /\ SignatureEnd > 0
    BY LayoutAssumption DEF SignatureEnd
  <2>2. blocks' = [b \in DOMAIN blocks \cup {0} |->
                      IF b = 0 THEN hdr ELSE blocks[b]]
    BY <1>1, <1>3 DEF WithBlock
  <2>3. hdr \in [prev : Nat, next : Nat] /\ hdr.prev = 0 /\ hdr.next = SignatureEnd
    BY <2>1
  <2> HIDE DEF hdr
  <2>4. TypeOK'
    <3>1. DOMAIN blocks' \subseteq Nat
          /\ \A b \in DOMAIN blocks' : blocks'[b] \in [prev : Nat, next : Nat]
      BY <2>2, <2>3 DEF WriterInv, TypeOK
    <3>2. len' \in Nat /\ file_pos' \in Nat BY <1>1, <1>3, BlockSizeNat
    <3> QED BY <3>1, <3>2, <1>3 DEF WriterInv, TypeOK, history
  <2>5. ~InChunk' /\ ~Started' /\ ~io_error' /\ pc' # "pad_search" /\ ~failed'
    BY <1>1, <1>3 DEF InChunk, Started, history
  <2>6. StartInv' /\ ErrorInv'
    BY <1>1, <1>3, <2>5 DEF StartInv, ErrorInv, Started, history, InChunk
  <2>7. ChunkInv' BY <2>5 DEF ChunkInv
  <2>8. ChunksTile' /\ RecordPositionsDisjoint'
    BY <1>1, <1>3, <2>5 DEF ChunksTile, RecordPositionsDisjoint, Started
  <2>9. BlockHeadersLead'
    <3> DEFINE e == [begin |-> 0, end |-> SignatureEnd]
    <3>1. e \in Extents' BY <1>3 DEF Extents
    <3>2. 0 \in DOMAIN blocks' /\ blocks'[0] = hdr BY <2>2
    <3>3. Extents \subseteq Extents'
      BY <1>1, <1>3 DEF Extents, InChunk
    <3>4. \A b \in DOMAIN blocks : b < len => /\ b \in DOMAIN blocks'
                                              /\ blocks'[b] = blocks[b]
      <4>1. DOMAIN blocks \subseteq Nat BY DEF WriterInv, TypeOK
      <4> QED BY <1>1, <4>1
    <3>5. /\ e.begin = 0 - blocks'[0].prev /\ e.begin <= 0
          /\ e.end = 0 + blocks'[0].next /\ 0 < e.end
      BY <3>2, <2>1, <2>3
    <3>6. \E x \in Extents' :
            /\ x.begin = len - blocks'[len].prev /\ x.begin <= len
            /\ x.end = len + blocks'[len].next /\ len < x.end
      BY <3>1, <3>5, <1>1
    <3>7. (len % BlockSize) + BlockHeaderSize <= BlockSize
      <4>1. 0 % BlockSize = 0 BY BlockSizeNat, DivModUnique
      <4> QED BY <4>1, <1>1, BlockSizeNat
    <3> QED BY <1>1, <1>3, <3>2, <3>3, <3>4, <3>6, <3>7, LeadsGrow, BlockSizeNat
  <2>10. ~io_error' => file_pos' = len' BY <1>1, <1>3, BlockSizeNat
  <2> QED BY <2>4, <2>5, <2>6, <2>7, <2>8, <2>9, <2>10 DEF WriterInv
<1> QED BY <1>2, <1>3 DEF NewBlockHeader

LEMMA NewSignatureInv ==
    ASSUME WriterInv, NewSignature
    PROVE  WriterInv'
<1>1. /\ pc = "signature" /\ op = "new" /\ file_pos = BlockHeaderSize
      /\ len = BlockHeaderSize /\ chunks = <<>> /\ ~io_error /\ ~failed
      /\ pending_record_count = 0
  BY DEF NewSignature, WriterInv, StartInv, ErrorInv
<1>2. CASE FailedWrite(ChunkHeaderSize)
  BY <1>1, <1>2, FailedWriteInv, LayoutAssumption
<1>3. CASE
    /\ chunks' = << [type |-> "signature", begin |-> 0,
                     end |-> SignatureEnd, num_records |-> 0] >>
    /\ len' = len + ChunkHeaderSize
    /\ file_pos' = file_pos + ChunkHeaderSize
    /\ IF WithMetadata THEN op' = op /\ pc' = "metadata"
                       ELSE op' = "none" /\ pc' = "idle"
    /\ UNCHANGED <<last_chunk_start, encoder, accumulated_bytes,
                   pending_record_count, closed, failed, after,
                   added_size, chunk, blocks, published, synced, history>>
  <2>1. /\ SignatureEnd \in Nat /\ SignatureEnd > 0 /\ len' = SignatureEnd
        /\ file_pos' = SignatureEnd /\ SignatureEnd <= BlockSize
        /\ SignatureEnd > BlockHeaderSize
    BY <1>1, <1>3, LayoutAssumption, WriterAssumption
       DEF SignatureEnd, USABLE_BLOCK_SIZE
  <2> DEFINE c == [type |-> "signature", begin |-> 0,
                   end |-> SignatureEnd, num_records |-> 0]
  <2>2. c \in [type : {"signature", "metadata", "data", "padding"},
               begin : Nat, end : Nat, num_records : Nat]
        /\ c.begin = 0 /\ c.end = SignatureEnd /\ c.num_records = 0
    BY <2>1
  <2>3. chunks' = <<c>> BY <1>3
  <2> HIDE DEF c
  <2>4. DOMAIN chunks' = {1} /\ chunks'[1] = c /\ Len(chunks') = 1
    BY <2>3
  <2>5. ~InChunk' /\ Started' /\ ~io_error' /\ pc' # "pad_search" /\ ~failed'
    BY <1>1, <1>3 DEF InChunk, Started, history
  <2>6. TypeOK'
    <3>1. chunks' \in Seq([type : {"signature", "metadata", "data", "padding"},
                           begin : Nat, end : Nat, num_records : Nat])
      BY <2>2, <2>3
    <3>2. pc' \in {"metadata", "idle"} /\ op' \in {"none", "new"}
      BY <1>1, <1>3
    <3> QED BY <3>1, <3>2, <2>1, <1>3 DEF WriterInv, TypeOK, history
  <2>7. StartInv' /\ ErrorInv'
    BY <1>1, <1>3, <2>3, <2>5 DEF StartInv, ErrorInv, Started, InChunk, history
  <2>8. ChunkInv' BY <2>5 DEF ChunkInv
  <2>9. is_possible_chunk_boundary(0)
    <3>1. 0 % BlockSize = 0 BY BlockSizeNat, DivModUnique
    <3> QED BY <3>1, PossibleBoundary
  <2>10. is_possible_chunk_boundary(SignatureEnd)
    <3>1. CASE SignatureEnd = BlockSize
      <4>1. SignatureEnd = BlockSize * 1 + 0 BY <3>1, BlockSizeNat
      <4>2. SignatureEnd % BlockSize = 0
        BY <4>1, <2>1, DivModUnique, BlockSizeNat
      <4> QED BY <4>2, <2>1, PossibleBoundary
    <3>2. CASE SignatureEnd < BlockSize
      <4>1. SignatureEnd % BlockSize = SignatureEnd
        <5>1. SignatureEnd = BlockSize * 0 + SignatureEnd BY <2>1, BlockSizeNat
        <5> QED BY <5>1, <3>2, <2>1, DivModUnique, BlockSizeNat
      <4> QED BY <4>1, <2>1, PossibleBoundary
    <3> QED BY <3>1, <3>2, <2>1, BlockSizeNat
  <2>11. ChunksTile' /\ RecordPositionsDisjoint'
    BY <2>1, <2>2, <2>4, <2>5, <2>9 DEF ChunksTile, RecordPositionsDisjoint
  <2>12. BlockHeadersLead'
    <3>1. Extents \subseteq Extents'
      <4>1. Extents = {[begin |-> 0, end |-> SignatureEnd]}
        BY <1>1 DEF Extents, InChunk
      <4>2. [begin |-> 0, end |-> SignatureEnd] \in Extents'
        BY <2>2, <2>4 DEF Extents
      <4> QED BY <4>1, <4>2
    <3>2. len % BlockSize = BlockHeaderSize
      <4>1. BlockHeaderSize = BlockSize * 0 + BlockHeaderSize BY BlockSizeNat
      <4> QED BY <4>1, <1>1, DivModUnique, BlockSizeNat
    <3>3. ~is_block_boundary(len) /\ (len % BlockSize) + ChunkHeaderSize <= BlockSize
      BY <3>2, <1>1, <1>3, <2>1, BlockSizeNat, LayoutAssumption
         DEF is_block_boundary
    <3>4. \A b \in DOMAIN blocks : b < len => /\ b \in DOMAIN blocks'
                                              /\ blocks'[b] = blocks[b]
      BY <1>3
    <3> QED BY <1>1, <1>3, <3>1, <3>3, <3>4, LeadsGrow, LayoutAssumption
  <2> QED BY <2>1, <2>5, <2>6, <2>7, <2>8, <2>10, <2>11, <2>12 DEF WriterInv
<1> QED BY <1>2, <1>3 DEF NewSignature

---------------------------------------------------------------------------
\* Every step preserves the invariant.
LEMMA NextInv ==
    ASSUME OptionsSeparate \/ ~io_error, WriterInv, [Next]_vars
    PROVE  WriterInv'
<1>1. CASE NewBlockHeader BY <1>1, NewBlockHeaderInv
<1>2. CASE NewSignature BY <1>2, NewSignatureInv
<1>3. CASE WriteMetadata BY <1>3, WriteMetadataInv
<1>4. CASE WriteBlockHeader BY <1>4, WriteBlockHeaderInv
<1>5. CASE WriteBytes BY <1>5, WriteBytesInv
<1>6. CASE WriteZeros BY <1>6, WriteZerosInv
<1>7. CASE ChunkWritten BY <1>7, ChunkWrittenInv
<1>8. CASE FlushChunk BY <1>8, FlushChunkInv
<1>9. CASE AddRecord BY <1>9, AddRecordInv
<1>10. CASE FlushInternal BY <1>10, FlushInternalInv
<1>11. CASE StartPadding BY <1>11, StartPaddingInv
<1>12. CASE SearchPadding BY <1>12, SearchPaddingInv
<1>13. CASE Sync BY <1>13, SyncInv
<1>14. CASE Flush BY <1>14, FlushInv
<1>15. CASE Close BY <1>15, CloseInv
<1>16. ASSUME NEW size \in RecordSizes, WriteRecord(size) PROVE WriterInv'
  BY <1>16, WriteRecordInv
<1>17. CASE UNCHANGED vars
  <2>1. UNCHANGED <<file_pos, last_chunk_start, encoder, accumulated_bytes,
                    pending_record_count, closed, failed, op, pc, after,
                    added_size, chunk, len, blocks, chunks, published, synced,
                    accepted, io_error>>
    BY <1>17 DEF vars, fields, control, stream, history
  <2>2. /\ TypeOK' /\ StartInv' /\ ErrorInv'
    BY <2>1 DEF WriterInv, TypeOK, StartInv, ErrorInv, Started, InChunk
  <2>3. ChunkInv' /\ ChunksTile' /\ RecordPositionsDisjoint'
    BY <2>1 DEF WriterInv, ChunkInv, ChunksTile, RecordPositionsDisjoint, InChunk
  <2>4. Extents' = Extents BY <2>1 DEF Extents, InChunk
  <2>5. BlockHeadersLead' BY <2>1, <2>4 DEF WriterInv, BlockHeadersLead
  <2> QED BY <2>1, <2>2, <2>3, <2>5 DEF WriterInv, Started, InChunk
<1> QED
  BY <1>1, <1>2, <1>3, <1>4, <1>5, <1>6, <1>7, <1>8, <1>9, <1>10, <1>11,
     <1>12, <1>13, <1>14, <1>15, <1>16, <1>17 DEF Next, Step, Call

\* The invariant of the writer, for all sizes and options that do not combine
\* metadata with final padding.
THEOREM WriterInvariant == ASSUME OptionsSeparate PROVE Spec => []WriterInv
<1>1. Init => WriterInv BY InitInv
<1>2. WriterInv /\ [Next]_vars => WriterInv' BY NextInv
<1> QED BY <1>1, <1>2, PTL DEF Spec

\* An error on the stream is never forgotten.
LEMMA ErrorStays == ASSUME io_error, [Next]_vars PROVE io_error'
BY DEF Next, Step, Call, NewBlockHeader, NewSignature, WriteMetadata,
   WriteBlockHeader, WriteBytes, WriteZeros, ChunkWritten, FlushChunk, AddRecord,
   FlushInternal, StartPadding, SearchPadding, Sync, WriteRecord, Flush, Close,
   FailedWrite, history, vars

(***************************************************************************)
(* With all options, the invariant holds as long as no call on the stream  *)
(* has failed: only what new() and Drop do after an error needs            *)
(* OptionsSeparate.                                                        *)
(***************************************************************************)
THEOREM WriterInvariantUntilError == Spec => [](~io_error => WriterInv)
<1>1. Init => (~io_error => WriterInv) BY InitInv
<1>2. (~io_error => WriterInv) /\ [Next]_vars => (~io_error => WriterInv)'
  BY NextInv, ErrorStays
<1> QED BY <1>1, <1>2, PTL DEF Spec

(***************************************************************************)
(* The layout of a file, for all options, as long as no call on the stream *)
(* has failed.                                                             *)
(***************************************************************************)
THEOREM WriterLayout ==
    Spec => [](~io_error => /\ PositionTracksStream /\ ChunksTile
                            /\ BlockHeadersLead /\ RecordPositionsDisjoint)
<1>1. WriterInv => /\ PositionTracksStream /\ ChunksTile
                   /\ BlockHeadersLead /\ RecordPositionsDisjoint
  BY DEF WriterInv, ChunkInv, PositionTracksStream
<1> QED BY <1>1, WriterInvariantUntilError, PTL

(***************************************************************************)
(* The position write_chunk_raw keeps is the length of the stream, and a   *)
(* chunk never outgrows the extent its block headers announced.            *)
(***************************************************************************)
THEOREM WriterPosition ==
    ASSUME OptionsSeparate PROVE Spec => []PositionTracksStream
<1>1. WriterInv => PositionTracksStream
  BY DEF WriterInv, ChunkInv, PositionTracksStream
<1> QED BY <1>1, WriterInvariant, PTL

(***************************************************************************)
(* The chunks of a file tile it, each beginning where a chunk may begin.   *)
(***************************************************************************)
THEOREM WriterTiles == ASSUME OptionsSeparate PROVE Spec => []ChunksTile
<1>1. WriterInv => ChunksTile BY DEF WriterInv
<1> QED BY <1>1, WriterInvariant, PTL

(***************************************************************************)
(* Every block boundary of the file carries a block header that leads to   *)
(* the begin and to the end of the chunk that covers it.                   *)
(***************************************************************************)
THEOREM WriterBlocksLead ==
    ASSUME OptionsSeparate PROVE Spec => []BlockHeadersLead
<1>1. WriterInv => BlockHeadersLead BY DEF WriterInv
<1> QED BY <1>1, WriterInvariant, PTL

(***************************************************************************)
(* Numeric record positions of different chunks never collide.             *)
(***************************************************************************)
THEOREM WriterPositionsDisjoint ==
    ASSUME OptionsSeparate PROVE Spec => []RecordPositionsDisjoint
<1>1. WriterInv => RecordPositionsDisjoint BY DEF WriterInv
<1> QED BY <1>1, WriterInvariant, PTL

(***************************************************************************)
(* Once a call on the stream has failed the writer adds no byte to it.     *)
(***************************************************************************)
THEOREM WriterStopsAtError ==
    ASSUME OptionsSeparate PROVE Spec => NoWriteAfterError
<1>1. WriterInv /\ [Next]_vars => [io_error => len' = len]_vars
  <2> SUFFICES ASSUME WriterInv, Next, io_error PROVE len' = len
    BY DEF vars, stream
  <2>1. pc \in {"idle", "flush_internal", "gone", "padding", "sync"}
    BY DEF WriterInv, ErrorInv
  <2> QED BY <2>1 DEF Next, Step, Call, NewBlockHeader, NewSignature,
        WriteMetadata, WriteBlockHeader, AtBoundary, WriteBytes, WriteZeros,
        ChunkWritten, FlushChunk, AddRecord, FlushInternal, StartPadding,
        SearchPadding, Sync, WriteRecord, Flush, Close, stream, vars
<1> QED BY <1>1, WriterInvariant, PTL DEF Spec, NoWriteAfterError

---------------------------------------------------------------------------
(* The records the writer was given: none is lost, and the writer          *)
(* implements the append-only log of RecordLog, for every option.          *)

\* The records accepted so far, as a sequence.
LEMMA InOrderFacts ==
    ASSUME accepted \in Nat
    PROVE  /\ InOrder \in Seq(Nat) /\ Len(InOrder) = accepted
           /\ accepted = 0 => InOrder = <<>>
<1>1. InOrder \in [1 .. accepted -> Nat] BY DEF InOrder
<1>2. InOrder \in Seq(Nat) /\ Len(InOrder) = accepted BY <1>1
<1> QED BY <1>2, EmptySeq

\* Accepting a record extends the log by the next number.
LEMMA InOrderAppend ==
    ASSUME accepted \in Nat, accepted' = accepted + 1
    PROVE  InOrder' = Append(InOrder, accepted + 1)
<1> DEFINE s == [i \in 1 .. accepted + 1 |-> i]
<1>1. InOrder' = s BY DEF InOrder
<1>2. InOrder \in Seq(Nat) /\ Len(InOrder) = accepted BY InOrderFacts
<1>3. /\ Append(InOrder, accepted + 1) \in Seq(Nat)
      /\ Len(Append(InOrder, accepted + 1)) = accepted + 1
      /\ \A i \in 1 .. accepted : Append(InOrder, accepted + 1)[i] = InOrder[i]
      /\ Append(InOrder, accepted + 1)[accepted + 1] = accepted + 1
  BY <1>2, AppendProperties
<1>4. s \in Seq(Nat) /\ Len(s) = accepted + 1
  <2>1. s \in [1 .. accepted + 1 -> Nat] OBVIOUS
  <2> QED BY <2>1
<1>5. \A i \in 1 .. accepted + 1 : s[i] = Append(InOrder, accepted + 1)[i]
  BY <1>3 DEF InOrder
<1> HIDE DEF s
<1>6. s = Append(InOrder, accepted + 1) BY <1>3, <1>4, <1>5, SeqEqual
<1> QED BY <1>1, <1>6

LEMMA RecordsInit == Init => RecordsInv
<1> SUFFICES ASSUME Init PROVE RecordsInv OBVIOUS
<1>1. accepted = 0 /\ InOrder = <<>> BY InOrderFacts DEF Init
<1>2. chunk.recs = <<>> /\ chunk.accounted = 0 /\ {"recs", "accounted"} \subseteq DOMAIN chunk
  BY DEF Init, NoChunk
<1>3. RecordTypes
  <2>1. encoder \in Seq(Nat) /\ published \in Seq(Nat) /\ chunk.recs \in Seq(Nat)
    BY <1>2, EmptySeq DEF Init
  <2>2. accepted \in Nat /\ synced \in Nat /\ accumulated_bytes \in Nat /\ chunk.accounted \in Nat
    BY <1>2 DEF Init
  <2>3. failed \in BOOLEAN /\ io_error \in BOOLEAN BY DEF Init
  <2> QED BY <1>2, <2>1, <2>2, <2>3 DEF RecordTypes
<1>4. OperationInv /\ FailureInv BY <1>2 DEF Init, OperationInv, FailureInv, LogUntouched, InChunk
<1>5. BatchInv BY <1>2 DEF Init, BatchInv, InChunk, RecordOverhead
<1>6. ChunkSizeRespected BY DEF Init, ChunkSizeRespected, InChunk
<1>7. RecordsConserved
  <2>1. <<>> \o <<>> \o <<>> = <<>> BY EmptySeq, ConcatEmptySeq
  <2> QED BY <1>1, <1>2, <2>1 DEF Init, RecordsConserved
<1> QED BY <1>3, <1>4, <1>5, <1>6, <1>7 DEF RecordsInv

---------------------------------------------------------------------------
(* Steps that leave the records alone. *)

batch == <<encoder, accumulated_bytes, pending_record_count>>

\* The chunk that is no chunk carries no records.
LEMMA NoChunkRecords ==
    /\ NoChunk.recs = <<>> /\ NoChunk.accounted = 0
    /\ {"recs", "accounted"} \subseteq DOMAIN NoChunk
BY DEF NoChunk

\* The records stay where they are.
LEMMA ConservedKept ==
    ASSUME RecordsInv, UNCHANGED <<published, encoder, accepted>>,
           chunk'.recs = chunk.recs, failed => failed', io_error => io_error'
    PROVE  RecordsConserved'
BY DEF RecordsInv, RecordTypes, RecordsConserved, InOrder

\* A step that moves the control and leaves the batch and the log as they are,
\* with no chunk in progress before or after it, or with the same one.
LEMMA QuietRecords ==
    ASSUME RecordsInv, UNCHANGED <<batch, published, synced, accepted, failed, io_error>>,
           chunk'.recs = chunk.recs, chunk'.accounted = chunk.accounted,
           {"recs", "accounted"} \subseteq DOMAIN chunk',
           OperationInv', InChunk' = InChunk,
           failed => pc' \in {"idle", "flush_internal", "gone"},
           op' = "new" => op = "new",
           op' = "write_record" => op = "write_record" /\ added_size' = added_size,
           io_error /\ ~failed => op' = op \/ pc' = "gone",
           pc' \in {"padding", "pad_search", "sync"} => encoder = <<>>,
           pc' # "add", pc' = "flush_chunk" => encoder # <<>>,
           pc' = "idle" /\ ~failed => encoder = <<>> \/ pc = "idle",
           io_error /\ ~failed => pc # "gone"
    PROVE  RecordsInv'
<1> USE DEF RecordsInv, batch
<1>1. RecordTypes' BY DEF RecordTypes
<1>2. RecordsConserved' BY ConservedKept
<1>3. FailureInv' BY DEF FailureInv, LogUntouched
<1>4. BatchInv' BY DEF BatchInv, InChunk
<1>5. ChunkSizeRespected'
  BY DEF ChunkSizeRespected, BatchInv, InChunk, RecordTypes
<1> QED BY <1>1, <1>2, <1>3, <1>4, <1>5

\* An error return: the batch may be in any state, because nobody looks at it
\* any more; unless new() fails, which has no batch.
LEMMA FailRecords ==
    ASSUME RecordsInv, Fail, UNCHANGED <<published, synced, accepted>>,
           encoder' \in Seq(Nat), accumulated_bytes' \in Nat,
           op = "new" => UNCHANGED batch,
           io_error' \in BOOLEAN, io_error => io_error', pc # "gone"
    PROVE  RecordsInv'
<1> USE DEF RecordsInv, batch
<1>1. /\ chunk'.recs = <<>> /\ chunk'.accounted = 0
      /\ {"recs", "accounted"} \subseteq DOMAIN chunk'
  BY NoChunkRecords DEF Fail
<1>2. failed' \in BOOLEAN /\ (op # "new" => failed') /\ (op = "new" => failed' = failed)
  BY DEF Fail, RecordTypes
<1>3. RecordTypes' BY <1>1, <1>2, EmptySeq DEF RecordTypes
<1>4. \/ op' = "none" /\ pc' \in {"idle", "gone"} /\ (op = "new" => pc' = "gone")
      \/ op \in {"new", "close"} /\ op' = "drop" /\ pc' = "flush_internal"
  BY DEF Fail, Leave
<1>5. OperationInv' BY <1>4 DEF OperationInv, InChunk
<1>6. op = "new" => LogUntouched /\ LogUntouched'
  BY <1>1 DEF FailureInv, LogUntouched
<1>7. FailureInv' BY <1>2, <1>4, <1>6 DEF FailureInv
<1>8. BatchInv' BY <1>1, <1>2, <1>4 DEF BatchInv, InChunk
<1>9. ChunkSizeRespected' BY <1>2, <1>4 DEF ChunkSizeRespected, InChunk
<1>10. RecordsConserved'
  <2>1. CASE op = "new" BY <2>1, <1>1, <1>2, <1>6, ConservedKept DEF LogUntouched
  <2>2. CASE op # "new" BY <2>2, <1>2 DEF RecordsConserved
  <2> QED BY <2>1, <2>2
<1> QED BY <1>3, <1>5, <1>7, <1>8, <1>9, <1>10

LEMMA FailedWriteRecords ==
    ASSUME RecordsInv, NEW n, FailedWrite(n), pc # "gone" PROVE RecordsInv'
BY FailRecords DEF FailedWrite, batch, RecordsInv, RecordTypes

LEMMA NewBlockHeaderRecords == ASSUME RecordsInv, NewBlockHeader PROVE RecordsInv'
<1>1. CASE FailedWrite(BlockHeaderSize) BY <1>1, FailedWriteRecords DEF NewBlockHeader
<1>2. CASE /\ pc' = "signature"
           /\ UNCHANGED <<encoder, accumulated_bytes, pending_record_count, failed,
                          op, added_size, chunk, published, synced, history>>
  <2>1. OperationInv'
    BY <1>2 DEF NewBlockHeader, RecordsInv, OperationInv, InChunk
  <2> QED BY <1>2, <2>1, QuietRecords
          DEF NewBlockHeader, RecordsInv, RecordTypes, FailureInv, InChunk, batch, history
<1> QED BY <1>1, <1>2 DEF NewBlockHeader

LEMMA NewSignatureRecords == ASSUME RecordsInv, NewSignature PROVE RecordsInv'
<1>1. CASE FailedWrite(ChunkHeaderSize) BY <1>1, FailedWriteRecords DEF NewSignature
<1>2. CASE /\ \/ op' = op /\ pc' = "metadata"
              \/ op' = "none" /\ pc' = "idle"
           /\ UNCHANGED <<encoder, accumulated_bytes, pending_record_count, failed,
                          chunk, published, synced, history>>
  <2>1. pc = "signature" /\ op = "new" BY DEF NewSignature, RecordsInv, OperationInv
  <2>2. encoder = <<>> /\ ~failed /\ ~io_error
    BY <2>1 DEF RecordsInv, FailureInv, LogUntouched
  <2>3. OperationInv' BY <1>2, <2>1 DEF OperationInv, InChunk
  <2> QED BY <1>2, <2>1, <2>2, <2>3, QuietRecords
          DEF RecordsInv, RecordTypes, FailureInv, InChunk, batch, history
<1> QED BY <1>1, <1>2 DEF NewSignature

LEMMA WriteBlockHeaderRecords == ASSUME RecordsInv, WriteBlockHeader PROVE RecordsInv'
<1>1. CASE FailedWrite(BlockHeaderSize)
  BY <1>1, FailedWriteRecords DEF WriteBlockHeader, AtBoundary
<1>2. CASE UNCHANGED <<encoder, accumulated_bytes, pending_record_count, failed,
                       control, published, synced, history>>
  <2>1. OperationInv'
    BY <1>2 DEF RecordsInv, OperationInv, InChunk, control
  <2> QED BY <1>2, <2>1, QuietRecords
          DEF WriteBlockHeader, AtBoundary, RecordsInv, RecordTypes, FailureInv, InChunk, batch,
              history, control
<1> QED BY <1>1, <1>2 DEF WriteBlockHeader

LEMMA WriteBytesRecords == ASSUME RecordsInv, WriteBytes PROVE RecordsInv'
<1>1. ASSUME NEW n, FailedWrite(n) PROVE RecordsInv'
  BY <1>1, FailedWriteRecords DEF WriteBytes
<1>2. ASSUME NEW n, chunk' = [chunk EXCEPT !.offset = n], pc' \in {"data", "pad"},
             UNCHANGED <<encoder, accumulated_bytes, pending_record_count, failed,
                         op, after, added_size, published, synced, history>>
      PROVE  RecordsInv'
  <2>1. /\ chunk'.recs = chunk.recs /\ chunk'.accounted = chunk.accounted
        /\ {"recs", "accounted"} \subseteq DOMAIN chunk'
    BY <1>2 DEF RecordsInv, RecordTypes
  <2>2. OperationInv'
    BY <1>2 DEF RecordsInv, OperationInv, InChunk, WriteBytes
  <2> QED BY <1>2, <2>1, <2>2, QuietRecords
          DEF WriteBytes, RecordsInv, RecordTypes, FailureInv, InChunk, batch, history
<1> QED BY <1>1, <1>2 DEF WriteBytes

LEMMA WriteZerosRecords == ASSUME RecordsInv, WriteZeros PROVE RecordsInv'
<1>1. ASSUME NEW n, FailedWrite(n) PROVE RecordsInv'
  BY <1>1, FailedWriteRecords DEF WriteZeros
<1>2. CASE UNCHANGED <<encoder, accumulated_bytes, pending_record_count, failed,
                       control, published, synced, history>>
  <2>1. OperationInv'
    BY <1>2 DEF RecordsInv, OperationInv, InChunk, control
  <2> QED BY <1>2, <2>1, QuietRecords
          DEF WriteZeros, RecordsInv, RecordTypes, FailureInv, InChunk, batch,
              history, control
<1> QED BY <1>1, <1>2 DEF WriteZeros

LEMMA FlushInternalRecords == ASSUME RecordsInv, FlushInternal PROVE RecordsInv'
<1>1. /\ pc = "flush_internal" /\ op \in {"close", "drop"}
      /\ UNCHANGED <<encoder, accumulated_bytes, pending_record_count, failed, chunk,
                     published, synced, history>>
  BY DEF FlushInternal, RecordsInv, OperationInv, stream
<1>2. \/ op = "close" /\ op' = "drop" /\ pc' = "flush_internal"
      \/ op = "drop" /\ op' = "none" /\ pc' = "gone"
      \/ /\ ~failed /\ op' = op /\ after' = "padding"
         /\ pc' = StartFlush /\ pc' \in {"flush_chunk", "padding"}
  BY <1>1 DEF FlushInternal, StartFlush, Leave
<1>3. (pc' = "padding" => encoder = <<>>) /\ (pc' = "flush_chunk" => encoder # <<>>)
  BY <1>2, EmptySeq DEF StartFlush, RecordsInv, RecordTypes, BatchInv
<1>4. OperationInv' BY <1>1, <1>2 DEF OperationInv, InChunk
<1> QED BY <1>1, <1>2, <1>3, <1>4, QuietRecords
        DEF RecordsInv, RecordTypes, FailureInv, InChunk, batch, history

LEMMA FlushRecords == ASSUME RecordsInv, Flush PROVE RecordsInv'
<1>1. /\ pc = "idle" /\ ~failed /\ op' = "flush" /\ after' = "padding"
      /\ pc' \in {"flush_chunk", "padding"}
      /\ UNCHANGED <<encoder, accumulated_bytes, pending_record_count, failed, chunk,
                     published, synced, history>>
  BY DEF Flush, StartFlush, fields, stream
<1>2. (pc' = "padding" => encoder = <<>>) /\ (pc' = "flush_chunk" => encoder # <<>>)
  BY <1>1, EmptySeq DEF Flush, StartFlush, RecordsInv, RecordTypes, BatchInv
<1>3. OperationInv' BY <1>1 DEF OperationInv, InChunk
<1>4. ~io_error
  <2>1. SUFFICES ASSUME io_error PROVE FALSE BY DEF RecordsInv, RecordTypes
  <2> QED BY <1>1, <2>1 DEF RecordsInv, FailureInv, OperationInv
<1> QED BY <1>1, <1>2, <1>3, <1>4, QuietRecords
        DEF RecordsInv, RecordTypes, FailureInv, InChunk, batch, history

LEMMA CloseRecords == ASSUME RecordsInv, Close PROVE RecordsInv'
<1>1. /\ pc = "idle" /\ op = "none" /\ op' \in {"close", "drop"} /\ pc' = "flush_internal"
      /\ UNCHANGED <<encoder, accumulated_bytes, pending_record_count, failed, chunk,
                     published, synced, history>>
  BY DEF Close, fields, stream, RecordsInv, OperationInv
<1>2. OperationInv' BY <1>1 DEF OperationInv, InChunk
<1> QED BY <1>1, <1>2, QuietRecords
        DEF RecordsInv, RecordTypes, FailureInv, InChunk, batch, history

LEMMA StartPaddingRecords == ASSUME RecordsInv, StartPadding PROVE RecordsInv'
<1>1. /\ pc = "padding" /\ pc' \in {"sync", "pad_search"}
      /\ UNCHANGED <<encoder, accumulated_bytes, pending_record_count, failed, op,
                     added_size, published, synced, history>>
  BY DEF StartPadding, fields, stream
<1>2. chunk.recs = <<>> /\ encoder = <<>>
  BY <1>1 DEF RecordsInv, BatchInv, InChunk, FailureInv
<1>3. chunk'.recs = <<>> /\ {"recs", "accounted"} \subseteq DOMAIN chunk' /\ chunk'.accounted \in Nat
  <2> DEFINE e == file_pos + FinalPadding - (file_pos % FinalPadding)
  <2>1. \/ chunk' = chunk
        \/ chunk' = [NoChunk EXCEPT !.begin = file_pos, !.end = e]
    BY Zenon DEF StartPadding
  <2> HIDE DEF e
  <2>2. CASE chunk' = chunk BY <1>2, <2>2 DEF RecordsInv, RecordTypes
  <2>3. CASE chunk' = [NoChunk EXCEPT !.begin = file_pos, !.end = e]
    BY <2>3 DEF NoChunk
  <2> QED BY <2>1, <2>2, <2>3
<1>4. OperationInv' BY <1>1 DEF RecordsInv, OperationInv, InChunk
<1>5. RecordTypes' BY <1>1, <1>2, <1>3 DEF RecordsInv, RecordTypes, history
<1>6. RecordsConserved' BY <1>1, <1>2, <1>3, ConservedKept DEF history
<1>7. FailureInv' BY <1>1, <1>2, <1>3 DEF RecordsInv, FailureInv, LogUntouched, history
<1>8. BatchInv' BY <1>1, <1>2, <1>3 DEF RecordsInv, BatchInv, InChunk
<1>9. ChunkSizeRespected' BY <1>1 DEF ChunkSizeRespected, InChunk
<1> QED BY <1>4, <1>5, <1>6, <1>7, <1>8, <1>9 DEF RecordsInv

---------------------------------------------------------------------------
(* Steps that move records. *)

\* Placing a chunk: it takes all the records, if it takes any.
LEMMA StartChunkFacts ==
    ASSUME NEW type, NEW recs, NEW size, NEW then, StartChunk(type, recs, size, then)
    PROVE  /\ chunk'.recs = recs /\ chunk'.accounted = accumulated_bytes
           /\ {"recs", "accounted"} \subseteq DOMAIN chunk'
           /\ pc' = "data" /\ after' = then /\ UNCHANGED <<op, added_size>>
BY DEF StartChunk

\* A metadata or padding chunk.
LEMMA EmptyChunkRecords ==
    ASSUME RecordsInv, NEW type, NEW size, NEW then,
           StartChunk(type, <<>>, size, then),
           UNCHANGED <<batch, failed, published, synced, history>>,
           encoder = <<>>, ~failed, ~InChunk, OperationInv', pc # "gone"
    PROVE  RecordsInv'
<1> USE DEF RecordsInv, batch, history
<1>1. /\ chunk'.recs = <<>> /\ chunk'.accounted = accumulated_bytes
      /\ {"recs", "accounted"} \subseteq DOMAIN chunk'
      /\ pc' = "data" /\ UNCHANGED <<op, added_size>>
  BY StartChunkFacts
<1>2. chunk.recs = <<>> BY DEF BatchInv
<1>3. RecordTypes' BY <1>1, EmptySeq DEF RecordTypes
<1>4. RecordsConserved' BY <1>1, <1>2, ConservedKept
<1>5. FailureInv' BY <1>1, <1>2 DEF FailureInv, LogUntouched
<1>6. BatchInv' BY <1>1 DEF BatchInv, InChunk
<1>7. ChunkSizeRespected'
  BY <1>1, EmptySeq DEF ChunkSizeRespected, InChunk, RecordOverhead, RecordTypes
<1> QED BY <1>3, <1>4, <1>5, <1>6, <1>7

LEMMA WriteMetadataRecords == ASSUME RecordsInv, WriteMetadata PROVE RecordsInv'
<1>1. pc = "metadata" /\ op = "new" BY DEF WriteMetadata, RecordsInv, OperationInv
<1>2. encoder = <<>> /\ ~failed
  BY <1>1 DEF RecordsInv, FailureInv, LogUntouched
<1>3. ASSUME NEW size \in DataSizes, StartChunk("metadata", <<>>, size, "return"),
             UNCHANGED <<encoder, accumulated_bytes, pending_record_count, failed,
                         stream, history>>
      PROVE  RecordsInv'
  <2>1. OperationInv' BY <1>1, <1>3, StartChunkFacts DEF OperationInv, InChunk
  <2> QED BY <1>1, <1>2, <1>3, <2>1, EmptyChunkRecords DEF InChunk, batch, stream
<1>4. CASE Fail /\ UNCHANGED <<encoder, accumulated_bytes, pending_record_count,
                               stream, history>>
  BY <1>1, <1>4, FailRecords DEF RecordsInv, RecordTypes, batch, stream, history
<1> QED BY <1>3, <1>4 DEF WriteMetadata

LEMMA SearchPaddingRecords == ASSUME RecordsInv, SearchPadding PROVE RecordsInv'
<1>1. /\ pc = "pad_search" /\ op \in {"flush", "close", "drop"}
      /\ UNCHANGED <<encoder, accumulated_bytes, pending_record_count, failed,
                     stream, history>>
  BY DEF SearchPadding, RecordsInv, OperationInv
<1>2. encoder = <<>> /\ ~failed BY <1>1 DEF RecordsInv, BatchInv, FailureInv
<1>3. ASSUME NEW size, StartChunk("padding", <<>>, size, "sync") PROVE RecordsInv'
  <2>1. OperationInv' BY <1>1, <1>3, StartChunkFacts DEF OperationInv, InChunk
  <2> QED BY <1>1, <1>2, <1>3, <2>1, EmptyChunkRecords DEF InChunk, batch, stream
<1>4. ASSUME NEW e, chunk' = [chunk EXCEPT !.end = e], UNCHANGED <<op, pc>>
      PROVE  RecordsInv'
  <2>1. /\ chunk'.recs = chunk.recs /\ chunk'.accounted = chunk.accounted
        /\ {"recs", "accounted"} \subseteq DOMAIN chunk'
    BY <1>4 DEF RecordsInv, RecordTypes
  <2>2. OperationInv' BY <1>1, <1>4 DEF OperationInv, InChunk
  <2> QED BY <1>1, <1>2, <1>4, <2>1, <2>2, QuietRecords
          DEF RecordsInv, RecordTypes, InChunk, batch, stream, history
<1> QED BY <1>3, <1>4 DEF SearchPadding

\* The batch becomes the chunk.
LEMMA FlushChunkRecords == ASSUME RecordsInv, FlushChunk PROVE RecordsInv'
<1> USE DEF RecordsInv
<1>1. /\ pc = "flush_chunk" /\ op \notin {"new", "none"} /\ ~failed /\ ~io_error
      /\ chunk.recs = <<>>
      /\ encoder' = <<>> /\ accumulated_bytes' = 0 /\ pending_record_count' = 0
      /\ UNCHANGED <<stream, history>>
  <2>1. pc = "flush_chunk" /\ op \notin {"new", "none"} /\ ~failed /\ chunk.recs = <<>>
    BY DEF FlushChunk, OperationInv, FailureInv, BatchInv, InChunk
  <2>2. ~io_error
    <3> SUFFICES ASSUME io_error PROVE FALSE BY DEF RecordTypes
    <3>1. LogUntouched /\ op = "drop" BY <2>1 DEF FailureInv
    <3> QED BY <2>1, <3>1 DEF LogUntouched, BatchInv
  <2> QED BY <2>1, <2>2 DEF FlushChunk
<1>2. CASE Fail
  BY <1>1, <1>2, FailRecords, EmptySeq DEF RecordTypes, stream, history
<1>3. ASSUME NEW size \in DataSizes, StartChunk("data", encoder, size, after),
             failed' = failed
      PROVE  RecordsInv'
  <2>1. /\ chunk'.recs = encoder /\ chunk'.accounted = accumulated_bytes
        /\ {"recs", "accounted"} \subseteq DOMAIN chunk'
        /\ pc' = "data" /\ UNCHANGED <<op, after, added_size>>
    BY <1>3, StartChunkFacts
  <2>2. RecordTypes' BY <1>1, <1>3, <2>1, EmptySeq DEF RecordTypes, stream, history
  <2>3. OperationInv' BY <1>1, <2>1 DEF OperationInv, InChunk
  <2>4. FailureInv' BY <1>1, <1>3, <2>1 DEF FailureInv, history
  <2>5. BatchInv' BY <1>1, <1>3, <2>1, EmptySeq DEF BatchInv, InChunk, RecordOverhead
  <2>6. ChunkSizeRespected'
    BY <1>1, <1>3, <2>1 DEF ChunkSizeRespected, BatchInv, InChunk
  <2>7. published \o encoder \o <<>> = published \o <<>> \o encoder
    BY ConcatEmptySeq, ConcatProperties DEF RecordTypes
  <2>8. RecordsConserved'
    BY <1>1, <1>3, <2>1, <2>7 DEF RecordsConserved, InOrder, stream, history
  <2> QED BY <2>2, <2>3, <2>4, <2>5, <2>6, <2>8
<1> QED BY <1>2, <1>3 DEF FlushChunk

\* The chunk's records are on the stream.
LEMMA ChunkWrittenRecords == ASSUME RecordsInv, ChunkWritten PROVE RecordsInv'
<1> USE DEF RecordsInv
<1>1. /\ pc = "pad" /\ ~failed /\ encoder = <<>> /\ accumulated_bytes = 0
      /\ published' = published \o chunk.recs
      /\ chunk'.recs = <<>> /\ chunk'.accounted = 0
      /\ {"recs", "accounted"} \subseteq DOMAIN chunk'
      /\ UNCHANGED <<encoder, accumulated_bytes, pending_record_count, failed,
                     synced, history, added_size>>
  BY NoChunkRecords DEF ChunkWritten, BatchInv, FailureInv, InChunk, fields, Return
<1>2. \/ after = "return" /\ Leave
      \/ after # "return" /\ op' = op /\ after' = after /\ pc' = after
  BY DEF ChunkWritten, Return
<1>3. \/ op \in {"new", "write_record"} /\ op' = "none" /\ pc' = "idle"
      \/ op = "write_record" /\ op' = op /\ pc' = "add"
      \/ op \in {"flush", "close", "drop"} /\ op' = op /\ pc' \in {"padding", "sync"}
  BY <1>1, <1>2, LeaveFacts DEF OperationInv, InChunk, Leave
<1>4. published' \in Seq(Nat) /\ (chunk.recs = <<>> => published' = published)
  BY <1>1, ConcatProperties, ConcatEmptySeq DEF RecordTypes
<1>5. RecordTypes' BY <1>1, <1>4, EmptySeq DEF RecordTypes, history
<1>6. OperationInv' BY <1>3 DEF OperationInv, InChunk
<1>7. FailureInv' BY <1>1, <1>3, <1>4 DEF FailureInv, LogUntouched, history
<1>8. BatchInv'
  <2>1. op' = "write_record" => added_size \in Nat /\ added_size >= RecordOverhead
    BY <1>3 DEF BatchInv
  <2> QED BY <1>1, <1>3, <2>1 DEF BatchInv, InChunk
<1>9. ChunkSizeRespected' BY <1>1, <1>3 DEF ChunkSizeRespected, InChunk
<1>10. RecordsConserved'
  <2>1. (published \o chunk.recs) \o <<>> \o <<>> = published \o chunk.recs \o <<>>
    BY ConcatProperties, ConcatEmptySeq, EmptySeq DEF RecordTypes
  <2> QED BY <1>1, <2>1 DEF RecordsConserved, InOrder, history
<1> QED BY <1>5, <1>6, <1>7, <1>8, <1>9, <1>10

\* writer.flush()
LEMMA SyncRecords == ASSUME RecordsInv, Sync PROVE RecordsInv'
<1> USE DEF RecordsInv
<1>1. /\ pc = "sync" /\ ~failed /\ encoder = <<>> /\ chunk.recs = <<>>
      /\ op \in {"flush", "close", "drop"}
      /\ UNCHANGED <<encoder, accumulated_bytes, pending_record_count, published, accepted>>
  BY DEF Sync, BatchInv, FailureInv, OperationInv, InChunk
<1>2. CASE Fail /\ io_error' = TRUE /\ synced' = synced
  BY <1>1, <1>2, FailRecords DEF RecordTypes
<1>3. CASE Return /\ synced' = Len(published) /\ UNCHANGED <<failed, io_error>>
  <2>1. /\ \/ op = "flush" /\ op' = "none" /\ pc' = "idle"
           \/ op = "close" /\ op' = "drop" /\ pc' = "flush_internal"
           \/ op = "drop" /\ op' = "none" /\ pc' = "gone"
        /\ chunk'.recs = <<>> /\ chunk'.accounted = 0
        /\ {"recs", "accounted"} \subseteq DOMAIN chunk'
    BY <1>1, <1>3, NoChunkRecords DEF Return, Leave
  <2>2. RecordTypes' BY <1>1, <1>3, <2>1, EmptySeq DEF RecordTypes
  <2>3. OperationInv' BY <2>1 DEF OperationInv, InChunk
  <2>4. FailureInv' BY <1>1, <1>3, <2>1 DEF FailureInv
  <2>5. BatchInv' BY <1>1, <1>3, <2>1 DEF BatchInv, InChunk
  <2>6. ChunkSizeRespected'
    BY <1>1, <1>3, <2>1 DEF ChunkSizeRespected, BatchInv, InChunk
  <2>7. RecordsConserved' BY <1>1, <1>3, <2>1, ConservedKept
  <2> QED BY <2>2, <2>3, <2>4, <2>5, <2>6, <2>7
<1> QED BY <1>2, <1>3 DEF Sync

LEMMA WriteRecordRecords ==
    ASSUME RecordsInv, NEW size \in RecordSizes, WriteRecord(size) PROVE RecordsInv'
<1> USE DEF RecordsInv
<1>1. /\ pc = "idle" /\ op = "none" /\ ~failed /\ op' = "write_record"
      /\ added_size' = size + RecordOverhead
      /\ UNCHANGED <<encoder, accumulated_bytes, pending_record_count, failed, chunk,
                     published, synced, history>>
  BY DEF WriteRecord, fields, stream, OperationInv
<1>2. \/ /\ pc' = "flush_chunk" /\ after' = "add" /\ accumulated_bytes > 0
      \/ /\ pc' = "add"
         /\ accumulated_bytes + size + RecordOverhead <= ChunkSize \/ accumulated_bytes <= 0
  BY WriterAssumption DEF WriteRecord, RecordTypes, RecordOverhead
<1>3. size \in Nat BY WriterAssumption
<1>4. ~io_error BY <1>1 DEF FailureInv, RecordTypes
<1>5. RecordTypes' BY <1>1 DEF RecordTypes, history
<1>6. OperationInv' BY <1>1, <1>2 DEF OperationInv, InChunk
<1>7. FailureInv' BY <1>1, <1>4 DEF FailureInv, history
<1>8. BatchInv'
  <2>1. accumulated_bytes <= 0 => encoder = <<>>
    BY <1>1, EmptySeq DEF BatchInv, RecordTypes, RecordOverhead
  <2>2. accumulated_bytes > 0 => encoder # <<>> BY <1>1 DEF BatchInv
  <2>3. added_size' \in Nat /\ added_size' >= RecordOverhead
        /\ accumulated_bytes + added_size' = accumulated_bytes + size + RecordOverhead
    BY <1>1, <1>3 DEF RecordOverhead, RecordTypes
  <2> QED BY <1>1, <1>2, <2>1, <2>2, <2>3 DEF BatchInv, InChunk
<1>9. ChunkSizeRespected' BY <1>1, <1>2 DEF ChunkSizeRespected, InChunk
<1>10. RecordsConserved' BY <1>1, ConservedKept DEF history
<1> QED BY <1>5, <1>6, <1>7, <1>8, <1>9, <1>10

\* A record enters the batch, which fills up or not.
LEMMA AddRecordRecords == ASSUME RecordsInv, AddRecord PROVE RecordsInv'
<1> USE DEF RecordsInv
<1>1. /\ pc = "add" /\ op = "write_record" /\ ~failed /\ ~io_error /\ chunk.recs = <<>>
      /\ added_size \in Nat /\ added_size >= RecordOverhead
      /\ accumulated_bytes' = accumulated_bytes + added_size
      /\ pending_record_count' = pending_record_count + 1
      /\ UNCHANGED <<published, synced, io_error>>
  BY DEF AddRecord, OperationInv, FailureInv, RecordTypes, BatchInv, InChunk, stream
<1>2. accumulated_bytes' \in Nat BY <1>1 DEF RecordTypes
<1>3. CASE Fail /\ UNCHANGED <<encoder, accepted>>
  BY <1>1, <1>2, <1>3, FailRecords DEF RecordTypes
<1>4. ASSUME encoder' = Append(encoder, accepted + 1), accepted' = accepted + 1,
             failed' = failed,
             \/ /\ accumulated_bytes' + RecordOverhead > ChunkSize
                /\ pc' = "flush_chunk" /\ after' = "return"
                /\ UNCHANGED <<op, added_size, chunk>>
             \/ ~(accumulated_bytes' + RecordOverhead > ChunkSize) /\ Return
      PROVE  RecordsInv'
  <2>1. /\ chunk'.recs = <<>> /\ chunk'.accounted \in Nat
        /\ {"recs", "accounted"} \subseteq DOMAIN chunk'
        /\ added_size' = added_size
        /\ \/ pc' = "flush_chunk" /\ op' = "write_record" /\ after' = "return"
           \/ pc' = "idle" /\ op' = "none" /\ accumulated_bytes' + RecordOverhead <= ChunkSize
    BY <1>1, <1>2, <1>4, NoChunkRecords, WriterAssumption
       DEF Return, Leave, RecordTypes, RecordOverhead
  <2>2. /\ encoder' \in Seq(Nat) /\ encoder' # <<>>
        /\ Len(encoder') = Len(encoder) + 1 /\ Len(encoder) \in Nat
    <3>1. encoder \in Seq(Nat) /\ accepted + 1 \in Nat BY DEF RecordTypes
    <3>2. Len(encoder) \in Nat BY <3>1, LenProperties
    <3>3. encoder' \in Seq(Nat) /\ Len(encoder') = Len(encoder) + 1
      BY <1>4, <3>1, AppendProperties
    <3>4. encoder' # <<>> BY <3>2, <3>3, EmptySeq
    <3> QED BY <3>2, <3>3, <3>4
  <2>3. RecordTypes' BY <1>1, <1>2, <1>4, <2>1, <2>2, EmptySeq DEF RecordTypes
  <2>4. OperationInv' BY <2>1 DEF OperationInv, InChunk
  <2>5. FailureInv' BY <1>1, <1>4, <2>1 DEF FailureInv
  <2>6. RecordOverhead * Len(encoder') <= accumulated_bytes'
    BY <1>1, <2>2 DEF BatchInv, RecordOverhead, RecordTypes
  <2>7. Len(encoder') > 1 => accumulated_bytes' <= ChunkSize
    BY <1>1, <2>2, EmptySeq DEF BatchInv
  <2>8. BatchInv'
    BY <1>1, <1>4, <2>1, <2>2, <2>6, <2>7 DEF BatchInv, InChunk
  <2>9. ChunkSizeRespected' BY <2>1 DEF ChunkSizeRespected, InChunk
  <2>10. RecordsConserved'
    <3>1. published \o <<>> \o Append(encoder, accepted + 1)
             = Append(published \o <<>> \o encoder, accepted + 1)
      <4>1. published \o <<>> \in Seq(Nat) BY EmptySeq, ConcatProperties DEF RecordTypes
      <4> DEFINE p == published \o <<>>
      <4> HIDE DEF p
      <4>2. p \in Seq(Nat) /\ encoder \in Seq(Nat) /\ accepted + 1 \in Nat
        BY <4>1 DEF p, RecordTypes
      <4>3. p \o Append(encoder, accepted + 1) = Append(p \o encoder, accepted + 1)
        BY <4>2, AppendIsConcat, ConcatAssociative, ConcatProperties
      <4> QED BY <4>3 DEF p
    <3>2. InOrder' = Append(InOrder, accepted + 1)
      BY <1>4, InOrderAppend DEF RecordTypes
    <3>3. published \o <<>> \o encoder = InOrder BY <1>1 DEF RecordsConserved
    <3> QED BY <1>1, <1>4, <2>1, <3>1, <3>2, <3>3 DEF RecordsConserved
  <2> QED BY <2>3, <2>4, <2>5, <2>8, <2>9, <2>10
<1> QED BY <1>3, <1>4 DEF AddRecord

LEMMA RecordsNext == ASSUME RecordsInv, [Next]_vars PROVE RecordsInv'
<1>1. CASE NewBlockHeader BY <1>1, NewBlockHeaderRecords
<1>2. CASE NewSignature BY <1>2, NewSignatureRecords
<1>3. CASE WriteMetadata BY <1>3, WriteMetadataRecords
<1>4. CASE WriteBlockHeader BY <1>4, WriteBlockHeaderRecords
<1>5. CASE WriteBytes BY <1>5, WriteBytesRecords
<1>6. CASE WriteZeros BY <1>6, WriteZerosRecords
<1>7. CASE ChunkWritten BY <1>7, ChunkWrittenRecords
<1>8. CASE FlushChunk BY <1>8, FlushChunkRecords
<1>9. CASE AddRecord BY <1>9, AddRecordRecords
<1>10. CASE FlushInternal BY <1>10, FlushInternalRecords
<1>11. CASE StartPadding BY <1>11, StartPaddingRecords
<1>12. CASE SearchPadding BY <1>12, SearchPaddingRecords
<1>13. CASE Sync BY <1>13, SyncRecords
<1>14. CASE Flush BY <1>14, FlushRecords
<1>15. CASE Close BY <1>15, CloseRecords
<1>16. ASSUME NEW size \in RecordSizes, WriteRecord(size) PROVE RecordsInv'
  BY <1>16, WriteRecordRecords
<1>17. CASE UNCHANGED vars
  BY <1>17 DEF vars, fields, control, stream, history, RecordsInv, RecordTypes,
     OperationInv, FailureInv, LogUntouched, BatchInv, RecordsConserved, InOrder,
     ChunkSizeRespected, InChunk
<1> QED
  BY <1>1, <1>2, <1>3, <1>4, <1>5, <1>6, <1>7, <1>8, <1>9, <1>10, <1>11,
     <1>12, <1>13, <1>14, <1>15, <1>16, <1>17 DEF Next, Step, Call

THEOREM RecordsInvariant == Spec => []RecordsInv
BY RecordsInit, RecordsNext, PTL DEF Spec

(***************************************************************************)
(* While nothing has failed, the records on the stream, in the chunk being *)
(* written and in the encoder are the records accepted, in order: for all  *)
(* options, sizes and interleavings with errors.                           *)
(***************************************************************************)
THEOREM WriterConserves == Spec => []RecordsConserved
<1>1. RecordsInv => RecordsConserved BY DEF RecordsInv
<1> QED BY <1>1, RecordsInvariant, PTL

(***************************************************************************)
(* write_record_impl bounds what it puts into a chunk of several records.  *)
(***************************************************************************)
THEOREM WriterRespectsChunkSize == Spec => []ChunkSizeRespected
<1>1. RecordsInv => ChunkSizeRespected BY DEF RecordsInv
<1> QED BY <1>1, RecordsInvariant, PTL

---------------------------------------------------------------------------
(* Padding. *)

\* The next multiple of final_padding, and the ones after it.
LEMMA NextMultiple ==
    ASSUME NEW m \in Nat \ {0}, NEW p \in Nat
    PROVE  /\ p + m - (p % m) \in Nat /\ (p + m - (p % m)) % m = 0
           /\ p % m = 0 => (p + m) % m = 0
<1> DEFINE q == p \div m
           r == p % m
<1>1. q \in Nat /\ r \in 0 .. (m - 1) /\ p = m * q + r BY DivMod
<1>2. m * (q + 1) = m * q + m /\ m * q \in Nat /\ q + 1 \in Nat BY <1>1, Distribute
<1> HIDE DEF q, r
<1> DEFINE n == p + m - r
<1>3. n = m * (q + 1) + 0 /\ n \in Nat BY <1>1, <1>2
<1>4. 0 \in 0 .. (m - 1) OBVIOUS
<1>5. n % m = 0 BY ONLY <1>2, <1>3, <1>4, DivModUnique, m \in Nat \ {0}
<1> QED BY <1>1, <1>3, <1>5 DEF r, n

\* A padding chunk sized by the usable bytes of a span ends where the span does.
LEMMA PaddingChunkEnd ==
    ASSUME NEW begin \in Nat, NEW end \in Nat, begin < end,
           is_possible_chunk_boundary(begin), is_possible_chunk_boundary(end),
           distance_without_overhead(begin, end) >= ChunkHeaderSize
    PROVE  chunk_end(begin, distance_without_overhead(begin, end) - ChunkHeaderSize, 0)
             = end
<1> DEFINE d == distance_without_overhead(begin, end)
<1>1. d \in Nat BY DataOffsetType DEF distance_without_overhead, SaturatingSub
<1>2. canonical_chunk_address(begin) = begin
  BY PossibleBoundary, BlockSizeNat DEF canonical_chunk_address
<1>3. ChunkHeaderSize + (d - ChunkHeaderSize) = d BY <1>1, LayoutAssumption
<1>4. add_with_overhead(begin, d) = end BY AddInverse
<1>5. round_up_to_possible_chunk_boundary(begin + 0) = begin
  <2>1. remaining_in_block(begin) <= USABLE_BLOCK_SIZE - 1 /\ remaining_in_block(begin) \in Nat
    BY OffsetType, BlockSizeNat
       DEF is_possible_chunk_boundary, remaining_in_block, is_block_boundary
  <2> QED BY <2>1, BlockSizeNat DEF round_up_to_possible_chunk_boundary, SaturatingSub
<1> HIDE DEF d
<1> QED BY <1>2, <1>3, <1>4, <1>5 DEF chunk_end, Larger, d

\* The padding chunk ends at a multiple of final_padding, and so does the file
\* when writer.flush() is reached.
LEMMA PaddingNext ==
    ASSUME WriterInv, RecordsInv, PaddingInv, [Next]_vars
    PROVE  PaddingInv'
<1>0. FinalPadding \in Nat /\ file_pos \in Nat /\ chunk \in ChunkRecord
  BY WriterAssumption DEF WriterInv, TypeOK, ChunkRecord
<1>1. ASSUME pc' \notin {"pad_search", "data", "pad", "sync"} PROVE PaddingInv'
  BY <1>1 DEF PaddingInv, InChunk
<1>2. ASSUME Fail PROVE PaddingInv'
  <2>1. pc' \in {"gone", "flush_internal", "idle"} BY <1>2, LeaveFacts DEF Fail
  <2> QED BY <1>1, <2>1
<1>3. ASSUME Return PROVE PaddingInv'
  <2>1. pc' \in {"gone", "flush_internal", "idle"} BY <1>3, LeaveFacts DEF Return
  <2> QED BY <1>1, <2>1
<1>4. CASE NewBlockHeader
  BY <1>1, <1>2, <1>4 DEF NewBlockHeader, FailedWrite
<1>5. CASE NewSignature
  BY <1>1, <1>2, <1>5 DEF NewSignature, FailedWrite
<1>6. CASE WriteMetadata
  BY <1>2, <1>6 DEF WriteMetadata, StartChunk, PaddingInv, InChunk
<1>7. CASE WriteBlockHeader
  BY <1>2, <1>7 DEF WriteBlockHeader, FailedWrite, AtBoundary, PaddingInv, InChunk, control
<1>8. CASE WriteBytes
  <2>1. CASE FailedWrite(Smaller(chunk.size - chunk.offset, BlockSize - (file_pos % BlockSize)))
    BY <1>2, <2>1 DEF FailedWrite
  <2>2. CASE /\ pc = "data" /\ pc' \in {"data", "pad"} /\ after' = after
             /\ \E n : chunk' = [chunk EXCEPT !.offset = @ + n]
    <3>1. chunk'.end = chunk.end BY <1>0, <2>2 DEF ChunkRecord
    <3> QED BY <2>2, <3>1 DEF PaddingInv, InChunk
  <2> QED BY <1>8, <2>1, <2>2 DEF WriteBytes
<1>9. CASE WriteZeros
  BY <1>2, <1>9 DEF WriteZeros, FailedWrite, PaddingInv, InChunk, control
<1>10. CASE ChunkWritten
  <2>1. pc = "pad" /\ file_pos >= chunk.end /\ file_pos' = file_pos
    BY <1>10 DEF ChunkWritten, fields
  <2>2. file_pos = chunk.end
    BY <1>0, <2>1 DEF WriterInv, ChunkInv, InChunk, ChunkRecord
  <2>3. CASE Return BY <1>3, <2>3
  <2>4. CASE pc' = after
    <3>1. after \in {"return", "add", "padding", "sync"} BY DEF WriterInv, TypeOK
    <3>2. CASE after # "sync" BY <1>1, <2>4, <3>1, <3>2
    <3>3. CASE after = "sync"
      BY <2>1, <2>2, <2>4, <3>3 DEF PaddingInv, InChunk
    <3> QED BY <3>2, <3>3
  <2> QED BY <1>10, <2>3, <2>4 DEF ChunkWritten
<1>11. CASE FlushChunk
  <2>1. CASE Fail BY <1>2, <2>1
  <2>2. CASE \E data_size \in DataSizes : StartChunk("data", encoder, data_size, after)
    <3>1. pc' = "data" /\ after' = after BY <2>2 DEF StartChunk
    <3>2. pc = "flush_chunk" BY <1>11 DEF FlushChunk
    <3>3. after # "sync" BY <3>2 DEF RecordsInv, OperationInv
    <3> QED BY <3>1, <3>3 DEF PaddingInv, InChunk
  <2> QED BY <1>11, <2>1, <2>2 DEF FlushChunk
<1>12. CASE AddRecord
  BY <1>1, <1>2, <1>3, <1>12 DEF AddRecord
<1>13. CASE FlushInternal
  BY <1>1, <1>13, LeaveFacts DEF FlushInternal, StartFlush
<1>14. CASE StartPadding
  <2>1. file_pos' = file_pos /\ pc = "padding" BY <1>14 DEF StartPadding, fields
  <2>2. CASE FinalPadding <= 1 \/ file_pos % FinalPadding = 0
    <3>1. pc' = "sync" BY <1>14, <2>2 DEF StartPadding
    <3>2. FinalPadding = 1 => file_pos % FinalPadding = 0
      <4>1. ASSUME FinalPadding = 1 PROVE file_pos % 1 \in 0 .. 0 BY <1>0, DivMod
      <4> QED BY <4>1
    <3>3. FinalPadding > 0 => file_pos % FinalPadding = 0 BY <1>0, <2>2, <3>2
    <3> QED BY <2>1, <3>1, <3>3 DEF PaddingInv, InChunk
  <2>3. CASE ~(FinalPadding <= 1 \/ file_pos % FinalPadding = 0)
    <3>1. pc' = "pad_search" /\ chunk'.end = file_pos + FinalPadding - (file_pos % FinalPadding)
      BY <1>14, <2>3 DEF StartPadding, NoChunk
    <3>2. FinalPadding \in Nat \ {0} /\ FinalPadding > 1 BY <1>0, <2>3
    <3>3. chunk'.end % FinalPadding = 0 BY <1>0, <3>1, <3>2, NextMultiple
    <3> QED BY <3>1, <3>2, <3>3 DEF PaddingInv, InChunk
  <2> QED BY <2>2, <2>3
<1>15. CASE SearchPadding
  <2>1. /\ pc = "pad_search" /\ FinalPadding > 1 /\ chunk.end % FinalPadding = 0
        /\ chunk.begin = file_pos /\ chunk.begin < chunk.end
        /\ chunk.begin \in Nat /\ chunk.end \in Nat
    BY <1>0, <1>15 DEF SearchPadding, PaddingInv, WriterInv, ChunkRecord
  <2>2. CASE PaddingFits
    <3> DEFINE d == distance_without_overhead(chunk.begin, chunk.end)
    <3>1. StartChunk("padding", <<>>, d - ChunkHeaderSize, "sync")
      BY <1>15, <2>2 DEF SearchPadding
    <3>2. ~io_error BY <2>1 DEF WriterInv, ErrorInv
    <3>3. is_possible_chunk_boundary(chunk.begin)
      BY <2>1, <3>2 DEF WriterInv, Started, InChunk
    <3>4. chunk_end(chunk.begin, d - ChunkHeaderSize, 0) = chunk.end
      BY <2>1, <2>2, <3>3, PaddingChunkEnd DEF PaddingFits
    <3>5. pc' = "data" /\ chunk'.end = chunk.end
      BY <2>1, <3>1, <3>4, EmptySeq DEF StartChunk
    <3> QED BY <2>1, <3>5 DEF PaddingInv
  <2>3. CASE ~PaddingFits
    <3>1. pc' = "pad_search" /\ chunk'.end = chunk.end + FinalPadding
      BY <1>0, <1>15, <2>1, <2>3 DEF SearchPadding, ChunkRecord
    <3>2. (chunk.end + FinalPadding) % FinalPadding = 0
      BY <1>0, <2>1, NextMultiple
    <3> QED BY <2>1, <3>1, <3>2 DEF PaddingInv
  <2> QED BY <2>2, <2>3
<1>16. CASE Sync
  BY <1>2, <1>3, <1>16 DEF Sync
<1>17. CASE Flush BY <1>1, <1>17 DEF Flush, StartFlush
<1>18. CASE Close BY <1>1, <1>18 DEF Close
<1>19. ASSUME NEW size \in RecordSizes, WriteRecord(size) PROVE PaddingInv'
  BY <1>1, <1>19 DEF WriteRecord
<1>20. CASE UNCHANGED vars
  BY <1>20 DEF vars, fields, control, PaddingInv, InChunk
<1> QED
  BY <1>4, <1>5, <1>6, <1>7, <1>8, <1>9, <1>10, <1>11, <1>12, <1>13, <1>14,
     <1>15, <1>16, <1>17, <1>18, <1>19, <1>20 DEF Next, Step, Call

(***************************************************************************)
(* flush and close reach writer.flush() with every accepted record in a    *)
(* complete chunk, and with the length of the file a multiple of           *)
(* final_padding.                                                          *)
(***************************************************************************)
THEOREM WriterFlushesAll == Spec => []FlushPublishesAll
<1>1. Init => (~io_error => PaddingInv) BY DEF Init, PaddingInv, InChunk
<1>2. /\ ~io_error => WriterInv
      /\ RecordsInv
      /\ ~io_error => PaddingInv
      /\ [Next]_vars
      => (~io_error => PaddingInv)'
  BY PaddingNext, ErrorStays
<1>3. (~io_error => WriterInv) /\ RecordsInv /\ (~io_error => PaddingInv)
      => FlushPublishesAll
  <2> SUFFICES ASSUME WriterInv, RecordsInv, PaddingInv, pc = "sync", ~io_error
               PROVE  /\ published = InOrder
                      /\ FinalPadding > 0 => len % FinalPadding = 0
    BY DEF FlushPublishesAll
  <2>1. ~failed BY DEF RecordsInv, FailureInv
  <2>2. encoder = <<>> /\ chunk.recs = <<>> BY <2>1 DEF RecordsInv, BatchInv, InChunk
  <2>3. published \o <<>> \o <<>> = published
    BY ConcatEmptySeq DEF RecordsInv, RecordTypes
  <2>4. published = InOrder BY <2>1, <2>2, <2>3 DEF RecordsInv, RecordsConserved
  <2>5. FinalPadding > 0 => len % FinalPadding = 0 BY DEF PaddingInv, WriterInv
  <2> QED BY <2>4, <2>5
<1> QED BY <1>1, <1>2, <1>3, WriterInvariantUntilError, RecordsInvariant, PTL DEF Spec

---------------------------------------------------------------------------
(* Drop runs flush_internal again when close() has returned. *)

\* A step that stays within its operation.
LEMMA ClosedKept ==
    ASSUME ClosedInv, UNCHANGED <<closed, op>>, pc \notin {"flush_internal", "gone"},
           pc' \notin {"flush_internal", "gone"}
    PROVE  ClosedInv'
BY DEF ClosedInv, Gone

\* Where an operation is left.
LEMMA ClosedReturn ==
    ASSUME ClosedInv, UNCHANGED closed, Leave \/ Fail, pc \notin {"flush_internal", "gone"}
    PROVE  ClosedInv'
<1>1. CASE Leave BY <1>1 DEF Leave, ClosedInv, Gone
<1>2. CASE Fail /\ op = "new" BY <1>2 DEF Fail, ClosedInv, Gone
<1>3. CASE Fail /\ op # "new" BY <1>1, <1>3 DEF Fail
<1> QED BY <1>1, <1>2, <1>3

LEMMA ClosedFailedWrite ==
    ASSUME ClosedInv, NEW n, FailedWrite(n), pc \notin {"flush_internal", "gone"}
    PROVE  ClosedInv'
BY ClosedReturn DEF FailedWrite

LEMMA ClosedNext == ASSUME RecordsInv, ClosedInv, [Next]_vars PROVE ClosedInv'
<1>1. CASE NewBlockHeader
  BY <1>1, ClosedKept, ClosedFailedWrite DEF NewBlockHeader
<1>2. CASE NewSignature
  <2>1. pc = "signature" /\ op = "new" BY <1>2 DEF NewSignature, RecordsInv, OperationInv
  <2>2. CASE FailedWrite(ChunkHeaderSize) BY <2>1, <2>2, ClosedFailedWrite
  <2>3. CASE /\ closed' = closed
             /\ (op' = op /\ pc' = "metadata") \/ (op' = "none" /\ pc' = "idle")
    BY <2>1, <2>3 DEF ClosedInv, Gone
  <2> QED BY <1>2, <2>2, <2>3 DEF NewSignature
<1>3. CASE WriteMetadata
  BY <1>3, ClosedKept, ClosedReturn DEF WriteMetadata, StartChunk
<1>4. CASE WriteBlockHeader
  BY <1>4, ClosedKept, ClosedFailedWrite DEF WriteBlockHeader, AtBoundary, control
<1>5. CASE WriteBytes
  BY <1>5, ClosedKept, ClosedFailedWrite DEF WriteBytes
<1>6. CASE WriteZeros
  BY <1>6, ClosedKept, ClosedFailedWrite DEF WriteZeros, control
<1>7. CASE ChunkWritten
  <2>1. pc = "pad" /\ closed' = closed BY <1>7 DEF ChunkWritten, fields
  <2>2. CASE Return BY <2>1, <2>2, ClosedReturn DEF Return
  <2>3. CASE after # "return" /\ pc' = after /\ op' = op
    <3>1. after \in {"add", "padding", "sync"}
      BY <2>1, <2>3 DEF RecordsInv, OperationInv, InChunk
    <3> QED BY <2>1, <2>3, <3>1, ClosedKept
  <2> QED BY <1>7, <2>2, <2>3 DEF ChunkWritten
<1>8. CASE FlushChunk
  BY <1>8, ClosedKept, ClosedReturn DEF FlushChunk, StartChunk
<1>9. CASE AddRecord
  <2>1. pc = "add" /\ closed' = closed BY <1>9 DEF AddRecord
  <2>2. Fail \/ Return \/ (pc' = "flush_chunk" /\ op' = op) BY <1>9 DEF AddRecord
  <2> QED BY <2>1, <2>2, ClosedKept, ClosedReturn DEF Return
<1>10. CASE FlushInternal
  <2>1. pc = "flush_internal" /\ closed' /\ op \in {"close", "drop"}
    BY <1>10 DEF FlushInternal, RecordsInv, OperationInv
  <2>2. Leave \/ (op' = op /\ pc' \in {"flush_chunk", "padding"})
    BY <1>10 DEF FlushInternal, StartFlush
  <2>3. closed' \in BOOLEAN BY <1>10 DEF FlushInternal
  <2> QED BY <2>1, <2>2, <2>3 DEF ClosedInv, Leave, Gone
<1>11. CASE StartPadding BY <1>11, ClosedKept DEF StartPadding, fields
<1>12. CASE SearchPadding BY <1>12, ClosedKept DEF SearchPadding, StartChunk
<1>13. CASE Sync BY <1>13, ClosedReturn DEF Sync, Return
<1>14. CASE Flush
  <2>1. pc = "idle" /\ ~closed /\ closed' = closed /\ op' = "flush"
    BY <1>14 DEF Flush, fields
  <2> QED BY <2>1 DEF ClosedInv
<1>15. CASE Close
  <2>1. pc = "idle" /\ op = "none" /\ closed' = closed /\ pc' = "flush_internal"
    BY <1>15 DEF Close, fields, RecordsInv, OperationInv
  <2> QED BY <2>1 DEF ClosedInv, Gone
<1>16. ASSUME NEW size \in RecordSizes, WriteRecord(size) PROVE ClosedInv'
  <2>1. ~closed /\ closed' = closed /\ op' = "write_record" BY <1>16 DEF WriteRecord, fields
  <2> QED BY <2>1 DEF ClosedInv
<1>17. CASE UNCHANGED vars
  BY <1>17 DEF vars, fields, control, ClosedInv, Gone
<1> QED
  BY <1>1, <1>2, <1>3, <1>4, <1>5, <1>6, <1>7, <1>8, <1>9, <1>10, <1>11, <1>12,
     <1>13, <1>14, <1>15, <1>16, <1>17 DEF Next, Step, Call

LEMMA ClosedInvariant == Spec => []ClosedInv
<1>1. Init => ClosedInv BY DEF Init, ClosedInv
<1>2. RecordsInv /\ ClosedInv /\ [Next]_vars => ClosedInv' BY ClosedNext
<1> QED BY <1>1, <1>2, RecordsInvariant, PTL DEF Spec

---------------------------------------------------------------------------
(* The writer implements the log. *)

\* The state of the log the writer stands for.
Broken == failed \/ io_error

LEMMA LogStutters ==
    ASSUME UNCHANGED <<accepted, published, synced>>, Broken' <=> Broken,
           ~Broken => (Shut' <=> Shut)
    PROVE  UNCHANGED Log!logVars
BY DEF Log!logVars, InOrder, Broken

LEMMA LogFails ==
    ASSUME UNCHANGED <<accepted, published, synced>>, Broken', ~Shut
    PROVE  [Log!Next]_(Log!logVars)
<1>1. UNCHANGED InOrder BY DEF InOrder
<1>2. CASE Broken BY <1>2, LogStutters
<1>3. CASE ~Broken
  <2>1. Log!Fail BY <1>1, <1>3 DEF Log!Fail, Broken
  <2> QED BY <2>1 DEF Log!Next
<1> QED BY <1>2, <1>3

\* An error return: the log fails, or new() is cleaned up.
LEMMA LogFailStep ==
    ASSUME RecordsInv, ClosedInv, Fail, ~Shut, UNCHANGED <<accepted, published, synced, closed>>,
           \/ /\ io_error' = io_error
              /\ pc \notin {"block_header", "signature"}
           \/ io_error'
    PROVE  [Log!Next]_(Log!logVars)
<1>1. CASE Broken' BY <1>1, LogFails
<1>2. CASE ~Broken'
  <2>1. op = "new" /\ pc \notin {"block_header", "signature"} BY <1>2 DEF Fail, Broken
  <2>2. failed' = failed /\ pc' = "flush_internal" /\ io_error' = io_error
    BY <1>2, <2>1 DEF Fail, Broken
  <2>3. ~closed' BY <2>1 DEF ClosedInv, Gone, Shut
  <2> QED BY <2>2, <2>3, LogStutters DEF Shut, Gone, Broken
<1> QED BY <1>1, <1>2

LEMMA LogFailedWrite ==
    ASSUME RecordsInv, ClosedInv, NEW n, FailedWrite(n), ~Shut
    PROVE  [Log!Next]_(Log!logVars)
BY LogFailStep DEF FailedWrite

\* A chunk is complete: its records join the visible prefix.
LEMMA LogChunkWritten ==
    ASSUME RecordsInv, ClosedInv, ChunkWritten PROVE [Log!Next]_(Log!logVars)
<1>1. /\ pc = "pad" /\ published' = published \o chunk.recs
      /\ UNCHANGED <<accepted, synced, failed, io_error>>
  BY DEF ChunkWritten, fields, history
<1>2. ~Shut /\ ~failed /\ ~Shut'
  <2>1. ~failed BY <1>1 DEF RecordsInv, FailureInv
  <2>2. after = "return" => op \notin {"close", "drop"}
    BY <1>1 DEF RecordsInv, OperationInv, InChunk
  <2>3. after # "return" => after \notin {"gone", "flush_internal"}
    BY <1>1 DEF RecordsInv, OperationInv, InChunk
  <2>4. pc' \notin {"gone", "flush_internal"} BY <1>1, <2>2, <2>3, LeaveFacts DEF ChunkWritten, Return
  <2> QED BY <1>1, <2>1, <2>4 DEF Shut, Gone
<1>3. published \in Seq(Nat) /\ chunk.recs \in Seq(Nat) /\ accepted \in Nat
  BY DEF RecordsInv, RecordTypes
<1>4. CASE chunk.recs = <<>>
  <2>1. published' = published BY <1>1, <1>3, <1>4, ConcatEmptySeq
  <2> QED BY <1>1, <1>2, <2>1, LogStutters DEF Broken
<1>5. CASE chunk.recs # <<>>
  <2>1. ~io_error BY <1>1, <1>2, <1>5 DEF RecordsInv, FailureInv, LogUntouched, Shut, Gone
  <2>2. encoder = <<>> BY <1>1, <1>2 DEF RecordsInv, BatchInv, InChunk
  <2>3. published' \in Seq(Nat) /\ Len(published') = Len(published) + Len(chunk.recs)
    BY <1>1, <1>3, ConcatProperties
  <2>4. published' = InOrder
    <3>1. published \o chunk.recs \o <<>> = InOrder
      BY <1>2, <2>1, <2>2 DEF RecordsInv, RecordsConserved
    <3>2. published' \o <<>> = published' BY <2>3, ConcatEmptySeq
    <3> QED BY <1>1, <3>1, <3>2
  <2>5. Len(chunk.recs) > 0 /\ Len(chunk.recs) \in Nat /\ Len(published) \in Nat
    BY <1>3, <1>5, EmptySeq, LenProperties
  <2>6. InOrder \in Seq(Nat) /\ Len(InOrder) \in Nat BY <1>3, InOrderFacts
  <2>7. InOrder \in Log!Prefixes(InOrder)
    BY <2>6, SubSeqFull DEF Log!Prefixes
  <2>8. UNCHANGED InOrder BY <1>1 DEF InOrder
  <2>9. Log!Publish
    BY <1>1, <1>2, <2>1, <2>3, <2>4, <2>5, <2>7, <2>8 DEF Log!Publish
  <2> QED BY <2>9 DEF Log!Next
<1> QED BY <1>4, <1>5

\* A record enters the encoder: the log accepts it.
LEMMA LogAddRecord ==
    ASSUME RecordsInv, ClosedInv, AddRecord PROVE [Log!Next]_(Log!logVars)
<1>1. /\ pc = "add" /\ op = "write_record" /\ UNCHANGED <<published, synced, io_error>>
      /\ accepted \in Nat
  BY DEF AddRecord, stream, RecordsInv, OperationInv, RecordTypes
<1>2. ~Shut /\ ~failed /\ ~io_error
  BY <1>1 DEF RecordsInv, FailureInv, Shut, Gone
<1>3. CASE Fail /\ UNCHANGED <<encoder, accepted>>
  BY <1>1, <1>2, <1>3, LogFailStep DEF AddRecord
<1>4. CASE accepted' = accepted + 1 /\ failed' = failed /\ pc' \in {"idle", "flush_chunk"}
  <2>1. InOrder' = Append(InOrder, accepted + 1) /\ Len(InOrder) = accepted
    BY <1>1, <1>4, InOrderAppend, InOrderFacts
  <2>2. Log!Accept BY <1>1, <1>2, <1>4, <2>1 DEF Log!Accept, Shut, Gone
  <2> QED BY <2>2 DEF Log!Next
<1> QED BY <1>1, <1>3, <1>4 DEF AddRecord, Return, Leave

\* writer.flush(): the log is durable as far as it is visible, which is all.
LEMMA LogSync ==
    ASSUME RecordsInv, ClosedInv, Sync PROVE [Log!Next]_(Log!logVars)
<1>1. /\ pc = "sync" /\ op \in {"flush", "close", "drop"} /\ UNCHANGED <<published, accepted>>
      /\ accepted \in Nat /\ published \in Seq(Nat)
  BY DEF Sync, RecordsInv, OperationInv, RecordTypes
<1>2. ~Shut /\ ~failed BY <1>1 DEF RecordsInv, FailureInv, Shut, Gone
<1>3. CASE io_error' = TRUE /\ Fail /\ synced' = synced
  BY <1>1, <1>2, <1>3, LogFailStep DEF Sync
<1>4. CASE synced' = Len(published) /\ Return /\ UNCHANGED <<failed, io_error>>
  <2>1. CASE io_error
    <3>1. synced = 0 /\ published = <<>>
      BY <1>1, <1>2, <2>1 DEF RecordsInv, FailureInv, LogUntouched, Shut, Gone
    <3>2. synced' = synced BY <1>4, <3>1, EmptySeq
    <3> QED BY <1>1, <1>4, <2>1, <3>2, LogStutters DEF Broken
  <2>2. CASE ~io_error
    <3>1. encoder = <<>> /\ chunk.recs = <<>>
      BY <1>1, <1>2 DEF RecordsInv, BatchInv, InChunk
    <3>2. published \o <<>> \o <<>> = published BY <1>1, ConcatEmptySeq
    <3>3. published = InOrder
      BY <1>2, <2>2, <3>1, <3>2 DEF RecordsInv, RecordsConserved
    <3>4. UNCHANGED InOrder BY <1>1 DEF InOrder
    <3>5. CASE op = "flush"
      <4>1. pc' = "idle" BY <1>4, <3>5 DEF Return, Leave
      <4>2. Log!Flush BY <1>1, <1>2, <1>4, <2>2, <3>3, <3>4, <4>1 DEF Log!Flush, Shut, Gone
      <4> QED BY <4>2 DEF Log!Next
    <3>6. CASE op \in {"close", "drop"}
      <4>1. closed /\ closed' = closed BY <1>1, <3>6 DEF Sync, ClosedInv
      <4>2. pc' \in {"gone", "flush_internal"} BY <1>4, <3>6 DEF Return, Leave
      <4>3. Shut' BY <4>1, <4>2 DEF Shut, Gone
      <4>4. Log!Close BY <1>1, <1>2, <1>4, <2>2, <3>3, <3>4, <4>3 DEF Log!Close
      <4> QED BY <4>4 DEF Log!Next
    <3> QED BY <1>1, <3>5, <3>6
  <2> QED BY <2>1, <2>2
<1> QED BY <1>3, <1>4 DEF Sync

\* Every step of the writer is a step of the log or leaves it alone.
LEMMA LogNextMaps ==
    ASSUME RecordsInv, ClosedInv, [Next]_vars PROVE [Log!Next]_(Log!logVars)
<1>1. ASSUME UNCHANGED <<accepted, published, synced, failed, io_error>>, Shut' <=> Shut
      PROVE  UNCHANGED Log!logVars
  BY <1>1, LogStutters DEF Broken
<1>2. CASE NewBlockHeader
  <2>1. CASE FailedWrite(BlockHeaderSize)
    BY <1>2, <2>1, LogFailedWrite DEF NewBlockHeader, Shut, Gone
  <2>2. CASE ~FailedWrite(BlockHeaderSize)
    BY <1>1, <1>2, <2>2 DEF NewBlockHeader, history, Shut, Gone
  <2> QED BY <2>1, <2>2
<1>3. CASE NewSignature
  <2>1. CASE FailedWrite(ChunkHeaderSize)
    BY <1>3, <2>1, LogFailedWrite DEF NewSignature, Shut, Gone
  <2>2. CASE ~FailedWrite(ChunkHeaderSize)
    BY <1>1, <1>3, <2>2 DEF NewSignature, history, Shut, Gone
  <2> QED BY <2>1, <2>2
<1>4. CASE WriteMetadata
  <2>1. CASE Fail
    BY <1>4, <2>1, LogFailStep DEF WriteMetadata, Shut, Gone, stream, history
  <2>2. CASE ~Fail
    BY <1>1, <1>4, <2>2 DEF WriteMetadata, StartChunk, stream, history, Shut, Gone
  <2> QED BY <2>1, <2>2
<1>5. CASE WriteBlockHeader
  <2>1. CASE FailedWrite(BlockHeaderSize)
    BY <1>5, <2>1, LogFailedWrite DEF WriteBlockHeader, AtBoundary, Shut, Gone
  <2>2. CASE ~FailedWrite(BlockHeaderSize)
    BY <1>1, <1>5, <2>2 DEF WriteBlockHeader, AtBoundary, control, history, Shut, Gone
  <2> QED BY <2>1, <2>2
<1>6. CASE WriteBytes
  <2> DEFINE n == Smaller(chunk.size - chunk.offset, BlockSize - (file_pos % BlockSize))
  <2>1. CASE FailedWrite(n)
    BY <1>6, <2>1, LogFailedWrite DEF WriteBytes, Shut, Gone
  <2>2. CASE ~FailedWrite(n)
    BY <1>1, <1>6, <2>2 DEF WriteBytes, history, Shut, Gone
  <2> QED BY <2>1, <2>2
<1>7. CASE WriteZeros
  <2> DEFINE n == Smaller(chunk.end - file_pos, BlockSize - (file_pos % BlockSize))
  <2>1. CASE FailedWrite(n)
    BY <1>7, <2>1, LogFailedWrite DEF WriteZeros, Shut, Gone
  <2>2. CASE ~FailedWrite(n)
    BY <1>1, <1>7, <2>2 DEF WriteZeros, control, history, Shut, Gone
  <2> QED BY <2>1, <2>2
<1>8. CASE ChunkWritten BY <1>8, LogChunkWritten
<1>9. CASE FlushChunk
  <2>1. CASE Fail
    BY <1>9, <2>1, LogFailStep DEF FlushChunk, Shut, Gone, stream, history
  <2>2. CASE ~Fail
    BY <1>1, <1>9, <2>2 DEF FlushChunk, StartChunk, stream, history, Shut, Gone
  <2> QED BY <2>1, <2>2
<1>10. CASE AddRecord BY <1>10, LogAddRecord
<1>11. CASE FlushInternal
  <2>1. UNCHANGED <<accepted, published, synced, failed, io_error>>
    BY <1>11 DEF FlushInternal, stream, history
  <2>2. ASSUME ~Broken PROVE Shut' <=> Shut
    <3>1. pc = "flush_internal" /\ ~failed BY <1>11, <2>2 DEF FlushInternal, Broken
    <3>2. CASE closed
      <4>1. op = "drop" BY <3>1, <3>2 DEF ClosedInv
      <4>2. pc' = "gone" BY <1>11, <3>2, <4>1 DEF FlushInternal, Leave
      <4> QED BY <3>1, <3>2, <4>2 DEF Shut, Gone
    <3>3. CASE ~closed
      <4>1. pc' \in {"flush_chunk", "padding"}
        BY <1>11, <3>1, <3>3 DEF FlushInternal, StartFlush
      <4> QED BY <3>1, <3>3, <4>1 DEF Shut, Gone
    <3> QED BY <3>2, <3>3
  <2> QED BY <2>1, <2>2, LogStutters DEF Broken
<1>12. CASE StartPadding
  BY <1>1, <1>12 DEF StartPadding, fields, stream, history, Shut, Gone
<1>13. CASE SearchPadding
  BY <1>1, <1>13 DEF SearchPadding, StartChunk, stream, history, Shut, Gone
<1>14. CASE Sync BY <1>14, LogSync
<1>15. CASE Flush
  BY <1>1, <1>15 DEF Flush, StartFlush, fields, stream, history, Shut, Gone
<1>16. CASE Close
  <2>1. ~closed BY <1>16 DEF Close, RecordsInv, OperationInv, ClosedInv, Gone
  <2> QED BY <1>1, <1>16, <2>1 DEF Close, fields, stream, history, Shut, Gone
<1>17. ASSUME NEW size \in RecordSizes, WriteRecord(size) PROVE UNCHANGED Log!logVars
  BY <1>1, <1>17 DEF WriteRecord, fields, stream, history, Shut, Gone
<1>18. CASE UNCHANGED vars
  BY <1>1, <1>18 DEF vars, fields, control, stream, history, Shut, Gone
<1> QED
  BY <1>2, <1>3, <1>4, <1>5, <1>6, <1>7, <1>8, <1>9, <1>10, <1>11, <1>12,
     <1>13, <1>14, <1>15, <1>16, <1>17, <1>18 DEF Next, Step, Call

(***************************************************************************)
(* The writer implements RecordLog: forget chunks, blocks, buffering and   *)
(* the steps of an operation, and each step of write_record, flush, close  *)
(* or drop, with or without errors on the stream, is a step of an          *)
(* append-only log or none at all.                                         *)
(***************************************************************************)
THEOREM WriterImplementsLog == Spec => ImplementsLog
<1>1. Init => Log!Init
  <2> SUFFICES ASSUME Init PROVE Log!Init OBVIOUS
  <2>1. InOrder = <<>> BY InOrderFacts DEF Init
  <2> QED BY <2>1 DEF Init, Log!Init, Shut, Gone
<1>2. RecordsInv /\ ClosedInv /\ [Next]_vars => [Log!Next]_(Log!logVars) BY LogNextMaps
<1> QED BY <1>1, <1>2, RecordsInvariant, ClosedInvariant, PTL DEF Spec, ImplementsLog, Log!Spec
=============================================================================
