---------------------------- MODULE ReaderQueries ----------------------------
(***************************************************************************)
(* The operations of RecordReader that are built from its reads and seeks: *)
(* search, seek_back, size, read_serialized_metadata, check_file_format.   *)
(*                                                                         *)
(* While one of them is in progress the reader is doing what it asked for: *)
(* the scans over chunk headers are steps of this module, the seek() and   *)
(* read_record() it calls are the steps of RecordReader, and when those    *)
(* have returned (pc = "idle") the query goes on.  The file may grow       *)
(* between any two of these steps.                                         *)
(*                                                                         *)
(* The files are sorted: a record is compared by its position.             *)
(***************************************************************************)
EXTENDS RecordReader, FiniteSetsExt

CONSTANTS
    Queries,     \* the queries the caller makes
    Targets,     \* bound: records searched for
    MaxQueries,  \* bound: number of queries
    Sequels      \* bound: the queries among them that are not made first

ASSUME QueriesAssumption ==
    /\ Queries \subseteq {"search", "seek_back", "size", "metadata", "check"}
    /\ Targets \subseteq Nat
    /\ MaxQueries \in Nat /\ Sequels \subseteq Queries

VARIABLES
    query,    \* the query in progress, its locals and what it returns
    queries

NoQuery == [kind |-> "none", phase |-> "none", value |-> "none",
            target |-> 0,          \* search: the record looked for
            chunks |-> <<>>,       \* search: numbers of the data chunks
            lo |-> 0, hi |-> 0, mid |-> 0, probe |-> 0,
            at |-> RecordPosition(0, 0),  \* where to seek
            total |-> 0,           \* size: records counted
            position |-> 0,        \* where the reader was at the call
            since |-> 0,           \* how long the file was at the call
            seen |-> {}]           \* size: regions reported

queryVars == <<query, queries>>
allVars == <<vars, queryVars>>

QInit == Init /\ query = NoQuery /\ queries = 0

---------------------------------------------------------------------------
\* The next phase of the query.
Phase(p) == query' = [query EXCEPT !.phase = p]
Done(v) == query' = [query EXCEPT !.phase = "done", !.value = v]

\* The caller makes a query.
Ask(kind) ==
    [NoQuery EXCEPT !.kind = kind, !.position = current_chunk_begin + current_record_index,
                    !.since = len]
MayAsk(kind) ==
    /\ pc = "idle" /\ query.kind = "none"
    /\ queries < MaxQueries /\ kind \in (IF queries = 0 THEN Queries ELSE Sequels)
    /\ queries' = queries + 1

\* A scan over chunk headers, from position.
BeginScan(name, position) ==
    /\ op' = name /\ pc' = "peek" /\ result' = result
    /\ local' = [NoLocals EXCEPT !.scan_pos = position]
ScanOn(position) ==
    Goto("peek") /\ local' = [local EXCEPT !.scan_pos = position, !.chunk = 0]

\* The next header of the scan.
Header == read_chunk_header_at(local.scan_pos)
HeaderIs(kind) ==
    /\ Header.kind = kind
    /\ NoIoError
    /\ stream_len' = Header.stream_len
HeaderFails == HeaderIs("error") \/ (IoError /\ stream_len' = stream_len)

\* seek(), called by a query.
InnerSeek(p) ==
    \/ NoIoError /\ StartSeek(p.chunk_begin, p.record_index)
    \/ SeekFails

\* What a scan leaves alone.
StillElsewhere == <<file, recovery, len, cursor, pos, last_pos, flags, from, delivered, seeks>>
Elsewhere == <<StillElsewhere, regions>>
\* What a seek that a query makes leaves alone.
SeekElsewhere == <<file, recovery, len, pos, last_pos, last_record_is_valid, stream_len,
                   last_skipped_region, from, delivered, regions, seeks, queries>>

\* The query goes on when what it called has returned; an error ends it.
Resumed == pc = "idle" /\ query.phase # "done" /\ result # "error"

QueryFailed ==
    /\ query.kind # "none" /\ pc = "idle" /\ query.phase # "done"
    /\ result = "error"
    /\ Done("error")
    /\ UNCHANGED <<vars, queries>>

(***************************************************************************)
(* The query returns.  A search or a step back has moved the reader: to    *)
(* its cursor, or to the end of the stream if nothing was found.           *)
(***************************************************************************)
Finish ==
    /\ query.phase = "done" /\ pc = "idle"
    /\ query' = NoQuery
    /\ IF query.kind \in {"search", "seek_back"}
       THEN /\ from' = IF query.kind = "search" /\ query.value = "absent"
                       THEN Larger(stream_len, FirstDataChunk) ELSE Cursor
            /\ delivered' = {} /\ regions' = {}
       ELSE UNCHANGED <<from, delivered, regions>>
    /\ UNCHANGED <<file, recovery, len, cursor, pos, last_pos, flags, stream_len, skips,
                   control, seeks, io_errors, queries>>

---------------------------------------------------------------------------
(* search *)

Search ==
    /\ MayAsk("search")
    /\ \E target \in Targets :
          query' = [Ask("search") EXCEPT !.phase = "collect", !.target = target]
    /\ BeginScan("collect", FirstDataChunk)
    /\ pending_trusted_end' = None /\ regions' = {}
    /\ UNCHANGED <<StillElsewhere, stream_len, last_skipped_region, io_errors>>

\* collect_data_chunks; a chunk without records is no pivot.
CollectChunks ==
    LET i == Header.chunk
    IN  /\ pc = "peek" /\ op = "collect"
        /\ \/ /\ HeaderIs("chunk")
              /\ ScanOn(End(Chunk(i)))
              /\ query' = IF HasRecords(Chunk(i)) /\ Chunk(i).num_records > 0
                          THEN [query EXCEPT !.chunks = Append(@, i)] ELSE query
           \/ /\ HeaderIs("eof")
              /\ Return("ok")
              /\ query' = [query EXCEPT !.phase = "chunks", !.hi = Len(query.chunks)]
           \/ /\ HeaderFails
              /\ FailAt(local.scan_pos)
              /\ query' = query
        /\ UNCHANGED <<Elsewhere, skips, queries>>

CollectRegion ==
    /\ pc = "region" /\ op = "collect"
    /\ ConsumeRegion
    /\ regions' = regions \cup {Region}
    /\ Return("error") \/ ScanOn(Region.end)
    /\ UNCHANGED <<file, recovery, len, current_chunk_begin, current_record_index, pos,
                   last_pos, stream_len, pending_trusted_end, from, delivered,
                   seeks, queryVars>>

\* Mutant: the cursor stays where the last probe left it.
ParkAtEndOfStream_KeepsCursor ==
    /\ at_eof' = TRUE
    /\ current_decoder' = 0
    /\ UNCHANGED <<next_chunk_file_pos, current_chunk_begin, current_record_index>>

ParkAtEndOfStream ==
    /\ at_eof' = TRUE
    /\ current_decoder' = 0
    /\ next_chunk_file_pos' = Larger(stream_len, FirstDataChunk)
    /\ current_chunk_begin' = next_chunk_file_pos'
    /\ current_record_index' = 0

Absent ==
    /\ ParkAtEndOfStream
    /\ Done("absent")
    /\ UNCHANGED <<pending_trusted_end, control, io_errors>>

Position(i, k) == RecordPosition(Chunk(query.chunks[i + 1]).begin, k)

\* Read the record at p, see read_record_at.
ReadRecordAt(p, q) ==
    /\ InnerSeek(p)
    /\ query' = [q EXCEPT !.at = p]

\* Narrow lo .. hi over the chunks by their first records; then look inside
\* the last chunk whose first record is in front of the target.
SearchChunks ==
    LET mid == query.lo + ((query.hi - query.lo) \div 2)
    IN  /\ Resumed /\ query.phase = "chunks"
        /\ \/ /\ query.lo < query.hi
              /\ ReadRecordAt(Position(mid, 0), [query EXCEPT
                   !.phase = "chunk_sought", !.mid = mid, !.probe = mid])
           \/ /\ query.lo >= query.hi /\ query.lo > 0
              /\ query' = [query EXCEPT
                   !.phase = "records", !.probe = query.lo - 1, !.lo = 1,
                   !.hi = Chunk(query.chunks[query.lo]).num_records]
              /\ UNCHANGED <<cursor, at_eof, pending_trusted_end, control, io_errors>>
           \/ query.lo >= query.hi /\ query.lo = 0 /\ Absent
        /\ UNCHANGED SeekElsewhere

\* binary_search_within_chunk
SearchRecords ==
    LET mid == query.lo + ((query.hi - query.lo) \div 2)
    IN  /\ Resumed /\ query.phase = "records"
        /\ \/ /\ query.lo < query.hi
              /\ ReadRecordAt(Position(query.probe, mid), [query EXCEPT
                   !.phase = "record_sought", !.mid = mid])
           \/ query.lo >= query.hi /\ Absent
        /\ UNCHANGED SeekElsewhere

ReadPivot ==
    /\ Resumed /\ query.phase \in {"chunk_sought", "record_sought"}
    /\ ReadRecord
    /\ Phase(IF query.phase = "chunk_sought" THEN "chunk_read" ELSE "record_read")
    /\ queries' = queries

\* The record read is one of the chunk that was asked for.
Readable == result = "record" /\ current_chunk_begin = query.at.chunk_begin

\* The pivot is the record: position the reader in front of it.
PivotEqual == InnerSeek(query.at) /\ Phase("found")

Narrow(lo, hi, phase) ==
    /\ query' = [query EXCEPT !.lo = lo, !.hi = hi, !.phase = phase]
    /\ UNCHANGED <<cursor, at_eof, pending_trusted_end, control, io_errors>>

\* Mutant: what cannot be read is taken for a record in front of the target.
Unordered_JudgedLess == Narrow(query.probe + 1, query.hi, "chunks")

\* Look for a pivot to the right; everything up to hi may be unordered.
Unordered ==
    \/ /\ query.probe + 1 < query.hi
       /\ ReadRecordAt(Position(query.probe + 1, 0), [query EXCEPT
            !.phase = "chunk_sought", !.probe = @ + 1])
    \/ query.probe + 1 >= query.hi /\ Narrow(query.lo, query.mid, "chunks")

JudgeChunk ==
    LET n == Numeric(last_pos)
    IN  /\ Resumed /\ query.phase = "chunk_read"
        /\ \/ ~Readable /\ Unordered
           \/ Readable /\ n < query.target /\ Narrow(query.probe + 1, query.hi, "chunks")
           \/ Readable /\ n > query.target /\ Narrow(query.lo, query.mid, "chunks")
           \/ Readable /\ n = query.target /\ PivotEqual
        /\ UNCHANGED SeekElsewhere

JudgeRecord ==
    LET n == Numeric(last_pos)
    IN  /\ Resumed /\ query.phase = "record_read"
        /\ \/ ~Readable /\ Absent
           \/ Readable /\ n < query.target /\ Narrow(query.mid + 1, query.hi, "records")
           \/ Readable /\ n > query.target /\ Narrow(query.lo, query.mid, "records")
           \/ Readable /\ n = query.target /\ PivotEqual
        /\ UNCHANGED SeekElsewhere

Found ==
    /\ Resumed /\ query.phase = "found"
    /\ Done("found")
    /\ UNCHANGED <<vars, queries>>

---------------------------------------------------------------------------
(* seek_back *)

\* find_chunk_before(chunk_pos - 1)
FindChunkBefore(chunk_pos) ==
    /\ op' = "before" /\ pc' = "measure" /\ result' = result
    /\ local' = [NoLocals EXCEPT !.target = chunk_pos - 1]

SeekBack ==
    /\ MayAsk("seek_back")
    /\ pending_trusted_end' = None /\ regions' = {}
    /\ \/ /\ current_record_index > 0
          /\ query' = [Ask("seek_back") EXCEPT !.phase = "back", !.at =
                         RecordPosition(current_chunk_begin, current_record_index - 1)]
          /\ result' = "ok" /\ UNCHANGED <<op, pc, local>>
       \/ /\ current_record_index = 0 /\ current_chunk_begin > FirstDataChunk
          /\ query' = [Ask("seek_back") EXCEPT !.phase = "before", !.at =
                         RecordPosition(current_chunk_begin, 0)]
          /\ FindChunkBefore(current_chunk_begin)
       \/ /\ current_record_index = 0 /\ current_chunk_begin <= FirstDataChunk
          /\ query' = [Ask("seek_back") EXCEPT !.phase = "done", !.value = "first"]
          /\ UNCHANGED control
    /\ UNCHANGED <<StillElsewhere, stream_len, last_skipped_region, io_errors>>

\* Mutant: behind the last record of the chunk.
LastRecord_PastEnd(c) == c.num_records

LastRecord(c) == c.num_records - 1

\* The scan of find_chunk_before, and the walk back over chunks that have no
\* records.  An error is returned without asking the callback.
ChunkBefore ==
    LET c == Chunk(Header.chunk)
        begin == local.scan_pos
    IN  /\ pc = "peek" /\ op = "before"
        /\ \/ HeaderIs("eof") /\ Return("ok") /\ Done("first")
           \/ HeaderFails /\ Return("error") /\ query' = query
           \/ /\ HeaderIs("chunk")
              /\ \/ End(c) <= local.target /\ ScanOn(End(c)) /\ query' = query
                 \/ /\ End(c) > local.target /\ c.num_records > 0
                    /\ Return("ok")
                    /\ query' = [query EXCEPT !.phase = "back",
                                   !.at = RecordPosition(begin, LastRecord(c))]
                 \/ /\ End(c) > local.target /\ c.num_records = 0
                    /\ begin < query.at.chunk_begin /\ begin > FirstDataChunk
                    /\ FindChunkBefore(begin)
                    /\ query' = [query EXCEPT !.at = RecordPosition(begin, 0)]
                 \/ /\ End(c) > local.target /\ c.num_records = 0
                    /\ begin >= query.at.chunk_begin \/ begin <= FirstDataChunk
                    /\ Return("ok") /\ Done("first")
        /\ UNCHANGED <<Elsewhere, skips, queries>>

StepBack ==
    /\ Resumed /\ query.phase = "back"
    /\ InnerSeek(query.at)
    /\ Phase("stepped")
    /\ UNCHANGED SeekElsewhere

SteppedBack ==
    /\ Resumed /\ query.phase = "stepped"
    /\ Done("back")
    /\ UNCHANGED <<vars, queries>>

---------------------------------------------------------------------------
(* size, read_serialized_metadata: they report regions and consume none. *)

Size ==
    /\ MayAsk("size")
    /\ query' = [Ask("size") EXCEPT !.phase = "scan"]
    /\ BeginScan("size", FirstDataChunk)
    /\ pending_trusted_end' = None
    /\ UNCHANGED <<Elsewhere, stream_len, last_skipped_region, io_errors>>

CountRecords ==
    LET c == Chunk(Header.chunk)
    IN  /\ pc = "peek" /\ op = "size"
        /\ \/ /\ HeaderIs("chunk")
              /\ ScanOn(End(c))
              /\ query' = IF HasRecords(c) THEN [query EXCEPT !.total = @ + c.num_records]
                                           ELSE query
           \/ HeaderIs("eof") /\ Return("ok") /\ Done("counted")
           \/ HeaderFails /\ FailAt(local.scan_pos) /\ query' = query
        /\ UNCHANGED <<Elsewhere, skips, queries>>

ReadMetadata ==
    /\ MayAsk("metadata")
    /\ query' = [Ask("metadata") EXCEPT !.phase = "scan"]
    /\ BeginScan("metadata", FirstDataChunk)
    /\ pending_trusted_end' = None
    /\ UNCHANGED <<Elsewhere, stream_len, last_skipped_region, io_errors>>

\* Mutant: a header that cannot be read is no metadata.
MetadataUnreadable_Absent == HeaderFails /\ Return("ok") /\ Done("no_metadata")

MetadataUnreadable == HeaderFails /\ FailAt(local.scan_pos) /\ query' = query

MetadataHeader ==
    LET i == Header.chunk
    IN  /\ pc = "peek" /\ op = "metadata"
        /\ \/ HeaderIs("eof") /\ Return("ok") /\ Done("no_metadata")
           \/ MetadataUnreadable
           \/ /\ HeaderIs("chunk")
              /\ \/ Chunk(i).type # "metadata" /\ Return("ok") /\ Done("no_metadata")
                 \/ /\ Chunk(i).type = "metadata"
                    /\ Goto("payload") /\ local' = [local EXCEPT !.chunk = i]
                    /\ query' = query
        /\ UNCHANGED <<Elsewhere, skips, queries>>

\* read_metadata_chunk_payload: an undecodable payload is like one that does
\* not hash.
MetadataPayload ==
    LET c == Chunk(local.chunk)
        Untrusted == \/ NoIoError /\ (~c.decodes \/ ~DataReadable(c))
                     \/ IoError /\ c.decodes
    IN  /\ pc = "payload" /\ op = "metadata"
        /\ \/ /\ Untrusted /\ FailAt(FirstDataChunk) /\ query' = query
              /\ pending_trusted_end' = pending_trusted_end
           \/ /\ NoIoError /\ c.decodes /\ DataReadable(c) /\ ~c.data_ok
              /\ FailAt(FirstDataChunk) /\ query' = query
              /\ pending_trusted_end' = End(c)
           \/ /\ NoIoError /\ c.decodes /\ DataReadable(c) /\ c.data_ok
              /\ Return("ok") /\ Done("metadata")
              /\ pending_trusted_end' = End(c)
        /\ UNCHANGED <<Elsewhere, stream_len, last_skipped_region, queries>>

\* Mutant: size ends at the first region.
ResumeScan_Stops == Return("ok") /\ Done("counted")

\* size goes on behind the region.
ResumeScan == ScanOn(Region.end) /\ query' = [query EXCEPT !.seen = @ \cup {Region}]

ReportOnly ==
    /\ pc = "region" /\ op \in {"size", "metadata"}
    /\ last_skipped_region' = Region
    /\ \/ Return("error") /\ query' = query
       \/ op = "size" /\ ResumeScan
       \/ op = "metadata" /\ Return("ok") /\ Done("skipped_metadata")
    /\ UNCHANGED <<Elsewhere, stream_len, pending_trusted_end, io_errors, queries>>

---------------------------------------------------------------------------
(* check_file_format *)

CheckFileFormat ==
    /\ MayAsk("check")
    /\ \/ /\ NoIoError /\ BlockHeaderSize <= len /\ ValidBlock(0)
          /\ BeginScan("check", BlockHeaderSize)
       \/ /\ NoIoError /\ (BlockHeaderSize > len \/ ~ValidBlock(0))
          /\ Return("error")
       \/ IoError /\ Return("error")
    /\ query' = [Ask("check") EXCEPT !.phase = "scan"]
    /\ UNCHANGED <<Elsewhere, stream_len, skips>>

CheckHeader ==
    /\ pc = "peek" /\ op = "check"
    /\ \/ HeaderIs("eof") /\ Return("ok") /\ Done("valid")
       \/ HeaderFails /\ Return("error") /\ query' = query
       \/ /\ HeaderIs("chunk")
          /\ Goto("payload") /\ local' = [local EXCEPT !.chunk = Header.chunk]
          /\ query' = query
    /\ UNCHANGED <<Elsewhere, skips, queries>>

\* Mutant: the data is read and not compared with its hash.
DataValid_Unhashed(c) == DataReadable(c)

DataValid(c) == DataReadable(c) /\ c.data_ok

CheckData ==
    LET c == Chunk(local.chunk)
    IN  /\ pc = "payload" /\ op = "check"
        /\ \/ NoIoError /\ DataValid(c) /\ ScanOn(End(c))
           \/ NoIoError /\ ~DataValid(c) /\ Return("error")
           \/ IoError /\ Return("error")
        /\ UNCHANGED <<Elsewhere, stream_len, skips, query, queries>>

---------------------------------------------------------------------------
QueryStep ==
    \/ CollectChunks \/ CollectRegion \/ SearchChunks \/ SearchRecords
    \/ ReadPivot \/ JudgeChunk \/ JudgeRecord \/ Found
    \/ ChunkBefore \/ StepBack \/ SteppedBack
    \/ CountRecords \/ MetadataHeader \/ MetadataPayload \/ ReportOnly
    \/ CheckHeader \/ CheckData
    \/ QueryFailed \/ Finish

QNext ==
    \/ (Step \/ Grow) /\ UNCHANGED queryVars
    \/ query.kind = "none" /\ (ReadRecord \/ Seek \/ SeekNumeric) /\ UNCHANGED queryVars
    \/ Search \/ SeekBack \/ Size \/ ReadMetadata \/ CheckFileFormat
    \/ QueryStep
    \/ pc = "gone" /\ UNCHANGED allVars

QSpec == /\ QInit /\ [][QNext]_allVars
         /\ WF_allVars(Step /\ UNCHANGED queryVars) /\ WF_allVars(QueryStep)
         /\ WF_allVars(query.kind = "none" /\ ReadRecord /\ UNCHANGED queryVars)
         /\ WF_allVars(Grow /\ UNCHANGED queryVars)

---------------------------------------------------------------------------
(* Properties *)

\* The file has not grown during the query, and no read has failed.
Undisturbed == len = query.since /\ io_errors = 0

Returned(kind, value) ==
    query.phase = "done" /\ query.kind = kind /\ query.value = value

RecordsOf(c) == c.begin .. (c.begin + c.num_records - 1)

(***************************************************************************)
(* search returns Ok(true) with the reader in front of the record, and     *)
(* Ok(false) only "if the target does not exist in the file": the record   *)
(* was in no chunk that was complete when the search began, is intact and  *)
(* is touched by no region reported on the way.  Unreadable pivots are     *)
(* unordered, and must not turn the search away from readable chunks.      *)
(***************************************************************************)
SearchComplete ==
    io_errors = 0 =>
      /\ Returned("search", "found") => Cursor = query.target
      /\ Returned("search", "absent") =>
           ~ \E i \in DOMAIN Chunks :
               /\ IntactRecords(Chunk(i)) /\ query.target \in RecordsOf(Chunk(i))
               /\ End(Chunk(i)) <= query.since
               /\ ~ \E r \in regions : InRegion(Chunk(i), r)

(***************************************************************************)
(* seek_back: the reader is in front of the last record before the         *)
(* position, across chunks that carry none ("the last record of the        *)
(* nearest preceding chunk that has records"), and Ok(false) means that    *)
(* there is no such record.  A position behind the end of the file and a   *)
(* seek that skips a damaged chunk are excepted.                           *)
(***************************************************************************)
SeekBackStepsBack ==
    LET before == {n \in UNION {RecordsOf(Chunk(i)) : i \in DOMAIN Chunks} :
                     n < query.position}
    IN  io_errors = 0 /\ regions = {} /\ query.position <= query.since =>
          /\ Returned("seek_back", "back") => before # {} /\ Cursor = Max(before)
          /\ Returned("seek_back", "first") => before = {}

\* The records that a set of chunks claims.
RecordsIn(S) == MapThenSumSet(LAMBDA i : Chunk(i).num_records, S)
DataChunks == {i \in DOMAIN Chunks : HasRecords(Chunk(i))}

\* A chunk that size must not miss.
Countable(i) ==
    /\ IntactRecords(Chunk(i)) /\ End(Chunk(i)) <= query.since
    /\ ~ \E r \in query.seen : InRegion(Chunk(i), r)

(***************************************************************************)
(* size returns "the total number of records in the file", short of the    *)
(* chunks that the regions it reported touch.                              *)
(***************************************************************************)
SizeCounts ==
    Returned("size", "counted") =>
      /\ query.total >= RecordsIn({i \in DataChunks : Countable(i)})
      /\ query.total <= RecordsIn({i \in DataChunks : Chunk(i).header_ok})

(***************************************************************************)
(* "Corruption [...] must not be reported as no metadata"                  *)
(* (read_serialized_metadata): it says that there is none only if the      *)
(* first chunk is another or none, and returns some only from an intact    *)
(* metadata chunk.                                                         *)
(***************************************************************************)
MetadataNotHidden ==
    /\ Returned("metadata", "no_metadata") =>
         \A i \in ChunkAt(FirstDataChunk) :
            Chunk(i).type = "metadata" => query.since <= FirstDataChunk
    /\ Returned("metadata", "metadata") =>
         \E i \in ChunkAt(FirstDataChunk) :
            Chunk(i).type = "metadata" /\ ~Damaged(Chunk(i))

\* The chunk can be read to the end of its data and hashes, and the records
\* that its header claims have their positions in the file.
Sound(c) ==
    /\ c.header_ok /\ c.data_ok
    /\ DataEnd(c) <= len /\ c.begin + c.num_records <= len
    /\ \A b \in BoundariesIn(c.begin, DataEnd(c)) : ValidBlock(b)

\* All chunks the file holds a part of, the signature included.
ChunksSound ==
    /\ BlockHeaderSize <= len /\ ValidBlock(0)
    /\ \A i \in DOMAIN Chunks : Chunk(i).begin < len => Sound(Chunk(i))

\* "All block and chunk headers and data hashes in the file", the block headers
\* in the zeros behind a chunk's data among them.
AllValid ==
    /\ ChunksSound
    /\ \A b \in 0 .. (len - 1) : is_block_boundary(b) => ValidBlock(b)

(***************************************************************************)
(* check_file_format returns an error only if something in the file is not *)
(* valid, and never Ok over a chunk that is not sound: a header, data or a *)
(* block header among them that does not hash, or a part that is cut off.  *)
(*                                                                         *)
(* Its doc says more: "`Ok(())` if all headers and data hashes are valid". *)
(* Block headers in the zeros behind a chunk's data are never read; for a  *)
(* file in which nothing else is damaged no verdict is required here.      *)
(***************************************************************************)
CheckDecides ==
    query.phase = "done" /\ query.kind = "check" /\ Undisturbed =>
      /\ query.value = "valid" => ChunksSound
      /\ AllValid => query.value = "valid"

\* Two regions have no bytes in common but those of a block header: the region
\* of a chunk that begins at a block boundary begins in front of the header, at
\* which a resync may have ended.
RegionsApart ==
    \A r, s \in regions : r # s =>
      \A p \in (r.begin .. (r.end - 1)) \cap (s.begin .. (s.end - 1)) :
        p % BlockSize < BlockHeaderSize

(***************************************************************************)
(* ReadsExactly between queries: a search and a step back leave the reader *)
(* where the records that follow, appended ones included, are read each    *)
(* once; size, metadata reads and checks leave it where it was.  A query   *)
(* that only reports a region overwrites last_skipped_region, by which a   *)
(* read clamps its next one; regions overlap in no chunk for it.           *)
(***************************************************************************)
ReadsExactlyAfter ==
    query.kind = "none" =>
      /\ ReadsExactly
      /\ RegionsApart

(***************************************************************************)
(* Every query returns, whatever the file looks like: scans do not spin on *)
(* a region, a binary search shrinks around unreadable chunks, and the     *)
(* walk back moves back.                                                   *)
(***************************************************************************)
QueriesReturn == query.kind # "none" ~> query.kind = "none"

(***************************************************************************)
(* park_at_end_of_stream: "the next-chunk cursor must point where appended *)
(* chunks would begin": not inside a chunk.                                *)
(***************************************************************************)
ParkedBetweenChunks ==
    Returned("search", "absent") =>
      \A i \in DOMAIN Chunks : ~(/\ Chunk(i).begin < canonical_chunk_address(Cursor)
                                 /\ canonical_chunk_address(Cursor) < End(Chunk(i)))

---------------------------------------------------------------------------
(* The inductive invariants behind MetadataNotHidden and CheckDecides. *)

\* Which query a step belongs to: the scans of metadata reads and checks are
\* disturbed by no step of the reader.
QueryInv ==
    /\ FileType(file) /\ len \in lengths
    /\ stream_len \in Nat /\ stream_len <= len /\ io_errors \in Nat
    /\ DOMAIN query = DOMAIN NoQuery /\ query.since \in Nat /\ query.since <= len
    /\ pc = "idle" => op = "none"
    /\ op = "check" => query.kind = "check" /\ pc \in {"peek", "payload"}
    /\ op = "metadata" =>
         /\ query.kind = "metadata"
         /\ pc \in {"peek", "payload", "recover", "resync", "region"}
    /\ query.kind \in {"check", "metadata"} =>
         \/ op = query.kind /\ query.phase = "scan"
         \/ pc = "idle" /\ query.phase = "scan" /\ result = "error"
         \/ pc = "idle" /\ query.phase = "done"

\* What is in front of the position has been checked, and it is where the
\* next chunk begins or the file ends.
Checked(position) ==
    LET p == canonical_chunk_address(position)
    IN  /\ BlockHeaderSize <= len /\ ValidBlock(0)
        /\ \A i \in DOMAIN Chunks : Chunk(i).begin < p => Sound(Chunk(i))
        /\ ChunkAt(p) # {} \/ len <= p

\* What the code decides: block headers in zeros are not looked at.
CheckedExactly ==
    query.phase = "done" /\ query.kind = "check" /\ Undisturbed =>
      (query.value = "valid" <=> ChunksSound)

CheckInv ==
    query.kind = "check" =>
      /\ op = "check" =>
           /\ {"scan_pos", "chunk"} \subseteq DOMAIN local /\ local.scan_pos \in Nat
           /\ Undisturbed => Checked(local.scan_pos)
           /\ pc = "payload" =>
                local.chunk \in ChunkAt(canonical_chunk_address(local.scan_pos))
           /\ pc = "payload" /\ Undisturbed =>
                HeaderReadable(Chunk(local.chunk)) /\ ClaimsFit(Chunk(local.chunk), len)
      /\ op # "check" /\ query.phase = "scan" /\ Undisturbed => ~ChunksSound
      /\ CheckedExactly

HeaderIntact(c) ==
    c.header_ok /\ \A b \in BoundariesIn(c.begin, DataBegin(c)) : ValidBlock(b)

MetadataInv ==
    query.kind = "metadata" =>
      /\ op = "metadata" /\ pc = "peek" =>
           "chunk" \in DOMAIN local /\ local.scan_pos = FirstDataChunk
      /\ op = "metadata" /\ pc = "payload" =>
           /\ local.chunk \in ChunkAt(FirstDataChunk)
           /\ Chunk(local.chunk).type = "metadata" /\ HeaderIntact(Chunk(local.chunk))
      /\ MetadataNotHidden

(***************************************************************************)
(* The types of the reader and the query.  TypeInv speaks of the reader's  *)
(* own operations; in a scan its fields have the same types.               *)
(***************************************************************************)
Scans == {"collect", "before", "size", "metadata", "check"}
ScanTypes ==
    /\ FileType(file) /\ len \in lengths /\ recovery \in BOOLEAN
    /\ current_chunk_begin \in Nat /\ next_chunk_file_pos \in Nat
    /\ current_decoder \in 0 .. Len(Chunks) /\ current_record_index \in Nat
    /\ pos \in [chunk_begin : Nat, record_index : Nat]
    /\ last_pos \in [chunk_begin : Nat, record_index : Nat]
    /\ at_eof \in BOOLEAN /\ last_record_is_valid \in BOOLEAN
    /\ stream_len \in Nat /\ stream_len <= len
    /\ last_skipped_region \in [begin : Nat, end : Nat] \cup {NoRegion}
    /\ pending_trusted_end \in Nat \cup {None}
    /\ local \in [chunk : 0 .. Len(Chunks), at : Nat, begin : Nat,
                  boundary : Nat, end : Nat, target : Nat, index : Nat,
                  scan_pos : Nat]
    /\ result \in {"none", "ok", "record", "eof", "error"}
    /\ from \in Nat /\ delivered \subseteq Nat
    /\ regions \subseteq [begin : Nat, end : Nat]
    /\ pc = "payload" => local.chunk # 0

Phases == [none |-> {"none"},
           search |-> {"collect", "chunks", "chunk_sought", "chunk_read", "records",
                       "record_sought", "record_read", "found", "done"},
           seek_back |-> {"before", "back", "stepped", "done"},
           size |-> {"scan", "done"}, metadata |-> {"scan", "done"}, check |-> {"scan", "done"}]

QueryTypes ==
    /\ query.kind \in DOMAIN Phases /\ query.phase \in Phases[query.kind]
    /\ {query.target, query.lo, query.hi, query.mid, query.probe, query.total} \subseteq Nat
    /\ query.chunks \in Seq(DOMAIN Chunks)
    /\ query.at \in [chunk_begin : Nat, record_index : Nat]
    \* the binary search stays within the chunks that were collected
    /\ query.phase = "collect" => query.lo = 0
    /\ query.phase \in {"chunks", "chunk_sought", "chunk_read"} =>
         query.lo <= query.hi /\ query.hi <= Len(query.chunks)
    /\ query.phase \in {"chunk_sought", "chunk_read"} =>
         query.lo <= query.mid /\ query.mid <= query.probe /\ query.probe < query.hi
    /\ query.phase \in {"records", "record_sought", "record_read"} =>
         query.probe < Len(query.chunks)

\* Which scan belongs to which query.
ScanControl ==
    /\ op = "collect" =>
         /\ query.phase = "collect"
         /\ pc \in {"peek", "recover", "resync", "region"}
    /\ op = "before" => query.phase = "before" /\ pc \in {"measure", "origin", "peek"}
    /\ op = "size" =>
         /\ query.kind = "size" /\ query.phase = "scan"
         /\ pc \in {"peek", "recover", "resync", "region"}
    /\ query.kind = "size" => op \in {"size", "none"}

ReaderTypesInv ==
    /\ (op \notin Scans /\ TypeInv) \/ (op \in Scans /\ ScanTypes)
    /\ QueryTypes /\ ScanControl

\* What size has counted of the chunks in front of the position.
Counted(position) ==
    LET p == canonical_chunk_address(position)
        InFront(i) == Chunk(i).begin < p
    IN  /\ query.total >= RecordsIn({i \in DataChunks : InFront(i) /\ Countable(i)})
        /\ query.total <= RecordsIn({i \in DataChunks : InFront(i) /\ Chunk(i).header_ok})

SizeInv ==
    query.kind = "size" =>
      /\ op = "size" => Counted(local.scan_pos)
      /\ op = "size" /\ pc # "peek" => local.at = local.scan_pos
      /\ op = "size" /\ pc \in {"resync", "region"} =>
           canonical_chunk_address(local.at) <= local.begin /\ local.begin <= local.at
      /\ SizeCounts
=============================================================================
