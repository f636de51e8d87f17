------------------------ MODULE ReaderQueriesProofs ------------------------
(***************************************************************************)
(* read_serialized_metadata, check_file_format and size: what they say of  *)
(* a file that a writer has laid out, whatever has been damaged or cut off *)
(* since.                                                                  *)
(***************************************************************************)
EXTENDS ReaderQueries, RecordRecoveryProofs, FiniteSetTheorems

---------------------------------------------------------------------------
(* Chunks that are sound. *)

\* read_chunk_header_at measures the stream, or does not.
LEMMA HeaderMeasures ==
    ASSUME NEW p PROVE read_chunk_header_at(p).stream_len \in {stream_len, len}
BY DEF read_chunk_header_at

\* A chunk whose header can be read is found.
LEMMA HeaderFound ==
    ASSUME FileType(file), len \in lengths, ChunksDisjoint, NEW p \in Nat,
           NEW i \in ChunkAt(canonical_chunk_address(p)),
           HeaderReadable(Chunk(i)), ClaimsFit(Chunk(i), len), InteriorAgrees(Chunk(i))
    PROVE  read_chunk_header_at(p).kind # "error"
<1> DEFINE a == canonical_chunk_address(p)
           length == IF ClaimsFit(Chunk(i), stream_len) THEN stream_len ELSE len
<1>1. CASE a >= len BY <1>1 DEF read_chunk_header_at
<1>2. CASE ~(a >= len)
  <2>1. \A j \in ChunkAt(a) : j = i BY DisjointFacts DEF ChunkAt
  <2>2. (CHOOSE j \in ChunkAt(a) : HeaderReadable(Chunk(j))) = i BY <2>1
  <2>3. ClaimsFit(Chunk(i), length) OBVIOUS
  <2>4. read_chunk_header_at(p) = [kind |-> "chunk", chunk |-> i, stream_len |-> length]
    BY <1>2, <2>2, <2>3 DEF read_chunk_header_at
  <2> QED BY <2>4
<1> QED BY <1>1, <1>2

\* Header and data of a sound chunk can be read.
LEMMA SoundReadable ==
    ASSUME FileType(file), len \in lengths, ChunksDisjoint, FileTiled,
           NEW i \in DOMAIN Chunks, Sound(Chunk(i))
    PROVE  /\ HeaderReadable(Chunk(i)) /\ ClaimsFit(Chunk(i), len)
           /\ InteriorAgrees(Chunk(i)) /\ DataValid(Chunk(i))
<1> DEFINE c == Chunk(i)
<1>1. /\ c.begin \in Nat /\ c.data_size \in Nat /\ c.num_records \in Nat
      /\ DataBegin(c) \in Nat /\ c.begin < DataBegin(c)
      /\ DataEnd(c) \in Nat /\ DataBegin(c) + c.data_size <= DataEnd(c)
      /\ End(c) \in Nat /\ DataEnd(c) <= End(c)
  BY FileExtent
<1>2. len \in Nat BY FileFacts
<1>3. DataEnd(c) <= len /\ c.begin + c.num_records <= len BY DEF Sound
<1>4. ClaimsFit(c, len)
  <2>1. c.data_size <= len - DataBegin(c) /\ c.num_records <= len - c.begin
        /\ DataBegin(c) <= len /\ c.begin <= len
    BY <1>1, <1>2, <1>3
  <2> QED BY <1>1, <1>2, <2>1 DEF ClaimsFit, SaturatingSub
<1>5. ASSUME NEW b \in BoundariesIn(c.begin, DataEnd(c))
      PROVE  ValidBlock(b) /\ LeadsBackTo(b, c.begin) /\ LeadsOnTo(b, End(c))
  <2>1. b \in Nat /\ c.begin <= b /\ b < End(c) BY <1>1 DEF BoundariesIn
  <2>2. ValidBlock(b) BY DEF Sound
  <2> QED BY <1>4, <2>1, <2>2, FileLeads
<1>6. BoundariesIn(c.begin, DataBegin(c)) \subseteq BoundariesIn(c.begin, DataEnd(c))
  BY <1>1 DEF BoundariesIn
<1>7. BoundariesIn(c.begin + 1, DataBegin(c)) \subseteq BoundariesIn(c.begin, DataEnd(c))
  BY <1>1 DEF BoundariesIn
<1>8. BoundariesIn(DataBegin(c), DataEnd(c)) \subseteq BoundariesIn(c.begin, DataEnd(c))
  BY <1>1 DEF BoundariesIn
<1>9. HeaderReadable(c)
  <2>1. c.header_ok BY DEF Sound
  <2>2. DataBegin(c) <= len BY <1>1, <1>2, <1>3
  <2> QED BY <1>5, <1>6, <2>1, <2>2 DEF HeaderReadable
<1>10. InteriorAgrees(c) BY <1>5, <1>7 DEF InteriorAgrees
<1>11. DataReadable(c) BY <1>3, <1>5, <1>8 DEF DataReadable
<1>12. c.data_ok BY DEF Sound
<1> QED BY <1>4, <1>9, <1>10, <1>11, <1>12 DEF DataValid

\* A chunk that has been read and hashes is sound.
LEMMA ReadSound ==
    ASSUME FileType(file), len \in lengths, ChunksDisjoint, NEW i \in DOMAIN Chunks,
           HeaderReadable(Chunk(i)), ClaimsFit(Chunk(i), len), DataValid(Chunk(i))
    PROVE  Sound(Chunk(i))
<1> DEFINE c == Chunk(i)
<1>1. /\ c \in ChunkType /\ c.begin \in Nat /\ c.data_size \in Nat /\ c.num_records \in Nat
      /\ DataBegin(c) \in Nat /\ c.begin < DataBegin(c) /\ DataEnd(c) \in Nat
  BY FileExtent
<1>2. len \in Nat BY FileFacts
<1>3. c.header_ok /\ DataBegin(c) <= len BY DEF HeaderReadable
<1>4. DataEnd(c) <= len
  <2>1. CASE c.data_size > 0 BY <2>1 DEF DataValid, DataReadable
  <2>2. CASE c.data_size = 0
    <3>1. ChunkHeaderSize + c.data_size = ChunkHeaderSize BY <2>2, LayoutAssumption
    <3>2. DataEnd(c) = DataBegin(c) BY <3>1 DEF DataEnd, DataBegin
    <3> QED BY <1>3, <3>2
  <2> QED BY <1>1, <2>1, <2>2
<1>5. c.begin + c.num_records <= len
  <2>1. c.num_records <= SaturatingSub(len, c.begin) BY DEF ClaimsFit
  <2> QED BY <1>1, <1>2, <1>3, <2>1 DEF SaturatingSub
<1>6. \A b \in BoundariesIn(c.begin, DataEnd(c)) : ValidBlock(b)
  BY <1>1, ReadBoundaries DEF HeaderReadable, DataValid
<1> QED BY <1>3, <1>4, <1>5, <1>6 DEF Sound, DataValid

---------------------------------------------------------------------------
(* What a query shares with the reader. *)

\* What any step does to what QueryInv says of the file and the stream.
Onward ==
    /\ file' = file
    /\ len' = len \/ (len' \in lengths /\ len' > len)
    /\ stream_len' \in {stream_len, len}
    /\ io_errors' \in {io_errors, io_errors + 1}

\* The steps of the reader: none of them belongs to a scan.
LEMMA StepControl ==
    ASSUME Step
    PROVE  /\ pc \notin {"idle", "payload"}
           /\ pc = "peek" => op = "seek_numeric"
           /\ pc = "region" => op \in {"new", "read_record", "seek", "seek_numeric"}
           /\ op' \in {op, "none", "seek"}
           /\ pc' = "idle" => op' = "none"
           /\ pc \in {"recover", "resync"} =>
                \/ op' = op /\ pc' \in {"resync", "region"}
                \/ op' = "none" /\ result' = "error" /\ pc' = IF op = "new" THEN "gone" ELSE "idle"
           /\ UNCHANGED len /\ Onward
<1>1. CASE Open \/ Preamble
  BY <1>1 DEF Open, Preamble, Return, Goto, FailAt, NoIoError, IoError, Onward
<1>2. CASE TakeRecord
  BY <1>2 DEF TakeRecord, Return, Goto, Onward
<1>3. CASE LoadHeader
  BY <1>3, HeaderMeasures DEF LoadHeader, Return, Goto, FailAt, NoIoError, IoError, Onward
<1>4. CASE LoadData
  <2>1. /\ pc = "data" /\ UNCHANGED <<file, len, stream_len>>
        /\ op' \in {op, "none"} /\ (pc' = "idle" => op' = "none")
        /\ io_errors' \in {io_errors, io_errors + 1}
    BY <1>4 DEF LoadData, DataUnreadable, DataRejected, ChunkSkipped, ChunkLoaded, Return, Goto,
                FailAt, NoIoError, IoError
  <2> QED BY <2>1 DEF Onward
<1>5. CASE MeasureOrigin
  BY <1>5 DEF MeasureOrigin, Return, Goto, NoIoError, IoError, Onward
<1>6. CASE ResolveScanOrigin
  BY <1>6 DEF ResolveScanOrigin, Return, Goto, NoIoError, IoError, Onward
<1>7. CASE PeekHeader
  <2> DEFINE h == read_chunk_header_at(local.scan_pos)
  <2>1. h.stream_len \in {stream_len, len} BY HeaderMeasures
  <2>2. /\ pc = "peek" /\ op = "seek_numeric" /\ UNCHANGED <<file, len>>
        /\ stream_len' \in {stream_len, h.stream_len}
    BY <1>7 DEF PeekHeader
  <2>3. /\ op' \in {op, "none", "seek"} /\ (pc' = "idle" => op' = "none")
        /\ io_errors' \in {io_errors, io_errors + 1}
    <3> HIDE DEF h
    <3> QED
      BY <1>7 DEF PeekHeader, SeekFails, ScanAtEof, ScanChunk, StartSeek, Return, Goto, FailAt,
                  NoIoError, IoError, h
  <2> QED BY <2>1, <2>2, <2>3 DEF Onward
<1>8. CASE Recover
  BY <1>8 DEF Recover, Return, Goto, Onward, history
<1>9. CASE Resync
  BY <1>9 DEF Resync, ResyncAt, ResyncFrom, Goto, NoIoError, IoError, Onward
<1>10. CASE ReportRegion
  BY <1>10 DEF ReportRegion, ConsumeRegion, ResumeAt, Return, Goto, NoIoError, IoError, Onward
<1> QED
  BY <1>1, <1>2, <1>3, <1>4, <1>5, <1>6, <1>7, <1>8, <1>9, <1>10 DEF Step

\* A step after which no metadata is being read and nothing checked.
Unrelated ==
    /\ query'.kind \notin {"check", "metadata"} /\ op' \notin {"check", "metadata"}
    /\ DOMAIN query' = DOMAIN NoQuery /\ query'.since \in {query.since, len, 0}
    /\ pc' = "idle" => op' = "none"
    /\ UNCHANGED len /\ Onward

LEMMA NoQueryFields ==
    DOMAIN NoQuery = {"kind", "phase", "value", "target", "chunks", "lo", "hi", "mid", "probe",
                      "at", "total", "position", "since", "seen"}
BY DEF NoQuery

LEMMA AskFields ==
    ASSUME NEW kind
    PROVE  /\ DOMAIN Ask(kind) = DOMAIN NoQuery
           /\ Ask(kind).kind = kind /\ Ask(kind).since = len
           /\ Ask(kind).phase = "none"
BY DEF Ask, NoQuery

\* How a query begins, but for metadata reads and checks.
LEMMA OtherBegins ==
    ASSUME QueryInv, Search \/ SeekBack \/ Size
    PROVE  Unrelated
<1>0. DOMAIN NoQuery = {"kind", "phase", "value", "target", "chunks", "lo", "hi", "mid", "probe",
                        "at", "total", "position", "since", "seen"}
  BY NoQueryFields
<1>1. ASSUME Search PROVE Unrelated
  <2>1. PICK target \in Targets :
          query' = [Ask("search") EXCEPT !.phase = "collect", !.target = target]
    BY <1>1 DEF Search
  <2>2. DOMAIN query' = DOMAIN NoQuery /\ query'.kind = "search" /\ query'.since = len
    BY <2>1, <1>0, AskFields
  <2>3. /\ UNCHANGED <<file, len, stream_len, io_errors>> /\ op' = "collect" /\ pc' = "peek"
    BY <1>1 DEF Search, BeginScan, StillElsewhere
  <2> QED BY <2>2, <2>3 DEF Unrelated, Onward
<1>2. ASSUME SeekBack PROVE Unrelated
  <2>1. DOMAIN query' = DOMAIN NoQuery /\ query'.kind = "seek_back" /\ query'.since = len
    <3> DEFINE q == Ask("seek_back")
    <3>1. DOMAIN q = DOMAIN NoQuery /\ q.kind = "seek_back" /\ q.since = len BY AskFields
    <3>2. \/ \E p : query' = [q EXCEPT !.phase = "back", !.at = p]
          \/ \E p : query' = [q EXCEPT !.phase = "before", !.at = p]
          \/ query' = [q EXCEPT !.phase = "done", !.value = "first"]
      BY <1>2 DEF SeekBack
    <3> HIDE DEF q
    <3> QED BY <1>0, <3>1, <3>2
  <2>2. /\ UNCHANGED <<file, len, stream_len, io_errors>>
        /\ pc = "idle"
        /\ (op' = "before" /\ pc' = "measure") \/ UNCHANGED <<op, pc>>
    BY <1>2 DEF SeekBack, MayAsk, FindChunkBefore, StillElsewhere, control
  <2> QED BY <2>1, <2>2 DEF Unrelated, Onward, QueryInv
<1>3. ASSUME Size PROVE Unrelated
  <2>1. DOMAIN query' = DOMAIN NoQuery /\ query'.kind = "size" /\ query'.since = len
    BY <1>3, <1>0, AskFields DEF Size
  <2>2. /\ UNCHANGED <<file, len, stream_len, io_errors>> /\ op' = "size" /\ pc' = "peek"
    BY <1>3 DEF Size, BeginScan, Elsewhere, StillElsewhere
  <2> QED BY <2>1, <2>2 DEF Unrelated, Onward
<1> QED BY <1>1, <1>2, <1>3

\* What the scans of the other queries do.
LEMMA OtherScans ==
    ASSUME QueryInv,
           \/ CollectChunks \/ CollectRegion \/ ChunkBefore \/ CountRecords
           \/ ReportOnly /\ op = "size"
    PROVE  Unrelated
<1>0. DOMAIN query = {"kind", "phase", "value", "target", "chunks", "lo", "hi", "mid", "probe",
                      "at", "total", "position", "since", "seen"}
  BY NoQueryFields DEF QueryInv
<1>1. Header.stream_len \in {stream_len, len} BY HeaderMeasures DEF Header
<1>2. op \in {"collect", "before", "size"} /\ pc \in {"peek", "region"}
  BY DEF CollectChunks, CollectRegion, ChunkBefore, CountRecords, ReportOnly
<1>3. query.kind \notin {"check", "metadata"} BY <1>2 DEF QueryInv
<1>4. /\ UNCHANGED <<file, len>> /\ stream_len' \in {stream_len, Header.stream_len}
      /\ io_errors' \in {io_errors, io_errors + 1}
  BY DEF CollectChunks, CollectRegion, ChunkBefore, CountRecords, ReportOnly, Elsewhere,
         StillElsewhere, HeaderIs, HeaderFails, NoIoError, IoError, ConsumeRegion
<1>5. op' \in {op, "none", "before"} /\ (pc' = "idle" => op' = "none")
  BY <1>2 DEF CollectChunks, CollectRegion, ChunkBefore, CountRecords, ReportOnly, Return, ScanOn,
         Goto, FailAt, FindChunkBefore, ResumeScan
<1>6. /\ DOMAIN query' = DOMAIN query /\ query'.kind = query.kind
      /\ query'.since = query.since
  <2>1. CASE CollectChunks \/ CollectRegion
    BY <1>0, <2>1 DEF CollectChunks, CollectRegion, queryVars
  <2>2. CASE ChunkBefore BY <1>0, <2>2 DEF ChunkBefore, Done
  <2>3. CASE CountRecords BY <1>0, <2>3 DEF CountRecords, Done
  <2>4. CASE ReportOnly /\ op = "size" BY <1>0, <2>4 DEF ReportOnly, ResumeScan
  <2> QED BY <2>1, <2>2, <2>3, <2>4
<1> QED BY <1>1, <1>2, <1>3, <1>4, <1>5, <1>6 DEF Unrelated, Onward, QueryInv

\* The seek that a query makes.
LEMMA InnerSeekControl ==
    ASSUME NEW p, InnerSeek(p)
    PROVE  /\ op' \in {"none", "seek"} /\ (pc' = "idle" => op' = "none")
           /\ io_errors' \in {io_errors, io_errors + 1}
BY DEF InnerSeek, StartSeek, SeekFails, Return, NoIoError, IoError

\* The phases of search and seek_back between the calls they make.
LEMMA OtherPhases ==
    ASSUME QueryInv,
           \/ SearchChunks \/ SearchRecords \/ ReadPivot \/ JudgeChunk \/ JudgeRecord \/ Found
           \/ StepBack \/ SteppedBack
    PROVE  Unrelated
<1>0. DOMAIN query = {"kind", "phase", "value", "target", "chunks", "lo", "hi", "mid", "probe",
                      "at", "total", "position", "since", "seen"}
  BY NoQueryFields DEF QueryInv
<1>1. /\ pc = "idle" /\ op = "none"
      /\ query.phase \in {"chunks", "records", "chunk_sought", "record_sought", "chunk_read",
                          "record_read", "found", "back", "stepped"}
  BY DEF SearchChunks, SearchRecords, ReadPivot, JudgeChunk, JudgeRecord, Found, StepBack,
         SteppedBack, Resumed, QueryInv
<1>2. query.kind \notin {"check", "metadata"} BY <1>1 DEF QueryInv
<1> DEFINE Quiet == op' \in {"none", "seek", "read_record"} /\ (pc' = "idle" => op' = "none")
                    /\ io_errors' \in {io_errors, io_errors + 1}
           Same == DOMAIN query' = DOMAIN query /\ query'.kind = query.kind
                   /\ query'.since = query.since
<1>3. UNCHANGED <<file, len, stream_len>>
  BY DEF SearchChunks, SearchRecords, ReadPivot, ReadRecord, JudgeChunk, JudgeRecord, Found,
         StepBack, SteppedBack, SeekElsewhere, vars
<1>4. ASSUME Absent PROVE Quiet /\ Same
  BY <1>0, <1>1, <1>4 DEF Absent, Done, control
<1>5. ASSUME NEW lo, NEW hi, NEW phase, Narrow(lo, hi, phase) PROVE Quiet /\ Same
  BY <1>0, <1>1, <1>5 DEF Narrow, control
<1>6. ASSUME PivotEqual PROVE Quiet /\ Same
  BY <1>0, <1>6, InnerSeekControl DEF PivotEqual, Phase
<1>7. ASSUME NEW p, NEW q, DOMAIN q = DOMAIN query, q.kind = query.kind, q.since = query.since,
             ReadRecordAt(p, q)
      PROVE  Quiet /\ Same
  BY <1>0, <1>7, InnerSeekControl DEF ReadRecordAt
<1>8. ASSUME ReadPivot PROVE Quiet /\ Same BY <1>0, <1>8 DEF ReadPivot, ReadRecord, Phase, history
<1>9. ASSUME Found \/ SteppedBack PROVE Quiet /\ Same
  BY <1>0, <1>1, <1>9 DEF Found, SteppedBack, Done, vars, control, history
<1>10. ASSUME StepBack PROVE Quiet /\ Same BY <1>0, <1>10, InnerSeekControl DEF StepBack, Phase
<1>11. ASSUME /\ \E probe, hi : query' = [query EXCEPT
                   !.phase = "records", !.probe = probe, !.lo = 1, !.hi = hi]
              /\ UNCHANGED <<cursor, at_eof, pending_trusted_end, control, io_errors>>
       PROVE  Quiet /\ Same
  BY <1>0, <1>1, <1>11 DEF control
<1> HIDE DEF Quiet, Same
<1>12. ASSUME SearchChunks PROVE Quiet /\ Same
  <2> DEFINE mid == query.lo + ((query.hi - query.lo) \div 2)
             q == [query EXCEPT !.phase = "chunk_sought", !.mid = mid, !.probe = mid]
  <2>1. DOMAIN q = DOMAIN query /\ q.kind = query.kind /\ q.since = query.since
    <3> HIDE DEF mid
    <3> QED BY <1>0
  <2>2. \/ ReadRecordAt(Position(mid, 0), q) \/ Absent
        \/ /\ query' = [query EXCEPT
                !.phase = "records", !.probe = query.lo - 1, !.lo = 1,
                !.hi = Chunk(query.chunks[query.lo]).num_records]
           /\ UNCHANGED <<cursor, at_eof, pending_trusted_end, control, io_errors>>
    BY <1>12 DEF SearchChunks
  <2> HIDE DEF q
  <2>3. CASE ReadRecordAt(Position(mid, 0), q) BY <1>7, <2>1, <2>3
  <2> QED BY <1>4, <1>11, <2>2, <2>3
<1>13. ASSUME SearchRecords PROVE Quiet /\ Same
  <2> DEFINE mid == query.lo + ((query.hi - query.lo) \div 2)
             q == [query EXCEPT !.phase = "record_sought", !.mid = mid]
  <2>1. DOMAIN q = DOMAIN query /\ q.kind = query.kind /\ q.since = query.since
    <3> HIDE DEF mid
    <3> QED BY <1>0
  <2>2. ReadRecordAt(Position(query.probe, mid), q) \/ Absent BY <1>13 DEF SearchRecords
  <2> HIDE DEF q
  <2>3. CASE ReadRecordAt(Position(query.probe, mid), q) BY <1>7, <2>1, <2>3
  <2> QED BY <1>4, <2>2, <2>3
<1>14. ASSUME JudgeChunk PROVE Quiet /\ Same
  <2> DEFINE q == [query EXCEPT !.phase = "chunk_sought", !.probe = query.probe + 1]
  <2>1. DOMAIN q = DOMAIN query /\ q.kind = query.kind /\ q.since = query.since BY <1>0
  <2>2. ASSUME Unordered PROVE Quiet /\ Same
    <3>1. ReadRecordAt(Position(query.probe + 1, 0), q) \/ Narrow(query.lo, query.mid, "chunks")
      BY <2>2 DEF Unordered
    <3> HIDE DEF q
    <3>2. CASE ReadRecordAt(Position(query.probe + 1, 0), q) BY <1>7, <2>1, <3>2
    <3>3. CASE Narrow(query.lo, query.mid, "chunks") BY <1>5, <3>3
    <3> QED BY <3>1, <3>2, <3>3
  <2>3. \/ Unordered \/ PivotEqual \/ Narrow(query.probe + 1, query.hi, "chunks")
        \/ Narrow(query.lo, query.mid, "chunks")
    BY <1>14 DEF JudgeChunk
  <2>4. CASE Narrow(query.probe + 1, query.hi, "chunks") BY <1>5, <2>4
  <2>5. CASE Narrow(query.lo, query.mid, "chunks") BY <1>5, <2>5
  <2> QED BY <1>6, <2>2, <2>3, <2>4, <2>5
<1>15. ASSUME JudgeRecord PROVE Quiet /\ Same
  <2>1. \/ Absent \/ PivotEqual \/ Narrow(query.mid + 1, query.hi, "records")
        \/ Narrow(query.lo, query.mid, "records")
    BY <1>15 DEF JudgeRecord
  <2>2. CASE Narrow(query.mid + 1, query.hi, "records") BY <1>5, <2>2
  <2>3. CASE Narrow(query.lo, query.mid, "records") BY <1>5, <2>3
  <2> QED BY <1>4, <1>6, <2>1, <2>2, <2>3
<1>16. Quiet /\ Same BY <1>8, <1>9, <1>10, <1>12, <1>13, <1>14, <1>15
<1> QED BY <1>2, <1>3, <1>16 DEF Unrelated, Onward, QueryInv, Quiet, Same

\* The end of a query, and what the reader does between queries and in them.
LEMMA OtherReads ==
    ASSUME QueryInv,
           \/ Finish
           \/ Step /\ UNCHANGED queryVars /\ query.kind \notin {"check", "metadata"}
           \/ query.kind = "none" /\ (ReadRecord \/ Seek \/ SeekNumeric) /\ UNCHANGED queryVars
    PROVE  Unrelated
<1>1. CASE Finish
  <2>1. /\ UNCHANGED <<file, len, op, pc, stream_len, io_errors>> /\ pc = "idle"
        /\ query' = NoQuery
    BY <1>1 DEF Finish, control
  <2>2. query'.kind = "none" /\ query'.since = 0 BY <2>1 DEF NoQuery
  <2> QED BY <2>1, <2>2 DEF Unrelated, Onward, QueryInv
<1>2. CASE Step /\ UNCHANGED queryVars /\ query.kind \notin {"check", "metadata"}
  <2>1. op' \notin {"check", "metadata"} BY <1>2, StepControl DEF QueryInv
  <2> QED BY <1>2, <2>1, StepControl DEF Unrelated, queryVars, QueryInv
<1>3. CASE query.kind = "none" /\ (ReadRecord \/ Seek \/ SeekNumeric) /\ UNCHANGED queryVars
  <2>1. /\ op' \in {"read_record", "seek", "seek_numeric", "none"} /\ (pc' = "idle" => op' = "none")
        /\ UNCHANGED <<file, len, stream_len>> /\ io_errors' \in {io_errors, io_errors + 1}
    BY <1>3 DEF ReadRecord, Seek, SeekNumeric, StartSeek, SeekFails, Return, NoIoError, IoError,
                history
  <2> QED BY <1>3, <2>1 DEF Unrelated, Onward, queryVars, QueryInv
<1> QED BY <1>1, <1>2, <1>3

---------------------------------------------------------------------------
(* The invariants. *)

\* A step that is part of a query, or of none.
LEMMA QueryStepInv ==
    ASSUME QueryInv, Onward, UNCHANGED len,
           DOMAIN query' = DOMAIN NoQuery, query'.since \in {query.since, len, 0},
           pc' = "idle" => op' = "none",
           op' = "check" => query'.kind = "check" /\ pc' \in {"peek", "payload"},
           op' = "metadata" =>
             /\ query'.kind = "metadata"
             /\ pc' \in {"peek", "payload", "recover", "resync", "region"},
           query'.kind \in {"check", "metadata"} =>
             \/ op' = query'.kind /\ query'.phase = "scan"
             \/ pc' = "idle" /\ query'.phase = "scan" /\ result' = "error"
             \/ pc' = "idle" /\ query'.phase = "done"
    PROVE  QueryInv'
<1>1. FileType(file') /\ UNCHANGED lengths /\ len \in Nat
  BY FileFacts DEF QueryInv, Onward, lengths
<1>2. len' \in lengths' /\ stream_len' \in Nat /\ stream_len' <= len' /\ io_errors' \in Nat
  BY <1>1 DEF QueryInv, Onward
<1>3. query'.since \in Nat /\ query'.since <= len' BY <1>1 DEF QueryInv
<1> QED BY <1>1, <1>2, <1>3 DEF QueryInv

LEMMA QueryUnrelated ==
    ASSUME QueryInv, Unrelated
    PROVE  QueryInv' /\ CheckInv' /\ MetadataInv'
<1>1. QueryInv' BY QueryStepInv DEF Unrelated
<1> QED BY <1>1 DEF Unrelated, CheckInv, MetadataInv

\* What is left alone with the file and its length.
LEMMA CheckSame ==
    ASSUME UNCHANGED <<file, len>>
    PROVE  /\ UNCHANGED <<Chunks, lengths, blocks, DOMAIN Chunks>> /\ \A i : UNCHANGED Chunk(i)
           /\ \A i : Sound(Chunk(i))' = Sound(Chunk(i))
           /\ \A i : HeaderReadable(Chunk(i))' = HeaderReadable(Chunk(i))
           /\ \A i : ClaimsFit(Chunk(i), len)' = ClaimsFit(Chunk(i), len)
           /\ ChunksSound' = ChunksSound
           /\ \A p : Checked(p)' = Checked(p)
<1>1. UNCHANGED <<Chunks, lengths, blocks, DOMAIN Chunks>> /\ \A i : UNCHANGED Chunk(i)
  BY FileSame
<1>2. \A i : Sound(Chunk(i))' = Sound(Chunk(i))
  BY <1>1 DEF Sound, DataEnd, BoundariesIn, ValidBlock
<1>3. \A i : HeaderReadable(Chunk(i))' = HeaderReadable(Chunk(i))
  BY <1>1 DEF HeaderReadable, DataBegin, BoundariesIn, ValidBlock, LeadsBackTo
<1>4. \A i : ClaimsFit(Chunk(i), len)' = ClaimsFit(Chunk(i), len)
  BY <1>1 DEF ClaimsFit, DataBegin, SaturatingSub
<1>5. ChunksSound' = ChunksSound BY <1>1, <1>2 DEF ChunksSound, ValidBlock
<1>6. \A p : Checked(p)' = Checked(p) BY <1>1, <1>2 DEF Checked, ValidBlock, ChunkAt
<1> QED BY <1>1, <1>2, <1>3, <1>4, <1>5, <1>6

\* What metadata reads remember of the file does not depend on its length.
LEMMA MetadataSame ==
    ASSUME UNCHANGED <<file, query>>
    PROVE  /\ MetadataNotHidden' = MetadataNotHidden
           /\ \A i : UNCHANGED Chunk(i) /\ \A p : UNCHANGED ChunkAt(p)
           /\ \A i : HeaderIntact(Chunk(i))' = HeaderIntact(Chunk(i))
<1>1. UNCHANGED <<Chunks, blocks, DOMAIN Chunks>> /\ \A i : UNCHANGED Chunk(i) BY FileSame
<1>2. \A p : UNCHANGED ChunkAt(p) BY <1>1 DEF ChunkAt
<1>3. \A i : HeaderIntact(Chunk(i))' = HeaderIntact(Chunk(i))
  BY <1>1 DEF HeaderIntact, DataBegin, BoundariesIn, ValidBlock
<1>4. \A i : Damaged(Chunk(i))' = Damaged(Chunk(i)) BY FileSame
<1>5. MetadataNotHidden' = MetadataNotHidden
  BY <1>1, <1>2, <1>4 DEF MetadataNotHidden, Returned
<1> QED BY <1>1, <1>2, <1>3, <1>5

LEMMA QueryGrow ==
    ASSUME QueryInv, Grow, UNCHANGED queryVars
    PROVE  QueryInv' /\ (CheckInv => CheckInv') /\ (MetadataInv => MetadataInv')
<1>1. /\ UNCHANGED <<file, op, pc, local, result, stream_len, io_errors, query>>
      /\ len' \in lengths /\ len' > len
  BY DEF Grow, control, history, queryVars
<1>2. UNCHANGED <<lengths, Chunks>> /\ len \in Nat /\ len' \in Nat
  BY <1>1, FileFacts, FileSame DEF QueryInv
<1>3. QueryInv' BY <1>1, <1>2 DEF QueryInv
<1>4. ~Undisturbed' BY <1>1, <1>2 DEF Undisturbed, QueryInv
<1>5. CheckInv => CheckInv' BY <1>1, <1>4, MetadataSame DEF CheckInv, CheckedExactly
<1>6. MetadataInv => MetadataInv' BY <1>1, MetadataSame DEF MetadataInv
<1> QED BY <1>3, <1>5, <1>6

LEMMA QueryStutter ==
    ASSUME QueryInv, UNCHANGED allVars
    PROVE  QueryInv' /\ (CheckInv => CheckInv') /\ (MetadataInv => MetadataInv')
<1>1. UNCHANGED <<file, len, op, pc, local, result, stream_len, io_errors, query>>
  BY DEF allVars, vars, control, history, queryVars
<1>2. QueryInv' BY <1>1, QueryStepInv DEF QueryInv, Onward
<1>3. UNCHANGED Undisturbed /\ UNCHANGED CheckedExactly
  BY <1>1, CheckSame DEF Undisturbed, CheckedExactly
<1>4. CheckInv => CheckInv'
  BY <1>1, <1>3, CheckSame, MetadataSame DEF CheckInv
<1>5. MetadataInv => MetadataInv' BY <1>1, MetadataSame DEF MetadataInv
<1> QED BY <1>2, <1>4, <1>5

---------------------------------------------------------------------------
(* check_file_format. *)

\* It suffices to look at what the step finds in the file as it is.
LEMMA CheckInvStep ==
    ASSUME UNCHANGED <<file, len>>,
           op' = "check" =>
             /\ {"scan_pos", "chunk"} \subseteq DOMAIN local' /\ local'.scan_pos \in Nat
             /\ Undisturbed' => Checked(local'.scan_pos)
             /\ pc' = "payload" =>
                  local'.chunk \in ChunkAt(canonical_chunk_address(local'.scan_pos))
             /\ pc' = "payload" /\ Undisturbed' =>
                  HeaderReadable(Chunk(local'.chunk)) /\ ClaimsFit(Chunk(local'.chunk), len),
           op' # "check" /\ query'.phase = "scan" /\ Undisturbed' => ~ChunksSound,
           query'.phase = "done" /\ Undisturbed' => (query'.value = "valid" <=> ChunksSound)
    PROVE  CheckInv'
<1>1. /\ UNCHANGED <<Chunks, lengths, blocks, DOMAIN Chunks>> /\ \A i : UNCHANGED Chunk(i)
      /\ \A i : Sound(Chunk(i))' = Sound(Chunk(i))
      /\ ChunksSound' = ChunksSound
  BY CheckSame
<1>2. Checked(local.scan_pos)' = Checked(local'.scan_pos)
  BY <1>1 DEF Checked, ValidBlock, ChunkAt
<1>3. ChunkAt(canonical_chunk_address(local.scan_pos))'
        = ChunkAt(canonical_chunk_address(local'.scan_pos))
  BY <1>1 DEF ChunkAt
<1>4. HeaderReadable(Chunk(local.chunk))' = HeaderReadable(Chunk(local'.chunk))
  BY <1>1 DEF HeaderReadable, DataBegin, BoundariesIn, ValidBlock, LeadsBackTo
<1>5. ClaimsFit(Chunk(local.chunk), len)' = ClaimsFit(Chunk(local'.chunk), len)
  BY <1>1 DEF ClaimsFit, DataBegin, SaturatingSub
<1>6. CheckedExactly' BY <1>1 DEF CheckedExactly
<1> QED BY <1>1, <1>2, <1>3, <1>4, <1>5, <1>6 DEF CheckInv

LEMMA CanonicalBegin ==
    BlockHeaderSize \in Nat /\ canonical_chunk_address(BlockHeaderSize) = 0
<1>1. BlockHeaderSize = BlockSize * 0 + BlockHeaderSize BY BlockSizeNat
<1>2. BlockHeaderSize \in 0 .. (BlockSize - 1) BY BlockSizeNat
<1>3. BlockHeaderSize % BlockSize = BlockHeaderSize
  BY <1>1, <1>2, BlockSizeNat, DivModUnique
<1> QED BY <1>3, BlockSizeNat DEF canonical_chunk_address

\* A check begins at the signature.
LEMMA CheckBegins ==
    ASSUME QueryInv, CheckFileFormat
    PROVE  QueryInv' /\ CheckInv' /\ MetadataInv'
<1>1. /\ UNCHANGED <<file, len, stream_len>> /\ pc = "idle" /\ op = "none"
      /\ query' = [Ask("check") EXCEPT !.phase = "scan"]
  BY DEF CheckFileFormat, MayAsk, Elsewhere, StillElsewhere, QueryInv
<1>2. /\ DOMAIN query' = DOMAIN NoQuery /\ query'.kind = "check" /\ query'.since = len
      /\ query'.phase = "scan"
  BY <1>1, NoQueryFields, AskFields
<1>3. \/ /\ NoIoError /\ BlockHeaderSize <= len /\ ValidBlock(0)
         /\ op' = "check" /\ pc' = "peek"
         /\ local' = [NoLocals EXCEPT !.scan_pos = BlockHeaderSize]
      \/ /\ (NoIoError /\ (BlockHeaderSize > len \/ ~ValidBlock(0))) \/ IoError
         /\ op' = "none" /\ pc' = "idle" /\ result' = "error"
  BY <1>1 DEF CheckFileFormat, BeginScan, Return
<1>4. QueryInv'
  <2>1. Onward BY <1>1, <1>3 DEF Onward, NoIoError, IoError
  <2> QED BY <1>1, <1>2, <1>3, <2>1, QueryStepInv
<1>5. CASE op' = "check"
  <2>1. /\ BlockHeaderSize <= len /\ ValidBlock(0) /\ pc' = "peek"
        /\ {"scan_pos", "chunk"} \subseteq DOMAIN local' /\ local'.scan_pos = BlockHeaderSize
    BY <1>3, <1>5 DEF NoLocals
  <2>2. Checked(BlockHeaderSize)
    <3>1. 1 \in ChunkAt(0) BY FileFacts DEF QueryInv, ChunkAt
    <3>2. \A i \in DOMAIN Chunks : Chunk(i).begin \in Nat BY ChunkFacts DEF QueryInv
    <3> QED BY <2>1, <3>1, <3>2, CanonicalBegin DEF Checked
  <2> QED BY <1>1, <1>2, <1>4, <1>5, <2>1, <2>2, CanonicalBegin, CheckInvStep DEF MetadataInv
<1>6. CASE op' = "none"
  <2>1. Undisturbed' => ~ChunksSound
    <3>1. io_errors \in Nat /\ len \in Nat BY FileFacts DEF QueryInv
    <3> QED BY <1>3, <1>6, <3>1, BlockSizeNat DEF NoIoError, IoError, Undisturbed, ChunksSound
  <2> QED BY <1>1, <1>2, <1>4, <1>6, <2>1, CheckInvStep DEF MetadataInv
<1> QED BY <1>3, <1>5, <1>6

\* The next chunk header.
LEMMA CheckHeaderInv ==
    ASSUME QueryInv, CheckInv, ChunksDisjoint, FileTiled, CheckHeader
    PROVE  QueryInv' /\ CheckInv' /\ MetadataInv'
<1> DEFINE p == local.scan_pos
           a == canonical_chunk_address(p)
<1>0. DOMAIN query = {"kind", "phase", "value", "target", "chunks", "lo", "hi", "mid", "probe",
                      "at", "total", "position", "since", "seen"}
  BY NoQueryFields DEF QueryInv
<1>1. /\ FileType(file) /\ len \in lengths /\ len \in Nat /\ io_errors \in Nat
      /\ stream_len \in Nat /\ stream_len <= len
      /\ UNCHANGED <<file, len>> /\ op = "check" /\ pc = "peek"
      /\ query.kind = "check" /\ query.phase = "scan"
      /\ {"scan_pos", "chunk"} \subseteq DOMAIN local /\ p \in Nat
      /\ Undisturbed => Checked(p)
  BY FileFacts DEF QueryInv, CheckInv, CheckHeader, Elsewhere, StillElsewhere
<1>2. /\ Header.kind \in {"eof", "error", "chunk"} /\ Header.stream_len \in {stream_len, len}
      /\ Header.kind = "eof" => a >= len
      /\ Header.kind = "chunk" =>
           /\ Header.chunk \in ChunkAt(a)
           /\ HeaderReadable(Chunk(Header.chunk)) /\ ClaimsFit(Chunk(Header.chunk), len)
  BY <1>1, HeaderOutcome, HeaderMeasures DEF Header, ChunkAt
<1>3. /\ \/ HeaderIs("eof") /\ Return("ok") /\ Done("valid")
         \/ HeaderFails /\ Return("error") /\ query' = query
         \/ /\ HeaderIs("chunk") /\ query' = query
            /\ Goto("payload") /\ local' = [local EXCEPT !.chunk = Header.chunk]
      /\ stream_len' \in {stream_len, Header.stream_len}
      /\ io_errors' \in {io_errors, io_errors + 1}
  BY DEF CheckHeader, HeaderIs, HeaderFails, NoIoError, IoError
<1>4. Onward BY <1>1, <1>2, <1>3 DEF Onward
<1>5. a \in Nat /\ \A i \in DOMAIN Chunks : Chunk(i).begin \in Nat
  BY <1>1, CanonicalFacts, ChunkFacts
<1>6. CASE HeaderIs("eof") /\ Return("ok") /\ Done("valid")
  <2>1. /\ op' = "none" /\ pc' = "idle" /\ a >= len /\ io_errors' = io_errors
        /\ query' = [query EXCEPT !.phase = "done", !.value = "valid"]
    BY <1>1, <1>2, <1>6 DEF HeaderIs, Return, Done, NoIoError
  <2>2. /\ DOMAIN query' = DOMAIN query /\ query'.kind = "check" /\ query'.phase = "done"
        /\ query'.value = "valid" /\ query'.since = query.since
    BY <1>0, <1>1, <2>1
  <2>3. QueryInv' BY <1>1, <1>4, <2>1, <2>2, QueryStepInv DEF QueryInv
  <2>4. Undisturbed' => ChunksSound
    <3>1. Undisturbed' => Checked(p) BY <1>1, <2>1, <2>2 DEF Undisturbed
    <3> HIDE DEF p
    <3>2. Checked(p) => ChunksSound BY <1>1, <1>5, <2>1 DEF Checked, ChunksSound
    <3> QED BY <3>1, <3>2
  <2> QED BY <1>1, <2>1, <2>2, <2>3, <2>4, CheckInvStep DEF MetadataInv
<1>7. CASE HeaderFails /\ Return("error") /\ query' = query
  <2>1. op' = "none" /\ pc' = "idle" /\ result' = "error" /\ query' = query
    BY <1>1, <1>7 DEF Return
  <2>2. QueryInv' BY <1>1, <1>4, <2>1, QueryStepInv DEF QueryInv
  <2>3. Undisturbed' => Undisturbed /\ Header.kind = "error"
    BY <1>1, <1>7, <2>1 DEF HeaderFails, HeaderIs, NoIoError, IoError, Undisturbed
  <2>4. ASSUME Undisturbed', ChunksSound PROVE FALSE
    <3>1. Checked(p) /\ read_chunk_header_at(p).kind = "error" BY <1>1, <2>3, <2>4 DEF Header
    <3>2. a < len
      <4>1. SUFFICES ASSUME a >= len PROVE FALSE BY <1>1, <1>5
      <4>2. read_chunk_header_at(p).kind = "eof" BY <4>1 DEF read_chunk_header_at
      <4> QED BY <3>1, <4>2
    <3>3. PICK i \in ChunkAt(a) : TRUE BY <1>1, <1>5, <3>1, <3>2 DEF Checked
    <3>4. i \in DOMAIN Chunks /\ Chunk(i).begin = a BY <3>3 DEF ChunkAt
    <3>5. Sound(Chunk(i)) BY <2>4, <3>2, <3>4 DEF ChunksSound
    <3>6. /\ HeaderReadable(Chunk(i)) /\ ClaimsFit(Chunk(i), len)
          /\ InteriorAgrees(Chunk(i))
      BY <1>1, <3>4, <3>5, SoundReadable
    <3> QED BY <1>1, <3>1, <3>3, <3>6, HeaderFound
  <2> QED BY <1>1, <2>1, <2>2, <2>4, CheckInvStep DEF MetadataInv
<1>8. CASE /\ HeaderIs("chunk") /\ query' = query
           /\ Goto("payload") /\ local' = [local EXCEPT !.chunk = Header.chunk]
  <2>1. /\ op' = "check" /\ pc' = "payload" /\ query' = query /\ io_errors' = io_errors
        /\ Header.kind = "chunk"
        /\ DOMAIN local' = DOMAIN local /\ local'.scan_pos = p /\ local'.chunk = Header.chunk
    BY <1>1, <1>8 DEF Goto, HeaderIs, NoIoError
  <2>2. QueryInv' BY <1>1, <1>4, <2>1, QueryStepInv DEF QueryInv
  <2>3. Undisturbed' => Undisturbed BY <1>1, <2>1 DEF Undisturbed
  <2> QED BY <1>1, <1>2, <2>1, <2>2, <2>3, CheckInvStep DEF MetadataInv
<1> QED BY <1>3, <1>6, <1>7, <1>8

\* The data of a chunk.
LEMMA CheckDataInv ==
    ASSUME QueryInv, CheckInv, ChunksDisjoint, FileTiled, CheckData
    PROVE  QueryInv' /\ CheckInv' /\ MetadataInv'
<1> DEFINE i == local.chunk
           c == Chunk(i)
           a == canonical_chunk_address(local.scan_pos)
<1>1. /\ FileType(file) /\ len \in lengths /\ len \in Nat /\ io_errors \in Nat
      /\ UNCHANGED <<file, len, stream_len, query>> /\ op = "check" /\ pc = "payload"
      /\ query.kind = "check" /\ query.phase = "scan"
      /\ {"scan_pos", "chunk"} \subseteq DOMAIN local /\ i \in ChunkAt(a)
      /\ Undisturbed =>
           Checked(local.scan_pos) /\ HeaderReadable(c) /\ ClaimsFit(c, len)
  BY FileFacts DEF QueryInv, CheckInv, CheckData, Elsewhere, StillElsewhere
<1>2. i \in DOMAIN Chunks /\ c.begin = a BY <1>1 DEF ChunkAt
<1>3. /\ c.begin \in Nat /\ DataBegin(c) \in Nat /\ c.begin < DataBegin(c) /\ End(c) \in Nat
      /\ canonical_chunk_address(End(c)) = End(c)
  BY <1>1, <1>2, FileExtent
<1>4. \/ NoIoError /\ DataValid(c) /\ ScanOn(End(c))
      \/ NoIoError /\ ~DataValid(c) /\ Return("error")
      \/ IoError /\ Return("error")
  BY DEF CheckData
<1>5. Onward BY <1>1, <1>4 DEF Onward, NoIoError, IoError
<1>6. CASE NoIoError /\ DataValid(c) /\ ScanOn(End(c))
  <2>1. /\ op' = "check" /\ pc' = "peek" /\ io_errors' = io_errors
        /\ DOMAIN local' = DOMAIN local /\ local'.scan_pos = End(c)
    <3>1. local' = [local EXCEPT !.scan_pos = End(c), !.chunk = 0] /\ op' = "check" /\ pc' = "peek"
      BY <1>1, <1>6 DEF ScanOn, Goto
    <3> HIDE DEF c
    <3> QED BY <1>1, <1>6, <3>1 DEF NoIoError
  <2>2. QueryInv' BY <1>1, <1>5, <2>1, QueryStepInv DEF QueryInv
  <2>3. ASSUME Undisturbed' PROVE Checked(End(c))
    <3>1. Undisturbed BY <1>1, <2>1, <2>3 DEF Undisturbed
    <3>2. Sound(c) BY <1>1, <1>2, <1>6, <3>1, ReadSound
    <3>3. ASSUME NEW j \in DOMAIN Chunks, Chunk(j).begin < End(c) PROVE Sound(Chunk(j))
      <4>1. Chunk(j).begin \in Nat BY <1>1, ChunkFacts
      <4>2. CASE Chunk(j).begin < c.begin
        BY <1>1, <1>2, <3>1, <4>2 DEF Checked
      <4>3. CASE Chunk(j).begin = c.begin BY <1>2, <3>2, <4>3, DisjointFacts
      <4>4. CASE c.begin < Chunk(j).begin
        <5>1. Plausible(file, c) BY <1>1, <3>1 DEF Plausible, lengths
        <5>2. End(c) <= Chunk(j).begin BY <1>2, <4>4, <5>1, DisjointFacts
        <5> QED BY <1>3, <3>3, <4>1, <5>2
      <4> QED BY <1>3, <4>1, <4>2, <4>3, <4>4
    <3>4. ChunkAt(End(c)) # {} \/ len <= End(c)
      <4>1. Plausible(file, c) BY <1>1, <3>1 DEF Plausible, lengths
      <4>2. ChunkOrEnd(file, End(c)) BY <1>2, <4>1 DEF FileTiled, Tiled, Chunks, Chunk
      <4> QED BY <1>1, <4>2 DEF ChunkOrEnd, ChunkAt, Chunks, Chunk, lengths
    <3> HIDE DEF c
    <3> QED BY <1>1, <1>3, <3>1, <3>3, <3>4 DEF Checked
  <2> QED BY <1>1, <1>3, <2>1, <2>2, <2>3, CheckInvStep DEF MetadataInv
<1>7. CASE (NoIoError /\ ~DataValid(c) /\ Return("error")) \/ (IoError /\ Return("error"))
  <2>1. op' = "none" /\ pc' = "idle" /\ result' = "error" BY <1>1, <1>7 DEF Return
  <2>2. QueryInv' BY <1>1, <1>5, <2>1, QueryStepInv DEF QueryInv
  <2>3. ASSUME Undisturbed', ChunksSound PROVE FALSE
    <3>1. Undisturbed /\ ~DataValid(c)
      BY <1>1, <1>7, <2>3 DEF NoIoError, IoError, Undisturbed
    <3>2. c.begin < len BY <1>1, <1>3, <3>1 DEF HeaderReadable
    <3>3. Sound(c) BY <1>2, <2>3, <3>2 DEF ChunksSound
    <3> QED BY <1>1, <1>2, <3>1, <3>3, SoundReadable
  <2> QED BY <1>1, <2>1, <2>2, <2>3, CheckInvStep DEF MetadataInv
<1> QED BY <1>4, <1>6, <1>7

---------------------------------------------------------------------------
(* read_serialized_metadata. *)

\* It suffices to look at what the step finds in the file as it is.
LEMMA MetadataInvStep ==
    ASSUME UNCHANGED file,
           op' = "metadata" /\ pc' = "peek" =>
             "chunk" \in DOMAIN local' /\ local'.scan_pos = FirstDataChunk,
           op' = "metadata" /\ pc' = "payload" =>
             /\ local'.chunk \in ChunkAt(FirstDataChunk)
             /\ Chunk(local'.chunk).type = "metadata" /\ HeaderIntact(Chunk(local'.chunk)),
           query'.phase = "done" /\ query'.value = "no_metadata" =>
             \A i \in ChunkAt(FirstDataChunk) :
               Chunk(i).type = "metadata" => query'.since <= FirstDataChunk,
           query'.phase = "done" /\ query'.value = "metadata" =>
             \E i \in ChunkAt(FirstDataChunk) :
               Chunk(i).type = "metadata" /\ ~Damaged(Chunk(i))
    PROVE  MetadataInv'
<1>1. /\ UNCHANGED <<Chunks, blocks, DOMAIN Chunks>> /\ \A i : UNCHANGED Chunk(i)
      /\ \A i : Damaged(Chunk(i))' = Damaged(Chunk(i))
  BY FileSame
<1>2. UNCHANGED ChunkAt(FirstDataChunk) BY <1>1 DEF ChunkAt
<1>3. HeaderIntact(Chunk(local.chunk))' = HeaderIntact(Chunk(local'.chunk))
  BY <1>1 DEF HeaderIntact, DataBegin, BoundariesIn, ValidBlock
<1>4. MetadataNotHidden' BY <1>1, <1>2 DEF MetadataNotHidden, Returned
<1> QED BY <1>1, <1>2, <1>3, <1>4 DEF MetadataInv

LEMMA MetadataBegins ==
    ASSUME QueryInv, ReadMetadata
    PROVE  QueryInv' /\ CheckInv' /\ MetadataInv'
<1>1. /\ UNCHANGED <<file, len, stream_len, io_errors>>
      /\ query' = [Ask("metadata") EXCEPT !.phase = "scan"]
      /\ op' = "metadata" /\ pc' = "peek"
      /\ local' = [NoLocals EXCEPT !.scan_pos = FirstDataChunk]
  BY DEF ReadMetadata, BeginScan, Elsewhere, StillElsewhere
<1>2. /\ DOMAIN query' = DOMAIN NoQuery /\ query'.kind = "metadata" /\ query'.since = len
      /\ query'.phase = "scan"
  BY <1>1, NoQueryFields, AskFields
<1>3. "chunk" \in DOMAIN local' /\ local'.scan_pos = FirstDataChunk BY <1>1 DEF NoLocals
<1>4. QueryInv' BY <1>1, <1>2, QueryStepInv DEF Onward
<1> QED BY <1>1, <1>2, <1>3, <1>4, MetadataInvStep DEF CheckInv

LEMMA MetadataHeaderInv ==
    ASSUME QueryInv, MetadataInv, ChunksDisjoint, MetadataHeader
    PROVE  QueryInv' /\ CheckInv' /\ MetadataInv'
<1>0. DOMAIN query = {"kind", "phase", "value", "target", "chunks", "lo", "hi", "mid", "probe",
                      "at", "total", "position", "since", "seen"}
  BY NoQueryFields DEF QueryInv
<1>1. /\ FileType(file) /\ len \in lengths /\ len \in Nat /\ stream_len \in Nat
      /\ stream_len <= len /\ UNCHANGED <<file, len>> /\ op = "metadata" /\ pc = "peek"
      /\ query.kind = "metadata" /\ query.phase = "scan"
      /\ "chunk" \in DOMAIN local /\ local.scan_pos = FirstDataChunk
  BY FileFacts DEF QueryInv, MetadataInv, MetadataHeader, Elsewhere, StillElsewhere
<1>2. FirstDataChunk \in Nat /\ canonical_chunk_address(FirstDataChunk) = FirstDataChunk
  BY FirstDataChunkFacts, CanonicalFacts
<1>3. /\ Header.stream_len \in {stream_len, len}
      /\ Header.kind = "eof" => FirstDataChunk >= len
      /\ Header.kind = "chunk" =>
           Header.chunk \in ChunkAt(FirstDataChunk) /\ HeaderReadable(Chunk(Header.chunk))
  BY <1>1, <1>2, HeaderOutcome, HeaderMeasures DEF Header, ChunkAt
<1> DEFINE i == Header.chunk
<1>4. /\ \/ HeaderIs("eof") /\ Return("ok") /\ Done("no_metadata")
         \/ HeaderFails /\ FailAt(local.scan_pos) /\ query' = query
         \/ /\ HeaderIs("chunk") /\ Chunk(i).type # "metadata"
            /\ Return("ok") /\ Done("no_metadata")
         \/ /\ HeaderIs("chunk") /\ Chunk(i).type = "metadata" /\ query' = query
            /\ Goto("payload") /\ local' = [local EXCEPT !.chunk = i]
      /\ stream_len' \in {stream_len, Header.stream_len}
      /\ io_errors' \in {io_errors, io_errors + 1}
  BY DEF MetadataHeader, MetadataUnreadable, HeaderIs, HeaderFails, NoIoError, IoError
<1>5. Onward BY <1>1, <1>3, <1>4 DEF Onward
<1>6. ASSUME HeaderIs("eof") \/ (HeaderIs("chunk") /\ Chunk(i).type # "metadata"),
             Return("ok"), Done("no_metadata")
      PROVE  QueryInv' /\ CheckInv' /\ MetadataInv'
  <2>1. /\ op' = "none" /\ pc' = "idle"
        /\ query' = [query EXCEPT !.phase = "done", !.value = "no_metadata"]
    BY <1>1, <1>6 DEF Return, Done
  <2>2. /\ DOMAIN query' = DOMAIN query /\ query'.kind = "metadata" /\ query'.phase = "done"
        /\ query'.value = "no_metadata" /\ query'.since = query.since
    BY <1>0, <1>1, <2>1
  <2>3. QueryInv' BY <1>1, <1>5, <2>1, <2>2, QueryStepInv DEF QueryInv
  <2>4. ASSUME NEW j \in ChunkAt(FirstDataChunk), Chunk(j).type = "metadata"
        PROVE  query'.since <= FirstDataChunk
    <3>1. CASE HeaderIs("eof")
      BY <1>1, <1>2, <1>3, <2>2, <3>1 DEF HeaderIs, QueryInv
    <3>2. CASE HeaderIs("chunk") /\ Chunk(i).type # "metadata"
      <4>1. i \in ChunkAt(FirstDataChunk) BY <1>3, <3>2 DEF HeaderIs
      <4>2. i = j BY <4>1, <2>4, DisjointFacts DEF ChunkAt
      <4> QED BY <2>4, <3>2, <4>2
    <3> QED BY <1>6, <3>1, <3>2
  <2> QED BY <1>1, <2>1, <2>2, <2>3, <2>4, MetadataInvStep DEF CheckInv
<1>7. CASE HeaderFails /\ FailAt(local.scan_pos) /\ query' = query
  <2>1. op' = "metadata" /\ pc' = "recover" /\ query' = query BY <1>1, <1>7 DEF FailAt, Goto
  <2>2. QueryInv' BY <1>1, <1>5, <2>1, QueryStepInv DEF QueryInv
  <2> QED BY <1>1, <2>1, <2>2, MetadataInvStep DEF CheckInv
<1>8. CASE /\ HeaderIs("chunk") /\ Chunk(i).type = "metadata" /\ query' = query
           /\ Goto("payload") /\ local' = [local EXCEPT !.chunk = i]
  <2>1. /\ op' = "metadata" /\ pc' = "payload" /\ query' = query /\ local'.chunk = i
        /\ i \in ChunkAt(FirstDataChunk) /\ HeaderReadable(Chunk(i))
    BY <1>1, <1>3, <1>8 DEF Goto, HeaderIs
  <2>2. QueryInv' BY <1>1, <1>5, <2>1, QueryStepInv DEF QueryInv
  <2>3. HeaderIntact(Chunk(i)) BY <2>1 DEF HeaderReadable, HeaderIntact
  <2> QED BY <1>1, <1>8, <2>1, <2>2, <2>3, MetadataInvStep DEF CheckInv
<1> QED BY <1>4, <1>6, <1>7, <1>8

LEMMA MetadataPayloadInv ==
    ASSUME QueryInv, MetadataInv, MetadataPayload
    PROVE  QueryInv' /\ CheckInv' /\ MetadataInv'
<1> DEFINE i == local.chunk
           c == Chunk(i)
<1>0. DOMAIN query = {"kind", "phase", "value", "target", "chunks", "lo", "hi", "mid", "probe",
                      "at", "total", "position", "since", "seen"}
  BY NoQueryFields DEF QueryInv
<1>1. /\ FileType(file) /\ UNCHANGED <<file, len, stream_len>> /\ op = "metadata"
      /\ pc = "payload" /\ query.kind = "metadata" /\ query.phase = "scan"
      /\ i \in ChunkAt(FirstDataChunk) /\ c.type = "metadata" /\ HeaderIntact(c)
  BY DEF QueryInv, MetadataInv, MetadataPayload, Elsewhere, StillElsewhere
<1>2. /\ \/ FailAt(FirstDataChunk) /\ query' = query
         \/ /\ c.decodes /\ DataReadable(c) /\ c.data_ok
            /\ Return("ok") /\ Done("metadata")
      /\ io_errors' \in {io_errors, io_errors + 1}
  BY DEF MetadataPayload, NoIoError, IoError
<1>3. Onward BY <1>1, <1>2 DEF Onward
<1>4. CASE FailAt(FirstDataChunk) /\ query' = query
  <2>1. op' = "metadata" /\ pc' = "recover" /\ query' = query BY <1>1, <1>4 DEF FailAt, Goto
  <2>2. QueryInv' BY <1>1, <1>3, <2>1, QueryStepInv DEF QueryInv
  <2> QED BY <1>1, <2>1, <2>2, MetadataInvStep DEF CheckInv
<1>5. CASE /\ c.decodes /\ DataReadable(c) /\ c.data_ok
           /\ Return("ok") /\ Done("metadata")
  <2>1. /\ op' = "none" /\ pc' = "idle"
        /\ query' = [query EXCEPT !.phase = "done", !.value = "metadata"]
    BY <1>1, <1>5 DEF Return, Done
  <2>2. /\ DOMAIN query' = DOMAIN query /\ query'.kind = "metadata" /\ query'.phase = "done"
        /\ query'.value = "metadata" /\ query'.since = query.since
    BY <1>0, <1>1, <2>1
  <2>3. QueryInv' BY <1>1, <1>3, <2>1, <2>2, QueryStepInv DEF QueryInv
  <2>4. ~Damaged(c)
    <3>1. c \in ChunkType BY <1>1, ChunkFacts DEF ChunkAt
    <3>2. \A b \in BoundariesIn(c.begin, DataEnd(c)) : ValidBlock(b)
      BY <1>1, <1>5, <3>1, ReadBoundaries DEF HeaderIntact
    <3> QED BY <1>1, <1>5, <3>2 DEF Damaged, Rejected, HeaderIntact
  <2> QED BY <1>1, <2>1, <2>2, <2>3, <2>4, MetadataInvStep DEF CheckInv
<1> QED BY <1>2, <1>4, <1>5

\* The reader's steps through a region, and what follows.
LEMMA MetadataRegionInv ==
    ASSUME QueryInv, MetadataInv,
           \/ Step /\ UNCHANGED queryVars /\ query.kind \in {"check", "metadata"}
           \/ ReportOnly /\ op = "metadata"
    PROVE  QueryInv' /\ CheckInv' /\ MetadataInv'
<1>0. DOMAIN query = {"kind", "phase", "value", "target", "chunks", "lo", "hi", "mid", "probe",
                      "at", "total", "position", "since", "seen"}
  BY NoQueryFields DEF QueryInv
<1>1. CASE Step /\ UNCHANGED queryVars /\ query.kind \in {"check", "metadata"}
  <2>1. /\ op = "metadata" /\ pc \in {"recover", "resync"}
        /\ query.kind = "metadata" /\ query.phase = "scan"
    BY <1>1, StepControl DEF QueryInv
  <2>2. /\ \/ op' = "metadata" /\ pc' \in {"resync", "region"}
           \/ op' = "none" /\ result' = "error" /\ pc' = "idle"
        /\ query' = query /\ UNCHANGED len /\ Onward
    BY <1>1, <2>1, StepControl DEF queryVars
  <2>3. QueryInv' BY <2>1, <2>2, QueryStepInv DEF QueryInv
  <2> QED BY <2>1, <2>2, <2>3, MetadataInvStep DEF CheckInv, Onward
<1>2. CASE ReportOnly /\ op = "metadata"
  <2>1. /\ UNCHANGED <<file, len, stream_len, io_errors>> /\ query.kind = "metadata"
        /\ query.phase = "scan" /\ op' = "none" /\ pc' = "idle"
        /\ \/ result' = "error" /\ query' = query
           \/ query' = [query EXCEPT !.phase = "done", !.value = "skipped_metadata"]
    BY <1>2 DEF ReportOnly, Return, Done, Elsewhere, StillElsewhere, QueryInv
  <2>2. /\ DOMAIN query' = DOMAIN query /\ query'.kind = "metadata"
        /\ query'.since = query.since
        /\ \/ query'.phase = "scan" /\ result' = "error"
           \/ query'.phase = "done" /\ query'.value = "skipped_metadata"
    BY <1>0, <2>1
  <2>3. QueryInv' BY <2>1, <2>2, QueryStepInv DEF QueryInv, Onward
  <2> QED BY <2>1, <2>2, <2>3, MetadataInvStep DEF CheckInv
<1> QED BY <1>1, <1>2

LEMMA QueryFailedInv ==
    ASSUME QueryInv, QueryFailed
    PROVE  QueryInv' /\ (CheckInv => CheckInv') /\ (MetadataInv => MetadataInv')
<1>0. DOMAIN query = {"kind", "phase", "value", "target", "chunks", "lo", "hi", "mid", "probe",
                      "at", "total", "position", "since", "seen"}
  BY NoQueryFields DEF QueryInv
<1>1. /\ UNCHANGED <<file, len, stream_len, op, pc, io_errors>> /\ pc = "idle" /\ op = "none"
      /\ query.phase # "done"
      /\ query' = [query EXCEPT !.phase = "done", !.value = "error"]
  BY DEF QueryFailed, Done, vars, control, history, QueryInv
<1>2. /\ DOMAIN query' = DOMAIN query /\ query'.kind = query.kind /\ query'.since = query.since
      /\ query'.phase = "done" /\ query'.value = "error"
  BY <1>0, <1>1
<1>3. QueryInv' BY <1>1, <1>2, QueryStepInv DEF QueryInv, Onward
<1>4. ASSUME CheckInv PROVE CheckInv'
  <2>1. CASE query.kind = "check"
    <3>1. query.phase = "scan" BY <1>1, <2>1 DEF QueryInv
    <3>2. Undisturbed' => ~ChunksSound
      BY <1>1, <1>2, <1>4, <2>1, <3>1 DEF CheckInv, Undisturbed
    <3> QED BY <1>1, <1>2, <3>2, CheckInvStep
  <2>2. CASE query.kind # "check" BY <1>2, <2>2 DEF CheckInv
  <2> QED BY <2>1, <2>2
<1>5. MetadataInv' BY <1>1, <1>2, MetadataInvStep
<1> QED BY <1>3, <1>4, <1>5

\* A check leaves everything alone that metadata reads look at.
LEMMA CheckScans ==
    ASSUME QueryInv, CheckHeader \/ CheckData
    PROVE  QueryInv' /\ MetadataInv'
<1>0. DOMAIN query = {"kind", "phase", "value", "target", "chunks", "lo", "hi", "mid", "probe",
                      "at", "total", "position", "since", "seen"}
  BY NoQueryFields DEF QueryInv
<1>1. Header.stream_len \in {stream_len, len} BY HeaderMeasures DEF Header
<1>2. /\ UNCHANGED <<file, len>> /\ op = "check" /\ query.kind = "check"
      /\ query.phase = "scan"
      /\ stream_len' \in {stream_len, Header.stream_len}
      /\ io_errors' \in {io_errors, io_errors + 1}
  BY DEF CheckHeader, CheckData, Elsewhere, StillElsewhere, HeaderIs, HeaderFails, NoIoError,
         IoError, QueryInv
<1>3. \/ op' = "check" /\ pc' \in {"peek", "payload"} /\ query' = query
      \/ op' = "none" /\ pc' = "idle" /\ result' = "error" /\ query' = query
      \/ op' = "none" /\ pc' = "idle" /\ query' = [query EXCEPT !.phase = "done", !.value = "valid"]
  BY <1>2 DEF CheckHeader, CheckData, Return, Goto, ScanOn, Done
<1>4. /\ DOMAIN query' = DOMAIN query /\ query'.kind = "check" /\ query'.since = query.since
      /\ query'.phase \in {"scan", "done"}
  BY <1>0, <1>2, <1>3
<1>5. Onward BY <1>1, <1>2 DEF Onward
<1>6. /\ op' \in {"check", "none"} /\ (pc' = "idle" <=> op' = "none")
      /\ op' = "check" => query'.phase = "scan" /\ pc' \in {"peek", "payload"}
      /\ op' = "none" => query'.phase = "done" \/ result' = "error"
  BY <1>0, <1>2, <1>3
<1>7. QueryInv' BY <1>2, <1>4, <1>5, <1>6, QueryStepInv DEF QueryInv
<1> QED BY <1>4, <1>7 DEF MetadataInv

LEMMA QueryNext ==
    ASSUME QueryInv, MetadataInv, ChunksDisjoint, [QNext]_allVars
    PROVE  QueryInv' /\ (CheckInv /\ FileTiled => CheckInv') /\ MetadataInv'
<1> DEFINE Others ==
             \/ Finish
             \/ Step /\ UNCHANGED queryVars /\ query.kind \notin {"check", "metadata"}
             \/ query.kind = "none" /\ (ReadRecord \/ Seek \/ SeekNumeric) /\ UNCHANGED queryVars
             \/ Search \/ SeekBack \/ Size
             \/ CollectChunks \/ CollectRegion \/ ChunkBefore \/ CountRecords
             \/ ReportOnly /\ op = "size"
             \/ SearchChunks \/ SearchRecords \/ ReadPivot \/ JudgeChunk \/ JudgeRecord \/ Found
             \/ StepBack \/ SteppedBack
<1>1. ASSUME Others PROVE QueryInv' /\ CheckInv' /\ MetadataInv'
  BY <1>1, OtherReads, OtherBegins, OtherScans, OtherPhases, QueryUnrelated
<1>2. ReportOnly => op \in {"size", "metadata"} BY DEF ReportOnly
<1>3. \/ Others \/ (Grow /\ UNCHANGED queryVars) \/ UNCHANGED allVars
      \/ Step /\ UNCHANGED queryVars /\ query.kind \in {"check", "metadata"}
      \/ ReportOnly /\ op = "metadata"
      \/ ReadMetadata \/ CheckFileFormat \/ MetadataHeader \/ MetadataPayload
      \/ CheckHeader \/ CheckData \/ QueryFailed
  BY <1>2 DEF QNext, QueryStep
<1> HIDE DEF Others
<1> QED
  BY <1>1, <1>3, QueryGrow, QueryStutter, MetadataRegionInv, MetadataBegins, CheckBegins,
     MetadataHeaderInv, MetadataPayloadInv, CheckHeaderInv, CheckDataInv, CheckScans, QueryFailedInv

LEMMA QueryInit ==
    QInit => QueryInv /\ CheckInv /\ MetadataInv
<1> SUFFICES ASSUME QInit PROVE QueryInv /\ CheckInv /\ MetadataInv OBVIOUS
<1>1. /\ file \in Files /\ len \in lengths /\ stream_len = 0 /\ io_errors = 0
      /\ pc = "open" /\ op = "new" /\ query = NoQuery
  BY DEF QInit, Init, InitReader
<1>2. FileType(file) BY <1>1, ReaderAssumption
<1>3. len \in Nat BY <1>1, <1>2, FileFacts
<1>4. query.kind = "none" /\ query.since = 0 BY <1>1 DEF NoQuery
<1>5. QueryInv BY <1>1, <1>2, <1>3, <1>4 DEF QueryInv
<1> QED BY <1>4, <1>5 DEF CheckInv, MetadataInv

LEMMA QueryFileConstant == ASSUME QueryInv, [QNext]_allVars PROVE UNCHANGED file
<1>1. Unrelated \/ Onward => UNCHANGED file BY DEF Unrelated, Onward
<1>2. CASE QueryFailed \/ UNCHANGED allVars BY <1>2 DEF QueryFailed, allVars, vars
<1>3. CASE Grow BY <1>3 DEF Grow
<1>4. CASE Step BY <1>4, StepControl DEF Onward
<1>5. CASE \/ ReadMetadata \/ CheckFileFormat \/ MetadataHeader \/ MetadataPayload
           \/ CheckHeader \/ CheckData \/ ReportOnly
  BY <1>5 DEF ReadMetadata, CheckFileFormat, MetadataHeader, MetadataPayload, CheckHeader,
              CheckData, ReportOnly, Elsewhere, StillElsewhere
<1> QED
  BY <1>1, <1>2, <1>3, <1>4, <1>5, OtherReads, OtherBegins, OtherScans, OtherPhases
     DEF QNext, QueryStep

(***************************************************************************)
(* Damage is never reported as the absence of metadata, nor returned as    *)
(* metadata (read_serialized_metadata): for every file whose chunks are    *)
(* disjoint, of any length and growing, with reads that fail.              *)
(***************************************************************************)
THEOREM QueriesMetadataNotHidden == QSpec /\ ChunksDisjoint => []MetadataNotHidden
<1> DEFINE Inv == QueryInv /\ MetadataInv /\ ChunksDisjoint
<1>1. QInit /\ ChunksDisjoint => Inv BY QueryInit
<1>2. Inv /\ [QNext]_allVars => Inv'
  <2> SUFFICES ASSUME Inv, [QNext]_allVars PROVE Inv' OBVIOUS
  <2>1. UNCHANGED file BY QueryFileConstant
  <2>2. ChunksDisjoint' BY <2>1 DEF ChunksDisjoint
  <2> QED BY <2>2, QueryNext
<1>3. Inv => MetadataNotHidden BY DEF MetadataInv, MetadataNotHidden, Returned
<1> HIDE DEF Inv
<1> QED BY <1>1, <1>2, <1>3, PTL DEF QSpec

(***************************************************************************)
(* check_file_format never accepts a file with a chunk that is not sound,  *)
(* and never rejects one in which everything is valid: for every file that *)
(* a writer has laid out, damaged in ways that a hash notices or cut off   *)
(* anywhere, that does not grow while it is checked, if no read fails.     *)
(***************************************************************************)
THEOREM QueriesCheckDecides == QSpec /\ ChunksDisjoint /\ FileTiled => []CheckDecides
<1> DEFINE Inv == QueryInv /\ CheckInv /\ MetadataInv /\ ChunksDisjoint /\ FileTiled
<1>1. QInit /\ ChunksDisjoint /\ FileTiled => Inv BY QueryInit
<1>2. Inv /\ [QNext]_allVars => Inv'
  <2> SUFFICES ASSUME Inv, [QNext]_allVars PROVE Inv' OBVIOUS
  <2>1. UNCHANGED file BY QueryFileConstant
  <2>2. ChunksDisjoint' /\ FileTiled' BY <2>1 DEF ChunksDisjoint, FileTiled
  <2> QED BY <2>2, QueryNext
<1>3. Inv => CheckDecides BY DEF CheckInv, CheckedExactly, CheckDecides, AllValid
<1> HIDE DEF Inv
<1> QED BY <1>1, <1>2, <1>3, PTL DEF QSpec

---------------------------------------------------------------------------
(* The records that a set of chunks claims: the sum does not depend on the *)
(* order in which they are added.                                          *)

\* A set of natural numbers has a least one.
LEMMA NatLeast ==
    ASSUME NEW N, N \subseteq Nat, N # {}
    PROVE  \E n \in N : \A m \in N : n <= m
<1>1. PICK n \in N : \A m \in N : <<m, n>> \notin OpToRel(<, Nat)
  BY NatLessThanWellFounded, WFMin, Zenon
<1>2. \A m \in N : ~(m < n) BY <1>1, Zenon DEF OpToRel
<1> QED BY <1>2

\* A family of finite sets has one without a smaller one inside.
LEMMA SetLeast ==
    ASSUME NEW F, F # {}, \A s \in F : IsFiniteSet(s)
    PROVE  \E s \in F : \A t \in F : ~(t \subseteq s /\ t # s)
<1> DEFINE N == {Cardinality(s) : s \in F}
<1>1. N \subseteq Nat /\ N # {} BY FS_CardinalityType
<1>2. PICK n \in N : \A m \in N : n <= m BY <1>1, NatLeast
<1>3. PICK s \in F : Cardinality(s) = n BY <1>2
<1>4. ASSUME NEW t \in F, t \subseteq s, t # s PROVE FALSE
  <2>1. Cardinality(t) <= Cardinality(s) /\ Cardinality(t) # Cardinality(s)
    BY <1>4, FS_Subset
  <2>2. n <= Cardinality(t) /\ n \in Nat /\ Cardinality(t) \in Nat BY <1>1, <1>2
  <2> QED BY <1>3, <2>1, <2>2
<1> QED BY <1>4

Claims(i) == Chunk(i).num_records

IsSum(g, S) ==
    g = [s \in SUBSET S |-> IF s = {} THEN 0
                            ELSE LET x == CHOOSE x \in s : TRUE IN Claims(x) + g[s \ {x}]]
LEMMA TotalIsSum == ASSUME NEW S PROVE RecordsIn(S) = (CHOOSE g : IsSum(g, S))[S]
BY DEF RecordsIn, IsSum, MapThenSumSet, MapThenFoldSet, Claims

Some(s) == CHOOSE x \in s : TRUE

LEMMA SomeIn == ASSUME NEW s, s # {} PROVE Some(s) \in s BY DEF Some

LEMMA SumAt ==
    ASSUME NEW g, NEW S, IsSum(g, S), NEW s \in SUBSET S
    PROVE  g[s] = IF s = {} THEN 0 ELSE Claims(Some(s)) + g[s \ {Some(s)}]
<1> DEFINE body(t) == IF t = {} THEN 0 ELSE Claims(Some(t)) + g[t \ {Some(t)}]
<1>1. g = [t \in SUBSET S |-> body(t)] BY Zenon DEF IsSum, Some
<1> HIDE DEF body
<1>2. g[s] = body(s) BY <1>1
<1> QED BY <1>2 DEF body

LEMMA SumsAgree ==
    ASSUME NEW g, NEW S, IsSum(g, S), NEW h, NEW T, IsSum(h, T),
           NEW v, v \subseteq S, v \subseteq T, IsFiniteSet(v)
    PROVE  g[v] = h[v]
<1> DEFINE F == {s \in SUBSET v : g[s] # h[s]}
<1>1. ASSUME F # {} PROVE FALSE
  <2>1. \A s \in F : IsFiniteSet(s) BY FS_Subset
  <2> HIDE DEF F
  <2>2. PICK s \in F : \A t \in F : ~(t \subseteq s /\ t # s) BY <1>1, <2>1, SetLeast
  <2> DEFINE t == s \ {Some(s)}
  <2>3. s \subseteq v /\ g[s] # h[s] BY <2>2 DEF F
  <2>4. /\ g[s] = IF s = {} THEN 0 ELSE Claims(Some(s)) + g[t]
        /\ h[s] = IF s = {} THEN 0 ELSE Claims(Some(s)) + h[t]
    BY <2>3, SumAt
  <2>5. s # {} /\ g[t] # h[t] BY <2>3, <2>4
  <2>6. t \subseteq s /\ t # s BY <2>5, SomeIn
  <2>7. t \in F BY <2>3, <2>5, <2>6 DEF F
  <2> QED BY <2>2, <2>6, <2>7
<1> QED BY <1>1

LEMMA SumExists ==
    ASSUME NEW S, IsFiniteSet(S)
    PROVE  IsSum(CHOOSE g : IsSum(g, S), S)
<1> DEFINE F == {s \in SUBSET S : ~ \E g : IsSum(g, s)}
<1>1. ASSUME F # {} PROVE FALSE
  <2>1. \A s \in F : IsFiniteSet(s) BY FS_Subset
  <2> HIDE DEF F
  <2>2. PICK s \in F : \A t \in F : ~(t \subseteq s /\ t # s) BY <1>1, <2>1, SetLeast
  <2> USE DEF F
  <2> DEFINE of(t) == CHOOSE g : IsSum(g, t)
             g == [t \in SUBSET s |-> IF t = {} THEN 0
                                      ELSE Claims(Some(t)) + of(t \ {Some(t)})[t \ {Some(t)}]]
  <2>3. ASSUME NEW t, t \subseteq s, t # s PROVE IsSum(of(t), t)
    <3>1. t \in SUBSET S /\ t \notin F BY <2>2, <2>3
    <3>2. \E f : IsSum(f, t) BY <3>1
    <3> QED BY <3>2, Zenon
  <2>4. ASSUME NEW t \in SUBSET s, t # {}
        PROVE  of(t \ {Some(t)})[t \ {Some(t)}] = g[t \ {Some(t)}]
    <3> DEFINE u == t \ {Some(t)}
               w == u \ {Some(u)}
    <3>1. u \subseteq s /\ u # s BY <2>4, SomeIn
    <3>2. IsSum(of(u), u) BY <2>3, <3>1
    <3>3. of(u)[u] = IF u = {} THEN 0 ELSE Claims(Some(u)) + of(u)[w] BY <3>2, SumAt
    <3>4. g[u] = IF u = {} THEN 0 ELSE Claims(Some(u)) + of(w)[w] BY <3>1
    <3>5. w \subseteq s /\ w # s /\ w \subseteq u BY <3>1
    <3>6. IsSum(of(w), w) BY <2>3, <3>5
    <3>7. IsFiniteSet(w) BY <2>2, <3>5, FS_Subset
    <3> HIDE DEF of
    <3>8. of(u)[w] = of(w)[w] BY <3>2, <3>5, <3>6, <3>7, SumsAgree
    <3> QED BY <3>3, <3>4, <3>8
  <2>5. g = [t \in SUBSET s |-> IF t = {} THEN 0 ELSE Claims(Some(t)) + g[t \ {Some(t)}]]
    <3> DEFINE f == [t \in SUBSET s |-> IF t = {} THEN 0 ELSE Claims(Some(t)) + g[t \ {Some(t)}]]
    <3>1. ASSUME NEW t \in SUBSET s PROVE g[t] = f[t]
      <4>1. CASE t = {} BY <4>1
      <4>2. CASE t # {}
        <5>1. g[t] = Claims(Some(t)) + of(t \ {Some(t)})[t \ {Some(t)}] BY <4>2
        <5>2. of(t \ {Some(t)})[t \ {Some(t)}] = g[t \ {Some(t)}] BY <2>4, <4>2
        <5>3. f[t] = Claims(Some(t)) + g[t \ {Some(t)}] BY <4>2
        <5> HIDE DEF of, g, f
        <5> QED BY <5>1, <5>2, <5>3
      <4> QED BY <4>1, <4>2
    <3> QED BY <3>1, Zenon
  <2> HIDE DEF g
  <2>6. IsSum(g, s) BY <2>5, Zenon DEF IsSum, Some
  <2> QED BY <2>2, <2>6
<1>2. \E g : IsSum(g, S) BY <1>1
<1> QED BY <1>2, Zenon

LEMMA TotalAt ==
    ASSUME NEW S, IsFiniteSet(S)
    PROVE  RecordsIn(S) = IF S = {} THEN 0 ELSE Claims(Some(S)) + RecordsIn(S \ {Some(S)})
<1> DEFINE of(t) == CHOOSE g : IsSum(g, t)
           R == S \ {Some(S)}
<1>1. IsFiniteSet(R) BY FS_Subset
<1>2. IsSum(of(S), S) /\ IsSum(of(R), R) BY <1>1, SumExists
<1>3. RecordsIn(S) = of(S)[S] /\ RecordsIn(R) = of(R)[R] BY TotalIsSum
<1> HIDE DEF of
<1>4. of(S)[S] = IF S = {} THEN 0 ELSE Claims(Some(S)) + of(S)[R] BY <1>2, SumAt
<1>5. of(S)[R] = of(R)[R] BY <1>1, <1>2, SumsAgree
<1> QED BY <1>3, <1>4, <1>5

LEMMA ClaimsNat == ASSUME FileType(file) PROVE \A i \in DOMAIN Chunks : Claims(i) \in Nat
BY ChunkFacts DEF Claims

LEMMA TotalNat ==
    ASSUME FileType(file), NEW S \in SUBSET (DOMAIN Chunks)
    PROVE  IsFiniteSet(S) /\ RecordsIn(S) \in Nat
<1>1. IsFiniteSet(DOMAIN Chunks)
  <2>1. DOMAIN Chunks = 1 .. Len(Chunks) /\ Len(Chunks) \in Nat BY DEF FileType, Chunks
  <2> QED BY <2>1, FS_Interval
<1>2. \A s \in SUBSET (DOMAIN Chunks) : IsFiniteSet(s) BY <1>1, FS_Subset
<1>3. \A i \in DOMAIN Chunks : Claims(i) \in Nat BY ClaimsNat
<1> DEFINE F == {s \in SUBSET (DOMAIN Chunks) : RecordsIn(s) \notin Nat}
<1>4. ASSUME F # {} PROVE FALSE
  <2>1. \A s \in F : IsFiniteSet(s) BY <1>2
  <2> HIDE DEF F
  <2>2. PICK s \in F : \A t \in F : ~(t \subseteq s /\ t # s) BY <1>4, <2>1, SetLeast
  <2> DEFINE t == s \ {Some(s)}
  <2>3. s \in SUBSET (DOMAIN Chunks) /\ RecordsIn(s) \notin Nat BY <2>2 DEF F
  <2>4. RecordsIn(s) = IF s = {} THEN 0 ELSE Claims(Some(s)) + RecordsIn(t) BY <2>1, <2>2, TotalAt
  <2>5. s # {} BY <2>3, <2>4
  <2>6. Some(s) \in s BY <2>5, SomeIn
  <2>7. t \notin F BY <2>2, <2>6
  <2>8. RecordsIn(t) \in Nat BY <2>3, <2>7 DEF F
  <2>9. Claims(Some(s)) \in Nat BY <1>3, <2>3, <2>6
  <2> QED BY <2>3, <2>4, <2>5, <2>8, <2>9
<1> QED BY <1>2, <1>4

\* The order of the sum does not matter.
LEMMA TotalRemove ==
    ASSUME FileType(file), NEW S \in SUBSET (DOMAIN Chunks), NEW i \in S
    PROVE  RecordsIn(S) = Claims(i) + RecordsIn(S \ {i})
<1> DEFINE F == {s \in SUBSET (DOMAIN Chunks) :
                   \E j \in s : RecordsIn(s) # Claims(j) + RecordsIn(s \ {j})}
<1>1. \A j \in DOMAIN Chunks : Claims(j) \in Nat
  BY ClaimsNat
<1>2. ASSUME F # {} PROVE FALSE
  <2>1. \A s \in F : IsFiniteSet(s) BY TotalNat
  <2> HIDE DEF F
  <2>2. PICK s \in F : \A t \in F : ~(t \subseteq s /\ t # s) BY <1>2, <2>1, SetLeast
  <2>3. s \in SUBSET (DOMAIN Chunks) /\ \E j \in s : RecordsIn(s) # Claims(j) + RecordsIn(s \ {j})
    BY <2>2 DEF F
  <2>4. PICK j \in s : RecordsIn(s) # Claims(j) + RecordsIn(s \ {j}) BY <2>3
  <2> DEFINE x == Some(s)
             t == s \ {x}
             u == s \ {j}
             v == t \ {j}
  <2>5. x \in s BY <2>3, SomeIn
  <2>6. RecordsIn(s) = Claims(x) + RecordsIn(t) BY <2>1, <2>2, <2>4, TotalAt
  <2> HIDE DEF x
  <2>7. x # j BY <2>4, <2>6
  <2>8. t \notin F /\ u \notin F BY <2>2, <2>4, <2>5
  <2>9. RecordsIn(t) = Claims(j) + RecordsIn(v) BY <2>3, <2>4, <2>7, <2>8 DEF F
  <2>10. RecordsIn(u) = Claims(x) + RecordsIn(u \ {x}) BY <2>3, <2>5, <2>7, <2>8 DEF F
  <2>11. u \ {x} = v OBVIOUS
  <2>12. Claims(x) \in Nat /\ Claims(j) \in Nat /\ RecordsIn(v) \in Nat
    BY <1>1, <2>3, <2>4, <2>5, TotalNat
  <2> HIDE DEF t, u, v
  <2>13. RecordsIn(s) = Claims(x) + (Claims(j) + RecordsIn(v)) BY <2>6, <2>9
  <2>14. RecordsIn(u) = Claims(x) + RecordsIn(v) BY <2>10, <2>11
  <2>15. RecordsIn(s) = Claims(j) + RecordsIn(u) BY <2>12, <2>13, <2>14
  <2> QED BY <2>4, <2>15 DEF u
<1> QED BY <1>2

LEMMA TotalMono ==
    ASSUME FileType(file), NEW T \in SUBSET (DOMAIN Chunks), NEW S \in SUBSET T
    PROVE  RecordsIn(S) <= RecordsIn(T)
<1> DEFINE F == {t \in SUBSET (DOMAIN Chunks) : \E s \in SUBSET t : ~(RecordsIn(s) <= RecordsIn(t))}
<1>1. \A j \in DOMAIN Chunks : Claims(j) \in Nat
  BY ClaimsNat
<1>2. ASSUME F # {} PROVE FALSE
  <2>1. \A s \in F : IsFiniteSet(s) BY TotalNat
  <2> HIDE DEF F
  <2>2. PICK t \in F : \A u \in F : ~(u \subseteq t /\ u # t) BY <1>2, <2>1, SetLeast
  <2>3. t \in SUBSET (DOMAIN Chunks) /\ \E s \in SUBSET t : ~(RecordsIn(s) <= RecordsIn(t))
    BY <2>2 DEF F
  <2>4. PICK s \in SUBSET t : ~(RecordsIn(s) <= RecordsIn(t)) BY <2>3
  <2>5. RecordsIn(s) \in Nat /\ RecordsIn(t) \in Nat BY <2>3, TotalNat
  <2>6. s # t BY <2>4, <2>5
  <2>7. PICK i \in t : i \notin s BY <2>6
  <2> DEFINE u == t \ {i}
  <2>8. u \notin F /\ s \subseteq u BY <2>2, <2>7
  <2>9. RecordsIn(s) <= RecordsIn(u) BY <2>3, <2>8 DEF F
  <2>10. RecordsIn(t) = Claims(i) + RecordsIn(u) BY <2>3, TotalRemove
  <2>11. Claims(i) \in Nat /\ RecordsIn(u) \in Nat BY <1>1, <2>3, TotalNat
  <2> HIDE DEF u
  <2> QED BY <2>4, <2>5, <2>9, <2>10, <2>11
<1> QED BY <1>2

---------------------------------------------------------------------------
(* The types of the reader and the query. *)

ResultType == {"none", "ok", "record", "eof", "error"}

\* The fields have their types between scans too.
LEMMA FieldTypes == ReaderTypesInv => ScanTypes
BY DEF ReaderTypesInv, TypeInv, TypeOK, OperationInv, ScanTypes

LEMMA ScanFacts ==
    ASSUME ScanTypes
    PROVE  /\ FileType(file) /\ len \in lengths /\ len \in Nat
           /\ stream_len \in Nat /\ stream_len <= len
           /\ current_chunk_begin \in Nat /\ current_record_index \in Nat
           /\ next_chunk_file_pos \in Nat
           /\ local \in LocalType /\ Len(Chunks) \in Nat /\ DOMAIN Chunks = 1 .. Len(Chunks)
           /\ Cursor \in Nat
<1>1. FileType(file) /\ len \in lengths BY DEF ScanTypes
<1>2. len \in Nat /\ Len(Chunks) \in Nat /\ DOMAIN Chunks = 1 .. Len(Chunks) BY <1>1, FileFacts
<1> QED BY <1>1, <1>2 DEF ScanTypes, LocalType, Cursor

\* A scan that has ended leaves the reader as it was between operations.
LEMMA ScanDone ==
    ASSUME ScanTypes', op' = "none", pc' \in {"idle", "gone"}
    PROVE  TypeInv' /\ op' \notin Scans
BY DEF ScanTypes, TypeInv, TypeOK, OperationInv, Scans

\* A seek begins.
LEMMA SeekBegun ==
    ASSUME ScanTypes', op' = "seek", pc' = "header", current_decoder' = 0
    PROVE  TypeInv' /\ op' \notin Scans
BY DEF ScanTypes, TypeInv, TypeOK, OperationInv, Scans

\* A step that leaves alone what scans leave alone.
LEMMA ScanStep ==
    ASSUME ScanTypes, UNCHANGED StillElsewhere, regions' \subseteq RegionType,
           stream_len' \in {stream_len, len},
           last_skipped_region' \in RegionType \cup {NoRegion},
           pending_trusted_end' \in Nat \cup {None},
           local' \in LocalType, pc' = "payload" => local'.chunk # 0,
           result' \in ResultType
    PROVE  ScanTypes'
<1>1. /\ UNCHANGED <<file, recovery, len, current_chunk_begin, next_chunk_file_pos,
                     current_decoder, current_record_index, pos, last_pos, at_eof,
                     last_record_is_valid, from, delivered>>
  BY DEF StillElsewhere, cursor, flags
<1>2. FileType(file') /\ UNCHANGED <<Chunks, lengths>> BY <1>1, FileSame DEF ScanTypes
<1>3. stream_len' \in Nat /\ stream_len' <= len BY ScanFacts
<1> QED BY <1>1, <1>2, <1>3 DEF ScanTypes, LocalType, RegionType, ResultType

\* Reading a chunk header in a scan.
LEMMA ScanHeader ==
    ASSUME ScanTypes
    PROVE  /\ local.scan_pos \in Nat
           /\ Header.stream_len \in {stream_len, len}
           /\ Header.kind \in {"eof", "error", "chunk"}
           /\ Header.kind = "eof" => canonical_chunk_address(local.scan_pos) >= len
           /\ Header.kind = "chunk" =>
                /\ Header.chunk \in DOMAIN Chunks /\ Header.chunk # 0
                /\ Chunk(Header.chunk).begin = canonical_chunk_address(local.scan_pos)
                /\ HeaderReadable(Chunk(Header.chunk)) /\ ClaimsFit(Chunk(Header.chunk), len)
                /\ Chunk(Header.chunk).num_records \in Nat
                /\ End(Chunk(Header.chunk)) \in Nat
<1>1. /\ FileType(file) /\ len \in lengths /\ stream_len \in Nat /\ stream_len <= len
      /\ DOMAIN Chunks = 1 .. Len(Chunks)
  BY ScanFacts
<1>2. local.scan_pos \in Nat BY ScanFacts DEF LocalType
<1>3. /\ Header.kind \in {"eof", "error", "chunk"}
      /\ Header.kind = "eof" => canonical_chunk_address(local.scan_pos) >= len
      /\ Header.kind = "chunk" =>
           /\ Header.chunk \in DOMAIN Chunks
           /\ Chunk(Header.chunk).begin = canonical_chunk_address(local.scan_pos)
           /\ HeaderReadable(Chunk(Header.chunk)) /\ ClaimsFit(Chunk(Header.chunk), len)
  BY <1>1, <1>2, HeaderOutcome DEF Header
<1>4. Header.stream_len \in {stream_len, len} BY HeaderMeasures DEF Header
<1> HIDE DEF Header
<1>5. Header.kind = "chunk" => Header.chunk # 0 BY <1>1, <1>3
<1> QED BY <1>1, <1>2, <1>3, <1>4, <1>5, ChunkFacts

\* What the moves of a scan do to its locals.
LEMMA ScanLocals ==
    ASSUME ScanTypes
    PROVE  /\ NoLocals \in LocalType
           /\ \A p \in Nat :
                /\ [NoLocals EXCEPT !.scan_pos = p] \in LocalType
                /\ [NoLocals EXCEPT !.target = p] \in LocalType
                /\ [local EXCEPT !.scan_pos = p] \in LocalType
                /\ [local EXCEPT !.scan_pos = p, !.chunk = 0] \in LocalType
                /\ [local EXCEPT !.at = p] \in LocalType
                /\ [local EXCEPT !.end = p] \in LocalType
                /\ [local EXCEPT !.boundary = p] \in LocalType
           /\ \A i \in 0 .. Len(Chunks) :
                [local EXCEPT !.chunk = i] \in LocalType /\ [local EXCEPT !.chunk = i].chunk = i
<1> DEFINE S == 0 .. Len(Chunks)
<1>1. local \in LocalType /\ 0 \in S BY ScanFacts
<1>2. LocalType = [chunk : S, at : Nat, begin : Nat, boundary : Nat, end : Nat,
                   target : Nat, index : Nat, scan_pos : Nat]
  BY DEF LocalType
<1> HIDE DEF S
<1>3. NoLocals \in LocalType BY <1>1, <1>2 DEF NoLocals
<1>4. ASSUME NEW p \in Nat
      PROVE  /\ [NoLocals EXCEPT !.scan_pos = p] \in LocalType
             /\ [NoLocals EXCEPT !.target = p] \in LocalType
             /\ [local EXCEPT !.scan_pos = p] \in LocalType
             /\ [local EXCEPT !.at = p] \in LocalType
             /\ [local EXCEPT !.end = p] \in LocalType
             /\ [local EXCEPT !.boundary = p] \in LocalType
  BY <1>1, <1>2, <1>3
<1>5. ASSUME NEW p \in Nat PROVE [local EXCEPT !.scan_pos = p, !.chunk = 0] \in LocalType
  BY <1>1, <1>2
<1>6. ASSUME NEW i \in S
      PROVE  [local EXCEPT !.chunk = i] \in LocalType /\ [local EXCEPT !.chunk = i].chunk = i
  BY <1>1, <1>2
<1> QED BY <1>3, <1>4, <1>5, <1>6 DEF S

---------------------------------------------------------------------------
\* The reader's own steps.

LEMMA TypesReader ==
    ASSUME ReaderTypesInv, QueryInv, op \notin Scans,
           \/ Step \/ Grow
           \/ query.kind = "none" /\ (ReadRecord \/ Seek \/ SeekNumeric)
           \/ UNCHANGED vars,
           UNCHANGED queryVars
    PROVE  ReaderTypesInv'
<1>1. TypeInv BY DEF ReaderTypesInv
<1>2. TypeInv' BY <1>1, TypeNext DEF Next
<1>3. /\ UNCHANGED <<file, query>>
      /\ op' \in {op, "none", "seek"} \/ query.kind = "none"
      /\ op' \notin Scans
  <2>1. CASE Step
    BY <2>1, StepControl DEF Onward, queryVars, Scans
  <2>2. CASE Grow BY <2>2 DEF Grow, control, queryVars
  <2>3. CASE query.kind = "none" /\ (ReadRecord \/ Seek \/ SeekNumeric)
    BY <2>3, <1>1
       DEF ReadRecord, Seek, SeekNumeric, StartSeek, SeekFails, Return, queryVars, Scans
  <2>4. CASE UNCHANGED vars BY <2>4 DEF vars, control, queryVars
  <2> QED BY <2>1, <2>2, <2>3, <2>4
<1>4. QueryTypes'
  <2>1. UNCHANGED Chunks BY <1>3, FileSame
  <2> QED BY <1>3, <2>1 DEF QueryTypes, ReaderTypesInv
<1>5. ScanControl'
  <2>1. query.kind = "size" => op = "none"
    BY DEF ReaderTypesInv, ScanControl, Scans
  <2>2. query.kind = "size" => op' = "none"
    <3>1. SUFFICES ASSUME query.kind = "size" PROVE op' = "none" OBVIOUS
    <3>2. pc \in {"idle", "gone"} BY <1>1, <2>1, <3>1 DEF TypeInv, TypeOK, OperationInv
    <3>3. ~Step
      BY <3>2 DEF Step, Open, Preamble, TakeRecord, LoadHeader, LoadData, MeasureOrigin,
             ResolveScanOrigin, PeekHeader, Recover, Resync, ReportRegion
    <3> QED BY <2>1, <3>1, <3>3 DEF Grow, vars, control
  <2> QED BY <1>3, <2>2 DEF ScanControl, Scans
<1> QED BY <1>2, <1>3, <1>4, <1>5 DEF ReaderTypesInv

\* Where a region begins and ends, in a scan.
LEMMA ScanRegionBegin ==
    ASSUME ScanTypes, NEW at \in Nat
    PROVE  /\ RegionBegin(at) \in Nat
           /\ canonical_chunk_address(at) <= RegionBegin(at) /\ RegionBegin(at) <= at
<1>1. canonical_chunk_address(at) \in Nat /\ canonical_chunk_address(at) <= at
  BY CanonicalFacts
<1>2. last_skipped_region # NoRegion => last_skipped_region.end \in Nat
  BY DEF ScanTypes
<1> QED BY <1>1, <1>2 DEF RegionBegin

LEMMA ScanRegionEnd ==
    ASSUME ScanTypes
    PROVE  /\ Region \in RegionType /\ Region.begin = local.begin /\ Region.end = RegionEnd
           /\ RegionEnd \in Nat
           /\ local.begin < canonical_chunk_address(RegionEnd)
           /\ canonical_chunk_address(RegionEnd) <= RegionEnd
<1> DEFINE e == Larger(local.end, Larger(local.begin + 1, local.at + 1))
<1>1. local.end \in Nat /\ local.begin \in Nat /\ local.at \in Nat
  BY ScanFacts DEF LocalType
<1>2. e \in Nat /\ e > local.begin BY <1>1 DEF Larger
<1>3. RegionEnd = IF canonical_chunk_address(e) <= local.begin THEN e + 1 ELSE e
  BY DEF RegionEnd
<1> HIDE DEF e
<1>4. local.begin < canonical_chunk_address(RegionEnd)
  <2>1. CASE canonical_chunk_address(e) <= local.begin
    <3>1. e % BlockSize = BlockHeaderSize BY <1>1, <1>2, <2>1, CanonicalFacts
    <3>2. (e + 1) % BlockSize # BlockHeaderSize BY <1>2, <3>1, AliasStep
    <3>3. canonical_chunk_address(e + 1) = e + 1 BY <1>2, <3>2, CanonicalFacts
    <3> QED BY <1>1, <1>2, <1>3, <2>1, <3>3
  <2>2. CASE ~(canonical_chunk_address(e) <= local.begin)
    <3>1. canonical_chunk_address(e) \in Nat BY <1>2, CanonicalFacts
    <3> QED BY <1>1, <1>3, <2>2, <3>1
  <2> QED BY <2>1, <2>2
<1>5. RegionEnd \in Nat BY <1>2, <1>3
<1>6. canonical_chunk_address(RegionEnd) <= RegionEnd BY <1>5, CanonicalFacts
<1> QED BY <1>1, <1>4, <1>5, <1>6 DEF Region, RegionType

\* The control and the types of the query, in a step that leaves the query alone.
LEMMA QuerySame ==
    ASSUME ReaderTypesInv, UNCHANGED <<file, query>>,
           op' \in {op, "none"},
           op' \in {"collect", "size"} => pc' \in {"peek", "recover", "resync", "region"},
           op' = "before" => pc' \in {"measure", "origin", "peek"}
    PROVE  QueryTypes' /\ ScanControl'
<1>1. UNCHANGED Chunks BY FileSame
<1>2. QueryTypes' BY <1>1 DEF QueryTypes, ReaderTypesInv
<1>3. ScanControl' BY DEF ScanControl, ReaderTypesInv
<1> QED BY <1>2, <1>3

\* The part of a scan that is the reader's: finding where to begin, and the
\* end of a region.
LEMMA TypesScanned ==
    ASSUME ReaderTypesInv, QueryInv, op \in Scans,
           Step \/ Grow \/ UNCHANGED vars, UNCHANGED queryVars
    PROVE  ReaderTypesInv'
<1>1. ScanTypes /\ QueryTypes /\ ScanControl BY FieldTypes DEF ReaderTypesInv
<1>2. UNCHANGED query /\ local \in LocalType BY <1>1, ScanFacts DEF queryVars
<1>10. /\ op \in {"collect", "size"} => pc \in {"peek", "recover", "resync", "region"}
       /\ op = "before" => pc \in {"measure", "origin", "peek"}
  BY <1>1 DEF ScanControl
<1>3. CASE UNCHANGED vars
  <2>1. UNCHANGED <<file, op, pc, local, result, stream_len, len>> BY <1>3 DEF vars, control
  <2>2. ScanTypes'
    BY <1>1, <1>3, FileSame DEF ScanTypes, vars, control, cursor, flags, skips, history
  <2> QED BY <1>2, <1>10, <2>1, <2>2, QuerySame DEF ReaderTypesInv
<1>4. CASE Grow
  <2>1. /\ UNCHANGED <<file, recovery, cursor, pos, last_pos, flags, stream_len, skips, control,
                       history>>
        /\ len' \in lengths /\ len' > len
    BY <1>4 DEF Grow
  <2>2. FileType(file') /\ UNCHANGED <<Chunks, lengths>> BY <1>1, <2>1, FileSame DEF ScanTypes
  <2>3. stream_len <= len' /\ len' \in lengths'
    BY <1>1, <2>1, <2>2, ScanFacts, FileFacts
  <2>4. ScanTypes'
    BY <1>1, <2>1, <2>2, <2>3 DEF ScanTypes, control, cursor, flags, skips, history
  <2> QED BY <1>2, <1>10, <2>1, <2>4, QuerySame DEF ReaderTypesInv, control
<1>5. CASE Step
  <2>1. \/ op = "before" /\ pc \in {"measure", "origin"}
        \/ op \in {"collect", "size", "metadata"} /\ pc \in {"recover", "resync"}
    <3>1. pc \notin {"payload", "idle", "peek", "region"}
      BY <1>5, StepControl DEF Scans
    <3> QED BY <1>1, <3>1 DEF ScanControl, QueryInv, Scans
  <2>2. Recover \/ Resync \/ MeasureOrigin \/ ResolveScanOrigin
    BY <1>5, <2>1
       DEF Step, Open, Preamble, TakeRecord, LoadHeader, LoadData, MeasureOrigin,
           ResolveScanOrigin, PeekHeader, Recover, Resync, ReportRegion
  <2>3. ASSUME MeasureOrigin \/ ResolveScanOrigin PROVE ReaderTypesInv'
    <3>1. /\ UNCHANGED <<StillElsewhere, regions, skips>> /\ op = "before"
          /\ stream_len' \in {stream_len, len}
      BY <2>1, <2>3 DEF MeasureOrigin, ResolveScanOrigin, StillElsewhere
    <3>2. /\ local' \in LocalType
          /\ \/ op' = op /\ pc' \in {"origin", "peek"} /\ result' = result
             \/ op' = "none" /\ pc' = "idle" /\ result' = "error"
      <4>1. CASE MeasureOrigin
        BY <1>2, <3>1, <4>1, <1>1, ScanLocals DEF MeasureOrigin, Goto, Return
      <4>2. CASE ResolveScanOrigin
        <5> DEFINE block_begin == round_down_to_block_boundary(Smaller(local.target, stream_len))
        <5>1. \/ Return("error")
              \/ \E p \in {ScanOrigin(local.target, block_begin), FirstDataChunk} :
                   Goto("peek") /\ local' = [local EXCEPT !.scan_pos = p]
          BY <4>2 DEF ResolveScanOrigin
        <5>2. ScanOrigin(local.target, block_begin) \in Nat /\ FirstDataChunk \in Nat
          <6>1. /\ Smaller(local.target, stream_len) \in Nat /\ local.target \in Nat
                /\ Smaller(local.target, stream_len) <= local.target
            BY <1>1, <1>2, ScanFacts DEF LocalType, Smaller
          <6>2. block_begin \in Nat /\ block_begin <= local.target
            BY <6>1, NextBoundaryFacts
          <6> QED BY <1>1, <6>1, <6>2, ScanFacts, ScanOriginFacts, FirstDataChunkFacts
        <5>3. \A p \in Nat : [local EXCEPT !.scan_pos = p] \in LocalType
          BY <1>1, ScanLocals
        <5> HIDE DEF block_begin
        <5> QED BY <1>1, <3>1, <5>1, <5>2, <5>3, ScanLocals DEF Return, Goto
      <4> QED BY <2>3, <4>1, <4>2
    <3>3. ScanTypes'
      BY <1>1, <3>1, <3>2, ScanStep DEF ScanTypes, RegionType, ResultType, skips
    <3> QED BY <1>2, <3>1, <3>2, <3>3, QuerySame, ScanDone DEF ReaderTypesInv, StillElsewhere
  <2>4. ASSUME Recover PROVE ReaderTypesInv'
    <3> DEFINE begin == RegionBegin(local.at)
               boundary == IF next_block_boundary(begin) = begin THEN begin + BlockSize
                           ELSE next_block_boundary(begin)
    <3>1. /\ UNCHANGED <<file, recovery, len, cursor, pos, last_pos, flags, stream_len,
                         last_skipped_region, delivered, regions>>
          /\ pending_trusted_end' = None /\ pc = "recover"
          /\ from' \in {from, Smaller(from, Cursor)}
      BY <2>4 DEF Recover
    <3>2. \/ Return("error")
          \/ /\ op' = op /\ pc' \in {"region", "resync"} /\ result' = result
             /\ \/ /\ pending_trusted_end # None
                   /\ local' = [local EXCEPT !.begin = begin, !.end = pending_trusted_end]
                \/ local' = [local EXCEPT !.begin = begin, !.boundary = boundary]
      BY <2>4 DEF Recover, Goto
    <3>3. begin \in Nat /\ boundary \in Nat
      <4>1. local.at \in Nat BY <1>2 DEF LocalType
      <4>2. begin \in Nat BY <1>1, <4>1, ScanRegionBegin
      <4> HIDE DEF begin
      <4> QED BY <4>2, NextBoundaryFacts, BlockSizeNat
    <3> HIDE DEF begin, boundary
    <3>4. /\ local' \in LocalType /\ result' \in ResultType
          /\ \/ op' = op /\ pc' \in {"region", "resync"}
             \/ op' = "none" /\ pc' = "idle"
      <4>1. CASE Return("error")
        BY <1>1, <2>1, <3>1, <4>1, ScanLocals DEF Return, ResultType, Scans
      <4>2. CASE /\ op' = op /\ pc' \in {"region", "resync"} /\ result' = result
                 /\ \/ /\ pending_trusted_end # None
                       /\ local' = [local EXCEPT !.begin = begin, !.end = pending_trusted_end]
                    \/ local' = [local EXCEPT !.begin = begin, !.boundary = boundary]
        BY <1>1, <1>2, <3>3, <4>2 DEF ScanTypes, LocalType, ResultType
      <4> QED BY <3>2, <4>1, <4>2
    <3>5. FileType(file') /\ UNCHANGED <<Chunks, lengths>> BY <1>1, <3>1, FileSame DEF ScanTypes
    <3>6. from' \in Nat BY <1>1, <3>1, ScanFacts DEF ScanTypes, Smaller
    <3>7. ScanTypes'
      BY <1>1, <3>1, <3>4, <3>5, <3>6 DEF ScanTypes, LocalType, ResultType, cursor, flags
    <3> QED BY <1>2, <2>1, <3>1, <3>4, <3>7, QuerySame, ScanDone DEF ReaderTypesInv
  <2>5. ASSUME Resync PROVE ReaderTypesInv'
    <3> DEFINE boundary == local.boundary
               target == boundary + blocks[boundary].next_chunk
    <3>1. UNCHANGED <<StillElsewhere, regions, stream_len, skips>> /\ pc = "resync"
      BY <2>5 DEF Resync, StillElsewhere
    <3>2. \/ ResyncAt(boundary) \/ ResyncFrom(boundary + BlockSize)
          \/ ValidBlock(boundary) /\ ResyncAt(target)
          \/ ValidBlock(boundary) /\ ResyncFrom(next_block_boundary(target))
      BY <2>5, Zenon DEF Resync
    <3>3. boundary \in Nat /\ local.begin \in Nat /\ stream_len \in Nat
      BY <1>1, <1>2, ScanFacts DEF LocalType
    <3>4. ValidBlock(boundary) => target \in Nat
      <4>1. SUFFICES ASSUME ValidBlock(boundary) PROVE target \in Nat OBVIOUS
      <4>2. blocks[boundary] \in BlockType BY <1>1, <4>1, ScanFacts, FileFacts DEF ValidBlock
      <4> QED BY <3>3, <4>2 DEF BlockType
    <3> HIDE DEF boundary, target
    <3>5. ASSUME NEW p \in Nat, ResyncAt(p) \/ ResyncFrom(p)
          PROVE  /\ local' \in LocalType /\ op' = op /\ pc' \in {"region", "resync"}
                 /\ result' = result
      <4>1. Smaller(p, Larger(stream_len, local.begin)) \in Nat BY <3>3 DEF Smaller, Larger
      <4> QED BY <1>1, <3>5, <4>1, ScanLocals DEF ResyncAt, ResyncFrom, Goto
    <3>6. /\ local' \in LocalType /\ op' = op /\ pc' \in {"region", "resync"}
          /\ result' = result
      <4>1. /\ boundary + BlockSize \in Nat
            /\ ValidBlock(boundary) => next_block_boundary(target) \in Nat
        BY <3>3, <3>4, BlockSizeNat, NextBoundaryFacts
      <4> QED BY <3>2, <3>3, <3>4, <3>5, <4>1
    <3>7. ScanTypes'
      BY <1>1, <3>1, <3>6, ScanStep DEF ScanTypes, RegionType, ResultType, skips
    <3> QED BY <1>2, <2>1, <3>1, <3>6, <3>7, QuerySame DEF ReaderTypesInv, StillElsewhere
  <2> QED BY <2>2, <2>3, <2>4, <2>5
<1> QED BY <1>3, <1>4, <1>5

---------------------------------------------------------------------------
(* The types in the steps of the queries. *)

\* A scan that goes on, fails and looks for a region, or returns.
LEMMA ScanMoves ==
    ASSUME ReaderTypesInv, op \in Scans, ScanTypes', QueryTypes', query'.kind = query.kind,
           \/ op' = op /\ query'.phase = query.phase
           \/ op' = "none" /\ pc' = "idle",
           op' \in {"collect", "size"} => pc' \in {"peek", "recover", "resync", "region"},
           op' = "before" => pc' \in {"measure", "origin", "peek"}
    PROVE  ReaderTypesInv'
<1>1. ScanControl' BY DEF ScanControl, ReaderTypesInv, Scans
<1>2. CASE op' = op BY <1>1, <1>2 DEF ReaderTypesInv
<1>3. CASE op' = "none" /\ pc' = "idle" BY <1>1, <1>3, ScanDone DEF ReaderTypesInv
<1> QED BY <1>2, <1>3

\* What the queries do to their own state.
LEMMA QueryMoves ==
    ASSUME QueryTypes, QueryInv, UNCHANGED file
    PROVE  /\ query' = query => QueryTypes'
           /\ \A v : query.kind # "none" /\ Done(v) =>
                QueryTypes' /\ query'.kind = query.kind /\ query'.phase = "done"
           /\ \A i \in DOMAIN Chunks :
                query' = [query EXCEPT !.chunks = Append(@, i)] /\ query.phase = "collect" =>
                  QueryTypes' /\ query'.kind = query.kind /\ query'.phase = "collect"
           /\ query.phase = "collect" /\ query' = [query EXCEPT !.phase = "chunks",
                                                        !.hi = Len(query.chunks)] =>
                QueryTypes' /\ query'.kind = query.kind
           /\ \A n \in Nat : query' = [query EXCEPT !.total = n] =>
                QueryTypes' /\ query'.kind = query.kind /\ query'.phase = query.phase
           /\ \A s : query' = [query EXCEPT !.seen = s] =>
                QueryTypes' /\ query'.kind = query.kind /\ query'.phase = query.phase
           /\ \A p \in PositionType :
                query.kind = "seek_back" /\ query' = [query EXCEPT !.phase = "back", !.at = p] =>
                  QueryTypes' /\ query'.kind = query.kind
           /\ \A p \in PositionType :
                query.kind = "seek_back" /\ query' = [query EXCEPT !.at = p] =>
                  QueryTypes' /\ query'.kind = query.kind /\ query'.phase = query.phase
<1>0. DOMAIN query = {"kind", "phase", "value", "target", "chunks", "lo", "hi", "mid", "probe",
                      "at", "total", "position", "since", "seen"}
  BY NoQueryFields DEF QueryInv
<1>1. UNCHANGED Chunks BY FileSame
<1>2. query' = query => QueryTypes' BY <1>1 DEF QueryTypes
<1>3. ASSUME NEW v, query.kind # "none", Done(v)
      PROVE  QueryTypes' /\ query'.kind = query.kind /\ query'.phase = "done"
  <2>1. query' = [query EXCEPT !.phase = "done", !.value = v] BY <1>3 DEF Done
  <2>2. /\ query'.kind = query.kind /\ query'.phase = "done" /\ query'.target = query.target
        /\ query'.lo = query.lo /\ query'.hi = query.hi /\ query'.mid = query.mid
        /\ query'.probe = query.probe /\ query'.total = query.total
        /\ query'.chunks = query.chunks /\ query'.at = query.at
    BY <1>0, <2>1
  <2>3. query.kind \in DOMAIN Phases /\ "done" \in Phases[query.kind]
    BY <1>3 DEF QueryTypes, Phases
  <2> QED BY <1>1, <2>2, <2>3 DEF QueryTypes
<1>4. ASSUME NEW i \in DOMAIN Chunks, query' = [query EXCEPT !.chunks = Append(@, i)],
             query.phase = "collect"
      PROVE  QueryTypes' /\ query'.kind = query.kind /\ query'.phase = "collect"
  <2>1. /\ query'.kind = query.kind /\ query'.phase = "collect" /\ query'.target = query.target
        /\ query'.lo = query.lo /\ query'.hi = query.hi /\ query'.mid = query.mid
        /\ query'.probe = query.probe /\ query'.total = query.total
        /\ query'.chunks = Append(query.chunks, i) /\ query'.at = query.at
    BY <1>0, <1>4
  <2>2. Append(query.chunks, i) \in Seq(DOMAIN Chunks) BY DEF QueryTypes
  <2> QED BY <1>1, <1>4, <2>1, <2>2 DEF QueryTypes
<1>5. ASSUME query.phase = "collect",
             query' = [query EXCEPT !.phase = "chunks", !.hi = Len(query.chunks)]
      PROVE  QueryTypes' /\ query'.kind = query.kind
  <2>1. /\ query'.kind = query.kind /\ query'.phase = "chunks" /\ query'.target = query.target
        /\ query'.lo = query.lo /\ query'.hi = Len(query.chunks) /\ query'.mid = query.mid
        /\ query'.probe = query.probe /\ query'.total = query.total
        /\ query'.chunks = query.chunks /\ query'.at = query.at
    BY <1>0, <1>5
  <2>2. query.chunks \in Seq(DOMAIN Chunks) /\ query.lo = 0 BY <1>5 DEF QueryTypes
  <2>3. query.kind \in DOMAIN Phases /\ "chunks" \in Phases[query.kind]
    BY <1>5 DEF QueryTypes, Phases
  <2> QED BY <1>1, <2>1, <2>2, <2>3 DEF QueryTypes
<1>6. ASSUME NEW n \in Nat, query' = [query EXCEPT !.total = n]
      PROVE  QueryTypes' /\ query'.kind = query.kind /\ query'.phase = query.phase
  <2>1. /\ query'.kind = query.kind /\ query'.phase = query.phase /\ query'.target = query.target
        /\ query'.lo = query.lo /\ query'.hi = query.hi /\ query'.mid = query.mid
        /\ query'.probe = query.probe /\ query'.total = n
        /\ query'.chunks = query.chunks /\ query'.at = query.at
    BY <1>0, <1>6
  <2> QED BY <1>1, <2>1 DEF QueryTypes
<1>7. ASSUME NEW s, query' = [query EXCEPT !.seen = s]
      PROVE  QueryTypes' /\ query'.kind = query.kind /\ query'.phase = query.phase
  <2>1. /\ query'.kind = query.kind /\ query'.phase = query.phase /\ query'.target = query.target
        /\ query'.lo = query.lo /\ query'.hi = query.hi /\ query'.mid = query.mid
        /\ query'.probe = query.probe /\ query'.total = query.total
        /\ query'.chunks = query.chunks /\ query'.at = query.at
    BY <1>0, <1>7
  <2> QED BY <1>1, <2>1 DEF QueryTypes
<1>8. ASSUME NEW p \in PositionType, query.kind = "seek_back",
             \/ query' = [query EXCEPT !.phase = "back", !.at = p]
             \/ query' = [query EXCEPT !.at = p]
      PROVE  QueryTypes' /\ query'.kind = query.kind
  <2>1. /\ query'.kind = query.kind /\ query'.phase \in {query.phase, "back"}
        /\ query'.target = query.target
        /\ query'.lo = query.lo /\ query'.hi = query.hi /\ query'.mid = query.mid
        /\ query'.probe = query.probe /\ query'.total = query.total
        /\ query'.chunks = query.chunks /\ query'.at = p
    BY <1>0, <1>8
  <2>2. query.kind \in DOMAIN Phases /\ "back" \in Phases[query.kind]
    BY <1>8 DEF QueryTypes, Phases
  <2> QED BY <1>1, <2>1, <2>2 DEF QueryTypes, PositionType
<1>9. ASSUME NEW p \in PositionType, query.kind = "seek_back",
             query' = [query EXCEPT !.at = p]
      PROVE  query'.phase = query.phase
  BY <1>0, <1>9
<1> QED BY <1>2, <1>3, <1>4, <1>5, <1>6, <1>7, <1>8, <1>9, Zenon

\* How a scan goes on, fails or ends.
LEMMA ScanTurns ==
    ASSUME ScanTypes, op \in Scans
    PROVE  /\ \A p \in Nat : ScanOn(p) =>
                local' \in LocalType /\ result' \in ResultType /\ op' = op /\ pc' = "peek"
           /\ \A p \in Nat : FailAt(p) =>
                local' \in LocalType /\ result' \in ResultType /\ op' = op /\ pc' = "recover"
           /\ \A r \in ResultType : Return(r) =>
                /\ local' \in LocalType /\ result' \in ResultType
                /\ op' = "none" /\ pc' = "idle"
<1>1. result \in ResultType /\ op # "new" BY DEF ScanTypes, ResultType, Scans
<1>2. \A p \in Nat : ScanOn(p) =>
        local' \in LocalType /\ result' \in ResultType /\ op' = op /\ pc' = "peek"
  BY <1>1, ScanLocals DEF ScanOn, Goto
<1>3. \A p \in Nat : FailAt(p) =>
        local' \in LocalType /\ result' \in ResultType /\ op' = op /\ pc' = "recover"
  BY <1>1, ScanLocals DEF FailAt, Goto
<1>4. \A r \in ResultType : Return(r) =>
        /\ local' \in LocalType /\ result' \in ResultType
        /\ op' = "none" /\ pc' = "idle"
  BY <1>1, ScanLocals DEF Return
<1> QED BY <1>2, <1>3, <1>4

LEMMA TypesCollect ==
    ASSUME ReaderTypesInv, QueryInv, CollectChunks
    PROVE  ReaderTypesInv' /\ query'.kind = query.kind
<1>1. ScanTypes /\ QueryTypes /\ ScanControl BY FieldTypes DEF ReaderTypesInv
<1>2. /\ pc = "peek" /\ op = "collect" /\ query.phase = "collect"
      /\ UNCHANGED <<StillElsewhere, regions, skips, file>>
  BY <1>1 DEF CollectChunks, Elsewhere, StillElsewhere, ScanControl
<1>3. stream_len' \in {stream_len, len}
  BY <1>1, ScanHeader DEF CollectChunks, HeaderIs, HeaderFails
<1> DEFINE i == Header.chunk
<1>4. \/ /\ Header.kind = "chunk" /\ ScanOn(End(Chunk(i)))
         /\ query' = query \/ query' = [query EXCEPT !.chunks = Append(@, i)]
      \/ /\ Return("ok")
         /\ query' = [query EXCEPT !.phase = "chunks", !.hi = Len(query.chunks)]
      \/ FailAt(local.scan_pos) /\ query' = query
  BY DEF CollectChunks, HeaderIs
<1>5. Header.kind = "chunk" => i \in DOMAIN Chunks /\ End(Chunk(i)) \in Nat
  BY <1>1, ScanHeader
<1>6. local.scan_pos \in Nat BY <1>1, ScanHeader
<1> HIDE DEF i
<1>7. /\ local' \in LocalType /\ result' \in ResultType /\ pc' # "payload"
      /\ \/ op' = op /\ pc' \in {"peek", "recover"}
         \/ op' = "none" /\ pc' = "idle"
  <2>1. op \in Scans /\ "ok" \in ResultType BY <1>2 DEF Scans, ResultType
  <2> QED BY <1>1, <1>4, <1>5, <1>6, <2>1, ScanTurns
<1>8. QueryTypes' /\ query'.kind = query.kind
  BY <1>1, <1>2, <1>4, <1>5, QueryMoves
<1>9. op' = op => query'.phase = query.phase
  BY <1>1, <1>2, <1>4, <1>5, QueryMoves DEF Return
<1>10. ScanTypes'
  BY <1>1, <1>2, <1>3, <1>7, ScanStep DEF ScanTypes, RegionType, ResultType, skips
<1> QED BY <1>2, <1>7, <1>8, <1>9, <1>10, ScanMoves DEF Scans

LEMMA TypesCollectRegion ==
    ASSUME ReaderTypesInv, QueryInv, CollectRegion
    PROVE  ReaderTypesInv' /\ query'.kind = query.kind
<1>1. ScanTypes /\ QueryTypes /\ ScanControl BY FieldTypes DEF ReaderTypesInv
<1>2. /\ op = "collect" /\ pc = "region"
      /\ UNCHANGED <<file, recovery, len, current_chunk_begin, current_record_index, pos, last_pos,
                     stream_len, pending_trusted_end, from, delivered, query>>
      /\ last_skipped_region' = Region /\ last_record_is_valid' = FALSE
      /\ current_decoder' = 0 /\ next_chunk_file_pos' = Region.end /\ at_eof' \in BOOLEAN
      /\ regions' = regions \cup {Region}
      /\ Return("error") \/ ScanOn(Region.end)
  BY DEF CollectRegion, ConsumeRegion, queryVars
<1>3. Region \in RegionType /\ Region.end \in Nat BY <1>1, ScanRegionEnd
<1>4. FileType(file') /\ UNCHANGED <<Chunks, lengths>> BY <1>1, <1>2, FileSame DEF ScanTypes
<1>5. /\ local' \in LocalType /\ result' \in ResultType
      /\ \/ op' = op /\ pc' = "peek"
         \/ op' = "none" /\ pc' = "idle"
  <2>1. op \in Scans /\ "error" \in ResultType BY <1>2 DEF Scans, ResultType
  <2> QED BY <1>1, <1>2, <1>3, <2>1, ScanTurns
<1>6. 0 \in 0 .. Len(Chunks) BY <1>1, ScanFacts
<1>7. ScanTypes'
  <2>1. regions' \subseteq RegionType /\ last_skipped_region' \in RegionType
    BY <1>1, <1>2, <1>3 DEF ScanTypes, RegionType
  <2>2. next_chunk_file_pos' \in Nat /\ current_decoder' \in 0 .. Len(Chunks')
        /\ last_record_is_valid' \in BOOLEAN /\ at_eof' \in BOOLEAN
    BY <1>2, <1>3, <1>4, <1>6
  <2>3. LocalType' = LocalType /\ pc' # "payload" BY <1>4, <1>5 DEF LocalType
  <2> QED
    BY <1>1, <1>2, <1>4, <1>5, <2>1, <2>2, <2>3 DEF ScanTypes, LocalType, ResultType, RegionType
<1>8. QueryTypes' BY <1>1, <1>2, QueryMoves
<1> QED BY <1>2, <1>5, <1>7, <1>8, ScanMoves DEF Scans

\* The walk back over chunks without records.
LEMMA TypesBefore ==
    ASSUME ReaderTypesInv, QueryInv, ChunkBefore
    PROVE  ReaderTypesInv' /\ query'.kind = query.kind
<1>1. ScanTypes /\ QueryTypes /\ ScanControl BY FieldTypes DEF ReaderTypesInv
<1>2. /\ pc = "peek" /\ op = "before" /\ query.phase = "before"
      /\ UNCHANGED <<StillElsewhere, regions, skips, file>>
  BY <1>1 DEF ChunkBefore, Elsewhere, StillElsewhere, ScanControl
<1>3. stream_len' \in {stream_len, len}
  BY <1>1, ScanHeader DEF ChunkBefore, HeaderIs, HeaderFails
<1>4. query.kind = "seek_back" BY <1>1, <1>2 DEF QueryTypes, Phases
<1> DEFINE c == Chunk(Header.chunk)
           begin == local.scan_pos
<1>5. \/ Return("ok") /\ Done("first")
      \/ Return("error") /\ query' = query
      \/ Header.kind = "chunk" /\ ScanOn(End(c)) /\ query' = query
      \/ /\ Header.kind = "chunk" /\ c.num_records > 0 /\ Return("ok")
         /\ query' = [query EXCEPT !.phase = "back", !.at = RecordPosition(begin, LastRecord(c))]
      \/ /\ begin > FirstDataChunk /\ FindChunkBefore(begin)
         /\ query' = [query EXCEPT !.at = RecordPosition(begin, 0)]
  BY DEF ChunkBefore, HeaderIs
<1>6. /\ Header.kind = "chunk" => c.num_records \in Nat /\ End(c) \in Nat
      /\ begin \in Nat
  BY <1>1, ScanHeader
<1>7. FirstDataChunk \in Nat BY FirstDataChunkFacts
<1> HIDE DEF c, begin
<1>8. ASSUME begin > FirstDataChunk, FindChunkBefore(begin)
      PROVE  /\ local' \in LocalType /\ result' \in ResultType /\ op' = op /\ pc' = "measure"
  <2>1. begin - 1 \in Nat BY <1>6, <1>7, <1>8
  <2>2. local' \in LocalType BY <1>1, <1>8, <2>1, ScanLocals DEF FindChunkBefore
  <2> QED BY <1>1, <1>2, <1>8, <2>2 DEF FindChunkBefore, ScanTypes, ResultType
<1>9. /\ local' \in LocalType /\ result' \in ResultType
      /\ \/ op' = op /\ pc' \in {"peek", "measure"}
         \/ op' = "none" /\ pc' = "idle"
  <2>1. op \in Scans /\ {"ok", "error"} \subseteq ResultType BY <1>2 DEF Scans, ResultType
  <2> QED BY <1>1, <1>5, <1>6, <1>8, <2>1, ScanTurns
<1>10. ASSUME Header.kind = "chunk", c.num_records > 0
       PROVE  RecordPosition(begin, LastRecord(c)) \in PositionType
  BY <1>6, <1>10 DEF RecordPosition, LastRecord, PositionType
<1>11. RecordPosition(begin, 0) \in PositionType BY <1>6 DEF RecordPosition, PositionType
<1>12. QueryTypes' /\ query'.kind = query.kind
  BY <1>1, <1>2, <1>4, <1>5, <1>10, <1>11, QueryMoves
<1>13. op' = op => query'.phase = query.phase
  BY <1>1, <1>2, <1>4, <1>5, <1>11, QueryMoves DEF Return
<1>14. ScanTypes'
  BY <1>1, <1>2, <1>3, <1>9, ScanStep DEF ScanTypes, RegionType, ResultType, skips
<1> QED BY <1>2, <1>9, <1>12, <1>13, <1>14, ScanMoves DEF Scans

LEMMA TypesCount ==
    ASSUME ReaderTypesInv, QueryInv, CountRecords
    PROVE  ReaderTypesInv' /\ query'.kind = query.kind
<1>1. ScanTypes /\ QueryTypes /\ ScanControl BY FieldTypes DEF ReaderTypesInv
<1>2. /\ pc = "peek" /\ op = "size" /\ query.kind = "size"
      /\ UNCHANGED <<StillElsewhere, regions, skips, file>>
  BY <1>1 DEF CountRecords, Elsewhere, StillElsewhere, ScanControl
<1>3. stream_len' \in {stream_len, len}
  BY <1>1, ScanHeader DEF CountRecords, HeaderIs, HeaderFails
<1> DEFINE c == Chunk(Header.chunk)
           n == query.total + c.num_records
<1>4. \/ /\ Header.kind = "chunk" /\ ScanOn(End(c))
         /\ query' = query \/ query' = [query EXCEPT !.total = n]
      \/ Return("ok") /\ Done("counted")
      \/ FailAt(local.scan_pos) /\ query' = query
  BY DEF CountRecords, HeaderIs
<1>5. /\ Header.kind = "chunk" => n \in Nat /\ End(c) \in Nat
      /\ local.scan_pos \in Nat
  BY <1>1, ScanHeader DEF QueryTypes
<1> HIDE DEF c, n
<1>6. /\ local' \in LocalType /\ result' \in ResultType
      /\ \/ op' = op /\ pc' \in {"peek", "recover"}
         \/ op' = "none" /\ pc' = "idle"
  <2>1. op \in Scans /\ "ok" \in ResultType BY <1>2 DEF Scans, ResultType
  <2> QED BY <1>1, <1>4, <1>5, <2>1, ScanTurns
<1>7. QueryTypes' /\ query'.kind = query.kind
  BY <1>1, <1>2, <1>4, <1>5, QueryMoves
<1>8. op' = op => query'.phase = query.phase
  BY <1>1, <1>2, <1>4, <1>5, QueryMoves DEF Return
<1>9. ScanTypes'
  BY <1>1, <1>2, <1>3, <1>6, ScanStep DEF ScanTypes, RegionType, ResultType, skips
<1> QED BY <1>2, <1>6, <1>7, <1>8, <1>9, ScanMoves DEF Scans

LEMMA TypesReport ==
    ASSUME ReaderTypesInv, QueryInv, ReportOnly
    PROVE  ReaderTypesInv' /\ query'.kind = query.kind
<1>1. ScanTypes /\ QueryTypes /\ ScanControl BY FieldTypes DEF ReaderTypesInv
<1>2. /\ pc = "region" /\ op \in {"size", "metadata"} /\ query.kind # "none"
      /\ UNCHANGED <<StillElsewhere, regions, stream_len, pending_trusted_end, file>>
      /\ last_skipped_region' = Region
  BY <1>1 DEF ReportOnly, Elsewhere, StillElsewhere, ScanControl, QueryInv
<1>3. \/ Return("error") /\ query' = query
      \/ ScanOn(Region.end) /\ query' = [query EXCEPT !.seen = @ \cup {Region}]
      \/ Return("ok") /\ Done("skipped_metadata")
  BY DEF ReportOnly, ResumeScan
<1>4. Region \in RegionType /\ Region.end \in Nat BY <1>1, ScanRegionEnd
<1>5. /\ local' \in LocalType /\ result' \in ResultType
      /\ \/ op' = op /\ pc' = "peek"
         \/ op' = "none" /\ pc' = "idle"
  <2>1. op \in Scans /\ {"ok", "error"} \subseteq ResultType BY <1>2 DEF Scans, ResultType
  <2> QED BY <1>1, <1>3, <1>4, <2>1, ScanTurns
<1>6. QueryTypes' /\ query'.kind = query.kind BY <1>1, <1>2, <1>3, QueryMoves
<1>7. op' = op => query'.phase = query.phase BY <1>1, <1>2, <1>3, QueryMoves DEF Return
<1>8. ScanTypes'
  BY <1>1, <1>2, <1>4, <1>5, ScanStep DEF ScanTypes, RegionType, ResultType
<1> QED BY <1>2, <1>5, <1>6, <1>7, <1>8, ScanMoves DEF Scans

\* Metadata reads and checks.
LEMMA TypesPayload ==
    ASSUME ReaderTypesInv, QueryInv,
           MetadataHeader \/ MetadataPayload \/ CheckHeader \/ CheckData
    PROVE  ReaderTypesInv' /\ query'.kind = query.kind
<1>1. ScanTypes /\ QueryTypes /\ ScanControl BY FieldTypes DEF ReaderTypesInv
<1>2. /\ pc \in {"peek", "payload"} /\ op \in {"metadata", "check"} /\ query.kind # "none"
      /\ UNCHANGED <<StillElsewhere, regions, last_skipped_region, file>>
  BY DEF MetadataHeader, MetadataPayload, CheckHeader, CheckData, Elsewhere, StillElsewhere,
         QueryInv, skips
<1>3. stream_len' \in {stream_len, len}
  BY <1>1, ScanHeader
     DEF MetadataHeader, MetadataPayload, CheckHeader, CheckData, HeaderIs, HeaderFails,
         MetadataUnreadable
<1> DEFINE e == End(Chunk(local.chunk))
           i == Header.chunk
<1>4. ASSUME pc = "payload" PROVE e \in Nat
  <2>1. local.chunk \in DOMAIN Chunks
    BY <1>1, <1>4, ScanFacts DEF ScanTypes, LocalType
  <2> QED BY <1>1, <2>1, ScanFacts, ChunkFacts
<1>5. /\ Header.kind = "chunk" => i \in 0 .. Len(Chunks) /\ i # 0
      /\ local.scan_pos \in Nat /\ FirstDataChunk \in Nat
  BY <1>1, ScanHeader, ScanFacts, FirstDataChunkFacts
<1>6. pending_trusted_end' \in Nat \cup {None}
  BY <1>1, <1>4
     DEF MetadataHeader, MetadataPayload, CheckHeader, CheckData, skips, ScanTypes
<1>7. \/ \E r \in {"ok", "error"} : Return(r) /\ (query' = query \/ \E v : Done(v))
      \/ \E p \in {local.scan_pos, FirstDataChunk} : FailAt(p) /\ query' = query
      \/ pc = "payload" /\ ScanOn(e) /\ query' = query
      \/ /\ Header.kind = "chunk"
         /\ Goto("payload") /\ local' = [local EXCEPT !.chunk = i] /\ query' = query
  BY DEF MetadataHeader, MetadataUnreadable, MetadataPayload, CheckHeader, CheckData, HeaderIs
<1> HIDE DEF e, i
<1>8. op \in Scans /\ {"ok", "error"} \subseteq ResultType BY <1>2 DEF Scans, ResultType
<1>9. CASE /\ Header.kind = "chunk"
           /\ Goto("payload") /\ local' = [local EXCEPT !.chunk = i] /\ query' = query
  <2>1. /\ local' \in LocalType /\ local'.chunk # 0 /\ result' \in ResultType /\ op' = op
    BY <1>1, <1>5, <1>9, ScanLocals DEF Goto, ScanTypes, ResultType
  <2>2. ScanTypes'
    BY <1>1, <1>2, <1>3, <1>6, <2>1, ScanStep DEF ScanTypes, RegionType, ResultType
  <2>3. QueryTypes' BY <1>1, <1>2, <1>9, QueryMoves
  <2> QED BY <1>2, <1>8, <1>9, <2>1, <2>2, <2>3, ScanMoves
<1>10. CASE \/ \E r \in {"ok", "error"} : Return(r) /\ (query' = query \/ \E v : Done(v))
            \/ \E p \in {local.scan_pos, FirstDataChunk} : FailAt(p) /\ query' = query
            \/ pc = "payload" /\ ScanOn(e) /\ query' = query
  <2>1. /\ local' \in LocalType /\ result' \in ResultType
        /\ \/ op' = op /\ pc' \in {"peek", "recover"} /\ query' = query
           \/ op' = "none" /\ pc' = "idle"
    BY <1>1, <1>4, <1>5, <1>8, <1>10, ScanTurns
  <2>2. ScanTypes'
    BY <1>1, <1>2, <1>3, <1>6, <2>1, ScanStep DEF ScanTypes, RegionType, ResultType
  <2>3. QueryTypes' /\ query'.kind = query.kind BY <1>1, <1>2, <1>10, QueryMoves
  <2> QED BY <1>2, <1>8, <2>1, <2>2, <2>3, ScanMoves
<1> QED BY <1>7, <1>9, <1>10

\* A step between two operations of the reader.
LEMMA IdleMoves ==
    ASSUME ReaderTypesInv, TypeInv', op' \notin Scans, QueryTypes',
           query'.kind = "size" => op' = "none"
    PROVE  ReaderTypesInv'
BY DEF ReaderTypesInv, ScanControl, Scans

LEMMA BetweenFacts ==
    ASSUME ReaderTypesInv, QueryInv, pc = "idle"
    PROVE  TypeInv /\ op = "none" /\ QueryTypes /\ ScanTypes
BY FieldTypes DEF ReaderTypesInv, QueryInv, Scans

\* A query seeks.
LEMMA SeekMoves ==
    ASSUME ReaderTypesInv, QueryInv, pc = "idle",
           NEW p \in PositionType, InnerSeek(p), UNCHANGED SeekElsewhere
    PROVE  TypeInv' /\ op' \notin Scans
<1>1. TypeInv /\ op = "none" /\ ScanTypes BY BetweenFacts
<1>2. /\ UNCHANGED <<file, recovery, len, pos, last_pos, last_record_is_valid, stream_len,
                     last_skipped_region, from, delivered, regions>>
  BY DEF SeekElsewhere
<1>3. FileType(file') /\ UNCHANGED <<Chunks, lengths>> BY <1>1, <1>2, FileSame DEF ScanTypes
<1>4. p.chunk_begin \in Nat /\ p.record_index \in Nat BY DEF PositionType
<1>5. 0 \in 0 .. Len(Chunks) BY <1>1, ScanFacts
<1>6. CASE StartSeek(p.chunk_begin, p.record_index)
  <2>1. /\ current_decoder' = 0 /\ at_eof' = FALSE
        /\ next_chunk_file_pos' \in Nat /\ current_chunk_begin' \in Nat
        /\ current_record_index' = 0 /\ pending_trusted_end' = None
        /\ op' = "seek" /\ pc' = "header" /\ result' = result /\ local' \in LocalType
    BY <1>1, <1>4, <1>6, StartSeekFacts
  <2>2. ScanTypes' BY <1>1, <1>2, <1>3, <1>5, <2>1 DEF ScanTypes, LocalType
  <2> QED BY <2>1, <2>2, SeekBegun
<1>7. CASE SeekFails
  <2>1. /\ UNCHANGED <<cursor, at_eof>> /\ pending_trusted_end' = None
        /\ op' = "none" /\ pc' = "idle" /\ result' = "error" /\ local' \in LocalType
    BY <1>1, <1>7, ScanLocals DEF SeekFails, Return
  <2>2. ScanTypes' BY <1>1, <1>2, <1>3, <2>1 DEF ScanTypes, LocalType, cursor
  <2> QED BY <2>1, <2>2, ScanDone
<1> QED BY <1>6, <1>7 DEF InnerSeek

\* The reader is parked.
LEMMA ParkMoves ==
    ASSUME ReaderTypesInv, QueryInv, pc = "idle",
           ParkAtEndOfStream, UNCHANGED <<pending_trusted_end, control, io_errors>>,
           UNCHANGED SeekElsewhere
    PROVE  TypeInv' /\ op' \notin Scans
<1>1. TypeInv /\ op = "none" /\ ScanTypes BY BetweenFacts
<1>2. /\ UNCHANGED <<file, recovery, len, pos, last_pos, last_record_is_valid, stream_len,
                     last_skipped_region, from, delivered, regions, op, pc, local, result,
                     pending_trusted_end>>
  BY DEF SeekElsewhere, control
<1>3. FileType(file') /\ UNCHANGED <<Chunks, lengths>> BY <1>1, <1>2, FileSame DEF ScanTypes
<1>4. Larger(stream_len, FirstDataChunk) \in Nat
  BY <1>1, ScanFacts, FirstDataChunkFacts DEF Larger
<1>5. 0 \in 0 .. Len(Chunks) BY <1>1, ScanFacts
<1>6. /\ current_decoder' = 0 /\ at_eof' = TRUE /\ next_chunk_file_pos' \in Nat
      /\ current_chunk_begin' \in Nat /\ current_record_index' = 0
  BY <1>4 DEF ParkAtEndOfStream
<1>7. ScanTypes' BY <1>1, <1>2, <1>3, <1>5, <1>6 DEF ScanTypes
<1> QED BY <1>1, <1>2, <1>7, ScanDone

\* A step that leaves all of the reader alone.
LEMMA StillMoves ==
    ASSUME ReaderTypesInv, QueryInv, pc = "idle", UNCHANGED SeekElsewhere,
           UNCHANGED <<cursor, at_eof, pending_trusted_end, control>>
    PROVE  TypeInv' /\ op' \notin Scans
<1>1. TypeInv /\ op = "none" /\ ScanTypes BY BetweenFacts
<1>2. /\ UNCHANGED <<file, recovery, len, pos, last_pos, last_record_is_valid, stream_len,
                     last_skipped_region, from, delivered, regions, op, pc, local, result,
                     pending_trusted_end, current_chunk_begin, next_chunk_file_pos,
                     current_decoder, current_record_index, at_eof>>
  BY DEF SeekElsewhere, control, cursor
<1>3. FileType(file') /\ UNCHANGED <<Chunks, lengths>> BY <1>1, <1>2, FileSame DEF ScanTypes
<1>4. ScanTypes' BY <1>1, <1>2, <1>3 DEF ScanTypes
<1> QED BY <1>1, <1>2, <1>4, ScanDone

\* A binary search over chunks goes on.
LEMMA SearchMoves ==
    ASSUME QueryTypes, QueryInv, UNCHANGED file, query.kind = "search"
    PROVE  /\ \A mid, probe \in Nat, at \in PositionType :
                /\ query.phase \in {"chunks", "chunk_read"} /\ query.lo <= mid
                /\ mid <= probe /\ probe < query.hi
                /\ query' = [query EXCEPT !.phase = "chunk_sought", !.mid = mid,
                                          !.probe = probe, !.at = at]
                => QueryTypes' /\ query'.kind = "search"
           /\ \A mid \in Nat, at \in PositionType :
                /\ query.phase = "records"
                /\ query' = [query EXCEPT !.phase = "record_sought", !.mid = mid, !.at = at]
                => QueryTypes' /\ query'.kind = "search"
           /\ \A lo, hi \in Nat :
                /\ query.phase = "chunk_read" /\ lo <= hi /\ hi <= Len(query.chunks)
                /\ query' = [query EXCEPT !.lo = lo, !.hi = hi, !.phase = "chunks"]
                => QueryTypes' /\ query'.kind = "search"
           /\ \A lo, hi \in Nat :
                /\ query.phase = "record_read"
                /\ query' = [query EXCEPT !.lo = lo, !.hi = hi, !.phase = "records"]
                => QueryTypes' /\ query'.kind = "search"
           /\ \A probe, hi \in Nat :
                /\ probe < Len(query.chunks)
                /\ query' = [query EXCEPT !.phase = "records", !.probe = probe, !.lo = 1,
                                          !.hi = hi]
                => QueryTypes' /\ query'.kind = "search"
           /\ /\ query.phase \in {"chunk_sought", "record_sought"}
              /\ Phase(IF query.phase = "chunk_sought" THEN "chunk_read" ELSE "record_read")
              => QueryTypes' /\ query'.kind = "search"
           /\ Phase("found") => QueryTypes' /\ query'.kind = "search"
<1>0. DOMAIN query = {"kind", "phase", "value", "target", "chunks", "lo", "hi", "mid", "probe",
                      "at", "total", "position", "since", "seen"}
  BY NoQueryFields DEF QueryInv
<1>1. UNCHANGED Chunks BY FileSame
<1> DEFINE Searching == {"collect", "chunks", "chunk_sought", "chunk_read", "records",
                         "record_sought", "record_read", "found", "done"}
<1>2. Phases["search"] = Searching /\ "search" \in DOMAIN Phases BY DEF Phases
<1>3. query.chunks \in Seq(DOMAIN Chunks) /\ Len(query.chunks) \in Nat BY DEF QueryTypes
<1>4. ASSUME NEW mid \in Nat, NEW probe \in Nat, NEW at \in PositionType,
             query.phase \in {"chunks", "chunk_read"}, query.lo <= mid,
             mid <= probe, probe < query.hi,
             query' = [query EXCEPT !.phase = "chunk_sought", !.mid = mid,
                                    !.probe = probe, !.at = at]
      PROVE  QueryTypes' /\ query'.kind = "search"
  <2>1. /\ query'.kind = "search" /\ query'.phase = "chunk_sought"
        /\ query'.target = query.target
        /\ query'.lo = query.lo /\ query'.hi = query.hi /\ query'.mid = mid
        /\ query'.probe = probe /\ query'.total = query.total
        /\ query'.chunks = query.chunks /\ query'.at = at
    BY <1>0, <1>4
  <2> QED BY <1>1, <1>2, <1>4, <2>1 DEF QueryTypes, PositionType
<1>5. ASSUME NEW mid \in Nat, NEW at \in PositionType, query.phase = "records",
             query' = [query EXCEPT !.phase = "record_sought", !.mid = mid, !.at = at]
      PROVE  QueryTypes' /\ query'.kind = "search"
  <2>1. /\ query'.kind = "search" /\ query'.phase = "record_sought"
        /\ query'.target = query.target
        /\ query'.lo = query.lo /\ query'.hi = query.hi /\ query'.mid = mid
        /\ query'.probe = query.probe /\ query'.total = query.total
        /\ query'.chunks = query.chunks /\ query'.at = at
    BY <1>0, <1>5
  <2> QED BY <1>1, <1>2, <1>5, <2>1 DEF QueryTypes, PositionType
<1>6. ASSUME NEW lo \in Nat, NEW hi \in Nat, NEW phase \in {"chunks", "records"},
             \/ /\ query.phase = "chunk_read" /\ phase = "chunks"
                /\ lo <= hi /\ hi <= Len(query.chunks)
             \/ query.phase = "record_read" /\ phase = "records",
             query' = [query EXCEPT !.lo = lo, !.hi = hi, !.phase = phase]
      PROVE  QueryTypes' /\ query'.kind = "search"
  <2>1. /\ query'.kind = "search" /\ query'.phase = phase /\ query'.target = query.target
        /\ query'.lo = lo /\ query'.hi = hi /\ query'.mid = query.mid
        /\ query'.probe = query.probe /\ query'.total = query.total
        /\ query'.chunks = query.chunks /\ query'.at = query.at
    BY <1>0, <1>6
  <2> QED BY <1>1, <1>2, <1>6, <2>1 DEF QueryTypes
<1>7. ASSUME NEW probe \in Nat, NEW hi \in Nat, probe < Len(query.chunks),
             query' = [query EXCEPT !.phase = "records", !.probe = probe, !.lo = 1, !.hi = hi]
      PROVE  QueryTypes' /\ query'.kind = "search"
  <2>1. /\ query'.kind = "search" /\ query'.phase = "records" /\ query'.target = query.target
        /\ query'.lo = 1 /\ query'.hi = hi /\ query'.mid = query.mid
        /\ query'.probe = probe /\ query'.total = query.total
        /\ query'.chunks = query.chunks /\ query'.at = query.at
    BY <1>0, <1>7
  <2> QED BY <1>1, <1>2, <1>7, <2>1 DEF QueryTypes
<1>8. ASSUME NEW phase,
             \/ query.phase = "chunk_sought" /\ phase = "chunk_read"
             \/ query.phase = "record_sought" /\ phase = "record_read"
             \/ phase = "found",
             query' = [query EXCEPT !.phase = phase]
      PROVE  QueryTypes' /\ query'.kind = "search"
  <2>1. /\ query'.kind = "search" /\ query'.phase = phase /\ query'.target = query.target
        /\ query'.lo = query.lo /\ query'.hi = query.hi /\ query'.mid = query.mid
        /\ query'.probe = query.probe /\ query'.total = query.total
        /\ query'.chunks = query.chunks /\ query'.at = query.at
    BY <1>0, <1>8
  <2> QED BY <1>1, <1>2, <1>8, <2>1 DEF QueryTypes
<1>9. /\ \A lo, hi \in Nat :
           /\ query.phase = "chunk_read" /\ lo <= hi /\ hi <= Len(query.chunks)
           /\ query' = [query EXCEPT !.lo = lo, !.hi = hi, !.phase = "chunks"]
           => QueryTypes' /\ query'.kind = "search"
      /\ \A lo, hi \in Nat :
           /\ query.phase = "record_read"
           /\ query' = [query EXCEPT !.lo = lo, !.hi = hi, !.phase = "records"]
           => QueryTypes' /\ query'.kind = "search"
  BY <1>6
<1>10. /\ /\ query.phase \in {"chunk_sought", "record_sought"}
          /\ Phase(IF query.phase = "chunk_sought" THEN "chunk_read" ELSE "record_read")
          => QueryTypes' /\ query'.kind = "search"
       /\ Phase("found") => QueryTypes' /\ query'.kind = "search"
  BY <1>8 DEF Phase
<1> QED BY <1>4, <1>5, <1>7, <1>9, <1>10, Zenon

\* The phases belong to their queries.
LEMMA PhaseKinds ==
    ASSUME QueryTypes
    PROVE  /\ query.phase \in {"chunks", "chunk_sought", "chunk_read", "records",
                               "record_sought", "record_read", "found"} => query.kind = "search"
           /\ query.phase \in {"back", "stepped"} => query.kind = "seek_back"
           /\ query.phase # "none" => query.kind # "none"
           /\ query.kind # "none" => query.phase # "none"
BY DEF QueryTypes, Phases

LEMMA PositionTyped ==
    ASSUME QueryTypes, NEW i \in Nat, NEW k \in Nat, i < Len(query.chunks), FileType(file)
    PROVE  Position(i, k) \in PositionType
<1>1. query.chunks \in Seq(DOMAIN Chunks) BY DEF QueryTypes
<1>2. query.chunks[i + 1] \in DOMAIN Chunks
  <2> DEFINE S == DOMAIN Chunks
  <2>1. query.chunks \in Seq(S) BY <1>1
  <2> HIDE DEF S
  <2>2. query.chunks[i + 1] \in S BY <2>1
  <2> QED BY <2>2 DEF S
<1>3. Chunk(query.chunks[i + 1]).begin \in Nat BY <1>2, ChunkFacts
<1> QED BY <1>3 DEF Position, RecordPosition, PositionType

\* What a phase of search or seek_back does to the reader, and to the query.
PhaseMove ==
    /\ TypeInv' /\ op' \notin Scans /\ QueryTypes'
    /\ query'.kind = query.kind

LEMMA PhaseMoved ==
    ASSUME ReaderTypesInv, query.kind \in {"search", "seek_back"}, PhaseMove
    PROVE  ReaderTypesInv' /\ query'.kind = query.kind
BY IdleMoves DEF PhaseMove

\* Ways in which a phase ends.
LEMMA PhaseWays ==
    ASSUME ReaderTypesInv, QueryInv, pc = "idle", query.kind \in {"search", "seek_back"},
           UNCHANGED SeekElsewhere
    PROVE  /\ Absent => PhaseMove
           /\ \A v : Done(v) /\ UNCHANGED vars => PhaseMove
           /\ \A lo, hi \in Nat :
                /\ Narrow(lo, hi, "chunks") /\ query.phase = "chunk_read"
                /\ lo <= hi /\ hi <= Len(query.chunks)
                => PhaseMove
           /\ \A lo, hi \in Nat :
                Narrow(lo, hi, "records") /\ query.phase = "record_read" => PhaseMove
           /\ PivotEqual /\ query.kind = "search" => PhaseMove
<1>1. TypeInv /\ op = "none" /\ QueryTypes /\ ScanTypes BY BetweenFacts
<1>2. UNCHANGED file BY DEF SeekElsewhere
<1>3. ASSUME Absent PROVE PhaseMove
  <2>1. TypeInv' /\ op' \notin Scans BY <1>3, ParkMoves DEF Absent
  <2>2. QueryTypes' /\ query'.kind = query.kind BY <1>1, <1>2, <1>3, QueryMoves DEF Absent
  <2> QED BY <2>1, <2>2 DEF PhaseMove
<1>4. ASSUME NEW v, Done(v), UNCHANGED vars PROVE PhaseMove
  <2>1. TypeInv' /\ op' \notin Scans BY <1>4, StillMoves DEF vars, flags, skips
  <2>2. QueryTypes' /\ query'.kind = query.kind BY <1>1, <1>2, <1>4, QueryMoves
  <2> QED BY <2>1, <2>2 DEF PhaseMove
<1>5. ASSUME NEW lo \in Nat, NEW hi \in Nat, Narrow(lo, hi, "chunks"),
             query.phase = "chunk_read", lo <= hi, hi <= Len(query.chunks)
      PROVE  PhaseMove
  <2>1. TypeInv' /\ op' \notin Scans BY <1>5, StillMoves DEF Narrow
  <2>2. query.kind = "search" BY <1>1, <1>5, PhaseKinds
  <2>3. query' = [query EXCEPT !.lo = lo, !.hi = hi, !.phase = "chunks"] BY <1>5 DEF Narrow
  <2>4. QueryTypes' /\ query'.kind = query.kind BY <1>1, <1>2, <1>5, <2>2, <2>3, SearchMoves
  <2> QED BY <2>1, <2>4 DEF PhaseMove
<1>6. ASSUME NEW lo \in Nat, NEW hi \in Nat, Narrow(lo, hi, "records"),
             query.phase = "record_read"
      PROVE  PhaseMove
  <2>1. TypeInv' /\ op' \notin Scans BY <1>6, StillMoves DEF Narrow
  <2>2. query.kind = "search" BY <1>1, <1>6, PhaseKinds
  <2>3. query' = [query EXCEPT !.lo = lo, !.hi = hi, !.phase = "records"] BY <1>6 DEF Narrow
  <2>4. QueryTypes' /\ query'.kind = query.kind BY <1>1, <1>2, <1>6, <2>2, <2>3, SearchMoves
  <2> QED BY <2>1, <2>4 DEF PhaseMove
<1>7. ASSUME PivotEqual, query.kind = "search" PROVE PhaseMove
  <2>1. query.at \in PositionType BY <1>1 DEF QueryTypes, PositionType
  <2>2. TypeInv' /\ op' \notin Scans BY <1>7, <2>1, SeekMoves DEF PivotEqual
  <2>3. QueryTypes' /\ query'.kind = query.kind BY <1>1, <1>2, <1>7, SearchMoves DEF PivotEqual
  <2> QED BY <2>2, <2>3 DEF PhaseMove
<1> QED BY <1>3, <1>4, <1>5, <1>6, <1>7

\* The binary search over chunks.
LEMMA TypesSearchChunks ==
    ASSUME ReaderTypesInv, QueryInv, SearchChunks
    PROVE  ReaderTypesInv' /\ query'.kind = query.kind
<1>0. DOMAIN query = {"kind", "phase", "value", "target", "chunks", "lo", "hi", "mid", "probe",
                      "at", "total", "position", "since", "seen"}
  BY NoQueryFields DEF QueryInv
<1>1. /\ pc = "idle" /\ query.phase = "chunks" /\ UNCHANGED SeekElsewhere
  BY DEF SearchChunks, Resumed
<1>2. TypeInv /\ op = "none" /\ QueryTypes /\ ScanTypes /\ query.kind = "search"
  BY <1>1, BetweenFacts, PhaseKinds
<1>3. UNCHANGED file /\ FileType(file) BY <1>1, <1>2, ScanFacts DEF SeekElsewhere
<1>4. /\ query.lo \in Nat /\ query.hi \in Nat /\ query.lo <= query.hi
      /\ query.hi <= Len(query.chunks) /\ query.chunks \in Seq(DOMAIN Chunks)
      /\ Len(query.chunks) \in Nat
  BY <1>1, <1>2 DEF QueryTypes
<1> DEFINE mid == query.lo + ((query.hi - query.lo) \div 2)
           n == Chunk(query.chunks[query.lo]).num_records
<1>5. \/ /\ query.lo < query.hi
         /\ ReadRecordAt(Position(mid, 0), [query EXCEPT
              !.phase = "chunk_sought", !.mid = mid, !.probe = mid])
      \/ /\ query.lo > 0 /\ UNCHANGED <<cursor, at_eof, pending_trusted_end, control, io_errors>>
         /\ query' = [query EXCEPT !.phase = "records", !.probe = query.lo - 1, !.lo = 1, !.hi = n]
      \/ Absent
  BY DEF SearchChunks
<1>6. query.lo < query.hi => mid \in Nat /\ query.lo <= mid /\ mid < query.hi BY <1>4
<1>7. query.lo > 0 => n \in Nat
  <2>1. SUFFICES ASSUME query.lo > 0 PROVE n \in Nat OBVIOUS
  <2>2. query.chunks[query.lo] \in DOMAIN Chunks
    <3> DEFINE S == DOMAIN Chunks
    <3>1. query.chunks \in Seq(S) BY <1>4
    <3> HIDE DEF S
    <3>2. query.chunks[query.lo] \in S BY <1>4, <2>1, <3>1
    <3> QED BY <3>2 DEF S
  <2> QED BY <1>3, <2>2, ChunkFacts
<1> HIDE DEF mid, n
<1>8. CASE /\ query.lo < query.hi
           /\ ReadRecordAt(Position(mid, 0), [query EXCEPT
                !.phase = "chunk_sought", !.mid = mid, !.probe = mid])
  <2> DEFINE p == Position(mid, 0)
  <2>1. p \in PositionType BY <1>2, <1>3, <1>4, <1>6, <1>8, PositionTyped
  <2> HIDE DEF p
  <2>2. /\ InnerSeek(p)
        /\ query' = [query EXCEPT !.phase = "chunk_sought", !.mid = mid, !.probe = mid, !.at = p]
    BY <1>0, <1>8 DEF ReadRecordAt, p
  <2>3. TypeInv' /\ op' \notin Scans BY <1>1, <2>1, <2>2, SeekMoves
  <2>4. QueryTypes' /\ query'.kind = "search"
    <3>1. /\ mid \in Nat /\ query.lo <= mid /\ mid <= mid /\ mid < query.hi
          /\ query.phase \in {"chunks", "chunk_read"}
      BY <1>1, <1>6, <1>8
    <3> QED BY <1>2, <1>3, <2>1, <2>2, <3>1, SearchMoves
  <2> QED BY <1>2, <2>3, <2>4, PhaseMoved DEF PhaseMove
<1>9. CASE /\ query.lo > 0 /\ UNCHANGED <<cursor, at_eof, pending_trusted_end, control, io_errors>>
           /\ query' = [query EXCEPT !.phase = "records", !.probe = query.lo - 1,
                                     !.lo = 1, !.hi = n]
  <2>1. TypeInv' /\ op' \notin Scans BY <1>1, <1>9, StillMoves
  <2> DEFINE probe == query.lo - 1
  <2>2. probe \in Nat /\ probe < Len(query.chunks) BY <1>4, <1>9
  <2> HIDE DEF probe
  <2>3. query' = [query EXCEPT !.phase = "records", !.probe = probe, !.lo = 1, !.hi = n]
    BY <1>9 DEF probe
  <2>4. QueryTypes' /\ query'.kind = "search"
    BY <1>2, <1>3, <1>7, <1>9, <2>2, <2>3, SearchMoves
  <2> QED BY <1>2, <2>1, <2>4, PhaseMoved DEF PhaseMove
<1>10. CASE Absent BY <1>1, <1>2, <1>10, PhaseWays, PhaseMoved
<1> QED BY <1>5, <1>8, <1>9, <1>10

LEMMA TypesJudgeChunk ==
    ASSUME ReaderTypesInv, QueryInv, JudgeChunk
    PROVE  ReaderTypesInv' /\ query'.kind = query.kind
<1>0. DOMAIN query = {"kind", "phase", "value", "target", "chunks", "lo", "hi", "mid", "probe",
                      "at", "total", "position", "since", "seen"}
  BY NoQueryFields DEF QueryInv
<1>1. /\ pc = "idle" /\ query.phase = "chunk_read" /\ UNCHANGED SeekElsewhere
  BY DEF JudgeChunk, Resumed
<1>2. TypeInv /\ op = "none" /\ QueryTypes /\ ScanTypes /\ query.kind = "search"
  BY <1>1, BetweenFacts, PhaseKinds
<1>3. UNCHANGED file /\ FileType(file) BY <1>1, <1>2, ScanFacts DEF SeekElsewhere
<1>4. /\ query.lo \in Nat /\ query.hi \in Nat /\ query.mid \in Nat /\ query.probe \in Nat
      /\ query.lo <= query.mid /\ query.mid <= query.probe /\ query.probe < query.hi
      /\ query.hi <= Len(query.chunks) /\ Len(query.chunks) \in Nat
  BY <1>1, <1>2 DEF QueryTypes
<1> DEFINE next == query.probe + 1
<1>5. \/ /\ next < query.hi
         /\ ReadRecordAt(Position(next, 0), [query EXCEPT !.phase = "chunk_sought", !.probe = next])
      \/ Narrow(query.lo, query.mid, "chunks")
      \/ Narrow(next, query.hi, "chunks")
      \/ PivotEqual
  BY DEF JudgeChunk, Unordered
<1>6. next \in Nat /\ next <= query.hi /\ query.mid <= next BY <1>4
<1> HIDE DEF next
<1>7. CASE /\ next < query.hi
           /\ ReadRecordAt(Position(next, 0),
                           [query EXCEPT !.phase = "chunk_sought", !.probe = next])
  <2> DEFINE p == Position(next, 0)
             mid == query.mid
  <2>1. p \in PositionType BY <1>2, <1>3, <1>4, <1>6, <1>7, PositionTyped
  <2> HIDE DEF p
  <2>2. InnerSeek(p) BY <1>7 DEF ReadRecordAt, p
  <2>3. query' = [query EXCEPT !.phase = "chunk_sought", !.mid = mid, !.probe = next, !.at = p]
    <3>1. query' = [[query EXCEPT !.phase = "chunk_sought", !.probe = next] EXCEPT !.at = p]
      BY <1>7 DEF ReadRecordAt, p
    <3> QED BY <1>0, <3>1
  <2>4. mid \in Nat /\ query.lo <= mid /\ mid <= next BY <1>4, <1>6
  <2> HIDE DEF mid
  <2>5. TypeInv' /\ op' \notin Scans BY <1>1, <2>1, <2>2, SeekMoves
  <2>6. QueryTypes' /\ query'.kind = "search"
    BY <1>1, <1>2, <1>3, <1>6, <1>7, <2>1, <2>3, <2>4, SearchMoves
  <2> QED BY <1>2, <2>5, <2>6, PhaseMoved DEF PhaseMove
<1>8. CASE Narrow(query.lo, query.mid, "chunks")
  <2>1. query.lo <= query.mid /\ query.mid <= Len(query.chunks) BY <1>4
  <2> QED BY <1>1, <1>2, <1>4, <1>8, <2>1, PhaseWays, PhaseMoved
<1>9. CASE Narrow(next, query.hi, "chunks")
  BY <1>1, <1>2, <1>4, <1>6, <1>9, PhaseWays, PhaseMoved
<1>10. CASE PivotEqual BY <1>1, <1>2, <1>10, PhaseWays, PhaseMoved
<1> QED BY <1>5, <1>7, <1>8, <1>9, <1>10

\* The binary search within a chunk.
LEMMA TypesSearchRecords ==
    ASSUME ReaderTypesInv, QueryInv, SearchRecords \/ JudgeRecord
    PROVE  ReaderTypesInv' /\ query'.kind = query.kind
<1>0. DOMAIN query = {"kind", "phase", "value", "target", "chunks", "lo", "hi", "mid", "probe",
                      "at", "total", "position", "since", "seen"}
  BY NoQueryFields DEF QueryInv
<1>1. /\ pc = "idle" /\ query.phase \in {"records", "record_read"} /\ UNCHANGED SeekElsewhere
  BY DEF SearchRecords, JudgeRecord, Resumed
<1>2. TypeInv /\ op = "none" /\ QueryTypes /\ ScanTypes /\ query.kind = "search"
  BY <1>1, BetweenFacts, PhaseKinds
<1>3. UNCHANGED file /\ FileType(file) BY <1>1, <1>2, ScanFacts DEF SeekElsewhere
<1>4. /\ query.lo \in Nat /\ query.hi \in Nat /\ query.mid \in Nat /\ query.probe \in Nat
      /\ query.probe < Len(query.chunks)
  BY <1>1, <1>2 DEF QueryTypes
<1> DEFINE mid == query.lo + ((query.hi - query.lo) \div 2)
<1>5. \/ /\ query.lo < query.hi /\ query.phase = "records"
         /\ ReadRecordAt(Position(query.probe, mid), [query EXCEPT
              !.phase = "record_sought", !.mid = mid])
      \/ Absent \/ PivotEqual
      \/ query.phase = "record_read" /\ Narrow(query.mid + 1, query.hi, "records")
      \/ query.phase = "record_read" /\ Narrow(query.lo, query.mid, "records")
  BY DEF SearchRecords, JudgeRecord
<1>6. query.lo < query.hi => mid \in Nat BY <1>4
<1> HIDE DEF mid
<1>7. CASE /\ query.lo < query.hi /\ query.phase = "records"
           /\ ReadRecordAt(Position(query.probe, mid), [query EXCEPT
                !.phase = "record_sought", !.mid = mid])
  <2> DEFINE p == Position(query.probe, mid)
  <2>1. p \in PositionType BY <1>2, <1>3, <1>4, <1>6, <1>7, PositionTyped
  <2> HIDE DEF p
  <2>2. /\ InnerSeek(p)
        /\ query' = [query EXCEPT !.phase = "record_sought", !.mid = mid, !.at = p]
    BY <1>0, <1>7 DEF ReadRecordAt, p
  <2>3. TypeInv' /\ op' \notin Scans BY <1>1, <2>1, <2>2, SeekMoves
  <2>4. QueryTypes' /\ query'.kind = "search"
    BY <1>2, <1>3, <1>6, <1>7, <2>1, <2>2, SearchMoves
  <2> QED BY <1>2, <2>3, <2>4, PhaseMoved DEF PhaseMove
<1>8. CASE Absent \/ PivotEqual BY <1>1, <1>2, <1>8, PhaseWays, PhaseMoved
<1>9. query.mid + 1 \in Nat BY <1>4
<1>10. CASE \/ query.phase = "record_read" /\ Narrow(query.mid + 1, query.hi, "records")
            \/ query.phase = "record_read" /\ Narrow(query.lo, query.mid, "records")
  BY <1>1, <1>2, <1>4, <1>9, <1>10, PhaseWays, PhaseMoved
<1> QED BY <1>5, <1>7, <1>8, <1>10

\* The pivot is read, a step back made, a query ends.
LEMMA TypesPhases ==
    ASSUME ReaderTypesInv, QueryInv,
           \/ ReadPivot \/ Found \/ StepBack \/ SteppedBack \/ QueryFailed \/ Finish
    PROVE  ReaderTypesInv' /\ query'.kind \in {query.kind, "none"}
<1>0. DOMAIN query = {"kind", "phase", "value", "target", "chunks", "lo", "hi", "mid", "probe",
                      "at", "total", "position", "since", "seen"}
  BY NoQueryFields DEF QueryInv
<1>1. pc = "idle"
  BY DEF ReadPivot, Found, StepBack, SteppedBack, QueryFailed, Finish, Resumed
<1>2. TypeInv /\ op = "none" /\ QueryTypes /\ ScanTypes BY <1>1, BetweenFacts
<1>3. CASE ReadPivot
  <2>1. /\ query.phase \in {"chunk_sought", "record_sought"} /\ query.kind = "search"
        /\ UNCHANGED file /\ op' = "read_record"
    BY <1>2, <1>3, PhaseKinds DEF ReadPivot, ReadRecord
  <2>2. TypeInv' BY <1>2, <1>3, ReadRecordType DEF ReadPivot
  <2>3. QueryTypes' /\ query'.kind = "search"
    BY <1>2, <1>3, <2>1, SearchMoves DEF ReadPivot
  <2> QED BY <2>1, <2>2, <2>3, IdleMoves DEF Scans
<1>4. CASE StepBack
  <2>1. query.kind = "seek_back" /\ UNCHANGED SeekElsewhere /\ UNCHANGED file
    BY <1>2, <1>4, PhaseKinds DEF StepBack, SeekElsewhere
  <2>2. query.at \in PositionType BY <1>2 DEF QueryTypes, PositionType
  <2>3. TypeInv' /\ op' \notin Scans BY <1>1, <1>4, <2>1, <2>2, SeekMoves DEF StepBack
  <2>4. QueryTypes' /\ query'.kind = query.kind
    <3>1. query' = [query EXCEPT !.phase = "stepped"] BY <1>4 DEF StepBack, Phase
    <3>2. /\ query'.kind = "seek_back" /\ query'.phase = "stepped"
          /\ query'.target = query.target
          /\ query'.lo = query.lo /\ query'.hi = query.hi /\ query'.mid = query.mid
          /\ query'.probe = query.probe /\ query'.total = query.total
          /\ query'.chunks = query.chunks /\ query'.at = query.at
      BY <1>0, <2>1, <3>1
    <3>3. "seek_back" \in DOMAIN Phases /\ "stepped" \in Phases["seek_back"] BY DEF Phases
    <3>4. UNCHANGED Chunks BY <2>1, FileSame
    <3> QED BY <1>2, <2>1, <3>2, <3>3, <3>4 DEF QueryTypes
  <2> QED BY <2>1, <2>3, <2>4, IdleMoves
<1>5. CASE Found \/ SteppedBack \/ QueryFailed
  <2>1. /\ query.kind # "none" /\ UNCHANGED vars /\ \E v : Done(v)
        /\ UNCHANGED <<vars, queries>>
    BY <1>2, <1>5, PhaseKinds DEF Found, SteppedBack, QueryFailed
  <2>2. TypeInv' /\ op' \notin Scans /\ UNCHANGED file
    <3>1. UNCHANGED SeekElsewhere /\ UNCHANGED <<cursor, at_eof, pending_trusted_end, control>>
      BY <2>1 DEF vars, flags, skips, history, SeekElsewhere
    <3> QED BY <1>1, <3>1, StillMoves DEF SeekElsewhere
  <2>3. QueryTypes' /\ query'.kind = query.kind BY <1>2, <2>1, <2>2, QueryMoves
  <2>4. op' = "none" BY <1>2, <2>1 DEF vars, control
  <2> QED BY <2>2, <2>3, <2>4, IdleMoves
<1>6. CASE Finish
  <2>1. /\ UNCHANGED <<file, recovery, len, cursor, pos, last_pos, flags, stream_len, skips,
                       control>>
        /\ query' = NoQuery
        /\ from' \in {from, Larger(stream_len, FirstDataChunk), Cursor}
        /\ delivered' \in {delivered, {}} /\ regions' \in {regions, {}}
    BY <1>6 DEF Finish
  <2>2. FileType(file') /\ UNCHANGED <<Chunks, lengths>> BY <1>2, <2>1, FileSame DEF ScanTypes
  <2>3. from' \in Nat
    BY <1>2, <2>1, ScanFacts, FirstDataChunkFacts DEF ScanTypes, Larger
  <2>4. delivered' \subseteq Nat /\ regions' \subseteq RegionType
    BY <1>2, <2>1 DEF ScanTypes, RegionType
  <2>5. ScanTypes'
    BY <1>2, <2>1, <2>2, <2>3, <2>4
       DEF ScanTypes, RegionType, cursor, flags, skips, control
  <2>6. op' = "none" /\ pc' = "idle" BY <1>1, <1>2, <2>1 DEF control
  <2>7. QueryTypes' /\ query'.kind = "none"
    BY <2>1 DEF QueryTypes, NoQuery, Phases, RecordPosition
  <2> QED BY <2>5, <2>6, <2>7, ScanDone, IdleMoves
<1> QED BY <1>3, <1>4, <1>5, <1>6

LEMMA EmptyIn == ASSUME NEW S PROVE <<>> \in Seq(S)
OBVIOUS

LEMMA FreshTypes ==
    ASSUME query'.kind \in DOMAIN Phases, query'.phase \in Phases[query'.kind],
           query'.phase \in {"collect", "before", "back", "scan", "done"},
           query'.target \in Nat, query'.lo = 0, query'.hi = 0, query'.mid = 0,
           query'.probe = 0, query'.total = 0, query'.chunks = <<>>,
           query'.at \in PositionType
    PROVE  QueryTypes'
<1>1. query'.chunks \in Seq(DOMAIN Chunks') BY EmptyIn
<1> QED BY <1>1 DEF QueryTypes, PositionType

\* A query that has been asked.
LEMMA AskedTypes ==
    ASSUME NEW kind \in {"search", "seek_back", "size", "metadata", "check"},
           NEW phase \in {"collect", "before", "back", "scan", "done"}, phase \in Phases[kind],
           NEW sought \in Nat, NEW at \in PositionType,
           \/ query' = [Ask(kind) EXCEPT !.phase = phase] /\ at = RecordPosition(0, 0)
           \/ /\ query' = [Ask(kind) EXCEPT !.phase = phase, !.target = sought]
              /\ at = RecordPosition(0, 0)
           \/ query' = [Ask(kind) EXCEPT !.phase = phase, !.at = at]
           \/ /\ at = RecordPosition(0, 0)
              /\ \E value : query' = [Ask(kind) EXCEPT !.phase = phase, !.value = value]
    PROVE  QueryTypes' /\ query'.kind = kind /\ query'.phase = phase /\ query'.total = 0
<1> DEFINE q == Ask(kind)
<1>1. DOMAIN q = {"kind", "phase", "value", "target", "chunks", "lo", "hi", "mid", "probe",
                  "at", "total", "position", "since", "seen"}
  BY AskFields, NoQueryFields
<1>2. /\ q.target = 0 /\ q.lo = 0 /\ q.hi = 0 /\ q.mid = 0 /\ q.probe = 0
      /\ q.total = 0 /\ q.chunks = <<>> /\ q.kind = kind /\ q.at = RecordPosition(0, 0)
  BY DEF Ask, NoQuery
<1> HIDE DEF q
<1>3. \/ query' = [q EXCEPT !.phase = phase] /\ at = RecordPosition(0, 0)
      \/ query' = [q EXCEPT !.phase = phase, !.target = sought] /\ at = RecordPosition(0, 0)
      \/ query' = [q EXCEPT !.phase = phase, !.at = at]
      \/ /\ at = RecordPosition(0, 0)
         /\ \E value : query' = [q EXCEPT !.phase = phase, !.value = value]
  BY DEF q
<1>4. /\ query'.target \in Nat /\ query'.lo = 0 /\ query'.hi = 0 /\ query'.mid = 0
      /\ query'.probe = 0 /\ query'.total = 0 /\ query'.chunks = <<>> /\ query'.kind = kind
      /\ query'.phase = phase /\ query'.at = at
  <2>0. 0 \in Nat /\ sought \in Nat OBVIOUS
  <2>1. CASE query' = [q EXCEPT !.phase = phase] /\ at = RecordPosition(0, 0)
    BY <1>1, <1>2, <2>0, <2>1
  <2>2. CASE query' = [q EXCEPT !.phase = phase, !.target = sought] /\ at = RecordPosition(0, 0)
    BY <1>1, <1>2, <2>0, <2>2
  <2>3. CASE query' = [q EXCEPT !.phase = phase, !.at = at] BY <1>1, <1>2, <2>0, <2>3
  <2>4. CASE /\ at = RecordPosition(0, 0)
             /\ \E value : query' = [q EXCEPT !.phase = phase, !.value = value]
    <3>1. PICK value : query' = [q EXCEPT !.phase = phase, !.value = value] BY <2>4
    <3> QED BY <1>1, <1>2, <2>0, <2>4, <3>1
  <2> QED BY <1>3, <2>1, <2>2, <2>3, <2>4
<1>5. kind \in DOMAIN Phases BY DEF Phases
<1>6. query'.kind \in DOMAIN Phases /\ query'.phase \in Phases[query'.kind] BY <1>4, <1>5
<1> QED BY <1>4, <1>6, FreshTypes

LEMMA TypesBegin ==
    ASSUME ReaderTypesInv, QueryInv,
           Search \/ SeekBack \/ Size \/ ReadMetadata \/ CheckFileFormat
    PROVE  ReaderTypesInv'
<1>1. pc = "idle" /\ query.kind = "none"
  BY DEF Search, SeekBack, Size, ReadMetadata, CheckFileFormat, MayAsk
<1>2. TypeInv /\ op = "none" /\ QueryTypes /\ ScanTypes BY <1>1, BetweenFacts
<1>3. /\ UNCHANGED StillElsewhere /\ regions' \in {regions, {}} /\ stream_len' = stream_len
      /\ UNCHANGED last_skipped_region /\ pending_trusted_end' \in {pending_trusted_end, None}
  BY DEF Search, SeekBack, Size, ReadMetadata, CheckFileFormat, Elsewhere, skips
<1>4. /\ FirstDataChunk \in Nat /\ BlockHeaderSize \in Nat /\ current_chunk_begin \in Nat
      /\ current_record_index \in Nat /\ RecordPosition(0, 0) \in PositionType
  BY <1>2, FirstDataChunkFacts, BlockSizeNat, ScanFacts DEF RecordPosition, PositionType
<1>5. ASSUME local' \in LocalType, result' \in ResultType, pc' # "payload" PROVE ScanTypes'
  BY <1>2, <1>3, <1>5, ScanStep DEF ScanTypes, RegionType, ResultType
<1>6. ASSUME NEW name, NEW position \in Nat, BeginScan(name, position)
      PROVE  /\ ScanTypes' /\ op' = name /\ pc' = "peek"
  <2>1. /\ local' \in LocalType /\ op' = name /\ pc' = "peek" /\ result' \in ResultType
    BY <1>2, <1>6, ScanLocals DEF BeginScan, ScanTypes, ResultType
  <2> QED BY <1>5, <2>1
<1>7. CASE Search
  <2>1. PICK target \in Targets :
          query' = [Ask("search") EXCEPT !.phase = "collect", !.target = target]
    BY <1>7 DEF Search
  <2>2. target \in Nat BY QueriesAssumption
  <2>3. QueryTypes' /\ query'.kind = "search" /\ query'.phase = "collect"
    BY <1>4, <2>1, <2>2, AskedTypes DEF Phases
  <2>4. ScanTypes' /\ op' = "collect" /\ pc' = "peek" BY <1>4, <1>6, <1>7 DEF Search
  <2> QED BY <2>3, <2>4 DEF ReaderTypesInv, ScanControl, Scans
<1>8. CASE Size
  <2>1. QueryTypes' /\ query'.kind = "size" /\ query'.phase = "scan"
    BY <1>4, <1>8, AskedTypes DEF Phases, Size
  <2>2. ScanTypes' /\ op' = "size" /\ pc' = "peek" BY <1>4, <1>6, <1>8 DEF Size
  <2> QED BY <2>1, <2>2 DEF ReaderTypesInv, ScanControl, Scans
<1>9. CASE ReadMetadata
  <2>1. QueryTypes' /\ query'.kind = "metadata" /\ query'.phase = "scan"
    BY <1>4, <1>9, AskedTypes DEF Phases, ReadMetadata
  <2>2. ScanTypes' /\ op' = "metadata" /\ pc' = "peek" BY <1>4, <1>6, <1>9 DEF ReadMetadata
  <2> QED BY <2>1, <2>2 DEF ReaderTypesInv, ScanControl, Scans
<1>10. CASE CheckFileFormat
  <2>1. QueryTypes' /\ query'.kind = "check" /\ query'.phase = "scan"
    BY <1>4, <1>10, AskedTypes DEF Phases, CheckFileFormat
  <2>2. BeginScan("check", BlockHeaderSize) \/ Return("error") BY <1>10 DEF CheckFileFormat
  <2>3. CASE BeginScan("check", BlockHeaderSize)
    <3>1. ScanTypes' /\ op' = "check" /\ pc' = "peek" BY <1>4, <1>6, <2>3
    <3> QED BY <2>1, <3>1 DEF ReaderTypesInv, ScanControl, Scans
  <2>4. CASE Return("error")
    <3>1. /\ op' = "none" /\ pc' = "idle" /\ local' \in LocalType /\ result' \in ResultType
      BY <1>2, <2>4, ScanLocals DEF Return, ResultType
    <3>2. ScanTypes' BY <1>5, <3>1
    <3> QED BY <2>1, <3>1, <3>2, ScanDone, IdleMoves
  <2> QED BY <2>2, <2>3, <2>4
<1>11. CASE SeekBack
  <2>1. CASE /\ current_record_index > 0
             /\ query' = [Ask("seek_back") EXCEPT !.phase = "back", !.at =
                            RecordPosition(current_chunk_begin, current_record_index - 1)]
             /\ result' = "ok" /\ UNCHANGED <<op, pc, local>>
    <3>1. current_record_index - 1 \in Nat BY <1>4, <2>1
    <3>2. RecordPosition(current_chunk_begin, current_record_index - 1) \in PositionType
      BY <1>4, <3>1 DEF RecordPosition, PositionType
    <3>3. QueryTypes' /\ query'.kind = "seek_back"
      BY <1>4, <2>1, <3>2, AskedTypes DEF Phases
    <3>4. ScanTypes' BY <1>1, <1>2, <1>5, <2>1, ScanFacts DEF ResultType
    <3> QED BY <1>1, <1>2, <2>1, <3>3, <3>4, ScanDone, IdleMoves
  <2>2. CASE /\ current_chunk_begin > FirstDataChunk
             /\ query' = [Ask("seek_back") EXCEPT !.phase = "before", !.at =
                            RecordPosition(current_chunk_begin, 0)]
             /\ FindChunkBefore(current_chunk_begin)
    <3>1. current_chunk_begin - 1 \in Nat BY <1>4, <2>2
    <3>2. RecordPosition(current_chunk_begin, 0) \in PositionType
      BY <1>4 DEF RecordPosition, PositionType
    <3>3. QueryTypes' /\ query'.kind = "seek_back" /\ query'.phase = "before"
      BY <1>4, <2>2, <3>2, AskedTypes DEF Phases
    <3>4. local' \in LocalType /\ result' \in ResultType /\ op' = "before" /\ pc' = "measure"
      BY <1>2, <2>2, <3>1, ScanLocals DEF FindChunkBefore, ScanTypes, ResultType
    <3>5. ScanTypes' BY <1>5, <3>4
    <3> QED BY <3>3, <3>4, <3>5 DEF ReaderTypesInv, ScanControl, Scans
  <2>3. CASE /\ query' = [Ask("seek_back") EXCEPT !.phase = "done", !.value = "first"]
             /\ UNCHANGED control
    <3>1. QueryTypes' /\ query'.kind = "seek_back"
      BY <1>4, <2>3, AskedTypes DEF Phases
    <3>2. UNCHANGED <<op, pc, local, result>> BY <2>3 DEF control
    <3>3. ScanTypes' BY <1>1, <1>2, <1>5, <3>2, ScanFacts DEF ResultType, ScanTypes
    <3> QED BY <1>1, <1>2, <3>1, <3>2, <3>3, ScanDone, IdleMoves
  <2> QED BY <1>11, <2>1, <2>2, <2>3 DEF SeekBack
<1> QED BY <1>7, <1>8, <1>9, <1>10, <1>11

(***************************************************************************)
(* Every step keeps the types.                                             *)
(***************************************************************************)
LEMMA TypesNext ==
    ASSUME ReaderTypesInv, QueryInv, [QNext]_allVars
    PROVE  ReaderTypesInv'
<1>1. CASE /\ UNCHANGED queryVars
           /\ \/ Step \/ Grow \/ UNCHANGED vars
              \/ query.kind = "none" /\ (ReadRecord \/ Seek \/ SeekNumeric)
  <2>1. CASE op \notin Scans BY <1>1, <2>1, TypesReader
  <2>2. CASE op \in Scans
    <3>1. ~(query.kind = "none" /\ (ReadRecord \/ Seek \/ SeekNumeric))
      <4>1. SUFFICES ASSUME ReadRecord \/ Seek \/ SeekNumeric PROVE FALSE OBVIOUS
      <4>2. pc = "idle" BY <4>1 DEF ReadRecord, Seek, SeekNumeric
      <4> QED BY <2>2, <4>2 DEF QueryInv, Scans
    <3> QED BY <1>1, <2>2, <3>1, TypesScanned
  <2> QED BY <2>1, <2>2
<1>2. \/ /\ UNCHANGED queryVars
         /\ \/ Step \/ Grow \/ UNCHANGED vars
            \/ query.kind = "none" /\ (ReadRecord \/ Seek \/ SeekNumeric)
      \/ Search \/ SeekBack \/ Size \/ ReadMetadata \/ CheckFileFormat
      \/ QueryStep
  BY DEF QNext, allVars
<1>3. CASE QueryStep
  BY <1>3, TypesCollect, TypesCollectRegion, TypesBefore, TypesCount, TypesReport, TypesPayload,
     TypesSearchChunks, TypesJudgeChunk, TypesSearchRecords, TypesPhases DEF QueryStep
<1> QED BY <1>1, <1>2, <1>3, TypesBegin

LEMMA TypesInit == QInit => ReaderTypesInv
<1> SUFFICES ASSUME QInit PROVE ReaderTypesInv OBVIOUS
<1>1. Init /\ query = NoQuery BY DEF QInit
<1>2. TypeInv /\ op = "new" BY <1>1, TypeInit DEF Init, InitReader
<1>3. QueryTypes BY <1>1 DEF QueryTypes, NoQuery, Phases, RecordPosition
<1>4. ScanControl BY <1>1, <1>2 DEF ScanControl, NoQuery
<1> QED BY <1>2, <1>3, <1>4 DEF ReaderTypesInv, Scans

---------------------------------------------------------------------------
(* What size has counted. *)

InFront(p) == {i \in DataChunks : Chunk(i).begin < p}
Missed(S) == {i \in S : Countable(i)}
Counting(S) == {i \in S : Chunk(i).header_ok}

LEMMA CountedIs ==
    ASSUME NEW position
    PROVE  LET S == InFront(canonical_chunk_address(position))
           IN  Counted(position) <=> /\ query.total >= RecordsIn(Missed(S))
                                     /\ query.total <= RecordsIn(Counting(S))
<1> DEFINE p == canonical_chunk_address(position)
           A == {i \in DataChunks : Chunk(i).begin < p /\ Countable(i)}
           B == {i \in DataChunks : Chunk(i).begin < p /\ Chunk(i).header_ok}
<1>1. Counted(position) <=> query.total >= RecordsIn(A) /\ query.total <= RecordsIn(B)
  BY DEF Counted
<1>2. A = Missed(InFront(p)) /\ B = Counting(InFront(p))
  BY DEF Missed, Counting, InFront
<1> HIDE DEF p, A, B
<1> QED BY <1>1, <1>2 DEF p

LEMMA SizeCountsIs ==
    SizeCounts <=> (Returned("size", "counted") =>
                      /\ query.total >= RecordsIn(Missed(DataChunks))
                      /\ query.total <= RecordsIn(Counting(DataChunks)))
BY DEF SizeCounts, Missed, Counting

LEMMA FrontTypes ==
    ASSUME FileType(file), NEW S \in SUBSET DataChunks
    PROVE  /\ S \in SUBSET (DOMAIN Chunks)
           /\ Missed(S) \in SUBSET (DOMAIN Chunks) /\ Missed(S) \subseteq S
           /\ Counting(S) \in SUBSET (DOMAIN Chunks) /\ Counting(S) \subseteq S
           /\ RecordsIn(Missed(S)) \in Nat /\ RecordsIn(Counting(S)) \in Nat
<1>1. S \in SUBSET (DOMAIN Chunks) BY DEF DataChunks
<1>2. Missed(S) \subseteq S /\ Counting(S) \subseteq S BY DEF Missed, Counting
<1> QED BY <1>1, <1>2, TotalNat

\* The sums do not change with the file and the query as they are.
LEMMA SumsSame ==
    ASSUME UNCHANGED file
    PROVE  /\ DataChunks' = DataChunks /\ \A p : InFront(p)' = InFront(p)
           /\ \A S : RecordsIn(S)' = RecordsIn(S) /\ Counting(S)' = Counting(S)
           /\ \A i : IntactRecords(Chunk(i))' = IntactRecords(Chunk(i))
           /\ \A i, r : InRegion(Chunk(i), r)' = InRegion(Chunk(i), r)
           /\ \A i : Chunk(i)' = Chunk(i)
<1>1. Chunks' = Chunks /\ blocks' = blocks BY DEF Chunks, blocks
<1>2. \A i : Chunk(i)' = Chunk(i) BY <1>1 DEF Chunk
<1>3. DataChunks' = DataChunks BY <1>1, <1>2 DEF DataChunks, HasRecords
<1>4. \A p : InFront(p)' = InFront(p) BY <1>2, <1>3 DEF InFront
<1>5. \A S : RecordsIn(S)' = RecordsIn(S)
  BY <1>1 DEF RecordsIn, Chunk, MapThenSumSet, MapThenFoldSet
<1>6. \A S : Counting(S)' = Counting(S) BY <1>2 DEF Counting
<1>7. \A i : IntactRecords(Chunk(i))' = IntactRecords(Chunk(i))
  BY <1>1, <1>2 DEF IntactRecords, ValidBlock, End
<1>8. \A i, r : InRegion(Chunk(i), r)' = InRegion(Chunk(i), r)
  BY <1>2 DEF InRegion, End
<1> QED BY <1>2, <1>3, <1>4, <1>5, <1>6, <1>7, <1>8

LEMMA MissedSame ==
    ASSUME UNCHANGED file, query'.since = query.since, query'.seen = query.seen
    PROVE  \A S : {i \in S : Countable(i)'} = Missed(S)
<1>1. \A i : Countable(i)' = Countable(i) BY SumsSame DEF Countable
<1> QED BY <1>1 DEF Missed

LEMMA CountedNext ==
    ASSUME UNCHANGED file
    PROVE  LET S == InFront(canonical_chunk_address(local'.scan_pos))
           IN  Counted(local.scan_pos)' <=>
                 /\ query'.total >= RecordsIn({i \in S : Countable(i)'})
                 /\ query'.total <= RecordsIn(Counting(S))
<1> DEFINE p == canonical_chunk_address(local'.scan_pos)
           A == {i \in DataChunks' : Chunk(i)'.begin < p /\ Countable(i)'}
           B == {i \in DataChunks' : Chunk(i)'.begin < p /\ Chunk(i)'.header_ok}
           f == Chunks'
           TotalOf(g, s) == MapThenSumSet(LAMBDA i : g[i].num_records, s)
<1>1. Counted(local.scan_pos)' <=>
        query'.total >= TotalOf(Chunks', A) /\ query'.total <= TotalOf(Chunks', B)
  BY DEF Counted, RecordsIn, Chunk, MapThenSumSet, MapThenFoldSet
<1>2. \A s : TotalOf(Chunks', s) = RecordsIn(s)
  <2>1. Chunks' = Chunks BY DEF Chunks
  <2> QED BY <2>1 DEF RecordsIn, Chunk, MapThenSumSet, MapThenFoldSet
<1>3. A = {i \in InFront(p) : Countable(i)'} /\ B = Counting(InFront(p))
  BY SumsSame DEF Counting, InFront
<1> HIDE DEF p, A, B, TotalOf
<1> QED BY <1>1, <1>2, <1>3 DEF p

LEMMA SizeCountsNext ==
    ASSUME UNCHANGED file
    PROVE  SizeCounts' <=>
             (Returned("size", "counted")' =>
                /\ query'.total >= RecordsIn({i \in DataChunks : Countable(i)'})
                /\ query'.total <= RecordsIn(Counting(DataChunks)))
<1> DEFINE A == {i \in DataChunks' : Countable(i)'}
           B == {i \in DataChunks' : Chunk(i)'.header_ok}
           TotalOf(g, s) == MapThenSumSet(LAMBDA i : g[i].num_records, s)
<1>1. SizeCounts' <=>
        (Returned("size", "counted")' =>
           query'.total >= TotalOf(Chunks', A) /\ query'.total <= TotalOf(Chunks', B))
  BY DEF SizeCounts, RecordsIn, Chunk, MapThenSumSet, MapThenFoldSet
<1>2. \A s : TotalOf(Chunks', s) = RecordsIn(s)
  <2>1. Chunks' = Chunks BY DEF Chunks
  <2> QED BY <2>1 DEF RecordsIn, Chunk, MapThenSumSet, MapThenFoldSet
<1>3. A = {i \in DataChunks : Countable(i)'} /\ B = Counting(DataChunks)
  BY SumsSame DEF Counting
<1> HIDE DEF A, B, TotalOf
<1> QED BY <1>1, <1>2, <1>3

\* A step of size that counts nothing.
LEMMA SizeSame ==
    ASSUME SizeInv, UNCHANGED <<file, query>>,
           op' = "size" =>
             /\ op = "size" /\ local'.scan_pos = local.scan_pos
             /\ pc' # "peek" => local'.at = local'.scan_pos
             /\ pc' \in {"resync", "region"} =>
                  /\ canonical_chunk_address(local'.at) <= local'.begin
                  /\ local'.begin <= local'.at
    PROVE  SizeInv'
<1>1. CASE query.kind # "size" BY <1>1 DEF SizeInv
<1>2. CASE query.kind = "size"
  <2>1. \A S : {i \in S : Countable(i)'} = Missed(S) BY MissedSame
  <2>2. SizeCounts'
    <3>1. SizeCounts BY <1>2 DEF SizeInv
    <3>2. Returned("size", "counted")' <=> Returned("size", "counted") BY DEF Returned
    <3> QED BY <2>1, <3>1, <3>2, SizeCountsIs, SizeCountsNext
  <2>3. ASSUME op' = "size" PROVE Counted(local.scan_pos)'
    <3>1. Counted(local.scan_pos) BY <1>2, <2>3 DEF SizeInv
    <3>2. local'.scan_pos = local.scan_pos BY <2>3
    <3> QED BY <2>1, <3>1, <3>2, CountedIs, CountedNext
  <2> QED BY <1>2, <2>2, <2>3 DEF SizeInv
<1> QED BY <1>1, <1>2

\* The chunk whose header stands where the scan is, and those behind it.
LEMMA FrontGrows ==
    ASSUME FileType(file), ChunksDisjoint, len \in lengths, NEW i \in DOMAIN Chunks,
           ClaimsFit(Chunk(i), len)
    PROVE  LET p == Chunk(i).begin
               q == End(Chunk(i))
           IN  /\ canonical_chunk_address(q) = q /\ i \notin InFront(p)
               /\ InFront(p) \subseteq InFront(q)
               /\ InFront(q) \subseteq InFront(p) \cup {i}
               /\ HasRecords(Chunk(i)) => i \in InFront(q)
<1> DEFINE p == Chunk(i).begin
           q == End(Chunk(i))
<1>1. /\ p \in Nat /\ q \in Nat /\ canonical_chunk_address(q) = q
      /\ canonical_chunk_address(p) = p => q > p
  BY ChunkFacts
<1>2. is_possible_chunk_boundary(p) BY DisjointFacts
<1>3. canonical_chunk_address(p) = p BY <1>1, <1>2, PossibleNoAlias, CanonicalFacts
<1>4. q > p BY <1>1, <1>3
<1>5. \A j \in DataChunks : j \in DOMAIN Chunks /\ Chunk(j).begin \in Nat
  BY ChunkFacts DEF DataChunks
<1>6. Plausible(file, Chunk(i)) BY DEF Plausible, lengths
<1>7. ASSUME NEW j \in InFront(q) PROVE j \in InFront(p) \cup {i}
  <2>1. j \in DOMAIN Chunks /\ Chunk(j).begin \in Nat /\ j \in DataChunks /\ Chunk(j).begin < q
    BY <1>5, <1>7 DEF InFront
  <2>2. ~(p < Chunk(j).begin) BY <1>1, <1>6, <2>1, DisjointFacts
  <2>3. CASE Chunk(j).begin = p BY <2>1, <2>3, DisjointFacts
  <2>4. CASE Chunk(j).begin < p BY <2>1, <2>4 DEF InFront
  <2> QED BY <1>1, <2>1, <2>2, <2>3, <2>4
<1>8. InFront(p) \subseteq InFront(q)
  <2> HIDE DEF p, q
  <2> QED BY <1>1, <1>4, <1>5 DEF InFront
<1>9. i \notin InFront(p) BY <1>1 DEF InFront
<1>10. HasRecords(Chunk(i)) => i \in InFront(q) BY <1>4 DEF InFront, DataChunks
<1> QED BY <1>1, <1>7, <1>8, <1>9, <1>10

\* Nothing that can be missed lies at or behind the end of the file.
LEMMA FrontAtEnd ==
    ASSUME FileType(file), ChunksDisjoint, len \in lengths, query.since \in Nat,
           query.since <= len, NEW p \in Nat, len <= p
    PROVE  Missed(DataChunks) = Missed(InFront(p))
<1>1. len \in Nat BY FileFacts
<1>2. ASSUME NEW i \in Missed(DataChunks) PROVE Chunk(i).begin < p
  <2>1. i \in DOMAIN Chunks /\ End(Chunk(i)) <= query.since
    BY <1>2 DEF Missed, Countable, DataChunks
  <2>2. /\ Chunk(i).begin \in Nat /\ End(Chunk(i)) \in Nat
        /\ canonical_chunk_address(Chunk(i).begin) = Chunk(i).begin =>
             End(Chunk(i)) > Chunk(i).begin
    BY <2>1, ChunkFacts
  <2>3. is_possible_chunk_boundary(Chunk(i).begin) BY <2>1, DisjointFacts
  <2>4. canonical_chunk_address(Chunk(i).begin) = Chunk(i).begin
    BY <2>2, <2>3, PossibleNoAlias, CanonicalFacts
  <2> QED BY <1>1, <2>1, <2>2, <2>4
<1> QED BY <1>2 DEF Missed, InFront

\* size counts the chunk at hand.
LEMMA SizeCountsChunk ==
    ASSUME FileType(file), ChunksDisjoint, len \in lengths, NEW i \in DOMAIN Chunks,
           ClaimsFit(Chunk(i), len), Chunk(i).header_ok, NEW total \in Nat,
           total >= RecordsIn(Missed(InFront(Chunk(i).begin))),
           total <= RecordsIn(Counting(InFront(Chunk(i).begin)))
    PROVE  LET next == IF HasRecords(Chunk(i)) THEN total + Claims(i) ELSE total
           IN  /\ next >= RecordsIn(Missed(InFront(End(Chunk(i)))))
               /\ next <= RecordsIn(Counting(InFront(End(Chunk(i)))))
<1> DEFINE P == InFront(Chunk(i).begin)
           Q == InFront(End(Chunk(i)))
<1>1. /\ i \notin P /\ P \subseteq Q /\ Q \subseteq P \cup {i}
      /\ HasRecords(Chunk(i)) => i \in Q
  BY FrontGrows
<1>2. P \in SUBSET DataChunks /\ Q \in SUBSET DataChunks BY DEF InFront
<1>3. total >= RecordsIn(Missed(P)) /\ total <= RecordsIn(Counting(P)) OBVIOUS
<1>4. Claims(i) \in Nat BY ClaimsNat
<1> HIDE DEF P, Q
<1>5. /\ RecordsIn(Missed(P)) \in Nat /\ RecordsIn(Counting(P)) \in Nat
      /\ RecordsIn(Missed(Q)) \in Nat /\ RecordsIn(Counting(Q)) \in Nat
      /\ Missed(P) \in SUBSET (DOMAIN Chunks) /\ Counting(Q) \in SUBSET (DOMAIN Chunks)
      /\ Missed(Q) \in SUBSET (DOMAIN Chunks)
  BY <1>2, FrontTypes
<1>6. /\ Missed(P) \subseteq Missed(Q) /\ Missed(Q) \subseteq Missed(P) \cup {i}
      /\ Counting(P) \subseteq Counting(Q) /\ i \notin Counting(P) /\ i \notin Missed(P)
      /\ HasRecords(Chunk(i)) => i \in Counting(Q)
  BY <1>1 DEF Missed, Counting
<1>7. CASE HasRecords(Chunk(i))
  <2>1. total + Claims(i) <= RecordsIn(Counting(Q))
    <3>1. Counting(P) \subseteq Counting(Q) \ {i} BY <1>6
    <3>2. RecordsIn(Counting(Q)) = Claims(i) + RecordsIn(Counting(Q) \ {i})
      BY <1>5, <1>6, <1>7, TotalRemove
    <3>3. Counting(Q) \ {i} \in SUBSET (DOMAIN Chunks) BY <1>5
    <3>4. /\ RecordsIn(Counting(P)) <= RecordsIn(Counting(Q) \ {i})
          /\ RecordsIn(Counting(Q) \ {i}) \in Nat
      BY <3>1, <3>3, TotalMono, TotalNat
    <3> QED BY <1>3, <1>4, <1>5, <3>2, <3>4
  <2>2. total + Claims(i) >= RecordsIn(Missed(Q))
    <3>1. CASE i \in Missed(Q)
      <4>1. Missed(Q) \ {i} = Missed(P) BY <1>6
      <4>2. RecordsIn(Missed(Q)) = Claims(i) + RecordsIn(Missed(P))
        BY <1>5, <3>1, <4>1, TotalRemove
      <4> QED BY <1>3, <1>4, <1>5, <4>2
    <3>2. CASE i \notin Missed(Q)
      <4>1. Missed(Q) = Missed(P) BY <1>6, <3>2
      <4> QED BY <1>3, <1>4, <1>5, <4>1
    <3> QED BY <3>1, <3>2
  <2> QED BY <1>7, <2>1, <2>2 DEF Q
<1>8. CASE ~HasRecords(Chunk(i))
  <2>1. i \notin Missed(Q) BY <1>2, <1>8 DEF Missed, DataChunks
  <2>2. Missed(Q) = Missed(P) BY <1>6, <2>1
  <2>3. RecordsIn(Counting(P)) <= RecordsIn(Counting(Q)) BY <1>5, <1>6, TotalMono
  <2> QED BY <1>3, <1>5, <1>8, <2>2, <2>3 DEF Q
<1> QED BY <1>7, <1>8

\* No chunk lies in front of the preamble but the signature.
LEMMA SizeBegins ==
    ASSUME QueryInv, ChunksDisjoint, Size
    PROVE  SizeInv'
<1>1. FileType(file) /\ UNCHANGED file
  BY DEF Size, QueryInv, Elsewhere, StillElsewhere
<1>2. /\ query' = [Ask("size") EXCEPT !.phase = "scan"]
      /\ op' = "size" /\ pc' = "peek" /\ local' = [NoLocals EXCEPT !.scan_pos = FirstDataChunk]
  BY DEF Size, BeginScan
<1>3. query'.total = 0 /\ query'.phase = "scan" BY <1>2 DEF Ask, NoQuery
<1>4. local'.scan_pos = FirstDataChunk BY <1>2 DEF NoLocals
<1>5. canonical_chunk_address(FirstDataChunk) = FirstDataChunk
  BY FirstDataChunkFacts, CanonicalFacts
<1>6. InFront(FirstDataChunk) = {}
  <2>1. SUFFICES ASSUME NEW i \in InFront(FirstDataChunk) PROVE FALSE OBVIOUS
  <2>2. i \in DOMAIN Chunks /\ HasRecords(Chunk(i)) /\ Chunk(i).begin < FirstDataChunk
    BY <2>1 DEF InFront, DataChunks
  <2>3. 1 \in DOMAIN Chunks /\ Chunk(1).type = "signature" /\ Chunk(1).begin = 0
    BY <1>1 DEF FileType, Chunk, Chunks
  <2>4. Chunk(i).begin \in Nat BY <1>1, <2>2, ChunkFacts
  <2>5. Chunk(i).begin # 0 BY <2>2, <2>3, DisjointFacts DEF HasRecords
  <2> QED BY <2>2, <2>3, <2>4, <2>5, FirstDataChunkFacts, DisjointFacts
<1>7. {i \in InFront(FirstDataChunk) : Countable(i)'} = {} /\ Counting(InFront(FirstDataChunk)) = {}
  BY <1>6 DEF Counting
<1>8. RecordsIn({}) = 0 BY FS_EmptySet, TotalAt
<1>9. Counted(local.scan_pos)' BY <1>1, <1>3, <1>4, <1>5, <1>7, <1>8, CountedNext
<1>10. SizeCounts' BY <1>3 DEF SizeCounts, Returned
<1> QED BY <1>2, <1>9, <1>10 DEF SizeInv

\* A chunk is counted, the end found, or a header that cannot be read.
LEMMA SizeCount ==
    ASSUME ReaderTypesInv, QueryInv, ChunksDisjoint, SizeInv, CountRecords
    PROVE  SizeInv'
<1>0. DOMAIN query = {"kind", "phase", "value", "target", "chunks", "lo", "hi", "mid", "probe",
                      "at", "total", "position", "since", "seen"}
  BY NoQueryFields DEF QueryInv
<1>1. ScanTypes /\ QueryTypes /\ ScanControl BY FieldTypes DEF ReaderTypesInv
<1>2. /\ pc = "peek" /\ op = "size" /\ query.kind = "size" /\ query.phase = "scan"
      /\ UNCHANGED file /\ FileType(file) /\ len \in lengths
  BY <1>1, ScanFacts DEF CountRecords, Elsewhere, StillElsewhere, ScanControl
<1> DEFINE i == Header.chunk
           c == Chunk(i)
           p == canonical_chunk_address(local.scan_pos)
           S == InFront(p)
<1>3. \/ /\ Header.kind = "chunk" /\ ScanOn(End(c))
         /\ query' = IF HasRecords(c) THEN [query EXCEPT !.total = @ + c.num_records] ELSE query
      \/ Header.kind = "eof" /\ Return("ok") /\ Done("counted")
      \/ FailAt(local.scan_pos) /\ query' = query
  BY DEF CountRecords, HeaderIs
<1>4. /\ local.scan_pos \in Nat /\ local \in LocalType /\ p \in Nat
      /\ Header.kind = "eof" => p >= len
      /\ Header.kind = "chunk" =>
           /\ i \in DOMAIN Chunks /\ c.begin = p /\ HeaderReadable(c) /\ ClaimsFit(c, len)
           /\ End(c) \in Nat
  BY <1>1, ScanHeader, ScanFacts, CanonicalFacts
<1>5. /\ query.total >= RecordsIn(Missed(S)) /\ query.total <= RecordsIn(Counting(S))
      /\ query.total \in Nat
  BY <1>1, <1>2, CountedIs DEF SizeInv, QueryTypes
<1>6. CASE /\ Header.kind = "chunk" /\ ScanOn(End(c))
           /\ query' = IF HasRecords(c) THEN [query EXCEPT !.total = @ + c.num_records] ELSE query
  <2>1. /\ query'.total = IF HasRecords(c) THEN query.total + Claims(i) ELSE query.total
        /\ query'.since = query.since /\ query'.seen = query.seen /\ query'.phase = "scan"
    BY <1>0, <1>2, <1>6 DEF Claims
  <2>2. /\ op' = "size" /\ pc' = "peek"
        /\ local' = [local EXCEPT !.scan_pos = End(c), !.chunk = 0]
    BY <1>2, <1>6 DEF ScanOn, Goto
  <2>3. local'.scan_pos = End(c) BY <1>4, <2>2 DEF LocalType
  <2>4. c.header_ok /\ canonical_chunk_address(End(c)) = End(c)
    BY <1>2, <1>4, <1>6, ChunkFacts DEF HeaderReadable
  <2> DEFINE next == IF HasRecords(Chunk(i)) THEN query.total + Claims(i) ELSE query.total
  <2>5. /\ next >= RecordsIn(Missed(InFront(End(Chunk(i)))))
        /\ next <= RecordsIn(Counting(InFront(End(Chunk(i)))))
    <3>1. i \in DOMAIN Chunks /\ Chunk(i).begin = p /\ ClaimsFit(Chunk(i), len)
          /\ Chunk(i).header_ok
      BY <1>4, <1>6, <2>4
    <3> HIDE DEF i, p
    <3> QED BY <1>2, <1>5, <3>1, SizeCountsChunk
  <2>6. \A T : {j \in T : Countable(j)'} = Missed(T) BY <1>2, <2>1, MissedSame
  <2>7. Counted(local.scan_pos)'
    BY <1>2, <2>1, <2>3, <2>4, <2>5, <2>6, CountedNext
  <2>8. SizeCounts' BY <2>1 DEF SizeCounts, Returned
  <2> QED BY <2>2, <2>7, <2>8 DEF SizeInv
<1>7. CASE Header.kind = "eof" /\ Return("ok") /\ Done("counted")
  <2>1. query' = [query EXCEPT !.phase = "done", !.value = "counted"] /\ op' = "none"
    BY <1>7 DEF Return, Done
  <2>2. /\ query'.total = query.total /\ query'.since = query.since /\ query'.seen = query.seen
    BY <1>0, <2>1
  <2>3. {j \in DataChunks : Countable(j)'} = Missed(DataChunks) BY <1>2, <2>2, MissedSame
  <2>4. Missed(DataChunks) = Missed(S)
    BY <1>2, <1>4, <1>7, FrontAtEnd DEF QueryInv
  <2>5. RecordsIn(Counting(S)) <= RecordsIn(Counting(DataChunks))
        /\ RecordsIn(Counting(S)) \in Nat /\ RecordsIn(Counting(DataChunks)) \in Nat
    <3>1. S \in SUBSET DataChunks /\ DataChunks \in SUBSET DataChunks BY DEF InFront
    <3>2. Counting(S) \subseteq Counting(DataChunks) BY <3>1 DEF Counting
    <3> QED BY <1>2, <3>1, <3>2, FrontTypes, TotalMono
  <2>6. SizeCounts' BY <1>2, <1>5, <2>2, <2>3, <2>4, <2>5, SizeCountsNext
  <2> QED BY <2>1, <2>6 DEF SizeInv
<1>8. CASE FailAt(local.scan_pos) /\ query' = query
  <2>1. /\ op' = op /\ pc' = "recover" /\ local' = [local EXCEPT !.at = local.scan_pos]
    BY <1>8 DEF FailAt, Goto
  <2>2. local'.scan_pos = local.scan_pos /\ local'.at = local.scan_pos
    BY <1>4, <2>1 DEF LocalType
  <2> QED BY <1>2, <1>8, <2>1, <2>2, SizeSame
<1> QED BY <1>3, <1>6, <1>7, <1>8

\* A region is reported: what it may hide is touched by it.
LEMMA SizeReports ==
    ASSUME ReaderTypesInv, QueryInv, ChunksDisjoint, SizeInv, ReportOnly, op = "size"
    PROVE  SizeInv'
<1>0. DOMAIN query = {"kind", "phase", "value", "target", "chunks", "lo", "hi", "mid", "probe",
                      "at", "total", "position", "since", "seen"}
  BY NoQueryFields DEF QueryInv
<1>1. ScanTypes /\ QueryTypes /\ ScanControl BY FieldTypes DEF ReaderTypesInv
<1>2. /\ pc = "region" /\ query.kind = "size" /\ query.phase = "scan"
      /\ UNCHANGED file /\ FileType(file) /\ len \in lengths
  BY <1>1, ScanFacts DEF ReportOnly, Elsewhere, StillElsewhere, ScanControl
<1>3. \/ Return("error") /\ query' = query
      \/ ScanOn(Region.end) /\ query' = [query EXCEPT !.seen = @ \cup {Region}]
  BY DEF ReportOnly, ResumeScan
<1>4. CASE Return("error") /\ query' = query
  <2>1. op' = "none" BY <1>4 DEF Return
  <2> QED BY <1>2, <1>4, <2>1, SizeSame
<1>5. CASE ScanOn(Region.end) /\ query' = [query EXCEPT !.seen = @ \cup {Region}]
  <2> DEFINE p == canonical_chunk_address(local.scan_pos)
             q == canonical_chunk_address(RegionEnd)
             S == InFront(p)
             T == InFront(q)
  <2>1. /\ query'.total = query.total /\ query'.since = query.since /\ query'.phase = "scan"
        /\ query'.seen = query.seen \cup {Region}
    BY <1>0, <1>2, <1>5
  <2>2. local \in LocalType /\ local.scan_pos \in Nat /\ local.begin \in Nat
    BY <1>1, ScanFacts DEF LocalType
  <2>3. /\ Region.begin = local.begin /\ Region.end = RegionEnd /\ RegionEnd \in Nat
        /\ local.begin < q /\ q <= RegionEnd /\ q \in Nat
    BY <1>1, ScanRegionEnd, CanonicalFacts
  <2>4. /\ op' = "size" /\ pc' = "peek"
        /\ local' = [local EXCEPT !.scan_pos = RegionEnd, !.chunk = 0]
    BY <1>5, <2>3 DEF ScanOn, Goto
  <2>5. local'.scan_pos = RegionEnd BY <2>2, <2>4 DEF LocalType
  <2>6. p <= local.begin /\ local.begin <= local.scan_pos /\ p \in Nat
    BY <1>2, <2>2, CanonicalFacts DEF SizeInv
  <2>7. ASSUME NEW i \in DOMAIN Chunks, p <= Chunk(i).begin, Chunk(i).begin < q
        PROVE  InRegion(Chunk(i), Region)
    <3> DEFINE b == Chunk(i).begin
               e == End(Chunk(i))
    <3>1. /\ b \in Nat /\ e \in Nat /\ Chunk(i).data_size \in Nat /\ Chunk(i).num_records \in Nat
          /\ e = chunk_end(b, Chunk(i).data_size, Chunk(i).num_records)
          /\ canonical_chunk_address(b) = b => e > b
      BY <1>2, ChunkFacts
    <3>2. is_possible_chunk_boundary(b) BY DisjointFacts
    <3>3. canonical_chunk_address(b) = b BY <3>1, <3>2, PossibleNoAlias, CanonicalFacts
    <3>4. e > b BY <3>1, <3>3
    <3>5. is_possible_chunk_boundary(e)
      <4>1. is_possible_chunk_boundary(chunk_end(b, Chunk(i).data_size, Chunk(i).num_records))
        BY ONLY <3>1, ChunkEndAnywhere
      <4>2. e = chunk_end(b, Chunk(i).data_size, Chunk(i).num_records) BY <3>1
      <4> HIDE DEF e
      <4> QED BY ONLY <4>1, <4>2
    <3>6. b < RegionEnd /\ p <= b BY <2>3, <2>7, <3>1
    <3> HIDE DEF b, e, p
    <3>7. local.scan_pos < e
      <4>1. CASE local.scan_pos % BlockSize # BlockHeaderSize
        <5>1. p = local.scan_pos BY <2>2, <4>1, CanonicalFacts DEF p
        <5> QED BY <2>2, <3>1, <3>4, <3>6, <5>1
      <4>2. CASE local.scan_pos % BlockSize = BlockHeaderSize
        <5>1. p = local.scan_pos - BlockHeaderSize /\ is_block_boundary(p)
          BY <2>2, <4>2, CanonicalFacts DEF p
        <5>2. p < e BY <2>6, <3>1, <3>4, <3>6
        <5>3. p + BlockHeaderSize < e BY <2>6, <3>1, <3>5, <5>1, <5>2, AliasInside
        <5> QED BY <2>2, <5>1, <5>3, BlockSizeNat
      <4> QED BY <4>1, <4>2
    <3>8. local.begin < e BY <2>2, <2>6, <3>1, <3>7
    <3> QED BY <2>3, <3>6, <3>8 DEF InRegion, b, e
  <2>8. S \subseteq T /\ T \in SUBSET DataChunks /\ S \in SUBSET DataChunks
    <3>1. \A j \in DataChunks : Chunk(j).begin \in Nat BY <1>2, ChunkFacts DEF DataChunks
    <3>2. p <= q BY <2>2, <2>3, <2>6
    <3> HIDE DEF p, q
    <3> QED BY <2>3, <2>6, <3>1, <3>2 DEF InFront
  <2>9. {j \in T : Countable(j)'} \subseteq Missed(S)
    <3>1. SUFFICES ASSUME NEW j \in T, Countable(j)' PROVE j \in Missed(S) OBVIOUS
    <3>2. /\ IntactRecords(Chunk(j)) /\ End(Chunk(j)) <= query.since
          /\ ~ \E r \in query.seen \cup {Region} : InRegion(Chunk(j), r)
      BY <1>2, <2>1, <3>1, SumsSame DEF Countable
    <3>3. j \in DOMAIN Chunks /\ j \in DataChunks /\ Chunk(j).begin < q
      BY <3>1 DEF InFront, DataChunks
    <3>4. ~InRegion(Chunk(j), Region) BY <3>2
    <3>5. Chunk(j).begin \in Nat BY <1>2, <3>3, ChunkFacts
    <3>6. Chunk(j).begin < p BY <2>6, <2>7, <3>3, <3>4, <3>5
    <3> QED BY <3>2, <3>3, <3>6 DEF Missed, InFront, Countable
  <2>10. /\ query.total >= RecordsIn(Missed(S)) /\ query.total <= RecordsIn(Counting(S))
         /\ query.total \in Nat
    BY <1>1, <1>2, CountedIs DEF SizeInv, QueryTypes
  <2> HIDE DEF S, T, p, q
  <2>11. RecordsIn({j \in T : Countable(j)'}) <= RecordsIn(Missed(S))
         /\ RecordsIn({j \in T : Countable(j)'}) \in Nat /\ RecordsIn(Missed(S)) \in Nat
    <3>1. Missed(S) \in SUBSET (DOMAIN Chunks) BY <1>2, <2>8, FrontTypes
    <3>2. {j \in T : Countable(j)'} \in SUBSET (DOMAIN Chunks) BY <2>9, <3>1
    <3> QED BY <1>2, <2>9, <3>1, <3>2, TotalMono, TotalNat
  <2>12. RecordsIn(Counting(S)) <= RecordsIn(Counting(T))
         /\ RecordsIn(Counting(S)) \in Nat /\ RecordsIn(Counting(T)) \in Nat
    <3>1. Counting(S) \subseteq Counting(T) BY <2>8 DEF Counting
    <3> QED BY <1>2, <2>8, <3>1, FrontTypes, TotalMono
  <2>13. Counted(local.scan_pos)'
    <3>1. /\ query'.total >= RecordsIn({j \in T : Countable(j)'})
          /\ query'.total <= RecordsIn(Counting(T))
      BY <2>1, <2>10, <2>11, <2>12
    <3> QED BY <1>2, <2>5, <3>1, CountedNext DEF T, q
  <2>14. SizeCounts' BY <2>1 DEF SizeCounts, Returned
  <2> QED BY <2>4, <2>13, <2>14 DEF SizeInv
<1> QED BY <1>3, <1>4, <1>5

\* Looking for the end of the region.
LEMMA SizeLooks ==
    ASSUME ReaderTypesInv, QueryInv, SizeInv, Recover \/ Resync, op = "size", query' = query
    PROVE  SizeInv'
<1>1. ScanTypes BY FieldTypes
<1>2. /\ UNCHANGED file /\ local \in LocalType /\ query.kind = "size"
      /\ local.at = local.scan_pos
  BY <1>1, ScanFacts DEF Recover, Resync, ReaderTypesInv, ScanControl, SizeInv
<1>3. local.at \in Nat BY <1>2 DEF LocalType
<1>4. CASE Recover
  <2> DEFINE begin == RegionBegin(local.at)
             boundary == IF next_block_boundary(begin) = begin THEN begin + BlockSize
                         ELSE next_block_boundary(begin)
  <2>1. \/ Return("error")
        \/ op' = op /\ \E e : local' = [local EXCEPT !.begin = begin, !.end = e]
        \/ op' = op /\ local' = [local EXCEPT !.begin = begin, !.boundary = boundary]
    BY <1>4 DEF Recover, Goto
  <2>2. canonical_chunk_address(local.at) <= begin /\ begin <= local.at
    BY <1>1, <1>3, ScanRegionBegin
  <2> HIDE DEF begin, boundary
  <2>3. CASE Return("error")
    <3>1. op' = "none" BY <2>3 DEF Return
    <3> QED BY <1>2, <3>1, SizeSame
  <2>4. ASSUME op' = op,
               \/ \E e : local' = [local EXCEPT !.begin = begin, !.end = e]
               \/ local' = [local EXCEPT !.begin = begin, !.boundary = boundary]
        PROVE  SizeInv'
    <3>1. local'.begin = begin /\ local'.at = local.at /\ local'.scan_pos = local.scan_pos
      BY <1>2, <2>4 DEF LocalType
    <3> QED BY <1>2, <2>2, <2>4, <3>1, SizeSame
  <2> QED BY <2>1, <2>3, <2>4
<1>5. CASE Resync
  <2>1. /\ op' = op /\ pc = "resync"
        /\ \/ \E e : local' = [local EXCEPT !.end = e]
           \/ \E b : local' = [local EXCEPT !.boundary = b]
    BY <1>5 DEF Resync, ResyncAt, ResyncFrom, Goto
  <2>2. local'.begin = local.begin /\ local'.at = local.at /\ local'.scan_pos = local.scan_pos
    BY <1>2, <2>1 DEF LocalType
  <2>3. canonical_chunk_address(local.at) <= local.begin /\ local.begin <= local.at
    BY <1>2, <2>1 DEF SizeInv
  <2> QED BY <1>2, <2>1, <2>2, <2>3, SizeSame
<1> QED BY <1>4, <1>5

LEMMA SizeNext ==
    ASSUME ReaderTypesInv, QueryInv, ChunksDisjoint, SizeInv, [QNext]_allVars
    PROVE  SizeInv'
<1>1. UNCHANGED file BY QueryFileConstant
<1>2. QueryTypes /\ ScanControl BY DEF ReaderTypesInv
<1>3. CASE query.kind # "size"
  <2>1. CASE Size BY <2>1, SizeBegins
  <2>2. CASE ~Size
    <3>1. query'.kind # "size"
      <4>1. query.kind # "none" => query.kind # "size" BY <1>3
      <4>2. \/ UNCHANGED queryVars
            \/ Search \/ SeekBack \/ ReadMetadata \/ CheckFileFormat
            \/ QueryStep
        BY <2>2 DEF QNext, allVars
      <4>3. CASE UNCHANGED queryVars BY <1>3, <4>3 DEF queryVars
      <4>4. CASE Search
        BY <4>4, AskFields DEF Search, Ask, NoQuery
      <4>5. CASE SeekBack BY <4>5 DEF SeekBack, Ask, NoQuery
      <4>6. CASE ReadMetadata \/ CheckFileFormat
        BY <4>6 DEF ReadMetadata, CheckFileFormat, Ask, NoQuery
      <4>7. CASE QueryStep
        BY <1>3, <4>7, TypesCollect, TypesCollectRegion, TypesBefore, TypesCount, TypesReport,
           TypesPayload, TypesSearchChunks, TypesJudgeChunk, TypesSearchRecords, TypesPhases
           DEF QueryStep
      <4> QED BY <4>2, <4>3, <4>4, <4>5, <4>6, <4>7
    <3> QED BY <3>1 DEF SizeInv
  <2> QED BY <2>1, <2>2
<1>4. CASE query.kind = "size"
  <2>1. op \in {"size", "none"} /\ query.phase \in {"scan", "done"}
    BY <1>2, <1>4 DEF ScanControl, QueryTypes, Phases
  <2>2. op = "none" => pc \in {"idle", "gone"}
    BY <2>1 DEF ReaderTypesInv, TypeInv, TypeOK, OperationInv, Scans
  <2>3. ~(Search \/ SeekBack \/ Size \/ ReadMetadata \/ CheckFileFormat)
    BY <1>4 DEF Search, SeekBack, Size, ReadMetadata, CheckFileFormat, MayAsk
  <2>4. ASSUME QueryStep
        PROVE  CountRecords \/ (ReportOnly /\ op = "size") \/ QueryFailed \/ Finish
    <3>1. ~(CollectChunks \/ CollectRegion \/ ChunkBefore)
      BY <2>1 DEF CollectChunks, CollectRegion, ChunkBefore
    <3>2. ~(MetadataHeader \/ MetadataPayload \/ CheckHeader \/ CheckData)
      BY <2>1 DEF MetadataHeader, MetadataPayload, CheckHeader, CheckData
    <3>3. ~(SearchChunks \/ SearchRecords \/ ReadPivot \/ JudgeChunk \/ JudgeRecord \/ Found)
      BY <2>1 DEF SearchChunks, SearchRecords, ReadPivot, JudgeChunk, JudgeRecord, Found
    <3>4. ~(StepBack \/ SteppedBack) BY <2>1 DEF StepBack, SteppedBack
    <3>5. ReportOnly => op = "size" BY <2>1 DEF ReportOnly
    <3> QED BY <2>4, <3>1, <3>2, <3>3, <3>4, <3>5 DEF QueryStep
  <2>5. \/ (Step \/ Grow) /\ UNCHANGED queryVars
        \/ UNCHANGED allVars
        \/ CountRecords \/ (ReportOnly /\ op = "size") \/ QueryFailed \/ Finish
    BY <1>4, <2>3, <2>4 DEF QNext
  <2>6. CASE Step /\ UNCHANGED queryVars
    <3>1. query' = query BY <2>6 DEF queryVars
    <3>2. op = "size" /\ pc \in {"peek", "recover", "resync", "region"}
      <4>1. op # "none"
        BY <2>2, <2>6
           DEF Step, Open, Preamble, TakeRecord, LoadHeader, LoadData, MeasureOrigin,
               ResolveScanOrigin, PeekHeader, Recover, Resync, ReportRegion
      <4> QED BY <1>2, <2>1, <4>1 DEF ScanControl
    <3>3. Recover \/ Resync
      BY <2>6, <3>2
         DEF Step, Open, Preamble, TakeRecord, LoadHeader, LoadData, MeasureOrigin,
             ResolveScanOrigin, PeekHeader, Recover, Resync, ReportRegion
    <3> QED BY <3>1, <3>2, <3>3, SizeLooks
  <2>7. CASE Grow /\ UNCHANGED queryVars
    <3>1. UNCHANGED <<query, op, pc, local>> BY <2>7 DEF Grow, queryVars, control
    <3> QED BY <1>1, <1>4, <3>1, SizeSame DEF SizeInv
  <2>8. CASE UNCHANGED allVars
    <3>1. UNCHANGED <<query, op, pc, local>> BY <2>8 DEF allVars, vars, queryVars, control
    <3> QED BY <1>1, <1>4, <3>1, SizeSame DEF SizeInv
  <2>9. CASE CountRecords BY <2>9, SizeCount
  <2>10. CASE ReportOnly /\ op = "size" BY <2>10, SizeReports
  <2>11. CASE QueryFailed
    <3>1. pc = "idle" /\ UNCHANGED op /\ query' = [query EXCEPT !.phase = "done", !.value = "error"]
      BY <2>11 DEF QueryFailed, Done, vars, control
    <3>2. op' = "none" BY <3>1 DEF QueryInv
    <3>3. query'.value = "error"
      <4>1. "value" \in DOMAIN query BY NoQueryFields DEF QueryInv
      <4> QED BY <3>1, <4>1
    <3> QED BY <3>2, <3>3 DEF SizeInv, SizeCounts, Returned
  <2>12. CASE Finish
    <3>1. query'.kind = "none" BY <2>12 DEF Finish, NoQuery
    <3> QED BY <3>1 DEF SizeInv
  <2> QED BY <2>5, <2>6, <2>7, <2>8, <2>9, <2>10, <2>11, <2>12
<1> QED BY <1>3, <1>4

(***************************************************************************)
(* size counts the records of every intact chunk that no region it         *)
(* reported touches, and no record that no readable header claims          *)
(* (RecordReader::size): for every file whose chunks are disjoint, damaged *)
(* and cut off anywhere, of any length and growing, with reads that fail.  *)
(***************************************************************************)
THEOREM QueriesSizeCounts == QSpec /\ ChunksDisjoint => []SizeCounts
<1> DEFINE Inv == QueryInv /\ MetadataInv /\ ReaderTypesInv /\ SizeInv /\ ChunksDisjoint
<1>1. QInit /\ ChunksDisjoint => Inv
  <2> SUFFICES ASSUME QInit, ChunksDisjoint PROVE Inv OBVIOUS
  <2>1. query.kind = "none" BY DEF QInit, NoQuery
  <2>2. SizeInv BY <2>1 DEF SizeInv
  <2> QED BY <2>2, QueryInit, TypesInit
<1>2. Inv /\ [QNext]_allVars => Inv'
  <2> SUFFICES ASSUME Inv, [QNext]_allVars PROVE Inv' OBVIOUS
  <2>1. UNCHANGED file BY QueryFileConstant
  <2>2. ChunksDisjoint' BY <2>1 DEF ChunksDisjoint
  <2> QED BY <2>2, QueryNext, TypesNext, SizeNext
<1>3. Inv => SizeCounts BY DEF SizeInv, SizeCounts, Returned
<1> HIDE DEF Inv
<1> QED BY <1>1, <1>2, <1>3, PTL DEF QSpec
=============================================================================
