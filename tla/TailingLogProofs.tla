-------------------------- MODULE TailingLogProofs --------------------------
(***************************************************************************)
(* A reader that tails a file being written returns the writer's records   *)
(* in order, each once and without a gap: for every block size, chunk size *)
(* and record size, and wherever the writes of the writer, their failures  *)
(* and the reads of the reader fall.                                       *)
(*                                                                         *)
(* The writer's part rests on RecordWriterProofs; of the reader, a chunk   *)
(* that it finds is the next one, and a record that it returns is the      *)
(* successor of the last.                                                  *)
(***************************************************************************)
EXTENDS TailingLog, RecordWriterProofs, FiniteSetTheorems

---------------------------------------------------------------------------
(* What a step of the writer does to the chunk in progress.                *)

(***************************************************************************)
(* A chunk begins at the position of the writer, is written, and ends      *)
(* there with its records published; or it is given up with an error.      *)
(***************************************************************************)
Begins == /\ Started /\ ~failed /\ ~io_error
          /\ chunk'.begin = file_pos
          /\ chunk'.type # "data" => chunk'.recs = <<>>
          /\ UNCHANGED <<file_pos, published, failed, io_error>>
Continues == /\ UNCHANGED <<published, failed, io_error>>
             /\ chunk'.end = chunk.end /\ chunk'.recs = chunk.recs
Ends == \/ /\ UNCHANGED <<file_pos, failed, io_error>> /\ file_pos >= chunk.end
           /\ published' = published \o chunk.recs
        \/ io_error' /\ UNCHANGED published
Rests == /\ UNCHANGED published
         /\ Started => UNCHANGED file_pos
         /\ ~Started /\ Started' => io_error' \/ file_pos' = SignatureEnd

Moves == /\ accepted' >= accepted
         /\ Started => Started'
         /\ failed => failed'
         /\ io_error => io_error'
         /\ ~InChunk /\ InChunk' => Begins
         /\ InChunk /\ InChunk' => Continues
         /\ InChunk /\ ~InChunk' => Ends
         /\ ~InChunk /\ ~InChunk' => Rests

\* An error return, of a step that writes or of one that encodes.
LEMMA FailMoves ==
    ASSUME WriterInv, Fail, UNCHANGED <<file_pos, published, accepted>>,
           io_error => io_error', InChunk => io_error', ~Started => io_error'
    PROVE  Moves
<1>1. ~InChunk' /\ Started' /\ (failed => failed')
  BY FailFacts DEF WriterInv, InChunk, Started
<1>2. accepted' >= accepted BY DEF WriterInv, TypeOK
<1> QED BY <1>1, <1>2 DEF Moves, Ends, Rests

LEMMA FailedWriteMoves == ASSUME WriterInv, NEW n, FailedWrite(n) PROVE Moves
BY FailMoves DEF FailedWrite

\* A step that neither begins a chunk nor ends one.
LEMMA RestMoves ==
    ASSUME WriterInv, ~InChunk, ~InChunk', Started, Started',
           UNCHANGED <<file_pos, published, failed>>, accepted' >= accepted,
           io_error => io_error'
    PROVE  Moves
BY DEF Moves, Rests

LEMMA ContinueMoves ==
    ASSUME WriterInv, InChunk, InChunk', UNCHANGED <<published, failed, io_error, accepted>>,
           chunk'.end = chunk.end, chunk'.recs = chunk.recs
    PROVE  Moves
<1>1. Started /\ Started' BY DEF InChunk, Started
<1>2. accepted' >= accepted BY DEF WriterInv, TypeOK
<1> QED BY <1>1, <1>2 DEF Moves, Continues

LEMMA BeginMoves ==
    ASSUME WriterInv, pc \in {"metadata", "flush_chunk", "pad_search"},
           NEW type, NEW recs, NEW size, NEW then,
           StartChunk(type, recs, size, then),
           UNCHANGED <<file_pos, failed, stream, history>>,
           type # "data" => recs = <<>>
    PROVE  Moves
<1>1. ~io_error /\ ~failed /\ Started /\ ~InChunk
  BY DEF WriterInv, ErrorInv, Started, InChunk
<1>2. /\ chunk'.begin = file_pos /\ chunk'.type = type /\ chunk'.recs = recs
      /\ InChunk' /\ Started'
  BY DEF StartChunk, InChunk, Started
<1>3. accepted' >= accepted BY DEF WriterInv, TypeOK, history
<1> QED BY <1>1, <1>2, <1>3 DEF Moves, Begins, stream, history

LEMMA CallMoves == ASSUME WriterInv, Call PROVE Moves /\ ~InChunk /\ ~InChunk'
<1>1. pc = "idle" /\ UNCHANGED <<fields, chunk, stream, history>>
      /\ pc' \in {"flush_chunk", "add", "padding", "flush_internal"}
  BY DEF Call, WriteRecord, Flush, Close, StartFlush
<1>2. accepted' >= accepted BY <1>1 DEF WriterInv, TypeOK, history
<1>3. Started /\ Started' /\ ~InChunk /\ ~InChunk' BY <1>1 DEF Started, InChunk
<1> QED BY <1>1, <1>2, <1>3, RestMoves DEF fields, stream, history

LEMMA StepMoves == ASSUME WriterInv, Step PROVE Moves
<1>0. accepted \in Nat BY DEF WriterInv, TypeOK
<1>1. CASE NewBlockHeader
  <2>1. CASE FailedWrite(BlockHeaderSize) BY <2>1, FailedWriteMoves
  <2>2. CASE ~FailedWrite(BlockHeaderSize)
    <3>1. pc = "block_header" /\ pc' = "signature"
          /\ UNCHANGED <<published, failed, accepted, io_error>>
      BY <1>1, <2>2 DEF NewBlockHeader, history
    <3> QED BY <1>0, <3>1 DEF Moves, Rests, Started, InChunk
  <2> QED BY <2>1, <2>2
<1>2. CASE NewSignature
  <2>1. CASE FailedWrite(ChunkHeaderSize) BY <2>1, FailedWriteMoves
  <2>2. CASE ~FailedWrite(ChunkHeaderSize)
    <3>1. pc = "signature" /\ pc' \in {"metadata", "idle"}
          /\ file_pos' = file_pos + ChunkHeaderSize
          /\ UNCHANGED <<published, failed, accepted, io_error>>
      BY <1>2, <2>2 DEF NewSignature, history
    <3>2. file_pos' = SignatureEnd BY <3>1 DEF WriterInv, StartInv, SignatureEnd
    <3> QED BY <1>0, <3>1, <3>2 DEF Moves, Rests, Started, InChunk
  <2> QED BY <2>1, <2>2
<1>3. CASE WriteMetadata
  <2>1. pc = "metadata" /\ UNCHANGED <<file_pos, stream, history>>
    BY <1>3 DEF WriteMetadata
  <2>2. CASE Fail BY <2>1, <2>2, FailMoves DEF stream, history, InChunk, Started
  <2>3. CASE ~Fail
    <3>1. PICK size \in DataSizes : StartChunk("metadata", <<>>, size, "return")
                                    /\ failed' = failed
      BY <1>3, <2>3 DEF WriteMetadata
    <3> QED BY <2>1, <3>1, BeginMoves
  <2> QED BY <2>2, <2>3
<1>4. CASE WriteBlockHeader
  <2>1. CASE FailedWrite(BlockHeaderSize) BY <2>1, FailedWriteMoves
  <2>2. CASE ~FailedWrite(BlockHeaderSize)
    <3>1. InChunk /\ UNCHANGED <<control, published, failed, accepted, io_error>>
      BY <1>4, <2>2 DEF WriteBlockHeader, AtBoundary, InChunk, history
    <3> QED BY <3>1, ContinueMoves DEF InChunk, control
  <2> QED BY <2>1, <2>2
<1>5. CASE WriteBytes
  <2> DEFINE n == Smaller(chunk.size - chunk.offset, BlockSize - (file_pos % BlockSize))
  <2>1. CASE FailedWrite(n) BY <2>1, FailedWriteMoves
  <2>2. CASE ~FailedWrite(n)
    <3>1. /\ pc = "data" /\ pc' \in {"data", "pad"}
          /\ UNCHANGED <<published, failed, accepted, io_error>>
          /\ chunk' = [chunk EXCEPT !.offset = @ + n]
      BY <1>5, <2>2 DEF WriteBytes, history
    <3> HIDE DEF n
    <3>2. chunk'.end = chunk.end /\ chunk'.recs = chunk.recs
      BY <3>1 DEF WriterInv, TypeOK
    <3> QED BY <3>1, <3>2, ContinueMoves DEF InChunk
  <2> QED BY <2>1, <2>2
<1>6. CASE WriteZeros
  <2> DEFINE n == Smaller(chunk.end - file_pos, BlockSize - (file_pos % BlockSize))
  <2>1. CASE FailedWrite(n) BY <2>1, FailedWriteMoves
  <2>2. CASE ~FailedWrite(n)
    <3>1. InChunk /\ UNCHANGED <<control, published, failed, accepted, io_error>>
      BY <1>6, <2>2 DEF WriteZeros, InChunk, history
    <3> QED BY <3>1, ContinueMoves DEF InChunk, control
  <2> QED BY <2>1, <2>2
<1>7. CASE ChunkWritten
  <2>1. /\ pc = "pad" /\ file_pos >= chunk.end
        /\ published' = published \o chunk.recs
        /\ UNCHANGED <<file_pos, failed, accepted, io_error>>
        /\ pc' \in {"idle", "flush_internal", "gone", "add", "padding", "sync"}
    <3>1. after \in {"return", "add", "padding", "sync"} BY DEF WriterInv, TypeOK
    <3>2. pc' \in {"idle", "flush_internal", "gone", "add", "padding", "sync"}
      BY <1>7, <3>1, LeaveFacts DEF ChunkWritten, Return
    <3> QED BY <1>7, <3>2 DEF ChunkWritten, fields, history
  <2> QED BY <1>0, <2>1 DEF Moves, Ends, Started, InChunk
<1>8. CASE FlushChunk
  <2>1. pc = "flush_chunk" /\ UNCHANGED <<file_pos, stream, history>>
    BY <1>8 DEF FlushChunk
  <2>2. CASE Fail BY <2>1, <2>2, FailMoves DEF stream, history, InChunk, Started
  <2>3. CASE ~Fail
    <3>1. PICK size \in DataSizes : StartChunk("data", encoder, size, after)
                                    /\ failed' = failed
      BY <1>8, <2>3 DEF FlushChunk
    <3> QED BY <2>1, <3>1, BeginMoves
  <2> QED BY <2>2, <2>3
<1>9. CASE AddRecord
  <2>1. pc = "add" /\ UNCHANGED <<file_pos, stream, io_error>>
    BY <1>9 DEF AddRecord
  <2>2. CASE Fail /\ UNCHANGED <<encoder, accepted>>
    BY <2>1, <2>2, FailMoves DEF stream, InChunk, Started
  <2>3. CASE ~(Fail /\ UNCHANGED <<encoder, accepted>>)
    <3>1. /\ accepted' = accepted + 1 /\ failed' = failed
          /\ pc' \in {"flush_chunk", "idle", "flush_internal", "gone"}
      BY <1>9, <2>3, LeaveFacts DEF AddRecord, Return
    <3> QED BY <1>0, <2>1, <3>1, RestMoves DEF InChunk, Started, stream
  <2> QED BY <2>2, <2>3
<1>10. CASE FlushInternal
  <2>1. /\ pc = "flush_internal"
        /\ pc' \in {"idle", "flush_internal", "gone", "flush_chunk", "padding"}
        /\ UNCHANGED <<file_pos, failed, stream, history>>
    BY <1>10, LeaveFacts DEF FlushInternal, StartFlush
  <2> QED BY <1>0, <2>1, RestMoves DEF InChunk, Started, stream, history
<1>11. CASE StartPadding
  <2>1. /\ pc = "padding" /\ pc' \in {"sync", "pad_search"}
        /\ UNCHANGED <<fields, stream, history>>
    BY <1>11 DEF StartPadding
  <2> QED BY <1>0, <2>1, RestMoves DEF InChunk, Started, fields, stream, history
<1>12. CASE SearchPadding
  <2> DEFINE n == distance_without_overhead(chunk.begin, chunk.end) - ChunkHeaderSize
  <2>1. pc = "pad_search" /\ UNCHANGED <<file_pos, failed, stream, history>>
    BY <1>12 DEF SearchPadding
  <2>2. CASE PaddingFits
    <3>1. StartChunk("padding", <<>>, n, "sync") BY <1>12, <2>2 DEF SearchPadding
    <3> HIDE DEF n
    <3> QED BY <2>1, <3>1, BeginMoves
  <2>3. CASE ~PaddingFits
    <3>1. pc' = pc BY <1>12, <2>3 DEF SearchPadding
    <3> QED BY <1>0, <2>1, <3>1, RestMoves DEF InChunk, Started, stream, history
  <2> QED BY <2>2, <2>3
<1>13. CASE Sync
  <2>1. pc = "sync" /\ UNCHANGED <<file_pos, published, accepted>> BY <1>13 DEF Sync
  <2>2. CASE io_error' = TRUE /\ Fail BY <2>1, <2>2, FailMoves DEF InChunk, Started
  <2>3. CASE Return /\ UNCHANGED <<failed, io_error>>
    <3>1. pc' \in {"idle", "flush_internal", "gone"} BY <2>3, LeaveFacts DEF Return
    <3> QED BY <1>0, <2>1, <2>3, <3>1, RestMoves DEF InChunk, Started
  <2> QED BY <1>13, <2>2, <2>3 DEF Sync
<1> QED
  BY <1>1, <1>2, <1>3, <1>4, <1>5, <1>6, <1>7, <1>8, <1>9, <1>10, <1>11, <1>12,
     <1>13 DEF Step
---------------------------------------------------------------------------
(* The chunks, as the writer lays them. *)

\* The chunks as a sequence.
LEMMA LaidFacts ==
    ASSUME LaidInv
    PROVE  /\ Len(laid) \in Nat /\ Len(laid) > 0 /\ DOMAIN laid = 1 .. Len(laid)
           /\ \A i \in DOMAIN laid :
                /\ laid[i] \in LaidChunk
                /\ laid[i].begin \in Nat /\ laid[i].end \in Nat
                /\ laid[i].recs \in Seq(Nat)
                /\ Len(laid[i].recs) \in Nat
                /\ DOMAIN laid[i].recs = 1 .. Len(laid[i].recs)
                /\ \A k \in DOMAIN laid[i].recs : laid[i].recs[k] \in Nat
<1>1. laid \in Seq(LaidChunk) /\ laid # <<>> BY DEF LaidInv
<1>2. Len(laid) \in Nat /\ DOMAIN laid = 1 .. Len(laid)
      /\ \A i \in DOMAIN laid : laid[i] \in LaidChunk
  BY <1>1
<1>3. Len(laid) > 0 BY <1>1, <1>2
<1>4. ASSUME NEW i \in DOMAIN laid
      PROVE  /\ laid[i].begin \in Nat /\ laid[i].end \in Nat
             /\ laid[i].recs \in Seq(Nat)
  BY <1>2 DEF LaidChunk
<1>5. ASSUME NEW r \in Seq(Nat)
      PROVE  Len(r) \in Nat /\ DOMAIN r = 1 .. Len(r) /\ \A k \in DOMAIN r : r[k] \in Nat
  OBVIOUS
<1> QED BY <1>2, <1>3, <1>4, <1>5

\* One more chunk.
LEMMA Appended ==
    ASSUME LaidInv, NEW c \in LaidChunk, laid' = Append(laid, c)
    PROVE  /\ laid' \in Seq(LaidChunk) /\ laid' # <<>>
           /\ Len(laid') = Len(laid) + 1
           /\ DOMAIN laid' = DOMAIN laid \cup {Len(laid) + 1}
           /\ Len(laid) + 1 \notin DOMAIN laid
           /\ \A i \in DOMAIN laid : laid'[i] = laid[i] /\ i < Len(laid) + 1
           /\ laid'[Len(laid) + 1] = c
<1>1. laid \in Seq(LaidChunk) BY DEF LaidInv
<1>2. Len(laid) \in Nat /\ DOMAIN laid = 1 .. Len(laid) BY LaidFacts
<1>3. /\ laid' \in Seq(LaidChunk) /\ Len(laid') = Len(laid) + 1
      /\ \A i \in 1 .. Len(laid) : laid'[i] = laid[i]
      /\ laid'[Len(laid) + 1] = c
  BY <1>1, AppendProperties
<1>4. DOMAIN laid' = 1 .. Len(laid) + 1 BY <1>3
<1>5. laid' # <<>> BY <1>2, <1>3
<1> QED BY <1>2, <1>3, <1>4, <1>5

Lays == laid' = IF InChunk' /\ ~InChunk THEN Append(laid, chunk') ELSE laid

\* The chunk that a step begins.
LEMMA BegunChunk ==
    ASSUME WriterInv, WriterInv', LaidInv, Begins, ~InChunk, InChunk'
    PROVE  /\ chunk' \in LaidChunk
           /\ chunk'.begin = LastLaid.end
           /\ is_possible_chunk_boundary(chunk'.end)
           /\ chunk'.begin < chunk'.end
           /\ chunk'.begin + Len(chunk'.recs) <= chunk'.end
           /\ chunk'.type # "data" => chunk'.recs = <<>>
<1>1. chunk' \in ChunkRecord BY DEF WriterInv, TypeOK, ChunkRecord
<1>2. /\ chunk'.type # "none" /\ is_possible_chunk_boundary(chunk'.end)
      /\ chunk'.begin < chunk'.end /\ chunk'.end >= chunk'.begin + Len(chunk'.recs)
  BY DEF WriterInv, ChunkInv
<1>3. chunk' \in LaidChunk BY <1>1, <1>2 DEF ChunkRecord, LaidChunk
<1>4. chunk'.begin = LastLaid.end BY DEF Begins, LaidInv
<1>5. chunk'.begin + Len(chunk'.recs) <= chunk'.end
  <2>1. chunk'.recs \in Seq(Nat) /\ chunk'.begin \in Nat /\ chunk'.end \in Nat
    BY <1>1 DEF ChunkRecord
  <2>2. Len(chunk'.recs) \in Nat BY <2>1
  <2> QED BY <1>2, <2>1, <2>2
<1> QED BY <1>2, <1>3, <1>4, <1>5 DEF Begins

LEMMA LaidKept ==
    ASSUME WriterInv, WriterInv', LaidInv, Moves, Lays
    PROVE  LaidInv'
<1>1. CASE ~InChunk /\ InChunk'
  <2>1. laid' = Append(laid, chunk') BY <1>1 DEF Lays
  <2>2. Begins BY <1>1 DEF Moves
  <2>3. /\ chunk' \in LaidChunk
        /\ chunk'.begin = LastLaid.end
        /\ is_possible_chunk_boundary(chunk'.end)
        /\ chunk'.begin < chunk'.end
        /\ chunk'.begin + Len(chunk'.recs) <= chunk'.end
        /\ chunk'.type # "data" => chunk'.recs = <<>>
    BY <1>1, <2>2, BegunChunk
  <2> DEFINE n == Len(laid) + 1
  <2>4. /\ laid' \in Seq(LaidChunk) /\ laid' # <<>>
        /\ Len(laid') = n
        /\ DOMAIN laid' = DOMAIN laid \cup {n}
        /\ n \notin DOMAIN laid
        /\ \A i \in DOMAIN laid : laid'[i] = laid[i] /\ i < n
        /\ laid'[n] = chunk'
    BY <2>1, <2>3, Appended
  <2>5. Len(laid) \in Nat /\ Len(laid) > 0 /\ DOMAIN laid = 1 .. Len(laid)
    BY LaidFacts
  <2>6. n \in Nat /\ n > Len(laid) BY <2>5
  <2> HIDE DEF n
  <2>7. laid'[1] = SignatureChunk BY <2>4, <2>5 DEF LaidInv
  <2>8. ASSUME NEW i \in DOMAIN laid'
        PROVE  /\ is_possible_chunk_boundary(laid'[i].end)
               /\ laid'[i].begin < laid'[i].end
               /\ laid'[i].begin + Len(laid'[i].recs) <= laid'[i].end
               /\ laid'[i].type # "data" => laid'[i].recs = <<>>
    <3>1. CASE i = n BY <3>1, <2>3, <2>4
    <3>2. CASE i # n BY <3>2, <2>4 DEF LaidInv
    <3> QED BY <3>1, <3>2
  <2>9. ASSUME NEW i \in DOMAIN laid', NEW j \in DOMAIN laid', i < j
        PROVE  laid'[i].end <= laid'[j].begin
    <3>1. i # n BY <2>4, <2>5, <2>6, <2>9
    <3>2. i \in DOMAIN laid /\ laid'[i] = laid[i] BY <3>1, <2>4
    <3>3. CASE j # n BY <3>2, <3>3, <2>4, <2>9 DEF LaidInv
    <3>4. CASE j = n
      <4>1. laid'[j].begin = laid[Len(laid)].end BY <3>4, <2>3, <2>4 DEF LastLaid
      <4>2. CASE i = Len(laid) BY <4>1, <4>2, <3>2, LaidFacts
      <4>3. CASE i < Len(laid)
        <5>1. laid[i].end <= laid[Len(laid)].begin
              /\ laid[Len(laid)].begin < laid[Len(laid)].end
          BY <3>2, <4>3, <2>5 DEF LaidInv
        <5>2. laid[i].end \in Nat /\ laid[Len(laid)].begin \in Nat
              /\ laid[Len(laid)].end \in Nat
          BY <3>2, <2>5, LaidFacts
        <5> QED BY <4>1, <3>2, <5>1, <5>2
      <4> QED BY <3>2, <4>2, <4>3, <2>5
    <3> QED BY <3>3, <3>4
  <2>10. InChunk' => chunk'.end = LastLaid'.end BY <2>4 DEF LastLaid
  <2>11. Started' BY <1>1 DEF Started, InChunk
  <2> QED BY <1>1, <2>4, <2>7, <2>8, <2>9, <2>10, <2>11 DEF LaidInv
<1>2. CASE ~(~InChunk /\ InChunk')
  <2>1. laid' = laid BY <1>2 DEF Lays
  <2>2. LastLaid' = LastLaid BY <2>1 DEF LastLaid
  <2>3. InChunk' => chunk'.end = LastLaid'.end
    BY <1>2, <2>2 DEF Moves, Continues, LaidInv
  <2>4. Started' /\ ~InChunk' /\ ~io_error' => file_pos' = LastLaid'.end
    <3> SUFFICES ASSUME Started', ~InChunk', ~io_error' PROVE file_pos' = LastLaid.end
      BY <2>2
    <3>1. ~io_error BY DEF Moves
    <3>2. CASE InChunk
      <4>1. file_pos' = file_pos /\ file_pos >= chunk.end BY <3>2 DEF Moves, Ends
      <4>2. file_pos <= chunk.end /\ file_pos \in Nat /\ chunk.end \in Nat
        BY <3>2 DEF WriterInv, TypeOK, ChunkInv
      <4>3. chunk.end = LastLaid.end BY <3>2 DEF LaidInv
      <4> QED BY <4>1, <4>2, <4>3
    <3>3. CASE ~InChunk /\ Started BY <3>1, <3>3 DEF Moves, Rests, LaidInv
    <3>4. CASE ~InChunk /\ ~Started
      <4>1. file_pos' = SignatureEnd BY <3>4 DEF Moves, Rests
      <4>2. LastLaid = SignatureChunk
        <5>1. laid = <<SignatureChunk>> BY <3>4 DEF LaidInv
        <5> QED BY <5>1 DEF LastLaid
      <4> QED BY <4>1, <4>2 DEF SignatureChunk, NoChunk
    <3> QED BY <3>2, <3>3, <3>4
  <2>5. ~Started' => laid' = <<SignatureChunk>> BY <2>1 DEF Moves, LaidInv
  <2> QED BY <2>1, <2>3, <2>4, <2>5 DEF LaidInv
<1> QED BY <1>1, <1>2

---------------------------------------------------------------------------
(* The records in the chunks. *)

\* The records of a chunk that is being written follow the published ones.
LEMMA ChunkNumbers ==
    ASSUME RecordsInv, InChunk, ~failed, ~io_error
    PROVE  /\ chunk.recs \in Seq(Nat)
           /\ Len(published) + Len(chunk.recs) = accepted
           /\ \A k \in DOMAIN chunk.recs : chunk.recs[k] = Len(published) + k
<1>1. published \in Seq(Nat) /\ chunk.recs \in Seq(Nat) /\ accepted \in Nat
  BY DEF RecordsInv, RecordTypes
<1>2. encoder = <<>> BY DEF RecordsInv, BatchInv
<1>3. published \o chunk.recs = InOrder
  <2>1. published \o chunk.recs \o encoder = InOrder BY DEF RecordsInv, RecordsConserved
  <2>2. published \o chunk.recs \in Seq(Nat) BY <1>1, ConcatProperties
  <2> QED BY <1>2, <2>1, <2>2, ConcatEmptySeq
<1>4. Len(InOrder) = accepted BY <1>1, InOrderFacts
<1>5. Len(published) \in Nat /\ Len(chunk.recs) \in Nat
      /\ DOMAIN chunk.recs = 1 .. Len(chunk.recs)
  BY <1>1
<1>6. Len(published) + Len(chunk.recs) = accepted BY <1>1, <1>3, <1>4, ConcatProperties
<1>7. ASSUME NEW k \in DOMAIN chunk.recs PROVE chunk.recs[k] = Len(published) + k
  <2>1. /\ Len(published) + k \in Len(published) + 1 .. Len(published) + Len(chunk.recs)
        /\ (Len(published) + k) - Len(published) = k
        /\ Len(published) + k \in 1 .. accepted
    BY <1>5, <1>6
  <2>2. (published \o chunk.recs)[Len(published) + k] = chunk.recs[k]
    BY <1>1, <2>1, ConcatProperties
  <2>3. InOrder[Len(published) + k] = Len(published) + k BY <2>1 DEF InOrder
  <2> QED BY <1>3, <2>2, <2>3
<1> QED BY <1>1, <1>6, <1>7

\* The same in the next state.
LEMMA ChunkNumbersNext ==
    (RecordsInv /\ InChunk /\ ~failed /\ ~io_error)' =>
      /\ chunk'.recs \in Seq(Nat)
      /\ Len(published') + Len(chunk'.recs) = accepted'
      /\ \A k \in DOMAIN chunk'.recs : chunk'.recs[k] = Len(published') + k
<1> DEFINE P == RecordsInv /\ InChunk /\ ~failed /\ ~io_error
           Q == /\ chunk.recs \in Seq(Nat)
                /\ Len(published) + Len(chunk.recs) = accepted
                /\ \A k \in DOMAIN chunk.recs : chunk.recs[k] = Len(published) + k
<1>1. P => Q BY ChunkNumbers
<1> HIDE DEF P, Q
<1>2. P' => Q' BY <1>1, PTL
<1> QED BY <1>2 DEF P, Q

\* The records of a chunk that begins are those behind the ones laid.
LEMMA BegunNumbers ==
    ASSUME WriterInv, RecordsInv, RecordsInv', LaidInv, NEW m \in Nat, Holds(m),
           Begins, ~InChunk, InChunk'
    PROVE  /\ chunk'.recs \in Seq(Nat)
           /\ m + Len(chunk'.recs) = accepted'
           /\ m + Len(chunk'.recs) = Len(published') + Len(chunk'.recs)
           /\ \A k \in DOMAIN chunk'.recs : chunk'.recs[k] = m + k
<1>1. ~failed /\ ~io_error /\ ~failed' /\ ~io_error' /\ published' = published
  BY DEF Begins
<1>2. /\ chunk'.recs \in Seq(Nat)
      /\ Len(published') + Len(chunk'.recs) = accepted'
      /\ \A k \in DOMAIN chunk'.recs : chunk'.recs[k] = Len(published') + k
  BY <1>1, ChunkNumbersNext
<1>3. Len(published) \in Nat BY DEF RecordsInv, RecordTypes
<1>4. m = Len(published)
  <2>1. chunk.recs = <<>> BY DEF RecordsInv, BatchInv
  <2>2. Len(chunk.recs) = 0 BY <2>1
  <2> QED BY <1>1, <1>3, <2>2 DEF Holds
<1> QED BY <1>1, <1>2, <1>4

LEMMA NumbersKept ==
    ASSUME WriterInv, WriterInv', RecordsInv, RecordsInv', LaidInv, NumbersInv, Moves, Lays
    PROVE  NumbersInv'
<1>0. accepted \in Nat /\ accepted' \in Nat BY DEF RecordsInv, RecordTypes
<1>1. PICK m \in 0 .. accepted : Holds(m) BY DEF NumbersInv
<1>2. CASE ~InChunk /\ InChunk'
  <2>1. laid' = Append(laid, chunk') BY <1>2 DEF Lays
  <2>2. Begins BY <1>2 DEF Moves
  <2>3. chunk' \in LaidChunk BY <1>2, <2>2, BegunChunk
  <2> DEFINE N == Len(laid) + 1
  <2>4. /\ DOMAIN laid' = DOMAIN laid \cup {N}
        /\ N \notin DOMAIN laid
        /\ \A i \in DOMAIN laid : laid'[i] = laid[i] /\ i < N
        /\ laid'[N] = chunk'
    BY <2>1, <2>3, Appended
  <2>5. N \in Nat BY LaidFacts
  <2> HIDE DEF N
  <2>6. PICK q :
        /\ chunk'.recs \in Seq(Nat)
        /\ q = m + Len(chunk'.recs)
        /\ q = accepted'
        /\ q = Len(published') + Len(chunk'.recs)
        /\ \A k \in DOMAIN chunk'.recs : chunk'.recs[k] = m + k
    BY <1>0, <1>1, <1>2, <2>2, BegunNumbers
  <2>7. Len(chunk'.recs) \in Nat /\ DOMAIN chunk'.recs = 1 .. Len(chunk'.recs)
    BY <2>6
  <2>8. m \in Nat /\ q \in Nat /\ q >= m BY <1>0, <2>6, <2>7
  <2>9. Holds(q)'
    <3>1. ASSUME NEW n \in 1 .. q PROVE \E i \in DOMAIN laid' : IsIn(n, i)'
      <4>1. CASE n <= m
        <5>1. PICK i \in DOMAIN laid : IsIn(n, i) BY <1>1, <4>1, <2>8 DEF Holds
        <5> QED BY <5>1, <2>4 DEF IsIn
      <4>2. CASE n > m
        <5>1. n - m \in DOMAIN chunk'.recs /\ m + (n - m) = n
          BY <4>2, <2>6, <2>7, <2>8
        <5>2. chunk'.recs[n - m] = n BY <5>1, <2>6
        <5> QED BY <5>1, <5>2, <2>4 DEF IsIn
      <4> QED BY <4>1, <4>2, <2>8
    <3>2. ASSUME NEW i \in DOMAIN laid', NEW k \in DOMAIN laid'[i].recs
          PROVE  laid'[i].recs[k] \in 1 .. q
      <4>1. CASE i = N
        <5>1. k \in 1 .. Len(chunk'.recs) /\ laid'[i].recs[k] = m + k
          BY <4>1, <2>4, <2>6, <2>7
        <5> QED BY <5>1, <2>6, <2>7, <2>8
      <4>2. CASE i # N
        <5>1. laid'[i].recs[k] \in 1 .. m BY <4>2, <2>4, <1>1 DEF Holds
        <5> QED BY <5>1, <2>8
      <4> QED BY <4>1, <4>2
    <3> QED BY <3>1, <3>2, <2>6 DEF Holds
  <2>10. \E x \in 0 .. accepted' : Holds(x)' BY <2>6, <2>8, <2>9
  <2>11. ASSUME NEW i \in DOMAIN laid', NEW j \in DOMAIN laid',
                NEW k \in DOMAIN laid'[i].recs, NEW l \in DOMAIN laid'[j].recs,
                i < j \/ (i = j /\ k < l)
         PROVE  laid'[i].recs[k] < laid'[j].recs[l]
    <3>0. DOMAIN laid = 1 .. Len(laid) BY LaidFacts
    <3>1. CASE j # N
      <4>1. i # N BY <3>0, <3>1, <2>4, <2>5, <2>11
      <4> QED BY <3>1, <4>1, <2>4, <2>11 DEF NumbersInv
    <3>2. CASE j = N /\ i = N
      <4>1. /\ k \in 1 .. Len(chunk'.recs) /\ l \in 1 .. Len(chunk'.recs) /\ k < l
            /\ laid'[i].recs[k] = m + k /\ laid'[j].recs[l] = m + l
        BY <3>2, <2>4, <2>5, <2>6, <2>7, <2>11
      <4> QED BY <4>1, <2>7, <2>8
    <3>3. CASE j = N /\ i # N
      <4>1. laid'[i].recs[k] \in 1 .. m BY <3>3, <2>4, <1>1 DEF Holds
      <4>2. l \in 1 .. Len(chunk'.recs) /\ laid'[j].recs[l] = m + l
        BY <3>3, <2>4, <2>6, <2>7
      <4> QED BY <4>1, <4>2, <2>7, <2>8
    <3> QED BY <3>1, <3>2, <3>3
  <2> QED BY <2>10, <2>11 DEF NumbersInv
<1>3. CASE ~(~InChunk /\ InChunk')
  <2>1. laid' = laid BY <1>3 DEF Lays
  <2>2. ~failed' /\ ~io_error' => m = Len(published') + Len(chunk'.recs)
    <3> SUFFICES ASSUME ~failed', ~io_error' PROVE m = Len(published') + Len(chunk'.recs)
      OBVIOUS
    <3>1. m = Len(published) + Len(chunk.recs) BY <1>1 DEF Moves, Holds
    <3>2. CASE InChunk /\ InChunk' BY <3>1, <3>2 DEF Moves, Continues
    <3>3. CASE InChunk /\ ~InChunk'
      <4>1. published' = published \o chunk.recs BY <3>3 DEF Moves, Ends
      <4>2. chunk'.recs = <<>> BY <3>3 DEF RecordsInv, BatchInv
      <4>3. published \in Seq(Nat) /\ chunk.recs \in Seq(Nat)
        BY DEF RecordsInv, RecordTypes
      <4>4. Len(published') = Len(published) + Len(chunk.recs)
        BY <4>1, <4>3, ConcatProperties
      <4>5. Len(chunk'.recs) = 0 BY <4>2
      <4>6. Len(published) \in Nat /\ Len(chunk.recs) \in Nat BY <4>3
      <4> QED BY <3>1, <4>4, <4>5, <4>6
    <3>4. CASE ~InChunk /\ ~InChunk'
      <4>1. chunk.recs = <<>> /\ chunk'.recs = <<>> BY <3>4 DEF RecordsInv, BatchInv
      <4> QED BY <3>1, <3>4, <4>1 DEF Moves, Rests
    <3> QED BY <1>3, <3>2, <3>3, <3>4
  <2>3. Holds(m)' BY <1>1, <2>1, <2>2 DEF Holds, IsIn
  <2>4. m \in 0 .. accepted' BY <1>0, <1>1 DEF Moves
  <2> QED BY <2>1, <2>3, <2>4 DEF NumbersInv
<1> QED BY <1>2, <1>3

(***************************************************************************)
(* The writer's steps leave the reader where it stands: the chunk it       *)
(* begins lies behind, with records that have not been returned.           *)
(***************************************************************************)
LEMMA ReaderKept ==
    ASSUME WriterInv, WriterInv', RecordsInv, RecordsInv', LaidInv, NumbersInv, Moves, Lays,
           ReaderInv, UNCHANGED readerVars
    PROVE  ReaderInv'
<1>0. accepted \in Nat /\ accepted' \in Nat /\ accepted' >= accepted
  BY DEF RecordsInv, RecordTypes, Moves
<1>1. PICK m \in DOMAIN laid, n \in 0 .. accepted : Stands(m) /\ Returned(m, n)
  BY DEF ReaderInv
<1>2. n \in 0 .. accepted' BY <1>0
<1>3. UNCHANGED <<recovery, current_chunk_begin, next_chunk_file_pos, current_decoder,
                  current_record_index, reader_op, reader_pc, local, delivered, io_errors>>
  BY DEF readerVars
<1>4. m \in DOMAIN laid' /\ Stands(m)' /\ Returned(m, n)'
  <2>1. CASE laid' = laid BY <1>1, <1>3, <2>1 DEF Stands, Returned, Passed, IsIn
  <2>2. CASE laid' # laid
    <3>1. ~InChunk /\ InChunk' /\ laid' = Append(laid, chunk') BY <2>2 DEF Lays
    <3>2. Begins BY <3>1 DEF Moves
    <3>3. chunk' \in LaidChunk BY <3>1, <3>2, BegunChunk
    <3> DEFINE N == Len(laid) + 1
    <3>4. /\ DOMAIN laid' = DOMAIN laid \cup {N}
          /\ N \notin DOMAIN laid
          /\ \A i \in DOMAIN laid : laid'[i] = laid[i] /\ i < N
          /\ laid'[N] = chunk'
      BY <3>1, <3>3, Appended
    <3>5. N \in Nat /\ m < N /\ DOMAIN laid = 1 .. Len(laid) BY <3>4, LaidFacts
    <3> HIDE DEF N
    <3>6. PICK q \in 0 .. accepted : Holds(q) BY DEF NumbersInv
    <3>7. chunk'.recs \in Seq(Nat) /\ \A k \in DOMAIN chunk'.recs : chunk'.recs[k] = q + k
      BY <1>0, <3>1, <3>2, <3>6, BegunNumbers
    <3>8. n <= q
      <4>1. CASE n = 0 BY <4>1, <3>6
      <4>2. CASE n # 0
        <5>1. PICK i \in DOMAIN laid : IsIn(n, i) BY <1>1, <4>2 DEF Returned
        <5> QED BY <5>1, <3>6 DEF Holds, IsIn
      <4> QED BY <4>1, <4>2
    <3>9. ASSUME NEW k \in DOMAIN laid'[N].recs
          PROVE  ~(laid'[N].recs[k] <= n) /\ ~Passed(m, N, k)
      <4>1. k \in 1 .. Len(chunk'.recs) /\ laid'[N].recs[k] = q + k
        BY <3>4, <3>7
      <4>2. Len(chunk'.recs) \in Nat BY <3>7
      <4>3. laid'[N].recs[k] > n BY <1>0, <3>6, <3>8, <4>1, <4>2
      <4>4. ~Passed(m, N, k) BY <1>1, <3>5 DEF Passed
      <4> QED BY <1>0, <3>6, <4>1, <4>2, <4>3, <4>4
    <3>10. Stands(m)'
      <4>1. laid'[m] = laid[m] BY <3>4
      <4> QED BY <1>1, <1>3, <4>1, <3>4 DEF Stands
    <3>11. \A i, k : Passed(m, i, k)' <=> Passed(m, i, k) BY <1>3 DEF Passed
    <3>12. Returned(m, n)'
      <4>1. n = 0 \/ \E i \in DOMAIN laid' : IsIn(n, i)'
        BY <1>1, <3>4 DEF Returned, IsIn
      <4>2. ASSUME NEW i \in DOMAIN laid', NEW k \in DOMAIN laid'[i].recs
            PROVE  /\ laid'[i].recs[k] <= n <=> Passed(m, i, k)'
                   /\ laid'[i].recs[k] <= n => laid'[i].begin + k - 1 \in delivered'
        <5>1. CASE i = N BY <5>1, <3>9, <3>11
        <5>2. CASE i # N
          <6>1. i \in DOMAIN laid /\ laid'[i] = laid[i] BY <5>2, <3>4
          <6> QED BY <6>1, <1>1, <1>3, <3>11 DEF Returned
        <5> QED BY <5>1, <5>2
      <4>3. ASSUME NEW p \in delivered'
            PROVE  \E i \in DOMAIN laid' : \E k \in DOMAIN laid'[i].recs :
                     laid'[i].recs[k] <= n /\ p = laid'[i].begin + k - 1
        <5>1. PICK i \in DOMAIN laid : \E k \in DOMAIN laid[i].recs :
                laid[i].recs[k] <= n /\ p = laid[i].begin + k - 1
          BY <1>1, <1>3 DEF Returned
        <5>2. i \in DOMAIN laid' /\ laid'[i] = laid[i] BY <3>4
        <5> QED BY <5>1, <5>2
      <4>4. IsFiniteSet(delivered') /\ Cardinality(delivered') = n
        BY <1>1, <1>3 DEF Returned
      <4> QED BY <4>1, <4>2, <4>3, <4>4 DEF Returned
    <3> QED BY <3>4, <3>10, <3>12
  <2> QED BY <2>1, <2>2
<1>5. /\ recovery' = FALSE /\ io_errors' = 0 /\ "chunk" \in DOMAIN local'
      /\ reader_pc' \in {"open", "preamble", "idle", "record", "header", "data", "recover",
                         "gone"}
      /\ reader_pc' \in {"open", "preamble"} => reader_op' = "new"
      /\ reader_pc' \in {"record", "header", "data"} => reader_op' = "read_record"
  BY <1>3 DEF ReaderInv
<1> QED BY <1>2, <1>4, <1>5 DEF ReaderInv

---------------------------------------------------------------------------
(* What the reader finds in the file. *)

LEMMA View ==
    ASSUME file = FileView
    PROVE  /\ DOMAIN Reader!Chunks = DOMAIN laid
           /\ \A i \in DOMAIN laid : Reader!Chunk(i) = Described(laid[i])
BY DEF FileView, Reader!Chunks, Reader!Chunk

\* Chunks that are laid one behind the other can be told apart by where they
\* begin; and none begins between two neighbours.
LEMMA LaidApart ==
    ASSUME LaidInv, NEW i \in DOMAIN laid, NEW j \in DOMAIN laid, i < j
    PROVE  /\ laid[i].begin + Len(laid[i].recs) <= laid[i].end
           /\ laid[i].begin < laid[i].end
           /\ laid[i].end <= laid[j].begin
           /\ laid[j].begin < laid[j].end
BY DEF LaidInv

LEMMA NextLaid ==
    ASSUME LaidInv, NEW m \in DOMAIN laid, NEW i \in DOMAIN laid,
           laid[i].begin = laid[m].end
    PROVE  i = m + 1
<1>1. DOMAIN laid = 1 .. Len(laid) /\ Len(laid) \in Nat BY LaidFacts
<1>2. /\ laid[i].begin \in Nat /\ laid[i].end \in Nat
      /\ laid[m].begin \in Nat /\ laid[m].end \in Nat
  BY LaidFacts
<1>3. laid[i].begin < laid[i].end /\ laid[m].begin < laid[m].end BY DEF LaidInv
<1>4. ~(i < m)
  <2> SUFFICES ASSUME i < m PROVE FALSE OBVIOUS
  <2>1. laid[i].end <= laid[m].begin BY DEF LaidInv
  <2> QED BY <2>1, <1>2, <1>3
<1>5. i # m BY <1>2, <1>3
<1>6. ~(m + 1 < i)
  <2> SUFFICES ASSUME m + 1 < i PROVE FALSE OBVIOUS
  <2>1. m + 1 \in DOMAIN laid /\ m < m + 1 BY <1>1
  <2>2. /\ laid[m].end <= laid[m + 1].begin /\ laid[m + 1].begin < laid[m + 1].end
        /\ laid[m + 1].end <= laid[i].begin
    BY <2>1 DEF LaidInv
  <2>3. laid[m + 1].begin \in Nat /\ laid[m + 1].end \in Nat BY <2>1, LaidFacts
  <2> QED BY <2>2, <2>3, <1>2
<1> QED BY <1>1, <1>4, <1>5, <1>6

\* A chunk ends where one may begin: its end is nobody's alias.
LEMMA CanonicalEnd ==
    ASSUME LaidInv, NEW m \in DOMAIN laid
    PROVE  Reader!canonical_chunk_address(laid[m].end) = laid[m].end
<1>1. laid[m].end \in Nat BY LaidFacts
<1>2. is_possible_chunk_boundary(laid[m].end) BY DEF LaidInv
<1>3. laid[m].end % BlockSize = 0 \/ laid[m].end % BlockSize > BlockHeaderSize
  BY <1>1, <1>2, PossibleBoundary
<1>4. laid[m].end % BlockSize \in 0 .. (BlockSize - 1) BY <1>1, OffsetType
<1>5. laid[m].end % BlockSize # BlockHeaderSize BY <1>3, <1>4, BlockSizeNat
<1> QED BY <1>5 DEF Reader!canonical_chunk_address

\* The chunk that the reader finds behind chunk m is the next one.
LEMMA HeaderFinds ==
    ASSUME file = FileView, LaidInv, NEW m \in DOMAIN laid,
           Reader!read_chunk_header_at(laid[m].end).kind = "chunk"
    PROVE  /\ Reader!read_chunk_header_at(laid[m].end).chunk = m + 1
           /\ m + 1 \in DOMAIN laid
<1> DEFINE e == laid[m].end
           At == Reader!ChunkAt(e)
           i == CHOOSE j \in At : Reader!HeaderReadable(Reader!Chunk(j))
<1>1. Reader!canonical_chunk_address(e) = e BY CanonicalEnd
<1>2. ~(\A j \in At : ~Reader!HeaderReadable(Reader!Chunk(j)))
      /\ Reader!read_chunk_header_at(e).chunk = i
  BY <1>1 DEF Reader!read_chunk_header_at
<1>3. i \in At BY <1>2
<1> HIDE DEF i
<1>4. i \in DOMAIN laid /\ laid[i].begin = e
  BY <1>3, View DEF Reader!ChunkAt, Described
<1>5. i = m + 1 BY <1>4, NextLaid
<1> QED BY <1>2, <1>4, <1>5

---------------------------------------------------------------------------
(* The steps of the reader. *)

ReaderControl ==
    /\ recovery = FALSE /\ io_errors = 0 /\ "chunk" \in DOMAIN local
    /\ reader_pc \in {"open", "preamble", "idle", "record", "header", "data", "recover", "gone"}
    /\ reader_pc \in {"open", "preamble"} => reader_op = "new"
    /\ reader_pc \in {"record", "header", "data"} => reader_op = "read_record"

\* A step that returns no record leaves the records where they are, on either
\* side of the reader.
LEMMA ReaderStays ==
    ASSUME LaidInv, UNCHANGED <<laid, accepted, delivered>>,
           NEW m \in DOMAIN laid, NEW n \in 0 .. accepted, Returned(m, n),
           NEW q \in DOMAIN laid, ReaderControl', Stands(q)',
           \A i \in DOMAIN laid : \A k \in DOMAIN laid[i].recs :
             Passed(q, i, k)' <=> Passed(m, i, k)
    PROVE  ReaderInv'
<1>1. Returned(q, n)' BY DEF Returned, IsIn
<1> QED BY <1>1 DEF ReaderInv, ReaderControl

\* The same, where the reader does not move either.
LEMMA ReaderWaits ==
    ASSUME LaidInv, UNCHANGED <<laid, accepted, delivered, next_chunk_file_pos,
                                current_decoder, current_chunk_begin,
                                current_record_index>>,
           ReaderInv, ReaderControl', reader_pc' # "data",
           reader_pc' \in {"open", "preamble", "header", "recover"} => current_decoder = 0
    PROVE  ReaderInv'
<1>1. PICK m \in DOMAIN laid, n \in 0 .. accepted : Stands(m) /\ Returned(m, n)
  BY DEF ReaderInv
<1>2. Stands(m)' BY <1>1 DEF Stands
<1>3. \A i \in DOMAIN laid : \A k \in DOMAIN laid[i].recs :
        Passed(m, i, k)' <=> Passed(m, i, k)
  BY DEF Passed
<1> QED BY <1>1, <1>2, <1>3, ReaderStays

LEMMA NewLocals == "chunk" \in DOMAIN Reader!NoLocals
BY DEF Reader!NoLocals

LEMMA OpenKept ==
    ASSUME TailInv, UNCHANGED writerVars, Reader!Open PROVE ReaderInv'
<1>1. reader_pc = "open" /\ reader_op = "new" /\ LaidInv /\ ReaderInv /\ io_errors = 0
  BY DEF Reader!Open, TailInv, ReaderInv
<1>2. UNCHANGED <<laid, accepted>> BY DEF writerVars, vars, history
<1>3. /\ UNCHANGED <<delivered, next_chunk_file_pos, current_decoder, current_chunk_begin,
                     current_record_index, recovery>>
      /\ io_errors' = 0
      /\ reader_pc' \in {"idle", "preamble"} /\ "chunk" \in DOMAIN local'
      /\ reader_pc' = "preamble" => reader_op' = "new"
  BY <1>1, NewLocals DEF Reader!Open, Reader!NoIoError, Reader!IoError, Reader!Return,
     Reader!Goto, Reader!cursor, ReaderInv
<1>4. current_decoder = 0 BY <1>1 DEF ReaderInv, Stands
<1>5. ReaderControl' BY <1>1, <1>3 DEF ReaderControl, ReaderInv
<1> QED BY <1>1, <1>2, <1>3, <1>4, <1>5, ReaderWaits

LEMMA PreambleKept ==
    ASSUME TailInv, UNCHANGED writerVars, Reader!Preamble PROVE ReaderInv'
<1>1. reader_pc = "preamble" /\ reader_op = "new" /\ LaidInv /\ ReaderInv /\ io_errors = 0
  BY DEF Reader!Preamble, TailInv, ReaderInv
<1>2. UNCHANGED <<laid, accepted>> BY DEF writerVars, vars, history
<1>3. /\ UNCHANGED <<delivered, next_chunk_file_pos, current_decoder, current_chunk_begin,
                     current_record_index, recovery>>
      /\ io_errors' = 0
      /\ reader_pc' \in {"idle", "recover"} /\ "chunk" \in DOMAIN local'
  BY <1>1, NewLocals DEF Reader!Preamble, Reader!NoIoError, Reader!IoError, Reader!Return,
     Reader!Goto, Reader!FailAt, Reader!cursor, ReaderInv
<1>4. current_decoder = 0 BY <1>1 DEF ReaderInv, Stands
<1>5. ReaderControl' BY <1>1, <1>3 DEF ReaderControl, ReaderInv
<1> QED BY <1>1, <1>2, <1>3, <1>4, <1>5, ReaderWaits

LEMMA ReadRecordKept ==
    ASSUME TailInv, UNCHANGED writerVars, Reader!ReadRecord PROVE ReaderInv'
<1>1. LaidInv /\ ReaderInv BY DEF TailInv
<1>2. UNCHANGED <<laid, accepted>> BY DEF writerVars, vars, history
<1>3. /\ UNCHANGED <<delivered, next_chunk_file_pos, current_decoder, current_chunk_begin,
                     current_record_index, recovery, io_errors, local>>
      /\ reader_pc' = "record" /\ reader_op' = "read_record"
  BY DEF Reader!ReadRecord, Reader!cursor, Reader!history
<1>4. ReaderControl' BY <1>1, <1>3 DEF ReaderControl, ReaderInv
<1> QED BY <1>1, <1>2, <1>3, <1>4, ReaderWaits

\* There is no callback to ask.
LEMMA RecoverKept ==
    ASSUME TailInv, UNCHANGED writerVars, Reader!Recover PROVE ReaderInv'
<1>1. reader_pc = "recover" /\ LaidInv /\ ReaderInv /\ ~recovery
  BY DEF Reader!Recover, TailInv, ReaderInv
<1>2. UNCHANGED <<laid, accepted>> BY DEF writerVars, vars, history
<1>3. /\ UNCHANGED <<delivered, next_chunk_file_pos, current_decoder, current_chunk_begin,
                     current_record_index, recovery, io_errors>>
      /\ reader_pc' \in {"idle", "gone"} /\ "chunk" \in DOMAIN local'
  BY <1>1, NewLocals DEF Reader!Recover, Reader!Return, Reader!cursor
<1>4. ReaderControl' BY <1>1, <1>3 DEF ReaderControl, ReaderInv
<1> QED BY <1>1, <1>2, <1>3, <1>4, ReaderWaits

LEMMA LoadHeaderKept ==
    ASSUME TailInv, UNCHANGED writerVars, Reader!LoadHeader PROVE ReaderInv'
<1>1. /\ reader_pc = "header" /\ reader_op = "read_record" /\ file = FileView
      /\ LaidInv /\ ReaderInv /\ io_errors = 0 /\ "chunk" \in DOMAIN local
  BY DEF Reader!LoadHeader, TailInv, ReaderInv
<1>2. UNCHANGED <<laid, accepted>> BY DEF writerVars, vars, history
<1> DEFINE header == Reader!read_chunk_header_at(next_chunk_file_pos)
<1>3. /\ UNCHANGED <<delivered, next_chunk_file_pos, current_decoder, current_chunk_begin,
                     current_record_index, recovery>>
      /\ io_errors' = 0
      /\ \/ reader_pc' \in {"idle", "recover"} /\ "chunk" \in DOMAIN local'
         \/ /\ header.kind = "chunk" /\ reader_pc' = "data" /\ reader_op' = reader_op
            /\ local' = [local EXCEPT !.chunk = header.chunk]
  <2> HIDE DEF header
  <2>1. /\ UNCHANGED <<delivered, next_chunk_file_pos, current_decoder, current_chunk_begin,
                       current_record_index, recovery>>
    BY DEF Reader!LoadHeader, Reader!cursor
  <2>2. io_errors' = 0
        /\ \/ Reader!Return("eof")
           \/ Reader!FailAt(next_chunk_file_pos)
           \/ /\ header.kind = "chunk" /\ Reader!Goto("data")
              /\ local' = [local EXCEPT !.chunk = header.chunk]
    BY <1>1 DEF Reader!LoadHeader, Reader!NoIoError, Reader!IoError, header
  <2> QED BY <1>1, <2>1, <2>2, NewLocals DEF Reader!Return, Reader!Goto, Reader!FailAt
<1> HIDE DEF header
<1>4. current_decoder = 0 BY <1>1 DEF ReaderInv, Stands
<1>5. CASE reader_pc' \in {"idle", "recover"} /\ "chunk" \in DOMAIN local'
  <2>1. ReaderControl' BY <1>1, <1>3, <1>5 DEF ReaderControl, ReaderInv
  <2> QED BY <1>1, <1>2, <1>3, <1>4, <1>5, <2>1, ReaderWaits
<1>6. CASE /\ header.kind = "chunk" /\ reader_pc' = "data" /\ reader_op' = reader_op
           /\ local' = [local EXCEPT !.chunk = header.chunk]
  <2>1. PICK m \in DOMAIN laid, n \in 0 .. accepted : Stands(m) /\ Returned(m, n)
    BY <1>1 DEF ReaderInv
  <2>2. header.chunk = m + 1 /\ m + 1 \in DOMAIN laid
    BY <1>1, <1>6, <2>1, HeaderFinds DEF header, Stands
  <2>3. local'.chunk = m + 1 /\ "chunk" \in DOMAIN local' BY <1>1, <1>6, <2>2
  <2>4. Stands(m)' BY <1>2, <1>3, <1>4, <2>1, <2>2, <2>3 DEF Stands
  <2>5. ReaderControl' BY <1>1, <1>3, <1>6, <2>3 DEF ReaderControl, ReaderInv
  <2>6. \A i \in DOMAIN laid : \A k \in DOMAIN laid[i].recs :
          Passed(m, i, k)' <=> Passed(m, i, k)
    BY <1>3 DEF Passed
  <2> QED BY <1>1, <1>2, <1>3, <2>1, <2>4, <2>5, <2>6, ReaderStays
<1> QED BY <1>3, <1>5, <1>6

(***************************************************************************)
(* A chunk of the writer is never refused; without records it is passed    *)
(* over, and with records the reader stands in front of its first one.     *)
(***************************************************************************)
LEMMA LoadDataKept ==
    ASSUME TailInv, UNCHANGED writerVars, Reader!LoadData PROVE ReaderInv'
<1>1. /\ reader_pc = "data" /\ reader_op = "read_record" /\ file = FileView
      /\ LaidInv /\ ReaderInv /\ io_errors = 0 /\ "chunk" \in DOMAIN local
  BY DEF Reader!LoadData, TailInv, ReaderInv
<1>2. UNCHANGED <<laid, accepted>> BY DEF writerVars, vars, history
<1>3. PICK m \in DOMAIN laid, n \in 0 .. accepted : Stands(m) /\ Returned(m, n)
  BY <1>1 DEF ReaderInv
<1>4. local.chunk = m + 1 /\ m + 1 \in DOMAIN laid /\ current_decoder = 0
  BY <1>1, <1>3 DEF Stands
<1> DEFINE c == Reader!Chunk(local.chunk)
           q == m + 1
<1>5. c = Described(laid[q]) BY <1>1, <1>4, View
<1>6. q \in Nat /\ m \in Nat /\ q # 0 /\ DOMAIN laid = 1 .. Len(laid) BY <1>4, LaidFacts
<1>7. /\ c.end = laid[q].end /\ c.begin = laid[q].begin
      /\ c.type = "simple" <=> laid[q].type = "data"
      /\ ~Reader!Rejected(c)
  <2>1. laid[q].type \in {"signature", "metadata", "data", "padding"}
    BY <1>1, <1>4, LaidFacts DEF LaidChunk
  <2> QED BY <1>5, <2>1 DEF Described, Reader!Rejected
<1> HIDE DEF c, q
<1>8. UNCHANGED <<delivered, recovery>> BY DEF Reader!LoadData
<1>9. Reader!DataUnreadable \/ Reader!ChunkSkipped \/ Reader!ChunkLoaded
  BY <1>7 DEF Reader!LoadData, Reader!DataRejected, c
<1>10. CASE Reader!DataUnreadable
  <2>1. /\ UNCHANGED <<next_chunk_file_pos, current_decoder, current_chunk_begin,
                       current_record_index>>
        /\ io_errors' = 0 /\ reader_pc' = "recover" /\ "chunk" \in DOMAIN local'
    BY <1>1, <1>10 DEF Reader!DataUnreadable, Reader!NoIoError, Reader!IoError, Reader!FailAt,
       Reader!Goto, Reader!cursor
  <2>2. ReaderControl' BY <1>1, <1>8, <2>1 DEF ReaderControl, ReaderInv
  <2> QED BY <1>1, <1>2, <1>4, <1>8, <2>1, <2>2, ReaderWaits
<1>11. CASE Reader!ChunkSkipped
  <2>1. /\ next_chunk_file_pos' = laid[q].end /\ current_decoder' = 0
        /\ UNCHANGED <<current_chunk_begin, current_record_index, reader_op>>
        /\ io_errors' = 0 /\ reader_pc' = "header" /\ "chunk" \in DOMAIN local'
        /\ laid[q].type # "data"
    BY <1>1, <1>4, <1>7, <1>11 DEF Reader!ChunkSkipped, Reader!NoIoError, Reader!Goto,
       Reader!HasRecords, Reader!End, c
  <2>2. ReaderControl' BY <1>1, <1>8, <2>1 DEF ReaderControl, ReaderInv
  <2>3. q \in DOMAIN laid BY <1>4 DEF q
  <2>4. Stands(q)' BY <1>2, <2>1 DEF Stands
  <2>5. ASSUME NEW i \in DOMAIN laid, NEW k \in DOMAIN laid[i].recs
        PROVE  Passed(q, i, k)' <=> Passed(m, i, k)
    <3>1. laid[q].recs = <<>> BY <1>1, <2>1, <2>3 DEF LaidInv
    <3>2. i # q BY <3>1, <2>5
    <3>3. i < q <=> i < m \/ i = m BY <3>2, <1>6 DEF q
    <3> QED BY <3>2, <3>3, <2>1, <1>4 DEF Passed
  <2> QED BY <1>1, <1>2, <1>3, <1>8, <2>2, <2>3, <2>4, <2>5, ReaderStays
<1>12. CASE Reader!ChunkLoaded
  <2>1. /\ next_chunk_file_pos' = laid[q].end /\ current_decoder' = q
        /\ current_chunk_begin' = laid[q].begin /\ current_record_index' = 0
        /\ reader_op' = reader_op
        /\ io_errors' = 0 /\ reader_pc' = "record" /\ "chunk" \in DOMAIN local'
    BY <1>1, <1>4, <1>7, <1>12 DEF Reader!ChunkLoaded, Reader!NoIoError, Reader!Goto,
       Reader!HasRecords, Reader!End, c, q
  <2>2. ReaderControl' BY <1>1, <1>8, <2>1 DEF ReaderControl, ReaderInv
  <2>3. q \in DOMAIN laid BY <1>4 DEF q
  <2>4. 0 \in 0 .. Len(laid[q].recs) BY <2>3, LaidFacts
  <2>5. Stands(q)' BY <1>2, <2>1, <2>4 DEF Stands
  <2>6. ASSUME NEW i \in DOMAIN laid, NEW k \in DOMAIN laid[i].recs
        PROVE  Passed(q, i, k)' <=> Passed(m, i, k)
    <3>1. k \in 1 .. Len(laid[i].recs) /\ Len(laid[i].recs) \in Nat
      BY <1>1, <2>6, LaidFacts
    <3>2. ~(k <= 0) BY <3>1
    <3>3. i < q <=> i < m \/ i = m BY <1>6 DEF q
    <3> QED BY <3>2, <3>3, <2>1, <1>4, <1>6 DEF Passed
  <2> QED BY <1>1, <1>2, <1>3, <1>8, <2>2, <2>3, <2>5, <2>6, ReaderStays
<1> QED BY <1>9, <1>10, <1>11, <1>12

\* The record that the reader is about to return is the one behind the last.
LEMMA NextNumber ==
    ASSUME TailInv, NEW m \in DOMAIN laid, NEW n \in 0 .. accepted,
           Stands(m), Returned(m, n), current_decoder # 0, accepted \in Nat,
           current_record_index < Len(laid[m].recs)
    PROVE  /\ current_record_index + 1 \in DOMAIN laid[m].recs
           /\ laid[m].recs[current_record_index + 1] = n + 1
           /\ n + 1 \in 0 .. accepted
<1> DEFINE x == current_record_index + 1
           r == laid[m].recs[x]
<1>1. LaidInv /\ NumbersInv BY DEF TailInv
<1>2. /\ Len(laid[m].recs) \in Nat /\ DOMAIN laid[m].recs = 1 .. Len(laid[m].recs)
      /\ DOMAIN laid = 1 .. Len(laid) /\ Len(laid) \in Nat
  BY <1>1, LaidFacts
<1>3. current_record_index \in 0 .. Len(laid[m].recs) BY DEF Stands
<1>4. x \in DOMAIN laid[m].recs BY <1>2, <1>3
<1>5. r \in Nat BY <1>1, <1>4, LaidFacts
<1>6. ~(r <= n)
  <2>1. ~Passed(m, m, x) BY <1>2, <1>3 DEF Passed
  <2> QED BY <1>4, <2>1 DEF Returned
<1>7. PICK M \in 0 .. accepted : Holds(M) BY <1>1 DEF NumbersInv
<1>8. r \in 1 .. M BY <1>4, <1>7 DEF Holds
<1> HIDE DEF x, r
<1>9. n + 1 \in 1 .. M /\ n + 1 <= r BY <1>5, <1>6, <1>7, <1>8
<1>16. PICK i \in DOMAIN laid : IsIn(n + 1, i) BY <1>7, <1>9 DEF Holds
<1>10. PICK k \in DOMAIN laid[i].recs : laid[i].recs[k] = n + 1 BY <1>16 DEF IsIn
<1>11. k \in 1 .. Len(laid[i].recs) /\ Len(laid[i].recs) \in Nat
  BY <1>1, <1>10, LaidFacts
<1>12. ~Passed(m, i, k) BY <1>10 DEF Returned
<1>13. m < i \/ (i = m /\ x <= k)
  BY <1>2, <1>3, <1>10, <1>11, <1>12 DEF Passed, x
<1>14. i = m /\ x = k
  <2> SUFFICES ASSUME m < i \/ (m = i /\ x < k) PROVE FALSE
    BY <1>2, <1>3, <1>10, <1>11, <1>13 DEF x
  <2>1. r < n + 1 BY <1>1, <1>4, <1>10 DEF NumbersInv, r
  <2> QED BY <2>1, <1>5, <1>9
<1>15. r = n + 1 BY <1>10, <1>14 DEF r
<1> QED BY <1>4, <1>7, <1>9, <1>15 DEF x, r

LEMMA TakeRecordKept ==
    ASSUME TailInv, UNCHANGED writerVars, Reader!TakeRecord, accepted \in Nat
    PROVE  ReaderInv'
<1>1. /\ reader_pc = "record" /\ reader_op = "read_record" /\ file = FileView
      /\ LaidInv /\ ReaderInv /\ "chunk" \in DOMAIN local
  BY DEF Reader!TakeRecord, TailInv, ReaderInv
<1>2. UNCHANGED <<laid, accepted>> BY DEF writerVars, vars, history
<1>3. PICK m \in DOMAIN laid, n \in 0 .. accepted : Stands(m) /\ Returned(m, n)
  BY <1>1 DEF ReaderInv
<1>4. UNCHANGED <<recovery, current_chunk_begin, next_chunk_file_pos, io_errors>>
  BY DEF Reader!TakeRecord
<1>5. m \in Nat /\ m # 0 /\ Len(laid[m].recs) \in Nat
      /\ DOMAIN laid[m].recs = 1 .. Len(laid[m].recs)
      /\ DOMAIN laid = 1 .. Len(laid) /\ laid[m].begin \in Nat /\ laid[m].end \in Nat
  BY <1>1, LaidFacts
<1>6. current_decoder # 0 =>
        /\ current_decoder = m /\ Reader!Chunk(current_decoder).num_records = Len(laid[m].recs)
        /\ current_chunk_begin = laid[m].begin
        /\ current_record_index \in 0 .. Len(laid[m].recs)
  BY <1>1, <1>3, <1>5, View DEF Stands, Described
<1>7. CASE current_decoder # 0 /\ current_record_index < Len(laid[m].recs)
  <2> DEFINE x == current_record_index + 1
             p == laid[m].begin + current_record_index
  <2>1. /\ current_record_index' = x /\ current_decoder' = current_decoder
        /\ delivered' = delivered \cup {p}
        /\ reader_pc' = "idle" /\ "chunk" \in DOMAIN local'
    BY <1>1, <1>6, <1>7, NewLocals DEF Reader!TakeRecord, Reader!Return, Reader!Numeric,
       Reader!RecordPosition
  <2>2. x \in DOMAIN laid[m].recs /\ laid[m].recs[x] = n + 1 /\ n + 1 \in 0 .. accepted
    BY <1>3, <1>7, NextNumber
  <2>3. p = laid[m].begin + x - 1 /\ p \in Nat /\ x \in 1 .. Len(laid[m].recs)
    BY <1>5, <1>6, <1>7
  <2>4. ReaderControl' BY <1>1, <1>4, <2>1 DEF ReaderControl, ReaderInv
  <2>5. Stands(m)' BY <1>2, <1>3, <1>4, <1>5, <1>6, <1>7, <2>1, <2>3 DEF Stands
  <2>6. ASSUME NEW i \in DOMAIN laid, NEW k \in DOMAIN laid[i].recs
        PROVE  /\ Passed(m, i, k)' <=> Passed(m, i, k) \/ (i = m /\ k = x)
               /\ laid[i].recs[k] \in Nat /\ k \in Nat /\ i \in Nat
               /\ laid[i].recs[k] = n + 1 <=> i = m /\ k = x
    <3>1. /\ k \in 1 .. Len(laid[i].recs) /\ Len(laid[i].recs) \in Nat
          /\ laid[i].recs[k] \in Nat /\ i \in Nat
      BY <1>1, <1>5, <2>6, LaidFacts
    <3>2. Passed(m, i, k)' <=> Passed(m, i, k) \/ (i = m /\ k = x)
      BY <1>3, <1>5, <1>6, <1>7, <2>1, <3>1 DEF Passed
    <3>3. laid[i].recs[k] = n + 1 => i = m /\ k = x
      <4> SUFFICES ASSUME laid[i].recs[k] = n + 1, ~(i = m /\ k = x) PROVE FALSE
        OBVIOUS
      <4>1. (i < m \/ (i = m /\ k < x)) \/ (m < i \/ (m = i /\ x < k))
        BY <1>5, <2>3, <3>1
      <4>2. laid[i].recs[k] < laid[m].recs[x] \/ laid[m].recs[x] < laid[i].recs[k]
        BY <2>2, <4>1 DEF TailInv, NumbersInv
      <4> QED BY <2>2, <4>2
    <3> QED BY <2>2, <3>1, <3>2, <3>3
  <2>7. p \notin delivered
    <3> SUFFICES ASSUME p \in delivered PROVE FALSE OBVIOUS
    <3>0. PICK i \in DOMAIN laid : \E k \in DOMAIN laid[i].recs :
            laid[i].recs[k] <= n /\ p = laid[i].begin + k - 1
      BY <1>3 DEF Returned
    <3>1. PICK k \in DOMAIN laid[i].recs :
            laid[i].recs[k] <= n /\ p = laid[i].begin + k - 1
      BY <3>0
    <3>2. Passed(m, i, k) BY <1>3, <3>1 DEF Returned
    <3>3. /\ k \in 1 .. Len(laid[i].recs) /\ Len(laid[i].recs) \in Nat
          /\ laid[i].begin \in Nat /\ laid[i].end \in Nat
      BY <1>1, <3>1, LaidFacts
    <3>4. CASE i < m
      <4>1. laid[i].begin + Len(laid[i].recs) <= laid[i].end
            /\ laid[i].end <= laid[m].begin
        BY <1>1, <3>4, LaidApart
      <4>2. laid[i].begin + k - 1 < laid[m].begin BY <1>5, <3>3, <4>1
      <4>3. p >= laid[m].begin BY <1>5, <1>6, <1>7
      <4>4. laid[i].begin + k - 1 \in Int BY <3>3
      <4> QED BY <1>5, <2>3, <3>1, <4>2, <4>3, <4>4
    <3>5. CASE i = m
      <4>1. k <= current_record_index BY <1>7, <3>2, <3>5 DEF Passed
      <4> QED BY <1>5, <1>6, <1>7, <3>1, <3>3, <3>5, <4>1
    <3> QED BY <3>2, <3>4, <3>5 DEF Passed
  <2>8. IsFiniteSet(delivered') /\ Cardinality(delivered') = n + 1
    BY <1>3, <2>1, <2>7, FS_AddElement DEF Returned
  <2> HIDE DEF x, p
  <2>9. ASSUME NEW i \in DOMAIN laid, NEW k \in DOMAIN laid[i].recs
        PROVE  /\ laid[i].recs[k] <= n + 1 <=> Passed(m, i, k)'
               /\ laid[i].recs[k] <= n + 1 => laid[i].begin + k - 1 \in delivered'
    <3>1. laid[i].recs[k] <= n <=> Passed(m, i, k) BY <1>3 DEF Returned
    <3>2. laid[i].recs[k] <= n => laid[i].begin + k - 1 \in delivered
      BY <1>3 DEF Returned
    <3>3. laid[i].recs[k] <= n + 1 <=> laid[i].recs[k] <= n \/ laid[i].recs[k] = n + 1
      BY <2>6
    <3> QED BY <2>1, <2>3, <2>6, <3>1, <3>2, <3>3
  <2>10. ASSUME NEW y \in delivered'
         PROVE  \E i \in DOMAIN laid : \E k \in DOMAIN laid[i].recs :
                  laid[i].recs[k] <= n + 1 /\ y = laid[i].begin + k - 1
    <3>1. CASE y = p BY <2>2, <2>3, <3>1
    <3>2. CASE y # p
      <4>1. PICK i \in DOMAIN laid : \E k \in DOMAIN laid[i].recs :
              laid[i].recs[k] <= n /\ y = laid[i].begin + k - 1
        BY <1>3, <2>1, <3>2 DEF Returned
      <4>2. PICK k \in DOMAIN laid[i].recs :
              laid[i].recs[k] <= n /\ y = laid[i].begin + k - 1
        BY <4>1
      <4>3. laid[i].recs[k] <= n + 1 BY <2>6, <4>2
      <4> QED BY <4>2, <4>3
    <3> QED BY <3>1, <3>2
  <2>11. \E i \in DOMAIN laid : IsIn(n + 1, i) BY <2>2 DEF IsIn
  <2>12. Returned(m, n + 1)' BY <1>2, <2>8, <2>9, <2>10, <2>11 DEF Returned, IsIn
  <2> QED BY <1>2, <2>2, <2>4, <2>5, <2>12 DEF ReaderInv, ReaderControl
<1>8. CASE ~(current_decoder # 0 /\ current_record_index < Len(laid[m].recs))
  <2>1. /\ current_decoder' = 0 /\ reader_pc' = "header" /\ reader_op' = reader_op
        /\ UNCHANGED <<local, current_record_index, delivered>>
    BY <1>6, <1>8 DEF Reader!TakeRecord, Reader!Goto
  <2>2. ReaderControl' BY <1>1, <1>4, <2>1 DEF ReaderControl, ReaderInv
  <2>3. Stands(m)' BY <1>2, <1>3, <1>4, <2>1 DEF Stands
  <2>4. ASSUME NEW i \in DOMAIN laid, NEW k \in DOMAIN laid[i].recs
        PROVE  Passed(m, i, k)' <=> Passed(m, i, k)
    <3>1. i = m /\ current_decoder # 0 => k <= current_record_index
      BY <1>5, <1>6, <1>8
    <3> QED BY <2>1, <3>1 DEF Passed
  <2> QED BY <1>1, <1>2, <1>3, <2>1, <2>2, <2>3, <2>4, ReaderStays
<1> QED BY <1>7, <1>8

---------------------------------------------------------------------------
(* The log as a whole. *)

\* The initial states: the signature is about to be written, and the reader
\* to be opened behind it.
LEMMA TailInit == LogInit => TailInv
<1> SUFFICES ASSUME LogInit PROVE TailInv OBVIOUS
<1>1. laid = <<SignatureChunk>> /\ file = FileView BY DEF LogInit
<1>2. /\ accepted = 0 /\ published = <<>> /\ chunk = NoChunk /\ pc = "block_header"
      /\ accepted \in Nat
  BY DEF LogInit, Init
<1>3. /\ SignatureEnd \in Nat /\ SignatureEnd > 0 /\ SignatureEnd <= BlockSize
      /\ SignatureEnd > BlockHeaderSize
  BY LayoutAssumption, WriterAssumption DEF SignatureEnd, USABLE_BLOCK_SIZE
<1>4. is_possible_chunk_boundary(SignatureEnd)
  <2>1. CASE SignatureEnd = BlockSize
    <3>1. SignatureEnd = BlockSize * 1 + 0 BY <2>1, BlockSizeNat
    <3>2. SignatureEnd % BlockSize = 0 BY <3>1, <1>3, DivModUnique, BlockSizeNat
    <3> QED BY <3>2, <1>3, PossibleBoundary
  <2>2. CASE SignatureEnd < BlockSize
    <3>1. SignatureEnd = BlockSize * 0 + SignatureEnd BY <1>3, BlockSizeNat
    <3>2. SignatureEnd % BlockSize = SignatureEnd
      BY <3>1, <2>2, <1>3, DivModUnique, BlockSizeNat
    <3> QED BY <3>2, <1>3, PossibleBoundary
  <2> QED BY <2>1, <2>2, <1>3, BlockSizeNat
<1>5. /\ SignatureChunk.begin = 0 /\ SignatureChunk.end = SignatureEnd
      /\ SignatureChunk.recs = <<>> /\ SignatureChunk.type = "signature"
      /\ SignatureChunk \in LaidChunk
  BY <1>3, EmptySeq, LayoutAssumption DEF SignatureChunk, NoChunk, LaidChunk
<1>6. laid \in Seq(LaidChunk) /\ laid # <<>> /\ DOMAIN laid = {1} /\ Len(laid) = 1
      /\ laid[1] = SignatureChunk
  BY <1>1, <1>5
<1>7. Len(SignatureChunk.recs) = 0 /\ DOMAIN SignatureChunk.recs = {}
  BY <1>5
<1>8. LaidInv
  <2>1. ~InChunk /\ ~Started BY <1>2 DEF InChunk, Started
  <2> QED BY <1>1, <1>3, <1>4, <1>5, <1>6, <1>7, <2>1 DEF LaidInv
<1>9. NumbersInv
  <2>1. Holds(0)
    <3>1. Len(published) = 0 /\ Len(chunk.recs) = 0 BY <1>2 DEF NoChunk
    <3> QED BY <1>6, <1>7, <3>1 DEF Holds
  <2> QED BY <1>2, <1>6, <1>7, <2>1 DEF NumbersInv
<1>10. ReaderInv
  <2>1. /\ recovery = FALSE /\ io_errors = 0 /\ reader_pc = "open" /\ reader_op = "new"
        /\ local = Reader!NoLocals /\ current_decoder = 0 /\ delivered = {}
        /\ next_chunk_file_pos = SignatureEnd
    BY DEF LogInit, Reader!InitReader, Reader!FirstDataChunk, SignatureEnd
  <2>2. Stands(1) BY <1>5, <1>6, <2>1 DEF Stands
  <2>3. Returned(1, 0)
    <3>1. IsFiniteSet({}) /\ Cardinality({}) = 0 BY FS_EmptySet
    <3> QED BY <1>6, <1>7, <2>1, <3>1 DEF Returned
  <2> QED BY <1>2, <1>6, <2>1, <2>2, <2>3, NewLocals DEF ReaderInv
<1> QED BY <1>1, <1>8, <1>9, <1>10 DEF TailInv

\* The reader's view of the file changes with the stream and the chunks only.
LEMMA ViewKept ==
    ASSUME file = FileView, UNCHANGED <<file, laid, blocks, len>> PROVE file' = FileView'
BY DEF FileView

LogInv == WriterInv /\ RecordsInv /\ TailInv

LEMMA LogInvNext ==
    ASSUME OptionsSeparate, LogInv, [LogNext]_allVars PROVE LogInv'
<1>0. WriterInv /\ RecordsInv /\ TailInv /\ LaidInv /\ NumbersInv /\ ReaderInv
      /\ file = FileView
  BY DEF LogInv, TailInv
<1>1. ASSUME [Next]_vars, Moves, Lays, UNCHANGED readerVars, file' = FileView'
      PROVE  LogInv'
  <2>1. WriterInv' BY <1>0, <1>1, NextInv
  <2>2. RecordsInv' BY <1>0, <1>1, RecordsNext
  <2>3. LaidInv' BY <1>0, <1>1, <2>1, LaidKept
  <2>4. NumbersInv' BY <1>0, <1>1, <2>1, <2>2, NumbersKept
  <2>5. ReaderInv' BY <1>0, <1>1, <2>1, <2>2, ReaderKept
  <2> QED BY <1>1, <2>1, <2>2, <2>3, <2>4, <2>5 DEF LogInv, TailInv
<1>2. ASSUME UNCHANGED writerVars, ReaderInv'
      PROVE  LogInv'
  <2>1. UNCHANGED <<vars, laid, file>> BY <1>2 DEF writerVars
  <2>2. WriterInv' BY <1>0, <2>1, NextInv
  <2>3. RecordsInv' BY <1>0, <2>1, RecordsNext
  <2>4. UNCHANGED <<file_pos, chunk, pc, io_error, failed, published, accepted, blocks, len>>
    BY <2>1 DEF vars, fields, control, stream, history
  <2>5. LaidInv' BY <1>0, <2>1, <2>4 DEF LaidInv, LastLaid, InChunk, Started
  <2>6. NumbersInv' BY <1>0, <2>1, <2>4 DEF NumbersInv, Holds, IsIn
  <2>7. file' = FileView' BY <1>0, <2>1, <2>4, ViewKept
  <2> QED BY <1>2, <2>2, <2>3, <2>5, <2>6, <2>7 DEF LogInv, TailInv
<1>3. CASE WriterStep
  <2>1. Step /\ Lays /\ file' = FileView' /\ UNCHANGED readerVars
    BY <1>3 DEF WriterStep, Lays
  <2>2. Moves BY <1>0, <2>1, StepMoves
  <2>3. [Next]_vars BY <2>1 DEF Next
  <2> QED BY <1>1, <2>1, <2>2, <2>3
<1>4. CASE WriterCall
  <2>1. Call /\ UNCHANGED <<laid, file, readerVars>> BY <1>4 DEF WriterCall
  <2>2. Moves /\ ~InChunk /\ ~InChunk' BY <1>0, <2>1, CallMoves
  <2>3. Lays BY <2>1, <2>2 DEF Lays
  <2>4. UNCHANGED stream BY <2>1 DEF Call, WriteRecord, Flush, Close
  <2>5. file' = FileView' BY <1>0, <2>1, <2>4, ViewKept DEF stream
  <2>6. [Next]_vars BY <2>1 DEF Next
  <2> QED BY <1>1, <2>1, <2>2, <2>3, <2>5, <2>6
<1>5. CASE ReaderStep
  <2>1. UNCHANGED writerVars /\ Reader!Step BY <1>5 DEF ReaderStep
  <2>2. accepted \in Nat BY <1>0 DEF RecordsInv, RecordTypes
  <2>3. reader_pc \notin {"measure", "origin", "peek", "resync", "region"}
    BY <1>0 DEF ReaderInv
  <2>4. \/ Reader!Open \/ Reader!Preamble \/ Reader!TakeRecord \/ Reader!LoadHeader
        \/ Reader!LoadData \/ Reader!Recover
    <3>1. ~Reader!MeasureOrigin /\ ~Reader!ResolveScanOrigin /\ ~Reader!PeekHeader
      BY <2>3 DEF Reader!MeasureOrigin, Reader!ResolveScanOrigin, Reader!PeekHeader
    <3>2. ~Reader!Resync /\ ~Reader!ReportRegion
      BY <2>3 DEF Reader!Resync, Reader!ReportRegion
    <3> QED BY <2>1, <3>1, <3>2 DEF Reader!Step
  <2>5. ReaderInv'
    BY <1>0, <2>1, <2>2, <2>4, OpenKept, PreambleKept, TakeRecordKept, LoadHeaderKept,
       LoadDataKept, RecoverKept
  <2> QED BY <1>2, <2>1, <2>5
<1>6. CASE ReaderCall
  <2>1. ReaderInv' BY <1>0, <1>6, ReadRecordKept DEF ReaderCall
  <2> QED BY <1>2, <1>6, <2>1 DEF ReaderCall
<1>7. CASE UNCHANGED allVars
  <2>1. UNCHANGED writerVars /\ UNCHANGED readerVars BY <1>7 DEF allVars
  <2>2. UNCHANGED <<laid, accepted>> BY <2>1 DEF writerVars, vars, history
  <2>3. ReaderInv'
    BY <1>0, <2>1, <2>2 DEF ReaderInv, Stands, Returned, Passed, IsIn, readerVars
  <2> QED BY <1>2, <2>1, <2>3
<1> QED BY <1>3, <1>4, <1>5, <1>6, <1>7 DEF LogNext

\* The position of a record, and back.
LEMMA PositionOf ==
    ASSUME NEW b \in Nat, NEW l \in Nat, NEW k \in 1 .. l
    PROVE  b + k - 1 \in b .. b + l - 1 /\ (b + k - 1) - b + 1 = k
OBVIOUS

\* A position of a chunk's records lies in front of the next chunks.
LEMMA PositionApart ==
    ASSUME NEW b \in Nat, NEW l \in Nat, NEW e \in Nat, NEW d \in Nat,
           NEW p \in b .. b + l - 1, b + l <= e, e <= d
    PROVE  p < d
OBVIOUS

\* What the invariant says of the records that were returned.
LEMMA TailReads == ASSUME LogInv PROVE ReadsLog
<1>1. LaidInv /\ NumbersInv /\ ReaderInv /\ accepted \in Nat
  BY DEF LogInv, TailInv, RecordsInv, RecordTypes
<1>2. PICK m \in DOMAIN laid, n \in 0 .. accepted : Stands(m) /\ Returned(m, n)
  BY <1>1 DEF ReaderInv
<1>3. PICK M \in 0 .. accepted : Holds(M) BY <1>1 DEF NumbersInv
<1>4. n <= M
  <2>1. CASE n = 0 BY <2>1, <1>3
  <2>2. CASE n # 0
    <3>1. PICK i \in DOMAIN laid : IsIn(n, i) BY <1>2, <2>2 DEF Returned
    <3> QED BY <3>1, <1>3 DEF Holds, IsIn
  <2> QED BY <2>1, <2>2
<1>5. ASSUME NEW v \in Read PROVE v \in 1 .. n
  <2>1. PICK p \in delivered : v \in RecordsAt(p) BY DEF Read
  <2>2. PICK i \in DOMAIN laid :
          /\ p \in laid[i].begin .. laid[i].begin + Len(laid[i].recs) - 1
          /\ v = laid[i].recs[p - laid[i].begin + 1]
    BY <2>1 DEF RecordsAt
  <2>3. PICK j \in DOMAIN laid : \E k \in DOMAIN laid[j].recs :
          laid[j].recs[k] <= n /\ p = laid[j].begin + k - 1
    BY <1>2 DEF Returned
  <2>4. PICK k \in DOMAIN laid[j].recs : laid[j].recs[k] <= n /\ p = laid[j].begin + k - 1
    BY <2>3
  <2>5. /\ k \in 1 .. Len(laid[j].recs) /\ Len(laid[j].recs) \in Nat
        /\ laid[j].begin \in Nat /\ laid[j].end \in Nat
        /\ laid[i].begin \in Nat /\ laid[i].end \in Nat /\ Len(laid[i].recs) \in Nat
        /\ i \in Nat /\ j \in Nat
    <3>1. i \in Nat /\ j \in Nat BY <1>1, LaidFacts
    <3>2. k \in 1 .. Len(laid[j].recs) /\ Len(laid[j].recs) \in Nat BY <1>1, <2>4, LaidFacts
    <3>3. /\ laid[j].begin \in Nat /\ laid[j].end \in Nat
          /\ laid[i].begin \in Nat /\ laid[i].end \in Nat /\ Len(laid[i].recs) \in Nat
      BY <1>1, LaidFacts
    <3> QED BY <3>1, <3>2, <3>3
  <2>6. p \in laid[j].begin .. laid[j].begin + Len(laid[j].recs) - 1
    <3>1. laid[j].begin + k - 1 \in laid[j].begin .. laid[j].begin + Len(laid[j].recs) - 1
      BY ONLY <2>5, PositionOf
    <3> QED BY ONLY <2>4, <3>1, Zenon
  <2>7. ~(i < j) /\ ~(j < i)
    <3>1. i < j => laid[i].begin + Len(laid[i].recs) <= laid[i].end
                   /\ laid[i].end <= laid[j].begin
      BY <1>1, LaidApart
    <3>2. i < j => p < laid[j].begin BY <2>2, <2>5, <3>1, PositionApart
    <3>3. j < i => laid[j].begin + Len(laid[j].recs) <= laid[j].end
                   /\ laid[j].end <= laid[i].begin
      BY <1>1, LaidApart
    <3>4. j < i => p < laid[i].begin BY <2>5, <2>6, <3>3, PositionApart
    <3>5. p >= laid[i].begin /\ p >= laid[j].begin /\ p \in Int BY ONLY <2>2, <2>5, <2>6
    <3> QED BY ONLY <2>5, <3>2, <3>4, <3>5
  <2>8. i = j BY <2>5, <2>7
  <2>9. p - laid[i].begin + 1 = k
    <3>1. (laid[j].begin + k - 1) - laid[j].begin + 1 = k BY ONLY <2>5, PositionOf
    <3> QED BY ONLY <2>4, <2>8, <3>1, Zenon
  <2>10. v = laid[j].recs[k] BY <2>2, <2>8, <2>9
  <2>11. v \in 1 .. M BY <1>3, <2>10 DEF Holds
  <2> QED BY <2>4, <2>10, <2>11
<1>6. ASSUME NEW v \in 1 .. n PROVE v \in Read
  <2>1. v \in 1 .. M BY <1>3, <1>4
  <2>2. PICK i \in DOMAIN laid : IsIn(v, i) BY <1>3, <2>1 DEF Holds
  <2>3. PICK k \in DOMAIN laid[i].recs : laid[i].recs[k] = v BY <2>2 DEF IsIn
  <2> DEFINE p == laid[i].begin + k - 1
  <2>4. p \in delivered BY <1>2, <2>3 DEF Returned
  <2>5. /\ k \in 1 .. Len(laid[i].recs) /\ Len(laid[i].recs) \in Nat
        /\ laid[i].begin \in Nat
    BY <1>1, <2>3, LaidFacts
  <2>6. p \in laid[i].begin .. laid[i].begin + Len(laid[i].recs) - 1
        /\ p - laid[i].begin + 1 = k
    BY ONLY <2>5, PositionOf
  <2> HIDE DEF p
  <2>7. v \in RecordsAt(p) BY <2>3, <2>6 DEF RecordsAt
  <2> QED BY <2>4, <2>7 DEF Read
<1>7. Read = 1 .. n BY <1>5, <1>6
<1> QED BY <1>2, <1>7 DEF ReadsLog, Returned

(***************************************************************************)
(* A reader that tails a file being written has returned, at any moment,   *)
(* the first n of the records that write_record accepted, each once, for   *)
(* some n: whatever the sizes, however the operations of the two           *)
(* interleave, and whichever write fails and leaves a torn chunk behind.   *)
(* OptionsSeparate: the file does not go on behind a torn chunk.           *)
(***************************************************************************)
THEOREM TailReadsLog == ASSUME OptionsSeparate PROVE LogSpec => []ReadsLog
<1>1. LogInit => LogInv
  <2>1. LogInit => Init BY DEF LogInit
  <2> QED BY <2>1, InitInv, RecordsInit, TailInit DEF LogInv
<1>2. LogInv /\ [LogNext]_allVars => LogInv' BY LogInvNext
<1>3. LogInv => ReadsLog BY TailReads
<1> QED BY <1>1, <1>2, <1>3, PTL DEF LogSpec
=============================================================================
