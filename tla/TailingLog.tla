----------------------------- MODULE TailingLog -----------------------------
(***************************************************************************)
(* A RecordReader tails the file that a RecordWriter is writing: every     *)
(* write of the writer may fall between any two reads of the reader, and   *)
(* the writer may fail at any of them and leave a torn chunk behind.       *)
(*                                                                         *)
(* The file that the reader sees is made of the writer's state: the chunks *)
(* it has begun, the block headers it has written and the length it has    *)
(* reached.  What of them can be read is for the reader to find out.       *)
(***************************************************************************)
EXTENDS RecordWriter, FiniteSets

VARIABLES
    laid,   \* the chunks whose first byte is or will be written, in file order
    file,   \* the file as the reader finds it, see FileView
    (* fields of struct RecordReader *)
    recovery, current_chunk_begin, next_chunk_file_pos, current_decoder,
    current_record_index, pos, last_pos, at_eof, last_record_is_valid,
    stream_len, last_skipped_region, pending_trusted_end,
    (* its operation in progress, and its history *)
    reader_op, reader_pc, local, result,
    from, delivered, regions, seeks, io_errors

writerVars == <<vars, laid, file>>
readerVars == <<recovery, current_chunk_begin, next_chunk_file_pos, current_decoder,
                current_record_index, pos, last_pos, at_eof, last_record_is_valid,
                stream_len, last_skipped_region, pending_trusted_end,
                reader_op, reader_pc, local, result,
                from, delivered, regions, seeks, io_errors>>
allVars == <<writerVars, readerVars>>

\* A chunk of the writer as its header describes it.
Described(c) ==
    [type |-> IF c.type = "data" THEN "simple" ELSE c.type,
     begin |-> c.begin, end |-> c.end,
     data_size |-> c.size - ChunkHeaderSize, num_records |-> Len(c.recs),
     header_ok |-> TRUE, data_ok |-> TRUE, decodes |-> TRUE]

FileView ==
    [chunks  |-> [i \in DOMAIN laid |-> Described(laid[i])],
     blocks  |-> [b \in DOMAIN blocks |->
                    [ok |-> TRUE, previous_chunk |-> blocks[b].prev, next_chunk |-> blocks[b].next]],
     lengths |-> {len}]

\* The reader has no recovery callback, does not seek, and its reads succeed.
Reader == INSTANCE RecordReader WITH
    Files <- {}, Recoveries <- {FALSE}, Addresses <- {}, Indices <- {}, Numerics <- {},
    MaxSeeks <- 0, MaxIoErrors <- 0,
    op <- reader_op, pc <- reader_pc

SignatureChunk ==
    [NoChunk EXCEPT !.type = "signature", !.end = SignatureEnd, !.size = ChunkHeaderSize]

LogInit == Init /\ laid = <<SignatureChunk>> /\ file = FileView /\ Reader!InitReader

WriterStep ==
    /\ Step
    /\ laid' = IF InChunk' /\ ~InChunk THEN Append(laid, chunk') ELSE laid
    /\ file' = FileView'
    /\ UNCHANGED readerVars
WriterCall == Call /\ UNCHANGED <<laid, file, readerVars>>

ReaderStep == UNCHANGED writerVars /\ Reader!Step
ReaderCall == UNCHANGED writerVars /\ Reader!ReadRecord

LogNext == \/ WriterStep \/ WriterCall \/ ReaderStep \/ ReaderCall
           \/ (Gone /\ reader_pc = "gone" /\ UNCHANGED allVars)

\* Both sides are sequential code, and the caller of the reader keeps reading:
\* weak fairness of a reader that can go on until its new() has failed.
ReaderFairness ==
    <>[](reader_pc # "gone") => []<><<ReaderStep \/ ReaderCall>>_readerVars

LogSpec == LogInit /\ [][LogNext]_allVars /\ WF_allVars(WriterStep) /\ ReaderFairness

-----------------------------------------------------------------------------
\* The number of the record at a numeric position.
RecordsAt(position) ==
    {laid[i].recs[position - laid[i].begin + 1] :
        i \in {j \in DOMAIN laid : position \in laid[j].begin .. laid[j].begin + Len(laid[j].recs) - 1}}

Read == UNION {RecordsAt(p) : p \in delivered}

(***************************************************************************)
(* The reader returns the writer's records from the first one on, each     *)
(* once, with no gap and none that the writer did not accept, at whatever  *)
(* write it looks at the file, and however the writer ends.                *)
(***************************************************************************)
ReadsLog ==
    \E n \in 0 .. accepted : Read = 1 .. n /\ Cardinality(delivered) = n

\* An end of file or an error that the reader meets in a file still being
\* written is never final: every record that is published is returned, if the
\* caller keeps reading and new() has not failed on a torn preamble.
PublishedIsRead ==
    \A n \in 1 .. MaxRecords : (n <= Len(published)) ~> (n \in Read \/ reader_pc = "gone")

-----------------------------------------------------------------------------
(* The inductive invariant behind ReadsLog. *)

LaidChunk == [type : {"signature", "metadata", "data", "padding"},
              begin : Nat, end : Nat, size : Nat, offset : Nat,
              recs : Seq(Nat), accounted : Nat]

LastLaid == laid[Len(laid)]

(***************************************************************************)
(* Where the chunks are: one behind the other, their records within them;  *)
(* the last one is the one being written, if any, and ends where the next  *)
(* one will begin.                                                         *)
(***************************************************************************)
LaidInv ==
    /\ laid \in Seq(LaidChunk) /\ laid # <<>>
    /\ laid[1] = SignatureChunk
    /\ \A i \in DOMAIN laid :
         /\ is_possible_chunk_boundary(laid[i].end)
         /\ laid[i].begin < laid[i].end
         /\ laid[i].begin + Len(laid[i].recs) <= laid[i].end
         /\ laid[i].type # "data" => laid[i].recs = <<>>
    /\ \A i, j \in DOMAIN laid : i < j => laid[i].end <= laid[j].begin
    /\ InChunk => chunk.end = LastLaid.end
    /\ Started /\ ~InChunk /\ ~io_error => file_pos = LastLaid.end
    /\ ~Started => laid = <<SignatureChunk>>

\* Record n is in chunk i.
IsIn(n, i) == \E k \in DOMAIN laid[i].recs : laid[i].recs[k] = n

(***************************************************************************)
(* What is in the chunks: the first m of the records accepted, in order;   *)
(* while nothing has failed, all but those in the encoder.                 *)
(***************************************************************************)
Holds(m) ==
    /\ \A n \in 1 .. m : \E i \in DOMAIN laid : IsIn(n, i)
    /\ \A i \in DOMAIN laid : \A k \in DOMAIN laid[i].recs : laid[i].recs[k] \in 1 .. m
    /\ ~failed /\ ~io_error => m = Len(published) + Len(chunk.recs)
NumbersInv ==
    /\ \E m \in 0 .. accepted : Holds(m)
    /\ \A i, j \in DOMAIN laid : \A k \in DOMAIN laid[i].recs, l \in DOMAIN laid[j].recs :
         i < j \/ (i = j /\ k < l) => laid[i].recs[k] < laid[j].recs[l]

(***************************************************************************)
(* The reader stands behind chunk m, or in it, and has returned the first  *)
(* n records: they are those it has passed.                                *)
(***************************************************************************)
Passed(m, i, k) ==
    i < m \/ (i = m /\ (current_decoder = 0 \/ k <= current_record_index))

Stands(m) ==
    /\ next_chunk_file_pos = laid[m].end
    /\ current_decoder \in {0, m}
    /\ reader_pc \in {"open", "preamble", "header", "data", "recover"} => current_decoder = 0
    /\ reader_pc = "data" => local.chunk = m + 1 /\ m + 1 \in DOMAIN laid
    /\ current_decoder # 0 =>
         /\ current_chunk_begin = laid[m].begin
         /\ current_record_index \in 0 .. Len(laid[m].recs)

Returned(m, n) ==
    /\ n = 0 \/ \E i \in DOMAIN laid : IsIn(n, i)
    /\ \A i \in DOMAIN laid : \A k \in DOMAIN laid[i].recs :
         /\ laid[i].recs[k] <= n <=> Passed(m, i, k)
         /\ laid[i].recs[k] <= n => laid[i].begin + k - 1 \in delivered
    /\ \A p \in delivered : \E i \in DOMAIN laid : \E k \in DOMAIN laid[i].recs :
         laid[i].recs[k] <= n /\ p = laid[i].begin + k - 1
    /\ IsFiniteSet(delivered) /\ Cardinality(delivered) = n

ReaderInv ==
    /\ recovery = FALSE /\ io_errors = 0 /\ "chunk" \in DOMAIN local
    /\ reader_pc \in {"open", "preamble", "idle", "record", "header", "data", "recover", "gone"}
    /\ reader_pc \in {"open", "preamble"} => reader_op = "new"
    /\ reader_pc \in {"record", "header", "data"} => reader_op = "read_record"
    /\ \E m \in DOMAIN laid, n \in 0 .. accepted : Stands(m) /\ Returned(m, n)

TailInv == file = FileView /\ LaidInv /\ NumbersInv /\ ReaderInv
=============================================================================
