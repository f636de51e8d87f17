# riegeli-rs in TLA+

TLA+ models, TLC runs and TLAPS proofs for the Rust implementation of the
Riegeli/records file format (`src/riegeli`).  A Riegeli file is an append-only
sequence of records, batched into hashed *chunks*, laid out over fixed *blocks*
whose headers let a reader find chunk boundaries from any position.

## The system

| Part | State | Operations | What is hard about it |
|---|---|---|---|
| Block arithmetic (`block_arithmetic.rs`, `constants.rs`) | none | positions to block offsets, walks over block headers, end of a chunk | boundaries: inside, at and right behind a block header; a chunk at a boundary has two addresses |
| Record writer (`record_writer.rs`) | stream position, pending encoder and its accounted size, closed flag, failure latch | `new`, `write_record`, `flush`, `close`, drop | a chunk is many writes, each may fail half-way; flush in the middle of `write_record`; drop after an error and again after `close`; padding |
| Record reader (`record_reader.rs`, `record_position.rs`, `skipped_region.rs`) | cursor (current chunk, index, next chunk), positions, cached stream length, classification of the last failure, last skipped region | `new`, `read_record`, `seek`, `seek_numeric`, recovery; `search`, `seek_back`, `size`, `read_metadata`, `check_file_format` | damaged, truncated and growing files; state left over between operations; progress of recovery |
| Chunk and block headers, hash (`chunk_header.rs`, `block_header.rs`, `hash.rs`) | none | build, parse, validate | - |
| Simple chunk codec (`simple_chunk.rs`, `varint.rs`, `compression.rs`) | pending records; in the decoder the sizes, the values and the next record | add record, encode, decode, read record | claims of the header and of both sections that must agree to the byte, varints at the end of a section or of a word, expansion of compressed sections |
| Transpose encoder (`transpose/encoder.rs`) | field nodes and their buffers, the sequence of tags, buckets | add record, encode | a state machine with private and public lists, NoOp blocks and bridges; bucket sizes planned from one end and filled from the other |
| Transpose decoder (`transpose/decoder.rs`, `field_projection.rs`) | machine, transition bytes, buffer cursors, submessage stack, output written backwards | decode, project, read record | termination on any machine; ends come before starts; buffers pruned without knowing where a field is nested |
| Proto wire layer (`proto/`) | cursor in a message | parse, iterate, write fields | which bytes count as a message |
| FFI harness, generated code, benches, fuzz targets | - | - | not modelled |

The writer calls an encoder for the pending records and `W: Write` for the
bytes; the reader calls `R: Read + Seek`, a decoder and the user's recovery
callback.  Writer and reader share no memory: they meet in the file, which the
reader may read while the writer appends (`read_record`: "the standard tailing
loop works"); `TailingLog` composes the two.  There are no threads.  The nondeterminism is the file's: errors
of any call, bytes that arrive later, damage; and the caller's: which operation
comes next, what the callback answers.

## Modules

| Module | Models |
|---|---|
| `BlockArithmetic` | `block_arithmetic.rs` as operators; the two loops in closed form |
| `OverheadWalk` | those two loops, one step per iteration, shown to compute the closed forms |
| `RecordLog` | what a file promises with no chunks and blocks: an append-only log with a visible and a flushed prefix |
| `RecordWriter` | the writer; implements `RecordLog` |
| `RecordReader` | the reader over a damaged, truncated, growing file |
| `MCRecordReader` | the files the reader runs read |
| `ReaderQueries` | `search`, `seek_back`, `size`, `read_serialized_metadata`, `check_file_format`, on top of `RecordReader` |
| `MCReaderQueries` | the same over the files of `MCRecordReader` |
| `Varint` | `varint.rs` as functions, with words and bytes of any width |
| `SimpleChunk` | the encoder and the decoder of simple chunks, over chunks of the encoder and over arbitrary bytes |
| `TailingLog` | `RecordWriter` and `RecordReader` over one file: the reader reads what the writer is writing |
| `TransposeWalk` | the transpose decoder's range checks, loop check and walk over a state machine |
| `TransposeEncoder` | how the transpose encoder makes a machine and transition bytes of a sequence of tags, as operators |
| `MCTranspose` | `TransposeWalk` over encoded and over arbitrary headers |
| `TransposeRecords` | what a transposed chunk does to records: buffers, buckets, pruning, backward decoding, projection |
| `MCTransposeRecords` | the records and projections of its run |
| `BlockArithmeticProofs`, `OverheadWalkProofs`, `TransposeWalkProofs` | theorems about the modules they are named after |
| `RecordWriterProofs` | theorems about the writer: the layout of the file; the records in it, and that it implements `RecordLog` |
| `TailingLogProofs` | the theorem about reader and writer together |
| `RecordReaderProofs`, `RecordRecoveryProofs` | theorems about the reader: types and the order of records in any file; what damage does to reading |
| `ReaderQueriesProofs` | theorems about metadata reads, checks and `size`, on top of those about the reader |

### BlockArithmetic, OverheadWalk

Sizes of blocks and headers are constants, assumed only to be positive with a
block larger than its header.  `DataOffset(p)` is the number of usable bytes
before `p`; both loops are differences and inverses of it.

### RecordWriter

The variables in the first group are the fields of the struct.  `op`, `pc`,
`after`, `added_size` and `chunk` are the operation in progress and its locals:
`chunk` is the argument list of `write_chunk_raw` and of
`write_bytes_with_block_headers`.  One step is one `write_all` (or one piece of
code between two of them); `FailedWrite(n)` is a `write_all` that leaves any
k < n bytes behind.  The stream is its length, the block headers on it and the
complete chunks.  Encoding is abstracted to the size of its result, any of
`DataSizes`, and may fail.  `Fail` is what an error return does: latch in
`write_record`, `flush` and `flush_internal`; drop the half-built writer in
`new`.  The first loop of `pos_after_padding` is subsumed by the second (see
`SearchPadding`).  `close` consumes the writer, so `Drop` runs when it has
returned, `Ok` or `Err`, and enters `flush_internal` once more (`Leave`); the
early return for a closed writer is what keeps it from padding again or writing
behind a failure.  To the abstract log a writer is closed when `close` has
returned (`Shut`); what `Drop` does behind it must be a stutter.

### RecordReader

`file` is a damaged copy of what a writer wrote: chunks and block headers, each
with a bit for every hash or check it may fail, and what its header claims.
`len` is how much of it is visible; `Grow` increases it between any two steps.
A step of the reader is one read whose result it combines with others: a chunk
header (`LoadHeader`, `PeekHeader`), the data of a chunk (`LoadData`), a block
header (`ResolveScanOrigin`, `Resync`).  `load_next_chunk` and `load_chunk_at`
are one loop that differs in what it assigns (`op = "seek"`).  `Recover`,
`Resync` and `ReportRegion` are `try_recover_at`; the answer of the callback is
nondeterministic.  `IoError` lets any read or seek fail.  Simple and transposed
chunks are not distinguished: a chunk's decoder accepts it or does not.

`from`, `delivered` and `regions` are history: where reading was last
positioned, and the records returned and regions reported since.

### ReaderQueries

`query` holds the operation in progress, its locals and, in phase `done`, what
it returns.  Its scans over chunk headers are steps of the module; the `seek`
and `read_record` calls it makes are steps of `RecordReader`, and the query goes
on when they have returned (`Resumed`) or ends with their error
(`QueryFailed`).  `search` compares records by their position, so a file is
sorted.  Operations that only report regions (`size`, metadata reads) share
`Recover` and `Resync` and end in `ReportOnly`, which consumes nothing but
overwrites `last_skipped_region`, as the code does.

### Varint, SimpleChunk

A byte carries `Bits` bits and a word needs at most `MaxLen` of them, one bit in
the last (7 and 10 in the code; 2 and 3 in the run, so that sizes of 4 need two
bytes, and words end inside a byte as in the code).  Records are sequences of
bytes, because the question is whether each byte comes back in its record.
`decompressed` is what each of the two sections has been expanded to, and
`Receive` is a chunk of another writer: any bytes, or a right sizes blob and any
bytes behind it, so that the values blob is reached with claims that differ.
`Encode` is `encode`; the decoder's steps are the parts of `decode_uncompressed`
and `decode_compressed` between two checks, which both go through the loop
`NextSize`.  `Receive` hands the decoder any bytes with any claims under a valid
hash.  A compressed stream is external: it knows its own end and may expand to
anything (`Compress`, `decompress_data_capped`).

### TailingLog

Extends the writer and instantiates the reader.  `FileView` is the file the
reader sees, made of the writer's state at every step: the chunks it has begun
(`laid`), with what their headers will say, the block headers it has written,
and the length of the stream.  A chunk that is only partly there is one whose
bytes are not all within that length; that is for `RecordReader` to find out
with its own reads.  The writer's steps and the reader's interleave freely, and
any write may fail and leave a torn chunk behind for good.

### TransposeWalk, TransposeEncoder

The transpose codec turns a chunk into a state machine whose nodes stand for
tags, and transition bytes that say which node comes next.  The two modules
leave out what a node does.  `header` is what the chunk says of the machine.
`Scan` and `Follow` are the two loops of `contains_implicit_loop`, with its
marks; `RunByte`, `RunIter`, `RunEnd` are the cases of `advance_state_machine`.
`trail` and `executed` are history.  The 255 failure nodes behind the last state
are the nodes that are not in `Nodes`.

`TransposeEncoder` is the pipeline of `create_state_machine` and
`build_transitions`: transition statistics, the private list of a tag
(`AddPrivateList`), the public list, the NoOp that serves each full block
(`FillBlocks`), the base from which all of a tag's destinations are in reach
(`Meet`), and the offsets on the way to one (`Path`).  `MAX_TRANSITION`,
`MIN_COUNT_FOR_STATE` and the repeat count are constants; with 1, 2 and 3 instead
of 63, 10 and 3, sequences of eight tags need several blocks, bridges and runs
of zero offsets.

### TransposeRecords

A record is a sequence of units, one per tag with what follows it; a unit counts
as one byte, which keeps lengths, limits and bucket sizes meaningful.  `enc` is
the encoder (nodes, tags, buffers), `chunk` what it writes, `dec` the decoder
(output, record limits, submessage stack, skipped levels, buffer cursors).  One
action per callback of `execute_node_action`.  The machine between encoder and
decoder is replaced by what `ReplaysTags` says of it: the nodes of the tags, from
the last to the first.  `IncludeType` reads the include map as paths, which is
what its chains of field ids stand for.  `Project` is the reference: it defines a
projection by recursion on the record.

## Runs

| Run | Shows |
|---|---|
| `overhead_walk` | both loops, from every begin in three blocks of 8 bytes with headers of 3, return the closed forms and terminate |
| `writer_layout` | a metadata chunk, final padding to a multiple of 2 in blocks of 8 with headers of 4 (so that the padding search meets spans too short for a chunk header, ends inside a block header and ends in the next block), chunks with more records than bytes, records that overflow a chunk, errors everywhere |
| `tailing_log` | a writer with a metadata chunk and up to two records, each write of which may fail, and a reader that looks at the file between any two of them |
| `writer_new_error` | violation, see Findings |
| `reader_damage` | all pairs of damaged places in a file of seven chunks over five blocks, or with one of them cut off at or growing from 17 bytes, or undamaged and also cut off at or growing from 0 and 5; with and without a callback; one seek, one I/O error |
| `reader_liveness` | every query returns and recovery reaches the end, also with headers that hash but lie, while the file grows |
| `queries` | every query, at every point of a read and after a seek, of a file with a damaged place that grows from a length within the zeros of a chunk, and `seek_back` behind any of them; one read or seek fails |
| `simple_chunk` | every batch of up to three records of 0, 1, 3, 4 and 5 bytes comes back, compressed or not; of all payloads of up to six bytes with claims of up to two records and two bytes, or a sizes blob and up to four bytes, exactly the well-formed ones are accepted, and neither section is expanded beyond the claim for it |
| `transpose_machine` | every sequence of up to eight tags is replayed by the machine and the bytes made of it; every machine of up to three states, with every first node and up to two transition bytes, is rejected or run to its end |
| `transpose_records` | every sequence of up to four units as a record, pairs of up to two, and triples of nested ones come back; every message of up to three units and the nested ones under every projection of up to two of ten fields |
| `reader_stale_length`, `search_park` | violations, see Findings |

Bounds.  Blocks of 8 bytes with headers of 2 to 4 have every kind of position
(boundary, inside the header, the alias right behind it, data, last byte) within
one or two blocks, and chunks of up to 30 bytes cover several blocks.  The file
of `MCRecordReader` has a chunk that begins at a boundary, one that spans a
boundary in its header, two in their data, one with more records than bytes, a
padding chunk and one of an unknown type.  Two damaged places are enough for a
damaged chunk whose block header, the one recovery relies on, is damaged too.
The queries read a second file (`TailShape`) that begins with a metadata chunk
and has a block header in the zeros behind the data of a chunk; the records
searched for lie left of a chunk that may be damaged, inside one, and nowhere.
The transpose runs have a depth limit of 2, inline varints up to 1, buckets of 1
to 4 units, and fields 1 and 2 at up to three levels, so that messages lie in
groups and groups in messages, one is too deep to be taken apart, strings look
like messages and do not, and buckets are split, shared and folded.
`MaxRecords`, `MaxSeeks`, `MaxQueries` and `MaxIoErrors` bound counters in
guards; `MaxPayload` and `MaxValues` bound the chunks that `SimpleChunk` receives.
`Sequels` names the queries made only behind another one: `queries` has two
queries, the second a `seek_back`, because it is the one that walks from what the
first has left behind (a decoder, an index, a cursor parked by a search).  The
other runs of `ReaderQueries` have one query.

Fairness.  `WF(Step)`: an operation is sequential code and goes on once called.
`WF(ReadRecord)` is the caller that keeps reading, `WF(Grow)` says that the
file is finished in the end; both are assumptions about the environment that
`ReachesEnd` is about.  `QueriesReturn` needs only the fairness of the steps of
an operation in progress.  In `TailingLog` the writer's steps are weakly fair,
and so is the reader with its caller; the latter is written with the condition
for being able to go on (`ReaderFairness`), since a reader whose `new` has not
failed always can, and ENABLED of an instantiated action is expensive.
`WF(Next)` of `TransposeWalk` is a loop that goes on.  Safety does not depend on
them.

## Proofs

For every value of the constants:

- `BlockArithmeticProofs`: `DistanceInverse`, `AddInverse`, and the lemmas on
  `DataOffset`, `AfterUsableByte` and `chunk_end` (its end is a possible chunk
  boundary, behind all its bytes and all its record positions).
- `OverheadWalkProofs`: `WalkInvariant`, `WalkCorrect`, `WalkInverse`.  The
  invariant says that an iteration moves bytes between the position and the
  counter and loses none.
- `RecordWriterProofs`: `WriterInvariant` and from it `WriterPosition`,
  `WriterTiles`, `WriterBlocksLead`, `WriterPositionsDisjoint`,
  `WriterStopsAtError`.  The properties are not inductive by themselves: that
  the data loop stops at the end computed beforehand needs `ChunkInv`, which
  relates the bytes written so far to the position through `DataOffset`; that
  nothing is written after an error needs `ErrorInv`, which says where an error
  leaves the program.  All are proved under `OptionsSeparate` (metadata or final
  padding, not both), because with both `NoWriteAfterError` is false in general.
  It is not false when, as in `writer_layout`, the padding divides the block size
  and the sizes of both headers: then `new` only stops at multiples of it, and
  the `Drop` of the half-built writer finds nothing to pad.  Without
  `OptionsSeparate` the invariant holds until a call on the stream fails:
  `WriterInvariantUntilError`, and from it `WriterLayout`, are for all options.
- the same module, for all options: `WriterConserves`,
  `WriterRespectsChunkSize`, `WriterFlushesAll` and the refinement
  `WriterImplementsLog`.  They rest on `RecordsInv`: while nothing has failed,
  what has been accepted is what the complete chunks, the chunk being written and
  the encoder hold, one behind the other; and it says at each `pc` which of the
  three are empty and what is accounted.  It needs `PaddingInv` for the multiple
  of `final_padding` that `flush` promises: `SearchPadding` ends at one.  In the
  refinement an operation maps to its step of the log where it returns, and a
  write that completes a chunk to `Publish`; everything else stutters.  That the
  `Drop` behind `close` stutters needs `ClosedInv`: a closed writer is in `close` or
  in `Drop`, and where `flush_internal` is entered closed, it is by `Drop`.
- `RecordReaderProofs`, for every file of type `FileType`, whatever its headers
  claim: `ReaderTypes` and `ReaderReturnsInOrder`.  Alone the types are not
  inductive, because steps rely on what is kept between them (`TypeInv`); the
  order is `OrderInv`: the chunk being decoded is the one at the canonical address
  of the position before it, and no record returned lies at or behind the cursor.
- `RecordRecoveryProofs`, for files laid out as a writer does, however they have
  been damaged, truncated or are growing, with reads that fail:
  - `ReaderNeverPassesDamage`, if chunks are disjoint (`ChunksDisjoint`), by
    `FoundInv` (what has been read is not damaged) and `PassInv` (no damage lies
    between the position sought and the next chunk);
  - `ReaderRegionsAdvance`, if the block headers that still hash tell the truth
    (`BlocksTruthful`), by `AdvanceInv`.  The hard case is a region that ends
    at `boundary + BlockHeaderSize`: if a chunk began at the boundary, reading on
    would canonicalise the position to the boundary, inside the region.  The scan
    for a chunk begin steps over no boundary at which one opens, so this does not
    happen (`Settled`); with a block header that leads past such a boundary it
    could;
  - `ReaderReadsExactly`, under both, by `ExactInv`: what lies between the position
    sought and the cursor, and what a numeric seek scans past, has been returned
    or lies in a region.  Nothing in front of a position that has been moved back
    may be claimed again, so `ExactInv` also says that no chunk behind the cursor
    begins in front of the position sought, except the one a numeric seek has
    found and not yet loaded (`SoughtIn`);
  - `ReaderRegionsCoverDamage`, if chunks are disjoint and tile the file and block
    headers that still hash lead to the chunk they lie in and to the next
    (`FileTiled`), and callers seek to addresses of chunks (`AddressesOfChunks`),
    by `CoverInv`: the reader looks for a chunk only where one begins, inside a
    bad one or behind the end (`Stands`), so an address that fails lies in a bad
    chunk, and so does the region that begins there.  A block header inside a
    bad chunk leads to where the next begins, which keeps `Stands`.

  `ChunksDisjoint`, `BlocksTruthful` and `FileTiled` are what the writer's theorems
  guarantee of a complete file (`WriterTiles`, `WriterPositionsDisjoint`,
  `WriterBlocksLead`) and what damage that a hash notices preserves; `LayoutHolds`
  has TLC check them for the files of the runs.  The invariants have been
  model-checked with `reader_damage`.
- `ReaderQueriesProofs`, for the same files, which may grow between any two steps:
  `QueriesMetadataNotHidden` and `QueriesSizeCounts`, if chunks are disjoint, and
  `QueriesCheckDecides`, if they also tile the file: `Ok` means that every chunk is
  sound (`ChunksSound`), and a file in which all headers and hashes are valid
  (`AllValid`) gets `Ok`.  Between the two lie files damaged only in block headers
  that the check does not read, for which no verdict is claimed.  All rest on
  `QueryInv`: while one of these operations
  scans, no other step of the reader runs but those of the recovery it has called
  itself, and an operation that is over has either failed or returned.
  - Metadata: `read_chunk_header_at` reads a header where one is intact, and fails
    without damage only at the end of the file or with an I/O error
    (`MetadataInv`).
  - A check: everything in front of its position is sound, and the position is
    where a chunk begins or the file ends (`CheckInv`).  What it decides is
    exactly `ChunksSound` (`CheckedExactly`), which implies both halves of
    `CheckDecides`.  That chunks tile the file
    (`FileTiled`) is what takes the position from a sound chunk to the next one.
    The position is not always an address of that chunk: behind a chunk that ends
    at a boundary it is the alias behind the block header, hence
    `canonical_chunk_address` in `Checked`.

  - `size`: `ReaderTypesInv` says of scans what the reader's types say of reads,
    and which query a scan belongs to.  By `SizeInv` what has been counted lies
    between two sums over the chunks in front of the scan: those that are intact,
    complete at the call and touched by no region, and those whose header can be
    read.  A step over a chunk adds it to what is counted and to the second sum.
    A recovery reports a region that begins at or before the address that failed
    and ends behind it, so the chunks it passes are touched by it and the first
    sum does not need them; where no region is reported the header failed at the
    end of the file, and nothing complete lies behind.  The sums are folds that
    choose one chunk after the other.  That a set's sum is that of the rest and
    the chunk taken out, whichever it is (`TotalRemove`), is proved by descent: in
    the set of the sets for which it fails there would be a smallest one.

  These five invariants have been model-checked on the instance of `queries`.
- `TailingLogProofs`: `TailReadsLog`, what the writer's callers and the reader's see
  together.  Its invariant `LogInv` adds `TailInv` to `WriterInv` and `RecordsInv`:
  where the chunks are (`LaidInv`: one behind the other, the last one ending where
  the next will begin), what is in them (`NumbersInv`: the first records accepted, in
  order, also in chunks that were given up) and where the reader is (`ReaderInv`: it
  stands behind chunk m, or in it, and the n records it has returned are those
  before it).  A step of the writer only adds a chunk behind the reader with
  records that are new; so the chunk header that the reader finds, and it may find
  none, is that of chunk m + 1, and the record it returns has number n + 1.  It is
  proved under `OptionsSeparate`: otherwise a half-built writer may place a padding
  chunk behind a torn one (finding 1), and chunks no longer follow each other.
  The proof unfolds the steps of the reader and does not use the
  theorems about it, which are about files whose layout is assumed: here the writer
  makes it.  `TailInv` has been model-checked with `tailing_log`.
- `TransposeWalkProofs`: `WalkInvariant` and from it `LoopCheckCorrect`,
  `BytesTakenAtExplicitNodes`, `NoLapWithoutByte`, for machines of any size.
  A loop is a set of implicit nodes closed under the next node.  The marks of the
  pass in progress are a path (`CurrentIsPath`): a set of them without the last
  node is left by one of its members.  So a pass that does not meet itself marks
  no node of a loop (`LoopsUnmarked`), and since all nodes are marked in the end
  there is none; a pass that meets itself has marked one.  That the walk makes
  no lap then follows: the nodes since the last explicit one lead to the current
  one (`TrailLeadsHere`), and coming back would close them.  Assumed of headers
  is only what their type says (`HeadersAssumption`).

Only model-checked: `search` and `seek_back`, and what is read after them
(`SearchComplete`, `SeekBackStepsBack`, `ReadsExactlyAfter`: they speak of
collected lists of chunks, and a query moves the reader in the middle of a read,
which `ExactInv` does not cover); the codecs (varints,
records and the lists of the transpose encoder are recursive data); and
liveness (`WalkTerminates` of both modules, `OperationsReturn`, `ReachesEnd`,
`PublishedIsRead`, `QueriesReturn`), which is out of the prover's reach.

## Findings

1. `writer_new_error`: a failed metadata write in `new` is not latched, and
   `Drop` of the half-built writer writes a padding chunk behind the partial
   chunk when `final_padding` is set.
2. `reader_stale_length`: `report_region_at` cuts the region at the stream
   length as last measured.  On a file that has grown, damage is reported as
   many regions of one byte, not as one that ends at a block boundary.
3. `search_park`: a search that finds nothing parks the reader at the measured
   length, which may lie inside a chunk whose zeros are still being written; the
   next read on the grown file meets no chunk header there.

Smaller observations that have no run of their own:

- `FieldProjection::is_all` and its test `empty_path_field_means_include_all` say
  that an empty path that asks for existence only is ignored; but
  `IncludeFieldMap::from_projection` takes any empty path for "include
  everything" and makes no map, so that such a projection returns whole records
  (`HasIncludeMap`; `ProjectionExact` is about paths that are not empty);
- a comment in `read_record` says that the reader stays at a region its callback
  rejected; `try_recover_at` consumes it, as `ReaderOptions::recovery` documents;
- `seek_back` onto a chunk whose data is damaged returns `Ok(true)` with the
  reader behind that chunk, where it was (`SeekBackStepsBack` excepts it);
- after a seek behind the end of the file, `seek_back` returns `Ok(false)`
  although records precede the position (excepted as well);
- `size` overwrites the region that the next region of a read is clamped to, so
  that regions of forward reads may overlap when `size` is called in between,
  although a comment in `report_region_at` says they never do; the overlap is
  confined to the bytes of a block header (`RegionsApart` in `ReadsExactlyAfter`);
- `check_file_format` rejects an empty file, which a reader accepts;
- `check_file_format` never reads a block header that lies in the zeros behind a
  chunk's data, so it accepts a file in which that one is damaged, although its
  doc promises to validate all block headers (`ChunksSound` says which it does
  read; `CheckDecides` demands no verdict on such a file);
- a reader opened on an empty file never validates the preamble when the file
  has grown;
- the doc of `final_padding` says of `initial_padding` that it "only pads on
  `close()`"; it has no effect, as its own doc says.

## Not modelled

- Bytes of the file and hashes (a hash matches or it does not), the compressors,
  u64 saturation, error texts, option validation.
- Of the transpose codec: the bytes of the chunk's header, and what the decoder's
  callbacks do under a machine that no encoder makes (the walk over such machines
  is modelled).
- Of the proto layer: `field_iter.rs`, `stream.rs`, `handler.rs`, `writer.rs`.
  They are an interface to messages for users of the crate; neither reader nor
  writer calls them, and each of their operations parses or appends one field.
- `read_metadata`'s protobuf parse, and the generated code behind it, which is
  more than half of the lines of the crate; the FFI harness, benches, fuzz
  targets and scripts.

## Plan

Modelled: the arithmetic, the writer, all operations of the reader, both composed
over one file, the simple chunk codec and the transpose codec.  Proved: the
safety properties of the writer and of the reader, of metadata reads, of checks
and of `size`, and that a reader that tails the writer's file returns a prefix of
the log.  What is left is to prove what `ReaderQueries` says of `search` and
`seek_back`, and that the simple chunk decoder never expands a section beyond its claims.
