----------------------------- MODULE SimpleChunk -----------------------------
(***************************************************************************)
(* Simple chunks (simple_chunk.rs): the encoder that turns records into    *)
(* the data of a chunk, and the decoder that takes them out again, of a    *)
(* chunk of the encoder or of any bytes another writer may have hashed.    *)
(*                                                                         *)
(* Data are a compression type, the sizes of the records as varints, and   *)
(* their bytes one behind the other; the sizes and the bytes are           *)
(* compressed or not.                                                      *)
(***************************************************************************)
EXTENDS Varint, SequencesExt

CONSTANTS
    RecordLengths,   \* bound: lengths of the records added
    MaxRecords,      \* bound: number of records added
    Alphabet,        \* bound: bytes of chunks of other writers
    MaxPayload,      \* bound: their number
    MaxValues,       \* bound: their number behind a sizes blob that is right
    Claims           \* bound: sizes and record counts in their headers

ASSUME SimpleChunkAssumption ==
    /\ RecordLengths \subseteq Word /\ MaxRecords \in Nat
    /\ Alphabet \subseteq Byte /\ MaxPayload \in Nat /\ MaxValues \in Nat
    /\ Claims \subseteq Word

VARIABLES
    (* SimpleChunkEncoder *)
    records, compressed,
    chunk,             \* header claims and data, once encoded
    own,               \* history: whether the encoder made the chunk
    (* SimpleChunkDecoder::new and its locals *)
    pc, sizes_data, position, sizes, values,
    decompressed,      \* history: what decompression of each blob materialised
    (* SimpleChunkDecoder *)
    next_record,
    returned           \* history: the records returned

encoderVars == <<records, compressed, chunk, own>>
decoderVars == <<sizes_data, position, sizes, values, decompressed, next_record, returned>>
vars == <<encoderVars, pc, decoderVars>>

None == 0          \* CompressionType::None as u8
Some == 1          \* b'b', b'z' or b's'
Unknown == 2       \* any other byte

Chunk(data, num_records, decoded_data_size) ==
    [data |-> data, num_records |-> num_records, decoded_data_size |-> decoded_data_size,
     hash_ok |-> TRUE]

Sum(seq) == FoldSeq(LAMBDA a, b : a + b, 0, seq)

---------------------------------------------------------------------------
(* The compressor, a library: a compressed stream knows its own end, and   *)
(* what it expands to need not be what the chunk says.  Here a stream is   *)
(* the length of its output, and the output.                               *)

Compress(raw) == <<Len(raw)>> \o raw

Output(ok, raw, made) == [ok |-> ok, raw |-> raw, made |-> made]

(***************************************************************************)
(* decompress_data_capped: expansion stops one byte past max_len and then  *)
(* fails; it also fails when the stream is cut off and when anything       *)
(* follows it.  "made" is what was materialised on the way.                *)
(***************************************************************************)
decompress_data_capped(stream, max_len) ==
    IF stream = <<>> THEN Output(FALSE, <<>>, 0)
    ELSE LET expanded == Min({stream[1], Len(stream) - 1, max_len + 1})
             complete == stream = Compress(Tail(stream)) /\ expanded <= max_len
         IN  Output(complete, IF complete THEN Tail(stream) ELSE <<>>, expanded)

---------------------------------------------------------------------------
(* SimpleChunkEncoder *)

Init ==
    /\ records = <<>> /\ compressed \in BOOLEAN
    /\ chunk = Chunk(<<>>, 0, 0) /\ own = TRUE
    /\ pc = "encoder"
    /\ sizes_data = <<>> /\ position = 0 /\ sizes = <<>> /\ values = <<>>
    /\ decompressed = [sizes |-> 0, values |-> 0] /\ next_record = 0 /\ returned = <<>>

\* The bytes of a record are its number.
AddRecord ==
    /\ pc = "encoder" /\ Len(records) < MaxRecords
    /\ \E n \in RecordLengths :
          records' = Append(records, [i \in 1 .. n |-> Len(records)])
    /\ UNCHANGED <<compressed, chunk, own, pc, decoderVars>>

SizesSection == FlattenSeq([i \in DOMAIN records |-> encode_u64[Len(records[i])]])
ValuesSection == FlattenSeq(records)

EncodeUncompressed ==
    <<None>> \o encode_u64[Len(SizesSection)] \o SizesSection \o ValuesSection

sizes_blob(section) ==
    LET blob_len == length_varint_u64(Len(section)) + Len(Compress(section))
    IN  encode_u64[blob_len] \o encode_u64[Len(section)] \o Compress(section)

encode_compressed ==
    <<Some>> \o sizes_blob(SizesSection)
      \o encode_u64[Len(ValuesSection)] \o Compress(ValuesSection)

Encode ==
    /\ pc = "encoder"
    /\ chunk' = Chunk(IF compressed THEN encode_compressed ELSE EncodeUncompressed,
                      Len(records), Len(ValuesSection))
    /\ pc' = "new"
    /\ UNCHANGED <<records, compressed, own, decoderVars>>

\* A chunk of another writer, as the chunk reader hands it over: any bytes, or
\* the sizes blob of one record and any bytes behind it.
Receive ==
    /\ pc = "encoder" /\ records = <<>> /\ ~compressed
    /\ \E num_records \in Claims, size \in Claims :
         \/ \E n \in 0 .. MaxPayload, type \in {None, Some} : \E bytes \in [1 .. n -> Alphabet] :
               chunk' = Chunk(<<type>> \o bytes, num_records, size)
         \/ \E n \in 0 .. MaxValues, length \in Claims : \E bytes \in [1 .. n -> Alphabet] :
               chunk' = Chunk(<<Some>> \o sizes_blob(encode_u64[length]) \o bytes,
                              num_records, size)
    /\ own' = FALSE
    /\ pc' = "new"
    /\ UNCHANGED <<records, compressed, decoderVars>>

\* One without data, of an unknown compression, or not with the data that was hashed.
ReceiveUnusable ==
    /\ pc = "encoder" /\ records = <<>> /\ ~compressed
    /\ chunk' \in {Chunk(<<>>, 0, 0), Chunk(<<Unknown, 0>>, 0, 0),
                   [Chunk(<<None, 0>>, 0, 0) EXCEPT !.hash_ok = FALSE]}
    /\ own' = FALSE
    /\ pc' = "new"
    /\ UNCHANGED <<records, compressed, decoderVars>>

---------------------------------------------------------------------------
(* SimpleChunkDecoder::new *)

Payload == Tail(chunk.data)
From(seq, n) == SubSeq(seq, n + 1, Len(seq))
FirstOf(seq, n) == SubSeq(seq, 1, n)

Malformed ==
    /\ pc' = "malformed"
    /\ UNCHANGED <<sizes_data, position, sizes, values, decompressed>>

NewDecoder ==
    /\ pc = "new"
    /\ IF ~chunk.hash_ok \/ chunk.data = <<>> THEN pc' = "malformed"
       ELSE pc' = CASE Head(chunk.data) = None -> "sizes_length"
                    [] Head(chunk.data) = Some -> "sizes_blob"
                    [] OTHER -> "malformed"
    /\ UNCHANGED <<encoderVars, decoderVars>>

\* The sizes section of an uncompressed payload.
SizesLength ==
    LET length == decode_u64(Payload)
        rest == From(Payload, length.consumed)
    IN  /\ pc = "sizes_length"
        /\ \/ (~length.ok \/ length.value > Len(rest)) /\ Malformed
           \/ /\ length.ok /\ length.value <= Len(rest)
              /\ sizes_data' = FirstOf(rest, length.value)
              /\ values' = From(rest, length.value)
              /\ pc' = "sizes"
              /\ UNCHANGED <<position, sizes, decompressed>>
        /\ UNCHANGED <<encoderVars, next_record, returned>>

(***************************************************************************)
(* The sizes blob of a compressed payload: its length, the decompressed    *)
(* length, which one varint per record bounds, and the sizes.              *)
(***************************************************************************)
SizesBlob ==
    LET blob_len == decode_u64(Payload)
        rest == From(Payload, blob_len.consumed)
        blob == FirstOf(rest, blob_len.value)
        length == decode_u64(blob)
        Fits == /\ blob_len.ok /\ blob_len.value <= Len(rest)
                /\ length.ok /\ length.value <= MaxLen * chunk.num_records
        output == decompress_data_capped(From(blob, length.consumed), length.value)
    IN  /\ pc = "sizes_blob"
        /\ \/ ~Fits /\ Malformed
           \/ /\ Fits
              /\ decompressed' = [decompressed EXCEPT !.sizes = output.made]
              /\ IF output.ok /\ Len(output.raw) = length.value
                 THEN /\ sizes_data' = output.raw
                      /\ values' = From(rest, blob_len.value)
                      /\ pc' = "sizes"
                 ELSE pc' = "malformed" /\ UNCHANGED <<sizes_data, values>>
              /\ UNCHANGED <<position, sizes>>
        /\ UNCHANGED <<encoderVars, next_record, returned>>

\* Mutant: the total is compared with the claim at the end only.
SizeFits_AtEnd(total) == TRUE

\* The running total may not exceed the claim of the header.
SizeFits(total) == total <= chunk.decoded_data_size

\* The loop over the sizes.
NextSize ==
    LET size == decode_u64(From(sizes_data, position))
        Fits == size.ok /\ SizeFits(Sum(sizes) + size.value)
    IN  /\ pc = "sizes" /\ Len(sizes) < chunk.num_records
        /\ \/ (position >= Len(sizes_data) \/ ~Fits) /\ Malformed
           \/ /\ position < Len(sizes_data) /\ Fits
              /\ position' = position + size.consumed
              /\ sizes' = Append(sizes, size.value)
              /\ UNCHANGED <<pc, sizes_data, values, decompressed>>
        /\ UNCHANGED <<encoderVars, next_record, returned>>

\* Mutant: bytes behind the last size are ignored.
SizesEnd_IgnoresTrailing == Sum(sizes) = chunk.decoded_data_size

\* The sizes are consumed exactly and add up to the claim.
SizesEnd == position = Len(sizes_data) /\ Sum(sizes) = chunk.decoded_data_size

VerifySizes ==
    /\ pc = "sizes" /\ Len(sizes) = chunk.num_records
    /\ pc' = IF ~SizesEnd THEN "malformed"
             ELSE IF Head(chunk.data) = None THEN "values" ELSE "values_blob"
    /\ UNCHANGED <<encoderVars, decoderVars>>

\* What follows the sizes are the values and nothing else.
Values ==
    /\ pc = "values"
    /\ pc' = IF Len(values) = Sum(sizes) THEN "ready" ELSE "malformed"
    /\ UNCHANGED <<encoderVars, decoderVars>>

\* Mutant: the limit of the sizes is used for the values too.
values_limit_of_sizes == MaxLen * chunk.num_records

\* What the values may expand to.
values_limit == chunk.decoded_data_size

ValuesBlob ==
    LET length == decode_u64(values)
        Fits == length.ok /\ length.value = chunk.decoded_data_size
        output == decompress_data_capped(From(values, length.consumed), values_limit)
    IN  /\ pc = "values_blob"
        /\ \/ ~Fits /\ Malformed
           \/ /\ Fits
              /\ decompressed' = [decompressed EXCEPT !.values = output.made]
              /\ IF output.ok /\ Len(output.raw) = Sum(sizes)
                 THEN values' = output.raw /\ pc' = "ready"
                 ELSE values' = values /\ pc' = "malformed"
              /\ UNCHANGED <<sizes_data, position, sizes>>
        /\ UNCHANGED <<encoderVars, next_record, returned>>

\* read_record; the ranges of the records follow from their sizes.
ReadRecord ==
    /\ pc = "ready"
    /\ \/ /\ next_record < Len(sizes)
          /\ LET offset == Sum(FirstOf(sizes, next_record))
             IN  returned' = Append(returned,
                    SubSeq(values, offset + 1, offset + sizes[next_record + 1]))
          /\ next_record' = next_record + 1
          /\ pc' = pc
       \/ /\ next_record >= Len(sizes)
          /\ pc' = "end"
          /\ UNCHANGED <<next_record, returned>>
    /\ UNCHANGED <<encoderVars, sizes_data, position, sizes, values, decompressed>>

Next ==
    \/ AddRecord \/ Encode \/ Receive \/ ReceiveUnusable
    \/ NewDecoder \/ SizesLength \/ SizesBlob \/ NextSize \/ VerifySizes
    \/ Values \/ ValuesBlob \/ ReadRecord

Spec == Init /\ [][Next]_vars

---------------------------------------------------------------------------
(* Properties *)

(***************************************************************************)
(* What the encoder encodes the decoder returns: every record, in order,   *)
(* empty ones and ones whose size needs several bytes included, compressed *)
(* or not; it never refuses a chunk of the encoder.                        *)
(***************************************************************************)
RoundTrip ==
    own => /\ pc # "malformed"
           /\ IsPrefix(returned, records)
           /\ pc = "end" => returned = records

\* seq is n varints with the given sum, one behind the other.
Varints(seq, n, sum) ==
    \E cuts \in [0 .. n -> 0 .. Len(seq)] :
       /\ cuts[0] = 0 /\ cuts[n] = Len(seq)
       /\ \A i \in 1 .. n :
            /\ cuts[i - 1] < cuts[i]
            /\ LET v == decode_u64(SubSeq(seq, cuts[i - 1] + 1, cuts[i]))
               IN  v.ok /\ v.consumed = cuts[i] - cuts[i - 1]
       /\ sum = MapThenSumSet(LAMBDA i :
                    decode_u64(SubSeq(seq, cuts[i - 1] + 1, cuts[i])).value, 1 .. n)

\* seq begins with a varint of this value in k bytes.
LengthPrefix(seq, k, value) ==
    LET v == decode_u64(seq) IN v.ok /\ v.consumed = k /\ v.value = value

\* The format, as simple_chunk.rs documents it at its head.
WellFormed ==
    LET n == chunk.num_records
        size == chunk.decoded_data_size
        length == Len(Payload)
    IN  /\ chunk.data # <<>> /\ chunk.hash_ok
        /\ \/ /\ Head(chunk.data) = None
              /\ \E k, m \in 0 .. length :
                   /\ LengthPrefix(Payload, k, m)
                   /\ k + m + size = length
                   /\ Varints(SubSeq(Payload, k + 1, k + m), n, size)
           \/ /\ Head(chunk.data) = Some
              /\ \E k, m \in 0 .. length :
                   LET blob == SubSeq(Payload, k + 1, k + m)
                       rest == From(Payload, k + m)
                   IN  /\ LengthPrefix(Payload, k, m) /\ k + m <= length
                       /\ \E j \in 0 .. (m - 1) :
                            /\ LengthPrefix(blob, j, m - j - 1) /\ blob[j + 1] = m - j - 1
                            /\ Varints(From(blob, j + 1), n, size)
                       /\ \E i \in 0 .. (Len(rest) - 1) :
                            /\ LengthPrefix(rest, i, size) /\ rest[i + 1] = size
                            /\ i + 1 + size = Len(rest)

(***************************************************************************)
(* new accepts exactly the chunks of the documented format: neither        *)
(* section may be short or have bytes behind its end, and the header's     *)
(* claims are met to the byte (VerifyEndAndClose).                         *)
(***************************************************************************)
AcceptsFormat ==
    /\ pc = "ready" => WellFormed
    /\ pc = "malformed" => ~WellFormed

(***************************************************************************)
(* "Decoded output can then never exceed the validated header claim": not  *)
(* at any point of the decoding, whatever the sections claim about         *)
(* themselves; decompression materialises one byte more at most before it  *)
(* fails, than varints for all records in the sizes and than the claim in  *)
(* the values.                                                             *)
(***************************************************************************)
OutputBounded ==
    /\ Sum(sizes) <= chunk.decoded_data_size
    /\ decompressed.sizes <= MaxLen * chunk.num_records + 1
    /\ decompressed.values <= chunk.decoded_data_size + 1
=============================================================================
