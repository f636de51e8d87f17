-------------------------- MODULE TransposeRecords --------------------------
(***************************************************************************)
(* What a transposed chunk does to records: the encoder takes them apart   *)
(* into one buffer per field path and a sequence of tags, packs the        *)
(* buffers into buckets, and the decoder puts them together again from the *)
(* back, all of them or the part a field projection asks for               *)
(* (transpose/encoder.rs, transpose/decoder.rs, field_projection.rs).      *)
(*                                                                         *)
(* A record is a sequence of units, each standing for the bytes of a tag   *)
(* and what follows it, and each counted as one byte:                      *)
(*   varint, fixed   a field with its value                                *)
(*   len             a length-delimited field; the next v units are in it  *)
(*   start, end      a group                                               *)
(*   junk            bytes that are no tag                                 *)
(* The tags reach the decoder in reverse, which is what TransposeWalk      *)
(* establishes of the state machine that carries them.                     *)
(***************************************************************************)
EXTENDS Integers, Sequences, FiniteSets, SequencesExt, FiniteSetsExt, TLC

CONSTANTS
    MaxDepth,     \* MAX_RECURSION_DEPTH, 100 in the code
    MaxInline,    \* MAX_VARINT_INLINE, 3 in the code
    Inputs        \* [records, projection, bucket_size] to be checked

ASSUME RecordsAssumption == MaxDepth \in Nat /\ MaxInline \in Nat

Unit(k, f, v) == [k |-> k, f |-> f, v |-> v]

\* A number in a buffer: a scalar's value or the length of a string or record.
Value(v) == Unit("value", 0, v)

\* message_id: the ids of fields begin behind those of the reserved ones.
NON_PROTO == 1
START_OF_MESSAGE == 3
ROOT == 4

NodeId(parent, k, f) == [parent |-> parent, k |-> k, f |-> f]
NonProtoNode == NodeId(NON_PROTO, "nonproto", 0)
StartNode == NodeId(START_OF_MESSAGE, "message", 0)

VARIABLES
    input,
    status,      \* "add", "parse", "run", "read" or "error"
    added,       \* how many records the encoder was given
    enc,         \* the encoder: [nodes, tags, buffers, lengths]
    chunk,       \* what the chunk carries: [buckets, sizes, nodes, size, num_records]
    left,        \* how many nodes are not executed
    dec,         \* the decoder: [dest, limits, stack, skipped, cursors, ok]
    output       \* the records read_record returned

vars == <<input, status, added, enc, chunk, left, dec, output>>

-----------------------------------------------------------------------------
(* proto/wire.rs                                                           *)

\* is_proto_message: lengths stay inside and groups match.  It does not look
\* into length-delimited fields.
RECURSIVE WellFormed(_, _)
WellFormed(data, groups) ==
    IF data = <<>> THEN groups = <<>>
    ELSE LET u    == Head(data)
             rest == Tail(data)
         IN  \/ u.k \in {"varint", "fixed"} /\ WellFormed(rest, groups)
             \/ /\ u.k = "len"
                /\ u.v <= Len(rest)
                /\ WellFormed(SubSeq(rest, u.v + 1, Len(rest)), groups)
             \/ u.k = "start" /\ WellFormed(rest, <<u.f>> \o groups)
             \/ /\ u.k = "end"
                /\ groups # <<>> /\ Head(groups) = u.f
                /\ WellFormed(rest, Tail(groups))

is_proto_message(data) == WellFormed(data, <<>>)

-----------------------------------------------------------------------------
(* The encoder.                                                            *)

\* get_or_create_node: message ids are given in the order of creation.
WithNode(e, node) ==
    IF Contains(e.nodes, node) THEN e ELSE [e EXCEPT !.nodes = Append(@, node)]
MessageId(e, node) == ROOT + SelectInSeq(e.nodes, LAMBDA n : n = node)

\* A push to encoded_tags; v is the value an inline varint has in its subtype.
PushTag(e, node, subtype, v) ==
    [WithNode(e, node) EXCEPT !.tags = Append(@, [node |-> node, subtype |-> subtype, v |-> v])]

\* Mutant: what is pushed last is written last.
PushChunk_InOrder(e, node, units) ==
    [e EXCEPT !.buffers = (node :> (IF node \in DOMAIN @ THEN @[node] ELSE <<>>) \o units) @@ @]

\* get_buffer and push_chunk: what is pushed last is written first.
PushChunk(e, node, units) ==
    [e EXCEPT !.buffers = (node :> units \o (IF node \in DOMAIN @ THEN @[node] ELSE <<>>)) @@ @]

\* encode_varint_field, encode_fixed32_field, encode_fixed64_field: a small
\* varint goes into the subtype.
ScalarField(e, node, u) ==
    IF u.k = "varint" /\ u.v <= MaxInline THEN PushTag(e, node, "inline", u.v)
    ELSE PushChunk(PushTag(e, node, "buffered", 0), node, <<Value(u.v)>>)

\* The end of submessages at the position reached.
RECURSIVE CloseMessages(_, _)
CloseMessages(e, s) ==
    IF s.pos < s.end \/ s.messages = <<>> THEN [e |-> e, s |-> s]
    ELSE LET frame == Head(s.messages)
         IN  CloseMessages(PushTag(e, frame.node, "sub_end", 0),
                           [s EXCEPT !.messages = Tail(@), !.parent = frame.parent, !.end = frame.end])

\* The loop of add_message, s its local variables.
RECURSIVE AddFields(_, _, _)
AddFields(e, data, s) ==
    IF s.pos >= s.end THEN e
    ELSE
    LET u        == data[s.pos + 1]
        node     == NodeId(s.parent, u.k, u.f)
        e1       == WithNode(e, node)
        value    == SubSeq(data, s.pos + 2, s.pos + 1 + u.v)
        isSub    == /\ u.v > 0
                    /\ Len(s.messages) + Len(s.groups) < MaxDepth
                    /\ is_proto_message(value)
        next     == [s EXCEPT !.pos = @ + 1]
        Continue(e2, s2) == LET c == CloseMessages(e2, s2) IN AddFields(c.e, data, c.s)
    IN  CASE u.k \in {"varint", "fixed"} -> Continue(ScalarField(e1, node, u), next)
          [] u.k = "len" /\ isSub ->
               AddFields(PushTag(e1, node, "sub_start", 0), data,
                   [next EXCEPT !.messages = <<[node |-> node, parent |-> s.parent, end |-> s.end]>> \o @,
                                !.parent = MessageId(e1, node), !.end = s.pos + 1 + u.v])
          [] u.k = "len" /\ ~isSub ->
               Continue(PushChunk(PushTag(e1, node, "string", 0), node, <<Value(u.v)>> \o value),
                        [s EXCEPT !.pos = @ + 1 + u.v])
          [] u.k = "start" ->
               Continue(PushTag(e1, node, "group", 0),
                        [next EXCEPT !.groups = <<s.parent>> \o @, !.parent = MessageId(e1, node)])
          [] u.k = "end" ->
               Continue(PushTag(e1, node, "group", 0),
                        [next EXCEPT !.groups = Tail(@), !.parent = Head(s.groups)])

AddMessage(e, data) ==
    AddFields(e, data, [pos |-> 0, end |-> Len(data), parent |-> ROOT, messages |-> <<>>, groups |-> <<>>])

\* add_record
AddRecord ==
    /\ status = "add" /\ added < Len(input.records)
    /\ LET data == input.records[added + 1]
       IN  enc' = IF is_proto_message(data) THEN AddMessage(PushTag(enc, StartNode, "trivial", 0), data)
                  ELSE [PushChunk(PushTag(enc, NonProtoNode, "trivial", 0), NonProtoNode, data)
                          EXCEPT !.lengths = <<Value(Len(data))>> \o @]
    /\ added' = added + 1
    /\ UNCHANGED <<input, status, chunk, left, dec, output>>

\* collect_and_sort_buffers: by type, then by size, parent and tag.
BufferType(node) ==
    CASE node.k = "varint" -> 1 [] node.k = "fixed" -> 2 [] node.k = "len" -> 3 [] node.k = "nonproto" -> 4

BufferBefore(e, a, b) ==
    LET Key(n) == <<Len(e.buffers[n]), n.parent, n.f>>
    IN  \/ Key(a)[1] < Key(b)[1]
        \/ Key(a)[1] = Key(b)[1] /\ Key(a)[2] < Key(b)[2]
        \/ Key(a)[1] = Key(b)[1] /\ Key(a)[2] = Key(b)[2] /\ Key(a)[3] < Key(b)[3]

BuffersOfType(e, type) ==
    SetToSortSeq({n \in DOMAIN e.buffers : BufferType(n) = type}, LAMBDA a, b : BufferBefore(e, a, b))

\* The groups of buffers: buckets do not reach from one to the next.
Groups(e) ==
    LET ByType == [type \in 1 .. 4 |-> [i \in DOMAIN BuffersOfType(e, type) |-> e.buffers[BuffersOfType(e, type)[i]]]]
        Lengths == IF e.lengths = <<>> THEN <<>> ELSE <<e.lengths>>
    IN  SelectSeq(Append(ByType, Lengths), LAMBDA g : g # <<>>)

BufferOrder(e) == FlattenSeq([type \in 1 .. 4 |-> BuffersOfType(e, type)])
BufferIndex(e, node) == SelectInSeq(BufferOrder(e), LAMBDA n : n = node)

\* create_compressed_buckets plans sizes from the largest buffer down.
PlanBuckets(sizes, bucket_size) ==
    LET PlanBuffer(p, size) ==
            LET cut     == p.current > 0 /\ p.current + (size \div 2) >= bucket_size
                current == (IF cut THEN 0 ELSE p.current) + size
                rest    == p.remaining - size
                fold    == rest <= bucket_size \div 2
            IN  IF p.folded THEN p
                ELSE [planned   |-> IF cut THEN Append(p.planned, p.current) ELSE p.planned,
                      current   |-> IF fold THEN current + rest ELSE current,
                      remaining |-> rest,
                      folded    |-> fold]
        p == FoldLeft(PlanBuffer,
                      [planned |-> <<>>, current |-> 0, remaining |-> FoldLeft(+, 0, sizes), folded |-> FALSE],
                      Reverse(sizes))
    IN  IF p.current > 0 THEN Append(p.planned, p.current) ELSE p.planned

\* It fills the buckets from the smallest buffer up, and fails if the plan
\* does not fit.
FillBuckets(group, bucket_size) ==
    LET FillBuffer(b, buffer) ==
            LET planned   == IF b.remaining = 0 THEN Front(b.planned) ELSE b.planned
                room      == IF b.remaining = 0 THEN Last(b.planned) ELSE b.remaining
                filled    == b.bucket \o buffer
            IN  IF ~b.ok \/ (b.remaining = 0 /\ b.planned = <<>>) \/ Len(buffer) > room
                THEN [b EXCEPT !.ok = FALSE]
                ELSE [planned   |-> planned,
                      remaining |-> room - Len(buffer),
                      bucket    |-> IF Len(buffer) = room THEN <<>> ELSE filled,
                      buckets   |-> IF Len(buffer) = room THEN Append(b.buckets, filled) ELSE b.buckets,
                      ok        |-> TRUE]
        sizes == [i \in DOMAIN group |-> Len(group[i])]
    IN  FoldLeft(FillBuffer,
                 [planned |-> PlanBuckets(sizes, bucket_size), remaining |-> 0, bucket |-> <<>>,
                  buckets |-> <<>>, ok |-> TRUE],
                 group)

\* What write_states_and_data and build_proto_tag_node make of a tag: the
\* start of a submessage does not say of which field.
DecoderNode(e, tag) ==
    LET n == tag.node
    IN  [k   |-> IF n.k = "len" THEN tag.subtype ELSE n.k,
         f   |-> IF tag.subtype = "sub_start" THEN 0 ELSE n.f,
         v   |-> tag.v,
         inline |-> tag.subtype = "inline",
         buffer |-> IF tag.subtype \in {"buffered", "string"} \/ n = NonProtoNode THEN BufferIndex(e, n) ELSE 0]

\* encode
Encode ==
    /\ status = "add" /\ added = Len(input.records)
    /\ LET filled == [i \in DOMAIN Groups(enc) |-> FillBuckets(Groups(enc)[i], input.bucket_size)]
           all    == FlattenSeq(Groups(enc))
       IN  /\ status' = IF \A i \in DOMAIN filled : filled[i].ok THEN "parse" ELSE "error"
           /\ chunk' = [buckets     |-> FlattenSeq([i \in DOMAIN filled |-> filled[i].buckets]),
                        sizes       |-> [i \in DOMAIN all |-> Len(all[i])],
                        nodes       |-> [i \in DOMAIN enc.tags |-> DecoderNode(enc, enc.tags[i])],
                        num_records |-> Len(input.records),
                        size        |-> Len(FlattenSeq(input.records))]
    /\ UNCHANGED <<input, added, enc, left, dec, output>>

-----------------------------------------------------------------------------
(* field_projection.rs: a projection is a set of fields; all() is the one  *)
(* with an empty path.                                                     *)

Field(path, existence_only) == [path |-> path, existence_only |-> existence_only]

is_all(projection) == \E f \in projection : f.path = <<>> /\ ~f.existence_only
has_full_include(projection) == \E f \in projection : ~f.existence_only
\* Mutant: only the field a path begins with.
mentions_field_TopLevel(projection, n) == \E f \in projection : f.path = <<>> \/ n = Head(f.path)

mentions_field(projection, n) == \E f \in projection : f.path = <<>> \/ n \in Range(f.path)

-----------------------------------------------------------------------------
(* The decoder.                                                            *)

\* IncludeFieldMap.from_projection makes no map if a path is empty.
HasIncludeMap == ~is_all(input.projection) /\ \A f \in input.projection : f.path # <<>>

IncludeFully == 0
IncludeChild == 1
ExistenceOnlyType == 2
Absent == 3

\* IncludeFieldMap, with a path for a chain of field ids.
IncludeType(projection, path) ==
    LET Type(f) == IF Len(f.path) > Len(path) THEN IncludeChild
                   ELSE IF f.existence_only THEN ExistenceOnlyType ELSE IncludeFully
    IN  Min({Absent} \cup {Type(f) : f \in {g \in projection : IsPrefix(path, g.path)}})

\* compute_needed_buffers_from_scan: a flat scan that knows a buffer's field
\* number and not where it is nested.
NeededBuffers ==
    LET p == input.projection
        Reads(i) == {n \in Range(chunk.nodes) : n.buffer = i}
    IN  {i \in DOMAIN chunk.sizes :
            \/ is_all(p) \/ has_full_include(p)
            \/ \E n \in Reads(i) : n.k = "nonproto" \/ mentions_field(p, n.f)
            \/ i = Len(chunk.sizes) /\ \E n \in Range(chunk.nodes) : n.k = "nonproto"}

\* compute_buffer_to_bucket: a buffer goes to the current bucket, and every
\* bucket is used up.
BufferToBucket(sizes, buckets) ==
    LET Place(a, size) ==
            LET room == a.remaining - size
                more == {i \in a.bucket + 1 .. Len(buckets) : buckets[i] # <<>>}
                next == IF room > 0 THEN a.bucket ELSE Min(more \cup {Len(buckets)})
            IN  IF ~a.ok \/ room < 0 THEN [a EXCEPT !.ok = FALSE]
                ELSE [bucket    |-> next,
                      remaining |-> IF next = a.bucket THEN room ELSE Len(buckets[next]),
                      of        |-> Append(a.of, a.bucket),
                      ok        |-> TRUE]
        a == FoldLeft(Place, [bucket |-> 1, remaining |-> Len(buckets[1]), of |-> <<>>, ok |-> TRUE], sizes)
    IN  IF buckets = <<>> THEN [of |-> <<>>, ok |-> sizes = <<>>]
        ELSE [of |-> a.of, ok |-> a.ok /\ a.bucket = Len(buckets) /\ a.remaining = 0]

\* decompress_into_buffers_with_pruning: the buffers of a bucket, one behind
\* the other.
Cursors(of) ==
    LET Before(i) == {j \in 1 .. i - 1 : of[j] = of[i]}
        Offset(i) == FoldSet(LAMBDA j, sum : sum + chunk.sizes[j], 0, Before(i))
    IN  [i \in DOMAIN of |->
            IF i \notin NeededBuffers THEN [pruned |-> TRUE, data |-> <<>>]
            ELSE [pruned |-> FALSE,
                  data   |-> SubSeq(chunk.buckets[of[i]], Offset(i) + 1, Offset(i) + chunk.sizes[i])]]

\* parse_header_and_buckets_with_projection and build_state_machine_nodes
Parse ==
    /\ status = "parse"
    /\ LET a == BufferToBucket(chunk.sizes, chunk.buckets)
       IN  /\ status' = IF a.ok THEN "run" ELSE "error"
           /\ dec' = [dec EXCEPT !.cursors = IF a.ok THEN Cursors(a.of) ELSE <<>>]
    /\ left' = Len(chunk.nodes)
    /\ UNCHANGED <<input, added, enc, chunk, output>>

Fail(d) == [d EXCEPT !.ok = FALSE]

\* BackwardBuffer.write: before what is written, and never more than the
\* chunk header promised.
Write(d, units) ==
    IF Len(d.dest) + Len(units) > chunk.size THEN Fail(d) ELSE [d EXCEPT !.dest = units \o @]

\* read_exact and read_varint32; a pruned buffer reads as zeros.
CanRead(d, i, n) == d.cursors[i].pruned \/ Len(d.cursors[i].data) >= n
Peek(d, i) == IF d.cursors[i].pruned THEN 0 ELSE Head(d.cursors[i].data).v
Advance(d, i, n) ==
    [d EXCEPT !.cursors[i].data = IF d.cursors[i].pruned THEN @ ELSE SubSeq(@, n + 1, Len(@))]

\* Mutant: a group's start sees the frame of the group itself.
WalkFrames_OwnGroup(d, node) == d.stack

\* A group's start is resolved while the group's own frame is on the stack.
WalkFrames(d, node) == IF node.k = "start" /\ d.stack # <<>> THEN Front(d.stack) ELSE d.stack

\* What resolve_select_callback finds by following the frames of the stack.
FieldIncluded(d, node) ==
    LET p      == input.projection
        walk   == WalkFrames(d, node)
        Path(n) == [i \in 1 .. n |-> walk[i].f]
        Ends   == {n \in DOMAIN walk : IncludeType(p, Path(n)) \in {Absent, IncludeFully}}
        Type   == IF Ends = {} THEN IncludeType(p, Append(Path(Len(walk)), node.f))
                  ELSE IncludeType(p, Path(Min(Ends)))
    IN  CASE d.skipped > 0 \/ Type = Absent     -> "no"
          [] d.skipped = 0 /\ Type \in {IncludeFully, IncludeChild} -> "yes"
          [] d.skipped = 0 /\ Type = ExistenceOnlyType -> "existence"

\* callback_for_wire_type
WireCallback(node) ==
    CASE node.k \in {"start", "end"} \/ node.inline   -> "CopyTag"
      [] node.k \in {"varint", "fixed"} /\ ~node.inline -> "Scalar"
      [] node.k = "string"                            -> "StringField"
      [] node.k = "sub_end"                           -> "SubmessageEnd"
      [] node.k = "sub_start"                         -> "SubmessageStart"

\* callback_for_field_included
ProjectedCallback(included, node) ==
    CASE included = "no" /\ node.k \in {"varint", "fixed", "string"} -> "NoOp"
      [] included = "no" /\ node.k \in {"sub_end", "end"}            -> "SkippedSubmessageEnd"
      [] included = "no" /\ node.k = "start"                         -> "SkippedSubmessageStart"
      [] included # "no" /\ node.k = "end"                           -> "EndProjectionGroup"
      [] included # "no" /\ node.k = "start"                         -> "StartProjectionGroup"
      [] included = "yes" /\ node.k \notin {"start", "end"}          -> WireCallback(node)
      [] included = "existence" /\ node.k = "sub_end"                -> "SubmessageEnd"
      [] included = "existence" /\ node.k \in {"varint", "fixed", "string"} -> "ExistenceOnly"

Callback(d, node) ==
    CASE node.k = "message"  -> "MessageStart"
      [] node.k = "nonproto" -> "NonProto"
      [] node.k \notin {"message", "nonproto"} /\ ~HasIncludeMap -> WireCallback(node)
      [] node.k = "sub_start" /\ HasIncludeMap ->
            IF d.skipped > 0 THEN "SkippedSubmessageStart" ELSE "SubmessageStart"
      [] node.k \notin {"message", "nonproto", "sub_start"} /\ HasIncludeMap ->
            ProjectedCallback(FieldIncluded(d, node), node)

\* One round of run_state_machine's loop.
Node == chunk.nodes[left]
Step(d) ==
    /\ dec' = d
    /\ status' = IF d.ok THEN "run" ELSE "error"
    /\ left' = left - 1
    /\ UNCHANGED <<input, added, enc, chunk, output>>
Runs(callback) == status = "run" /\ left > 0 /\ Callback(dec, Node) = callback

\* A record boundary, with no submessage open and room in limits.
PushLimit(d) ==
    IF d.stack # <<>> \/ Len(d.limits) = chunk.num_records THEN Fail(d)
    ELSE [d EXCEPT !.limits = Append(@, Len(d.dest))]

PushFrame(d) == [d EXCEPT !.stack = Append(@, [f |-> Node.f, k |-> Node.k, end_pos |-> Len(d.dest)])]

NoOp == Runs("NoOp") /\ Step(dec)

MessageStart == Runs("MessageStart") /\ Step(PushLimit(dec))

SubmessageEnd == Runs("SubmessageEnd") /\ Step(PushFrame(dec))

\* write_submessage_header: the length is what was written since the frame.
SubmessageStart ==
    /\ Runs("SubmessageStart")
    /\ LET frame == Last(dec.stack)
       IN  Step(IF dec.stack = <<>> THEN Fail(dec)
                ELSE Write([dec EXCEPT !.stack = Front(@)],
                           <<Unit("len", frame.f, Len(dec.dest) - frame.end_pos)>>))

\* write_nonproto_record
NonProto ==
    /\ Runs("NonProto")
    /\ LET lengths == Len(dec.cursors)
           n       == Peek(dec, lengths)
           d       == Advance(dec, lengths, 1)
       IN  Step(IF ~CanRead(dec, lengths, 1) \/ ~CanRead(d, Node.buffer, n) THEN Fail(dec)
                ELSE PushLimit(Write(Advance(d, Node.buffer, n), SubSeq(d.cursors[Node.buffer].data, 1, n))))

CopyTag == Runs("CopyTag") /\ Step(Write(dec, <<Unit(Node.k, Node.f, Node.v)>>))

\* write_varint_field, write_fixed_field
Scalar ==
    /\ Runs("Scalar")
    /\ Step(IF ~CanRead(dec, Node.buffer, 1) THEN Fail(dec)
            ELSE Write(Advance(dec, Node.buffer, 1), <<Unit(Node.k, Node.f, Peek(dec, Node.buffer))>>))

\* write_string_field
StringField ==
    /\ Runs("StringField")
    /\ LET n == Peek(dec, Node.buffer)
       IN  Step(IF ~CanRead(dec, Node.buffer, 1) \/ ~CanRead(dec, Node.buffer, 1 + n) THEN Fail(dec)
                ELSE Write(Advance(dec, Node.buffer, 1 + n),
                           <<Unit("len", Node.f, n)>> \o SubSeq(dec.cursors[Node.buffer].data, 2, 1 + n)))

\* write_existence_only_field
ExistenceOnly ==
    Runs("ExistenceOnly") /\ Step(Write(dec, <<Unit(IF Node.k = "string" THEN "len" ELSE Node.k, Node.f, 0)>>))

SkippedSubmessageEnd == Runs("SkippedSubmessageEnd") /\ Step([dec EXCEPT !.skipped = @ + 1])

SkippedSubmessageStart ==
    /\ Runs("SkippedSubmessageStart")
    /\ Step(IF dec.skipped <= 0 THEN Fail(dec) ELSE [dec EXCEPT !.skipped = @ - 1])

EndProjectionGroup ==
    Runs("EndProjectionGroup") /\ Step(Write(PushFrame(dec), <<Unit("end", Node.f, 0)>>))

StartProjectionGroup ==
    /\ Runs("StartProjectionGroup")
    /\ Step(IF dec.stack = <<>> \/ Last(dec.stack).k # "end" THEN Fail(dec)
            ELSE Write([dec EXCEPT !.stack = Front(@)], <<Unit("start", Node.f, 0)>>))

\* The end of run_state_machine, decode_all_records and finalize_records: the
\* limits count from the back and are turned around.
Boundaries(limits, total) ==
    LET n == Len(limits)
    IN  [i \in 1 .. n |-> IF i = n THEN limits[n] ELSE total - limits[n - i]]

Finish ==
    /\ status = "run" /\ left = 0
    /\ LET total == Len(dec.dest)
           last  == IF dec.limits = <<>> THEN 0 ELSE Last(dec.limits)
           ok    == /\ dec.stack = <<>> /\ dec.skipped = 0
                    /\ Len(dec.limits) = chunk.num_records
                    /\ HasIncludeMap \/ total = chunk.size
                    /\ last = total
           ends  == Boundaries(dec.limits, total)
           valid == \A i \in DOMAIN ends :
                       ends[i] <= total /\ (IF i = 1 THEN 0 ELSE ends[i - 1]) <= ends[i]
       IN  /\ status' = IF ok /\ valid THEN "read" ELSE "error"
           /\ dec' = [dec EXCEPT !.limits = ends]
    /\ UNCHANGED <<input, added, enc, chunk, left, output>>

\* read_record, next_yield being Len(output).
ReadRecord ==
    /\ status = "read" /\ Len(output) < Len(dec.limits)
    /\ LET i == Len(output)
       IN  output' = Append(output, SubSeq(dec.dest, (IF i = 0 THEN 0 ELSE dec.limits[i]) + 1, dec.limits[i + 1]))
    /\ UNCHANGED <<input, status, added, enc, chunk, left, dec>>

-----------------------------------------------------------------------------
Init ==
    /\ input \in Inputs
    /\ status = "add" /\ added = 0 /\ left = 0
    /\ enc = [nodes |-> <<>>, tags |-> <<>>, buffers |-> <<>>, lengths |-> <<>>]
    /\ chunk = [buckets |-> <<>>, sizes |-> <<>>, nodes |-> <<>>, num_records |-> 0, size |-> 0]
    /\ dec = [dest |-> <<>>, limits |-> <<>>, stack |-> <<>>, skipped |-> 0, cursors |-> <<>>, ok |-> TRUE]
    /\ output = <<>>

RunNode ==
    \/ NoOp \/ MessageStart \/ SubmessageEnd \/ SubmessageStart \/ NonProto \/ CopyTag \/ Scalar
    \/ StringField \/ ExistenceOnly \/ SkippedSubmessageEnd \/ SkippedSubmessageStart
    \/ EndProjectionGroup \/ StartProjectionGroup

Next == AddRecord \/ Encode \/ Parse \/ RunNode \/ Finish \/ ReadRecord

Spec == Init /\ [][Next]_vars

-----------------------------------------------------------------------------
(* What a projection means, by recursion on the record and not on the      *)
(* chunk: a field stays if some path leads to or through it, an existence- *)
(* only field loses its value, and the fields inside are judged one by one.*)

\* The length of the field that begins data: up to the end that matches.
RECURSIVE GroupLength(_, _)
GroupLength(data, depth) ==
    LET u == Head(data)
        d == CASE u.k = "start" -> depth + 1 [] u.k = "end" -> depth - 1 [] u.k \notin {"start", "end"} -> depth
        n == IF u.k = "len" THEN 1 + u.v ELSE 1
    IN  IF d = 0 THEN n ELSE n + GroupLength(SubSeq(data, n + 1, Len(data)), d)

\* nesting is the number of messages and groups around data.
RECURSIVE Project(_, _, _, _)
Project(data, projection, path, nesting) ==
    IF data = <<>> THEN <<>>
    ELSE
    LET u      == Head(data)
        n      == GroupLength(data, 0)
        field  == SubSeq(data, 1, n)
        inner  == Append(path, u.f)
        Asked(f, existence_only) == f.path = inner /\ f.existence_only = existence_only
        full   == \E f \in projection : Asked(f, FALSE)
        child  == \E f \in projection : IsStrictPrefix(inner, f.path)
        exists == \E f \in projection : Asked(f, TRUE)
        Inside(d) == Project(d, projection, inner, nesting + 1)
        value  == Tail(field)
        isSub  == u.k = "len" /\ u.v > 0 /\ nesting < MaxDepth /\ is_proto_message(value)
        kept   ==
            IF ~(full \/ child \/ exists) THEN <<>>
            ELSE IF full THEN field
            ELSE IF isSub THEN <<Unit("len", u.f, Len(Inside(value)))>> \o Inside(value)
            ELSE IF u.k = "start" THEN <<u>> \o Inside(Front(value)) \o <<Last(field)>>
            ELSE IF child THEN field
            ELSE <<Unit(u.k, u.f, 0)>>
    IN  kept \o Project(SubSeq(data, n + 1, Len(data)), projection, path, nesting)

ProjectRecord(record, projection) ==
    IF is_proto_message(record) THEN Project(record, projection, <<>>, 0) ELSE record

\* The chunk was decoded, and what was read of it are the first of records.
Returns(records) ==
    /\ status # "error"
    /\ status = "read" => Len(dec.limits) = Len(records) /\ output = SubSeq(records, 1, Len(output))

\* A chunk decodes to the records it was made of, whatever their bytes: the
\* buffers, their buckets, the depth limit and the boundaries counted from the
\* back lose nothing and mix nothing up.
RoundTrip == is_all(input.projection) => Returns(input.records)

\* Under a projection the decoder, which sees ends before starts and knows
\* only a stack of frames, returns of every record exactly the fields that the
\* paths name, and records that are no proto messages as they are.
ProjectionExact ==
    (\A f \in input.projection : f.path # <<>>) =>
        Returns([i \in DOMAIN input.records |-> ProjectRecord(input.records[i], input.projection)])

\* The flat scan that prunes buffers "can never starve one": no node that is
\* executed reads a buffer that was not decompressed.
NeverStarved ==
    (status = "run" /\ left > 0 /\ Callback(dec, Node) \in {"Scalar", "StringField", "NonProto"}) =>
        ~dec.cursors[Node.buffer].pruned
=============================================================================
