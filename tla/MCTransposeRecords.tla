------------------------ MODULE MCTransposeRecords ------------------------
(* TransposeRecords over records of every shape up to a length, and over   *)
(* projections of fields that are nested in them.                          *)
EXTENDS TransposeRecords

CONSTANTS
    MaxUnits,      \* units of a record that is alone in its chunk
    MaxPairUnits,  \* units of each of two records
    MaxTreeUnits   \* units of a record that is projected

Alphabet ==
    {Unit("varint", 1, 0), Unit("varint", 1, 2), Unit("fixed", 1, 1), Unit("len", 1, 0), Unit("len", 1, 1),
     Unit("len", 1, 2), Unit("start", 1, 0), Unit("end", 1, 0), Unit("junk", 0, 0)}

TreeAlphabet ==
    {Unit("varint", 1, 1), Unit("varint", 2, 2), Unit("fixed", 1, 1), Unit("len", 1, 1), Unit("len", 2, 2),
     Unit("start", 1, 0), Unit("end", 1, 0)}

\* Messages in groups, groups in messages, a message too deep to be taken
\* apart and strings that are no messages.
Nested ==
    {<<Unit("len", 1, 3), Unit("start", 2, 0), Unit("varint", 1, 2), Unit("end", 2, 0), Unit("varint", 2, 2)>>,
     <<Unit("start", 1, 0), Unit("len", 2, 2), Unit("varint", 1, 2), Unit("varint", 2, 1), Unit("end", 1, 0)>>,
     <<Unit("start", 1, 0), Unit("start", 1, 0), Unit("varint", 2, 2), Unit("end", 1, 0), Unit("end", 1, 0)>>,
     <<Unit("len", 1, 1), Unit("junk", 0, 0), Unit("len", 1, 2), Unit("varint", 2, 2), Unit("len", 1, 0)>>,
     <<Unit("len", 1, 4), Unit("start", 2, 0), Unit("len", 1, 1), Unit("varint", 1, 2), Unit("end", 2, 0)>>,
     <<Unit("junk", 0, 0), Unit("varint", 1, 2)>>}

Trees == {r \in BoundedSeq(TreeAlphabet, MaxTreeUnits) : is_proto_message(r)} \cup Nested

Paths == {<<1>>, <<2>>, <<1, 1>>, <<1, 2>>, <<1, 2, 1>>}
Fields == {Field(p, e) : p \in Paths, e \in BOOLEAN}
Projections == UNION {kSubset(k, Fields) : k \in 0 .. 2}

All == {Field(<<>>, FALSE)}

Input(records, projection, bucket_size) ==
    [records |-> records, projection |-> projection, bucket_size |-> bucket_size]

MCInputs ==
    UNION {
        {Input(<<r>>, All, 3) : r \in BoundedSeq(Alphabet, MaxUnits)},
        {Input(<<r, s>>, All, 1) : r \in BoundedSeq(Alphabet, MaxPairUnits), s \in BoundedSeq(Alphabet, MaxPairUnits)},
        {Input(<<r>>, p, 2) : r \in Trees, p \in Projections},
        {Input(<<r, s, t>>, p, b) : r \in Nested, s \in Nested, t \in Nested, p \in {All, {Field(<<1, 1>>, TRUE)}},
                                    b \in {1, 4}}}
=============================================================================
