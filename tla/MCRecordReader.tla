--------------------------- MODULE MCRecordReader ---------------------------
(***************************************************************************)
(* Files for RecordReader: one file as RecordWriter lays it out, and what  *)
(* damage, truncation and growth make of it.                               *)
(***************************************************************************)
EXTENDS RecordReader

CONSTANTS
    Shape,       \* the chunks in file order: <<type, data_size, num_records>>
    Kinds,       \* kinds of damage, see Damages
    MaxDamage,   \* bound: how many places are damaged
    Cuts,        \* lengths at which a file may be found cut off
    MoreCuts,    \* further ones, of the file without damage
    Growing      \* whether the file grows from one length to the next: TRUE, FALSE or either

\* A file that is cut off or grows is damaged in at most one place.
MaxCutDamage == 1

\* With blocks of 8 bytes, 2 of them header, and chunk headers of 2 bytes, the
\* chunks begin at 0, 4, 11, 13, 16, 30 and 35 and end at 38: chunks 2, 5 and 6
\* span a block boundary, chunk 5 begins at one, and chunk 7 has more records
\* than bytes.
PlainShape == << <<"signature", 0, 0>>, <<"simple", 3, 2>>, <<"padding", 0, 0>>,
                 <<"simple", 1, 2>>, <<"simple", 8, 3>>, <<"unknown", 1, 0>>,
                 <<"simple", 0, 3>> >>

\* Begins at 0, 4, 7, 12, 14 and 19, end at 22: the header of chunk 3 straddles
\* a boundary, and the zeros behind the data of chunk 5 hold the block header
\* at 16.
TailShape == << <<"signature", 0, 0>>, <<"metadata", 1, 0>>, <<"simple", 1, 1>>,
                <<"padding", 0, 0>>, <<"simple", 0, 3>>, <<"simple", 1, 2>> >>

\* The chunks are laid out one behind the other, as RecordWriter does.
Begin[i \in 1 .. Len(Shape) + 1] ==
    IF i = 1 THEN 0
    ELSE chunk_end(Begin[i - 1], Shape[i - 1][2], Shape[i - 1][3])
Full == Begin[Len(Shape) + 1]

Boundaries == {b \in 0 .. (Full - 1) : is_block_boundary(b)}

Covering(b) == CHOOSE i \in DOMAIN Shape : Begin[i] <= b /\ b < Begin[i + 1]

\* The header of a chunk, its data or its encoding is damaged, or its header
\* hashes but claims more data than any file has; the block header at a boundary
\* is damaged, or hashes but leads into the block header of the next block.
Damages == {<<kind, i>> \in Kinds \X (DOMAIN Shape \cup Boundaries) :
               i \in IF kind \in {"block", "lie"} THEN Boundaries ELSE DOMAIN Shape}

UpTo[n \in 0 .. MaxDamage] ==
    IF n = 0 THEN {{}} ELSE {d \cup {x} : d \in UpTo[n - 1], x \in Damages}
                               \cup UpTo[n - 1]

FileWith(damage, sizes) ==
    [chunks |-> [i \in DOMAIN Shape |->
        LET size == IF <<"claim", i>> \in damage THEN 2 * Full ELSE Shape[i][2]
        IN  [type |-> Shape[i][1], begin |-> Begin[i],
             end |-> chunk_end(Begin[i], size, Shape[i][3]),
             data_size |-> size, num_records |-> Shape[i][3],
             header_ok |-> <<"header", i>> \notin damage,
             data_ok   |-> <<"data", i>> \notin damage,
             decodes   |-> <<"decode", i>> \notin damage]],
     blocks |-> [b \in Boundaries |->
        [ok |-> <<"block", b>> \notin damage,
         previous_chunk |-> IF <<"lie", b>> \in damage THEN 1
                            ELSE b - Begin[Covering(b)],
         next_chunk |-> IF <<"lie", b>> \in damage THEN BlockSize + 1
                        ELSE Begin[Covering(b) + 1] - b]],
     lengths |-> sizes]

Sizes(damage) ==
    {Full} \cup (IF Cardinality(damage) <= MaxCutDamage THEN Cuts ELSE {})
           \cup (IF damage = {} THEN MoreCuts ELSE {})

MCFiles ==
    UNION {{FileWith(d, sizes) : sizes \in
                UNION {IF growing THEN {Sizes(d)} ELSE {{n} : n \in Sizes(d)} : growing \in Growing}} :
             d \in UpTo[MaxDamage]}

\* The theorems about the reader assume files that are laid out like these:
\* whatever is damaged, the chunks are disjoint, and unless a block header is
\* made to lie they tile the file and the block headers that still hash tell the
\* truth.
ASSUME LayoutHolds ==
    \A f \in Files : Disjoint(f) /\ ("lie" \notin Kinds => Truthful(f) /\ Tiled(f))
=============================================================================
