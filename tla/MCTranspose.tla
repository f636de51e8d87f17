----------------------------- MODULE MCTranspose -----------------------------
(***************************************************************************)
(* TransposeWalk over the headers TransposeEncoder makes of all short      *)
(* sequences of tags, and over all small headers, whoever made them.       *)
(***************************************************************************)
EXTENDS TransposeEncoder

CONSTANTS
    MaxTags,      \* bound: length of the encoder's sequences
    MaxStates,    \* bound: states of other headers
    MaxBytes      \* bound: transition bytes of other headers

\* Tags are numbered as they are first met.
TagSeqs[n \in 0 .. MaxTags] ==
    IF n = 0 THEN {<<>>}
    ELSE UNION {{Append(t, a) : a \in 0 .. Cardinality(ToSet(t))} : t \in TagSeqs[n - 1]}

EncodedHeaders == {Encode(t) : t \in UNION {TagSeqs[n] : n \in 0 .. MaxTags}}

Bytes == {0, 1, MaxRepeat + 1, MaxRepeat + 2}
OtherHeaders ==
    UNION {[states : [1 .. n -> [tag : {NoTag}, next : 0 .. 2 * n]], first : 0 .. n,
            transitions : BoundedSeq(Bytes, MaxBytes), tags : {<<>>}, encoded : {FALSE}] :
            n \in 0 .. MaxStates}

MCHeaders == EncodedHeaders \cup OtherHeaders
=============================================================================
