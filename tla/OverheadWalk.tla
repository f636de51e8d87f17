---------------------------- MODULE OverheadWalk ----------------------------
(***************************************************************************)
(* The two loops of block_arithmetic.rs, one step per iteration.           *)
(*                                                                         *)
(* add_with_overhead(begin, arg) walks forward from begin over arg chunk   *)
(* bytes, hopping over block headers; distance_without_overhead(begin,     *)
(* arg) walks from begin up to position arg and counts the chunk bytes on  *)
(* the way.  The writer, the reader and the recovery scan all place chunks *)
(* with them, so a byte of disagreement between the two, or with the bytes *)
(* the writer really emits, loses every chunk that follows.                *)
(***************************************************************************)
EXTENDS BlockArithmetic

CONSTANTS MaxBegin,  \* bound: walks start at 0 .. MaxBegin
          MaxSpan    \* bound: lengths and spans are 0 .. MaxSpan

ASSUME WalkAssumption == MaxBegin \in Nat /\ MaxSpan \in Nat

VARIABLES
    loop,   \* "add", "distance": which loop is running
    begin,  \* chunk_begin, the first argument
    arg,    \* length (add) or pos (distance), the second argument
    cur,    \* the walking position: pos (add), cur (distance)
    bytes,  \* remaining (add) or data_bytes (distance)
    done    \* the loop has returned

vars == <<loop, begin, arg, cur, bytes, done>>

Init ==
    /\ begin \in 0 .. MaxBegin
    /\ cur = begin
    /\ done = FALSE
    /\ \/ /\ loop = "add"
          /\ arg \in 0 .. MaxSpan
          /\ bytes = arg
       \/ /\ loop = "distance"
          /\ arg \in 0 .. (MaxBegin + MaxSpan)
          /\ bytes = 0

---------------------------------------------------------------------------
AddReturn ==
    /\ loop = "add" /\ ~done
    /\ bytes = 0
    /\ done' = TRUE
    /\ UNCHANGED <<loop, begin, arg, cur, bytes>>

\* Mutant: the walk does not leave the block header it starts in.
AddIterate_NoHeaderSkip ==
    /\ loop = "add" /\ ~done
    /\ bytes > 0
    /\ LET avail == remaining_in_block(cur)
       IN  IF avail = 0
           THEN /\ cur' = cur + BlockHeaderSize
                /\ bytes' = bytes
           ELSE /\ cur' = cur + Smaller(bytes, avail)
                /\ bytes' = bytes - Smaller(bytes, avail)
    /\ UNCHANGED <<loop, begin, arg, done>>

\* One iteration: skip the rest of a block header, then either skip a whole
\* header met at a boundary (the code's `continue`) or consume bytes up to
\* the boundary.
AddIterate ==
    /\ loop = "add" /\ ~done
    /\ bytes > 0
    /\ LET pos   == cur + remaining_in_block_header(cur)
           avail == remaining_in_block(pos)
       IN  IF avail = 0
           THEN /\ cur' = pos + BlockHeaderSize
                /\ bytes' = bytes
           ELSE /\ cur' = pos + Smaller(bytes, avail)
                /\ bytes' = bytes - Smaller(bytes, avail)
    /\ UNCHANGED <<loop, begin, arg, done>>

DistanceReturn ==
    /\ loop = "distance" /\ ~done
    /\ cur >= arg
    /\ done' = TRUE
    /\ UNCHANGED <<loop, begin, arg, cur, bytes>>

\* Mutant: a walk that stands at a block boundary has no byte to count.
DistanceIterate_NoHeaderSkip ==
    /\ loop = "distance" /\ ~done
    /\ cur < arg
    /\ LET step == Smaller(remaining_in_block(cur), arg - cur)
       IN  cur' = cur + step /\ bytes' = bytes + step
    /\ UNCHANGED <<loop, begin, arg, done>>

\* One iteration: skip a block header (`break` when that passes the target),
\* then count the bytes up to the boundary or the target.
DistanceIterate ==
    /\ loop = "distance" /\ ~done
    /\ cur < arg
    /\ LET pos   == cur + remaining_in_block_header(cur)
           avail == IF remaining_in_block(pos) = 0 THEN USABLE_BLOCK_SIZE
                    ELSE remaining_in_block(pos)
           step  == Smaller(avail, arg - pos)
       IN  IF pos >= arg
           THEN cur' = pos /\ bytes' = bytes
           ELSE cur' = pos + step /\ bytes' = bytes + step
    /\ UNCHANGED <<loop, begin, arg, done>>

Terminated == done /\ UNCHANGED vars

Next ==
    \/ AddReturn \/ AddIterate
    \/ DistanceReturn \/ DistanceIterate
    \/ Terminated

Spec == Init /\ [][Next]_vars /\ WF_vars(Next)

---------------------------------------------------------------------------
(* Properties *)

\* The types of the loops' arguments and locals.
TypeOK ==
    /\ loop \in {"add", "distance"}
    /\ begin \in Nat /\ arg \in Nat /\ cur \in Nat /\ bytes \in Nat
    /\ done \in BOOLEAN

(***************************************************************************)
(* What block_arithmetic.rs promises of its two loops: add_with_overhead   *)
(* returns the position right after `length` usable bytes (at a boundary,  *)
(* not behind its header, when the bytes end exactly there), and           *)
(* distance_without_overhead the number of usable bytes in the span, also  *)
(* when it starts or ends inside a block header.                           *)
(***************************************************************************)
WalkComputes ==
    done => IF loop = "add"
            THEN cur = add_with_overhead(begin, arg)
            ELSE bytes = distance_without_overhead(begin, arg)

(***************************************************************************)
(* The loop invariant behind WalkComputes: an iteration moves bytes        *)
(* between the walking position and the counter and loses none, and the    *)
(* position stays clear of the alias behind a block header between         *)
(* iterations.                                                             *)
(***************************************************************************)
WalkInv ==
    /\ TypeOK
    /\ loop = "add" =>
         /\ DataOffset(cur) + bytes = DataOffset(begin) + arg
         /\ cur >= begin
         /\ cur = begin \/ is_possible_chunk_boundary(cur)
         /\ cur = begin => bytes = arg
         /\ done => bytes = 0
    /\ loop = "distance" =>
         /\ cur <= arg => DataOffset(cur) = DataOffset(begin) + bytes
         /\ cur > arg => bytes = distance_without_overhead(begin, arg)
         /\ done => cur >= arg

\* Each loop returns, for every begin and argument: no iteration stands still.
WalkTerminates == <>done

\* "This is the inverse of add_with_overhead" (block_arithmetic.rs, the doc
\* of distance_without_overhead), at the end of every add walk.
DistanceInvertsAdd ==
    done /\ loop = "add" => distance_without_overhead(begin, cur) = arg
=============================================================================
