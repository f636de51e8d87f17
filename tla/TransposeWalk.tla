---------------------------- MODULE TransposeWalk ----------------------------
(***************************************************************************)
(* The transpose decoder's walk over the state machine of a chunk          *)
(* (transpose/decoder.rs, build_state_machine_nodes,                       *)
(* contains_implicit_loop, run_state_machine, advance_state_machine).      *)
(*                                                                         *)
(* A node is executed, then the walk goes on to its next node plus an      *)
(* offset from the transition bytes; a byte also says how often the walk   *)
(* may go on with offset zero.  An implicit node takes no offset and is    *)
(* not counted.  What executing a node does to the records is the subject  *)
(* of TransposeRecords; here it only extends the list of executed tags.    *)
(***************************************************************************)
EXTENDS Integers, Sequences, FiniteSets

CONSTANTS
    MaxRepeat, \* the zero offsets one transition byte may add, 3 in the code
    Headers    \* headers a chunk may have: [states, first, transitions, tags,
               \* encoded], the last two what the encoder made it from, if it did

ASSUME WalkAssumption == MaxRepeat \in Nat

ASSUME HeadersAssumption ==
    \A h \in Headers :
        /\ Len(h.states) \in Nat /\ DOMAIN h.states = 1 .. Len(h.states)
        /\ \A i \in 1 .. Len(h.states) : h.states[i].next \in Nat
        /\ h.first \in Nat
        /\ h.transitions \in Seq(Nat)

VARIABLES
    header,
    phase,        \* "build", "scan", "follow", "run", "done", "error" or
                  \*   "loop", the error of the loop check
    loop_ids,     \* contains_implicit_loop: which pass met a node, 0 for none
    scan_from,    \*   node the pass began with
    scan_at,      \*   node it has reached
    next_id,      \*   its number
    node,         \* current_node_idx
    num_iters,
    used,         \* transition bytes consumed
    executed,     \* history: the tags of executed nodes, NoOps left out
    trail         \* history: the implicit nodes since the last explicit one

vars == <<header, phase, loop_ids, scan_from, scan_at, next_id,
          node, num_iters, used, executed, trail>>
check == <<loop_ids, scan_from, scan_at, next_id>>
walk == <<node, num_iters, used, executed, trail>>

NoTag == -1
Size == Len(header.states)
Nodes == 0 .. Size - 1

\* An index of Size or more marks an implicit transition to index - Size.
IsImplicit(n) == n \in Nodes /\ header.states[n + 1].next >= Size
NextNode(n) == header.states[n + 1].next - IF IsImplicit(n) THEN Size ELSE 0

One(b) == IF b THEN 1 ELSE 0

-----------------------------------------------------------------------------

Init ==
    /\ header \in Headers
    /\ phase = "build"
    /\ loop_ids = [n \in Nodes |-> 0]
    /\ scan_from = 0 /\ scan_at = 0 /\ next_id = 1
    /\ node = 0 /\ num_iters = 0 /\ used = 0
    /\ executed = <<>> /\ trail = {}

\* build_state_machine_nodes up to the loop check: indices are in range.
Build ==
    /\ phase = "build"
    /\ phase' = IF /\ \A n \in Nodes : header.states[n + 1].next < 2 * Size
                   /\ header.first < Size
                THEN "scan" ELSE "error"
    /\ UNCHANGED <<header, check, walk>>

\* The outer loop of contains_implicit_loop; behind it run_state_machine
\* begins.  (The failure nodes behind the last state are explicit: nothing
\* happens to them in the loop.)
Scan ==
    /\ phase = "scan"
    /\ IF scan_from = Size
       THEN /\ phase' = "run"
            /\ node' = header.first
            /\ num_iters' = One(IsImplicit(header.first))
            /\ UNCHANGED <<check, used, executed, trail>>
       ELSE IF loop_ids[scan_from] # 0
       THEN scan_from' = scan_from + 1 /\ UNCHANGED <<phase, loop_ids, scan_at, next_id, walk>>
       ELSE /\ phase' = "follow"
            /\ scan_at' = scan_from
            /\ loop_ids' = [loop_ids EXCEPT ![scan_from] = next_id]
            /\ UNCHANGED <<scan_from, next_id, walk>>
    /\ UNCHANGED header

\* Mutant: a node of any earlier pass is taken for a loop.
Follow_AnyMark ==
    /\ phase = "follow"
    /\ LET to == NextNode(scan_at)
       IN  IF IsImplicit(scan_at) /\ loop_ids[to] # 0
           THEN phase' = "loop" /\ UNCHANGED check
           ELSE IF IsImplicit(scan_at) /\ loop_ids[to] = 0
           THEN /\ scan_at' = to
                /\ loop_ids' = [loop_ids EXCEPT ![to] = next_id]
                /\ UNCHANGED <<phase, scan_from, next_id>>
           ELSE /\ phase' = "scan"
                /\ next_id' = next_id + 1
                /\ scan_from' = scan_from + 1
                /\ UNCHANGED <<loop_ids, scan_at>>
    /\ UNCHANGED <<header, walk>>

\* Mutant: a pass that meets itself ends like one that meets another.
Follow_NoLoops ==
    /\ phase = "follow"
    /\ LET to == NextNode(scan_at)
       IN  IF FALSE
           THEN phase' = "loop" /\ UNCHANGED check
           ELSE IF IsImplicit(scan_at) /\ loop_ids[to] = 0
           THEN /\ scan_at' = to
                /\ loop_ids' = [loop_ids EXCEPT ![to] = next_id]
                /\ UNCHANGED <<phase, scan_from, next_id>>
           ELSE /\ phase' = "scan"
                /\ next_id' = next_id + 1
                /\ scan_from' = scan_from + 1
                /\ UNCHANGED <<loop_ids, scan_at>>
    /\ UNCHANGED <<header, walk>>

\* An iteration of its inner loop, which follows implicit transitions.
Follow ==
    /\ phase = "follow"
    /\ LET to == NextNode(scan_at)
       IN  IF IsImplicit(scan_at) /\ loop_ids[to] = next_id
           THEN phase' = "loop" /\ UNCHANGED check
           ELSE IF IsImplicit(scan_at) /\ loop_ids[to] = 0
           THEN /\ scan_at' = to
                /\ loop_ids' = [loop_ids EXCEPT ![to] = next_id]
                /\ UNCHANGED <<phase, scan_from, next_id>>
           ELSE /\ phase' = "scan"
                /\ next_id' = next_id + 1
                /\ scan_from' = scan_from + 1
                /\ UNCHANGED <<loop_ids, scan_at>>
    /\ UNCHANGED <<header, walk>>

Execute ==
    executed' = IF header.states[node + 1].tag = NoTag THEN executed
                ELSE Append(executed, header.states[node + 1].tag)

Trail == trail' = IF IsImplicit(node) THEN trail \cup {node} ELSE {}

\* A round of run_state_machine.  An offset beyond the states ends in one of
\* the failure nodes, which are more than any offset can pass.
RunFailure ==
    /\ phase = "run" /\ node \notin Nodes
    /\ phase' = "error"
    /\ UNCHANGED <<header, check, walk>>

RunEnd ==
    /\ phase = "run" /\ node \in Nodes
    /\ num_iters = 0 /\ used = Len(header.transitions)
    /\ Execute
    /\ phase' = "done"
    /\ UNCHANGED <<header, check, node, num_iters, used, trail>>

\* Mutant: the iteration that leaves an implicit node is not added.
RunByte_NotCounted ==
    /\ phase = "run" /\ node \in Nodes
    /\ num_iters = 0 /\ used < Len(header.transitions)
    /\ Execute
    /\ Trail
    /\ node' = NextNode(node) + (header.transitions[used + 1] \div (MaxRepeat + 1))
    /\ num_iters' = (header.transitions[used + 1] % (MaxRepeat + 1))
    /\ used' = used + 1
    /\ UNCHANGED <<header, phase, check>>

RunByte ==
    /\ phase = "run" /\ node \in Nodes
    /\ num_iters = 0 /\ used < Len(header.transitions)
    /\ Execute
    /\ Trail
    /\ node' = NextNode(node) + (header.transitions[used + 1] \div (MaxRepeat + 1))
    /\ num_iters' = (header.transitions[used + 1] % (MaxRepeat + 1)) + One(IsImplicit(node'))
    /\ used' = used + 1
    /\ UNCHANGED <<header, phase, check>>

RunIter ==
    /\ phase = "run" /\ node \in Nodes
    /\ num_iters # 0
    /\ Execute
    /\ Trail
    /\ node' = NextNode(node)
    /\ num_iters' = num_iters - One(~IsImplicit(node'))
    /\ UNCHANGED <<header, phase, used, check>>

Next == Build \/ Scan \/ Follow \/ RunFailure \/ RunEnd \/ RunByte \/ RunIter

Spec == Init /\ [][Next]_vars /\ WF_vars(Next)

-----------------------------------------------------------------------------

\* Nodes an implicit walk never leaves.
ImplicitLoop(S) == S # {} /\ \A n \in S : NextNode(n) \in S
ImplicitLoopExists == \E S \in SUBSET {n \in Nodes : IsImplicit(n)} : ImplicitLoop(S)

Ended == phase \in {"done", "error", "loop"}

\* A machine is rejected for an implicit loop exactly if it has one: the marks
\* of contains_implicit_loop, which skips what an earlier pass has met, miss no
\* loop and take no shared tail for one.
LoopCheckExact ==
    /\ phase = "run" => ~ImplicitLoopExists
    /\ phase = "loop" => ImplicitLoopExists

\* The walk takes a byte only at a node with an explicit transition, as the
\* encoder writes one only for those; an implicit node always has an iteration
\* left to leave it with.
BytesAtExplicitNodes ==
    phase = "run" /\ num_iters = 0 => ~IsImplicit(node)

\* Between two explicit nodes no node is executed twice, so a chunk is decoded
\* in at most (Size + 1) steps per zero offset and byte.
NoSilentLap == phase = "run" => node \notin trail

\* Whatever header a chunk carries, decoding it ends.
WalkTerminates == <>Ended

\* Executing the machine and the transitions the encoder wrote visits exactly
\* the tags it was given, from the last to the first, and is accepted.
ReplaysTags ==
    Ended /\ header.encoded =>
        /\ phase = "done"
        /\ executed = [k \in 1 .. Len(header.tags) |-> header.tags[Len(header.tags) - k + 1]]
=============================================================================
