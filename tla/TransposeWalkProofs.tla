------------------------ MODULE TransposeWalkProofs ------------------------
(***************************************************************************)
(* TransposeWalk for machines of every size and transitions of every       *)
(* length: the loop check of the transpose decoder is exact, a transition  *)
(* byte is only taken at an explicit node, and no node is executed twice   *)
(* between two explicit ones.                                              *)
(*                                                                         *)
(* The argument is about sets of implicit nodes that are closed under      *)
(* NextNode.  A pass of contains_implicit_loop marks a path: a set of its  *)
(* nodes that does not hold the last one is left by one of its members.    *)
(* So a pass that ends without meeting itself has marked no node of a      *)
(* closed set, and in the end every node is marked.                        *)
(***************************************************************************)
EXTENDS TransposeWalk, TLAPS

Phases == {"build", "scan", "follow", "run", "done", "error", "loop"}

\* The types of the variables, as far as the proofs need them.
WalkTypes ==
    /\ header \in Headers
    /\ phase \in Phases
    /\ loop_ids \in [Nodes -> Nat]
    /\ scan_from \in 0 .. Size
    /\ next_id \in Nat \ {0}
    /\ phase = "follow" => scan_from \in Nodes /\ scan_at \in Nodes
    /\ phase = "run" => node \in Nat /\ num_iters \in Nat /\ used \in 0 .. Len(header.transitions)

\* Before Build nothing is marked.
Unmarked == phase = "build" => scan_from = 0 /\ \A n \in Nodes : loop_ids[n] = 0

\* Before the walk no byte is taken.
NotStarted == phase \in {"build", "scan", "follow"} => used = 0 /\ trail = {}

\* What Build has checked.
InRange ==
    phase \notin {"build", "error"} =>
        /\ \A n \in Nodes : header.states[n + 1].next < 2 * Size
        /\ header.first < Size

\* Nodes the pass in progress has marked.
Current == {n \in Nodes : loop_ids[n] = next_id}

\* Marks of passes that are over are smaller, and all nodes before scan_from
\* have one.
MarksOrdered ==
    /\ phase = "scan" => \A n \in Nodes : loop_ids[n] < next_id
    /\ phase = "follow" => \A n \in Nodes : loop_ids[n] <= next_id
    /\ phase \in {"scan", "follow"} => \A n \in Nodes : n < scan_from => loop_ids[n] # 0
    /\ phase = "follow" => loop_ids[scan_from] # 0

\* The marks of the pass in progress are a path that ends at scan_at.
CurrentIsPath ==
    phase = "follow" =>
        /\ scan_at \in Current
        /\ \A n \in Current : n # scan_at => IsImplicit(n) /\ NextNode(n) \in Current
        /\ \A T \in SUBSET Current : T # {} /\ scan_at \notin T => \E n \in T : NextNode(n) \notin T

\* No pass that is over has met a node of a loop.
LoopsUnmarked ==
    phase \in {"scan", "follow"} =>
        \A S \in SUBSET {n \in Nodes : IsImplicit(n)} :
            ImplicitLoop(S) => \A n \in S : loop_ids[n] \in {0, next_id}

\* The implicit nodes since the last explicit one lead to the current node.
TrailLeadsHere ==
    phase = "run" =>
        /\ trail \subseteq {n \in Nodes : IsImplicit(n)}
        /\ \A n \in trail : NextNode(n) \in trail \cup {node}

WalkIInv ==
    /\ WalkTypes /\ Unmarked /\ NotStarted /\ InRange /\ MarksOrdered /\ CurrentIsPath /\ LoopsUnmarked
    /\ LoopCheckExact /\ BytesAtExplicitNodes /\ TrailLeadsHere /\ NoSilentLap

-----------------------------------------------------------------------------

\* A header has a number of states, and their next nodes are numbers.
LEMMA HeaderFacts ==
    ASSUME header \in Headers
    PROVE  /\ Size \in Nat
           /\ \A n \in Nodes : n \in Nat /\ header.states[n + 1].next \in Nat
           /\ header.first \in Nat
           /\ \A k \in 1 .. Len(header.transitions) : header.transitions[k] \in Nat
           /\ Len(header.transitions) \in Nat
  BY HeadersAssumption DEF Size, Nodes

\* Once the indices are checked, a node leads to a node.
LEMMA NextNodeInNodes ==
    ASSUME header \in Headers, \A n \in Nodes : header.states[n + 1].next < 2 * Size
    PROVE  \A n \in Nodes : NextNode(n) \in Nodes
  <1>1. Size \in Nat /\ \A n \in Nodes : n \in Nat /\ header.states[n + 1].next \in Nat
    BY HeaderFacts
  <1> SUFFICES ASSUME NEW n \in Nodes PROVE NextNode(n) \in Nodes
    OBVIOUS
  <1>2. header.states[n + 1].next \in Nat /\ header.states[n + 1].next < 2 * Size
    BY <1>1
  <1>3. CASE IsImplicit(n)
    BY <1>1, <1>2, <1>3 DEF NextNode, IsImplicit, Nodes
  <1>4. CASE ~IsImplicit(n)
    BY <1>1, <1>2, <1>4 DEF NextNode, IsImplicit, Nodes
  <1> QED BY <1>3, <1>4

\* Init establishes the invariant.
LEMMA InitEstablishes == Init => WalkIInv
  <1> SUFFICES ASSUME Init PROVE WalkIInv
    OBVIOUS
  <1>1. Size \in Nat
    BY HeaderFacts DEF Init
  <1>2. WalkTypes
    BY <1>1 DEF Init, WalkTypes, Phases
  <1>3. Unmarked /\ NotStarted /\ InRange /\ MarksOrdered /\ CurrentIsPath /\ LoopsUnmarked /\ LoopCheckExact
          /\ BytesAtExplicitNodes /\ TrailLeadsHere /\ NoSilentLap
    BY DEF Init, Unmarked, NotStarted, InRange, MarksOrdered, CurrentIsPath, LoopsUnmarked, LoopCheckExact,
           BytesAtExplicitNodes, TrailLeadsHere, NoSilentLap
  <1> QED BY <1>2, <1>3 DEF WalkIInv

-----------------------------------------------------------------------------

\* The machine is the same after every step.
LEMMA HeaderFrame ==
    ASSUME header' = header
    PROVE  /\ Size' = Size /\ Nodes' = Nodes
           /\ \A n : IsImplicit(n)' <=> IsImplicit(n)
           /\ \A n : NextNode(n)' = NextNode(n)
           /\ \A S : ImplicitLoop(S)' <=> ImplicitLoop(S)
           /\ ImplicitLoopExists' <=> ImplicitLoopExists
  BY DEF Size, Nodes, IsImplicit, NextNode, ImplicitLoop, ImplicitLoopExists

\* Build checks the indices; nothing is marked yet.
LEMMA BuildKeeps == WalkIInv /\ Build => WalkIInv'
  <1> SUFFICES ASSUME WalkIInv, Build PROVE WalkIInv'
    OBVIOUS
  <1>0. header' = header /\ Size' = Size /\ Nodes' = Nodes
    BY HeaderFrame DEF Build
  <1>h. Size \in Nat /\ \A n \in Nodes : n \in Nat
    BY HeaderFacts DEF WalkIInv, WalkTypes
  <1>1. WalkTypes'
    BY <1>0 DEF Build, check, walk, WalkIInv, WalkTypes, Phases
  <1>2. (Unmarked /\ NotStarted /\ InRange)'
    BY <1>0 DEF Build, check, walk, WalkIInv, Unmarked, NotStarted, InRange
  <1>3. (MarksOrdered /\ LoopsUnmarked)'
    BY <1>0, <1>h DEF Build, check, walk, WalkIInv, WalkTypes, Unmarked, MarksOrdered, LoopsUnmarked
  <1>4. (CurrentIsPath /\ LoopCheckExact /\ BytesAtExplicitNodes /\ TrailLeadsHere /\ NoSilentLap)'
    BY DEF Build, CurrentIsPath, LoopCheckExact, BytesAtExplicitNodes, TrailLeadsHere, NoSilentLap
  <1> QED BY <1>1, <1>2, <1>3, <1>4 DEF WalkIInv

\* When every node is marked there is no loop, and the walk begins.
LEMMA ScanKeeps == WalkIInv /\ Scan => WalkIInv'
  <1> SUFFICES ASSUME WalkIInv, Scan PROVE WalkIInv'
    OBVIOUS
  <1>0. /\ header' = header /\ Size' = Size /\ Nodes' = Nodes
        /\ \A n : IsImplicit(n)' <=> IsImplicit(n)
        /\ \A n : NextNode(n)' = NextNode(n)
        /\ \A S : ImplicitLoop(S)' <=> ImplicitLoop(S)
        /\ ImplicitLoopExists' <=> ImplicitLoopExists
    BY HeaderFrame DEF Scan
  <1>h. Size \in Nat /\ header.first \in Nat /\ Len(header.transitions) \in Nat
        /\ \A n \in Nodes : n \in Nat
    BY HeaderFacts DEF WalkIInv, WalkTypes
  <1>i. InRange' /\ Unmarked'
    BY <1>0 DEF WalkIInv, InRange, Unmarked, Scan
  <1>a. CASE scan_from = Size
    <2>1. /\ phase = "scan" /\ phase' = "run" /\ node' = header.first
          /\ num_iters' = One(IsImplicit(header.first))
          /\ UNCHANGED <<loop_ids, scan_from, scan_at, next_id, used, executed, trail>>
      BY <1>a DEF Scan, check
    <2>2. ~ImplicitLoopExists
      <3>1. SUFFICES ASSUME NEW S \in SUBSET {n \in Nodes : IsImplicit(n)}, ImplicitLoop(S)
                     PROVE  FALSE
        BY DEF ImplicitLoopExists
      <3>2. PICK n \in S : TRUE
        BY <3>1 DEF ImplicitLoop
      <3>3. n \in Nodes /\ n < scan_from
        BY <3>1, <3>2, <1>a, <1>h DEF Nodes
      <3>4. loop_ids[n] # 0 /\ loop_ids[n] < next_id /\ loop_ids[n] \in {0, next_id}
        BY <3>1, <3>2, <3>3, <2>1 DEF WalkIInv, MarksOrdered, LoopsUnmarked
      <3> QED BY <3>3, <3>4 DEF WalkIInv, WalkTypes
    <2>3. trail' = {} /\ used' = 0
      BY <2>1 DEF WalkIInv, NotStarted
    <2>4. WalkTypes'
      BY <1>0, <1>h, <2>1, <2>3 DEF WalkIInv, WalkTypes, Phases, One
    <2>5. (MarksOrdered /\ CurrentIsPath /\ LoopsUnmarked /\ NotStarted)'
      BY <2>1 DEF MarksOrdered, CurrentIsPath, LoopsUnmarked, NotStarted
    <2>6. LoopCheckExact'
      BY <1>0, <2>1, <2>2 DEF LoopCheckExact
    <2>7. BytesAtExplicitNodes'
      BY <1>0, <2>1 DEF BytesAtExplicitNodes, One
    <2>8. (TrailLeadsHere /\ NoSilentLap)'
      BY <2>3 DEF TrailLeadsHere, NoSilentLap
    <2> QED BY <1>i, <2>4, <2>5, <2>6, <2>7, <2>8 DEF WalkIInv
  <1>b. CASE scan_from # Size /\ loop_ids[scan_from] # 0
    <2>1. /\ phase = "scan" /\ phase' = "scan" /\ scan_from' = scan_from + 1
          /\ UNCHANGED <<loop_ids, scan_at, next_id, used, trail>>
      BY <1>b DEF Scan, walk
    <2>2. WalkTypes'
      BY <1>0, <1>h, <1>b, <2>1 DEF WalkIInv, WalkTypes, Phases
    <2>3. MarksOrdered'
      BY <1>0, <1>h, <1>b, <2>1 DEF WalkIInv, WalkTypes, MarksOrdered
    <2>4. LoopsUnmarked'
      BY <1>0, <2>1 DEF WalkIInv, LoopsUnmarked
    <2>5. (NotStarted /\ CurrentIsPath /\ LoopCheckExact /\ BytesAtExplicitNodes /\ TrailLeadsHere
             /\ NoSilentLap)'
      BY <2>1 DEF WalkIInv, NotStarted, CurrentIsPath, LoopCheckExact, BytesAtExplicitNodes,
                  TrailLeadsHere, NoSilentLap
    <2> QED BY <1>i, <2>2, <2>3, <2>4, <2>5 DEF WalkIInv
  <1>c. CASE scan_from # Size /\ loop_ids[scan_from] = 0
    <2>1. /\ phase = "scan" /\ phase' = "follow" /\ scan_at' = scan_from
          /\ loop_ids' = [loop_ids EXCEPT ![scan_from] = next_id]
          /\ UNCHANGED <<scan_from, next_id, used, trail>>
      BY <1>c DEF Scan, walk
    <2>2. scan_from \in Nodes
      BY <1>c, <1>h DEF WalkIInv, WalkTypes, Nodes
    <2>3. WalkTypes'
      BY <1>0, <2>1, <2>2 DEF WalkIInv, WalkTypes, Phases
    <2>4. \A n \in Nodes : loop_ids'[n] = IF n = scan_from THEN next_id ELSE loop_ids[n]
      BY <2>1, <2>2 DEF WalkIInv, WalkTypes
    <2>5. \A n \in Nodes : loop_ids[n] \in Nat /\ loop_ids[n] < next_id /\ next_id \in Nat \ {0}
      BY <2>1 DEF WalkIInv, WalkTypes, MarksOrdered
    <2>6. MarksOrdered'
      BY <1>0, <2>1, <2>2, <2>4, <2>5 DEF WalkIInv, MarksOrdered
    <2>7. Current' = {scan_from}
      BY <1>0, <2>1, <2>2, <2>4, <2>5 DEF Current
    <2>8. CurrentIsPath'
      BY <2>1, <2>7 DEF CurrentIsPath
    <2>9. LoopsUnmarked'
      BY <1>0, <2>1, <2>4 DEF WalkIInv, LoopsUnmarked
    <2>10. (NotStarted /\ LoopCheckExact /\ BytesAtExplicitNodes /\ TrailLeadsHere /\ NoSilentLap)'
      BY <2>1 DEF WalkIInv, NotStarted, LoopCheckExact, BytesAtExplicitNodes, TrailLeadsHere,
                  NoSilentLap
    <2> QED BY <1>i, <2>3, <2>6, <2>8, <2>9, <2>10 DEF WalkIInv
  <1> QED BY <1>a, <1>b, <1>c

\* A step of a pass: it has met itself, and what it has marked is a loop; or it
\* goes on; or it ends, and has marked no node of a loop.
LEMMA FollowKeeps == WalkIInv /\ Follow => WalkIInv'
  <1> SUFFICES ASSUME WalkIInv, Follow PROVE WalkIInv'
    OBVIOUS
  <1> DEFINE to == NextNode(scan_at)
  <1>0. /\ header' = header /\ Size' = Size /\ Nodes' = Nodes
        /\ \A n : IsImplicit(n)' <=> IsImplicit(n)
        /\ \A n : NextNode(n)' = NextNode(n)
        /\ \A S : ImplicitLoop(S)' <=> ImplicitLoop(S)
        /\ ImplicitLoopExists' <=> ImplicitLoopExists
    BY HeaderFrame DEF Follow
  <1>h. Size \in Nat /\ \A n \in Nodes : n \in Nat
    BY HeaderFacts DEF WalkIInv, WalkTypes
  <1>f. phase = "follow" /\ UNCHANGED <<used, trail>>
    BY DEF Follow, walk
  <1>i. InRange' /\ Unmarked'
    BY <1>0 DEF WalkIInv, InRange, Unmarked, Follow
  <1>n. /\ scan_at \in Nodes /\ scan_from \in Nodes
        /\ scan_at \in Current
        /\ to \in Nodes
    BY <1>f, NextNodeInNodes DEF WalkIInv, WalkTypes, InRange, CurrentIsPath
  <1>p. \A n \in Current : n # scan_at => IsImplicit(n) /\ NextNode(n) \in Current
    BY <1>f DEF WalkIInv, CurrentIsPath
  <1>q. \A T \in SUBSET Current : T # {} /\ scan_at \notin T => \E n \in T : NextNode(n) \notin T
    BY <1>f DEF WalkIInv, CurrentIsPath
  <1>m. \A n \in Nodes : loop_ids[n] \in Nat /\ loop_ids[n] <= next_id /\ next_id \in Nat \ {0}
    BY <1>f DEF WalkIInv, WalkTypes, MarksOrdered
  <1>r. (NotStarted /\ BytesAtExplicitNodes /\ TrailLeadsHere /\ NoSilentLap)'
    BY <1>f DEF WalkIInv, NotStarted, BytesAtExplicitNodes, TrailLeadsHere, NoSilentLap, Follow
  <1>a. CASE IsImplicit(scan_at) /\ loop_ids[to] = next_id
    <2>1. phase' = "loop" /\ UNCHANGED <<loop_ids, scan_from, scan_at, next_id>>
      BY <1>a DEF Follow, check
    <2>2. Current \in SUBSET {n \in Nodes : IsImplicit(n)}
      BY <1>a, <1>p DEF Current
    <2>3. ImplicitLoop(Current)
      BY <1>a, <1>n, <1>p DEF ImplicitLoop, Current
    <2>4. LoopCheckExact'
      BY <1>0, <2>1, <2>2, <2>3 DEF LoopCheckExact, ImplicitLoopExists
    <2>5. WalkTypes'
      BY <1>0, <2>1 DEF WalkIInv, WalkTypes, Phases
    <2>6. (MarksOrdered /\ CurrentIsPath /\ LoopsUnmarked)'
      BY <2>1 DEF MarksOrdered, CurrentIsPath, LoopsUnmarked
    <2> QED BY <1>i, <1>r, <2>4, <2>5, <2>6 DEF WalkIInv
  <1>b. CASE IsImplicit(scan_at) /\ loop_ids[to] = 0
    <2>1. /\ phase' = "follow" /\ scan_at' = to
          /\ loop_ids' = [loop_ids EXCEPT ![to] = next_id]
          /\ UNCHANGED <<scan_from, next_id>>
      BY <1>b, <1>f, <1>m, <1>n DEF Follow
    <2>2. WalkTypes'
      BY <1>0, <1>n, <2>1 DEF WalkIInv, WalkTypes, Phases
    <2>3. \A n \in Nodes : loop_ids'[n] = IF n = to THEN next_id ELSE loop_ids[n]
      BY <1>n, <2>1 DEF WalkIInv, WalkTypes
    <2>4. MarksOrdered'
      BY <1>0, <1>f, <1>m, <1>n, <2>1, <2>3 DEF WalkIInv, MarksOrdered
    <2>5. Current' = Current \cup {to} /\ to \notin Current
      BY <1>0, <1>b, <1>m, <1>n, <2>1, <2>3 DEF Current
    <2>6. ASSUME NEW T \in SUBSET Current', T # {}, to \notin T
          PROVE  \E n \in T : NextNode(n) \notin T
      <3>1. T \in SUBSET Current
        BY <2>5, <2>6
      <3>2. CASE scan_at \in T
        BY <2>6, <3>2
      <3>3. CASE scan_at \notin T
        BY <1>q, <2>6, <3>1, <3>3
      <3> QED BY <3>2, <3>3
    <2>7. CurrentIsPath'
      BY <1>0, <1>b, <1>p, <2>1, <2>5, <2>6 DEF CurrentIsPath
    <2>8. LoopsUnmarked'
      BY <1>0, <1>f, <2>1, <2>3 DEF WalkIInv, LoopsUnmarked
    <2>9. LoopCheckExact'
      BY <2>1 DEF LoopCheckExact
    <2> QED BY <1>i, <1>r, <2>2, <2>4, <2>7, <2>8, <2>9 DEF WalkIInv
  <1>c. CASE ~IsImplicit(scan_at) \/ (loop_ids[to] # next_id /\ loop_ids[to] # 0)
    <2>1. /\ phase' = "scan" /\ next_id' = next_id + 1 /\ scan_from' = scan_from + 1
          /\ UNCHANGED <<loop_ids, scan_at>>
      BY <1>c DEF Follow
    <2>2. WalkTypes'
      BY <1>0, <1>h, <1>n, <2>1 DEF WalkIInv, WalkTypes, Phases, Nodes
    <2>3. MarksOrdered'
      BY <1>0, <1>f, <1>h, <1>m, <1>n, <2>1 DEF WalkIInv, MarksOrdered
    <2>4. ASSUME NEW S \in SUBSET {n \in Nodes : IsImplicit(n)}, ImplicitLoop(S)
          PROVE  \A n \in S : loop_ids[n] = 0
      <3>1. \A n \in S : n \in Nodes /\ loop_ids[n] \in {0, next_id} /\ NextNode(n) \in S
        BY <1>f, <2>4 DEF WalkIInv, LoopsUnmarked, ImplicitLoop
      <3>2. scan_at \notin S
        BY <1>c, <2>4, <3>1
      <3>3. S \cap Current = {}
        <4>1. SUFFICES ASSUME S \cap Current # {} PROVE FALSE
          OBVIOUS
        <4>2. PICK n \in S \cap Current : NextNode(n) \notin S \cap Current
          BY <1>q, <3>2, <4>1
        <4> QED BY <1>p, <3>1, <3>2, <4>2
      <3> QED BY <3>1, <3>3 DEF Current
    <2>5. LoopsUnmarked'
      BY <1>0, <2>1, <2>4 DEF LoopsUnmarked
    <2>6. (CurrentIsPath /\ LoopCheckExact)'
      BY <2>1 DEF CurrentIsPath, LoopCheckExact
    <2> QED BY <1>i, <1>r, <2>2, <2>3, <2>5, <2>6 DEF WalkIInv
  <1> QED BY <1>a, <1>b, <1>c

\* The walk is over.
LEMMA RunEnds == WalkIInv /\ (RunFailure \/ RunEnd) => WalkIInv'
  <1> SUFFICES ASSUME WalkIInv, RunFailure \/ RunEnd PROVE WalkIInv'
    OBVIOUS
  <1>0. header' = header /\ Size' = Size /\ Nodes' = Nodes
    BY HeaderFrame DEF RunFailure, RunEnd
  <1>1. phase = "run" /\ phase' \in {"done", "error"} /\ UNCHANGED <<loop_ids, scan_from, scan_at, next_id>>
    BY DEF RunFailure, RunEnd, check
  <1>2. WalkTypes' /\ InRange'
    BY <1>0, <1>1 DEF WalkIInv, WalkTypes, InRange, Phases
  <1>3. (Unmarked /\ NotStarted /\ MarksOrdered /\ CurrentIsPath /\ LoopsUnmarked /\ LoopCheckExact
           /\ BytesAtExplicitNodes /\ TrailLeadsHere /\ NoSilentLap)'
    BY <1>1 DEF Unmarked, NotStarted, MarksOrdered, CurrentIsPath, LoopsUnmarked, LoopCheckExact,
                BytesAtExplicitNodes, TrailLeadsHere, NoSilentLap
  <1> QED BY <1>2, <1>3 DEF WalkIInv

\* A byte is taken at an explicit node, so the trail begins anew.
LEMMA RunByteKeeps == WalkIInv /\ RunByte => WalkIInv'
  <1> SUFFICES ASSUME WalkIInv, RunByte PROVE WalkIInv'
    OBVIOUS
  <1> DEFINE byte == header.transitions[used + 1]
  <1>0. /\ header' = header /\ Size' = Size /\ Nodes' = Nodes
        /\ \A n : IsImplicit(n)' <=> IsImplicit(n)
        /\ ImplicitLoopExists' <=> ImplicitLoopExists
    BY HeaderFrame DEF RunByte
  <1>1. /\ phase = "run" /\ phase' = "run" /\ node \in Nodes /\ num_iters = 0
        /\ used < Len(header.transitions) /\ used' = used + 1
        /\ UNCHANGED <<loop_ids, scan_from, scan_at, next_id>>
    BY DEF RunByte, check
  <1>2. trail' = {}
    BY <1>1 DEF WalkIInv, BytesAtExplicitNodes, RunByte, Trail
  <1>3. byte \in Nat /\ used' \in 0 .. Len(header.transitions)
    BY <1>1, HeaderFacts DEF WalkIInv, WalkTypes
  <1>4. byte \div (MaxRepeat + 1) \in Nat /\ byte % (MaxRepeat + 1) \in Nat
    BY <1>3, WalkAssumption
  <1>5. NextNode(node) \in Nat
    BY <1>1, NextNodeInNodes, HeaderFacts DEF WalkIInv, WalkTypes, InRange
  <1>6. node' \in Nat
    BY <1>4, <1>5 DEF RunByte
  <1>7. num_iters' = (byte % (MaxRepeat + 1)) + (IF IsImplicit(node') THEN 1 ELSE 0)
    BY DEF RunByte, One
  <1>8. num_iters' \in Nat /\ (num_iters' = 0 => ~IsImplicit(node'))
    BY <1>4, <1>7
  <1>9. WalkTypes' /\ InRange'
    BY <1>0, <1>1, <1>3, <1>6, <1>8 DEF WalkIInv, WalkTypes, InRange, Phases
  <1>10. BytesAtExplicitNodes'
    BY <1>0, <1>8 DEF BytesAtExplicitNodes
  <1>11. (TrailLeadsHere /\ NoSilentLap)'
    BY <1>2 DEF TrailLeadsHere, NoSilentLap
  <1>12. (Unmarked /\ NotStarted /\ MarksOrdered /\ CurrentIsPath /\ LoopsUnmarked /\ LoopCheckExact)'
    BY <1>0, <1>1 DEF WalkIInv, Unmarked, NotStarted, MarksOrdered, CurrentIsPath, LoopsUnmarked,
                      LoopCheckExact
  <1> QED BY <1>9, <1>10, <1>11, <1>12 DEF WalkIInv

\* Without a byte the walk never comes back to the trail: it would be a loop.
LEMMA RunIterKeeps == WalkIInv /\ RunIter => WalkIInv'
  <1> SUFFICES ASSUME WalkIInv, RunIter PROVE WalkIInv'
    OBVIOUS
  <1>0. /\ header' = header /\ Size' = Size /\ Nodes' = Nodes
        /\ \A n : IsImplicit(n)' <=> IsImplicit(n)
        /\ \A n : NextNode(n)' = NextNode(n)
        /\ ImplicitLoopExists' <=> ImplicitLoopExists
    BY HeaderFrame DEF RunIter
  <1>1. /\ phase = "run" /\ phase' = "run" /\ node \in Nodes /\ num_iters \in Nat \ {0}
        /\ node' = NextNode(node)
        /\ UNCHANGED <<loop_ids, scan_from, scan_at, next_id, used>>
    BY DEF RunIter, check, WalkIInv, WalkTypes
  <1>2. node' \in Nodes /\ node' \in Nat
    BY <1>1, NextNodeInNodes, HeaderFacts DEF WalkIInv, WalkTypes, InRange
  <1>3. num_iters' = num_iters - (IF IsImplicit(node') THEN 0 ELSE 1)
    BY DEF RunIter, One
  <1>4. num_iters' \in Nat /\ (num_iters' = 0 => ~IsImplicit(node'))
    BY <1>1, <1>3
  <1>5. WalkTypes' /\ InRange'
    BY <1>0, <1>1, <1>2, <1>4 DEF WalkIInv, WalkTypes, InRange, Phases
  <1>6. BytesAtExplicitNodes'
    BY <1>0, <1>4 DEF BytesAtExplicitNodes
  <1>7. (Unmarked /\ NotStarted /\ MarksOrdered /\ CurrentIsPath /\ LoopsUnmarked /\ LoopCheckExact)'
    BY <1>0, <1>1 DEF WalkIInv, Unmarked, NotStarted, MarksOrdered, CurrentIsPath, LoopsUnmarked,
                      LoopCheckExact
  <1>8. CASE ~IsImplicit(node)
    <2>1. trail' = {}
      BY <1>8 DEF RunIter, Trail
    <2>2. (TrailLeadsHere /\ NoSilentLap)'
      BY <2>1 DEF TrailLeadsHere, NoSilentLap
    <2> QED BY <1>5, <1>6, <1>7, <2>2 DEF WalkIInv
  <1>9. CASE IsImplicit(node)
    <2>1. trail' = trail \cup {node}
      BY <1>9 DEF RunIter, Trail
    <2>2. /\ trail' \in SUBSET {n \in Nodes : IsImplicit(n)}
          /\ \A n \in trail' : NextNode(n) \in trail' \cup {node'}
      BY <1>1, <1>9, <2>1 DEF WalkIInv, TrailLeadsHere
    <2>3. TrailLeadsHere'
      BY <1>0, <2>2 DEF TrailLeadsHere
    <2>4. node' \notin trail'
      <3>1. SUFFICES ASSUME node' \in trail' PROVE ImplicitLoopExists
        BY <1>1 DEF WalkIInv, LoopCheckExact
      <3>2. ImplicitLoop(trail')
        BY <2>1, <2>2, <3>1 DEF ImplicitLoop
      <3> QED BY <2>2, <3>2 DEF ImplicitLoopExists
    <2>5. NoSilentLap'
      BY <2>4 DEF NoSilentLap
    <2> QED BY <1>5, <1>6, <1>7, <2>3, <2>5 DEF WalkIInv
  <1> QED BY <1>8, <1>9

\* Nothing changes in a stuttering step.
LEMMA StutterKeeps == WalkIInv /\ UNCHANGED vars => WalkIInv'
  <1> SUFFICES ASSUME WalkIInv, UNCHANGED vars PROVE WalkIInv'
    OBVIOUS
  <1>0. /\ Size' = Size /\ Nodes' = Nodes
        /\ \A n : IsImplicit(n)' <=> IsImplicit(n)
        /\ \A n : NextNode(n)' = NextNode(n)
        /\ \A S : ImplicitLoop(S)' <=> ImplicitLoop(S)
        /\ ImplicitLoopExists' <=> ImplicitLoopExists
    BY HeaderFrame DEF vars
  <1>1. Current' = Current
    BY <1>0 DEF Current, vars
  <1>2. (WalkTypes /\ Unmarked /\ NotStarted /\ InRange /\ MarksOrdered)'
    BY <1>0 DEF WalkIInv, WalkTypes, Unmarked, NotStarted, InRange, MarksOrdered, vars
  <1>3. CurrentIsPath'
    BY <1>0, <1>1 DEF WalkIInv, CurrentIsPath, vars
  <1>4. LoopsUnmarked'
    BY <1>0 DEF WalkIInv, LoopsUnmarked, vars
  <1>5. (LoopCheckExact /\ BytesAtExplicitNodes /\ TrailLeadsHere /\ NoSilentLap)'
    BY <1>0 DEF WalkIInv, LoopCheckExact, BytesAtExplicitNodes, TrailLeadsHere, NoSilentLap, vars
  <1> QED BY <1>2, <1>3, <1>4, <1>5 DEF WalkIInv

-----------------------------------------------------------------------------

\* The invariant of the loop check and the walk, for every header: the marks of
\* contains_implicit_loop are a path, no loop has a mark of an earlier pass, and
\* the implicit nodes executed lead to the current one.
THEOREM WalkInvariant == Spec => []WalkIInv
  <1>1. Init => WalkIInv
    BY InitEstablishes
  <1>2. WalkIInv /\ [Next]_vars => WalkIInv'
    BY BuildKeeps, ScanKeeps, FollowKeeps, RunEnds, RunByteKeeps, RunIterKeeps, StutterKeeps DEF Next
  <1> QED BY <1>1, <1>2, PTL DEF Spec

\* contains_implicit_loop returns true exactly for machines with a loop of
\* implicit transitions, whatever their number of states.
THEOREM LoopCheckCorrect == Spec => []LoopCheckExact
  <1>1. WalkIInv => LoopCheckExact
    BY DEF WalkIInv
  <1> QED BY <1>1, WalkInvariant, PTL

\* advance_state_machine takes a transition byte only at an explicit node.
THEOREM BytesTakenAtExplicitNodes == Spec => []BytesAtExplicitNodes
  <1>1. WalkIInv => BytesAtExplicitNodes
    BY DEF WalkIInv
  <1> QED BY <1>1, WalkInvariant, PTL

\* run_state_machine executes no node twice between two explicit ones, so the
\* transition bytes of a chunk bound the steps of decoding it.
THEOREM NoLapWithoutByte == Spec => []NoSilentLap
  <1>1. WalkIInv => NoSilentLap
    BY DEF WalkIInv
  <1> QED BY <1>1, WalkInvariant, PTL
=============================================================================
