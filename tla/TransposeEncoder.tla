-------------------------- MODULE TransposeEncoder --------------------------
(***************************************************************************)
(* How the transpose encoder turns the sequence of tags it met into a      *)
(* state machine and the transition bytes that drive it                    *)
(* (transpose/encoder.rs, create_state_machine and build_transitions).     *)
(* The walk over the machine visits the tags backwards, so a transition    *)
(* leads from encoded_tags[i + 1] to encoded_tags[i].  A state is reached  *)
(* by an offset of at most MaxTransition from a base; what lies further    *)
(* away is reached through NoOp states.                                    *)
(***************************************************************************)
EXTENDS TransposeWalk, SequencesExt, FiniteSetsExt

CONSTANTS
    MaxTransition,      \* MAX_TRANSITION, 63 in the code
    MinCountForState    \* MIN_COUNT_FOR_STATE, 10 in the code

ASSUME EncoderAssumption ==
    /\ MaxTransition \in Nat \ {0}
    /\ MinCountForState \in Nat \ {0}

\* u32::MAX: larger than every position.
INVALID_POS == 1000000

StateInfo(etag, base) == [etag |-> etag, base |-> base, source |-> INVALID_POS]

-----------------------------------------------------------------------------
(* Statistics: t is encoded_tags, tags are numbered as they are first met. *)

NumTags(t) == Cardinality(ToSet(t))
Tags(t) == 0 .. NumTags(t) - 1

NumTransitions(t) ==
    [a \in Tags(t) |-> [b \in Tags(t) |->
        Cardinality({i \in 1 .. Len(t) - 1 : t[i + 1] = a /\ t[i] = b})]]

Dests(num, a) == {b \in DOMAIN num : num[a][b] > 0}

\* The tag the walk begins with gets a state even if nothing leads to it.
NumIncoming(t) ==
    [b \in Tags(t) |->
        LET n == Cardinality({i \in 1 .. Len(t) - 1 : t[i] = b})
        IN  IF n = 0 /\ b = t[Len(t)] THEN 1 ELSE n]

Frequent(num, a, b) == num[a][b] >= MinCountForState

\* mark_frequent_transitions takes the frequent ones out of the public counts.
MarkFrequent(num, incoming) ==
    [b \in DOMAIN num |-> incoming[b] - MapThenSumSet(
        LAMBDA a : num[a][b], {a \in DOMAIN num : Frequent(num, a, b)})]

-----------------------------------------------------------------------------
(* A list of destinations, in blocks of MaxTransition + 1 states.          *)

\* The heap's order: fewest transitions first, ties by the larger index.
Pop(heap) == CHOOSE e \in heap : \A f \in heap \ {e} :
                e.num < f.num \/ (e.num = f.num /\ e.dest > f.dest)

\* The states of one list, back to front.  Each full block but the first is
\* served by a NoOp that goes into the heap with the weight of its block;
\* entries from numTags on stand for these, INVALID_POS for the NoOp that
\* bridges to the public list.
RECURSIVE FillBlocks(_, _, _, _, _, _, _)
FillBlocks(heap, sm, prev, left, weight, bases, numTags) ==
    IF left = 0
    THEN IF heap = {} THEN sm
         ELSE FillBlocks(heap \cup {[dest |-> numTags + Len(bases), num |-> weight]},
                         sm, prev, MaxTransition + 1, 0, Append(bases, prev), numTags)
    ELSE LET e      == Pop(heap)
             isTag  == e.dest < numTags
             base   == IF isTag \/ e.dest = INVALID_POS THEN INVALID_POS
                       ELSE bases[e.dest - numTags + 1]
             placed == [sm EXCEPT ![prev - 1] =
                           StateInfo(IF isTag THEN e.dest ELSE INVALID_POS, base)]
             served == [i \in DOMAIN sm |->
                           IF base <= i /\ i <= base + MaxTransition
                           THEN [placed[i] EXCEPT !.source = prev - 1] ELSE placed[i]]
         IN  FillBlocks(heap \ {e}, served, prev - 1, left - 1, weight + e.num, bases, numTags)

NoopNodes(n) == IF n <= MaxTransition + 1 THEN 0 ELSE (n - 2) \div MaxTransition

AddList(sm, heap, numTags) ==
    LET total == Cardinality(heap) + NoopNodes(Cardinality(heap))
        end   == Cardinality(DOMAIN sm) + total
        grown == [i \in 0 .. end - 1 |-> IF i \in DOMAIN sm THEN sm[i]
                                         ELSE StateInfo(INVALID_POS, INVALID_POS)]
    IN  FillBlocks(heap, grown, end, ((total - 1) % (MaxTransition + 1)) + 1, 0, <<>>, numTags)

-----------------------------------------------------------------------------
(* Private lists, the public list and the bases of transitions.            *)

\* Into the private list of a go the frequent destinations and those nothing
\* else leads to; a single one left over goes there as well.
Listed(num, incoming, a) ==
    LET dests == Dests(num, a)
        own   == {b \in dests : Frequent(num, a, b) \/ num[a][b] = incoming[b]}
    IN  IF own # {} /\ Cardinality(dests \ own) = 1 THEN dests ELSE own

\* m is the machine under construction: its states, the incoming transitions
\* left for the public list, and for every tag the base of its transitions, the
\* positions of its private destinations and the NoOp that bridges to the others.
AddPrivateList(num, m, a) ==
    LET listed   == Listed(num, m.incoming, a)
        excluded == Dests(num, a) \ listed
        bridge   == [dest |-> INVALID_POS,
                     num  |-> MapThenSumSet(LAMBDA b : num[a][b], excluded)]
        heap     == {[dest |-> b, num |-> num[a][b]] : b \in listed}
                       \cup IF excluded = {} THEN {} ELSE {bridge}
        sm       == AddList(m.sm, heap, Cardinality(DOMAIN num))
        new      == DOMAIN sm \ DOMAIN m.sm
    IN  IF listed = {} THEN m
        ELSE [sm       |-> sm,
              incoming |-> [b \in DOMAIN num |->
                               IF b \in listed /\ ~Frequent(num, a, b)
                               THEN m.incoming[b] - num[a][b] ELSE m.incoming[b]],
              base     |-> [m.base EXCEPT ![a] = Min(new)],
              pos      |-> [m.pos EXCEPT ![a] = [b \in DOMAIN num |->
                               Min({p \in new : sm[p].etag = b} \cup {INVALID_POS})]],
              noop     |-> [m.noop EXCEPT ![a] =
                               Min({p \in new : /\ sm[p].etag = INVALID_POS
                                                /\ sm[p].base = INVALID_POS} \cup {INVALID_POS})]]

AddPublicList(num, m) ==
    LET heap == {[dest |-> b, num |-> m.incoming[b]] :
                    b \in {c \in DOMAIN num : m.incoming[c] # 0}}
    IN  IF heap = {} THEN m.sm ELSE AddList(m.sm, heap, Cardinality(DOMAIN num))

\* Where the block begins that the NoOp at source serves; without one it is the
\* first block of the public list.
BlockBase(sm, public, source) ==
    IF source = INVALID_POS THEN public ELSE sm[source].base

\* The loop of find_optimal_base: from base or from pos, climb to the block
\* both can be reached from.  Returns the base and the least position needed.
RECURSIVE Meet(_, _, _, _, _)
Meet(sm, public, base, pos, least) ==
    IF base > pos
    THEN IF base = INVALID_POS
         THEN Meet(sm, public, BlockBase(sm, public, sm[pos].source), pos, least)
         ELSE IF sm[base].source = INVALID_POS
         THEN Meet(sm, public, public, pos, least)
         ELSE Meet(sm, public, BlockBase(sm, public, sm[sm[base].source].source), pos,
                   Min({least, sm[base].source}))
    ELSE IF pos - base > MaxTransition /\ sm[pos].source # INVALID_POS
         THEN Meet(sm, public, base, sm[pos].source, least)
         ELSE [base |-> base, least |-> Min({least, pos})]

PublicPos(sm, public, b) == Min({p \in DOMAIN sm : p >= public /\ sm[p].etag = b} \cup {INVALID_POS})

FindOptimalBase(num, sm, public, pos, a) ==
    LET dests == SetToSortSeq({b \in Dests(num, a) : /\ pos[a][b] = INVALID_POS
                                                     /\ PublicPos(sm, public, b) # INVALID_POS}, <)
    IN  FoldLeft(LAMBDA r, b : Meet(sm, public, r.base, PublicPos(sm, public, b), r.least),
                 [base |-> INVALID_POS, least |-> INVALID_POS], dests).least

\* compute_base_indices.  It reads bases in the public list only and assigns
\* those of bridges in private lists, so the order of the assignments is free.
ComputeBases(num, m, public) ==
    LET best == [a \in DOMAIN num |-> FindOptimalBase(num, m.sm, public, m.pos, a)]
    IN  [m EXCEPT !.base = [a \in DOMAIN num |-> IF m.base[a] = INVALID_POS THEN best[a] ELSE m.base[a]],
                  !.sm   = [p \in DOMAIN m.sm |->
                              IF \E a \in DOMAIN num : m.noop[a] = p
                              THEN [m.sm[p] EXCEPT !.base = best[CHOOSE a \in DOMAIN num : m.noop[a] = p]]
                              ELSE m.sm[p]]]

\* create_state_machine, with the position where the public list begins.
CreateStateMachine(t) ==
    LET num     == NumTransitions(t)
        blank   == [a \in Tags(t) |-> INVALID_POS]
        start   == [sm |-> <<>>, incoming |-> MarkFrequent(num, NumIncoming(t)),
                    base |-> blank, pos |-> [a \in Tags(t) |-> blank], noop |-> blank]
        private == FoldLeft(LAMBDA m, a : AddPrivateList(num, m, a), start,
                            [i \in 1 .. NumTags(t) |-> i - 1])
        public  == Cardinality(DOMAIN private.sm)
    IN  [m |-> ComputeBases(num, [private EXCEPT !.sm = AddPublicList(num, private)], public),
         public |-> public]

-----------------------------------------------------------------------------
(* What goes into the chunk.                                               *)

\* Mutant: no dummy destination for the tag the walk ends with.
Implicit_LastToo(t, num, a) == Cardinality(Dests(num, a)) = 1

\* A tag with one destination needs no transition byte.  The tag the walk ends
\* with gets a dummy destination (ensure_last_state_explicit): an implicit
\* transition would lead on.
Implicit(t, num, a) == Cardinality(Dests(num, a)) = 1 /\ a # t[1]

\* Offsets that lead from base to target, through the NoOps that serve the
\* blocks on the way.
RECURSIVE Path(_, _, _)
Path(sm, base, target) ==
    IF base > target \/ target - base > MaxTransition
    THEN LET source == sm[target].source
         IN  IF source = INVALID_POS THEN <<target - base>>
             ELSE Append(Path(sm, base, source), target - sm[source].base)
    ELSE <<target - base>>

\* The offsets for the transition from tag a to tag b.
Offsets(t, num, machine, a, b) ==
    LET m       == machine.m
        private == m.pos[a][b] # INVALID_POS
        bridged == ~private /\ m.noop[a] # INVALID_POS
        base    == IF bridged THEN m.sm[m.noop[a]].base ELSE m.base[a]
        target  == IF private THEN m.pos[a][b] ELSE PublicPos(m.sm, machine.public, b)
    IN  IF Implicit(t, num, a) THEN <<>>
        ELSE (IF bridged THEN Path(m.sm, m.base[a], m.noop[a]) ELSE <<>>)
             \o IF base = INVALID_POS \/ target = INVALID_POS THEN <<>> ELSE Path(m.sm, base, target)

\* emit_transition_bytes: a byte holds an offset and, in its low bits, the number
\* of zero offsets behind it.  Casts and shifts drop what does not fit.
ByteValues == (MaxTransition + 1) * (MaxRepeat + 1)

EmitOffset(bytes, b) ==
    LET last == bytes[Len(bytes)]
    IN  IF bytes # <<>> /\ b = 0 /\ last % (MaxRepeat + 1) < MaxRepeat
        THEN [bytes EXCEPT ![Len(bytes)] = last + 1]
        ELSE Append(bytes, (b * (MaxRepeat + 1)) % ByteValues)

BuildTransitions(t, num, machine) ==
    FoldLeft(EmitOffset, <<>>, FlattenSeq(
        [i \in 1 .. Len(t) - 1 |->
            Offsets(t, num, machine, t[Len(t) - i + 1], t[Len(t) - i])]))

\* The chunk's header as far as the walk is concerned.  Implicit transitions
\* are told by an index beyond the states.  Without records there is one NoOp.
Encode(t) ==
    IF t = <<>> THEN [states |-> <<[tag |-> NoTag, next |-> 0]>>, first |-> 0,
                      transitions |-> <<>>, tags |-> t, encoded |-> TRUE]
    ELSE
    LET num     == NumTransitions(t)
        machine == CreateStateMachine(t)
        sm      == machine.m.sm
        base    == machine.m.base
        size    == Cardinality(DOMAIN sm)
    IN  [states |-> [i \in 1 .. size |->
            LET s == sm[i - 1]
            IN  IF s.etag = INVALID_POS THEN [tag |-> NoTag, next |-> s.base]
                ELSE [tag  |-> s.etag,
                      next |-> IF base[s.etag] = INVALID_POS THEN 0
                               ELSE base[s.etag] + IF Implicit(t, num, s.etag) THEN size ELSE 0]],
         first       |-> Min({i \in DOMAIN sm : sm[i].etag = t[Len(t)]}),
         transitions |-> BuildTransitions(t, num, machine),
         tags        |-> t, encoded |-> TRUE]
=============================================================================
