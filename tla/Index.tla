--------------------------------- MODULE Index ---------------------------------
(***************************************************************************)
(* The label index (src/src/storage/index.rs): which series exist and      *)
(* which of them a list of matchers selects. Encode runs under Db's write  *)
(* lock and a resolve under its read lock, so the index stands still while *)
(* a resolve runs; the lists it merges are those of SortedLists.           *)
(*                                                                         *)
(* A label set is a function from some names to values. A series is its    *)
(* id; a name or value that is not in the posting index has no ids.        *)
(***************************************************************************)
EXTENDS SortedLists

CONSTANTS
    Names, Values,   \* of labels
    Empty,           \* the empty string
    LabelSets,       \* those that may be encoded
    MatcherLists     \* those that may be resolved: sequences of
                     \*   [name, value, operator], operator "=" or "!="

Matchers == [name : Names, value : Values, operator : {"=", "!="}]

ASSUME IndexAssumption ==
    /\ LabelSets \subseteq UNION {[ns -> Values] : ns \in SUBSET Names}
    /\ MatcherLists \subseteq Seq(Matchers)

VARIABLES
    inverted,    \* label set -> id
    forward,     \* id -> label set
    posting,     \* name -> value -> ids, posting_index
    allIds,      \* every id, all_ids
    nextId,
    pc,          \* where the resolve is
    matchers, k, \* its argument, and the matcher it is at
    candidates,  \* what the matchers before k select
    values,      \* values that union_all has yet to merge
    withLabel,   \* with_label: what union_all has merged, or returned
    kept         \* with_label without the ids of the matcher's value

index == <<inverted, forward, posting, allIds, nextId>>
call == <<matchers, k, candidates, values, withLabel, kept>>
vars == <<index, pc, call, frame>>

Init ==
    /\ inverted = <<>> /\ forward = <<>> /\ allIds = <<>> /\ nextId = 0
    /\ posting = [n \in Names |-> [v \in Values |-> <<>>]]
    /\ pc = "idle" /\ matchers = <<>> /\ k = 0
    /\ candidates = <<>> /\ values = {} /\ withLabel = <<>> /\ kept = <<>>
    /\ op = "union" /\ a = <<>> /\ b = <<>> /\ i = 1 /\ j = 1
    /\ write = 0 /\ result = <<>> /\ wanted = {}

This == matchers[k]
ThisPosting == posting[This.name][This.value]

-----------------------------------------------------------------------------
(* Mistakes this code could have made. *)

\* The posting list of the last label only.
MistakenEncode(labels) ==
    /\ pc = "idle" /\ labels \notin DOMAIN inverted
    /\ inverted' = [l \in DOMAIN inverted \cup {labels} |->
                      IF l = labels THEN nextId ELSE inverted[l]]
    /\ forward' = [id \in DOMAIN forward \cup {nextId} |->
                     IF id = nextId THEN labels ELSE forward[id]]
    /\ allIds' = Append(allIds, nextId)
    /\ posting' = [n \in Names |-> [v \in Values |->
                     IF n \in DOMAIN labels /\ labels[n] = v
                       THEN <<nextId>> ELSE posting[n][v]]]
    /\ nextId' = nextId + 1
    /\ UNCHANGED <<pc, call, frame>>

\* A missing label differs from every value, the empty one too.
MistakenDropped ==
    /\ pc = "drop" /\ ~Looping
    /\ kept' = Returned
    /\ Call("difference", allIds, withLabel)
    /\ pc' = "without"
    /\ UNCHANGED <<index, matchers, k, candidates, values, withLabel>>

-----------------------------------------------------------------------------
\* Index::encode of a label set it has not met; one it has met is looked up.
Encode(labels) ==
    /\ pc = "idle" /\ labels \notin DOMAIN inverted
    /\ inverted' = [l \in DOMAIN inverted \cup {labels} |->
                      IF l = labels THEN nextId ELSE inverted[l]]
    /\ forward' = [id \in DOMAIN forward \cup {nextId} |->
                     IF id = nextId THEN labels ELSE forward[id]]
    /\ allIds' = Append(allIds, nextId)
    /\ posting' = [n \in Names |-> [v \in Values |->
                     IF n \in DOMAIN labels /\ labels[n] = v
                       THEN Append(posting[n][v], nextId) ELSE posting[n][v]]]
    /\ nextId' = nextId + 1
    /\ UNCHANGED <<pc, call, frame>>

-----------------------------------------------------------------------------
(* Index::resolve, and candidates for each of its matchers. *)

Resolve(ms) ==
    /\ pc = "idle"
    /\ matchers' = ms /\ k' = 1
    /\ IF ms = <<>> THEN pc' = "answered" /\ candidates' = allIds
                    ELSE pc' = "match" /\ UNCHANGED candidates
    /\ UNCHANGED <<index, values, withLabel, kept, frame>>

\* The loop of resolve goes on to the next matcher, if there is one.
GoOn ==
    /\ k' = k + 1
    /\ pc' = IF k = Len(matchers) THEN "answered" ELSE "match"

\* What this matcher selects is known: the first candidates, or a narrowing.
Found(ids) ==
    IF k = 1
      THEN /\ candidates' = ids /\ GoOn /\ UNCHANGED frame
      ELSE /\ Call("intersect", candidates, ids)
           /\ pc' = "narrow" /\ UNCHANGED <<candidates, k>>

Equal ==
    /\ pc = "match" /\ This.operator = "="
    /\ Found(ThisPosting)
    /\ UNCHANGED <<index, matchers, values, withLabel, kept>>

\* union_all begins: it takes the values of a hash map in any order.
NotEqual ==
    /\ pc = "match" /\ This.operator = "!="
    /\ values' = {v \in Values : posting[This.name][v] # <<>>}
    /\ withLabel' = <<>>
    /\ pc' = "fold"
    /\ UNCHANGED <<index, matchers, k, candidates, kept, frame>>

Fold ==
    /\ pc = "fold"
    /\ \E v \in values :
         /\ Call("union", withLabel, posting[This.name][v])
         /\ values' = values \ {v}
    /\ pc' = "with"
    /\ UNCHANGED <<index, matchers, k, candidates, withLabel, kept>>

Folded ==
    /\ pc = "with" /\ ~Looping
    /\ withLabel' = Returned
    /\ pc' = "fold"
    /\ UNCHANGED <<index, matchers, k, candidates, values, kept, frame>>

UnionAll ==
    /\ pc = "fold" /\ values = {}
    /\ Call("difference", withLabel, ThisPosting)
    /\ pc' = "drop"
    /\ UNCHANGED <<index, matchers, k, candidates, values, withLabel, kept>>

\* A missing label counts as the empty value, so it differs from any other.
Dropped ==
    /\ pc = "drop" /\ ~Looping
    /\ IF This.value = Empty
         THEN Found(Returned) /\ UNCHANGED kept
         ELSE /\ kept' = Returned
              /\ Call("difference", allIds, withLabel)
              /\ pc' = "without" /\ UNCHANGED <<candidates, k>>
    /\ UNCHANGED <<index, matchers, values, withLabel>>

Without ==
    /\ pc = "without" /\ ~Looping
    /\ Call("union", kept, Returned)
    /\ pc' = "join"
    /\ UNCHANGED <<index, call>>

Joined ==
    /\ pc = "join" /\ ~Looping
    /\ Found(Returned)
    /\ UNCHANGED <<index, matchers, values, withLabel, kept>>

\* No candidate is left: the rest of the matchers are not looked at.
Narrowed ==
    /\ pc = "narrow" /\ ~Looping
    /\ candidates' = Returned
    /\ IF Returned = <<>> THEN pc' = "answered" /\ UNCHANGED k ELSE GoOn
    /\ UNCHANGED <<index, matchers, values, withLabel, kept, frame>>

Loop ==
    /\ pc \in {"with", "drop", "without", "join", "narrow"}
    /\ Turn
    /\ UNCHANGED <<index, pc, call>>

\* The caller has the answer.
Return ==
    /\ pc = "answered"
    /\ pc' = "idle" /\ matchers' = <<>> /\ k' = 0
    /\ candidates' = <<>> /\ values' = {} /\ withLabel' = <<>> /\ kept' = <<>>
    /\ op' = "union" /\ a' = <<>> /\ b' = <<>> /\ i' = 1 /\ j' = 1
    /\ write' = 0 /\ result' = <<>> /\ wanted' = {}
    /\ UNCHANGED index

Step ==
    \/ Equal \/ NotEqual \/ Fold \/ Folded \/ UnionAll
    \/ Dropped \/ Without \/ Joined \/ Narrowed \/ Loop

Next ==
    \/ \E l \in LabelSets : Encode(l)
    \/ \E ms \in MatcherLists : Resolve(ms)
    \/ Step
    \/ Return

\* A resolve that has begun goes on.
Spec == Init /\ [][Next]_vars
FairSpec == Spec /\ WF_vars(Step)

-----------------------------------------------------------------------------
(* Properties *)

\* What a matcher means for a label set.
Matches(l, m) ==
    IF m.operator = "="
      THEN m.name \in DOMAIN l /\ l[m.name] = m.value
      ELSE IF m.name \in DOMAIN l THEN l[m.name] # m.value ELSE m.value # Empty

\* The ids that hold under every one of the first n matchers.
Selected(n) ==
    {id \in DOMAIN forward : \A x \in 1 .. n : Matches(forward[id], matchers[x])}

WithValue(n, v) ==
    {id \in DOMAIN forward : n \in DOMAIN forward[id] /\ forward[id][n] = v}

\* Index: every posting list, and all_ids, is ascending and holds exactly the
\* series it should, each once; both maps agree on the ids.
IndexExact ==
    /\ \A n \in Names, v \in Values :
         Ascending(posting[n][v]) /\ Range(posting[n][v]) = WithValue(n, v)
    /\ Ascending(allIds) /\ Range(allIds) = DOMAIN forward
    /\ DOMAIN inverted = Range(forward)
    /\ \A l \in DOMAIN inverted :
         inverted[l] \in DOMAIN forward /\ forward[inverted[l]] = l

\* index.rs: each loop returns what its name says, ascending, although one
\* of them overwrites the list it reads.
MergeExact ==
    pc \in {"with", "drop", "without", "join", "narrow"} /\ ~Looping
        => Ascending(Returned) /\ Range(Returned) = wanted

\* Index::resolve answers with the series that match every matcher, ascending
\* and each once, for any list of matchers, and for any order in which the
\* hash map of values is visited.
ResolveExact ==
    pc = "answered"
        => Ascending(candidates) /\ Range(candidates) = Selected(Len(matchers))

\* Every resolve ends: each turn of each loop gets somewhere.
ResolveEnds == pc # "idle" ~> pc = "answered"

================================================================================
