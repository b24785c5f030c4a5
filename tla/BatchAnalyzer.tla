------------------------------ MODULE BatchAnalyzer ------------------------------
(***************************************************************************)
(* app/analysis/batch.py: one batch of screenshots on its way to memos.    *)
(* The items are masked, grouped by similarity, and every group is         *)
(* analysed once; a restaurant answer is split into one memo per place or  *)
(* comparison topic, and when its source references do not add up every    *)
(* screenshot of the group is analysed again on its own.  The analysis     *)
(* service is an adversary that returns any answer of AnalysisResponse or  *)
(* lets an exception escape.                                               *)
(*                                                                         *)
(* An item is its position in the request.  Item i carries soft[i] pieces  *)
(* of soft PII; a piece is <<owner, nth>> in the record below, the         *)
(* placeholder that hides it is a pair <<namespace, nth>>.                 *)
(***************************************************************************)
EXTENDS AnalysisResponse, FiniteSets

CONSTANTS
    MaxItems,        \* bound: items of a batch (the code has none)
    MaxSoft,         \* bound: soft PII found in one text
    Unrestored       \* a placeholder the client gets, whole or in pieces

ASSUME ItemsAssumption == MaxItems \in Nat /\ MaxSoft \in Nat
ASSUME UnrestoredAssumption == Unrestored \notin [owner : Nat, nth : Nat]

VARIABLES
    n,          \* len(items)
    soft,       \* how many pieces of soft PII each text holds
    pc,         \* where analyze_batch stands
    mapping,    \* mask_results[i].mapping: placeholder -> original
    root,       \* the smallest item of each item's group (groups_idx)
    todo,       \* groups not analysed yet, each named by its smallest item
    cur,        \* the group whose answer was rejected
    pending,    \* its items that still await their own analysis
    result,     \* the memos built so far
    analysed    \* history: how often the text of an item went to the service

vars == <<n, soft, pc, mapping, root, todo, cur, pending, result, analysed>>

Items == 0 .. n - 1
Leaders == {i \in Items : root[i] = i}
Group(l) == {i \in Items : root[i] = l}

(* groups_idx is ordered by smallest member: the loops take the minimum. *)
IsFirst(x, S) == x \in S /\ \A y \in S : x <= y
-----------------------------------------------------------------------------
(* Masking and restoring. *)

(* Seeded fault: every item numbers its placeholders alike. *)
NoNamespace(i) == 0

(* The prefix that keeps the placeholders of two items apart. *)
Namespace(i) == i
Token(i, k) == <<Namespace(i), k>>
Soft(i, k) == [owner |-> i, nth |-> k]

MaskMapping(i) ==
    [t \in {Token(i, k) : k \in 1 .. soft[i]} |-> Soft(i, t[2])]

SoftOf(S) == UNION {{Soft(i, k) : k \in 1 .. soft[i]} : i \in S}

(* dict.update over the members in ascending order: the last one wins. *)
MergedMapping(S) ==
    [t \in UNION {DOMAIN mapping[i] : i \in S} |->
        LET owners == {i \in S : t \in DOMAIN mapping[i]}
        IN  mapping[CHOOSE i \in owners : \A j \in owners : j <= i][t]]

(* What restore_text makes of the placeholder of p where it stands whole. *)
Reading(p, map) ==
    LET t == Token(p.owner, p.nth)
    IN  IF t \in DOMAIN map THEN map[t] ELSE Unrestored

(* The title is shortened before it is restored, to 40 characters, and the
   cut may go through a placeholder.  The title of a comparison by topic is the
   topic key in lower case, in which no placeholder is found again.          *)
TitleReadings(kind, p, map) ==
    IF kind = "topic" THEN {Unrestored} ELSE {Reading(p, map), Unrestored}

(* A memo about the sources in seen.  The LLM may write any placeholder it saw
   in any memo; text and title say what the client reads in its place, title
   by all the possibilities (text: summary, action, details; title: also the
   summary of the keyword fallback, which is cut like a title).  Ids made of
   names (serverMemoId, group.id) are never restored and not part of a memo.  *)
Memo(kind, members, seen, map) ==
    [kind |-> kind, members |-> members, seen |-> seen,
     text  |-> [p \in SoftOf(seen) |-> Reading(p, map)],
     title |-> [p \in SoftOf(seen) |-> TitleReadings(kind, p, map)]]
-----------------------------------------------------------------------------
(* Splitting a restaurant answer over the sources of a group. *)

(* S<k> names the k-th member of the group in ascending order. *)
Position(g, i) == Cardinality({j \in g : j < i})

(* Seeded fault: S<k> is taken for an item of the whole batch. *)
MembersOfBatch(g, refs) == {i \in Items : i \in refs}

MembersOf(g, refs) == {i \in g : Position(g, i) \in refs}

ValidRefs(g) == 0 .. Cardinality(g) - 1
CoveredRefs(a) == UNION {a.details[j].sourceRefs : j \in DOMAIN a.details}

EntriesValid(a, g) ==
    \A j \in DOMAIN a.details :
        /\ a.details[j].sourceRefs # {}
        /\ a.details[j].sourceRefs \subseteq ValidRefs(g)

(* Seeded fault: sources the answer leaves over are not noticed. *)
SplitsUncovered(a, g) ==
    /\ a.category = "restaurant"
    /\ a.details # NoDetails
    /\ DOMAIN a.details # {}
    /\ EntriesValid(a, g)

(* The answer is accepted: there are places, every reference is valid, and
   no source of the group is left over.                                     *)
Splits(a, g) ==
    /\ a.category = "restaurant"
    /\ a.details # NoDetails
    /\ DOMAIN a.details # {}
    /\ EntriesValid(a, g)
    /\ CoveredRefs(a) = ValidRefs(g)

BucketKey(e) ==
    IF e.topicKey # NoTopic THEN <<"topic", e.topicKey>> ELSE <<"sources", e.sourceRefs>>

Bucket(a, key) == {j \in DOMAIN a.details : BucketKey(a.details[j]) = key}

(* A place of its own, or a comparison by topic or by common sources. *)
SplitKind(bucket, key) == IF Cardinality(bucket) = 1 THEN "place" ELSE key[1]

(* One memo per bucket. *)
SplitMemos(a, g, map) ==
    {LET bucket == Bucket(a, key)
         refs   == UNION {a.details[j].sourceRefs : j \in bucket}
     IN  Memo(SplitKind(bucket, key), MembersOf(g, refs), g, map)
        : key \in {BucketKey(a.details[j]) : j \in DOMAIN a.details}}

(* The kind of a memo that carries an answer unsplit: "raw" when its details
   still hold a list of restaurants, else "whole".                          *)
UnsplitKind(a) ==
    IF a.category = "restaurant" /\ a.details \notin {NoDetails, <<>>} THEN "raw" ELSE "whole"
-----------------------------------------------------------------------------
Init ==
    /\ n \in 0 .. MaxItems
    /\ soft \in [0 .. n - 1 -> 0 .. MaxSoft]
    /\ pc = "start"
    /\ mapping = [i \in 0 .. n - 1 |-> <<>>]
    /\ root = [i \in 0 .. n - 1 |-> i]
    /\ todo = {} /\ cur = 0 /\ pending = {}
    /\ result = {}
    /\ analysed = [i \in 0 .. n - 1 |-> 0]

(* if not items: return [] *)
EmptyBatch ==
    /\ pc = "start" /\ n = 0
    /\ pc' = "done"
    /\ UNCHANGED <<n, soft, mapping, root, todo, cur, pending, result, analysed>>

Mask ==
    /\ pc = "start" /\ n > 0
    /\ mapping' = [i \in Items |-> MaskMapping(i)]
    /\ pc' = "group"
    /\ UNCHANGED <<n, soft, root, todo, cur, pending, result, analysed>>

(* Partitions of the items, each class named by its smallest member: what
   group_indices returns for some embeddings and capture times.             *)
Partitions == {r \in [Items -> Items] : \A i \in Items : r[i] <= i /\ r[r[i]] = r[i]}
Singletons == [i \in Items |-> i]

(* Seeded fault: every item leads a group. *)
GroupAsItems(r) ==
    /\ pc = "group"
    /\ root' = r
    /\ todo' = Items
    /\ pc' = "analyze"
    /\ UNCHANGED <<n, soft, mapping, cur, pending, result, analysed>>

GroupAs(r) ==
    /\ pc = "group"
    /\ root' = r
    /\ todo' = {i \in Items : r[i] = i}
    /\ pc' = "analyze"
    /\ UNCHANGED <<n, soft, mapping, cur, pending, result, analysed>>

(* No embedding client, an EmbeddingError, or another number of vectors than
   texts: every item is a group of its own.                                 *)
GroupSeparately == GroupAs(Singletons)

GroupBySimilarity == \E r \in Partitions : GroupAs(r)

CountAnalysis(S) == [i \in Items |-> IF i \in S THEN analysed[i] + 1 ELSE analysed[i]]

(* One pass of the loop over groups_idx that ends the group: one memo for a
   plain answer, the split memos for an accepted restaurant answer.         *)
AnalyzeGroup(l) ==
    /\ pc = "analyze" /\ IsFirst(l, todo)
    /\ LET g == Group(l) IN
       \E a \in AnalyzeResponse(Cardinality(g)) :
          /\ a.category = "restaurant" => Splits(a, g)
          /\ result' = result \cup
                (IF a.category = "restaurant"
                 THEN SplitMemos(a, g, MergedMapping(g))
                 ELSE {Memo(UnsplitKind(a), g, g, MergedMapping(g))})
          /\ analysed' = CountAnalysis(g)
    /\ todo' = todo \ {l}
    /\ UNCHANGED <<n, soft, pc, mapping, root, cur, pending>>

(* Seeded fault: the rejected answer leaves a memo of the group. *)
RejectGroupKeepingMemo(l) ==
    /\ pc = "analyze" /\ IsFirst(l, todo)
    /\ LET g == Group(l) IN
       /\ \E a \in AnalyzeResponse(Cardinality(g)) :
             /\ a.category = "restaurant" /\ ~ Splits(a, g)
             /\ result' = result \cup {Memo(UnsplitKind(a), g, g, MergedMapping(g))}
       /\ analysed' = CountAnalysis(g)
       /\ pending' = g
    /\ cur' = l
    /\ pc' = "individual"
    /\ UNCHANGED <<n, soft, mapping, root, todo>>

(* A restaurant answer that cannot be split: its sources are re-analysed. *)
RejectGroup(l) ==
    /\ pc = "analyze" /\ IsFirst(l, todo)
    /\ LET g == Group(l) IN
       /\ \E a \in AnalyzeResponse(Cardinality(g)) :
             a.category = "restaurant" /\ ~ Splits(a, g)
       /\ analysed' = CountAnalysis(g)
       /\ pending' = g
    /\ cur' = l
    /\ pc' = "individual"
    /\ UNCHANGED <<n, soft, mapping, root, todo, result>>

(* Seeded fault: the loop over the single sources does not come back. *)
AnalyzeSourceOnly(i) ==
    /\ pc = "individual" /\ IsFirst(i, pending)
    /\ \E a \in AnalyzeResponse(1) :
          result' = result \cup {Memo(UnsplitKind(a), {i}, {i}, mapping[i])}
    /\ analysed' = CountAnalysis({i})
    /\ pending' = pending \ {i}
    /\ UNCHANGED <<n, soft, pc, mapping, root, todo, cur>>

(* One pass of _analyze_restaurant_sources_individually.  The memos join the
   result when the loop over the group ends; nothing reads it in between.   *)
AnalyzeSource(i) ==
    /\ pc = "individual" /\ IsFirst(i, pending)
    /\ \E a \in AnalyzeResponse(1) :
          result' = result \cup
             (IF Splits(a, {i})
              THEN SplitMemos(a, {i}, mapping[i])
              ELSE {Memo(UnsplitKind(a), {i}, {i}, mapping[i])})
    /\ analysed' = CountAnalysis({i})
    /\ pending' = pending \ {i}
    /\ IF pending' = {}
       THEN pc' = "analyze" /\ todo' = todo \ {cur}
       ELSE UNCHANGED <<pc, todo>>
    /\ UNCHANGED <<n, soft, mapping, root, cur>>

(* A call raises what analyze_batch does not handle: the embedding client or
   group_indices (all but EmbeddingError), or the analysis service.  The memos
   built so far are dropped with the frame.                                 *)
CallRaises ==
    /\ \/ pc = "group"
       \/ pc = "analyze" /\ todo # {}
       \/ pc = "individual"
    /\ pc' = "failed"
    /\ result' = {}
    /\ UNCHANGED <<n, soft, mapping, root, todo, cur, pending, analysed>>

Return ==
    /\ pc = "analyze" /\ todo = {}
    /\ pc' = "done"
    /\ UNCHANGED <<n, soft, mapping, root, todo, cur, pending, result, analysed>>

Finished == pc \in {"done", "failed"} /\ UNCHANGED vars

(* The steps of analyze_batch itself; whether a call raises is not up to it. *)
Proceed ==
    \/ EmptyBatch
    \/ Mask
    \/ GroupSeparately
    \/ GroupBySimilarity
    \/ \E l \in todo : AnalyzeGroup(l) \/ RejectGroup(l)
    \/ \E i \in pending : AnalyzeSource(i)
    \/ Return

Next == Proceed \/ CallRaises \/ Finished

Spec == Init /\ [][Next]_vars

(* The batch runs in a thread of its own and every call it makes ends (LLM,
   embedding and Kakao calls have timeouts, retries are counted), so a batch
   that can proceed eventually does.                                        *)
FairSpec == Spec /\ WF_vars(Proceed)
-----------------------------------------------------------------------------

MemoKinds == {"whole", "raw", "place", "topic", "sources"}
Readings == [owner : Nat, nth : Nat] \cup {Unrestored}

IsMemo(m) ==
    m \in [kind : MemoKinds, members : SUBSET Items, seen : SUBSET Items,
           text : [SoftOf(m.seen) -> Readings], title : [SoftOf(m.seen) -> SUBSET Readings]]

(* Every variable has its type; only leaders of groups are left to do. *)
TypeOK ==
    /\ n \in 0 .. MaxItems
    /\ soft \in [Items -> 0 .. MaxSoft]
    /\ pc \in {"start", "group", "analyze", "individual", "done", "failed"}
    /\ root \in [Items -> Items]
    /\ todo \subseteq Leaders
    /\ cur \in Nat
    /\ pending \subseteq Items
    /\ \A m \in result : IsMemo(m)
    /\ analysed \in [Items -> Nat]

(* The items some memo of the result lists. *)
Listed == UNION {m.members : m \in result}

(* Every screenshot that was sent in is listed by a memo of the response:
   neither the split of a restaurant answer nor the fall-back to single
   analyses loses one (the covered_refs check of _split_restaurant_analysis). *)
EveryItemListed == pc = "done" => Listed = Items

(* A memo names at least one screenshot, and only screenshots whose text the
   LLM was shown when it wrote the memo: S<k> is resolved inside the group.  *)
MembersWereSeen ==
    \A m \in result : m.members # {} /\ m.members \subseteq m.seen

(* Placeholders of different items are never confused, although a group is
   restored from one merged mapping: what the LLM wrote in a summary, an action
   or the details reads as the very PII it stood for, and a title, where a
   placeholder may be left over, never reads as PII it did not stand for.    *)
RestoredToItsOwner ==
    \A m \in result : \A p \in SoftOf(m.seen) :
        m.text[p] = p /\ m.title[p] \subseteq {p, Unrestored}

(* Two memos list the same screenshot only when one answer named it twice: a
   group whose answer was rejected leaves no memo beside the single ones.    *)
OverlapWithinAnswer ==
    \A m1, m2 \in result : m1.members \cap m2.members # {} => m1.seen = m2.seen

(* No text goes to the service a third time, and the second analysis replaces
   the first: a screenshot analysed twice is only in memos of its own text.   *)
ReanalysisReplaces ==
    \A i \in Items :
        /\ analysed[i] <= 2
        /\ analysed[i] = 2 => \A m \in result : i \in m.members => m.seen = {i}

Outcome == IF pc \in {"done", "failed"} THEN pc ELSE "open"

Promise == INSTANCE BatchPromise WITH
    items <- Items, settled <- Listed, outcome <- Outcome

(* The batch keeps the promise the analyze endpoint relies on: screenshots are
   settled a few at a time, none twice, and the batch delivers all or fails.  *)
KeepsPromise == Promise!FairSpec
-----------------------------------------------------------------------------
(* The inductive invariant behind the safety properties. *)

(* A memo written from the texts of S: it lists some of S and nothing else,
   and the soft PII of S reads as itself or, in a title, not at all.         *)
WrittenFrom(m, S) ==
    /\ m.seen = S
    /\ m.members # {} /\ m.members \subseteq S
    /\ \A p \in SoftOf(S) : m.text[p] = p /\ m.title[p] \subseteq {p, Unrestored}

(* The loops are through with item i. *)
Visited(i) ==
    \/ root[i] \notin todo
    \/ pc = "individual" /\ root[i] = cur /\ i \notin pending

Started == pc \in {"analyze", "individual", "done"}

GroupsPartition == \A i \in Items : root[root[i]] = root[i]

Masked == pc \in {"group", "analyze", "individual"} => \A i \in Items : mapping[i] = MaskMapping(i)

NothingYet ==
    pc \in {"start", "group"} => result = {} /\ \A i \in Items : analysed[i] = 0

LoopPosition ==
    /\ pc = "group" => Items # {}
    /\ pc = "individual" => cur \in todo /\ pending # {} /\ pending \subseteq Group(cur)
    /\ pc = "done" => todo = {}

(* An item is listed exactly when the loops are through with it; before that
   its text was analysed at most once, and only if its group was rejected.   *)
VisitedIsListed == Started => \A i \in Items : Visited(i) <=> i \in Listed

AnalysesSoFar ==
    Started => \A i \in Items :
        IF Visited(i) THEN analysed[i] \in {1, 2}
        ELSE analysed[i] = IF pc = "individual" /\ root[i] = cur THEN 1 ELSE 0

(* The inductive invariant: what is true of the memos, of the position of the
   two loops, and of the items the loops have and have not been through.      *)
BatchInv ==
    /\ TypeOK
    /\ GroupsPartition
    /\ Masked
    /\ NothingYet
    /\ LoopPosition
    /\ \A m \in result : WrittenFrom(m, m.seen)
    /\ VisitedIsListed
    /\ AnalysesSoFar
    /\ OverlapWithinAnswer
    /\ ReanalysisReplaces
=============================================================================
