--------------------------- MODULE BatchAnalyzer_proofs ---------------------------
(***************************************************************************)
(* Proofs about BatchAnalyzer, for batches of any size, any number of      *)
(* comparison topics and any grouping.  The invariant is BatchInv; it is   *)
(* inductive, and the safety properties are its conjuncts or follow from   *)
(* them.                                                                   *)
(***************************************************************************)
EXTENDS BatchAnalyzer, FiniteSetTheorems, TLAPS

-----------------------------------------------------------------------------
(* Source references: S<k> names the k-th member of a group. *)

(* The position of a member is a valid reference of its group. *)
LEMMA PositionIsValid ==
    ASSUME NEW g \in SUBSET Nat, IsFiniteSet(g), NEW i \in g
    PROVE  Position(g, i) \in ValidRefs(g)
<1> DEFINE below == {j \in g : j < i}
<1>1. /\ IsFiniteSet(below)
      /\ Cardinality(below) <= Cardinality(g)
      /\ Cardinality(g) = Cardinality(below) => g = below
  BY FS_Subset
<1>2. i \notin below
  OBVIOUS
<1>3. Cardinality(below) \in Nat /\ Cardinality(g) \in Nat
  BY <1>1, FS_CardinalityType
<1> QED
  BY <1>1, <1>2, <1>3 DEF Position, ValidRefs

(* A smaller member has a smaller position. *)
LEMMA PositionIsMonotone ==
    ASSUME NEW g \in SUBSET Nat, IsFiniteSet(g), NEW i \in g, NEW k \in g, i < k
    PROVE  Position(g, i) < Position(g, k)
<1> DEFINE A == {j \in g : j < i}
           B == {j \in g : j < k}
<1>1. A \in SUBSET B /\ i \in B /\ i \notin A
  <2>1. \A j \in g : j \in Nat
    OBVIOUS
  <2>2. \A j \in g : j < i => j < k
    BY <2>1
  <2>3. A \subseteq B
    BY <2>2
  <2>4. i \in B
    OBVIOUS
  <2>5. ~ (i < i)
    BY <2>1
  <2>6. i \notin A
    BY <2>5
  <2> QED
    BY <2>3, <2>4, <2>6
<1>2. IsFiniteSet(B)
  BY FS_Subset
<1>3. /\ Cardinality(A) <= Cardinality(B)
      /\ Cardinality(B) = Cardinality(A) => B = A
      /\ IsFiniteSet(A)
  BY <1>1, <1>2, FS_Subset
<1>4. Cardinality(A) \in Nat /\ Cardinality(B) \in Nat
  BY <1>2, <1>3, FS_CardinalityType
<1> QED
  BY <1>1, <1>3, <1>4 DEF Position

(* Every valid reference of a group is the position of one of its members. *)
LEMMA PositionIsOnto ==
    ASSUME NEW g \in SUBSET Nat, IsFiniteSet(g), NEW r \in ValidRefs(g)
    PROVE  \E i \in g : Position(g, i) = r
<1> DEFINE f == [i \in g |-> Position(g, i)]
<1>1. f \in [g -> ValidRefs(g)]
  BY PositionIsValid
<1>2. \A i, k \in g : f[i] = f[k] => i = k
  <2> SUFFICES ASSUME NEW i \in g, NEW k \in g, f[i] = f[k], i # k PROVE FALSE
    OBVIOUS
  <2>1. f[i] \in Nat /\ f[k] \in Nat
    BY <1>1 DEF ValidRefs
  <2>2. CASE i < k
    BY <2>1, <2>2, PositionIsMonotone
  <2>3. CASE k < i
    BY <2>1, <2>3, PositionIsMonotone
  <2> QED
    BY <2>2, <2>3
<1>3. f \in Injection(g, ValidRefs(g))
  BY <1>1, <1>2 DEF Injection, IsInjective
<1>4. Cardinality(g) \in Nat
  BY FS_CardinalityType
<1>5. IsFiniteSet(ValidRefs(g)) /\ Cardinality(ValidRefs(g)) = Cardinality(g)
  BY <1>4, FS_Interval DEF ValidRefs
<1>6. f \in Surjection(g, ValidRefs(g))
  BY <1>3, <1>5, FS_Injection
<1> QED
  BY <1>6 DEF Surjection
-----------------------------------------------------------------------------
(* Restoring. *)

(* The placeholders in the texts of S, and a mapping that restores them all. *)
Placeholders(S) == UNION {DOMAIN mapping[i] : i \in S}

Restores(map, S) ==
    /\ DOMAIN map = Placeholders(S)
    /\ \A i \in S : \A k \in 1 .. soft[i] : map[<<i, k>>] = Soft(i, k)

AllMasked == \A i \in Items : mapping[i] = MaskMapping(i)

(* The placeholders of item i carry i in their name. *)
LEMMA MaskedItem ==
    ASSUME AllMasked, NEW i \in Items
    PROVE  /\ DOMAIN mapping[i] = {<<i, k>> : k \in 1 .. soft[i]}
           /\ \A k \in 1 .. soft[i] : mapping[i][<<i, k>>] = Soft(i, k)
  BY DEF AllMasked, MaskMapping, Token, Namespace

(* The mapping of one item restores its own text. *)
LEMMA OwnMappingRestores ==
    ASSUME AllMasked, NEW i \in Items
    PROVE  Restores(mapping[i], {i})
  BY MaskedItem DEF Restores, Placeholders

(* The merged mapping restores the text of every member of the group: no
   placeholder has two owners, so no update overwrites another.             *)
LEMMA MergedMappingRestores ==
    ASSUME AllMasked, NEW S \in SUBSET Items
    PROVE  Restores(MergedMapping(S), S)
<1>1. DOMAIN MergedMapping(S) = Placeholders(S)
  BY DEF MergedMapping, Placeholders
<1>2. ASSUME NEW i \in S, NEW k \in 1 .. soft[i]
      PROVE  MergedMapping(S)[<<i, k>>] = Soft(i, k)
  <2> DEFINE t == <<i, k>>
             owners == {j \in S : t \in DOMAIN mapping[j]}
  <2>1. t \in DOMAIN mapping[i]
    BY MaskedItem
  <2>2. owners = {i}
    <3>1. i \in owners
      BY <2>1
    <3>2. ASSUME NEW j \in S, t \in DOMAIN mapping[j] PROVE j = i
      BY <3>2, MaskedItem
    <3> QED
      BY <3>1, <3>2
  <2>3. (CHOOSE x \in owners : \A j \in owners : j <= x) = i
    <3>1. i \in Int
      BY DEF Items
    <3> HIDE DEF owners
    <3> QED
      BY <2>2, <3>1
  <2>4. t \in Placeholders(S)
    BY <2>1 DEF Placeholders
  <2>5. MergedMapping(S)[t] = mapping[i][t]
    BY <2>3, <2>4 DEF MergedMapping, Placeholders
  <2> QED
    BY <2>5, MaskedItem
<1> QED
  BY <1>1, <1>2 DEF Restores

(* With such a mapping a placeholder of S reads as the PII it stands for, or,
   in a title, it is not restored.                                           *)
LEMMA ReadingIsOwn ==
    ASSUME AllMasked, NEW S \in SUBSET Items, NEW map, Restores(map, S), NEW p \in SoftOf(S)
    PROVE  /\ Reading(p, map) = p
           /\ p \in Readings
           /\ \A kind : TitleReadings(kind, p, map) \subseteq {p, Unrestored}
<1>1. PICK i \in S : \E k \in 1 .. soft[i] : p = Soft(i, k)
  BY DEF SoftOf
<1>2. PICK k \in 1 .. soft[i] : p = Soft(i, k)
  BY <1>1
<1>3. Token(p.owner, p.nth) = <<i, k>>
  BY <1>2 DEF Soft, Token, Namespace
<1>4. <<i, k>> \in DOMAIN map
  BY MaskedItem DEF Restores, Placeholders
<1>5. Reading(p, map) = p
  BY <1>2, <1>3, <1>4 DEF Reading, Restores
<1>6. p \in Readings
  BY <1>2 DEF Readings, Soft, Items
<1> QED
  BY <1>5, <1>6 DEF TitleReadings

(* A memo about the sources S restored with such a mapping is of its type, and
   the soft PII of S reads as itself wherever it is restored.                *)
LEMMA MemoIsRestored ==
    ASSUME AllMasked, NEW S \in SUBSET Items, NEW map, Restores(map, S),
           NEW kind \in MemoKinds, NEW members \in SUBSET S, members # {}
    PROVE  /\ IsMemo(Memo(kind, members, S, map))
           /\ Memo(kind, members, S, map).members = members
           /\ WrittenFrom(Memo(kind, members, S, map), S)
<1> DEFINE m == Memo(kind, members, S, map)
           text == [p \in SoftOf(S) |-> Reading(p, map)]
           title == [p \in SoftOf(S) |-> TitleReadings(kind, p, map)]
<1>1. m = [kind |-> kind, members |-> members, seen |-> S, text |-> text, title |-> title]
  BY DEF Memo
<1>2. \A p \in SoftOf(S) : text[p] = p /\ text[p] \in Readings
  BY ReadingIsOwn
<1>3. \A p \in SoftOf(S) : title[p] \subseteq {p, Unrestored} /\ title[p] \in SUBSET Readings
  BY ReadingIsOwn DEF Readings
<1>4. text \in [SoftOf(S) -> Readings] /\ title \in [SoftOf(S) -> SUBSET Readings]
  BY <1>2, <1>3
<1> HIDE DEF text, title
<1>5. /\ m.kind = kind /\ m.members = members /\ m.seen = S
      /\ m.text = text /\ m.title = title
  BY <1>1
<1>6. IsMemo(m)
  BY <1>1, <1>4, <1>5 DEF IsMemo
<1>7. WrittenFrom(m, S)
  BY <1>2, <1>3, <1>5 DEF WrittenFrom
<1> QED
  BY <1>5, <1>6, <1>7
-----------------------------------------------------------------------------
(* Splitting. *)

(* The memos M are an account of the sources S: each is written from S, and
   together they list all of S.                                             *)
Accounts(M, S) ==
    /\ \A m \in M : IsMemo(m)
    /\ \A m \in M : WrittenFrom(m, S)
    /\ UNION {m.members : m \in M} = S

(* One unsplit memo accounts for its group. *)
LEMMA UnsplitAccounts ==
    ASSUME AllMasked, NEW S \in SUBSET Items, S # {}, NEW map, Restores(map, S),
           NEW kind \in MemoKinds
    PROVE  Accounts({Memo(kind, S, S, map)}, S)
  BY MemoIsRestored DEF Accounts

(* The memos of an accepted restaurant answer account for its group: every
   bucket names valid references, hence members, and the buckets together
   cover the references, hence all members.                                  *)
LEMMA SplitAccounts ==
    ASSUME AllMasked, NEW g \in SUBSET Items, Items \subseteq Nat, IsFiniteSet(g),
           NEW a, Splits(a, g), NEW map, Restores(map, g)
    PROVE  Accounts(SplitMemos(a, g, map), g)
<1> DEFINE D == DOMAIN a.details
           keys == {BucketKey(a.details[j]) : j \in D}
           refs(key) == UNION {a.details[j].sourceRefs : j \in Bucket(a, key)}
           kind(key) == SplitKind(Bucket(a, key), key)
           memo(key) == Memo(kind(key), MembersOf(g, refs(key)), g, map)
<1>1. SplitMemos(a, g, map) = {memo(key) : key \in keys}
  BY DEF SplitMemos
<1>2. \A j \in D : a.details[j].sourceRefs # {} /\ a.details[j].sourceRefs \subseteq ValidRefs(g)
  BY DEF Splits, EntriesValid
<1>3. ASSUME NEW key \in keys
      PROVE  /\ MembersOf(g, refs(key)) \subseteq g
             /\ MembersOf(g, refs(key)) # {}
  <2>1. PICK j \in D : key = BucketKey(a.details[j])
    OBVIOUS
  <2>2. j \in Bucket(a, key)
    BY <2>1 DEF Bucket
  <2>3. PICK r \in a.details[j].sourceRefs : r \in ValidRefs(g)
    BY <1>2
  <2>4. r \in refs(key)
    BY <2>2
  <2>5. g \in SUBSET Nat
    OBVIOUS
  <2>6. PICK i \in g : Position(g, i) = r
    BY <2>3, <2>5, PositionIsOnto
  <2> QED
    BY <2>4, <2>6 DEF MembersOf
<1>4. \A key \in keys : kind(key) \in MemoKinds
  <2>1. \A e : BucketKey(e)[1] \in {"topic", "sources"}
    BY DEF BucketKey
  <2> QED
    BY <2>1 DEF MemoKinds, SplitKind
<1>5. ASSUME NEW key \in keys
      PROVE  /\ IsMemo(memo(key))
             /\ memo(key).members = MembersOf(g, refs(key))
             /\ WrittenFrom(memo(key), g)
  <2> HIDE DEF refs, kind
  <2> QED
    BY <1>3, <1>4, MemoIsRestored
<1>6. ASSUME NEW i \in g
      PROVE  \E key \in keys : i \in MembersOf(g, refs(key))
  <2>1. g \in SUBSET Nat
    OBVIOUS
  <2>2. Position(g, i) \in ValidRefs(g)
    BY <2>1, PositionIsValid
  <2>3. PICK j \in D : Position(g, i) \in a.details[j].sourceRefs
    BY <2>2 DEF Splits, CoveredRefs
  <2>4. j \in Bucket(a, BucketKey(a.details[j]))
    BY DEF Bucket
  <2>5. Position(g, i) \in refs(BucketKey(a.details[j]))
    BY <2>3, <2>4
  <2> HIDE DEF refs
  <2> QED
    BY <2>5 DEF MembersOf
<1> HIDE DEF memo, keys, refs
<1>7. \A m \in SplitMemos(a, g, map) : IsMemo(m) /\ WrittenFrom(m, g)
  BY <1>1, <1>5
<1>8. UNION {m.members : m \in SplitMemos(a, g, map)} = g
  BY <1>1, <1>3, <1>5, <1>6
<1> QED
  BY <1>7, <1>8 DEF Accounts
-----------------------------------------------------------------------------
(* The passes of the two loops. *)

(* The items and every group are finite: TLAPS may count them. *)
LEMMA ItemsAreFinite ==
    ASSUME n \in Nat, NEW S \in SUBSET Items
    PROVE  Items \subseteq Nat /\ IsFiniteSet(S)
<1>1. Items \subseteq Nat
  BY DEF Items
<1>2. IsFiniteSet(Items)
  BY FS_Interval DEF Items
<1> QED
  BY <1>1, <1>2, FS_Subset

(* A pass over groups_idx adds memos that account for the group. *)
LEMMA GroupPass ==
    ASSUME BatchInv, NEW l \in todo, AnalyzeGroup(l)
    PROVE  \E M : result' = result \cup M /\ Accounts(M, Group(l))
<1> DEFINE g == Group(l)
<1>1. pc = "analyze" /\ n \in Nat /\ AllMasked /\ l \in Leaders
  BY ItemsAssumption DEF AnalyzeGroup, BatchInv, TypeOK, Masked, AllMasked
<1>2. g \in SUBSET Items /\ g # {}
  BY <1>1 DEF Group, Leaders
<1>3. Items \subseteq Nat /\ IsFiniteSet(g)
  BY <1>1, <1>2, ItemsAreFinite
<1>4. Restores(MergedMapping(g), g)
  BY <1>1, <1>2, MergedMappingRestores
<1>5. PICK a \in AnalyzeResponse(Cardinality(g)) :
         /\ a.category = "restaurant" => Splits(a, g)
         /\ result' = result \cup
               (IF a.category = "restaurant"
                THEN SplitMemos(a, g, MergedMapping(g))
                ELSE {Memo(UnsplitKind(a), g, g, MergedMapping(g))})
  BY DEF AnalyzeGroup
<1>6. CASE a.category = "restaurant"
  BY <1>1, <1>2, <1>3, <1>4, <1>5, <1>6, SplitAccounts
<1>7. CASE a.category # "restaurant"
  <2>1. UnsplitKind(a) \in MemoKinds
    BY DEF UnsplitKind, MemoKinds
  <2> QED
    BY <1>1, <1>2, <1>4, <1>5, <1>7, <2>1, UnsplitAccounts
<1> QED
  BY <1>6, <1>7

(* A pass over a rejected group adds memos that account for the one item. *)
LEMMA SourcePass ==
    ASSUME BatchInv, NEW i \in pending, AnalyzeSource(i)
    PROVE  \E M : result' = result \cup M /\ Accounts(M, {i})
<1>1. pc = "individual" /\ n \in Nat /\ AllMasked /\ i \in Items
  BY ItemsAssumption DEF AnalyzeSource, BatchInv, TypeOK, Masked, AllMasked
<1>2. {i} \in SUBSET Items /\ {i} # {}
  BY <1>1
<1>3. Items \subseteq Nat /\ IsFiniteSet({i})
  BY <1>1, <1>2, ItemsAreFinite
<1>4. Restores(mapping[i], {i})
  BY <1>1, OwnMappingRestores
<1>5. PICK a \in AnalyzeResponse(1) :
         result' = result \cup
            (IF Splits(a, {i})
             THEN SplitMemos(a, {i}, mapping[i])
             ELSE {Memo(UnsplitKind(a), {i}, {i}, mapping[i])})
  BY DEF AnalyzeSource
<1>6. CASE Splits(a, {i})
  BY <1>1, <1>2, <1>3, <1>4, <1>5, <1>6, SplitAccounts
<1>7. CASE ~ Splits(a, {i})
  <2>1. UnsplitKind(a) \in MemoKinds
    BY DEF UnsplitKind, MemoKinds
  <2> QED
    BY <1>1, <1>2, <1>4, <1>5, <1>7, <2>1, UnsplitAccounts
<1> QED
  BY <1>6, <1>7
-----------------------------------------------------------------------------
(* The invariant. *)

(* The invariant holds before the batch starts. *)
LEMMA InitEstablishesInv == Init => BatchInv
<1> SUFFICES ASSUME Init PROVE BatchInv
  OBVIOUS
<1>1. TypeOK
  BY ItemsAssumption DEF Init, TypeOK, Items, Leaders
<1>2. GroupsPartition /\ Masked /\ NothingYet /\ LoopPosition
  BY DEF Init, GroupsPartition, Masked, NothingYet, LoopPosition, Items
<1>3. VisitedIsListed /\ AnalysesSoFar
  BY DEF Init, VisitedIsListed, AnalysesSoFar, Started
<1>4. OverlapWithinAnswer /\ ReanalysisReplaces
  BY DEF Init, OverlapWithinAnswer, ReanalysisReplaces, Items
<1>5. \A m \in result : WrittenFrom(m, m.seen)
  BY DEF Init
<1> QED
  BY <1>1, <1>2, <1>3, <1>4, <1>5 DEF BatchInv

(* A step that leaves the items and their PII alone leaves alone what a memo is. *)
LEMMA SameTexts ==
    ASSUME UNCHANGED <<n, soft>>
    PROVE  /\ Items' = Items
           /\ \A m : IsMemo(m)' = IsMemo(m)
           /\ \A m, S : WrittenFrom(m, S)' = WrittenFrom(m, S)
<1>1. Items' = Items
  BY DEF Items
<1>2. \A S : SoftOf(S)' = SoftOf(S)
  BY DEF SoftOf, Soft
<1>3. \A m : IsMemo(m)' = IsMemo(m)
  BY <1>1, <1>2 DEF IsMemo, Readings, MemoKinds
<1>4. \A m, S : WrittenFrom(m, S)' = WrittenFrom(m, S)
  BY <1>2 DEF WrittenFrom
<1> QED
  BY <1>1, <1>3, <1>4

(* What is left alone by a step that leaves the batch, its masking and its
   grouping alone.                                                          *)
LEMMA SameBatch ==
    ASSUME UNCHANGED <<n, soft, root>>
    PROVE  /\ Items' = Items /\ Leaders' = Leaders
           /\ \A m : IsMemo(m)' = IsMemo(m)
           /\ \A l : Group(l)' = Group(l)
           /\ \A m, S : WrittenFrom(m, S)' = WrittenFrom(m, S)
           /\ GroupsPartition => GroupsPartition'
  BY SameTexts DEF Leaders, Group, GroupsPartition

(* New memos about sources that no memo lists yet keep the memos consistent. *)
LEMMA NewMemos ==
    ASSUME UNCHANGED <<n, soft, root>>, \A m \in result : IsMemo(m),
           \A m \in result : WrittenFrom(m, m.seen), OverlapWithinAnswer,
           NEW M, NEW S, result' = result \cup M, Accounts(M, S), S \cap Listed = {}
    PROVE  /\ (\A m \in result : IsMemo(m))'
           /\ (\A m \in result : WrittenFrom(m, m.seen))'
           /\ OverlapWithinAnswer'
           /\ Listed' = Listed \cup S
           /\ \A m \in result' : \A i \in S : i \in m.members => m.seen = S
           /\ \A m \in result' : \A i \in Listed : i \in m.members => m \in result
<1>1. \A m \in M : IsMemo(m) /\ WrittenFrom(m, S) /\ m.seen = S /\ m.members \subseteq S
  BY DEF Accounts, WrittenFrom
<1>2. \A m \in result : m.members \subseteq Listed
  BY DEF Listed
<1>3. Listed' = Listed \cup S
  BY DEF Listed, Accounts
<1>4. OverlapWithinAnswer'
  <2> SUFFICES ASSUME NEW m1 \in result', NEW m2 \in result', m1.members \cap m2.members # {}
               PROVE  m1.seen = m2.seen
    BY DEF OverlapWithinAnswer
  <2>1. CASE m1 \in result /\ m2 \in result
    BY <2>1 DEF OverlapWithinAnswer
  <2>2. CASE m1 \in M /\ m2 \in M
    BY <1>1, <2>2
  <2> QED
    BY <1>1, <1>2, <2>1, <2>2
<1>5. (\A m \in result : WrittenFrom(m, m.seen))'
  BY <1>1, SameBatch
<1> QED
  BY <1>1, <1>2, <1>3, <1>4, <1>5, SameBatch

(* A pass over a group that accepts the answer keeps the invariant: its items
   become listed, each analysed once. *)
LEMMA AnalyzeGroupKeepsInv ==
    ASSUME BatchInv, NEW l \in todo, AnalyzeGroup(l)
    PROVE  BatchInv'
<1> DEFINE g == Group(l)
<1>0. /\ pc = "analyze" /\ pc' = "analyze" /\ todo' = todo \ {l}
      /\ analysed' = CountAnalysis(g)
      /\ UNCHANGED <<n, soft, mapping, root, cur, pending>>
      /\ UNCHANGED <<n, soft, root>>
  BY DEF AnalyzeGroup
<1>1. TypeOK /\ GroupsPartition /\ VisitedIsListed /\ AnalysesSoFar /\ OverlapWithinAnswer /\ ReanalysisReplaces
      /\ \A m \in result : WrittenFrom(m, m.seen)
  BY DEF BatchInv
<1>2. Items' = Items /\ Leaders' = Leaders
  BY <1>0, SameBatch
<1>3. \A i \in Items : /\ i \in Listed <=> root[i] \notin todo
                       /\ root[i] \notin todo => analysed[i] \in {1, 2}
                       /\ root[i] \in todo => analysed[i] = 0
  BY <1>0, <1>1 DEF VisitedIsListed, AnalysesSoFar, Started, Visited
<1>4. \A i \in Items : /\ i \in g <=> root[i] = l
                       /\ root[i] \notin todo' <=> (root[i] \notin todo \/ i \in g)
  BY <1>0 DEF Group
<1>5. g \subseteq Items /\ g \cap Listed = {}
  <2>1. \A i \in g : i \in Items /\ root[i] \in todo
    BY DEF Group
  <2> QED
    BY <1>3, <2>1
<1> HIDE DEF g
<1>6. PICK M : result' = result \cup M /\ Accounts(M, g)
  BY GroupPass DEF g
<1>7. /\ (\A m \in result : IsMemo(m))'
      /\ (\A m \in result : WrittenFrom(m, m.seen))'
      /\ OverlapWithinAnswer'
      /\ Listed' = Listed \cup g
      /\ \A m \in result' : \A i \in Listed : i \in m.members => m \in result
  BY <1>0, <1>1, <1>5, <1>6, NewMemos DEF TypeOK
<1>8. \A i \in Items : analysed'[i] = IF i \in g THEN analysed[i] + 1 ELSE analysed[i]
  BY <1>0 DEF CountAnalysis
<1>9. TypeOK'
  <2>1. analysed' \in [Items -> Nat]
    BY <1>0, <1>1 DEF CountAnalysis, TypeOK
  <2> QED
    BY <1>0, <1>1, <1>2, <1>7, <2>1 DEF TypeOK
<1>10. GroupsPartition' /\ Masked' /\ NothingYet' /\ LoopPosition'
  <2>1. Masked'
    BY <1>0, <1>2 DEF BatchInv, Masked, MaskMapping, Token, Namespace, Soft
  <2> QED
    BY <1>0, <1>1, <2>1, SameBatch DEF NothingYet, LoopPosition
<1>11. VisitedIsListed'
  BY <1>0, <1>2, <1>3, <1>4, <1>7 DEF VisitedIsListed, Visited
<1>12. AnalysesSoFar'
  BY <1>0, <1>2, <1>3, <1>4, <1>8 DEF AnalysesSoFar, Visited
<1>13. ReanalysisReplaces'
  <2> SUFFICES ASSUME NEW i \in Items
               PROVE  /\ analysed'[i] <= 2
                      /\ analysed'[i] = 2 => \A m \in result' : i \in m.members => m.seen = {i}
    BY <1>2 DEF ReanalysisReplaces
  <2>1. CASE i \in g
    BY <1>3, <1>4, <1>8, <2>1
  <2>2. CASE i \notin g
    BY <1>1, <1>3, <1>4, <1>7, <1>8, <2>2 DEF ReanalysisReplaces
  <2> QED
    BY <2>1, <2>2
<1> QED
  BY <1>7, <1>9, <1>10, <1>11, <1>12, <1>13 DEF BatchInv

(* A pass over one item of a rejected group keeps the invariant: the item becomes
   listed, analysed twice, in memos of its own text. *)
LEMMA AnalyzeSourceKeepsInv ==
    ASSUME BatchInv, NEW i \in pending, AnalyzeSource(i)
    PROVE  BatchInv'
<1>0. /\ pc = "individual" /\ pending' = pending \ {i}
      /\ analysed' = CountAnalysis({i})
      /\ UNCHANGED <<n, soft, mapping, root, cur>>
      /\ UNCHANGED <<n, soft, root>>
      /\ IF pending' = {} THEN pc' = "analyze" /\ todo' = todo \ {cur}
         ELSE pc' = pc /\ todo' = todo
  BY DEF AnalyzeSource
<1>1. TypeOK /\ GroupsPartition /\ VisitedIsListed /\ AnalysesSoFar /\ OverlapWithinAnswer /\ ReanalysisReplaces
      /\ \A m \in result : WrittenFrom(m, m.seen)
  BY DEF BatchInv
<1>2. Items' = Items /\ Leaders' = Leaders
  BY <1>0, SameBatch
<1>3. /\ cur \in todo /\ pending # {} /\ i \in Items
      /\ \A k \in pending : root[k] = cur
  BY <1>0 DEF BatchInv, LoopPosition, Group
<1>4. \A k \in Items :
         /\ k \in Listed <=> (root[k] \notin todo \/ (root[k] = cur /\ k \notin pending))
         /\ k \in Listed => analysed[k] \in {1, 2}
         /\ k \notin Listed => analysed[k] = IF root[k] = cur THEN 1 ELSE 0
  BY <1>0, <1>1 DEF VisitedIsListed, AnalysesSoFar, Started, Visited
<1>5. i \notin Listed /\ {i} \cap Listed = {} /\ analysed[i] = 1
  BY <1>3, <1>4
<1>6. PICK M : result' = result \cup M /\ Accounts(M, {i})
  BY SourcePass
<1>7. /\ (\A m \in result : IsMemo(m))'
      /\ (\A m \in result : WrittenFrom(m, m.seen))'
      /\ OverlapWithinAnswer'
      /\ Listed' = Listed \cup {i}
      /\ \A m \in result' : i \in m.members => m.seen = {i}
      /\ \A m \in result' : \A k \in Listed : k \in m.members => m \in result
  BY <1>0, <1>1, <1>5, <1>6, NewMemos DEF TypeOK
<1>8. \A k \in Items : analysed'[k] = IF k = i THEN 2 ELSE analysed[k]
  BY <1>0, <1>5 DEF CountAnalysis
<1>9. TypeOK'
  <2>1. analysed' \in [Items -> Nat]
    BY <1>0, <1>1 DEF CountAnalysis, TypeOK
  <2>2. todo' \subseteq todo /\ pc' \in {"analyze", "individual"}
    BY <1>0
  <2> QED
    BY <1>0, <1>1, <1>2, <1>7, <2>1, <2>2 DEF TypeOK
<1>10. GroupsPartition' /\ Masked' /\ NothingYet' /\ LoopPosition'
  <2>1. Masked'
    BY <1>0, <1>2 DEF BatchInv, Masked, MaskMapping, Token, Namespace, Soft
  <2>2. NothingYet'
    BY <1>0 DEF NothingYet
  <2>3. LoopPosition'
    BY <1>0, <1>2, <1>3 DEF LoopPosition, BatchInv, Group
  <2> QED
    BY <1>0, <1>1, <2>1, <2>2, <2>3, SameBatch
<1>11. ASSUME NEW k \in Items PROVE Visited(k)' <=> k \in Listed \/ k = i
  BY <1>0, <1>3, <1>4 DEF Visited
<1>12. VisitedIsListed'
  BY <1>2, <1>7, <1>11 DEF VisitedIsListed
<1>13. AnalysesSoFar'
  <2> SUFFICES ASSUME NEW k \in Items
               PROVE  IF Visited(k)' THEN analysed'[k] \in {1, 2}
                      ELSE analysed'[k] = IF pc' = "individual" /\ root'[k] = cur' THEN 1 ELSE 0
    BY <1>2 DEF AnalysesSoFar
  <2>1. CASE k \in Listed \/ k = i
    BY <1>4, <1>8, <1>11, <2>1
  <2>2. CASE k \notin Listed /\ k # i
    <3>1. analysed'[k] = IF root[k] = cur THEN 1 ELSE 0
      BY <1>4, <1>8, <2>2
    <3>2. pc' = "analyze" => root[k] # cur
      BY <1>0, <1>4, <2>2
    <3>3. pc' \in {"analyze", "individual"} /\ root' = root /\ cur' = cur
      BY <1>0
    <3>4. ~ Visited(k)'
      BY <1>11, <2>2
    <3> QED
      BY <3>1, <3>2, <3>3, <3>4
  <2> QED
    BY <2>1, <2>2
<1>14. ReanalysisReplaces'
  <2> SUFFICES ASSUME NEW k \in Items
               PROVE  /\ analysed'[k] <= 2
                      /\ analysed'[k] = 2 => \A m \in result' : k \in m.members => m.seen = {k}
    BY <1>2 DEF ReanalysisReplaces
  <2>1. CASE k = i
    BY <1>7, <1>8, <2>1
  <2>2. CASE k # i
    BY <1>1, <1>4, <1>7, <1>8, <2>2 DEF ReanalysisReplaces
  <2> QED
    BY <2>1, <2>2
<1> QED
  BY <1>7, <1>9, <1>10, <1>12, <1>13, <1>14 DEF BatchInv

(* A rejected answer keeps the invariant: it builds no memo. *)
LEMMA RejectGroupKeepsInv ==
    ASSUME BatchInv, NEW l \in todo, RejectGroup(l)
    PROVE  BatchInv'
<1> DEFINE g == Group(l)
<1>0. /\ pc = "analyze" /\ pc' = "individual" /\ cur' = l /\ pending' = g
      /\ analysed' = CountAnalysis(g)
      /\ UNCHANGED <<n, soft, mapping, root, todo, result>>
      /\ UNCHANGED <<n, soft, root>>
  BY DEF RejectGroup
<1>1. TypeOK /\ GroupsPartition /\ VisitedIsListed /\ AnalysesSoFar /\ OverlapWithinAnswer /\ ReanalysisReplaces
      /\ \A m \in result : WrittenFrom(m, m.seen)
  BY DEF BatchInv
<1>2. Items' = Items /\ Leaders' = Leaders /\ Listed' = Listed
  BY <1>0, SameBatch DEF Listed
<1>3. \A k \in Items : /\ k \in Listed <=> root[k] \notin todo
                       /\ k \in Listed => analysed[k] \in {1, 2}
                       /\ k \notin Listed => analysed[k] = 0
                       /\ k \in g <=> root[k] = l
  BY <1>0, <1>1 DEF VisitedIsListed, AnalysesSoFar, Started, Visited, Group
<1>4. l \in g /\ g \subseteq Items /\ l \in Nat
  BY <1>1 DEF TypeOK, Leaders, Group, Items
<1>5. \A k \in Items : analysed'[k] = IF k \in g THEN 1 ELSE analysed[k]
  BY <1>0, <1>3 DEF CountAnalysis
<1>6. TypeOK'
  <2>1. analysed' \in [Items -> Nat]
    BY <1>0, <1>1 DEF CountAnalysis, TypeOK
  <2>2. (\A m \in result : IsMemo(m))'
    BY <1>0, <1>1, SameBatch DEF TypeOK
  <2> QED
    BY <1>0, <1>1, <1>2, <1>4, <2>1, <2>2 DEF TypeOK
<1>7. GroupsPartition' /\ Masked' /\ NothingYet' /\ LoopPosition'
  <2>1. Masked'
    BY <1>0, <1>2 DEF BatchInv, Masked, MaskMapping, Token, Namespace, Soft
  <2>2. LoopPosition'
    BY <1>0, <1>4, SameBatch DEF LoopPosition
  <2> QED
    BY <1>0, <1>1, <2>1, <2>2, SameBatch DEF NothingYet
<1> HIDE DEF g
<1>8. VisitedIsListed'
  BY <1>0, <1>2, <1>3 DEF VisitedIsListed, Visited
<1>9. AnalysesSoFar'
  BY <1>0, <1>2, <1>3, <1>5 DEF AnalysesSoFar, Visited
<1>10. ReanalysisReplaces'
  BY <1>0, <1>1, <1>2, <1>5 DEF ReanalysisReplaces
<1>11. OverlapWithinAnswer' /\ (\A m \in result : WrittenFrom(m, m.seen))'
  BY <1>0, <1>1, SameBatch DEF OverlapWithinAnswer
<1> QED
  BY <1>6, <1>7, <1>8, <1>9, <1>10, <1>11 DEF BatchInv

(* Any partition of the items establishes what the loops rely on. *)
LEMMA GroupAsKeepsInv ==
    ASSUME BatchInv, NEW r \in Partitions, GroupAs(r)
    PROVE  BatchInv'
<1>0. /\ pc = "group" /\ pc' = "analyze" /\ root' = r /\ todo' = {i \in Items : r[i] = i}
      /\ UNCHANGED <<n, soft, mapping, cur, pending, result, analysed>>
  BY DEF GroupAs
<1>1. Items' = Items /\ UNCHANGED <<n, soft>>
  BY <1>0 DEF Items
<1>2. r \in [Items -> Items] /\ \A i \in Items : r[r[i]] = r[i]
  BY DEF Partitions
<1>3. TypeOK /\ result = {} /\ \A i \in Items : analysed[i] = 0
  BY <1>0 DEF BatchInv, NothingYet
<1>4. \A i \in Items : root'[i] \in todo'
  BY <1>0, <1>2
<1>5. TypeOK'
  BY <1>0, <1>1, <1>2, <1>3 DEF TypeOK, Leaders
<1>6. GroupsPartition' /\ Masked' /\ NothingYet' /\ LoopPosition'
  <2>1. Masked'
    BY <1>0, <1>1 DEF BatchInv, Masked, MaskMapping, Token, Namespace, Soft
  <2> QED
    BY <1>0, <1>1, <1>2, <2>1 DEF GroupsPartition, NothingYet, LoopPosition
<1>7. VisitedIsListed' /\ AnalysesSoFar'
  BY <1>0, <1>1, <1>3, <1>4 DEF VisitedIsListed, AnalysesSoFar, Visited, Listed
<1>8. OverlapWithinAnswer' /\ ReanalysisReplaces' /\ (\A m \in result : WrittenFrom(m, m.seen))'
  BY <1>0, <1>1, <1>3 DEF OverlapWithinAnswer, ReanalysisReplaces
<1> QED
  BY <1>5, <1>6, <1>7, <1>8 DEF BatchInv

(* The steps that build no memo and leave the grouping alone. *)
LEMMA OtherStepsKeepInv ==
    ASSUME BatchInv, EmptyBatch \/ Mask \/ CallRaises \/ Return
    PROVE  BatchInv'
<1>0. /\ UNCHANGED <<n, soft, root, todo, cur, pending, analysed>>
      /\ UNCHANGED <<n, soft, root>>
      /\ \/ pc' = "failed" /\ result' = {}
         \/ pc' \in {"group", "done"} /\ result' = result
  BY DEF EmptyBatch, Mask, CallRaises, Return
<1>1. TypeOK /\ GroupsPartition /\ OverlapWithinAnswer /\ ReanalysisReplaces
      /\ \A m \in result : WrittenFrom(m, m.seen)
  BY DEF BatchInv
<1>2. Items' = Items
  BY <1>0, SameBatch
<1>3. result' = {} \/ result' = result
  BY <1>0
<1>4. TypeOK'
  BY <1>0, <1>1, SameBatch DEF TypeOK
<1>5. GroupsPartition' /\ OverlapWithinAnswer' /\ ReanalysisReplaces'
      /\ (\A m \in result : WrittenFrom(m, m.seen))'
  BY <1>0, <1>1, <1>3, SameBatch DEF OverlapWithinAnswer, ReanalysisReplaces
<1>6. CASE EmptyBatch
  <2>1. pc' = "done" /\ Items = {} /\ todo = {}
    BY <1>1, <1>6 DEF EmptyBatch, Items, TypeOK, Leaders
  <2> QED
    BY <1>0, <1>2, <1>4, <1>5, <2>1
       DEF BatchInv, Masked, NothingYet, LoopPosition, VisitedIsListed, AnalysesSoFar
<1>7. CASE Mask
  <2>1. pc = "start" /\ pc' = "group" /\ mapping' = [i \in Items |-> MaskMapping(i)] /\ result' = result
    BY <1>7 DEF Mask
  <2>2. Masked'
    BY <1>0, <1>2, <2>1 DEF Masked, MaskMapping, Token, Namespace, Soft
  <2>3. result = {} /\ \A i \in Items : analysed[i] = 0
    BY <2>1 DEF BatchInv, NothingYet
  <2>4. NothingYet'
    BY <1>0, <1>2, <2>1, <2>3 DEF NothingYet
  <2>5. Items' # {}
    <3>1. n \in Nat /\ n > 0
      BY <1>1, <1>7, ItemsAssumption DEF Mask, TypeOK
    <3>2. 0 \in Items
      BY <3>1 DEF Items
    <3> QED
      BY <1>2, <3>2
  <2> QED
    BY <1>4, <1>5, <2>1, <2>2, <2>4, <2>5
       DEF BatchInv, LoopPosition, VisitedIsListed, AnalysesSoFar, Started
<1>8. CASE CallRaises
  <2>1. pc' = "failed"
    BY <1>8 DEF CallRaises
  <2> QED
    BY <1>4, <1>5, <2>1
       DEF BatchInv, Masked, NothingYet, LoopPosition, VisitedIsListed, AnalysesSoFar, Started
<1>9. CASE Return
  <2>1. pc = "analyze" /\ pc' = "done" /\ todo = {} /\ result' = result
    BY <1>9 DEF Return
  <2>2. Listed' = Listed /\ VisitedIsListed /\ AnalysesSoFar
    BY <2>1 DEF Listed, BatchInv
  <2>3. VisitedIsListed' /\ AnalysesSoFar'
    BY <1>0, <1>2, <2>1, <2>2 DEF VisitedIsListed, AnalysesSoFar, Visited, Started
  <2> QED
    BY <1>0, <1>4, <1>5, <2>1, <2>3 DEF BatchInv, Masked, NothingYet, LoopPosition
<1> QED
  BY <1>6, <1>7, <1>8, <1>9

(* Every step of the batch keeps the invariant. *)
LEMMA NextKeepsInv == BatchInv /\ [Next]_vars => BatchInv'
<1> SUFFICES ASSUME BatchInv, [Next]_vars PROVE BatchInv'
  OBVIOUS
<1>1. CASE EmptyBatch \/ Mask \/ CallRaises \/ Return
  BY <1>1, OtherStepsKeepInv
<1>2. CASE GroupSeparately
  <2>1. Singletons \in Partitions
    BY DEF Singletons, Partitions, Items
  <2> QED
    BY <1>2, <2>1, GroupAsKeepsInv DEF GroupSeparately
<1>3. CASE GroupBySimilarity
  BY <1>3, GroupAsKeepsInv DEF GroupBySimilarity
<1>4. CASE \E l \in todo : AnalyzeGroup(l) \/ RejectGroup(l)
  BY <1>4, AnalyzeGroupKeepsInv, RejectGroupKeepsInv
<1>5. CASE \E i \in pending : AnalyzeSource(i)
  BY <1>5, AnalyzeSourceKeepsInv
<1>6. CASE UNCHANGED vars
  <2>1. UNCHANGED <<n, soft, root>> /\ UNCHANGED vars
    BY <1>6 DEF vars
  <2>2. Items' = Items /\ Listed' = Listed
    BY <2>1, SameBatch DEF vars, Listed
  <2>3. TypeOK' /\ GroupsPartition' /\ Masked' /\ NothingYet' /\ LoopPosition'
    BY <2>1, <2>2, SameBatch DEF BatchInv, vars, TypeOK, Masked, NothingYet, LoopPosition,
       MaskMapping, Token, Namespace, Soft
  <2>4. VisitedIsListed' /\ AnalysesSoFar'
    BY <2>1, <2>2 DEF BatchInv, vars, VisitedIsListed, AnalysesSoFar, Visited, Started
  <2>5. OverlapWithinAnswer' /\ ReanalysisReplaces' /\ (\A m \in result : WrittenFrom(m, m.seen))'
    BY <2>1, <2>2, SameBatch DEF BatchInv, vars, OverlapWithinAnswer, ReanalysisReplaces
  <2> QED
    BY <2>3, <2>4, <2>5 DEF BatchInv
<1> QED
  BY <1>1, <1>2, <1>3, <1>4, <1>5, <1>6 DEF Next, Proceed, Finished
-----------------------------------------------------------------------------
(* The theorems. *)

(* BatchInv holds in every reachable state of every batch. *)
THEOREM InvHolds == Spec => []BatchInv
  BY InitEstablishesInv, NextKeepsInv, PTL DEF Spec

(* Every variable stays in its set. *)
THEOREM TypeCorrect == Spec => []TypeOK
<1>1. BatchInv => TypeOK
  BY DEF BatchInv
<1> QED
  BY <1>1, InvHolds, PTL

(* A batch that comes back lists every screenshot that went in, whatever the
   LLM answered and however the items were grouped.                          *)
THEOREM NothingIsLost == Spec => []EveryItemListed
<1>1. BatchInv => EveryItemListed
  <2> SUFFICES ASSUME BatchInv, pc = "done" PROVE Listed = Items
    BY DEF EveryItemListed
  <2>1. \A i \in Items : i \in Listed
    BY DEF BatchInv, VisitedIsListed, Started, LoopPosition, Visited
  <2>2. Listed \subseteq Items
    BY DEF BatchInv, TypeOK, IsMemo, Listed
  <2> QED
    BY <2>1, <2>2
<1> QED
  BY <1>1, InvHolds, PTL

(* A memo names at least one screenshot and none the LLM was not shown. *)
THEOREM MembersAreSources == Spec => []MembersWereSeen
<1>1. BatchInv => MembersWereSeen
  BY DEF BatchInv, MembersWereSeen, WrittenFrom
<1> QED
  BY <1>1, InvHolds, PTL

(* However the items are grouped, no restored placeholder reads as the PII of
   somebody else: it is restored to the PII it stood for, and where it is not
   restored, in a title, it stays a placeholder.                             *)
THEOREM RestoringKeepsOwners == Spec => []RestoredToItsOwner
<1>1. BatchInv => RestoredToItsOwner
  BY DEF BatchInv, RestoredToItsOwner, WrittenFrom
<1> QED
  BY <1>1, InvHolds, PTL

(* No screenshot is in the memos of two different answers. *)
THEOREM NoDoubleListing == Spec => []OverlapWithinAnswer
<1>1. BatchInv => OverlapWithinAnswer
  BY DEF BatchInv
<1> QED
  BY <1>1, InvHolds, PTL

(* No text is analysed three times, and a second analysis replaces the first. *)
THEOREM AtMostTwoAnalyses == Spec => []ReanalysisReplaces
<1>1. BatchInv => ReanalysisReplaces
  BY DEF BatchInv
<1> QED
  BY <1>1, InvHolds, PTL
-----------------------------------------------------------------------------
(* The batch implements BatchPromise. *)

(* The batch starts as the promise does. *)
LEMMA InitIsPromised == Init => Promise!Init
  BY DEF Init, Promise!Init, Listed, Outcome

(* While the loops run, the items that are not listed are the ones ahead. *)
LEMMA ListedSoFar ==
    ASSUME BatchInv, pc \in {"analyze", "individual"}
    PROVE  /\ Listed \subseteq Items
           /\ \A i \in Items : i \in Listed <=> Visited(i)
  BY DEF BatchInv, VisitedIsListed, Started, TypeOK, IsMemo, Listed

(* New memos add their members to what is listed, and nothing else. *)
LEMMA AddedMemosAreListed ==
    ASSUME NEW M, NEW S, result' = result \cup M, Accounts(M, S)
    PROVE  Listed' = Listed \cup S
  BY DEF Listed, Accounts

(* A pass over a group settles the items of the group. *)
LEMMA GroupPassIsPromised ==
    ASSUME BatchInv, NEW l \in todo, AnalyzeGroup(l)
    PROVE  Promise!Settle
<1>1. pc = "analyze" /\ pc' = "analyze" /\ Items' = Items
  BY DEF AnalyzeGroup, Items
<1>2. l \in Group(l) /\ Group(l) \subseteq Items
  BY DEF BatchInv, TypeOK, Leaders, Group
<1>3. \A i \in Group(l) : i \notin Listed
  BY <1>1, ListedSoFar DEF Visited, Group
<1>4. Listed' = Listed \cup Group(l)
  BY GroupPass, AddedMemosAreListed
<1>5. Group(l) \in SUBSET (Items \ Listed) /\ Group(l) # {}
  BY <1>2, <1>3
<1> QED
  BY <1>1, <1>4, <1>5 DEF Promise!Settle, Outcome

(* A pass over an item of a rejected group settles the item. *)
LEMMA SourcePassIsPromised ==
    ASSUME BatchInv, NEW i \in pending, AnalyzeSource(i)
    PROVE  Promise!Settle
<1>1. pc = "individual" /\ pc' \in {"analyze", "individual"} /\ Items' = Items
  BY DEF AnalyzeSource, Items
<1>2. i \in Items /\ root[i] = cur /\ cur \in todo
  BY <1>1 DEF BatchInv, LoopPosition, Group
<1>3. i \notin Listed
  BY <1>1, <1>2, ListedSoFar DEF Visited
<1>4. Listed' = Listed \cup {i}
  BY SourcePass, AddedMemosAreListed
<1>5. {i} \in SUBSET (Items \ Listed) /\ {i} # {}
  BY <1>2, <1>3
<1> QED
  BY <1>1, <1>4, <1>5 DEF Promise!Settle, Outcome

(* The batch delivers when all is settled, and fails only before that. *)
LEMMA EndingsArePromised ==
    ASSUME BatchInv, EmptyBatch \/ Return \/ CallRaises
    PROVE  Promise!Deliver \/ Promise!Fail
<1>1. CASE EmptyBatch
  <2>1. Items = {} /\ Items' = {} /\ Listed = {} /\ Listed' = {}
    BY <1>1 DEF EmptyBatch, Items, BatchInv, NothingYet, Listed
  <2> QED
    BY <1>1, <2>1 DEF EmptyBatch, Promise!Deliver, Outcome
<1>2. CASE Return
  <2>1. Items' = Items /\ Listed' = Listed
    BY <1>2 DEF Return, Items, Listed
  <2>2. Listed = Items
    BY <1>2, ListedSoFar DEF Return, Visited
  <2> QED
    BY <1>2, <2>1, <2>2 DEF Return, Promise!Deliver, Outcome
<1>3. CASE CallRaises
  <2>1. Items' = Items /\ Listed' = {} /\ pc \in {"group", "analyze", "individual"} /\ pc' = "failed"
    BY <1>3 DEF CallRaises, Items, Listed
  <2>2. \E i \in Items : i \notin Listed
    <3>0. CASE pc = "group"
      <4>1. Items # {} /\ Listed = {}
        BY <3>0 DEF BatchInv, LoopPosition, NothingYet, Listed
      <4> QED
        BY <4>1
    <3>1. CASE pc = "analyze"
      <4>1. PICK l \in todo : l \in Items /\ root[l] = l
        BY <1>3, <3>1 DEF CallRaises, BatchInv, TypeOK, Leaders
      <4> QED
        BY <2>1, <3>1, <4>1, ListedSoFar DEF Visited
    <3>2. CASE pc = "individual"
      <4>1. PICK i \in pending : i \in Items /\ root[i] = cur /\ cur \in todo
        BY <3>2 DEF BatchInv, LoopPosition, Group
      <4> QED
        BY <2>1, <3>2, <4>1, ListedSoFar DEF Visited
    <3> QED
      BY <2>1, <3>0, <3>1, <3>2
  <2> QED
    BY <2>1, <2>2 DEF Promise!Fail, Outcome
<1> QED
  BY <1>1, <1>2, <1>3

(* Every step of the batch is a step of the promise or leaves it alone. *)
LEMMA StepIsPromised == BatchInv /\ [Next]_vars => [Promise!Next]_(Promise!vars)
<1> SUFFICES ASSUME BatchInv, [Next]_vars PROVE [Promise!Next]_(Promise!vars)
  OBVIOUS
<1>1. CASE EmptyBatch \/ Return \/ CallRaises
  BY <1>1, EndingsArePromised DEF Promise!Next
<1>2. CASE \E l \in todo : AnalyzeGroup(l)
  BY <1>2, GroupPassIsPromised DEF Promise!Next
<1>3. CASE \E i \in pending : AnalyzeSource(i)
  BY <1>3, SourcePassIsPromised DEF Promise!Next
<1>4. CASE Mask \/ GroupSeparately \/ GroupBySimilarity \/ UNCHANGED vars
           \/ \E l \in todo : RejectGroup(l)
  <2>1. n' = n /\ result' = result
    BY <1>4 DEF Mask, GroupSeparately, GroupBySimilarity, GroupAs, RejectGroup, vars
  <2>2. Outcome' = Outcome
    BY <1>4 DEF Mask, GroupSeparately, GroupBySimilarity, GroupAs, RejectGroup, vars, Outcome
  <2> QED
    BY <2>1, <2>2 DEF Promise!vars, Items, Listed
<1> QED
  BY <1>1, <1>2, <1>3, <1>4 DEF Next, Proceed, Finished

(* The safety part of KeepsPromise, for every batch: screenshots are settled a
   few at a time and never twice, and the batch delivers all or fails.         *)
THEOREM PromiseIsKept == Spec => Promise!Spec
  BY InitIsPromised, StepIsPromised, InvHolds, PTL DEF Spec, Promise!Spec
=============================================================================
