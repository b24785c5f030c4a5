----------------------------- MODULE Grouping_proofs -----------------------------
(* Proofs about Grouping: for any number of items and any similarity between them. *)
EXTENDS Grouping, SequenceTheorems, TLAPS

USE ItemsAssumption
-----------------------------------------------------------------------------
(* Connectedness, by closed sets. *)

(* A set closed under E lies on one side of two connected items. *)
LEMMA ConnectedBothWays ==
    ASSUME NEW E \in SUBSET (Items \X Items), NEW S \in SUBSET Items, Closed(S, E),
           NEW a \in Items, NEW b \in Items, Connected(a, b, E)
    PROVE  a \in S <=> b \in S
<1> DEFINE R == Items \ S
<1>1. R \in SUBSET Items /\ Closed(R, E)
  <2>1. ASSUME NEW p \in E PROVE p[1] \in R <=> p[2] \in R
    BY DEF Closed
  <2> QED
    BY <2>1 DEF Closed
<1> HIDE DEF R
<1>2. a \in R => b \in R
  BY <1>1 DEF Connected
<1>3. a \in S => b \in S
  BY DEF Connected
<1> QED
  BY <1>2, <1>3 DEF R

(* It is symmetric. *)
LEMMA ConnectedSymmetric ==
    ASSUME NEW E \in SUBSET (Items \X Items),
           NEW a \in Items, NEW b \in Items, Connected(a, b, E)
    PROVE  Connected(b, a, E)
BY ConnectedBothWays DEF Connected

(* It is transitive. *)
LEMMA ConnectedTransitive ==
    ASSUME NEW E, NEW a, NEW b, NEW c, Connected(a, b, E), Connected(b, c, E)
    PROVE  Connected(a, c, E)
BY DEF Connected

(* It depends on the closed sets alone. *)
LEMMA SameClosedSameConnected ==
    ASSUME NEW D, NEW E, \A S \in SUBSET Items : Closed(S, D) <=> Closed(S, E), NEW a, NEW b
    PROVE  Connected(a, b, D) <=> Connected(a, b, E)
BY DEF Connected
-----------------------------------------------------------------------------
(* The forest. *)

(* A set is closed under the edges of a function if no argument is separated from
   its value.                                                                      *)
LEMMA ClosedUnderFunction ==
    ASSUME NEW S, NEW D, NEW f
    PROVE  Closed(S, {<<k, f[k]>> : k \in D}) <=> \A k \in D : k \in S <=> f[k] \in S
<1> DEFINE E == {<<k, f[k]>> : k \in D}
<1>1. ASSUME Closed(S, E), NEW k \in D PROVE k \in S <=> f[k] \in S
  <2>1. <<k, f[k]>> \in E
    OBVIOUS
  <2>2. <<k, f[k]>>[1] \in S <=> <<k, f[k]>>[2] \in S
    BY <1>1, <2>1 DEF Closed
  <2> QED
    BY <2>2
<1>2. ASSUME \A k \in D : k \in S <=> f[k] \in S, NEW p \in E PROVE p[1] \in S <=> p[2] \in S
  <2>1. PICK k \in D : p = <<k, f[k]>>
    OBVIOUS
  <2>2. p[1] = k /\ p[2] = f[k]
    BY <2>1
  <2> QED
    BY <1>2, <2>2
<1> QED
  BY <1>1, <1>2 DEF Closed

(* So a set is closed under the forest if no item is separated from its parent. *)
LEMMA ClosedUnderForest ==
    ASSUME NEW S
    PROVE  Closed(S, Forest) <=> \A k \in Items : k \in S <=> parent[k] \in S
BY ClosedUnderFunction DEF Forest

(* The same after a step. *)
LEMMA ClosedUnderNextForest ==
    ASSUME NEW S, Items' = Items
    PROVE  Closed(S, Forest') <=> \A k \in Items : k \in S <=> parent'[k] \in S
<1>1. Forest' = {<<k, parent'[k]>> : k \in Items}
  BY DEF Forest
<1>2. Closed(S, {<<k, parent'[k]>> : k \in Items}) <=> \A k \in Items : k \in S <=> parent'[k] \in S
  BY ClosedUnderFunction
<1> QED
  BY <1>1, <1>2

(* The forest relates items, as do the pairs compared. *)
LEMMA EdgesRelateItems ==
    ASSUME TypeOK
    PROVE  Forest \in SUBSET (Items \X Items) /\ Compared \in SUBSET (Items \X Items)
BY DEF TypeOK, Forest, Compared, Pairs

(* Every item is in the tree of its parent. *)
LEMMA ParentConnected ==
    ASSUME NEW k \in Items
    PROVE  Connected(k, parent[k], Forest)
BY ClosedUnderForest DEF Connected

(* A tree has at most one root: what goes up to r is closed, and a second root
   does not go up to r.                                                        *)
LEMMA RootsApart ==
    ASSUME TypeOK, NEW r \in Roots, NEW s \in Roots, Connected(r, s, Forest)
    PROVE  r = s
<1> DEFINE GoesTo == {k \in Items : \A T \in SUBSET Items : k \in T /\ ParentClosed(T) => r \in T}
<1>1. parent \in [Items -> Items] /\ r \in Items /\ s \in Items /\ parent[r] = r /\ parent[s] = s
  BY DEF TypeOK, Roots
<1>2. ASSUME NEW k \in Items, k \in GoesTo PROVE parent[k] \in GoesTo
  <2> SUFFICES ASSUME NEW T \in SUBSET Items, parent[k] \in T, ParentClosed(T)
               PROVE  r \in T
    BY <1>1
  <2>1. (T \cup {k}) \in SUBSET Items /\ ParentClosed(T \cup {k})
    BY DEF ParentClosed
  <2>2. r \in T \cup {k}
    BY <1>2, <2>1
  <2> QED
    BY <1>1, <2>2
<1>3. ASSUME NEW k \in Items, parent[k] \in GoesTo PROVE k \in GoesTo
  <2> SUFFICES ASSUME NEW T \in SUBSET Items, k \in T, ParentClosed(T)
               PROVE  r \in T
    OBVIOUS
  <2>1. parent[k] \in T
    BY DEF ParentClosed
  <2> QED
    BY <1>3, <2>1
<1>4. GoesTo \in SUBSET Items /\ r \in GoesTo
  BY <1>1
<1>5. s \in GoesTo
  <2> HIDE DEF GoesTo
  <2>1. Closed(GoesTo, Forest)
    BY <1>2, <1>3, ClosedUnderForest
  <2> QED
    BY <1>4, <2>1 DEF Connected
<1>6. {s} \in SUBSET Items /\ ParentClosed({s})
  BY <1>1 DEF ParentClosed
<1>7. r \in {s}
  BY <1>5, <1>6
<1> QED
  BY <1>7

(* Every tree of a grounded forest has a root. *)
LEMMA RootExists ==
    ASSUME TypeOK, Grounded, NEW a \in Items
    PROVE  \E r \in Roots : Connected(a, r, Forest)
<1> DEFINE T == {k \in Items : Connected(a, k, Forest)}
<1>1. a \in T
  BY DEF Connected
<1>2. ASSUME NEW k \in T PROVE parent[k] \in T
  <2>1. parent[k] \in Items
    BY DEF TypeOK
  <2>2. Connected(a, parent[k], Forest)
    BY ParentConnected, ConnectedTransitive
  <2> QED
    BY <2>1, <2>2
<1>3. T \in SUBSET Items /\ T # {} /\ ParentClosed(T)
  BY <1>1, <1>2 DEF ParentClosed
<1> HIDE DEF T
<1>4. PICK r \in T : r \in Roots
  BY <1>3 DEF Grounded
<1> QED
  BY <1>4 DEF T

(* So the roots two connected items reach are the same. *)
LEMMA RootsAgree ==
    ASSUME TypeOK, NEW a \in Items, NEW b \in Items, Connected(a, b, Forest),
           NEW r \in Roots, NEW s \in Roots, Connected(a, r, Forest), Connected(b, s, Forest)
    PROVE  r = s
<1>1. r \in Items /\ s \in Items /\ Forest \in SUBSET (Items \X Items)
  BY EdgesRelateItems DEF Roots
<1>2. Connected(r, a, Forest)
  BY <1>1, ConnectedSymmetric
<1>3. Connected(r, s, Forest)
  BY <1>2, ConnectedTransitive
<1> QED
  BY <1>3, RootsApart
-----------------------------------------------------------------------------
(* Path halving. *)

(* The step skips a generation, so there is one. *)
LEMMA HalveSkips ==
    ASSUME GroupingInv, Halve
    PROVE  /\ x \in Items /\ parent[x] # x
           /\ parent[x] \in Items /\ parent[parent[x]] \in Items /\ parent[parent[x]] # x
           /\ Items' = Items
           /\ \A k \in Items : parent'[k] = IF k = x THEN parent[parent[x]] ELSE parent[k]
<1>1. /\ x \in Items /\ parent \in [Items -> Items] /\ parent[x] # x /\ Items' = Items
      /\ parent' = [parent EXCEPT ![x] = parent[parent[x]]]
  BY DEF GroupingInv, TypeOK, Halve, Items
<1>2. parent[parent[x]] # x
  <2> SUFFICES ASSUME parent[parent[x]] = x PROVE FALSE
    OBVIOUS
  <2>1. {x, parent[x]} \in SUBSET Items /\ ParentClosed({x, parent[x]})
    BY <1>1 DEF ParentClosed
  <2>2. PICK r \in {x, parent[x]} : parent[r] = r
    BY <2>1 DEF GroupingInv, Grounded, Roots
  <2> QED
    BY <1>1, <2>2
<1> QED
  BY <1>1, <1>2

(* It neither joins trees nor cuts one, and the roots stay. *)
LEMMA HalveKeepsForest ==
    ASSUME GroupingInv, Halve
    PROVE  /\ \A S \in SUBSET Items : Closed(S, Forest') <=> Closed(S, Forest)
           /\ Roots' = Roots
           /\ Grounded'
<1> DEFINE pp == parent[parent[x]]
<1>1. /\ x \in Items /\ parent[x] # x /\ parent[x] \in Items /\ pp \in Items /\ pp # x
      /\ Items' = Items /\ \A k \in Items : parent'[k] = IF k = x THEN pp ELSE parent[k]
  BY HalveSkips
<1>2. ASSUME NEW S \in SUBSET Items
      PROVE  Closed(S, Forest') <=> Closed(S, Forest)
  <2>1. Closed(S, Forest') <=> \A k \in Items : k \in S <=> parent'[k] \in S
    BY <1>1, ClosedUnderNextForest
  <2>2. Closed(S, Forest) <=> \A k \in Items : k \in S <=> parent[k] \in S
    BY ClosedUnderForest
  <2>3. Closed(S, Forest) => Closed(S, Forest')
    BY <1>1, <2>1, <2>2
  <2>4. Closed(S, Forest') => Closed(S, Forest)
    <3> SUFFICES ASSUME Closed(S, Forest'), NEW k \in Items PROVE k \in S <=> parent[k] \in S
      BY <2>2
    <3>1. CASE k # x
      BY <1>1, <2>1, <3>1
    <3>2. CASE k = x
      <4>1. x \in S <=> pp \in S
        BY <1>1, <2>1
      <4>2. parent[x] \in S <=> parent'[parent[x]] \in S
        BY <1>1, <2>1
      <4>3. parent'[parent[x]] = pp
        BY <1>1
      <4> QED
        BY <3>2, <4>1, <4>2, <4>3
    <3> QED
      BY <3>1, <3>2
  <2> QED
    BY <2>3, <2>4
<1>3. Roots' = Roots
  BY <1>1 DEF Roots
<1>4. ASSUME NEW T \in SUBSET Items, T # {}, \A k \in T : parent'[k] \in T
      PROVE  T \cap Roots # {}
  <2> DEFINE U == IF x \in T THEN T \cup {parent[x]} ELSE T
  <2>1. U \in SUBSET Items /\ U # {} /\ ParentClosed(U)
    <3>1. ASSUME NEW k \in U PROVE parent[k] \in U
      BY <1>1, <1>4
    <3> QED
      BY <1>1, <1>4, <3>1 DEF ParentClosed
  <2>2. PICK r \in U : r \in Roots
    <3> HIDE DEF U
    <3> QED
      BY <2>1 DEF GroupingInv, Grounded
  <2>3. r \in T
    BY <1>1, <1>4, <2>2 DEF Roots
  <2> QED
    BY <2>2, <2>3
<1>5. Grounded'
  BY <1>1, <1>3, <1>4 DEF Grounded, ParentClosed
<1> QED
  BY <1>2, <1>3, <1>5
-----------------------------------------------------------------------------
(* Union. *)

(* The pair in hand is the only one a move of the loops adds to those compared. *)
LEMMA NextPairCompares ==
    ASSUME TypeOK, pc \in {"compare", "i", "j"}, i < j, NextPair, n' = n, similar' = similar
    PROVE  Compared' = Compared \cup ({<<i, j>>} \cap similar)
<1>1. /\ i \in Nat /\ j \in Nat /\ n \in Nat /\ j < n /\ pc \notin {"gather", "done"}
      /\ \A p \in similar : /\ p = <<p[1], p[2]>> /\ p[1] \in Nat /\ p[2] \in Nat
                            /\ p[1] < p[2] /\ p[2] <= n - 1
  BY DEF TypeOK, Pairs, Items
<1>2. ASSUME NEW p \in similar
      PROVE  p \in Compared' <=> p \in Compared \/ p = <<i, j>>
  <2>1. p \in Compared <=> p[1] < i \/ (p[1] = i /\ p[2] < j)
    BY <1>1 DEF Compared
  <2>2. p = <<i, j>> <=> p[1] = i /\ p[2] = j
    BY <1>1
  <2>3. CASE j < n - 1 /\ i' = i /\ j' = j + 1 /\ pc' = "compare"
    <3>1. p \in Compared' <=> p[1] < i \/ (p[1] = i /\ p[2] < j + 1)
      BY <2>3 DEF Compared
    <3> QED
      BY <1>1, <2>1, <2>2, <3>1
  <2>4. CASE j = n - 1 /\ i < n - 2 /\ i' = i + 1 /\ j' = i + 2 /\ pc' = "compare"
    <3>1. p \in Compared' <=> p[1] < i + 1 \/ (p[1] = i + 1 /\ p[2] < i + 2)
      BY <2>4 DEF Compared
    <3> QED
      BY <1>1, <2>1, <2>2, <2>4, <3>1
  <2>5. CASE j = n - 1 /\ i >= n - 2 /\ pc' = "gather"
    <3>1. p \in Compared'
      BY <2>5 DEF Compared
    <3> QED
      BY <1>1, <2>1, <2>2, <2>5, <3>1
  <2> QED
    BY <2>3, <2>4, <2>5 DEF NextPair
<1>3. Compared' \subseteq similar /\ Compared \subseteq similar
  BY DEF Compared
<1> QED
  BY <1>2, <1>3

(* The loops stand at a pair again, or at the first item to gather. *)
LEMMA NextPairFits ==
    ASSUME TypeOK, pc \in {"compare", "j"}, i < j, NextPair, n' = n
    PROVE  /\ i' \in 0 .. n /\ j' \in 1 .. n /\ x' \in Items
           /\ \/ pc' = "compare" /\ i' < j' /\ j' < n
              \/ pc' = "gather" /\ i' = 0 /\ x' = 0 /\ i' < n
<1>1. i \in Nat /\ j \in Nat /\ n \in Nat /\ j < n /\ x \in Items
  BY DEF TypeOK
<1>2. CASE j < n - 1 /\ i' = i /\ j' = j + 1 /\ x' = x /\ pc' = "compare"
  BY <1>1, <1>2
<1>3. CASE j = n - 1 /\ i < n - 2 /\ i' = i + 1 /\ j' = i + 2 /\ x' = x /\ pc' = "compare"
  BY <1>1, <1>3
<1>4. CASE j = n - 1 /\ i >= n - 2 /\ i' = 0 /\ j' = j /\ x' = 0 /\ pc' = "gather"
  BY <1>1, <1>4 DEF Items
<1> QED
  BY <1>2, <1>3, <1>4 DEF NextPair

(* Hanging the root of j below the root of i closes exactly the pair <<i, j>>. *)
LEMMA UnionKeepsForest ==
    ASSUME GroupingInv, Union
    PROVE  SameClosed' /\ Grounded'
<1>1. /\ x \in Roots /\ rootA \in Roots /\ x \in Items /\ rootA \in Items
      /\ i \in Items /\ j \in Items /\ <<i, j>> \in similar /\ i < j
      /\ Connected(i, rootA, Forest) /\ Connected(j, x, Forest)
      /\ Items' = Items /\ n' = n /\ similar' = similar /\ NextPair
  <2>1. TypeOK /\ LoopsFit /\ pc = "j"
    BY DEF GroupingInv, Union
  <2>2. i \in Items /\ j \in Items
    BY <2>1 DEF TypeOK, LoopsFit, Items
  <2> QED
    BY <2>1, <2>2 DEF TypeOK, LoopsFit, Union, Roots, Items
<1>2. \A k \in Items : parent'[k] = IF k = x THEN rootA ELSE parent[k]
  BY <1>1 DEF GroupingInv, TypeOK, Union
<1>3. ASSUME NEW S \in SUBSET Items
      PROVE  Closed(S, Forest') <=> Closed(S, Compared')
  <2>1. Closed(S, Forest) <=> Closed(S, Compared)
    BY DEF GroupingInv, SameClosed
  <2>2. Compared' = Compared \cup {<<i, j>>}
    BY <1>1, NextPairCompares DEF GroupingInv, Union
  <2>3. Closed(S, Compared') <=> Closed(S, Compared) /\ (i \in S <=> j \in S)
    <3>1. \A p : p \in Compared' <=> p \in Compared \/ p = <<i, j>>
      BY <2>2
    <3>2. <<i, j>>[1] = i /\ <<i, j>>[2] = j
      OBVIOUS
    <3> QED
      BY <3>1, <3>2 DEF Closed
  <2>4. Closed(S, Forest') <=> \A k \in Items : k \in S <=> parent'[k] \in S
    BY <1>1, ClosedUnderNextForest
  <2>5. Closed(S, Forest) <=> \A k \in Items : k \in S <=> parent[k] \in S
    BY ClosedUnderForest
  <2>6. parent[x] = x
    BY <1>1 DEF Roots
  <2>7. Closed(S, Forest') <=> Closed(S, Forest) /\ (x \in S <=> rootA \in S)
    BY <1>1, <1>2, <2>4, <2>5, <2>6
  <2>8. Closed(S, Forest) => (i \in S <=> rootA \in S) /\ (j \in S <=> x \in S)
    BY <1>1, ConnectedBothWays, EdgesRelateItems DEF GroupingInv
  <2> QED
    BY <2>1, <2>3, <2>7, <2>8
<1>4. SameClosed'
  BY <1>1, <1>3 DEF SameClosed
<1>5. ASSUME NEW T \in SUBSET Items, T # {}, \A k \in T : parent'[k] \in T
      PROVE  \E r \in T : parent'[r] = r
  <2>1. CASE x \in T
    BY <1>1, <1>2, <1>5, <2>1 DEF Roots
  <2>2. CASE x \notin T
    <3>1. ParentClosed(T)
      BY <1>2, <1>5, <2>2 DEF ParentClosed
    <3>2. PICK r \in T : r \in Roots
      BY <1>5, <3>1 DEF GroupingInv, Grounded
    <3> QED
      BY <1>2, <2>2, <3>2 DEF Roots
  <2> QED
    BY <2>1, <2>2
<1>6. Grounded'
  BY <1>1, <1>5 DEF Grounded, ParentClosed, Roots
<1> QED
  BY <1>4, <1>6
-----------------------------------------------------------------------------
(* Gathering. *)

Group == [root : Items, members : Seq(Items)]

(* The groups, one by one. *)
LEMMA GroupsHaveType ==
    ASSUME TypeOK
    PROVE  /\ groups \in Seq(Group) /\ DOMAIN groups = 1 .. Len(groups) /\ Len(groups) \in Nat
           /\ \A g \in DOMAIN groups : /\ groups[g] \in Group
                                       /\ groups[g].root \in Items /\ groups[g].members \in Seq(Items)
<1>1. groups \in Seq(Group)
  BY DEF TypeOK, Group
<1>2. DOMAIN groups = 1 .. Len(groups) /\ Len(groups) \in Nat
  BY <1>1, LenProperties
<1>3. \A g \in DOMAIN groups : groups[g] \in Group
  BY <1>1, <1>2, ElementOfSeq
<1>4. \A e \in Group : e.root \in Items /\ e.members \in Seq(Items)
  BY DEF Group
<1> QED
  BY <1>1, <1>2, <1>3, <1>4

(* Nothing gathered yet, and nothing expected. *)
LEMMA NothingGathered ==
    ASSUME groups' = <<>>, pc' \notin {"gather", "done"} \/ i' = 0
    PROVE  GatheredSoFar'
<1>1. DOMAIN groups' = {}
  OBVIOUS
<1>2. UNION {MemberSet(g)' : g \in DOMAIN groups'} = {}
  BY <1>1
<1>3. pc' \in {"gather", "done"} => UNION {MemberSet(g)' : g \in DOMAIN groups'} = 0 .. i' - 1
  BY <1>2
<1> QED
  BY <1>1, <1>3 DEF GatheredSoFar

(* What the groups hold while they are gathered: items before the one in hand. *)
LEMMA MembersAreEarlier ==
    ASSUME GroupingInv, pc = "gather", NEW g \in DOMAIN groups
    PROVE  /\ groups[g].members \in Seq(Items) /\ groups[g].root \in Roots
           /\ Len(groups[g].members) \in Nat /\ Len(groups[g].members) # 0
           /\ DOMAIN groups[g].members = 1 .. Len(groups[g].members)
           /\ \A k \in 1 .. Len(groups[g].members) : groups[g].members[k] \in 0 .. i - 1
<1>1. groups[g].members \in Seq(Items)
  BY GroupsHaveType DEF GroupingInv
<1>2. groups[g].members \in Seq(Items) /\ groups[g].members # <<>> /\ groups[g].root \in Roots
  BY <1>1 DEF GroupingInv, GatheredSoFar, GroupFits
<1>3. /\ Len(groups[g].members) \in Nat /\ Len(groups[g].members) # 0
      /\ DOMAIN groups[g].members = 1 .. Len(groups[g].members)
  BY <1>2, LenProperties, EmptySeq
<1>4. MemberSet(g) \subseteq 0 .. i - 1
  BY DEF GroupingInv, GatheredSoFar
<1>5. \A k \in 1 .. Len(groups[g].members) : groups[g].members[k] \in MemberSet(g)
  BY <1>3 DEF MemberSet, Range
<1> QED
  BY <1>2, <1>3, <1>4, <1>5

(* Gathering touches neither the forest nor anything found out about it. *)
LEMMA GatherStands ==
    ASSUME GroupingInv, Gather
    PROVE  /\ n' = n /\ Items' = Items /\ parent' = parent /\ Forest' = Forest /\ Roots' = Roots
           /\ \A a, b : Connected(a, b, Forest)' <=> Connected(a, b, Forest)
           /\ x \in Roots /\ i \in Items /\ i \in Nat /\ i' = i + 1 /\ Connected(i, x, Forest)
           /\ pc = "gather" /\ pc' \in {"gather", "done"}
<1>1. n' = n /\ parent' = parent /\ Items' = Items
  BY DEF Gather, Items
<1>2. Forest' = Forest /\ Roots' = Roots
  BY <1>1 DEF Forest, Roots
<1>3. \A a, b : Connected(a, b, Forest)' <=> Connected(a, b, Forest)
  BY <1>1, <1>2 DEF Connected, Closed
<1>4. x \in Roots /\ i \in Items /\ i \in Nat /\ i' = i + 1 /\ Connected(i, x, Forest)
  BY DEF Gather, GroupingInv, TypeOK, LoopsFit, Roots, Items
<1>5. pc = "gather" /\ pc' \in {"gather", "done"}
  BY DEF Gather
<1> QED
  BY <1>1, <1>2, <1>3, <1>4, <1>5

(* An item whose root has a group joins it, at the end. *)
LEMMA JoinFits ==
    ASSUME GroupingInv, Gather, NEW o \in DOMAIN groups, groups[o].root = x
    PROVE  groups' \in Seq(Group) /\ GatheredSoFar'
<1>1. /\ Items' = Items /\ Roots' = Roots /\ x \in Roots /\ i \in Items /\ i \in Nat /\ i' = i + 1
      /\ \A a, b : Connected(a, b, Forest)' <=> Connected(a, b, Forest)
      /\ Connected(i, x, Forest) /\ pc = "gather" /\ pc' \in {"gather", "done"}
  BY GatherStands
<1>2. \A g \in DOMAIN groups : groups[g].root = x => g = o
  BY DEF GroupingInv, GatheredSoFar
<1>3. groups \in Seq(Group) /\ DOMAIN groups = 1 .. Len(groups) /\ Len(groups) \in Nat
  BY GroupsHaveType DEF GroupingInv
<1>4. groups' = [g \in DOMAIN groups |->
            IF groups[g].root = x THEN [groups[g] EXCEPT !.members = Append(@, i)] ELSE groups[g]]
  BY DEF Gather, Gathered
<1>5. \A g \in DOMAIN groups : groups[g] \in Group /\ groups[g].members \in Seq(Items)
  BY GroupsHaveType DEF GroupingInv
<1>6. \A g \in DOMAIN groups : g # o => groups'[g] = groups[g]
  BY <1>2, <1>4
<1>7. groups'[o] = [root |-> x, members |-> Append(groups[o].members, i)]
  <2>1. groups'[o] = [groups[o] EXCEPT !.members = Append(@, i)]
    BY <1>4
  <2>2. groups[o] \in Group
    BY <1>5
  <2> QED
    BY <2>1, <2>2 DEF Group
<1>8. /\ Len(groups[o].members) \in Nat /\ Len(groups[o].members) # 0
      /\ DOMAIN groups[o].members = 1 .. Len(groups[o].members)
      /\ \A k \in 1 .. Len(groups[o].members) : groups[o].members[k] \in 0 .. i - 1
  BY <1>1, MembersAreEarlier
<1> DEFINE m == groups[o].members
           q == Append(m, i)
<1>9. /\ q \in Seq(Items) /\ q # <<>> /\ DOMAIN q = 1 .. Len(m) + 1 /\ q[Len(m) + 1] = i
      /\ \A k \in 1 .. Len(m) : q[k] = m[k]
  BY <1>1, <1>5, AppendProperties, LenProperties
<1>10. groups'[o].root = x /\ groups'[o].members = q
  BY <1>7
<1> HIDE DEF q
<1>11. DOMAIN groups' = DOMAIN groups
  BY <1>4
<1>12. groups' \in Seq(Group)
  <2>1. \A g \in DOMAIN groups : groups'[g] \in Group
    <3>1. groups'[o] = [root |-> x, members |-> q] /\ x \in Items
      BY <1>1, <1>7 DEF Roots, q
    <3>2. groups'[o] \in Group
      BY <1>9, <3>1 DEF Group
    <3> QED
      BY <1>5, <1>6, <3>2
  <2>2. groups' \in [1 .. Len(groups) -> Group]
    BY <1>3, <1>4, <1>11, <2>1
  <2> QED
    BY <1>3, <2>2, SeqDef
<1>13. UNION {MemberSet(g)' : g \in DOMAIN groups'} = 0 .. i' - 1
  <2>1. MemberSet(o)' = MemberSet(o) \cup {i}
    BY <1>8, <1>9, <1>10 DEF MemberSet, Range
  <2>2. \A g \in DOMAIN groups : g # o => MemberSet(g)' = MemberSet(g)
    BY <1>6 DEF MemberSet
  <2>3. UNION {MemberSet(g) : g \in DOMAIN groups} = 0 .. i - 1
    BY <1>1 DEF GroupingInv, GatheredSoFar
  <2>4. UNION {MemberSet(g)' : g \in DOMAIN groups} = (0 .. i - 1) \cup {i}
    BY <2>1, <2>2, <2>3
  <2>5. (0 .. i - 1) \cup {i} = 0 .. i' - 1
    BY <1>1
  <2> QED
    BY <1>11, <2>4, <2>5
<1>14. ASSUME NEW g \in DOMAIN groups PROVE GroupFits(g)'
  <2>1. GroupFits(g)
    BY DEF GroupingInv, GatheredSoFar
  <2>2. CASE g # o
    BY <1>1, <1>6, <2>1, <2>2 DEF GroupFits
  <2>3. CASE g = o
    <3>1. groups'[g].root \in Roots' /\ groups'[g].members # <<>>
      BY <1>1, <1>9, <1>10, <2>3
    <3>2. \A k \in 1 .. Len(m) + 1 : Connected(q[k], x, Forest)
      BY <1>1, <1>8, <1>9, <2>1, <2>3 DEF GroupFits
    <3>3. ASSUME NEW k \in 1 .. Len(m) + 1, NEW l \in 1 .. Len(m) + 1, k < l
          PROVE  q[k] < q[l]
      <4>1. k \in 1 .. Len(m) /\ q[k] = m[k] /\ m[k] \in 0 .. i - 1
        BY <1>8, <1>9, <3>3
      <4>2. CASE l \in 1 .. Len(m)
        <5>1. \A a, b \in 1 .. Len(m) : a < b => m[a] < m[b]
          BY <1>8, <2>1, <2>3 DEF GroupFits
        <5> QED
          BY <1>9, <3>3, <4>1, <4>2, <5>1
      <4>3. CASE l = Len(m) + 1
        BY <1>1, <1>9, <4>1, <4>3
      <4> QED
        BY <1>8, <4>2, <4>3
    <3> QED
      BY <1>1, <1>9, <1>10, <2>3, <3>1, <3>2, <3>3 DEF GroupFits
  <2> QED
    BY <2>2, <2>3
<1>15. \A g \in DOMAIN groups : groups'[g].root = groups[g].root /\ groups'[g].members[1] = groups[g].members[1]
  BY <1>6, <1>8, <1>9, <1>10
<1>16. /\ \A g, h \in DOMAIN groups' : groups'[g].root = groups'[h].root => g = h
       /\ \A g, h \in DOMAIN groups' : g < h => groups'[g].members[1] < groups'[h].members[1]
  BY <1>11, <1>15 DEF GroupingInv, GatheredSoFar
<1> QED
  BY <1>1, <1>11, <1>12, <1>13, <1>14, <1>16 DEF GatheredSoFar

(* An item whose root has none opens one, after the others. *)
LEMMA OpenFits ==
    ASSUME GroupingInv, Gather, \A g \in DOMAIN groups : groups[g].root # x
    PROVE  groups' \in Seq(Group) /\ GatheredSoFar'
<1>1. /\ Items' = Items /\ Roots' = Roots /\ x \in Roots /\ i \in Items /\ i \in Nat /\ i' = i + 1
      /\ \A a, b : Connected(a, b, Forest)' <=> Connected(a, b, Forest)
      /\ Connected(i, x, Forest) /\ pc = "gather" /\ pc' \in {"gather", "done"}
  BY GatherStands
<1> DEFINE m == Len(groups)
           e == [root |-> x, members |-> <<i>>]
<1>2. groups \in Seq(Group) /\ e \in Group
  BY <1>1 DEF GroupingInv, TypeOK, Group, Roots
<1>3. groups' = Append(groups, e)
  BY DEF Gather, Gathered
<1>4. /\ m \in Nat /\ DOMAIN groups = 1 .. m /\ DOMAIN groups' = 1 .. m + 1
      /\ groups' \in Seq(Group) /\ groups'[m + 1] = e
      /\ \A g \in 1 .. m : groups'[g] = groups[g]
  BY <1>2, <1>3, AppendProperties, LenProperties
<1>5. /\ groups'[m + 1].root = x /\ groups'[m + 1].members = <<i>>
      /\ DOMAIN <<i>> = {1} /\ <<i>>[1] = i /\ <<i>> # <<>>
  BY <1>4
<1> HIDE DEF m, e
<1>6. UNION {MemberSet(g)' : g \in DOMAIN groups'} = 0 .. i' - 1
  <2>1. \A g : g = m + 1 => MemberSet(g)' = {i}
    <3>1. Range(<<i>>) = {i}
      BY DEF Range
    <3>2. groups'[m + 1].members = <<i>>
      BY <1>5
    <3> QED
      BY <3>1, <3>2 DEF MemberSet
  <2>2. \A g \in 1 .. m : MemberSet(g)' = MemberSet(g)
    BY <1>4 DEF MemberSet
  <2>3. UNION {MemberSet(g) : g \in 1 .. m} = 0 .. i - 1
    BY <1>1, <1>4 DEF GroupingInv, GatheredSoFar
  <2>4. 1 .. m + 1 = (1 .. m) \cup {m + 1}
    BY <1>4
  <2>5. UNION {MemberSet(g)' : g \in 1 .. m + 1} = (0 .. i - 1) \cup {i}
    <3>1. \A y : y \in UNION {MemberSet(g) : g \in 1 .. m} <=> \E g \in 1 .. m : y \in MemberSet(g)
      OBVIOUS
    <3>2. \A y : y \in UNION {MemberSet(g)' : g \in 1 .. m + 1}
                   <=> \E g \in 1 .. m + 1 : y \in MemberSet(g)'
      OBVIOUS
    <3>3. \A y : (\E g \in 1 .. m + 1 : y \in MemberSet(g)')
                   <=> y \in {i} \/ \E g \in 1 .. m : y \in MemberSet(g)
      BY <2>1, <2>2, <2>4
    <3> QED
      BY <2>3, <3>1, <3>2, <3>3
  <2>6. (0 .. i - 1) \cup {i} = 0 .. i' - 1
    BY <1>1
  <2> QED
    BY <1>4, <2>5, <2>6
<1>7. ASSUME NEW g \in 1 .. m + 1 PROVE GroupFits(g)'
  <2>1. CASE g \in 1 .. m
    <3>1. GroupFits(g) /\ groups'[g] = groups[g]
      BY <1>4, <2>1 DEF GroupingInv, GatheredSoFar
    <3> QED
      BY <1>1, <3>1 DEF GroupFits
  <2>2. CASE g = m + 1
    <3>1. groups'[g].root = x /\ groups'[g].members = <<i>>
      BY <1>5, <2>2
    <3>2. \A k \in {1} : <<i>>[k] = i
      OBVIOUS
    <3>3. <<i>> # <<>> /\ DOMAIN <<i>> = {1}
      BY <1>5
    <3>4. \A k \in DOMAIN groups'[g].members : groups'[g].members[k] = i
      BY <3>1, <3>2, <3>3
    <3>5. \A k, l \in DOMAIN groups'[g].members : ~ (k < l)
      BY <3>1, <3>3
    <3>6. groups'[g].root \in Roots' /\ groups'[g].members # <<>>
      BY <1>1, <3>1, <3>3
    <3>7. \A k \in DOMAIN groups'[g].members :
             Connected(groups[g].members[k], groups[g].root, Forest)'
      BY <1>1, <3>1, <3>4
    <3> QED
      BY <3>5, <3>6, <3>7 DEF GroupFits
  <2> QED
    BY <1>4, <2>1, <2>2
<1>8. ASSUME NEW g \in 1 .. m
      PROVE  /\ groups'[g].root = groups[g].root /\ groups[g].root # x
             /\ groups'[g].members[1] = groups[g].members[1]
             /\ groups[g].members[1] \in Int /\ groups[g].members[1] < i
  <2>1. 1 \in 1 .. Len(groups[g].members)
    BY <1>1, <1>4, MembersAreEarlier
  <2>2. groups[g].members[1] \in 0 .. i - 1
    BY <1>1, <1>4, <2>1, MembersAreEarlier
  <2> QED
    BY <1>1, <1>4, <2>2
<1>9. \A g, h \in 1 .. m + 1 : groups'[g].root = groups'[h].root => g = h
  <2>1. \A g, h \in 1 .. m : groups[g].root = groups[h].root => g = h
    BY <1>4 DEF GroupingInv, GatheredSoFar
  <2> QED
    BY <1>4, <1>5, <1>8, <2>1
<1>10. \A g, h \in 1 .. m + 1 : g < h => groups'[g].members[1] < groups'[h].members[1]
  <2>1. \A g, h \in 1 .. m : g < h => groups[g].members[1] < groups[h].members[1]
    BY <1>4 DEF GroupingInv, GatheredSoFar
  <2>2. groups'[m + 1].members[1] = i
    BY <1>5
  <2> QED
    BY <1>4, <1>8, <2>1, <2>2
<1> QED
  BY <1>1, <1>4, <1>6, <1>7, <1>9, <1>10 DEF GatheredSoFar

(* Either way the groups hold the first items, as far as the loop has come. *)
LEMMA GatherFits ==
    ASSUME GroupingInv, Gather
    PROVE  groups' \in Seq(Group) /\ GatheredSoFar'
BY JoinFits, OpenFits
-----------------------------------------------------------------------------
(* The invariant. *)

(* A step that moves neither the forest nor the pairs compared. *)
LEMMA ForestStands ==
    ASSUME SameClosed, Grounded, n' = n, parent' = parent, Compared' = Compared
    PROVE  SameClosed' /\ Grounded'
<1>1. Items' = Items /\ Forest' = Forest /\ Roots' = Roots
  BY DEF Items, Forest, Roots
<1>2. SameClosed'
  <2>1. \A S : (Closed(S, Forest)' <=> Closed(S, Forest)) /\ (Closed(S, Compared)' <=> Closed(S, Compared))
    BY <1>1 DEF Closed
  <2> QED
    BY <1>1, <2>1 DEF SameClosed
<1>3. Grounded'
  BY <1>1 DEF Grounded, ParentClosed
<1> QED
  BY <1>2, <1>3

(* In the forest as it stands, items are connected as before. *)
LEMMA ConnectionsStand ==
    ASSUME n' = n, parent' = parent
    PROVE  \A a, b : Connected(a, b, Forest)' <=> Connected(a, b, Forest)
<1>1. Items' = Items /\ Forest' = Forest
  BY DEF Items, Forest
<1> QED
  BY <1>1 DEF Connected, Closed

(* Everything is connected to itself. *)
LEMMA ConnectedReflexive == \A a : Connected(a, a, Forest)' /\ Connected(a, a, Forest)
BY DEF Connected

(* A pair that is not similar. *)
LEMMA DissimilarKeepsInv ==
    ASSUME GroupingInv, Dissimilar
    PROVE  GroupingInv'
<1>1. /\ TypeOK /\ SameClosed /\ Grounded /\ GatheredSoFar /\ pc = "compare" /\ i < j
      /\ NextPair /\ UNCHANGED <<n, similar, rootA, parent, groups>> /\ <<i, j>> \notin similar
      /\ groups = <<>>
  BY DEF GroupingInv, Dissimilar, LoopsFit, GatheredSoFar
<1>2. /\ i' \in 0 .. n /\ j' \in 1 .. n /\ x' \in Items
      /\ \/ pc' = "compare" /\ i' < j' /\ j' < n
         \/ pc' = "gather" /\ i' = 0 /\ x' = 0 /\ i' < n
  BY <1>1, NextPairFits
<1>3. Items' = Items /\ Pairs' = Pairs
  BY <1>1 DEF Items, Pairs
<1>4. TypeOK'
  BY <1>1, <1>2, <1>3 DEF TypeOK
<1>5. SameClosed' /\ Grounded'
  <2>1. Compared' = Compared
    BY <1>1, NextPairCompares
  <2> QED
    BY <1>1, <2>1, ForestStands
<1>6. LoopsFit'
  <2>1. CASE pc' = "compare" /\ i' < j'
    BY <2>1 DEF LoopsFit
  <2>2. CASE pc' = "gather" /\ i' = 0 /\ x' = 0 /\ i' < n
    <3>1. Connected(i, x, Forest)'
      BY <2>2 DEF Connected
    <3> QED
      BY <1>1, <2>2, <3>1 DEF LoopsFit
  <2> QED
    BY <1>2, <2>1, <2>2
<1>7. GatheredSoFar'
  BY <1>1, <1>2, NothingGathered
<1> QED
  BY <1>4, <1>5, <1>6, <1>7 DEF GroupingInv

(* A pair that is: find(i) starts. *)
LEMMA SimilarKeepsInv ==
    ASSUME GroupingInv, Similar
    PROVE  GroupingInv'
<1>1. /\ TypeOK /\ SameClosed /\ Grounded /\ GatheredSoFar /\ pc = "compare" /\ i < j
      /\ UNCHANGED <<n, similar, i, j, rootA, parent, groups>> /\ <<i, j>> \in similar
      /\ groups = <<>> /\ pc' = "i" /\ x' = i
  BY DEF GroupingInv, Similar, LoopsFit, GatheredSoFar
<1>2. Items' = Items /\ Pairs' = Pairs
  BY <1>1 DEF Items, Pairs
<1>3. TypeOK'
  <2>1. i \in Items
    BY <1>1 DEF TypeOK, Items
  <2> QED
    BY <1>1, <1>2, <2>1 DEF TypeOK
<1>4. SameClosed' /\ Grounded'
  <2>1. Compared' = Compared
    BY <1>1 DEF Compared
  <2> QED
    BY <1>1, <2>1, ForestStands
<1>5. LoopsFit'
  <2>1. Connected(i, x, Forest)'
    BY <1>1 DEF Connected
  <2> QED
    BY <1>1, <2>1 DEF LoopsFit
<1>6. GatheredSoFar'
  BY <1>1, NothingGathered
<1> QED
  BY <1>3, <1>4, <1>5, <1>6 DEF GroupingInv

(* One pass of find(): it stays in its tree. *)
LEMMA HalveKeepsInv ==
    ASSUME GroupingInv, Halve
    PROVE  GroupingInv'
<1>1. /\ TypeOK /\ SameClosed /\ LoopsFit /\ GatheredSoFar /\ pc \in {"i", "j", "gather"}
      /\ UNCHANGED <<n, similar, pc, i, j, rootA, groups>>
      /\ x' = parent[parent[x]]
  BY DEF GroupingInv, Halve
<1>2. /\ x \in Items /\ parent[x] \in Items /\ parent[parent[x]] \in Items /\ Items' = Items
      /\ Compared' = Compared /\ Pairs' = Pairs
  BY <1>1, HalveSkips DEF Compared, Pairs
<1>3. /\ \A S \in SUBSET Items : Closed(S, Forest') <=> Closed(S, Forest)
      /\ Roots' = Roots /\ Grounded'
  BY HalveKeepsForest
<1>4. \A a, b : Connected(a, b, Forest)' <=> Connected(a, b, Forest)
  <2>1. \A a, b : Connected(a, b, Forest') <=> Connected(a, b, Forest)
    BY <1>3, SameClosedSameConnected
  <2> QED
    BY <1>2, <2>1 DEF Connected, Closed
<1>5. TypeOK'
  <2>1. parent' \in [Items -> Items]
    BY <1>1, <1>2 DEF TypeOK, Halve
  <2> QED
    BY <1>1, <1>2, <2>1 DEF TypeOK
<1>6. SameClosed'
  <2>1. \A S : Closed(S, Compared)' <=> Closed(S, Compared)
    BY <1>2 DEF Closed
  <2>2. \A S : Closed(S, Forest)' <=> Closed(S, Forest')
    BY DEF Closed
  <2> QED
    BY <1>1, <1>2, <1>3, <2>1, <2>2 DEF SameClosed
<1>7. \A a : Connected(a, x, Forest) => Connected(a, x', Forest)
  <2>1. Connected(x, parent[x], Forest) /\ Connected(parent[x], parent[parent[x]], Forest)
    BY <1>2, ParentConnected
  <2> QED
    BY <1>1, <2>1, ConnectedTransitive
<1>8. LoopsFit'
  <2>1. pc = "i" => Connected(i', x', Forest)
    BY <1>1, <1>7 DEF LoopsFit
  <2>2. pc = "j" => rootA \in Roots /\ Connected(i', rootA', Forest) /\ Connected(j', x', Forest)
    BY <1>1, <1>7 DEF LoopsFit
  <2>3. pc = "gather" => i < n /\ Connected(i', x', Forest)
    BY <1>1, <1>7 DEF LoopsFit
  <2>4. /\ pc \in {"compare", "i", "j"} => i < j
        /\ pc \in {"i", "j"} => <<i, j>> \in similar
    BY <1>1 DEF LoopsFit
  <2>5. /\ Connected(i', x', Forest) <=> Connected(i, x, Forest)'
        /\ Connected(i', rootA', Forest) <=> Connected(i, rootA, Forest)'
        /\ Connected(j', x', Forest) <=> Connected(j, x, Forest)'
    BY <1>4
  <2> QED
    BY <1>1, <1>3, <2>1, <2>2, <2>3, <2>4, <2>5 DEF LoopsFit
<1>9. GatheredSoFar'
  <2>1. \A g : GroupFits(g)' <=> GroupFits(g)
    BY <1>1, <1>3, <1>4 DEF GroupFits
  <2>2. \A g : MemberSet(g)' = MemberSet(g)
    BY <1>1 DEF MemberSet
  <2> QED
    BY <1>1, <2>1, <2>2 DEF GatheredSoFar
<1> QED
  BY <1>3, <1>5, <1>6, <1>8, <1>9 DEF GroupingInv

(* find(i) is through, find(j) starts. *)
LEMMA FoundAKeepsInv ==
    ASSUME GroupingInv, FoundA
    PROVE  GroupingInv'
<1>1. /\ TypeOK /\ SameClosed /\ Grounded /\ LoopsFit /\ GatheredSoFar /\ pc = "i" /\ parent[x] = x
      /\ UNCHANGED <<n, similar, i, j, parent, groups>>
      /\ groups = <<>> /\ rootA' = x /\ pc' = "j" /\ x' = j
  BY DEF GroupingInv, FoundA, GatheredSoFar
<1>2. Items' = Items /\ Pairs' = Pairs /\ Roots' = Roots
  BY <1>1 DEF Items, Pairs, Roots
<1>3. TypeOK'
  <2>1. j \in Items
    BY <1>1 DEF TypeOK, Items
  <2> QED
    BY <1>1, <1>2, <2>1 DEF TypeOK
<1>4. SameClosed' /\ Grounded'
  <2>1. Compared' = Compared
    BY <1>1 DEF Compared
  <2> QED
    BY <1>1, <2>1, ForestStands
<1>5. LoopsFit'
  <2>1. Connected(j, x, Forest)'
    BY <1>1 DEF Connected
  <2>2. rootA' \in Roots'
    BY <1>1, <1>2 DEF Roots, TypeOK
  <2>3. Connected(i', rootA', Forest)
    BY <1>1 DEF LoopsFit
  <2>4. Connected(i, rootA, Forest)'
    BY <1>1, <2>3, ConnectionsStand
  <2> QED
    BY <1>1, <2>1, <2>2, <2>4 DEF LoopsFit
<1>6. GatheredSoFar'
  BY <1>1, NothingGathered
<1> QED
  BY <1>3, <1>4, <1>5, <1>6 DEF GroupingInv

(* find(j) is through: the two trees are joined. *)
LEMMA UnionKeepsInv ==
    ASSUME GroupingInv, Union
    PROVE  GroupingInv'
<1>1. /\ TypeOK /\ LoopsFit /\ pc = "j" /\ i < j /\ groups = <<>>
      /\ NextPair /\ UNCHANGED <<n, similar, rootA, groups>>
      /\ parent' = [parent EXCEPT ![x] = rootA]
  BY DEF GroupingInv, Union, LoopsFit, GatheredSoFar
<1>2. /\ i' \in 0 .. n /\ j' \in 1 .. n /\ x' \in Items
      /\ \/ pc' = "compare" /\ i' < j' /\ j' < n
         \/ pc' = "gather" /\ i' = 0 /\ x' = 0 /\ i' < n
  BY <1>1, NextPairFits
<1>3. Items' = Items /\ Pairs' = Pairs
  BY <1>1 DEF Items, Pairs
<1>4. TypeOK'
  <2>1. parent' \in [Items -> Items]
    BY <1>1 DEF TypeOK
  <2> QED
    BY <1>1, <1>2, <1>3, <2>1 DEF TypeOK
<1>5. SameClosed' /\ Grounded'
  BY UnionKeepsForest
<1>6. LoopsFit'
  <2>1. CASE pc' = "compare" /\ i' < j'
    BY <2>1 DEF LoopsFit
  <2>2. CASE pc' = "gather" /\ i' = 0 /\ x' = 0 /\ i' < n
    <3>1. Connected(i, x, Forest)'
      BY <2>2 DEF Connected
    <3> QED
      BY <1>1, <2>2, <3>1 DEF LoopsFit
  <2> QED
    BY <1>2, <2>1, <2>2
<1>7. GatheredSoFar'
  BY <1>1, <1>2, NothingGathered
<1> QED
  BY <1>4, <1>5, <1>6, <1>7 DEF GroupingInv

(* An item is gathered. *)
LEMMA GatherKeepsInv ==
    ASSUME GroupingInv, Gather
    PROVE  GroupingInv'
<1>1. /\ TypeOK /\ SameClosed /\ Grounded /\ LoopsFit /\ pc = "gather"
      /\ UNCHANGED <<n, similar, j, rootA, parent>> /\ i' = i + 1
      /\ IF i = n - 1 THEN pc' = "done" /\ x' = x ELSE pc' = pc /\ x' = i + 1
  BY DEF GroupingInv, Gather
<1>2. Items' = Items /\ Pairs' = Pairs
  BY <1>1 DEF Items, Pairs
<1>3. n \in Nat /\ i \in Nat /\ i < n
  BY <1>1 DEF TypeOK, LoopsFit
<1>4. groups' \in Seq(Group) /\ GatheredSoFar'
  BY GatherFits
<1>5. TypeOK'
  <2>1. i' \in 0 .. n /\ x' \in Items /\ pc' \in {"gather", "done"}
    BY <1>1, <1>3, SMTT(30) DEF TypeOK, Items
  <2>2. groups' \in Seq([root : Items', members : Seq(Items')])
    BY <1>2, <1>4 DEF Group
  <2> QED
    BY <1>1, <1>2, <2>1, <2>2 DEF TypeOK
<1>6. SameClosed' /\ Grounded'
  <2>1. Compared' = Compared
    BY <1>1 DEF Compared
  <2> QED
    BY <1>1, <2>1, ForestStands
<1>7. LoopsFit'
  <2>1. CASE i = n - 1
    BY <1>1, <1>3, <2>1 DEF LoopsFit
  <2>2. CASE i # n - 1
    <3>1. Connected(i, x, Forest)'
      BY <1>1, <2>2 DEF Connected
    <3> QED
      BY <1>1, <1>3, <2>2, <3>1 DEF LoopsFit
  <2> QED
    BY <2>1, <2>2
<1> QED
  BY <1>4, <1>5, <1>6, <1>7 DEF GroupingInv

(* Every step keeps the invariant. *)
LEMMA NextKeepsInv == GroupingInv /\ [Next]_vars => GroupingInv'
<1> SUFFICES ASSUME GroupingInv, [Next]_vars PROVE GroupingInv'
  OBVIOUS
<1>1. CASE Dissimilar
  BY <1>1, DissimilarKeepsInv
<1>2. CASE Similar
  BY <1>2, SimilarKeepsInv
<1>3. CASE Halve
  BY <1>3, HalveKeepsInv
<1>4. CASE FoundA
  BY <1>4, FoundAKeepsInv
<1>5. CASE Union
  BY <1>5, UnionKeepsInv
<1>6. CASE Gather
  BY <1>6, GatherKeepsInv
<1>7. CASE UNCHANGED vars
  <2>1. n' = n /\ parent' = parent /\ Items' = Items /\ Roots' = Roots
    BY <1>7 DEF vars, Items, Roots
  <2>2. \A a, b : Connected(a, b, Forest)' <=> Connected(a, b, Forest)
    BY <2>1, ConnectionsStand
  <2>3. TypeOK'
    BY <1>7 DEF vars, GroupingInv, TypeOK, Items, Pairs
  <2>4. SameClosed' /\ Grounded'
    <3>1. Compared' = Compared
      BY <1>7 DEF vars, Compared
    <3> QED
      BY <2>1, <3>1, ForestStands DEF GroupingInv
  <2>5. LoopsFit'
    <3>1. /\ Connected(i, x, Forest)' <=> Connected(i, x, Forest)
          /\ Connected(i, rootA, Forest)' <=> Connected(i, rootA, Forest)
          /\ Connected(j, x, Forest)' <=> Connected(j, x, Forest)
      BY <1>7, <2>2 DEF vars
    <3> QED
      BY <1>7, <2>1, <3>1 DEF vars, GroupingInv, LoopsFit
  <2>6. GatheredSoFar'
    <3>1. \A g : GroupFits(g)' <=> GroupFits(g)
      BY <1>7, <2>1, <2>2 DEF vars, GroupFits
    <3> QED
      BY <1>7, <3>1 DEF vars, GroupingInv, GatheredSoFar, MemberSet
  <2> QED
    BY <2>3, <2>4, <2>5, <2>6 DEF GroupingInv
<1> QED
  BY <1>1, <1>2, <1>3, <1>4, <1>5, <1>6, <1>7 DEF Next, Finished

(* It holds when group_indices starts: every item is its own tree. *)
LEMMA InitHasInv == Init => GroupingInv
<1> SUFFICES ASSUME Init PROVE GroupingInv
  OBVIOUS
<1>1. /\ n \in Nat /\ n >= 1 /\ Items = 0 .. n - 1 /\ i = 0 /\ j = 1 /\ x = 0 /\ rootA = 0
      /\ similar \subseteq Pairs /\ groups = <<>> /\ i \in Items
      /\ pc = IF n = 1 THEN "gather" ELSE "compare"
      /\ parent = [k \in Items |-> k]
  BY DEF Init, Items, Pairs
<1>2. TypeOK
  <2>1. n \in 1 .. MaxItems
    BY DEF Init
  <2>2. j \in 1 .. n /\ (n # 1 => j < n) /\ i \in 0 .. n
    BY <1>1
  <2>3. groups \in Seq([root : Items, members : Seq(Items)])
    BY <1>1
  <2> QED
    BY <1>1, <2>1, <2>2, <2>3 DEF TypeOK
<1>3. Compared = {}
  <2>1. \A p \in similar : p[1] \in Nat /\ p[2] \in Nat /\ p[1] < p[2] /\ p[2] <= n - 1
    BY <1>1 DEF Pairs
  <2>2. \A p \in similar : p[1] < i \/ (p[1] = i /\ p[2] < j) => FALSE
    BY <1>1, <2>1
  <2>3. n = 1 => similar = {}
    BY <1>1, <2>1
  <2> QED
    BY <1>1, <2>2, <2>3 DEF Compared
<1>4. SameClosed
  <2>1. \A S : Closed(S, Compared)
    BY <1>3 DEF Closed
  <2>2. \A S : Closed(S, Forest)
    BY <1>1, ClosedUnderForest
  <2> QED
    BY <2>1, <2>2 DEF SameClosed
<1>5. Grounded
  BY <1>1 DEF Grounded, Roots
<1>6. LoopsFit
  BY <1>1, ConnectedReflexive DEF LoopsFit
<1>7. GatheredSoFar
  <2>1. DOMAIN groups = {}
    BY <1>1
  <2>2. UNION {MemberSet(g) : g \in DOMAIN groups} = {} /\ 0 .. i - 1 = {}
    BY <1>1, <2>1
  <2> QED
    BY <1>1, <2>1, <2>2 DEF GatheredSoFar
<1> QED
  BY <1>2, <1>4, <1>5, <1>6, <1>7 DEF GroupingInv

(* It is an invariant of group_indices, whatever is similar to what. *)
THEOREM InvHolds == Spec => []GroupingInv
BY InitHasInv, NextKeepsInv, PTL DEF Spec

(* No index leaves its list: find() and the loops stay within the items. *)
THEOREM TypeCorrect == Spec => []TypeOK
<1>1. GroupingInv => TypeOK
  BY DEF GroupingInv
<1> QED
  BY <1>1, InvHolds, PTL

(* Path halving and union keep the forest exact at every moment: it joins what the
   pairs compared so far join, no more and no less, and each tree has one root.    *)
THEOREM HalvingIsSafe == Spec => []ForestIsExact
<1>1. GroupingInv => ForestIsExact
  <2> SUFFICES ASSUME GroupingInv PROVE ForestIsExact
    OBVIOUS
  <2>1. \A a, b \in Items : Connected(a, b, Forest) <=> Connected(a, b, Compared)
    BY SameClosedSameConnected DEF GroupingInv, SameClosed
  <2>2. ASSUME NEW a \in Items
        PROVE  \E r \in Items : \A s \in Items : parent[s] = s /\ Connected(a, s, Forest) <=> s = r
    <3>1. PICK r \in Roots : Connected(a, r, Forest)
      BY RootExists DEF GroupingInv
    <3>2. ASSUME NEW s \in Roots, Connected(a, s, Forest) PROVE s = r
      BY <2>2, <3>1, <3>2, ConnectedReflexive, RootsAgree DEF GroupingInv
    <3> QED
      BY <3>1, <3>2 DEF Roots
  <2> QED
    BY <2>1, <2>2 DEF ForestIsExact
<1> QED
  BY <1>1, InvHolds, PTL

(* The groups returned are the connected components of similarity, each item in
   exactly one, in the order the batch counts on: S<k> means the k-th item.      *)
THEOREM GroupsAreRight == Spec => []GroupsAreComponents
<1>1. GroupingInv => GroupsAreComponents
  <2> SUFFICES ASSUME GroupingInv, pc = "done"
               PROVE  /\ UNION {MemberSet(g) : g \in DOMAIN groups} = Items
                      /\ \A g, h \in DOMAIN groups : \A a \in MemberSet(g), b \in MemberSet(h) :
                            Connected(a, b, similar) <=> g = h
                      /\ \A g, h \in DOMAIN groups : g < h => groups[g].members[1] < groups[h].members[1]
                      /\ \A g \in DOMAIN groups : \A k, l \in DOMAIN groups[g].members :
                            k < l => groups[g].members[k] < groups[g].members[l]
    BY DEF GroupsAreComponents
  <2>1. UNION {MemberSet(g) : g \in DOMAIN groups} = Items
    BY DEF GroupingInv, GatheredSoFar, LoopsFit, Items
  <2>2. \A a, b : Connected(a, b, similar) <=> Connected(a, b, Forest)
    <3>1. Compared = similar
      BY DEF Compared
    <3> QED
      BY <3>1, SameClosedSameConnected DEF GroupingInv, SameClosed
  <2>3. ASSUME NEW g \in DOMAIN groups, NEW a \in MemberSet(g)
        PROVE  a \in Items /\ groups[g].root \in Roots /\ Connected(a, groups[g].root, Forest)
    <3>1. a \in Items
      BY <2>1, <2>3
    <3>2. GroupFits(g) /\ \E k \in DOMAIN groups[g].members : a = groups[g].members[k]
      BY DEF GroupingInv, GatheredSoFar, MemberSet, Range
    <3> QED
      BY <3>1, <3>2 DEF GroupFits
  <2>4. ASSUME NEW g \in DOMAIN groups, NEW h \in DOMAIN groups,
               NEW a \in MemberSet(g), NEW b \in MemberSet(h)
        PROVE  Connected(a, b, similar) <=> g = h
    <3>1. /\ a \in Items /\ groups[g].root \in Roots /\ Connected(a, groups[g].root, Forest)
          /\ b \in Items /\ groups[h].root \in Roots /\ Connected(b, groups[h].root, Forest)
      BY <2>3
    <3>2. ASSUME Connected(a, b, Forest) PROVE g = h
      <4>1. groups[g].root = groups[h].root
        BY <3>1, <3>2, RootsAgree DEF GroupingInv
      <4> QED
        BY <4>1 DEF GroupingInv, GatheredSoFar
    <3>3. ASSUME g = h PROVE Connected(a, b, Forest)
      <4>1. Forest \in SUBSET (Items \X Items) /\ groups[h].root \in Items
        BY <3>1, EdgesRelateItems DEF GroupingInv, Roots
      <4>2. Connected(groups[h].root, b, Forest)
        BY <3>1, <4>1, ConnectedSymmetric
      <4> QED
        BY <3>1, <3>3, <4>2, ConnectedTransitive
    <3> QED
      BY <2>2, <3>2, <3>3
  <2>5. \A g, h \in DOMAIN groups : g < h => groups[g].members[1] < groups[h].members[1]
    BY DEF GroupingInv, GatheredSoFar
  <2>6. \A g \in DOMAIN groups : GroupFits(g)
    BY DEF GroupingInv, GatheredSoFar
  <2> QED
    BY <2>1, <2>4, <2>5, <2>6 DEF GroupFits
<1> QED
  BY <1>1, InvHolds, PTL
=============================================================================
