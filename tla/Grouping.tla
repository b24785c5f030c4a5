-------------------------------- MODULE Grouping --------------------------------
(***************************************************************************)
(* app/analysis/grouping.py: group_indices joins items whose texts are     *)
(* similar enough, by union-find with path halving over all pairs, and     *)
(* then gathers the groups.  Cosine and time weight are abstracted to the  *)
(* set of pairs that reach the threshold, which may be any set: similarity *)
(* is not transitive.                                                      *)
(***************************************************************************)
EXTENDS Integers, Sequences, Functions

CONSTANT MaxItems    \* bound: len(embeddings)

ASSUME ItemsAssumption == MaxItems \in Nat \ {0}

VARIABLES
    n,          \* len(embeddings)
    similar,    \* the pairs <<i, j>>, i < j, whose effective similarity suffices
    pc,         \* "compare" a pair, find the root of "i" or of "j", "gather", "done"
    i, j,       \* the loop variables
    x,          \* the node find() stands at
    rootA,      \* root_a
    parent,
    groups      \* the dict of groups, in insertion order

vars == <<n, similar, pc, i, j, x, rootA, parent, groups>>

Items == 0 .. n - 1
Pairs == {p \in Items \X Items : p[1] < p[2]}

Init ==
    /\ n \in 1 .. MaxItems
    /\ similar \in SUBSET {p \in (0 .. n - 1) \X (0 .. n - 1) : p[1] < p[2]}
    /\ pc = IF n = 1 THEN "gather" ELSE "compare"
    /\ i = 0 /\ j = 1
    /\ x = 0 /\ rootA = 0
    /\ parent = [k \in 0 .. n - 1 |-> k]
    /\ groups = <<>>

(* Seeded fault: the inner loop runs one item too far. *)
NextPairOffByOne ==
    \/ j < n /\ i' = i /\ j' = j + 1 /\ x' = x /\ pc' = "compare"
    \/ j = n /\ i < n - 2 /\ i' = i + 1 /\ j' = i + 2 /\ x' = x /\ pc' = "compare"
    \/ j = n /\ i >= n - 2 /\ i' = 0 /\ j' = j /\ x' = 0 /\ pc' = "gather"

(* The two loops over pairs move on; after the last pair the groups are gathered. *)
NextPair ==
    \/ j < n - 1 /\ i' = i /\ j' = j + 1 /\ x' = x /\ pc' = "compare"
    \/ j = n - 1 /\ i < n - 2 /\ i' = i + 1 /\ j' = i + 2 /\ x' = x /\ pc' = "compare"
    \/ j = n - 1 /\ i >= n - 2 /\ i' = 0 /\ j' = j /\ x' = 0 /\ pc' = "gather"

Dissimilar ==
    /\ pc = "compare" /\ <<i, j>> \notin similar
    /\ NextPair
    /\ UNCHANGED <<n, similar, rootA, parent, groups>>

(* union(i, j) starts with find(i). *)
Similar ==
    /\ pc = "compare" /\ <<i, j>> \in similar
    /\ pc' = "i" /\ x' = i
    /\ UNCHANGED <<n, similar, i, j, rootA, parent, groups>>

(* Seeded fault: the path is halved, but find() does not move on. *)
HalveOnly ==
    /\ pc \in {"i", "j", "gather"} /\ parent[x] # x
    /\ parent' = [parent EXCEPT ![x] = parent[parent[x]]]
    /\ UNCHANGED <<n, similar, pc, i, j, x, rootA, groups>>

(* One pass of the loop of find(): the path is halved on the way to the root. *)
Halve ==
    /\ pc \in {"i", "j", "gather"} /\ parent[x] # x
    /\ parent' = [parent EXCEPT ![x] = parent[parent[x]]]
    /\ x' = parent[parent[x]]
    /\ UNCHANGED <<n, similar, pc, i, j, rootA, groups>>

FoundA ==
    /\ pc = "i" /\ parent[x] = x
    /\ rootA' = x
    /\ pc' = "j" /\ x' = j
    /\ UNCHANGED <<n, similar, i, j, parent, groups>>

(* Seeded fault: the item itself is hung below root_a instead of its root. *)
UnionOfItem ==
    /\ pc = "j" /\ parent[x] = x
    /\ parent' = [parent EXCEPT ![j] = rootA]
    /\ NextPair
    /\ UNCHANGED <<n, similar, rootA, groups>>

(* find(j) is through: its root is hung below the other, unless it is the same. *)
Union ==
    /\ pc = "j" /\ parent[x] = x
    /\ parent' = [parent EXCEPT ![x] = rootA]
    /\ NextPair
    /\ UNCHANGED <<n, similar, rootA, groups>>

(* groups.setdefault(r, []).append(k) *)
Gathered(r, k) ==
    IF \E g \in DOMAIN groups : groups[g].root = r
    THEN [g \in DOMAIN groups |->
            IF groups[g].root = r THEN [groups[g] EXCEPT !.members = Append(@, k)] ELSE groups[g]]
    ELSE Append(groups, [root |-> r, members |-> <<k>>])

(* Seeded fault: items are gathered by parent, not by root. *)
GatherByParent ==
    /\ pc = "gather"
    /\ groups' = Gathered(parent[i], i)
    /\ i' = i + 1
    /\ IF i = n - 1 THEN pc' = "done" /\ x' = x ELSE pc' = pc /\ x' = i + 1
    /\ UNCHANGED <<n, similar, j, rootA, parent>>

(* find(i) is through: item i joins the group of its root. *)
Gather ==
    /\ pc = "gather" /\ parent[x] = x
    /\ groups' = Gathered(x, i)
    /\ i' = i + 1
    /\ IF i = n - 1 THEN pc' = "done" /\ x' = x ELSE pc' = pc /\ x' = i + 1
    /\ UNCHANGED <<n, similar, j, rootA, parent>>

Finished == pc = "done" /\ UNCHANGED vars

Next == Dissimilar \/ Similar \/ Halve \/ FoundA \/ Union \/ Gather \/ Finished

Spec == Init /\ [][Next]_vars

(* group_indices runs in one thread and awaits nothing. *)
FairSpec == Spec /\ WF_vars(Next)
-----------------------------------------------------------------------------
(* Reference: a and b are connected by the pairs E when no set closed under E
   separates them.                                                            *)
Closed(S, E) == \A p \in E : p[1] \in S <=> p[2] \in S
Connected(a, b, E) == \A S \in SUBSET Items : Closed(S, E) /\ a \in S => b \in S

(* The pairs the loops are through with. *)
Compared ==
    IF pc \in {"gather", "done"} THEN similar
    ELSE {p \in similar : p[1] < i \/ (p[1] = i /\ p[2] < j)}

Forest == {<<k, parent[k]>> : k \in Items}

(* Every variable has its type. *)
TypeOK ==
    /\ n \in 1 .. MaxItems
    /\ similar \subseteq Pairs
    /\ pc \in {"compare", "i", "j", "gather", "done"}
    /\ i \in 0 .. n /\ j \in 1 .. n /\ (pc \in {"compare", "i", "j"} => j < n)
    /\ x \in Items /\ rootA \in Items
    /\ parent \in [Items -> Items]
    /\ groups \in Seq([root : Items, members : Seq(Items)])

(* At every moment, in the middle of a find() too, the forest joins exactly what
   the pairs compared so far join, and each of its trees has exactly one root:
   path halving neither cuts a tree nor leaves a cycle.                         *)
ForestIsExact ==
    /\ \A a, b \in Items : Connected(a, b, Forest) <=> Connected(a, b, Compared)
    /\ \A a \in Items : \E r \in Items :
          \A s \in Items : parent[s] = s /\ Connected(a, s, Forest) <=> s = r

MemberSet(g) == Range(groups[g].members)

(* The groups are the connected components of similarity, in the order the batch
   relies on: every item in exactly one group, groups by their first item, items
   ascending within a group (S<k> is the k-th item of a group).                  *)
GroupsAreComponents ==
    pc = "done" =>
        /\ UNION {MemberSet(g) : g \in DOMAIN groups} = Items
        /\ \A g, h \in DOMAIN groups : \A a \in MemberSet(g), b \in MemberSet(h) :
              Connected(a, b, similar) <=> g = h
        /\ \A g, h \in DOMAIN groups : g < h => groups[g].members[1] < groups[h].members[1]
        /\ \A g \in DOMAIN groups : \A k, l \in DOMAIN groups[g].members :
              k < l => groups[g].members[k] < groups[g].members[l]

(* find() always reaches a root and the loops end. *)
GroupingEnds == <>(pc = "done")
-----------------------------------------------------------------------------
(* The inductive invariant behind the safety properties.  It speaks of closed sets
   instead of paths: a set closed under the forest is one no tree crosses.        *)

Roots == {r \in Items : parent[r] = r}

(* Going up from a member stays in T. *)
ParentClosed(T) == \A k \in T : parent[k] \in T

(* The forest and the pairs compared so far close the same sets. *)
SameClosed == \A S \in SUBSET Items : Closed(S, Forest) <=> Closed(S, Compared)

(* There is no cycle: wherever one goes up, there is a root. *)
Grounded == \A T \in SUBSET Items : T # {} /\ ParentClosed(T) => T \cap Roots # {}

(* Where the loops stand, and that find() is in the tree of the item it is for. *)
LoopsFit ==
    /\ pc \in {"compare", "i", "j"} => i < j
    /\ pc \in {"i", "j"} => <<i, j>> \in similar
    /\ pc = "i" => Connected(i, x, Forest)
    /\ pc = "j" => /\ rootA \in Roots /\ Connected(i, rootA, Forest)
                   /\ Connected(j, x, Forest)
    /\ pc = "gather" => i < n /\ Connected(i, x, Forest)
    /\ pc = "done" => i = n

(* A group knows its root, and its members are of that tree, in ascending order. *)
GroupFits(g) ==
    /\ groups[g].root \in Roots
    /\ groups[g].members # <<>>
    /\ \A k \in DOMAIN groups[g].members : Connected(groups[g].members[k], groups[g].root, Forest)
    /\ \A k, l \in DOMAIN groups[g].members : k < l => groups[g].members[k] < groups[g].members[l]

(* What is gathered so far: the first i items, a group for each root met, the
   groups in the order of their first items.                                  *)
GatheredSoFar ==
    /\ pc \notin {"gather", "done"} => groups = <<>>
    /\ pc \in {"gather", "done"} => UNION {MemberSet(g) : g \in DOMAIN groups} = 0 .. i - 1
    /\ \A g \in DOMAIN groups : GroupFits(g)
    /\ \A g, h \in DOMAIN groups : groups[g].root = groups[h].root => g = h
    /\ \A g, h \in DOMAIN groups : g < h => groups[g].members[1] < groups[h].members[1]

GroupingInv == TypeOK /\ SameClosed /\ Grounded /\ LoopsFit /\ GatheredSoFar
=============================================================================
