----------------------------- MODULE Privacy_proofs -----------------------------
(* Proofs about Privacy: for texts of any length, any layout of PII in them, and any
   spans the NER may find.                                                          *)
EXTENDS Privacy, SequenceTheorems, WellFoundedInduction, TLAPS

USE SizesAssumption
-----------------------------------------------------------------------------
(* The inductive invariant.  A masked text tiles the text it was made from: each of
   its cells stands for a stretch of the text, the stretches follow one another, and
   org[k] is where that of the k-th cell begins.                                     *)

Cells == [sort : {"text", "fixed", "token"}, label : {"word", "particle"} \cup HARD \cup SOFT \cup NER,
          id : Nat, half : 0 .. 2]
Entries == [token : Cells, original : Seq(Cells)]

ShapeOK ==
    /\ text \in Seq(Cells) /\ masked \in Seq(Cells) /\ answer \in Seq(Cells)
    /\ spans \in Seq([first : Nat, last : Nat, label : NER])
    /\ mapping \in Seq(Entries)
    /\ turn \in Nat \ {0}
    /\ counters \in [SOFT \cup NER -> Nat]
    /\ pc \in {"detect", "spans", "rules", "restore", "done"}

(* A text is made of words, particles and whole occurrences; no two of its cells are equal. *)
TextFits ==
    \A p \in DOMAIN text :
        \/ text[p] = Word(p) \/ text[p] = Particle(p)
        \/ \E label \in HARD \cup SOFT :
              \/ /\ text[p] = Half(label, p, 1)
                 /\ p + 1 \in DOMAIN text /\ text[p + 1] = Half(label, p, 2)
              \/ /\ text[p] = Half(label, p - 1, 2)
                 /\ p - 1 \in DOMAIN text /\ text[p - 1] = Half(label, p - 1, 1)

SpansFit ==
    /\ \A k \in DOMAIN spans :
          spans[k].first \in DOMAIN text /\ spans[k].last \in DOMAIN text
          /\ spans[k].first <= spans[k].last
    /\ \A k, l \in DOMAIN spans : k < l => spans[l].last < spans[k].first
    /\ pc = "detect" => spans = <<>> /\ turn = 1 /\ masked = text /\ mapping = <<>>
    /\ pc = "spans" => turn <= Len(spans) + 1

(* The spans are replaced from the right: so many cells in front are still as read. *)
AsRead ==
    IF pc \in {"detect", "spans"}
    THEN IF turn = 1 THEN Len(text) ELSE spans[turn - 1].first - 1
    ELSE 0
Taken == IF pc \in {"detect", "spans"} THEN 1 .. turn - 1 ELSE DOMAIN spans

Stored(token, original) ==
    \E e \in DOMAIN mapping : mapping[e].token = token /\ mapping[e].original = original

(* What a cell of the masked text may be: a cell of the text, ... *)
Keeps(org, k) == org[k + 1] = org[k] + 1 /\ masked[k] = text[org[k]]

(* ... the placeholder of a name or an address, ... *)
HidesSpan(org, k) ==
    /\ masked[k].sort = "token" /\ Stored(masked[k], SubSeq(text, org[k], org[k + 1] - 1))
    /\ \E s \in DOMAIN spans : spans[s].first = org[k] /\ spans[s].last + 1 = org[k + 1]

(* ... or that of an occurrence a rule came across. *)
HidesMatch(org, k) ==
    /\ org[k] \in DOMAIN text /\ Exposed(org[k]) /\ org[k + 1] = org[k] + 2
    /\ IF text[org[k]].label \in HARD
       THEN masked[k] = Placeholder(text[org[k]].label)
       ELSE masked[k].sort = "token" /\ Stored(masked[k], SubSeq(text, org[k], org[k] + 1))

Tiles(org) ==
    /\ org[1] = 1 /\ org[Len(masked) + 1] = Len(text) + 1
    /\ \A k, l \in 1 .. Len(masked) + 1 : k < l => org[k] < org[l]
    /\ \A p \in DOMAIN text : \E k \in DOMAIN masked : org[k] <= p /\ p < org[k + 1]
    /\ \A k \in DOMAIN masked : Keeps(org, k) \/ HidesSpan(org, k) \/ HidesMatch(org, k)
    /\ AsRead <= Len(masked) /\ org[AsRead + 1] = AsRead + 1
    /\ \A k \in 1 .. AsRead : org[k] = k /\ masked[k] = text[k]
    /\ \A s \in Taken : \E k \in DOMAIN masked :
          org[k] = spans[s].first /\ org[k + 1] = spans[s].last + 1 /\ masked[k].sort = "token"

Tiled == \E org \in [1 .. Len(masked) + 1 -> 1 .. Len(text) + 1] : Tiles(org)

(* A rule the loop is through with matches nowhere any more. *)
RulesDone ==
    /\ pc = "rules" => turn <= 5 /\ \A k \in 1 .. turn - 1 : Matches(masked, Rules[k]) = {}
    /\ pc \in {"restore", "done"} => \A k \in 1 .. 4 : Matches(masked, Rules[k]) = {}

(* Placeholders are told apart by their counters, and nothing hard is stored that a
   span did not take in.                                                           *)
EntryFits(e) ==
    /\ \E label \in SOFT \cup NER : \E m \in 1 .. counters[label] : mapping[e].token = Token(label, m)
    /\ \A c \in Range(mapping[e].original) :
          /\ c.sort = "text"
          /\ IsHard(c) => \E q \in DOMAIN text : text[q] = c /\ Covered(q)

MappingFits ==
    /\ \A e \in DOMAIN mapping : EntryFits(e)
    /\ \A e, f \in DOMAIN mapping : mapping[e].token = mapping[f].token => e = f

(* What the first n entries make of a cell of the masked text, and those used by now. *)
ImageAfter(n, c) ==
    IF \E e \in 1 .. n : mapping[e].token = c
    THEN mapping[CHOOSE e \in 1 .. n : mapping[e].token = c].original
    ELSE <<c>>
Image(c) == ImageAfter(turn - 1, c)

(* The masked text with what each cell has become; cells that were not copied are nothing. *)
Pieces == [k \in DOMAIN masked |-> IF k \in kept THEN Image(masked[k]) ELSE <<>>]

AnswerSoFar ==
    /\ pc \notin {"restore", "done"} => answer = <<>> /\ kept = {}
    /\ pc \in {"restore", "done"} =>
          /\ turn <= Len(mapping) + 1
          /\ kept \subseteq DOMAIN masked
          /\ answer = FlattenSeq(Pieces)
    /\ pc = "done" => turn = Len(mapping) + 1

PrivacyInv ==
    /\ ShapeOK /\ TextFits /\ SpansFit /\ Tiled
    /\ RulesDone /\ MappingFits /\ AnswerSoFar
-----------------------------------------------------------------------------
(* Induction, by sets. *)

(* A set of numbers with 0 and every successor has them all. *)
LEMMA NatSets ==
    ASSUME NEW T \in SUBSET Nat, 0 \in T, \A k \in T : k + 1 \in T
    PROVE  T = Nat
<1> SUFFICES ASSUME T # Nat PROVE FALSE
  OBVIOUS
<1> DEFINE R == OpToRel(<, Nat)
           U == Nat \ T
<1>1. \A k, l \in Nat : k < l => <<k, l>> \in R
  BY DEF OpToRel
<1>2. IsWellFoundedOn(R, Nat)
  BY NatLessThanWellFounded, Zenon
<1>3. U \subseteq Nat /\ U # {}
  OBVIOUS
<1> HIDE DEF R, U
<1>4. PICK m \in U : \A k \in U : ~ (<<k, m>> \in R)
  BY <1>2, <1>3, WFMin
<1>5. \A k \in U : ~ (k < m)
  BY <1>1, <1>3, <1>4
<1>6. m # 0 /\ m \in Nat /\ m \notin T
  BY <1>4 DEF U
<1>7. m - 1 \in Nat /\ m - 1 \notin U /\ (m - 1) + 1 = m
  BY <1>5, <1>6
<1> QED
  BY <1>6, <1>7 DEF U

(* A set of sequences with the empty one and every extension has them all. *)
LEMMA SeqSets ==
    ASSUME NEW S, NEW T \in SUBSET Seq(S), <<>> \in T,
           \A s \in T, e \in S : Append(s, e) \in T
    PROVE  T = Seq(S)
<1> DEFINE N == {n \in Nat : \A s \in Seq(S) : Len(s) = n => s \in T}
<1>1. 0 \in N
  BY EmptySeq
<1>2. ASSUME NEW n \in N PROVE n + 1 \in N
  <2> SUFFICES ASSUME NEW s \in Seq(S), Len(s) = n + 1 PROVE s \in T
    OBVIOUS
  <2> DEFINE f == SubSeq(s, 1, n)
  <2>1. n \in Nat /\ n + 1 \in 1 .. Len(s) /\ s[n + 1] \in S
    BY ElementOfSeq
  <2>2. /\ f \in Seq(S) /\ Len(f) = n
        /\ \A k \in 1 .. n : f[k] = s[k]
    BY <2>1, SubSeqProperties
  <2> HIDE DEF f
  <2>3. f \in T
    BY <1>2, <2>2
  <2>4. s = Append(f, s[n + 1])
    <3> DEFINE t == Append(f, s[n + 1])
    <3>1. /\ t \in Seq(S) /\ Len(t) = n + 1 /\ t[n + 1] = s[n + 1]
          /\ \A k \in 1 .. n : t[k] = s[k]
      <4>0. f \in Seq(S) /\ s[n + 1] \in S
        BY <2>1, <2>2
      <4>1. /\ t \in Seq(S) /\ Len(t) = Len(f) + 1 /\ t[Len(f) + 1] = s[n + 1]
            /\ \A k \in 1 .. Len(f) : t[k] = f[k]
        BY <4>0, AppendProperties
      <4> HIDE DEF t
      <4> QED
        BY <2>2, <4>1
    <3> HIDE DEF t
    <3>2. \A k \in 1 .. n + 1 : t[k] = s[k]
      BY <2>1, <3>1
    <3> QED
      BY <3>1, <3>2, SeqEqual DEF t
  <2> QED
    BY <2>1, <2>3, <2>4
<1>3. N = Nat
  <2> HIDE DEF N
  <2>1. N \in SUBSET Nat
    BY DEF N
  <2> QED
    BY <1>1, <1>2, <2>1, NatSets
<1>4. \A s \in Seq(S) : Len(s) \in Nat
  BY LenProperties
<1> QED
  BY <1>3, <1>4
-----------------------------------------------------------------------------
(* FlattenSeq. *)

(* It joins sequences one after the other. *)
LEMMA FlattenSteps ==
    ASSUME NEW S, NEW ss \in Seq(Seq(S)), Len(ss) # 0
    PROVE  \E f \in [1 .. Len(ss) -> Seq(S)] :
              /\ FlattenSeq(ss) = f[Len(ss)]
              /\ \A k \in 1 .. Len(ss) : f[k] = IF k = 1 THEN ss[k] ELSE f[k - 1] \o ss[k]
<1> DEFINE n == Len(ss)
           Good(f, m) == \A k \in 1 .. m : f[k] = IF k = 1 THEN ss[k] ELSE f[k - 1] \o ss[k]
           N == {m \in Nat : m \in 1 .. n => \E f \in [1 .. m -> Seq(S)] : Good(f, m)}
<1>0. n \in Nat /\ n \in 1 .. n /\ \A k \in 1 .. n : ss[k] \in Seq(S)
  BY LenProperties, ElementOfSeq
<1> HIDE DEF n
<1>1. N = Nat
  <2>1. 0 \in N
    OBVIOUS
  <2>2. ASSUME NEW m \in N PROVE m + 1 \in N
    <3> SUFFICES ASSUME m + 1 \in 1 .. n
                 PROVE  \E f \in [1 .. m + 1 -> Seq(S)] : Good(f, m + 1)
      OBVIOUS
    <3>1. CASE m = 0
      <4>1. [k \in 1 .. m + 1 |-> ss[1]] \in [1 .. m + 1 -> Seq(S)]
        BY <1>0, <3>1
      <4>2. Good([k \in 1 .. m + 1 |-> ss[1]], m + 1)
        BY <3>1
      <4> QED
        BY <4>1, <4>2
    <3>2. CASE m # 0
      <4>0. m \in Nat /\ m \in 1 .. n
        BY <1>0, <2>2, <3>2
      <4>1. PICK f \in [1 .. m -> Seq(S)] : Good(f, m)
        BY <2>2, <4>0
      <4> DEFINE g == [k \in 1 .. m + 1 |-> IF k = m + 1 THEN f[m] \o ss[k] ELSE f[k]]
      <4>2. m \in Nat /\ f[m] \in Seq(S) /\ f[m] \o ss[m + 1] \in Seq(S)
        BY <1>0, <2>2, <3>2, ConcatProperties
      <4>3. g \in [1 .. m + 1 -> Seq(S)]
        BY <4>2
      <4>4. Good(g, m + 1)
        <5> SUFFICES ASSUME NEW k \in 1 .. m + 1
                     PROVE  g[k] = IF k = 1 THEN ss[k] ELSE g[k - 1] \o ss[k]
          OBVIOUS
        <5>1. CASE k = m + 1
          <6>1. k - 1 = m /\ k # 1 /\ m \in 1 .. m + 1
            BY <3>2, <4>2, <5>1
          <6>2. g[m] = f[m] /\ g[k] = f[m] \o ss[k]
            BY <4>2, <5>1, <6>1
          <6> QED
            BY <6>1, <6>2
        <5>2. CASE k # m + 1
          <6>1. k \in 1 .. m /\ g[k] = f[k]
            BY <4>2, <5>2
          <6>2. k # 1 => g[k - 1] = f[k - 1]
            BY <4>2, <6>1
          <6> QED
            BY <4>1, <6>1, <6>2
        <5> QED
          BY <5>1, <5>2
      <4> HIDE DEF g
      <4> QED
        BY <4>3, <4>4
    <3> QED
      BY <3>1, <3>2
  <2> HIDE DEF N
  <2>3. N \in SUBSET Nat
    BY DEF N
  <2> QED
    BY <2>1, <2>2, <2>3, NatSets
<1>2. PICK f \in [1 .. n -> Seq(S)] : Good(f, n)
  BY <1>0, <1>1
<1>3. f = [k \in 1 .. n |-> IF k = 1 THEN ss[k] ELSE f[k - 1] \o ss[k]]
  BY <1>2
<1> DEFINE h == CHOOSE g : g = [k \in 1 .. n |-> IF k = 1 THEN ss[k] ELSE g[k - 1] \o ss[k]]
<1>4. h = [k \in 1 .. n |-> IF k = 1 THEN ss[k] ELSE h[k - 1] \o ss[k]]
  BY <1>3
<1>5. FlattenSeq(ss) = h[n]
  BY DEF FlattenSeq, n
<1> HIDE DEF h
<1>6. Good(h, n)
  BY <1>4
<1>7. \A k \in 1 .. n : h[k] \in Seq(S)
  <2> DEFINE M == {m \in Nat : m \in 1 .. n => h[m] \in Seq(S)}
  <2>1. 0 \in M
    OBVIOUS
  <2>2. ASSUME NEW m \in M PROVE m + 1 \in M
    <3> SUFFICES ASSUME m + 1 \in 1 .. n PROVE h[m + 1] \in Seq(S)
      OBVIOUS
    <3>1. CASE m = 0
      <4>1. m + 1 = 1 /\ h[m + 1] = ss[m + 1]
        BY <1>6, <3>1
      <4> QED
        BY <1>0, <4>1
    <3>2. CASE m # 0
      <4>1. m \in 1 .. n /\ h[m] \in Seq(S) /\ m + 1 # 1 /\ (m + 1) - 1 = m
        BY <1>0, <2>2, <3>2
      <4>2. h[m + 1] = h[m] \o ss[m + 1]
        BY <1>6, <4>1
      <4> QED
        BY <1>0, <4>1, <4>2, ConcatProperties
    <3> QED
      BY <3>1, <3>2
  <2>3. \A m \in Nat : m \in M
    <3> HIDE DEF M
    <3>1. M \in SUBSET Nat
      BY DEF M
    <3> QED
      BY <2>1, <2>2, <3>1, NatSets
  <2> QED
    BY <1>0, <2>3
<1>8. h \in [1 .. n -> Seq(S)]
  BY <1>4, <1>7
<1> QED
  BY <1>5, <1>6, <1>8 DEF n

(* So it is defined by what it makes of no sequence and of one more sequence. *)
LEMMA FlattenProperties ==
    ASSUME NEW S
    PROVE  /\ FlattenSeq(<<>>) = <<>>
           /\ \A ss \in Seq(Seq(S)) : FlattenSeq(ss) \in Seq(S)
           /\ \A ss \in Seq(Seq(S)), s \in Seq(S) :
                 FlattenSeq(Append(ss, s)) = FlattenSeq(ss) \o s
<1>1. FlattenSeq(<<>>) = <<>>
  BY DEF FlattenSeq
<1>2. ASSUME NEW ss \in Seq(Seq(S)) PROVE FlattenSeq(ss) \in Seq(S)
  <2>1. CASE Len(ss) = 0
    BY <1>1, <2>1, EmptySeq
  <2>2. CASE Len(ss) # 0
    <3>1. Len(ss) \in 1 .. Len(ss)
      BY <2>2, LenProperties
    <3> QED
      BY <2>2, <3>1, FlattenSteps
  <2> QED
    BY <2>1, <2>2
<1>3. ASSUME NEW ss \in Seq(Seq(S)), NEW s \in Seq(S)
      PROVE  FlattenSeq(Append(ss, s)) = FlattenSeq(ss) \o s
  <2> DEFINE n == Len(ss)
             tt == Append(ss, s)
  <2>1. /\ n \in Nat /\ tt \in Seq(Seq(S)) /\ Len(tt) = n + 1 /\ tt[n + 1] = s
        /\ \A k \in 1 .. n : tt[k] = ss[k]
    BY AppendProperties, LenProperties
  <2> HIDE DEF tt, n
  <2>2. Len(tt) # 0
    BY <2>1
  <2>3. PICK g \in [1 .. Len(tt) -> Seq(S)] :
           /\ FlattenSeq(tt) = g[Len(tt)]
           /\ \A k \in 1 .. Len(tt) : g[k] = IF k = 1 THEN tt[k] ELSE g[k - 1] \o tt[k]
    BY <2>1, <2>2, FlattenSteps, ZenonT(60)
  <2>4. CASE n = 0
    <3>1. ss = <<>>
      BY <2>4, EmptySeq DEF n
    <3>2. FlattenSeq(tt) = s
      BY <2>1, <2>3, <2>4
    <3>3. <<>> \o s = s
      BY ConcatEmptySeq
    <3> QED
      BY <1>1, <3>1, <3>2, <3>3 DEF tt
  <2>5. CASE n # 0
    <3>1. PICK f \in [1 .. n -> Seq(S)] :
             /\ FlattenSeq(ss) = f[n]
             /\ \A k \in 1 .. n : f[k] = IF k = 1 THEN ss[k] ELSE f[k - 1] \o ss[k]
      BY <2>5, FlattenSteps DEF n
    <3>0. /\ g[1] = tt[1] /\ f[1] = ss[1]
          /\ \A k \in 1 .. n : k # 1 => g[k] = g[k - 1] \o tt[k] /\ f[k] = f[k - 1] \o ss[k]
      <4>1. g[1] = tt[1] /\ f[1] = ss[1]
        <5>1. 1 \in 1 .. n /\ 1 \in 1 .. Len(tt)
          BY <2>1, <2>5
        <5>2. g[1] = tt[1]
          BY <2>3, <5>1
        <5>3. f[1] = ss[1]
          BY <3>1, <5>1
        <5> QED
          BY <5>2, <5>3
      <4>2. ASSUME NEW k \in 1 .. n, k # 1
            PROVE  g[k] = g[k - 1] \o tt[k] /\ f[k] = f[k - 1] \o ss[k]
        <5>1. k \in 1 .. Len(tt)
          BY <2>1, <4>2
        <5>2. g[k] = g[k - 1] \o tt[k]
          BY <2>3, <4>2, <5>1
        <5>3. f[k] = f[k - 1] \o ss[k]
          BY <3>1, <4>2
        <5> QED
          BY <5>2, <5>3
      <4> QED
        BY <4>1, <4>2
    <3> DEFINE M == {m \in Nat : m \in 1 .. n => g[m] = f[m]}
    <3>2. 0 \in M
      OBVIOUS
    <3>3. ASSUME NEW m \in M PROVE m + 1 \in M
      <4> SUFFICES ASSUME m + 1 \in 1 .. n PROVE g[m + 1] = f[m + 1]
        OBVIOUS
      <4>1. m + 1 \in 1 .. n + 1 /\ tt[m + 1] = ss[m + 1]
        BY <2>1
      <4>2. CASE m = 0
        BY <3>0, <4>1, <4>2
      <4>3. CASE m # 0
        <5>1. m \in 1 .. n /\ g[m] = f[m] /\ m + 1 # 1 /\ (m + 1) - 1 = m
          BY <2>1, <3>3, <4>3
        <5> QED
          BY <3>0, <4>1, <5>1
      <4> QED
        BY <4>2, <4>3
    <3>4. \A m \in Nat : m \in M
      <4> HIDE DEF M
      <4>1. M \in SUBSET Nat
        BY DEF M
      <4> QED
        BY <3>2, <3>3, <4>1, NatSets
    <3>5. n \in 1 .. n /\ n + 1 \in 1 .. n + 1 /\ n + 1 # 1 /\ (n + 1) - 1 = n
      BY <2>1, <2>5
    <3>6. g[n] = f[n]
      BY <2>1, <3>4, <3>5
    <3>7. g[n + 1] = g[n] \o tt[n + 1]
      BY <2>1, <2>3, <3>5
    <3> QED
      BY <2>1, <2>3, <3>1, <3>6, <3>7 DEF tt
  <2> QED
    BY <2>4, <2>5
<1> QED
  BY <1>1, <1>2, <1>3
-----------------------------------------------------------------------------
(* Replacing every element of a sequence by a sequence: what restoring amounts to. *)

Mapped(s, h) == FlattenSeq([k \in DOMAIN s |-> h[s[k]]])

(* It, too, is defined by what it makes of nothing and of one more element. *)
LEMMA MappedProperties ==
    ASSUME NEW S, NEW R, NEW h \in [S -> Seq(R)]
    PROVE  /\ Mapped(<<>>, h) = <<>>
           /\ \A s \in Seq(S) : Mapped(s, h) \in Seq(R)
           /\ \A s \in Seq(S), e \in S : Mapped(Append(s, e), h) = Mapped(s, h) \o h[e]
<1> DEFINE Parts(s) == [k \in DOMAIN s |-> h[s[k]]]
<1>1. ASSUME NEW s \in Seq(S)
      PROVE  Parts(s) \in Seq(Seq(R)) /\ Len(Parts(s)) = Len(s)
  <2>1. DOMAIN s = 1 .. Len(s) /\ Len(s) \in Nat /\ \A k \in 1 .. Len(s) : s[k] \in S
    BY LenProperties, ElementOfSeq
  <2>2. Parts(s) \in [1 .. Len(s) -> Seq(R)]
    BY <2>1
  <2> QED
    BY <2>1, <2>2, SeqDef
<1>2. Mapped(<<>>, h) = <<>>
  <2>1. Parts(<<>>) = <<>>
    OBVIOUS
  <2> QED
    BY <2>1, FlattenProperties DEF Mapped
<1>3. ASSUME NEW s \in Seq(S), NEW e \in S
      PROVE  Mapped(Append(s, e), h) = Mapped(s, h) \o h[e]
  <2> DEFINE t == Append(s, e)
             n == Len(s)
  <2>1. /\ t \in Seq(S) /\ Len(t) = n + 1 /\ t[n + 1] = e /\ n \in Nat
        /\ \A k \in 1 .. n : t[k] = s[k]
    BY AppendProperties, LenProperties
  <2>2. DOMAIN t = 1 .. n + 1 /\ DOMAIN s = 1 .. n
    BY <2>1, LenProperties
  <2>3. Parts(s) \in Seq(Seq(R)) /\ Len(Parts(s)) = n /\ h[e] \in Seq(R)
    BY <1>1
  <2>4. Parts(t) \in Seq(Seq(R)) /\ Len(Parts(t)) = n + 1
    BY <1>1, <2>1
  <2> DEFINE u == Append(Parts(s), h[e])
  <2>5. u \in Seq(Seq(R)) /\ Len(u) = n + 1 /\ u[n + 1] = h[e] /\ \A k \in 1 .. n : u[k] = Parts(s)[k]
    <3> DEFINE P == Parts(s)
    <3>1. P \in Seq(Seq(R)) /\ Len(P) = n /\ h[e] \in Seq(R)
      BY <2>3
    <3> HIDE DEF P, n
    <3>2. /\ Append(P, h[e]) \in Seq(Seq(R)) /\ Len(Append(P, h[e])) = Len(P) + 1
          /\ Append(P, h[e])[Len(P) + 1] = h[e]
          /\ \A k \in 1 .. Len(P) : Append(P, h[e])[k] = P[k]
      BY <3>1, AppendProperties
    <3> QED
      BY <3>1, <3>2 DEF P
  <2>6. \A k \in 1 .. n + 1 : Parts(t)[k] = u[k]
    <3> SUFFICES ASSUME NEW k \in 1 .. n + 1 PROVE Parts(t)[k] = u[k]
      OBVIOUS
    <3>1. CASE k \in 1 .. n
      <4>1. Parts(t)[k] = h[t[k]] /\ t[k] = s[k] /\ Parts(s)[k] = h[s[k]] /\ u[k] = Parts(s)[k]
        BY <2>1, <2>2, <2>5, <3>1
      <4> QED
        BY <4>1
    <3>2. CASE k = n + 1
      <4>1. Parts(t)[k] = h[t[k]] /\ t[k] = e /\ u[k] = h[e]
        BY <2>1, <2>2, <2>5, <3>2
      <4> QED
        BY <4>1
    <3> QED
      BY <2>1, <3>1, <3>2
  <2>7. Parts(t) = u
    <3> HIDE DEF Parts, u
    <3> QED
      BY <2>4, <2>5, <2>6, SeqEqual
  <2>8. FlattenSeq(u) = FlattenSeq(Parts(s)) \o h[e]
    <3> HIDE DEF Parts
    <3> QED
      BY <2>3, FlattenProperties
  <2> QED
    BY <2>7, <2>8 DEF Mapped
<1>4. ASSUME NEW s \in Seq(S) PROVE Mapped(s, h) \in Seq(R)
  <2> HIDE DEF Parts
  <2>1. FlattenSeq(Parts(s)) \in Seq(R)
    BY <1>1, FlattenProperties
  <2> QED
    BY <2>1 DEF Mapped, Parts
<1> QED
  BY <1>2, <1>3, <1>4

(* The same, of one sequence. *)
LEMMA MappedAppend ==
    ASSUME NEW S, NEW R, NEW h \in [S -> Seq(R)], NEW s \in Seq(S), NEW e \in S,
           NEW t, t = Append(s, e)
    PROVE  Mapped(t, h) = Mapped(s, h) \o h[e]
BY MappedProperties

(* An element alone. *)
LEMMA MappedSingle ==
    ASSUME NEW S, NEW R, NEW h \in [S -> Seq(R)], NEW e \in S
    PROVE  Mapped(<<e>>, h) = h[e]
<1>1. <<e>> = Append(<<>>, e) /\ <<>> \in Seq(S)
  BY EmptySeq
<1>2. Mapped(Append(<<>>, e), h) = Mapped(<<>>, h) \o h[e]
  BY <1>1, MappedAppend
<1>4. Mapped(<<>>, h) = <<>>
  BY MappedProperties
<1>3. <<>> \o h[e] = h[e]
  BY ConcatEmptySeq
<1> QED
  BY <1>1, <1>2, <1>3, <1>4

(* A sequence after another. *)
LEMMA MappedConcat ==
    ASSUME NEW S, NEW R, NEW h \in [S -> Seq(R)], NEW s \in Seq(S), NEW t \in Seq(S)
    PROVE  Mapped(s \o t, h) = Mapped(s, h) \o Mapped(t, h)
<1> DEFINE T == {u \in Seq(S) : Mapped(s \o u, h) = Mapped(s, h) \o Mapped(u, h)}
<1>1. <<>> \in T
  <2>1. <<>> \in Seq(S) /\ s \o <<>> = s /\ Mapped(s, h) \in Seq(R) /\ Mapped(<<>>, h) = <<>>
    BY EmptySeq, ConcatEmptySeq, MappedProperties
  <2>2. Mapped(s, h) \o <<>> = Mapped(s, h)
    BY <2>1, ConcatEmptySeq
  <2> QED
    BY <2>1, <2>2
<1>2. ASSUME NEW u \in T, NEW e \in S PROVE Append(u, e) \in T
  <2>1. u \in Seq(S) /\ Append(u, e) \in Seq(S) /\ <<e>> \in Seq(S) /\ s \o u \in Seq(S)
    BY AppendProperties, ConcatProperties
  <2>9. Mapped(s \o u, h) = Mapped(s, h) \o Mapped(u, h)
    BY <1>2
  <2> SUFFICES Mapped(s \o Append(u, e), h) = Mapped(s, h) \o Mapped(Append(u, e), h)
    BY <2>1
  <2> HIDE DEF T
  <2>2. Append(u, e) = u \o <<e>> /\ Append(s \o u, e) = (s \o u) \o <<e>>
    BY <2>1, AppendIsConcat
  <2>3. (s \o u) \o <<e>> = s \o (u \o <<e>>)
    BY <2>1, ConcatAssociative
  <2>4. s \o Append(u, e) = Append(s \o u, e)
    BY <2>2, <2>3
  <2>5. Mapped(Append(s \o u, e), h) = Mapped(s \o u, h) \o h[e]
    BY <2>1, MappedAppend
  <2>6. Mapped(Append(u, e), h) = Mapped(u, h) \o h[e]
    BY <2>1, MappedAppend
  <2>7. Mapped(s, h) \in Seq(R) /\ Mapped(u, h) \in Seq(R) /\ h[e] \in Seq(R)
    BY <2>1, MappedProperties
  <2>8. (Mapped(s, h) \o Mapped(u, h)) \o h[e] = Mapped(s, h) \o (Mapped(u, h) \o h[e])
    BY <2>7, ConcatAssociative, SMTT(30)
  <2> QED
    BY <2>4, <2>5, <2>6, <2>8, <2>9
<1>3. T = Seq(S)
  <2> HIDE DEF T
  <2>1. T \in SUBSET Seq(S)
    BY DEF T
  <2> QED
    BY <1>1, <1>2, <2>1, SeqSets
<1> QED
  BY <1>3

(* Sequences joined by FlattenSeq: replace in each, then join. *)
LEMMA MappedFlatten ==
    ASSUME NEW S, NEW R, NEW h \in [S -> Seq(R)], NEW ss \in Seq(Seq(S))
    PROVE  Mapped(FlattenSeq(ss), h) = FlattenSeq([k \in DOMAIN ss |-> Mapped(ss[k], h)])
<1> DEFINE g == [s \in Seq(S) |-> Mapped(s, h)]
           T == {tt \in Seq(Seq(S)) : Mapped(FlattenSeq(tt), h) = Mapped(tt, g)}
<1>1. g \in [Seq(S) -> Seq(R)] /\ \A s \in Seq(S) : g[s] = Mapped(s, h)
  BY MappedProperties
<1> HIDE DEF g
<1>2. <<>> \in T
  <2>1. <<>> \in Seq(Seq(S))
    BY EmptySeq
  <2>2. FlattenSeq(<<>>) = <<>>
    BY FlattenProperties
  <2>3. Mapped(<<>>, h) = <<>>
    BY MappedProperties
  <2>4. Mapped(<<>>, g) = <<>>
    BY <1>1, MappedProperties
  <2> QED
    BY <2>1, <2>2, <2>3, <2>4
<1>3. ASSUME NEW tt \in T, NEW s \in Seq(S) PROVE Append(tt, s) \in T
  <2>1. tt \in Seq(Seq(S)) /\ Append(tt, s) \in Seq(Seq(S))
    BY AppendProperties
  <2>2. FlattenSeq(Append(tt, s)) = FlattenSeq(tt) \o s /\ FlattenSeq(tt) \in Seq(S)
    BY <2>1, FlattenProperties
  <2>3. Mapped(FlattenSeq(tt) \o s, h) = Mapped(FlattenSeq(tt), h) \o Mapped(s, h)
    BY <2>2, MappedConcat, ZenonT(60)
  <2>4. Mapped(Append(tt, s), g) = Mapped(tt, g) \o g[s]
    <3> HIDE DEF T
    <3> QED
      BY <1>1, <2>1, MappedAppend
  <2>5. Mapped(FlattenSeq(Append(tt, s)), h) = Mapped(Append(tt, s), g)
    BY <1>1, <1>3, <2>2, <2>3, <2>4
  <2> QED
    BY <2>1, <2>5
<1>4. T = Seq(Seq(S))
  <2> HIDE DEF T
  <2>1. T \in SUBSET Seq(Seq(S))
    BY DEF T
  <2> QED
    BY <1>2, <1>3, <2>1, SeqSets
<1>5. Mapped(FlattenSeq(ss), h) = Mapped(ss, g)
  BY <1>4
<1>6. \A k \in DOMAIN ss : g[ss[k]] = Mapped(ss[k], h)
  <2>1. DOMAIN ss = 1 .. Len(ss) /\ \A k \in 1 .. Len(ss) : ss[k] \in Seq(S)
    BY LenProperties, ElementOfSeq
  <2> QED
    BY <1>1, <2>1
<1>7. [k \in DOMAIN ss |-> g[ss[k]]] = [k \in DOMAIN ss |-> Mapped(ss[k], h)]
  BY <1>6
<1> QED
  BY <1>5, <1>7 DEF Mapped

(* Where every element stands for itself, nothing changes. *)
Fixes(h, s) == \A k \in DOMAIN s : h[s[k]] = <<s[k]>>

LEMMA MappedIdentity ==
    ASSUME NEW S, NEW h \in [S -> Seq(S)], NEW s \in Seq(S), Fixes(h, s)
    PROVE  Mapped(s, h) = s
<1> DEFINE Fixed == {e \in S : h[e] = <<e>>}
           T == {t \in Seq(Fixed) : Mapped(t, h) = t}
<1>1. Fixed \subseteq S
  OBVIOUS
<1>2. <<>> \in T
  BY EmptySeq, MappedProperties
<1>3. ASSUME NEW t \in T, NEW e \in Fixed PROVE Append(t, e) \in T
  <2>1. t \in Seq(Fixed) /\ t \in Seq(S) /\ e \in S /\ Mapped(t, h) = t /\ h[e] = <<e>>
    BY <1>1, SeqMonotonic
  <2>2. Append(t, e) = t \o <<e>> /\ Append(t, e) \in Seq(Fixed)
    BY <2>1, AppendIsConcat, AppendProperties
  <2>3. Mapped(Append(t, e), h) = Mapped(t, h) \o h[e]
    <3> HIDE DEF T, Fixed
    <3>1. t \in Seq(S) /\ e \in S
      BY <2>1
    <3> QED
      BY <3>1, MappedAppend, Zenon
  <2> QED
    BY <2>1, <2>2, <2>3
<1>4. T = Seq(Fixed)
  <2> HIDE DEF T, Fixed
  <2>1. T \in SUBSET Seq(Fixed)
    BY DEF T
  <2> QED
    BY <1>2, <1>3, <2>1, SeqSets
<1>5. s \in Seq(Fixed)
  <2>1. DOMAIN s = 1 .. Len(s) /\ Len(s) \in Nat /\ s \in [1 .. Len(s) -> S]
    BY LenProperties
  <2>2. s \in [1 .. Len(s) -> Fixed]
    BY <2>1 DEF Fixes
  <2> HIDE DEF Fixed
  <2>3. Seq(Fixed) = UNION {[1 .. n -> Fixed] : n \in Nat}
    BY SeqDef
  <2> QED
    BY <2>1, <2>2, <2>3, Zenon
<1> QED
  BY <1>4, <1>5
-----------------------------------------------------------------------------
(* Slices and splices. *)

(* The least of two numbers. *)
LEMMA MinOfTwo ==
    ASSUME NEW a \in Int, NEW b \in Int, a <= b
    PROVE  Min({a, b}) = a
BY DEF Min

(* A set of positions has a least one. *)
LEMMA MinIsThere ==
    ASSUME NEW T \in SUBSET Nat, T # {}
    PROVE  Min(T) \in T
<1> DEFINE R == OpToRel(<, Nat)
<1>1. \A k, l \in Nat : k < l => <<k, l>> \in R
  BY DEF OpToRel
<1>2. IsWellFoundedOn(R, Nat)
  BY NatLessThanWellFounded, Zenon
<1> HIDE DEF R
<1>3. PICK m \in T : \A k \in T : ~ (<<k, m>> \in R)
  BY <1>2, WFMin
<1>4. m \in Nat /\ \A k \in T : k \in Nat /\ ~ (k < m)
  BY <1>1, <1>3
<1>5. \A k \in T : m <= k
  BY <1>4
<1> QED
  BY <1>3, <1>5 DEF Min

(* A slice that ends inside the text is a subsequence. *)
LEMMA SliceFacts ==
    ASSUME NEW S, NEW s \in Seq(S), NEW a \in Nat \ {0}, NEW b \in 0 .. Len(s)
    PROVE  /\ Slice(s, a, b) = SubSeq(s, a, b)
           /\ Slice(s, a, b) \in Seq(S)
           /\ Len(Slice(s, a, b)) = IF a <= b THEN b - a + 1 ELSE 0
           /\ \A k \in 1 .. b - a + 1 : Slice(s, a, b)[k] = s[a + k - 1]
<1>1. Len(s) \in Nat /\ a \in Int /\ b \in Int /\ \A k \in a .. b : s[k] \in S
  BY LenProperties, ElementOfSeq
<1>2. Min({b, Len(s)}) = b
  BY <1>1, MinOfTwo
<1>3. Slice(s, a, b) = SubSeq(s, a, b)
  BY <1>2 DEF Slice
<1>4. /\ SubSeq(s, a, b) \in Seq(S)
      /\ Len(SubSeq(s, a, b)) = IF a <= b THEN b - a + 1 ELSE 0
      /\ \A k \in 1 .. b - a + 1 : SubSeq(s, a, b)[k] = s[a + k - 1]
  BY <1>1, SubSeqProperties
<1> QED
  BY <1>3, <1>4

(* One cell takes the place of a stretch; what follows moves up. *)
LEMMA SpliceFacts ==
    ASSUME NEW s \in Seq(Cells), NEW r \in Cells, NEW a \in 1 .. Len(s), NEW b \in a .. Len(s)
    PROVE  /\ Splice(s, a, b, r) \in Seq(Cells)
           /\ Len(Splice(s, a, b, r)) = Len(s) - (b - a)
           /\ \A k \in 1 .. Len(s) - (b - a) :
                 Splice(s, a, b, r)[k] =
                     IF k < a THEN s[k] ELSE IF k = a THEN r ELSE s[k + (b - a)]
<1> DEFINE t == Splice(s, a, b, r)
           S == Cells
           u == Slice(s, 1, a - 1)
           v == <<r>>
           w == Slice(s, b + 1, Len(s))
           n == Len(s)
<1>1. n \in Nat /\ a \in Nat /\ b \in Nat /\ 1 <= a /\ a <= b /\ b <= n
  BY LenProperties
<1>2. /\ u \in Seq(S) /\ Len(u) = a - 1 /\ \A k \in 1 .. a - 1 : u[k] = s[k]
  <2>1. 1 \in Nat \ {0} /\ a - 1 \in 0 .. Len(s)
    BY <1>1
  <2>2. /\ u \in Seq(S) /\ Len(u) = IF 1 <= a - 1 THEN (a - 1) - 1 + 1 ELSE 0
        /\ \A k \in 1 .. (a - 1) - 1 + 1 : u[k] = s[1 + k - 1]
    BY <2>1, SliceFacts, ZenonT(60)
  <2> HIDE DEF u
  <2> QED
    BY <1>1, <2>2
<1>3. w \in Seq(S) /\ Len(w) = n - b /\ \A k \in 1 .. n - b : w[k] = s[b + k]
  <2>1. b + 1 \in Nat \ {0} /\ n \in 0 .. Len(s)
    BY <1>1
  <2>2. /\ w \in Seq(S) /\ Len(w) = IF b + 1 <= n THEN n - (b + 1) + 1 ELSE 0
        /\ \A k \in 1 .. n - (b + 1) + 1 : w[k] = s[b + 1 + k - 1]
    BY <2>1, SliceFacts, ZenonT(60)
  <2> HIDE DEF w, n
  <2> QED
    BY <1>1, <2>2
<1>4. v \in Seq(S) /\ Len(v) = 1 /\ v[1] = r
  OBVIOUS
<1>12. s \in Seq(S) /\ r \in S
  OBVIOUS
<1> HIDE DEF S, u, v, w, n
<1>5. /\ u \o v \in Seq(S) /\ Len(u \o v) = Len(u) + Len(v)
      /\ \A k \in 1 .. Len(u) + Len(v) : (u \o v)[k] = IF k <= Len(u) THEN u[k] ELSE v[k - Len(u)]
  BY <1>2, <1>4, ConcatProperties
<1> DEFINE x == u \o v
<1>6. x \in Seq(S) /\ Len(x) = a /\ \A k \in 1 .. a : x[k] = IF k < a THEN s[k] ELSE r
  BY <1>1, <1>2, <1>4, <1>5
<1> HIDE DEF x
<1>7. /\ x \o w \in Seq(S) /\ Len(x \o w) = Len(x) + Len(w)
      /\ \A k \in 1 .. Len(x) + Len(w) : (x \o w)[k] = IF k <= Len(x) THEN x[k] ELSE w[k - Len(x)]
  BY <1>3, <1>6, ConcatProperties
<1>8. Splice(s, a, b, r) = x \o w
  BY DEF Splice, x, u, v, w, n
<1>11. t = x \o w
  BY <1>8
<1> HIDE DEF t
<1>9. t \in Seq(S) /\ Len(t) = n - (b - a)
  BY <1>1, <1>3, <1>6, <1>7, <1>11
<1>10. \A k \in 1 .. n - (b - a) : t[k] = IF k < a THEN s[k] ELSE IF k = a THEN r ELSE s[k + (b - a)]
  <2> SUFFICES ASSUME NEW k \in 1 .. n - (b - a)
               PROVE  t[k] = IF k < a THEN s[k] ELSE IF k = a THEN r ELSE s[k + (b - a)]
    OBVIOUS
  <2>1. CASE k <= a
    BY <1>1, <1>3, <1>6, <1>7, <1>11, <2>1
  <2>2. CASE k > a
    <3>1. k - a \in 1 .. n - b /\ b + (k - a) = k + (b - a)
      BY <1>1, <2>2
    <3>2. t[k] = w[k - a]
      BY <1>1, <1>3, <1>6, <1>7, <1>11, <2>2, SMTT(30)
    <3> QED
      BY <1>1, <1>3, <2>2, <3>1, <3>2
  <2> QED
    BY <1>1, <2>1, <2>2
<1> QED
  BY <1>9, <1>10 DEF n, S, t
-----------------------------------------------------------------------------
(* Texts, and how a masked one tiles the text it was made from. *)

(* A position of a text tells what its neighbours are, and no cell is there twice. *)
LEMMA TextFacts ==
    ASSUME ShapeOK, TextFits
    PROVE  /\ \A p \in DOMAIN text : text[p] \in Cells /\ text[p].sort = "text"
           /\ \A p, q \in DOMAIN text : text[p] = text[q] => p = q
           /\ \A p \in DOMAIN text : text[p].half = 0 => text[p].label \in {"word", "particle"}
           /\ \A p \in DOMAIN text : text[p].half # 0 => ~ Sticks(text, p)
           /\ \A p \in DOMAIN text : text[p].half = 1 =>
                 /\ text[p].label \in HARD \cup SOFT /\ text[p].id = p
                 /\ p + 1 \in DOMAIN text /\ text[p + 1] = Half(text[p].label, p, 2)
           /\ \A p \in DOMAIN text : text[p].half = 2 =>
                 /\ text[p].label \in HARD \cup SOFT /\ text[p].id = p - 1
                 /\ p - 1 \in DOMAIN text /\ text[p - 1] = Half(text[p].label, p - 1, 1)
<1>1. Len(text) \in Nat /\ DOMAIN text = 1 .. Len(text) /\ \A p \in DOMAIN text : text[p] \in Cells
  <2>1. text \in Seq(Cells)
    BY DEF ShapeOK
  <2> QED
    BY <2>1, LenProperties, ElementOfSeq
<1>2. ASSUME NEW p \in DOMAIN text
      PROVE  \/ text[p].sort = "text" /\ text[p].half = 0 /\ text[p].id = p
                /\ text[p].label \in {"word", "particle"}
             \/ /\ text[p].sort = "text" /\ text[p].half = 1 /\ text[p].id = p
                /\ text[p].label \in HARD \cup SOFT
                /\ p + 1 \in DOMAIN text /\ text[p + 1] = Half(text[p].label, p, 2)
             \/ /\ text[p].sort = "text" /\ text[p].half = 2 /\ text[p].id = p - 1
                /\ text[p].label \in HARD \cup SOFT
                /\ p - 1 \in DOMAIN text /\ text[p - 1] = Half(text[p].label, p - 1, 1)
  <2>1. CASE text[p] = Word(p) \/ text[p] = Particle(p)
    BY <2>1 DEF Word, Particle, Cell
  <2>2. ASSUME NEW label \in HARD \cup SOFT, text[p] = Half(label, p, 1),
               p + 1 \in DOMAIN text, text[p + 1] = Half(label, p, 2)
        PROVE  /\ text[p].sort = "text" /\ text[p].half = 1 /\ text[p].id = p
               /\ text[p].label = label
    BY <2>2 DEF Half, Cell
  <2>3. ASSUME NEW label \in HARD \cup SOFT, text[p] = Half(label, p - 1, 2),
               p - 1 \in DOMAIN text, text[p - 1] = Half(label, p - 1, 1)
        PROVE  /\ text[p].sort = "text" /\ text[p].half = 2 /\ text[p].id = p - 1
               /\ text[p].label = label
    BY <2>3 DEF Half, Cell
  <2> QED
    BY <2>1, <2>2, <2>3 DEF TextFits
<1>3. ASSUME NEW p \in DOMAIN text, NEW q \in DOMAIN text, text[p] = text[q] PROVE p = q
  <2>1. p \in Nat /\ q \in Nat
    BY <1>1
  <2> QED
    BY <1>2, <1>3, <2>1
<1>4. ASSUME NEW p \in DOMAIN text, text[p].half # 0 PROVE ~ Sticks(text, p)
  BY <1>2, <1>4 DEF Sticks, HARD, SOFT
<1> QED
  BY <1>1, <1>2, <1>3, <1>4

(* Every text of the program is one of those. *)
LEMMA TextsFit ==
    ASSUME text \in Texts
    PROVE  text \in Seq(Cells) /\ TextFits
<1>1. PICK len \in 0 .. MaxCells : \E label \in Layouts(len) : \E P \in SUBSET (1 .. len) : text = TextOf(len, label, P)
  BY DEF Texts
<1>0. PICK S \in SUBSET (1 .. len - 1) :
         /\ \A p \in S : p + 1 \notin S
         /\ \E label \in [S -> HARD \cup SOFT] : \E P \in SUBSET (1 .. len) :
               text = TextOf(len, label, P)
  BY <1>1 DEF Layouts
<1>2. PICK label \in [S -> HARD \cup SOFT], P \in SUBSET (1 .. len) : text = TextOf(len, label, P)
  BY <1>0
<1>3. len \in Nat /\ DOMAIN label = S /\ DOMAIN text = 1 .. len
  BY <1>2 DEF TextOf
<1>4. ASSUME NEW p \in 1 .. len
      PROVE  text[p] = IF p \in S THEN Half(label[p], p, 1)
                       ELSE IF p - 1 \in S THEN Half(label[p - 1], p - 1, 2)
                       ELSE IF p \in P THEN Particle(p) ELSE Word(p)
  BY <1>2, <1>3 DEF TextOf
<1>5. \A p \in 1 .. len : text[p] \in Cells
  <2> SUFFICES ASSUME NEW p \in 1 .. len PROVE text[p] \in Cells
    OBVIOUS
  <2>1. p \in S => label[p] \in HARD \cup SOFT
    OBVIOUS
  <2>2. p - 1 \in S => label[p - 1] \in HARD \cup SOFT /\ p - 1 \in Nat
    BY <1>3
  <2> QED
    BY <1>3, <1>4, <2>1, <2>2 DEF Cells, Half, Word, Particle, Cell
<1>6. text \in Seq(Cells)
  <2>1. text = [p \in 1 .. len |-> text[p]]
    BY <1>2, <1>3 DEF TextOf
  <2>2. text \in [1 .. len -> Cells]
    BY <1>5, <2>1
  <2> QED
    BY <1>3, <2>2, SeqDef
<1>7. TextFits
  <2> SUFFICES ASSUME NEW p \in 1 .. len
               PROVE
        \/ text[p] = Word(p) \/ text[p] = Particle(p)
        \/ \E l \in HARD \cup SOFT :
              \/ /\ text[p] = Half(l, p, 1)
                 /\ p + 1 \in DOMAIN text /\ text[p + 1] = Half(l, p, 2)
              \/ /\ text[p] = Half(l, p - 1, 2)
                 /\ p - 1 \in DOMAIN text /\ text[p - 1] = Half(l, p - 1, 1)
    BY <1>3 DEF TextFits
  <2>1. CASE p \in S
    <3>1. p + 1 \in 1 .. len /\ p + 1 \notin S /\ (p + 1) - 1 = p /\ label[p] \in HARD \cup SOFT
      BY <1>3, <1>0, <2>1
    <3>2. text[p] = Half(label[p], p, 1) /\ text[p + 1] = Half(label[p], p, 2)
      BY <1>4, <2>1, <3>1
    <3> QED
      BY <1>3, <3>1, <3>2
  <2>2. CASE p \notin S /\ p - 1 \in S
    <3>1. p - 1 \in 1 .. len /\ label[p - 1] \in HARD \cup SOFT
      BY <1>2, <1>3, <2>2
    <3>2. text[p] = Half(label[p - 1], p - 1, 2) /\ text[p - 1] = Half(label[p - 1], p - 1, 1)
      BY <1>4, <2>2, <3>1
    <3> QED
      BY <1>3, <3>1, <3>2
  <2>3. CASE p \notin S /\ p - 1 \notin S
    BY <1>4, <2>3
  <2> QED
    BY <2>1, <2>2, <2>3
<1> QED
  BY <1>6, <1>7

(* At first the text tiles itself. *)
LEMMA InitInv == Init => PrivacyInv
<1> SUFFICES ASSUME Init PROVE PrivacyInv
  OBVIOUS
<1>1. text \in Seq(Cells) /\ TextFits
  BY TextsFit DEF Init
<1>2. Len(text) \in Nat /\ DOMAIN text = 1 .. Len(text)
  BY <1>1, LenProperties
<1>3. ShapeOK
  BY <1>1, EmptySeq DEF ShapeOK, Init
<1>4. SpansFit
  BY DEF SpansFit, Init
<1>5. Tiled
  <2> DEFINE org == [k \in 1 .. Len(masked) + 1 |-> k]
  <2>1. org \in [1 .. Len(masked) + 1 -> 1 .. Len(text) + 1]
    BY DEF Init
  <2>2. AsRead = Len(text) /\ Taken = {}
    BY DEF AsRead, Taken, Init
  <2>3. \A k \in DOMAIN masked : Keeps(org, k)
    BY <1>2 DEF Keeps, Init
  <2>4. \A p \in DOMAIN text : \E k \in DOMAIN masked : org[k] <= p /\ p < org[k + 1]
    <3>1. masked = text
      BY DEF Init
    <3>2. \A p \in 1 .. Len(masked) : org[p] = p /\ org[p + 1] = p + 1
      BY <1>2, <3>1
    <3> HIDE DEF org
    <3>3. ASSUME NEW p \in DOMAIN text PROVE p \in DOMAIN masked /\ org[p] <= p /\ p < org[p + 1]
      <4>1. p \in Nat /\ p \in DOMAIN masked /\ org[p] = p /\ org[p + 1] = p + 1
        BY <1>2, <3>1, <3>2
      <4> QED
        BY <4>1
    <3> QED
      BY <3>3
  <2>5. Tiles(org)
    BY <1>2, <2>2, <2>3, <2>4 DEF Tiles, Init
  <2> QED
    BY <2>1, <2>5 DEF Tiled
<1>6. RulesDone /\ MappingFits /\ AnswerSoFar
  BY DEF RulesDone, MappingFits, AnswerSoFar, Init
<1> QED
  BY <1>1, <1>3, <1>4, <1>5, <1>6 DEF PrivacyInv

(* The lengths and positions the invariant speaks of. *)
LEMMA Ranges ==
    ASSUME ShapeOK
    PROVE  /\ Len(text) \in Nat /\ DOMAIN text = 1 .. Len(text)
           /\ Len(masked) \in Nat /\ DOMAIN masked = 1 .. Len(masked)
           /\ Len(spans) \in Nat /\ DOMAIN spans = 1 .. Len(spans)
           /\ Len(mapping) \in Nat /\ DOMAIN mapping = 1 .. Len(mapping)
           /\ \A k \in DOMAIN masked : masked[k] \in Cells
           /\ \A s \in DOMAIN spans : spans[s] \in [first : Nat, last : Nat, label : NER]
           /\ \A e \in DOMAIN mapping : mapping[e] \in Entries
<1>1. /\ text \in Seq(Cells) /\ masked \in Seq(Cells) /\ mapping \in Seq(Entries)
      /\ spans \in Seq([first : Nat, last : Nat, label : NER])
  BY DEF ShapeOK
<1>2. Len(text) \in Nat /\ DOMAIN text = 1 .. Len(text)
  BY <1>1, LenProperties
<1>3. /\ Len(masked) \in Nat /\ DOMAIN masked = 1 .. Len(masked)
      /\ \A k \in DOMAIN masked : masked[k] \in Cells
  BY <1>1, LenProperties, ElementOfSeq
<1>4. /\ Len(spans) \in Nat /\ DOMAIN spans = 1 .. Len(spans)
      /\ \A s \in DOMAIN spans : spans[s] \in [first : Nat, last : Nat, label : NER]
  BY <1>1, LenProperties, ElementOfSeq
<1>5. /\ Len(mapping) \in Nat /\ DOMAIN mapping = 1 .. Len(mapping)
      /\ \A e \in DOMAIN mapping : mapping[e] \in Entries
  BY <1>1, LenProperties, ElementOfSeq
<1> QED
  BY <1>2, <1>3, <1>4, <1>5

(* A tiling orders the cells as the text does, and a cell that holds a position is the
   only one to do so.                                                                 *)
LEMMA TileOrder ==
    ASSUME ShapeOK, NEW org \in [1 .. Len(masked) + 1 -> 1 .. Len(text) + 1], Tiles(org)
    PROVE  /\ \A k, l \in 1 .. Len(masked) + 1 : org[k] < org[l] => k < l
           /\ \A k, l \in 1 .. Len(masked) + 1 : org[k] = org[l] => k = l
           /\ \A k, l \in DOMAIN masked : \A p \in Nat :
                 /\ org[k] <= p /\ p < org[k + 1]
                 /\ org[l] <= p /\ p < org[l + 1]
                 => k = l
<1>1. Len(masked) \in Nat /\ Len(text) \in Nat /\ DOMAIN masked = 1 .. Len(masked)
  BY Ranges
<1>2. \A k \in 1 .. Len(masked) + 1 : org[k] \in Nat
  BY <1>1
<1>3. \A k, l \in 1 .. Len(masked) + 1 : k < l => org[k] < org[l]
  BY DEF Tiles
<1>4. \A k, l \in 1 .. Len(masked) + 1 : k <= l => org[k] <= org[l]
  BY <1>1, <1>2, <1>3
<1>5. \A k, l \in 1 .. Len(masked) + 1 : org[k] < org[l] => k < l
  BY <1>1, <1>2, <1>4
<1>6. \A k, l \in 1 .. Len(masked) + 1 : org[k] = org[l] => k = l
  BY <1>1, <1>2, <1>3
<1>7. ASSUME NEW k \in DOMAIN masked, NEW l \in DOMAIN masked, NEW p \in Nat,
             org[k] <= p /\ p < org[k + 1], org[l] <= p /\ p < org[l + 1]
      PROVE  k = l
  <2>1. /\ k \in 1 .. Len(masked) + 1 /\ k + 1 \in 1 .. Len(masked) + 1
        /\ l \in 1 .. Len(masked) + 1 /\ l + 1 \in 1 .. Len(masked) + 1
    BY <1>1
  <2>2. org[k] < org[l + 1] /\ org[l] < org[k + 1]
    BY <1>2, <1>7, <2>1
  <2> QED
    BY <1>1, <1>5, <2>1, <2>2
<1> QED
  BY <1>5, <1>6, <1>7

(* One cell takes the place of a stretch of cells: the tiling without the bounds in
   between.  All cells but the new one stand for what they stood for.               *)
Joined(org, a, b) ==
    [k \in 1 .. Len(masked) - (b - a) + 1 |-> IF k <= a THEN org[k] ELSE org[k + (b - a)]]

Rejoined(org, a, b, r, nxt) ==
    /\ masked' \in Seq(Cells)
    /\ Len(masked') = Len(masked) - (b - a) /\ DOMAIN masked' = 1 .. Len(masked')
    /\ nxt \in [1 .. Len(masked') + 1 -> 1 .. Len(text) + 1]
    /\ nxt[1] = 1 /\ nxt[Len(masked') + 1] = Len(text) + 1
    /\ \A k, l \in 1 .. Len(masked') + 1 : k < l => nxt[k] < nxt[l]
    /\ \A p \in DOMAIN text : \E k \in DOMAIN masked' : nxt[k] <= p /\ p < nxt[k + 1]
    /\ nxt[a] = org[a] /\ nxt[a + 1] = org[b + 1]
    /\ \A k \in DOMAIN masked' :
          masked'[k] = IF k < a THEN masked[k]
                       ELSE IF k = a THEN r ELSE masked[k + (b - a)]
    /\ \A k \in 1 .. a : nxt[k] = org[k]
    /\ \A k \in DOMAIN masked : k < a \/ b < k =>
          \E l \in DOMAIN masked' :
             nxt[l] = org[k] /\ nxt[l + 1] = org[k + 1] /\ masked'[l] = masked[k]
    /\ \A k \in DOMAIN masked' :
          k # a => Keeps(nxt, k)' \/ HidesSpan(nxt, k)' \/ HidesMatch(nxt, k)'

LEMMA Retiled ==
    ASSUME ShapeOK, NEW org \in [1 .. Len(masked) + 1 -> 1 .. Len(text) + 1], Tiles(org),
           NEW a \in 1 .. Len(masked), NEW b \in a .. Len(masked), NEW r \in Cells,
           masked' = Splice(masked, a, b, r), text' = text, spans' = spans,
           \A e \in DOMAIN mapping : e \in DOMAIN mapping' /\ mapping'[e] = mapping[e],
           NEW nxt, nxt = Joined(org, a, b)
    PROVE  Rejoined(org, a, b, r, nxt)
<1> DEFINE d == b - a
           n == Len(masked)
<1>1. /\ n \in Nat /\ DOMAIN masked = 1 .. n /\ Len(text) \in Nat /\ DOMAIN text = 1 .. Len(text)
      /\ masked \in Seq(Cells)
  BY Ranges DEF ShapeOK
<1>2. a \in Nat /\ b \in Nat /\ d \in Nat /\ a + d = b /\ 1 <= a /\ b <= n
  BY <1>1
<1>3. /\ masked' \in Seq(Cells) /\ Len(masked') = n - d
      /\ \A k \in 1 .. n - d : masked'[k] = IF k < a THEN masked[k]
                                            ELSE IF k = a THEN r ELSE masked[k + d]
  <2>1. masked \in Seq(Cells)
    BY <1>1
  <2>2. /\ masked' \in Seq(Cells) /\ Len(masked') = Len(masked) - (b - a)
        /\ \A k \in 1 .. Len(masked) - (b - a) :
              masked'[k] = IF k < a THEN masked[k] ELSE IF k = a THEN r ELSE masked[k + (b - a)]
    <3> HIDE DEF n, d
    <3> QED
      BY <2>1, SpliceFacts, ZenonT(60)
  <2> QED
    BY <2>2
<1>4. DOMAIN masked' = 1 .. n - d
  BY <1>3, LenProperties
<1>5. /\ DOMAIN nxt = 1 .. n - d + 1
      /\ \A k \in 1 .. n - d + 1 : nxt[k] = IF k <= a THEN org[k] ELSE org[k + d]
  BY DEF Joined
<1>6. /\ \A k, l \in 1 .. n + 1 : k < l => org[k] < org[l]
      /\ \A k \in 1 .. n + 1 : org[k] \in 1 .. Len(text) + 1
      /\ org[1] = 1 /\ org[n + 1] = Len(text) + 1
      /\ \A p \in DOMAIN text : \E k \in DOMAIN masked : org[k] <= p /\ p < org[k + 1]
      /\ \A k \in DOMAIN masked : Keeps(org, k) \/ HidesSpan(org, k) \/ HidesMatch(org, k)
  BY DEF Tiles
<1> HIDE DEF n, d
<1>15. /\ \A k \in 1 .. a : nxt[k] = org[k]
       /\ \A k \in a + 1 .. n - d + 1 : nxt[k] = org[k + d]
  <2>1. \A k \in 1 .. a : k \in 1 .. n - d + 1 /\ k <= a
    BY <1>1, <1>2
  <2>2. \A k \in a + 1 .. n - d + 1 : k \in 1 .. n - d + 1 /\ ~ (k <= a)
    BY <1>1, <1>2
  <2> QED
    BY <1>5, <2>1, <2>2
<1>16. /\ \A k \in 1 .. a - 1 : masked'[k] = masked[k]
       /\ \A k \in a + 1 .. n - d : masked'[k] = masked[k + d]
  <2>1. \A k \in 1 .. a - 1 : k \in 1 .. n - d /\ k < a
    BY <1>1, <1>2
  <2>2. \A k \in a + 1 .. n - d : k \in 1 .. n - d /\ ~ (k < a) /\ k # a
    BY <1>1, <1>2
  <2> QED
    BY <1>3, <2>1, <2>2
<1>17. \A k, l \in 1 .. n + 1 : k <= l => org[k] <= org[l]
  <2>1. \A k, l \in 1 .. n + 1 : org[k] \in Nat /\ (k <= l => k = l \/ k < l)
    BY <1>1, <1>6
  <2> QED
    BY <1>6, <2>1
<1>7. nxt \in [1 .. n - d + 1 -> 1 .. Len(text) + 1]
  <2>1. nxt = [k \in 1 .. n - d + 1 |-> nxt[k]]
    BY <1>5 DEF Joined, n, d
  <2>2. \A k \in 1 .. n - d + 1 : nxt[k] \in 1 .. Len(text) + 1
    <3> SUFFICES ASSUME NEW k \in 1 .. n - d + 1 PROVE nxt[k] \in 1 .. Len(text) + 1
      OBVIOUS
    <3>1. (k \in 1 .. a /\ k \in 1 .. n + 1) \/ (k \in a + 1 .. n - d + 1 /\ k + d \in 1 .. n + 1)
      BY <1>1, <1>2
    <3> QED
      BY <1>6, <1>15, <3>1
  <2> QED
    BY <2>1, <2>2
<1>8. nxt[1] = 1 /\ nxt[n - d + 1] = Len(text) + 1
  BY <1>1, <1>2, <1>5, <1>6
<1>9. ASSUME NEW k \in 1 .. n - d + 1, NEW l \in 1 .. n - d + 1, k < l
      PROVE  nxt[k] < nxt[l]
  <2>1. CASE l <= a
    <3>1. k \in 1 .. a /\ l \in 1 .. a /\ k \in 1 .. n + 1 /\ l \in 1 .. n + 1
      BY <1>1, <1>2, <1>9, <2>1
    <3> QED
      BY <1>6, <1>9, <1>15, <3>1
  <2>2. CASE k <= a /\ a < l
    <3>1. /\ k \in 1 .. a /\ l \in a + 1 .. n - d + 1
          /\ k \in 1 .. n + 1 /\ l + d \in 1 .. n + 1 /\ k < l + d
      BY <1>1, <1>2, <1>9, <2>2
    <3> QED
      BY <1>6, <1>15, <3>1
  <2>3. CASE a < k
    <3>1. /\ k \in a + 1 .. n - d + 1 /\ l \in a + 1 .. n - d + 1
          /\ k + d \in 1 .. n + 1 /\ l + d \in 1 .. n + 1 /\ k + d < l + d
      BY <1>1, <1>2, <1>9, <2>3
    <3> QED
      BY <1>6, <1>15, <3>1
  <2> QED
    BY <1>1, <1>2, <2>1, <2>2, <2>3
<1>10. nxt[a] = org[a] /\ nxt[a + 1] = org[b + 1]
  BY <1>1, <1>2, <1>5, SMTT(30)
<1>11. ASSUME NEW k \in DOMAIN masked, k < a \/ b < k
       PROVE  \E l \in DOMAIN masked' :
                 nxt[l] = org[k] /\ nxt[l + 1] = org[k + 1] /\ masked'[l] = masked[k]
  <2>1. CASE k < a
    <3>1. k \in 1 .. a /\ k + 1 \in 1 .. a /\ k \in 1 .. a - 1 /\ k \in 1 .. n - d
      BY <1>1, <1>2, <2>1
    <3> QED
      BY <1>4, <1>15, <1>16, <3>1
  <2>2. CASE b < k
    <3> DEFINE l == k - d
    <3>1. /\ l \in 1 .. n - d /\ l \in a + 1 .. n - d /\ l \in a + 1 .. n - d + 1
          /\ l + 1 \in a + 1 .. n - d + 1 /\ l + d = k /\ (l + 1) + d = k + 1
      BY <1>1, <1>2, <2>2
    <3> HIDE DEF l
    <3>2. nxt[l] = org[k] /\ nxt[l + 1] = org[k + 1] /\ masked'[l] = masked[k]
      BY <1>15, <1>16, <3>1
    <3> QED
      BY <1>4, <3>1, <3>2
  <2> QED
    BY <1>11, <2>1, <2>2
<1>12. ASSUME NEW p \in DOMAIN text
       PROVE  \E k \in DOMAIN masked' : nxt[k] <= p /\ p < nxt[k + 1]
  <2>1. PICK k \in DOMAIN masked : org[k] <= p /\ p < org[k + 1]
    BY <1>6
  <2>2. CASE k < a \/ b < k
    BY <1>11, <2>1, <2>2
  <2>3. CASE a <= k /\ k <= b
    <3>4. /\ k \in 1 .. n + 1 /\ k + 1 \in 1 .. n + 1 /\ a \in 1 .. n + 1 /\ b + 1 \in 1 .. n + 1
          /\ k + 1 <= b + 1
      BY <1>1, <1>2, <2>3
    <3>1. org[a] <= org[k] /\ org[k + 1] <= org[b + 1]
      BY <1>17, <2>3, <3>4
    <3>5. org[a] \in Nat /\ org[k] \in Nat /\ org[k + 1] \in Nat /\ org[b + 1] \in Nat /\ p \in Nat
      BY <1>1, <1>6, <3>4, SMTT(30)
    <3>2. org[a] <= p /\ p < org[b + 1]
      BY <2>1, <3>1, <3>5, SMTT(30)
    <3>3. a \in DOMAIN masked'
      BY <1>1, <1>2, <1>4
    <3> QED
      BY <1>10, <3>2, <3>3
  <2> QED
    BY <1>1, <1>2, <2>2, <2>3
<1>13. ASSUME NEW k \in DOMAIN masked', k # a
       PROVE  Keeps(nxt, k)' \/ HidesSpan(nxt, k)' \/ HidesMatch(nxt, k)'
  <2>1. PICK l \in DOMAIN masked :
           masked'[k] = masked[l] /\ nxt[k] = org[l] /\ nxt[k + 1] = org[l + 1]
    <3>1. k \in 1 .. n - d
      BY <1>4
    <3>2. CASE k < a
      <4>1. k \in 1 .. a /\ k + 1 \in 1 .. a /\ k \in 1 .. a - 1 /\ k \in 1 .. n
        BY <1>1, <1>2, <3>1, <3>2
      <4> QED
        BY <1>1, <1>15, <1>16, <4>1
    <3>3. CASE k > a
      <4>1. /\ k + d \in 1 .. n /\ (k + 1) + d = (k + d) + 1 /\ k \in a + 1 .. n - d
            /\ k \in a + 1 .. n - d + 1 /\ k + 1 \in a + 1 .. n - d + 1
        BY <1>1, <1>2, <3>1, <3>3
      <4>2. masked'[k] = masked[k + d] /\ nxt[k] = org[k + d] /\ nxt[k + 1] = org[(k + d) + 1]
        BY <1>15, <1>16, <4>1
      <4> QED
        BY <1>1, <4>1, <4>2
    <3> QED
      BY <1>1, <1>2, <1>13, <3>1, <3>2, <3>3
  <2>2. \A token, original : Stored(token, original) => Stored(token, original)'
    BY DEF Stored
  <2>3. Keeps(org, l) => Keeps(nxt, k)'
    BY <2>1 DEF Keeps
  <2>4. HidesSpan(org, l) => HidesSpan(nxt, k)'
    BY <2>1, <2>2 DEF HidesSpan
  <2>5. HidesMatch(org, l) => HidesMatch(nxt, k)'
    <3>1. \A p : Covered(p)' <=> Covered(p)
      BY DEF Covered
    <3>2. \A p : Exposed(p)' <=> Exposed(p)
      BY <3>1 DEF Exposed
    <3> QED
      BY <2>1, <2>2, <3>2 DEF HidesMatch
  <2> QED
    BY <1>6, <2>3, <2>4, <2>5
<1> QED
  BY <1>3, <1>4, <1>7, <1>8, <1>9, <1>10, <1>11, <1>12, <1>13, <1>15 DEF Rejoined, n, d

(* A cell of the masked text is a cell of the text or a placeholder, and a placeholder
   that is not fixed has its entry.                                                   *)
LEMMA MaskedCells ==
    ASSUME ShapeOK, TextFits,
           NEW org \in [1 .. Len(masked) + 1 -> 1 .. Len(text) + 1], Tiles(org),
           NEW k \in DOMAIN masked
    PROVE  /\ org[k] \in DOMAIN text /\ org[k + 1] \in 1 .. Len(text) + 1 /\ org[k] < org[k + 1]
           /\ masked[k].sort = "text" => Keeps(org, k)
           /\ Keeps(org, k) => masked[k].sort = "text"
           /\ masked[k].sort = "token" =>
                 \E original : Stored(masked[k], original)
<1>1. /\ Len(text) \in Nat /\ DOMAIN text = 1 .. Len(text)
      /\ Len(masked) \in Nat /\ DOMAIN masked = 1 .. Len(masked)
  BY Ranges
<1>2. org[k] \in DOMAIN text /\ org[k + 1] \in 1 .. Len(text) + 1 /\ org[k] < org[k + 1]
  <2>1. k \in 1 .. Len(masked) + 1 /\ k + 1 \in 1 .. Len(masked) + 1 /\ k < k + 1
    BY <1>1
  <2>2. org[k] \in 1 .. Len(text) + 1 /\ org[k + 1] \in 1 .. Len(text) + 1 /\ org[k] < org[k + 1]
    BY <2>1 DEF Tiles
  <2> QED
    BY <1>1, <2>2
<1>3. Keeps(org, k) \/ HidesSpan(org, k) \/ HidesMatch(org, k)
  BY DEF Tiles
<1>4. Keeps(org, k) => masked[k].sort = "text"
  BY <1>2, TextFacts DEF Keeps
<1>5. HidesSpan(org, k) => masked[k].sort = "token" /\ \E original : Stored(masked[k], original)
  BY DEF HidesSpan
<1>6. HidesMatch(org, k) =>
         \/ masked[k].sort = "fixed"
         \/ masked[k].sort = "token" /\ \E original : Stored(masked[k], original)
  BY DEF HidesMatch, Placeholder, Cell
<1> QED
  BY <1>2, <1>3, <1>4, <1>5, <1>6

(* What a new placeholder and its entry are. *)
LEMMA TokenStep ==
    ASSUME ShapeOK, NEW label \in SOFT \cup NER, NEW original \in Seq(Cells),
           MakeToken(label, original)
    PROVE  /\ counters' \in [SOFT \cup NER -> Nat]
           /\ counters'[label] = counters[label] + 1
           /\ \A l \in SOFT \cup NER : counters[l] \in Nat /\ (l # label => counters'[l] = counters[l])
           /\ Token(label, counters'[label]) \in Cells
           /\ Token(label, counters'[label]).sort = "token"
           /\ mapping' \in Seq(Entries)
           /\ Len(mapping') = Len(mapping) + 1 /\ DOMAIN mapping' = 1 .. Len(mapping) + 1
           /\ \A e \in DOMAIN mapping : e \in DOMAIN mapping' /\ mapping'[e] = mapping[e]
           /\ mapping'[Len(mapping) + 1] = [token |-> Token(label, counters'[label]), original |-> original]
<1>1. counters \in [SOFT \cup NER -> Nat]
  BY DEF ShapeOK
<1>2. counters' = [counters EXCEPT ![label] = counters[label] + 1]
  BY DEF MakeToken
<1>3. /\ counters' \in [SOFT \cup NER -> Nat] /\ counters'[label] = counters[label] + 1
      /\ \A l \in SOFT \cup NER : counters[l] \in Nat /\ (l # label => counters'[l] = counters[l])
  BY <1>1, <1>2
<1>4. Token(label, counters'[label]) \in Cells /\ Token(label, counters'[label]).sort = "token"
  BY <1>3 DEF Token, Cell, Cells
<1> DEFINE entry == [token |-> Token(label, counters'[label]), original |-> original]
<1>5. entry \in Entries
  BY <1>4 DEF Entries
<1>6. mapping \in Seq(Entries) /\ mapping' = Append(mapping, entry)
  BY DEF MakeToken, ShapeOK
<1>7. DOMAIN mapping = 1 .. Len(mapping) /\ Len(mapping) \in Nat
  BY <1>6, LenProperties
<1> HIDE DEF entry
<1>8. /\ mapping' \in Seq(Entries) /\ Len(mapping') = Len(mapping) + 1
      /\ \A e \in 1 .. Len(mapping) : mapping'[e] = mapping[e]
      /\ mapping'[Len(mapping) + 1] = entry
  BY <1>5, <1>6, AppendProperties
<1>9. DOMAIN mapping' = 1 .. Len(mapping) + 1
  BY <1>8, LenProperties
<1> QED
  BY <1>3, <1>4, <1>7, <1>8, <1>9 DEF entry

(* The new entry is told apart from the others by its number. *)
LEMMA MappingStep ==
    ASSUME ShapeOK, MappingFits, NEW label \in SOFT \cup NER, NEW original \in Seq(Cells),
           MakeToken(label, original), text' = text, spans' = spans,
           \A c \in Range(original) :
              c.sort = "text" /\ (IsHard(c) => \E q \in DOMAIN text : text[q] = c /\ Covered(q))
    PROVE  MappingFits'
<1>2. Len(mapping) \in Nat /\ DOMAIN mapping = 1 .. Len(mapping)
  BY Ranges
<1>0. PICK last \in Nat : last = Len(mapping) + 1
  BY <1>2
<1>1. /\ counters'[label] = counters[label] + 1
      /\ \A l \in SOFT \cup NER : counters[l] \in Nat /\ (l # label => counters'[l] = counters[l])
      /\ DOMAIN mapping' = 1 .. last
      /\ \A e \in DOMAIN mapping : mapping'[e] = mapping[e]
      /\ mapping'[last] = [token |-> Token(label, counters'[label]), original |-> original]
  BY <1>0, TokenStep
<1>3. \A q : Covered(q)' <=> Covered(q)
  BY DEF Covered
<1>4. ASSUME NEW e \in DOMAIN mapping
      PROVE  /\ EntryFits(e)'
             /\ mapping'[e].token # Token(label, counters'[label])
  <2>0. PICK l \in SOFT \cup NER : \E m \in 1 .. counters[l] : mapping[e].token = Token(l, m)
    BY DEF MappingFits, EntryFits
  <2>1. PICK m \in 1 .. counters[l] : mapping[e].token = Token(l, m)
    BY <2>0
  <2>2. m \in 1 .. counters'[l] /\ (l = label => m # counters'[label])
    BY <1>1, <2>1
  <2>3. mapping'[e] = mapping[e] /\ mapping'[e].token = Token(l, m)
    BY <1>1, <2>1
  <2>4. Token(l, m) # Token(label, counters'[label])
    BY <2>2 DEF Token, Cell
  <2>5. \A c \in Range(mapping'[e].original) :
           c.sort = "text" /\ (IsHard(c) => \E q \in DOMAIN text : text[q] = c /\ Covered(q))
    BY <2>3 DEF MappingFits, EntryFits
  <2> QED
    BY <1>3, <2>2, <2>3, <2>4, <2>5 DEF EntryFits
<1>5. EntryFits(last)'
  <2>1. counters'[label] \in 1 .. counters'[label]
    BY <1>1
  <2> QED
    BY <1>1, <1>3, <2>1 DEF EntryFits
<1>6. ASSUME NEW e \in DOMAIN mapping', NEW f \in DOMAIN mapping',
             mapping'[e].token = mapping'[f].token
      PROVE  e = f
  <2>1. e \in DOMAIN mapping \/ e = last
    BY <1>0, <1>1, <1>2
  <2>2. f \in DOMAIN mapping \/ f = last
    BY <1>0, <1>1, <1>2
  <2>3. mapping'[last].token = Token(label, counters'[label])
    BY <1>1
  <2>4. e \in DOMAIN mapping /\ f \in DOMAIN mapping => e = f
    BY <1>1, <1>6 DEF MappingFits
  <2> QED
    BY <1>4, <1>6, <2>1, <2>2, <2>3, <2>4
<1>7. \A e \in DOMAIN mapping' : EntryFits(e)'
  <2>1. \A e \in DOMAIN mapping' : e \in DOMAIN mapping \/ e = last
    BY <1>0, <1>1, <1>2
  <2>2. ASSUME NEW e \in DOMAIN mapping' PROVE EntryFits(e)'
    <3>1. CASE e \in DOMAIN mapping
      BY <1>4, <3>1
    <3>2. CASE e = last
      BY <1>5, <3>2 DEF EntryFits
    <3> QED
      BY <2>1, <3>1, <3>2
  <2> QED
    BY <2>2
<1> QED
  BY <1>6, <1>7 DEF MappingFits
-----------------------------------------------------------------------------
(* The invariant holds at every step: first those that leave the masked text alone. *)

(* What depends on the text, the masked text, the spans and the mapping alone. *)
LEMMA TilesCarry ==
    ASSUME NEW org, Tiles(org), UNCHANGED <<text, masked, spans, mapping>>,
           AsRead' = 0 \/ AsRead' = AsRead, Taken' \subseteq Taken, Len(masked) \in Nat
    PROVE  Tiles(org)'
<1>1. \A p : Covered(p)' <=> Covered(p)
  BY DEF Covered
<1>2. \A p : Exposed(p)' <=> Exposed(p)
  BY <1>1 DEF Exposed
<1>3. \A token, original : Stored(token, original)' <=> Stored(token, original)
  BY DEF Stored
<1>4. ASSUME NEW k \in DOMAIN masked
      PROVE  Keeps(org, k)' \/ HidesSpan(org, k)' \/ HidesMatch(org, k)'
  <2>1. Keeps(org, k) => Keeps(org, k)'
    BY DEF Keeps
  <2>2. HidesSpan(org, k) => HidesSpan(org, k)'
    BY <1>3 DEF HidesSpan
  <2>3. HidesMatch(org, k) => HidesMatch(org, k)'
    BY <1>2, <1>3 DEF HidesMatch
  <2> QED
    BY <2>1, <2>2, <2>3 DEF Tiles
<1>5. /\ AsRead' <= Len(masked) /\ org[AsRead' + 1] = AsRead' + 1
      /\ \A k \in 1 .. AsRead' : org[k] = k /\ masked[k] = text[k]
  <2>1. CASE AsRead' = AsRead
    BY <2>1 DEF Tiles
  <2>2. CASE AsRead' = 0
    BY <2>2 DEF Tiles
  <2> QED
    BY <2>1, <2>2
<1>6. \A s \in Taken' : \E k \in DOMAIN masked :
         org[k] = spans[s].first /\ org[k + 1] = spans[s].last + 1 /\ masked[k].sort = "token"
  BY DEF Tiles
<1>7. /\ org[1] = 1 /\ org[Len(masked) + 1] = Len(text) + 1
      /\ \A k, l \in 1 .. Len(masked) + 1 : k < l => org[k] < org[l]
      /\ \A p \in DOMAIN text : \E k \in DOMAIN masked : org[k] <= p /\ p < org[k + 1]
  BY DEF Tiles
<1> HIDE DEF AsRead, Taken
<1> QED
  BY <1>4, <1>5, <1>6, <1>7 DEF Tiles

(* The rules go on without the name finder. *)
LEMMA SkipNerStep == PrivacyInv /\ SkipNer => PrivacyInv'
<1> SUFFICES ASSUME PrivacyInv, SkipNer PROVE PrivacyInv'
  OBVIOUS
<1>1. ShapeOK' /\ TextFits'
  BY DEF PrivacyInv, ShapeOK, TextFits, SkipNer
<1>2. SpansFit'
  BY DEF PrivacyInv, SpansFit, SkipNer
<1>3. Tiled'
  <2>1. PICK org \in [1 .. Len(masked) + 1 -> 1 .. Len(text) + 1] : Tiles(org)
    BY DEF PrivacyInv, Tiled
  <2>2. AsRead' = 0 /\ Taken' \subseteq Taken
    BY DEF AsRead, Taken, SkipNer, PrivacyInv, SpansFit
  <2>3. Tiles(org)'
    BY <2>1, <2>2, TilesCarry, Ranges DEF SkipNer, PrivacyInv
  <2> QED
    BY <2>1, <2>3 DEF Tiled, SkipNer
<1>4. RulesDone' /\ MappingFits' /\ AnswerSoFar'
  BY DEF PrivacyInv, SpansFit, RulesDone, MappingFits, AnswerSoFar, SkipNer
<1> QED
  BY <1>1, <1>2, <1>3, <1>4 DEF PrivacyInv

(* Every name and address has its placeholder. *)
LEMMA SpansTakenStep == PrivacyInv /\ SpansTaken => PrivacyInv'
<1> SUFFICES ASSUME PrivacyInv, SpansTaken PROVE PrivacyInv'
  OBVIOUS
<1>1. ShapeOK' /\ TextFits'
  BY DEF PrivacyInv, ShapeOK, TextFits, SpansTaken
<1>2. SpansFit'
  BY DEF PrivacyInv, SpansFit, SpansTaken
<1>3. Tiled'
  <2>1. PICK org \in [1 .. Len(masked) + 1 -> 1 .. Len(text) + 1] : Tiles(org)
    BY DEF PrivacyInv, Tiled
  <2>2. AsRead' = 0
    BY DEF AsRead, SpansTaken
  <2>4. Taken' \subseteq Taken
    <3>1. turn \in Nat /\ turn > Len(spans) /\ Len(spans) \in Nat /\ DOMAIN spans = 1 .. Len(spans)
      BY Ranges DEF PrivacyInv, ShapeOK, SpansTaken
    <3>2. Taken' = DOMAIN spans /\ Taken = 1 .. turn - 1
      BY DEF Taken, SpansTaken
    <3> QED
      BY <3>1, <3>2
  <2>3. Tiles(org)'
    BY <2>1, <2>2, <2>4, TilesCarry, Ranges DEF SpansTaken, PrivacyInv
  <2> QED
    BY <2>1, <2>3 DEF Tiled, SpansTaken
<1>4. RulesDone'
  BY DEF RulesDone, SpansTaken
<1>5. MappingFits'
  BY DEF PrivacyInv, MappingFits, EntryFits, Covered, SpansTaken
<1>6. AnswerSoFar'
  BY DEF PrivacyInv, AnswerSoFar, SpansTaken
<1> QED
  BY <1>1, <1>2, <1>3, <1>4, <1>5, <1>6 DEF PrivacyInv

(* A rule that matches nowhere is done with. *)
LEMMA NextRuleStep == PrivacyInv /\ NextRule => PrivacyInv'
<1> SUFFICES ASSUME PrivacyInv, NextRule PROVE PrivacyInv'
  OBVIOUS
<1>1. ShapeOK' /\ TextFits'
  BY DEF PrivacyInv, ShapeOK, TextFits, NextRule
<1>2. SpansFit'
  BY DEF PrivacyInv, SpansFit, NextRule
<1>3. Tiled'
  <2>1. PICK org \in [1 .. Len(masked) + 1 -> 1 .. Len(text) + 1] : Tiles(org)
    BY DEF PrivacyInv, Tiled
  <2>2. AsRead' = 0 /\ Taken' \subseteq Taken
    BY DEF AsRead, Taken, NextRule
  <2>3. Tiles(org)'
    BY <2>1, <2>2, TilesCarry, Ranges DEF NextRule, PrivacyInv
  <2> QED
    BY <2>1, <2>3 DEF Tiled, NextRule
<1>4. RulesDone'
  <2>1. turn \in Nat \ {0} /\ turn <= 4 /\ Matches(masked, Rules[turn]) = {}
    BY DEF PrivacyInv, ShapeOK, NextRule, Rules
  <2>2. \A k \in 1 .. turn - 1 : Matches(masked, Rules[k]) = {}
    BY DEF PrivacyInv, RulesDone, NextRule
  <2>3. \A k \in 1 .. turn : k = turn \/ k \in 1 .. turn - 1
    BY <2>1
  <2>4. \A k \in 1 .. turn : Matches(masked, Rules[k]) = {}
    BY <2>1, <2>2, <2>3
  <2>5. pc' = "rules" /\ turn' = turn + 1 /\ masked' = masked /\ turn' - 1 = turn
    BY <2>1 DEF NextRule
  <2>6. \A k : Matches(masked, Rules[k])' = Matches(masked, Rules[k])
    BY <2>5 DEF Matches
  <2> QED
    BY <2>1, <2>4, <2>5, <2>6 DEF RulesDone
<1>5. MappingFits'
  BY DEF PrivacyInv, MappingFits, EntryFits, Covered, NextRule
<1>6. AnswerSoFar'
  BY DEF PrivacyInv, AnswerSoFar, NextRule
<1> QED
  BY <1>1, <1>2, <1>3, <1>4, <1>5, <1>6 DEF PrivacyInv

(* The name finder names stretches of the text that do not overlap. *)
LEMMA DetectStep == PrivacyInv /\ Detect => PrivacyInv'
<1> SUFFICES ASSUME PrivacyInv, Detect PROVE PrivacyInv'
  OBVIOUS
<1>0. /\ masked = text /\ mapping = <<>> /\ turn = 1 /\ text \in Seq(Cells)
      /\ Len(text) \in Nat /\ DOMAIN text = 1 .. Len(text)
  BY Ranges DEF PrivacyInv, SpansFit, Detect, ShapeOK
<1>1. /\ spans' \in Seq(SpansOf(text))
      /\ \A k, l \in DOMAIN spans' : k < l => spans'[l].last < spans'[k].first
  <2>1. spans' \in SeqOf(SpansOf(text), MaxSpans)
    BY DEF Detect, Findings
  <2>2. PICK m \in 0 .. MaxSpans : spans' \in [1 .. m -> SpansOf(text)]
    BY <2>1 DEF SeqOf
  <2>3. m \in Nat
    BY <2>2
  <2>4. spans' \in Seq(SpansOf(text))
    BY <2>2, <2>3, SeqDef
  <2> QED
    BY <2>4 DEF Detect, Findings
<1>2. ShapeOK' /\ TextFits'
  <2>1. SpansOf(text) \subseteq [first : Nat, last : Nat, label : NER]
    BY <1>0 DEF SpansOf
  <2>2. spans' \in Seq([first : Nat, last : Nat, label : NER])
    BY <1>1, <2>1, SeqMonotonic
  <2> QED
    BY <2>2 DEF PrivacyInv, ShapeOK, TextFits, Detect
<1>3. SpansFit'
  <2>1. Len(spans') \in Nat /\ \A k \in DOMAIN spans' : spans'[k] \in SpansOf(text)
    BY <1>1, LenProperties, ElementOfSeq
  <2>2. \A k \in DOMAIN spans' :
           spans'[k].first \in DOMAIN text /\ spans'[k].last \in DOMAIN text
           /\ spans'[k].first <= spans'[k].last
    BY <2>1 DEF SpansOf
  <2> QED
    BY <1>0, <1>1, <2>1, <2>2 DEF SpansFit, Detect
<1>4. Tiled'
  <2>0. PICK org : org = [k \in 1 .. Len(text) + 1 |-> k]
    OBVIOUS
  <2>1. org \in [1 .. Len(masked') + 1 -> 1 .. Len(text') + 1]
    BY <1>0, <2>0 DEF Detect
  <2>2. AsRead' = Len(text) /\ Taken' = {} /\ masked' = text /\ text' = text
    BY <1>0 DEF AsRead, Taken, Detect
  <2>3. \A k \in DOMAIN text : Keeps(org, k)'
    BY <1>0, <2>0, <2>2 DEF Keeps
  <2>4. \A p \in DOMAIN text : \E k \in DOMAIN text : org[k] <= p /\ p < org[k + 1]
    BY <1>0, <2>0, SMTT(30)
  <2>5. /\ org[1] = 1 /\ org[Len(text) + 1] = Len(text) + 1
        /\ \A k, l \in 1 .. Len(text) + 1 : k < l => org[k] < org[l]
        /\ \A k \in 1 .. Len(text) : org[k] = k
    BY <1>0, <2>0
  <2> HIDE DEF AsRead, Taken
  <2>6. Tiles(org)'
    BY <1>0, <2>2, <2>3, <2>4, <2>5 DEF Tiles
  <2> QED
    BY <2>1, <2>6 DEF Tiled
<1>5. RulesDone' /\ AnswerSoFar'
  BY DEF PrivacyInv, RulesDone, AnswerSoFar, Detect
<1>6. MappingFits'
  BY <1>0 DEF MappingFits, Detect
<1> QED
  BY <1>2, <1>3, <1>4, <1>5, <1>6 DEF PrivacyInv
-----------------------------------------------------------------------------
(* Now those that put a placeholder into it. *)

(* Texts that agree so far have the same slices so far. *)
SliceAgrees(s, t, a, b) ==
    /\ Slice(s, a, b) = SubSeq(t, a, b)
    /\ Slice(s, a, b) \in Seq(Cells)
    /\ \A c \in Range(Slice(s, a, b)) : \E q \in DOMAIN t : t[q] = c /\ a <= q /\ q <= b

LEMMA SameSlice ==
    ASSUME NEW s \in Seq(Cells), NEW t \in Seq(Cells), NEW a \in 1 .. Len(s), NEW b \in a .. Len(s),
           b <= Len(t), \A k \in 1 .. b : s[k] = t[k]
    PROVE  SliceAgrees(s, t, a, b)
<1> DEFINE u == Slice(s, a, b)
           v == SubSeq(t, a, b)
<1>1. /\ Len(s) \in Nat /\ Len(t) \in Nat /\ DOMAIN t = 1 .. Len(t)
      /\ a \in Nat /\ b \in Nat /\ 1 <= a /\ a <= b /\ b <= Len(s)
  BY LenProperties
<1>2. /\ u \in Seq(Cells) /\ Len(u) = b - a + 1
      /\ \A k \in 1 .. b - a + 1 : u[k] = s[a + k - 1]
  <2>1. a \in Nat \ {0} /\ b \in 0 .. Len(s)
    BY <1>1
  <2>2. /\ u \in Seq(Cells) /\ Len(u) = IF a <= b THEN b - a + 1 ELSE 0
        /\ \A k \in 1 .. b - a + 1 : u[k] = s[a + k - 1]
    BY <2>1, SliceFacts
  <2> QED
    BY <1>1, <2>2
<1>3. /\ v \in Seq(Cells) /\ Len(v) = b - a + 1
      /\ \A k \in 1 .. b - a + 1 : v[k] = t[a + k - 1]
  <2>1. a \in Int /\ b \in Int /\ \A k \in a .. b : t[k] \in Cells
    BY <1>1, ElementOfSeq
  <2> QED
    BY <1>1, <2>1, SubSeqProperties
<1> HIDE DEF u, v
<1>4. \A k \in 1 .. b - a + 1 : a + k - 1 \in 1 .. b /\ a <= a + k - 1
  BY <1>1
<1>5. u = v
  <2>1. \A k \in 1 .. b - a + 1 : u[k] = v[k]
    BY <1>2, <1>3, <1>4
  <2> QED
    BY <1>2, <1>3, <2>1, SeqEqual
<1>6. ASSUME NEW c \in Range(u)
      PROVE  \E q \in DOMAIN t : t[q] = c /\ a <= q /\ q <= b
  <2>1. DOMAIN u = 1 .. Len(u)
    BY <1>2, LenProperties
  <2>2. PICK k \in 1 .. b - a + 1 : c = u[k]
    BY <1>2, <2>1 DEF Range
  <2>3. PICK q \in 1 .. b : q = a + k - 1 /\ a <= q
    BY <1>4
  <2>4. c = t[q] /\ q \in DOMAIN t /\ q <= b
    BY <1>1, <1>2, <2>2, <2>3
  <2> QED
    BY <2>3, <2>4
<1> QED
  BY <1>2, <1>5, <1>6 DEF SliceAgrees, u, v

(* So far to the left nothing has moved: the span is where it was found. *)
InPlace(org, a, b) ==
    /\ a \in 1 .. Len(masked) /\ b \in a .. Len(masked)
    /\ a \in DOMAIN text /\ b \in DOMAIN text
    /\ org[b + 1] = b + 1
    /\ \A k \in 1 .. b : org[k] = k /\ masked[k] = text[k]
    /\ \A s \in 1 .. turn - 1 : b < spans[s].first
    /\ SliceAgrees(masked, text, a, b)

LEMMA SpanInPlace ==
    ASSUME PrivacyInv, pc = "spans", turn <= Len(spans),
           NEW org \in [1 .. Len(masked) + 1 -> 1 .. Len(text) + 1], Tiles(org),
           NEW a \in Nat, NEW b \in Nat, a = spans[turn].first, b = spans[turn].last
    PROVE  InPlace(org, a, b)
<1>1. /\ Len(text) \in Nat /\ DOMAIN text = 1 .. Len(text)
      /\ Len(masked) \in Nat /\ DOMAIN masked = 1 .. Len(masked)
      /\ Len(spans) \in Nat /\ DOMAIN spans = 1 .. Len(spans)
      /\ \A s \in DOMAIN spans : spans[s] \in [first : Nat, last : Nat, label : NER]
  BY Ranges DEF PrivacyInv
<1>2. turn \in Nat \ {0} /\ turn \in DOMAIN spans
  BY <1>1 DEF PrivacyInv, ShapeOK
<1>3. a \in DOMAIN text /\ b \in DOMAIN text /\ a <= b /\ spans[turn].label \in NER
  BY <1>1, <1>2 DEF PrivacyInv, SpansFit
<1>4. \A s \in 1 .. turn - 1 : s \in DOMAIN spans /\ b < spans[s].first
  <2>1. \A s \in 1 .. turn - 1 : s \in DOMAIN spans /\ s < turn
    BY <1>1, <1>2
  <2> QED
    BY <1>2, <2>1 DEF PrivacyInv, SpansFit
<1>5. b <= AsRead /\ AsRead \in Nat
  <2>1. CASE turn = 1
    BY <1>1, <1>3, <2>1 DEF AsRead
  <2>2. CASE turn # 1
    <3>1. turn - 1 \in 1 .. turn - 1 /\ AsRead = spans[turn - 1].first - 1
      BY <1>2, <2>2 DEF AsRead
    <3>2. turn - 1 \in DOMAIN spans /\ b < spans[turn - 1].first /\ spans[turn - 1].first \in Nat
      BY <1>1, <1>4, <3>1
    <3> QED
      BY <1>1, <1>3, <3>1, <3>2
  <2> QED
    BY <2>1, <2>2
<1>6. /\ AsRead <= Len(masked) /\ org[AsRead + 1] = AsRead + 1
      /\ \A k \in 1 .. AsRead : org[k] = k /\ masked[k] = text[k]
  BY DEF Tiles
<1> HIDE DEF AsRead
<1>7. /\ a \in Nat /\ b \in Nat /\ 1 <= a /\ b <= Len(text) /\ b <= Len(masked)
      /\ a \in 1 .. Len(masked) /\ b \in a .. Len(masked)
  BY <1>1, <1>3, <1>5, <1>6
<1>8. /\ org[b + 1] = b + 1
      /\ \A k \in 1 .. b : org[k] = k /\ masked[k] = text[k]
  <2>1. b = AsRead \/ b + 1 \in 1 .. AsRead
    BY <1>5, <1>7
  <2> QED
    BY <1>5, <1>6, <1>7, <2>1, SMTT(30)
<1>9. text \in Seq(Cells) /\ masked \in Seq(Cells)
  BY DEF PrivacyInv, ShapeOK
<1>10. SliceAgrees(masked, text, a, b)
  <2>1. masked \in Seq(Cells) /\ text \in Seq(Cells)
    BY <1>9
  <2>2. a \in 1 .. Len(masked) /\ b \in a .. Len(masked) /\ b <= Len(text)
    BY <1>7
  <2>3. \A k \in 1 .. b : masked[k] = text[k]
    BY <1>8
  <2> QED
    BY <2>1, <2>2, <2>3, SameSlice
<1> QED
  BY <1>3, <1>4, <1>7, <1>8, <1>10 DEF InPlace

(* The placeholder of a name or an address takes the place of its span. *)
LEMMA TakeSpanStep == PrivacyInv /\ TakeSpan => PrivacyInv'
<1> SUFFICES ASSUME PrivacyInv, TakeSpan PROVE PrivacyInv'
  OBVIOUS
<1>1. PICK org \in [1 .. Len(masked) + 1 -> 1 .. Len(text) + 1] : Tiles(org)
  BY DEF PrivacyInv, Tiled
<1>2. PICK a \in Nat, b \in Nat, label \in NER :
         a = spans[turn].first /\ b = spans[turn].last /\ label = spans[turn].label
  <2>1. turn \in DOMAIN spans
    BY Ranges DEF PrivacyInv, ShapeOK, TakeSpan
  <2>2. spans[turn] \in [first : Nat, last : Nat, label : NER]
    BY <2>1, Ranges DEF PrivacyInv
  <2> QED
    BY <2>2
<1>3. PICK original, r : original = Slice(masked, a, b) /\ r = Token(label, counters'[label])
  OBVIOUS
<1>4. /\ pc = "spans" /\ turn <= Len(spans) /\ turn' = turn + 1
      /\ MakeToken(label, original) /\ masked' = Splice(masked, a, b, r)
      /\ UNCHANGED <<pc, presidio, text, spans, kept, answer>>
  BY <1>2, <1>3 DEF TakeSpan
<1>5. /\ turn \in DOMAIN spans /\ label \in NER
      /\ a \in 1 .. Len(masked) /\ b \in a .. Len(masked)
      /\ a \in DOMAIN text /\ b \in DOMAIN text
      /\ org[b + 1] = b + 1
      /\ \A k \in 1 .. b : org[k] = k /\ masked[k] = text[k]
      /\ \A s \in 1 .. turn - 1 : b < spans[s].first
      /\ original = SubSeq(text, a, b)
      /\ original \in Seq(Cells)
      /\ \A c \in Range(original) : \E q \in DOMAIN text : text[q] = c /\ a <= q /\ q <= b
  <2>1. InPlace(org, a, b)
    BY <1>1, <1>2, <1>4, SpanInPlace
  <2>2. turn \in DOMAIN spans
    BY <1>4, Ranges DEF PrivacyInv, ShapeOK
  <2> QED
    BY <1>3, <2>1, <2>2 DEF InPlace, SliceAgrees
<1>6. /\ Len(text) \in Nat /\ DOMAIN text = 1 .. Len(text)
      /\ Len(masked) \in Nat /\ DOMAIN masked = 1 .. Len(masked)
      /\ Len(spans) \in Nat /\ DOMAIN spans = 1 .. Len(spans)
      /\ Len(mapping) \in Nat /\ DOMAIN mapping = 1 .. Len(mapping)
      /\ turn \in Nat \ {0}
  BY Ranges DEF PrivacyInv, ShapeOK
<1>7. /\ counters' \in [SOFT \cup NER -> Nat]
      /\ r \in Cells /\ r.sort = "token"
      /\ mapping' \in Seq(Entries) /\ DOMAIN mapping' = 1 .. Len(mapping) + 1
      /\ \A e \in DOMAIN mapping : e \in DOMAIN mapping' /\ mapping'[e] = mapping[e]
      /\ mapping'[Len(mapping) + 1] = [token |-> r, original |-> original]
  <2>1. ShapeOK /\ label \in SOFT \cup NER
    BY <1>5 DEF PrivacyInv
  <2> QED
    BY <1>3, <1>4, <1>5, <2>1, TokenStep
<1>8. PICK nxt : nxt = Joined(org, a, b)
  OBVIOUS
<1>9. /\ masked' \in Seq(Cells)
      /\ Len(masked') = Len(masked) - (b - a) /\ DOMAIN masked' = 1 .. Len(masked')
      /\ nxt \in [1 .. Len(masked') + 1 -> 1 .. Len(text) + 1]
      /\ nxt[1] = 1 /\ nxt[Len(masked') + 1] = Len(text) + 1
      /\ \A k, l \in 1 .. Len(masked') + 1 : k < l => nxt[k] < nxt[l]
      /\ \A p \in DOMAIN text : \E k \in DOMAIN masked' : nxt[k] <= p /\ p < nxt[k + 1]
      /\ nxt[a] = org[a] /\ nxt[a + 1] = org[b + 1]
      /\ \A k \in DOMAIN masked' :
            masked'[k] = IF k < a THEN masked[k] ELSE IF k = a THEN r ELSE masked[k + (b - a)]
      /\ \A k \in 1 .. a : nxt[k] = org[k]
      /\ \A k \in DOMAIN masked : k < a \/ b < k =>
            \E l \in DOMAIN masked' :
               nxt[l] = org[k] /\ nxt[l + 1] = org[k + 1] /\ masked'[l] = masked[k]
      /\ \A k \in DOMAIN masked' :
            k # a => Keeps(nxt, k)' \/ HidesSpan(nxt, k)' \/ HidesMatch(nxt, k)'
  <2>1. Rejoined(org, a, b, r, nxt)
    <3>1. ShapeOK
      BY DEF PrivacyInv
    <3>2. masked' = Splice(masked, a, b, r) /\ text' = text /\ spans' = spans
      BY <1>4
    <3>3. \A e \in DOMAIN mapping : e \in DOMAIN mapping' /\ mapping'[e] = mapping[e]
      BY <1>7
    <3>4. a \in 1 .. Len(masked) /\ b \in a .. Len(masked) /\ r \in Cells
      BY <1>5, <1>7
    <3> QED
      BY <1>1, <1>8, <3>1, <3>2, <3>3, <3>4, Retiled
  <2> QED
    BY <2>1 DEF Rejoined
<1>16. /\ 1 <= a /\ a <= b /\ b <= Len(masked) /\ a - 1 <= Len(masked) - (b - a)
       /\ a \in 1 .. Len(masked) - (b - a) /\ a \in 1 .. a /\ a \in 1 .. b
  <2>1. a \in 1 .. Len(masked) /\ b \in a .. Len(masked)
    BY <1>5
  <2> QED
    BY <1>6, <2>1
<1>17. /\ org[b + 1] = b + 1
       /\ \A k \in 1 .. b : org[k] = k /\ masked[k] = text[k]
       /\ \A s \in 1 .. turn - 1 : b < spans[s].first
  BY <1>5
<1>10. a \in DOMAIN masked' /\ masked'[a] = r /\ nxt[a] = a /\ nxt[a + 1] = b + 1
  <2>1. a \in DOMAIN masked' /\ nxt[a] = org[a] /\ nxt[a + 1] = org[b + 1]
    BY <1>9, <1>16
  <2>2. masked'[a] = r
    BY <1>9, <2>1
  <2> QED
    BY <1>16, <1>17, <2>1, <2>2
<1>11. ShapeOK' /\ TextFits'
  <2>1. /\ masked' \in Seq(Cells) /\ mapping' \in Seq(Entries)
        /\ counters' \in [SOFT \cup NER -> Nat]
    BY <1>7, <1>9
  <2>2. turn' \in Nat \ {0} /\ UNCHANGED <<pc, text, spans, answer>>
    BY <1>4, <1>6
  <2> QED
    BY <2>1, <2>2 DEF PrivacyInv, ShapeOK, TextFits
<1>12. SpansFit'
  BY <1>4, <1>6 DEF PrivacyInv, SpansFit
<1>13. Tiled'
  <2>1. HidesSpan(nxt, a)'
    <3>1. Stored(r, SubSeq(text, a, (b + 1) - 1))'
      <4>1. (b + 1) - 1 = b /\ Len(mapping) + 1 \in DOMAIN mapping'
        BY <1>6, <1>7
      <4>2. original = SubSeq(text, a, (b + 1) - 1) /\ text' = text
        BY <1>4, <1>5, <4>1
      <4>3. PICK e \in DOMAIN mapping' : mapping'[e].token = r /\ mapping'[e].original = original
        BY <1>7, <4>1
      <4> QED
        BY <4>2, <4>3 DEF Stored
    <3> QED
      BY <1>2, <1>4, <1>5, <1>7, <1>10, <3>1 DEF HidesSpan
  <2>2. AsRead' = a - 1 /\ Taken' = 1 .. turn
    BY <1>2, <1>4, <1>6 DEF AsRead, Taken
  <2>3. /\ a - 1 <= Len(masked') /\ nxt[(a - 1) + 1] = (a - 1) + 1
        /\ \A k \in 1 .. a - 1 : nxt[k] = k /\ masked'[k] = text[k]
    <3>1. a - 1 <= Len(masked') /\ (a - 1) + 1 = a
      BY <1>6, <1>9, <1>16
    <3>2. \A k \in 1 .. a - 1 : k \in 1 .. a /\ k \in 1 .. b /\ k \in DOMAIN masked' /\ k < a
      BY <1>6, <1>9, <1>16
    <3>3. \A k \in 1 .. a - 1 : nxt[k] = org[k] /\ masked'[k] = masked[k]
      BY <1>9, <3>2
    <3> QED
      BY <1>10, <1>17, <3>1, <3>2, <3>3
  <2>4. ASSUME NEW s \in 1 .. turn
        PROVE  \E k \in DOMAIN masked' :
                  nxt[k] = spans[s].first /\ nxt[k + 1] = spans[s].last + 1
                  /\ masked'[k].sort = "token"
    <3>1. CASE s = turn
      BY <1>2, <1>7, <1>10, <3>1
    <3>2. CASE s # turn
      <4>1. s \in 1 .. turn - 1 /\ s \in Taken
        BY <1>4, <1>6, <3>2 DEF Taken
      <4>2. PICK k \in DOMAIN masked :
               org[k] = spans[s].first /\ org[k + 1] = spans[s].last + 1 /\ masked[k].sort = "token"
        BY <1>1, <4>1 DEF Tiles
      <4>3. b < k
        <5>1. k \in Nat /\ 1 <= k /\ b < org[k]
          BY <1>6, <1>17, <4>1, <4>2
        <5>2. k <= b => org[k] = k
          BY <1>17, <5>1
        <5> QED
          BY <5>1, <5>2
      <4> QED
        BY <1>9, <4>2, <4>3
    <3> QED
      BY <3>1, <3>2
  <2>5. \A k \in DOMAIN masked' : Keeps(nxt, k)' \/ HidesSpan(nxt, k)' \/ HidesMatch(nxt, k)'
    BY <1>9, <2>1
  <2> HIDE DEF AsRead, Taken
  <2>6. Tiles(nxt)'
    BY <1>4, <1>9, <2>2, <2>3, <2>4, <2>5 DEF Tiles
  <2> QED
    BY <1>4, <1>9, <2>6 DEF Tiled
<1>14. MappingFits'
  <2>1. \A c \in Range(original) :
           c.sort = "text" /\ (IsHard(c) => \E q \in DOMAIN text : text[q] = c /\ Covered(q))
    <3>1. \A q \in DOMAIN text : a <= q /\ q <= b => Covered(q)
      BY <1>2, <1>5 DEF Covered
    <3>2. \A q \in DOMAIN text : text[q].sort = "text"
      BY TextFacts DEF PrivacyInv
    <3> QED
      BY <1>5, <3>1, <3>2
  <2>2. ShapeOK /\ MappingFits /\ label \in SOFT \cup NER
    BY <1>5 DEF PrivacyInv
  <2> QED
    BY <1>4, <1>5, <2>1, <2>2, MappingStep
<1>15. RulesDone' /\ AnswerSoFar'
  BY <1>4 DEF PrivacyInv, RulesDone, AnswerSoFar
<1> QED
  BY <1>11, <1>12, <1>13, <1>14, <1>15 DEF PrivacyInv

(* Once the spans have their placeholders, a cell of the text is outside all of them. *)
LEMMA KeptOutside ==
    ASSUME ShapeOK, TextFits, pc \notin {"detect", "spans"},
           NEW org \in [1 .. Len(masked) + 1 -> 1 .. Len(text) + 1], Tiles(org),
           NEW k \in DOMAIN masked, masked[k].sort = "text"
    PROVE  ~ Covered(org[k])
<1> SUFFICES ASSUME Covered(org[k]) PROVE FALSE
  OBVIOUS
<1>1. /\ DOMAIN text = 1 .. Len(text) /\ Len(text) \in Nat
      /\ \A s \in DOMAIN spans : spans[s] \in [first : Nat, last : Nat, label : NER]
  BY Ranges
<1>2. Keeps(org, k) /\ org[k] \in Nat
  BY <1>1, MaskedCells
<1>3. PICK s \in DOMAIN spans : spans[s].first <= org[k] /\ org[k] <= spans[s].last
  BY DEF Covered
<1>4. PICK l \in DOMAIN masked :
         org[l] = spans[s].first /\ org[l + 1] = spans[s].last + 1 /\ masked[l].sort = "token"
  BY DEF Tiles, Taken
<1>5. org[k + 1] = org[k] + 1
  BY <1>2 DEF Keeps
<1>6. /\ org[k] <= org[k] /\ org[k] < org[k + 1]
      /\ org[l] <= org[k] /\ org[k] < org[l + 1]
  BY <1>1, <1>2, <1>3, <1>4, <1>5
<1>7. k = l
  BY <1>2, <1>6, TileOrder
<1> QED
  BY <1>4, <1>7

(* The particles of the masked text are those of the text that are outside the spans. *)
LEMMA ParticlesStand ==
    ASSUME ShapeOK, TextFits, pc \notin {"detect", "spans"},
           NEW org \in [1 .. Len(masked) + 1 -> 1 .. Len(text) + 1], Tiles(org)
    PROVE  /\ \A q : Sticks(text, q) /\ ~ Covered(q) =>
                 \E j \in DOMAIN masked : org[j] = q /\ org[j + 1] = q + 1 /\ Sticks(masked, j)
           /\ \A j : Sticks(masked, j) =>
                 /\ j \in DOMAIN masked /\ org[j + 1] = org[j] + 1
                 /\ Sticks(text, org[j]) /\ ~ Covered(org[j])
<1>1. /\ Len(text) \in Nat /\ DOMAIN text = 1 .. Len(text)
      /\ Len(masked) \in Nat /\ DOMAIN masked = 1 .. Len(masked)
      /\ \A s \in DOMAIN spans : spans[s] \in [first : Nat, last : Nat, label : NER]
  BY Ranges
<1>2. ASSUME NEW q, Sticks(text, q), ~ Covered(q)
      PROVE  \E j \in DOMAIN masked : org[j] = q /\ org[j + 1] = q + 1 /\ Sticks(masked, j)
  <2>1. q \in DOMAIN text /\ q \in Nat /\ text[q].half = 0
    <3>1. q \in DOMAIN text
      BY <1>2 DEF Sticks
    <3> QED
      BY <1>1, <1>2, <3>1, TextFacts
  <2>2. PICK j \in DOMAIN masked : org[j] <= q /\ q < org[j + 1]
    BY <2>1 DEF Tiles
  <2>3. org[j] \in DOMAIN text /\ org[j] \in Nat
    BY <1>1, MaskedCells
  <2>4. ~ HidesSpan(org, j)
    <3> SUFFICES ASSUME HidesSpan(org, j) PROVE FALSE
      OBVIOUS
    <3>1. PICK s \in DOMAIN spans : spans[s].first = org[j] /\ spans[s].last + 1 = org[j + 1]
      BY DEF HidesSpan
    <3>2. spans[s].first <= q /\ q <= spans[s].last
      BY <1>1, <2>1, <2>2, <3>1
    <3> QED
      BY <1>2, <3>2 DEF Covered
  <2>5. ~ HidesMatch(org, j)
    <3> SUFFICES ASSUME HidesMatch(org, j) PROVE FALSE
      OBVIOUS
    <3>1. org[j + 1] = org[j] + 2 /\ text[org[j]].half = 1
      BY DEF HidesMatch, Exposed
    <3>2. text[org[j] + 1].half = 2
      <4>1. text[org[j] + 1] = Half(text[org[j]].label, org[j], 2)
        BY <2>3, <3>1, TextFacts
      <4> QED
        BY <4>1 DEF Half, Cell
    <3>3. q = org[j] \/ q = org[j] + 1
      BY <2>1, <2>2, <2>3, <3>1
    <3> QED
      BY <2>1, <3>1, <3>2, <3>3
  <2>6. org[j + 1] = org[j] + 1 /\ masked[j] = text[org[j]]
    BY <2>4, <2>5 DEF Tiles, Keeps
  <2>7. org[j] = q
    BY <2>1, <2>2, <2>3, <2>6
  <2> QED
    BY <1>2, <2>6, <2>7 DEF Sticks
<1>3. ASSUME NEW j, Sticks(masked, j)
      PROVE  /\ j \in DOMAIN masked /\ org[j + 1] = org[j] + 1
             /\ Sticks(text, org[j]) /\ ~ Covered(org[j])
  <2>1. j \in DOMAIN masked /\ masked[j].sort = "text" /\ masked[j].label = "particle"
    BY <1>3 DEF Sticks
  <2>2. org[j] \in DOMAIN text /\ Keeps(org, j)
    BY <2>1, MaskedCells
  <2>3. ~ Covered(org[j])
    BY <2>1, KeptOutside
  <2> QED
    BY <2>1, <2>2, <2>3 DEF Keeps, Sticks
<1> QED
  BY <1>2, <1>3

(* A rule matches only what the text has side by side, no span took in, and no letters
   stick to.                                                                          *)
MatchedAt(org, p, label) ==
    /\ p \in 1 .. Len(masked) /\ p + 1 \in p .. Len(masked) /\ p \in Nat
    /\ org[p] \in DOMAIN text /\ org[p + 1] = org[p] + 1 /\ org[p + 2] = org[p] + 2
    /\ text[org[p]].label = label /\ Exposed(org[p])
    /\ Slice(masked, p, p + 1) = SubSeq(text, org[p], org[p] + 1)
    /\ Slice(masked, p, p + 1) \in Seq(Cells)
    /\ \A c \in Range(Slice(masked, p, p + 1)) : c.sort = "text" /\ c.label = label

LEMMA MatchInText ==
    ASSUME PrivacyInv, pc = "rules",
           NEW org \in [1 .. Len(masked) + 1 -> 1 .. Len(text) + 1], Tiles(org),
           NEW label \in HARD \cup SOFT, NEW p \in Matches(masked, label)
    PROVE  MatchedAt(org, p, label)
<1>1. /\ Len(text) \in Nat /\ DOMAIN text = 1 .. Len(text)
      /\ Len(masked) \in Nat /\ DOMAIN masked = 1 .. Len(masked)
      /\ Len(spans) \in Nat /\ DOMAIN spans = 1 .. Len(spans)
      /\ \A s \in DOMAIN spans : spans[s] \in [first : Nat, last : Nat, label : NER]
      /\ ShapeOK /\ TextFits
  BY Ranges DEF PrivacyInv
<1>2. /\ p \in 1 .. Len(masked) - 1
      /\ masked[p].sort = "text" /\ masked[p].label = label /\ masked[p].half = 1
      /\ masked[p + 1].sort = "text" /\ masked[p + 1].label = label
  BY DEF Matches
<1>3. /\ p \in Nat /\ p \in 1 .. Len(masked) /\ p + 1 \in p .. Len(masked) /\ p + 1 \in 1 .. Len(masked)
      /\ (p + 1) + 1 = p + 2
  BY <1>1, <1>2
<1>4. Keeps(org, p) /\ org[p] \in DOMAIN text
  BY <1>1, <1>2, <1>3, MaskedCells
<1>5. Keeps(org, p + 1) /\ org[p + 1] \in DOMAIN text
  BY <1>1, <1>2, <1>3, MaskedCells
<1>6. PICK o \in Nat : o = org[p]
  BY <1>1, <1>4
<1>7. /\ o \in DOMAIN text /\ org[p + 1] = o + 1 /\ o + 1 \in DOMAIN text /\ org[p + 2] = o + 2
      /\ masked[p] = text[o] /\ masked[p + 1] = text[o + 1]
  <2>1. org[p + 1] = o + 1 /\ masked[p] = text[o]
    BY <1>4, <1>6 DEF Keeps
  <2>2. org[p + 2] = org[p + 1] + 1 /\ masked[p + 1] = text[org[p + 1]]
    BY <1>3, <1>5 DEF Keeps
  <2> QED
    BY <1>4, <1>5, <1>6, <2>1, <2>2
<1>8. text[o].label = label /\ text[o].half = 1
  BY <1>2, <1>7
<1>9. ~ Covered(org[p]) /\ ~ Covered(org[p + 1])
  <2>1. pc \notin {"detect", "spans"} /\ p \in DOMAIN masked /\ p + 1 \in DOMAIN masked
    BY <1>1, <1>3
  <2> QED
    BY <1>1, <1>2, <2>1, KeptOutside
<1>10. Exposed(o)
  <2> SUFFICES ASSUME label # "EMAIL", NEW q \in {o - 1, o + 2}, Sticks(text, q), ~ Covered(q)
               PROVE  FALSE
    BY <1>6, <1>7, <1>8, <1>9 DEF Exposed
  <2>1. PICK j \in DOMAIN masked : org[j] = q /\ org[j + 1] = q + 1 /\ Sticks(masked, j)
    BY <1>1, ParticlesStand
  <2>2. ~ Sticks(masked, p - 1) /\ ~ Sticks(masked, p + 2)
    BY DEF Matches
  <2>3. /\ j \in 1 .. Len(masked) + 1 /\ j + 1 \in 1 .. Len(masked) + 1 /\ j \in Nat
        /\ p \in 1 .. Len(masked) + 1 /\ p + 2 \in 1 .. Len(masked) + 1
    BY <1>1, <1>3
  <2>4. CASE q = o - 1
    <3>1. org[j + 1] = org[p]
      BY <1>6, <2>1, <2>4
    <3>2. j + 1 = p
      BY <1>1, <2>3, <3>1, TileOrder
    <3>3. j = p - 1
      BY <1>3, <2>3, <3>2
    <3> QED
      BY <2>1, <2>2, <3>3
  <2>5. CASE q = o + 2
    <3>1. org[j] = org[p + 2]
      BY <1>6, <1>7, <2>1, <2>5
    <3>2. \A k, m \in 1 .. Len(masked) + 1 : org[k] = org[m] => k = m
      BY <1>1, TileOrder
    <3>3. j = p + 2
      BY <2>3, <3>1, <3>2
    <3> QED
      BY <2>1, <2>2, <3>3
  <2> QED
    BY <2>4, <2>5
<1> DEFINE u == Slice(masked, p, p + 1)
           v == SubSeq(text, o, o + 1)
<1>11. u \in Seq(Cells) /\ Len(u) = 2 /\ u[1] = text[o] /\ u[2] = text[o + 1]
  <2>1. masked \in Seq(Cells) /\ p \in Nat \ {0} /\ p + 1 \in 0 .. Len(masked)
    BY <1>1, <1>3 DEF ShapeOK
  <2>2. /\ u \in Seq(Cells) /\ Len(u) = IF p <= p + 1 THEN (p + 1) - p + 1 ELSE 0
        /\ \A k \in 1 .. (p + 1) - p + 1 : u[k] = masked[p + k - 1]
    BY <2>1, SliceFacts
  <2>3. /\ (p + 1) - p + 1 = 2 /\ p <= p + 1 /\ p + 1 - 1 = p /\ p + 2 - 1 = p + 1
        /\ 1 \in 1 .. 2 /\ 2 \in 1 .. 2
    BY <1>3
  <2> HIDE DEF u
  <2> QED
    BY <1>7, <2>2, <2>3
<1>12. v \in Seq(Cells) /\ Len(v) = 2 /\ v[1] = text[o] /\ v[2] = text[o + 1]
  <2>1. /\ o \in Int /\ o + 1 \in Int /\ \A k \in o .. o + 1 : text[k] \in Cells
    <3>1. text \in Seq(Cells) /\ \A k \in o .. o + 1 : k \in 1 .. Len(text)
      BY <1>1, <1>7 DEF ShapeOK
    <3> QED
      BY <3>1, ElementOfSeq
  <2>2. /\ v \in Seq(Cells) /\ Len(v) = IF o <= o + 1 THEN (o + 1) - o + 1 ELSE 0
        /\ \A k \in 1 .. (o + 1) - o + 1 : v[k] = text[o + k - 1]
    BY <2>1, SubSeqProperties
  <2>3. /\ (o + 1) - o + 1 = 2 /\ o <= o + 1 /\ o + 1 - 1 = o /\ o + 2 - 1 = o + 1
        /\ 1 \in 1 .. 2 /\ 2 \in 1 .. 2
    OBVIOUS
  <2> HIDE DEF v
  <2> QED
    BY <2>2, <2>3
<1> HIDE DEF u, v
<1>13. \A k \in 1 .. 2 : k = 1 \/ k = 2
  OBVIOUS
<1>14. u = v
  <2>1. \A k \in 1 .. 2 : u[k] = v[k]
    BY <1>11, <1>12, <1>13
  <2> QED
    BY <1>11, <1>12, <2>1, SeqEqual
<1>15. ASSUME NEW c \in Range(u) PROVE c.sort = "text" /\ c.label = label
  <2>1. DOMAIN u = 1 .. 2
    BY <1>11, LenProperties
  <2>2. PICK k \in 1 .. 2 : c = u[k]
    BY <2>1 DEF Range
  <2> QED
    BY <1>2, <1>7, <1>11, <1>13, <2>2
<1>16. Slice(masked, p, p + 1) = SubSeq(text, org[p], org[p] + 1)
  BY <1>6, <1>14 DEF u, v
<1> QED
  BY <1>3, <1>6, <1>7, <1>8, <1>10, <1>11, <1>15, <1>16 DEF MatchedAt, u

(* Where a placeholder has been put, no rule matches that did not match before. *)
LEMMA NoNewMatch ==
    ASSUME NEW s \in Seq(Cells), NEW r \in Cells, NEW a \in 1 .. Len(s), NEW b \in a .. Len(s),
           r.sort # "text", \A k \in a .. b : ~ Sticks(s, k), NEW label, Matches(s, label) = {}
    PROVE  Matches(Splice(s, a, b, r), label) = {}
<1> DEFINE t == Splice(s, a, b, r)
           d == b - a
           n == Len(s)
<1>1. n \in Nat /\ a \in Nat /\ b \in Nat /\ 1 <= a /\ a <= b /\ b <= n /\ d \in Nat /\ a + d = b
  BY LenProperties
<1>2. /\ Len(t) = n - d
      /\ \A k \in 1 .. n - d : t[k] = IF k < a THEN s[k] ELSE IF k = a THEN r ELSE s[k + d]
  <2>1. /\ Len(Splice(s, a, b, r)) = Len(s) - (b - a)
        /\ \A k \in 1 .. Len(s) - (b - a) :
              Splice(s, a, b, r)[k] =
                  IF k < a THEN s[k] ELSE IF k = a THEN r ELSE s[k + (b - a)]
    <3> HIDE DEF t, d, n
    <3> QED
      BY SpliceFacts, SMTT(30)
  <2> QED
    BY <2>1
<1> HIDE DEF t, d, n
<1>3. ASSUME NEW q \in Matches(t, label) PROVE FALSE
  <2>1. /\ q \in 1 .. n - d - 1
        /\ t[q].sort = "text" /\ t[q].label = label /\ t[q].half = 1
        /\ t[q + 1].sort = "text" /\ t[q + 1].label = label /\ t[q + 1].half = 2
    BY <1>2 DEF Matches
  <2>2. q \in 1 .. n - d /\ q + 1 \in 1 .. n - d
    BY <1>1, <2>1
  <2>3. q # a /\ q + 1 # a
    BY <1>2, <2>1, <2>2
  <2>7. label # "EMAIL" => ~ Sticks(t, q - 1) /\ ~ Sticks(t, q + 2)
    BY <1>3 DEF Matches
  <2>8. DOMAIN s = 1 .. n /\ DOMAIN t = 1 .. n - d
    <3>1. t \in Seq(Cells)
      BY SpliceFacts DEF t
    <3> QED
      BY <1>2, <3>1, LenProperties DEF n
  <2>4. CASE q + 1 < a
    <3>1. t[q] = s[q] /\ t[q + 1] = s[q + 1] /\ q \in 1 .. n - 1
      BY <1>1, <1>2, <2>2, <2>4
    <3>2. Sticks(s, q - 1) => Sticks(t, q - 1)
      <4> SUFFICES ASSUME Sticks(s, q - 1) PROVE Sticks(t, q - 1)
        OBVIOUS
      <4>1. q - 1 \in 1 .. n - d /\ q - 1 < a
        BY <1>1, <2>2, <2>4, <2>8 DEF Sticks
      <4>2. t[q - 1] = s[q - 1]
        BY <1>2, <4>1
      <4> QED
        BY <2>8, <4>1, <4>2 DEF Sticks
    <3>3. Sticks(s, q + 2) => Sticks(t, q + 2)
      <4> SUFFICES ASSUME Sticks(s, q + 2) PROVE Sticks(t, q + 2)
        OBVIOUS
      <4>1. q + 2 # a
        BY <1>1
      <4>2. q + 2 \in 1 .. n - d /\ q + 2 < a
        BY <1>1, <2>2, <2>4, <4>1
      <4>3. t[q + 2] = s[q + 2]
        BY <1>2, <4>2
      <4> QED
        BY <2>8, <4>2, <4>3 DEF Sticks
    <3>4. q \in Matches(s, label)
      BY <2>1, <2>7, <3>1, <3>2, <3>3 DEF Matches, n
    <3> QED
      BY <3>4
  <2>5. CASE a < q
    <3>1. q + d \in 1 .. n - 1 /\ (q + 1) + d = (q + d) + 1
      BY <1>1, <2>1, <2>5
    <3>2. t[q] = s[q + d] /\ t[q + 1] = s[(q + d) + 1]
      <4>1. ~ (q < a) /\ ~ (q + 1 < a)
        BY <1>1, <2>1, <2>5
      <4> QED
        BY <1>2, <2>2, <2>3, <3>1, <4>1
    <3>4. Sticks(s, (q + d) - 1) => Sticks(t, q - 1)
      <4> SUFFICES ASSUME Sticks(s, (q + d) - 1) PROVE Sticks(t, q - 1)
        OBVIOUS
      <4>1. q - 1 # a
        <5>1. b \in a .. b /\ (a + 1 + d) - 1 = b
          BY <1>1
        <5> QED
          BY <1>1, <2>2, <5>1
      <4>2. q - 1 \in 1 .. n - d /\ ~ (q - 1 < a) /\ (q - 1) + d = (q + d) - 1
        BY <1>1, <2>2, <2>5, <4>1
      <4>3. t[q - 1] = s[(q + d) - 1]
        BY <1>2, <4>1, <4>2
      <4> QED
        BY <2>8, <4>2, <4>3 DEF Sticks
    <3>5. Sticks(s, (q + d) + 2) => Sticks(t, q + 2)
      <4> SUFFICES ASSUME Sticks(s, (q + d) + 2) PROVE Sticks(t, q + 2)
        OBVIOUS
      <4>1. /\ q + 2 \in 1 .. n - d /\ ~ (q + 2 < a) /\ q + 2 # a
            /\ (q + 2) + d = (q + d) + 2
        <5>1. (q + d) + 2 \in 1 .. n
          BY <2>8 DEF Sticks
        <5> QED
          BY <1>1, <2>2, <2>5, <5>1
      <4>2. t[q + 2] = s[(q + d) + 2]
        BY <1>2, <4>1
      <4> QED
        BY <2>8, <4>1, <4>2 DEF Sticks
    <3>3. q + d \in Matches(s, label)
      BY <2>1, <2>7, <3>1, <3>2, <3>4, <3>5 DEF Matches, n
    <3> QED
      BY <3>3
  <2> QED
    BY <1>1, <2>1, <2>3, <2>4, <2>5
<1> QED
  BY <1>3 DEF t

(* What a substitution leaves behind, whichever the placeholder. *)
LEMMA Substituted ==
    ASSUME PrivacyInv, pc = "rules", NEW label \in HARD \cup SOFT, NEW p \in Matches(masked, label),
           NEW r \in Cells, r.sort # "text", masked' = Splice(masked, p, p + 1, r),
           UNCHANGED <<pc, text, spans, turn>>,
           \A e \in DOMAIN mapping : e \in DOMAIN mapping' /\ mapping'[e] = mapping[e],
           NEW original, original = Slice(masked, p, p + 1),
           IF label \in HARD THEN r = Placeholder(label)
                             ELSE r.sort = "token" /\ Stored(r, original)'
    PROVE  masked' \in Seq(Cells) /\ Tiled' /\ RulesDone'
<1>1. PICK org \in [1 .. Len(masked) + 1 -> 1 .. Len(text) + 1] : Tiles(org)
  BY DEF PrivacyInv, Tiled
<1>2. MatchedAt(org, p, label)
  BY <1>1, MatchInText
<1>3. /\ p \in 1 .. Len(masked) /\ p + 1 \in p .. Len(masked) /\ p \in Nat
      /\ org[p] \in DOMAIN text /\ org[p + 1] = org[p] + 1 /\ org[p + 2] = org[p] + 2
      /\ text[org[p]].label = label /\ Exposed(org[p])
  BY <1>2 DEF MatchedAt
<1>4. original = SubSeq(text, org[p], org[p] + 1)
  BY <1>2 DEF MatchedAt
<1>5. PICK o \in Nat, b \in Nat : o = org[p] /\ b = p + 1
  <2>1. org[p] \in Nat /\ p + 1 \in Nat
    BY <1>3, Ranges DEF PrivacyInv
  <2> QED
    BY <2>1
<1>6. /\ Len(text) \in Nat /\ DOMAIN text = 1 .. Len(text)
      /\ Len(masked) \in Nat /\ DOMAIN masked = 1 .. Len(masked)
  BY Ranges DEF PrivacyInv
<1>7. PICK nxt : nxt = Joined(org, p, b)
  OBVIOUS
<1>8. Rejoined(org, p, b, r, nxt)
  <2>1. ShapeOK
    BY DEF PrivacyInv
  <2>2. masked' = Splice(masked, p, b, r) /\ text' = text /\ spans' = spans
    BY <1>5
  <2>3. p \in 1 .. Len(masked) /\ b \in p .. Len(masked)
    BY <1>3, <1>5
  <2> QED
    BY <1>1, <1>7, <2>1, <2>2, <2>3, Retiled
<1>9. /\ masked' \in Seq(Cells)
      /\ Len(masked') = Len(masked) - (b - p) /\ DOMAIN masked' = 1 .. Len(masked')
      /\ nxt \in [1 .. Len(masked') + 1 -> 1 .. Len(text) + 1]
      /\ nxt[1] = 1 /\ nxt[Len(masked') + 1] = Len(text) + 1
      /\ \A k, l \in 1 .. Len(masked') + 1 : k < l => nxt[k] < nxt[l]
      /\ \A q \in DOMAIN text : \E k \in DOMAIN masked' : nxt[k] <= q /\ q < nxt[k + 1]
      /\ nxt[p] = org[p] /\ nxt[p + 1] = org[b + 1]
      /\ \A k \in DOMAIN masked' :
            masked'[k] = IF k < p THEN masked[k] ELSE IF k = p THEN r ELSE masked[k + (b - p)]
      /\ \A k \in DOMAIN masked : k < p \/ b < k =>
            \E l \in DOMAIN masked' :
               nxt[l] = org[k] /\ nxt[l + 1] = org[k + 1] /\ masked'[l] = masked[k]
      /\ \A k \in DOMAIN masked' :
            k # p => Keeps(nxt, k)' \/ HidesSpan(nxt, k)' \/ HidesMatch(nxt, k)'
  BY <1>8 DEF Rejoined
<1>10. /\ p \in DOMAIN masked' /\ masked'[p] = r /\ nxt[p] = o /\ nxt[p + 1] = o + 2
  <2>1. p \in DOMAIN masked'
    <3>1. p <= Len(masked) - (b - p) /\ 1 <= p
      BY <1>3, <1>5, <1>6
    <3> QED
      BY <1>3, <1>9, <3>1
  <2>2. masked'[p] = r
    BY <1>3, <1>9, <2>1
  <2>3. b + 1 = p + 2
    BY <1>3, <1>5
  <2> QED
    BY <1>3, <1>5, <1>9, <2>1, <2>2, <2>3
<1>11. Tiled'
  <2>1. HidesMatch(nxt, p)'
    <3>1. Exposed(o)'
      BY <1>3, <1>5 DEF Exposed, Covered
    <3>2. o \in DOMAIN text /\ text[o].label = label /\ original = SubSeq(text, o, o + 1)
      BY <1>3, <1>4, <1>5
    <3> QED
      BY <1>10, <3>1, <3>2 DEF HidesMatch, Stored
  <2>2. AsRead' = 0 /\ Taken' = DOMAIN spans /\ Taken = DOMAIN spans
    BY DEF AsRead, Taken
  <2>3. ASSUME NEW s \in DOMAIN spans
        PROVE  \E k \in DOMAIN masked' :
                  nxt[k] = spans[s].first /\ nxt[k + 1] = spans[s].last + 1
                  /\ masked'[k].sort = "token"
    <3>1. PICK k \in DOMAIN masked :
             org[k] = spans[s].first /\ org[k + 1] = spans[s].last + 1 /\ masked[k].sort = "token"
      BY <1>1, <2>2 DEF Tiles
    <3>2. k # p /\ k # p + 1
      BY <3>1 DEF Matches
    <3>3. k < p \/ b < k
      BY <1>3, <1>5, <1>6, <3>2
    <3> QED
      BY <1>9, <3>1, <3>3
  <2>4. \A k \in DOMAIN masked' : Keeps(nxt, k)' \/ HidesSpan(nxt, k)' \/ HidesMatch(nxt, k)'
    BY <1>9, <2>1
  <2>5. nxt[0 + 1] = 0 + 1 /\ 0 <= Len(masked')
    BY <1>3, <1>5, <1>6, <1>9, <1>10
  <2> HIDE DEF AsRead, Taken
  <2>6. Tiles(nxt)'
    BY <1>9, <2>2, <2>3, <2>4, <2>5 DEF Tiles
  <2> QED
    BY <1>9, <2>6 DEF Tiled
<1>12. RulesDone'
  <2>1. \A l : Matches(masked, l) = {} => Matches(masked', l) = {}
    <3> SUFFICES ASSUME NEW l, Matches(masked, l) = {} PROVE Matches(masked', l) = {}
      OBVIOUS
    <3>1. /\ masked \in Seq(Cells) /\ p \in 1 .. Len(masked) /\ p + 1 \in p .. Len(masked)
      BY <1>3 DEF PrivacyInv, ShapeOK
    <3>3. \A k \in p .. p + 1 : ~ Sticks(masked, k)
      <4>1. masked[p].label = label /\ masked[p + 1].label = label
        BY DEF Matches
      <4>2. \A k \in p .. p + 1 : k = p \/ k = p + 1
        BY <1>3
      <4> QED
        BY <4>1, <4>2 DEF Sticks, HARD, SOFT
    <3>2. Matches(Splice(masked, p, p + 1, r), l) = {}
      BY <3>1, <3>3, NoNewMatch
    <3> QED
      BY <3>2
  <2>2. \A k \in 1 .. turn - 1 : Matches(masked', Rules[k]) = {}
    BY <2>1 DEF PrivacyInv, RulesDone
  <2> QED
    BY <2>2 DEF PrivacyInv, RulesDone, Rules
<1> QED
  BY <1>9, <1>11, <1>12

(* A placeholder takes the place of what a rule came across. *)
LEMMA SubstituteStep == PrivacyInv /\ Substitute => PrivacyInv'
<1> SUFFICES ASSUME PrivacyInv, Substitute PROVE PrivacyInv'
  OBVIOUS
<1>1. PICK label : label = Rules[turn]
  OBVIOUS
<1>2. turn \in 1 .. 4 /\ label \in HARD \cup SOFT
  BY <1>1 DEF PrivacyInv, ShapeOK, Substitute, Rules, HARD, SOFT
<1>3. PICK p : p = Min(Matches(masked, label))
  OBVIOUS
<1>4. p \in Matches(masked, label)
  <2>1. Matches(masked, label) # {}
    BY <1>1 DEF Substitute
  <2>2. Len(masked) \in Nat
    BY Ranges DEF PrivacyInv
  <2>3. Matches(masked, label) \in SUBSET Nat
    BY <2>2 DEF Matches
  <2> QED
    BY <1>3, <2>1, <2>3, MinIsThere
<1>5. /\ pc = "rules"
      /\ UNCHANGED <<pc, presidio, text, spans, turn, kept, answer>>
      /\ IF label \in HARD
         THEN /\ masked' = Splice(masked, p, p + 1, Placeholder(label))
              /\ UNCHANGED <<mapping, counters>>
         ELSE /\ MakeToken(label, Slice(masked, p, p + 1))
              /\ masked' = Splice(masked, p, p + 1, Token(label, counters'[label]))
  BY <1>1, <1>3 DEF Substitute
<1>6. PICK original : original = Slice(masked, p, p + 1)
  OBVIOUS
<1>7. original \in Seq(Cells) /\ \A c \in Range(original) : c.sort = "text" /\ c.label = label
  <2>1. PICK org \in [1 .. Len(masked) + 1 -> 1 .. Len(text) + 1] : Tiles(org)
    BY DEF PrivacyInv, Tiled
  <2>2. MatchedAt(org, p, label)
    BY <1>2, <1>4, <1>5, <2>1, MatchInText
  <2> QED
    BY <1>6, <2>2 DEF MatchedAt
<1>8. /\ masked' \in Seq(Cells) /\ Tiled' /\ RulesDone' /\ MappingFits'
      /\ mapping' \in Seq(Entries) /\ counters' \in [SOFT \cup NER -> Nat]
  <2>1. CASE label \in HARD
    <3>1. PICK r : r = Placeholder(label)
      OBVIOUS
    <3>2. r \in Cells /\ r.sort # "text"
      BY <2>1, <3>1 DEF Placeholder, Cell, Cells
    <3>3. \A e \in DOMAIN mapping : e \in DOMAIN mapping' /\ mapping'[e] = mapping[e]
      BY <1>5, <2>1
    <3>4. masked' = Splice(masked, p, p + 1, r) /\ UNCHANGED <<pc, text, spans, turn>>
      BY <1>5, <2>1, <3>1
    <3>5. IF label \in HARD THEN r = Placeholder(label)
                            ELSE r.sort = "token" /\ Stored(r, original)'
      BY <2>1, <3>1
    <3>6. masked' \in Seq(Cells) /\ Tiled' /\ RulesDone'
      BY <1>2, <1>4, <1>5, <1>6, <3>2, <3>3, <3>4, <3>5, Substituted
    <3>7. UNCHANGED <<mapping, counters, text, spans>>
      BY <1>5, <2>1
    <3>8. MappingFits'
      BY <3>7 DEF PrivacyInv, MappingFits, EntryFits, Covered
    <3> QED
      BY <3>6, <3>7, <3>8 DEF PrivacyInv, ShapeOK
  <2>2. CASE label \notin HARD
    <3>0. label \in SOFT \cup NER /\ label \in SOFT
      BY <1>2, <2>2
    <3>1. PICK r : r = Token(label, counters'[label])
      OBVIOUS
    <3>2. MakeToken(label, original)
      BY <1>5, <1>6, <2>2
    <3>3. /\ counters' \in [SOFT \cup NER -> Nat]
          /\ r \in Cells /\ r.sort = "token"
          /\ mapping' \in Seq(Entries) /\ DOMAIN mapping' = 1 .. Len(mapping) + 1
          /\ \A e \in DOMAIN mapping : e \in DOMAIN mapping' /\ mapping'[e] = mapping[e]
          /\ mapping'[Len(mapping) + 1] = [token |-> r, original |-> original]
      BY <1>7, <3>0, <3>1, <3>2, TokenStep DEF PrivacyInv
    <3>4. masked' = Splice(masked, p, p + 1, r) /\ UNCHANGED <<pc, text, spans, turn>>
      BY <1>5, <2>2, <3>1
    <3>5. IF label \in HARD THEN r = Placeholder(label)
                            ELSE r.sort = "token" /\ Stored(r, original)'
      <4>1. Len(mapping) + 1 \in DOMAIN mapping'
        BY <3>3, Ranges DEF PrivacyInv
      <4> QED
        BY <2>2, <3>3, <4>1 DEF Stored
    <3>6. masked' \in Seq(Cells) /\ Tiled' /\ RulesDone'
      <4>1. r.sort # "text"
        BY <3>3
      <4> QED
        BY <1>2, <1>4, <1>5, <1>6, <3>3, <3>4, <3>5, <4>1, Substituted
    <3>7. \A c \in Range(original) :
             c.sort = "text" /\ (IsHard(c) => \E q \in DOMAIN text : text[q] = c /\ Covered(q))
      BY <1>7, <2>2 DEF IsHard
    <3>8. MappingFits'
      BY <1>7, <3>0, <3>2, <3>4, <3>7, MappingStep DEF PrivacyInv
    <3> QED
      BY <3>3, <3>6, <3>8
  <2> QED
    BY <2>1, <2>2
<1>9. ShapeOK' /\ TextFits'
  BY <1>5, <1>8 DEF PrivacyInv, ShapeOK, TextFits
<1>10. SpansFit' /\ AnswerSoFar'
  BY <1>5 DEF PrivacyInv, SpansFit, AnswerSoFar
<1> QED
  BY <1>8, <1>9, <1>10 DEF PrivacyInv
-----------------------------------------------------------------------------
(* Last, those that restore the answer. *)

(* What a cell has become is read off the entries used so far. *)
LEMMA Images ==
    ASSUME ShapeOK, MappingFits, NEW n \in 0 .. Len(mapping)
    PROVE  /\ \A c \in Cells : ImageAfter(n, c) \in Seq(Cells)
           /\ \A e \in 1 .. n : ImageAfter(n, mapping[e].token) = mapping[e].original
           /\ \A c \in Cells :
                 (\A e \in 1 .. n : mapping[e].token # c) => ImageAfter(n, c) = <<c>>
<1>1. /\ Len(mapping) \in Nat /\ DOMAIN mapping = 1 .. Len(mapping)
      /\ \A e \in DOMAIN mapping : mapping[e] \in Entries
  BY Ranges
<1>2. \A e \in 1 .. n :
         e \in DOMAIN mapping /\ mapping[e].token \in Cells /\ mapping[e].original \in Seq(Cells)
  <2>1. \A e \in 1 .. n : e \in DOMAIN mapping
    BY <1>1
  <2> QED
    BY <1>1, <2>1 DEF Entries
<1>3. ASSUME NEW e \in 1 .. n PROVE ImageAfter(n, mapping[e].token) = mapping[e].original
  <2> DEFINE f == CHOOSE g \in 1 .. n : mapping[g].token = mapping[e].token
  <2>1. f \in 1 .. n /\ mapping[f].token = mapping[e].token
    OBVIOUS
  <2>2. ImageAfter(n, mapping[e].token) = mapping[f].original
    BY DEF ImageAfter
  <2> HIDE DEF f
  <2>3. f = e
    BY <1>2, <2>1 DEF MappingFits
  <2> QED
    BY <2>2, <2>3
<1>4. ASSUME NEW c \in Cells, \A e \in 1 .. n : mapping[e].token # c
      PROVE  ImageAfter(n, c) = <<c>>
  BY <1>4 DEF ImageAfter
<1>5. ASSUME NEW c \in Cells PROVE ImageAfter(n, c) \in Seq(Cells)
  <2>1. CASE \E e \in 1 .. n : mapping[e].token = c
    BY <1>2, <1>3, <2>1
  <2>2. CASE \A e \in 1 .. n : mapping[e].token # c
    <3>1. ImageAfter(n, c) = <<c>>
      BY <1>4, <2>2
    <3> QED
      BY <3>1
  <2> QED
    BY <2>1, <2>2
<1> QED
  BY <1>3, <1>4, <1>5

(* The pieces of the answer are sequences of cells. *)
LEMMA PiecesType ==
    ASSUME ShapeOK, MappingFits, turn <= Len(mapping) + 1
    PROVE  Pieces \in Seq(Seq(Cells)) /\ DOMAIN Pieces = DOMAIN masked
<1>1. /\ Len(masked) \in Nat /\ DOMAIN masked = 1 .. Len(masked)
      /\ \A k \in DOMAIN masked : masked[k] \in Cells
  BY Ranges
<1>2. \A k \in DOMAIN masked : Image(masked[k]) \in Seq(Cells)
  <2>1. turn - 1 \in 0 .. Len(mapping)
    BY Ranges DEF ShapeOK
  <2> QED
    BY <1>1, <2>1, Images DEF Image
<1>3. <<>> \in Seq(Cells)
  BY EmptySeq
<1>4. Pieces \in [1 .. Len(masked) -> Seq(Cells)]
  BY <1>1, <1>2, <1>3 DEF Pieces
<1> QED
  BY <1>1, <1>4, SeqDef

(* The LLM has copied what it copied; nothing is restored yet. *)
LEMMA LlmAnswersStep == PrivacyInv /\ LlmAnswers => PrivacyInv'
<1> SUFFICES ASSUME PrivacyInv, LlmAnswers PROVE PrivacyInv'
  OBVIOUS
<1>1. /\ pc = "rules" /\ pc' = "restore" /\ turn' = 1
      /\ UNCHANGED <<presidio, text, masked, spans, mapping, counters>>
      /\ kept' \subseteq DOMAIN masked /\ answer' = SelectInOrder(masked, kept')
  BY DEF LlmAnswers
<1>2. /\ Len(masked) \in Nat /\ DOMAIN masked = 1 .. Len(masked)
      /\ Len(mapping) \in Nat
      /\ \A k \in DOMAIN masked : masked[k] \in Cells
  BY Ranges DEF PrivacyInv
<1>3. answer' = FlattenSeq([k \in DOMAIN masked |-> IF k \in kept' THEN <<masked[k]>> ELSE <<>>])
  BY <1>1 DEF SelectInOrder
<1>4. answer' \in Seq(Cells)
  <2> DEFINE parts == [k \in DOMAIN masked |-> IF k \in kept' THEN <<masked[k]>> ELSE <<>>]
  <2>1. \A k \in DOMAIN masked : <<masked[k]>> \in Seq(Cells) /\ <<>> \in Seq(Cells)
    BY <1>2, EmptySeq
  <2>2. parts \in [1 .. Len(masked) -> Seq(Cells)]
    BY <1>2, <2>1
  <2>3. parts \in Seq(Seq(Cells))
    BY <1>2, <2>2, SeqDef
  <2>4. answer' = FlattenSeq(parts)
    BY <1>3
  <2> HIDE DEF parts
  <2> QED
    BY <2>3, <2>4, FlattenProperties
<1>5. ShapeOK' /\ TextFits'
  BY <1>1, <1>4 DEF PrivacyInv, ShapeOK, TextFits
<1>6. SpansFit' /\ MappingFits'
  BY <1>1 DEF PrivacyInv, SpansFit, MappingFits, EntryFits, Covered
<1>7. Tiled'
  <2>1. PICK org \in [1 .. Len(masked) + 1 -> 1 .. Len(text) + 1] : Tiles(org)
    BY DEF PrivacyInv, Tiled
  <2>2. AsRead' = 0 /\ Taken' \subseteq Taken
    BY <1>1 DEF AsRead, Taken
  <2>3. Tiles(org)'
    BY <1>1, <1>2, <2>1, <2>2, TilesCarry
  <2> QED
    BY <1>1, <2>1, <2>3 DEF Tiled
<1>8. RulesDone'
  <2>3. turn \in Nat /\ turn > 4
    BY DEF PrivacyInv, ShapeOK, LlmAnswers, Rules
  <2>4. turn <= 5 /\ \A k \in 1 .. turn - 1 : Matches(masked, Rules[k]) = {}
    BY <1>1 DEF PrivacyInv, RulesDone
  <2>1. turn = 5 /\ \A k \in 1 .. turn - 1 : Matches(masked, Rules[k]) = {}
    BY <2>3, <2>4
  <2>2. \A k \in 1 .. 4 : Matches(masked, Rules[k]) = {}
    BY <2>1
  <2> QED
    BY <1>1, <2>2 DEF RulesDone
<1>9. AnswerSoFar'
  <2>1. \A c : Image(c)' = <<c>>
    BY <1>1 DEF Image, ImageAfter
  <2>2. [k \in DOMAIN masked |-> IF k \in kept' THEN <<masked[k]>> ELSE <<>>] = Pieces'
    BY <1>1, <2>1 DEF Pieces
  <2>3. turn' <= Len(mapping') + 1
    BY <1>1, <1>2
  <2> QED
    BY <1>1, <1>3, <2>2, <2>3 DEF AnswerSoFar
<1> QED
  BY <1>5, <1>6, <1>7, <1>8, <1>9 DEF PrivacyInv

(* The answer is restored: nothing changes. *)
LEMMA RestoredStep == PrivacyInv /\ Restored => PrivacyInv'
<1> SUFFICES ASSUME PrivacyInv, Restored PROVE PrivacyInv'
  OBVIOUS
<1>1. /\ pc = "restore" /\ pc' = "done" /\ turn > Len(mapping)
      /\ UNCHANGED <<presidio, text, masked, spans, turn, mapping, counters, kept, answer>>
  BY DEF Restored
<1>2. ShapeOK' /\ TextFits'
  BY <1>1 DEF PrivacyInv, ShapeOK, TextFits
<1>3. SpansFit' /\ MappingFits'
  BY <1>1 DEF PrivacyInv, SpansFit, MappingFits, EntryFits, Covered
<1>4. Tiled'
  <2>1. PICK org \in [1 .. Len(masked) + 1 -> 1 .. Len(text) + 1] : Tiles(org)
    BY DEF PrivacyInv, Tiled
  <2>2. AsRead' = 0 /\ Taken' \subseteq Taken
    BY <1>1 DEF AsRead, Taken
  <2>3. Tiles(org)'
    BY <1>1, <2>1, <2>2, TilesCarry, Ranges DEF PrivacyInv
  <2> QED
    BY <1>1, <2>1, <2>3 DEF Tiled
<1>5. RulesDone'
  BY <1>1 DEF PrivacyInv, RulesDone, Matches
<1>6. AnswerSoFar'
  <2>1. turn = Len(mapping) + 1
    <3>1. turn \in Nat /\ turn <= Len(mapping) + 1
      BY <1>1 DEF PrivacyInv, ShapeOK, AnswerSoFar
    <3>2. Len(mapping) \in Nat
      BY Ranges DEF PrivacyInv
    <3> QED
      BY <1>1, <3>1, <3>2
  <2>2. \A c : Image(c)' = Image(c)
    BY <1>1 DEF Image, ImageAfter
  <2>3. /\ turn <= Len(mapping) + 1 /\ kept \subseteq DOMAIN masked
        /\ answer = FlattenSeq(Pieces)
    BY <1>1 DEF PrivacyInv, AnswerSoFar
  <2>4. Pieces' = Pieces
    BY <1>1, <2>2 DEF Pieces
  <2> QED
    BY <1>1, <2>1, <2>3, <2>4 DEF AnswerSoFar
<1> QED
  BY <1>2, <1>3, <1>4, <1>5, <1>6 DEF PrivacyInv

(* One more entry: what was restored stays, its placeholder becomes the original. *)
LEMMA ImageStep ==
    ASSUME ShapeOK, MappingFits, NEW n \in 1 .. Len(mapping), NEW c \in Cells,
           NEW h \in [Cells -> Seq(Cells)],
           \A d \in Cells : h[d] = IF d = mapping[n].token THEN mapping[n].original ELSE <<d>>
    PROVE  Mapped(ImageAfter(n - 1, c), h) = ImageAfter(n, c)
<1>1. /\ Len(mapping) \in Nat /\ DOMAIN mapping = 1 .. Len(mapping)
      /\ \A e \in DOMAIN mapping : mapping[e] \in Entries
  BY Ranges
<1>2. /\ n \in Nat /\ n - 1 \in 0 .. Len(mapping) /\ n \in 0 .. Len(mapping) /\ n \in 1 .. n
      /\ \A e \in 1 .. n - 1 : e \in 1 .. n /\ e # n
      /\ \A e \in 1 .. n : e \in DOMAIN mapping /\ (e = n \/ e \in 1 .. n - 1)
  BY <1>1
<1>3. PICK token \in Cells, original \in Seq(Cells) :
         token = mapping[n].token /\ original = mapping[n].original
  BY <1>1, <1>2 DEF Entries
<1>4. \A d \in Cells : h[d] = IF d = token THEN original ELSE <<d>>
  BY <1>3
<1>5. token.sort = "token"
  <2>1. \E label \in SOFT \cup NER : \E m \in 1 .. counters[label] : mapping[n].token = Token(label, m)
    BY <1>2 DEF MappingFits, EntryFits
  <2>2. \A label, m : Token(label, m).sort = "token"
    BY DEF Token, Cell
  <2> QED
    BY <1>3, <2>1, <2>2
<1>6. CASE \E e \in 1 .. n - 1 : mapping[e].token = c
  <2>1. PICK e \in 1 .. n - 1 : mapping[e].token = c
    BY <1>6
  <2>2. ImageAfter(n - 1, c) = mapping[e].original /\ ImageAfter(n, c) = mapping[e].original
    BY <1>2, <2>1, Images
  <2>3. PICK o \in Seq(Cells) : o = mapping[e].original
    BY <1>1, <1>2 DEF Entries
  <2>4. Fixes(h, o)
    <3>1. \A k \in DOMAIN o : o[k] \in Cells /\ o[k] \in Range(o)
      BY LenProperties, ElementOfSeq DEF Range
    <3>2. \A d \in Range(o) : d.sort = "text"
      BY <1>2, <2>3 DEF MappingFits, EntryFits
    <3> QED
      BY <1>4, <1>5, <3>1, <3>2 DEF Fixes
  <2>5. Mapped(o, h) = o
    BY <2>4, MappedIdentity
  <2> QED
    BY <2>2, <2>3, <2>5
<1>7. CASE (\A e \in 1 .. n - 1 : mapping[e].token # c) /\ c = token
  <2>1. ImageAfter(n - 1, c) = <<c>> /\ ImageAfter(n, c) = original
    BY <1>2, <1>3, <1>7, Images
  <2>2. Mapped(<<c>>, h) = h[c]
    BY MappedSingle, ZenonT(60)
  <2> QED
    BY <1>4, <1>7, <2>1, <2>2
<1>8. CASE (\A e \in 1 .. n - 1 : mapping[e].token # c) /\ c # token
  <2>1. \A e \in 1 .. n : mapping[e].token # c
    BY <1>2, <1>3, <1>8
  <2>2. ImageAfter(n - 1, c) = <<c>> /\ ImageAfter(n, c) = <<c>>
    BY <1>2, <1>8, <2>1, Images
  <2>3. Mapped(<<c>>, h) = h[c]
    BY MappedSingle, ZenonT(60)
  <2> QED
    BY <1>4, <1>8, <2>2, <2>3
<1> QED
  BY <1>6, <1>7, <1>8

(* text.replace(token, original). *)
LEMMA RestoreStep == PrivacyInv /\ Restore => PrivacyInv'
<1> SUFFICES ASSUME PrivacyInv, Restore PROVE PrivacyInv'
  OBVIOUS
<1>0. ShapeOK /\ MappingFits
  BY DEF PrivacyInv
<1>1. /\ pc = "restore" /\ turn <= Len(mapping) /\ turn' = turn + 1
      /\ UNCHANGED <<pc, presidio, text, masked, spans, mapping, counters, kept>>
  BY DEF Restore
<1>2. /\ Len(masked) \in Nat /\ DOMAIN masked = 1 .. Len(masked)
      /\ \A k \in DOMAIN masked : masked[k] \in Cells
      /\ Len(mapping) \in Nat /\ DOMAIN mapping = 1 .. Len(mapping)
      /\ \A e \in DOMAIN mapping : mapping[e] \in Entries
      /\ turn \in Nat \ {0}
  BY <1>0, Ranges DEF ShapeOK
<1>3. PICK n \in 1 .. Len(mapping) : n = turn
  BY <1>1, <1>2
<1>4. PICK h \in [Cells -> Seq(Cells)] :
         \A d \in Cells : h[d] = IF d = mapping[n].token THEN mapping[n].original ELSE <<d>>
  <2> DEFINE g == [d \in Cells |-> IF d = mapping[n].token THEN mapping[n].original ELSE <<d>>]
  <2>1. \A d \in Cells : <<d>> \in Seq(Cells)
    OBVIOUS
  <2>2. mapping[n].original \in Seq(Cells)
    BY <1>2 DEF Entries
  <2>3. g \in [Cells -> Seq(Cells)]
    BY <2>1, <2>2
  <2>4. \A d \in Cells : g[d] = IF d = mapping[n].token THEN mapping[n].original ELSE <<d>>
    OBVIOUS
  <2> HIDE DEF g
  <2> QED
    BY <2>3, <2>4
<1>6. answer \in Seq(Cells) /\ answer = FlattenSeq(Pieces)
  BY <1>0, <1>1 DEF PrivacyInv, ShapeOK, AnswerSoFar
<1>7. answer' = Mapped(answer, h)
  <2>1. \A k \in DOMAIN answer : answer[k] \in Cells
    BY <1>6, LenProperties, ElementOfSeq
  <2>2. \A k \in DOMAIN answer :
           h[answer[k]] = IF answer[k] = mapping[turn].token THEN mapping[turn].original
                          ELSE <<answer[k]>>
    BY <1>3, <1>4, <2>1
  <2>3. [k \in DOMAIN answer |-> h[answer[k]]]
          = [k \in DOMAIN answer |->
                IF answer[k] = mapping[turn].token THEN mapping[turn].original ELSE <<answer[k]>>]
    BY <2>2
  <2> QED
    BY <2>3 DEF Restore, Mapped
<1>8. answer' \in Seq(Cells)
  BY <1>6, <1>7, MappedProperties
<1>9. ShapeOK' /\ TextFits'
  BY <1>1, <1>2, <1>8 DEF PrivacyInv, ShapeOK, TextFits
<1>10. SpansFit' /\ MappingFits'
  BY <1>1 DEF PrivacyInv, SpansFit, MappingFits, EntryFits, Covered
<1>11. Tiled'
  <2>1. PICK org \in [1 .. Len(masked) + 1 -> 1 .. Len(text) + 1] : Tiles(org)
    BY DEF PrivacyInv, Tiled
  <2>2. AsRead' = 0 /\ Taken' \subseteq Taken
    BY <1>1 DEF AsRead, Taken
  <2>3. Tiles(org)'
    BY <1>1, <1>2, <2>1, <2>2, TilesCarry
  <2> QED
    BY <1>1, <2>1, <2>3 DEF Tiled
<1>12. RulesDone'
  BY <1>1 DEF PrivacyInv, RulesDone, Matches
<1>13. answer' = FlattenSeq(Pieces')
  <2>1. Pieces \in Seq(Seq(Cells)) /\ DOMAIN Pieces = DOMAIN masked
    <3>1. turn <= Len(mapping) + 1
      BY <1>1, <1>2
    <3> QED
      BY <1>0, <3>1, PiecesType
  <2>2. Mapped(FlattenSeq(Pieces), h) = FlattenSeq([k \in DOMAIN Pieces |-> Mapped(Pieces[k], h)])
    BY <2>1, MappedFlatten
  <2>3. ASSUME NEW k \in DOMAIN masked
        PROVE  Mapped(Pieces[k], h) = IF k \in kept THEN ImageAfter(n, masked[k]) ELSE <<>>
    <3>1. CASE k \in kept
      <4>1. Pieces[k] = ImageAfter(n - 1, masked[k])
        BY <1>3, <3>1 DEF Pieces, Image
      <4>2. Mapped(ImageAfter(n - 1, masked[k]), h) = ImageAfter(n, masked[k])
        BY <1>0, <1>2, <1>4, ImageStep
      <4> QED
        BY <3>1, <4>1, <4>2
    <3>2. CASE k \notin kept
      <4>1. Pieces[k] = <<>>
        BY <3>2 DEF Pieces
      <4>2. Mapped(<<>>, h) = <<>>
        BY MappedProperties
      <4> QED
        BY <3>2, <4>1, <4>2
    <3> QED
      BY <3>1, <3>2
  <2>4. \A c : Image(c)' = ImageAfter(n, c)
    <3>1. turn' - 1 = n
      BY <1>1, <1>2, <1>3
    <3> QED
      BY <1>1, <3>1 DEF Image, ImageAfter
  <2>5. Pieces' = [k \in DOMAIN masked |-> IF k \in kept THEN ImageAfter(n, masked[k]) ELSE <<>>]
    BY <1>1, <2>4 DEF Pieces
  <2>6. [k \in DOMAIN Pieces |-> Mapped(Pieces[k], h)] = Pieces'
    BY <2>1, <2>3, <2>5
  <2> QED
    BY <1>6, <1>7, <2>2, <2>6
<1>14. AnswerSoFar'
  <2>1. turn' <= Len(mapping') + 1
    BY <1>1, <1>2
  <2>2. kept \subseteq DOMAIN masked
    BY <1>1 DEF PrivacyInv, AnswerSoFar
  <2> QED
    BY <1>1, <1>13, <2>1, <2>2 DEF AnswerSoFar
<1> QED
  BY <1>9, <1>10, <1>11, <1>12, <1>14 DEF PrivacyInv
-----------------------------------------------------------------------------
(* The invariant holds in every state of every behaviour, and with it the types. *)

LEMMA Inductive == PrivacyInv /\ [Next]_vars => PrivacyInv'
<1> SUFFICES ASSUME PrivacyInv, [Next]_vars PROVE PrivacyInv'
  OBVIOUS
<1>1. CASE SkipNer
  BY <1>1, SkipNerStep
<1>2. CASE Detect
  BY <1>2, DetectStep
<1>3. CASE TakeSpan
  BY <1>3, TakeSpanStep
<1>4. CASE SpansTaken
  BY <1>4, SpansTakenStep
<1>5. CASE Substitute
  BY <1>5, SubstituteStep
<1>6. CASE NextRule
  BY <1>6, NextRuleStep
<1>7. CASE LlmAnswers
  BY <1>7, LlmAnswersStep
<1>8. CASE Restore
  BY <1>8, RestoreStep
<1>9. CASE Restored
  BY <1>9, RestoredStep
<1>10. CASE UNCHANGED vars
  <2> USE <1>10 DEF vars
  <2>1. ShapeOK' /\ TextFits' /\ SpansFit'
    BY DEF PrivacyInv, ShapeOK, TextFits, SpansFit
  <2>2. Tiled'
    <3>1. PICK org \in [1 .. Len(masked) + 1 -> 1 .. Len(text) + 1] : Tiles(org)
      BY DEF PrivacyInv, Tiled
    <3>2. AsRead' = AsRead /\ Taken' \subseteq Taken
      BY DEF AsRead, Taken
    <3>3. Tiles(org)'
      BY <3>1, <3>2, TilesCarry, Ranges DEF PrivacyInv
    <3> QED
      BY <3>1, <3>3 DEF Tiled
  <2>3. RulesDone' /\ MappingFits'
    BY DEF PrivacyInv, RulesDone, Matches, MappingFits, EntryFits, Covered
  <2>4. AnswerSoFar'
    BY DEF PrivacyInv, AnswerSoFar, Pieces, Image, ImageAfter
  <2> QED
    BY <2>1, <2>2, <2>3, <2>4 DEF PrivacyInv
<1> QED
  BY <1>1, <1>2, <1>3, <1>4, <1>5, <1>6, <1>7, <1>8, <1>9, <1>10 DEF Next, Finished

(* A masked text tiles the text it was made from, its placeholders are told apart, and
   the answer is as far restored as the loop of restore_text has come.               *)
THEOREM InvHolds == Spec => []PrivacyInv
BY InitInv, Inductive, PTL DEF Spec

(* Every placeholder that is not fixed can be looked up in the mapping. *)
LEMMA TypesFromInv == PrivacyInv => TypeOK
<1> SUFFICES ASSUME PrivacyInv PROVE TypeOK
  OBVIOUS
<1>1. PICK org \in [1 .. Len(masked) + 1 -> 1 .. Len(text) + 1] : Tiles(org)
  BY DEF PrivacyInv, Tiled
<1>2. ASSUME NEW k \in DOMAIN masked, masked[k].sort = "token"
      PROVE  \E e \in DOMAIN mapping : mapping[e].token = masked[k]
  BY <1>1, <1>2, MaskedCells DEF Stored, PrivacyInv
<1>3. kept \subseteq DOMAIN masked
  BY DEF PrivacyInv, AnswerSoFar, ShapeOK
<1>4. pc \in {"detect", "spans", "rules", "restore", "done"} /\ turn \in Nat
      /\ counters \in [SOFT \cup NER -> Nat]
  BY DEF PrivacyInv, ShapeOK
<1> QED
  BY <1>2, <1>3, <1>4 DEF TypeOK

(* Every variable has its type, for texts and findings of any size. *)
THEOREM TypeCorrect == Spec => []TypeOK
BY InvHolds, TypesFromInv, PTL
-----------------------------------------------------------------------------
(* What the rules leave behind. *)

(* Once they are through, an occurrence they come across is one cell. *)
LEMMA MatchHidden ==
    ASSUME PrivacyInv, pc \in {"restore", "done"},
           NEW org \in [1 .. Len(masked) + 1 -> 1 .. Len(text) + 1], Tiles(org),
           NEW p \in DOMAIN text, Exposed(p),
           NEW k \in DOMAIN masked, NEW q \in {p, p + 1}, org[k] <= q, q < org[k + 1]
    PROVE  org[k] = p /\ org[k + 1] = p + 2 /\ HidesMatch(org, k)
<1>1. /\ Len(text) \in Nat /\ DOMAIN text = 1 .. Len(text)
      /\ Len(masked) \in Nat /\ DOMAIN masked = 1 .. Len(masked)
      /\ \A s \in DOMAIN spans : spans[s] \in [first : Nat, last : Nat, label : NER]
      /\ ShapeOK /\ TextFits
  BY Ranges DEF PrivacyInv
<1>2. /\ text[p].half = 1 /\ ~ Covered(p) /\ ~ Covered(p + 1) /\ p \in Nat
      /\ text[p].sort = "text" /\ text[p].label \in HARD \cup SOFT
      /\ p + 1 \in DOMAIN text /\ text[p + 1] = Half(text[p].label, p, 2)
  BY <1>1, TextFacts DEF Exposed
<1>3. PICK j \in DOMAIN masked : org[j] <= p /\ p < org[j + 1]
  BY DEF Tiles
<1>4. \A l \in DOMAIN masked :
         /\ org[l] \in Nat /\ org[l + 1] \in Nat /\ org[l] \in DOMAIN text
         /\ (masked[l].sort = "text" => Keeps(org, l)) /\ (Keeps(org, l) => masked[l].sort = "text")
         /\ Keeps(org, l) \/ HidesSpan(org, l) \/ HidesMatch(org, l)
  <2> SUFFICES ASSUME NEW l \in DOMAIN masked
               PROVE  /\ org[l] \in Nat /\ org[l + 1] \in Nat /\ org[l] \in DOMAIN text
                      /\ (masked[l].sort = "text" => Keeps(org, l))
                      /\ (Keeps(org, l) => masked[l].sort = "text")
                      /\ Keeps(org, l) \/ HidesSpan(org, l) \/ HidesMatch(org, l)
    OBVIOUS
  <2>1. /\ org[l] \in DOMAIN text /\ org[l + 1] \in 1 .. Len(text) + 1
        /\ (masked[l].sort = "text" => Keeps(org, l)) /\ (Keeps(org, l) => masked[l].sort = "text")
    BY <1>1, MaskedCells
  <2>2. Keeps(org, l) \/ HidesSpan(org, l) \/ HidesMatch(org, l)
    BY DEF Tiles
  <2> QED
    BY <1>1, <2>1, <2>2, SMTT(30)
<1>5. \A l \in DOMAIN masked : \A r \in {p, p + 1} :
         org[l] <= r /\ r < org[l + 1] => ~ HidesSpan(org, l)
  <2> SUFFICES ASSUME NEW l \in DOMAIN masked, NEW r \in {p, p + 1},
                      org[l] <= r, r < org[l + 1], HidesSpan(org, l)
               PROVE  FALSE
    OBVIOUS
  <2>1. PICK s \in DOMAIN spans : spans[s].first = org[l] /\ spans[s].last + 1 = org[l + 1]
    BY DEF HidesSpan
  <2>2. r \in Nat /\ spans[s].first <= r /\ r <= spans[s].last
    BY <1>1, <1>2, <2>1, SMTT(30)
  <2>3. Covered(r)
    BY <2>2 DEF Covered
  <2> QED
    BY <1>2, <2>3
<1>6. ~ Keeps(org, j)
  <2> SUFFICES ASSUME Keeps(org, j) PROVE FALSE
    OBVIOUS
  <2>1. org[j] = p /\ org[j + 1] = p + 1 /\ masked[j] = text[p]
    <3>1. org[j + 1] = org[j] + 1 /\ masked[j] = text[org[j]]
      BY DEF Keeps
    <3> QED
      BY <1>2, <1>3, <1>4, <3>1
  <2>2. j + 1 \in DOMAIN masked
    <3>1. org[Len(masked) + 1] = Len(text) + 1
      BY DEF Tiles
    <3>2. p + 1 # Len(text) + 1
      BY <1>1, <1>2
    <3>3. j # Len(masked)
      BY <2>1, <3>1, <3>2
    <3> QED
      BY <1>1, <3>3
  <2>6. ASSUME Keeps(org, j + 1), text[p].label # "EMAIL"
        PROVE  ~ Sticks(masked, j - 1) /\ ~ Sticks(masked, j + 2)
    <3>1. \A r \in {p - 1, p + 2} : Sticks(text, r) => Covered(r)
      BY <2>6 DEF Exposed
    <3>2. \A m : Sticks(masked, m) =>
             /\ m \in DOMAIN masked /\ org[m + 1] = org[m] + 1
             /\ Sticks(text, org[m]) /\ ~ Covered(org[m])
      BY <1>1, ParticlesStand
    <3>3. ASSUME Sticks(masked, j - 1) PROVE FALSE
      <4>1. (j - 1) + 1 = j /\ j - 1 \in DOMAIN masked
        BY <1>1, <3>2, <3>3
      <4>2. org[j] = org[j - 1] + 1
        BY <3>2, <3>3, <4>1
      <4>3. org[j - 1] = p - 1
        BY <1>2, <1>4, <2>1, <4>1, <4>2
      <4> QED
        BY <3>1, <3>2, <3>3, <4>3
    <3>4. ASSUME Sticks(masked, j + 2) PROVE FALSE
      <4>1. org[(j + 1) + 1] = p + 2 /\ (j + 1) + 1 = j + 2
        BY <1>1, <1>2, <2>1, <2>6, SMTT(30) DEF Keeps
      <4> QED
        BY <3>1, <3>2, <3>4, <4>1
    <3> QED
      BY <3>3, <3>4
  <2>3. CASE Keeps(org, j + 1)
    <3>1. masked[j + 1] = text[p + 1]
      BY <2>1, <2>3 DEF Keeps
    <3>2. j \in Matches(masked, text[p].label)
      <4>1. j \in 1 .. Len(masked) - 1
        BY <1>1, <2>2
      <4> QED
        BY <1>2, <2>1, <2>3, <2>6, <3>1, <4>1 DEF Matches, Half, Cell
    <3>3. \A label \in HARD \cup SOFT : Matches(masked, label) = {}
      <4>1. \A i \in 1 .. 4 : Matches(masked, Rules[i]) = {}
        BY DEF PrivacyInv, RulesDone
      <4>2. /\ Rules[1] = "RRN" /\ Rules[2] = "CARD" /\ Rules[3] = "EMAIL" /\ Rules[4] = "PHONE"
            /\ 1 \in 1 .. 4 /\ 2 \in 1 .. 4 /\ 3 \in 1 .. 4 /\ 4 \in 1 .. 4
        BY DEF Rules
      <4> QED
        BY <4>1, <4>2 DEF HARD, SOFT
    <3> QED
      BY <1>2, <3>2, <3>3
  <2>4. CASE HidesSpan(org, j + 1)
    <3>1. org[j + 1] < org[(j + 1) + 1]
      BY <1>1, <2>2, MaskedCells
    <3> QED
      BY <1>4, <1>5, <2>1, <2>2, <2>4, <3>1
  <2>5. CASE HidesMatch(org, j + 1)
    <3>1. text[p + 1].half = 1
      BY <2>1, <2>5 DEF HidesMatch, Exposed
    <3> QED
      BY <1>2, <3>1 DEF Half, Cell
  <2> QED
    BY <1>4, <2>2, <2>3, <2>4, <2>5
<1>7. HidesMatch(org, j)
  BY <1>3, <1>4, <1>5, <1>6
<1>8. org[j] = p /\ org[j + 1] = p + 2
  <2>1. org[j] \in DOMAIN text /\ text[org[j]].half = 1 /\ org[j + 1] = org[j] + 2
    BY <1>7 DEF HidesMatch, Exposed
  <2>2. org[j] = p \/ org[j] + 1 = p
    BY <1>2, <1>3, <1>4, <2>1
  <2>3. org[j] + 1 # p
    <3>1. text[org[j] + 1] = Half(text[org[j]].label, org[j], 2)
      BY <1>1, <2>1, TextFacts
    <3>2. text[org[j] + 1].half = 2
      BY <3>1 DEF Half, Cell
    <3> QED
      BY <1>2, <3>2
  <2> QED
    BY <2>1, <2>2, <2>3
<1>9. k = j
  <2>1. q \in Nat /\ org[j] <= q /\ q < org[j + 1]
    BY <1>2, <1>8
  <2> QED
    BY <1>1, <2>1, TileOrder
<1> QED
  BY <1>7, <1>8, <1>9

(* What the LLM gets to read of an occurrence is half of it, or all with letters that
   stick to it.                                                                      *)
LEMMA UnreadableFromInv == PrivacyInv => SentWholeOnlyWithParticle
<1> SUFFICES ASSUME PrivacyInv, pc \in {"restore", "done"},
                    NEW k \in DOMAIN masked, NEW l \in DOMAIN masked, k < l,
                    IsHalf(masked[k]), IsHalf(masked[l]), masked[k].id = masked[l].id
             PROVE  /\ l = k + 1 /\ masked[k].label # "EMAIL"
                    /\ Sticks(masked, k - 1) \/ Sticks(masked, k + 2)
  BY DEF SentWholeOnlyWithParticle
<1>1. PICK org \in [1 .. Len(masked) + 1 -> 1 .. Len(text) + 1] : Tiles(org)
  BY DEF PrivacyInv, Tiled
<1>2. ShapeOK /\ TextFits /\ pc \notin {"detect", "spans"} /\ DOMAIN text \subseteq Nat
  BY Ranges DEF PrivacyInv
<1>3. \A m \in DOMAIN masked : masked[m].sort = "text" =>
         /\ org[m] \in DOMAIN text /\ org[m + 1] = org[m] + 1 /\ masked[m] = text[org[m]]
         /\ ~ Covered(org[m])
  BY <1>1, <1>2, MaskedCells, KeptOutside DEF Keeps
<1>4. /\ org[k] \in DOMAIN text /\ masked[k] = text[org[k]] /\ ~ Covered(org[k])
      /\ org[l] \in DOMAIN text /\ masked[l] = text[org[l]] /\ ~ Covered(org[l])
      /\ org[k + 1] = org[k] + 1 /\ org[l + 1] = org[l] + 1
      /\ org[k] \in Nat /\ org[l] \in Nat
  BY <1>2, <1>3 DEF IsHalf
<1>5. \A p \in DOMAIN text : text[p].half \in 0 .. 2
  BY <1>2, TextFacts DEF Cells
<1>6. ASSUME org[l] = org[k] + 1, text[org[k]].half = 1
      PROVE  ~ Exposed(org[k])
  <2> SUFFICES ASSUME Exposed(org[k]) PROVE FALSE
    OBVIOUS
  <2>1. org[k] <= org[k] /\ org[k] < org[k + 1] /\ org[k] \in {org[k], org[k] + 1}
    BY <1>4
  <2>2. org[k + 1] = org[k] + 2
    BY <1>1, <1>4, <2>1, MatchHidden
  <2> QED
    BY <1>4, <2>2
<1>7. ASSUME text[org[k]].half = text[org[l]].half PROVE org[k] = org[l]
  <2>1. text[org[k]].half \in {1, 2}
    BY <1>4, <1>5 DEF IsHalf
  <2>2. text[org[k]].id = text[org[l]].id
    BY <1>4
  <2>3. CASE text[org[k]].half = 1
    <3>1. text[org[k]].id = org[k]
      BY <1>2, <1>4, <2>3, TextFacts
    <3>2. text[org[l]].id = org[l]
      BY <1>2, <1>4, <1>7, <2>3, TextFacts
    <3> QED
      BY <2>2, <3>1, <3>2
  <2>4. CASE text[org[k]].half = 2
    <3>1. text[org[k]].id = org[k] - 1
      BY <1>2, <1>4, <2>4, TextFacts
    <3>2. text[org[l]].id = org[l] - 1
      BY <1>2, <1>4, <1>7, <2>4, TextFacts
    <3>3. org[k] - 1 = org[l] - 1
      BY <2>2, <3>1, <3>2
    <3>4. \A a, b \in Nat : a - 1 = b - 1 => a = b
      OBVIOUS
    <3>5. org[k] \in Nat /\ org[l] \in Nat
      BY <1>4
    <3> QED
      BY <3>3, <3>4, <3>5
  <2> QED
    BY <2>1, <2>3, <2>4
<1>8. /\ k \in Nat /\ l \in Nat /\ Len(masked) \in Nat
      /\ k \in 1 .. Len(masked) + 1 /\ k + 1 \in 1 .. Len(masked) + 1
      /\ l \in 1 .. Len(masked) + 1 /\ l + 1 \in 1 .. Len(masked) + 1
  BY <1>2, Ranges
<1>9. org[k] < org[l]
  BY <1>1, <1>8 DEF Tiles
<1>10. text[org[k]].half = 1 /\ text[org[l]].half = 2
  <2>1. text[org[k]].half \in {1, 2} /\ text[org[l]].half \in {1, 2}
    BY <1>4, <1>5 DEF IsHalf
  <2>2. CASE text[org[k]].half = 2 /\ text[org[l]].half = 1
    <3>1. org[k] = org[l] + 1
      BY <1>2, <1>4, <2>2, TextFacts
    <3> QED
      BY <1>4, <1>9, <3>1
  <2>3. text[org[k]].half # text[org[l]].half
    BY <1>4, <1>7, <1>9
  <2> QED
    BY <2>1, <2>2, <2>3
<1>11. org[l] = org[k] + 1
  BY <1>2, <1>4, <1>10, TextFacts
<1>12. l = k + 1
  <2>1. org[l] = org[k + 1]
    BY <1>4, <1>11
  <2>2. \A a, b \in 1 .. Len(masked) + 1 : org[a] = org[b] => a = b
    BY <1>1, <1>2, TileOrder
  <2> QED
    BY <1>8, <2>1, <2>2
<1>13. PICK o \in Nat : o = org[k]
  BY <1>4
<1>14. org[l + 1] = o + 2 /\ l + 1 = k + 2
  <2>1. org[l + 1] = (o + 1) + 1
    BY <1>4, <1>11, <1>13
  <2> QED
    BY <1>8, <1>12, <1>13, <2>1, SMTT(30)
<1>15. text[o].label # "EMAIL" /\ \E q \in {o - 1, o + 2} : Sticks(text, q) /\ ~ Covered(q)
  <2>1. ~ Exposed(o) /\ text[o].half = 1 /\ ~ Covered(o) /\ ~ Covered(o + 1)
    BY <1>4, <1>6, <1>10, <1>11, <1>13
  <2> QED
    BY <2>1 DEF Exposed
<1>16. PICK q \in {o - 1, o + 2} : Sticks(text, q) /\ ~ Covered(q)
  BY <1>15
<1>17. PICK j \in DOMAIN masked : org[j] = q /\ org[j + 1] = q + 1 /\ Sticks(masked, j)
  BY <1>1, <1>2, <1>16, ParticlesStand
<1>18. j \in Nat /\ j \in 1 .. Len(masked) + 1 /\ j + 1 \in 1 .. Len(masked) + 1
  BY <1>2, Ranges
<1>19. CASE q = o - 1
  <2>1. org[j + 1] = org[k]
    BY <1>13, <1>17, <1>19
  <2>2. j + 1 = k
    BY <1>1, <1>2, <1>8, <1>18, <2>1, TileOrder
  <2>3. j = k - 1
    BY <1>8, <1>18, <2>2
  <2> QED
    BY <1>4, <1>12, <1>13, <1>15, <1>17, <2>3
<1>20. CASE q = o + 2
  <2>1. j = k + 2
    BY <1>1, <1>2, <1>8, <1>14, <1>17, <1>18, <1>20, TileOrder
  <2> QED
    BY <1>4, <1>12, <1>13, <1>15, <1>17, <2>1
<1> QED
  BY <1>16, <1>19, <1>20

(* Whatever the text, and whatever of it the name finder takes for names and addresses:
   no occurrence of PII reaches the LLM as a whole, but for a number that is written
   together with a particle the LLM reads, too.                                        *)
THEOREM OnlyWithParticleIsSentWhole == Spec => []SentWholeOnlyWithParticle
BY InvHolds, UnreadableFromInv, PTL

(* What is in sequences joined is in one of them. *)
Gathers(ss) == \A c \in Range(FlattenSeq(ss)) : \E k \in DOMAIN ss : c \in Range(ss[k])

LEMMA RangeFlatten ==
    ASSUME NEW S, NEW ss \in Seq(Seq(S))
    PROVE  Gathers(ss)
<1> DEFINE T == {tt \in Seq(Seq(S)) : Gathers(tt)}
<1>1. <<>> \in T
  <2>1. FlattenSeq(<<>>) = <<>> /\ <<>> \in Seq(Seq(S))
    BY FlattenProperties, EmptySeq
  <2>2. Gathers(<<>>)
    BY <2>1 DEF Gathers, Range
  <2> QED
    BY <2>1, <2>2
<1>2. ASSUME NEW tt \in T, NEW s \in Seq(S) PROVE Append(tt, s) \in T
  <2>0. tt \in Seq(Seq(S)) /\ Gathers(tt)
    OBVIOUS
  <2> HIDE DEF T
  <2>1. /\ Append(tt, s) \in Seq(Seq(S))
        /\ Len(Append(tt, s)) = Len(tt) + 1
        /\ \A k \in 1 .. Len(tt) : Append(tt, s)[k] = tt[k]
        /\ Append(tt, s)[Len(tt) + 1] = s
    BY <2>0, AppendProperties
  <2>2. Len(tt) \in Nat /\ DOMAIN tt = 1 .. Len(tt)
    BY <2>0, LenProperties
  <2>3. DOMAIN Append(tt, s) = 1 .. Len(tt) + 1
    BY <2>1, LenProperties
  <2>4. FlattenSeq(Append(tt, s)) = FlattenSeq(tt) \o s /\ FlattenSeq(tt) \in Seq(S)
    BY <2>0, FlattenProperties
  <2>5. Range(FlattenSeq(tt) \o s) = Range(FlattenSeq(tt)) \cup Range(s)
    BY <2>4, RangeConcatenation
  <2>6. ASSUME NEW c \in Range(FlattenSeq(Append(tt, s)))
        PROVE  \E k \in DOMAIN Append(tt, s) : c \in Range(Append(tt, s)[k])
    <3>1. CASE c \in Range(FlattenSeq(tt))
      <4>1. PICK k \in DOMAIN tt : c \in Range(tt[k])
        BY <2>0, <3>1 DEF Gathers
      <4>2. k \in 1 .. Len(tt) + 1 /\ Append(tt, s)[k] = tt[k]
        BY <2>1, <2>2
      <4> QED
        BY <2>3, <4>1, <4>2
    <3>2. CASE c \in Range(s)
      <4>1. Len(tt) + 1 \in 1 .. Len(tt) + 1
        BY <2>2
      <4> QED
        BY <2>1, <2>3, <3>2, <4>1
    <3> QED
      BY <2>4, <2>5, <3>1, <3>2
  <2>7. Gathers(Append(tt, s))
    BY <2>6 DEF Gathers
  <2> QED
    BY <2>1, <2>7 DEF T
<1>3. T = Seq(Seq(S))
  <2> HIDE DEF T
  <2>1. T \in SUBSET Seq(Seq(S))
    BY DEF T
  <2> QED
    BY <1>1, <1>2, <2>1, SeqSets
<1> QED
  BY <1>3

(* Hard PII the rules come across is neither kept nor in the answer. *)
LEMMA HiddenFromInv == PrivacyInv => HardStaysHidden
<1> SUFFICES ASSUME PrivacyInv, NEW p \in DOMAIN text,
                    IsHard(text[p]), text[p].half = 1, Exposed(p)
             PROVE  /\ \A e \in DOMAIN mapping :
                          {text[p], text[p + 1]} \cap Range(mapping[e].original) = {}
                    /\ {text[p], text[p + 1]} \cap Range(answer) = {}
  BY DEF HardStaysHidden
<1>1. PICK org \in [1 .. Len(masked) + 1 -> 1 .. Len(text) + 1] : Tiles(org)
  BY DEF PrivacyInv, Tiled
<1>2. /\ ShapeOK /\ TextFits /\ MappingFits /\ DOMAIN text = 1 .. Len(text) /\ Len(text) \in Nat
      /\ DOMAIN masked = 1 .. Len(masked) /\ Len(masked) \in Nat
      /\ DOMAIN mapping = 1 .. Len(mapping) /\ Len(mapping) \in Nat
  BY Ranges DEF PrivacyInv
<1>3. /\ p \in Nat /\ p + 1 \in DOMAIN text /\ text[p + 1] = Half(text[p].label, p, 2)
      /\ ~ Covered(p) /\ ~ Covered(p + 1)
  BY <1>2, TextFacts DEF Exposed
<1>4. IsHard(text[p + 1]) /\ text[p + 1].sort = "text" /\ text[p].sort = "text"
  BY <1>3 DEF IsHard, Half, Cell
<1>5. ASSUME NEW q \in DOMAIN text, text[q] \in {text[p], text[p + 1]} PROVE q \in {p, p + 1}
  BY <1>2, <1>3, <1>5, TextFacts
<1>6. ASSUME NEW e \in DOMAIN mapping, NEW c \in {text[p], text[p + 1]},
             c \in Range(mapping[e].original)
      PROVE  FALSE
  <2>1. IsHard(c)
    BY <1>4
  <2>2. PICK q \in DOMAIN text : text[q] = c /\ Covered(q)
    BY <1>2, <1>6, <2>1 DEF MappingFits, EntryFits
  <2> QED
    BY <1>3, <1>5, <2>2
<1>7. ASSUME NEW c \in {text[p], text[p + 1]}, c \in Range(answer) PROVE FALSE
  <2>1. pc \in {"restore", "done"}
    BY <1>7 DEF PrivacyInv, AnswerSoFar, Range
  <2>2. answer = FlattenSeq(Pieces) /\ turn <= Len(mapping) + 1
    BY <2>1 DEF PrivacyInv, AnswerSoFar
  <2>3. Pieces \in Seq(Seq(Cells)) /\ DOMAIN Pieces = DOMAIN masked
    BY <1>2, <2>2, PiecesType
  <2>4. Gathers(Pieces)
    BY <2>3, RangeFlatten
  <2>5. PICK k \in DOMAIN masked : c \in Range(Pieces[k])
    BY <1>7, <2>2, <2>3, <2>4 DEF Gathers
  <2>6. Pieces[k] = IF k \in kept THEN ImageAfter(turn - 1, masked[k]) ELSE <<>>
    BY DEF Pieces, Image
  <2>7. \A d : d \notin Range(<<>>)
    BY DEF Range
  <2>8. c \in Range(ImageAfter(turn - 1, masked[k]))
    BY <2>5, <2>6, <2>7
  <2>9. turn - 1 \in 0 .. Len(mapping) /\ masked[k] \in Cells
    BY <1>2, <2>2, Ranges DEF ShapeOK
  <2>10. CASE \E e \in 1 .. turn - 1 : mapping[e].token = masked[k]
    <3>1. PICK e \in 1 .. turn - 1 : mapping[e].token = masked[k]
      BY <2>10
    <3>2. ImageAfter(turn - 1, masked[k]) = mapping[e].original
      BY <1>2, <2>9, <3>1, Images
    <3>3. e \in DOMAIN mapping
      BY <1>2, <2>9
    <3> QED
      BY <1>6, <2>8, <3>2, <3>3
  <2>11. CASE \A e \in 1 .. turn - 1 : mapping[e].token # masked[k]
    <3>1. ImageAfter(turn - 1, masked[k]) = <<masked[k]>>
      BY <1>2, <2>9, <2>11, Images
    <3>2. c = masked[k]
      BY <2>8, <3>1 DEF Range
    <3>3. masked[k].sort = "text"
      BY <1>4, <3>2
    <3>4. org[k] \in DOMAIN text /\ org[k + 1] = org[k] + 1 /\ masked[k] = text[org[k]]
      BY <1>1, <1>2, <3>3, MaskedCells DEF Keeps
    <3>5. org[k] \in {p, p + 1} /\ org[k] <= org[k] /\ org[k] < org[k + 1]
      BY <1>2, <1>5, <3>2, <3>4
    <3>6. org[k] = p /\ org[k + 1] = p + 2
      BY <1>1, <2>1, <3>5, MatchHidden
    <3> QED
      BY <1>3, <3>4, <3>6
  <2> QED
    BY <2>10, <2>11
<1> QED
  BY <1>6, <1>7

(* Card and identity numbers the rules came across are gone for good, whatever the text
   and whatever the LLM copies: those that no span touches and no particle sticks to,
   unless a span took that particle in.                                                *)
THEOREM HardIsHidden == Spec => []HardStaysHidden
BY InvHolds, HiddenFromInv, PTL
-----------------------------------------------------------------------------
(* What is restored is what was there. *)

(* The cells of the masked text begin where they should. *)
LEMMA HeadsOfTiles ==
    ASSUME PrivacyInv, pc = "done",
           NEW org \in [1 .. Len(masked) + 1 -> 1 .. Len(text) + 1], Tiles(org),
           NEW p \in DOMAIN text
    PROVE  p \in Heads <=> \E k \in DOMAIN masked : org[k] = p
<1>1. /\ ShapeOK /\ TextFits /\ pc \in {"restore", "done"} /\ pc \notin {"detect", "spans"}
      /\ Len(text) \in Nat /\ DOMAIN text = 1 .. Len(text) /\ p \in Nat
      /\ \A s \in DOMAIN spans : spans[s] \in [first : Nat, last : Nat, label : NER]
  BY Ranges DEF PrivacyInv
<1>2. PICK j \in DOMAIN masked : org[j] <= p /\ p < org[j + 1]
  BY DEF Tiles
<1>3. /\ org[j] \in DOMAIN text /\ org[j] \in Nat /\ org[j + 1] \in Nat
      /\ Keeps(org, j) => masked[j].sort = "text"
  BY <1>1, <1>2, MaskedCells
<1>4. ASSUME NEW k \in DOMAIN masked, org[k] = p PROVE k = j
  <2>1. org[k] <= p /\ p < org[k + 1]
    BY <1>1, <1>4, MaskedCells
  <2> QED
    BY <1>1, <1>2, <2>1, TileOrder
<1>5. CASE Keeps(org, j)
  <2>1. org[j] = p
    <3>1. org[j + 1] = org[j] + 1
      BY <1>5 DEF Keeps
    <3> QED
      BY <1>1, <1>2, <1>3, <3>1
  <2>2. ~ Covered(p)
    BY <1>1, <1>3, <1>5, <2>1, KeptOutside
  <2>3. ~ (text[p].half = 2 /\ Exposed(p - 1))
    <3> SUFFICES ASSUME text[p].half = 2, Exposed(p - 1) PROVE FALSE
      OBVIOUS
    <3>1. p - 1 \in DOMAIN text
      BY <1>1, TextFacts
    <3>2. p \in {p - 1, (p - 1) + 1}
      BY <1>1
    <3>3. org[j] = p - 1
      BY <1>1, <1>2, <3>1, <3>2, MatchHidden
    <3> QED
      BY <1>1, <2>1, <3>3
  <2> QED
    BY <2>1, <2>2, <2>3 DEF Heads
<1>6. CASE HidesSpan(org, j)
  <2>1. PICK s \in DOMAIN spans : spans[s].first = org[j] /\ spans[s].last + 1 = org[j + 1]
    BY <1>6 DEF HidesSpan
  <2>2. Covered(p)
    <3>1. spans[s].first <= p /\ p <= spans[s].last
      BY <1>1, <1>2, <2>1
    <3> QED
      BY <3>1 DEF Covered
  <2>3. ASSUME NEW r \in DOMAIN spans, spans[r].first = p PROVE org[j] = p
    <3>1. r \in Taken
      BY <1>1 DEF Taken
    <3>2. PICK k \in DOMAIN masked : org[k] = p
      BY <2>3, <3>1 DEF Tiles
    <3> QED
      BY <1>4, <3>2
  <2>4. org[j] = p => \E r \in DOMAIN spans : spans[r].first = p
    BY <2>1
  <2> QED
    BY <1>4, <2>2, <2>3, <2>4 DEF Heads
<1>7. CASE HidesMatch(org, j)
  <2>1. /\ Exposed(org[j]) /\ org[j + 1] = org[j] + 2
        /\ text[org[j]].half = 1 /\ ~ Covered(org[j]) /\ ~ Covered(org[j] + 1)
    BY <1>7 DEF HidesMatch, Exposed
  <2>2. org[j] = p \/ org[j] + 1 = p
    BY <1>1, <1>2, <1>3, <2>1, SMTT(30)
  <2>3. ~ Covered(p)
    BY <2>1, <2>2
  <2>4. \A r \in DOMAIN spans : spans[r].first # p
    <3> SUFFICES ASSUME NEW r \in DOMAIN spans, spans[r].first = p PROVE FALSE
      OBVIOUS
    <3>1. spans[r].first <= p /\ p <= spans[r].last
      BY <1>1 DEF PrivacyInv, SpansFit
    <3> QED
      BY <2>3, <3>1 DEF Covered
  <2>5. CASE org[j] = p
    <3>1. text[p].half = 1
      BY <2>1, <2>5
    <3> QED
      BY <2>3, <2>5, <3>1 DEF Heads
  <2>6. CASE org[j] + 1 = p
    <3>1. text[org[j] + 1] = Half(text[org[j]].label, org[j], 2)
      BY <1>1, <1>3, <2>1, TextFacts
    <3>2. text[p].half = 2 /\ p - 1 = org[j]
      BY <1>1, <1>3, <2>6, <3>1 DEF Half, Cell
    <3>3. p \notin Heads
      BY <2>1, <2>4, <3>2 DEF Heads
    <3> QED
      BY <1>3, <1>4, <2>6, <3>3
  <2> QED
    BY <2>2, <2>5, <2>6
<1> QED
  BY <1>5, <1>6, <1>7 DEF Tiles

(* A cell has become what it should read. *)
LEMMA ReadsOfTiles ==
    ASSUME PrivacyInv, pc = "done",
           NEW org \in [1 .. Len(masked) + 1 -> 1 .. Len(text) + 1], Tiles(org),
           NEW k \in DOMAIN masked
    PROVE  Reads(org[k]) = Image(masked[k])
<1>1. /\ ShapeOK /\ TextFits /\ MappingFits /\ pc \in {"restore", "done"}
      /\ pc \notin {"detect", "spans"} /\ text \in Seq(Cells)
      /\ Len(text) \in Nat /\ DOMAIN text = 1 .. Len(text)
      /\ Len(mapping) \in Nat /\ DOMAIN mapping = 1 .. Len(mapping)
      /\ \A s \in DOMAIN spans : spans[s] \in [first : Nat, last : Nat, label : NER]
      /\ masked[k] \in Cells
  BY Ranges DEF PrivacyInv, ShapeOK
<1>2. PICK o \in DOMAIN text : o = org[k]
  BY <1>1, MaskedCells
<1>3. o \in Nat /\ org[k] < org[k + 1] /\ (Keeps(org, k) => masked[k].sort = "text")
  BY <1>1, <1>2, MaskedCells, SMTT(30)
<1>4. turn - 1 = Len(mapping) /\ Len(mapping) \in 0 .. Len(mapping)
  <2>1. turn = Len(mapping) + 1
    BY DEF PrivacyInv, AnswerSoFar
  <2> QED
    BY <1>1, <2>1
<1>5. \A c \in Cells : c.sort # "token" => Image(c) = <<c>>
  <2> SUFFICES ASSUME NEW c \in Cells, c.sort # "token" PROVE Image(c) = <<c>>
    OBVIOUS
  <2>1. \A e \in 1 .. Len(mapping) : mapping[e].token # c
    <3> SUFFICES ASSUME NEW e \in DOMAIN mapping PROVE mapping[e].token # c
      BY <1>1
    <3>1. \E label \in SOFT \cup NER : \E m \in 1 .. counters[label] : mapping[e].token = Token(label, m)
      BY <1>1 DEF MappingFits, EntryFits
    <3>2. \A label, m : Token(label, m).sort = "token"
      BY DEF Token, Cell
    <3> QED
      BY <3>1, <3>2
  <2>2. ImageAfter(Len(mapping), c) = <<c>>
    BY <1>1, <1>4, <2>1, Images
  <2> QED
    BY <1>4, <2>2 DEF Image
<1>6. ASSUME NEW original, Stored(masked[k], original) PROVE Image(masked[k]) = original
  <2>1. PICK e \in DOMAIN mapping : mapping[e].token = masked[k] /\ mapping[e].original = original
    BY <1>6 DEF Stored
  <2>2. ImageAfter(Len(mapping), mapping[e].token) = mapping[e].original
    BY <1>1, <1>4, <2>1, Images
  <2> QED
    BY <1>4, <2>1, <2>2 DEF Image
<1>7. CASE Keeps(org, k)
  <2>1. org[k + 1] = o + 1 /\ masked[k] = text[o] /\ masked[k].sort = "text"
    BY <1>2, <1>3, <1>7 DEF Keeps
  <2>2. ~ Covered(o)
    BY <1>1, <1>2, <2>1, KeptOutside
  <2>3. ~ Exposed(o)
    <3> SUFFICES ASSUME Exposed(o) PROVE FALSE
      OBVIOUS
    <3>1. org[k] <= o /\ o < org[k + 1] /\ o \in {o, o + 1}
      BY <1>2, <1>3, <2>1
    <3>2. org[k + 1] = o + 2
      BY <1>1, <3>1, MatchHidden
    <3> QED
      BY <1>3, <2>1, <3>2
  <2>4. Reads(o) = SubSeq(text, o, o)
    BY <2>2, <2>3 DEF Reads, LastOf
  <2>5. SubSeq(text, o, o) = <<text[o]>>
    <3> DEFINE u == SubSeq(text, o, o)
               v == <<text[o]>>
    <3>1. text[o] \in Cells
      BY <1>1, ElementOfSeq
    <3>2. \A i \in o .. o : text[i] \in Cells
      BY <1>3, <3>1
    <3>3. /\ u \in Seq(Cells) /\ Len(u) = IF o <= o THEN o - o + 1 ELSE 0
          /\ \A i \in 1 .. o - o + 1 : u[i] = text[o + i - 1]
      BY <1>3, <3>2, SubSeqProperties
    <3>4. o - o + 1 = 1 /\ o <= o /\ o + 1 - 1 = o /\ 1 \in 1 .. 1 /\ \A i \in 1 .. 1 : i = 1
      BY <1>3
    <3>5. v \in Seq(Cells) /\ Len(v) = 1 /\ v[1] = text[o]
      BY <3>1
    <3> HIDE DEF u, v
    <3>6. Len(u) = 1 /\ u[1] = text[o]
      BY <3>3, <3>4
    <3>7. \A i \in 1 .. 1 : u[i] = v[i]
      BY <3>4, <3>5, <3>6
    <3>8. u = v
      BY <3>3, <3>5, <3>6, <3>7, SeqEqual
    <3> QED
      BY <3>8 DEF u, v
  <2>6. Image(masked[k]) = <<masked[k]>>
    BY <1>1, <1>5, <2>1
  <2> QED
    BY <1>2, <2>1, <2>4, <2>5, <2>6
<1>8. CASE HidesSpan(org, k)
  <2>1. PICK s \in DOMAIN spans : spans[s].first = o /\ spans[s].last + 1 = org[k + 1]
    BY <1>2, <1>8 DEF HidesSpan
  <2>2. Covered(o)
    <3>1. spans[s].first <= o /\ o <= spans[s].last
      BY <1>1, <1>3, <2>1 DEF PrivacyInv, SpansFit
    <3> QED
      BY <3>1 DEF Covered
  <2>3. ~ Exposed(o)
    BY <2>2 DEF Exposed
  <2>4. LastOf(o) = spans[s].last
    <3> DEFINE sp == CHOOSE x \in Range(spans) : x.first = o
    <3>1. spans[s] \in Range(spans)
      BY DEF Range
    <3>2. sp \in Range(spans) /\ sp.first = o
      BY <2>1, <3>1
    <3>3. LastOf(o) = sp.last
      BY <2>2 DEF LastOf
    <3> HIDE DEF sp
    <3>4. PICK r \in DOMAIN spans : sp = spans[r]
      BY <3>2 DEF Range
    <3>5. r = s
      <4>1. \A i \in DOMAIN spans :
               i \in Nat /\ spans[i].first \in Nat /\ spans[i].last \in Nat /\ spans[i].first <= spans[i].last
        BY <1>1, Ranges DEF PrivacyInv, SpansFit
      <4>2. \A i, l \in DOMAIN spans : i < l => spans[l].last < spans[i].first
        BY DEF PrivacyInv, SpansFit
      <4>3. ~ (r < s)
        BY <2>1, <3>2, <3>4, <4>1, <4>2
      <4>4. ~ (s < r)
        BY <2>1, <3>2, <3>4, <4>1, <4>2
      <4> QED
        BY <4>1, <4>3, <4>4
    <3> QED
      BY <3>3, <3>4, <3>5
  <2>5. Reads(o) = SubSeq(text, o, org[k + 1] - 1)
    <3>1. spans[s].last = org[k + 1] - 1
      BY <1>1, <2>1
    <3> QED
      BY <2>3, <2>4, <3>1 DEF Reads
  <2>6. Stored(masked[k], SubSeq(text, o, org[k + 1] - 1))
    BY <1>2, <1>8 DEF HidesSpan
  <2> QED
    BY <1>2, <1>6, <2>5, <2>6
<1>9. CASE HidesMatch(org, k)
  <2>1. /\ Exposed(o) /\ ~ Covered(o)
        /\ IF text[o].label \in HARD
           THEN masked[k] = Placeholder(text[o].label)
           ELSE masked[k].sort = "token" /\ Stored(masked[k], SubSeq(text, o, o + 1))
    BY <1>2, <1>9 DEF HidesMatch, Exposed
  <2>2. CASE text[o].label \in HARD
    <3>1. Reads(o) = <<masked[k]>>
      BY <2>1, <2>2 DEF Reads
    <3>2. masked[k].sort = "fixed"
      BY <2>1, <2>2 DEF Placeholder, Cell
    <3> QED
      BY <1>1, <1>2, <1>5, <3>1, <3>2
  <2>3. CASE text[o].label \notin HARD
    <3>1. Reads(o) = SubSeq(text, o, o + 1)
      BY <2>1, <2>3 DEF Reads, LastOf
    <3> QED
      BY <1>2, <1>6, <2>1, <2>3, <3>1
  <2> QED
    BY <2>2, <2>3
<1> QED
  BY <1>7, <1>8, <1>9 DEF Tiles

(* The numbers up to n that are in H, in order. *)
Picks(n, H) == [p \in 1 .. n |-> IF p \in H THEN <<p>> ELSE <<>>]

(* One number more. *)
LEMMA PicksGrow ==
    ASSUME NEW n \in Nat, NEW H, NEW m \in Nat, m <= n
    PROVE  /\ Picks(m, H) \in Seq(Seq(1 .. n))
           /\ m + 1 <= n =>
                 Picks(m + 1, H) = Append(Picks(m, H), IF m + 1 \in H THEN <<m + 1>> ELSE <<>>)
<1>1. ASSUME NEW i \in Nat, i <= n
      PROVE  /\ Picks(i, H) \in Seq(Seq(1 .. n)) /\ Len(Picks(i, H)) = i
             /\ \A p \in 1 .. i : Picks(i, H)[p] = IF p \in H THEN <<p>> ELSE <<>>
  <2>1. \A p \in 1 .. i : p \in 1 .. n
    BY <1>1
  <2>2. \A p \in 1 .. n : <<p>> \in Seq(1 .. n)
    OBVIOUS
  <2>3. <<>> \in Seq(1 .. n)
    BY EmptySeq
  <2>4. Picks(i, H) \in [1 .. i -> Seq(1 .. n)]
    BY <2>1, <2>2, <2>3 DEF Picks
  <2>5. Picks(i, H) \in Seq(Seq(1 .. n)) /\ Len(Picks(i, H)) = i
    BY <1>1, <2>4, SeqDef, LenProperties
  <2>6. \A p \in 1 .. i : Picks(i, H)[p] = IF p \in H THEN <<p>> ELSE <<>>
    BY DEF Picks
  <2> QED
    BY <2>5, <2>6
<1>2. ASSUME m + 1 <= n
      PROVE  Picks(m + 1, H) = Append(Picks(m, H), IF m + 1 \in H THEN <<m + 1>> ELSE <<>>)
  <2> DEFINE e == IF m + 1 \in H THEN <<m + 1>> ELSE <<>>
             P == Picks(m, H)
             t == Picks(m + 1, H)
             u == Append(P, e)
  <2>1. e \in Seq(1 .. n)
    <3>1. <<m + 1>> \in Seq(1 .. n)
      BY <1>2
    <3>2. <<>> \in Seq(1 .. n)
      BY EmptySeq
    <3> QED
      BY <3>1, <3>2
  <2>2. /\ P \in Seq(Seq(1 .. n)) /\ Len(P) = m
        /\ \A p \in 1 .. m : P[p] = IF p \in H THEN <<p>> ELSE <<>>
    BY <1>1
  <2>3. /\ t \in Seq(Seq(1 .. n)) /\ Len(t) = m + 1 /\ t[m + 1] = e
        /\ \A p \in 1 .. m + 1 : t[p] = IF p \in H THEN <<p>> ELSE <<>>
    <3>1. m + 1 \in Nat /\ m + 1 \in 1 .. m + 1
      OBVIOUS
    <3> QED
      BY <1>1, <1>2, <3>1
  <2> HIDE DEF e, P, t
  <2>4. /\ u \in Seq(Seq(1 .. n)) /\ Len(u) = m + 1 /\ u[m + 1] = e
        /\ \A p \in 1 .. m : u[p] = P[p]
    <3>1. /\ Append(P, e) \in Seq(Seq(1 .. n)) /\ Len(Append(P, e)) = Len(P) + 1
          /\ Append(P, e)[Len(P) + 1] = e
          /\ \A p \in 1 .. Len(P) : Append(P, e)[p] = P[p]
      BY <2>1, <2>2, AppendProperties
    <3> QED
      BY <2>2, <3>1
  <2> HIDE DEF u
  <2>5. \A p \in 1 .. m + 1 : t[p] = u[p]
    <3> SUFFICES ASSUME NEW p \in 1 .. m + 1 PROVE t[p] = u[p]
      OBVIOUS
    <3>1. CASE p = m + 1
      BY <2>3, <2>4, <3>1
    <3>2. CASE p \in 1 .. m
      BY <2>2, <2>3, <2>4, <3>2
    <3> QED
      BY <3>1, <3>2
  <2>6. t = u
    BY <2>3, <2>4, <2>5, SeqEqual
  <2> QED
    BY <2>6 DEF t, u, P, e
<1> QED
  BY <1>1, <1>2

(* An increasing sequence is what picking its elements in order gives. *)
LEMMA SelectIncreasing ==
    ASSUME NEW n \in Nat, NEW heads \in Seq(1 .. n), NEW H,
           \A i, j \in 1 .. Len(heads) : i < j => heads[i] < heads[j],
           \A p \in 1 .. n : p \in H <=> \E k \in 1 .. Len(heads) : heads[k] = p
    PROVE  FlattenSeq(Picks(n, H)) = heads
<1> DEFINE l == Len(heads)
           UpTo(j, m) == \A k \in 1 .. l : k <= j <=> heads[k] <= m
           Q == {m \in Nat : m <= n =>
                    \A j \in 0 .. l : UpTo(j, m) => FlattenSeq(Picks(m, H)) = SubSeq(heads, 1, j)}
<1>1. l \in Nat /\ \A k \in 1 .. l : heads[k] \in 1 .. n
  BY LenProperties, ElementOfSeq
<1>2. 0 \in Q
  <2> SUFFICES ASSUME NEW j \in 0 .. l, UpTo(j, 0) PROVE FlattenSeq(Picks(0, H)) = SubSeq(heads, 1, j)
    OBVIOUS
  <2>1. j = 0
    <3>1. \A k \in 1 .. l : ~ (heads[k] <= 0)
      BY <1>1
    <3>2. j # 0 => j \in 1 .. l /\ j <= j
      BY <1>1
    <3> QED
      BY <3>1, <3>2
  <2>2. SubSeq(heads, 1, j) = <<>>
    BY <2>1, SubSeqEmpty
  <2>3. Picks(0, H) = <<>>
    BY DEF Picks
  <2>4. FlattenSeq(<<>>) = <<>>
    BY FlattenProperties
  <2> QED
    BY <2>2, <2>3, <2>4
<1>3. ASSUME NEW m \in Q PROVE m + 1 \in Q
  <2>0. m + 1 \in Nat
    BY <1>3
  <2> SUFFICES ASSUME m + 1 <= n, NEW j \in 0 .. l, UpTo(j, m + 1)
               PROVE  FlattenSeq(Picks(m + 1, H)) = SubSeq(heads, 1, j)
    BY <2>0
  <2>1. m \in Nat /\ m <= n /\ m + 1 \in 1 .. n /\ j \in Nat
    BY <1>1
  <2>2. \A i \in 0 .. l : UpTo(i, m) => FlattenSeq(Picks(m, H)) = SubSeq(heads, 1, i)
    BY <1>3, <2>1
  <2>3. /\ Picks(m, H) \in Seq(Seq(1 .. n))
        /\ Picks(m + 1, H) = Append(Picks(m, H), IF m + 1 \in H THEN <<m + 1>> ELSE <<>>)
    BY <2>1, PicksGrow
  <2>4. \A s \in Seq(1 .. n) : FlattenSeq(Append(Picks(m, H), s)) = FlattenSeq(Picks(m, H)) \o s
    BY <2>3, FlattenProperties
  <2>5. CASE m + 1 \in H
    <3>1. PICK k \in 1 .. l : heads[k] = m + 1
      BY <2>1, <2>5
    <3>2. j = k
      <4>1. k <= j
        BY <2>1, <3>1
      <4>2. j \in 1 .. l /\ heads[j] <= m + 1
        BY <1>1, <2>1, <4>1
      <4>3. ~ (k < j)
        BY <1>1, <2>1, <3>1, <4>2
      <4> QED
        BY <2>1, <4>1, <4>3
    <3>3. UpTo(j - 1, m)
      <4> SUFFICES ASSUME NEW i \in 1 .. l PROVE i <= j - 1 <=> heads[i] <= m
        OBVIOUS
      <4>1. i < j => heads[i] < m + 1
        BY <3>1, <3>2
      <4>2. heads[i] \in Nat /\ (i <= j <=> heads[i] <= m + 1)
        BY <1>1
      <4>3. i = j => heads[i] = m + 1
        BY <3>1, <3>2
      <4> QED
        BY <2>1, <4>1, <4>2, <4>3
    <3>4. FlattenSeq(Picks(m, H)) = SubSeq(heads, 1, j - 1)
      <4>1. j - 1 \in 0 .. l
        BY <1>1, <3>2
      <4> HIDE DEF UpTo
      <4> QED
        BY <2>2, <3>3, <4>1
    <3>5. SubSeq(heads, 1, j) = SubSeq(heads, 1, j - 1) \o <<heads[j]>>
      <4>1. 1 \in 1 .. Len(heads) /\ j \in 1 .. Len(heads)
        BY <1>1, <3>2
      <4> QED
        BY <4>1, SubSeqRecursiveSecond
    <3>6. <<m + 1>> \in Seq(1 .. n)
      BY <2>1
    <3>7. FlattenSeq(Picks(m + 1, H)) = FlattenSeq(Picks(m, H)) \o <<m + 1>>
      BY <2>3, <2>4, <2>5, <3>6
    <3> QED
      BY <3>1, <3>2, <3>4, <3>5, <3>7
  <2>6. CASE m + 1 \notin H
    <3>1. \A k \in 1 .. l : heads[k] # m + 1
      BY <2>1, <2>6
    <3>2. UpTo(j, m)
      <4> SUFFICES ASSUME NEW i \in 1 .. l PROVE i <= j <=> heads[i] <= m
        OBVIOUS
      <4>1. heads[i] \in Nat /\ heads[i] # m + 1 /\ (i <= j <=> heads[i] <= m + 1)
        BY <1>1, <3>1
      <4> QED
        BY <2>1, <4>1
    <3>3. FlattenSeq(Picks(m, H)) = SubSeq(heads, 1, j)
      <4> HIDE DEF UpTo
      <4> QED
        BY <2>2, <3>2
    <3>4. <<>> \in Seq(1 .. n) /\ FlattenSeq(Picks(m, H)) \in Seq(1 .. n)
      BY <2>3, EmptySeq, FlattenProperties
    <3>5. FlattenSeq(Picks(m, H)) \o <<>> = FlattenSeq(Picks(m, H))
      BY <3>4, ConcatEmptySeq
    <3>6. FlattenSeq(Picks(m + 1, H)) = FlattenSeq(Picks(m, H)) \o <<>>
      BY <2>3, <2>4, <2>6, <3>4
    <3> QED
      BY <3>3, <3>5, <3>6
  <2> QED
    BY <2>5, <2>6
<1>4. Q = Nat
  <2> HIDE DEF Q
  <2>1. Q \in SUBSET Nat
    BY DEF Q
  <2> QED
    BY <1>2, <1>3, <2>1, NatSets
<1>5. UpTo(l, n) /\ l \in 0 .. l
  BY <1>1
<1>6. FlattenSeq(Picks(n, H)) = SubSeq(heads, 1, l)
  <2>1. n \in Q
    BY <1>4
  <2> HIDE DEF UpTo
  <2> QED
    BY <1>5, <2>1
<1> QED
  BY <1>6, SubSeqFull

(* The answer reads, from one copied cell to the next, as that cell's stretch of the text. *)
LEMMA RestoredFromInv == PrivacyInv => RestoredExactly
<1> SUFFICES ASSUME PrivacyInv, pc = "done" PROVE RestoredExactly
  BY DEF RestoredExactly
<1>1. PICK org \in [1 .. Len(masked) + 1 -> 1 .. Len(text) + 1] : Tiles(org)
  BY DEF PrivacyInv, Tiled
<1>2. /\ Len(masked) \in Nat /\ DOMAIN masked = 1 .. Len(masked)
      /\ Len(text) \in Nat /\ DOMAIN text = 1 .. Len(text)
      /\ ShapeOK /\ TextFits /\ MappingFits /\ masked \in Seq(Cells)
  BY Ranges DEF PrivacyInv, ShapeOK
<1>3. answer = FlattenSeq(Pieces) /\ Pieces \in Seq(Seq(Cells)) /\ DOMAIN Pieces = DOMAIN masked
  <2>1. answer = FlattenSeq(Pieces) /\ turn <= Len(mapping) + 1
    BY DEF PrivacyInv, AnswerSoFar
  <2> QED
    BY <1>2, <2>1, PiecesType
<1> DEFINE n == Len(text)
           heads == [k \in DOMAIN masked |-> org[k]]
           O == {heads[k] : k \in DOMAIN masked}
           P == [k \in DOMAIN heads |-> IF k \in kept THEN <<heads[k]>> ELSE <<>>]
           Rd == [p \in O |-> Reads(p)]
           ids == [p \in DOMAIN text |-> p]
<1>4. /\ heads \in Seq(1 .. n) /\ Len(heads) = Len(masked) /\ DOMAIN heads = DOMAIN masked
      /\ \A k \in DOMAIN masked : heads[k] = org[k] /\ heads[k] \in O
      /\ heads \in Seq(O)
  <2>1. \A k \in DOMAIN masked : org[k] \in DOMAIN text
    BY <1>1, <1>2, MaskedCells
  <2>2. heads \in [1 .. Len(masked) -> 1 .. n]
    BY <1>2, <2>1
  <2>3. heads \in [1 .. Len(masked) -> O]
    BY <1>2
  <2>0. ASSUME NEW S, NEW f \in [1 .. Len(masked) -> S] PROVE f \in Seq(S)
    BY <1>2, SeqDef
  <2>4. heads \in Seq(1 .. n) /\ heads \in Seq(O)
    <3> HIDE DEF heads, O, n
    <3>1. heads \in Seq(1 .. n)
      BY <2>0, <2>2
    <3>2. heads \in Seq(O)
      BY <2>0, <2>3
    <3> QED
      BY <3>1, <3>2
  <2>5. DOMAIN heads = 1 .. Len(masked)
    BY <1>2
  <2>6. Len(heads) = Len(masked)
    <3> HIDE DEF heads, O, n
    <3> QED
      BY <1>2, <2>4, <2>5, LenProperties
  <2> QED
    BY <1>2, <2>4, <2>5, <2>6
<1>5. SelectInOrder(ids, Heads) = heads
  <2>1. \A i, j \in 1 .. Len(heads) : i < j => heads[i] < heads[j]
    <3> SUFFICES ASSUME NEW i \in DOMAIN masked, NEW j \in DOMAIN masked, i < j
                 PROVE  heads[i] < heads[j]
      BY <1>2, <1>4
    <3>1. i \in 1 .. Len(masked) + 1 /\ j \in 1 .. Len(masked) + 1
      BY <1>2
    <3>2. org[i] < org[j]
      BY <1>1, <3>1 DEF Tiles
    <3> QED
      BY <1>4, <3>2
  <2>2. \A p \in 1 .. n : p \in Heads <=> \E k \in 1 .. Len(heads) : heads[k] = p
    <3> SUFFICES ASSUME NEW p \in DOMAIN text
                 PROVE  p \in Heads <=> \E k \in DOMAIN masked : heads[k] = p
      BY <1>2, <1>4
    <3>1. p \in Heads <=> \E k \in DOMAIN masked : org[k] = p
      BY <1>1, HeadsOfTiles
    <3> QED
      BY <1>4, <3>1
  <2>3. [k \in DOMAIN ids |-> IF k \in Heads THEN <<ids[k]>> ELSE <<>>] = Picks(n, Heads)
    BY <1>2 DEF Picks
  <2>4. FlattenSeq(Picks(n, Heads)) = heads
    <3> HIDE DEF heads
    <3> QED
      BY <1>2, <1>4, <2>1, <2>2, SelectIncreasing
  <2> QED
    BY <2>3, <2>4 DEF SelectInOrder
<1>6. Rd \in [O -> Seq(Cells)] /\ \A k \in DOMAIN masked : Rd[heads[k]] = Image(masked[k])
  <2>1. \A k \in DOMAIN masked : Reads(heads[k]) = Image(masked[k])
    BY <1>1, <1>4, ReadsOfTiles
  <2>2. \A k \in DOMAIN masked : Image(masked[k]) \in Seq(Cells)
    <3>1. turn - 1 \in 0 .. Len(mapping)
      BY Ranges DEF PrivacyInv, ShapeOK, AnswerSoFar
    <3>2. \A k \in DOMAIN masked : masked[k] \in Cells
      BY Ranges DEF PrivacyInv
    <3> QED
      BY <1>2, <3>1, <3>2, Images DEF Image
  <2>3. \A p \in O : Reads(p) \in Seq(Cells)
    BY <2>1, <2>2
  <2> QED
    BY <1>4, <2>1, <2>3
<1>7. P \in Seq(Seq(O)) /\ DOMAIN P = DOMAIN masked
  <2>1. \A k \in DOMAIN masked : <<heads[k]>> \in Seq(O)
    BY <1>4
  <2>2. <<>> \in Seq(O)
    BY EmptySeq
  <2>3. P \in [1 .. Len(masked) -> Seq(O)]
    <3> HIDE DEF heads, O
    <3> QED
      BY <1>2, <1>4, <2>1, <2>2
  <2>4. DOMAIN P = DOMAIN masked
    BY <1>4
  <2> HIDE DEF P, O
  <2> QED
    BY <1>2, <2>3, <2>4, SeqDef
<1> DEFINE cells == FlattenSeq(P)
<1>8. cells \in Seq(O)
  <2> HIDE DEF P, O
  <2> QED
    BY <1>7, FlattenProperties
<1>9. SelectInOrder(SelectInOrder(ids, Heads), kept) = cells
  BY <1>5 DEF SelectInOrder
<1>10. FlattenSeq([k \in DOMAIN cells |-> Reads(cells[k])]) = Mapped(cells, Rd)
  <2>1. \A k \in DOMAIN cells : cells[k] \in O
    <3> HIDE DEF cells, O
    <3> QED
      BY <1>8, LenProperties, ElementOfSeq
  <2>2. \A k \in DOMAIN cells : Rd[cells[k]] = Reads(cells[k])
    <3> HIDE DEF cells, O
    <3> QED
      BY <2>1
  <2>3. [k \in DOMAIN cells |-> Reads(cells[k])] = [k \in DOMAIN cells |-> Rd[cells[k]]]
    <3> HIDE DEF cells, O, Rd
    <3> QED
      BY <2>2
  <2> HIDE DEF cells, Rd
  <2> QED
    BY <2>3 DEF Mapped
<1>11. Mapped(cells, Rd) = FlattenSeq([k \in DOMAIN P |-> Mapped(P[k], Rd)])
  <2> HIDE DEF P, O, Rd
  <2> QED
    BY <1>6, <1>7, MappedFlatten
<1>12. ASSUME NEW k \in DOMAIN masked PROVE Mapped(P[k], Rd) = Pieces[k]
  <2>1. P[k] = IF k \in kept THEN <<heads[k]>> ELSE <<>>
    BY <1>4
  <2>2. Pieces[k] = IF k \in kept THEN Image(masked[k]) ELSE <<>>
    BY DEF Pieces
  <2>3. heads[k] \in O /\ Rd[heads[k]] = Image(masked[k]) /\ Rd \in [O -> Seq(Cells)]
    BY <1>4, <1>6
  <2> HIDE DEF P, O, Rd, heads
  <2>4. Mapped(<<heads[k]>>, Rd) = Rd[heads[k]]
    BY <2>3, MappedSingle, ZenonT(60)
  <2>5. Mapped(<<>>, Rd) = <<>>
    BY <2>3, MappedProperties
  <2> QED
    BY <2>1, <2>2, <2>3, <2>4, <2>5
<1>13. [k \in DOMAIN P |-> Mapped(P[k], Rd)] = Pieces
  <2>1. Pieces = [k \in DOMAIN masked |-> Pieces[k]]
    BY DEF Pieces
  <2> HIDE DEF P, Rd
  <2> QED
    BY <1>7, <1>12, <2>1
<1>14. answer = FlattenSeq([k \in DOMAIN cells |-> Reads(cells[k])])
  <2> HIDE DEF cells, P, Rd
  <2> QED
    BY <1>3, <1>10, <1>11, <1>13
<1> QED
  <2> HIDE DEF cells
  <2> QED
    BY <1>9, <1>14 DEF RestoredExactly

(* Masking is undone exactly: for every text, whatever the NER finds in it and whatever
   placeholders the LLM leaves out, each placeholder it copied becomes its own original.  *)
THEOREM MaskingIsUndone == Spec => []RestoredExactly
BY InvHolds, RestoredFromInv, PTL
=============================================================================
