--------------------------------- MODULE Privacy ---------------------------------
(***************************************************************************)
(* app/privacy.py: mask_text and restore_text on the text of one           *)
(* screenshot, with the copy of it that comes back from the LLM in         *)
(* between.  A text is a sequence of cells: ordinary words, particles that *)
(* are written together with what stands next to them ("010-1234-5678" and *)
(* then "ro"), and occurrences of PII of two cells each, so that a span of *)
(* the name finder may take in a whole occurrence, half of one, or none.   *)
(* Blanks or marks set off any two cells but a particle and its neighbours. *)
(* The name finder (NER) is an adversary: it finds any spans that do not   *)
(* overlap, or raises.                                                     *)
(***************************************************************************)
EXTENDS Integers, SequencesExt

CONSTANTS
    MaxCells,    \* bound: cells of a text
    MaxSpans     \* bound: names and addresses the NER finds

ASSUME SizesAssumption == MaxCells \in Nat /\ MaxSpans \in Nat

VARIABLES
    pc,         \* where mask_text, the LLM or restore_text stands
    presidio,   \* settings.use_presidio
    text,       \* the text as OCR read it
    masked,     \* what has become of it
    spans,      \* what the NER found, in the order it is replaced
    turn,       \* the next span, rule or placeholder
    mapping,    \* placeholder -> original, in the order of insertion
    counters,   \* placeholders made so far, by label
    kept,       \* the cells of the masked text that the LLM copied
    answer      \* the LLM's text, while and after it is restored

vars == <<pc, presidio, text, masked, spans, turn, mapping, counters, kept, answer>>

HARD == {"RRN", "CARD"}
SOFT == {"EMAIL", "PHONE"}
NER == {"NAME", "ADDRESS"}

(* The hard rules, then the soft ones. *)
Rules == <<"RRN", "CARD", "EMAIL", "PHONE">>

(* Cells.  id tells occurrences of the text apart, and placeholders of a label. *)
Cell(sort, label, id, half) == [sort |-> sort, label |-> label, id |-> id, half |-> half]
Word(id) == Cell("text", "word", id, 0)
Particle(id) == Cell("text", "particle", id, 0)
Half(label, id, half) == Cell("text", label, id, half)
Placeholder(label) == Cell("fixed", label, 0, 0)
Token(label, n) == Cell("token", label, n, 0)

(* Where occurrences of PII may begin in a text of so many cells, and what they are. *)
Layouts(len) ==
    UNION {[starts -> HARD \cup SOFT] :
              starts \in {S \in SUBSET (1 .. len - 1) : \A p \in S : p + 1 \notin S}}

(* The text with these occurrences, these particles, and ordinary words around them. *)
TextOf(len, label, particles) ==
    [p \in 1 .. len |->
        IF p \in DOMAIN label THEN Half(label[p], p, 1)
        ELSE IF p - 1 \in DOMAIN label THEN Half(label[p - 1], p - 1, 2)
        ELSE IF p \in particles THEN Particle(p)
        ELSE Word(p)]
Texts ==
    UNION {{TextOf(len, label, particles) :
               label \in Layouts(len), particles \in SUBSET (1 .. len)} : len \in 0 .. MaxCells}

(* A particle stands there: next to a digit, \b is not met. *)
Sticks(s, p) == p \in DOMAIN s /\ s[p].sort = "text" /\ s[p].label = "particle"

(* Where a rule of this label matches: both halves, side by side.  The patterns of
   numbers have \b at both ends, which letters of Hangul next to a digit do not meet;
   that of e-mail addresses has none.                                              *)
Matches(s, label) ==
    {p \in 1 .. Len(s) - 1 :
        /\ s[p].sort = "text" /\ s[p].label = label /\ s[p].half = 1
        /\ s[p + 1].sort = "text" /\ s[p + 1].label = label /\ s[p + 1].half = 2
        /\ label = "EMAIL" \/ ~ (Sticks(s, p - 1) \/ Sticks(s, p + 2))}

(* text[start:end]; a slice ends where the text ends. *)
Slice(s, first, last) == SubSeq(s, first, Min({last, Len(s)}))

(* text[:start] + r + text[end:] *)
Splice(s, first, last, r) == Slice(s, 1, first - 1) \o <<r>> \o Slice(s, last + 1, Len(s))

(* What detect() may return for s, sorted(spans, key=start, reverse=True): spaCy's
   entities do not overlap.                                                       *)
SpansOf(s) == {sp \in [first : DOMAIN s, last : DOMAIN s, label : NER] : sp.first <= sp.last}
Findings(s) ==
    {found \in SeqOf(SpansOf(s), MaxSpans) :
        \A k, l \in DOMAIN found : k < l => found[l].last < found[k].first}

Init ==
    /\ pc = "detect" /\ presidio \in BOOLEAN
    /\ text \in Texts /\ masked = text
    /\ spans = <<>> /\ turn = 1
    /\ mapping = <<>> /\ counters = [label \in SOFT \cup NER |-> 0]
    /\ kept = {} /\ answer = <<>>

(* No NER configured, or it raised: the rules alone. *)
SkipNer ==
    /\ pc = "detect"
    /\ pc' = "rules"
    /\ UNCHANGED <<presidio, text, masked, spans, turn, mapping, counters, kept, answer>>

Detect ==
    /\ pc = "detect" /\ presidio
    /\ spans' \in Findings(text)
    /\ pc' = "spans"
    /\ UNCHANGED <<presidio, text, masked, turn, mapping, counters, kept, answer>>

(* Seeded fault: the counter moves on only after the entry is made. *)
MakeTokenLate(label, original) ==
    /\ counters' = [counters EXCEPT ![label] = @ + 1]
    /\ mapping' = Append(mapping, [token |-> Token(label, counters[label]), original |-> original])

(* _make_token, and its entry in the mapping. *)
MakeToken(label, original) ==
    /\ counters' = [counters EXCEPT ![label] = @ + 1]
    /\ mapping' = Append(mapping, [token |-> Token(label, counters'[label]), original |-> original])

(* Seeded fault: the spans are replaced from left to right. *)
TakeSpanLeftmost ==
    /\ pc = "spans" /\ turn <= Len(spans)
    /\ LET sp == spans[Len(spans) + 1 - turn]
       IN  /\ MakeToken(sp.label, Slice(masked, sp.first, sp.last))
           /\ masked' = Splice(masked, sp.first, sp.last, Token(sp.label, counters'[sp.label]))
    /\ turn' = turn + 1
    /\ UNCHANGED <<pc, presidio, text, spans, kept, answer>>

(* One round of the loop of _mask_ner. *)
TakeSpan ==
    /\ pc = "spans" /\ turn <= Len(spans)
    /\ LET sp == spans[turn]
       IN  /\ MakeToken(sp.label, Slice(masked, sp.first, sp.last))
           /\ masked' = Splice(masked, sp.first, sp.last, Token(sp.label, counters'[sp.label]))
    /\ turn' = turn + 1
    /\ UNCHANGED <<pc, presidio, text, spans, kept, answer>>

SpansTaken ==
    /\ pc = "spans" /\ turn > Len(spans)
    /\ pc' = "rules" /\ turn' = 1
    /\ UNCHANGED <<presidio, text, masked, spans, mapping, counters, kept, answer>>

(* Seeded fault: hard PII is put into the mapping, too. *)
SubstituteHardSoftly ==
    /\ pc = "rules" /\ turn <= Len(Rules)
    /\ Matches(masked, Rules[turn]) # {}
    /\ LET label == Rules[turn]
           p == Min(Matches(masked, label))
       IN  /\ masked' = Splice(masked, p, p + 1, Token(label, p))
           /\ mapping' = Append(mapping, [token |-> Token(label, p), original |-> Slice(masked, p, p + 1)])
           /\ counters' = counters
    /\ UNCHANGED <<pc, presidio, text, spans, turn, kept, answer>>

(* The leftmost match of the rule at hand: pattern.sub of a hard rule puts its
   fixed placeholder there, that of a soft one a new token (_sub_soft).        *)
Substitute ==
    /\ pc = "rules" /\ turn <= Len(Rules)
    /\ Matches(masked, Rules[turn]) # {}
    /\ LET label == Rules[turn]
           p == Min(Matches(masked, label))
       IN  IF label \in HARD
           THEN /\ masked' = Splice(masked, p, p + 1, Placeholder(label))
                /\ UNCHANGED <<mapping, counters>>
           ELSE /\ MakeToken(label, Slice(masked, p, p + 1))
                /\ masked' = Splice(masked, p, p + 1, Token(label, counters'[label]))
    /\ UNCHANGED <<pc, presidio, text, spans, turn, kept, answer>>

(* Seeded fault: a rule is left as soon as it has matched once. *)
NextRuleEarly ==
    /\ pc = "rules" /\ turn <= Len(Rules)
    /\ turn' = turn + 1
    /\ UNCHANGED <<pc, presidio, text, masked, spans, mapping, counters, kept, answer>>

NextRule ==
    /\ pc = "rules" /\ turn <= Len(Rules)
    /\ Matches(masked, Rules[turn]) = {}
    /\ turn' = turn + 1
    /\ UNCHANGED <<pc, presidio, text, masked, spans, mapping, counters, kept, answer>>

(* The elements of s at the positions of K. *)
SelectInOrder(s, K) == FlattenSeq([k \in DOMAIN s |-> IF k \in K THEN <<s[k]>> ELSE <<>>])

(* The LLM answers with the masked text less some of its placeholders. *)
LlmAnswers ==
    /\ pc = "rules" /\ turn > Len(Rules)
    /\ \E dropped \in SUBSET {k \in DOMAIN masked : masked[k].sort # "text"} :
          /\ kept' = DOMAIN masked \ dropped
          /\ answer' = SelectInOrder(masked, kept')
    /\ pc' = "restore" /\ turn' = 1
    /\ UNCHANGED <<presidio, text, masked, spans, mapping, counters>>

(* One round of the loop of restore_text: text.replace(token, original). *)
Restore ==
    /\ pc = "restore" /\ turn <= Len(mapping)
    /\ answer' = FlattenSeq([k \in DOMAIN answer |->
                    IF answer[k] = mapping[turn].token THEN mapping[turn].original ELSE <<answer[k]>>])
    /\ turn' = turn + 1
    /\ UNCHANGED <<pc, presidio, text, masked, spans, mapping, counters, kept>>

Restored ==
    /\ pc = "restore" /\ turn > Len(mapping)
    /\ pc' = "done"
    /\ UNCHANGED <<presidio, text, masked, spans, turn, mapping, counters, kept, answer>>

Finished == pc = "done" /\ UNCHANGED vars

Next ==
    \/ SkipNer \/ Detect \/ TakeSpan \/ SpansTaken
    \/ Substitute \/ NextRule
    \/ LlmAnswers \/ Restore \/ Restored
    \/ Finished

Spec == Init /\ [][Next]_vars
-----------------------------------------------------------------------------
(* Reference definitions: what has to become of every stretch of the text. *)

Covered(p) == \E k \in DOMAIN spans : spans[k].first <= p /\ p <= spans[k].last

(* The rules come across the occurrence that starts at p: both halves of it are outside
   the spans, and no particle that is left outside them sticks to a number.             *)
Exposed(p) ==
    /\ text[p].half = 1 /\ ~ Covered(p) /\ ~ Covered(p + 1)
    /\ \/ text[p].label = "EMAIL"
       \/ \A q \in {p - 1, p + 2} : Sticks(text, q) => Covered(q)

(* The positions of the text that begin a cell of the masked text. *)
Heads ==
    {p \in DOMAIN text :
        \/ \E k \in DOMAIN spans : spans[k].first = p
        \/ ~ Covered(p) /\ ~ (text[p].half = 2 /\ Exposed(p - 1))}

(* The last position of that cell. *)
LastOf(p) ==
    IF Covered(p) THEN (CHOOSE sp \in Range(spans) : sp.first = p).last
    ELSE IF Exposed(p) THEN p + 1 ELSE p

(* What that cell reads once it is restored: hard PII the rules came across stays
   behind its placeholder, anything else is as it was.                           *)
Reads(p) ==
    IF Exposed(p) /\ text[p].label \in HARD THEN <<Placeholder(text[p].label)>>
    ELSE SubSeq(text, p, LastOf(p))

IsHalf(cell) == cell.sort = "text" /\ cell.half # 0
IsHard(cell) == cell.sort = "text" /\ cell.label \in HARD

(* Every variable has its type: in particular every placeholder in the text of the
   LLM's that is not fixed has an entry in the mapping.                           *)
TypeOK ==
    /\ pc \in {"detect", "spans", "rules", "restore", "done"}
    /\ turn \in Nat
    /\ \A k \in DOMAIN masked :
          masked[k].sort = "token" => \E e \in DOMAIN mapping : mapping[e].token = masked[k]
    /\ counters \in [SOFT \cup NER -> Nat]
    /\ kept \subseteq DOMAIN masked

(* Restoring undoes masking, cell by cell, whatever placeholders the LLM left out:
   each one it copied becomes its own original, wherever spans moved the text, and
   hard PII the rules came across stays hidden.                                    *)
RestoredExactly ==
    pc = "done" =>
        LET cells == SelectInOrder(SelectInOrder([p \in DOMAIN text |-> p], Heads), kept)
        IN  answer = FlattenSeq([k \in DOMAIN cells |-> Reads(cells[k])])

(* An e-mail address never reaches the LLM as a whole, and a phone, card or identity
   number only if letters it is written together with are sent along with it.  (Half
   of one may: a span that cuts it in two hides it from its rule.)                   *)
SentWholeOnlyWithParticle ==
    pc \in {"restore", "done"} =>
        \A k, l \in DOMAIN masked :
            IsHalf(masked[k]) /\ IsHalf(masked[l]) /\ masked[k].id = masked[l].id /\ k < l =>
                /\ l = k + 1 /\ masked[k].label # "EMAIL"
                /\ Sticks(masked, k - 1) \/ Sticks(masked, k + 2)

(* Hard PII is not restored and not even kept, unless the NER took it for part of a
   name or an address, or letters stick to it that the NER left where they are.      *)
HardStaysHidden ==
    \A p \in DOMAIN text : IsHard(text[p]) /\ text[p].half = 1 /\ Exposed(p) =>
        /\ \A e \in DOMAIN mapping : {text[p], text[p + 1]} \cap Range(mapping[e].original) = {}
        /\ {text[p], text[p + 1]} \cap Range(answer) = {}

(* What the comment on _HARD_RULES promises (privacy.py, "never restored"): no card
   or identity number is readable in what is handed back.  The NER runs before the
   hard rules, and whatever its spans take in is restorable; a number letters stick
   to is not replaced at all.                                                     *)
HardIsNeverRestored ==
    \A k, l \in DOMAIN answer :
        IsHard(answer[k]) /\ IsHard(answer[l]) /\ answer[k].id = answer[l].id => k = l
=============================================================================
