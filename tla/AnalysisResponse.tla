---------------------------- MODULE AnalysisResponse ----------------------------
(***************************************************************************)
(* The answers AnalysisService.analyze can hand back, as its caller in     *)
(* app/analysis/batch.py can tell them apart.  Titles, summaries, dates    *)
(* and the fields of a place are left out; what is kept is the category,   *)
(* the usefulness flag, and - for a restaurant - which source screenshots  *)
(* every extracted place claims and under which comparison topic.          *)
(***************************************************************************)
EXTENDS Integers, SequencesExt

CONSTANTS
    Topics,           \* comparison topics after _normalize_topic_key
    NoTopic,          \* topicKey is null or blank
    NoDetails,        \* details = None
    MaxRestaurants    \* bound: entries of details["restaurants"] the LLM returns

ASSUME BoundAssumption == MaxRestaurants \in Nat
ASSUME TopicAssumption == NoTopic \notin Topics

UNKNOWN_CATEGORY == "unknown"
CATEGORIES == {"schedule", "study", "life_info", "restaurant", "shopping"}
ALLOWED_CATEGORIES == CATEGORIES \cup {UNKNOWN_CATEGORY}

(* The registry of second-stage extractors: shopping has none. *)
CATEGORY_STAGE2 == {"schedule", "study", "life_info", "restaurant"}

(* One extracted place.  A text with n sources is marked S0 .. S(n-1); the
   LLM may name any of them or one that does not exist, which n stands for. *)
RestaurantExtraction(n) ==
    [sourceRefs : SUBSET (0 .. n), topicKey : Topics \cup {NoTopic}]

(* Stage 2 did not run, failed, or answered something invalid. *)
Unextracted ==
    {r \in [category : ALLOWED_CATEGORIES, isUseful : BOOLEAN, details : {NoDetails}] :
        r.category = UNKNOWN_CATEGORY => ~ r.isUseful}

(* Stage 2 answered: only a useful text of a registered category gets here,
   and only the restaurant model has a list of places (<<>> elsewhere).     *)
Extracted(n) ==
    [category : CATEGORY_STAGE2 \ {"restaurant"}, isUseful : {TRUE}, details : {<<>>}]
    \cup
    [category : {"restaurant"}, isUseful : {TRUE},
     details  : SeqOf(RestaurantExtraction(n), MaxRestaurants)]

AnalyzeResponse(n) == Unextracted \cup Extracted(n)
=============================================================================
