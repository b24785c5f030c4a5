----------------------------- MODULE AnalysisService -----------------------------
(***************************************************************************)
(* app/analysis/service.py: one call of AnalysisService.analyze.  Stage 1  *)
(* asks the LLM for a category, stage 2 for the details of that category;  *)
(* each request is retried with a growing pause, a stage 1 that fails is   *)
(* replaced by the keyword fallback, a stage 2 that fails by no details,   *)
(* and the places of a restaurant answer are looked up one by one, which   *)
(* KakaoLocal does.  The LLM and Kakao are adversaries.                    *)
(***************************************************************************)
EXTENDS AnalysisResponse, KakaoLocal

CONSTANTS
    Sources,        \* how many [SOURCE S<k>] blocks the text has
    MaxRetries,     \* settings.llm_max_retries
    NoAnswer        \* nothing returned yet

ASSUME SourcesAssumption == Sources \in Nat
ASSUME RetriesAssumption == MaxRetries \in Nat
ASSUME NoDetailsAssumption == NoDetails \notin SeqOf(RestaurantExtraction(Sources), MaxRestaurants)

VARIABLES
    pc,         \* where analyze stands
    blank,      \* the text is blank after strip()
    client,     \* an LLM client is configured
    kakao,      \* a Kakao key is configured
    base,       \* the stage 1 result: category and usefulness
    attempt,    \* the running attempt of _generate_json
    details,    \* the stage 2 result
    places,     \* the entries of details that have been through the enrichment
    answer,     \* what analyze returned
    calls,      \* history: LLM requests made by each stage
    slept       \* history: seconds spent in backoff

vars == <<pc, blank, client, kakao, base, attempt, details, places, search, answer, calls, slept>>
input == <<blank, client, kakao>>
enrichment == <<places, search>>

Attempts == MaxRetries + 1
Stages == {"classify", "extract"}

(* The LLM answers any string as category; "other" is one outside the list. *)
MADE_UP == "other"
LlmAnalysis == [category : ALLOWED_CATEGORIES \cup {MADE_UP}, isUseful : BOOLEAN]

(* The keyword classifier keeps the field's default: what it classifies is
   always useful.                                                           *)
FallbackAnalysis == [category : ALLOWED_CATEGORIES, isUseful : {TRUE}]

(* What the details model of a category accepts. *)
DetailsModel(category) ==
    IF category = "restaurant" THEN SeqOf(RestaurantExtraction(Sources), MaxRestaurants) ELSE {<<>>}

(* min(2 ** (attempt - 1), 4) *)
Backoff(k) == IF k = 1 THEN 1 ELSE IF k = 2 THEN 2 ELSE 4
-----------------------------------------------------------------------------
(* Seeded fault: the category is passed on as the LLM wrote it. *)
ToResponseUnlisted(b, d) ==
    [category |-> b.category,
     isUseful |-> b.isUseful /\ b.category # UNKNOWN_CATEGORY,
     details  |-> d]

ToResponse(b, d) ==
    LET category == IF b.category \in ALLOWED_CATEGORIES THEN b.category ELSE UNKNOWN_CATEGORY
    IN  [category |-> category,
         isUseful |-> b.isUseful /\ category # UNKNOWN_CATEGORY,
         details  |-> d]

EmptyResponse == [category |-> UNKNOWN_CATEGORY, isUseful |-> FALSE, details |-> NoDetails]

Respond(b, d) ==
    /\ pc' = "returned"
    /\ answer' = ToResponse(b, d)

(* After stage 1: only a useful text of a category with a registered extractor,
   and only with a client, goes on to stage 2.                                *)
Continue(b) ==
    /\ base' = b
    /\ IF b.isUseful /\ b.category \in CATEGORY_STAGE2 /\ client
       THEN pc' = "extract" /\ attempt' = 1 /\ answer' = answer
       ELSE Respond(b, NoDetails) /\ attempt' = attempt

Init ==
    /\ pc = "start"
    /\ blank \in BOOLEAN /\ client \in BOOLEAN /\ kakao \in BOOLEAN
    /\ base = EmptyResponse
    /\ attempt = 1
    /\ details = NoDetails /\ places = <<>> /\ search = NoSearch
    /\ answer = NoAnswer
    /\ calls = [s \in Stages |-> 0]
    /\ slept = 0

AnalyzeBlank ==
    /\ pc = "start" /\ blank
    /\ pc' = "returned" /\ answer' = EmptyResponse
    /\ UNCHANGED <<input, base, attempt, details, enrichment, calls, slept>>

(* No key configured: stage 1 is the keyword classifier. *)
ClassifyOffline ==
    /\ pc = "start" /\ ~ blank /\ ~ client
    /\ \E b \in FallbackAnalysis : Continue(b)
    /\ UNCHANGED <<input, details, enrichment, calls, slept>>

StartClassify ==
    /\ pc = "start" /\ ~ blank /\ client
    /\ pc' = "classify" /\ attempt' = 1
    /\ UNCHANGED <<input, base, details, enrichment, answer, calls, slept>>

CountCall == calls' = [calls EXCEPT ![pc] = @ + 1]

(* Seeded fault: one attempt too many, with a pause before it. *)
RetryOnceMore ==
    /\ pc \in Stages /\ attempt <= Attempts
    /\ CountCall
    /\ slept' = slept + Backoff(attempt)
    /\ attempt' = attempt + 1
    /\ UNCHANGED <<pc, input, base, details, enrichment, answer>>

(* The request failed, timed out, came back empty or was not a JSON object,
   and an attempt is left: pause and try again.                             *)
Retry ==
    /\ pc \in Stages /\ attempt < Attempts
    /\ CountCall
    /\ slept' = slept + Backoff(attempt)
    /\ attempt' = attempt + 1
    /\ UNCHANGED <<pc, input, base, details, enrichment, answer>>

(* Stage 1 answered an object that LlmAnalysis accepts. *)
Classified ==
    /\ pc = "classify"
    /\ CountCall
    /\ \E b \in LlmAnalysis : Continue(b)
    /\ UNCHANGED <<input, details, enrichment, slept>>

(* The object fails validation, or the last attempt failed. *)
ClassifyFallback ==
    /\ pc = "classify"
    /\ CountCall
    /\ \E b \in FallbackAnalysis : Continue(b)
    /\ UNCHANGED <<input, details, enrichment, slept>>

(* Seeded fault: places are enriched without a Kakao key. *)
DetailsExtractedNoKey ==
    /\ pc = "extract"
    /\ CountCall
    /\ \E d \in DetailsModel(base.category) :
          /\ details' = d
          /\ IF base.category = "restaurant"
             THEN pc' = "enrich" /\ answer' = answer
             ELSE Respond(base, d)
    /\ UNCHANGED <<input, base, attempt, enrichment, slept>>

(* Stage 2 answered an object that the category's model accepts; restaurant
   places are enriched when Kakao is configured.                            *)
DetailsExtracted ==
    /\ pc = "extract"
    /\ CountCall
    /\ \E d \in DetailsModel(base.category) :
          /\ details' = d
          /\ IF base.category = "restaurant" /\ kakao
             THEN pc' = "enrich" /\ answer' = answer
             ELSE Respond(base, d)
    /\ UNCHANGED <<input, base, attempt, enrichment, slept>>

(* The object fails validation, or the last attempt failed. *)
ExtractNothing ==
    /\ pc = "extract"
    /\ CountCall
    /\ Respond(base, NoDetails)
    /\ UNCHANGED <<input, base, attempt, details, enrichment, slept>>

(* An answer raises what no handler lists: in either stage JSON nested too deep for
   json.loads (RecursionError), in stage 2 of a restaurant also a price of 1e999,
   int() of which is an OverflowError, which pydantic does not wrap.               *)
AnswerRaises ==
    /\ pc \in Stages
    /\ CountCall
    /\ pc' = "raised"
    /\ UNCHANGED <<input, base, attempt, details, enrichment, answer, slept>>

(* The next entry of the answer: one without a name is left as it is, any other is
   looked up.  What the LLM wrote in it is chosen here, where it is first looked at. *)
StartPlace ==
    /\ pc = "enrich" /\ search = NoSearch /\ Len(places) < Len(details)
    /\ \E e \in LlmEntry :
          IF e.name = "given"
          THEN StartSearch(Validated(e)) /\ places' = places
          ELSE search' = search /\ places' = Append(places, Validated(e))
    /\ UNCHANGED <<pc, input, base, attempt, details, answer, calls, slept>>

(* One request to Kakao. *)
SearchPlace ==
    /\ pc = "enrich" /\ LookUp
    /\ UNCHANGED <<pc, input, base, attempt, details, places, answer, calls, slept>>

(* ... and it breaks off with an exception that _search_keyword does not list (a
   reset connection, a cut-off body).                                            *)
EnrichRaises ==
    /\ pc = "enrich" /\ Searching
    /\ pc' = "raised"
    /\ UNCHANGED <<input, base, attempt, details, enrichment, answer, calls, slept>>

PlaceEnriched ==
    /\ pc = "enrich" /\ search # NoSearch /\ ~ Searching
    /\ places' = Append(places, search.entry) /\ search' = NoSearch
    /\ UNCHANGED <<pc, input, base, attempt, details, answer, calls, slept>>

Enriched ==
    /\ pc = "enrich" /\ search = NoSearch /\ Len(places) = Len(details)
    /\ Respond(base, details)
    /\ UNCHANGED <<input, base, attempt, details, enrichment, calls, slept>>

Ended == pc \in {"returned", "raised"} /\ UNCHANGED vars

(* The steps of analyze itself; whether what it gets makes it raise is not up to it. *)
Proceed ==
    \/ AnalyzeBlank \/ ClassifyOffline \/ StartClassify
    \/ Retry \/ Classified \/ ClassifyFallback
    \/ DetailsExtracted \/ ExtractNothing
    \/ StartPlace \/ SearchPlace \/ PlaceEnriched \/ Enriched

Next == Proceed \/ AnswerRaises \/ EnrichRaises \/ Ended

Spec == Init /\ [][Next]_vars

(* Every request has a timeout, so a call that has not ended goes on. *)
FairSpec == Spec /\ WF_vars(Proceed)
-----------------------------------------------------------------------------

(* Every variable has its type, and an answer is one of AnalyzeResponse. *)
TypeOK ==
    /\ pc \in {"start", "classify", "extract", "enrich", "returned", "raised"}
    /\ blank \in BOOLEAN /\ client \in BOOLEAN /\ kakao \in BOOLEAN
    /\ base.category \in ALLOWED_CATEGORIES \cup {MADE_UP} /\ base.isUseful \in BOOLEAN
    /\ attempt \in 1 .. Attempts
    /\ details \in DetailsModel("restaurant") \cup {NoDetails}
    /\ places \in Seq(Entry) /\ Len(places) <= MaxRestaurants /\ SearchTypeOK
    /\ answer # NoAnswer => answer \in AnalyzeResponse(Sources)
    /\ calls \in [Stages -> Nat]
    /\ slept \in Nat

(* 1 + 2 + 4 + 4 + ...: the pauses before attempts 2 .. k + 1. *)
PauseTotal(k) == IF k <= 1 THEN k ELSE 4 * k - 5

(* A call makes at most MaxRetries + 1 requests per stage, and it pauses only
   between attempts: never after the last, never longer than the schedule.  A
   place costs at most one request per scope for each of two queries.         *)
RetryBudget ==
    /\ search # NoSearch => search.lookups <= 2 * Len(Scopes)
    /\ \A s \in Stages : calls[s] <= Attempts
    /\ slept <= 2 * PauseTotal(MaxRetries)

(* An exception leaves analyze only from what a provider sent: never without an LLM
   client, nor for a blank text; and once the details of stage 2 are accepted, only
   during a look-up at Kakao, with a key, of a restaurant that has places.          *)
OnlyProvidersRaise ==
    pc = "raised" =>
        /\ client /\ ~ blank
        /\ details # NoDetails => kakao /\ base.category = "restaurant" /\ details # <<>>

(* An entry that is delivered for no review, with Kakao configured, is one Kakao
   knows, with Kakao's coordinates: it is not enough that the LLM is sure.  The one
   exception is a name of blanks, which validation takes for a name and the look-up
   for none.                                                                       *)
TrustedIsVerified ==
    pc = "returned" => \A k \in DOMAIN places : Vetted(places[k])

Status == IF pc = "returned" THEN "answered" ELSE IF pc = "raised" THEN "raised" ELSE "open"

Contract == INSTANCE AnalysisContract WITH status <- Status

(* Every call ends, once, with an answer BatchAnalyzer can work with: a category
   of the list, details only for a useful text of a registered category.         *)
KeepsContract == Contract!FairSpec

(* What the class docstring promises (service.py, "the request never fails
   completely"): no exception leaves analyze.  An answer that raises does, and a
   broken connection to Kakao.                                                *)
NeverFailsCompletely == pc # "raised"

(* What the comment in fill_derived_flags promises (restaurant.py, "the same
   neighbourhood always uses the same group id").  A neighbourhood that Kakao
   supplies is used as Kakao spells it, while the LLM's is normalised.         *)
SameNeighborhoodSameGroup ==
    pc = "returned" =>
        \A k, l \in DOMAIN places :
            LET m == places[k].neighborhood
                n == places[l].neighborhood
            IN  m # NoNeighborhood /\ n # NoNeighborhood /\ m.name = n.name
                    => places[k].group = places[l].group
-----------------------------------------------------------------------------
(* The inductive invariant behind the safety properties. *)

(* The places are looked up, or were when an exception came. *)
InLookUp == pc = "enrich" \/ (pc = "raised" /\ details # NoDetails)

(* Nothing is answered before the end; the stages run only for what they are for. *)
StagesFit ==
    /\ pc # "returned" => answer = NoAnswer
    /\ pc = "returned" => answer \in AnalyzeResponse(Sources)
    /\ pc \in {"classify", "extract", "enrich", "raised"} => client /\ ~ blank
    /\ pc \in {"extract", "enrich"} => base.isUseful /\ base.category \in CATEGORY_STAGE2
    /\ InLookUp =>
          kakao /\ base.category = "restaurant" /\ details \in DetailsModel("restaurant")
    /\ pc \in {"start", "classify", "extract"} => details = NoDetails

(* The entries come one after the other, none beyond the last. *)
PlacesSoFar ==
    /\ pc \in {"start", "classify", "extract"} => places = <<>> /\ search = NoSearch
    /\ InLookUp => Len(places) <= Len(details)
    /\ search # NoSearch => InLookUp /\ Len(places) < Len(details)
    /\ pc = "raised" /\ InLookUp => search # NoSearch
    /\ \A k \in DOMAIN places : Vetted(places[k])
    /\ SearchInv

(* Requests and pauses, exactly where a loop is running. *)
SpentSoFar ==
    /\ pc = "start" => calls = [s \in Stages |-> 0] /\ slept = 0
    /\ pc = "classify" =>
          /\ calls["classify"] = attempt - 1 /\ calls["extract"] = 0
          /\ slept = PauseTotal(attempt - 1)
    /\ pc = "extract" =>
          /\ calls["extract"] = attempt - 1
          /\ slept <= PauseTotal(MaxRetries) + PauseTotal(attempt - 1)

ServiceInv == TypeOK /\ StagesFit /\ PlacesSoFar /\ SpentSoFar /\ RetryBudget
=============================================================================
