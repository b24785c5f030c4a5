-------------------------- MODULE AnalysisService_proofs --------------------------
(***************************************************************************)
(* One call of the analysis service keeps its contract and its budget and  *)
(* trusts no place Kakao does not know, for any number of retries, sources *)
(* and places and any neighbourhoods.                                      *)
(***************************************************************************)
EXTENDS AnalysisService, TLAPS

(* A sequence of SeqOf is one with its length bounded. *)
LEMMA SeqOfLength ==
    ASSUME NEW S, NEW n \in Nat, NEW s \in SeqOf(S, n)
    PROVE  s \in Seq(S) /\ Len(s) \in Nat /\ Len(s) <= n /\ DOMAIN s = 1 .. Len(s)
BY DEF SeqOf

LEMMA EmptyDetails == <<>> \in SeqOf(RestaurantExtraction(Sources), MaxRestaurants)
<1>1. <<>> \in [1 .. 0 -> RestaurantExtraction(Sources)] /\ 0 \in 0 .. MaxRestaurants
  BY BoundAssumption
<1>2. QED BY <1>1 DEF SeqOf

(* Without details every category and usefulness makes an answer. *)
LEMMA ResponseWithout ==
    ASSUME NEW b, b.category \in ALLOWED_CATEGORIES \cup {MADE_UP}, b.isUseful \in BOOLEAN
    PROVE  ToResponse(b, NoDetails) \in AnalyzeResponse(Sources)
<1> DEFINE category == IF b.category \in ALLOWED_CATEGORIES THEN b.category ELSE UNKNOWN_CATEGORY
           useful == b.isUseful /\ category # UNKNOWN_CATEGORY
<1>1. category \in ALLOWED_CATEGORIES
  BY DEF ALLOWED_CATEGORIES
<1>2. useful \in BOOLEAN /\ (category = UNKNOWN_CATEGORY => ~ useful)
  OBVIOUS
<1>3. ToResponse(b, NoDetails) = [category |-> category, isUseful |-> useful, details |-> NoDetails]
  BY DEF ToResponse
<1> HIDE DEF category, useful
<1>4. QED BY <1>1, <1>2, <1>3 DEF AnalyzeResponse, Unextracted

(* With the details of its own category, a useful text does. *)
LEMMA ResponseWith ==
    ASSUME NEW b, b.category \in CATEGORY_STAGE2, b.isUseful \in BOOLEAN, b.isUseful,
           NEW d \in DetailsModel(b.category)
    PROVE  ToResponse(b, d) \in AnalyzeResponse(Sources)
<1>1. b.category \in ALLOWED_CATEGORIES /\ b.category # UNKNOWN_CATEGORY
  BY DEF CATEGORY_STAGE2, ALLOWED_CATEGORIES, CATEGORIES, UNKNOWN_CATEGORY
<1>2. ToResponse(b, d) = [category |-> b.category, isUseful |-> TRUE, details |-> d]
  BY <1>1 DEF ToResponse
<1>3. CASE b.category = "restaurant"
  BY <1>2, <1>3 DEF DetailsModel, AnalyzeResponse, Extracted
<1>4. CASE b.category # "restaurant"
  BY <1>2, <1>4 DEF DetailsModel, AnalyzeResponse, Extracted
<1>5. QED BY <1>3, <1>4

LEMMA EmptyIsResponse == EmptyResponse \in AnalyzeResponse(Sources)
BY DEF EmptyResponse, AnalyzeResponse, Unextracted, ALLOWED_CATEGORIES

(* The pauses add up: what precedes the next attempt is the total before it and its
   own pause, and totals grow.                                                     *)
LEMMA PausesAddUp ==
    ASSUME NEW k \in Nat \ {0}
    PROVE  /\ PauseTotal(k) = PauseTotal(k - 1) + Backoff(k)
           /\ PauseTotal(k) \in Nat /\ PauseTotal(k - 1) \in Nat
BY DEF PauseTotal, Backoff

LEMMA PausesGrow ==
    ASSUME NEW k \in Nat, NEW n \in Nat, k <= n
    PROVE  PauseTotal(k) \in Nat /\ PauseTotal(n) \in Nat /\ PauseTotal(k) <= PauseTotal(n)
BY DEF PauseTotal
-----------------------------------------------------------------------------
(* Entries of a restaurant answer stay entries, and vetted ones where it matters. *)

LEMMA NormalizeType ==
    ASSUME NEW n \in Neighborhood
    PROVE  Normalize(n) \in Neighborhood
BY DEF Normalize, Neighborhood, Written

LEMMA GroupType ==
    ASSUME NEW e \in Entry, NEW n \in Neighborhood
    PROVE  GroupOf(e, n) \in Written \cup {OtherGroup}
BY DEF GroupOf, Entry, Neighborhood

LEMMA ValidatedType ==
    ASSUME NEW e \in LlmEntry
    PROVE  /\ Validated(e) \in Entry /\ Validated(e).name = e.name
           /\ e.name # "given" => Vetted(Validated(e))
<1>1. e \in Entry
  BY DEF LlmEntry, Entry
<1>2. Normalize(e.neighborhood) \in Neighborhood
  BY NormalizeType DEF LlmEntry
<1>3. GroupOf(e, Normalize(e.neighborhood)) \in Written \cup {OtherGroup}
  BY <1>1, <1>2, GroupType
<1>4. QED BY <1>1, <1>2, <1>3 DEF Validated, Entry, LlmEntry, Vetted

LEMMA FoundType ==
    ASSUME NEW e \in Entry, NEW p \in KakaoPlace
    PROVE  Found(e, p) \in Entry /\ Vetted(Found(e, p))
<1> DEFINE n == IF e.neighborhood = NoNeighborhood THEN p.neighborhood ELSE e.neighborhood
<1>1. n \in Neighborhood /\ p.located \in BOOLEAN
  BY DEF Entry, KakaoPlace
<1>2. GroupOf(e, n) \in Written \cup {OtherGroup}
  BY <1>1, GroupType
<1>3. QED BY <1>1, <1>2 DEF Found, Entry, Vetted

LEMMA NotFoundType ==
    ASSUME NEW e \in Entry
    PROVE  NotFound(e) \in Entry /\ Vetted(NotFound(e))
BY DEF NotFound, Entry, Vetted
-----------------------------------------------------------------------------
(* The look-up, request by request. *)

LEMMA ScopesLength == Len(Scopes) = 3
BY DEF Scopes

LEMMA SearchFields ==
    ASSUME NEW s \in Search
    PROVE  /\ s.query \in {"name", "refined"} /\ s.scope \in 1 .. 3 /\ s.lookups \in Nat
           /\ s.entry \in Entry /\ s.outcome \in {"open", "found", "not found"}
           /\ s = [query |-> s.query, scope |-> s.scope, lookups |-> s.lookups,
                   entry |-> s.entry, outcome |-> s.outcome]
           /\ s # NoSearch
<1>1. /\ s.query \in {"name", "refined"} /\ s.scope \in 1 .. 3 /\ s.lookups \in Nat
      /\ s.entry \in Entry /\ s.outcome \in {"open", "found", "not found"}
  BY ScopesLength DEF Search
<1>2. s = [query |-> s.query, scope |-> s.scope, lookups |-> s.lookups,
           entry |-> s.entry, outcome |-> s.outcome]
  BY DEF Search
<1>3. NoSearch.query = "none"
  BY DEF NoSearch
<1>4. QED BY <1>1, <1>2, <1>3

(* What the next request changes of a record of this shape. *)
LEMMA UpdateScope ==
    ASSUME NEW query, NEW scope, NEW lookups, NEW entry, NEW outcome, NEW s, NEW t,
           NEW scope2, NEW lookups2,
           s = [query |-> query, scope |-> scope, lookups |-> lookups,
                entry |-> entry, outcome |-> outcome],
           t = [s EXCEPT !.scope = scope2, !.lookups = lookups2]
    PROVE  t = [query |-> query, scope |-> scope2, lookups |-> lookups2,
                entry |-> entry, outcome |-> outcome]
OBVIOUS

LEMMA UpdateQuery ==
    ASSUME NEW query, NEW scope, NEW lookups, NEW entry, NEW outcome, NEW s, NEW t,
           NEW query2, NEW scope2, NEW lookups2,
           s = [query |-> query, scope |-> scope, lookups |-> lookups,
                entry |-> entry, outcome |-> outcome],
           t = [s EXCEPT !.query = query2, !.scope = scope2, !.lookups = lookups2]
    PROVE  t = [query |-> query2, scope |-> scope2, lookups |-> lookups2,
                entry |-> entry, outcome |-> outcome]
OBVIOUS

(* The record of a search, from fields of the right types, and what it has spent. *)
LEMMA MakeSearch ==
    ASSUME NEW query \in {"name", "refined"}, NEW scope \in 1 .. 3, NEW lookups \in Nat,
           NEW entry \in Entry, NEW outcome \in {"open", "found", "not found"},
           lookups <= (IF query = "refined" THEN 3 ELSE 0)
                        + (IF outcome = "open" THEN scope - 1 ELSE scope),
           outcome # "open" => Vetted(entry),
           search' = [query |-> query, scope |-> scope, lookups |-> lookups,
                      entry |-> entry, outcome |-> outcome]
    PROVE  SearchTypeOK' /\ SearchInv' /\ search' # NoSearch
<1>1. search' \in Search
  BY ScopesLength DEF Search
<1>2. /\ search'.query = query /\ search'.scope = scope /\ search'.lookups = lookups
      /\ search'.entry = entry /\ search'.outcome = outcome
  OBVIOUS
<1>3. SearchInv'
  BY <1>2, ScopesLength DEF SearchInv
<1>4. search' # NoSearch
  BY <1>1, SearchFields
<1>5. QED BY <1>1, <1>3, <1>4 DEF SearchTypeOK

(* A look-up starts with no request made and an entry to vet. *)
LEMMA StartFits ==
    ASSUME NEW e \in Entry, StartSearch(e)
    PROVE  SearchTypeOK' /\ SearchInv' /\ search' # NoSearch
<1> DEFINE query == "name"
           scope == 1
           lookups == 0
           outcome == "open"
<1>1. search' = [query |-> query, scope |-> scope, lookups |-> lookups, entry |-> e, outcome |-> outcome]
  BY DEF StartSearch
<1>2. /\ query \in {"name", "refined"} /\ scope \in 1 .. 3 /\ lookups \in Nat
      /\ outcome \in {"open", "found", "not found"} /\ outcome = "open"
      /\ lookups <= (IF query = "refined" THEN 3 ELSE 0)
                        + (IF outcome = "open" THEN scope - 1 ELSE scope)
  OBVIOUS
<1> HIDE DEF query, scope, lookups, outcome
<1>3. QED BY <1>1, <1>2, MakeSearch

(* A request keeps the count and leaves nothing unvetted behind. *)
LEMMA LookUpFits ==
    ASSUME SearchTypeOK, SearchInv, LookUp
    PROVE  SearchTypeOK' /\ SearchInv' /\ search' # NoSearch
<1> DEFINE query == search.query
           scope == search.scope
           lookups == search.lookups
           entry == search.entry
<1>1. PICK reply \in Replies :
          \/ SearchWider(reply) \/ SearchRefined(reply)
          \/ PlaceFound(reply) \/ PlaceNotFound(reply)
  BY DEF LookUp
<1>2. Searching
  BY <1>1 DEF SearchWider, SearchRefined, PlaceFound, PlaceNotFound
<1>3. search \in Search /\ search # NoSearch /\ search.outcome = "open"
  BY <1>2 DEF SearchTypeOK, Searching, NoSearch
<1>4. /\ query \in {"name", "refined"} /\ scope \in 1 .. 3 /\ lookups \in Nat /\ entry \in Entry
      /\ search = [query |-> query, scope |-> scope, lookups |-> lookups,
                   entry |-> entry, outcome |-> "open"]
  BY <1>3, SearchFields
<1>5. lookups <= (IF query = "refined" THEN 3 ELSE 0) + (scope - 1)
  BY <1>3, ScopesLength DEF SearchInv
<1> HIDE DEF query, scope, lookups, entry
<1>6. CASE SearchWider(reply)
  <2>1. /\ scope < 3
        /\ search' = [search EXCEPT !.scope = scope + 1, !.lookups = lookups + 1]
    BY <1>6, ScopesLength DEF SearchWider, scope, lookups
  <2>2. search' = [query |-> query, scope |-> scope + 1, lookups |-> lookups + 1,
                   entry |-> entry, outcome |-> "open"]
    BY <1>4, <2>1, UpdateScope
  <2>3. scope + 1 \in 1 .. 3 /\ lookups + 1 \in Nat
    BY <1>4, <2>1
  <2>4. lookups + 1 <= (IF query = "refined" THEN 3 ELSE 0) + ((scope + 1) - 1)
    BY <1>4, <1>5
  <2>5. QED BY <1>4, <2>2, <2>3, <2>4, MakeSearch
<1>7. CASE SearchRefined(reply)
  <2> DEFINE refined == "refined"
             open == "open"
             first == 1
  <2>1. /\ query = "name"
        /\ search' = [search EXCEPT !.query = refined, !.scope = first, !.lookups = lookups + 1]
    BY <1>7 DEF SearchRefined, query, lookups
  <2>2. /\ refined \in {"name", "refined"} /\ first \in 1 .. 3 /\ lookups + 1 \in Nat
        /\ open \in {"open", "found", "not found"} /\ open = "open"
        /\ lookups + 1 <= (IF refined = "refined" THEN 3 ELSE 0)
                            + (IF open = "open" THEN first - 1 ELSE first)
    BY <1>4, <1>5, <2>1
  <2>3. search = [query |-> query, scope |-> scope, lookups |-> lookups,
                  entry |-> entry, outcome |-> open]
    BY <1>4
  <2> HIDE DEF refined, open, first
  <2>4. search' = [query |-> refined, scope |-> first, lookups |-> lookups + 1,
                   entry |-> entry, outcome |-> open]
    BY <2>1, <2>3, UpdateQuery
  <2>5. QED BY <1>4, <2>2, <2>4, MakeSearch
<1>8. CASE PlaceFound(reply)
  <2>1. PICK p \in KakaoPlace :
            search' = [search EXCEPT !.lookups = lookups + 1, !.outcome = "found",
                                     !.entry = Found(entry, p)]
    BY <1>8 DEF PlaceFound, lookups, entry
  <2>2. search' = [query |-> query, scope |-> scope, lookups |-> lookups + 1,
                   entry |-> Found(entry, p), outcome |-> "found"]
    BY <1>4, <2>1
  <2>3. Found(entry, p) \in Entry /\ Vetted(Found(entry, p))
    BY <1>4, FoundType
  <2>4. lookups + 1 \in Nat /\ lookups + 1 <= (IF query = "refined" THEN 3 ELSE 0) + scope
    BY <1>4, <1>5
  <2>5. QED BY <1>4, <2>2, <2>3, <2>4, MakeSearch
<1>9. CASE PlaceNotFound(reply)
  <2>1. search' = [search EXCEPT !.lookups = lookups + 1, !.outcome = "not found",
                                 !.entry = NotFound(entry)]
    BY <1>9 DEF PlaceNotFound, lookups, entry
  <2>2. search' = [query |-> query, scope |-> scope, lookups |-> lookups + 1,
                   entry |-> NotFound(entry), outcome |-> "not found"]
    BY <1>4, <2>1
  <2>3. NotFound(entry) \in Entry /\ Vetted(NotFound(entry))
    BY <1>4, NotFoundType
  <2>4. lookups + 1 \in Nat /\ lookups + 1 <= (IF query = "refined" THEN 3 ELSE 0) + scope
    BY <1>4, <1>5
  <2>5. QED BY <1>4, <2>2, <2>3, <2>4, MakeSearch
<1>10. QED BY <1>1, <1>6, <1>7, <1>8, <1>9
-----------------------------------------------------------------------------
(* What most steps have in common. *)

LEMMA AttemptsPositive == Attempts \in Nat \ {0}
BY RetriesAssumption DEF Attempts

(* A look-up nobody works on stays as it is. *)
LEMMA SearchKept ==
    ASSUME SearchTypeOK, SearchInv, search' = search
    PROVE  SearchTypeOK' /\ SearchInv'
BY DEF SearchTypeOK, SearchInv

(* A request counted: the running stage has made as many as there were attempts. *)
LEMMA CountFits ==
    ASSUME TypeOK, SpentSoFar, RetryBudget, pc \in Stages, CountCall
    PROVE  /\ calls' \in [Stages -> Nat] /\ calls'[pc] = attempt
           /\ \A s \in Stages \ {pc} : calls'[s] = calls[s]
           /\ \A s \in Stages : calls'[s] <= Attempts
<1>1. /\ calls \in [Stages -> Nat] /\ attempt \in 1 .. Attempts
      /\ \A s \in Stages : calls[s] <= Attempts
  BY DEF TypeOK, RetryBudget
<1>2. calls[pc] = attempt - 1
  BY DEF SpentSoFar, Stages
<1>3. calls'[pc] = attempt /\ calls' \in [Stages -> Nat]
  BY <1>1, <1>2, AttemptsPositive DEF CountCall
<1>4. \A s \in Stages \ {pc} : calls'[s] = calls[s]
  BY <1>1 DEF CountCall
<1>5. QED BY <1>1, <1>3, <1>4, AttemptsPositive

(* Whatever stage 1 made of the text, the call is answered without details or goes on
   to stage 2, and the entries have not begun.                                       *)
LEMMA ContinueFits ==
    ASSUME TypeOK, StagesFit, PlacesSoFar, pc \in {"start", "classify"}, ~ blank,
           NEW b, b.category \in ALLOWED_CATEGORIES \cup {MADE_UP}, b.isUseful \in BOOLEAN,
           Continue(b), UNCHANGED <<input, details, enrichment>>
    PROVE  /\ pc' \in {"extract", "returned"} /\ (pc' = "extract" => client /\ attempt' = 1)
           /\ calls' \in [Stages -> Nat] /\ slept' \in Nat => TypeOK'
           /\ StagesFit' /\ PlacesSoFar'
<1>1. /\ details' = details /\ places' = places /\ search' = search
      /\ client' = client /\ kakao' = kakao /\ blank' = blank /\ base' = b
  BY DEF input, enrichment, Continue
<1>2. details = NoDetails /\ places = <<>> /\ search = NoSearch /\ answer = NoAnswer
  BY DEF StagesFit, PlacesSoFar, InLookUp
<1>3. \/ /\ pc' = "extract" /\ attempt' = 1 /\ answer' = answer
         /\ client /\ b.isUseful /\ b.category \in CATEGORY_STAGE2
      \/ /\ pc' = "returned" /\ attempt' = attempt
         /\ answer' = ToResponse(b, NoDetails)
  BY DEF Continue, Respond
<1>4. ToResponse(b, NoDetails) \in AnalyzeResponse(Sources)
  BY ResponseWithout
<1>5. calls' \in [Stages -> Nat] /\ slept' \in Nat => TypeOK'
  <2>1. attempt' \in 1 .. Attempts
    BY <1>3, AttemptsPositive DEF TypeOK
  <2>2. SearchTypeOK'
    BY <1>1 DEF TypeOK, SearchTypeOK
  <2>3. answer' # NoAnswer => answer' \in AnalyzeResponse(Sources)
    BY <1>2, <1>3, <1>4
  <2>4. QED BY <1>1, <1>3, <2>1, <2>2, <2>3 DEF TypeOK
<1>6. StagesFit'
  BY <1>1, <1>2, <1>3, <1>4 DEF StagesFit, InLookUp
<1>7. PlacesSoFar'
  BY <1>1, <1>2, <1>3, SearchKept DEF PlacesSoFar, TypeOK, InLookUp
<1>8. QED BY <1>3, <1>5, <1>6, <1>7-----------------------------------------------------------------------------
(* Every step keeps the invariant. *)

(* The look-up makes at most two rounds of the scopes. *)
LEMMA LookupsBounded ==
    ASSUME SearchTypeOK', SearchInv', search' # NoSearch
    PROVE  search'.lookups <= 2 * Len(Scopes)
<1>1. search' \in Search
  BY DEF SearchTypeOK
<1>2. search'.scope \in 1 .. 3 /\ search'.lookups \in Nat
  BY <1>1, SearchFields
<1>3. QED BY <1>2, ScopesLength DEF SearchInv

LEMMA AnalyzeBlankKeeps ==
    ASSUME ServiceInv, AnalyzeBlank
    PROVE  ServiceInv'
<1>1. /\ pc = "start" /\ pc' = "returned" /\ answer' = EmptyResponse
      /\ UNCHANGED <<blank, client, kakao, base, attempt, details, places, search, calls, slept>>
  BY DEF AnalyzeBlank, input, enrichment
<1>2. SearchTypeOK' /\ SearchInv'
  BY <1>1, SearchKept DEF ServiceInv, TypeOK, PlacesSoFar
<1>3. TypeOK'
  BY <1>1, <1>2, EmptyIsResponse DEF ServiceInv, TypeOK
<1>4. StagesFit'
  BY <1>1, EmptyIsResponse DEF StagesFit, InLookUp
<1>5. PlacesSoFar'
  BY <1>1, <1>2 DEF ServiceInv, PlacesSoFar, InLookUp
<1>6. SpentSoFar'
  BY <1>1 DEF SpentSoFar
<1>7. RetryBudget'
  BY <1>1 DEF ServiceInv, RetryBudget
<1>8. QED BY <1>3, <1>4, <1>5, <1>6, <1>7 DEF ServiceInv

LEMMA ClassifyOfflineKeeps ==
    ASSUME ServiceInv, ClassifyOffline
    PROVE  ServiceInv'
<1>1. PICK b \in FallbackAnalysis : Continue(b)
  BY DEF ClassifyOffline
<1>2. /\ pc = "start" /\ ~ blank /\ ~ client /\ calls' = calls /\ slept' = slept
      /\ UNCHANGED <<input, details, enrichment>> /\ search' = search
      /\ b.category \in ALLOWED_CATEGORIES \cup {MADE_UP} /\ b.isUseful \in BOOLEAN
  BY DEF ClassifyOffline, FallbackAnalysis, enrichment
<1>3. pc' = "returned" /\ TypeOK' /\ StagesFit' /\ PlacesSoFar'
  BY <1>1, <1>2, ContinueFits DEF ServiceInv, TypeOK
<1>4. SpentSoFar'
  BY <1>3 DEF SpentSoFar
<1>5. RetryBudget'
  BY <1>2 DEF ServiceInv, RetryBudget
<1>6. QED BY <1>3, <1>4, <1>5 DEF ServiceInv

LEMMA StartClassifyKeeps ==
    ASSUME ServiceInv, StartClassify
    PROVE  ServiceInv'
<1>1. /\ pc = "start" /\ ~ blank /\ client /\ pc' = "classify" /\ attempt' = 1
      /\ UNCHANGED <<blank, client, kakao, base, details, places, search, answer, calls, slept>>
  BY DEF StartClassify, input, enrichment
<1>2. SearchTypeOK' /\ SearchInv'
  BY <1>1, SearchKept DEF ServiceInv, TypeOK, PlacesSoFar
<1>3. TypeOK'
  BY <1>1, <1>2, AttemptsPositive DEF ServiceInv, TypeOK
<1>4. StagesFit'
  BY <1>1 DEF ServiceInv, StagesFit, InLookUp
<1>5. PlacesSoFar'
  BY <1>1, <1>2 DEF ServiceInv, PlacesSoFar, InLookUp
<1>6. SpentSoFar'
  BY <1>1 DEF ServiceInv, SpentSoFar, PauseTotal, Stages
<1>7. RetryBudget'
  BY <1>1 DEF ServiceInv, RetryBudget
<1>8. QED BY <1>3, <1>4, <1>5, <1>6, <1>7 DEF ServiceInv

(* Another attempt is within the budget: attempt - 1 of MaxRetries pauses were made,
   in stage 2 on top of those of stage 1.                                          *)
LEMMA RetryKeeps ==
    ASSUME ServiceInv, Retry
    PROVE  ServiceInv'
<1>1. /\ pc \in Stages /\ attempt < Attempts /\ CountCall /\ pc' = pc
      /\ slept' = slept + Backoff(attempt) /\ attempt' = attempt + 1
      /\ UNCHANGED <<blank, client, kakao, base, details, places, search, answer>>
  BY DEF Retry, input, enrichment
<1>2. SearchTypeOK' /\ SearchInv'
  BY <1>1, SearchKept DEF ServiceInv, TypeOK, PlacesSoFar
<1>3. /\ calls' \in [Stages -> Nat] /\ calls'[pc] = attempt
      /\ \A s \in Stages \ {pc} : calls'[s] = calls[s]
      /\ \A s \in Stages : calls'[s] <= Attempts
  BY <1>1, CountFits DEF ServiceInv
<1>4. /\ attempt \in Nat \ {0} /\ attempt <= MaxRetries /\ attempt' - 1 = attempt
      /\ slept \in Nat /\ Backoff(attempt) \in Nat
  BY <1>1, RetriesAssumption DEF ServiceInv, TypeOK, Attempts, Backoff
<1>5. /\ PauseTotal(attempt) = PauseTotal(attempt - 1) + Backoff(attempt)
      /\ PauseTotal(attempt) \in Nat /\ PauseTotal(attempt - 1) \in Nat
      /\ PauseTotal(MaxRetries) \in Nat /\ PauseTotal(attempt) <= PauseTotal(MaxRetries)
  BY <1>4, PausesAddUp, PausesGrow, RetriesAssumption
<1>6. TypeOK'
  BY <1>1, <1>2, <1>3, <1>4, AttemptsPositive DEF ServiceInv, TypeOK
<1>7. StagesFit'
  BY <1>1 DEF ServiceInv, StagesFit, InLookUp
<1>8. PlacesSoFar'
  BY <1>1, <1>2 DEF ServiceInv, PlacesSoFar, InLookUp
<1>9. ASSUME pc = "classify" PROVE SpentSoFar' /\ RetryBudget'
  <2>1. slept' = PauseTotal(attempt' - 1)
    BY <1>1, <1>4, <1>5, <1>9 DEF ServiceInv, SpentSoFar
  <2>2. calls'["classify"] = attempt' - 1 /\ calls'["extract"] = 0
    BY <1>3, <1>4, <1>9 DEF ServiceInv, SpentSoFar, Stages
  <2>3. SpentSoFar'
    BY <1>1, <1>9, <2>1, <2>2 DEF SpentSoFar
  <2>4. slept' <= 2 * PauseTotal(MaxRetries)
    BY <1>4, <1>5, <2>1
  <2>5. QED BY <1>1, <1>3, <2>3, <2>4 DEF ServiceInv, RetryBudget
<1>10. ASSUME pc = "extract" PROVE SpentSoFar' /\ RetryBudget'
  <2>1. slept' <= PauseTotal(MaxRetries) + PauseTotal(attempt' - 1)
    BY <1>1, <1>4, <1>5, <1>10 DEF ServiceInv, SpentSoFar
  <2>2. SpentSoFar'
    BY <1>1, <1>3, <1>4, <1>10, <2>1 DEF SpentSoFar
  <2>3. slept' <= 2 * PauseTotal(MaxRetries)
    BY <1>1, <1>4, <1>5, <2>1
  <2>4. QED BY <1>1, <1>3, <2>2, <2>3 DEF ServiceInv, RetryBudget
<1>11. SpentSoFar' /\ RetryBudget'
  BY <1>1, <1>9, <1>10 DEF Stages, ServiceInv
<1>12. QED BY <1>6, <1>7, <1>8, <1>11 DEF ServiceInv
(* What a counted answer of stage 1 spends is within the budget, and if it leads to
   stage 2, that starts with no request made.                                      *)
LEMMA ClassifySpends ==
    ASSUME ServiceInv, pc = "classify", CountCall, slept' = slept, search' = search,
           pc' \in {"extract", "returned"}, pc' = "extract" => attempt' = 1
    PROVE  calls' \in [Stages -> Nat] /\ slept' \in Nat /\ SpentSoFar' /\ RetryBudget'
<1>1. /\ calls' \in [Stages -> Nat] /\ calls'["extract"] = calls["extract"]
      /\ \A s \in Stages : calls'[s] <= Attempts
  BY CountFits DEF ServiceInv, Stages
<1>2. slept = PauseTotal(attempt - 1) /\ calls["extract"] = 0 /\ slept \in Nat
  BY DEF ServiceInv, SpentSoFar, TypeOK
<1>3. attempt - 1 \in Nat /\ attempt - 1 <= MaxRetries
  BY RetriesAssumption DEF ServiceInv, TypeOK, Attempts
<1>4. slept <= PauseTotal(MaxRetries) /\ PauseTotal(MaxRetries) \in Nat
  BY <1>2, <1>3, PausesGrow, RetriesAssumption
<1>5. PauseTotal(1 - 1) = 0
  BY DEF PauseTotal
<1>6. SpentSoFar'
  BY <1>1, <1>2, <1>4, <1>5 DEF SpentSoFar
<1>7. RetryBudget'
  BY <1>1 DEF ServiceInv, RetryBudget
<1>8. QED BY <1>1, <1>2, <1>6, <1>7

LEMMA ClassifiedKeeps ==
    ASSUME ServiceInv, Classified
    PROVE  ServiceInv'
<1>1. PICK b \in LlmAnalysis : Continue(b)
  BY DEF Classified
<1>2. /\ pc = "classify" /\ CountCall /\ slept' = slept /\ search' = search
      /\ UNCHANGED <<input, details, enrichment>>
      /\ b.category \in ALLOWED_CATEGORIES \cup {MADE_UP} /\ b.isUseful \in BOOLEAN
  BY DEF Classified, LlmAnalysis, enrichment
<1>3. /\ pc' \in {"extract", "returned"} /\ (pc' = "extract" => client /\ attempt' = 1)
      /\ calls' \in [Stages -> Nat] /\ slept' \in Nat => TypeOK'
      /\ StagesFit' /\ PlacesSoFar'
  <2>1. ~ blank
    BY <1>2 DEF ServiceInv, StagesFit
  <2>2. QED BY <1>1, <1>2, <2>1, ContinueFits DEF ServiceInv
<1>4. calls' \in [Stages -> Nat] /\ slept' \in Nat /\ SpentSoFar' /\ RetryBudget'
  BY <1>2, <1>3, ClassifySpends
<1>5. QED BY <1>3, <1>4 DEF ServiceInv

LEMMA ClassifyFallbackKeeps ==
    ASSUME ServiceInv, ClassifyFallback
    PROVE  ServiceInv'
<1>1. PICK b \in FallbackAnalysis : Continue(b)
  BY DEF ClassifyFallback
<1>2. /\ pc = "classify" /\ CountCall /\ slept' = slept /\ search' = search
      /\ UNCHANGED <<input, details, enrichment>>
      /\ b.category \in ALLOWED_CATEGORIES \cup {MADE_UP} /\ b.isUseful \in BOOLEAN
  BY DEF ClassifyFallback, FallbackAnalysis, enrichment
<1>3. /\ pc' \in {"extract", "returned"} /\ (pc' = "extract" => client /\ attempt' = 1)
      /\ calls' \in [Stages -> Nat] /\ slept' \in Nat => TypeOK'
      /\ StagesFit' /\ PlacesSoFar'
  <2>1. ~ blank
    BY <1>2 DEF ServiceInv, StagesFit
  <2>2. QED BY <1>1, <1>2, <2>1, ContinueFits DEF ServiceInv
<1>4. calls' \in [Stages -> Nat] /\ slept' \in Nat /\ SpentSoFar' /\ RetryBudget'
  BY <1>2, <1>3, ClassifySpends
<1>5. QED BY <1>3, <1>4 DEF ServiceInv

(* The same of stage 2. *)
LEMMA ExtractSpends ==
    ASSUME ServiceInv, pc = "extract", CountCall, slept' = slept, search' = search,
           pc' \in {"enrich", "returned"}
    PROVE  calls' \in [Stages -> Nat] /\ SpentSoFar' /\ RetryBudget'
<1>1. calls' \in [Stages -> Nat] /\ \A s \in Stages : calls'[s] <= Attempts
  BY CountFits DEF ServiceInv, Stages
<1>2. SpentSoFar'
  BY DEF SpentSoFar
<1>3. RetryBudget'
  BY <1>1 DEF ServiceInv, RetryBudget
<1>4. QED BY <1>1, <1>2, <1>3

(* An answer that raises leaves everything as it was, details included. *)
LEMMA AnswerRaisesKeeps ==
    ASSUME ServiceInv, AnswerRaises
    PROVE  ServiceInv'
<1>1. /\ pc \in Stages /\ CountCall /\ pc' = "raised"
      /\ UNCHANGED <<blank, client, kakao, base, attempt, details, places, search, answer, slept>>
  BY DEF AnswerRaises, input, enrichment
<1>2. calls' \in [Stages -> Nat] /\ \A s \in Stages : calls'[s] <= Attempts
  BY <1>1, CountFits DEF ServiceInv
<1>3. /\ pc \in {"classify", "extract"} /\ details = NoDetails /\ answer = NoAnswer
      /\ search = NoSearch /\ client /\ ~ blank
  BY <1>1 DEF ServiceInv, StagesFit, PlacesSoFar, Stages, InLookUp
<1>4. SearchTypeOK' /\ SearchInv'
  BY <1>1, SearchKept DEF ServiceInv, TypeOK, PlacesSoFar
<1>5. TypeOK'
  BY <1>1, <1>2, <1>3, <1>4 DEF ServiceInv, TypeOK
<1>6. StagesFit'
  BY <1>1, <1>3 DEF StagesFit, InLookUp
<1>7. PlacesSoFar'
  BY <1>1, <1>3, <1>4 DEF ServiceInv, PlacesSoFar, InLookUp
<1>8. SpentSoFar'
  BY <1>1 DEF SpentSoFar
<1>9. RetryBudget'
  BY <1>1, <1>2 DEF ServiceInv, RetryBudget
<1>10. QED BY <1>5, <1>6, <1>7, <1>8, <1>9 DEF ServiceInv

LEMMA ExtractNothingKeeps ==
    ASSUME ServiceInv, ExtractNothing
    PROVE  ServiceInv'
<1>1. /\ pc = "extract" /\ CountCall /\ pc' = "returned"
      /\ answer' = ToResponse(base, NoDetails)
      /\ UNCHANGED <<blank, client, kakao, base, attempt, details, places, search, slept>>
  BY DEF ExtractNothing, Respond, input, enrichment
<1>2. ToResponse(base, NoDetails) \in AnalyzeResponse(Sources)
  BY ResponseWithout DEF ServiceInv, TypeOK
<1>3. calls' \in [Stages -> Nat] /\ SpentSoFar' /\ RetryBudget'
  BY <1>1, ExtractSpends
<1>4. SearchTypeOK' /\ SearchInv'
  BY <1>1, SearchKept DEF ServiceInv, TypeOK, PlacesSoFar
<1>5. TypeOK'
  BY <1>1, <1>2, <1>3, <1>4 DEF ServiceInv, TypeOK
<1>6. StagesFit'
  BY <1>1, <1>2 DEF StagesFit, InLookUp
<1>7. PlacesSoFar'
  BY <1>1, <1>4 DEF ServiceInv, PlacesSoFar, InLookUp
<1>8. QED BY <1>3, <1>5, <1>6, <1>7 DEF ServiceInv

(* Details that need no look-up are answered, those of restaurants wait for theirs. *)
LEMMA DetailsExtractedKeeps ==
    ASSUME ServiceInv, DetailsExtracted
    PROVE  ServiceInv'
<1>1. PICK d \in DetailsModel(base.category) :
          /\ details' = d
          /\ IF base.category = "restaurant" /\ kakao
             THEN pc' = "enrich" /\ answer' = answer
             ELSE Respond(base, d)
  BY DEF DetailsExtracted
<1>2. /\ pc = "extract" /\ CountCall
      /\ UNCHANGED <<blank, client, kakao, base, attempt, places, search, slept>>
  BY DEF DetailsExtracted, input, enrichment
<1>3. /\ base.isUseful /\ base.category \in CATEGORY_STAGE2 /\ client /\ ~ blank
      /\ answer = NoAnswer /\ places = <<>> /\ search = NoSearch
      /\ base.isUseful \in BOOLEAN
  BY <1>2 DEF ServiceInv, StagesFit, PlacesSoFar, TypeOK, InLookUp
<1>4. ToResponse(base, d) \in AnalyzeResponse(Sources)
  BY <1>3, ResponseWith
<1>5. d \in DetailsModel("restaurant")
  BY EmptyDetails DEF DetailsModel
<1>6. SearchTypeOK' /\ SearchInv'
  BY <1>2, SearchKept DEF ServiceInv, TypeOK, PlacesSoFar
<1>7. \/ pc' = "enrich" /\ answer' = NoAnswer /\ base.category = "restaurant" /\ kakao
      \/ pc' = "returned" /\ answer' = ToResponse(base, d)
  BY <1>1, <1>3 DEF Respond
<1>8. calls' \in [Stages -> Nat] /\ SpentSoFar' /\ RetryBudget'
  BY <1>2, <1>7, ExtractSpends
<1>9. TypeOK'
  BY <1>1, <1>2, <1>4, <1>5, <1>6, <1>7, <1>8 DEF ServiceInv, TypeOK
<1>10. StagesFit'
  BY <1>1, <1>2, <1>3, <1>4, <1>5, <1>7 DEF StagesFit, InLookUp
<1>11. Len(details') \in Nat
  BY <1>1, <1>5, SeqOfLength, BoundAssumption DEF DetailsModel
<1>12. PlacesSoFar'
  BY <1>2, <1>3, <1>6, <1>7, <1>11 DEF PlacesSoFar, InLookUp
<1>13. QED BY <1>8, <1>9, <1>10, <1>12 DEF ServiceInv
(* While entries are enriched nothing but they and the look-up change. *)
LEMMA EnrichKeeps ==
    ASSUME ServiceInv, pc = "enrich", SearchTypeOK', SearchInv',
           UNCHANGED <<pc, input, base, attempt, details, answer, calls, slept>>,
           \/ places' = places
           \/ \E e \in Entry : Vetted(e) /\ places' = Append(places, e),
           Len(places) < Len(details),
           search' # NoSearch => places' = places
    PROVE  ServiceInv'
<1>1. UNCHANGED <<pc, blank, client, kakao, base, attempt, details, answer, calls, slept>>
  BY DEF input
<1>2. Len(details) \in Nat /\ Len(details) <= MaxRestaurants
  BY SeqOfLength, BoundAssumption DEF ServiceInv, StagesFit, InLookUp, DetailsModel
<1>3. places \in Seq(Entry) /\ \A k \in DOMAIN places : Vetted(places[k])
  BY DEF ServiceInv, TypeOK, PlacesSoFar, InLookUp
<1>4. /\ places' \in Seq(Entry) /\ Len(places') <= Len(details)
      /\ Len(places') <= MaxRestaurants
      /\ \A k \in DOMAIN places' : Vetted(places'[k])
      /\ search' # NoSearch => Len(places') < Len(details)
  <2>1. CASE places' = places
    <3>1. Len(places) \in Nat
      BY <1>3
    <3>2. \A k \in DOMAIN places' : Vetted(places'[k])
      BY <1>3, <2>1
    <3>3. Len(places') <= Len(details) /\ Len(places') <= MaxRestaurants
      BY <1>2, <2>1, <3>1, BoundAssumption
    <3>4. QED BY <1>3, <2>1, <3>2, <3>3
  <2>2. CASE \E e \in Entry : Vetted(e) /\ places' = Append(places, e)
    <3>1. PICK e \in Entry : Vetted(e) /\ places' = Append(places, e)
      BY <2>2
    <3>2. /\ places' \in Seq(Entry) /\ Len(places') = Len(places) + 1
          /\ DOMAIN places' = 1 .. Len(places) + 1
          /\ \A k \in 1 .. Len(places) : places'[k] = places[k]
          /\ places'[Len(places) + 1] = e
      BY <1>3, <3>1
    <3>3. \A k \in DOMAIN places' : Vetted(places'[k])
      BY <1>3, <3>1, <3>2
    <3>4. search' = NoSearch
      <4>1. Len(places) \in Nat
        BY <1>3
      <4>2. QED BY <3>2, <4>1
    <3>5. Len(places') <= Len(details) /\ Len(places') <= MaxRestaurants
      <4>1. Len(places) \in Nat
        BY <1>3
      <4>2. QED BY <1>2, <3>2, <4>1, BoundAssumption
    <3>6. QED BY <3>2, <3>3, <3>4, <3>5
  <2>3. QED BY <2>1, <2>2
<1>5. TypeOK'
  BY <1>1, <1>4 DEF ServiceInv, TypeOK
<1>6. StagesFit'
  BY <1>1 DEF ServiceInv, StagesFit, InLookUp
<1>7. PlacesSoFar'
  BY <1>1, <1>4 DEF ServiceInv, PlacesSoFar, InLookUp
<1>8. SpentSoFar'
  BY <1>1 DEF SpentSoFar
<1>9. RetryBudget'
  <2>1. search' # NoSearch => search'.lookups <= 2 * Len(Scopes)
    BY LookupsBounded
  <2>2. QED BY <1>1, <2>1 DEF ServiceInv, RetryBudget
<1>10. QED BY <1>5, <1>6, <1>7, <1>8, <1>9 DEF ServiceInv
LEMMA StartPlaceKeeps ==
    ASSUME ServiceInv, StartPlace
    PROVE  ServiceInv'
<1>1. PICK e \in LlmEntry :
          IF e.name = "given"
          THEN StartSearch(Validated(e)) /\ places' = places
          ELSE search' = search /\ places' = Append(places, Validated(e))
  BY DEF StartPlace
<1>2. /\ pc = "enrich" /\ search = NoSearch /\ Len(places) < Len(details)
      /\ UNCHANGED <<pc, input, base, attempt, details, answer, calls, slept>>
  BY DEF StartPlace
<1>3. Validated(e) \in Entry /\ (e.name # "given" => Vetted(Validated(e)))
  BY ValidatedType
<1>4. CASE e.name = "given"
  <2>1. SearchTypeOK' /\ SearchInv'
    BY <1>1, <1>3, <1>4, StartFits
  <2>2. QED BY <1>1, <1>2, <1>4, <2>1, EnrichKeeps
<1>5. CASE e.name # "given"
  <2>1. SearchTypeOK' /\ SearchInv'
    BY <1>1, <1>5, SearchKept DEF ServiceInv, TypeOK, PlacesSoFar
  <2>2. \E f \in Entry : Vetted(f) /\ places' = Append(places, f)
    BY <1>1, <1>3, <1>5
  <2>3. QED BY <1>1, <1>2, <1>5, <2>1, <2>2, EnrichKeeps
<1>6. QED BY <1>4, <1>5

LEMMA SearchPlaceKeeps ==
    ASSUME ServiceInv, SearchPlace
    PROVE  ServiceInv'
<1>1. /\ pc = "enrich" /\ LookUp /\ places' = places
      /\ UNCHANGED <<pc, input, base, attempt, details, answer, calls, slept>>
  BY DEF SearchPlace
<1>2. Searching
  BY <1>1 DEF LookUp, SearchWider, SearchRefined, PlaceFound, PlaceNotFound
<1>3. Len(places) < Len(details)
  BY <1>2 DEF ServiceInv, PlacesSoFar, Searching, NoSearch, InLookUp
<1>4. SearchTypeOK' /\ SearchInv'
  BY <1>1, LookUpFits DEF ServiceInv, TypeOK, PlacesSoFar, InLookUp
<1>5. QED BY <1>1, <1>3, <1>4, EnrichKeeps

(* What is through with its look-up has been vetted by it. *)
LEMMA PlaceEnrichedKeeps ==
    ASSUME ServiceInv, PlaceEnriched
    PROVE  ServiceInv'
<1>1. /\ pc = "enrich" /\ search # NoSearch /\ ~ Searching
      /\ places' = Append(places, search.entry) /\ search' = NoSearch
      /\ UNCHANGED <<pc, input, base, attempt, details, answer, calls, slept>>
  BY DEF PlaceEnriched
<1>2. search \in Search /\ Len(places) < Len(details)
  BY <1>1 DEF ServiceInv, TypeOK, SearchTypeOK, PlacesSoFar, InLookUp
<1>3. search.entry \in Entry /\ search.query # "none"
  BY <1>2, SearchFields
<1>4. Vetted(search.entry)
  BY <1>1, <1>3 DEF ServiceInv, PlacesSoFar, SearchInv, Searching, InLookUp
<1>5. SearchTypeOK' /\ SearchInv'
  BY <1>1 DEF SearchTypeOK, SearchInv
<1>6. QED BY <1>1, <1>2, <1>3, <1>4, <1>5, EnrichKeeps

LEMMA EnrichRaisesKeeps ==
    ASSUME ServiceInv, EnrichRaises
    PROVE  ServiceInv'
<1>1. /\ pc = "enrich" /\ pc' = "raised" /\ Searching
      /\ UNCHANGED <<blank, client, kakao, base, attempt, details, places, search>>
      /\ UNCHANGED <<answer, calls, slept>>
  BY DEF EnrichRaises, input, enrichment
<1>2. search # NoSearch /\ details # NoDetails
  <2>1. details \in SeqOf(RestaurantExtraction(Sources), MaxRestaurants)
    BY <1>1 DEF ServiceInv, StagesFit, InLookUp, DetailsModel
  <2>2. QED BY <1>1, <2>1, NoDetailsAssumption DEF Searching, NoSearch
<1>3. SearchTypeOK' /\ SearchInv'
  BY <1>1, SearchKept DEF ServiceInv, TypeOK, PlacesSoFar
<1>4. TypeOK'
  BY <1>1, <1>3 DEF ServiceInv, TypeOK
<1>5. StagesFit'
  BY <1>1 DEF ServiceInv, StagesFit, InLookUp
<1>6. PlacesSoFar'
  BY <1>1, <1>2, <1>3 DEF ServiceInv, PlacesSoFar, InLookUp
<1>7. SpentSoFar'
  BY <1>1 DEF SpentSoFar
<1>8. RetryBudget'
  BY <1>1 DEF ServiceInv, RetryBudget
<1>9. QED BY <1>4, <1>5, <1>6, <1>7, <1>8 DEF ServiceInv

LEMMA EnrichedKeeps ==
    ASSUME ServiceInv, Enriched
    PROVE  ServiceInv'
<1>1. /\ pc = "enrich" /\ pc' = "returned" /\ search = NoSearch
      /\ answer' = ToResponse(base, details)
      /\ UNCHANGED <<blank, client, kakao, base, attempt, details, places, search, calls, slept>>
  BY DEF Enriched, Respond, input, enrichment
<1>2. /\ base.isUseful /\ base.isUseful \in BOOLEAN /\ base.category \in CATEGORY_STAGE2
      /\ details \in DetailsModel(base.category)
  BY <1>1 DEF ServiceInv, StagesFit, TypeOK, InLookUp
<1>3. ToResponse(base, details) \in AnalyzeResponse(Sources)
  BY <1>2, ResponseWith
<1>4. SearchTypeOK' /\ SearchInv'
  BY <1>1, SearchKept DEF ServiceInv, TypeOK, PlacesSoFar
<1>5. TypeOK'
  BY <1>1, <1>3, <1>4 DEF ServiceInv, TypeOK
<1>6. StagesFit'
  BY <1>1, <1>3 DEF StagesFit, InLookUp
<1>7. PlacesSoFar'
  BY <1>1, <1>4 DEF ServiceInv, PlacesSoFar, InLookUp
<1>8. SpentSoFar'
  BY <1>1 DEF SpentSoFar
<1>9. RetryBudget'
  BY <1>1 DEF ServiceInv, RetryBudget
<1>10. QED BY <1>5, <1>6, <1>7, <1>8, <1>9 DEF ServiceInv

LEMMA StutterKeeps ==
    ASSUME ServiceInv, UNCHANGED vars
    PROVE  ServiceInv'
<1>1. /\ UNCHANGED <<pc, blank, client, kakao, base, attempt, details, places>>
      /\ UNCHANGED <<search, answer, calls, slept>>
  BY DEF vars
<1>2. SearchTypeOK' /\ SearchInv'
  BY <1>1, SearchKept DEF ServiceInv, TypeOK, PlacesSoFar
<1>3. TypeOK'
  BY <1>1, <1>2 DEF ServiceInv, TypeOK
<1>4. StagesFit'
  BY <1>1 DEF ServiceInv, StagesFit, InLookUp
<1>5. PlacesSoFar'
  BY <1>1, <1>2 DEF ServiceInv, PlacesSoFar, InLookUp
<1>6. SpentSoFar'
  BY <1>1 DEF ServiceInv, SpentSoFar
<1>7. RetryBudget'
  BY <1>1 DEF ServiceInv, RetryBudget
<1>8. QED BY <1>3, <1>4, <1>5, <1>6, <1>7 DEF ServiceInv
-----------------------------------------------------------------------------
(* From the first state on. *)

LEMMA InitEstablishes ==
    ASSUME Init
    PROVE  ServiceInv
<1>1. /\ pc = "start" /\ base = EmptyResponse /\ attempt = 1 /\ details = NoDetails
      /\ places = <<>> /\ search = NoSearch /\ answer = NoAnswer /\ slept = 0
      /\ calls = [s \in Stages |-> 0]
      /\ blank \in BOOLEAN /\ client \in BOOLEAN /\ kakao \in BOOLEAN
  BY DEF Init
<1>2. SearchTypeOK /\ SearchInv
  BY <1>1 DEF SearchTypeOK, SearchInv
<1>3. base.category \in ALLOWED_CATEGORIES \cup {MADE_UP} /\ base.isUseful \in BOOLEAN
  BY <1>1 DEF EmptyResponse, ALLOWED_CATEGORIES
<1>4. calls \in [Stages -> Nat] /\ \A s \in Stages : calls[s] = 0
  BY <1>1
<1>5. Len(places) <= MaxRestaurants /\ places \in Seq(Entry)
  BY <1>1, BoundAssumption
<1>6. TypeOK
  BY <1>1, <1>2, <1>3, <1>4, <1>5, AttemptsPositive DEF TypeOK
<1>7. StagesFit
  BY <1>1 DEF StagesFit, InLookUp
<1>8. PlacesSoFar
  BY <1>1, <1>2 DEF PlacesSoFar, InLookUp
<1>9. SpentSoFar
  BY <1>1 DEF SpentSoFar
<1>10. PauseTotal(MaxRetries) \in Nat
  BY PausesGrow, RetriesAssumption
<1>11. RetryBudget
  BY <1>1, <1>4, <1>10, AttemptsPositive DEF RetryBudget
<1>12. QED BY <1>6, <1>7, <1>8, <1>9, <1>11 DEF ServiceInv

LEMMA StepKeeps ==
    ASSUME ServiceInv, [Next]_vars
    PROVE  ServiceInv'
<1>1. CASE AnalyzeBlank BY <1>1, AnalyzeBlankKeeps
<1>2. CASE ClassifyOffline BY <1>2, ClassifyOfflineKeeps
<1>3. CASE StartClassify BY <1>3, StartClassifyKeeps
<1>4. CASE Retry BY <1>4, RetryKeeps
<1>5. CASE Classified BY <1>5, ClassifiedKeeps
<1>6. CASE ClassifyFallback BY <1>6, ClassifyFallbackKeeps
<1>7. CASE DetailsExtracted BY <1>7, DetailsExtractedKeeps
<1>8. CASE ExtractNothing BY <1>8, ExtractNothingKeeps
<1>9. CASE StartPlace BY <1>9, StartPlaceKeeps
<1>10. CASE SearchPlace BY <1>10, SearchPlaceKeeps
<1>11. CASE PlaceEnriched BY <1>11, PlaceEnrichedKeeps
<1>12. CASE Enriched BY <1>12, EnrichedKeeps
<1>13. CASE EnrichRaises BY <1>13, EnrichRaisesKeeps
<1>14. CASE UNCHANGED vars BY <1>14, StutterKeeps
<1>15. CASE AnswerRaises BY <1>15, AnswerRaisesKeeps
<1>16. QED BY <1>1, <1>2, <1>3, <1>4, <1>5, <1>6, <1>7, <1>8, <1>9, <1>10, <1>11, <1>12,
             <1>13, <1>14, <1>15 DEF Next, Proceed, Ended

(* Stages, entries and spending stay together through every answer of the LLM and of
   Kakao: the invariant of one call of analyze (service.py).                        *)
THEOREM InvHolds == Spec => []ServiceInv
<1>1. Init => ServiceInv
  BY InitEstablishes
<1>2. ServiceInv /\ [Next]_vars => ServiceInv'
  BY StepKeeps
<1>3. QED BY <1>1, <1>2, PTL DEF Spec

(* The state stays what its types say; an answer is one of AnalyzeResponse. *)
THEOREM TypeCorrect == Spec => []TypeOK
<1>1. ServiceInv => TypeOK
  BY DEF ServiceInv
<1>2. QED BY <1>1, InvHolds, PTL

(* _generate_json never makes more than MaxRetries + 1 requests a stage nor pauses
   longer than its schedule, and a place costs at most six requests to Kakao.      *)
THEOREM BudgetIsKept == Spec => []RetryBudget
<1>1. ServiceInv => RetryBudget
  BY DEF ServiceInv
<1>2. QED BY <1>1, InvHolds, PTL

(* An exception leaves analyze only from an answer of the LLM, or from a look-up of
   a restaurant's places, with a key, once their details are there.                 *)
THEOREM OnlyProvidersGetOut == Spec => []OnlyProvidersRaise
<1>1. ASSUME ServiceInv, pc = "raised"
      PROVE  client /\ ~ blank
  BY <1>1 DEF ServiceInv, StagesFit
<1>2. ASSUME ServiceInv, pc = "raised", details # NoDetails
      PROVE  kakao /\ base.category = "restaurant" /\ details # <<>>
  <2>1. InLookUp
    BY <1>2 DEF InLookUp
  <2>2. kakao /\ base.category = "restaurant"
    BY <1>2, <2>1 DEF ServiceInv, StagesFit
  <2>3. Len(places) < Len(details) /\ Len(places) \in Nat
    BY <1>2, <2>1 DEF ServiceInv, TypeOK, PlacesSoFar
  <2>4. details # <<>>
    BY <2>3
  <2>5. QED BY <2>2, <2>4
<1>3. ServiceInv => OnlyProvidersRaise
  BY <1>1, <1>2 DEF OnlyProvidersRaise
<1>4. QED BY <1>3, InvHolds, PTL

(* An enriched place that asks for no review is one Kakao placed, whatever the LLM
   claimed about it and however many requests failed.                             *)
THEOREM TrustIsEarned == Spec => []TrustedIsVerified
<1>1. ServiceInv => TrustedIsVerified
  BY DEF ServiceInv, PlacesSoFar, TrustedIsVerified, InLookUp
<1>2. QED BY <1>1, InvHolds, PTL-----------------------------------------------------------------------------
(* The contract BatchAnalyzer relies on. *)

LEMMA SameAnswers == Contract!AnalyzeResponse(Sources) = AnalyzeResponse(Sources)
BY DEF AnalyzeResponse, Unextracted, Extracted, RestaurantExtraction, SeqOf,
       ALLOWED_CATEGORIES, CATEGORIES, CATEGORY_STAGE2, UNKNOWN_CATEGORY,
       Contract!AnalyzeResponse, Contract!Unextracted, Contract!Extracted,
       Contract!RestaurantExtraction, Contract!SeqOf, Contract!ALLOWED_CATEGORIES,
       Contract!CATEGORIES, Contract!CATEGORY_STAGE2, Contract!UNKNOWN_CATEGORY

LEMMA InitIsContract == Init => Contract!Init
  BY DEF Init, Contract!Init, Status

(* A call that goes on has not ended and stays open; one that ends answers with one of
   AnalyzeResponse or raises with nothing answered; one that ended stays as it is.     *)
LEMMA StepIsContract == ServiceInv /\ [Next]_vars => [Contract!Next]_(Contract!vars)
<1>1. SUFFICES ASSUME ServiceInv, [Next]_vars
               PROVE  [Contract!Next]_(Contract!vars)
  OBVIOUS
<1>2. ServiceInv'
  BY <1>1, StepKeeps
<1>3. CASE UNCHANGED vars
  BY <1>3 DEF vars, Contract!vars, Status
<1>4. CASE Proceed \/ AnswerRaises \/ EnrichRaises
  <2>1. pc \notin {"returned", "raised"}
    BY <1>4 DEF Proceed, AnswerRaises, EnrichRaises, AnalyzeBlank, ClassifyOffline, StartClassify, Retry,
                Classified, ClassifyFallback, DetailsExtracted, ExtractNothing,
                StartPlace, SearchPlace, PlaceEnriched, Enriched, Stages
  <2>2. Status = "open" /\ answer = NoAnswer
    BY <1>1, <2>1 DEF Status, ServiceInv, StagesFit, InLookUp
  <2>3. CASE pc' = "returned"
    <3>1. Status' = "answered" /\ answer' \in AnalyzeResponse(Sources)
      BY <1>2, <2>3 DEF Status, ServiceInv, StagesFit, InLookUp
    <3>2. QED BY <2>2, <3>1, SameAnswers DEF Contract!Next, Contract!Answer
  <2>4. CASE pc' = "raised"
    <3>1. Status' = "raised" /\ answer' = NoAnswer
      BY <1>2, <2>4 DEF Status, ServiceInv, StagesFit, InLookUp
    <3>2. QED BY <2>2, <3>1 DEF Contract!Next, Contract!Raise
  <2>5. CASE pc' \notin {"returned", "raised"}
    <3>1. Status' = "open" /\ answer' = NoAnswer
      BY <1>2, <2>5 DEF Status, ServiceInv, StagesFit, InLookUp
    <3>2. QED BY <2>2, <3>1 DEF Contract!vars
  <2>6. QED BY <2>3, <2>4, <2>5
<1>5. QED BY <1>1, <1>3, <1>4 DEF Next, Ended

(* The safety part of KeepsContract: a call of analyze ends at most once, with an answer
   the batch analyzer can work with or with an exception and no answer.                *)
THEOREM ContractIsKept == Spec => Contract!Spec
  BY InitIsContract, StepIsContract, InvHolds, PTL DEF Spec, Contract!Spec
=============================================================================
