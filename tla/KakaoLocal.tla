------------------------------- MODULE KakaoLocal -------------------------------
(***************************************************************************)
(* One entry of a restaurant answer on its way through the server: what    *)
(* RestaurantExtraction.fill_derived_flags makes of the LLM's entry        *)
(* (app/analysis/categories/restaurant.py), and what the look-up at Kakao  *)
(* adds to it (app/integrations/kakao_local.py).  One step is one HTTP     *)
(* request; Kakao answers any number of places, or fails.                  *)
(***************************************************************************)
EXTENDS Integers, Sequences

CONSTANTS
    Neighborhoods,    \* neighbourhoods, by their plain names
    NoNeighborhood,   \* the field is null
    OtherGroup        \* the group is null, or one the LLM made up

ASSUME NeighborhoodAssumption == NoNeighborhood \notin [name : Neighborhoods, numbered : BOOLEAN]

VARIABLE search       \* the entry at hand and where its look-up stands

(* A neighbourhood as it is written: plain, or with the number of the part. *)
Written == [name : Neighborhoods, numbered : BOOLEAN]
Neighborhood == Written \cup {NoNeighborhood}

(* The fields of an entry that decide.  A blank name is not empty, but is after
   strip().  located: an address of either kind; point: whose coordinates.       *)
LlmEntry ==
    [name : {"none", "blank", "given"}, located : BOOLEAN, point : {"none", "llm"},
     neighborhood : Neighborhood, group : {OtherGroup}, review : BOOLEAN]

Entry ==
    [name : {"none", "blank", "given"}, located : BOOLEAN, point : {"none", "llm", "kakao"},
     neighborhood : Neighborhood, group : Written \cup {OtherGroup}, review : BOOLEAN]

(* _normalize_neighborhood: the number of the part is dropped. *)
Normalize(n) == IF n = NoNeighborhood THEN n ELSE [n EXCEPT !.numbered = FALSE]

(* The id and title of a group spell its neighbourhood (_slugify_korean_safe keeps
   letters and digits), so that the spelling stands for them here.                *)
GroupOf(e, n) == IF n = NoNeighborhood THEN e.group ELSE n

(* fill_derived_flags *)
Validated(e) ==
    [e EXCEPT !.review = @ \/ e.name = "none" \/ ~ (e.located \/ e.point # "none"),
              !.neighborhood = Normalize(@),
              !.group = GroupOf(e, Normalize(e.neighborhood))]

(* What a document of Kakao's tells: an address, and a neighbourhood in it, spelt
   as Kakao spells it (_place_from_document, _extract_neighborhood).              *)
KakaoPlace == {p \in [located : BOOLEAN, neighborhood : Neighborhood] :
                    p.neighborhood # NoNeighborhood => p.located}

(* Seeded fault: a place that is not found leaves the entry as it is. *)
NotFoundIgnored(e) == e

(* place is None *)
NotFound(e) == [e EXCEPT !.review = TRUE]

(* The place is found: coordinates are Kakao's, an address or a neighbourhood only
   fills a gap; with an address the entry needs no review any more.               *)
Found(e, p) ==
    LET n == IF e.neighborhood = NoNeighborhood THEN p.neighborhood ELSE e.neighborhood
    IN  [e EXCEPT !.located = @ \/ p.located,
                  !.point = "kakao",
                  !.neighborhood = n,
                  !.review = IF e.located \/ p.located THEN FALSE ELSE @,
                  !.group = GroupOf(e, n)]
-----------------------------------------------------------------------------
(* The food category, the cafe category, then no category. *)
Scopes == <<"FD6", "CE7", "any">>

(* How many places a reply has: none, one, or more. *)
Many == 2
Replies == 0 .. Many

NoSearch == [query |-> "none"]

(* enrich_restaurant_details_with_kakao on an entry that has a name *)
StartSearch(e) ==
    search' = [query |-> "name", scope |-> 1, lookups |-> 0, entry |-> e, outcome |-> "open"]

Searching == search.query # "none" /\ search.outcome = "open"

(* This request left the query without a single place: it has several, or the last
   of its scopes has none.  A request that fails counts as one without places.     *)
Undecided(reply) == reply = Many \/ (reply = 0 /\ search.scope = Len(Scopes))

(* _search_candidates goes on to the next scope. *)
SearchWider(reply) ==
    /\ Searching /\ reply = 0 /\ search.scope < Len(Scopes)
    /\ search' = [search EXCEPT !.scope = @ + 1, !.lookups = @ + 1]

(* Seeded fault: a refined query that does not decide is refined again. *)
SearchRefinedAgain(reply) ==
    /\ Searching /\ Undecided(reply)
    /\ search.entry.neighborhood # NoNeighborhood
    /\ search' = [search EXCEPT !.query = "refined", !.scope = 1, !.lookups = @ + 1]

(* The name alone does not decide: the neighbourhood is added to the query. *)
SearchRefined(reply) ==
    /\ Searching /\ Undecided(reply)
    /\ search.query = "name" /\ search.entry.neighborhood # NoNeighborhood
    /\ search' = [search EXCEPT !.query = "refined", !.scope = 1, !.lookups = @ + 1]

PlaceFound(reply) ==
    /\ Searching /\ reply = 1
    /\ \E p \in KakaoPlace :
          search' = [search EXCEPT !.lookups = @ + 1, !.outcome = "found", !.entry = Found(@, p)]

(* Neither query decides, or there is no second one. *)
PlaceNotFound(reply) ==
    /\ Searching /\ Undecided(reply)
    /\ search.query = "refined" \/ search.entry.neighborhood = NoNeighborhood
    /\ search' = [search EXCEPT !.lookups = @ + 1, !.outcome = "not found", !.entry = NotFound(@)]

LookUp ==
    \E reply \in Replies :
        \/ SearchWider(reply) \/ SearchRefined(reply)
        \/ PlaceFound(reply) \/ PlaceNotFound(reply)

Search ==
    [query : {"name", "refined"}, scope : 1 .. Len(Scopes), lookups : Nat,
     entry : Entry, outcome : {"open", "found", "not found"}]
SearchTypeOK == search \in Search \cup {NoSearch}

(* An entry goes without a review only when Kakao placed it, or when its name is of
   blanks: validation takes that for a name and the look-up for none.              *)
Vetted(e) == e.review \/ e.point = "kakao" \/ e.name = "blank"

(* A look-up counts its requests by query and scope, and vets what it is through with. *)
SearchInv ==
    search # NoSearch =>
        /\ search.lookups <= (IF search.query = "refined" THEN Len(Scopes) ELSE 0)
                                + (IF search.outcome = "open" THEN search.scope - 1 ELSE search.scope)
        /\ search.outcome # "open" => Vetted(search.entry)
=============================================================================
