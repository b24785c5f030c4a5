# CaptureMate AI: formal models

TLA+ models of the CaptureMate AI backend (FastAPI, Python): the path of a batch of
screenshots from the upload over OCR, masking, grouping and the LLM to the memos that
go back to the client. The modules are translated from the code under `src/app`;
`PROJECT.json` names, for every definition, the lines it stands for. File names below are
relative to `src/app`.

## The system

| component | state | operations | talks to |
|---|---|---|---|
| `main.py`: endpoints | `_ocr_semaphore`, one coroutine per request | `POST /v1/analyze`, health checks, auth endpoints | thread pool, OCR engine, `BatchAnalyzer`, `auth.py` |
| `main.py`: OCR engine life cycle | `_ocr_engine`, `_ocr_load_error` | `_get_ocr_engine`, warm-up, `_ocr_ready`, `health_ready` | event loop writes, pool threads read, no lock |
| `analysis/batch.py`: `BatchAnalyzer` | per call: masked texts, mappings, groups, memos | `analyze_batch`, `_group`, `_split_restaurant_analysis`, `_analyze_restaurant_sources_individually` | `privacy.py`, embedding client, `grouping.py`, `AnalysisService` |
| `analysis/grouping.py` | per call: union-find forest | `group_indices` | - |
| `analysis/service.py`: `AnalysisService` | per call: attempt, stage results | `analyze`, `_classify`, `_extract_details`, `_generate_json`, `_enrich_details`, `_to_response` | LLM client, Kakao client, `categories/` |
| `rate_limit.py`: `RateLimiter` | `_last`, a lock; shared by all threads | `acquire` | every LLM and embedding client |
| `integrations/kakao_local.py` | none | search and enrichment of one place | Kakao over HTTP |
| `privacy.py`, `privacy_ner.py` | lazily built NER detector | `mask_text`, `restore_text` | - |
| `auth.py` | none (JWT) | issue, refresh, verify | Google |
| `llm/`, `embeddings/`, `ocr/` | clients | generate, embed, extract_text | providers |
| `config.py`, `logging_config.py`, `scripts/`, CI workflow | - | - | - |

What is hard here:

- **Concurrency.** Coroutines on one event loop, a thread pool with a limited number of
  tokens shared by token checks, OCR, batches and health checks, a semaphore held while
  waiting for that pool, globals read without a lock, a lock held while sleeping.
- **An adversary inside.** The LLM may answer anything: a made-up category, source
  references that do not exist or leave screenshots out, invalid JSON, nothing.
- **Partial failure.** Unreadable images, refused uploads, failing providers, an exception
  in the middle of a batch; what must be isolated and what takes the request with it.
- **Bookkeeping across index spaces.** Upload index, item index, position in a group,
  `S<k>` reference and placeholder name space: five numberings of the same screenshots.

What makes each part correct: no screenshot is lost, listed twice or mixed up with
another's text or PII (batch); masking hides what it must and restoring undoes the rest
(privacy); no place is trusted that Kakao does not know (enrichment); a sign-in carries as
long as its life times say and no longer (sessions); every answer is of the shape the caller switches on and
within its request budget (service); groups are the connected components, in order
(grouping); one OCR at a time, no leaked semaphore, everybody is answered, items belong to
their images (endpoint); readiness is honest and final (engine); grants are spaced (limiter).

The hazards in `PROJECT.json` list the places where each of these could go wrong.

## The modules

| module | models | actions |
|---|---|---|
| `AnalysisResponse` | the answers of the service as data: category, usefulness, source references, comparison topic | - |
| `AnalysisContract` | abstract: what `AnalysisService.analyze` promises its caller | `Answer`, `Raise` |
| `AnalysisService` | one call of `analyze`, both stages, retry loop, enrichment loop; extends `KakaoLocal` | `AnalyzeBlank` ... `Enriched`, `AnswerRaises`, `EnrichRaises` |
| `KakaoLocal` | an entry of a restaurant answer: validation, the look-up request by request, the merge | `SearchWider`, `SearchRefined`, `PlaceFound`, `PlaceNotFound` |
| `AnalysisService_proofs` | proofs about the service and its look-ups | |
| `Privacy` | `mask_text`, the LLM's copy of a masked text, `restore_text` | `Detect`, `TakeSpan`, `Substitute`, `NextRule`, `LlmAnswers`, `Restore` |
| `Privacy_proofs` | proofs about it | |
| `Sessions` | sign-in, refresh and token check on instances with clocks and secrets of their own | `SignIn`, `Refresh`, `Analyze`, `Redeploy`, `Tick` |
| `Sessions_proofs` | proofs about it | |
| `BatchPromise` | abstract: what a batch promises the endpoint | `Settle`, `Deliver`, `Fail` |
| `BatchAnalyzer` | one call of `analyze_batch` | `Mask`, `GroupSeparately`, `GroupBySimilarity`, `AnalyzeGroup`, `RejectGroup`, `AnalyzeSource`, `CallRaises`, `Return` |
| `BatchAnalyzer_proofs` | proofs about it | |
| `Grouping` | `group_indices`, pointer by pointer | `Dissimilar`, `Similar`, `Halve`, `FoundA`, `Union`, `Gather` |
| `Grouping_proofs` | proofs about it | |
| `AnalyzeRequests` | concurrent `POST /v1/analyze` and health checks over pool and semaphore | one action per stretch between two awaits, and per end of a pool job |
| `AnalyzeRequests_proofs` | proofs about it | |
| `OcrEngine` | load of the engine and `health_ready`, statement by statement | `Startup`, `LoadEngine`, `EngineLoaded`, `ClearError`, `ReadStatus` ... |
| `OcrEngine_proofs` | proofs about it | |
| `RateLimiter` | `acquire` by several threads in discrete time | `Enter`, `Measure`, `Stamp`, `Call`, `Tick` |
| `RateLimiter_proofs` | proofs about it | |
| `MC...` | instances for TLC, with their `.cfg` | |

How they fit together: `AnalyzeRequests!BatchEnds` is the end of a batch, which
`BatchPromise` describes and `BatchAnalyzer` implements. `BatchAnalyzer` calls the service
through the answers of `AnalysisResponse`; `AnalysisService` is shown to return nothing
else (`AnalysisContract`), or an exception, which is one of those of `BatchAnalyzer!CallRaises`.
`BatchAnalyzer!GroupBySimilarity` takes any partition whose classes are named by their
smallest item; `Grouping` shows that union-find delivers such a partition, in that order.
Masking and restoring appear twice: `BatchAnalyzer` is about placeholders of several
screenshots in one mapping, `Privacy` about what happens inside one text. The 401 and 500 of
`AnalyzeRequests!AuthEnds` are those of `Sessions!Analyze`.

### How state and actions correspond to the code

*BatchAnalyzer.* An item is its index in the request. A memo is a record of whom it lists
(`members`, the `memberClientIds`), whose texts the LLM was shown (`seen`), and what the client
reads where the LLM wrote a placeholder: `text` for summary, action and details, `title` for the
title. The LLM is taken to copy every placeholder it saw, the worst case for restoring. A title is
cut to 40 characters before it is restored (`service.py:206`, `batch.py:257` and `300`), so each of
its placeholders is restored or `Unrestored`; a comparison by topic has its topic key in lower case
for a title, in which none is found (`batch.py:286`, `312`). `serverMemoId` is never restored and
not part of the record. `mapping` is the dict of
`mask_text`, placeholder to original; a merged mapping is the fold of `dict.update`.
`Splits` is every early `return None` of `_split_restaurant_analysis` and its final check of
the covered references. Memos are collected in a set: their order is the order of the groups
and no property is about it. Texts are not empty after masking, since only texts of at least
`MIN_USEFUL_CHARS` become items, so every source of a group gets its `S<k>` block.
Client ids are taken to be distinct; with repeated ids (the same file name twice) the memos
would still list the right items, but the client could not tell them apart. `CallRaises` is an
exception that nobody catches: of the service, but also of the embedding client (all but
`EmbeddingError`) or of `group_indices` (`OverflowError` for a capture time beyond floating point).

*AnalysisService.* `attempt` is the loop variable of `_generate_json`; `Retry` is one failed
round with its pause. Validation happens after `_generate_json`, so an invalid object is
not retried: `ClassifyFallback` and `ExtractNothing` are possible at every attempt.
`EnrichRaises` is an exception that `_search_keyword` does not list, `AnswerRaises` one that an
answer of the LLM provokes: JSON nested too deep for `json.loads` (`RecursionError`), or a price of
`1e999` (`OverflowError` of `int`, which pydantic passes on). `details` carries what the
batch analyzer sees of an entry, its source references; `places` the rest, once the entry has
been through the enrichment. What the LLM wrote in an entry is chosen when the entry is first
looked at, which makes no difference to anyone and keeps the number of states down.

*KakaoLocal.* `search` is the look-up of the entry at hand: the query (the name, or the name
with the neighbourhood), the scope (the two category codes, then none) and the requests made. A
reply has no place, one, or more; a request that fails for a listed reason has none. An entry
is reduced to the fields that decide: whether name, address and coordinates are there and
whose, the neighbourhood plain or with the number of its part ("Seongsu-dong 2-ga"), the
group, and `needsUserReview`. The group is the spelling of its neighbourhood, since its id
and title are.

*Privacy.* A text is a sequence of cells. A piece of PII has two cells, so that a span of the
NER can take in all of it, half, or none; a rule matches both halves side by side. The patterns of
numbers want `\b` at both ends. Letters of Hangul are word characters, so a number with a particle
behind it, as Korean is written ("010-1234-5678로"), is matched by no rule: a `Particle` is such a
neighbour, and it may stand on either side. (Any other word character written to a number acts
alike; a pattern of e-mail addresses has no `\b`.) Other cells are set off by blanks or marks. The NER finds
any spans that do not overlap (spaCy's entities never do), or raises, in which case the rules
go on alone. `TakeSpan` is a round of the loop of `_mask_ner`, `Substitute` one match of
`pattern.sub`. The LLM copies the masked text and drops any placeholders.

*Sessions.* The server keeps no session, so the state is the tokens in circulation, and the
clock and secrets of each instance. A token is of its type, the secret it was signed with, and
`iat` and `exp` by the clock of its issuer; `login` and `issued` are times by the slowest clock, for
the properties only. The token library checks signature, `iat` and `exp` without leeway, as the code calls it.
`Redeploy` gives an instance other secrets. Two clocks are a constant of at most `Skew` apart; time is
what the slowest of them would show, so that every instance is ahead of it by `0 .. Skew`.

*AnalyzeRequests.* A coroutine runs without interruption from one await to the next, which
is one action; the end of a job in the pool (`JobEnds`) and the coroutine's return to the event
loop are two. `asyncio.Semaphore` hands over to the first waiter, and so does the pool's limiter;
the limiter is the part of the model that is external to the repository. Cancellation is not
modelled: the server does not cancel a handler when the client goes away. `UploadFile.read`
of a large file uses the pool, too; it holds nothing else meanwhile and is one step here. So is the
load of the engine in `EnterBody`: the event loop does nothing else in that time, so the model shows that
requests and checks are answered after a load, not how long everybody waits for it. The library
gives a token back when the coroutine resumes, the model when the job ends, that is earlier.

*OcrEngine.* The startup hook is awaited before the server accepts requests, and later loads
run on the event loop, so that `_get_ocr_engine` never overlaps itself and its lock is never
contended; the lock is therefore not a variable. The readers are in pool threads and do
interleave with a load, between any two of their reads.

*RateLimiter.* Time advances by `Tick`; `elapsed` is `monotonic() - _last` and saturates at
the interval. The lock is not fair, as `threading.Lock` is not.

*Grouping.* Cosine and time weight are floating point and abstracted to the set of similar pairs.

## What the runs show

| run | instance | what it shows |
|---|---|---|
| `batch` | 3 items, 1 piece of PII each, 2 places per answer, 2 topics | `EveryItemListed`, `MembersWereSeen`, `RestoredToItsOwner`, `OverlapWithinAnswer`, `ReanalysisReplaces`; the batch returns and implements `BatchPromise` |
| `service_contract` | 2 retries, 2 places, 1 neighbourhood in both spellings | `RetryBudget` for the LLM and for Kakao, `OnlyProvidersRaise`, `TrustedIsVerified`; every call ends and implements `AnalysisContract` |
| `privacy` | texts of up to 5 cells (words, particles, up to 2 pieces of PII), up to 2 spans | `RestoredExactly` against a reference reading, `SentWholeOnlyWithParticle`, `HardStaysHidden` |
| `grouping` | up to 5 items, every similarity relation | the forest is exact at every pointer step, groups are the components in order, `find` ends |
| `requests` | 2 requests of 2 images, 2 checks, 2 tokens | `OneOcrAtATime`, `EveryWaiterQueued`, `PoolKeepsBusy`, `ItemsMatchImages`; every request and every check is answered |
| `engine_readiness` | 2 checks, any number of loads | `LoadedMeansReady`, `RefusalIsHonest`, `LateCheckSucceeds`, `ReadyIsFinal`, checks are answered |
| `limiter_grants` | 3 threads, intervals of 0 to 3 ticks | grants are spaced, the lock is always released |
| `sessions` | 2 instances, 4 tokens, 4 settings of secrets, clocks 1 apart, life times 3 and 4 | `SessionEnds`, `NoEarlyRefusal` |

Four runs end with a counterexample on purpose; each shows a place where the code does not do
what a doc, a comment or a test says (details in `PROJECT.json`, findings):

| run | statement | what happens |
|---|---|---|
| `service_never_fails` | `analysis/service.py:36`, "the request never fails completely" | JSON nested too deep raises `RecursionError` through `analyze`, past retries and fallback, and the whole batch is lost with it; so does a price of `1e999`, and a Kakao connection that breaks off after both stages succeeded |
| `group_ids` | `analysis/categories/restaurant.py:110`, "the same neighbourhood always uses the same group id" | the LLM's neighbourhood is normalised, Kakao's is not: two places of one neighbourhood end in two groups |
| `hard_never_restored` | `privacy.py:9`, hard PII is never restored | the NER runs before the hard rules; a card number inside one of its spans is put into the mapping and restored |
| `engine_torn_answer` | `tests/test_health_and_ocr.py:67`, 200 comes with `ocrReady` | a check that overlaps the end of a load answers 200, `status` "starting", `ocrReady` false |

More disagreements can be read off the models and have no run of their own:
`RejectGroup` sends the same texts to the LLM again (`analysis/batch.py:23` says once per group;
`ReanalysisReplaces` bounds it to twice); `ClassifyFallback` and `ExtractNothing` give up on an
invalid object with attempts left (`analysis/service.py:34` says validation is retried); and
`AnalyzeSource` delivers the raw list of places when the answer for a single screenshot is
rejected, too (`analysis/categories/restaurant.py:125` says every entry becomes a memo). A card, identity
or phone number with a particle next to it is masked by no rule, reaches the LLM whole and comes back
(the repository's `README.md:420` says that such numbers are masked before the call, some for good):
`SentWholeOnlyWithParticle` and `HardStaysHidden` say that nothing but this gets through. And a title may
be delivered with a placeholder left in it, whole, in pieces or in lower case, although
`restore_in_response` sets out to restore it (`analysis/service.py:217`); `RestoredToItsOwner` says that it is
never taken for somebody else's.

Every property of a passing run is also tried against a seeded fault of the code (the
operators marked so in the modules), and TLC finds it violated then.

### Bounds

Named constants: `MaxItems`, `MaxSoft`, `MaxRestaurants`, `Topics` (batch, grouping; `Unrestored`, `NoTopic`, `NoDetails` and the like stand for no value of theirs); `Sources`,
`MaxRetries`, `MaxRestaurants`, `Neighborhoods` (service); `MaxCells`, `MaxSpans`
(privacy); `NumImages`, `PoolSize`, `Requests`, `Checks` (endpoint); `Threads`, `MaxMin`
(limiter); `Instances`, `Secrets`, `Settings`, `AccessTTL`, `RefreshTTL`, `Skew`, `MaxTime`,
`MaxTokens` (sessions).

- *Batch.* Three items give a group of two beside a single one, a rejected group before
  another, and a group of three; two places per answer give buckets of one and of two and
  references that are missing, invalid or repeated. The proofs drop these bounds.
- *Service.* Two retries, the default of the settings, reach all steps of the backoff except
  its cap. Two places suffice for a look-up after another. The service passes source
  references on untouched, so that run has none but the one that does not exist
  (`Sources = 0`). One neighbourhood in its two spellings is all that groups tell apart.
- *Privacy.* Five cells are two pieces of PII of two cells each, of one label or of two, and a word or a particle
  before, between or behind them, or one piece with particles on both sides. With two spans this gives a span across
  two pieces, two spans in one piece, a cut at either end, and a span that takes a particle away from
  a number. The proofs drop these bounds.
- *Grouping.* Five items are the least for which path halving skips a node and a tree of
  three is joined to one of two.
- *Endpoint.* Two requests and two checks keep both lines occupied: a request that holds the
  semaphore waits for a token while another waits for the semaphore. Longer lines are covered
  by the proofs.
- *Sessions.* A token is in the middle of its life, where `NoEarlyRefusal` has something to say, when it is at
  least `Skew` old and has more than `Skew` to go: with clocks 1 apart that takes an access token of
  3 ticks and leaves it the age 1 (a refresh token of 4 the ages 1 and 2). Four tokens are a sign-in with two
  refreshes, on any instances, which is what it takes for a session that renews itself (a token of the wrong kind
  accepted) to outlive its end, and `MaxTime` is that end. The secrets are one for both kinds, one of them
  missing, and the access secret changed. The proofs drop these bounds.

The LLM's other categories and topics are represented by one value each, which no code tells
apart.

### Fairness

- `BatchAnalyzer`, `AnalysisService`, `Grouping`: weak fairness of the steps of the code. They
  run in a pool thread of their own, all provider calls have timeouts and retries are
  counted. Nothing is assumed about exceptions: they may or may not happen.
- `AnalyzeRequests`: weak fairness per request and per check. The event loop runs every
  coroutine that is ready; OCR and batches end. Clients need not send anything. Weak
  fairness is enough because both lines are first come, first served.
- `OcrEngine`: loads end, pool threads run; no request and no check has to come.
- `RateLimiter`: time passes and a sleeping thread wakes up. That a given thread ever gets
  the lock is *not* claimed: the lock is not fair.
- `Privacy` and `Sessions` state no fairness: nobody has to send a request, and masking has no
  loop but those over finite lists.

Deadlock is checked in every run except `requests`, where `RequestsAnswered` and `ChecksAnswered`
say more: nobody is stuck for ever. The code's regular ends are explicit stuttering actions (`Finished`, `Ended`, `AllAnswered`).

## What is proved

TLAPS proves the following for every value of the constants that satisfies the named
assumptions (the bounds are natural numbers, the "nobody" and "nothing" values are not actors, neighbourhoods or details).

*BatchAnalyzer_proofs.* The safety properties of the batch, for any number of items, PII
pieces, topics and places. They are not inductive: that no item is lost at the end needs to
know what the two loops have been through in the middle. `BatchInv` says it: the masking and
the grouping are in place (`Masked`, `GroupsPartition`), an item is listed exactly when the
loops are through with it (`VisitedIsListed`), how often its text was analysed by then
(`AnalysesSoFar`), and every memo is written from the sources it was shown (`WrittenFrom`).
The argument has three layers: lemmas about positions (a reference `S<k>` names exactly one
member of its group, `PositionIsOnto`, `PositionIsMonotone`), about restoring
(`MergedMappingRestores`: no placeholder has two owners, so no update overwrites another; a title is
restored from the same mapping or not at all) and
about accounting (`SplitAccounts`: covered references mean covered members); then `GroupPass`
and `SourcePass` for one pass of either loop; then one lemma per action. `PromiseIsKept`
shows that every step is a step of `BatchPromise` or leaves it alone.

*AnalyzeRequests_proofs.* Mutual exclusion of OCR, no leak of the semaphore and no lost
waiter, and the alignment of items with images and metadata, for any number of requests,
checks, images and tokens. `RequestInv` adds to these what makes them inductive: the line
for the semaphore names nobody twice (`LineIsInjective`; else a release could hand the
semaphore to a request that still stands in line), where a request is in its upload
(`Progress`: it has settled one image less than the one at hand) and what its items have to
do with the images settled so far (`ItemsSoFar`). None of these depends on how the pool
schedules. `PoolIsKeptBusy` is about the pool itself, from an invariant of its own (`PoolInv`):
the jobs submitted and not ended are those running and those in line, nobody stands in line
twice or while running (`JobWaitsOnce`; else the end of one job would lose another), and the
tokens taken are counted by a cardinality, which a hand-over leaves as it is.

*OcrEngine_proofs.* What a health check answers, for any number of checks at any moments of any
number of loads; and, as an action property, that readiness is final. A check reads the globals
one after the other while a load changes them, so nothing relates its body to a single state.
`EngineInv` says what the fields read so far allow: what a check has seen ready is ready still
(`SeenIsReady`), which fields may be set by the read it has got to and that one read later never
denies one read earlier (`AnswerSoFar`), that a check which came once the service was ready has
seen nothing but that (`LateSoFar`), and that no check shows an error it has not copied yet
(`NoErrorYet`). `LoopFits` says where the load itself stands.

*Grouping_proofs.* The groups are the connected components, for any number of items and any
similarity, and the forest is exact at every pointer step. Paths would need an induction for
every step; `GroupingInv` speaks of closed sets instead. Two items are connected if no set that
is closed under the edges has one of them only. The forest and the pairs compared so far close the same
sets (`SameClosed`), and every set of items that one cannot leave by going up has a root
(`Grounded`: there is no cycle). Path halving moves an item to its grandparent, which closes the
same sets (`HalveKeepsForest`); a union closes those that the pair at hand closes, too
(`UnionKeepsForest`). `RootsApart` shows that a tree has no second root. `GatheredSoFar` carries
the order: a group for each root met, its members ascending, the groups by their first items.

*Privacy_proofs.* Masking and restoring, for texts of any length with any PII in them, any spans
of the NER, and any placeholders the LLM drops. The heart of `PrivacyInv` is `Tiles`: each cell
of the masked text stands for a stretch of the text, and the stretches follow one another. A cell
is one of the text, the placeholder of a span, or that of a match outside all spans. Replacing a span or a match joins the tiles it covers
(`Retiled`), which is why the order from right to left matters: `AsRead` says how much of the text in front
has not moved, so that the next span is still where the NER found it. `MappingFits` says that placeholders
are told apart by their counters and that nothing hard is stored but what a span took in;
`RulesDone`, that a rule the loop is through with matches nowhere (`NoNewMatch`: a placeholder
never makes two halves meet that were apart, nor takes a particle away from a number); `AnswerSoFar`, that after n rounds of restoring each
copied cell reads as the first n entries of the mapping make it. `RestoredExactly` compares this with
the reference reading of the text: the heads of the tiles are the reference's heads
(`HeadsOfTiles`), and each tile reads as the reference says (`ReadsOfTiles`).

`FlattenSeq`, by which restoring is defined, is recursive in the length of a sequence. What it
computes is proved by induction over sets rather than by the library's induction rules, which take
an operator: a set of numbers with 0 and every successor has them all (`NatSets`, from the
well-foundedness of < on the naturals), a set of sequences with the empty one and every extension
has them all (`SeqSets`). From these follow what it makes of one more sequence
(`FlattenProperties`), that replacing every element of a sequence goes through concatenation and flattening
(`MappedConcat`, `MappedFlatten`), and that picking the elements of an increasing sequence in
order gives the sequence (`SelectIncreasing`).

*RateLimiter_proofs.* `LimiterInv`: only the holder of the lock sleeps, and what is left of
its wait plus what has elapsed is at least the interval. It gives `GrantsSpaced`.

*Sessions_proofs.* The two properties of a session, for any number of instances, secrets, life
times and any skew. `SessionsInv` adds `TokensFit`: how the times of a token fit each other and
the times of its issue and its sign-in by the slowest clock. That an access token ends with its session needs
the refresh that bought it to have been checked by the clock that stamps it, whichever that is;
refreshing again adds nothing, since a refresh token is bought by a sign-in only.

*AnalysisService_proofs.* One call of the service, for any number of retries, sources, places and
neighbourhoods: types, the budget, who may raise and over what, which places are trusted. `ServiceInv` adds what
the loops are in the middle of: which stage may run for which text (`StagesFit`), that entries come
one by one and each is vetted when it is through (`PlacesSoFar`), and what was spent by the attempt
at hand (`SpentSoFar`: attempt - 1 requests, and the pauses before them; stage 2 comes on top of
stage 1). The pauses 1, 2, 4, 4, ... are summed by the closed form `PauseTotal`, which
`PausesAddUp` shows to grow by exactly the next pause. `SearchInv` counts a look-up's requests by
query and scope. `ContractIsKept` shows that every step is one of `AnalysisContract` or leaves it alone.

Every safety property of a passing run is thus proved, action properties and the steps of both refinements
included. Only model-checked: liveness (`WF_` and ENABLED are beyond the prover's backends) and with it the
fair part of `KeepsPromise` and `KeepsContract`. Shown by neither: the composition of the
components, which "How they fit together" argues for.

## What is not modelled

- The wording and length of titles (only whether a placeholder in one is restored), summaries, dates, confidence values, memo ids, the merged details of comparisons,
  prompts, logging: data no property is about. A few oddities of memo ids are
  listed among the hazards in `PROJECT.json`, with the reason why no property covers them.
- The patterns of the masking rules (all but the word boundaries at their ends) and their overlaps: a piece of PII has one label.
- The validators of the detail models of the other categories: pure functions on single fields.
- PaddleOCR, the providers' clients and their payloads: adversaries that answer or fail.
- Google's check of an ID token, the claims of a user: `SignIn` lets Google say yes or no.
- Configuration, scripts, and the deployment workflow, whose order is GitHub's and ECS's.

## Plan

Order: what the client sees first, then what is shared, then the periphery.

1. Done: `BatchAnalyzer` with its promise, `AnalysisService` with its contract, `KakaoLocal`,
   `AnalyzeRequests`, `OcrEngine`, `RateLimiter`, `Grouping`, `Privacy`, `Sessions`, each with proofs.
2. Next proofs: that the groups of `Grouping` are a partition `BatchAnalyzer!GroupBySimilarity`
   allows for, so that the two compose.
3. Next modules: memo ids and merged comparisons as data of `BatchAnalyzer`, and the filtering
   of OCR lines by confidence.
