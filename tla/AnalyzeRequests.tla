----------------------------- MODULE AnalyzeRequests -----------------------------
(***************************************************************************)
(* app/main.py: POST /v1/analyze and the health checks as they share one   *)
(* process.  A request is a coroutine of the event loop; what blocks goes  *)
(* to the thread pool: the auth dependency, the OCR of one image at a time *)
(* (a process-wide semaphore is held meanwhile) and the batch.  Health     *)
(* checks are plain functions, so they run in the same pool.  Every action *)
(* is one uninterrupted stretch of a coroutine, up to its next await, or   *)
(* the end of a job in a pool thread.                                      *)
(***************************************************************************)
EXTENDS Integers, Sequences, FiniteSets, Functions

CONSTANTS
    Requests,      \* analyze requests
    Checks,        \* health checks
    None,          \* nobody
    NumImages,     \* images of every request (at least one, File() is required)
    PoolSize       \* tokens of the thread pool's limiter

ASSUME ActorsAssumption == Requests \cap Checks = {} /\ None \notin Requests \cup Checks
ASSUME SizesAssumption == NumImages \in Nat \ {0} /\ PoolSize \in Nat \ {0}

Actors == Requests \cup Checks

VARIABLES
    pc,          \* where every coroutine stands
    running,     \* the actors whose job occupies a pool thread
    waiting,     \* those whose job waits for a token, first come first served
    holder,      \* who holds _ocr_semaphore
    acquiring,   \* who waits for it, first come first served
    engine,      \* _ocr_engine is loaded
    image,       \* the image a request is working on, from 1
    meta,        \* the indices at which meta holds a dict
    fate,        \* history: what became of the images so far
    items,       \* the items collected for the batch
    status       \* the HTTP status a request was answered with, 0 before

vars == <<pc, running, waiting, holder, acquiring, engine, image, meta, fate, items, status>>

pool == <<running, waiting>>
semaphore == <<holder, acquiring>>
local == <<image, meta, fate, items>>

(* An image that cannot be read or decoded, or has too little text, is skipped. *)
Fates == {"skipped", "text"}
-----------------------------------------------------------------------------
(* The thread pool: run_in_threadpool takes a token or waits for one. *)

Submit(a) ==
    IF Cardinality(running) < PoolSize
    THEN running' = running \cup {a} /\ waiting' = waiting
    ELSE running' = running /\ waiting' = Append(waiting, a)

(* Seeded fault: a token is given back, but not to the first in line. *)
JobEndsSilently(a) ==
    /\ a \in running
    /\ running' = running \ {a} /\ waiting' = waiting

(* The job of a ends; its token goes to the first in line. *)
JobEnds(a) ==
    /\ a \in running
    /\ IF waiting = <<>>
       THEN running' = running \ {a} /\ waiting' = waiting
       ELSE running' = (running \ {a}) \cup {Head(waiting)} /\ waiting' = Tail(waiting)

Init ==
    /\ pc = [a \in Actors |-> "new"]
    /\ running = {} /\ waiting = <<>>
    /\ holder = None /\ acquiring = <<>>
    /\ engine \in BOOLEAN
    /\ image = [r \in Requests |-> 1]
    /\ meta = [r \in Requests |-> {}]
    /\ fate = [r \in Requests |-> <<>>]
    /\ items = [r \in Requests |-> <<>>]
    /\ status = [r \in Requests |-> 0]

AnsweredWith(r, code) ==
    /\ pc' = [pc EXCEPT ![r] = "done"]
    /\ status' = [status EXCEPT ![r] = code]

(* The request arrives: _require_user is a plain function, it goes to the pool. *)
Arrive(r) ==
    /\ pc[r] = "new"
    /\ Submit(r)
    /\ pc' = [pc EXCEPT ![r] = "auth"]
    /\ UNCHANGED <<semaphore, engine, local, status>>

(* get_current_user accepts the token, or answers 401, or 500 without a secret. *)
AuthEnds(r) ==
    /\ pc[r] = "auth" /\ JobEnds(r)
    /\ \/ AnsweredWith(r, 401)
       \/ pc' = [pc EXCEPT ![r] = "body"] /\ status' = status
    /\ UNCHANGED <<semaphore, engine, local>>

(* The head of analyze: metadata that is no JSON is answered with 400, an
   engine that cannot be loaded with 503.  The load blocks the event loop.   *)
EnterBody(r) ==
    /\ pc[r] = "body"
    /\ \/ AnsweredWith(r, 400) /\ UNCHANGED <<engine, meta>>
       \/ ~ engine /\ AnsweredWith(r, 503) /\ UNCHANGED <<engine, meta>>
       \/ /\ engine' = TRUE
          /\ \E known \in SUBSET (1 .. NumImages) : meta' = [meta EXCEPT ![r] = known]
          /\ pc' = [pc EXCEPT ![r] = "read"]
          /\ status' = status
    /\ UNCHANGED <<pool, semaphore, image, fate, items>>

(* Seeded fault: the loop runs once too often. *)
NextImageOffByOne(r) ==
    /\ image' = [image EXCEPT ![r] = @ + 1]
    /\ IF image[r] <= NumImages
       THEN pc' = [pc EXCEPT ![r] = "read"] /\ UNCHANGED pool
       ELSE pc' = [pc EXCEPT ![r] = "batch"] /\ Submit(r)

(* The loop over images moves on: to the next image, or, after the last, to the
   batch, which is submitted to the pool.                                      *)
NextImage(r) ==
    /\ image' = [image EXCEPT ![r] = @ + 1]
    /\ IF image[r] < NumImages
       THEN pc' = [pc EXCEPT ![r] = "read"] /\ UNCHANGED pool
       ELSE pc' = [pc EXCEPT ![r] = "batch"] /\ Submit(r)

Suffers(r, what) == fate' = [fate EXCEPT ![r] = Append(@, what)]

(* image.read() raises: the image is skipped. *)
ReadFails(r) ==
    /\ pc[r] = "read"
    /\ Suffers(r, "skipped")
    /\ NextImage(r)
    /\ UNCHANGED <<semaphore, engine, meta, items, status>>

(* More than MAX_IMAGE_BYTES: the whole request is refused. *)
ReadTooLarge(r) ==
    /\ pc[r] = "read"
    /\ AnsweredWith(r, 413)
    /\ UNCHANGED <<pool, semaphore, engine, local>>

(* The image is read and _extract_text enters the semaphore, or waits for it. *)
ReadEnds(r) ==
    /\ pc[r] = "read"
    /\ IF holder = None
       THEN /\ holder' = r /\ acquiring' = acquiring
            /\ pc' = [pc EXCEPT ![r] = "ocr"]
            /\ Submit(r)
       ELSE /\ holder' = holder /\ acquiring' = Append(acquiring, r)
            /\ pc' = [pc EXCEPT ![r] = "acquire"]
            /\ UNCHANGED pool
    /\ UNCHANGED <<engine, local, status>>

(* The pool thread is through with the image; the coroutine is not yet back. *)
OcrEnds(r) ==
    /\ pc[r] = "ocr" /\ JobEnds(r)
    /\ pc' = [pc EXCEPT ![r] = "scanned"]
    /\ UNCHANGED <<semaphore, engine, local, status>>

(* Seeded fault: the semaphore is released, but no waiter is woken. *)
ReleaseSilently == holder' = None /\ acquiring' = acquiring

(* Leaving "async with _ocr_semaphore": the first waiter becomes the holder. *)
Release ==
    IF acquiring = <<>>
    THEN holder' = None /\ acquiring' = acquiring
    ELSE holder' = Head(acquiring) /\ acquiring' = Tail(acquiring)

(* Seeded fault: the entry is looked up by the position in items. *)
EntryOfPosition(r) == IF Len(items[r]) + 1 \in meta[r] THEN Len(items[r]) + 1 ELSE 0

(* metadata belongs to an image by its index. *)
Entry(r) == IF image[r] \in meta[r] THEN image[r] ELSE 0
Item(r) == [image |-> image[r], entry |-> Entry(r)]

(* The coroutine is back from OCR: it leaves the semaphore, skips the image if
   OCR raised or found fewer than MIN_USEFUL_CHARS, and else adds an item.     *)
OcrResumes(r) ==
    /\ pc[r] = "scanned"
    /\ Release
    /\ \/ Suffers(r, "skipped") /\ items' = items
       \/ Suffers(r, "text") /\ items' = [items EXCEPT ![r] = Append(@, Item(r))]
    /\ NextImage(r)
    /\ UNCHANGED <<engine, meta, status>>

(* Seeded fault: an early answer keeps the semaphore. *)
ItemInvalidLeaking(r) ==
    /\ pc[r] = "scanned" /\ Entry(r) # 0
    /\ AnsweredWith(r, 500)
    /\ UNCHANGED <<pool, semaphore, engine, local>>

(* ... or the entry of the image does not fit AnalyzeBatchItem: the
   ValidationError is not handled, the request is answered with 500.           *)
ItemInvalid(r) ==
    /\ pc[r] = "scanned" /\ Entry(r) # 0
    /\ Release
    /\ AnsweredWith(r, 500)
    /\ UNCHANGED <<pool, engine, local>>

(* The semaphore was handed over: the waiter's coroutine submits its image. *)
AcquireEnds(r) ==
    /\ pc[r] = "acquire" /\ holder = r
    /\ pc' = [pc EXCEPT ![r] = "ocr"]
    /\ Submit(r)
    /\ UNCHANGED <<semaphore, engine, local, status>>

(* The batch delivers (BatchPromise!Deliver) or fails (BatchPromise!Fail). *)
BatchEnds(r) ==
    /\ pc[r] = "batch" /\ JobEnds(r)
    /\ \E code \in {200, 500} : AnsweredWith(r, code)
    /\ UNCHANGED <<semaphore, engine, local>>

(* A health check: a job of the pool, too. *)
CheckArrives(h) ==
    /\ pc[h] = "new"
    /\ Submit(h)
    /\ pc' = [pc EXCEPT ![h] = "check"]
    /\ UNCHANGED <<semaphore, engine, local, status>>

CheckEnds(h) ==
    /\ pc[h] = "check" /\ JobEnds(h)
    /\ pc' = [pc EXCEPT ![h] = "done"]
    /\ UNCHANGED <<semaphore, engine, local, status>>

(* The stretches of a request after its arrival. *)
Step(r) ==
    \/ AuthEnds(r) \/ EnterBody(r)
    \/ ReadFails(r) \/ ReadTooLarge(r) \/ ReadEnds(r)
    \/ AcquireEnds(r) \/ OcrEnds(r) \/ OcrResumes(r) \/ ItemInvalid(r)
    \/ BatchEnds(r)

AllAnswered == (\A a \in Actors : pc[a] = "done") /\ UNCHANGED vars

Next ==
    \/ \E r \in Requests : Arrive(r) \/ Step(r)
    \/ \E h \in Checks : CheckArrives(h) \/ CheckEnds(h)
    \/ AllAnswered

Spec == Init /\ [][Next]_vars

(* The event loop runs every coroutine that is ready and every pool job ends
   (BatchPromise, and an OCR run that returns); clients need not send anything. *)
FairSpec ==
    /\ Spec
    /\ \A r \in Requests : WF_vars(Step(r))
    /\ \A h \in Checks : WF_vars(CheckEnds(h))
-----------------------------------------------------------------------------
(* The actors that have a job in the pool, running or waiting. *)
Jobs == {a \in Actors : pc[a] \in {"auth", "ocr", "batch", "check"}}
Stages == {"new", "auth", "body", "read", "acquire", "ocr", "scanned", "batch", "check", "done"}

(* Every variable has its type. *)
TypeOK ==
    /\ pc \in [Actors -> Stages]
    /\ running \in SUBSET Actors /\ waiting \in Seq(Actors)
    /\ holder \in Requests \cup {None} /\ acquiring \in Seq(Requests)
    /\ engine \in BOOLEAN
    /\ image \in [Requests -> 1 .. NumImages + 1]
    /\ meta \in [Requests -> SUBSET (1 .. NumImages)]
    /\ fate \in [Requests -> Seq(Fates)]
    /\ items \in [Requests -> Seq([image : 1 .. NumImages, entry : 0 .. NumImages])]
    /\ status \in [Requests -> {0, 200, 400, 401, 413, 500, 503}]

(* The engine is never asked for two images at once, and the semaphore is never
   leaked: whoever holds it is the request whose image is with the engine, or is
   about to be.  A request answered early (413, 500) does not keep it.          *)
OneOcrAtATime ==
    /\ \A r \in Requests : pc[r] \in {"ocr", "scanned"} => holder = r
    /\ holder # None => pc[holder] \in {"acquire", "ocr", "scanned"}

(* Nobody is forgotten: every request that waits for the semaphore is in line, or
   has been handed it, and there is a line only behind a holder.                *)
EveryWaiterQueued ==
    /\ \A r \in Requests : pc[r] = "acquire" => r \in Range(acquiring) \cup {holder}
    /\ \A r \in Range(acquiring) : pc[r] = "acquire" /\ r # holder
    /\ acquiring # <<>> => holder # None

(* The pool holds exactly the jobs that were submitted and have not ended, never
   more than PoolSize at once, and no job waits while a token is free.          *)
PoolKeepsBusy ==
    /\ Jobs = running \cup Range(waiting)
    /\ running \cap Range(waiting) = {}
    /\ Cardinality(running) <= PoolSize
    /\ waiting # <<>> => Cardinality(running) = PoolSize

(* What the batch is given: one item for every image with enough text and for no
   other, in the order of the upload, each with the metadata entry of its own
   image, however many images before it were skipped.                          *)
ItemsMatchImages ==
    \A r \in Requests :
        /\ {items[r][k].image : k \in DOMAIN items[r]} = {i \in DOMAIN fate[r] : fate[r][i] = "text"}
        /\ \A k, l \in DOMAIN items[r] : k < l => items[r][k].image < items[r][l].image
        /\ \A k \in DOMAIN items[r] :
              items[r][k].entry = IF items[r][k].image \in meta[r] THEN items[r][k].image ELSE 0
        /\ pc[r] = "batch" \/ status[r] = 200 => Len(fate[r]) = NumImages

(* Every request that arrives is answered: the semaphore is held across a wait
   for the pool, the pool is full of OCR's clients, and still all go on.        *)
RequestsAnswered == \A r \in Requests : pc[r] = "auth" ~> pc[r] = "done"

(* A health check is answered although it needs a token of the same pool. *)
ChecksAnswered == \A h \in Checks : pc[h] = "check" ~> pc[h] = "done"
-----------------------------------------------------------------------------
(* The inductive invariant behind the safety properties. *)

(* The line for the semaphore names nobody twice. *)
LineIsInjective ==
    \A k, l \in DOMAIN acquiring : acquiring[k] = acquiring[l] => k = l

SemaphoreInv == OneOcrAtATime /\ EveryWaiterQueued /\ LineIsInjective

(* A job waits for a token of the pool once, and the pool is finite. *)
JobWaitsOnce ==
    \A k, l \in DOMAIN waiting : waiting[k] = waiting[l] => k = l

PoolInv == PoolKeepsBusy /\ JobWaitsOnce /\ IsFiniteSet(running)

(* Where a request stands in the upload. *)
Progress(r) ==
    /\ Len(fate[r]) = image[r] - 1
    /\ pc[r] \in {"new", "auth", "body"} => image[r] = 1 /\ items[r] = <<>>
    /\ pc[r] \in {"read", "acquire", "ocr", "scanned"} => image[r] <= NumImages
    /\ pc[r] = "batch" \/ status[r] = 200 => image[r] = NumImages + 1
    /\ status[r] # 0 => pc[r] = "done"

(* What the items collected so far have to do with the images so far. *)
ItemsSoFar(r) ==
    /\ \A i \in 1 .. Len(fate[r]) :
          fate[r][i] = "text" <=> \E k \in 1 .. Len(items[r]) : items[r][k].image = i
    /\ \A k \in 1 .. Len(items[r]) :
          /\ items[r][k].image < image[r]
          /\ items[r][k].entry = IF items[r][k].image \in meta[r] THEN items[r][k].image ELSE 0
    /\ \A k, l \in 1 .. Len(items[r]) : k < l => items[r][k].image < items[r][l].image

(* The semaphore and the line behind it fit what the requests are doing, and so do
   the items of every request.                                                    *)
RequestInv ==
    /\ TypeOK
    /\ SemaphoreInv
    /\ \A r \in Requests : Progress(r) /\ ItemsSoFar(r)
=============================================================================
