------------------------------- MODULE OcrEngine -------------------------------
(***************************************************************************)
(* app/main.py: the lazily built OCR engine and the readiness check.  The  *)
(* startup hook may load the engine before the server takes requests;      *)
(* afterwards every analyze request finds it or tries again to load it, on *)
(* the event loop, while readiness checks read the two globals, without a  *)
(* lock, in threads of the pool.  _ocr_engine_lock does not appear: the    *)
(* startup hook is awaited and the event loop is one thread, so that no    *)
(* two calls of _get_ocr_engine ever overlap.                              *)
(***************************************************************************)
EXTENDS Integers

CONSTANT Checks    \* calls of GET /health/ready

VARIABLES
    loop,       \* what the event loop does
    engine,     \* _ocr_engine is not None
    error,      \* _ocr_load_error is not None
    pc,         \* the next read of every check
    body,       \* the answer it puts together
    code,       \* its HTTP status, 0 before
    late        \* history: the check came when the service was ready

vars == <<loop, engine, error, pc, body, code, late>>
globals == <<loop, engine, error>>

(* _ocr_ready(): engine never becomes None again, so that its two reads amount to
   one at the moment of the last.                                               *)
Ready == engine /\ ~ error

Fields == {"ok", "ocrReady", "ocrLoadError"}

Init ==
    /\ loop = "startup"
    /\ engine = FALSE /\ error = FALSE
    /\ pc = [c \in Checks |-> "new"]
    /\ body = [c \in Checks |-> [f \in Fields |-> FALSE]]
    /\ code = [c \in Checks |-> 0]
    /\ late = [c \in Checks |-> FALSE]

(* The startup hook without OCR_WARMUP_ON_STARTUP, or with it.  A failed load is
   swallowed.                                                                   *)
Startup ==
    /\ loop = "startup" /\ loop' = "serving"
    /\ \/ UNCHANGED <<engine, error>>
       \/ engine' = TRUE /\ error' = FALSE
       \/ engine' = FALSE /\ error' = TRUE
    /\ UNCHANGED <<pc, body, code, late>>

(* An analyze request calls _get_ocr_engine: it is there, or it is built. *)
FindEngine ==
    /\ loop = "serving" /\ engine
    /\ UNCHANGED vars

(* Seeded fault: the engine is loaded again although it is there. *)
LoadEngineAgain ==
    /\ loop = "serving"
    /\ loop' = "loading"
    /\ UNCHANGED <<engine, error, pc, body, code, late>>

LoadEngine ==
    /\ loop = "serving" /\ ~ engine
    /\ loop' = "loading"
    /\ UNCHANGED <<engine, error, pc, body, code, late>>

(* Seeded fault: the exception of a load is not caught and ends the event loop. *)
LoadFailsUncaught ==
    /\ loop = "loading" /\ loop' = "crashed"
    /\ error' = TRUE
    /\ UNCHANGED <<engine, pc, body, code, late>>

LoadFails ==
    /\ loop = "loading" /\ loop' = "serving"
    /\ error' = TRUE
    /\ UNCHANGED <<engine, pc, body, code, late>>

(* The engine is assigned first, the error of an earlier attempt cleared next. *)
EngineLoaded ==
    /\ loop = "loading" /\ loop' = "loaded"
    /\ engine' = TRUE
    /\ UNCHANGED <<error, pc, body, code, late>>

(* Seeded fault: the error of an earlier attempt stays. *)
ErrorStays ==
    /\ loop = "loaded" /\ loop' = "serving"
    /\ UNCHANGED <<engine, error, pc, body, code, late>>

ClearError ==
    /\ loop = "loaded" /\ loop' = "serving"
    /\ error' = FALSE
    /\ UNCHANGED <<engine, pc, body, code, late>>

Reads(c, here, there) == pc[c] = here /\ pc' = [pc EXCEPT ![c] = there]
Write(c, field, value) == body' = [body EXCEPT ![c][field] = value]

(* The event loop hands the check to a thread. *)
CheckArrives(c) ==
    /\ loop = "serving"
    /\ Reads(c, "new", "status")
    /\ late' = [late EXCEPT ![c] = Ready]
    /\ UNCHANGED <<globals, body, code>>

ReadStatus(c) ==
    /\ Reads(c, "status", "ready")
    /\ Write(c, "ok", Ready)
    /\ UNCHANGED <<globals, code, late>>

ReadReady(c) ==
    /\ Reads(c, "ready", "error")
    /\ Write(c, "ocrReady", Ready)
    /\ UNCHANGED <<globals, code, late>>

(* Seeded fault: the check waits until the engine is ready. *)
TestErrorWhenReady(c) ==
    /\ Ready
    /\ Reads(c, "error", IF error THEN "copy" ELSE "code")
    /\ UNCHANGED <<globals, body, code, late>>

TestError(c) ==
    /\ Reads(c, "error", IF error THEN "copy" ELSE "code")
    /\ UNCHANGED <<globals, body, code, late>>

CopyError(c) ==
    /\ Reads(c, "copy", "code")
    /\ Write(c, "ocrLoadError", error)    \* cleared meanwhile: null is shown
    /\ UNCHANGED <<globals, code, late>>

Answer(c) ==
    /\ Reads(c, "code", "done")
    /\ code' = [code EXCEPT ![c] = IF Ready THEN 200 ELSE 503]
    /\ UNCHANGED <<globals, body, late>>

CheckStep(c) == ReadStatus(c) \/ ReadReady(c) \/ TestError(c) \/ CopyError(c) \/ Answer(c)

LoopStep == Startup \/ LoadFails \/ EngineLoaded \/ ClearError

Next ==
    \/ LoopStep \/ FindEngine \/ LoadEngine
    \/ \E c \in Checks : CheckArrives(c) \/ CheckStep(c)

Spec == Init /\ [][Next]_vars

(* Loads end and the pool's threads run; requests and checks need not come. *)
FairSpec == Spec /\ WF_vars(LoopStep) /\ \A c \in Checks : WF_vars(CheckStep(c))
-----------------------------------------------------------------------------
(* Every variable has its type. *)
TypeOK ==
    /\ loop \in {"startup", "serving", "loading", "loaded"}
    /\ engine \in BOOLEAN /\ error \in BOOLEAN
    /\ pc \in [Checks -> {"new", "status", "ready", "error", "copy", "code", "done"}]
    /\ body \in [Checks -> [Fields -> BOOLEAN]]
    /\ code \in [Checks -> {0, 200, 503}]
    /\ late \in [Checks -> BOOLEAN]

(* Between requests a loaded engine is a ready service: the error of an earlier
   attempt (a failed warm-up) does not keep it unready for ever.               *)
LoadedMeansReady == loop = "serving" /\ engine => Ready

(* A 503 never says "ok" or ocrReady, and a body never says "ok" while it denies
   ocrReady, although the fields are read at different moments.                *)
RefusalIsHonest ==
    \A c \in Checks : pc[c] = "done" =>
        /\ code[c] = 503 => ~ body[c]["ok"] /\ ~ body[c]["ocrReady"]
        /\ body[c]["ok"] => body[c]["ocrReady"]

(* A check that comes after the service became ready is answered with 200, all
   fields agreeing and no load error.                                          *)
LateCheckSucceeds ==
    \A c \in Checks : late[c] /\ pc[c] = "done" =>
        /\ code[c] = 200
        /\ body[c] = [f \in Fields |-> f # "ocrLoadError"]

(* Readiness is final: no later request can make the service unready. *)
ReadyIsFinal == [][Ready => Ready']_vars

(* Every check that reached its thread is answered. *)
ChecksAnswered == \A c \in Checks : pc[c] = "status" ~> pc[c] = "done"

(* tests/test_health_and_ocr.py:67-68: a 200 comes with ocrReady. *)
OkSaysReady == \A c \in Checks : code[c] = 200 => body[c]["ocrReady"]-----------------------------------------------------------------------------
(* The inductive invariant behind the safety properties. *)

(* What the event loop is at tells about the engine. *)
LoopFits ==
    /\ loop = "startup" => ~ engine /\ ~ error /\ \A c \in Checks : pc[c] = "new"
    /\ loop = "loading" => ~ engine
    /\ loop = "loaded" => engine

(* Whatever a check has seen to be ready is ready still. *)
SeenIsReady(c) ==
    body[c]["ok"] \/ body[c]["ocrReady"] \/ code[c] = 200 \/ late[c] => Ready

(* How far a check has got with its answer. *)
AnswerSoFar(c) ==
    /\ code[c] # 0 <=> pc[c] = "done"
    /\ pc[c] \in {"new", "status"} => ~ body[c]["ok"]
    /\ pc[c] \in {"new", "status", "ready"} => ~ body[c]["ocrReady"]
    /\ pc[c] \notin {"new", "status", "ready"} => (body[c]["ok"] => body[c]["ocrReady"])
    /\ code[c] = 503 => ~ body[c]["ok"] /\ ~ body[c]["ocrReady"]

(* A late check sees nothing but a ready service. *)
LateSoFar(c) ==
    late[c] =>
        /\ pc[c] \notin {"new", "copy"} /\ code[c] # 503 /\ ~ body[c]["ocrLoadError"]
        /\ pc[c] # "status" => body[c]["ok"]
        /\ pc[c] \notin {"status", "ready"} => body[c]["ocrReady"]

(* A check that has not come to its copy of the error shows none. *)
NoErrorYet(c) ==
    pc[c] \in {"new", "status", "ready", "error", "copy"} => ~ body[c]["ocrLoadError"]

EngineInv ==
    /\ TypeOK
    /\ LoadedMeansReady
    /\ LoopFits
    /\ \A c \in Checks : SeenIsReady(c) /\ AnswerSoFar(c) /\ LateSoFar(c) /\ NoErrorYet(c)
=============================================================================
