---------------------------- MODULE OcrEngine_proofs ----------------------------
(* Proofs about OcrEngine: for any number of readiness checks. *)
EXTENDS OcrEngine, TLAPS

(* What one check does to another: nothing. *)
LEMMA OthersKept ==
    ASSUME TypeOK, NEW c \in Checks, NEW d \in Checks \ {c}, CheckArrives(c) \/ CheckStep(c)
    PROVE  /\ pc'[d] = pc[d] /\ body'[d] = body[d] /\ code'[d] = code[d] /\ late'[d] = late[d]
BY DEF TypeOK, CheckArrives, CheckStep, ReadStatus, ReadReady, TestError, CopyError, Answer,
       Reads, Write

(* The invariant holds when the process starts. *)
LEMMA InitEstablishesInv == Init => EngineInv
<1>1. SUFFICES ASSUME Init PROVE EngineInv
  OBVIOUS
<1>2. /\ loop = "startup" /\ engine = FALSE /\ error = FALSE
      /\ pc = [c \in Checks |-> "new"] /\ code = [c \in Checks |-> 0]
      /\ late = [c \in Checks |-> FALSE] /\ body = [c \in Checks |-> [f \in Fields |-> FALSE]]
  BY <1>1 DEF Init
<1>3. TypeOK
  BY <1>2 DEF TypeOK
<1>4. LoadedMeansReady /\ LoopFits
  BY <1>2 DEF LoadedMeansReady, LoopFits
<1>5. ASSUME NEW c \in Checks
      PROVE  SeenIsReady(c) /\ AnswerSoFar(c) /\ LateSoFar(c) /\ NoErrorYet(c)
  BY <1>2 DEF SeenIsReady, AnswerSoFar, LateSoFar, NoErrorYet, Fields
<1>6. QED BY <1>3, <1>4, <1>5 DEF EngineInv

(* The event loop may make the service ready, and never takes it back. *)
LEMMA LoopKeepsReady ==
    ASSUME EngineInv, LoopStep \/ FindEngine \/ LoadEngine
    PROVE  Ready => Ready'
BY DEF EngineInv, LoopFits, LoopStep, Startup, LoadFails, EngineLoaded, ClearError,
       FindEngine, LoadEngine, Ready, vars

LEMMA LoopKeepsInv ==
    ASSUME EngineInv, LoopStep \/ FindEngine \/ LoadEngine
    PROVE  EngineInv'
<1>1. pc' = pc /\ body' = body /\ code' = code /\ late' = late
  BY DEF LoopStep, Startup, LoadFails, EngineLoaded, ClearError, FindEngine, LoadEngine, vars
<1>2. LoadedMeansReady' /\ LoopFits'
  BY <1>1 DEF EngineInv, TypeOK, LoadedMeansReady, LoopFits, LoopStep, Startup, LoadFails,
              EngineLoaded, ClearError, FindEngine, LoadEngine, Ready, vars
<1>3. Ready => Ready'
  BY LoopKeepsReady
<1>4. ASSUME NEW c \in Checks
      PROVE  SeenIsReady(c)' /\ AnswerSoFar(c)' /\ LateSoFar(c)' /\ NoErrorYet(c)'
  BY <1>1, <1>3 DEF EngineInv, SeenIsReady, AnswerSoFar, LateSoFar, NoErrorYet
<1>5. TypeOK'
  <2>1. TypeOK
    BY DEF EngineInv
  <2>2. /\ loop' \in {"startup", "serving", "loading", "loaded"}
        /\ engine' \in BOOLEAN /\ error' \in BOOLEAN
    BY <2>1 DEF TypeOK, LoopStep, Startup, LoadFails, EngineLoaded, ClearError,
                FindEngine, LoadEngine, vars
  <2>3. QED BY <1>1, <2>1, <2>2 DEF TypeOK
<1>6. QED BY <1>2, <1>4, <1>5 DEF EngineInv

(* A check reads the globals and writes its own answer. *)
LEMMA CheckKeepsInv ==
    ASSUME EngineInv, NEW c \in Checks, CheckArrives(c) \/ CheckStep(c)
    PROVE  EngineInv'
<1>1. engine' = engine /\ error' = error /\ loop' = loop /\ Ready' = Ready
  BY DEF CheckArrives, CheckStep, ReadStatus, ReadReady, TestError, CopyError, Answer,
         globals, Ready
<1>2. TypeOK'
  <2>1. TypeOK
    BY DEF EngineInv
  <2>2. pc' \in [Checks -> {"new", "status", "ready", "error", "copy", "code", "done"}]
    BY <2>1 DEF TypeOK, CheckArrives, CheckStep, ReadStatus, ReadReady, TestError,
                CopyError, Answer, Reads
  <2> DEFINE ready == Ready
  <2>0. ready \in BOOLEAN /\ error \in BOOLEAN
    BY <2>1 DEF TypeOK, Ready
  <2> HIDE DEF ready
  <2>3. late' \in [Checks -> BOOLEAN] /\ code' \in [Checks -> {0, 200, 503}]
    <3>1. late' = late \/ late' = [late EXCEPT ![c] = ready]
      BY DEF CheckArrives, CheckStep, ReadStatus, ReadReady, TestError, CopyError, Answer, ready
    <3>2. code' = code \/ code' = [code EXCEPT ![c] = 200] \/ code' = [code EXCEPT ![c] = 503]
      BY DEF CheckArrives, CheckStep, ReadStatus, ReadReady, TestError, CopyError, Answer
    <3>3. late \in [Checks -> BOOLEAN] /\ code \in [Checks -> {0, 200, 503}]
      BY <2>1 DEF TypeOK
    <3>4. late' \in [Checks -> BOOLEAN]
      BY <2>0, <3>1, <3>3
    <3>5. code' \in [Checks -> {0, 200, 503}]
      BY <3>2, <3>3
    <3>6. QED BY <3>4, <3>5
  <2>4. body' \in [Checks -> [Fields -> BOOLEAN]]
    <3>1. ASSUME NEW f \in Fields, NEW v \in BOOLEAN, Write(c, f, v)
          PROVE  body' \in [Checks -> [Fields -> BOOLEAN]]
      BY <2>1, <3>1 DEF TypeOK, Write
    <3>2. \/ body' = body \/ Write(c, "ok", ready) \/ Write(c, "ocrReady", ready)
          \/ Write(c, "ocrLoadError", error)
      BY DEF CheckArrives, CheckStep, ReadStatus, ReadReady, TestError, CopyError, Answer, ready
    <3>3. "ok" \in Fields /\ "ocrReady" \in Fields /\ "ocrLoadError" \in Fields
      BY DEF Fields
    <3>4. CASE body' = body
      BY <2>1, <3>4 DEF TypeOK
    <3>5. QED BY <2>0, <3>1, <3>2, <3>3, <3>4
  <2>5. QED BY <1>1, <2>1, <2>2, <2>3, <2>4 DEF TypeOK
<1>3. LoadedMeansReady' /\ LoopFits'
  BY <1>1 DEF EngineInv, LoadedMeansReady, LoopFits, CheckArrives, CheckStep, ReadStatus,
              ReadReady, TestError, CopyError, Answer, Reads
<1>4. SeenIsReady(c)' /\ AnswerSoFar(c)' /\ LateSoFar(c)' /\ NoErrorYet(c)'
  <2>1. /\ pc \in [Checks -> {"new", "status", "ready", "error", "copy", "code", "done"}]
        /\ body \in [Checks -> [Fields -> BOOLEAN]] /\ code \in [Checks -> {0, 200, 503}]
        /\ late \in [Checks -> BOOLEAN] /\ engine \in BOOLEAN /\ error \in BOOLEAN
        /\ SeenIsReady(c) /\ AnswerSoFar(c) /\ LateSoFar(c) /\ NoErrorYet(c)
    BY DEF EngineInv, TypeOK
  <2>2. CASE CheckArrives(c)
    BY <1>1, <2>1, <2>2 DEF CheckArrives, Reads, SeenIsReady, AnswerSoFar, LateSoFar, NoErrorYet
  <2>3. CASE ReadStatus(c)
    BY <1>1, <2>1, <2>3 DEF ReadStatus, Reads, Write, Fields, Ready,
                            SeenIsReady, AnswerSoFar, LateSoFar, NoErrorYet
  <2>4. CASE ReadReady(c)
    BY <1>1, <2>1, <2>4 DEF ReadReady, Reads, Write, Fields, Ready,
                            SeenIsReady, AnswerSoFar, LateSoFar, NoErrorYet
  <2>5. CASE TestError(c)
    BY <1>1, <2>1, <2>5 DEF TestError, Reads, Ready,
                            SeenIsReady, AnswerSoFar, LateSoFar, NoErrorYet
  <2>6. CASE CopyError(c)
    BY <1>1, <2>1, <2>6 DEF CopyError, Reads, Write, Fields, Ready,
                            SeenIsReady, AnswerSoFar, LateSoFar, NoErrorYet
  <2>7. CASE Answer(c)
    BY <1>1, <2>1, <2>7 DEF Answer, Reads, Ready,
                            SeenIsReady, AnswerSoFar, LateSoFar, NoErrorYet
  <2>8. QED BY <2>2, <2>3, <2>4, <2>5, <2>6, <2>7 DEF CheckStep
<1>5. ASSUME NEW d \in Checks \ {c}
      PROVE  SeenIsReady(d)' /\ AnswerSoFar(d)' /\ LateSoFar(d)' /\ NoErrorYet(d)'
  BY <1>1, OthersKept DEF EngineInv, SeenIsReady, AnswerSoFar, LateSoFar, NoErrorYet
<1>6. QED BY <1>2, <1>3, <1>4, <1>5 DEF EngineInv

(* Every step keeps the invariant. *)
LEMMA NextKeepsInv == EngineInv /\ [Next]_vars => EngineInv'
<1>1. ASSUME EngineInv, UNCHANGED vars PROVE EngineInv'
  BY <1>1 DEF EngineInv, TypeOK, LoadedMeansReady, LoopFits, SeenIsReady, AnswerSoFar,
              LateSoFar, NoErrorYet, Ready, vars
<1>2. QED BY <1>1, LoopKeepsInv, CheckKeepsInv DEF Next

(* The engine's globals and what every check has read of them fit together. *)
THEOREM InvHolds == Spec => []EngineInv
BY InitEstablishesInv, NextKeepsInv, PTL DEF Spec

(* Every variable keeps its type. *)
THEOREM TypeCorrect == Spec => []TypeOK
<1>1. EngineInv => TypeOK
  BY DEF EngineInv
<1>2. QED BY <1>1, InvHolds, PTL

(* _get_ocr_engine: between requests a loaded engine has no load error left. *)
THEOREM LoadedIsReady == Spec => []LoadedMeansReady
<1>1. EngineInv => LoadedMeansReady
  BY DEF EngineInv
<1>2. QED BY <1>1, InvHolds, PTL

(* health_ready: a 503 denies everything and no body contradicts itself, in whatever
   moments its fields were read.                                                   *)
THEOREM RefusalsAreHonest == Spec => []RefusalIsHonest
<1>1. EngineInv => RefusalIsHonest
  BY DEF EngineInv, AnswerSoFar, RefusalIsHonest
<1>2. QED BY <1>1, InvHolds, PTL

(* health_ready: a check that comes once the service is ready is answered with 200. *)
THEOREM LateChecksSucceed == Spec => []LateCheckSucceeds
<1>1. ASSUME EngineInv, NEW c \in Checks, late[c], pc[c] = "done"
      PROVE  code[c] = 200 /\ body[c] = [f \in Fields |-> f # "ocrLoadError"]
  <2>1. /\ body[c]["ok"] = TRUE /\ body[c]["ocrReady"] = TRUE /\ body[c]["ocrLoadError"] = FALSE
        /\ body[c] \in [Fields -> BOOLEAN]
    BY <1>1 DEF EngineInv, LateSoFar, TypeOK, Fields
  <2>2. code[c] = 200
    BY <1>1 DEF EngineInv, LateSoFar, AnswerSoFar, TypeOK
  <2>3. QED BY <2>1, <2>2 DEF Fields
<1>2. EngineInv => LateCheckSucceeds
  BY <1>1 DEF LateCheckSucceeds
<1>3. QED BY <1>2, InvHolds, PTL

(* Nothing that happens later makes a ready service unready. *)
THEOREM ReadinessIsFinal == Spec => ReadyIsFinal
<1>1. ASSUME EngineInv, [Next]_vars PROVE Ready => Ready'
  <2>1. ASSUME NEW c \in Checks, CheckArrives(c) \/ CheckStep(c) PROVE Ready' = Ready
    BY <2>1 DEF CheckArrives, CheckStep, ReadStatus, ReadReady, TestError, CopyError, Answer,
                globals, Ready
  <2>2. ASSUME UNCHANGED vars PROVE Ready' = Ready
    BY <2>2 DEF vars, Ready
  <2>3. QED BY <1>1, <2>1, <2>2, LoopKeepsReady DEF Next
<1>2. EngineInv /\ [Next]_vars => [Ready => Ready']_vars
  BY <1>1
<1>3. QED BY <1>2, InvHolds, PTL DEF Spec, ReadyIsFinal
=============================================================================
