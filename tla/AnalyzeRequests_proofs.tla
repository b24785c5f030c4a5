------------------------- MODULE AnalyzeRequests_proofs -------------------------
(* Proofs about AnalyzeRequests: for any number of requests, checks, images and
   tokens of the pool.                                                          *)
EXTENDS AnalyzeRequests, SequenceTheorems, FiniteSetTheorems, TLAPS

USE ActorsAssumption, SizesAssumption

(* The stages of a request that waits for the semaphore or holds it. *)
SemaphoreStages == {"acquire", "ocr", "scanned"}
-----------------------------------------------------------------------------
(* Lines: sequences that name nobody twice. *)

(* A line without its head. *)
LEMMA TailOfLine ==
    ASSUME NEW S, NEW line \in Seq(S), line # <<>>,
           \A k, l \in DOMAIN line : line[k] = line[l] => k = l
    PROVE  /\ Head(line) \in S
           /\ Tail(line) \in Seq(S)
           /\ Range(line) = {Head(line)} \cup Range(Tail(line))
           /\ Head(line) \notin Range(Tail(line))
           /\ \A k, l \in DOMAIN Tail(line) : Tail(line)[k] = Tail(line)[l] => k = l
<1> DEFINE T == Tail(line)
<1>1. /\ Head(line) = line[1] /\ Head(line) \in S
      /\ T \in Seq(S) /\ Len(T) = Len(line) - 1
      /\ \A k \in 1 .. Len(T) : T[k] = line[k + 1]
      /\ Len(line) \in Nat /\ Len(line) # 0
  BY HeadTailProperties, LenProperties, EmptySeq
<1>2. DOMAIN T = 1 .. Len(line) - 1 /\ DOMAIN line = 1 .. Len(line)
  BY <1>1, LenProperties
<1> HIDE DEF T
<1>3. Range(line) = {line[1]} \cup Range(T)
  <2>1. ASSUME NEW k \in 1 .. Len(line), k # 1
        PROVE  line[k] \in Range(T)
    <3>1. k - 1 \in 1 .. Len(T) /\ T[k - 1] = line[(k - 1) + 1] /\ (k - 1) + 1 = k
      BY <1>1, <2>1
    <3> QED
      BY <1>1, <1>2, <3>1 DEF Range
  <2>2. ASSUME NEW k \in 1 .. Len(T) PROVE T[k] \in Range(line)
    <3>1. k + 1 \in 1 .. Len(line) /\ T[k] = line[k + 1]
      BY <1>1, <2>2
    <3> QED
      BY <1>2, <3>1 DEF Range
  <2>3. line[1] \in Range(line)
    BY <1>1, <1>2 DEF Range
  <2> QED
    BY <1>1, <1>2, <2>1, <2>2, <2>3 DEF Range
<1>4. line[1] \notin Range(T)
  <2>1. ASSUME NEW k \in 1 .. Len(T) PROVE T[k] # line[1]
    <3>1. k + 1 \in 1 .. Len(line) /\ T[k] = line[k + 1] /\ 1 \in 1 .. Len(line) /\ k + 1 # 1
      BY <1>1, <2>1
    <3> QED
      BY <1>2, <3>1
  <2> QED
    BY <1>1, <1>2, <2>1 DEF Range
<1>5. ASSUME NEW k \in 1 .. Len(T), NEW l \in 1 .. Len(T), T[k] = T[l]
      PROVE  k = l
  <2>1. k + 1 \in 1 .. Len(line) /\ l + 1 \in 1 .. Len(line) /\ line[k + 1] = line[l + 1]
    BY <1>1, <1>5
  <2>2. k + 1 = l + 1
    BY <1>2, <2>1
  <2> QED
    BY <2>2
<1>6. Head(line) = line[1] /\ Head(line) \in S /\ T \in Seq(S) /\ DOMAIN T = 1 .. Len(T)
  BY <1>1, <1>2
<1> QED
  BY <1>3, <1>4, <1>5, <1>6 DEF T

(* A line with one more at its end. *)
LEMMA EndOfLine ==
    ASSUME NEW S, NEW line \in Seq(S), NEW e \in S, e \notin Range(line),
           \A k, l \in DOMAIN line : line[k] = line[l] => k = l
    PROVE  /\ Append(line, e) \in Seq(S) /\ Append(line, e) # <<>>
           /\ Range(Append(line, e)) = Range(line) \cup {e}
           /\ \A k, l \in DOMAIN Append(line, e) :
                 Append(line, e)[k] = Append(line, e)[l] => k = l
<1> DEFINE A == Append(line, e)
           n == Len(line)
<1>1. /\ n \in Nat /\ DOMAIN line = 1 .. n /\ DOMAIN A = 1 .. n + 1
      /\ A \in Seq(S) /\ Len(A) = n + 1 /\ A[n + 1] = e
      /\ \A k \in 1 .. n : A[k] = line[k]
  BY AppendProperties, LenProperties
<1> HIDE DEF A, n
<1>2. Range(A) = Range(line) \cup {e} /\ \A k \in 1 .. n : A[k] # e
  BY <1>1 DEF Range
<1>3. ASSUME NEW k \in 1 .. n + 1, NEW l \in 1 .. n + 1, A[k] = A[l]
      PROVE  k = l
  <2>1. (k \in 1 .. n \/ k = n + 1) /\ (l \in 1 .. n \/ l = n + 1)
    BY <1>1
  <2> QED
    BY <1>1, <1>2, <1>3, <2>1
<1>4. A # <<>>
  BY <1>1
<1> QED
  BY <1>1, <1>2, <1>3, <1>4 DEF A
-----------------------------------------------------------------------------
(* The pool. *)

(* Submitting a job keeps the types of the pool. *)
LEMMA SubmitKeepsType ==
    ASSUME running \in SUBSET Actors, waiting \in Seq(Actors), NEW a \in Actors, Submit(a)
    PROVE  running' \in SUBSET Actors /\ waiting' \in Seq(Actors)
BY DEF Submit

(* So does the end of a job. *)
LEMMA JobEndsKeepsType ==
    ASSUME running \in SUBSET Actors, waiting \in Seq(Actors), NEW a \in Actors, JobEnds(a)
    PROVE  running' \in SUBSET Actors /\ waiting' \in Seq(Actors)
<1>1. CASE waiting = <<>>
  BY <1>1 DEF JobEnds
<1>2. CASE waiting # <<>>
  <2>1. Head(waiting) \in Actors /\ Tail(waiting) \in Seq(Actors)
    BY <1>2
  <2> QED
    BY <1>2, <2>1 DEF JobEnds
<1> QED
  BY <1>1, <1>2
-----------------------------------------------------------------------------
(* The semaphore. *)

(* Somebody moves between stages that have nothing to do with the semaphore. *)
LEMMA MoveElsewhere ==
    ASSUME TypeOK, SemaphoreInv, UNCHANGED semaphore,
           NEW a \in Actors, pc[a] \notin SemaphoreStages,
           NEW s, s \notin SemaphoreStages, pc' = [pc EXCEPT ![a] = s]
    PROVE  SemaphoreInv'
<1>1. \A b \in Actors : pc'[b] = IF b = a THEN s ELSE pc[b]
  BY DEF TypeOK
<1>2. acquiring' = acquiring /\ holder' = holder
  BY DEF semaphore
<1>3. OneOcrAtATime'
  BY <1>1, <1>2 DEF SemaphoreInv, OneOcrAtATime, SemaphoreStages, TypeOK, Actors
<1>4. EveryWaiterQueued'
  <2>1. \A r \in Requests : pc'[r] = "acquire" => r \in Range(acquiring) \cup {holder}
    BY <1>1 DEF SemaphoreInv, EveryWaiterQueued, SemaphoreStages, Actors
  <2>2. Range(acquiring) \subseteq Requests
    BY DEF TypeOK, Range
  <2>3. \A r \in Range(acquiring) : pc'[r] = "acquire" /\ r # holder
    BY <1>1, <2>2 DEF SemaphoreInv, EveryWaiterQueued, SemaphoreStages, Actors
  <2> QED
    BY <1>2, <2>1, <2>3 DEF SemaphoreInv, EveryWaiterQueued
<1>5. LineIsInjective'
  BY <1>2 DEF SemaphoreInv, LineIsInjective
<1> QED
  BY <1>3, <1>4, <1>5 DEF SemaphoreInv

(* The holder moves on while it keeps the semaphore. *)
LEMMA MoveInside ==
    ASSUME TypeOK, SemaphoreInv, UNCHANGED semaphore,
           NEW r \in Requests, holder = r,
           NEW s \in {"ocr", "scanned"}, pc' = [pc EXCEPT ![r] = s]
    PROVE  SemaphoreInv'
<1>1. \A b \in Actors : pc'[b] = IF b = r THEN s ELSE pc[b]
  BY DEF TypeOK
<1>2. acquiring' = acquiring /\ holder' = holder
  BY DEF semaphore
<1>3. OneOcrAtATime'
  BY <1>1, <1>2 DEF SemaphoreInv, OneOcrAtATime, Actors
<1>4. EveryWaiterQueued'
  <2>2. Range(acquiring) \subseteq Requests
    BY DEF TypeOK, Range
  <2> QED
    BY <1>1, <1>2, <2>2 DEF SemaphoreInv, EveryWaiterQueued, Actors
<1>5. LineIsInjective'
  BY <1>2 DEF SemaphoreInv, LineIsInjective
<1> QED
  BY <1>3, <1>4, <1>5 DEF SemaphoreInv

(* The holder leaves: the semaphore is handed over, or free. *)
LEMMA ReleaseKeepsInv ==
    ASSUME TypeOK, SemaphoreInv, Release,
           NEW r \in Requests, pc[r] = "scanned",
           NEW s, s \notin SemaphoreStages, pc' = [pc EXCEPT ![r] = s]
    PROVE  SemaphoreInv'
<1>1. \A b \in Actors : pc'[b] = IF b = r THEN s ELSE pc[b]
  BY DEF TypeOK
<1>2. holder = r /\ r # None /\ None \notin Requests
  BY DEF SemaphoreInv, OneOcrAtATime, Actors
<1>3. \A q \in Requests : q # r => pc'[q] \notin {"ocr", "scanned"}
  BY <1>1, <1>2 DEF SemaphoreInv, OneOcrAtATime, Actors
<1>4. pc'[r] \notin SemaphoreStages
  BY <1>1 DEF Actors
<1>5. Range(acquiring) \subseteq Requests
  BY DEF TypeOK, Range
<1>6. \A q \in Range(acquiring) : pc'[q] = "acquire" /\ q # r
  BY <1>1, <1>2, <1>5 DEF SemaphoreInv, EveryWaiterQueued, Actors
<1>7. \A q \in Requests : pc'[q] = "acquire" => q \in Range(acquiring)
  BY <1>1, <1>2, <1>4 DEF SemaphoreInv, EveryWaiterQueued, SemaphoreStages, Actors
<1>8. CASE acquiring = <<>>
  <2>1. holder' = None /\ acquiring' = <<>>
    BY <1>8 DEF Release
  <2>2. Range(acquiring) = {}
    BY <1>8 DEF Range
  <2>3. OneOcrAtATime'
    BY <1>3, <1>4, <2>1 DEF OneOcrAtATime, SemaphoreStages
  <2>4. EveryWaiterQueued'
    BY <1>7, <1>8, <2>1, <2>2 DEF EveryWaiterQueued
  <2>5. LineIsInjective'
    BY <2>1 DEF LineIsInjective
  <2> QED
    BY <2>3, <2>4, <2>5 DEF SemaphoreInv
<1>9. CASE acquiring # <<>>
  <2>1. holder' = Head(acquiring) /\ acquiring' = Tail(acquiring)
    BY <1>9 DEF Release
  <2>2. /\ Head(acquiring) \in Requests
        /\ Range(acquiring) = {Head(acquiring)} \cup Range(Tail(acquiring))
        /\ Head(acquiring) \notin Range(Tail(acquiring))
        /\ \A k, l \in DOMAIN Tail(acquiring) :
              Tail(acquiring)[k] = Tail(acquiring)[l] => k = l
    BY <1>9, TailOfLine DEF TypeOK, SemaphoreInv, LineIsInjective
  <2>3. OneOcrAtATime'
    BY <1>3, <1>4, <1>6, <2>1, <2>2 DEF OneOcrAtATime, SemaphoreStages
  <2>4. EveryWaiterQueued'
    BY <1>2, <1>6, <1>7, <2>1, <2>2 DEF EveryWaiterQueued
  <2>5. LineIsInjective'
    BY <2>1, <2>2 DEF LineIsInjective
  <2> QED
    BY <2>3, <2>4, <2>5 DEF SemaphoreInv
<1> QED
  BY <1>8, <1>9

(* A request enters the free semaphore, or the end of the line. *)
LEMMA ReadEndsKeepsSemaphore ==
    ASSUME TypeOK, SemaphoreInv, NEW r \in Requests, ReadEnds(r)
    PROVE  SemaphoreInv'
<1>1. pc[r] = "read" /\ r \in Actors /\ r # None
  BY DEF ReadEnds, Actors
<1>2. Range(acquiring) \subseteq Requests /\ r \notin Range(acquiring) /\ holder # r
  <2>1. Range(acquiring) \subseteq Requests
    BY DEF TypeOK, Range
  <2>2. r \notin Range(acquiring)
    BY <1>1 DEF SemaphoreInv, EveryWaiterQueued
  <2>3. holder # r
    BY <1>1 DEF SemaphoreInv, OneOcrAtATime
  <2> QED
    BY <2>1, <2>2, <2>3
<1>3. CASE holder = None
  <2>1. holder' = r /\ acquiring' = acquiring /\ acquiring = <<>>
        /\ \A b \in Actors : pc'[b] = IF b = r THEN "ocr" ELSE pc[b]
    BY <1>3 DEF ReadEnds, SemaphoreInv, EveryWaiterQueued, TypeOK
  <2>2. OneOcrAtATime'
    BY <1>1, <1>3, <2>1 DEF SemaphoreInv, OneOcrAtATime, Actors
  <2>3. EveryWaiterQueued'
    BY <1>1, <1>2, <1>3, <2>1 DEF SemaphoreInv, EveryWaiterQueued, Actors, Range
  <2>4. LineIsInjective'
    BY <2>1 DEF LineIsInjective
  <2> QED
    BY <2>2, <2>3, <2>4 DEF SemaphoreInv
<1>4. CASE holder # None
  <2>1. holder' = holder /\ acquiring' = Append(acquiring, r)
        /\ \A b \in Actors : pc'[b] = IF b = r THEN "acquire" ELSE pc[b]
    BY <1>4 DEF ReadEnds, TypeOK
  <2>2. /\ Range(acquiring') = Range(acquiring) \cup {r}
        /\ \A k, l \in DOMAIN acquiring' : acquiring'[k] = acquiring'[l] => k = l
    <3>1. acquiring \in Seq(Requests)
          /\ \A k, l \in DOMAIN acquiring : acquiring[k] = acquiring[l] => k = l
      BY DEF TypeOK, SemaphoreInv, LineIsInjective
    <3> QED
      BY <1>2, <2>1, <3>1, EndOfLine
  <2>4. OneOcrAtATime'
    BY <1>1, <1>2, <1>4, <2>1, ZenonT(60) DEF SemaphoreInv, OneOcrAtATime, Actors, TypeOK
  <2>5. EveryWaiterQueued'
    BY <1>1, <1>2, <1>4, <2>1, <2>2 DEF SemaphoreInv, EveryWaiterQueued, Actors, TypeOK
  <2>6. LineIsInjective'
    BY <2>2 DEF LineIsInjective
  <2> QED
    BY <2>4, <2>5, <2>6 DEF SemaphoreInv
<1> QED
  BY <1>3, <1>4

(* No step disturbs the semaphore: it is held by whoever is with the engine. *)
LEMMA NextKeepsSemaphore ==
    ASSUME TypeOK, SemaphoreInv, [Next]_vars
    PROVE  SemaphoreInv'
<1> USE DEF SemaphoreStages
<1>1. ASSUME NEW r \in Requests, Arrive(r) PROVE SemaphoreInv'
  BY <1>1, MoveElsewhere DEF Arrive, Actors
<1>2. ASSUME NEW r \in Requests, AuthEnds(r) PROVE SemaphoreInv'
  <2>1. PICK s \in {"done", "body"} : pc' = [pc EXCEPT ![r] = s]
    BY <1>2 DEF AuthEnds, AnsweredWith
  <2> QED
    BY <1>2, <2>1, MoveElsewhere DEF AuthEnds, Actors
<1>3. ASSUME NEW r \in Requests, EnterBody(r) PROVE SemaphoreInv'
  <2>1. PICK s \in {"done", "read"} : pc' = [pc EXCEPT ![r] = s]
    BY <1>3 DEF EnterBody, AnsweredWith
  <2> QED
    BY <1>3, <2>1, MoveElsewhere DEF EnterBody, Actors
<1>4. ASSUME NEW r \in Requests, ReadFails(r) PROVE SemaphoreInv'
  <2>1. PICK s \in {"read", "batch"} : pc' = [pc EXCEPT ![r] = s]
    BY <1>4 DEF ReadFails, NextImage
  <2> QED
    BY <1>4, <2>1, MoveElsewhere DEF ReadFails, Actors
<1>5. ASSUME NEW r \in Requests, ReadTooLarge(r) PROVE SemaphoreInv'
  BY <1>5, MoveElsewhere DEF ReadTooLarge, AnsweredWith, Actors
<1>6. ASSUME NEW r \in Requests, ReadEnds(r) PROVE SemaphoreInv'
  BY <1>6, ReadEndsKeepsSemaphore
<1>7. ASSUME NEW r \in Requests, AcquireEnds(r) PROVE SemaphoreInv'
  BY <1>7, MoveInside DEF AcquireEnds
<1>8. ASSUME NEW r \in Requests, OcrEnds(r) PROVE SemaphoreInv'
  <2>1. holder = r
    BY <1>8 DEF OcrEnds, SemaphoreInv, OneOcrAtATime
  <2> QED
    BY <1>8, <2>1, MoveInside DEF OcrEnds
<1>9. ASSUME NEW r \in Requests, OcrResumes(r) PROVE SemaphoreInv'
  <2>1. PICK s \in {"read", "batch"} : pc' = [pc EXCEPT ![r] = s]
    BY <1>9 DEF OcrResumes, NextImage
  <2> QED
    BY <1>9, <2>1, ReleaseKeepsInv DEF OcrResumes
<1>10. ASSUME NEW r \in Requests, ItemInvalid(r) PROVE SemaphoreInv'
  BY <1>10, ReleaseKeepsInv DEF ItemInvalid, AnsweredWith
<1>11. ASSUME NEW r \in Requests, BatchEnds(r) PROVE SemaphoreInv'
  BY <1>11, MoveElsewhere, ZenonT(60) DEF BatchEnds, AnsweredWith, Actors
<1>12. ASSUME NEW h \in Checks, CheckArrives(h) PROVE SemaphoreInv'
  BY <1>12, MoveElsewhere DEF CheckArrives, Actors
<1>13. ASSUME NEW h \in Checks, CheckEnds(h) PROVE SemaphoreInv'
  BY <1>13, MoveElsewhere DEF CheckEnds, Actors
<1>14. CASE UNCHANGED vars
  BY <1>14 DEF vars, SemaphoreInv, OneOcrAtATime, EveryWaiterQueued, LineIsInjective
<1> QED
  BY <1>1, <1>2, <1>3, <1>4, <1>5, <1>6, <1>7, <1>8, <1>9, <1>10, <1>11, <1>12, <1>13, <1>14
  DEF Next, Step, AllAnswered
-----------------------------------------------------------------------------
(* The accounts of the pool. *)

(* The stages at which an actor has a job in the pool. *)
JobStages == {"auth", "ocr", "batch", "check"}

(* A stage of work begins, ends, or neither: what that does to the jobs. *)
LEMMA JobsFollowStages ==
    ASSUME TypeOK, NEW a \in Actors, NEW s, pc' = [pc EXCEPT ![a] = s]
    PROVE  /\ s \in JobStages => Jobs' = Jobs \cup {a}
           /\ s \notin JobStages => Jobs' = Jobs \ {a}
           /\ a \in Jobs <=> pc[a] \in JobStages
<1>1. \A b \in Actors : pc'[b] = IF b = a THEN s ELSE pc[b]
  BY DEF TypeOK
<1> QED
  BY <1>1 DEF Jobs, JobStages

(* A submitted job finds a free token, or joins the line. *)
LEMMA SubmitKeepsAccounts ==
    ASSUME TypeOK, PoolInv, NEW a \in Actors, a \notin Jobs, Jobs' = Jobs \cup {a}, Submit(a)
    PROVE  PoolInv'
<1>1. /\ a \notin running /\ a \notin Range(waiting) /\ IsFiniteSet(running)
      /\ Cardinality(running) \in Nat /\ PoolSize \in Nat
  BY FS_CardinalityType DEF PoolInv, PoolKeepsBusy
<1>2. CASE Cardinality(running) < PoolSize
  <2>1. running' = running \cup {a} /\ waiting' = waiting /\ waiting = <<>>
    BY <1>1, <1>2 DEF Submit, PoolInv, PoolKeepsBusy
  <2>2. IsFiniteSet(running') /\ Cardinality(running') = Cardinality(running) + 1
    BY <1>1, <2>1, FS_AddElement
  <2>3. PoolKeepsBusy'
    BY <1>1, <1>2, <2>1, <2>2 DEF PoolInv, PoolKeepsBusy
  <2>4. JobWaitsOnce'
    BY <2>1 DEF PoolInv, JobWaitsOnce
  <2> QED
    BY <2>2, <2>3, <2>4 DEF PoolInv
<1>3. CASE ~ (Cardinality(running) < PoolSize)
  <2>1. running' = running /\ waiting' = Append(waiting, a) /\ Cardinality(running) = PoolSize
    BY <1>1, <1>3 DEF Submit, PoolInv, PoolKeepsBusy
  <2>2. /\ Range(waiting') = Range(waiting) \cup {a} /\ waiting' # <<>>
        /\ \A k, l \in DOMAIN waiting' : waiting'[k] = waiting'[l] => k = l
    <3>1. waiting \in Seq(Actors) /\ \A k, l \in DOMAIN waiting : waiting[k] = waiting[l] => k = l
      BY DEF TypeOK, PoolInv, JobWaitsOnce
    <3> QED
      BY <1>1, <2>1, <3>1, EndOfLine
  <2>3. PoolKeepsBusy'
    BY <1>1, <2>1, <2>2 DEF PoolInv, PoolKeepsBusy
  <2>4. JobWaitsOnce'
    BY <2>2 DEF JobWaitsOnce
  <2> QED
    BY <1>1, <2>1, <2>3, <2>4 DEF PoolInv
<1> QED
  BY <1>2, <1>3

(* A job that ends passes its token to the first in line, if there is a line. *)
LEMMA JobEndKeepsAccounts ==
    ASSUME TypeOK, PoolInv, NEW a \in Actors, Jobs' = Jobs \ {a}, JobEnds(a)
    PROVE  PoolInv'
<1>1. /\ a \in running /\ a \notin Range(waiting) /\ IsFiniteSet(running)
      /\ Cardinality(running) \in Nat /\ PoolSize \in Nat
      /\ Cardinality(running) <= PoolSize
  BY FS_CardinalityType DEF PoolInv, PoolKeepsBusy, JobEnds
<1>2. IsFiniteSet(running \ {a}) /\ Cardinality(running \ {a}) = Cardinality(running) - 1
  BY <1>1, FS_RemoveElement
<1>3. CASE waiting = <<>>
  <2>1. running' = running \ {a} /\ waiting' = <<>>
    BY <1>3 DEF JobEnds
  <2>2. Range(waiting) = {} /\ Range(waiting') = {}
    BY <1>3, <2>1 DEF Range
  <2>3. PoolKeepsBusy'
    BY <1>1, <1>2, <2>1, <2>2 DEF PoolInv, PoolKeepsBusy
  <2>4. JobWaitsOnce'
    BY <2>1 DEF JobWaitsOnce
  <2> QED
    BY <1>2, <2>1, <2>3, <2>4 DEF PoolInv
<1>4. CASE waiting # <<>>
  <2> DEFINE h == Head(waiting)
  <2>1. running' = (running \ {a}) \cup {h} /\ waiting' = Tail(waiting)
    BY <1>4 DEF JobEnds
  <2>2. /\ Range(waiting) = {h} \cup Range(waiting') /\ h \notin Range(waiting')
        /\ \A k, l \in DOMAIN waiting' : waiting'[k] = waiting'[l] => k = l
    <3>1. waiting \in Seq(Actors) /\ \A k, l \in DOMAIN waiting : waiting[k] = waiting[l] => k = l
      BY DEF TypeOK, PoolInv, JobWaitsOnce
    <3> QED
      BY <1>4, <2>1, <3>1, TailOfLine
  <2> HIDE DEF h
  <2>3. h \notin running /\ h # a /\ Cardinality(running) = PoolSize
    BY <1>1, <1>4, <2>2 DEF PoolInv, PoolKeepsBusy
  <2>4. IsFiniteSet(running') /\ Cardinality(running') = Cardinality(running)
    <3>1. /\ IsFiniteSet((running \ {a}) \cup {h})
          /\ Cardinality((running \ {a}) \cup {h}) = Cardinality(running \ {a}) + 1
      BY <1>2, <2>3, FS_AddElement
    <3> QED
      BY <1>1, <1>2, <2>1, <3>1
  <2>5. PoolKeepsBusy'
    BY <1>1, <2>1, <2>2, <2>3, <2>4 DEF PoolInv, PoolKeepsBusy
  <2>6. JobWaitsOnce'
    BY <2>2 DEF JobWaitsOnce
  <2> QED
    BY <2>4, <2>5, <2>6 DEF PoolInv
<1> QED
  BY <1>3, <1>4

(* A step that leaves pool and jobs alone leaves the accounts alone. *)
LEMMA AccountsStand ==
    ASSUME PoolInv, UNCHANGED pool, Jobs' = Jobs
    PROVE  PoolInv'
BY DEF pool, PoolInv, PoolKeepsBusy, JobWaitsOnce

(* An actor begins a job. *)
LEMMA BeginsJob ==
    ASSUME TypeOK, PoolInv, NEW a \in Actors, pc[a] \notin JobStages, Submit(a),
           NEW s \in JobStages, pc' = [pc EXCEPT ![a] = s]
    PROVE  PoolInv'
BY JobsFollowStages, SubmitKeepsAccounts

(* An actor ends its job. *)
LEMMA EndsJob ==
    ASSUME TypeOK, PoolInv, NEW a \in Actors, JobEnds(a),
           NEW s, s \notin JobStages, pc' = [pc EXCEPT ![a] = s]
    PROVE  PoolInv'
BY JobsFollowStages, JobEndKeepsAccounts

(* An actor that has no job moves on without one. *)
LEMMA HasNoJob ==
    ASSUME TypeOK, PoolInv, NEW a \in Actors, pc[a] \notin JobStages, UNCHANGED pool,
           NEW s, s \notin JobStages, pc' = [pc EXCEPT ![a] = s]
    PROVE  PoolInv'
<1>1. Jobs' = Jobs
  BY JobsFollowStages
<1> QED
  BY <1>1, AccountsStand

(* The loop moves on: to an image, without a job, or to the batch, with one. *)
LEMMA NextImageKeepsAccounts ==
    ASSUME TypeOK, PoolInv, NEW r \in Requests, pc[r] \notin JobStages, NextImage(r)
    PROVE  PoolInv'
<1>1. r \in Actors
  BY DEF Actors
<1>2. CASE pc' = [pc EXCEPT ![r] = "read"] /\ UNCHANGED pool
  BY <1>1, <1>2, HasNoJob DEF JobStages
<1>3. CASE pc' = [pc EXCEPT ![r] = "batch"] /\ Submit(r)
  BY <1>1, <1>3, BeginsJob DEF JobStages
<1> QED
  BY <1>2, <1>3 DEF NextImage

(* No step loses a job, a token or a place in the line. *)
LEMMA NextKeepsAccounts ==
    ASSUME TypeOK, PoolInv, [Next]_vars
    PROVE  PoolInv'
<1> USE DEF JobStages
<1>a. Requests \subseteq Actors /\ Checks \subseteq Actors
  BY DEF Actors
<1>1. ASSUME NEW r \in Requests, Arrive(r) PROVE PoolInv'
  BY <1>a, <1>1, BeginsJob DEF Arrive
<1>2. ASSUME NEW r \in Requests, AuthEnds(r) PROVE PoolInv'
  <2>1. PICK s \in {"done", "body"} : pc' = [pc EXCEPT ![r] = s]
    BY <1>2 DEF AuthEnds, AnsweredWith
  <2> QED
    BY <1>a, <1>2, <2>1, EndsJob DEF AuthEnds
<1>3. ASSUME NEW r \in Requests, EnterBody(r) PROVE PoolInv'
  <2>1. PICK s \in {"done", "read"} : pc' = [pc EXCEPT ![r] = s]
    BY <1>3 DEF EnterBody, AnsweredWith
  <2> QED
    BY <1>a, <1>3, <2>1, HasNoJob DEF EnterBody
<1>4. ASSUME NEW r \in Requests, ReadFails(r) PROVE PoolInv'
  BY <1>4, NextImageKeepsAccounts DEF ReadFails
<1>5. ASSUME NEW r \in Requests, ReadTooLarge(r) PROVE PoolInv'
  BY <1>a, <1>5, HasNoJob DEF ReadTooLarge, AnsweredWith
<1>6. ASSUME NEW r \in Requests, ReadEnds(r) PROVE PoolInv'
  <2>1. CASE holder = None
    BY <1>a, <1>6, <2>1, BeginsJob DEF ReadEnds
  <2>2. CASE holder # None
    BY <1>a, <1>6, <2>2, HasNoJob DEF ReadEnds
  <2> QED
    BY <2>1, <2>2
<1>7. ASSUME NEW r \in Requests, AcquireEnds(r) PROVE PoolInv'
  BY <1>a, <1>7, BeginsJob DEF AcquireEnds
<1>8. ASSUME NEW r \in Requests, OcrEnds(r) PROVE PoolInv'
  BY <1>a, <1>8, EndsJob DEF OcrEnds
<1>9. ASSUME NEW r \in Requests, OcrResumes(r) PROVE PoolInv'
  BY <1>9, NextImageKeepsAccounts DEF OcrResumes
<1>10. ASSUME NEW r \in Requests, ItemInvalid(r) PROVE PoolInv'
  BY <1>a, <1>10, HasNoJob DEF ItemInvalid, AnsweredWith
<1>11. ASSUME NEW r \in Requests, BatchEnds(r) PROVE PoolInv'
  <2>1. JobEnds(r) /\ pc' = [pc EXCEPT ![r] = "done"]
    BY <1>11 DEF BatchEnds, AnsweredWith
  <2> QED
    BY <1>a, <2>1, EndsJob
<1>12. ASSUME NEW h \in Checks, CheckArrives(h) PROVE PoolInv'
  BY <1>a, <1>12, BeginsJob DEF CheckArrives
<1>13. ASSUME NEW h \in Checks, CheckEnds(h) PROVE PoolInv'
  BY <1>a, <1>13, EndsJob DEF CheckEnds
<1>14. CASE UNCHANGED vars
  BY <1>14, AccountsStand DEF vars, pool, Jobs
<1> QED
  BY <1>1, <1>2, <1>3, <1>4, <1>5, <1>6, <1>7, <1>8, <1>9, <1>10, <1>11, <1>12, <1>13, <1>14
  DEF Next, Step, AllAnswered
-----------------------------------------------------------------------------
(* The types. *)

(* A coroutine that moves is at a stage. *)
LEMMA MoveKeepsType ==
    ASSUME TypeOK, NEW a \in Actors, NEW s \in Stages, pc' = [pc EXCEPT ![a] = s]
    PROVE  pc' \in [Actors -> Stages]
BY DEF TypeOK

(* A finished loop step keeps the types of what it touches. *)
LEMMA NextImageKeepsType ==
    ASSUME TypeOK, NEW r \in Requests, image[r] <= NumImages, NextImage(r)
    PROVE  /\ image' \in [Requests -> 1 .. NumImages + 1]
           /\ pc' \in [Actors -> Stages]
           /\ running' \in SUBSET Actors /\ waiting' \in Seq(Actors)
<1>1. image[r] + 1 \in 1 .. NumImages + 1
  BY DEF TypeOK
<1>2. image' \in [Requests -> 1 .. NumImages + 1]
  BY <1>1 DEF NextImage, TypeOK
<1>3. pc' \in [Actors -> Stages]
  <2>1. PICK s \in {"read", "batch"} : pc' = [pc EXCEPT ![r] = s]
    BY DEF NextImage
  <2>2. r \in Actors /\ s \in Stages
    BY DEF Actors, Stages
  <2> QED
    BY <2>1, <2>2, MoveKeepsType
<1>4. running' \in SUBSET Actors /\ waiting' \in Seq(Actors)
  <2>1. CASE UNCHANGED pool
    BY <2>1 DEF pool, TypeOK
  <2>2. CASE Submit(r)
    BY <2>2, SubmitKeepsType DEF TypeOK, Actors
  <2> QED
    BY <2>1, <2>2 DEF NextImage
<1> QED
  BY <1>2, <1>3, <1>4

(* Releasing the semaphore keeps its types. *)
LEMMA ReleaseKeepsType ==
    ASSUME TypeOK, SemaphoreInv, Release
    PROVE  holder' \in Requests \cup {None} /\ acquiring' \in Seq(Requests)
<1>1. CASE acquiring = <<>>
  BY <1>1 DEF Release, TypeOK
<1>2. CASE acquiring # <<>>
  <2>1. Head(acquiring) \in Requests /\ Tail(acquiring) \in Seq(Requests)
    BY <1>2, TailOfLine DEF TypeOK, SemaphoreInv, LineIsInjective
  <2> QED
    BY <1>2, <2>1 DEF Release
<1> QED
  BY <1>1, <1>2

(* An image joins the history, and perhaps the items. *)
LEMMA FateKeepsType ==
    ASSUME TypeOK, NEW r \in Requests, NEW what \in Fates, Suffers(r, what)
    PROVE  fate' \in [Requests -> Seq(Fates)]
<1>1. Append(fate[r], what) \in Seq(Fates)
  BY AppendProperties DEF TypeOK
<1> QED
  BY <1>1 DEF Suffers, TypeOK

(* The item of the image at hand is well formed. *)
LEMMA ItemHasType ==
    ASSUME TypeOK, NEW r \in Requests, image[r] <= NumImages
    PROVE  Item(r) \in [image : 1 .. NumImages, entry : 0 .. NumImages]
BY DEF TypeOK, Item, Entry

(* An answer has one of the codes the endpoint knows. *)
LEMMA AnswerKeepsType ==
    ASSUME TypeOK, NEW r \in Requests, NEW code \in {200, 400, 401, 413, 500, 503},
           AnsweredWith(r, code)
    PROVE  /\ pc' \in [Actors -> Stages]
           /\ status' \in [Requests -> {0, 200, 400, 401, 413, 500, 503}]
<1>1. r \in Actors /\ "done" \in Stages
  BY DEF Actors, Stages
<1>2. pc' \in [Actors -> Stages]
  BY <1>1, MoveKeepsType, ZenonT(60) DEF AnsweredWith
<1>3. status' \in [Requests -> {0, 200, 400, 401, 413, 500, 503}]
  BY DEF AnsweredWith, TypeOK
<1> QED
  BY <1>2, <1>3

(* A step that leaves the images alone: only the stages, the pool, the semaphore
   and the answers are left to look at.                                         *)
LEMMA RestKeepsType ==
    ASSUME TypeOK, UNCHANGED <<engine, local>>,
           pc' \in [Actors -> Stages],
           running' \in SUBSET Actors, waiting' \in Seq(Actors),
           holder' \in Requests \cup {None}, acquiring' \in Seq(Requests),
           status' \in [Requests -> {0, 200, 400, 401, 413, 500, 503}]
    PROVE  TypeOK'
BY ZenonT(60) DEF TypeOK, local

(* Every step keeps the types: an image index never runs past the upload. *)
LEMMA NextKeepsType ==
    ASSUME RequestInv, [Next]_vars
    PROVE  TypeOK'
<1>a. TypeOK /\ SemaphoreInv /\ \A r \in Requests : Progress(r)
  BY DEF RequestInv
<1>b. /\ running \in SUBSET Actors /\ waiting \in Seq(Actors)
      /\ holder \in Requests \cup {None} /\ acquiring \in Seq(Requests)
      /\ status \in [Requests -> {0, 200, 400, 401, 413, 500, 503}]
  BY <1>a DEF TypeOK
<1>c. Requests \subseteq Actors /\ Checks \subseteq Actors
  BY DEF Actors
<1>d. UNCHANGED semaphore => holder' \in Requests \cup {None} /\ acquiring' \in Seq(Requests)
  BY <1>b DEF semaphore
<1>e. UNCHANGED pool => running' \in SUBSET Actors /\ waiting' \in Seq(Actors)
  BY <1>b DEF pool
<1>f. {"auth", "body", "read", "ocr", "acquire", "scanned", "check", "done"} \subseteq Stages
  BY DEF Stages
<1>1. ASSUME NEW r \in Requests, Arrive(r) PROVE TypeOK'
  <2>1. pc' \in [Actors -> Stages]
    BY <1>a, <1>c, <1>f, <1>1, MoveKeepsType DEF Arrive
  <2>2. running' \in SUBSET Actors /\ waiting' \in Seq(Actors)
    BY <1>b, <1>c, <1>1, SubmitKeepsType DEF Arrive
  <2> QED
    BY <1>a, <1>b, <1>d, <1>1, <2>1, <2>2, RestKeepsType DEF Arrive
<1>2. ASSUME NEW r \in Requests, AuthEnds(r) PROVE TypeOK'
  <2>1. pc' \in [Actors -> Stages] /\ status' \in [Requests -> {0, 200, 400, 401, 413, 500, 503}]
    <3>1. CASE AnsweredWith(r, 401)
      BY <1>a, <3>1, AnswerKeepsType
    <3>2. CASE pc' = [pc EXCEPT ![r] = "body"] /\ status' = status
      BY <1>a, <1>b, <1>c, <1>f, <3>2, MoveKeepsType, ZenonT(60)
    <3> QED
      BY <1>2, <3>1, <3>2 DEF AuthEnds
  <2>2. running' \in SUBSET Actors /\ waiting' \in Seq(Actors)
    BY <1>b, <1>c, <1>2, JobEndsKeepsType DEF AuthEnds
  <2> QED
    BY <1>a, <1>d, <1>2, <2>1, <2>2, RestKeepsType DEF AuthEnds
<1>3. ASSUME NEW r \in Requests, EnterBody(r) PROVE TypeOK'
  <2>1. pc' \in [Actors -> Stages] /\ status' \in [Requests -> {0, 200, 400, 401, 413, 500, 503}]
    <3>1. CASE \E code \in {400, 503} : AnsweredWith(r, code)
      BY <1>a, <3>1, AnswerKeepsType
    <3>2. CASE pc' = [pc EXCEPT ![r] = "read"] /\ status' = status
      BY <1>a, <1>b, <1>c, <1>f, <3>2, MoveKeepsType
    <3> QED
      BY <1>3, <3>1, <3>2 DEF EnterBody
  <2>2. engine' \in BOOLEAN /\ meta' \in [Requests -> SUBSET (1 .. NumImages)]
    <3>1. CASE UNCHANGED <<engine, meta>>
      BY <1>a, <3>1 DEF TypeOK
    <3>2. CASE engine' = TRUE /\ \E known \in SUBSET (1 .. NumImages) : meta' = [meta EXCEPT ![r] = known]
      <4>1. PICK known \in SUBSET (1 .. NumImages) : meta' = [meta EXCEPT ![r] = known]
        BY <3>2
      <4> QED
        BY <1>a, <3>2, <4>1 DEF TypeOK
    <3> QED
      BY <1>3, <3>1, <3>2 DEF EnterBody
  <2>3. image' = image /\ fate' = fate /\ items' = items /\ UNCHANGED pool /\ UNCHANGED semaphore
    BY <1>3 DEF EnterBody
  <2> QED
    BY <1>a, <1>d, <1>e, <2>1, <2>2, <2>3, ZenonT(60) DEF TypeOK
<1>4. ASSUME NEW r \in Requests, ReadFails(r) PROVE TypeOK'
  <2>1. image[r] <= NumImages
    BY <1>a, <1>4 DEF ReadFails, Progress
  <2>2. fate' \in [Requests -> Seq(Fates)]
    BY <1>a, <1>4, FateKeepsType DEF ReadFails, Fates
  <2>3. /\ image' \in [Requests -> 1 .. NumImages + 1]
        /\ pc' \in [Actors -> Stages]
        /\ running' \in SUBSET Actors /\ waiting' \in Seq(Actors)
    BY <1>a, <1>4, <2>1, NextImageKeepsType DEF ReadFails
  <2>4. UNCHANGED semaphore /\ engine' = engine /\ meta' = meta /\ items' = items /\ status' = status
    BY <1>4 DEF ReadFails
  <2> QED
    BY <1>a, <1>d, <2>2, <2>3, <2>4 DEF TypeOK
<1>5. ASSUME NEW r \in Requests, ReadTooLarge(r) PROVE TypeOK'
  <2>1. pc' \in [Actors -> Stages] /\ status' \in [Requests -> {0, 200, 400, 401, 413, 500, 503}]
    BY <1>a, <1>5, AnswerKeepsType DEF ReadTooLarge
  <2> QED
    BY <1>a, <1>d, <1>e, <1>5, <2>1, RestKeepsType DEF ReadTooLarge
<1>6. ASSUME NEW r \in Requests, ReadEnds(r) PROVE TypeOK'
  <2>1. pc' \in [Actors -> Stages]
    BY <1>a, <1>c, <1>f, <1>6, MoveKeepsType DEF ReadEnds
  <2>2. running' \in SUBSET Actors /\ waiting' \in Seq(Actors)
    BY <1>b, <1>c, <1>e, <1>6, SubmitKeepsType DEF ReadEnds
  <2>3. holder' \in Requests \cup {None} /\ acquiring' \in Seq(Requests)
    <3>1. Append(acquiring, r) \in Seq(Requests)
      BY <1>b, AppendProperties
    <3> QED
      BY <1>b, <1>6, <3>1 DEF ReadEnds
  <2>4. UNCHANGED <<engine, local>> /\ status' = status
    BY <1>6 DEF ReadEnds
  <2> QED
    BY <1>a, <1>b, <2>1, <2>2, <2>3, <2>4, RestKeepsType
<1>7. ASSUME NEW r \in Requests, AcquireEnds(r) PROVE TypeOK'
  <2>1. pc' \in [Actors -> Stages]
    BY <1>a, <1>c, <1>f, <1>7, MoveKeepsType DEF AcquireEnds
  <2>2. running' \in SUBSET Actors /\ waiting' \in Seq(Actors)
    BY <1>b, <1>c, <1>7, SubmitKeepsType DEF AcquireEnds
  <2> QED
    BY <1>a, <1>b, <1>d, <1>7, <2>1, <2>2, RestKeepsType DEF AcquireEnds
<1>8. ASSUME NEW r \in Requests, OcrEnds(r) PROVE TypeOK'
  <2>1. pc' \in [Actors -> Stages]
    BY <1>a, <1>c, <1>f, <1>8, MoveKeepsType DEF OcrEnds
  <2>2. running' \in SUBSET Actors /\ waiting' \in Seq(Actors)
    BY <1>b, <1>c, <1>8, JobEndsKeepsType DEF OcrEnds
  <2> QED
    BY <1>a, <1>b, <1>d, <1>8, <2>1, <2>2, RestKeepsType DEF OcrEnds
<1>9. ASSUME NEW r \in Requests, OcrResumes(r) PROVE TypeOK'
  <2> DEFINE ItemType == [image : 1 .. NumImages, entry : 0 .. NumImages]
  <2>1. image[r] <= NumImages
    BY <1>a, <1>9 DEF OcrResumes, Progress
  <2>2. PICK what \in Fates : Suffers(r, what)
    BY <1>9 DEF OcrResumes, Fates
  <2>3. fate' \in [Requests -> Seq(Fates)]
    BY <1>a, <2>2, FateKeepsType
  <2>4. Append(items[r], Item(r)) \in Seq(ItemType)
    <3>1. Item(r) \in ItemType
      BY <1>a, <2>1, ItemHasType
    <3>2. items \in [Requests -> Seq(ItemType)]
      BY <1>a DEF TypeOK
    <3> HIDE DEF ItemType
    <3>3. items[r] \in Seq(ItemType)
      BY <3>2
    <3> QED
      BY <3>1, <3>3, AppendProperties
  <2>5. items' \in [Requests -> Seq(ItemType)]
    <3>1. items \in [Requests -> Seq(ItemType)]
      BY <1>a DEF TypeOK
    <3>2. items' = items \/ items' = [items EXCEPT ![r] = Append(items[r], Item(r))]
      BY <1>9 DEF OcrResumes
    <3> HIDE DEF ItemType
    <3> QED
      BY <2>4, <3>1, <3>2
  <2>6. holder' \in Requests \cup {None} /\ acquiring' \in Seq(Requests)
    BY <1>a, <1>9, ReleaseKeepsType DEF OcrResumes
  <2>7. /\ image' \in [Requests -> 1 .. NumImages + 1]
        /\ pc' \in [Actors -> Stages]
        /\ running' \in SUBSET Actors /\ waiting' \in Seq(Actors)
    BY <1>a, <1>9, <2>1, NextImageKeepsType DEF OcrResumes
  <2>8. engine' = engine /\ meta' = meta /\ status' = status
    BY <1>9 DEF OcrResumes
  <2> QED
    BY <1>a, <2>3, <2>5, <2>6, <2>7, <2>8 DEF TypeOK
<1>10. ASSUME NEW r \in Requests, ItemInvalid(r) PROVE TypeOK'
  <2>1. pc' \in [Actors -> Stages] /\ status' \in [Requests -> {0, 200, 400, 401, 413, 500, 503}]
    BY <1>a, <1>10, AnswerKeepsType DEF ItemInvalid
  <2>2. holder' \in Requests \cup {None} /\ acquiring' \in Seq(Requests)
    BY <1>a, <1>10, ReleaseKeepsType DEF ItemInvalid
  <2> QED
    BY <1>a, <1>e, <1>10, <2>1, <2>2, RestKeepsType DEF ItemInvalid
<1>11. ASSUME NEW r \in Requests, BatchEnds(r) PROVE TypeOK'
  <2>1. pc' \in [Actors -> Stages] /\ status' \in [Requests -> {0, 200, 400, 401, 413, 500, 503}]
    BY <1>a, <1>11, AnswerKeepsType DEF BatchEnds
  <2>2. running' \in SUBSET Actors /\ waiting' \in Seq(Actors)
    BY <1>b, <1>c, <1>11, JobEndsKeepsType DEF BatchEnds
  <2> QED
    BY <1>a, <1>d, <1>11, <2>1, <2>2, RestKeepsType DEF BatchEnds
<1>12. ASSUME NEW h \in Checks, CheckArrives(h) PROVE TypeOK'
  <2>1. pc' \in [Actors -> Stages]
    BY <1>a, <1>c, <1>f, <1>12, MoveKeepsType DEF CheckArrives
  <2>2. running' \in SUBSET Actors /\ waiting' \in Seq(Actors)
    BY <1>b, <1>c, <1>12, SubmitKeepsType DEF CheckArrives
  <2> QED
    BY <1>a, <1>b, <1>d, <1>12, <2>1, <2>2, RestKeepsType DEF CheckArrives
<1>13. ASSUME NEW h \in Checks, CheckEnds(h) PROVE TypeOK'
  <2>1. pc' \in [Actors -> Stages]
    BY <1>a, <1>c, <1>f, <1>13, MoveKeepsType DEF CheckEnds
  <2>2. running' \in SUBSET Actors /\ waiting' \in Seq(Actors)
    BY <1>b, <1>c, <1>13, JobEndsKeepsType DEF CheckEnds
  <2> QED
    BY <1>a, <1>b, <1>d, <1>13, <2>1, <2>2, RestKeepsType DEF CheckEnds
<1>14. CASE UNCHANGED vars
  BY <1>a, <1>14, ZenonT(60) DEF vars, TypeOK
<1> QED
  BY <1>1, <1>2, <1>3, <1>4, <1>5, <1>6, <1>7, <1>8, <1>9, <1>10, <1>11, <1>12, <1>13, <1>14
  DEF Next, Step, AllAnswered
-----------------------------------------------------------------------------
(* The upload. *)

Early == {"new", "auth", "body"}
Looping == {"read", "acquire", "ocr", "scanned"}

(* A coroutine moves on without finishing an image and without an answer. *)
LEMMA MoveKeepsProgress ==
    ASSUME TypeOK, NEW a \in Actors, NEW s,
           pc' = [pc EXCEPT ![a] = s], pc[a] # "done", s # "batch",
           s \in Early => pc[a] \in Early,
           s \in Looping => pc[a] \in Early \cup Looping,
           UNCHANGED <<image, fate, items, status>>,
           NEW q \in Requests, Progress(q)
    PROVE  Progress(q)'
<1>1. \A b \in Actors : pc'[b] = IF b = a THEN s ELSE pc[b]
  BY DEF TypeOK
<1>2. q \in Actors
  BY DEF Actors
<1>3. 1 <= NumImages
  OBVIOUS
<1>4. image'[q] = image[q] /\ fate'[q] = fate[q] /\ items'[q] = items[q] /\ status'[q] = status[q]
  OBVIOUS
<1> QED
  BY <1>1, <1>2, <1>3, <1>4 DEF Progress, Early, Looping

(* A request is answered: with 200 only after its batch. *)
LEMMA AnswerKeepsProgress ==
    ASSUME TypeOK, NEW r \in Requests, NEW code,
           AnsweredWith(r, code), code = 200 => pc[r] = "batch",
           UNCHANGED <<image, fate, items>>,
           NEW q \in Requests, Progress(q)
    PROVE  Progress(q)'
<1>1. /\ \A b \in Actors : pc'[b] = IF b = r THEN "done" ELSE pc[b]
      /\ \A b \in Requests : status'[b] = IF b = r THEN code ELSE status[b]
  BY DEF TypeOK, AnsweredWith
<1>2. q \in Actors
  BY DEF Actors
<1>3. image'[q] = image[q] /\ fate'[q] = fate[q] /\ items'[q] = items[q]
  OBVIOUS
<1> QED
  BY <1>1, <1>2, <1>3 DEF Progress

(* An image is finished, and the loop moves on. *)
LEMMA ImageKeepsProgress ==
    ASSUME TypeOK, NEW r \in Requests, pc[r] \in Looping, NextImage(r),
           NEW what, Suffers(r, what), status' = status,
           \A p \in Requests : p # r => items'[p] = items[p],
           NEW q \in Requests, Progress(q)
    PROVE  Progress(q)'
<1>1. image[r] \in Nat /\ NumImages \in Nat /\ Len(fate[r]) \in Nat /\ q \in Actors /\ r \in Actors
  BY DEF TypeOK, Actors
<1>2. CASE q # r
  <2>1. pc'[q] = pc[q] /\ image'[q] = image[q] /\ fate'[q] = fate[q] /\ status'[q] = status[q]
    BY <1>1, <1>2 DEF TypeOK, NextImage, Suffers
  <2> QED
    BY <1>2, <2>1 DEF Progress
<1>3. CASE q = r
  <2>1. Len(fate'[r]) = Len(fate[r]) + 1
    BY AppendProperties DEF TypeOK, Suffers
  <2>2. image'[r] = image[r] + 1 /\ pc'[r] = IF image[r] < NumImages THEN "read" ELSE "batch"
    BY <1>1 DEF TypeOK, NextImage
  <2>3. status'[r] = 0
    BY <1>3 DEF Progress, Looping
  <2>4. Len(fate[r]) = image[r] - 1 /\ image[r] <= NumImages
    BY <1>3 DEF Progress, Looping
  <2> QED
    BY <1>1, <1>3, <2>1, <2>2, <2>3, <2>4 DEF Progress
<1> QED
  BY <1>2, <1>3

(* The items of a request that nobody touches. *)
LEMMA ItemsStand ==
    ASSUME NEW q \in Requests, ItemsSoFar(q), image'[q] = image[q], fate'[q] = fate[q],
           items'[q] = items[q], meta'[q] = meta[q]
    PROVE  ItemsSoFar(q)'
BY DEF ItemsSoFar

(* The items collected so far form a sequence, each about an image of the upload. *)
LEMMA ItemsAreWellFormed ==
    ASSUME TypeOK, NEW r \in Requests
    PROVE  /\ Len(items[r]) \in Nat
           /\ \A k \in 1 .. Len(items[r]) : items[r][k].image \in 1 .. NumImages
<1> DEFINE ItemType == [image : 1 .. NumImages, entry : 0 .. NumImages]
<1>1. items \in [Requests -> Seq(ItemType)]
  BY ZenonT(60) DEF TypeOK
<1>2. \A e \in ItemType : e.image \in 1 .. NumImages
  OBVIOUS
<1> HIDE DEF ItemType
<1>3. items[r] \in Seq(ItemType)
  BY <1>1
<1>4. \A k \in 1 .. Len(items[r]) : items[r][k] \in ItemType
  BY <1>3, ElementOfSeq
<1> QED
  BY <1>2, <1>3, <1>4, LenProperties

(* An image that is skipped leaves no item. *)
LEMMA SkippedKeepsItems ==
    ASSUME TypeOK, NEW r \in Requests, Progress(r), ItemsSoFar(r),
           Suffers(r, "skipped"), image'[r] = image[r] + 1,
           items'[r] = items[r], meta'[r] = meta[r]
    PROVE  ItemsSoFar(r)'
<1> DEFINE n == Len(fate[r])
<1>1. /\ n \in Nat /\ image[r] \in Nat /\ image[r] = n + 1 /\ Len(items[r]) \in Nat
      /\ Len(fate'[r]) = n + 1 /\ fate'[r][n + 1] = "skipped"
      /\ \A i \in 1 .. n : fate'[r][i] = fate[r][i]
  <2>1. fate[r] \in Seq(Fates) /\ "skipped" \in Fates /\ fate'[r] = Append(fate[r], "skipped")
    BY DEF TypeOK, Suffers, Fates
  <2>2. n \in Nat /\ image[r] \in Nat /\ Len(items[r]) \in Nat
    BY DEF TypeOK
  <2> QED
    BY <2>1, <2>2, AppendProperties DEF Progress
<1>2. \A k \in 1 .. Len(items[r]) : items[r][k].image \in Nat
  BY ItemsAreWellFormed
<1> HIDE DEF n
<1>3. ASSUME NEW i \in 1 .. n + 1
      PROVE  fate'[r][i] = "text" <=> \E k \in 1 .. Len(items[r]) : items[r][k].image = i
  <2>1. CASE i \in 1 .. n
    BY <1>1, <2>1, SMTT(30) DEF ItemsSoFar, n
  <2>2. CASE i = n + 1
    BY <1>1, <1>2, <2>2 DEF ItemsSoFar
  <2> QED
    BY <1>1, <2>1, <2>2
<1>4. /\ \A k \in 1 .. Len(items[r]) :
            /\ items[r][k].image < image[r] + 1
            /\ items[r][k].entry = IF items[r][k].image \in meta[r] THEN items[r][k].image ELSE 0
      /\ \A k, l \in 1 .. Len(items[r]) : k < l => items[r][k].image < items[r][l].image
  BY <1>1, <1>2 DEF ItemsSoFar
<1>5. \A i \in 1 .. Len(fate'[r]) :
         fate'[r][i] = "text" <=> \E k \in 1 .. Len(items[r]) : items[r][k].image = i
  BY <1>1, <1>3
<1> QED
  BY <1>4, <1>5 DEF ItemsSoFar

(* An image with text leaves one item, with its own entry of the metadata. *)
LEMMA TextKeepsItems ==
    ASSUME TypeOK, NEW r \in Requests, Progress(r), ItemsSoFar(r), image[r] <= NumImages,
           Suffers(r, "text"), image'[r] = image[r] + 1,
           items'[r] = Append(items[r], Item(r)), meta'[r] = meta[r]
    PROVE  ItemsSoFar(r)'
<1> DEFINE n == Len(fate[r])
           m == Len(items[r])
           ItemType == [image : 1 .. NumImages, entry : 0 .. NumImages]
<1>1. /\ n \in Nat /\ image[r] \in Nat /\ image[r] = n + 1
      /\ Len(fate'[r]) = n + 1 /\ fate'[r][n + 1] = "text"
      /\ \A i \in 1 .. n : fate'[r][i] = fate[r][i]
  <2>1. fate[r] \in Seq(Fates) /\ "text" \in Fates /\ fate'[r] = Append(fate[r], "text")
    BY DEF TypeOK, Suffers, Fates
  <2>2. n \in Nat /\ image[r] \in Nat
    BY DEF TypeOK
  <2> QED
    BY <2>1, <2>2, AppendProperties DEF Progress
<1>2. \A k \in 1 .. m : items[r][k].image \in Nat
  BY ItemsAreWellFormed
<1>3. /\ m \in Nat /\ Len(items'[r]) = m + 1 /\ items'[r][m + 1] = Item(r)
      /\ \A k \in 1 .. m : items'[r][k] = items[r][k]
  <2>1. Item(r) \in ItemType
    BY ItemHasType
  <2>2. items \in [Requests -> Seq(ItemType)]
    BY ZenonT(60) DEF TypeOK
  <2> HIDE DEF ItemType
  <2>3. items[r] \in Seq(ItemType)
    BY <2>2
  <2> QED
    BY <2>1, <2>3, AppendProperties, LenProperties
<1>4. Item(r).image = image[r] /\ Item(r).entry = IF image[r] \in meta[r] THEN image[r] ELSE 0
  BY DEF Item, Entry
<1>5. /\ \A i \in 1 .. n : fate[r][i] = "text" <=> \E k \in 1 .. m : items[r][k].image = i
      /\ \A k \in 1 .. m :
            /\ items[r][k].image < image[r]
            /\ items[r][k].entry = IF items[r][k].image \in meta[r] THEN items[r][k].image ELSE 0
      /\ \A k, l \in 1 .. m : k < l => items[r][k].image < items[r][l].image
  BY DEF ItemsSoFar
<1> HIDE DEF n, m
<1>6. ASSUME NEW i \in 1 .. n + 1
      PROVE  fate'[r][i] = "text" <=> \E k \in 1 .. m + 1 : items'[r][k].image = i
  <2>1. CASE i \in 1 .. n
    <3>1. fate'[r][i] = "text" <=> \E k \in 1 .. m : items'[r][k].image = i
      BY <1>1, <1>3, <1>5, <2>1, ZenonT(60)
    <3>2. items'[r][m + 1].image # i
      BY <1>1, <1>3, <1>4, <2>1
    <3> QED
      BY <1>3, <3>1, <3>2
  <2>2. CASE i = n + 1
    <3>1. m + 1 \in 1 .. m + 1 /\ items'[r][m + 1].image = i
      BY <1>1, <1>3, <1>4, <2>2
    <3> QED
      BY <1>1, <2>2, <3>1
  <2>3. i \in 1 .. n \/ i = n + 1
    BY <1>1
  <2> QED
    BY <2>1, <2>2, <2>3
<1>7. ASSUME NEW k \in 1 .. m + 1
      PROVE  /\ items'[r][k].image < image[r] + 1
             /\ items'[r][k].entry = IF items'[r][k].image \in meta[r] THEN items'[r][k].image ELSE 0
  <2>1. CASE k \in 1 .. m
    <3>1. /\ items'[r][k] = items[r][k] /\ items[r][k].image \in Nat /\ items[r][k].image < image[r]
          /\ items[r][k].entry = IF items[r][k].image \in meta[r] THEN items[r][k].image ELSE 0
      BY <1>2, <1>3, <1>5, <2>1
    <3> QED
      BY <1>1, <3>1
  <2>2. CASE k = m + 1
    BY <1>1, <1>3, <1>4, <2>2
  <2> QED
    BY <1>3, <2>1, <2>2
<1>8. ASSUME NEW k \in 1 .. m + 1, NEW l \in 1 .. m + 1, k < l
      PROVE  items'[r][k].image < items'[r][l].image
  <2>1. k \in 1 .. m /\ items'[r][k] = items[r][k]
    BY <1>3, <1>8
  <2>2. CASE l \in 1 .. m
    BY <1>3, <1>5, <1>8, <2>1, <2>2
  <2>3. CASE l = m + 1
    BY <1>3, <1>4, <1>5, <2>1, <2>3
  <2> QED
    BY <1>3, <2>2, <2>3
<1> QED
  BY <1>1, <1>3, <1>6, <1>7, <1>8, SMTT(30) DEF ItemsSoFar

(* Every step keeps account of where each request stands in its upload. *)
LEMMA NextKeepsProgress ==
    ASSUME RequestInv, [Next]_vars, NEW q \in Requests
    PROVE  Progress(q)'
<1> USE DEF Early, Looping
<1>a. TypeOK /\ Progress(q) /\ Requests \subseteq Actors /\ Checks \subseteq Actors
  BY DEF RequestInv, Actors
<1>1. ASSUME NEW r \in Requests, Arrive(r) PROVE Progress(q)'
  BY <1>a, <1>1, MoveKeepsProgress DEF Arrive, local
<1>2. ASSUME NEW r \in Requests, AuthEnds(r) PROVE Progress(q)'
  <2>1. pc[r] = "auth" /\ UNCHANGED <<image, fate, items>>
    BY <1>2 DEF AuthEnds, local
  <2>2. CASE AnsweredWith(r, 401)
    BY <1>a, <2>1, <2>2, AnswerKeepsProgress
  <2>3. CASE pc' = [pc EXCEPT ![r] = "body"] /\ status' = status
    BY <1>a, <2>1, <2>3, MoveKeepsProgress
  <2> QED
    BY <1>2, <2>2, <2>3 DEF AuthEnds
<1>3. ASSUME NEW r \in Requests, EnterBody(r) PROVE Progress(q)'
  <2>1. pc[r] = "body" /\ UNCHANGED <<image, fate, items>>
    BY <1>3 DEF EnterBody
  <2>2. CASE \E code \in {400, 503} : AnsweredWith(r, code)
    BY <1>a, <2>1, <2>2, AnswerKeepsProgress
  <2>3. CASE pc' = [pc EXCEPT ![r] = "read"] /\ status' = status
    BY <1>a, <2>1, <2>3, MoveKeepsProgress
  <2> QED
    BY <1>3, <2>2, <2>3 DEF EnterBody
<1>4. ASSUME NEW r \in Requests, ReadFails(r) PROVE Progress(q)'
  BY <1>a, <1>4, ImageKeepsProgress DEF ReadFails
<1>5. ASSUME NEW r \in Requests, ReadTooLarge(r) PROVE Progress(q)'
  BY <1>a, <1>5, AnswerKeepsProgress DEF ReadTooLarge, local
<1>6. ASSUME NEW r \in Requests, ReadEnds(r) PROVE Progress(q)'
  <2>1. PICK s \in {"ocr", "acquire"} : pc' = [pc EXCEPT ![r] = s]
    BY <1>6 DEF ReadEnds
  <2>2. pc[r] = "read" /\ UNCHANGED <<image, fate, items, status>>
    BY <1>6 DEF ReadEnds, local
  <2> QED
    BY <1>a, <2>1, <2>2, MoveKeepsProgress
<1>7. ASSUME NEW r \in Requests, AcquireEnds(r) PROVE Progress(q)'
  BY <1>a, <1>7, MoveKeepsProgress DEF AcquireEnds, local
<1>8. ASSUME NEW r \in Requests, OcrEnds(r) PROVE Progress(q)'
  BY <1>a, <1>8, MoveKeepsProgress DEF OcrEnds, local
<1>9. ASSUME NEW r \in Requests, OcrResumes(r) PROVE Progress(q)'
  <2>1. PICK what \in Fates : Suffers(r, what)
    BY <1>9 DEF OcrResumes, Fates
  <2>2. \A p \in Requests : p # r => items'[p] = items[p]
    BY <1>a, <1>9 DEF OcrResumes, TypeOK
  <2>3. pc[r] = "scanned" /\ NextImage(r) /\ status' = status
    BY <1>9 DEF OcrResumes
  <2> QED
    BY <1>a, <2>1, <2>2, <2>3, ImageKeepsProgress
<1>10. ASSUME NEW r \in Requests, ItemInvalid(r) PROVE Progress(q)'
  BY <1>a, <1>10, AnswerKeepsProgress DEF ItemInvalid, local
<1>11. ASSUME NEW r \in Requests, BatchEnds(r) PROVE Progress(q)'
  <2>1. pc[r] = "batch" /\ UNCHANGED <<image, fate, items>>
    BY <1>11 DEF BatchEnds, local
  <2>2. PICK code \in {200, 500} : AnsweredWith(r, code)
    BY <1>11 DEF BatchEnds
  <2> QED
    BY <1>a, <2>1, <2>2, AnswerKeepsProgress
<1>12. ASSUME NEW h \in Checks, CheckArrives(h) PROVE Progress(q)'
  BY <1>a, <1>12, MoveKeepsProgress DEF CheckArrives, local
<1>13. ASSUME NEW h \in Checks, CheckEnds(h) PROVE Progress(q)'
  BY <1>a, <1>13, MoveKeepsProgress DEF CheckEnds, local
<1>14. CASE UNCHANGED vars
  BY <1>a, <1>14 DEF vars, Progress
<1> QED
  BY <1>1, <1>2, <1>3, <1>4, <1>5, <1>6, <1>7, <1>8, <1>9, <1>10, <1>11, <1>12, <1>13, <1>14
  DEF Next, Step, AllAnswered

(* Every step keeps the items of every request in line with its images. *)
LEMMA NextKeepsItems ==
    ASSUME RequestInv, [Next]_vars, NEW q \in Requests
    PROVE  ItemsSoFar(q)'
<1>a. TypeOK /\ Progress(q) /\ ItemsSoFar(q)
  BY DEF RequestInv
<1>1. CASE UNCHANGED local
  BY <1>a, <1>1, ItemsStand DEF local
<1>2. ASSUME NEW r \in Requests, EnterBody(r) PROVE ItemsSoFar(q)'
  <2>1. image' = image /\ fate' = fate /\ items' = items
    BY <1>2 DEF EnterBody
  <2>2. CASE q # r
    <3>1. meta'[q] = meta[q]
      BY <1>a, <1>2, <2>2 DEF EnterBody, TypeOK
    <3> QED
      BY <1>a, <2>1, <3>1, ItemsStand
  <2>3. CASE q = r
    <3>1. image[q] = 1 /\ items[q] = <<>> /\ Len(fate[q]) = 0
      BY <1>a, <1>2, <2>3 DEF EnterBody, Progress
    <3> QED
      BY <2>1, <3>1 DEF ItemsSoFar
  <2> QED
    BY <2>2, <2>3
<1>3. ASSUME NEW r \in Requests, ReadFails(r) PROVE ItemsSoFar(q)'
  <2>1. Suffers(r, "skipped") /\ meta' = meta /\ items' = items
    BY <1>3 DEF ReadFails
  <2>2. CASE q # r
    <3>1. image'[q] = image[q] /\ fate'[q] = fate[q]
      BY <1>a, <1>3, <2>2 DEF ReadFails, NextImage, Suffers, TypeOK
    <3> QED
      BY <1>a, <2>1, <3>1, ItemsStand
  <2>3. CASE q = r
    <3>1. image'[q] = image[q] + 1
      BY <1>a, <1>3, <2>3 DEF ReadFails, NextImage, TypeOK
    <3> QED
      BY <1>a, <2>1, <2>3, <3>1, SkippedKeepsItems
  <2> QED
    BY <2>2, <2>3
<1>4. ASSUME NEW r \in Requests, OcrResumes(r) PROVE ItemsSoFar(q)'
  <2>1. meta' = meta
    BY <1>4 DEF OcrResumes
  <2>2. CASE q # r
    <3>1. image'[q] = image[q] /\ fate'[q] = fate[q] /\ items'[q] = items[q]
      BY <1>a, <1>4, <2>2 DEF OcrResumes, NextImage, Suffers, TypeOK
    <3> QED
      BY <1>a, <2>1, <3>1, ItemsStand
  <2>3. CASE q = r
    <3>1. image'[q] = image[q] + 1
      BY <1>a, <1>4, <2>3 DEF OcrResumes, NextImage, TypeOK
    <3>2. image[q] <= NumImages
      BY <1>a, <1>4, <2>3 DEF OcrResumes, Progress
    <3>3. CASE Suffers(r, "skipped") /\ items' = items
      BY <1>a, <2>1, <2>3, <3>1, <3>3, SkippedKeepsItems
    <3>4. CASE Suffers(r, "text") /\ items' = [items EXCEPT ![r] = Append(@, Item(r))]
      <4>1. items'[q] = Append(items[q], Item(q))
        BY <1>a, <2>3, <3>4 DEF TypeOK
      <4> QED
        BY <1>a, <2>1, <2>3, <3>1, <3>2, <3>4, <4>1, TextKeepsItems
    <3> QED
      BY <1>4, <3>3, <3>4 DEF OcrResumes
  <2> QED
    BY <2>2, <2>3
<1>5. [Next]_vars => \/ UNCHANGED local
                    \/ \E r \in Requests : EnterBody(r) \/ ReadFails(r) \/ OcrResumes(r)
  BY DEF Next, Step, AllAnswered, vars, local, Arrive, AuthEnds, ReadTooLarge, ReadEnds,
         AcquireEnds, OcrEnds, ItemInvalid, BatchEnds, CheckArrives, CheckEnds
<1> QED
  BY <1>1, <1>2, <1>3, <1>4, <1>5
-----------------------------------------------------------------------------
(* The invariant. *)

(* It holds before anything arrives. *)
LEMMA InitHasInv == Init => RequestInv
<1> SUFFICES ASSUME Init PROVE RequestInv
  OBVIOUS
<1>1. TypeOK
  BY DEF Init, TypeOK, Stages, Fates
<1>2. \A a \in Actors : pc[a] = "new"
  BY DEF Init
<1>3. SemaphoreInv
  <2>1. Range(acquiring) = {}
    BY DEF Init, Range
  <2>2. DOMAIN acquiring = {} /\ acquiring = <<>> /\ holder = None
    BY DEF Init
  <2> QED
    BY <1>2, <2>1, <2>2
    DEF SemaphoreInv, OneOcrAtATime, EveryWaiterQueued, LineIsInjective, Actors
<1>4. ASSUME NEW r \in Requests PROVE Progress(r) /\ ItemsSoFar(r)
  <2>1. pc[r] = "new" /\ image[r] = 1 /\ fate[r] = <<>> /\ items[r] = <<>> /\ status[r] = 0
    BY <1>2 DEF Init, Actors
  <2> QED
    BY <2>1 DEF Progress, ItemsSoFar
<1> QED
  BY <1>1, <1>3, <1>4 DEF RequestInv

(* Every step keeps it. *)
LEMMA NextKeepsInv == RequestInv /\ [Next]_vars => RequestInv'
<1> SUFFICES ASSUME RequestInv, [Next]_vars PROVE RequestInv'
  OBVIOUS
<1>1. TypeOK'
  BY NextKeepsType
<1>2. SemaphoreInv'
  BY NextKeepsSemaphore DEF RequestInv
<1>3. \A r \in Requests : Progress(r)' /\ ItemsSoFar(r)'
  BY NextKeepsProgress, NextKeepsItems
<1> QED
  BY <1>1, <1>2, <1>3 DEF RequestInv

(* It is an invariant: the semaphore and the items fit what the requests do. *)
THEOREM InvHolds == Spec => []RequestInv
BY InitHasInv, NextKeepsInv, PTL DEF Spec

(* The variables keep their types; no index runs past the upload. *)
THEOREM TypeCorrect == Spec => []TypeOK
<1>1. RequestInv => TypeOK
  BY DEF RequestInv
<1> QED
  BY <1>1, InvHolds, PTL

(* The engine is asked for one image at a time, and no early answer, 413 or 500,
   takes the semaphore with it.                                                  *)
THEOREM OcrIsExclusive == Spec => []OneOcrAtATime
<1>1. RequestInv => OneOcrAtATime
  BY DEF RequestInv, SemaphoreInv
<1> QED
  BY <1>1, InvHolds, PTL

(* No request that waits for the semaphore is forgotten when it is released. *)
THEOREM WaitersAreQueued == Spec => []EveryWaiterQueued
<1>1. RequestInv => EveryWaiterQueued
  BY DEF RequestInv, SemaphoreInv
<1> QED
  BY <1>1, InvHolds, PTL

(* The batch of every request has one item for each image with text, in order, each
   with the metadata of its own image.                                              *)
THEOREM ItemsAreAligned == Spec => []ItemsMatchImages
<1>1. RequestInv => ItemsMatchImages
  <2> SUFFICES ASSUME RequestInv, NEW r \in Requests
               PROVE  /\ {items[r][k].image : k \in DOMAIN items[r]} = {i \in DOMAIN fate[r] : fate[r][i] = "text"}
                      /\ \A k, l \in DOMAIN items[r] : k < l => items[r][k].image < items[r][l].image
                      /\ \A k \in DOMAIN items[r] :
                            items[r][k].entry = IF items[r][k].image \in meta[r] THEN items[r][k].image ELSE 0
                      /\ pc[r] = "batch" \/ status[r] = 200 => Len(fate[r]) = NumImages
    BY DEF ItemsMatchImages
  <2>1. TypeOK /\ Progress(r) /\ ItemsSoFar(r)
    BY DEF RequestInv
  <2>2. DOMAIN items[r] = 1 .. Len(items[r]) /\ DOMAIN fate[r] = 1 .. Len(fate[r])
    BY <2>1 DEF TypeOK
  <2>3. image[r] \in Nat /\ Len(fate[r]) = image[r] - 1 /\ Len(fate[r]) \in Nat
    BY <2>1 DEF TypeOK, Progress
  <2>4. \A k \in 1 .. Len(items[r]) : items[r][k].image \in 1 .. Len(fate[r])
    <3>1. \A k \in 1 .. Len(items[r]) : items[r][k].image \in 1 .. NumImages
      BY <2>1, ItemsAreWellFormed
    <3> QED
      BY <2>1, <2>3, <3>1 DEF ItemsSoFar
  <2>5. {items[r][k].image : k \in DOMAIN items[r]} = {i \in DOMAIN fate[r] : fate[r][i] = "text"}
    BY <2>1, <2>2, <2>4, SMTT(30) DEF ItemsSoFar
  <2>6. pc[r] = "batch" \/ status[r] = 200 => Len(fate[r]) = NumImages
    BY <2>1, <2>3 DEF Progress
  <2> QED
    BY <2>1, <2>2, <2>5, <2>6 DEF ItemsSoFar
<1> QED
  BY <1>1, InvHolds, PTL

(* The thread pool: every job submitted and not ended is running or in line, once,
   and nobody waits while a token is free, whatever mixture of authentications, OCR
   runs, batches and health checks shares the tokens.                              *)
THEOREM PoolIsKeptBusy == Spec => []PoolKeepsBusy
<1>1. Init => PoolInv
  <2> SUFFICES ASSUME Init PROVE PoolInv
    OBVIOUS
  <2>1. running = {} /\ waiting = <<>> /\ \A a \in Actors : pc[a] = "new"
    BY DEF Init
  <2>2. IsFiniteSet(running) /\ Cardinality(running) = 0 /\ Range(waiting) = {}
    BY <2>1, FS_EmptySet DEF Range
  <2>3. Jobs = {}
    BY <2>1 DEF Jobs
  <2> QED
    BY <2>1, <2>2, <2>3 DEF PoolInv, PoolKeepsBusy, JobWaitsOnce
<1>2. TypeOK /\ PoolInv /\ [Next]_vars => PoolInv'
  BY NextKeepsAccounts
<1>3. PoolInv => PoolKeepsBusy
  BY DEF PoolInv
<1> QED
  BY <1>1, <1>2, <1>3, TypeCorrect, PTL DEF Spec
=============================================================================
