----------------------------- MODULE ServeProofs -----------------------------
(***************************************************************************)
(* Safety of `serve`, for any calls, projects and numbers of edits, errors *)
(* and failing cycles.                                                     *)
(***************************************************************************)
EXTENDS ServeLifecycle, FiniteSetTheorems, TLAPS

-----------------------------------------------------------------------------
(* The tool calls and the cache of handles. *)

\* An answer that is a handle is the one in the cache, which is never replaced.
CallInv ==
  /\ CallTypeOK
  /\ \A c \in Call :
       /\ call[c].at \in {"opening", "storing"} => call[c].project \in Project
       /\ call[c].answer \in Call =>
            call[c].project \in Project /\ handles[call[c].project] = call[c].answer

(* What `Answer` and `At` make of the record of a call. *)
LEMMA Answered ==
  ASSUME CallTypeOK, NEW c \in Call, NEW a \in Answers
  PROVE  \E r \in Calls : /\ Answer(c, a) = [call EXCEPT ![c] = r]
                        /\ r.at = "done" /\ r.answer = a /\ r.project = call[c].project
<1> DEFINE r == [call[c] EXCEPT !.at = "done", !.answer = a]
<1>1. r \in Calls /\ r.at = "done" /\ r.answer = a /\ r.project = call[c].project
  BY DEF CallTypeOK, Calls
<1>2. Answer(c, a) = [call EXCEPT ![c] = r]
  BY DEF Answer, CallTypeOK, Calls
<1> QED BY <1>1, <1>2

LEMMA StepTaken ==
  ASSUME CallTypeOK, NEW c \in Call, NEW step \in {"opening", "storing"}
  PROVE  \E r \in Calls : /\ At(c, step) = [call EXCEPT ![c] = r]
                        /\ r.answer = call[c].answer /\ r.project = call[c].project
<1> DEFINE r == [call[c] EXCEPT !.at = step]
<1>1. r \in Calls /\ r.answer = call[c].answer /\ r.project = call[c].project
  BY DEF CallTypeOK, Calls
<1>2. At(c, step) = [call EXCEPT ![c] = r]
  BY DEF At, CallTypeOK, Calls
<1> QED BY <1>1, <1>2

(* A call that changes alone keeps the invariant if it does for itself. *)
LEMMA OneCallChanges ==
  ASSUME CallInv, NEW c \in Call, NEW r \in Calls,
         call' = [call EXCEPT ![c] = r], handles' = handles,
         r.at \in {"opening", "storing"} => r.project \in Project,
         r.answer \in Call => r.project \in Project /\ handles[r.project] = r.answer
  PROVE  CallInv'
<1>1. call' \in [Call -> Calls] /\ call'[c] = r /\ \A d \in Call \ {c} : call'[d] = call[d]
  BY DEF CallInv, CallTypeOK
<1>2. CallTypeOK'
  BY <1>1 DEF CallInv, CallTypeOK
<1> QED BY <1>1, <1>2 DEF CallInv

LEMMA CallsInit == Init => CallInv
<1> SUFFICES ASSUME Init PROVE CallInv
  OBVIOUS
<1>1. Idle \in Calls /\ Idle.at = "idle" /\ Idle.answer = "none"
  BY DEF Idle, Calls, Answers
<1>2. CallTypeOK
  BY <1>1 DEF Init, CallTypeOK
<1> QED BY <1>1, <1>2, CallAssumption DEF Init, CallInv

(* An answer without a handle, or with the one of the cache. *)
LEMMA AnswerKept ==
  ASSUME CallInv, NEW c \in Call, NEW a \in Answers, call' = Answer(c, a), handles' = handles,
         a \in Call => call[c].project \in Project /\ handles[call[c].project] = a
  PROVE  CallInv'
<1>1. PICK r \in Calls : /\ Answer(c, a) = [call EXCEPT ![c] = r]
                        /\ r.at = "done" /\ r.answer = a /\ r.project = call[c].project
  BY Answered DEF CallInv
<1> QED BY <1>1, OneCallChanges

LEMMA AtKept ==
  ASSUME CallInv, NEW c \in Call, NEW step \in {"opening", "storing"}, call' = At(c, step),
         handles' = handles, call[c].project \in Project
  PROVE  CallInv'
<1>1. PICK r \in Calls : /\ At(c, step) = [call EXCEPT ![c] = r]
                        /\ r.answer = call[c].answer /\ r.project = call[c].project
  BY StepTaken DEF CallInv
<1>2. call[c].answer \in Call => handles[call[c].project] = call[c].answer
  BY DEF CallInv
<1> QED BY <1>1, <1>2, OneCallChanges

(* The steps of a call. *)
LEMMA CallStepKept ==
  ASSUME CallInv, NEW c \in Call, CallStep(c)
  PROVE  CallInv'
<1>0. /\ call[c] \in Calls /\ handles \in [Project -> Call \cup {"none"}]
      /\ {"default", "hint", "error"} \cap Call = {} /\ "none" \notin Call
      /\ Call \cup {"default", "hint", "error"} \subseteq Answers
  BY CallAssumption DEF CallInv, CallTypeOK, Answers
<1>1. CASE AnswerDefault(c)
  <2>1. \E a \in {"default", "hint"} : call' = Answer(c, a)
    BY <1>1 DEF AnswerDefault
  <2>2. handles' = handles
    BY <1>1 DEF AnswerDefault
  <2> QED BY <2>1, <2>2, <1>0, AnswerKept
<1>2. CASE LookUp(c)
  <2> DEFINE p == call[c].project
  <2>1. p \in Project /\ handles' = handles
    BY <1>2, <1>0 DEF LookUp, Calls
  <2>2. CASE handles[p] # "none"
    <3>1. call' = Answer(c, handles[p])
      BY <2>2, <1>2 DEF LookUp
    <3>2. handles[p] \in Call /\ handles[p] \in Answers
      BY <1>0, <2>1, <2>2
    <3> QED BY <3>1, <3>2, <2>1, AnswerKept
  <2>3. CASE handles[p] = "none" /\ p \notin index.there
    <3>1. call' = Answer(c, "error")
      BY <2>3, <1>2 DEF LookUp
    <3> QED BY <3>1, <2>1, <1>0, AnswerKept
  <2>4. CASE handles[p] = "none" /\ p \in index.there
    <3>1. call' = At(c, "opening")
      BY <2>4, <1>2 DEF LookUp
    <3> QED BY <3>1, <2>1, AtKept
  <2> QED BY <2>2, <2>3, <2>4
<1>3. CASE OpenHandle(c)
  <2>1. handles' = handles /\ call[c].project \in Project
    BY <1>3 DEF OpenHandle, CallInv
  <2>2. call' = Answer(c, "error") \/ call' = At(c, "storing")
    BY <1>3 DEF OpenHandle
  <2> QED BY <2>1, <2>2, <1>0, AnswerKept, AtKept
<1>4. CASE StoreHandle(c)
  <2> DEFINE p == call[c].project
             h == InsertOrKeep(handles[p], c)
  <2>1. p \in Project
    BY <1>4 DEF StoreHandle, CallInv
  <2>2. h \in Call /\ h \in Answers /\ (handles[p] \in Call => h = handles[p])
    BY <2>1, <1>0 DEF InsertOrKeep
  <2>3. handles' = [handles EXCEPT ![p] = h] /\ call' = Answer(c, h)
    BY <1>4 DEF StoreHandle
  <2> HIDE DEF h
  <2>4. PICK r \in Calls : /\ Answer(c, h) = [call EXCEPT ![c] = r]
                          /\ r.at = "done" /\ r.answer = h /\ r.project = p
    BY <2>2, Answered DEF CallInv
  <2>5. call' \in [Call -> Calls] /\ call'[c] = r /\ \A d \in Call \ {c} : call'[d] = call[d]
    BY <2>3, <2>4 DEF CallInv, CallTypeOK
  <2>6. handles' \in [Project -> Call \cup {"none"}] /\ handles'[p] = h
        /\ \A q \in Project : handles[q] \in Call => handles'[q] = handles[q]
    BY <2>1, <2>2, <2>3, <1>0
  <2> HIDE DEF p
  <2>7. CallTypeOK'
    BY <2>5, <2>6 DEF CallTypeOK
  <2>8. \A d \in Call :
          /\ call[d].at \in {"opening", "storing"} => call[d].project \in Project
          /\ call[d].answer \in Call =>
               call[d].project \in Project /\ handles[call[d].project] = call[d].answer
    BY DEF CallInv
  <2>9. \A d \in Call \ {c} : call'[d].answer \in Call =>
          call'[d].project \in Project /\ handles'[call'[d].project] = call'[d].answer
    BY <2>5, <2>6, <2>8
  <2>10. call'[c].project \in Project /\ handles'[call'[c].project] = call'[c].answer
    BY <2>1, <2>4, <2>5, <2>6
  <2>11. \A d \in Call : call'[d].at \in {"opening", "storing"} => call'[d].project \in Project
    BY <2>4, <2>5, <2>8
  <2> QED BY <2>7, <2>9, <2>10, <2>11 DEF CallInv
<1> QED BY <1>1, <1>2, <1>3, <1>4 DEF CallStep

LEMMA CallToolKept ==
  ASSUME CallInv, NEW c \in Call, NEW p \in Project \cup {Root}, CallTool(c, p)
  PROVE  CallInv'
<1> DEFINE asked == [Idle EXCEPT !.at = "asked", !.project = p]
<1>1. asked \in Calls /\ asked.at = "asked" /\ asked.answer \notin Call
  BY CallAssumption DEF Idle, Calls, Answers
<1>2. call' = [call EXCEPT ![c] = asked] /\ handles' = handles
  BY DEF CallTool
<1> HIDE DEF asked
<1> QED BY <1>1, <1>2 DEF CallInv, CallTypeOK

LEMMA CallsKept == CallInv /\ [Next]_vars => CallInv'
<1> SUFFICES ASSUME CallInv, [Next]_vars PROVE CallInv'
  OBVIOUS
<1>1. ASSUME NEW c \in Call, CallStep(c) PROVE CallInv'
  BY <1>1, CallStepKept
<1>2. ASSUME NEW c \in Call, NEW p \in Project \cup {Root}, CallTool(c, p) PROVE CallInv'
  BY <1>2, CallToolKept
<1>3. CASE UNCHANGED <<handles, call>>
  BY <1>3 DEF CallInv, CallTypeOK
<1>4. [Next]_vars => \/ \E c \in Call : CallStep(c) \/ \E p \in Project \cup {Root} : CallTool(c, p)
                     \/ UNCHANGED <<handles, call>>
  BY DEF Next, Start, StartUnindexed, StartFails, StartUnwatched, StartWatched, Edit, Emit, NotifyError,
         DebouncerDies, ThreadStep, SelectStops, SelectReceives, Drain, Walk, CycleFails, CycleEnds, HookEnds,
         Reindex, StdinCloses, HostDies, Stop, ServeReturns, Join, vars, tools
<1> QED BY <1>1, <1>2, <1>3, <1>4

(* Two calls that name one project are never answered through two handles. *)
THEOREM OneHandle == Spec => []SharedHandle
<1>1. CallInv => SharedHandle
  BY DEF CallInv, SharedHandle
<1> QED BY <1>1, CallsInit, CallsKept, PTL DEF Spec

-----------------------------------------------------------------------------
(* The thread, its queue and the process. *)

\* There is no thread before the server serves.  What is left of the cycles a
\* stop may wait for: the thread that is about to begin one when the stop
\* comes, and none once it has begun it, since the select sees the stop first.
ThreadInv ==
  /\ ThreadTypeOK
  /\ shutdown \in {"none", "armed", "sent"}
  /\ main = "starting" => shutdown = "none"
  /\ shutdown # "sent" => after = 0
  /\ after \in {0, 1}
  /\ after = 1 => thread # "drain"
  /\ ExitsBetweenCycles

LEMMA EditType ==
  ASSUME edits \in SUBSET (Nat \ {Noise}), IsFiniteSet(edits), Edit
  PROVE  edits' \in SUBSET (Nat \ {Noise}) /\ IsFiniteSet(edits') /\ edits \subseteq edits'
<1>1. Cardinality(edits) \in Nat
  BY FS_CardinalityType
<1>2. Cardinality(edits) + 1 \in Nat \ {Noise}
  BY <1>1 DEF Noise
<1> QED BY <1>2, FS_AddElement DEF Edit

LEMMA EmitType ==
  ASSUME ThreadTypeOK, Emit
  PROVE  queue' \in Seq(SUBSET Nat)
<1>1. Batch(buffer) \in SUBSET Nat
  BY DEF ThreadTypeOK, Batch
<1> HIDE DEF Batch
<1> QED BY <1>1 DEF Emit, ThreadTypeOK

LEMMA ThreadInit == Init => ThreadInv
  BY FS_EmptySet DEF Init, ThreadInv, ThreadTypeOK, ExitsBetweenCycles

LEMMA ThreadKept == ThreadInv /\ [Next]_vars => ThreadInv'
<1> SUFFICES ASSUME ThreadInv, [Next]_vars PROVE ThreadInv'
  OBVIOUS
<1> USE DEF ThreadInv, ThreadTypeOK, ExitsBetweenCycles
<1>1. CASE StartUnindexed
  BY <1>1 DEF StartUnindexed, sync, tools
<1>2. CASE StartFails
  BY <1>2 DEF StartFails, sync, tools
<1>3. CASE StartUnwatched
  BY <1>3 DEF StartUnwatched, sync, tools
<1>4. CASE StartWatched
  BY <1>4 DEF StartWatched, sync, tools
<1>5. CASE Edit
  BY <1>5, EditType DEF Edit, sync, tools
<1>6. CASE Emit
  BY <1>6, EmitType DEF Emit, Batch, sync, tools
<1>7. CASE NotifyError
  BY <1>7 DEF NotifyError, Batch, sync, tools
<1>8. CASE DebouncerDies
  BY <1>8 DEF DebouncerDies, Batch, sync, tools
<1>9. CASE SelectStops
  BY <1>9 DEF SelectStops, ThreadEnds, sync, tools
<1>10. CASE SelectReceives
  BY <1>10 DEF SelectReceives, Receives, sync, tools
<1>11. CASE Drain
  BY <1>11 DEF Drain, sync, tools
<1>12. CASE Walk
  BY <1>12 DEF Walk, sync, tools
<1>13. CASE CycleFails
  BY <1>13 DEF CycleFails, sync, tools
<1>14. CASE CycleEnds
  BY <1>14 DEF CycleEnds, sync, tools
<1>15. CASE HookEnds
  BY <1>15 DEF HookEnds, sync, tools
<1>16. ASSUME NEW c \in Call, AnswerDefault(c) PROVE ThreadInv'
  BY <1>16 DEF AnswerDefault, sync, tools
<1>17. ASSUME NEW c \in Call, LookUp(c) PROVE ThreadInv'
  BY <1>17 DEF LookUp, sync, tools
<1>18. ASSUME NEW c \in Call, OpenHandle(c) PROVE ThreadInv'
  BY <1>18 DEF OpenHandle, sync, tools
<1>19. ASSUME NEW c \in Call, StoreHandle(c) PROVE ThreadInv'
  BY <1>19 DEF StoreHandle, sync, tools
<1>20. ASSUME NEW c \in Call, NEW p \in Project \cup {Root}, CallTool(c, p) PROVE ThreadInv'
  BY <1>20 DEF CallTool, sync, tools
<1>21. ASSUME NEW p \in Project, Reindex(p) PROVE ThreadInv'
  BY <1>21 DEF Reindex, sync, tools
<1>22. CASE StdinCloses
  BY <1>22 DEF StdinCloses, sync, tools
<1>23. CASE HostDies
  BY <1>23 DEF HostDies, sync, tools
<1>24. CASE ServeReturns
  BY <1>24 DEF ServeReturns, sync, tools
<1>25. CASE Join
  BY <1>25 DEF Join, Joined, sync, tools
<1>26. CASE UNCHANGED vars
  BY <1>26 DEF vars, sync, tools
<1> QED
  BY <1>1, <1>2, <1>3, <1>4, <1>5, <1>6, <1>7, <1>8, <1>9, <1>10, <1>11, <1>12,
     <1>13, <1>14, <1>15, <1>16, <1>17, <1>18, <1>19, <1>20, <1>21, <1>22, <1>23, <1>24, <1>25, <1>26
  DEF Next, Start, ThreadStep, CallStep, Stop

(* The process ends between two cycles, and at most one begins after it was told *)
(* to stop.                                                                   *)
THEOREM StopsBetweenCycles == Spec => []EndsBetweenCycles
<1>1. ThreadInv /\ CallInv => EndsBetweenCycles
  BY DEF ThreadInv, CallInv, TypeOK, EndsBetweenCycles, StopsSoon
<1> QED BY <1>1, ThreadInit, ThreadKept, CallsInit, CallsKept, PTL DEF Spec

-----------------------------------------------------------------------------
(* What has become of an edit. *)

Queued == UNION {queue[i] : i \in 1..Len(queue)}
Accounted == walked \cup spent \cup lost \cup buffer \cup Queued

\* Before there is a thread nobody hears of an edit.  While it watches, an edit
\* that is nowhere on its way was walked over, failed or lost, unless the walk
\* that covers all is about to begin.
ChangeInv ==
  /\ thread = "none" => edits \subseteq lost
  /\ watch = "on" => thread \in {"drain", "cycle"} \/ edits \subseteq Accounted

LEMMA EmptyQueue == queue = <<>> => Queued = {}
  BY DEF Queued

LEMMA ChangesInit == Init => ChangeInv
  BY DEF Init, ChangeInv

(* A batch takes the events along that are not noise. *)
LEMMA EmitKeeps ==
  ASSUME ThreadTypeOK, Emit
  PROVE  buffer \ {Noise} \subseteq Queued' /\ Queued \subseteq Queued'
<1>1. Batch(buffer) = buffer \ {Noise}
  BY DEF Batch
<1>2. CASE Batch(buffer) = {}
  BY <1>1, <1>2 DEF Emit, Queued
<1>3. CASE Batch(buffer) # {}
  <2> DEFINE b == Batch(buffer)
  <2>1. queue' = Append(queue, b)
    BY <1>3 DEF Emit
  <2>2. b \in SUBSET Nat /\ queue \in Seq(SUBSET Nat)
    BY <1>1 DEF ThreadTypeOK
  <2> HIDE DEF b
  <2>3. /\ Len(queue') = Len(queue) + 1 /\ Len(queue) \in Nat
        /\ queue'[Len(queue) + 1] = b
        /\ \A i \in 1..Len(queue) : queue'[i] = queue[i]
    BY <2>1, <2>2
  <2>4. b \subseteq Queued'
    BY <2>3 DEF Queued
  <2>5. Queued \subseteq Queued'
    BY <2>3 DEF Queued
  <2> QED BY <1>1, <2>4, <2>5 DEF b
<1> QED BY <1>2, <1>3

(* notify sees a new edit when the watcher is on. *)
LEMMA EditKeeps ==
  ASSUME Edit
  PROVE  /\ Queued' = Queued
         /\ watch = "on" => edits' \ edits \subseteq buffer' /\ buffer \subseteq buffer'
         /\ watch # "on" => edits' \ edits \subseteq lost'
         /\ lost \subseteq lost'
  BY DEF Edit, Queued

LEMMA ChangesKept == ThreadInv /\ ChangeInv /\ [Next]_vars => ChangeInv'
<1> SUFFICES ASSUME ThreadInv, ChangeInv, [Next]_vars PROVE ChangeInv'
  OBVIOUS
<1> USE DEF ThreadInv, ThreadTypeOK, ChangeInv, Accounted
<1>1. CASE StartUnindexed
  BY <1>1 DEF StartUnindexed, sync, tools, Queued
<1>2. CASE StartFails
  BY <1>2 DEF StartFails, sync, tools, Queued
<1>3. CASE StartUnwatched
  BY <1>3 DEF StartUnwatched, sync, tools, Queued
<1>4. CASE StartWatched
  BY <1>4 DEF StartWatched, sync, tools, Queued
<1>5. CASE Edit
  BY <1>5, EditKeeps DEF Edit, sync, tools
<1>6. CASE Emit
  BY <1>6, EmitKeeps DEF Emit, sync, tools
<1>7. CASE NotifyError
  BY <1>7 DEF NotifyError, Batch, sync, tools, Queued
<1>8. CASE DebouncerDies
  BY <1>8 DEF DebouncerDies, Batch, sync, tools, Queued
<1>9. CASE SelectStops
  BY <1>9 DEF SelectStops, ThreadEnds, sync, tools, Queued
<1>10. CASE SelectReceives
  BY <1>10 DEF SelectReceives, Receives, sync, tools, Queued
<1>11. CASE Drain
  BY <1>11 DEF Drain, sync, tools, Queued
<1>12. CASE Walk
  BY <1>12 DEF Walk, sync, tools, Queued
<1>13. CASE CycleFails
  BY <1>13 DEF CycleFails, sync, tools, Queued
<1>14. CASE CycleEnds
  BY <1>14 DEF CycleEnds, sync, tools, Queued
<1>15. CASE HookEnds
  BY <1>15 DEF HookEnds, sync, tools, Queued
<1>16. ASSUME NEW c \in Call, AnswerDefault(c) PROVE ChangeInv'
  BY <1>16 DEF AnswerDefault, sync, tools, Queued
<1>17. ASSUME NEW c \in Call, LookUp(c) PROVE ChangeInv'
  BY <1>17 DEF LookUp, sync, tools, Queued
<1>18. ASSUME NEW c \in Call, OpenHandle(c) PROVE ChangeInv'
  BY <1>18 DEF OpenHandle, sync, tools, Queued
<1>19. ASSUME NEW c \in Call, StoreHandle(c) PROVE ChangeInv'
  BY <1>19 DEF StoreHandle, sync, tools, Queued
<1>20. ASSUME NEW c \in Call, NEW p \in Project \cup {Root}, CallTool(c, p) PROVE ChangeInv'
  BY <1>20 DEF CallTool, sync, tools, Queued
<1>21. ASSUME NEW p \in Project, Reindex(p) PROVE ChangeInv'
  BY <1>21 DEF Reindex, sync, tools, Queued
<1>22. CASE StdinCloses
  BY <1>22 DEF StdinCloses, sync, tools, Queued
<1>23. CASE HostDies
  BY <1>23 DEF HostDies, sync, tools, Queued
<1>24. CASE ServeReturns
  BY <1>24 DEF ServeReturns, sync, tools, Queued
<1>25. CASE Join
  BY <1>25 DEF Join, Joined, sync, tools, Queued
<1>26. CASE UNCHANGED vars
  BY <1>26 DEF vars, sync, tools, Queued
<1> QED
  BY <1>1, <1>2, <1>3, <1>4, <1>5, <1>6, <1>7, <1>8, <1>9, <1>10, <1>11, <1>12,
     <1>13, <1>14, <1>15, <1>16, <1>17, <1>18, <1>19, <1>20, <1>21, <1>22, <1>23, <1>24, <1>25, <1>26
  DEF Next, Start, ThreadStep, CallStep, Stop

(* Draining the batches of a burst loses no edit: when the thread waits and      *)
(* nothing is on its way, every edit notify has seen was walked over, or its     *)
(* cycle failed.                                                              *)
THEOREM NothingMissed == Spec => []NoMissedChange
<1>1. ThreadInv /\ ChangeInv => NoMissedChange
  BY EmptyQueue DEF ThreadInv, ThreadTypeOK, ChangeInv, Accounted, NoMissedChange
<1> QED BY <1>1, ThreadInit, ThreadKept, ChangesInit, ChangesKept, PTL DEF Spec
=============================================================================
