--------------------------- MODULE ServeLifecycle ---------------------------
(***************************************************************************)
(* `serve --mcp` as threads: the server that answers tool calls on stdin       *)
(* until it closes, the debouncer that turns file events into batches, the      *)
(* live-sync thread that runs a cycle per burst of batches, and the handle      *)
(* whose drop stops it.                                                     *)
(***************************************************************************)
EXTENDS Integers, Sequences, FiniteSets

CONSTANTS
  Call,           \* tool calls
  Project,        \* values of projectPath
  Root,           \* no projectPath: the project the server was started for
  MaxEdits,       \* bounds on edits of source files, on notify errors,
  MaxLost,        \* on cycles that fail,
  MaxFails,
  MaxIndexings    \* and on `init` and `uninit` by others

ASSUME RootAssumption == Root \notin Project
(* A handle has the name of the call that opened it; the other answers have not. *)
ASSUME CallAssumption == Call \cap {"none", "default", "hint", "error"} = {}

VARIABLES
  stdin, host,    \* whether the pipe is open, and the process that started the server
  main, mode,     \* the serving task, and whether it has an index
  shutdown,       \* the oneshot channel of LiveSyncHandle
  thread, watch,  \* the live-sync thread, and the debouncer's
  buffer, queue,  \* what the debouncer holds, and changes_rx
  edits, lost,    \* source edits so far, those whose events reached nobody
  walked, spent,  \* the edits that a cycle has walked over, those whose cycle failed
  fails, after,   \* cycles that failed, and that began after the shutdown was sent
  index,          \* the projects with a .codewiki/codewiki.db, and how often that changed
  handles, call   \* handle_cache, and the tool calls

sync == <<thread, watch, buffer, queue, edits, lost, walked, spent, fails, after>>
tools == <<index, handles, call>>
vars == <<stdin, host, main, mode, shutdown, sync, tools>>

Noise == 0    \* an event in .codewiki or of a file that is not source

Answers == Call \union {"none", "default", "hint", "error"}
Calls == [at : {"idle", "asked", "opening", "storing", "done"}, project : Project \union {Root},
          answer : Answers]
Idle == [at |-> "idle", project |-> Root, answer |-> "none"]

-----------------------------------------------------------------------------
(* run_mcp_real up to serve_stdio: the read handle, then the watcher's.       *)
StartUnindexed ==
  /\ main = "starting" /\ Root \notin index.there
  /\ main' = "serving" /\ mode' = "unindexed"
  /\ UNCHANGED <<stdin, host, shutdown, sync, tools>>

StartFails ==
  /\ main = "starting" /\ Root \in index.there /\ main' = "exited"
  /\ UNCHANGED <<stdin, host, mode, shutdown, sync, tools>>

(* --no-watch, a policy that disables watching, or a failing second open.      *)
StartUnwatched ==
  /\ main = "starting" /\ Root \in index.there
  /\ main' = "serving" /\ mode' = "indexed"
  /\ UNCHANGED <<stdin, host, shutdown, sync, tools>>

(* spawn_live_sync; the thread may fail to build its runtime and return.       *)
StartWatched ==
  /\ main = "starting" /\ Root \in index.there
  /\ main' = "serving" /\ mode' = "indexed" /\ shutdown' = "armed"
  /\ \/ thread' = "select" /\ watch' = "on"
     \/ thread' = "gone" /\ watch' = "off"
  /\ UNCHANGED <<stdin, host, buffer, queue, edits, lost, walked, spent, fails, after, tools>>

-----------------------------------------------------------------------------
(* The user saves a source file; notify sees it while the watcher is on.      *)
Edit ==
  /\ Cardinality(edits) < MaxEdits
  /\ edits' = edits \union {Cardinality(edits) + 1}
  /\ IF watch = "on" THEN buffer' = buffer \union (edits' \ edits) /\ UNCHANGED lost
     ELSE lost' = lost \union (edits' \ edits) /\ UNCHANGED buffer
  /\ UNCHANGED <<stdin, host, main, mode, shutdown, thread, watch, queue, walked, spent,
                 fails, after, tools>>

(* The debounce window closes.  Only source files outside .codewiki count, and  *)
(* a batch of none is not sent.                                             *)
Batch(events) == events \ {Noise}

Emit ==
  /\ watch = "on" /\ buffer # {} /\ buffer' = {}
  /\ queue' = IF Batch(buffer) = {} THEN queue ELSE Append(queue, Batch(buffer))
  /\ UNCHANGED <<stdin, host, main, mode, shutdown, thread, watch, edits, lost, walked, spent,
                 fails, after, tools>>

(* The debouncer's Err(errors): logged, whatever it stood for.                *)
NotifyError ==
  /\ watch = "on" /\ buffer # {} /\ Cardinality(lost) < MaxLost
  /\ buffer' = {} /\ lost' = lost \union Batch(buffer)
  /\ UNCHANGED <<stdin, host, main, mode, shutdown, thread, watch, queue, edits, walked, spent,
                 fails, after, tools>>

(* The debouncer's thread ends, and with it the sender.                      *)
DebouncerDies ==
  /\ watch = "on" /\ watch' = "dead" /\ buffer' = {} /\ lost' = lost \union Batch(buffer)
  /\ MaxLost > 0
  /\ UNCHANGED <<stdin, host, main, mode, shutdown, thread, queue, edits, walked, spent,
                 fails, after, tools>>

-----------------------------------------------------------------------------
(* watcher_thread.  The select is biased: the shutdown comes first.          *)
ThreadEnds == thread' = "gone" /\ watch' = "off" /\ buffer' = {} /\ queue' = <<>>

Receives == queue # <<>> /\ shutdown # "sent"

SelectStops ==
  /\ thread = "select" /\ (shutdown = "sent" \/ (watch = "dead" /\ queue = <<>>))
  /\ ThreadEnds
  /\ UNCHANGED <<stdin, host, main, mode, shutdown, edits, lost, walked, spent, fails, after,
                 tools>>

SelectReceives ==
  /\ thread = "select" /\ Receives
  /\ thread' = "drain" /\ queue' = Tail(queue)
  /\ UNCHANGED <<stdin, host, main, mode, shutdown, watch, buffer, edits, lost, walked, spent,
                 fails, after, tools>>

Drain ==
  /\ thread = "drain"
  /\ thread' = "cycle" /\ queue' = <<>>
  /\ after' = IF shutdown = "sent" THEN after + 1 ELSE after
  /\ UNCHANGED <<stdin, host, main, mode, shutdown, watch, buffer, edits, lost, walked, spent,
                 fails, tools>>

(* run_sync_cycle walks the whole project, whatever the batch said, and writes  *)
(* below .codewiki, which notify sees too.                                   *)
Walk ==
  /\ thread = "cycle"
  /\ thread' = "walked" /\ walked' = edits
  /\ buffer' = IF watch = "on" THEN buffer \union {Noise} ELSE buffer
  /\ UNCHANGED <<stdin, host, main, mode, shutdown, watch, queue, edits, lost, spent, fails,
                 after, tools>>

CycleFails ==
  /\ thread = "cycle" /\ fails < MaxFails /\ fails' = fails + 1
  /\ thread' = "select" /\ spent' = edits \ walked
  /\ UNCHANGED <<stdin, host, main, mode, shutdown, watch, buffer, queue, edits, lost, walked,
                 after, tools>>

(* Mutant: the channel is drained again when the cycle has ended. *)
CycleEndsDrained ==
  /\ thread = "walked" /\ thread' \in {"hook", "select"} /\ queue' = <<>>
  /\ UNCHANGED <<stdin, host, main, mode, shutdown, watch, buffer, edits, lost, walked,
                 spent, fails, after, tools>>

(* A cycle that changed something is followed by on_synced, which resolves.    *)
CycleEnds ==
  /\ thread = "walked" /\ thread' \in {"hook", "select"}
  /\ UNCHANGED <<stdin, host, main, mode, shutdown, watch, buffer, queue, edits, lost, walked,
                 spent, fails, after, tools>>

HookEnds ==
  /\ thread = "hook" /\ thread' = "select"
  /\ buffer' = IF watch = "on" THEN buffer \union {Noise} ELSE buffer
  /\ UNCHANGED <<stdin, host, main, mode, shutdown, watch, queue, edits, lost, walked, spent,
                 fails, after, tools>>

-----------------------------------------------------------------------------
(* Tool calls, each a task; handles are by the spelling of projectPath.       *)
At(c, step) == [call EXCEPT ![c].at = step]
Answer(c, a) == [call EXCEPT ![c].at = "done", ![c].answer = a]

CallTool(c, p) ==
  /\ main = "serving" /\ stdin = "open" /\ call[c].at = "idle"
  /\ call' = [call EXCEPT ![c] = [Idle EXCEPT !.at = "asked", !.project = p]]
  /\ UNCHANGED <<stdin, host, main, mode, shutdown, sync, index, handles>>

(* The default project: its handle, or the hint to run `codewiki init`.       *)
AnswerDefault(c) ==
  /\ main = "serving" /\ call[c].at = "asked" /\ call[c].project = Root
  /\ call' = Answer(c, IF mode = "indexed" THEN "default" ELSE "hint")
  /\ UNCHANGED <<stdin, host, main, mode, shutdown, sync, index, handles>>

LookUp(c) ==
  /\ main = "serving" /\ call[c].at = "asked" /\ call[c].project # Root
  /\ call' = IF handles[call[c].project] # "none" THEN Answer(c, handles[call[c].project])
             ELSE IF call[c].project \notin index.there THEN Answer(c, "error")
             ELSE At(c, "opening")
  /\ UNCHANGED <<stdin, host, main, mode, shutdown, sync, index, handles>>

OpenHandle(c) ==
  /\ main = "serving" /\ call[c].at = "opening"
  /\ \/ call' = Answer(c, "error")
     \/ call' = At(c, "storing")
  /\ UNCHANGED <<stdin, host, main, mode, shutdown, sync, index, handles>>

(* Mutant: insert() in place of entry().or_insert(). *)
Insert(old, new) == new
(* entry().or_insert_with(): who comes second takes the first one's handle.  A   *)
(* handle has the name of the call that opened it.                           *)
InsertOrKeep(old, new) == IF old = "none" THEN new ELSE old

StoreHandle(c) ==
  LET p == call[c].project
      h == InsertOrKeep(handles[p], c)
  IN /\ main = "serving" /\ call[c].at = "storing"
     /\ handles' = [handles EXCEPT ![p] = h] /\ call' = Answer(c, h)
     /\ UNCHANGED <<stdin, host, main, mode, shutdown, sync, index>>

(* `codewiki init` and `uninit` run beside the server, which looks at its own   *)
(* project at the start only.                                               *)
Reindex(p) ==
  /\ index.changes < MaxIndexings
  /\ index' = [there |-> IF p \in index.there THEN index.there \ {p} ELSE index.there \union {p},
               changes |-> index.changes + 1]
  /\ UNCHANGED <<stdin, host, main, mode, shutdown, sync, handles, call>>

-----------------------------------------------------------------------------
(* The host closes the pipe, or dies: then the pipe closes too unless another   *)
(* process has inherited it.                                                *)
StdinCloses ==
  /\ stdin = "open" /\ stdin' = "closed"
  /\ UNCHANGED <<host, main, mode, shutdown, sync, tools>>

HostDies ==
  /\ host = "alive" /\ host' = "dead" /\ stdin' \in {stdin, "closed"}
  /\ UNCHANGED <<main, mode, shutdown, sync, tools>>

(* Mutant: the drop of the handle joins the thread without telling it to stop. *)
ServeReturnsSilent ==
  /\ main = "serving" /\ stdin = "closed"
  /\ main' = IF shutdown = "none" THEN "exited" ELSE "joining"
  /\ UNCHANGED <<stdin, host, mode, shutdown, sync, tools>>

(* serve_stdio returns, at EOF or on an error of the transport; _watcher is     *)
(* dropped: stop sends, then joins.                                         *)
ServeReturns ==
  /\ main = "serving" /\ stdin = "closed"
  /\ IF shutdown = "none" THEN main' = "exited" /\ UNCHANGED shutdown
     ELSE main' = "joining" /\ shutdown' = "sent"
  /\ UNCHANGED <<stdin, host, mode, sync, tools>>

(* Mutant: the drop of the handle does not wait for the thread. *)
NotJoined == TRUE
Joined == thread \in {"none", "gone"}

Join ==
  /\ main = "joining" /\ Joined /\ main' = "exited"
  /\ UNCHANGED <<stdin, host, mode, shutdown, sync, tools>>

-----------------------------------------------------------------------------
Init ==
  /\ stdin = "open" /\ host = "alive" /\ main = "starting" /\ mode = "none"
  /\ shutdown = "none" /\ thread = "none" /\ watch = "off"
  /\ buffer = {} /\ queue = <<>> /\ edits = {} /\ lost = {} /\ walked = {} /\ spent = {}
  /\ fails = 0 /\ after = 0
  /\ index \in [there : SUBSET (Project \union {Root}), changes : {0}]
  /\ handles = [p \in Project |-> "none"] /\ call = [c \in Call |-> Idle]

Start == StartUnindexed \/ StartFails \/ StartUnwatched \/ StartWatched
ThreadStep ==
  SelectStops \/ SelectReceives \/ Drain \/ Walk \/ CycleFails \/ CycleEnds \/ HookEnds
Stop == ServeReturns \/ Join
CallStep(c) == AnswerDefault(c) \/ LookUp(c) \/ OpenHandle(c) \/ StoreHandle(c)

Next ==
  \/ Start \/ Edit \/ Emit \/ NotifyError \/ DebouncerDies \/ ThreadStep
  \/ \E c \in Call : CallStep(c) \/ \E p \in Project \union {Root} : CallTool(c, p)
  \/ \E p \in Project : Reindex(p)
  \/ StdinCloses \/ HostDies \/ Stop

(* Threads run and the debounce window ends; nobody need edit, call or leave.   *)
Fairness ==
  /\ WF_vars(Start) /\ WF_vars(Emit) /\ WF_vars(ThreadStep) /\ WF_vars(Stop)

Spec == Init /\ [][Next]_vars
FairSpec == Spec /\ Fairness

-----------------------------------------------------------------------------
(* What the server promises its host, its user and its callers.              *)

(* The types, and which threads go together: a thread that runs has a handle    *)
(* that can stop it, and only a running thread has a queue.                   *)
ThreadTypeOK ==
  /\ main \in {"starting", "serving", "joining", "exited"} /\ mode \in {"none", "indexed", "unindexed"}
  /\ thread \in {"none", "select", "drain", "cycle", "walked", "hook", "gone"}
  /\ shutdown = "none" <=> thread = "none"
  /\ thread \in {"none", "gone"} => watch = "off" /\ queue = <<>>
  /\ edits \in SUBSET (Nat \ {Noise}) /\ IsFiniteSet(edits) /\ queue \in Seq(SUBSET Nat)
  /\ walked \union spent \union lost \subseteq edits /\ buffer \subseteq edits \union {Noise}

CallTypeOK ==
  /\ handles \in [Project -> Call \union {"none"}]
  /\ call \in [Call -> Calls]

TypeOK == ThreadTypeOK /\ CallTypeOK

(* When the live-sync thread waits and nothing is on its way to it, every edit   *)
(* was walked over by a cycle that began after it, or met a cycle that failed,   *)
(* or was lost by notify: draining the batches of a burst loses none of them.    *)
NoMissedChange ==
  thread = "select" /\ watch = "on" /\ queue = <<>> /\ buffer \subseteq {Noise} =>
    edits \subseteq walked \union spent \union lost

(* The process does not end inside a cycle or its resolution.                 *)
ExitsBetweenCycles == main = "exited" => thread \in {"none", "gone"}

(* After the stop has been sent at most one more cycle begins, however many      *)
(* batches wait and however fast the user edits.                            *)
StopsSoon == after <= 1

(* All calls that name a project are answered through one handle, opened once     *)
(* and kept, also when two of them looked it up together.                     *)
SharedHandle ==
  \A c, d \in Call :
    call[c].project = call[d].project /\ {call[c].answer, call[d].answer} \subseteq Call =>
      call[c].answer = call[d].answer

(* A server whose stdin has closed ends, whatever the thread is doing.         *)
Exits == stdin = "closed" ~> main = "exited"

(* An edit that notify has seen is walked over, unless its cycle fails or the     *)
(* thread stops first.                                                     *)
EditsReachIndex ==
  \A n \in 1..MaxEdits : n \in buffer ~> n \in walked \union spent \union lost \/ thread = "gone"

(* The thread's own writes below .codewiki do not keep it running.             *)
Settles == <>[](thread \in {"none", "select", "gone"})

-----------------------------------------------------------------------------
(* The properties above, by what they are about. *)

(* Threads, queue and process go together, the process ends between two cycles  *)
(* and soon after it was told to.                                           *)
EndsBetweenCycles == TypeOK /\ ExitsBetweenCycles /\ StopsSoon

(* Live sync serves: the process ends with its stdin, every edit is walked      *)
(* over, and without edits the thread comes to rest.                        *)
LiveSyncServes == Exits /\ EditsReachIndex /\ Settles
=============================================================================
