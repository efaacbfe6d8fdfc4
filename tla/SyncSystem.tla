----------------------------- MODULE SyncSystem -----------------------------
(***************************************************************************)
(* The processes that keep the index of one project current: the watcher   *)
(* thread of `codewiki serve` (Live), runs of `codewiki sync` started by   *)
(* the git hooks or by hand (Cli), and runs of `codewiki index` (Indexer). *)
(* All share the index, each through a connection of its own; the cycle of *)
(* a sync holds .codewiki/.sync.lock, resolution and `index` do not.  The  *)
(* user edits files at any moment and any process can be killed.           *)
(***************************************************************************)
EXTENDS IndexStore

CONSTANTS
  Live, Cli, Indexer,   \* disjoint sets of processes
  NoProc,               \* the lock is free
  NoFile, NoText,       \* absent on disk; not read
  Structural,           \* pairs <<type, interface>> whose method sets match
  Texts,                \* file -> the texts the user may give it
  RawSize,              \* text -> its length on disk, byte-order mark included
  ZeroStamp,            \* files whose extractor records modified_at = 0
  CoarseClock,          \* may an edit leave the mtime as it was?
  FallbackDivisor,      \* 10 in the code: share of files that forces a full pass
  CommitRetries,        \* COMMIT_RETRIES
  MaxEdits, MaxRuns, MaxFaults, MaxCrashes   \* bounds on the environment

Proc == Live \cup Cli \cup Indexer

ASSUME SystemAssumption ==
  /\ NoProc \notin Proc /\ NoText \notin Content
  /\ NoFile \notin [text : Content, mtime : Nat]
  /\ Live \cap Cli = {} /\ Indexer \cap (Live \cup Cli) = {}
  /\ Texts \in [File -> SUBSET Content]
  /\ RawSize \in [Content -> Nat]
  /\ Structural \subseteq Symbol \X Symbol
  /\ CoarseClock \in BOOLEAN
  /\ FallbackDivisor \in Nat \ {0}
  /\ {CommitRetries, MaxEdits, MaxRuns, MaxFaults, MaxCrashes} \subseteq Nat

VARIABLES
  disk,                    \* file -> its text and mtime, or NoFile
  edits,                   \* edits made so far
  lock,                    \* holder of .sync.lock
  trigger,                 \* watchers with a change batch in their channel
  runs, faults, crashes,   \* used up of the bounds above
  pc,                      \* where each process is
  left,                    \* files its current phase has still to handle
  work, gone,              \* files to extract; files to delete
  src,                     \* text read but not yet extracted
  batch,                   \* FileRecord extracted but not yet written back
  cache,                   \* nodes the resolver's indexes were warmed with
  todo,                    \* references fetched for resolution
  joins,                   \* structural edges to commit after the references
  chosen, ok,              \* resolved edges to commit; those whose ends exist
  tries                    \* failed attempts to commit them

world == <<disk, edits>>
budgets == <<runs, faults, crashes>>
cycle == <<left, work, gone, src, batch>>
resolution == <<cache, todo, joins, chosen, ok, tries>>
vars == <<store, world, lock, trigger, budgets, pc, cycle, resolution>>

InCycle == {"classify", "remove", "read", "store", "meta", "again"}
InResolution == {"scope", "match", "warm", "fetch", "check", "commit"}
InIndex == {"gather"}

Stamp == [text : Content, mtime : Nat]

TypeOK ==
  /\ StoreTypeOK
  /\ disk \in [File -> Stamp \cup {NoFile}]
  /\ edits \in Nat
  /\ lock \in Proc \cup {NoProc}
  /\ trigger \in SUBSET Live
  /\ runs \in Nat /\ faults \in Nat /\ crashes \in Nat
  /\ pc \in [Proc -> {"idle", "down"} \cup InCycle \cup InResolution \cup InIndex]
  /\ left \in [Proc -> SUBSET File]
  /\ work \in [Proc -> SUBSET File]
  /\ gone \in [Proc -> SUBSET File]
  /\ src \in [Proc -> [File -> Content \cup {NoText}]]
  /\ batch \in [Proc -> [File -> Row \cup {NoRow}]]
  /\ cache \in [Proc -> SUBSET Node]
  /\ todo \in [Proc -> SUBSET Ref]
  /\ joins \in [Proc -> SUBSET Edge]
  /\ chosen \in [Proc -> SUBSET Choice]
  /\ ok \in [Proc -> SUBSET Choice]
  /\ tries \in [Proc -> Nat]

(* What resolving the references rs against the nodes ns may choose: every  *)
(* reference some node can answer gets one such node.  Which one is the      *)
(* resolver's ranking (imports, proximity, confidence), left open here.      *)
Matches(rs, ns) ==
  LET R == {r \in rs : \E n \in ns : n[2] \in Answers[r.name]}
      pick == {g \in [R -> ns] : \A r \in R : g[r][2] \in Answers[r.name]}
  IN {{[edge |-> <<r.src, g[r]>>, from |-> {r}] : r \in R} : g \in pick}

(* synthesize_structural_implements: an edge from every Go type to every     *)
(* interface its methods cover, whatever edges there are already.            *)
Implements(ns) ==
  {e \in ns \X ns : e[1] # e[2] /\ <<e[1][2], e[2][2]>> \in Structural}

(* The references extraction finds in the files, before any is resolved. *)
FirstRefs ==
  {r \in [gen : {0}, src : nodes, name : Name] :
     <<r.src[2], r.name>> \in Uses[files[r.src[1]].hash]}

(* The full pass of `init` committed the edges `done` and the structural ones. *)
Resolved(done) ==
  /\ edges = [e \in Edge |->
       (IF e[1] \in nodes /\ IsLocal(e, files[e[1][1]]) THEN 1 ELSE 0)
         + (IF \E x \in done : x.edge = e THEN 1 ELSE 0)
         + (IF e \in Implements(nodes) THEN 1 ELSE 0)]
  /\ refs = {r \in FirstRefs : \A x \in done : r \notin x.from}

(* The project as a completed `codewiki init` leaves it: every file on disk *)
(* extracted and every reference tried once.                                *)
Init ==
  /\ disk \in [File -> {NoFile} \cup [text : Content, mtime : {1}]]
  /\ \A f \in File : disk[f] # NoFile => disk[f].text \in Texts[f]
  /\ files = [f \in File |->
       IF disk[f] = NoFile THEN NoRow
       ELSE Extract(disk[f].text, IF f \in ZeroStamp THEN 0 ELSE disk[f].mtime)]
  /\ nodes = {n \in Node : files[n[1]] # NoRow /\ n[2] \in Defs[files[n[1]].hash]}
  /\ \E done \in Matches(FirstRefs, nodes) : Resolved(done)
  /\ gen = 1
  /\ edits = 0 /\ runs = 0 /\ faults = 0 /\ crashes = 0
  /\ lock = NoProc
  /\ trigger = {}
  /\ pc = [p \in Proc |-> "idle"]
  /\ left = [p \in Proc |-> {}]
  /\ work = [p \in Proc |-> {}]
  /\ gone = [p \in Proc |-> {}]
  /\ src = [p \in Proc |-> [f \in File |-> NoText]]
  /\ batch = [p \in Proc |-> [f \in File |-> NoRow]]
  /\ cache = [p \in Proc |-> {}]
  /\ todo = [p \in Proc |-> {}]
  /\ joins = [p \in Proc |-> {}]
  /\ chosen = [p \in Proc |-> {}]
  /\ ok = [p \in Proc |-> {}]
  /\ tries = [p \in Proc |-> 0]

-----------------------------------------------------------------------------
(* The user and the operating system. *)

(* Mutant: a watcher that is syncing ignores the change. *)
NotifyIdle == trigger' = trigger \cup {p \in Live : pc[p] = "idle"}

(* A change reaches the channel of every watcher that is running; the two   *)
(* seconds of debouncing are the delay before the watcher takes it.         *)
Notify == trigger' = trigger \cup {p \in Live : pc[p] # "down"}

Edit(f, c, t) ==
  /\ edits < MaxEdits
  /\ c \in Texts[f]
  /\ \/ t = edits + 2
     \/ CoarseClock /\ disk[f] # NoFile /\ disk[f].text # c /\ t = disk[f].mtime
  /\ disk' = [disk EXCEPT ![f] = [text |-> c, mtime |-> t]]
  /\ edits' = edits + 1
  /\ Notify
  /\ UNCHANGED <<store, lock, budgets, pc, cycle, resolution>>

Erase(f) ==
  /\ edits < MaxEdits
  /\ disk[f] # NoFile
  /\ disk' = [disk EXCEPT ![f] = NoFile]
  /\ edits' = edits + 1
  /\ Notify
  /\ UNCHANGED <<store, lock, budgets, pc, cycle, resolution>>

(* A call that reports an error although nothing in the model made it fail:  *)
(* SQLITE_BUSY after busy_timeout, a full disk.                              *)
Fault == faults < MaxFaults /\ faults' = faults + 1
NoFault == UNCHANGED faults

(* The locals of a run end with it. *)
Forget(p) ==
  /\ left' = [left EXCEPT ![p] = {}]
  /\ work' = [work EXCEPT ![p] = {}]
  /\ gone' = [gone EXCEPT ![p] = {}]
  /\ src' = [src EXCEPT ![p] = [f \in File |-> NoText]]
  /\ batch' = [batch EXCEPT ![p] = [f \in File |-> NoRow]]
  /\ cache' = [cache EXCEPT ![p] = {}]
  /\ todo' = [todo EXCEPT ![p] = {}]
  /\ joins' = [joins EXCEPT ![p] = {}]
  /\ chosen' = [chosen EXCEPT ![p] = {}]
  /\ ok' = [ok EXCEPT ![p] = {}]
  /\ tries' = [tries EXCEPT ![p] = 0]

Goto(p, to) == pc' = [pc EXCEPT ![p] = to]

(* The operating system drops the advisory lock of a killed process; SQLite *)
(* rolls an open transaction back, so the store is what was committed.      *)
Crash(p) ==
  /\ crashes < MaxCrashes
  /\ pc[p] # "down" /\ (p \in Live \/ pc[p] # "idle")
  /\ crashes' = crashes + 1
  /\ Goto(p, IF p \in Live THEN "down" ELSE "idle")
  /\ trigger' = trigger \ {p}
  /\ lock' = IF lock = p THEN NoProc ELSE lock
  /\ Forget(p)
  /\ UNCHANGED <<store, world, runs, faults>>

(* `serve` starts again; it watches, it does not sync what it missed. *)
Restart(p) ==
  /\ pc[p] = "down"
  /\ Goto(p, "idle")
  /\ UNCHANGED <<store, world, lock, trigger, budgets, cycle, resolution>>

-----------------------------------------------------------------------------
(* One sync cycle: run_sync_cycle and the process_changes it calls. *)

OnDisk == {f \in File : disk[f] # NoFile}

(* A watcher wakes for a change batch and drains the channel; a command runs *)
(* when it is started.                                                       *)
Wake(p) ==
  /\ pc[p] = "idle"
  /\ \/ p \in trigger /\ trigger' = trigger \ {p} /\ UNCHANGED budgets
     \/ /\ p \in Cli /\ runs < MaxRuns
        /\ runs' = runs + 1 /\ UNCHANGED <<trigger, faults, crashes>>

(* try_lock_exclusive succeeds. *)
LockFree == lock = NoProc

(* Mutant: a path out of the cycle forgets the guard. *)
KeepLock == UNCHANGED lock
(* The guard `_lock` is dropped when run_sync_cycle returns, by any path. *)
Unlock == lock' = NoProc

(* The lock is taken without waiting, then the project is walked. *)
BeginCycle(p) ==
  /\ Wake(p)
  /\ LockFree
  /\ lock' = p
  /\ left' = [left EXCEPT ![p] = OnDisk]
  /\ Goto(p, "classify")
  /\ UNCHANGED <<store, world, work, gone, src, batch, resolution>>

(* "another sync is already in progress": the cycle fails, the change batch *)
(* that woke the watcher is spent.                                          *)
LockBusy(p) ==
  /\ Wake(p)
  /\ ~LockFree
  /\ UNCHANGED <<store, world, lock, pc, cycle, resolution>>

(* metadata() of a walked file; a file that vanished since reads as zeros. *)
StatTime(f) == IF disk[f] = NoFile THEN 0 ELSE disk[f].mtime
StatSize(f) == IF disk[f] = NoFile THEN 0 ELSE RawSize[disk[f].text]

(* Mutant: the mtime tier alone. *)
ModifiedByTime(f) == StatTime(f) # files[f].mtime
(* Mutant: no hash comparison where the sizes differ. *)
ModifiedBySize(f) ==
  StatTime(f) # files[f].mtime \/ StatSize(f) # files[f].size
(* mtime differs, or size differs and the hash of a fresh read does too. *)
Modified(f) ==
  \/ StatTime(f) # files[f].mtime
  \/ /\ StatSize(f) # files[f].size
     /\ disk[f] = NoFile \/ disk[f].text # files[f].hash

Rows == {f \in File : files[f] # NoRow}

Changed(walked) == (walked \ Rows) \cup {f \in walked \cap Rows : Modified(f)}

(* Nothing to do: SyncResult::noop, and no resolution follows. *)
Noop(p) ==
  /\ pc[p] = "classify"
  /\ Changed(left[p]) = {} /\ Rows \subseteq left[p]
  /\ Unlock
  /\ Goto(p, "idle")
  /\ Forget(p)
  /\ UNCHANGED <<store, world, trigger, budgets>>

Classify(p) ==
  /\ pc[p] = "classify"
  /\ ~(Changed(left[p]) = {} /\ Rows \subseteq left[p])
  /\ work' = [work EXCEPT ![p] = Changed(left[p])]
  /\ gone' = [gone EXCEPT ![p] = Rows \ left[p]]
  /\ left' = [left EXCEPT ![p] = Rows \ left[p]]
  /\ Goto(p, "remove")
  /\ UNCHANGED <<store, world, lock, trigger, budgets, src, batch, resolution>>

(* delete_file for each removed path, once before extraction and once after; *)
(* a failure is logged and the cycle goes on.                                *)
RemoveFile(p) ==
  /\ pc[p] \in {"remove", "again"}
  /\ \E f \in left[p] :
       /\ left' = [left EXCEPT ![p] = @ \ {f}]
       /\ \/ DeleteFile(f) /\ NoFault
          \/ UNCHANGED store /\ Fault
  /\ UNCHANGED <<world, lock, trigger, runs, crashes, pc,
                 work, gone, src, batch, resolution>>

BeginRead(p) ==
  /\ pc[p] = "remove" /\ left[p] = {}
  /\ left' = [left EXCEPT ![p] = work[p]]
  /\ Goto(p, "read")
  /\ UNCHANGED <<store, world, lock, trigger, budgets,
                 work, gone, src, batch, resolution>>

(* read_source_file: a file that cannot be read any more drops out. *)
ReadSource(p) ==
  /\ pc[p] \in {"read", "gather"}
  /\ \E f \in left[p] :
       /\ left' = [left EXCEPT ![p] = @ \ {f}]
       /\ src' = [src EXCEPT ![p][f] =
                    IF disk[f] = NoFile THEN NoText ELSE disk[f].text]
  /\ UNCHANGED <<store, world, lock, trigger, budgets, pc,
                 work, gone, batch, resolution>>

BeginStore(p) ==
  /\ pc[p] = "read" /\ left[p] = {}
  /\ Goto(p, "store")
  /\ UNCHANGED <<store, world, lock, trigger, budgets, cycle, resolution>>

(* The record's modified_at is read from disk after the text was parsed. *)
StampNow(f) == IF f \in ZeroStamp THEN 0 ELSE StatTime(f)

(* extract_file and store_batch on one rayon worker: whether the batch was   *)
(* stored or not, its record goes into the result.                           *)
ExtractAndStore(p) ==
  /\ pc[p] = "store"
  /\ \E f \in File :
       /\ src[p][f] # NoText
       /\ LET row == Extract(src[p][f], StampNow(f)) IN
            /\ batch' = [batch EXCEPT ![p][f] = row]
            /\ \/ StoreBatch(f, row) /\ NoFault
               \/ UNCHANGED store /\ Fault
       /\ src' = [src EXCEPT ![p][f] = NoText]
  /\ UNCHANGED <<world, lock, trigger, runs, crashes, pc,
                 left, work, gone, resolution>>

BeginMetadata(p) ==
  /\ pc[p] = "store"
  /\ \A f \in File : src[p][f] = NoText
  /\ Goto(p, "meta")
  /\ UNCHANGED <<store, world, lock, trigger, budgets, cycle, resolution>>

(* update_file_metadata: one upsert per record, outside any transaction. *)
WriteMetadata(p) ==
  /\ pc[p] = "meta"
  /\ \E f \in File :
       /\ batch[p][f] # NoRow
       /\ UpsertRow(f, batch[p][f])
       /\ batch' = [batch EXCEPT ![p][f] = NoRow]
  /\ UNCHANGED <<world, lock, trigger, budgets, pc,
                 left, work, gone, src, resolution>>

(* An error of get_stale_files or of update_file_metadata ends the cycle,   *)
(* before resolution.                                                       *)
CycleFails(p) ==
  /\ \/ pc[p] = "classify"
     \/ pc[p] = "meta" /\ \E f \in File : batch[p][f] # NoRow
  /\ Fault
  /\ Unlock
  /\ Goto(p, "idle")
  /\ Forget(p)
  /\ UNCHANGED <<store, world, trigger, runs, crashes>>

BeginAgain(p) ==
  /\ pc[p] = "meta"
  /\ \A f \in File : batch[p][f] = NoRow
  /\ left' = [left EXCEPT ![p] = gone[p]]
  /\ Goto(p, "again")
  /\ UNCHANGED <<store, world, lock, trigger, budgets,
                 work, gone, src, batch, resolution>>

(* run_sync_cycle returns and its lock guard drops; resolution comes after. *)
EndCycle(p) ==
  /\ pc[p] = "again" /\ left[p] = {}
  /\ Unlock
  /\ Goto(p, "scope")
  /\ UNCHANGED <<store, world, trigger, budgets, cycle, resolution>>

-----------------------------------------------------------------------------
(* Resolution: run_resolution_incremental and run_resolution. *)

ChangedPaths(p) == work[p] \cup gone[p]

Threshold ==
  LET tenth == Cardinality(Rows) \div FallbackDivisor IN IF tenth < 1 THEN 1 ELSE tenth

(* Too many changed files, or a count that cannot be read and passes for     *)
(* none: the full pass, which warms its caches first.                        *)
ScopeFull(p) ==
  /\ pc[p] = "scope"
  /\ \/ Cardinality(ChangedPaths(p)) >= Threshold /\ NoFault
     \/ Fault
  /\ Goto(p, "warm")
  /\ UNCHANGED <<store, world, lock, trigger, runs, crashes, cycle, resolution>>

(* Mutant: the newly-nameable references are left out. *)
ScopedByFile(S) == { RefsOfFiles(S), RefsOfFiles(DependentFiles(S)) }
(* Otherwise the references of the changed files, of the files with an edge  *)
(* into them, and those naming a symbol they now define.                     *)
ScopedRefs(S) ==
  { RefsOfFiles(S), RefsOfFiles(DependentFiles(S)),
    RefsByNames({n[2] : n \in {m \in nodes : m[1] \in S}}) }

(* A query that fails passes for one without rows. *)
ScopeIncremental(p) ==
  /\ pc[p] = "scope"
  /\ Cardinality(ChangedPaths(p)) < Threshold
  /\ \/ /\ todo' = [todo EXCEPT ![p] = UNION ScopedRefs(ChangedPaths(p))]
        /\ NoFault
     \/ /\ \E S \in SUBSET ScopedRefs(ChangedPaths(p)) :
             todo' = [todo EXCEPT ![p] = UNION S]
        /\ Fault
  /\ Goto(p, "match")
  /\ UNCHANGED <<store, world, lock, trigger, runs, crashes, cycle,
                 cache, joins, chosen, ok, tries>>

(* warm_caches after the fetch, and resolve_one on what was fetched. *)
Match(p) ==
  /\ pc[p] = "match"
  /\ \E m \in Matches(todo[p], nodes) : chosen' = [chosen EXCEPT ![p] = m]
  /\ todo' = [todo EXCEPT ![p] = {}]
  /\ Goto(p, "check")
  /\ UNCHANGED <<store, world, lock, trigger, budgets, cycle,
                 cache, joins, ok, tries>>

(* The full pass: warm_caches and the structural edges of all nodes ... *)
Warm(p) ==
  /\ pc[p] = "warm"
  /\ cache' = [cache EXCEPT ![p] = nodes]
  /\ joins' = [joins EXCEPT ![p] = Implements(nodes)]
  /\ Goto(p, "fetch")
  /\ UNCHANGED <<store, world, lock, trigger, budgets, cycle,
                 todo, chosen, ok, tries>>

(* ... then every unresolved reference. *)
FetchAll(p) ==
  /\ pc[p] = "fetch"
  /\ \E m \in Matches(refs, cache[p]) : chosen' = [chosen EXCEPT ![p] = m]
  /\ cache' = [cache EXCEPT ![p] = {}]
  /\ Goto(p, "check")
  /\ UNCHANGED <<store, world, lock, trigger, budgets, cycle,
                 todo, joins, ok, tries>>

(* commit_resolved_batch looks up the ends before it begins its transaction. *)
CheckEnds(p) ==
  /\ pc[p] = "check"
  /\ ok' = [ok EXCEPT ![p] = Existing(chosen[p])]
  /\ Goto(p, "commit")
  /\ UNCHANGED <<store, world, lock, trigger, budgets, cycle,
                 cache, todo, joins, chosen, tries>>

(* The structural edges of a full pass follow the references through the    *)
(* same call, which is then made once only.                                 *)
Commit(p) ==
  /\ pc[p] = "commit"
  /\ ~CommitAborts(ok[p])
  /\ CommitResolved(chosen[p], ok[p])
  /\ IF joins[p] = {}
     THEN Goto(p, "idle") /\ Forget(p)
     ELSE /\ chosen' = [chosen EXCEPT ![p] = [edge : joins[p], from : {{}}]]
          /\ joins' = [joins EXCEPT ![p] = {}]
          /\ ok' = [ok EXCEPT ![p] = {}]
          /\ tries' = [tries EXCEPT ![p] = CommitRetries]
          /\ Goto(p, "check")
          /\ UNCHANGED <<cycle, cache, todo>>
  /\ UNCHANGED <<world, lock, trigger, budgets>>

(* A failed commit is tried again with the same edges, at most CommitRetries *)
(* times.                                                                    *)
RetryCommit(p) ==
  /\ pc[p] = "commit"
  /\ \/ CommitAborts(ok[p]) /\ NoFault
     \/ Fault
  /\ tries[p] < CommitRetries
  /\ tries' = [tries EXCEPT ![p] = @ + 1]
  /\ Goto(p, "check")
  /\ UNCHANGED <<store, world, lock, trigger, runs, crashes, cycle,
                 cache, todo, joins, chosen, ok>>

GiveUpCommit(p) ==
  /\ pc[p] = "commit"
  /\ \/ CommitAborts(ok[p]) /\ NoFault
     \/ Fault
  /\ tries[p] = CommitRetries
  /\ Goto(p, "idle")
  /\ Forget(p)
  /\ UNCHANGED <<store, world, lock, trigger, runs, crashes>>

(* The index cannot be opened or read: resolution ends with an error. *)
ResolutionFails(p) ==
  /\ pc[p] \in {"match", "warm", "fetch"}
  /\ Fault
  /\ Goto(p, "idle")
  /\ Forget(p)
  /\ UNCHANGED <<store, world, lock, trigger, runs, crashes>>

-----------------------------------------------------------------------------
(* `codewiki index`: every file on disk, in one bulk transaction, no lock. *)

BeginIndex(p) ==
  /\ p \in Indexer /\ pc[p] = "idle" /\ runs < MaxRuns
  /\ runs' = runs + 1
  /\ left' = [left EXCEPT ![p] = OnDisk]
  /\ Goto(p, "gather")
  /\ UNCHANGED <<store, world, lock, trigger, faults, crashes,
                 work, gone, src, batch, resolution>>

ExtractForIndex(p) ==
  /\ pc[p] = "gather"
  /\ \E f \in File :
       /\ src[p][f] # NoText
       /\ batch' = [batch EXCEPT ![p][f] = Extract(src[p][f], StampNow(f))]
       /\ src' = [src EXCEPT ![p][f] = NoText]
  /\ UNCHANGED <<store, world, lock, trigger, budgets, pc,
                 left, work, gone, resolution>>

Gathered(p) ==
  /\ pc[p] = "gather"
  /\ left[p] = {} /\ \A f \in File : src[p][f] = NoText

Flush(p) ==
  /\ Gathered(p)
  /\ \E f \in File : batch[p][f] # NoRow
  /\ StoreBulk([f \in {g \in File : batch[p][g] # NoRow} |-> batch[p][f]])
  /\ batch' = [batch EXCEPT ![p] = [f \in File |-> NoRow]]
  /\ Goto(p, "warm")
  /\ UNCHANGED <<world, lock, trigger, budgets, left, work, gone, src, resolution>>

(* Nothing discovered or nothing persisted: check_index_outcome ends the     *)
(* command before resolution.                                               *)
EndIndex(p) ==
  /\ Gathered(p)
  /\ IF \E f \in File : batch[p][f] # NoRow THEN Fault ELSE NoFault
  /\ Goto(p, "idle")
  /\ Forget(p)
  /\ UNCHANGED <<store, world, lock, trigger, runs, crashes>>

-----------------------------------------------------------------------------
Work(p) ==
  \/ Noop(p) \/ Classify(p) \/ RemoveFile(p) \/ BeginRead(p) \/ ReadSource(p)
  \/ BeginStore(p) \/ ExtractAndStore(p) \/ BeginMetadata(p) \/ WriteMetadata(p)
  \/ CycleFails(p) \/ BeginAgain(p) \/ EndCycle(p)
  \/ ScopeFull(p) \/ ScopeIncremental(p) \/ Match(p) \/ Warm(p) \/ FetchAll(p)
  \/ CheckEnds(p) \/ Commit(p) \/ RetryCommit(p) \/ GiveUpCommit(p)
  \/ ResolutionFails(p)
  \/ ExtractForIndex(p) \/ Flush(p) \/ EndIndex(p)

Start(p) == BeginCycle(p) \/ LockBusy(p)

Environment ==
  \/ \E f \in File, c \in Content, t \in 1 .. MaxEdits + 1 : Edit(f, c, t)
  \/ \E f \in File : Erase(f)
  \/ \E p \in Proc : Crash(p) \/ Restart(p) \/ BeginIndex(p)

Next ==
  \/ \E p \in Proc : Start(p) \/ Work(p)
  \/ Environment

(* Threads and processes that run keep running; a watcher with a batch in   *)
(* its channel wakes.  Nothing obliges the user to edit, to start a command *)
(* or to restart the server.                                                *)
Fairness ==
  /\ \A p \in Proc : WF_vars(Work(p))
  /\ \A p \in Live : WF_vars(Start(p))

Spec == Init /\ [][Next]_vars
FairSpec == Spec /\ Fairness
=============================================================================
