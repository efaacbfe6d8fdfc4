-------------------------- MODULE ResolvePipeline --------------------------
(* run_until_empty_parallel of codewiki-resolution/src/batch.rs: the calling *)
(* thread fetches every reference, page by page; workers, one per shard,     *)
(* resolve them and send the edges over a bounded channel; one writer thread *)
(* commits them in chunks.                                                   *)
EXTENDS Integers, FiniteSets

CONSTANTS
  MaxRef,         \* bound on the ids of unresolved_refs
  Resolvable,     \* the references for which resolve_one finds a node
  Worker,         \* one task of the rayon scope for each shard
  ShardOf,        \* the shard of a reference's file (file_path_shard)
  PageSize,       \* FETCH_PAGE
  Depth,          \* PARALLEL_CHANNEL_DEPTH
  Chunk,          \* PARALLEL_COMMIT_CHUNK
  CommitRetries,  \* COMMIT_RETRIES
  MaxFaults       \* bound on failing storage calls

ASSUME PipelineAssumption ==
  /\ MaxRef \in Nat
  /\ Resolvable \subseteq 1..MaxRef
  /\ ShardOf \in [1..MaxRef -> Worker]
  /\ PageSize \in Nat \ {0} /\ Depth \in Nat \ {0} /\ Chunk \in Nat \ {0}
  /\ CommitRetries \in Nat /\ MaxFaults \in Nat

(* A copy <<page, id>> of a row in memory: two pages that return the same row *)
(* make two copies of it.                                                     *)
Copy == Nat \X (1..MaxRef)
IdsOf(copies) == {c[2] : c \in copies}
Wanted(copies) == {c \in copies : c[2] \in Resolvable}

VARIABLES
  table,    \* the ids in unresolved_refs
  made,     \* the last id AUTOINCREMENT has given
  old,      \* history: the references there when the pass began
  phase,    \* where the calling thread is; "ok" and "failed" are its result
  cursor,   \* last_id
  page,     \* pages fetched so far
  fetched,  \* all_refs
  todo,     \* what the shards still hold
  chan,     \* edges in the channel
  writer,   \* where the writer thread is; "ok" and "failed" are its result
  buf,      \* edges the writer has received and not committed
  tries,    \* attempts of commit_chunk
  handled,  \* copies whose transaction is committed
  faults

queue == <<table, made, old>>
fetching == <<cursor, page, fetched>>
vars == <<table, made, old, phase, cursor, page, fetched, todo, chan, writer, buf,
          tries, handled, faults>>

Init ==
  /\ made \in 0..MaxRef
  /\ table \in SUBSET (1..made)
  /\ old = table
  /\ phase = "fetch" /\ cursor = 0 /\ page = 0 /\ fetched = {}
  /\ todo = {} /\ chan = {}
  /\ writer = "idle" /\ buf = {} /\ tries = 0 /\ handled = {}
  /\ faults = 0

Fault == faults < MaxFaults /\ faults' = faults + 1

-----------------------------------------------------------------------------
(* Other processes: a sync that stores or deletes a file. *)

Arrive ==
  /\ made < MaxRef
  /\ made' = made + 1
  /\ table' = table \cup {made + 1}
  /\ UNCHANGED <<old, phase, fetching, todo, chan, writer, buf, tries, handled, faults>>

Vanish(r) ==
  /\ table' = table \ {r}
  /\ UNCHANGED <<made, old, phase, fetching, todo, chan, writer, buf, tries, handled,
                 faults>>

-----------------------------------------------------------------------------
(* The calling thread. *)

(* Mutant: the cursor's row is read again. *)
FromCursor(after) == {r \in table : r >= after}
(* WHERE id > after *)
After(after) == {r \in table : r > after}

(* ORDER BY id LIMIT PageSize *)
IsPage(rows, selected) ==
  /\ rows \subseteq selected
  /\ Cardinality(rows) <= PageSize
  /\ \A r \in rows, s \in selected \ rows : r < s
  /\ Cardinality(rows) = PageSize \/ rows = selected

FetchPage ==
  /\ phase = "fetch"
  /\ \E rows \in SUBSET table :
       /\ IsPage(rows, After(cursor))
       /\ fetched' = fetched \cup ({page} \X rows)
       /\ \/ rows = {} /\ UNCHANGED cursor
          \/ \E last \in rows : (\A r \in rows : r <= last) /\ cursor' = last
       /\ phase' = IF Cardinality(rows) < PageSize THEN "spawn" ELSE "fetch"
  /\ page' = page + 1
  /\ UNCHANGED <<queue, todo, chan, writer, buf, tries, handled, faults>>

FetchFails ==
  /\ phase = "fetch"
  /\ Fault
  /\ phase' = "failed"
  /\ UNCHANGED <<queue, fetching, todo, chan, writer, buf, tries, handled>>

NothingToDo ==
  /\ phase = "spawn" /\ fetched = {}
  /\ phase' = "ok"
  /\ UNCHANGED <<queue, fetching, todo, chan, writer, buf, tries, handled, faults>>

(* The channel, the writer thread, and a task with a sender for each shard. *)
Spawn ==
  /\ phase = "spawn" /\ fetched # {}
  /\ phase' = "scope"
  /\ todo' = fetched
  /\ writer' = "recv"
  /\ UNCHANGED <<queue, fetching, chan, buf, tries, handled, faults>>

DropTx ==
  /\ phase = "scope"
  /\ phase' = "drain"
  /\ UNCHANGED <<queue, fetching, todo, chan, writer, buf, tries, handled, faults>>

(* The scope ends with its last task; the writer's result is the result. *)
Join ==
  /\ phase = "drain" /\ todo = {}
  /\ writer \in {"ok", "failed"}
  /\ phase' = writer
  /\ UNCHANGED <<queue, fetching, todo, chan, writer, buf, tries, handled, faults>>

Caller == FetchPage \/ FetchFails \/ NothingToDo \/ Spawn \/ DropTx \/ Join

-----------------------------------------------------------------------------
(* A worker takes the references of its shard in their order. *)

Shard(w) == {c \in todo : ShardOf[c[2]] = w}
IsNext(c, w) == c \in Shard(w) /\ \A d \in Shard(w) : c[2] <= d[2]

Skip(w) ==
  /\ \E c \in todo : IsNext(c, w) /\ c[2] \notin Resolvable /\ todo' = todo \ {c}
  /\ UNCHANGED <<queue, phase, fetching, chan, writer, buf, tries, handled, faults>>

(* `send` blocks while the channel is full and its receiver lives. *)
Send(w) ==
  /\ Cardinality(chan) < Depth
  /\ writer # "failed"
  /\ \E c \in todo :
       /\ IsNext(c, w) /\ c[2] \in Resolvable
       /\ todo' = todo \ {c}
       /\ chan' = chan \cup {c}
  /\ UNCHANGED <<queue, phase, fetching, writer, buf, tries, handled, faults>>

(* Mutant: something keeps the receiver alive. *)
ReceiverKept == FALSE
(* The writer's early return drops the receiver: `let _ = tx.send(edge)`. *)
ReceiverGone == writer = "failed"

SendIgnored(w) ==
  /\ ReceiverGone
  /\ \E c \in todo : IsNext(c, w) /\ c[2] \in Resolvable /\ todo' = todo \ {c}
  /\ UNCHANGED <<queue, phase, fetching, chan, writer, buf, tries, handled, faults>>

Work(w) == Skip(w) \/ Send(w) \/ SendIgnored(w)

-----------------------------------------------------------------------------
(* The writer thread.  Any edge in the channel may come next: the order plays *)
(* no part in what follows.                                                   *)

Receive ==
  /\ writer = "recv"
  /\ \E c \in chan :
       /\ chan' = chan \ {c}
       /\ buf' = buf \cup {c}
       /\ writer' = IF Cardinality(buf') >= Chunk THEN "commit" ELSE "recv"
  /\ UNCHANGED <<queue, phase, fetching, todo, tries, handled, faults>>

(* Mutant: the rest of the buffer is not flushed. *)
NoFlush == "ok"
AfterLoop == IF buf = {} THEN "ok" ELSE "flush"

(* The loop over the receiver ends: no sender is left and the channel is empty. *)
Eof ==
  /\ writer = "recv"
  /\ phase = "drain" /\ todo = {} /\ chan = {}
  /\ writer' = AfterLoop
  /\ UNCHANGED <<queue, phase, fetching, todo, chan, buf, tries, handled, faults>>

CommitChunk ==
  /\ writer \in {"commit", "flush"}
  /\ table' = table \ IdsOf(buf)
  /\ handled' = handled \cup buf
  /\ buf' = {} /\ tries' = 0
  /\ writer' = IF writer = "commit" THEN "recv" ELSE "ok"
  /\ UNCHANGED <<made, old, phase, fetching, todo, chan, faults>>

MayRetry == tries < CommitRetries

RetryChunk ==
  /\ writer \in {"commit", "flush"}
  /\ MayRetry /\ Fault
  /\ tries' = tries + 1
  /\ UNCHANGED <<queue, phase, fetching, todo, chan, writer, buf, handled>>

(* The error leaves the thread, which drops the batch and the receiver. *)
ChunkFails ==
  /\ writer \in {"commit", "flush"}
  /\ ~MayRetry /\ Fault
  /\ writer' = "failed"
  /\ buf' = {} /\ chan' = {}
  /\ UNCHANGED <<queue, phase, fetching, todo, tries, handled>>

Writer == Receive \/ Eof \/ CommitChunk \/ RetryChunk \/ ChunkFails

-----------------------------------------------------------------------------
Next ==
  \/ Arrive
  \/ \E r \in table : Vanish(r)
  \/ Caller
  \/ \E w \in Worker : Work(w)
  \/ Writer

Spec == Init /\ [][Next]_vars
(* Threads that can run do run. *)
FairSpec ==
  Spec /\ WF_vars(Caller) /\ (\A w \in Worker : WF_vars(Work(w))) /\ WF_vars(Writer)

-----------------------------------------------------------------------------
(* What the pass promises. *)

TypeOK ==
  /\ made \in 0..MaxRef
  /\ table \in SUBSET (1..made) /\ old \in SUBSET (1..made)
  /\ phase \in {"fetch", "spawn", "scope", "drain", "ok", "failed"}
  /\ cursor \in 0..made /\ page \in Nat
  /\ fetched \in SUBSET Copy
  /\ todo \in SUBSET Copy /\ chan \in SUBSET Copy
  /\ writer \in {"idle", "recv", "commit", "flush", "ok", "failed"}
  /\ buf \in SUBSET Copy /\ handled \in SUBSET Copy
  /\ tries \in 0..CommitRetries
  /\ faults \in 0..MaxFaults

(* As long as the writer lives, every fetched reference that resolves is on   *)
(* its way or committed, and a writer that returns Ok has committed them all: *)
(* nothing gets lost between the shards, the channel and the buffer.          *)
NothingLost ==
  /\ writer \notin {"idle", "failed"} =>
       Wanted(fetched) \subseteq todo \cup chan \cup buf \cup handled
  /\ writer = "ok" => Wanted(fetched) \subseteq handled

(* The pipeline drains the queue (ResolveDrain): each reference is handled by *)
(* at most one transaction, and Ok is returned only when no resolvable        *)
(* reference is left of those that were there throughout.                     *)
Outcome == IF phase \in {"ok", "failed"} THEN phase ELSE "running"
Times == [r \in 1..MaxRef |-> Cardinality({c \in handled : c[2] = r})]
Drain == INSTANCE ResolveDrain WITH handled <- Times, outcome <- Outcome
ImplementsDrain == Drain!Spec

(* The pass returns: neither a full channel, nor a writer that has failed     *)
(* while workers still send, nor a sender nobody drops keeps it waiting.      *)
Terminates == <>(phase \in {"ok", "failed"})
=============================================================================
