--------------------------- MODULE ResolveProofs ---------------------------
(***************************************************************************)
(* The resolution pipeline loses no reference, commits none twice and      *)
(* implements ResolveDrain, for any table, any number of workers, any page *)
(* size, channel depth and chunk, and any number of failing commits.       *)
(***************************************************************************)
EXTENDS ResolvePipeline, FiniteSetTheorems, TLAPS

(* The calling thread and the writer agree on how far the pass is. *)
Stages ==
  /\ phase \in {"fetch", "spawn"} => writer = "idle"
  /\ phase \in {"scope", "drain"} => writer # "idle"
  /\ writer \in {"recv", "commit", "flush"} => phase \in {"scope", "drain"}
  /\ writer = "idle" => todo = {} /\ chan = {} /\ buf = {} /\ handled = {}

(* The cursor moves past what it has read: no row is fetched twice. *)
OneCopy ==
  /\ \A c \in fetched : c[2] <= cursor
  /\ \A c, d \in fetched : c[2] = d[2] => c = d

(* No row that was there throughout is skipped between two pages. *)
AllFetched ==
  /\ phase = "fetch" => \A r \in old \cap table : r <= cursor => r \in IdsOf(fetched)
  /\ phase \notin {"fetch", "failed"} => old \cap table \subseteq IdsOf(fetched)

(* A copy is in one place at a time, and only what resolves is sent. *)
OnePlace ==
  /\ todo \cup chan \cup buf \cup handled \subseteq fetched
  /\ chan \cup buf \cup handled \subseteq Wanted(fetched)
  /\ todo \cap (chan \cup buf \cup handled) = {}
  /\ chan \cap (buf \cup handled) = {}
  /\ buf \cap handled = {}

(* A committed reference is no longer in the table. *)
Settled == table \cap IdsOf(handled) = {}

(* At the end of the channel nothing is left outside the buffer. *)
Flushed == writer \in {"flush", "ok"} => todo = {} /\ chan = {}

PipelineInv ==
  Stages /\ OneCopy /\ AllFetched /\ OnePlace /\ Settled /\ Flushed /\ NothingLost

-----------------------------------------------------------------------------
LEMMA InitInv == Init => TypeOK /\ PipelineInv
<1> SUFFICES ASSUME Init PROVE TypeOK /\ PipelineInv
  OBVIOUS
<1>1. TypeOK
  BY PipelineAssumption DEF Init, TypeOK
<1>2. Stages /\ Flushed /\ NothingLost
  BY DEF Init, Stages, Flushed, NothingLost, Wanted
<1>3. OneCopy /\ OnePlace /\ Settled
  BY DEF Init, OneCopy, OnePlace, Settled, Wanted, IdsOf
<1>4. AllFetched
  <2>1. \A r \in old \cap table : ~(r <= cursor)
    BY DEF Init
  <2> QED BY <2>1 DEF Init, AllFetched
<1> QED BY <1>1, <1>2, <1>3, <1>4 DEF PipelineInv

-----------------------------------------------------------------------------
(* Type correctness. *)

LEMMA TypeStep == TypeOK /\ [Next]_vars => TypeOK'
<1> SUFFICES ASSUME TypeOK, [Next]_vars PROVE TypeOK'
  OBVIOUS
<1> USE PipelineAssumption
<1>1. CASE Arrive
  BY <1>1 DEF Arrive, TypeOK, fetching
<1>2. ASSUME NEW r \in table, Vanish(r) PROVE TypeOK'
  BY <1>2 DEF Vanish, TypeOK, fetching
<1>3. CASE FetchPage
  <2>1. PICK rows \in SUBSET table :
              /\ fetched' = fetched \cup ({page} \X rows)
              /\ \/ rows = {} /\ UNCHANGED cursor
                 \/ \E last \in rows : cursor' = last
    BY <1>3 DEF FetchPage
  <2>2. fetched' \in SUBSET Copy
    <3>1. page \in Nat /\ rows \subseteq 1..MaxRef /\ fetched \subseteq Nat \X (1..MaxRef)
      BY DEF TypeOK, Copy
    <3> QED BY <2>1, <3>1 DEF Copy
  <2>3. cursor' \in 0..made
    BY <2>1 DEF TypeOK
  <2>4. page' \in Nat /\ phase' \in {"fetch", "spawn"}
    BY <1>3 DEF FetchPage, TypeOK
  <2> QED BY <1>3, <2>2, <2>3, <2>4 DEF FetchPage, TypeOK, queue
<1>4. CASE FetchFails \/ NothingToDo \/ Spawn \/ DropTx \/ Join
  <2>1. UNCHANGED <<queue, fetching, chan, buf, tries, handled>>
    BY <1>4 DEF FetchFails, NothingToDo, Spawn, DropTx, Join
  <2>2. faults' \in 0..MaxFaults /\ todo' \in SUBSET Copy
    BY <1>4 DEF FetchFails, NothingToDo, Spawn, DropTx, Join, Fault, TypeOK
  <2>3. /\ phase' \in {"fetch", "spawn", "scope", "drain", "ok", "failed"}
        /\ writer' \in {"idle", "recv", "commit", "flush", "ok", "failed"}
    BY <1>4 DEF FetchFails, NothingToDo, Spawn, DropTx, Join, TypeOK
  <2> QED BY <2>1, <2>2, <2>3 DEF TypeOK, queue, fetching
<1>5. ASSUME NEW w \in Worker, Work(w) PROVE TypeOK'
  BY <1>5 DEF Work, Skip, Send, SendIgnored, TypeOK, queue, fetching
<1>6. CASE Receive \/ Eof
  BY <1>6 DEF Receive, Eof, AfterLoop, TypeOK, queue, fetching
<1>7. CASE CommitChunk
  <2>1. /\ table' \in SUBSET (1..made)
        /\ handled' \in SUBSET Copy /\ buf' \in SUBSET Copy /\ tries' \in 0..CommitRetries
    <3>1. table \in SUBSET (1..made) /\ buf \in SUBSET Copy /\ handled \in SUBSET Copy
      BY DEF TypeOK
    <3>2. /\ table' = table \ IdsOf(buf) /\ handled' = handled \cup buf
          /\ buf' = {} /\ tries' = 0
      BY <1>7 DEF CommitChunk
    <3>3. 0 \in 0..CommitRetries
      OBVIOUS
    <3> QED BY <3>1, <3>2, <3>3
  <2>2. writer' \in {"recv", "ok"}
    BY <1>7 DEF CommitChunk
  <2>3. UNCHANGED <<made, old, phase, cursor, page, fetched, todo, chan, faults>>
    BY <1>7 DEF CommitChunk, fetching
  <2> QED BY <2>1, <2>2, <2>3 DEF TypeOK
<1>8. CASE RetryChunk \/ ChunkFails
  <2>1. tries' \in 0..CommitRetries /\ faults' \in 0..MaxFaults
    BY <1>8 DEF RetryChunk, ChunkFails, MayRetry, Fault, TypeOK
  <2>2. /\ writer' \in {writer, "failed"}
        /\ buf' \in SUBSET Copy /\ chan' \in SUBSET Copy
    BY <1>8 DEF RetryChunk, ChunkFails, TypeOK
  <2> QED BY <1>8, <2>1, <2>2 DEF RetryChunk, ChunkFails, TypeOK, queue, fetching
<1>9. CASE UNCHANGED vars
  BY <1>9 DEF vars, TypeOK
<1> QED BY <1>1, <1>2, <1>3, <1>4, <1>5, <1>6, <1>7, <1>8, <1>9 DEF Next, Caller, Writer

(* Every variable of the pipeline keeps its type. *)
THEOREM TypeCorrect == Spec => []TypeOK
<1>1. Init => TypeOK
  BY InitInv
<1> QED BY <1>1, TypeStep, PTL DEF Spec

-----------------------------------------------------------------------------
(* The invariant, action by action. *)

(* The rows of other processes: an id is never given twice, so the references *)
(* that were there throughout only become fewer.                              *)
LEMMA QueueStep ==
  ASSUME TypeOK, PipelineInv, Arrive \/ \E r \in table : Vanish(r)
  PROVE  PipelineInv'
<1>1. UNCHANGED <<old, phase, cursor, page, fetched, todo, chan, writer, buf, tries,
                  handled, faults>>
  BY DEF Arrive, Vanish, fetching
<1>2. old \cap table' \subseteq old \cap table
  BY DEF Arrive, Vanish, TypeOK
<1>3. AllFetched'
  BY <1>1, <1>2 DEF PipelineInv, AllFetched, IdsOf
<1>4. Settled'
  <2>1. \A i \in IdsOf(handled) : i <= made
    BY DEF PipelineInv, OnePlace, OneCopy, IdsOf, TypeOK, Copy
  <2>2. table' \subseteq table \cup {made + 1}
    BY DEF Arrive, Vanish
  <2>3. made + 1 \notin IdsOf(handled)
    BY <2>1 DEF TypeOK
  <2> QED BY <1>1, <2>2, <2>3 DEF PipelineInv, Settled, IdsOf
<1>5. Stages' /\ OneCopy' /\ OnePlace' /\ Flushed' /\ NothingLost'
  BY <1>1 DEF PipelineInv, Stages, OneCopy, OnePlace, Flushed, NothingLost, Wanted
<1> QED BY <1>3, <1>4, <1>5 DEF PipelineInv

(* A page holds the first rows after the cursor: the cursor moves to the last *)
(* of them, and a short page is the last one.                                 *)
LEMMA FetchStep ==
  ASSUME TypeOK, PipelineInv, FetchPage
  PROVE  PipelineInv'
<1>1. /\ phase = "fetch" /\ phase' \in {"fetch", "spawn"}
      /\ UNCHANGED <<table, made, old, todo, chan, writer, buf, tries, handled, faults>>
  BY DEF FetchPage, queue
<1>2. writer = "idle" /\ todo = {} /\ chan = {} /\ buf = {} /\ handled = {}
  BY <1>1 DEF PipelineInv, Stages
<1>3. PICK rows \in SUBSET table :
            /\ IsPage(rows, After(cursor))
            /\ fetched' = fetched \cup ({page} \X rows)
            /\ \/ rows = {} /\ UNCHANGED cursor
               \/ \E last \in rows : (\A r \in rows : r <= last) /\ cursor' = last
            /\ phase' = IF Cardinality(rows) < PageSize THEN "spawn" ELSE "fetch"
  BY DEF FetchPage
<1>4. /\ cursor \in Nat /\ cursor' \in Nat /\ table \subseteq Nat
      /\ fetched \subseteq Copy
  BY <1>3 DEF TypeOK
<1>5. \A r \in rows : cursor < r /\ r <= cursor'
  BY <1>3, <1>4 DEF IsPage, After
<1>6. cursor <= cursor'
  BY <1>3, <1>4, <1>5
<1>7. IdsOf(fetched') = IdsOf(fetched) \cup rows
  <2>1. \A r \in rows : <<page, r>> \in fetched' /\ <<page, r>>[2] = r
    BY <1>3
  <2>2. \A c \in fetched' : c \in fetched \/ c[2] \in rows
    BY <1>3
  <2> QED BY <1>3, <2>1, <2>2 DEF IdsOf
<1>8. OneCopy'
  <2>1. \A c \in fetched : c[2] <= cursor /\ c[2] \in Nat
    BY <1>4 DEF PipelineInv, OneCopy, Copy
  <2>2. \A c \in fetched' : c \in fetched \/ (c[2] \in rows /\ c = <<page, c[2]>>)
    BY <1>3
  <2>3. \A c \in fetched' : c[2] <= cursor'
    <3>1. \A c \in fetched : c[2] <= cursor'
      BY <1>4, <1>6, <2>1
    <3> QED BY <1>5, <2>2, <3>1
  <2>4. ASSUME NEW c \in fetched', NEW d \in fetched', c[2] = d[2] PROVE c = d
    <3>1. CASE c \in fetched /\ d \in fetched
      BY <2>4, <3>1 DEF PipelineInv, OneCopy
    <3>2. CASE c \notin fetched /\ d \notin fetched
      BY <2>2, <2>4, <3>2
    <3>3. CASE c \in fetched <=> d \notin fetched
      BY <1>4, <1>5, <2>1, <2>2, <2>4, <3>3
    <3> QED BY <3>1, <3>2, <3>3
  <2> QED BY <2>3, <2>4 DEF OneCopy
<1>9. AllFetched'
  <2>1. ASSUME NEW r \in old \cap table, r <= cursor' PROVE r \in IdsOf(fetched')
    <3>0. r \in Nat /\ r \in table
      BY <1>4
    <3>1. CASE r <= cursor
      BY <1>1, <1>7, <3>1 DEF PipelineInv, AllFetched
    <3>2. CASE r \in rows
      BY <1>7, <3>2
    <3>3. CASE ~(r <= cursor) /\ r \notin rows
      <4>1. r \in After(cursor) \ rows
        BY <1>4, <3>0, <3>3 DEF After
      <4>2. rows # {} /\ cursor' \in rows
        BY <1>3, <1>4, <2>1, <3>3
      <4>3. cursor' < r
        BY <1>3, <4>1, <4>2 DEF IsPage
      <4> QED BY <1>4, <2>1, <3>0, <4>3
    <3> QED BY <3>1, <3>2, <3>3
  <2>2. ASSUME phase' # "fetch", NEW r \in old \cap table PROVE r \in IdsOf(fetched')
    <3>1. rows = After(cursor)
      <4>1. Cardinality(rows) < PageSize
        BY <1>3, <2>2
      <4>2. Cardinality(rows) # PageSize
        BY <4>1, PipelineAssumption
      <4> QED BY <1>3, <4>2 DEF IsPage
    <3>2. CASE r <= cursor
      BY <1>1, <1>7, <3>2 DEF PipelineInv, AllFetched
    <3>3. CASE ~(r <= cursor)
      <4>1. r \in table /\ r \in Nat
        BY <1>4
      <4>2. r > cursor
        BY <1>4, <3>3, <4>1
      <4> QED BY <1>7, <3>1, <4>1, <4>2 DEF After
    <3> QED BY <3>2, <3>3
  <2> QED BY <1>1, <2>1, <2>2 DEF AllFetched
<1>10. Stages' /\ Settled' /\ Flushed'
  BY <1>1, <1>2 DEF Stages, Settled, Flushed, IdsOf
<1>11. OnePlace'
  BY <1>1, <1>2 DEF OnePlace, Wanted
<1>12. NothingLost'
  BY <1>1, <1>2 DEF NothingLost
<1> QED BY <1>8, <1>9, <1>10, <1>11, <1>12 DEF PipelineInv

(* The calling thread after the fetch. *)
LEMMA CallerStep ==
  ASSUME TypeOK, PipelineInv, FetchFails \/ NothingToDo \/ Spawn \/ DropTx \/ Join
  PROVE  PipelineInv'
<1>1. UNCHANGED <<table, made, old, cursor, page, fetched, chan, buf, handled>>
  BY DEF FetchFails, NothingToDo, Spawn, DropTx, Join, queue, fetching
<1>2. OneCopy' /\ Settled'
  BY <1>1 DEF PipelineInv, OneCopy, Settled, IdsOf
<1>3. AllFetched'
  <2>1. phase' # "fetch"
    BY DEF FetchFails, NothingToDo, Spawn, DropTx, Join
  <2>2. CASE phase' = "failed"
    BY <2>1, <2>2 DEF AllFetched
  <2>3. CASE phase' # "failed"
    <3>1. phase \in {"spawn", "scope", "drain"}
      BY <2>3 DEF FetchFails, NothingToDo, Spawn, DropTx, Join
    <3>2. old \cap table \subseteq IdsOf(fetched)
      BY <3>1 DEF PipelineInv, AllFetched
    <3> QED BY <1>1, <2>1, <3>2 DEF AllFetched, IdsOf
  <2> QED BY <2>2, <2>3
<1>4. CASE Spawn
  <2>1. /\ phase' = "scope" /\ writer' = "recv" /\ todo' = fetched
        /\ chan = {} /\ buf = {} /\ handled = {}
    BY <1>4 DEF Spawn, PipelineInv, Stages
  <2>2. Stages' /\ Flushed'
    BY <1>1, <2>1 DEF Stages, Flushed
  <2>3. OnePlace'
    BY <1>1, <2>1 DEF OnePlace, Wanted
  <2>4. NothingLost'
    BY <1>1, <2>1 DEF NothingLost, Wanted
  <2> QED BY <1>2, <1>3, <2>2, <2>3, <2>4 DEF PipelineInv
<1>5. CASE FetchFails \/ NothingToDo \/ DropTx \/ Join
  <2>1. UNCHANGED <<todo, writer>>
    BY <1>5 DEF FetchFails, NothingToDo, DropTx, Join
  <2>2. OnePlace' /\ Flushed' /\ NothingLost'
    BY <1>1, <2>1 DEF PipelineInv, OnePlace, Flushed, NothingLost, Wanted
  <2>3. Stages'
    BY <1>1, <1>5, <2>1 DEF FetchFails, NothingToDo, DropTx, Join, PipelineInv, Stages
  <2> QED BY <1>2, <1>3, <2>2, <2>3 DEF PipelineInv
<1> QED BY <1>4, <1>5

(* A worker takes a copy out of its shard: into the channel when it resolves  *)
(* and the receiver lives.                                                    *)
LEMMA WorkerStep ==
  ASSUME TypeOK, PipelineInv, NEW w \in Worker, Work(w)
  PROVE  PipelineInv'
<1>1. UNCHANGED <<table, made, old, phase, cursor, page, fetched, writer, buf, tries,
                  handled, faults>>
  BY DEF Work, Skip, Send, SendIgnored, queue, fetching
<1>2. PICK c \in todo :
            /\ todo' = todo \ {c}
            /\ \/ c[2] \notin Resolvable /\ chan' = chan
               \/ c[2] \in Resolvable /\ chan' = chan \cup {c}
               \/ writer = "failed" /\ chan' = chan
  BY DEF Work, Skip, Send, SendIgnored, ReceiverGone
<1>3. writer \notin {"idle", "flush", "ok"}
  BY <1>2 DEF PipelineInv, Stages, Flushed
<1>4. OneCopy' /\ AllFetched' /\ Settled'
  BY <1>1 DEF PipelineInv, OneCopy, AllFetched, Settled, IdsOf
<1>5. Stages' /\ Flushed'
  BY <1>1, <1>3 DEF PipelineInv, Stages, Flushed
<1>6. OnePlace'
  BY <1>1, <1>2, <1>3 DEF PipelineInv, OnePlace, Wanted, TypeOK
<1>7. NothingLost'
  BY <1>1, <1>2, <1>3 DEF PipelineInv, OnePlace, NothingLost, Wanted
<1> QED BY <1>4, <1>5, <1>6, <1>7 DEF PipelineInv

(* The writer moves copies from the channel to the buffer and commits them;   *)
(* when it gives up, what it drops no longer counts.                          *)
LEMMA WriterStep ==
  ASSUME TypeOK, PipelineInv, Writer
  PROVE  PipelineInv'
<1>1. UNCHANGED <<made, old, phase, cursor, page, fetched, todo>> /\ OneCopy'
  BY DEF Writer, Receive, Eof, CommitChunk, RetryChunk, ChunkFails, queue, fetching,
         PipelineInv, OneCopy
<1>2. CASE Receive
  <2>1. PICK c \in chan : chan' = chan \ {c} /\ buf' = buf \cup {c}
    BY <1>2 DEF Receive
  <2>2. /\ writer = "recv" /\ writer' \in {"commit", "recv"}
        /\ UNCHANGED <<table, handled>>
    BY <1>2 DEF Receive, queue
  <2>3. Stages' /\ Flushed'
    BY <1>1, <2>2 DEF PipelineInv, Stages, Flushed
  <2>4. AllFetched' /\ Settled'
    BY <1>1, <2>2 DEF PipelineInv, AllFetched, Settled, IdsOf
  <2>5. OnePlace'
    BY <1>1, <2>1, <2>2 DEF PipelineInv, OnePlace, Wanted
  <2>6. NothingLost'
    BY <1>1, <2>1, <2>2 DEF PipelineInv, NothingLost, Wanted
  <2> QED BY <1>1, <2>3, <2>4, <2>5, <2>6 DEF PipelineInv
<1>3. CASE Eof
  <2>1. /\ writer = "recv" /\ todo = {} /\ chan = {}
        /\ \/ writer' = "ok" /\ buf = {}
           \/ writer' = "flush"
        /\ UNCHANGED <<table, chan, buf, handled>>
    BY <1>3 DEF Eof, AfterLoop, queue
  <2>2. Stages' /\ Flushed'
    BY <1>1, <2>1 DEF PipelineInv, Stages, Flushed
  <2>3. AllFetched' /\ Settled'
    BY <1>1, <2>1 DEF PipelineInv, AllFetched, Settled, IdsOf
  <2>4. OnePlace'
    BY <1>1, <2>1 DEF PipelineInv, OnePlace, Wanted
  <2>5. NothingLost'
    BY <1>1, <2>1 DEF PipelineInv, NothingLost, Wanted
  <2> QED BY <1>1, <2>2, <2>3, <2>4, <2>5 DEF PipelineInv
<1>4. CASE CommitChunk
  <2>1. /\ writer \in {"commit", "flush"}
        /\ writer' = IF writer = "commit" THEN "recv" ELSE "ok"
        /\ table' = table \ IdsOf(buf)
        /\ handled' = handled \cup buf /\ buf' = {} /\ chan' = chan
    BY <1>4 DEF CommitChunk
  <2>2. Stages' /\ Flushed'
    BY <1>1, <2>1 DEF PipelineInv, Stages, Flushed
  <2>3. AllFetched'
    BY <1>1, <2>1 DEF PipelineInv, AllFetched, IdsOf
  <2>4. Settled'
    BY <2>1 DEF PipelineInv, Settled, IdsOf
  <2>5. OnePlace'
    BY <1>1, <2>1 DEF PipelineInv, OnePlace, Wanted
  <2>6. NothingLost'
    BY <1>1, <2>1 DEF PipelineInv, NothingLost, Flushed, Wanted
  <2> QED BY <1>1, <2>2, <2>3, <2>4, <2>5, <2>6 DEF PipelineInv
<1>5. CASE RetryChunk
  <2>1. UNCHANGED <<table, chan, writer, buf, handled>>
    BY <1>5 DEF RetryChunk, queue
  <2>2. Stages' /\ Flushed' /\ NothingLost'
    BY <1>1, <2>1 DEF PipelineInv, Stages, Flushed, NothingLost, Wanted
  <2>3. AllFetched' /\ OnePlace' /\ Settled'
    BY <1>1, <2>1 DEF PipelineInv, AllFetched, OnePlace, Settled, Wanted, IdsOf
  <2> QED BY <1>1, <2>2, <2>3 DEF PipelineInv
<1>6. CASE ChunkFails
  <2>1. /\ writer' = "failed" /\ buf' = {} /\ chan' = {}
        /\ writer # "idle" /\ UNCHANGED <<table, handled>>
    BY <1>6 DEF ChunkFails, queue
  <2>2. phase \in {"scope", "drain"}
    BY <1>6 DEF ChunkFails, PipelineInv, Stages
  <2>3. Stages' /\ Flushed' /\ NothingLost'
    BY <1>1, <2>1, <2>2 DEF PipelineInv, Stages, Flushed, NothingLost
  <2>4. AllFetched' /\ OnePlace' /\ Settled'
    BY <1>1, <2>1 DEF PipelineInv, AllFetched, OnePlace, Settled, Wanted, IdsOf
  <2> QED BY <1>1, <2>3, <2>4 DEF PipelineInv
<1> QED BY <1>2, <1>3, <1>4, <1>5, <1>6 DEF Writer

LEMMA InvStep == TypeOK /\ PipelineInv /\ [Next]_vars => PipelineInv'
<1> SUFFICES ASSUME TypeOK, PipelineInv, [Next]_vars PROVE PipelineInv'
  OBVIOUS
<1>1. CASE UNCHANGED vars
  BY <1>1 DEF vars, PipelineInv, Stages, OneCopy, AllFetched, OnePlace, Settled, Flushed,
              NothingLost, Wanted, IdsOf
<1>2. CASE Next
  BY <1>2, QueueStep, FetchStep, CallerStep, WorkerStep, WriterStep DEF Next, Caller
<1> QED BY <1>1, <1>2

LEMMA Invariant == Spec => [](TypeOK /\ PipelineInv)
<1>1. Init => TypeOK /\ PipelineInv
  BY InitInv
<1>2. TypeOK /\ PipelineInv /\ [Next]_vars => (TypeOK /\ PipelineInv)'
  BY TypeStep, InvStep
<1> QED BY <1>1, <1>2, PTL DEF Spec

(* Between the fetch and the end no reference that resolves gets lost, and a  *)
(* writer that returns Ok has committed all of them.                          *)
THEOREM NothingIsLost == Spec => []NothingLost
<1>1. TypeOK /\ PipelineInv => NothingLost
  BY DEF PipelineInv
<1> QED BY <1>1, Invariant, PTL

-----------------------------------------------------------------------------
(* Refinement: a step of the pipeline is a step of the queue's abstract       *)
(* specification or changes nothing of it.                                    *)

(* A reference with no committed copy counts zero, one with a copy one. *)
LEMMA TimesCount ==
  ASSUME NEW S, NEW r, \A c, d \in S : c[2] = d[2] => c = d
  PROVE  Cardinality({c \in S : c[2] = r}) = IF r \in IdsOf(S) THEN 1 ELSE 0
<1>1. CASE r \in IdsOf(S)
  <2>1. PICK c \in S : c[2] = r
    BY <1>1 DEF IdsOf
  <2>2. {d \in S : d[2] = r} = {c}
    BY <2>1
  <2> QED BY <1>1, <2>2, FS_Singleton
<1>2. CASE r \notin IdsOf(S)
  <2>1. {d \in S : d[2] = r} = {}
    BY <1>2 DEF IdsOf
  <2> QED BY <1>2, <2>1, FS_EmptySet
<1> QED BY <1>1, <1>2

LEMMA InitDrain == Init => Drain!Init
<1> SUFFICES ASSUME Init PROVE Drain!Init
  OBVIOUS
<1>1. \A r \in 1..MaxRef : {c \in handled : c[2] = r} = {}
  BY DEF Init
<1>2. Times = [r \in 1..MaxRef |-> 0]
  BY <1>1, FS_EmptySet DEF Times
<1> QED BY <1>2 DEF Init, Drain!Init, Outcome

LEMMA CommitDrain ==
  ASSUME TypeOK, PipelineInv, CommitChunk
  PROVE  Drain!Commit(IdsOf(buf))
<1>1. phase \in {"scope", "drain"} /\ phase' = phase
  BY DEF CommitChunk, PipelineInv, Stages
<1>2. IdsOf(buf) \subseteq Resolvable
  BY DEF PipelineInv, OnePlace, Wanted, IdsOf
<1>3. IdsOf(buf) \cap IdsOf(handled) = {}
  <2>1. \A c \in buf, d \in handled : c \in fetched /\ d \in fetched /\ c # d
    BY DEF PipelineInv, OnePlace
  <2>2. \A c \in buf, d \in handled : c[2] # d[2]
    BY <2>1 DEF PipelineInv, OneCopy
  <2> QED BY <2>2 DEF IdsOf
<1>4. /\ \A c, d \in handled : c[2] = d[2] => c = d
      /\ \A c, d \in handled' : c[2] = d[2] => c = d
  BY DEF CommitChunk, PipelineInv, OnePlace, OneCopy
<1>6. /\ Times = [r \in 1..MaxRef |-> IF r \in IdsOf(handled) THEN 1 ELSE 0]
      /\ Times' = [r \in 1..MaxRef |-> IF r \in IdsOf(handled') THEN 1 ELSE 0]
  BY <1>4, TimesCount DEF Times
<1>7. \A r : r \in IdsOf(handled') <=> r \in IdsOf(handled) \/ r \in IdsOf(buf)
  BY DEF CommitChunk, IdsOf
<1>8. \A r \in IdsOf(buf) : Times[r] = 0
  BY <1>2, <1>3, <1>6, PipelineAssumption
<1>9. Times' = [r \in 1..MaxRef |-> IF r \in IdsOf(buf) THEN 1 ELSE Times[r]]
  BY <1>6, <1>7
<1>5. /\ table' = table \ IdsOf(buf) /\ UNCHANGED <<made, old>>
      /\ Outcome = "running" /\ Outcome' = "running"
  BY <1>1 DEF CommitChunk, Outcome
<1> QED BY <1>2, <1>5, <1>8, <1>9 DEF Drain!Commit

LEMMA SucceedDrain ==
  ASSUME TypeOK, PipelineInv, NothingToDo \/ (Join /\ writer = "ok")
  PROVE  Drain!Succeed
<1>1. /\ Outcome = "running" /\ Outcome' = "ok"
      /\ UNCHANGED <<table, made, old, handled>>
  BY DEF NothingToDo, Join, Outcome, queue
<1>2. old \cap table \subseteq IdsOf(fetched)
  BY DEF NothingToDo, Join, PipelineInv, AllFetched
<1>3. Wanted(fetched) \subseteq handled
  BY DEF NothingToDo, Join, PipelineInv, NothingLost, Wanted
<1>4. old \cap table \cap Resolvable \subseteq IdsOf(handled)
  BY <1>2, <1>3 DEF IdsOf, Wanted
<1>5. old \cap table \cap Resolvable = {}
  BY <1>4 DEF PipelineInv, Settled
<1> QED BY <1>1, <1>5 DEF Drain!Succeed, Times

LEMMA StepDrain ==
  TypeOK /\ PipelineInv /\ [Next]_vars => [Drain!Next]_(Drain!vars)
<1> SUFFICES ASSUME TypeOK, PipelineInv, [Next]_vars
             PROVE  Drain!Next \/ UNCHANGED Drain!vars
  OBVIOUS
<1>1. CASE Arrive
  BY <1>1 DEF Arrive, Drain!Next, Drain!Arrive, Outcome, Times
<1>2. ASSUME NEW r \in table, Vanish(r) PROVE Drain!Next
  BY <1>2 DEF Vanish, Drain!Next, Drain!Vanish, Outcome, Times
<1>3. CASE FetchFails \/ (Join /\ writer = "failed")
  BY <1>3 DEF FetchFails, Join, Drain!Next, Drain!Fail, Outcome, Times, queue
<1>4. CASE NothingToDo \/ (Join /\ writer = "ok")
  BY <1>4, SucceedDrain DEF Drain!Next
<1>5. CASE FetchPage \/ Spawn \/ DropTx
  BY <1>5 DEF FetchPage, Spawn, DropTx, Drain!vars, Outcome, Times, queue
<1>6. ASSUME NEW w \in Worker, Work(w) PROVE UNCHANGED Drain!vars
  BY <1>6 DEF Work, Skip, Send, SendIgnored, Drain!vars, Outcome, Times, queue
<1>7. CASE CommitChunk
  <2>1. IdsOf(buf) \in SUBSET Resolvable
    BY DEF PipelineInv, OnePlace, Wanted, IdsOf
  <2> QED BY <1>7, <2>1, CommitDrain DEF Drain!Next
<1>8. CASE Receive \/ Eof \/ RetryChunk \/ ChunkFails
  BY <1>8 DEF Receive, Eof, RetryChunk, ChunkFails, Drain!vars, Outcome, Times, queue
<1>9. CASE UNCHANGED vars
  BY <1>9 DEF vars, Drain!vars, Outcome, Times
<1> QED BY <1>1, <1>2, <1>3, <1>4, <1>5, <1>6, <1>7, <1>8, <1>9
        DEF Next, Caller, Writer, Join

(* Every behaviour of the pipeline drains the queue: at most one transaction  *)
(* for a reference, and Ok only when none that resolves is left.              *)
THEOREM PipelineDrains == Spec => ImplementsDrain
<1>1. Init => Drain!Init
  BY InitDrain
<1>2. TypeOK /\ PipelineInv /\ [Next]_vars => [Drain!Next]_(Drain!vars)
  BY StepDrain
<1> QED BY <1>1, <1>2, Invariant, PTL DEF Spec, ImplementsDrain, Drain!Spec
=============================================================================
