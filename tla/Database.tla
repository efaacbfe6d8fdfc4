------------------------------ MODULE Database ------------------------------
(***************************************************************************)
(* The database file and the processes that open it: apply_schema and        *)
(* run_migrations, statement by statement; the full-text index kept by        *)
(* triggers, which a bulk load drops and rebuilds; snapshot and restore under   *)
(* the feet of all.                                                         *)
(***************************************************************************)
EXTENDS Integers, Sequences, FiniteSetsExt, Functions

CONSTANTS
  Conn,          \* processes, one connection each
  Loaders,       \* those that run `init` or `index`
  Writers,       \* those that store or delete single files (a sync)
  Id,            \* nodes, one of each file
  Text,          \* what a node says
  NoConn,
  Versions,      \* the migrations after version 1, the last of them rewrites the index
  InitVersions,  \* versions recorded in the database that is there at first
  MaxRow, MaxMishaps      \* bounds on rowids, on crashes and restores

ASSUME VersionsAssumption == Versions \subseteq 2..6 /\ 6 \in Versions
(* An older program ran the migrations in order, up to some version.         *)
ASSUME HistoryAssumption == \E n \in 1..6 : InitVersions = {1} \union {v \in Versions : v <= n}
ASSUME RolesAssumption == Loaders \subseteq Conn /\ Writers \subseteq Conn /\ NoConn \notin Conn
ASSUME BoundsAssumption == Id # {} /\ Text # {} /\ {MaxRow, MaxMishaps} \subseteq Nat

VARIABLES
  store,     \* database files, by inode
  live,      \* the inode behind .codewiki/codewiki.db, 0 if there is none
  backup,    \* the inode behind codewiki.db.pre-restore
  snap,      \* the snapshot file's content, a sequence of at most one
  pc, at,    \* of a process: where it is, and the inode it has open
  todo,      \* the statements it has left to run, each its own transaction
  draft,     \* of a load: what its transaction has made of the file, and who is left
  torn,      \* files whose index may lag: a load did not end, or a write came at its end
  spoiled,   \* files two migrated at once, or that share a write-ahead log with another
  restoring, crashes, restores

vars == <<store, live, backup, snap, pc, at, todo, draft, torn, spoiled,
          restoring, crashes, restores>>
files == <<live, backup, snap, spoiled, restoring, restores>>

Sync == {"nodes_ai", "nodes_ad"}  \* nodes_au goes with nodes_ad; no statement updates a node

Empty == [rows |-> [r \in {} |-> r], fts |-> {}, triggers |-> {}, table |-> "none",
          made |-> {}, versions |-> {}, lock |-> NoConn]

NoDraft == [content |-> Empty, left |-> {}]

Exact(rows) == {<<r, rows[r]>> : r \in DOMAIN rows}

(* rowid: one more than the greatest.                                       *)
NewRow(rows) == Max({0} \union DOMAIN rows) + 1

Without(s, i) ==
  LET gone == {r \in DOMAIN s.rows : s.rows[r][1] = i}
  IN [s EXCEPT !.rows = [r \in DOMAIN s.rows \ gone |-> s.rows[r]],
               !.fts = IF "nodes_ad" \in s.triggers
                       THEN @ \ {<<r, s.rows[r]>> : r \in gone} ELSE @]

With(s, i, t) ==
  LET r == NewRow(s.rows)
  IN [s EXCEPT !.rows = [q \in DOMAIN s.rows \union {r} |-> IF q = r THEN <<i, t>> ELSE s.rows[q]],
               !.fts = IF "nodes_ai" \in s.triggers THEN @ \union {<<r, <<i, t>>>>} ELSE @]

Replaced(s, i, t) == With(Without(s, i), i, t)

(* A trigger whose table is missing fails the statement that fires it.       *)
Writable(s) == s.triggers # {} => s.table # "none"

-----------------------------------------------------------------------------
(* Statements, each with the migration it belongs to.  Outside a transaction  *)
(* each commits by itself.                                                  *)
For(v, names) == [i \in DOMAIN names |-> <<names[i], v>>]

Schema == For(1, << "record_if_missing", "fts_if_missing", "triggers_if_missing" >>)

(* Mutant: migration 6 does not drop what it is about to create. *)
StatementsOnce(v) ==
  For(v, IF v = 6
         THEN << "create_fts", "rebuild", "create_nodes_ai", "create_nodes_ad", "record" >>
         ELSE << "alter", "record" >>)

(* A migration's statements and its row of schema_versions.                  *)
Statements(v) ==
  For(v, IF v = 6
         THEN << "drop_nodes_ai", "drop_nodes_ad", "drop_fts", "create_fts", "rebuild",
                 "create_nodes_ai", "create_nodes_ad", "record" >>
         ELSE << "alter", "record" >>)

Newest(s) == Max({0} \union s.versions)

Pending(s) ==
  LET part(v) == IF v \in Versions /\ v > Newest(s) THEN Statements(v) ELSE <<>>
  IN part(2) \o (part(3) \o (part(4) \o (part(5) \o part(6))))

Effect(st, s) ==
  CASE st[1] \in {"record", "record_if_missing"} -> [s EXCEPT !.versions = @ \union {st[2]}]
    [] st[1] = "alter"               -> [s EXCEPT !.made = @ \union {st[2]}]
    [] st[1] = "fts_if_missing"      -> [s EXCEPT !.table = IF @ = "none" THEN "new" ELSE @]
    [] st[1] = "triggers_if_missing" -> [s EXCEPT !.triggers = Sync]
    [] st[1] = "drop_nodes_ai"       -> [s EXCEPT !.triggers = @ \ {"nodes_ai"}]
    [] st[1] = "drop_nodes_ad"       -> [s EXCEPT !.triggers = @ \ {"nodes_ad"}]
    [] st[1] = "drop_fts"            -> [s EXCEPT !.table = "none", !.fts = {}]
    [] st[1] = "create_fts"          -> [s EXCEPT !.table = "new"]
    [] st[1] = "rebuild"             -> [s EXCEPT !.fts = Exact(s.rows)]
    [] st[1] = "create_nodes_ai"     -> [s EXCEPT !.triggers = @ \union {"nodes_ai"}]
    [] st[1] = "create_nodes_ad"     -> [s EXCEPT !.triggers = @ \union {"nodes_ad"}]

(* What of it does not say IF EXISTS; "duplicate column" is no error.        *)
Fails(st, s) ==
  \/ st[1] = "create_fts" /\ s.table # "none"
  \/ st[1] = "rebuild" /\ s.table = "none"
  \/ st[1] = "create_nodes_ai" /\ "nodes_ai" \in s.triggers
  \/ st[1] = "create_nodes_ad" /\ "nodes_ad" \in s.triggers
  \/ st[1] = "record" /\ st[2] \in s.versions

-----------------------------------------------------------------------------
Here(c) == store[at[c]]
Free(c) == Here(c).lock \in {c, NoConn}
Put(c, s) == store' = [store EXCEPT ![at[c]] = s]
Go(c, where, sts) == pc' = [pc EXCEPT ![c] = where] /\ todo' = [todo EXCEPT ![c] = sts]
Others(c) == {d \in Conn \ {c} : at[d] = at[c]}
Unlocked(c) == IF Here(c).lock = c THEN [Here(c) EXCEPT !.lock = NoConn] ELSE Here(c)

(* A file that has lost its name and is open in no process is read no more.   *)
Kept(s, open, named) ==
  [i \in DOMAIN s |-> IF i = named \/ \E c \in Conn : open[c] = i THEN s[i] ELSE Empty]

(* The process ends, with an error or killed, and its file is s.              *)
Leave(c, s) ==
  /\ Go(c, "closed", <<>>) /\ at' = [at EXCEPT ![c] = 0] /\ draft' = [draft EXCEPT ![c] = NoDraft]
  /\ store' = Kept([store EXCEPT ![at[c]] = s], at', live)

Opening(c) == pc[c] \in {"schema", "migrating"}
Attached(i) == \E c \in Conn : at[c] = i
Current(s) == 6 \in s.versions

(* The names codewiki.db-wal and -shm stay with those who opened the file that a   *)
(* restore renamed: who opens the new one shares them.                        *)
Astray == \E c \in Conn : at[c] \notin {0, live}

(* File i of s may hold anything from now on, and a statement may find anything in   *)
(* it: all that is followed of who has it open is that it ends.                *)
Lose(i, s) ==
  LET lost(c) == at'[c] = i
  IN /\ spoiled' = spoiled \union {i} /\ store' = [s EXCEPT ![i] = Empty]
     /\ pc' = [c \in Conn |-> IF lost(c) THEN "lost" ELSE pc[c]]
     /\ todo' = [c \in Conn |-> IF lost(c) THEN <<>> ELSE todo[c]]
     /\ draft' = [c \in Conn |-> IF lost(c) THEN NoDraft ELSE draft[c]]

(* Two that migrate one file fail each other's statements, or undo them.         *)
Races(i, s) == ~Current(s[i]) /\ \E d \in Conn : Opening(d) /\ at[d] = i

OpenFile(c, i, s) ==
  /\ live' = i /\ at' = [at EXCEPT ![c] = i]
  /\ IF i \in spoiled \/ Astray \/ Races(i, s) THEN Lose(i, s)
     ELSE store' = s /\ Go(c, "schema", Schema) /\ UNCHANGED <<draft, spoiled>>

(* open; only `init` makes a database where there is none.                   *)
Open(c) ==
  /\ pc[c] = "closed"
  /\ \/ live # 0 /\ OpenFile(c, live, store)
     \/ live = 0 /\ c \in Loaders /\ OpenFile(c, Len(store) + 1, Append(store, Empty))
  /\ UNCHANGED <<backup, snap, restoring, restores, torn, crashes>>

(* The statements wait for a write lock, and give up after busy_timeout.        *)
Waits(c) ==
  /\ pc[c] = "dropping" \/ todo[c] # <<>>
  /\ \E d \in Others(c) : d \in Writers \union Loaders \/ todo[d] # <<>>

OpenBusy(c) ==
  /\ Opening(c) /\ Waits(c) /\ Leave(c, Here(c)) /\ UNCHANGED <<files, torn, crashes>>

RunStatement(c) ==
  /\ todo[c] # <<>> /\ Free(c)
  /\ LET st == Head(todo[c])
     IN IF Fails(st, Here(c)) THEN Leave(c, Here(c))
        ELSE /\ Put(c, Effect(st, Here(c)))
             /\ todo' = [todo EXCEPT ![c] = Tail(@)]
             /\ UNCHANGED <<pc, at, draft>>
  /\ UNCHANGED <<files, torn, crashes>>

ReadVersion(c) ==
  /\ pc[c] = "schema" /\ todo[c] = <<>> /\ Go(c, "migrating", Pending(Here(c)))
  /\ UNCHANGED <<files, store, at, draft, torn, crashes>>

Opened(c) ==
  /\ pc[c] = "migrating" /\ todo[c] = <<>> /\ Go(c, "ready", <<>>)
  /\ UNCHANGED <<files, store, at, draft, torn, crashes>>

-----------------------------------------------------------------------------
(* A load of this file is under way between its first statement and its last.  *)
InLoad(c) == pc[c] \in {"dropping", "loading", "after", "undoing"}
Unbuilt(c) == pc[c] = "after" /\ <<"rebuild", 0>> \in Range(todo[c])
Loading(i) == \E c \in Conn : at[c] = i /\ InLoad(c)
Lags(s) == s.fts # Exact(s.rows)
Tear(i, now) == torn' = IF now THEN torn \union {i} ELSE torn

(* The rebuild of a load takes up what others write before it, not after.       *)
Wrote(c) ==
  Tear(at[c], \E d \in Others(c) : pc[d] \in {"after", "undoing"} /\ ~Unbuilt(d))

(* store_extraction_batch; the hash gate lets the first text of a file pass.  *)
StoreFile(c, i, t) ==
  /\ pc[c] = "ready" /\ c \in Writers /\ Free(c) /\ Writable(Here(c))
  /\ <<i, t>> \notin {Here(c).rows[r] : r \in DOMAIN Here(c).rows}
  /\ NewRow(Here(c).rows) <= MaxRow
  /\ Put(c, Replaced(Here(c), i, t)) /\ Wrote(c)
  /\ UNCHANGED <<files, pc, at, todo, draft, crashes>>

DeleteFile(c, i) ==
  /\ pc[c] = "ready" /\ c \in Writers /\ Free(c) /\ Writable(Here(c))
  /\ \E r \in DOMAIN Here(c).rows : Here(c).rows[r][1] = i
  /\ Put(c, Without(Here(c), i)) /\ Wrote(c)
  /\ UNCHANGED <<files, pc, at, todo, draft, crashes>>

(* store_extraction_batch_bulk_init.                                       *)
StartLoad(c) ==
  /\ pc[c] = "ready" /\ c \in Loaders
  /\ Go(c, "dropping", For(0, << "drop_nodes_ai", "drop_nodes_ad" >>))
  /\ UNCHANGED <<files, store, at, draft, torn, crashes>>

BeginLoad(c) ==
  /\ pc[c] = "dropping" /\ todo[c] = <<>> /\ Here(c).lock = NoConn
  /\ Put(c, [Here(c) EXCEPT !.lock = c]) /\ Go(c, "loading", <<>>)
  /\ \E some \in SUBSET Id \ {{}} :
       draft' = [draft EXCEPT ![c] = [content |-> Here(c), left |-> some]]
  /\ UNCHANGED <<files, at, torn, crashes>>

(* `?` ends a load on the first statement that waited too long, with what is      *)
(* left to do undone; the triggers may stay off.                              *)
LoadBusy(c) ==
  /\ InLoad(c) /\ Waits(c) /\ Go(c, "ready", <<>>)
  /\ Tear(at[c], Here(c).triggers # Sync \/ Lags(Here(c)))
  /\ UNCHANGED <<files, store, at, draft, crashes>>

(* A batch of the transaction replaces the rows of its file, if that changed.  *)
LoadFile(c, i, t) ==
  /\ pc[c] = "loading" /\ i \in draft[c].left /\ Writable(draft[c].content)
  /\ LET s == draft[c].content
         stored == <<i, t>> \in {s.rows[r] : r \in DOMAIN s.rows}
         next == IF stored THEN s ELSE Replaced(s, i, t)
     IN NewRow(next.rows) <= MaxRow + 1
          /\ draft' = [draft EXCEPT ![c] = [content |-> next, left |-> @.left \ {i}]]
  /\ UNCHANGED <<files, store, pc, at, todo, torn, crashes>>

AfterLoad == For(0, << "rebuild", "triggers_if_missing" >>)
(* Mutant: the triggers are not made again after a load that failed. *)
AfterFailedNothing == <<>>
AfterFailedLoad == For(0, << "triggers_if_missing" >>)

CommitLoad(c) ==
  /\ pc[c] = "loading" /\ draft[c].left = {} /\ Put(c, draft[c].content)
  /\ Go(c, "after", AfterLoad) /\ draft' = [draft EXCEPT ![c] = NoDraft]
  /\ UNCHANGED <<files, at, torn, crashes>>

FailLoad(c) ==
  /\ pc[c] = "loading" /\ Put(c, [Here(c) EXCEPT !.lock = NoConn])
  /\ Go(c, "undoing", AfterFailedLoad) /\ draft' = [draft EXCEPT ![c] = NoDraft]
  /\ Tear(at[c], Lags(Here(c)))
  /\ UNCHANGED <<files, at, crashes>>

EndLoad(c) ==
  /\ pc[c] \in {"after", "undoing"} /\ todo[c] = <<>> /\ Go(c, "ready", <<>>)
  /\ UNCHANGED <<files, store, at, draft, torn, crashes>>

(* The file is closed or the process killed: SQLite rolls back and unlocks.    *)
Exit(c) ==
  /\ pc[c] \in {"ready", "lost"} /\ Leave(c, Here(c)) /\ UNCHANGED <<files, torn, crashes>>

Crash(c) ==
  /\ pc[c] \notin {"closed", "lost"} /\ crashes + restores < MaxMishaps /\ crashes' = crashes + 1
  /\ Tear(at[c], InLoad(c) /\ (Others(c) # {} \/ Lags(Here(c))))
  /\ Leave(c, Unlocked(c)) /\ UNCHANGED files

-----------------------------------------------------------------------------
(* `snapshot` opens the file too, and copies what is committed.  One is taken, *)
(* while a restore may follow.                                               *)
Snapshot ==
  /\ live # 0 /\ snap = <<>> /\ crashes + restores < MaxMishaps /\ at' = at
  /\ IF Astray THEN Lose(live, store) ELSE UNCHANGED <<store, spoiled, pc, todo, draft>>
  /\ snap' = << [content |-> [store'[live] EXCEPT !.lock = NoConn],
                 torn |-> live \in torn \/ Loading(live), spoiled |-> live \in spoiled'] >>
  /\ UNCHANGED <<live, backup, torn, restoring, crashes, restores>>

(* `restore`: the file that is there is renamed, whoever has it open, and its       *)
(* write-ahead log is not; then the backup writes over whatever file has the      *)
(* name by now.                                                             *)
RestoreRename ==
  /\ ~restoring /\ snap # <<>> /\ crashes + restores < MaxMishaps
  /\ restoring' = TRUE /\ restores' = restores + 1
  /\ IF live = 0 THEN UNCHANGED <<live, backup>> ELSE backup' = live /\ live' = 0
  /\ at' = at
  /\ IF live # 0 /\ Attached(live) THEN Lose(live, store)
     ELSE store' = Kept(store, at, 0) /\ UNCHANGED <<spoiled, pc, todo, draft>>
  /\ UNCHANGED <<snap, torn, crashes>>

RestoreInto(s, isTorn, isSpoiled) ==
  /\ live' = IF live = 0 THEN Len(store) + 1 ELSE live
  /\ torn' = IF isTorn THEN torn \union {live'} ELSE torn
  /\ at' = at
  /\ IF live # 0 /\ Attached(live) THEN Lose(live, store)
     ELSE /\ store' = IF live = 0 THEN Append(store, s) ELSE [store EXCEPT ![live] = s]
          /\ spoiled' = IF isSpoiled THEN spoiled \union {live'} ELSE spoiled
          /\ UNCHANGED <<pc, todo, draft>>

(* A snapshot that no restore may follow is forgotten.                        *)
Restored ==
  /\ restoring /\ restoring' = FALSE
  /\ snap' = IF crashes + restores < MaxMishaps THEN snap ELSE <<>>
  /\ UNCHANGED <<backup, crashes, restores>>

RestoreCopy ==
  Restored /\ RestoreInto(snap[1].content, snap[1].torn, snap[1].spoiled)

(* A file that is not a database: the new, empty file stays behind.  Or one that  *)
(* another has locked.                                                       *)
RestoreFails ==
  /\ Restored
  /\ \/ live = 0 /\ RestoreInto(Empty, FALSE, FALSE)
     \/ live # 0 /\ UNCHANGED <<store, live, torn, spoiled, pc, at, todo, draft>>

-----------------------------------------------------------------------------
(* No database, or one that a program of an earlier version left.            *)
Older(i, t) ==
  LET rows == [r \in {1} |-> <<i, t>>]
  IN [Empty EXCEPT !.rows = rows, !.fts = Exact(rows), !.triggers = Sync,
                   !.table = IF 6 \in InitVersions THEN "new" ELSE "old",
                   !.made = InitVersions, !.versions = InitVersions]

Init ==
  /\ \/ store = <<>> /\ live = 0
     \/ (\E i \in Id, t \in Text : store = << Older(i, t) >>) /\ live = 1
  /\ backup = 0 /\ snap = <<>> /\ torn = {} /\ spoiled = {}
  /\ pc = [c \in Conn |-> "closed"] /\ at = [c \in Conn |-> 0] /\ todo = [c \in Conn |-> <<>>]
  /\ draft = [c \in Conn |-> NoDraft]
  /\ restoring = FALSE /\ crashes = 0 /\ restores = 0

Next ==
  \/ \E c \in Conn :
       \/ Open(c) \/ OpenBusy(c) \/ RunStatement(c) \/ ReadVersion(c) \/ Opened(c)
       \/ StartLoad(c) \/ BeginLoad(c) \/ LoadBusy(c) \/ CommitLoad(c) \/ FailLoad(c)
       \/ EndLoad(c) \/ Exit(c) \/ Crash(c)
       \/ \E i \in Id : DeleteFile(c, i) \/ \E t \in Text : StoreFile(c, i, t) \/ LoadFile(c, i, t)
  \/ Snapshot \/ RestoreRename \/ RestoreCopy \/ RestoreFails

Spec == Init /\ [][Next]_vars

-----------------------------------------------------------------------------
(* What Database promises to those who open it and search.               *)

Ready(i) == \E c \in Conn : at[c] = i /\ pc[c] = "ready"
Migrating(i) == \E c \in Conn : at[c] = i /\ Opening(c)
Undisturbed(i) == Ready(i) /\ ~Loading(i) /\ ~Migrating(i)

(* All that schema.sql and the migrations make, but for the triggers.          *)
Whole(s) ==
  s.table = "new" /\ s.versions = {1} \union Versions /\ Versions \ {6} \subseteq s.made

(* Files and processes are what they should be, and a write transaction is open   *)
(* in a process that is loading and in no other.                             *)
TypeOK ==
  /\ live \in 0..Len(store) /\ backup \in 0..Len(store)
  /\ \A c \in Conn : at[c] \in 0..Len(store) /\ (pc[c] = "closed" <=> at[c] = 0)
  /\ \A i \in 1..Len(store) :
       /\ store[i].triggers \subseteq Sync
       /\ store[i].lock # NoConn => at[store[i].lock] = i /\ pc[store[i].lock] = "loading"

(* The full-text index has an entry for each node and no other, for whoever     *)
(* has the file open, whatever others stored beside a load, unless the index       *)
(* was torn: a process ended or gave up waiting between the statements of its     *)
(* load, a load failed on what another wrote, or another wrote between its         *)
(* rebuild and its triggers.                                                 *)
SearchExact ==
  \A i \in 1..Len(store) \ torn : Undisturbed(i) => ~Lags(store[i])

(* Every open ends with the whole schema, whatever crash or lock went before: a    *)
(* migration that was cut short is repeated to its end by the next open.  The     *)
(* triggers are there too, unless another process is loading or tore the index;   *)
(* an open by the one process that loads repairs that as well.                  *)
OpenRepairs ==
  [][\A c \in Conn : Opening(c) /\ pc'[c] = "ready" =>
       /\ Whole(store'[at[c]])
       /\ \/ store'[at[c]].triggers = Sync
          \/ ~(Loaders \subseteq {c}) /\ (at[c] \in torn \/ Loading(at[c]))]_vars

(* No open fails on what an earlier one left: it ends by a kill, or because it      *)
(* waited too long for another process, never because the file refuses what       *)
(* it is about to do.                                                        *)
NoOpenFails ==
  [][\A c \in Conn : Opening(c) /\ pc'[c] = "closed" =>
       \/ crashes' = crashes + 1
       \/ Waits(c) /\ ~Fails(Head(todo[c]), Here(c))]_vars

-----------------------------------------------------------------------------
(* The properties above, by what they are about. *)

(* What a search may rely on at any moment.                                  *)
SearchSound == TypeOK /\ SearchExact

(* What an open promises, whatever crash or load was before it.               *)
OpensWell == OpenRepairs /\ NoOpenFails
=============================================================================
