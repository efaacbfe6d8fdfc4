--------------------------- MODULE SyncProperties ---------------------------
(***************************************************************************)
(* What the processes of SyncSystem promise about the index they share.    *)
(***************************************************************************)
EXTENDS SyncSystem

Idle(p) == pc[p] \in {"idle", "down"}

(* Nobody is at work and no change waits to be taken. *)
Quiet == trigger = {} /\ \A p \in Proc : Idle(p)

(* The index shows file f as it is on disk, row and nodes. *)
Current(f) ==
  IF disk[f] = NoFile THEN files[f] = NoRow
  ELSE /\ files[f] # NoRow /\ files[f].hash = disk[f].text
       /\ {n \in nodes : n[1] = f} = NodesOf(f, disk[f].text)

Resolvable(r) == \E n \in nodes : n[2] \in Answers[r.name]

(* Some node carries the very name the reference gives. *)
Nameable(r) == Resolvable(r) /\ r.name \in {n[2] : n \in nodes}

(* Reference u of file f is unresolved or has the edge it resolved to. *)
Kept(f, u) ==
  \/ \E r \in refs : r.src = <<f, u[1]>> /\ r.name = u[2]
  \/ \E n \in Node : n[2] \in Answers[u[2]] /\ edges[<< <<f, u[1]>>, n>>] > 0

-----------------------------------------------------------------------------
(* The sync lock admits one cycle at a time, through crashes and early       *)
(* returns: whoever is between acquire_sync_lock and the return of           *)
(* run_sync_cycle holds it, and nobody else does.                            *)
LockHeld == \A p \in Proc : pc[p] \in InCycle <=> lock = p

(* Every edge was extracted from, or resolved from a reference of, the text  *)
(* its source file has in the index, or joins a type to an interface it      *)
(* covers: re-extraction leaves no stale edge and resolution adds none.      *)
EdgesJustified ==
  \A e \in Edge : edges[e] > 0 =>
    /\ files[e[1][1]] # NoRow
    /\ \/ IsLocal(e, files[e[1][1]])
       \/ \E u \in Uses[files[e[1][1]].hash] :
            u[1] = e[1][2] /\ e[2][2] \in Answers[u[2]]
       \/ <<e[1][2], e[2][2]>> \in Structural

(* A reference, resolved once, is one row of edges although no UNIQUE       *)
(* constraint of the table says so: no cycle or second pass inserts an edge  *)
(* again.  (Retries of a chunk are in ResolvePipeline.)                     *)
NoDuplicateReferences ==
  \A e \in Edge : <<e[1][2], e[2][2]>> \notin Structural => edges[e] <= 1

(* A reference that only its own file can answer is never lost: as long as   *)
(* the file's text makes it, it is unresolved or has its edge.               *)
OwnReferencesKept ==
  \A f \in File : files[f] # NoRow =>
    \A u \in Uses[files[f].hash] :
      (\A g \in File \ {f} : \A c \in Texts[g] : Answers[u[2]] \cap Defs[c] = {})
        => Kept(f, u)

(* Once nothing runs, no reference whose very name some node carries is left *)
(* unresolved: the direct, dependent and newly-nameable references of        *)
(* run_resolution_incremental are all of these a change can make resolvable. *)
QuietMeansResolved ==
  Quiet => \A r \in refs : ~Nameable(r)

(* A text the index does not show is one the next cycle would pick up: the   *)
(* mtime and size tiers never take a changed file for an unchanged one.      *)
StaleIsDetectable ==
  \A f \in File :
    lock = NoProc /\ files[f] # NoRow /\ disk[f] # NoFile
      /\ files[f].hash # disk[f].text
      => Modified(f)

(* A cycle finds work only if some file really is not as the index shows it  *)
(* or vanished under the walk: a byte-order mark, which makes size and       *)
(* length differ, is never taken for a change.                               *)
Settled(f) == Current(f) /\ (disk[f] # NoFile => files[f].mtime = disk[f].mtime)

CurrentMeansNoop ==
  [][\A p \in Proc : Classify(p) =>
       \E f \in File : ~Settled(f) \/ (f \in left[p] /\ disk[f] = NoFile)]_vars

(* "The graph stays current automatically" (README.md): once the user stops  *)
(* editing, the index comes to show every file as it is, and stays so.       *)
Converges == <>[](\A f \in File : Current(f))

-----------------------------------------------------------------------------
(* What the code says of itself and does not do; each has a run that refutes *)
(* it.                                                                      *)

(* "only changed files and their direct dependants are re-extracted and      *)
(* re-resolved" (README.md:476): a reference of a file the index shows       *)
(* survives the re-extraction of the file it points into.                    *)
DependantsResolved ==
  Quiet => \A f \in File : files[f] # NoRow =>
    \A u \in Uses[files[f].hash] : Kept(f, u)
=============================================================================
