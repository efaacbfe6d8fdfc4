----------------------------- MODULE RouteManifests -----------------------------
(***************************************************************************)
(* How the routes of a framework live in the index (run_resolution in         *)
(* util.rs, beside sync_loop.rs and index.rs).  A route node carries the path *)
(* of the file it was found in; the record of the batch it came with carries  *)
(* the path of a manifest that is not on disk, and an empty hash.  Extraction *)
(* of a file deletes every node with its path, routes too, and the resolver's *)
(* extract() stores them again, unless the run leaves it out or the record of *)
(* the manifest has the number of nodes that was found.  A text is its        *)
(* SHA-256: an edit may bring back the one that is indexed, and then no run   *)
(* extracts the file.                                                         *)
(***************************************************************************)
EXTENDS Integers, FiniteSets

CONSTANTS Files,        \* source files
          Setup,        \* those that count as configuration ("setup.py")
          Paths,        \* routes a file may declare
          Bodies,       \* what else its text may say
          MaxEdits      \* bound on changes on disk

VARIABLES disk,         \* file -> its text, or NoText
          indexed,      \* file -> the text its nodes were extracted from, or NoText
          routes,       \* route nodes, <<file, path>>
          manifests,    \* file -> node count of the manifest's record, or NoManifest
          todo,         \* files that extract() has yet to read
          raced,        \* files whose routes extract() read from another text than that of their nodes
          last,         \* the run that is on or ended last, with no change since
          edits
projectVars == <<disk, indexed, routes, manifests, todo, raced, last, edits>>

NoText == [body |-> "no file", paths |-> {}]
NoManifest == -1
Texts == [body : Bodies, paths : SUBSET Paths]

Of(f) == {<<f, p>> : p \in disk[f].paths}
Changed == {f \in Files : disk[f] # indexed[f]}
Idle == todo = {}

ProjectInit ==
  /\ disk = [f \in Files |-> NoText]
  /\ indexed = [f \in Files |-> NoText]
  /\ routes = {}
  /\ manifests = [f \in Files |-> NoManifest]
  /\ todo = {}
  /\ raced = {}
  /\ last = "none"
  /\ edits = 0

\* The text of a file changes, and its hash with it, or the file goes.
Edit(f, t) ==
  /\ edits < MaxEdits /\ disk[f] # t
  /\ edits' = edits + 1
  /\ disk' = [disk EXCEPT ![f] = t]
  /\ last' = "edit"
  /\ UNCHANGED <<indexed, routes, manifests, todo, raced>>

\* Mutant: the route nodes are the manifest's and survive.
ReextractKeeping(fs) ==
  /\ indexed' = [f \in Files |-> IF f \in fs THEN disk[f] ELSE indexed[f]]
  /\ raced' = raced \ fs
  /\ UNCHANGED routes

\* store_extraction_batch and delete_file go by the path of the nodes.
Reextract(fs) ==
  /\ indexed' = [f \in Files |-> IF f \in fs THEN disk[f] ELSE indexed[f]]
  /\ routes' = {r \in routes : r[1] \notin fs}
  /\ raced' = raced \ fs

\* sync: added, modified and removed files, but not the manifests, which are
\* never on disk.  extract() runs only when configuration is among them; with
\* this few files they are always a tenth.
Sync ==
  /\ Idle /\ Changed # {}
  /\ Reextract(Changed)
  /\ todo' = IF Changed \intersect Setup # {} THEN {f \in Files : indexed'[f] # NoText} ELSE {}
  /\ last' = "sync"
  /\ UNCHANGED <<disk, manifests, edits>>

\* index: files on disk; one that is gone stays in the index.  The rest has
\* the hash of its record and is skipped.
Index ==
  /\ Idle
  /\ \E f \in Files : disk[f] # NoText
  /\ Reextract({f \in Changed : disk[f] # NoText})
  /\ todo' = {f \in Files : indexed'[f] # NoText}
  /\ last' = "index"
  /\ UNCHANGED <<disk, manifests, edits>>

\* What the hash gate of the batch compares: "" with "", and the counts.
Stored(f) == manifests[f] = Cardinality(disk[f].paths)

\* extract() reads the disk, which may be ahead of the index.  A file it cannot
\* read and a file without routes store nothing.
Extract(f) ==
  /\ f \in todo
  /\ todo' = todo \ {f}
  /\ IF Of(f) = {} \/ Stored(f)
     THEN UNCHANGED <<routes, manifests, raced>>
     ELSE /\ routes' = routes \union Of(f)
          /\ manifests' = [manifests EXCEPT ![f] = Cardinality(Of(f))]
          /\ raced' = IF disk[f] = indexed[f] THEN raced ELSE raced \union {f}
  /\ UNCHANGED <<disk, indexed, last, edits>>

ProjectNext ==
  \/ \E f \in Files : \E t \in Texts \union {NoText} : Edit(f, t)
  \/ \E f \in Files : Extract(f)
  \/ Sync
  \/ Index

(* A project by itself; FrameworkSystem runs it beside the samples.            *)
ProjectSpec == ProjectInit /\ [][ProjectNext]_projectVars

-----------------------------------------------------------------------------
(* A route in the index is declared by the text that the other nodes of its     *)
(* file come from, also while extract() is at work and whatever texts come      *)
(* back: extraction takes the routes of the old text with it, and extract(),    *)
(* which reads the disk later, adds none of an older one.  The exception is a   *)
(* file that extract() read after it had changed again (util.rs:282): until     *)
(* the next extraction of the file, which an edit back to the indexed text      *)
(* puts off to the next change (storage_impl.rs:360), it may have the routes of both. *)
NoGhostRoutes == \A r \in routes : r[2] \in indexed[r[1]].paths \/ r[1] \in raced
=============================================================================
