----------------------------- MODULE RouteProofs -----------------------------
(***************************************************************************)
(* Route nodes of a project, for any files, routes and number of edits.    *)
(***************************************************************************)
EXTENDS RouteManifests, TLAPS

AnyText == Texts \cup {NoText}

ProjectType ==
  /\ disk \in [Files -> AnyText]
  /\ indexed \in [Files -> AnyText]
  /\ routes \in SUBSET (Files \X Paths)

RouteInv == ProjectType /\ NoGhostRoutes

-----------------------------------------------------------------------------
LEMMA PathsOfText == \A t \in AnyText : t.paths \in SUBSET Paths
<1>1. NoText.paths = {}
  BY DEF NoText
<1>2. \A t \in Texts : t.paths \in SUBSET Paths
  BY DEF Texts
<1> QED BY <1>1, <1>2 DEF AnyText

LEMMA RoutesInit == ProjectInit => RouteInv
  BY DEF ProjectInit, RouteInv, ProjectType, AnyText, NoGhostRoutes

(* Extraction of files takes their routes with it, those that extract() found *)
(* too early as well.                                                         *)
LEMMA ReextractKeepsInv ==
  ASSUME RouteInv, NEW fs \in SUBSET Files, Reextract(fs), UNCHANGED disk
  PROVE  RouteInv'
<1> USE DEF RouteInv
<1>1. ProjectType'
  BY DEF ProjectType, Reextract
<1>2. \A f \in Files : indexed'[f] = IF f \in fs THEN disk[f] ELSE indexed[f]
  BY DEF Reextract
<1>3. ASSUME NEW r \in routes' PROVE r[2] \in indexed'[r[1]].paths \/ r[1] \in raced'
  <2>1. r \in routes /\ r[1] \in Files /\ r[1] \notin fs
    BY DEF Reextract, ProjectType
  <2>2. r[2] \in indexed[r[1]].paths \/ r[1] \in raced
    BY <2>1 DEF NoGhostRoutes
  <2> QED BY <1>2, <2>1, <2>2 DEF Reextract
<1> QED BY <1>1, <1>3 DEF NoGhostRoutes

(* What extract() adds is of the indexed text, or it sees that it is not: the *)
(* text on disk is another one.                                               *)
LEMMA ExtractKeepsInv ==
  ASSUME RouteInv, NEW f \in Files, Extract(f)
  PROVE  RouteInv'
<1> USE DEF RouteInv
<1>1. UNCHANGED <<disk, indexed>>
  BY DEF Extract
<1>2. CASE UNCHANGED <<routes, raced>>
  BY <1>1, <1>2 DEF ProjectType, NoGhostRoutes
<1>3. CASE /\ routes' = routes \cup Of(f)
           /\ raced' = IF disk[f] = indexed[f] THEN raced ELSE raced \cup {f}
  <2>1. disk[f].paths \in SUBSET Paths
    BY PathsOfText DEF ProjectType
  <2>2. \A r \in Of(f) : r \in Files \X Paths /\ r[1] = f /\ r[2] \in disk[f].paths
    BY <2>1 DEF Of
  <2>3. ProjectType'
    BY <1>1, <1>3, <2>2 DEF ProjectType
  <2>4. ASSUME NEW r \in routes' PROVE r[2] \in indexed'[r[1]].paths \/ r[1] \in raced'
    <3>1. CASE r \in routes
      BY <1>1, <1>3, <3>1 DEF NoGhostRoutes
    <3>2. CASE r \in Of(f)
      BY <1>1, <1>3, <2>2, <3>2
    <3> QED BY <1>3, <3>1, <3>2
  <2> QED BY <2>3, <2>4 DEF NoGhostRoutes
<1> QED BY <1>2, <1>3 DEF Extract

LEMMA RoutesStep == RouteInv /\ [ProjectNext]_projectVars => RouteInv'
<1> SUFFICES ASSUME RouteInv, [ProjectNext]_projectVars PROVE RouteInv'
  OBVIOUS
<1>1. ASSUME NEW f \in Files, NEW t \in AnyText, Edit(f, t) PROVE RouteInv'
  BY <1>1 DEF Edit, RouteInv, ProjectType, NoGhostRoutes
<1>2. ASSUME NEW f \in Files, Extract(f) PROVE RouteInv'
  BY <1>2, ExtractKeepsInv
<1>3. CASE Sync
  BY <1>3, ReextractKeepsInv DEF Sync, Changed
<1>4. CASE Index
  BY <1>4, ReextractKeepsInv DEF Index, Changed
<1>5. CASE UNCHANGED projectVars
  BY <1>5 DEF projectVars, RouteInv, ProjectType, NoGhostRoutes
<1> QED BY <1>1, <1>2, <1>3, <1>4, <1>5 DEF ProjectNext, AnyText

(* A route in the index is of the text its file is indexed with, whatever sync, *)
(* index and extract() do and in whatever order with edits, also those that     *)
(* bring a text back, unless extract() came upon a text that no run had         *)
(* indexed.                                                                     *)
THEOREM RoutesOfTheText == ProjectSpec => []NoGhostRoutes
<1>1. RouteInv => NoGhostRoutes
  BY DEF RouteInv
<1> QED BY <1>1, RoutesInit, RoutesStep, PTL DEF ProjectSpec
=============================================================================
