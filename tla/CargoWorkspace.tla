---------------------------- MODULE CargoWorkspace ----------------------------
(***************************************************************************)
(* The crates of a Cargo workspace (cargo_workspace.rs): members, their names *)
(* and the dependencies between them.                                         *)
(*                                                                            *)
(* A path is a sequence of directories, relative to the root unless it says   *)
(* otherwise.  A manifest is a record: name, a sequence of words joined by    *)
(* dashes or None, and deps, a set of [name, up, path] ("../path" when up).   *)
(* A name is [words, sep]: the separator is "-" or "_".                       *)
(***************************************************************************)
LOCAL INSTANCE Integers
LOCAL INSTANCE Sequences
LOCAL INSTANCE SequencesExt
LOCAL INSTANCE FiniteSets
LOCAL INSTANCE Functions

NoName == [words |-> <<>>, sep |-> "-"]
Dashed(name) == [name EXCEPT !.sep = "-"]
Underscored(name) == [name EXCEPT !.sep = "_"]
Aliases(name) == {name, Dashed(name), Underscored(name)}

\* "crates/*" is every directory or file below crates among the known files,
\* which are compared as they are: with absolute paths nothing is below.
ExpandGlob(prefix, known) ==
  {SubSeq(f, 1, Len(prefix) + 1) : f \in {g \in known : IsStrictPrefix(prefix, g)}}
ExpandGlobMembers(members, known) ==
  UNION {IF m.glob THEN ExpandGlob(m.path, known) ELSE {m.path} : m \in members}

\* The name in the manifest, or the last directory.
PackageName(manifests, member) ==
  IF member \in DOMAIN manifests /\ manifests[member].name # NoName THEN manifests[member].name
  ELSE [words |-> <<Last(member)>>, sep |-> "-"]

\* One "../" is dropped with the last directory of the member, and so is
\* that directory without it.
ResolveRelativePath(member, dep) == Front(member) \o dep.path

Crates(members, manifests) == {PackageName(manifests, m) : m \in members}

\* Path dependencies between members, found by their path or else by a name.
\* Of two members with one name either may be meant.
DependencyTargets(members, manifests, member, dep) ==
  LET at == ResolveRelativePath(member, dep)
      named == {m \in members : Aliases(dep.name) \intersect Aliases(PackageName(manifests, m)) # {}}
  IN IF at \in members THEN {at} ELSE named

Dependencies(members, manifests) ==
  UNION {UNION {{<<PackageName(manifests, m), PackageName(manifests, t)>> :
                   t \in DependencyTargets(members, manifests, m, d)} : d \in manifests[m].deps} :
           m \in members \intersect DOMAIN manifests}

\* A name of a crate in any form refers to the crate, if its node is found
\* under the form the name is asked in.
ResolveCrate(members, manifests, name, nodes) ==
  IF \E c \in Crates(members, manifests) : Aliases(name) \intersect Aliases(c) # {}
  THEN Aliases(name) \intersect nodes ELSE {}
=============================================================================
