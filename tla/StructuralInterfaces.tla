------------------------ MODULE StructuralInterfaces ------------------------
(***************************************************************************)
(* The edges from Go types to the interfaces they satisfy, worked out from   *)
(* the sources (codewiki-resolution/src/structural_interface.rs).            *)
(*                                                                         *)
(* A Go project is a set of declarations: types and interfaces (the nodes    *)
(* of the index), and methods, each in a file of a package directory.  A      *)
(* method is [name, exported, params]; a parameter is "plain", or "func" if   *)
(* its type has parentheses of its own.  An interface lists its methods, one  *)
(* to a line; the interfaces it embeds have no parentheses, and the parser     *)
(* passes over them.                                                        *)
(***************************************************************************)
EXTENDS Integers, Sequences, FiniteSets

Method == [name : STRING, exported : BOOLEAN, params : Seq({"plain", "func"})]

DirOf(decl) == decl.file.dir

(* The regular expression takes the parameters up to the first ")", and no    *)
(* comma counts behind a "(" that was not closed.                            *)
ParamArity(params) ==
  LET funcs == {i \in DOMAIN params : params[i] = "func"}
  IN IF funcs = {} THEN Len(params) ELSE CHOOSE i \in funcs : \A j \in funcs : i <= j

Signature(method) == [name |-> method.name, arity |-> ParamArity(method.params)]

Signatures(methods) == {Signature(m) : m \in {m \in methods : m.exported}}

(* Mutant: the methods of a type are those in its own file. *)
MethodsInFile(go, dir, type) ==
  UNION {Signatures({d.method : d \in {d \in go : d.what = "method" /\ d.file = t.file}}) :
           t \in {t \in go : t.what = "type" /\ t.type = type /\ DirOf(t) = dir}}

(* What parse_go_file finds, gathered by package directory and type name.     *)
MethodsOf(go, dir, type) ==
  Signatures({d.method : d \in {d \in go : d.what = "method" /\ DirOf(d) = dir /\ d.type = type}})

RequiredBy(go, dir, name) ==
  Signatures(UNION {d.methods : d \in {d \in go : d.what = "interface" /\ DirOf(d) = dir
                                                  /\ d.type = name}})

Interfaces(go) ==
  {d \in go : d.what = "interface" /\ d.exported /\ RequiredBy(go, DirOf(d), d.type) # {}}

ConcreteTypes(go) ==
  {d \in go : d.what = "type" /\ d.exported /\ MethodsOf(go, DirOf(d), d.type) # {}}

Satisfies(go, t, i) == RequiredBy(go, DirOf(i), i.type) \subseteq MethodsOf(go, DirOf(t), t.type)

(* 0.75 for an interface of two methods or more, 0.55 for a single one.       *)
Confidence(go, i) == IF Cardinality(RequiredBy(go, DirOf(i), i.type)) >= 2 THEN 150 ELSE 110

Synthesize(go) ==
  UNION {{[from |-> t, to |-> i, conf |-> Confidence(go, i)] :
             i \in {i \in Interfaces(go) : Satisfies(go, t, i)}} : t \in ConcreteTypes(go)}
=============================================================================
