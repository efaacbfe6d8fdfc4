---------------------------- MODULE ResolveDrain ----------------------------
(* What a full resolution pass promises of the queue of unresolved           *)
(* references (doc comment of run_until_empty_parallel: "Drain all unresolved *)
(* refs"): transactions of references that resolve, each one handled once,    *)
(* and success only when every resolvable reference that was in the table     *)
(* throughout is handled.  Other processes insert and delete rows meanwhile.  *)
EXTENDS Naturals

CONSTANTS
  MaxRef,      \* bound on the ids of unresolved_refs
  Resolvable   \* the references for which resolve_one finds a node

VARIABLES
  table,       \* the ids in unresolved_refs
  made,        \* the last id AUTOINCREMENT has given
  old,         \* the references there when the pass began
  handled,     \* how many committed transactions handled each reference
  outcome      \* what run_until_empty_parallel has returned, if it has

queue == <<table, made, old>>
vars == <<table, made, old, handled, outcome>>

Init ==
  /\ made \in 0..MaxRef
  /\ table \in SUBSET (1..made)
  /\ old = table
  /\ handled = [r \in 1..MaxRef |-> 0]
  /\ outcome = "running"

(* Another process stores a file: a new row, with an id never used before. *)
Arrive ==
  /\ made < MaxRef
  /\ made' = made + 1
  /\ table' = table \cup {made + 1}
  /\ UNCHANGED <<old, handled, outcome>>

(* Another process stores or deletes a file: its old rows go. *)
Vanish(r) ==
  /\ table' = table \ {r}
  /\ UNCHANGED <<made, old, handled, outcome>>

Commit(batch) ==
  /\ outcome = "running"
  /\ \A r \in batch : handled[r] = 0
  /\ table' = table \ batch
  /\ handled' = [r \in 1..MaxRef |-> IF r \in batch THEN 1 ELSE handled[r]]
  /\ UNCHANGED <<made, old, outcome>>

Succeed ==
  /\ outcome = "running"
  /\ old \cap table \cap Resolvable = {}
  /\ outcome' = "ok"
  /\ UNCHANGED <<table, made, old, handled>>

Fail ==
  /\ outcome = "running"
  /\ outcome' = "failed"
  /\ UNCHANGED <<table, made, old, handled>>

Next ==
  \/ Arrive
  \/ \E r \in table : Vanish(r)
  \/ \E batch \in SUBSET Resolvable : Commit(batch)
  \/ Succeed
  \/ Fail

Spec == Init /\ [][Next]_vars
=============================================================================
