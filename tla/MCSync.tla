------------------------------- MODULE MCSync -------------------------------
(* SyncSystem on two files.  Text a1 of `a` uses y, which text b1 of `b`    *)
(* defines, by its name, a2 by the qualified name q; y is a type whose       *)
(* methods cover the interface x of `a`.  Text b2 has x in the place of y,   *)
(* so that the references of `a` lose their target and find it again.        *)
EXTENDS SyncProperties, TLC

CONSTANTS w, g, h, a, b, x, y, q, a1, a2, b1, b2

MCDefs == (a1 :> {x}) @@ (a2 :> {x}) @@ (b1 :> {y}) @@ (b2 :> {x})
MCUses == (a1 :> {<<x, y>>}) @@ (a2 :> {<<x, q>>}) @@ (b1 :> {<<y, y>>}) @@ (b2 :> {})
MCAnswers == (x :> {x}) @@ (y :> {y}) @@ (q :> {y})
MCLocal == (a1 :> {}) @@ (a2 :> {<<x, x>>}) @@ (b1 :> {}) @@ (b2 :> {})
MCStructural == {<<y, x>>}
MCTexts == (a :> {a1, a2}) @@ (b :> {b1, b2})
(* Lengths that tell the texts of a file apart; b2 has a byte-order mark. *)
MCSizeOf == (a1 :> 10) @@ (a2 :> 11) @@ (b1 :> 10) @@ (b2 :> 20)
MCRawSize == (a1 :> 10) @@ (a2 :> 11) @@ (b1 :> 10) @@ (b2 :> 23)
=============================================================================
