------------------------------ MODULE MCResolve ------------------------------
(* ResolvePipeline on five references of two files; the third and the fifth  *)
(* do not resolve.                                                           *)
EXTENDS ResolvePipeline, TLC

CONSTANTS w1, w2

MCShardOf == (1 :> w1) @@ (2 :> w2) @@ (3 :> w1) @@ (4 :> w1) @@ (5 :> w2)
MCResolvable == {1, 2, 4}
=============================================================================
