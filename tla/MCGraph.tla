------------------------------ MODULE MCGraph ------------------------------
(* Graphs over six nodes of three files: 1 a class with the method 2, in the  *)
(* file of 4; 3 a test function, in the file of 5; 6 a file with no symbol.   *)
(* Every part of each pool of edge rows is a graph.                          *)
EXTENDS GraphAnswers, TLC

MCNode == 1..6
MCKindOf == <<"class", "method", "function", "file", "file", "file">>
MCFileOf == <<1, 1, 2, 1, 2, 3>>
MCLineOf == <<1, 2, 1, 0, 0, 0>>
MCNameOf == <<"a", "b", "b", "f", "f", "g">>
MCTestNode == {3, 5}
MCKindBonus == <<10, 8, 8, 0, 0, 0>>
Row(s, t, k) == [source |-> s, target |-> t, kind |-> k]

(* Calls with cycles, a self-call and two kinds between one pair; members.    *)
MCCalls == << Row(2, 1, "calls"), Row(3, 2, "calls"), Row(3, 1, "references"),
              Row(1, 2, "contains"), Row(6, 3, "imports"), Row(1, 3, "calls"),
              Row(6, 3, "calls"), Row(4, 1, "contains") >>
(* Files that import each other, or symbols of each other.                   *)
MCImports == << Row(4, 5, "imports"), Row(5, 6, "imports"), Row(6, 4, "imports"),
                Row(5, 1, "imports"), Row(4, 3, "imports"), Row(6, 3, "imports"),
              Row(1, 6, "calls") >>
(* A type lattice with a cycle, and the containers of two types.             *)
MCTypes == << Row(2, 1, "extends"), Row(3, 2, "implements"), Row(3, 1, "implements"),
              Row(4, 1, "extends"), Row(1, 2, "extends"),
              Row(5, 1, "contains"), Row(5, 2, "contains"), Row(6, 3, "uses") >>
MCPools == {MCCalls, MCImports, MCTypes}
MCRootLists == {<<1>>, <<2, 3>>, <<3, 4, 1>>}
=============================================================================
