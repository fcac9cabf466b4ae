------------------------------ MODULE MCLoader ------------------------------
(***************************************************************************)
(* A small instance of Loader.tla: modules of one directory, with a        *)
(* diamond, a chain and cycles of requires between them.                   *)
(***************************************************************************)
EXTENDS Loader

CONSTANTS a, b, c, x, y

MCCanonOf  == [s \in Spellings |-> "abs"]
MCSearch   == <<"abs">>
MCExists   == {"abs"} \X Names

\* Two directories, each with a module of every name.
MCTwoDirs  == [s \in Spellings |-> s]
MCTwoExist == {"abs", "lib"} \X Names

MCDefs     == [f \in Exists |-> IF f = <<"abs", a>> THEN {x, y} ELSE {x}]
MCBinDefs  == {{y}, {}}
Graph(A, B, C) == [n \in Names |-> IF n = a THEN A ELSE IF n = b THEN B ELSE C]
MCRequires == {Graph({b, c}, {c}, {}), Graph({b}, {a}, {a})}
=============================================================================
