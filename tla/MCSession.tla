----------------------------- MODULE MCSession ------------------------------
(***************************************************************************)
(* Sessions of a few inputs over four modules.                             *)
(***************************************************************************)
EXTENDS Session

MCModules == {"a", "b", "c", "d"}

Files(a, b, c) == [m \in MCModules |-> CASE m = "a" -> a [] m = "b" -> b
                                         [] m = "c" -> c [] m = "d" -> <<Bad>>]

(***************************************************************************)
(* What holds.  A file that binds a name does not fail once a require of   *)
(* it has begun, and no module requires two others.                        *)
(***************************************************************************)
Library == <<Require("a"), Define("f")>>
Client == <<Require("a"), Define("g"), Call("f"), Call("print")>>
Plugin == <<Deftype, Define("g")>>

PassDisks == {Files(Library, Client, Plugin),
              Files(<<Define("f"), Bad>>, Client, Plugin),
              Files(Library, <<Require("a"), Call("g")>>, Plugin)}

PassInputs == {<<Require(m)>> : m \in MCModules}
              \cup {<<Define("f")>>, <<Call("f")>>, <<Deftype>>, <<Defmethod>>}
              \cup {<<Define("g"), Bad>>, <<Require("a"), Require("a"), Call("f")>>}

(***************************************************************************)
(* What those conditions leave out, one pattern at a time.                 *)
(***************************************************************************)
\* A name bound, then a require that fails: one snapshot serves both.
NestedDisks == {Files(<<Bad>>, <<Bad>>, <<Bad>>)}
NestedInputs == {<<Define("g"), Require("a")>>}

\* Modules that require each other.
CycleDisks == {Files(<<Require("b"), Define("f")>>, <<Require("a"), Define("g")>>, <<Bad>>)}
CycleInputs == {<<Require("a"), Call("print")>>}

\* Two modules required by a third, the second requires the first.
TwoDisks == {Files(<<Define("f")>>, <<Require("a"), Define("g")>>,
                   <<Require("a"), Require("b"), Call("print")>>)}
TwoInputs == {<<Require("c")>>}

\* A module that only defines macros.
EmptyDisks == {Files(<<>>, <<Require("a"), Define("g")>>, <<Bad>>)}
EmptyInputs == {<<Require("b")>>}

\* A method added to the type of an earlier input by a file that then fails.
MethodDisks == {Files(<<Defmethod, Bad>>, <<Bad>>, <<Bad>>)}
MethodInputs == {<<Deftype>>, <<Require("a")>>}

\* A function named like a method of that type, defined twice.
RenameDisks == {Files(<<Bad>>, <<Bad>>, <<Bad>>)}
RenameInputs == {<<Deftype>>, <<Define("t-m")>>}
=============================================================================
