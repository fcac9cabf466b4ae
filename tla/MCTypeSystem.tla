---------------------------- MODULE MCTypeSystem ----------------------------
(***************************************************************************)
(* A small instance of TypeSystem.tla: three names and the forms that meet *)
(* every branch of deftype.                                                *)
(***************************************************************************)
EXTENDS TypeSystem

Field(name, type, inl, count) ==
  [name |-> name, type |-> type, inl |-> inl, count |-> count, kind |-> "new", at |-> None]
Method(kind, name, sig) == [kind |-> kind, name |-> name, sig |-> sig, at |-> None]
Shape(fields, methods)  == [fields |-> fields, methods |-> methods, body |-> None, final |-> FALSE]

Byte     == Field("x", "uint8", FALSE, 0)
Words    == Field("ys", "structure", FALSE, 2)
OfA      == Field("z", "a", TRUE, 0)
OnByte   == [Field("v", "uint8", FALSE, 0) EXCEPT !.kind = "overlay", !.at = "x"]
Narrowed == [Field("z", "self", TRUE, 0) EXCEPT !.kind = "override"]
NewM     == Method("declare", "m", "self")
NewN     == Method("declare", "n", "uint8")
OnM      == [Method("overlay", "n", "uint8") EXCEPT !.at = "m"]

Empty == Shape(<<>>, <<>>)
Wide  == Shape(<<Byte, Words>>, <<NewM>>)
Holds == Shape(<<OfA>>, <<Method("declare", "print", "self"), NewN>>)

Shapes ==
  {Empty, Wide, Holds,
   Shape(<<Byte, OnByte>>, <<NewM, NewN>>),
   Shape(<<Narrowed>>, <<Method("replace", "m", "uint8"), NewN>>),
   Shape(<<>>, <<Method("doc", "print", None), OnM>>),
   Shape(<<>>, <<NewN, Method("doc", "print", None)>>),
   [Shape(<<Byte>>, <<Method("declare", "new", "self")>>) EXCEPT !.body = "code1"],
   [Shape(<<Byte>>, <<Method("declare", "new", "self")>>) EXCEPT !.final = TRUE]}

Form(names, parents, shapes) == [name : names, parent : parents, shape : shapes]

\* Two types in every arrangement, and a third below them.
MCForms ==
  Form({"a", "b"}, {"object", "structure", "basic", "uint8", "a", "b"}, Shapes)
    \cup Form({"c"}, {"a", "b"}, {Wide, Holds})

\* The same handlers edited, and a method more.
MCEdited ==
  LET s == [Empty EXCEPT !.body = "code1"]
  IN Form({"a"}, {"basic"}, {s, [s EXCEPT !.body = "code2"], [s EXCEPT !.methods = <<NewM>>]})
=============================================================================
