----------------------------- MODULE TypeSystem -----------------------------
(***************************************************************************)
(* The compiler's type table and deftype: the only operation of the        *)
(* program that changes it once the builtin types are in.                  *)
(*                                                                         *)
(* A deftype form names a type, its parent and a shape: its fields, its    *)
(* method declarations, the body of its state handlers and :final.  A call *)
(* is atomic (the compiler is single-threaded) but not all-or-nothing: it  *)
(* throws at many points and what it had written by then stays written.    *)
(* A TypeSpec is its base type; of a signature only the last type is kept. *)
(* Of the builtin tree the model has one type per branch a form can take;  *)
(* method counts and redefinition, which no caller asks for, are left out, *)
(* and so are tags, aliases, packing, process heap bases and assertions on *)
(* sizes and counts (a form that fails them is one more that fails).       *)
(***************************************************************************)
EXTENDS SequencesExt, FiniteSetsExt, Integers

CONSTANTS
  Forms      \* the deftype forms: [name, parent, shape], where a shape is
             \* [fields, methods, body, final]

None == "none"

FieldDecl  == [name : STRING, type : STRING, inl : BOOLEAN, count : Int,
               kind : {"new", "overlay", "override"}, at : STRING]
MethodDecl == [name : STRING, sig : STRING, at : STRING,
               kind : {"declare", "replace", "overlay", "doc"}]

\* What the reader makes of a deftype; :overlay-at says at what.  The count of an
\* array is any integer: nobody looks at it.
ASSUME FormsAssumption ==
  \A f \in Forms :
    /\ f.name \in STRING \ {None}
    /\ f.shape.final \in BOOLEAN /\ f.shape.body \in STRING
    /\ f.shape.fields \in Seq(FieldDecl)
    /\ f.shape.methods \in Seq(MethodDecl)
    /\ \A i \in DOMAIN f.shape.methods :
         f.shape.methods[i].kind = "overlay" => f.shape.methods[i].at # None

VARIABLES
  types,     \* TypeSystem::m_types
  fwd,       \* TypeSystem::m_forward_declared_types
  res        \* how the last deftype ended

vars == <<types, fwd, res>>

PointerSize     == 8      \* TypeConfig::pointer_size, as add_builtin_types sets it
StructAlignment == 16     \* TypeConfig::struct_alignment and its array forms

-----------------------------------------------------------------------------
(* The tree. *)

Known == DOMAIN types
Bound == Cardinality(Known)        \* no chain of parents is longer

\* Type::has_parent
HasParent(t) == t # "object"

\* lookup_type_allow_partial_def: a defined type, or the first defined type
\* on the chain of forward declarations.  None: it throws.
Resolve(n) ==
  LET steps == Cardinality(DOMAIN fwd)
      at[k \in 0..steps] ==
        IF k = 0 THEN n
        ELSE IF at[k - 1] \in DOMAIN fwd \ Known THEN fwd[at[k - 1]] ELSE at[k - 1]
  IN IF at[steps] \in Known THEN at[steps] ELSE None

\* get_parent, k times: the ancestors of a defined type; the root is its own parent.
Up(t) ==
  LET at[k \in 0..Bound] == IF k = 0 THEN t ELSE types[at[k - 1]].parent
  IN at

\* The names from a defined type up to the root.
Chain(t) ==
  LET up == Up(t)
      n  == Min({k \in 0..Bound : ~HasParent(up[k])})
  IN [k \in 1..(n + 1) |-> up[k - 1]]

\* typecheck_base_types: exp is act, what act resolves to, or above that.
Tc(exp, act) ==
  \/ exp = act
  \/ (Resolve(act) # None /\ exp \in ToSet(Chain(Resolve(act))))

\* Mutant of PathUpTree: the type itself is not on its path.
PathFromParent(n) == Tail(Chain(Resolve(n)))

\* get_path_up_tree
PathUpTree(n) == <<n>> \o Tail(Chain(Resolve(n)))

\* lca_base: the two paths compared from the root down, as far as they agree.
LcaBase(a, b) ==
  LET pa == Reverse(PathUpTree(a))
      pb == Reverse(PathUpTree(b))
      agree == {i \in 1..Len(pa) :
                  i <= Len(pb) /\ \A j \in 1..i : pa[j] = pb[j]}
  IN IF a = b THEN a
     ELSE IF agree = {} THEN "object"
     ELSE pa[Max(agree)]

-----------------------------------------------------------------------------
(* Methods.  A type under construction is a value; its ancestors are in    *)
(* the table.                                                              *)

\* A type of the table and its ancestors, nearest first.
OfTable(t) == LET chain == Chain(t) IN [i \in 1..Len(chain) |-> types[chain[i]]]

\* The same of a type under construction.
Lineage(ty) == <<ty>> \o OfTable(ty.parent)

\* Type::get_my_method by name
Mine(ty, name) == SelectInSeq(ty.methods, LAMBDA m : m.name = name)

\* try_lookup_method by name: the nearest type that has the method.
TryLookup(lineage, name) ==
  LET i == SelectInSeq(lineage, LAMBDA ty : Mine(ty, name) # 0)
  IN IF i = 0 THEN None ELSE lineage[i].methods[Mine(lineage[i], name)]

Found(lineage, name) ==
  \E i \in DOMAIN lineage : Mine(lineage[i], name) # 0

Primary(m) == ~m.over /\ ~m.doc

\* Type::get_my_last_method
MyLast(ty) == SelectLastInSeq(ty.methods, Primary)

\* Mutant of NextMethodId: numbering does not go on from the parent's.
NextOwnId(lineage) ==
  IF MyLast(lineage[1]) = 0 THEN 1
  ELSE lineage[1].methods[MyLast(lineage[1])].id + 1

\* get_next_method_id
NextMethodId(lineage) ==
  LET i == SelectInSeq(lineage, LAMBDA ty : MyLast(ty) # 0)
  IN IF i = 0 THEN 1 ELSE lineage[i].methods[MyLast(lineage[i])].id + 1

\* TypeSpec::is_compatible_child_method
Compatible(sig, impl, child) == impl = sig \/ (sig = "_type_" /\ impl = child)

\* Type::add_method, with the assertion that new ids follow one another
AddMethod(ty, m) ==
  IF ~m.over /\ MyLast(ty) # 0 /\ ty.methods[MyLast(ty)].id + 1 # m.id
  THEN [ty EXCEPT !.ok = FALSE]
  ELSE [ty EXCEPT !.methods = Append(@, m)]

\* add_new_method: "new" has no slot of its own to find, and a type that
\* has none yet may give it any signature.
AddNew(ty, sig) ==
  IF ty.new = None THEN [ty EXCEPT !.new = sig]
  ELSE [ty EXCEPT !.ok = Compatible(ty.new, sig, ty.name)]

Fail(ty) == [ty EXCEPT !.ok = FALSE]

\* Mutant of DeclareMethod: only the type's own methods are looked up.
DeclareOwn(ty, d, sig) ==
  IF d.name = "new" THEN AddNew(ty, sig)
  ELSE IF Mine(ty, d.name) # 0 THEN ty
  ELSE AddMethod(ty, [id |-> NextMethodId(Lineage(ty)), name |-> d.name, sig |-> sig,
                      over |-> FALSE, doc |-> FALSE, at |-> None])

\* TypeSystem::declare_method without :replace
DeclareMethod(ty, d, sig) ==
  IF d.name = "new" THEN AddNew(ty, sig)
  ELSE IF Found(Lineage(ty), d.name)
  THEN IF Compatible(TryLookup(Lineage(ty), d.name).sig, sig, ty.name) THEN ty ELSE Fail(ty)
  ELSE AddMethod(ty, [id |-> NextMethodId(Lineage(ty)), name |-> d.name, sig |-> sig,
                      over |-> FALSE, doc |-> FALSE, at |-> None])

\* declare_method with :replace
ReplaceMethod(ty, d, sig) ==
  IF d.name = "new" \/ ~Found(Lineage(ty), d.name) THEN Fail(ty)
  ELSE AddMethod(ty, [id |-> TryLookup(Lineage(ty), d.name).id, name |-> d.name,
                      sig |-> sig, over |-> TRUE, doc |-> FALSE, at |-> None])

\* overlay_method: a name for the slot of another method
OverlayMethod(ty, d, sig) ==
  IF ~Found(Lineage(ty), d.at) THEN Fail(ty)
  ELSE AddMethod(ty, [id |-> TryLookup(Lineage(ty), d.at).id, name |-> d.name,
                      sig |-> sig, over |-> TRUE, doc |-> FALSE, at |-> d.at])

\* override_method: the parent's method again, with another docstring
OverrideDoc(ty, d) ==
  LET above == Tail(Lineage(ty))
  IN IF ~Found(above, d.name) THEN Fail(ty)
     ELSE AddMethod(ty, [TryLookup(above, d.name) EXCEPT
                           !.over = FALSE, !.doc = TRUE, !.at = None])

\* One entry of :methods; "self" in a form is the type being defined.
Declare(ty, d) ==
  LET sig == IF d.sig = "self" THEN ty.name ELSE d.sig
  IN IF ~ty.ok THEN ty
     ELSE CASE d.kind = "declare"  -> DeclareMethod(ty, d, sig)
            [] d.kind = "replace"  -> ReplaceMethod(ty, d, sig)
            [] d.kind = "overlay"  -> OverlayMethod(ty, d, sig)
            [] d.kind = "doc"      -> OverrideDoc(ty, d)

\* The entries of :methods, in order
WithMethods(ty, ds) ==
  LET at[k \in 0..Len(ds)] == IF k = 0 THEN ty ELSE Declare(at[k - 1], ds[k])
  IN at[Len(ds)]

-----------------------------------------------------------------------------
(* Fields. *)

AlignUp(x, a) == ((x + a - 1) \div a) * a

\* get_alignment_in_type
FieldAlign(d, t) ==
  IF types[t].kind = "value" THEN types[t].size
  ELSE IF d.inl THEN StructAlignment ELSE PointerSize

\* get_size_in_type, with what add_field_to_type adds for an inline object
FieldSize(d, t) ==
  LET size  == types[t].size
      count == IF d.count = 0 THEN 1 ELSE d.count
  IN IF types[t].kind = "value" THEN count * size
     ELSE IF ~d.inl THEN count * PointerSize
     ELSE IF d.count = 0 THEN AlignUp(size, StructAlignment)
     ELSE count * size

FieldAt(ty, name) == SelectInSeq(ty.fields, LAMBDA g : g.name = name)

\* Mutant of PlaceField: the -1 that stands for "no offset given" is used as one.
PlaceAsGiven(ty, d, t) ==
  IF d.kind = "overlay" THEN ty.fields[FieldAt(ty, d.at)].off ELSE -1

\* The offset add_field_to_type chooses, or :overlay-at gives
PlaceField(ty, d, t) ==
  IF d.kind = "overlay" THEN ty.fields[FieldAt(ty, d.at)].off
  ELSE AlignUp(ty.size, FieldAlign(d, t))

\* add_field and add_field_to_type, for fields without :offset and :dynamic and for
\* :overlay-at with a plain name
AddField(ty, d) ==
  LET self == IF d.type = "self" THEN ty.name ELSE d.type
      t    == IF self = ty.name /\ self \notin Known THEN ty.parent ELSE Resolve(self)
      old  == FieldAt(ty, d.name)
      off  == PlaceField(ty, d, t)
      size == FieldSize(d, t)
  IN IF ~ty.ok \/ t = None THEN Fail(ty)
     ELSE IF d.kind = "override"
     THEN IF old = 0 \/ ty.fields[old].type \notin {self} \cup ToSet(Chain(t)) \/ ty.fields[old].inl # d.inl
          THEN Fail(ty)
          ELSE [ty EXCEPT !.fields[old].type = self]
     ELSE IF old # 0 \/ (d.kind = "overlay" /\ FieldAt(ty, d.at) = 0)
     THEN Fail(ty)
     ELSE [ty EXCEPT !.fields = Append(@, [name |-> d.name, type |-> self, off |-> off,
                                           size |-> size, align |-> FieldAlign(d, t),
                                           inl |-> d.inl, kind |-> d.kind]),
                     !.size = IF @ < off + size THEN off + size ELSE @]

\* The fields of a form, in order
WithFields(ty, ds) ==
  LET at[k \in 0..Len(ds)] == IF k = 0 THEN ty ELSE AddField(at[k - 1], ds[k])
  IN at[Len(ds)]

-----------------------------------------------------------------------------
(* deftype. *)

Family(p) ==
  IF Tc("basic", p) THEN "basic"
  ELSE IF Tc("structure", p) THEN "structure"
  ELSE IF Tc("integer", p) THEN "value"
  ELSE None

\* Mutant of Inherit: the child starts with the fields of its parent, not its size.
InheritFields(name, p, kind) ==
  [ok |-> TRUE, name |-> name, parent |-> p, kind |-> kind, methods |-> <<>>, new |-> None,
   fields |-> types[p].fields, size |-> 0, body |-> None, final |-> FALSE]

\* The constructor and StructureType::inherit or ValueType::inherit
Inherit(name, p, kind) ==
  [ok |-> TRUE, name |-> name, parent |-> p, kind |-> kind, methods |-> <<>>, new |-> None,
   fields |-> types[p].fields, size |-> types[p].size, body |-> None, final |-> FALSE]

\* parse_structure_def; :final is refused on a structure once the rest is read
ParseStructure(ty, s) ==
  LET m == WithMethods(WithFields(ty, s.fields), s.methods)
  IN IF ty.kind = "structure" /\ s.final THEN Fail(m)
     ELSE [m EXCEPT !.body = s.body, !.final = s.final]

\* parse_bitfield_type_def: a bitfield's fields need offsets, which our
\* forms do not give, and it takes no states and no :final
ParseBitfield(ty, s) ==
  IF s.fields # <<>> \/ s.body # None \/ s.final THEN Fail(ty)
  ELSE WithMethods(ty, s.methods)

\* Type::common_type_info_equal and the operator== of the subclasses: the
\* methods of the old type are sought in the new one, not the reverse, and
\* of the states the signatures are compared but not the handlers.
SameType(old, new) ==
  /\ \A i \in DOMAIN old.methods :
       LET m == old.methods[i]
           j == SelectInSeq(new.methods, LAMBDA n : n.id = m.id)
       IN m.doc \/ (j # 0 /\ new.methods[j] = [m EXCEPT !.at = new.methods[j].at])
  /\ (old.body = None) = (new.body = None)
  /\ old.parent = new.parent /\ old.kind = new.kind /\ old.new = new.new
  /\ old.fields = new.fields /\ old.size = new.size /\ old.final = new.final

\* The part of parse_deftype that throws before anything is written
Refused(name, p) ==
  \/ p \notin Known \cup DOMAIN fwd                       \* make_typespec
  \/ Family(p) = None
  \/ p \notin Known                                       \* lookup_type
  \/ (p \in Known /\ types[p].final)

\* forward_declare_type_as throws
Disagrees(name, p) ==
  IF name \in Known THEN ~Tc(p, name)
  ELSE name \in DOMAIN fwd /\ fwd[name] # p

\* Mutant of ForwardDeclare: the name given, before its parent is looked up.
ForwardAsGiven(name, p) ==
  IF name \in Known THEN fwd ELSE [n \in DOMAIN fwd \cup {name} |-> IF n = name THEN name ELSE fwd[n]]

\* forward_declare_type_as
ForwardDeclare(name, p) ==
  IF name \in Known \cup DOMAIN fwd THEN fwd
  ELSE [n \in DOMAIN fwd \cup {name} |-> IF n = name THEN p ELSE fwd[n]]

Register(name, ty) == [t \in Known \cup {name} |-> IF t = name THEN ty ELSE types[t]]
Forget(f, name)    == [n \in DOMAIN f \ {name} |-> f[n]]

\* Mutant of AddType: a definition that differs is taken when the parent is the same.
AddTypeEdited(name, ty, declared) ==
  /\ ty.parent \notin DOMAIN declared
  /\ IF name \in Known /\ types[name].parent # ty.parent
     THEN res' = "error" /\ fwd' = declared /\ UNCHANGED types
     ELSE res' = "ok" /\ fwd' = Forget(declared, name) /\ types' = Register(name, ty)

\* add_type.  declared is the forward declarations as parse_deftype left
\* them: a bitfield adds none, and may find one of another family.
AddType(name, ty, declared) ==
  \/ /\ name \in Known
     /\ res' = IF SameType(types[name], ty) THEN "ok" ELSE "error"
     /\ fwd' = declared
     /\ UNCHANGED types
  \/ /\ name \notin Known
     /\ ty.parent \in DOMAIN declared                     \* the parent is not fully defined
     /\ res' = "error"
     /\ fwd' = declared
     /\ UNCHANGED types
  \/ /\ name \notin Known
     /\ ty.parent \notin DOMAIN declared
     /\ types' = Register(name, ty)
     /\ IF name \in DOMAIN declared /\ declared[name] \notin ToSet(Chain(ty.parent))
        THEN res' = "error" /\ fwd' = declared            \* after the type went in
        ELSE res' = "ok" /\ fwd' = Forget(declared, name)

\* parse_deftype of a basic or a structure
DeftypeStructure(name, p, s) ==
  /\ ~Refused(name, p)
  /\ Family(p) \in {"basic", "structure"}
  /\ IF Disagrees(name, p)
     THEN res' = "error" /\ UNCHANGED <<types, fwd>>
     ELSE LET ty == ParseStructure(Inherit(name, p, Family(p)), s)
          IN IF ty.ok THEN AddType(name, ty, ForwardDeclare(name, p))
             ELSE /\ res' = "error"
                  /\ fwd' = ForwardDeclare(name, p)
                  /\ UNCHANGED types

\* parse_deftype of a child of integer: no forward declaration
DeftypeBitfield(name, p, s) ==
  /\ ~Refused(name, p)
  /\ Family(p) = "value"
  /\ LET ty == ParseBitfield(Inherit(name, p, "value"), s)
     IN IF ty.ok THEN AddType(name, ty, fwd)
        ELSE res' = "error" /\ UNCHANGED <<types, fwd>>

\* A deftype that is refused: only the outcome is new.
DeftypeRefused(name, p) ==
  /\ Refused(name, p)
  /\ res' = "error"
  /\ UNCHANGED <<types, fwd>>

\* add_builtin_types: one type of each branch, with two of the methods of
\* object and the header field of basic.
BuiltinMethod(id, name) ==
  [id |-> id, name |-> name, sig |-> "_type_", over |-> FALSE, doc |-> FALSE, at |-> None]

Builtin(name, parent, kind, size, fields) ==
  [ok |-> TRUE, name |-> name, parent |-> parent, kind |-> kind, new |-> None,
   methods |-> IF name = "object"
               THEN <<BuiltinMethod(1, "delete"), BuiltinMethod(2, "print")>> ELSE <<>>,
   fields |-> fields, size |-> size, body |-> None, final |-> FALSE]

Header ==
  [name |-> "type", type |-> "sid64", off |-> 0, size |-> 8, align |-> 8,
   inl |-> FALSE, kind |-> "new"]

Builtins ==
  [t \in {"object", "structure", "basic", "integer", "uint8"} |->
     CASE t = "object"    -> Builtin(t, "object", "value", 4, <<>>)
       [] t = "structure" -> Builtin(t, "object", "structure", 0, <<>>)
       [] t = "basic"     -> Builtin(t, "structure", "basic", 8, <<Header>>)
       [] t = "integer"   -> Builtin(t, "object", "value", 8, <<>>)
       [] t = "uint8"     -> Builtin(t, "integer", "value", 1, <<>>)]

Init ==
  /\ types = Builtins
  /\ fwd = [n \in {} |-> None]
  /\ res = "ok"

Next ==
  \E f \in Forms :
    \/ DeftypeRefused(f.name, f.parent)
    \/ DeftypeStructure(f.name, f.parent, f.shape)
    \/ DeftypeBitfield(f.name, f.parent, f.shape)

Spec == Init /\ [][Next]_vars

-----------------------------------------------------------------------------
(* Properties. *)

\* What is in the table is a finished type: under its own name, its parent
\* defined, every field at an offset of its own, every method in a slot.
TypeOK ==
  /\ res \in {"ok", "error"}
  /\ DOMAIN fwd \subseteq {f.name : f \in Forms}
  /\ \A t \in Known :
       /\ types[t].ok /\ types[t].name = t /\ types[t].parent \in Known
       /\ types[t].size \in Nat
       /\ \A i \in DOMAIN types[t].fields : types[t].fields[i].off \in Nat
       /\ \A i \in DOMAIN types[t].methods : types[t].methods[i].id \in Nat \ {0}

\* A forward declaration, also one that a failed deftype left behind, names
\* a defined type, so the loop of lookup_type_allow_partial_def ends.
ForwardResolves == \A n \in DOMAIN fwd : fwd[n] \in Known

Visible(t) ==
  UNION {{ty.methods[i].name : i \in DOMAIN ty.methods} : ty \in ToSet(OfTable(t))}

Slot(t, name) == TryLookup(OfTable(t), name).id

OverlaidIn(ty, name) ==
  \E i \in DOMAIN ty.methods : ty.methods[i].name = name /\ ty.methods[i].at # None

Overlaid(t, name) == \E ty \in ToSet(OfTable(t)) : OverlaidIn(ty, name)

\* Two methods of one type share a slot of the method table only when one
\* of them was declared with :overlay-at: get_next_method_id goes on where
\* the ancestors' numbering stopped, whatever mix of :replace, :override-doc
\* and new methods they declared.
SlotsDistinct ==
  \A t \in Known : \A m, n \in Visible(t) :
    (m # n /\ Slot(t, m) = Slot(t, n)) => Overlaid(t, m) \/ Overlaid(t, n)

\* A call through the parent's slot reaches the child's method of that
\* name, unless a type moved the name with :overlay-at.
InheritedSlots ==
  \A t \in Known : HasParent(t) =>
    \A n \in Visible(types[t].parent) :
      OverlaidIn(types[t], n) \/ Slot(t, n) = Slot(types[t].parent, n)

\* The type table is well typed and its names resolve, and no two methods of a
\* type, or of a type and its parent, disagree about a slot.
SlotsSound == TypeOK /\ ForwardResolves /\ SlotsDistinct /\ InheritedSlots

\* docs/goal_type_system.md:326: "Overridden methods keep the parent's ID."
\* overlay_method does not look whether the parent has the name.
OverriddenKeepsSlot ==
  \A t \in Known : HasParent(t) =>
    \A n \in Visible(types[t].parent) : Slot(t, n) = Slot(types[t].parent, n)

Lowest(a, b) ==
  /\ Tc(LcaBase(a, b), a) /\ Tc(LcaBase(a, b), b)
  /\ \A c \in Known : Tc(c, a) /\ Tc(c, b) => Tc(c, LcaBase(a, b))

\* lowest_common_ancestor, by which the compiler types a conditional, is
\* above both types and below everything else that is above both.
LcaIsLowest == \A a, b \in Known : Lowest(a, b)

\* The same of a type that is only declared: get_path_up_tree leaves out the
\* type it was declared as, which tc accepts.
LcaOfDeclared == \A a, b \in Known \cup DOMAIN fwd : Lowest(a, b)

Ends(g) == g.off + g.size

\* The layout compiled code relies on: a child lays its parent's fields out
\* as the parent does, a field placed automatically is aligned and after all
\* that precedes it, and the size covers them all.
LayoutSound ==
  \A t \in Known : LET ty == types[t] IN ty.kind # "value" =>
    /\ \A i \in DOMAIN types[ty.parent].fields :
         /\ i \in DOMAIN ty.fields
         /\ [ty.fields[i] EXCEPT !.type = ""] = [types[ty.parent].fields[i] EXCEPT !.type = ""]
    /\ \A i \in DOMAIN ty.fields :
         /\ Ends(ty.fields[i]) <= ty.size
         /\ ty.fields[i].kind = "new" =>
              /\ \A j \in 1..(i - 1) : Ends(ty.fields[j]) <= ty.fields[i].off
              /\ ty.fields[i].off % ty.fields[i].align = 0

\* An inline field has room for an object of its type.  A type that is only
\* declared counts with the size of the type it was declared as.
InlineFits ==
  \A t \in Known : \A i \in DOMAIN types[t].fields :
    LET g == types[t].fields[i]
    IN (g.inl /\ g.type \in Known) => types[g.type].size <= g.size

\* What compiled code has read off a type stays true: no deftype changes or
\* removes a type that is in the table.
StableOnceDefined ==
  [][\A t \in Known : t \in DOMAIN types' /\ types'[t] = types[t]]_vars

Parsed(f) == ParseStructure(Inherit(f.name, f.parent, Family(f.parent)), f.shape)

\* TypeSystem.cpp:129: "Types are identical, return existing".  A form that
\* add_type takes for the type it has says what that type is: it declares no
\* method the type lacks and gives its states the handlers they have.
IdenticalMeansSame ==
  \A f \in Forms :
    (/\ f.name \in Known /\ ~Refused(f.name, f.parent) /\ ~Disagrees(f.name, f.parent)
     /\ Family(f.parent) \in {"basic", "structure"}
     /\ Parsed(f).ok /\ SameType(types[f.name], Parsed(f)))
      => /\ types[f.name].body = f.shape.body
         /\ Len(types[f.name].methods) = Len(Parsed(f).methods)

\* A deftype that raises an error defines nothing.
FailureDefinesNothing == [][res' = "error" => types' = types]_vars
=============================================================================
