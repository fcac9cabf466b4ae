------------------------------ MODULE Codegen -------------------------------
(***************************************************************************)
(* The code generator of sootc: FunctionNode with its registers, constant  *)
(* pool, labels and instructions, and the emit method of every expression  *)
(* node.  An emission is a function record fn threaded through the nodes;  *)
(* fn.reg is the register m_temp_regs holds for the node emitted last.     *)
(*                                                                         *)
(* Registers 0 .. ArgRegisters-1 hold variables and temporaries, those     *)
(* from ArgRegisters on the arguments of a call.                           *)
(***************************************************************************)
EXTENDS Lang

CONSTANTS ArgRegisters,   \* ARG_REGISTERS_OFFSET (24 in the source)
          Sid             \* the string id of each function name

Instr(op, a, b, c) == [op |-> op, a |-> a, b |-> b, c |-> c]

(***************************************************************************)
(* FunctionNode.                                                           *)
(***************************************************************************)
\* The variables a body declares, in the order NodeBuilder builds it: a
\* let declares its names after their values and before its body, an if
\* builds its else branch first.
RECURSIVE Declared(_)
Declared(e) ==
    LET as == Args(e)
        each(s) == FlattenSeq([i \in DOMAIN s |-> Declared(s[i])])
    IN CASE e.k = "let" -> each(SubSeq(as, 1, Len(e.xs))) \o e.xs \o Declared(Last(as))
         [] e.k = "if" /\ Len(as) = 3 -> each(<<as[3], as[1], as[2]>>)
         [] OTHER -> each(as)

\* A fresh function: parameters first, then the locals of its body.
NewFunction(params, body, strings) ==
    [vars |-> params \o Declared(body), temps |-> 0, reg |-> 0,
     code |-> <<>>, pool |-> <<>>, strings |-> strings,
     labels |-> <<>>, refs |-> {}, counter |-> 0]

\* m_variable_index: a name stands for the variable declared last.
VarReg(fn, x) ==
    (CHOOSE i \in DOMAIN fn.vars :
        fn.vars[i] = x /\ \A j \in DOMAIN fn.vars : fn.vars[j] = x => j <= i) - 1

\* alloc_temp_reg: a register above the variables, never reused.
AllocTemp(fn) == [fn EXCEPT !.temps = @ + 1, !.reg = Len(fn.vars) + fn.temps]

AddInstr(fn, op, a, b, c) == [fn EXCEPT !.code = Append(@, Instr(op, a, b, c))]

\* add_constant: an entry of the same value is shared, whatever its kind.
PoolIndex(fn, v, kind) ==
    IF \E i \in DOMAIN fn.pool : fn.pool[i].v = v
    THEN CHOOSE i \in DOMAIN fn.pool :
            fn.pool[i].v = v /\ \A j \in DOMAIN fn.pool : fn.pool[j].v = v => i <= j
    ELSE Len(fn.pool) + 1

AddConstant(fn, v, kind) ==
    IF PoolIndex(fn, v, kind) \in DOMAIN fn.pool THEN fn
    ELSE [fn EXCEPT !.pool = Append(@, [v |-> v, kind |-> kind])]

\* Loads the constant v into a fresh temporary.
LoadConstant(fn, op, v, kind) ==
    LET g == AllocTemp(AddConstant(fn, v, kind))
    IN AddInstr(g, op, g.reg, PoolIndex(fn, v, kind), 0)

\* StringPool::lookup_or_add, with strings of one byte and its terminator.
AddString(fn, s) ==
    IF s \in ToSet(fn.strings) THEN fn ELSE [fn EXCEPT !.strings = Append(@, s)]

StringOffset(fn, s) == 2 * ((CHOOSE i \in DOMAIN fn.strings : fn.strings[i] = s) - 1)

\* create_unique_label twice: the labels fn.counter and fn.counter + 1.
UniqueLabel(fn, n) == <<"label", fn.counter + n>>

NewLabels(fn) == [fn EXCEPT !.counter = @ + 2]

\* m_labels is a map: a name that is added again moves.
AddLabel(fn, l) == [fn EXCEPT !.labels = Append(@, <<l, Len(fn.code)>>)]

\* A branch on a, its target to be patched by ResolveBranches.
AddBranch(fn, op, a, l) ==
    LET g == AddInstr(fn, op, a, 0, 0) IN [g EXCEPT !.refs = @ \cup {<<l, Len(g.code)>>}]

\* Mutant of ResolveBranches: only branches to labels added after them are
\* patched, as if references were resolved when their label is bound.
ForwardBranchesOnly(fn) ==
    LET target(p) ==
          LET ls == {i \in DOMAIN fn.labels : /\ <<fn.labels[i][1], p>> \in fn.refs
                                              /\ fn.labels[i][2] >= p}
          IN IF ls = {} THEN fn.code[p].b
             ELSE fn.labels[CHOOSE i \in ls : \A j \in ls : j <= i][2]
    IN [fn EXCEPT !.code = [p \in DOMAIN fn.code |->
           IF \E r \in fn.refs : r[2] = p THEN [fn.code[p] EXCEPT !.b = target(p)]
           ELSE fn.code[p]]]

\* resolve_branches: a label nobody added leaves its branch at 0.
ResolveBranches(fn) ==
    LET target(p) ==
          LET ls == {i \in DOMAIN fn.labels : <<fn.labels[i][1], p>> \in fn.refs}
          IN IF ls = {} THEN fn.code[p].b
             ELSE fn.labels[CHOOSE i \in ls : \A j \in ls : j <= i][2]
    IN [fn EXCEPT !.code = [p \in DOMAIN fn.code |->
           IF \E r \in fn.refs : r[2] = p THEN [fn.code[p] EXCEPT !.b = target(p)]
           ELSE fn.code[p]]]

Move(fn, dst, src) == IF dst = src THEN fn ELSE AddInstr(fn, "Move", dst, src, 0)

(***************************************************************************)
(* emit, one operator per node class.                                      *)
(***************************************************************************)
Opcode == [op \in {"+", "-", "*", "/", "%", "==", "!=", "<", "<=", ">", ">=",
                   "neg", "abs", "not", "lognot"} |->
    CASE op = "+" -> "IAdd" [] op = "-" -> "ISub" [] op = "*" -> "IMul"
      [] op = "/" -> "IDiv" [] op = "%" -> "IMod" [] op = "==" -> "IEqual"
      [] op = "!=" -> "INotEqual" [] op = "<" -> "ILessThan"
      [] op = "<=" -> "ILessThanEqual" [] op = ">" -> "IGreaterThan"
      [] op = ">=" -> "IGreaterThanEqual" [] op = "neg" -> "INeg"
      [] op = "abs" -> "IAbs" [] op = "not" -> "OpLogNot"
      [] op = "lognot" -> "OpBitNot"]

RECURSIVE Emit(_, _, _)

\* Emits es in turn; regs holds the register of each.
EmitAll(fn, es, natives) ==
    FoldLeft(LAMBDA r, e : LET g == Emit(r.fn, e, natives)
                           IN [fn |-> g, regs |-> Append(r.regs, g.reg)],
             [fn |-> fn, regs |-> <<>>], es)

EmitConst(fn, e) ==
    IF e.k = "const" THEN LoadConstant(fn, "LoadStaticI64Imm", e.n, "INT")
    ELSE LET g == AddString(fn, e.s)
         IN LoadConstant(g, "LoadStaticPointer", StringOffset(g, e.s), "STRING")

EmitVariable(fn, e) == [fn EXCEPT !.reg = VarReg(fn, e.x)]

EmitOperator(fn, e, natives) ==
    LET r == EmitAll(fn, e.args, natives)
        g == AllocTemp(r.fn)
    IN AddInstr(g, Opcode[e.op], g.reg, r.regs[1], IF Len(r.regs) = 2 THEN r.regs[2] ELSE 0)

EmitIf(fn, e, natives) ==
    LET c == Emit(fn, e.args[1], natives)
        else == UniqueLabel(c, 0)
        end == UniqueLabel(c, 1)
        t == Emit(AddBranch(NewLabels(c), "BranchIfNot", c.reg, else), e.args[2], natives)
        atElse == AddLabel(AddBranch(t, "Branch", 0, end), else)
        f == Emit(atElse, e.args[3], natives)
        done == IF Len(e.args) = 3 THEN Move(f, t.reg, f.reg) ELSE atElse
    IN [AddLabel(done, end) EXCEPT !.reg = t.reg]

\* A loop named with :label uses the name itself for its entry label.
EmitWhile(fn, e, natives) ==
    LET g == IF e.label = "" THEN NewLabels(fn) ELSE fn
        start == IF e.label = "" THEN UniqueLabel(fn, 0) ELSE <<e.label, 0>>
        end == IF e.label = "" THEN UniqueLabel(fn, 1) ELSE <<e.label, 1>>
        c == Emit(AddLabel(g, start), e.args[1], natives)
        b == Emit(AddBranch(c, "BranchIfNot", c.reg, end), e.args[2], natives)
    IN [AddLabel(AddBranch(b, "Branch", 0, start), end) EXCEPT !.reg = c.reg]

EmitLet(fn, e, natives) ==
    LET n == Len(e.xs)
        bound == FoldLeft(LAMBDA g, i : LET v == Emit(g, e.args[i], natives)
                                        IN Move(v, VarReg(v, e.xs[i]), v.reg),
                          fn, [i \in 1 .. n |-> i])
    IN Emit(bound, e.args[n + 1], natives)

EmitSet(fn, e, natives) ==
    LET v == Emit(fn, e.args[1], natives) IN Move(v, VarReg(v, e.x), v.reg)

EmitBegin(fn, e, natives) == EmitAll(fn, e.args, natives).fn

\* Mutant of EmitCall: an argument is moved to its argument register before
\* the next one is emitted, so a call among the arguments overwrites it.
EmitCallEagerly(fn, e, natives) ==
    LET moved == FoldLeft(LAMBDA g, i : LET v == Emit(g, e.args[i], natives)
                                        IN AddInstr(v, "Move", ArgRegisters + i - 1, v.reg, 0),
                          fn, [i \in DOMAIN e.args |-> i])
        callee == LoadConstant(moved, "LookupPointer", Sid[e.f], "SID")
        g == AllocTemp(callee)
    IN AddInstr(g, IF e.f \in natives THEN "CallFf" ELSE "Call", g.reg, callee.reg,
                Len(e.args))

\* Mutant of EmitCall: natives are called like script functions.
EmitCallOneOpcode(fn, e, natives) ==
    LET r == EmitAll(fn, e.args, natives)
        callee == LoadConstant(r.fn, "LookupPointer", Sid[e.f], "SID")
        moved == FoldLeft(LAMBDA g, i : AddInstr(g, "Move", ArgRegisters + i - 1, r.regs[i], 0),
                          callee, [i \in DOMAIN e.args |-> i])
        g == AllocTemp(moved)
    IN AddInstr(g, "Call", g.reg, callee.reg, Len(e.args))

EmitCall(fn, e, natives) ==
    LET r == EmitAll(fn, e.args, natives)
        callee == LoadConstant(r.fn, "LookupPointer", Sid[e.f], "SID")
        moved == FoldLeft(LAMBDA g, i : AddInstr(g, "Move", ArgRegisters + i - 1, r.regs[i], 0),
                          callee, [i \in DOMAIN e.args |-> i])
        g == AllocTemp(moved)
    IN AddInstr(g, IF e.f \in natives THEN "CallFf" ELSE "Call", g.reg, callee.reg,
                Len(e.args))

Emit(fn, e, natives) ==
    CASE e.k \in {"const", "str"} -> EmitConst(fn, e)
      [] e.k = "var" -> EmitVariable(fn, e)
      [] e.k \in {"unary", "binary", "compare"} -> EmitOperator(fn, e, natives)
      [] e.k = "if" -> EmitIf(fn, e, natives)
      [] e.k = "while" -> EmitWhile(fn, e, natives)
      [] e.k = "let" -> EmitLet(fn, e, natives)
      [] e.k = "set" -> EmitSet(fn, e, natives)
      [] e.k = "begin" -> EmitBegin(fn, e, natives)
      [] e.k = "call" -> EmitCall(fn, e, natives)

\* Mutant of EmitBody: the body is not wrapped in a ReturnNode.
EmitBodyBare(params, body, strings, natives) ==
    LET fn == NewFunction(params, body, strings)
        prologue == FoldLeft(LAMBDA g, i : AddInstr(g, "Move", i - 1, ArgRegisters + i - 1, 0),
                             fn, [i \in DOMAIN params |-> i])
    IN ResolveBranches(Emit(prologue, body, natives))

\* emit_body: the prologue copies the arguments into the variables of the
\* parameters, the body is a ReturnNode, the branches are patched.
EmitBody(params, body, strings, natives) ==
    LET fn == NewFunction(params, body, strings)
        prologue == FoldLeft(LAMBDA g, i : AddInstr(g, "Move", i - 1, ArgRegisters + i - 1, 0),
                             fn, [i \in DOMAIN params |-> i])
        g == Emit(prologue, body, natives)
    IN ResolveBranches(AddInstr(g, "Return", g.reg, 0, 0))

(***************************************************************************)
(* Source patterns the generator is known to get wrong; each comes from a  *)
(* register, a slot or a label that two nodes share.                       *)
(***************************************************************************)
\* The variable whose own register is the result register of the node.
RECURSIVE Alias(_)
Alias(e) ==
    CASE e.k = "var" -> {e.x}
      [] e.k \in {"let", "begin"} -> Alias(Last(e.args))
      [] e.k = "set" -> Alias(e.args[1])
      [] e.k = "while" -> Alias(e.args[1])
      [] e.k = "if" -> Alias(e.args[2])
      [] OTHER -> {}

\* The variables whose registers the code of the node writes.
Writes(e) ==
    LetNames(e) \cup {n.x : n \in {m \in Nodes(e) : m.k = "set"}}
    \cup UNION {Alias(n) : n \in {m \in Nodes(e) : m.k = "if" /\ Len(m.args) = 3}}

Mentions(e) == Writes(e) \cup {n.x : n \in {m \in Nodes(e) : m.k = "var"}}

Pattern(name, params, e) ==
    CASE name = "branch" ->   \* the else branch is moved into a variable
           \E n \in Nodes(e) : /\ n.k = "if" /\ Len(n.args) = 3
                               /\ Alias(n.args[2]) \notin {{}, Alias(n.args[3])}
      [] name = "operand" ->  \* a later operand writes the variable an earlier one is
           \E n \in Nodes(e) :
              /\ n.k \in {"binary", "compare", "call"}
              /\ \E i, j \in DOMAIN n.args : i < j /\ Alias(n.args[i]) \cap Writes(n.args[j]) # {}
      [] name = "scope" ->    \* a let reuses a name that is in scope
           \/ LetNames(e) \cap ToSet(params) # {}
           \/ \E n \in Nodes(e) :
                /\ n.k = "let"
                /\ \/ ToSet(n.xs) \cap LetNames(Last(n.args)) # {}
                   \/ \E i, j \in DOMAIN n.xs : i < j /\ n.xs[i] \in Mentions(n.args[j])
      [] name = "label" ->    \* two loops share a :label
           \E n, m \in Nodes(e) : /\ n.k = "while" /\ m.k = "while" /\ n # m
                                  /\ n.label = m.label /\ n.label # ""
      [] name = "pool" ->     \* a number equals the offset of a string
           LET fn == EmitBody(params, e, <<>>, {})
           IN \E n, m \in Nodes(e) : /\ n.k = "const" /\ m.k = "str"
                                     /\ n.n = StringOffset(fn, m.s)
      [] name = "registers" -> \* more variables and temporaries than registers
           LET fn == EmitBody(params, e, <<>>, {})
           IN Len(fn.vars) + fn.temps > ArgRegisters

Patterns == {"branch", "operand", "scope", "label", "pool", "registers"}
=============================================================================
