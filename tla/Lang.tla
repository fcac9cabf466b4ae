-------------------------------- MODULE Lang --------------------------------
(***************************************************************************)
(* Expressions of the soot language, as NodeBuilder leaves them once       *)
(* macros are expanded, and what they mean.  A node is a record whose      *)
(* field k names its class; numbers stand for the integers and a string is *)
(* its name.  Floats, which have opcodes of their own, are left out.       *)
(*                                                                         *)
(* Eval is the reference the generated code is compared with: operands     *)
(* from left to right, let scoped to its body, set! on the innermost       *)
(* binding.  NoClaim is the value of a form whose value the language does  *)
(* not fix (an if without else, a while, a division by zero).              *)
(***************************************************************************)
EXTENDS Integers, Sequences, FiniteSets, SequencesExt

CONSTANTS Names,     \* names of parameters and let variables
          Fuel       \* bound on the iterations of one evaluated loop

(***************************************************************************)
(* Nodes.                                                                  *)
(***************************************************************************)
Const(n) == [k |-> "const", n |-> n]
Str(s) == [k |-> "str", s |-> s]
Var(x) == [k |-> "var", x |-> x]
Unary(op, a) == [k |-> "unary", op |-> op, args |-> <<a>>]
Binary(op, a, b) == [k |-> "binary", op |-> op, args |-> <<a, b>>]
Compare(op, a, b) == [k |-> "compare", op |-> op, args |-> <<a, b>>]
If(c, t, e) == [k |-> "if", args |-> <<c, t, e>>]
When(c, t) == [k |-> "if", args |-> <<c, t>>]
Let(bs, b) == [k |-> "let", xs |-> [i \in DOMAIN bs |-> bs[i][1]],
               args |-> [i \in DOMAIN bs |-> bs[i][2]] \o <<b>>]
Set(x, v) == [k |-> "set", x |-> x, args |-> <<v>>]
Begin(es) == [k |-> "begin", args |-> es]
While(l, c, b) == [k |-> "while", label |-> l, args |-> <<c, b>>]
Call(f, as) == [k |-> "call", f |-> f, args |-> as]

\* (+ a b c) is ((a + b) + c); (- a) is (0 - a).
Arith(op, as) ==
    IF Len(as) = 1 THEN Binary(op, Const(0), as[1])
    ELSE FoldLeft(LAMBDA l, r : Binary(op, l, r), as[1], Tail(as))

\* (cond (t1 b1) ... (else b)): the clauses from the last to the first.
Cond(clauses, last) ==
    FoldRight(LAMBDA cl, rest : IF rest = <<>> THEN <<When(cl[1], cl[2])>>
                                ELSE <<If(cl[1], cl[2], rest[1])>>,
              clauses, last)[1]

Args(e) == IF "args" \in DOMAIN e THEN e.args ELSE <<>>

\* The nodes of an expression, itself included.
RECURSIVE Nodes(_)
Nodes(e) == {e} \cup UNION {Nodes(Args(e)[i]) : i \in DOMAIN Args(e)}

LetNames(e) == UNION {ToSet(n.xs) : n \in {m \in Nodes(e) : m.k = "let"}}

(***************************************************************************)
(* Values.                                                                 *)
(***************************************************************************)
Null == [t |-> "null"]
Num(n) == [t |-> "int", n |-> n]
StrAt(s) == [t |-> "str", s |-> s]
NoClaim == [t |-> "none"]

Truthy(v) == IF v.t = "int" THEN v.n # 0 ELSE v.t \notin {"null", "none"}

\* C++ division and remainder truncate toward zero.
Quot(a, b) == LET q == (IF a < 0 THEN -a ELSE a) \div (IF b < 0 THEN -b ELSE b)
              IN IF (a < 0) = (b < 0) THEN q ELSE -q

Apply2(op, a, b) ==
    CASE op = "+" -> a + b
      [] op = "-" -> a - b
      [] op = "*" -> a * b
      [] op = "/" -> Quot(a, b)
      [] op = "%" -> a - b * Quot(a, b)
      [] op = "<" -> IF a < b THEN 1 ELSE 0
      [] op = ">" -> IF a > b THEN 1 ELSE 0
      [] op = "<=" -> IF a <= b THEN 1 ELSE 0
      [] op = ">=" -> IF a >= b THEN 1 ELSE 0
      [] op = "==" -> IF a = b THEN 1 ELSE 0
      [] op = "!=" -> IF a # b THEN 1 ELSE 0

Apply1(op, v) ==
    CASE op = "not" -> IF Truthy(v) THEN 0 ELSE 1
      [] op = "neg" -> -v.n
      [] op = "abs" -> IF v.n < 0 THEN -v.n ELSE v.n
      [] op = "lognot" -> -v.n - 1

Divides(op) == op \in {"/", "%"}

(***************************************************************************)
(* The reference evaluation: a value, the variables after it, and whether  *)
(* the language fixes them: ok is lost when a NoClaim value is computed    *)
(* with, and when a loop runs out of Fuel.                                 *)
(***************************************************************************)
Result(v, env, ok) == [v |-> v, env |-> env, ok |-> ok]

Unbound == [x \in Names |-> Null]

\* xs bound to the values vs, every other name as in env.
Bind(env, xs, vs) ==
    [x \in Names |-> IF x \in ToSet(xs) THEN vs[CHOOSE i \in DOMAIN xs : xs[i] = x]
                     ELSE env[x]]

AllNum(vs) == \A i \in DOMAIN vs : vs[i].t = "int"

RECURSIVE Eval(_, _, _), Loop(_, _, _, _)

\* es from left to right; v is the sequence of their values.
EvalAll(es, env, fns) ==
    FoldLeft(LAMBDA r, e : LET q == Eval(e, r.env, fns)
                           IN Result(Append(r.v, q.v), q.env, r.ok /\ q.ok),
             Result(<<>>, env, TRUE), es)

Loop(e, env, fns, n) ==
    LET c == Eval(e.args[1], env, fns)
        b == Eval(e.args[2], c.env, fns)
        next == Loop(e, b.env, fns, n - 1)
    IN IF n = 0 \/ c.v = NoClaim THEN Result(NoClaim, c.env, FALSE)
       ELSE IF ~Truthy(c.v) THEN Result(NoClaim, c.env, c.ok)
       ELSE [next EXCEPT !.ok = c.ok /\ b.ok /\ @]

EvalOperator(e, env, fns) ==
    LET r == EvalAll(e.args, env, fns)
    IN IF e.k = "unary"
       THEN IF r.v[1].t = "int" \/ (e.op = "not" /\ r.v[1] # NoClaim)
            THEN [r EXCEPT !.v = Num(Apply1(e.op, r.v[1]))]
            ELSE Result(NoClaim, r.env, FALSE)
       ELSE IF ~AllNum(r.v) THEN Result(NoClaim, r.env, FALSE)
            ELSE IF Divides(e.op) /\ r.v[2].n = 0 THEN [r EXCEPT !.v = NoClaim]
            ELSE [r EXCEPT !.v = Num(Apply2(e.op, r.v[1].n, r.v[2].n))]

EvalIf(e, env, fns) ==
    LET c == Eval(e.args[1], env, fns)
        branch == IF Truthy(c.v) THEN 2 ELSE 3
        r == Eval(e.args[branch], c.env, fns)
    IN IF c.v = NoClaim THEN Result(NoClaim, c.env, FALSE)
       ELSE IF branch > Len(e.args) THEN Result(NoClaim, c.env, c.ok)
       ELSE [r EXCEPT !.ok = c.ok /\ @]

EvalLet(e, env, fns) ==
    LET vals == EvalAll(SubSeq(e.args, 1, Len(e.xs)), env, fns)
        body == Eval(Last(e.args), Bind(vals.env, e.xs, vals.v), fns)
    IN Result(body.v, [x \in Names |-> IF x \in ToSet(e.xs) THEN vals.env[x]
                                       ELSE body.env[x]],
              vals.ok /\ body.ok)

\* fns maps a script function to its parameters and body, a native to the
\* operator it applies to its two arguments.
EvalCall(e, env, fns) ==
    LET r == EvalAll(e.args, env, fns)
        f == fns[e.f]
        body == Eval(f.body, Bind(Unbound, f.params, r.v), fns)
    IN IF NoClaim \in ToSet(r.v) \/ (f.native /\ ~AllNum(r.v))
       THEN Result(NoClaim, r.env, FALSE)
       ELSE IF f.native THEN [r EXCEPT !.v = Num(Apply2(f.op, r.v[1].n, r.v[2].n))]
       ELSE Result(body.v, r.env, r.ok /\ body.ok)

Eval(e, env, fns) ==
    CASE e.k = "const" -> Result(Num(e.n), env, TRUE)
      [] e.k = "str" -> Result(StrAt(e.s), env, TRUE)
      [] e.k = "var" -> Result(env[e.x], env, TRUE)
      [] e.k \in {"unary", "binary", "compare"} -> EvalOperator(e, env, fns)
      [] e.k = "if" -> EvalIf(e, env, fns)
      [] e.k = "let" -> EvalLet(e, env, fns)
      [] e.k = "set" -> LET r == Eval(e.args[1], env, fns)
                        IN [r EXCEPT !.env = [r.env EXCEPT ![e.x] = r.v]]
      [] e.k = "begin" -> LET r == EvalAll(e.args, env, fns)
                          IN [r EXCEPT !.v = Last(r.v)]
      [] e.k = "while" -> Loop(e, env, fns, Fuel)
      [] e.k = "call" -> EvalCall(e, env, fns)
=============================================================================
