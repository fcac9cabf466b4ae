-------------------------------- MODULE MCVm --------------------------------
(* Programs for TLC: every expression of two levels over small operands,   *)
(* as the body of main(x), with the functions g(p, q) and the native sub.  *)
EXTENDS Vm

CONSTANTS Allowed     \* the patterns a program may show

Leaves == {Const(0), Const(3), Var("x")}

One(as) ==
       {Binary(op, a, b) : op \in {"-", "/"}, a \in as, b \in as}
  \cup {Compare("<", a, b) : a \in as, b \in as}
  \cup {Unary(op, a) : op \in {"not", "lognot"}, a \in as}
  \cup {If(a, b, c) : a \in as, b \in as, c \in as}
  \cup {When(a, b) : a \in as, b \in as}
  \cup {Set("x", a) : a \in as}
  \cup {Call(f, <<a, b>>) : f \in {"g", "sub"}, a \in as, b \in as}
  \cup {Let(<<<<y, a>>>>, Binary("-", Var("y"), b)) : y \in {"y"}, a \in as, b \in as}

Ones == One(Leaves)

CountTo(l, x, n) == While(l, Compare("<", Var(x), Const(n)),
                          Set(x, Arith("+", <<Var(x), Const(1)>>)))

Twos ==
       {Binary("-", e, f) : e \in Ones, f \in Leaves}
  \cup {Binary("-", f, e) : e \in Ones, f \in Leaves}
  \cup {Begin(<<e, Var("x")>>) : e \in Ones}
  \cup {Begin(<<e, f, Var("x")>>) : e \in {Set("x", Const(3)), Set("x", Unary("neg", Var("x")))},
                                    f \in Ones}
  \cup {If(Var("x"), e, f) : e \in Ones, f \in Leaves}
  \cup {If(e, Const(1), f) : e \in Ones, f \in Leaves}
  \cup {Call(g, <<e, f>>) : g \in {"g", "sub"}, e \in Ones, f \in Leaves}
  \cup {Call(g, <<f, e>>) : g \in {"g", "sub"}, e \in Ones, f \in Leaves}
  \cup {Let(<<<<"y", e>>>>, f) : e \in Ones, f \in {Var("y"), Arith("-", <<Var("y"), Var("x")>>)}}
  \cup {Let(<<<<"y", Const(0)>>, <<"z", e>>>>, Begin(<<CountTo("", "y", 2), f>>)) :
           e \in Ones, f \in {Arith("-", <<Var("y"), Var("z"), Var("x")>>)}}
  \cup {Begin(<<CountTo("", "x", 2), e>>) : e \in Ones}

\* Strings, cond, nested and named loops, lets of one name side by side.
More ==
       {If(c, Str("a"), Str("b")) : c \in Leaves \cup {Compare("<", Var("x"), Const(1))}}
  \cup {Begin(<<Str("a"), e>>) : e \in Ones}
  \cup {Cond(<<<<Compare("==", Var("x"), Const(n)), Const(5)>>, <<Var("x"), Const(7)>>>>, l) :
           n \in {1, 3}, l \in {<<>>, <<Const(9)>>}}
  \cup {Begin(<<CountTo(l, "x", n), CountTo(m, "x", 4), Var("x")>>) : n \in {0, 2},
           l \in {"", "top"}, m \in {"", "top", "next"}}
  \cup {Let(<<<<"y", Const(0)>>>>,
            While("", Compare("<", Var("y"), Const(2)),
                  Begin(<<CountTo("", "x", 3), Set("y", Arith("+", <<Var("y"), Const(1)>>))>>)))}
  \cup {Begin(<<Let(<<<<"y", a>>>>, Set("x", Var("y"))),
                Let(<<<<"y", b>>>>, Binary("-", Var("x"), Var("y")))>>) : a \in Leaves, b \in Leaves}
  \cup {Let(<<<<"y", a>>>>, Binary("-", Let(<<<<z, b>>>>, Var(z)), Var("y"))) :
           z \in {"y", "z"}, a \in Leaves, b \in Leaves}
  \cup {Let(<<<<"x", Binary("-", Var("x"), Const(1))>>>>, Var("x"))}
  \cup {Binary("-", Let(<<<<"y", a>>>>, Var("y")), Let(<<<<z, b>>>>, Var(z))) :
           z \in {"y", "z"}, a \in Leaves, b \in Leaves}
  \cup {Call("g", <<Call("g", <<a, Call("sub", <<Const(9), Const(4)>>)>>),
                    Call("g", <<Const(5), b>>)>>) : a \in Leaves, b \in Leaves}

Bodies == {e \in Ones \cup Twos \cup More :
             {p \in Patterns : Pattern(p, <<"x">>, e)} \subseteq Allowed}

\* g recurses when its first argument is the smaller one.
G == If(Compare("<", Var("p"), Var("q")), Call("g", <<Var("q"), Var("p")>>),
        Binary("-", Var("p"), Var("q")))

MCPrograms ==
    {[arg |-> n,
      fns |-> [main |-> [native |-> FALSE, params |-> <<"x">>, body |-> e],
               g |-> [native |-> FALSE, params |-> <<"p", "q">>, body |-> G],
               sub |-> [native |-> TRUE, op |-> "-"]]] :
        n \in {0, 1}, e \in Bodies}

MCSid == [f \in {"main", "g", "sub"} |-> CASE f = "main" -> 1001 [] f = "g" -> 1002 [] f = "sub" -> 1003]
=============================================================================
