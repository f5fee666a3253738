------------------------------ MODULE MCCompiler ------------------------------
(***************************************************************************)
(* Scripts to compile and execute.  The first exercise one part of the     *)
(* language each.  The others are all the loops whose body is two of the   *)
(* statements below, one after the other: they differ in what the second   *)
(* statement finds folded, live or in a register after the first.  Last    *)
(* come the scripts that go wrong, and how each does.                      *)
(***************************************************************************)
EXTENDS Compiler

MCGlobals == [n \in {"print", "host"} |->
    IF n = "print" THEN Operand("native", 1) ELSE Operand("object", 1)]
(* A vector that grows doubles. *)
Doubling == {2 ^ n : n \in 0..12}

Plain(tree) == [tree |-> tree, self |-> FALSE, generator |-> FALSE]
Unit(stmts) == Plain(Function(<<Varargs("args")>>, Block(stmts)))
Of(params, stmts) == Plain(Function([k \in DOMAIN params |-> Name(params[k])], Block(stmts)))

a == Name("a")
b == Name("b")
c == Name("c")
i == Name("i")
x == Name("x")

Show(vs)         == Call(Name("print"), <<Str(0)>> \o vs)
CallF(v)         == Call(Name("f"), <<v>>)
Set(u, v)        == Assign(<<u>>, <<v>>)
Is(u, op, v)     == Compare(u, op, v)
Let(name, v)     == Var(<<Name(name)>>, <<v>>)
At(u, v)         == Op("index", u, v)
Not(u)           == Node("not", Invalid, <<u>>)
Neg(u)           == Node("neg", Invalid, <<u>>)
Length(u)        == Node("length", Invalid, <<u>>)
Array(us)        == Node("array", Invalid, us)
Names(ns)        == Node("names", Invalid, ns)

(* Loops that break, continue and count down. *)
WhileJumps == <<Unit(<<
    Var(<<a, b>>, <<Num(1), Num(0)>>),
    While(Is(a, "lt", Num(5)), Block(<<
        Set(a, Op("add", a, Num(1))),
        When(Is(a, "eq", Num(2)), Block(<<Continue>>)),
        Set(b, Op("add", b, a)),
        When(Is(b, "gt", Num(6)), Block(<<Break>>))>>)),
    Show(<<a, b>>)>>)>>

RepeatJumps == <<Unit(<<
    Var(<<a, b>>, <<Num(4), Num(7)>>),
    RepeatLoop(Block(<<
        OpAssign(b, "sub", Num(1)),
        When(Is(b, "eq", Num(5)), Block(<<Continue>>)),
        Let("c", Op("mul", b, a)),
        When(Is(c, "lt", Num(9)), Block(<<Break>>)),
        Show(<<c>>)>>), Is(b, "lt", Num(2))),
    Show(<<a, b>>)>>)>>

ElseIfs == <<Unit(<<
    Var(<<a, b>>, <<Num(4), Num(7)>>),
    ForStep(i, Num(5), Num(0), Neg(Num(2)), Block(<<
        Node("stmt_if", Invalid, <<
            Is(i, "eq", Num(3)), Block(<<Set(a, Num(0))>>),
            Op("elif", Is(i, "eq", Num(1)), Block(<<Set(a, Op("sub", a, Num(1)))>>)),
            Block(<<Set(b, Op("intdiv", i, Num(2)))>>)>>)>>)),
    Show(<<a, b>>)>>)>>

(* Short circuits and comparison chains, over calls that print. *)
ShortCircuits == <<
    Unit(<<
        Definition("f", 2),
        Var(<<a, b>>, <<CallF(Num(0)), Num(2)>>),
        Let("c", Op("or", Op("and", CallF(a), CallF(Num(1))), CallF(b))),
        Show(<<a, c, Op("and", Is(a, "lt", b), b), Op("or", CallF(Null), Is(a, "ne", b))>>)>>),
    Of(<<"x">>, <<Show(<<x>>), Return(<<x>>)>>)>>

Comparisons == <<
    Unit(<<
        Definition("f", 2),
        Let("a", Num(2)),
        Let("x", Not(Paren(Node("compare", Invalid,
            <<CallF(Num(1)), Node("lt", Invalid, <<>>), CallF(a),
              Node("le", Invalid, <<>>), CallF(Num(1))>>)))),
        Show(<<a, x>>)>>),
    Of(<<"x">>, <<Show(<<x>>), Return(<<x>>)>>)>>

Conditions == <<
    Unit(<<
        Definition("f", 2),
        Var(<<a, x>>, <<Num(0), CallF(True)>>),
        When(Op("or", CallF(Num(0)), Not(x)), Block(<<Set(a, Num(1))>>)),
        Let("i", Node("if", Invalid, <<Is(a, "eq", Num(1)), CallF(Num(3)),
                                       Op("elif", x, Num(4)), Num(5)>>)),
        Show(<<a, x, i>>)>>),
    Of(<<"x">>, <<Show(<<x>>), Return(<<x>>)>>)>>

(* Parallel assignments, around a loop. *)
Swaps == <<Unit(<<
    Var(<<a, b, c>>, <<Num(1), Num(2), Num(3)>>),
    ForStep(i, Num(0), Num(3), Num(1), Block(<<
        Assign(<<a, b, c>>, <<b, c, a>>),
        When(Is(b, "eq", Num(1)), Block(<<Assign(<<a, b>>, <<b, a>>)>>))>>)),
    Show(<<a, b, c>>),
    Set(a, Set(b, Op("add", c, Num(4)))),
    Assign(<<a, c>>, <<c, a>>),
    Show(<<a, b, c>>)>>)>>

(* Closures over parameters, locals of a function that has returned, and   *)
(* locals of one round of a loop.                                          *)
Closures == <<
    Unit(<<
        Definition("f", 2),
        Var(<<a, b, c>>, <<CallF(Num(1)), CallF(Num(5)), Num(0)>>),
        Show(<<Call(a, <<Num(1)>>), Call(b, <<Num(2)>>), Call(a, <<Num(3)>>)>>),
        ForStep(i, Num(0), Num(2), Num(1), Block(<<
            Let("j", Op("add", i, Num(1))),
            Definition("set", 4),
            Call(Name("set"), <<i, Num(0)>>),
            Show(<<i, c>>)>>))>>),
    Of(<<"start">>, <<
        Let("n", Name("start")),
        Definition("next", 3),
        Return(<<Name("next")>>)>>),
    Of(<<"by">>, <<OpAssign(Name("n"), "add", Name("by")), Return(<<Name("n")>>)>>),
    Of(<<"x", "y">>, <<Set(i, x), Set(c, Op("add", c, Name("j")))>>)>>

(* Recursion, with variable numbers of arguments and results. *)
Recursion == <<
    Unit(<<
        Definition("sum", 2),
        Definition("f", 3),
        Let("t", Array(<<Num(2), Num(1), Num(0)>>)),
        Var(<<a, b, c>>, <<Unpack(Name("t"))>>),
        Show(<<Call(Name("sum"), <<Num(1), Unpack(Name("t"))>>),
                Op("sub", Op("mul", Num(2), CallF(Num(4))), a), b, c>>)>>),
    Plain(Function(<<Name("n"), Varargs("rest")>>, Block(<<
        When(Is(Name("n"), "eq", Num(0)), Block(<<Return(<<Num(0)>>)>>)),
        Return(<<Op("add", Name("n"), Call(Name("sum"), <<Unpack(Name("rest"))>>))>>)>>))),
    Of(<<"n">>, <<
        When(Is(Name("n"), "lt", Num(2)), Block(<<Return(<<Name("n")>>)>>)),
        Return(<<Op("add", CallF(Op("sub", Name("n"), Num(1))),
                           CallF(Op("sub", Name("n"), Num(2))))>>)>>)>>

(* Arrays, tables, keys and strings. *)
Objects == LET t == Name("t")  m == Name("m")  key == Key(Name("host"), "key") IN <<Unit(<<
    Var(<<t, m>>, <<Array(<<Num(4), Num(5)>>),
                    Node("table", Invalid, <<Op("table_key", Num(1), Num(2))>>)>>),
    Let("i", Num(0)),
    Set(At(t, i), Op("add", At(t, Num(1)), Num(1))),
    Assign(<<i, At(t, i)>>, <<Num(1), Num(9)>>),
    Set(At(m, At(t, i)), Length(t)),
    Set(key, At(m, Num(9))),
    OpAssign(key, "add", Op("mul", i, Num(3))),
    Show(<<At(t, Num(0)), key, Length(m), Neg(i)>>),
    Show(<<Op("sub", Num(3), i)>>)>>)>>

Items == <<Unit(<<
    Var(<<Name("t"), i, b>>, <<Array(<<Num(4), Num(5)>>), Num(1), Null>>),
    Let("u", Array(<<i, Unpack(Name("t"))>>)),
    ForEach(x, Name("u"), Block(<<OpAssign(i, "add", x)>>)),
    ForEach(Names(<<x, c>>), Name("u"), Block(<<
        When(Is(c, "ne", Num(9)), Block(<<OpAssign(i, "add", x)>>))>>)),
    ForEach(Names(<<x, c>>), Str(57), Block(<<
        When(Is(c, "ne", x), Block(<<Set(b, Op("concat", Op("concat", Str(1), x), Str(2)))>>))>>)),
    Show(<<i, b, Op("concat", Str(1), Str(2))>>)>>)>>

(* Tests that are known when the script is compiled, and two results.      *)
Constants == <<
    Unit(<<
        Definition("f", 2),
        Var(<<a, b>>, <<Unpack(CallF(Num(1)))>>),
        While(True, Block(<<
            OpAssign(a, "add", Num(1)),
            When(Is(a, "gt", Num(5)), Block(<<Break>>))>>)),
        When(Is(Num(1), "lt", Num(2)), Block(<<Show(<<a, b>>)>>)),
        When(Not(True), Block(<<Show(<<b>>)>>))>>),
    Of(<<"x">>, <<Let("a", Num(3)), Return(<<a, x>>)>>)>>

(* A generator and an object, whose code is made but not executed. *)
Generators == LET g == Name("g")  n == Name("n")  rest == Name("rest") IN <<
    Unit(<<Definition("g", 2), Show(<<Num(1)>>)>>),
    [Plain(Function(<<n, Varargs("rest")>>, Block(<<
        ForEach(x, n, Block(<<Let("y", Op("yield", n, x)), Call(Name("y"), <<x>>)>>)),
        Let("t", Array(<<n, Unpack(Call(g, <<n>>))>>)),
        Node("yield_for", Invalid, <<Call(g, <<Unpack(rest)>>)>>),
        Return(<<Name("t")>>)>>))) EXCEPT !.generator = TRUE]>>

ObjectDefinitions ==
    LET o == Name("o")  p == Name("p")  q == Name("q")
        Method(stmts) == [Of(<<"a">>, stmts) EXCEPT !.self = TRUE]
    IN <<
    Unit(<<Definition("h", 2), Show(<<Num(1)>>)>>),
    Of(<<"p", "q">>, <<
        Op("def", o, Node("def_object", Invalid, <<
            Node("prototype", Invalid, <<p>>),
            Op("object_key", Name("k"), q),
            Definition("self", 3), Definition("m", 4)>>)),
        Let("x", Call(o, <<q>>)),
        Call(Key(x, "m"), <<p>>),
        When(p, Block(<<Node("throw", Invalid, <<Key(x, "k")>>)>>)),
        Return(<<o, Op("mod", Op("div", Neg(q), p), Num(3))>>)>>),
    Method(<<
        Call(Name("super"), <<a>>),
        Set(Key(Name("self"), "k"), Op("add", Key(Name("super"), "k"), a))>>),
    Method(<<Return(<<Key(Name("self"), "k")>>)>>)>>

Statements ==
    {Assign(<<a, b>>, <<b, a>>),
     Assign(<<a, b>>, <<Op("add", a, b), CallF(a)>>),
     Set(b, If(Is(a, "lt", b), i, Op("sub", a, Num(1)))),
     Set(a, Op("and", b, CallF(i))),
     When(Is(i, "eq", Num(1)), Block(<<OpAssign(a, "sub", Num(2))>>)),
     When(Is(CallF(a), "gt", b), Block(<<Break>>)),
     When(Not(Op("or", Is(a, "gt", b), Is(i, "eq", Num(0)))), Block(<<Set(b, a), Continue>>)),
     Block(<<Let("c", b), Show(<<c, CallF(c), a>>), Set(b, c)>>),
     While(Is(b, "lt", Num(3)), Block(<<OpAssign(b, "add", i), OpAssign(b, "add", Num(1))>>)),
     ForEach(x, Array(<<b, a>>), Block(<<Set(a, CallF(Op("sub", x, i)))>>)),
     RepeatLoop(Block(<<OpAssign(a, "sub", Num(1)), Let("c", a)>>), Not(Is(c, "gt", b))),
     Block(<<Let("d", Op("or", Op("and", Is(a, "lt", b), CallF(b)), a)), Show(<<Name("d")>>)>>),
     When(Node("compare", Invalid, <<a, Node("lt", Invalid, <<>>), CallF(i),
                                     Node("le", Invalid, <<>>), b>>), Block(<<Set(a, b)>>)),
     Assign(<<At(Array(<<a, b>>), Num(0)), b>>, <<b, CallF(Num(2))>>),
     Set(a, Set(b, Op("sub", b, a))),
     Block(<<Var(<<c, x>>, <<Unpack(Array(<<b, a>>))>>), Show(<<x, CallF(c)>>)>>)}

Loop(s1, s2) == <<
    Unit(<<
        Definition("f", 2),
        Var(<<a, b>>, <<Num(1), Num(2)>>),
        ForStep(i, Num(0), Num(3), Num(1), Block(<<s1, s2>>)),
        Show(<<a, b>>)>>),
    Of(<<"x">>, <<Show(<<x>>), Return(<<Op("add", x, Num(1))>>)>>)>>

RightScripts == {WhileJumps, RepeatJumps, ElseIfs, ShortCircuits, Comparisons, Conditions,
               Swaps, Closures, Recursion, Objects, Items, Constants,
               Generators, ObjectDefinitions}
                \cup {Loop(s1, s2) : s1, s2 \in Statements}
-----------------------------------------------------------------------------
(* Scripts that go wrong, each alone in a set. *)

One(stmts) == {<<Unit(stmts)>>}
T == Name("t")
Pair == Let("t", Array(<<Num(4), Num(5)>>))

(* for x, c : [ 4, 5 ] do print( x, c ) end *)
NumberedItems == One(<<Pair, ForEach(Names(<<x, c>>), T, Block(<<Show(<<x, c>>)>>))>>)

(* print() for x, c : "5" do print( x, c ) end *)
NumberedDigits ==
    One(<<Show(<<>>), ForEach(Names(<<x, c>>), Str(5), Block(<<Show(<<x, c>>)>>))>>)

(* for x, c : "5" do print( x, c ) end *)
CountedDigits == One(<<ForEach(Names(<<x, c>>), Str(5), Block(<<Show(<<x, c>>)>>))>>)

(* for x : "57" do a = x end *)
UnnumberedDigits ==
    One(<<Let("a", Num(0)), ForEach(x, Str(57), Block(<<Set(a, x)>>)), Show(<<a>>)>>)

(* for x, c : [ 4, 5 ] do a = 1 end *)
UnusedItems == One(<<Let("a", Num(0)), Pair,
    ForEach(Names(<<x, c>>), T, Block(<<Set(a, Num(1))>>)), Show(<<a>>)>>)

Five == Var(<<a, b, c, i, x>>, <<Num(4), Num(5), Num(6), Num(7), Num(8)>>)

(* a, b, c = 1, a, i and x *)
AssignedAnd ==
    One(<<Five, Assign(<<a, b, c>>, <<Num(1), a, Op("and", i, x)>>), Show(<<a, b, c>>)>>)

(* var d, e = a, i and x *)
DeclaredAnd ==
    LET d == Name("d")
    IN  One(<<Five, Var(<<d, Name("e")>>, <<a, Op("and", i, x)>>), Show(<<d>>)>>)

(* [ 1, a and b, 3 ] *)
ArrayOfAnd == One(<<Five, Show(<<Length(Array(<<Num(1), Op("and", a, b), Num(3)>>))>>)>>)

(* t[ i ] += a * 3 *)
AddedElement == One(<<Pair, Var(<<a, i>>, <<Num(1), Num(0)>>),
    OpAssign(At(T, i), "add", Op("mul", a, Num(3))), Show(<<At(T, Num(0)), At(T, Num(1))>>)>>)

(* a is b *)
IsPrototype == One(<<Five, Show(<<Is(a, "is", b)>>)>>)

(* t[ 256 ] *)
LargeIndex == One(<<Pair, Show(<<At(T, Num(256))>>)>>)

(* if false and b then a = 2 end *)
KnownAnd == One(<<Five, When(Op("and", False, b), Block(<<Set(a, Num(2))>>)), Show(<<a>>)>>)

(* while a < 9 do print( a ) break end *)
OneRound == One(<<Five, While(Is(a, "lt", Num(9)), Block(<<Show(<<a>>), Break>>)), Show(<<a>>)>>)

(* while a < 4 do def f( x ) break end end *)
BreakOutOf == {<<
    Unit(<<Five, While(Is(a, "lt", Num(4)), Block(<<Definition("f", 2)>>))>>),
    Of(<<"x">>, <<Break>>)>>}

(* def f( rest ... ) print( a, a ) end *)
CapturedTwice == {<<
    Unit(<<Five, Definition("f", 2), Call(Name("f"), <<Num(1)>>)>>),
    Plain(Function(<<Varargs("rest")>>, Block(<<Show(<<a, a>>)>>)))>>}

(* def f( x, rest ... ) return 7, x end *)
TwoResults == {<<
    Unit(<<
        Definition("f", 2),
        Var(<<a, b>>, <<Unpack(Call(Name("f"), <<Num(1), Num(2)>>))>>),
        Show(<<a, b>>)>>),
    Plain(Function(<<x, Varargs("rest")>>, Block(<<Return(<<Num(7), x>>)>>)))>>}

MCMisread    == NumberedItems \cup NumberedDigits \cup AssignedAnd \cup AddedElement
                    \cup TwoResults
MCUncompiled == CountedDigits \cup DeclaredAnd \cup ArrayOfAnd \cup IsPrototype
                    \cup LargeIndex \cup KnownAnd \cup OneRound \cup BreakOutOf
                    \cup CapturedTwice
MCCrossing   == ArrayOfAnd
MCEndless    == UnnumberedDigits \cup UnusedItems

MCScripts == RightScripts \cup MCMisread \cup MCUncompiled \cup MCEndless

=============================================================================
