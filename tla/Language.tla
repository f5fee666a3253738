------------------------------- MODULE Language -------------------------------
(***************************************************************************)
(* What a script means: the abstract specification of the compiler and the *)
(* interpreter.  It evaluates the tree that the parser makes, with names   *)
(* and nothing of locals, environments, blocks or registers.               *)
(*                                                                         *)
(* s is the state of an evaluation: env, the cell of each name in scope;   *)
(* cells, their values; heap and trace, as in Execute; fuel, a bound on    *)
(* loops and calls; and sig, why evaluation does not go on with what comes *)
(* next, if it does not.  val is the value of an expression and vals those *)
(* of a list or a call.                                                    *)
(***************************************************************************)
EXTENDS Ir

CONSTANTS
    Globals,        \* the value of each global name
    Fuel            \* bound: loops and calls

Value(k) == Operand(k, 0)
Number(n) == Operand("number", n)
Truth(t) == Value(IF t THEN "true" ELSE "false")
IsTrue(v) == ~(v.k \in {"null", "false"} \/ v = Number(0))

Start == [env |-> << >>, cells |-> <<>>, heap |-> <<[type |-> "lookup", v |-> << >>]>>,
          trace |-> <<>>, fuel |-> Fuel, sig |-> "go", val |-> Value("null"), vals |-> <<>>]

Give(s, v)  == [s EXCEPT !.val = v]
Stop(s, sig) == [s EXCEPT !.sig = sig]
Error(s) == Stop(s, "error")

(* What follows, if anything does. *)
Then(s, F(_)) == IF s.sig = "go" THEN F(s) ELSE s

Burn(s) == IF s.fuel = 0 THEN Stop(s, "fuel") ELSE [s EXCEPT !.fuel = @ - 1]

(* A new cell for a name; names declared inside are gone after a scope.    *)
Declare(s, name, v) ==
    [s EXCEPT !.cells = Append(@, v), !.env = (name :> Len(s.cells) + 1) @@ @]
Leave(s, env) == [s EXCEPT !.env = env]

Object(s, type, v) ==
    Give([s EXCEPT !.heap = Append(@, [type |-> type, v |-> v])],
         Operand("object", Len(s.heap) + 1))
Is(s, u, type) == u.k = "object" /\ s.heap[u.i].type = type
Of(s, u) == s.heap[u.i].v

Exactly(vs, n) == SubSeq(vs \o [i \in 1..n |-> Value("null")], 1, n)

-----------------------------------------------------------------------------
(* Operators on values. *)

Arithmetic(op, u, v) ==
    CASE op = "add" -> u + v [] op = "sub" -> u - v [] op = "mul" -> u * v
      [] op = "intdiv" -> u \div v [] op = "mod" -> u % v

Operate(s, op, u, v) ==
    CASE op = "concat" /\ u.k = "string" /\ v.k = "string" ->
            Give(s, Operand("string", Concat(u.i, v.i)))
      [] op # "concat" /\ u.k = "number" /\ v.k = "number" ->
            Give(s, Number(Arithmetic(op, u.i, v.i)))
      [] OTHER -> Error(s)

Length(s, u) ==
    CASE u.k = "string" -> Give(s, Number(Digits(u.i)))
      [] Is(s, u, "array") -> Give(s, Number(Len(Of(s, u))))
      [] Is(s, u, "table") -> Give(s, Number(Cardinality(DOMAIN Of(s, u))))
      [] OTHER -> Error(s)

OperateOne(s, op, u) ==
    CASE op = "not" -> Give(s, Truth(~IsTrue(u)))
      [] op = "length" -> Length(s, u)
      [] op \in {"neg", "pos"} /\ u.k = "number" ->
            Give(s, Number(IF op = "neg" THEN -u.i ELSE u.i))
      [] OTHER -> Error(s)

Holds(s, op, u, v) ==
    CASE op \in {"eq", "ne"} -> Give(s, Truth((u = v) = (op = "eq")))
      [] op \notin {"eq", "ne"} /\ u.k = v.k /\ u.k \in {"number", "string"} ->
            Give(s, Truth(CASE op = "lt" -> u.i < v.i [] op = "le" -> u.i <= v.i
                            [] op = "gt" -> u.i > v.i [] op = "ge" -> u.i >= v.i))
      [] OTHER -> Error(s)

(* Elements of arrays are counted from 0. *)
Place(s, u, v) == IF Is(s, u, "array") THEN v.i + 1 ELSE v
Has(s, u, v) ==
    u.k = "object" /\ (Is(s, u, "array") => v.k = "number") /\ Place(s, u, v) \in DOMAIN Of(s, u)

GetElement(s, u, v) ==
    IF Has(s, u, v) THEN Give(s, Of(s, u)[Place(s, u, v)]) ELSE Error(s)

SetElement(s, u, v, w) ==
    IF Has(s, u, v) \/ Is(s, u, "table") \/ Is(s, u, "lookup")
    THEN Give([s EXCEPT !.heap[u.i].v = (Place(s, u, v) :> w) @@ @], w)
    ELSE Error(s)

-----------------------------------------------------------------------------
(* Expressions, from left to right. *)

RECURSIVE Eval(_, _, _), Values(_, _, _, _, _), Exec(_, _, _), Store(_, _, _, _), ExecAll(_, _, _),
          Chain(_, _, _, _), Entries(_, _, _, _), Choose(_, _, _, _, _), Repeat(_, _, _, _), Again(_, _, _, _)

Known(s, name) == name \in DOMAIN s.env
Look(s, name) ==
    CASE Known(s, name) -> Give(s, s.cells[s.env[name]])
      [] ~Known(s, name) /\ name \in DOMAIN Globals -> Give(s, Globals[name])
      [] OTHER -> Error(s)

(* The names of a list of parameters; the last may take any number.        *)
Named(ps) == SelectSeq(ps, LAMBDA x : x.k # "vararg_param")
Takes(ps, n) == IF Named(ps) = ps THEN n = Len(ps) ELSE n >= Len(Named(ps))

(* A list of arguments that vary is a value of its own kind. *)
Bind(s, ps, vs) ==
    LET rest == SubSeq(vs, Len(Named(ps)) + 1, Len(vs))
        named == FoldLeft(LAMBDA a, i : Declare(a, ps[i].i, vs[i]), s,
                          [i \in DOMAIN Named(ps) |-> i])
    IN  IF Named(ps) = ps THEN named
        ELSE Then(Object(named, "varargs", rest),
                  LAMBDA a : Declare(a, Last(ps).c[1].i, a.val))

(* A function sees the names around its definition, and returns a list.    *)
Invoke(p, s, f, vs) ==
    LET code == Of(s, f)
        function == p[code.function].tree
        ps == function.c[1].c
        Body(a) == Exec(p, Bind([a EXCEPT !.env = code.env], ps, vs), function.c[2])
        Back(a) == [a EXCEPT !.env = s.env, !.sig = IF @ = "return" THEN "go" ELSE @,
                             !.vals = IF a.sig = "return" THEN @ ELSE <<>>]
    IN  CASE f.k = "native" -> [s EXCEPT !.trace = Append(@, vs), !.vals = <<>>]
          [] Is(s, f, "function") -> IF Takes(ps, Len(vs)) THEN Back(Then(Burn(s), Body)) ELSE Error(s)
          [] OTHER -> Error(s)

CallOf(p, s, n) ==
    Then(Eval(p, s, n.c[1]), LAMBDA a :
    Then(Values(p, a, Tail(n.c), <<>>, All), LAMBDA b :
    Invoke(p, b, a.val, b.vals)))

(* What an unpacked expression stands for. *)
Spread(p, s, n) ==
    IF n.k = "call" THEN CallOf(p, s, n)
    ELSE Then(Eval(p, s, n), LAMBDA a :
              IF Is(a, a.val, "array") \/ Is(a, a.val, "varargs")
              THEN [a EXCEPT !.vals = Of(a, a.val)] ELSE Error(a))

(* The values of a list of expressions, of which the last may be unpacked  *)
(* to make up count.                                                       *)
Values(p, s, ns, vs, count) ==
    LET Cut(xs) == IF count = All THEN xs ELSE Exactly(xs, count - Len(vs))
    IN  IF ns = <<>> THEN [s EXCEPT !.vals = vs]
        ELSE IF ns[1].k = "unpack"
        THEN Then(Spread(p, s, ns[1].c[1]), LAMBDA a :
                  Values(p, a, Tail(ns), vs \o Cut(a.vals), count))
        ELSE Then(Eval(p, s, ns[1]), LAMBDA a :
                  Values(p, a, Tail(ns), Append(vs, a.val), count))

(* a op b op c: b is evaluated once, and c only if the first holds.        *)
Chain(p, s, u, cs) ==
    Then(Eval(p, s, cs[2]), LAMBDA a :
    Then(Holds(a, cs[1].k, u, a.val), LAMBDA b :
         IF b.val = Truth(FALSE) \/ Len(cs) = 2 THEN b
         ELSE Chain(p, b, a.val, SubSeq(cs, 3, Len(cs)))))

(* An if: its tests with what they guard, and the rest. *)
Clauses(n) ==
    <<<<n.c[1], n.c[2]>>>> \o
        LET elifs == SelectSeq(n.c, LAMBDA x : x.k = "elif")
        IN  [i \in DOMAIN elifs |-> elifs[i].c]
ElseOf(n) == SubSeq(n.c, Len(Clauses(n)) + 2, Len(n.c))

Choose(p, s, kind, clauses, els) ==
    LET Do(a, n) == IF kind = "if" THEN Eval(p, a, n) ELSE Exec(p, a, n)
    IN  IF clauses = <<>> THEN IF els = <<>> THEN s ELSE Do(s, els[1])
        ELSE Then(Eval(p, s, clauses[1][1]), LAMBDA a :
                  IF IsTrue(a.val) THEN Do(a, clauses[1][2])
                  ELSE Choose(p, a, kind, Tail(clauses), els))

Entries(p, s, table, es) ==
    IF es = <<>> THEN Give(s, table)
    ELSE Then(Values(p, s, es[1].c, <<>>, 2), LAMBDA a :
         Then(SetElement(a, table, a.vals[1], a.vals[2]), LAMBDA b :
         Entries(p, b, table, Tail(es))))

Eval(p, s, n) ==
    CASE n.k \in {"null", "true", "false"} -> Give(s, Value(n.k))
      [] n.k \in {"number", "string"} -> Give(s, Operand(n.k, n.i))
      [] n.k = "name" -> Look(s, n.i)
      [] n.k = "paren" -> Eval(p, s, n.c[1])
      [] n.k \in Unary \cup {"not"} ->
            Then(Eval(p, s, n.c[1]), LAMBDA a : OperateOne(a, n.k, a.val))
      [] n.k \in Binary ->
            Then(Values(p, s, n.c, <<>>, 2), LAMBDA a : Operate(a, n.k, a.vals[1], a.vals[2]))
      [] n.k = "compare" ->
            Then(Eval(p, s, n.c[1]), LAMBDA a : Chain(p, a, a.val, Tail(n.c)))
      [] n.k \in {"and", "or"} ->
            Then(Eval(p, s, n.c[1]), LAMBDA a :
                 IF IsTrue(a.val) = (n.k = "and") THEN Eval(p, a, n.c[2]) ELSE a)
      [] n.k = "if" -> Choose(p, s, n.k, Clauses(n), ElseOf(n))
      [] n.k = "key" ->
            Then(Eval(p, s, n.c[1]), LAMBDA a : GetElement(a, a.val, n.i))
      [] n.k = "index" ->
            Then(Values(p, s, n.c, <<>>, 2), LAMBDA a : GetElement(a, a.vals[1], a.vals[2]))
      [] n.k = "call" ->
            Then(CallOf(p, s, n), LAMBDA a : Give(a, Exactly(a.vals, 1)[1]))
      [] n.k = "array" ->
            Then(Values(p, s, n.c, <<>>, All), LAMBDA a : Object(a, "array", a.vals))
      [] n.k = "table" ->
            Then(Object(s, "table", << >>), LAMBDA a : Entries(p, a, a.val, n.c))
      [] n.k = "def_function" -> Object(s, "function", [function |-> n.i, env |-> s.env])
      [] n.k = "assign" -> Exec(p, s, n)

-----------------------------------------------------------------------------
(* Statements. *)

(* Assigns v, which is the value of the assignment too. *)
Store(p, s, lval, v) ==
    CASE lval.k = "name" -> Give([s EXCEPT !.cells[s.env[lval.i]] = v], v)
      [] lval.k = "key" ->
            Then(Eval(p, s, lval.c[1]), LAMBDA a : SetElement(a, a.val, lval.i, v))
      [] lval.k = "index" ->
            Then(Values(p, s, lval.c, <<>>, 2), LAMBDA a :
                 SetElement(a, a.vals[1], a.vals[2], v))

Listed(n, kind) == IF n.k = kind THEN n.c ELSE <<n>>

(* All the values come before any of the variables. *)
AssignTo(p, s, lvals, rvals) ==
    Then(Values(p, s, rvals, <<>>, Len(lvals)), LAMBDA a :
         FoldLeft(LAMBDA b, i : Then(b, LAMBDA c : Store(p, c, lvals[i], a.vals[i])),
                  a, [i \in DOMAIN lvals |-> i]))

(* What is assigned to is evaluated once. *)
OpAssignTo(p, s, lval, op, rval) ==
    LET By(a, F(_, _)) ==
            Then(Eval(p, a, rval), LAMBDA b :
            Then(Operate(b, op, a.val, b.val), LAMBDA c : F(c, c.val)))
        Element(a, u, x) == By(GetElement(a, u, x), LAMBDA c, v : SetElement(c, u, x, v))
    IN  CASE lval.k = "name" -> By(Look(s, lval.i), LAMBDA c, v : Store(p, c, lval, v))
          [] lval.k = "key" -> Then(Eval(p, s, lval.c[1]), LAMBDA a : Element(a, a.val, lval.i))
          [] lval.k = "index" ->
                Then(Values(p, s, lval.c, <<>>, 2), LAMBDA a : Element(a, a.vals[1], a.vals[2]))

DeclareAll(p, s, n) ==
    LET names == Listed(n.c[1], "names")
        rvals == IF Len(n.c) = 1 THEN [i \in DOMAIN names |-> Null] ELSE Listed(n.c[2], "rvals")
    IN  Then(Values(p, s, rvals, <<>>, Len(names)), LAMBDA a :
             FoldLeft(LAMBDA b, i : Declare(b, names[i].i, a.vals[i]), a,
                      [i \in DOMAIN names |-> i]))

(* A function may call itself by its name. *)
Define(p, s, n) ==
    Then(Eval(p, Declare(s, n.c[1].i, Value("null")), n.c[2]), LAMBDA a :
         Store(p, a, n.c[1], a.val))

ExecAll(p, s, ns) ==
    FoldLeft(LAMBDA a, n : Then(a, LAMBDA b : Exec(p, b, n)), s, ns)

(* The rounds of a loop.  v is what is left of it: the numbers of a for,   *)
(* or its elements.                                                        *)
More(p, s, n, v) ==
    CASE n.k = "while" -> Eval(p, s, n.c[1])
      [] n.k = "repeat" -> Give(s, Truth(TRUE))
      [] n.k = "for_each" -> Give(s, Truth(v # <<>>))
      [] n.k = "for_step" ->
            Give(s, Truth(IF v[3].i >= 0 THEN v[1].i < v[2].i ELSE v[1].i > v[2].i))

(* The variables of a loop belong to the loop, not to the round.           *)
SetVariables(s, n, v) ==
    LET names == Listed(n.c[1], "names")
        vs == IF n.k = "for_step" THEN <<v[1]>> ELSE Exactly(v[1], Len(names))
    IN  IF n.k \in {"while", "repeat"} THEN s
        ELSE FoldLeft(LAMBDA a, i : [a EXCEPT !.cells[a.env[names[i].i]] = vs[i]], s,
                      [i \in DOMAIN names |-> i])

Rest(n, v) ==
    CASE n.k \in {"while", "repeat"} -> v
      [] n.k = "for_each" -> Tail(v)
      [] n.k = "for_step" -> [v EXCEPT ![1] = Number(@.i + v[3].i)]

Continued(s) == IF s.sig = "continue" THEN Stop(s, "go") ELSE s
Broken(s) == IF s.sig = "break" THEN Stop(s, "go") ELSE s

(* The condition of a repeat loop sees the names of its body. *)
Round(p, s, n) ==
    LET a == Continued(ExecAll(p, s, IF n.k = "repeat" THEN n.c[1].c ELSE Last(n.c).c))
        Until(b) == Then(Eval(p, b, n.c[2]), LAMBDA c :
                         IF IsTrue(c.val) THEN Stop(c, "break") ELSE c)
    IN  Leave(IF n.k = "repeat" THEN Then(a, Until) ELSE a, s.env)

Repeat(p, s, n, v) ==
    Then(Burn(s), LAMBDA a :
    Then(More(p, a, n, v), LAMBDA b :
         IF IsTrue(b.val) THEN Again(p, Round(p, SetVariables(b, n, v), n), n, v) ELSE b))

Again(p, s, n, v) == IF s.sig = "go" THEN Repeat(p, s, n, Rest(n, v)) ELSE Broken(s)

(* An element comes with its place, counted from 0 (execute.cpp, OP_FOR_EACH). *)
Elements(s, u) ==
    IF Is(s, u, "array") THEN [i \in DOMAIN Of(s, u) |-> <<Of(s, u)[i], Number(i - 1)>>]
    ELSE [i \in 1..Digits(u.i) |-> <<Operand("string", Digit(u.i, i)), Number(i - 1)>>]

DeclareLoop(s, n) ==
    FoldLeft(LAMBDA b, x : Declare(b, x.i, Value("null")), s, Listed(n.c[1], "names"))

For(p, s, n) ==
    IF n.k = "for_step"
    THEN Then(Values(p, s, SubSeq(n.c, 2, 4), <<>>, 3), LAMBDA a :
              IF \A i \in 1..3 : a.vals[i].k = "number"
              THEN Repeat(p, DeclareLoop(a, n), n, a.vals) ELSE Error(a))
    ELSE Then(Eval(p, s, n.c[2]), LAMBDA a :
              IF Is(a, a.val, "array") \/ a.val.k = "string"
              THEN Repeat(p, DeclareLoop(a, n), n, Elements(a, a.val)) ELSE Error(a))

Exec(p, s, n) ==
    CASE n.k = "var" -> DeclareAll(p, s, n)
      [] n.k = "def" -> Define(p, s, n)
      [] n.k = "assign" -> AssignTo(p, s, Listed(n.c[1], "lvals"), Listed(n.c[2], "rvals"))
      [] n.k = "op_assign" -> OpAssignTo(p, s, n.c[1], n.c[2].k, n.c[3])
      [] n.k = "block" -> Leave(ExecAll(p, s, n.c), s.env)
      [] n.k = "stmt_if" -> Choose(p, s, n.k, Clauses(n), ElseOf(n))
      [] n.k \in {"for_step", "for_each"} -> For(p, s, n)
      [] n.k \in {"while", "repeat"} -> Repeat(p, s, n, <<>>)
      [] n.k \in {"break", "continue"} -> Stop(s, n.k)
      [] n.k = "return" ->
            Then(Values(p, s, n.c, <<>>, All), LAMBDA a : Stop(a, "return"))
      [] n.k = "throw" -> Then(Eval(p, s, n.c[1]), Error)
      [] OTHER -> Eval(p, s, n)

(* The script is its first function. *)
meaning(p) == Exec(p, Start, p[1].tree.c[2])

=============================================================================
