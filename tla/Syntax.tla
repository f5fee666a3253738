------------------------------- MODULE Syntax -------------------------------
(***************************************************************************)
(* Syntax trees (compiler/ast.h).  A node is a record of its kind, its     *)
(* children, and its leaf: a number, a name or key, the index of a         *)
(* function of the script, or what name resolution finds there instead.    *)
(* Kinds are those of ast_node_kind in lower case, and the parser's        *)
(* position of a node is left out.  Indexes start at 1, 0 is an invalid    *)
(* index.  Numbers are integers, and strings are sequences of digits, also *)
(* written as integers.                                                    *)
(***************************************************************************)
EXTENDS Naturals, Sequences

Invalid == 0

Node(kind, leaf, children) == [k |-> kind, i |-> leaf, c |-> children]

Unary  == {"length", "neg", "pos", "bitnot"}
Binary == {"mul", "div", "intdiv", "mod", "add", "sub", "concat", "lshift",
           "rshift", "ashift", "bitand", "bitxor", "bitor"}

(* The constructors the instances write programs with. *)

Paren(u)  == Node("paren", Invalid, <<u>>)
Null      == Node("null", Invalid, <<>>)
True      == Node("true", Invalid, <<>>)
False     == Node("false", Invalid, <<>>)
Num(n)    == Node("number", n, <<>>)
Str(n)    == Node("string", n, <<>>)
Name(x)   == Node("name", x, <<>>)
Op(k, u, v)       == Node(k, Invalid, <<u, v>>)
Key(u, x)         == Node("key", x, <<u>>)
Compare(u, op, v) == Node("compare", Invalid, <<u, Node(op, Invalid, <<>>), v>>)
If(t, u, v)       == Node("if", Invalid, <<t, u, v>>)
Call(u, args)     == Node("call", Invalid, <<u>> \o args)
Unpack(u)         == Node("unpack", Invalid, <<u>>)
Block(stmts)      == Node("block", Invalid, stmts)
List(k, nodes)    == IF Len(nodes) = 1 THEN nodes[1] ELSE Node(k, Invalid, nodes)
Var(names, rvals) == Node("var", Invalid, <<List("names", names), List("rvals", rvals)>>)
Assign(ls, rs)    == Node("assign", Invalid, <<List("lvals", ls), List("rvals", rs)>>)
OpAssign(u, op, v) == Node("op_assign", Invalid, <<u, Node(op, Invalid, <<>>), v>>)
When(t, b)        == Node("stmt_if", Invalid, <<t, b>>)
While(t, b)       == Op("while", t, b)
RepeatLoop(b, t)  == Op("repeat", b, t)
Break             == Node("break", Invalid, <<>>)
Continue          == Node("continue", Invalid, <<>>)
Return(rs)        == Node("return", Invalid, rs)
Function(ps, b)   == Node("function", Invalid, <<Node("parameters", Invalid, ps), b>>)
Definition(f, i)  == Op("def", Name(f), Node("def_function", i, <<>>))
Varargs(x)        == Node("vararg_param", Invalid, <<Name(x)>>)

(* A for loop comes out of the parser inside a block of its own, which     *)
(* holds its variables.                                                    *)
ForStep(x, from, to, by, b) == Block(<<Node("for_step", Invalid, <<x, from, to, by, b>>)>>)
ForEach(names, u, b)        == Block(<<Node("for_each", Invalid, <<names, u, b>>)>>)

=============================================================================
