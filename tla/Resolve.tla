------------------------------ MODULE Resolve ------------------------------
(***************************************************************************)
(* Name resolution (compiler/ast_resolve.cpp): every name becomes a local, *)
(* a slot of an environment record of this function or of an outer one,    *)
(* super, or a global.                                                     *)
(*                                                                         *)
(* The state of a resolution is the record r: fns, the functions of the    *)
(* script as far as they are resolved; scopes, the open scopes; errors,    *)
(* the kinds of error reported; and val, the node the last function        *)
(* visited has become, for the code rewrites the tree where it stands.     *)
(***************************************************************************)
EXTENDS Syntax, Integers, SequencesExt, FiniteSetsExt, TLC

CONSTANT
    PastLocals      \* the kind read beyond the end of a function's locals

Loops == {"for_step", "for_each", "while", "repeat"}

Local(kind) == [kind |-> kind, env |-> Invalid, slot |-> 0]

Variable(index, after_continue) ==
    [index |-> index, after_continue |-> after_continue, super |-> FALSE,
     is_outenv |-> FALSE, slot |-> 0]

WithChildren(n, c) == [n EXCEPT !.c = c]

(* What the nodes ns become, one after the other. *)
Collect(r, done) == [r EXCEPT !.val = Append(done, @)]
Each(r, ns, Visit(_, _)) ==
    FoldLeft(LAMBDA a, n : Collect(Visit(a, n), a.val), [r EXCEPT !.val = <<>>], ns)

Report(r, error) == [r EXCEPT !.errors = @ \cup {error}]
ReportIf(p, r, error) == IF p THEN Report(r, error) ELSE r

(* locals.append: the index of the new local is LastLocal. *)
AddLocal(r, f, local) == [r EXCEPT !.fns[f].locals = Append(@, local)]
LastLocal(r, f) == Len(r.fns[f].locals)

-----------------------------------------------------------------------------
(* Scopes. *)

open_scope(r, f, kind) ==
    [r EXCEPT !.scopes = Append(@,
        [f |-> f, kind |-> kind, env |-> Invalid, slots |-> 0,
         after_continue |-> FALSE, repeat_until |-> FALSE, variables |-> <<>>])]

(* The block whose scope is closed learns the local of its environment.    *)
close_scope(r) ==
    LET s == Last(r.scopes)
        popped == [r EXCEPT !.scopes = Front(@)]
    IN  IF s.env = Invalid THEN popped
        ELSE [popped EXCEPT !.fns[s.f].locals[s.env].slot = s.slots,
                            !.val.i = s.env]

loop_scope(r) ==
    LET loops == {i \in DOMAIN r.scopes : r.scopes[i].kind \in Loops}
    IN  IF loops = {} THEN Invalid ELSE Max(loops)

AddVariable(r, name, v) ==
    [r EXCEPT !.scopes[Len(r.scopes)].variables = @ @@ (name :> v)]

(* declare, for one name of the list. *)
declare_name(r, f, n, kind) ==
    LET scope == Last(r.scopes)
        added == AddLocal(r, f, Local(kind))
        i     == LastLocal(added, f)
    IN  IF n.i \in DOMAIN scope.variables
        THEN [Report(r, "redeclaration") EXCEPT !.val = n]
        ELSE [AddVariable(added, n.i, Variable(i, scope.after_continue))
                EXCEPT !.fns[f].params = @ + (IF kind = "var" THEN 0 ELSE 1),
                       !.val = Node("local_decl", i, <<>>)]

declare_one(r, f, n, kind) ==
    LET Vararg(a, x) == declare_name(a, f, x, "vararg")
    IN  IF n.k = "vararg_param"
        THEN [Each([r EXCEPT !.fns[f].varargs = TRUE], n.c, Vararg)
                EXCEPT !.val = WithChildren(n, @)]
        ELSE declare_name(r, f, n, kind)

declare(r, f, n) ==
    LET kind == IF n.k = "parameters" THEN "param" ELSE "var"
        One(a, x) == declare_one(a, f, x, kind)
    IN  IF n.k = "name" THEN declare_name(r, f, n, "var")
        ELSE [Each(r, n.c, One) EXCEPT !.val = WithChildren(n, @)]

(* self and super are the first local. *)
declare_implicit_self(r, f) ==
    LET added == AddLocal(r, f, Local("self"))
        v     == Variable(LastLocal(added, f), FALSE)
    IN  [AddVariable(AddVariable(added, "self", v), "super", [v EXCEPT !.super = TRUE])
            EXCEPT !.fns[f].params = @ + 1]

-----------------------------------------------------------------------------
(* Captures.                                                               *)

(* The index of an outenv of function f, appended if it is not there. *)
FindOutenv(r, f, outenv) ==
    LET at == {i \in DOMAIN r.fns[f].outenvs : r.fns[f].outenvs[i] = outenv}
    IN  IF at = {} THEN Len(r.fns[f].outenvs) + 1 ELSE Min(at)

AddOutenv(r, f, outenv) ==
    IF FindOutenv(r, f, outenv) <= Len(r.fns[f].outenvs) THEN r
    ELSE [r EXCEPT !.fns[f].outenvs = Append(@, outenv)]

(* A captured local gets a slot in the environment of its scope. *)
AllocateSlot(r, s, local) ==
    LET f    == r.scopes[s].f
        made == IF r.scopes[s].env # Invalid THEN r
                ELSE LET a == AddLocal(r, f, Local("var"))
                     IN  [a EXCEPT !.scopes[s].env = LastLocal(a, f)]
    IN  IF r.fns[f].locals[local].env # Invalid THEN r
        ELSE [made EXCEPT !.fns[f].locals[local].env = made.scopes[s].env,
                          !.fns[f].locals[local].slot = made.scopes[s].slots + 1,
                          !.scopes[s].slots = @ + 1]

(* Carries the variable v of scope s inwards until it is one of the        *)
(* current function, and leaves it in val.                                 *)
RECURSIVE capture(_, _, _, _)
capture(r, name, v, s) ==
    LET outer == r.scopes[s].f
        inner == Min({i \in DOMAIN r.scopes : i > s /\ r.scopes[i].f # outer})
        g     == r.scopes[inner].f
        a     == IF v.is_outenv THEN r ELSE AllocateSlot(r, s, v.index)
        local == a.fns[outer].locals[v.index]
        outenv == [outer_index |-> IF v.is_outenv THEN v.index ELSE local.env,
                   outer_outenv |-> v.is_outenv]
        w     == [Variable(FindOutenv(a, g, outenv), FALSE) EXCEPT
                    !.is_outenv = TRUE,
                    !.slot = IF v.is_outenv THEN v.slot ELSE local.slot]
    IN  IF outer = Last(r.scopes).f THEN [r EXCEPT !.val = v]
        ELSE capture([AddOutenv(a, g, outenv)
                        EXCEPT !.scopes[inner].variables = (name :> w) @@ @],
                     name, w, inner)

(* The kind of local the checks on a variable read.  They look a captured  *)
(* variable up among the locals too, by the index of its environment.      *)
KindOf(r, f, v) ==
    IF v.index \in DOMAIN r.fns[f].locals THEN r.fns[f].locals[v.index].kind
    ELSE PastLocals

(* The errors in a use of variable v of function g in function f. *)
Complaints(r, f, g, v, context) ==
    LET vararg == KindOf(r, g, v) = "vararg"
        Of(p, error) == IF p THEN {error} ELSE {}
    IN  UNION {Of(Last(r.scopes).repeat_until /\ v.after_continue, "after_continue"),
               Of(context = "assign" /\ v.super, "assign_super"),
               Of(vararg /\ context # "unpack", "vararg_in_expression"),
               Of(vararg /\ g # f, "vararg_captured"),
               Of(v.super /\ g # f, "super_captured")}

Reference(v) ==
    CASE v.is_outenv -> Node("outenv", <<v.index, v.slot>>, <<>>)
      [] v.super     -> Node("super", v.index, <<>>)
      [] OTHER       -> Node("local", v.index, <<>>)

lookup(r, f, n, context) ==
    LET found == {i \in DOMAIN r.scopes : n.i \in DOMAIN r.scopes[i].variables}
        s == Max(found)
        v == r.scopes[s].variables[n.i]
        checked == [r EXCEPT !.errors = @ \cup
                        Complaints(r, f, r.scopes[s].f, v, context)]
    IN  IF found = {}
        THEN [ReportIf(context = "assign", r, "assign_global")
                EXCEPT !.val = [n EXCEPT !.k = "global"]]
        ELSE [capture(checked, n.i, v, s) EXCEPT !.val = Reference(@)]

-----------------------------------------------------------------------------
(* The tree. *)

RECURSIVE visit(_, _, _), VisitRest(_, _, _, _)

(* done is what the first nodes have become. *)
VisitNext(r, f, ns, done) == VisitRest(r, f, ns, Append(done, r.val))

VisitRest(r, f, ns, done) ==
    IF Len(done) = Len(ns) THEN [r EXCEPT !.val = done]
    ELSE VisitNext(visit(r, f, ns[Len(done) + 1]), f, ns, done)

visit_all(r, f, ns) == VisitRest(r, f, ns, <<>>)

visit_children(r, f, n) == [visit_all(r, f, n.c) EXCEPT !.val = WithChildren(n, @)]

visit_lval(r, f, n) ==
    IF n.k = "name" THEN lookup(r, f, n, "assign") ELSE visit(r, f, n)

visit_lvals(r, f, n) ==
    [Each(r, n.c, LAMBDA a, x : visit_lval(a, f, x)) EXCEPT !.val = WithChildren(n, @)]

(* A block in the scope of node kind, which the caller may have opened for *)
(* it.  until is what a repeat loop visits before the scope closes.        *)
visit_block(r, f, block) == close_scope(visit_children(r, f, block))

visit_unpack(r, f, n) ==
    IF n.c[1].k # "name" THEN visit_children(r, f, n)
    ELSE [lookup(r, f, n.c[1], "unpack") EXCEPT !.val = WithChildren(n, <<@>>)]

(* The values of a var are visited before its names are declared. *)
VarNames(r, f, n) ==
    [declare(r, f, n.c[1]) EXCEPT !.val = WithChildren(n, <<@>> \o r.val)]

visit_var(r, f, n) == VarNames(visit_all(r, f, Tail(n.c)), f, n)

(* A name that is defined is declared before its value is visited. *)
DefValue(r, f, n) ==
    [visit(r, f, n.c[2]) EXCEPT !.val = WithChildren(n, <<r.val, @>>)]

visit_def(r, f, n) ==
    IF n.c[1].k # "name" THEN visit_children(r, f, n)
    ELSE DefValue(declare(r, f, n.c[1]), f, n)

AssignValues(r, f, n) ==
    [visit_all(r, f, Tail(n.c)) EXCEPT !.val = WithChildren(n, <<r.val>> \o @)]

visit_assign(r, f, n) ==
    LET lval == n.c[1]
    IN  AssignValues(IF lval.k = "lvals" THEN visit_lvals(r, f, lval)
                     ELSE visit_lval(r, f, lval), f, n)

(* The hidden local of a for loop is made before its expressions are       *)
(* visited, and its names belong to the scope around it.                   *)
ForBlock(r, f, n, local, exprs) ==
    [visit_block(open_scope(r, f, n.k), f, Last(n.c))
        EXCEPT !.val = Node(n.k, local, <<r.val>> \o exprs \o <<@>>)]

ForNames(r, f, n, local) == ForBlock(declare(r, f, n.c[1]), f, n, local, r.val)

visit_for(r, f, n) ==
    LET a == AddLocal(r, f, Local(n.k))
    IN  ForNames(visit_all(a, f, SubSeq(n.c, 2, Len(n.c) - 1)), f, n, LastLocal(a, f))

(* The block of a while loop or a function, in the open scope. *)
SecondBlock(r, f, n) ==
    [visit_block(r, f, n.c[2]) EXCEPT !.val = WithChildren(n, <<r.val, @>>)]

visit_while(r, f, n) == SecondBlock(open_scope(visit(r, f, n.c[1]), f, "while"), f, n)

(* The condition of a repeat loop is in the scope of its block. *)
CloseRepeat(r, n, block) ==
    [close_scope([r EXCEPT !.val = block]) EXCEPT !.val = WithChildren(n, <<@, r.val>>)]

Until(r, f, n) ==
    CloseRepeat(visit([r EXCEPT !.scopes[Len(r.scopes)].repeat_until = TRUE], f, n.c[2]),
                n, r.val)

visit_repeat(r, f, n) == Until(visit_children(open_scope(r, f, "repeat"), f, n.c[1]), f, n)

visit_break(r, n) ==
    [ReportIf(loop_scope(r) = Invalid, r, "break") EXCEPT !.val = n]

visit_continue(r, n) ==
    LET s == loop_scope(r)
        m == IF s = Invalid THEN Report(r, "continue")
             ELSE IF r.scopes[s].kind = "repeat"
                  THEN [r EXCEPT !.scopes[s].after_continue = TRUE] ELSE r
    IN  [m EXCEPT !.val = n]

visit_function(r, f, n) ==
    LET o == open_scope(r, f, "function")
    IN  SecondBlock(declare(IF r.fns[f].self THEN declare_implicit_self(o, f) ELSE o,
                            f, n.c[1]), f, n)

SetTree(r, f, n) == [r EXCEPT !.fns[f].tree = r.val, !.val = n]

visit_def_function(r, n) == SetTree(visit(r, n.i, r.fns[n.i].tree), n.i, n)

(* The names of an object's keys are not names. *)
visit_key(r, f, n) ==
    IF n.k = "prototype" THEN visit(r, f, n)
    ELSE [visit(r, f, n.c[2]) EXCEPT !.val =
            WithChildren(n, <<[n.c[1] EXCEPT !.k = "objkey_decl"], @>>)]

visit_def_object(r, f, n) ==
    [Each(r, n.c, LAMBDA a, x : visit_key(a, f, x)) EXCEPT !.val = WithChildren(n, @)]

visit(r, f, n) ==
    CASE n.k = "unpack"   -> visit_unpack(r, f, n)
      [] n.k = "var"      -> visit_var(r, f, n)
      [] n.k = "def"      -> visit_def(r, f, n)
      [] n.k \in {"assign", "op_assign"}   -> visit_assign(r, f, n)
      [] n.k = "block"    -> visit_block(open_scope(r, f, "block"), f, n)
      [] n.k \in {"for_step", "for_each"}  -> visit_for(r, f, n)
      [] n.k = "while"    -> visit_while(r, f, n)
      [] n.k = "repeat"   -> visit_repeat(r, f, n)
      [] n.k = "break"    -> visit_break(r, n)
      [] n.k = "continue" -> visit_continue(r, n)
      [] n.k = "function" -> visit_function(r, f, n)
      [] n.k = "def_function" -> visit_def_function(r, n)
      [] n.k = "def_object"   -> visit_def_object(r, f, n)
      [] n.k = "name"     -> lookup(r, f, n, "normal")
      [] OTHER            -> visit_children(r, f, n)

(* A script is a sequence of functions, the first of which is the script.  *)
Unresolved(script) ==
    [fns |-> [i \in DOMAIN script |->
                [tree |-> script[i].tree, self |-> script[i].self,
                 generator |-> script[i].generator, varargs |-> FALSE,
                 params |-> 0, locals |-> <<>>, outenvs |-> <<>>]],
     scopes |-> <<>>, errors |-> {}, val |-> Null]

resolve(script) ==
    LET Resolved(v) == [fns |-> [v.fns EXCEPT ![1].tree = v.val], errors |-> v.errors]
    IN  Resolved(visit(Unresolved(script), 1, script[1].tree))

=============================================================================
