------------------------------ MODULE IrVisit ------------------------------
(***************************************************************************)
(* The walk over the resolved tree that builds the IR of a function        *)
(* (ir_build::visit and the functions it calls, compiler/ir_build.cpp).    *)
(***************************************************************************)
EXTENDS IrBuild

CONSTANT
    Capacities      \* the capacities a growing vector of ops has

RECURSIVE visit(_, _), visit_all(_, _), visit_test(_, _, _, _),
          materialize(_, _, _, _), rval_list(_, _, _), PushRvals(_, _, _, _),
          PushUnpacked(_, _, _, _)

PushVisit(b, n) == Push(visit(b, n))

PushVisits(b, ns) == FoldLeft(PushVisit, b, ns)

EmitConst(b, kind, value) == emit(PushOperand(b, kind, value), "const", 1)

visit_all(b, ns) == FoldLeft(visit, b, ns)

-----------------------------------------------------------------------------
(* Calls and functions. *)

def_function(b, i, omethod) ==
    LET PushOutenv(a, outenv) ==
            IF outenv.outer_outenv THEN PushOperand(a, "outenv", outenv.outer_index)
            ELSE Push(use(a, outenv.outer_index))
        outenvs == b.outenvs[i]
    IN  emit(FoldLeft(PushOutenv, PushAll(b, <<Operand("function", i), omethod>>), outenvs),
             "new_function", 2 + Len(outenvs))

SetUnpack(b, unpack) == [b EXCEPT !.ops[b.val.i].unpack = unpack]

(* The function and the self argument of a call of a method of b.val. *)
PushMethod(b, u) ==
    LET key == Push(emit(PushOperand(Push(b), "selector", u.i), "get_key", 2))
    IN  Push(IF u.c[1].k = "super" THEN use(key, u.c[1].i) ELSE Return_(key, b.val))

push_callee(b, u) ==
    IF u.k = "key" THEN PushMethod(visit(b, u.c[1]), u) ELSE PushVisit(b, u)

(* An op whose operands are those of the evaluation stack above at. *)
EmitSince(b, opcode, at) == emit(b, opcode, Len(b.o) - at)

CallOps == [call |-> "call", yield_for |-> "ycall", yield |-> "yield"]

RECURSIVE call_op(_, _, _)

expr_unpack(b, n, unpack) ==
    LET u == n.c[1]
    IN  SetUnpack(CASE u.k = "local" /\ b.fn.locals[u.i].kind = "vararg" -> emit(b, "vararg", 0)
                    [] u.k \in DOMAIN CallOps -> call_op(b, u, CallOps[u.k])
                    [] OTHER             -> emit(PushVisit(b, u), "unpack", 1),
                  unpack)

PushArgument(b, n) ==
    IF n.k = "unpack" THEN Push(expr_unpack(b, n, All)) ELSE PushVisit(b, n)

call_op(b, n, opcode) ==
    LET calls == opcode \in {"call", "ycall"}
        args  == IF calls THEN Tail(n.c) ELSE n.c
    IN  EmitSince(FoldLeft(PushArgument, IF calls THEN push_callee(b, n.c[1]) ELSE b, args),
                  opcode, Len(b.o))

-----------------------------------------------------------------------------
(* Tests and short circuits.  A comparison chain keeps the value in the    *)
(* middle in a temporary.                                                  *)

comparison(b, op) ==
    LET n == Len(b.o)
        swapped == [b EXCEPT !.o[n] = b.o[n - 1], !.o[n - 1] = b.o[n]]
    IN  CASE op = "gt" -> emit(swapped, "lt", 2)
          [] op = "ge" -> emit(swapped, "le", 2)
          [] op = "is_not" -> emit(Push(emit(b, "is", 2)), "not", 1)
          [] OTHER -> emit(b, op, 2)

EndTest(b, goto_true, goto_false) ==
    end_block(emit_test(Push(b), "jump_test", 1, goto_true, goto_false))

CompareNext(b, cs, local, next, goto_false) ==
    goto_block(EndTest(comparison(Push(def_val(visit(b, cs[2]), local)), cs[1].k),
                       next, goto_false), next)

RECURSIVE chain(_, _, _, _, _)
chain(b, cs, local, goto_true, goto_false) ==
    IF Len(cs) = 2
    THEN EndTest(comparison(PushVisit(b, cs[2]), cs[1].k), goto_true, goto_false)
    ELSE chain(Push(use(CompareNext(NewLabels(b, 1), cs, local, LastLabel(b) + 1, goto_false),
                        local)),
               SubSeq(cs, 3, Len(cs)), local, goto_true, goto_false)

ChainFrom(b, cs, goto_true, goto_false) == chain(b, cs, LastTemp(b), goto_true, goto_false)

(* The first operand was evaluated; a longer chain has a temporary. *)
test_chain(b, cs, goto_true, goto_false) ==
    ChainFrom(IF Len(cs) > 2 THEN temporary(b) ELSE b, cs, goto_true, goto_false)

test_compare(b, n, goto_true, goto_false) ==
    test_chain(PushVisit(b, n.c[1]), Tail(n.c), goto_true, goto_false)

(* The tests of an if and the values or blocks they guard; and the rest.   *)
Clauses(n) ==
    <<<<n.c[1], n.c[2]>>>> \o
        LET elifs == SelectSeq(n.c, LAMBDA x : x.k = "elif")
        IN  [i \in DOMAIN elifs |-> elifs[i].c]
ElseOf(n) == SubSeq(n.c, Len(Clauses(n)) + 2, Len(n.c))

(* The block that is reached when the test of a clause is true; label      *)
(* next + 1 is where to go when it is not.                                 *)
GuardOf(b, clause, next) == goto_block(visit_test(b, clause[1], next, next + 1), next)

RECURSIVE test_if(_, _, _, _, _)
test_if(b, clauses, els, goto_true, goto_false) ==
    LET next == LastLabel(b) + 1
    IN  IF clauses = <<>> THEN visit_test(b, els[1], goto_true, goto_false)
        ELSE test_if(goto_block(visit_test(GuardOf(NewLabels(b, 2), clauses[1], next),
                                           clauses[1][2], goto_true, goto_false), next + 1),
                     Tail(clauses), els, goto_true, goto_false)

visit_test(b, n, goto_true, goto_false) ==
    LET l    == NewLabels(b, 1)
        next == LastLabel(l)
        ugoto_true  == IF n.k = "and" THEN next ELSE goto_true
        ugoto_false == IF n.k = "and" THEN goto_false ELSE next
    IN  CASE b.error -> b
          [] n.k = "compare" -> test_compare(b, n, goto_true, goto_false)
          [] n.k \in {"and", "or"} ->
                visit_test(goto_block(visit_test(l, n.c[1], ugoto_true, ugoto_false), next),
                           n.c[2], goto_true, goto_false)
          [] n.k = "if" -> test_if(b, Clauses(n), ElseOf(n), goto_true, goto_false)
          [] OTHER -> EndTest(visit(b, n), goto_true, goto_false)

(* jump.ct, jump.vt: where to go when the value is true, and local is not  *)
(* or is that value; jump.cf, jump.vf: when it is false.                   *)
materialize(b, n, local, jump) ==
    LET l     == NewLabels(b, 1)
        next  == LastLabel(l)
        ujump == IF n.k = "and" THEN [jump EXCEPT !.ct = next, !.vt = next]
                 ELSE [jump EXCEPT !.cf = next, !.vf = next]
    IN  CASE n.k = "compare" -> visit_test(b, n, jump.ct, jump.cf)
          [] n.k \in {"and", "or"} ->
                materialize(goto_block(materialize(l, n.c[1], local, ujump), next),
                            n.c[2], local, jump)
          [] OTHER -> EndTest(def_val(visit(b, n), local), jump.vt, jump.vf)

(* The block of a short circuit whose value is a constant. *)
MaterializeConst(b, label, kind, local, result) ==
    IF b.labels[label] = <<>> THEN b
    ELSE jump_to(def_val(EmitConst(goto_block(b, label), kind, 0), local), result)

MaterializeConsts(b, t, local) ==
    MaterializeConst(MaterializeConst(b, t, "true", local, t + 2),
                     t + 1, "false", local, t + 2)

visit_logical(b, n) ==
    LET l     == temporary(NewLabels(b, 3))
        local == LastTemp(l)
        t     == LastLabel(l) - 2
        jump  == [ct |-> t, vt |-> t + 2, cf |-> t + 1, vf |-> t + 2]
    IN  use(goto_block(MaterializeConsts(materialize(l, n, local, jump), t, local), t + 2),
            local)

ClauseValue(b, local) == IF local = Invalid THEN b ELSE def_val(b, local)

RECURSIVE IfChain(_, _, _, _, _)
IfChain(b, clauses, local, next, endif) ==
    IF clauses = <<>> THEN b
    ELSE IfChain(goto_block(
                     jump_to(ClauseValue(visit(GuardOf(b, clauses[1], next),
                                               clauses[1][2]), local), endif),
                     next + 1),
                 Tail(clauses), local, next, endif)

visit_if(b, n) ==
    LET l     == NewLabels(temporary(b), 3)
        local == LastTemp(l)
        next  == LastLabel(l) - 2
    IN  use(goto_block(jump_to(def_val(visit(IfChain(l, Clauses(n), local, next, next + 2),
                                             ElseOf(n)[1]), local), next + 2), next + 2),
            local)

ElseBlock(b, n, endif) ==
    IF ElseOf(n) = <<>> THEN b ELSE jump_to(visit(b, ElseOf(n)[1]), endif)

visit_stmt_if(b, n) ==
    LET next == LastLabel(b) + 1
    IN  None(goto_block(ElseBlock(IfChain(NewLabels(b, 3), Clauses(n), Invalid,
                                          next, next + 2), n, next + 2), next + 2))

-----------------------------------------------------------------------------
(* Literals.  The array, table or object stays in a variable of the C++    *)
(* function while its elements are evaluated, not on the evaluation stack. *)

PushNew(b, opcode) == emit(PushOperand(b, "immediate", 0), opcode, 1)

(* The literal, whose capacity is known in the end. *)
Literal(b, new, count) == Return_([b EXCEPT !.ops[new.i].in[1].i = count], new)

Element(b, array, el) ==
    emit(PushArgument(PushAll(b, <<array>>), el),
         IF el.k = "unpack" THEN "extend" ELSE "append", 2)

ElementCount(count, el) ==
    IF el.k = "unpack" THEN ((count + 31) \div 32) * 32 ELSE count + 1

ArrayElements(b, els, array) ==
    Literal(FoldLeft(LAMBDA a, el : Element(a, array, el), b, els), array,
            FoldLeft(ElementCount, 0, els))
ArrayLiteral(b, els) == ArrayElements(b, els, b.val)

visit_array(b, n) == ArrayLiteral(PushNew(b, "new_array"), n.c)

Entry(b, table, kv) == emit(PushVisits(PushAll(b, <<table>>), kv.c), "set_index", 3)

TableEntries(b, kvs, table) ==
    Literal(FoldLeft(LAMBDA a, kv : Entry(a, table, kv), b, kvs), table, Len(kvs))
TableLiteral(b, kvs) == TableEntries(b, kvs, b.val)

visit_table(b, n) == TableLiteral(PushNew(b, "new_table"), n.c)

KeyValue(b, object, kv) ==
    IF kv.c[2].k = "def_function" /\ kv.k = "def"
    THEN def_function(b, kv.c[2].i, object) ELSE visit(b, kv.c[2])

DefKey(b, object, kv) ==
    emit(Push(KeyValue(PushAll(b, <<object, Operand("selector", kv.c[1].i)>>), object, kv)),
         "set_key", 3)

ObjectKeys(b, kvs, object) ==
    Return_(FoldLeft(LAMBDA a, kv : DefKey(a, object, kv), b, kvs), object)
ObjectLiteral(b, kvs) == ObjectKeys(b, kvs, b.val)

visit_def_object(b, n) ==
    LET has == n.c # <<>> /\ n.c[1].k = "prototype"
    IN  ObjectLiteral(emit(Push(IF has THEN visit(b, n.c[1].c[1])
                                ELSE EmitConst(b, "null", 0)), "new_object", 1),
                      IF has THEN Tail(n.c) ELSE n.c)

-----------------------------------------------------------------------------
(* Declaration and assignment. *)

assign(b, lval, v) ==
    CASE lval.k = "local" -> def(b, lval.i, v)
      [] lval.k = "outenv" ->
            Return_(emit(PushAll(b, <<Operand("outenv", lval.i[1]),
                                      Operand("envslot", lval.i[2]), v>>), "set_env", 3), v)
      [] lval.k = "key" ->
            LET u == PushOperand(PushVisit(b, lval.c[1]), "selector", lval.i)
            IN  Return_(emit(PushAll(u, <<v>>), "set_key", 3), v)
      [] lval.k = "index" ->
            Return_(emit(PushAll(PushVisits(b, lval.c), <<v>>), "set_index", 3), v)
      [] OTHER -> Return_([b EXCEPT !.error = TRUE], v)

(* The values of the evaluation stack that are a definition of local.      *)
UsesOf(b, local) ==
    {j \in DOMAIN b.o : b.o[j].k = "op" /\ b.ops[b.o[j].i].local = local}

(* Mutant: the rvals that still use the local are forgotten. *)
Preserve_none(b, local) == b

(* Before a local is assigned, its value is preserved for the rvals that   *)
(* still use it.                                                           *)
Preserve(b, local) ==
    LET uses == UsesOf(b, local)
        Replace(m) ==
            [m EXCEPT !.o = [j \in DOMAIN @ |-> IF j \in uses THEN m.val ELSE @[j]]]
    IN  IF uses = {} THEN b ELSE Replace(emit(Push(use(b, local)), "mov", 1))

KeepVal(b, at) == [b EXCEPT !.o[at] = b.val]
assign_at(b, lval, v, at) == KeepVal(assign(b, lval, v), at)
assign_val(b, lval, at) == assign_at(b, lval, b.val, at)

(* The value of place at, in an op that nothing else refers to. *)
Fresh(b, lval, at) ==
    IF lval.k # "local" THEN Return_(b, b.o[at])
    ELSE emit(PushAll(Preserve(b, lval.i), <<b.o[at]>>), "mov", 1)

RECURSIVE assign_each(_, _, _)
assign_each(b, lvals, at) ==
    IF lvals = <<>> THEN b
    ELSE assign_each(assign_val(Fresh(b, Head(lvals), at), Head(lvals), at),
                     Tail(lvals), at + 1)

(* An assignment to several lvals that is itself an rval evaluates them    *)
(* again.                                                                  *)
assign_list(b, lvals, at, unpack) ==
    CASE Len(lvals) = 1               -> assign_at(b, lvals[1], b.o[at], at)
      [] Len(lvals) > 1 /\ unpack = 0 -> assign_each(b, lvals, at)
      [] OTHER -> PushVisits(Keep(assign_each(b, lvals, at), at - 1), lvals)

rval_assign(b, n, unpack) ==
    LET lvals == IF n.c[1].k = "lvals" THEN n.c[1].c ELSE <<n.c[1]>>
    IN  assign_list(rval_list(b, n.c[2], Len(lvals)), lvals, Len(b.o) + 1, unpack)

(* The operands of the assigned key or index are remembered in variables   *)
(* of the C++ function; the index is that of a node below rval.            *)
IndexOf(b, lval, rval) ==
    IF lval.k = "key" THEN Return_(b, Operand("selector", lval.i)) ELSE visit(b, rval.c[1])

OpResult(b, n) == emit(rval_list(Push(b), n.c[3], 1), n.c[2].k, 2)

SetElement(b, lval, u, v) ==
    emit(PushAll(Push(b), <<u, v, b.val>>),
         IF lval.k = "key" THEN "set_key" ELSE "set_index", 3)

GetElement(b, lval) == emit(Push(b), IF lval.k = "key" THEN "get_key" ELSE "get_index", 2)

OpAssignAt(b, n, u) == SetElement(OpResult(GetElement(b, n.c[1]), n), n.c[1], u, b.val)

OpAssignElement(b, n) == OpAssignAt(IndexOf(Push(b), n.c[1], n.c[3]), n, b.val)

OpAssignName(b, n) == assign_val(Push(b), n.c[1], Len(b.o) + 1)

rval_op_assign(b, n) ==
    IF n.c[1].k \in {"key", "index"} THEN OpAssignElement(visit(b, n.c[1].c[1]), n)
    ELSE OpAssignName(OpResult(visit(b, n.c[1]), n), n)

(* The rvals of a list: only the last of them can be unpacked to more.     *)
PushRvals(b, ns, count, unpack) ==
    LET inner == IF Head(ns).k # "unpack" THEN 1
                 ELSE unpack - Min({count, unpack})
    IN  IF ns = <<>> THEN b
        ELSE PushRvals(rval_list(b, Head(ns), inner), Tail(ns), count + inner, unpack)

PushUnpacked(b, v, i, unpack) ==
    IF i = unpack THEN b
    ELSE PushUnpacked(Push(emit(PushAll(b, <<v, Operand("select", i)>>), "select", 2)),
                      v, i + 1, unpack)

PushSelected(b, unpack) ==
    IF unpack = 1 THEN Push(b) ELSE PushUnpacked(b, b.val, 0, unpack)

(* The evaluation stack has exactly unpack values more than at, or there   *)
(* is an error.                                                            *)
CheckCount(b, at, unpack) ==
    LET missing == [i \in 1..(at + unpack - Len(b.o)) |-> NoOperand]
    IN  Keep(IF unpack \in {0, Len(b.o) - at} THEN b
             ELSE PushAll([b EXCEPT !.error = TRUE], missing), at + unpack)

(* Pushes unpack rvals. *)
rval_list(b, n, unpack) ==
    CheckCount(CASE n.k = "assign"    -> rval_assign(b, n, unpack)
                 [] n.k = "op_assign" -> rval_op_assign(b, n)
                 [] n.k = "rvals"     -> PushRvals(b, n.c, 0, unpack)
                 [] n.k = "unpack"    -> PushSelected(expr_unpack(b, n, unpack), unpack)
                 [] OTHER             -> PushVisit(b, n),
               Len(b.o), unpack)

(* The names of a declaration take the values of the evaluation stack      *)
(* above at, or null.                                                      *)
DefNames(b, names, at) ==
    FoldLeft(LAMBDA a, i : def(a, names[i].i, a.o[at + i]), b, [i \in DOMAIN names |-> i])

DefNull(b, name) == def_val(EmitConst(b, "null", 0), name.i)

visit_var(b, n) ==
    LET names == IF n.c[1].k = "names" THEN n.c[1].c ELSE <<n.c[1]>>
        at    == Len(b.o)
    IN  None(IF Len(n.c) = 1 THEN FoldLeft(DefNull, b, names)
             ELSE Keep(DefNames(rval_list(b, n.c[2], Len(names)), names, at), at))

visit_def(b, n) ==
    LET name == n.c[1]  value == n.c[2]
        DefMethod(omethod) ==
            def_function(PushOperand(Push(omethod), "selector", name.i),
                         value.i, omethod.val)
        Set(v) == assign(v, name, v.val)
    IN  None(CASE name.k = "local_decl" -> def_val(visit(b, value), name.i)
               [] name.k # "local_decl" /\ value.k = "def_function" ->
                    emit(Push(DefMethod(visit(b, name.c[1]))), "set_key", 3)
               [] OTHER -> Set(visit(b, value)))

-----------------------------------------------------------------------------
(* Blocks and statements. *)

block_varenv(b, n) ==
    LET e == emit(PushOperand(b, "immediate", b.fn.locals[n.i].slot), "new_env", 1)
    IN  IF n.i = Invalid THEN b ELSE def_val(e, n.i)

visit_block(b, n) == None(visit_all(block_varenv(b, n), n.c))

(* The header of a loop, and its labels: those of break and continue, and  *)
(* the one before them for what follows the test.                          *)
OpenLoop(b) ==
    LET Open(l) ==
            [l EXCEPT !.loops = Append(@, [loop_break    |-> LastLabel(l) - 1,
                                           loop_continue |-> LastLabel(l)])]
    IN  Open(NewLabels(new_block(b, "unsealed"), 3))
BreakOf(b)    == Last(b.loops).loop_break
ContinueOf(b) == Last(b.loops).loop_continue

CloseLoop(b, loop) ==
    None(goto_block([end_loop(b, loop, ContinueOf(b)) EXCEPT !.loops = Front(@)],
                    BreakOf(b)))

BeginFor(b, local, gen, count) ==
    goto_block(end_block(def_val(emit_jump(b, gen, count, LastLabel(b)), local)),
               LastLabel(b))

AdvanceFor(b, local, next) ==
    goto_block(end_block(def_val(emit_test(Push(use(b, local)), next, 1,
                                           LastLabel(b) - 2, BreakOf(b)), local)),
               LastLabel(b) - 2)

(* Evaluates what a for loop is over, and begins the loop: opcode gen sets *)
(* the hidden local, opcode next advances it.                              *)
StartFor(b, n, exprs, gen, next) ==
    AdvanceFor(OpenLoop(BeginFor(NewLabels(PushVisits(b, exprs), 1), n.i, gen, Len(exprs))),
               n.i, next)

(* The block of a loop header is the one its labels were made in. *)
BodyOf(b, n, loop) ==
    CloseLoop(jump_to(visit(b, n), ContinueOf(b)), loop)

StepLoop(b, n) ==
    BodyOf(def_val(emit(b, "for_step_index", 0), n.c[1].i), n.c[5], Len(b.blocks))

visit_for_step(b, n) ==
    StepLoop(StartFor(b, n, SubSeq(n.c, 2, 4), "jump_for_sgen", "jump_for_step"), n)

(* The names of a for loop are counted through a pointer to the op of the  *)
(* items, taken before the ops that select them are appended.  When the    *)
(* vector of ops has moved meanwhile, the count is written to the old one. *)
Moved(from, to) == \E c \in Capacities : from <= c /\ c < to

CountItems(b, items, names) ==
    IF Moved(Len(items.ops), Len(b.ops)) THEN b
    ELSE [b EXCEPT !.ops[items.val.i].unpack = Len(names)]

SelectItem(b, v, i, name) ==
    def_val(emit(PushAll(b, <<v, Operand("select", i - 1)>>), "select", 2), name.i)

SelectItems(b, names) ==
    CountItems(FoldLeft(LAMBDA a, i : SelectItem(a, b.val, i, names[i]), b,
                        [i \in DOMAIN names |-> i]), b, names)

DefItems(b, n) ==
    IF n.k = "names" THEN SelectItems(b, n.c) ELSE def_val(b, n.i)

EachLoop(b, n) ==
    BodyOf(DefItems(emit(b, "for_each_items", 0), n.c[1]), n.c[3], Len(b.blocks))

visit_for_each(b, n) ==
    EachLoop(StartFor(b, n, <<n.c[2]>>, "jump_for_egen", "jump_for_each"), n)

WhileTest(b, n, next) == goto_block(visit_test(b, n.c[1], next, BreakOf(b)), next)
WhileLoop(b, n) == BodyOf(WhileTest(b, n, LastLabel(b) - 2), n.c[2], b.block)

visit_while(b, n) ==
    WhileLoop(OpenLoop(b), n)

(* The test of a repeat loop is in a block of its own if there is a        *)
(* continue.                                                               *)
ContinueAt(b, c) == IF b.labels[c] = <<>> THEN b ELSE goto_block(jump_to(b, c), c)

UntilLoop(b, n) ==
    CloseLoop(visit_test(ContinueAt(visit(b, n.c[1]), ContinueOf(b)), n.c[2],
                         BreakOf(b), ContinueOf(b)), b.block)

visit_repeat(b, n) ==
    UntilLoop(OpenLoop(b), n)

visit_function(b, n) ==
    LET names == SelectSeq(n.c[1].c, LAMBDA x : x.k # "vararg_param")
        params == (IF b.fn.self THEN <<1>> ELSE <<>>) \o [i \in DOMAIN names |-> names[i].i]
        PushParam(a, i) == Push(emit(PushOperand(a, "local", i), "param", 1))
        Define(a, i) == def(a, params[i], a.o[i])
        p == block_varenv(FoldLeft(PushParam, b, params), n.c[2])
        d == Keep(FoldLeft(Define, p, [i \in DOMAIN params |-> i]), 0)
    IN  None(end_block(emit(visit_all(d, n.c[2].c), "jump_return", 0)))

(* What is built after an error is not used. *)
visit(b, n) ==
    CASE b.error -> b
      [] n.k \in Unary \cup {"not"} -> emit(PushVisit(b, n.c[1]), n.k, 1)
      [] n.k \in Binary          -> emit(PushVisits(b, n.c), n.k, 2)
      [] n.k = "paren"           -> visit(b, n.c[1])
      [] n.k \in {"null", "false", "true"} -> EmitConst(b, n.k, 0)
      [] n.k \in {"number", "string"}      -> EmitConst(b, n.k, n.i)
      [] n.k \in {"compare", "and", "or"}  -> visit_logical(b, n)
      [] n.k = "if"              -> visit_if(b, n)
      [] n.k = "key"  -> emit(PushOperand(PushVisit(b, n.c[1]), "selector", n.i), "get_key", 2)
      [] n.k = "index"           -> emit(PushVisits(b, n.c), "get_index", 2)
      [] n.k \in DOMAIN CallOps  -> call_op(b, n, CallOps[n.k])
      [] n.k = "array"           -> visit_array(b, n)
      [] n.k = "table"           -> visit_table(b, n)
      [] n.k = "var"             -> visit_var(b, n)
      [] n.k = "def"             -> visit_def(b, n)
      [] n.k \in {"assign", "op_assign"}   -> None(rval_list(b, n, 0))
      [] n.k = "function"        -> visit_function(b, n)
      [] n.k = "block"           -> visit_block(b, n)
      [] n.k = "stmt_if"         -> visit_stmt_if(b, n)
      [] n.k = "for_step"        -> visit_for_step(b, n)
      [] n.k = "for_each"        -> visit_for_each(b, n)
      [] n.k = "while"           -> visit_while(b, n)
      [] n.k = "repeat"          -> visit_repeat(b, n)
      [] n.k \in {"break", "continue"} /\ b.loops = <<>> -> [b EXCEPT !.error = TRUE]
      [] n.k = "break"           -> None(jump_to(b, BreakOf(b)))
      [] n.k = "continue"        -> None(jump_to(b, ContinueOf(b)))
      [] n.k = "return"          -> None(end_block(call_op(b, n, "jump_return")))
      [] n.k = "throw"           -> None(end_block(emit(PushVisit(b, n.c[1]), "jump_throw", 1)))
      [] n.k = "def_function"    -> def_function(b, n.i, NoOperand)
      [] n.k = "def_object"      -> visit_def_object(b, n)
      [] n.k = "local"           -> use(b, n.i)
      [] n.k = "super"           -> emit(b, "super", 0)
      [] n.k = "outenv"          -> emit(PushAll(b, <<Operand("outenv", n.i[1]),
                                            Operand("envslot", n.i[2])>>), "get_env", 2)
      [] n.k = "global"          -> emit(PushOperand(b, "selector", n.i), "get_global", 1)

build(fns, f) ==
    LET Built(b) == [fn |-> b.fn, ops |-> b.ops, blocks |-> b.blocks,
                     error |-> b.error \/ b.o # <<>>]
    IN  Built(visit(NewBuild(fns, f), fns[f].tree))

=============================================================================
