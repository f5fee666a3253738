------------------------------- MODULE IrEmit -------------------------------
(***************************************************************************)
(* Bytecode (compiler/ir_emit.cpp): the ops with their registers become    *)
(* instructions.  e is the state of the emission: code, the instructions   *)
(* so far; fixups and labels; moves, those not emitted yet; max_r, the     *)
(* highest register used; error, an internal error reported; and at, the   *)
(* last op that was emitted.                                               *)
(***************************************************************************)
EXTENDS Ir

StackMark == 255        \* OP_STACK_MARK

op_ab(op, r, a, b) == [op |-> op, r |-> r, a |-> a, b |-> b]
op_c(op, r, c)     == [op |-> op, r |-> r, c |-> c]
op_j(op, r, j)     == [op |-> op, r |-> r, j |-> j]

RECURSIVE assemble(_, _, _), AssembleNext(_, _), MoveFree(_), MoveLoops(_, _), Gather(_, _, _)

-----------------------------------------------------------------------------
(* The shapes of instruction an op can have, by the kinds of its operands. *)

Shape(op, in, code, kind) == [op |-> op, in |-> in, code |-> code, kind |-> kind]

AB(op, in, code) == Shape(op, in, code, "ab")

SHAPES ==
    {AB(o, <<"op">>, o) : o \in {"length", "neg", "pos", "bitnot", "not", "is"}} \cup
    {AB(o, <<"op", "op">>, o) :
        o \in {"mul", "div", "intdiv", "mod", "add", "concat", "lshift", "rshift",
               "ashift", "bitand", "bitxor", "bitor", "get_index"}} \cup
    {AB("mul", <<"op", "number">>, "muln"), AB("add", <<"op", "number">>, "addn"),
     AB("concat", <<"op", "string">>, "concats"),
     AB("get_key", <<"op", "selector">>, "get_key"),
     AB("set_key", <<"op", "selector", "op">>, "set_key"),
     AB("get_index", <<"op", "immediate">>, "get_indexi"),
     AB("set_index", <<"op", "op", "op">>, "set_index"),
     AB("set_index", <<"op", "immediate", "op">>, "set_indexi"),
     AB("get_env", <<"op", "envslot">>, "get_varenv"),
     AB("get_env", <<"outenv", "envslot">>, "get_outenv"),
     AB("set_env", <<"op", "envslot", "op">>, "set_varenv"),
     AB("set_env", <<"outenv", "envslot", "op">>, "set_outenv"),
     Shape("sub", <<"op", "op">>, "sub", "ab_swap"),
     Shape("sub", <<"number", "op">>, "subn", "ab_swap"),
     Shape("concat", <<"string", "op">>, "rconcats", "ab_swap"),
     Shape("append", <<"op", "op">>, "append", "ab_no_r"),
     Shape("jump_throw", <<"op">>, "throw", "ab_no_r"),
     Shape("get_global", <<"selector">>, "get_global", "c")} \cup
    {Shape("const", <<k>>, "ldv", "c") : k \in {"null", "true", "false"}} \cup
    {Shape("const", <<k>>, "ldk", "c") : k \in {"number", "string"}} \cup
    {Shape(o, <<"immediate">>, o, "c") : o \in {"new_env", "new_array", "new_table"}} \cup
    {Shape(o, <<"op", "op">>, "jeq", "jump") : o \in {"eq", "ne"}} \cup
    {Shape(o, <<"op", "number">>, "jeqn", "jump") : o \in {"eq", "ne"}} \cup
    {Shape(o, <<"op", "string">>, "jeqs", "jump") : o \in {"eq", "ne"}} \cup
    {Shape("lt", <<"op", "op">>, "jlt", "jump"), Shape("le", <<"op", "op">>, "jle", "jump"),
     Shape("lt", <<"op", "number">>, "jltn", "jump"),
     Shape("le", <<"op", "number">>, "jlen", "jump"),
     Shape("lt", <<"number", "op">>, "jgtn", "j_swap"),
     Shape("le", <<"number", "op">>, "jgen", "j_swap")}

Shaped == {shape.op : shape \in SHAPES}
match_operands(op, shape) ==
    shape.op = op.op /\ shape.in = [j \in DOMAIN op.in |-> op.in[j].k]

-----------------------------------------------------------------------------

Fail(e) == [e EXCEPT !.error = TRUE]
Emit(e, op) == [e EXCEPT !.code = Append(@, op)]
Uses(e, r) == [e EXCEPT !.max_r = Max({@, r})]
Label(e, i) == [e EXCEPT !.labels = (i :> Len(e.code)) @@ @]

(* A jump instruction to the block header i. *)
EmitJump(e, op, r, i) ==
    Emit([e EXCEPT !.fixups = Append(@, [from |-> Len(e.code) + 1, to |-> i])], op_j(op, r, 0))

(* The op behind i, if it is of that opcode; Invalid otherwise. *)
NextOp(f, i, opcode) ==
    LET real == {j \in i + 1 .. Len(f.ops) : f.ops[j].op \notin {"phi", "ref", "nop"}}
    IN  IF i = Invalid \/ real = {} THEN Invalid
        ELSE IF f.ops[Min(real)].op = opcode THEN Min(real) ELSE Invalid

RegOf(f, v) == f.ops[v.i].r
HasReg(f, v) == RegOf(f, v) # Register

(* The register of an operand, or what it holds. *)
Arg(f, v) == IF v.k = "op" THEN RegOf(f, v) ELSE v.i

ArgsOk(f, op) == \A j \in DOMAIN op.in : op.in[j].k = "op" => HasReg(f, op.in[j])

-----------------------------------------------------------------------------
(* Moves that take place at once, whatever registers they share. *)

move(e, target, source) ==
    IF target = source THEN e
    ELSE [e EXCEPT !.moves = Append(@, [target |-> target, source |-> source])]

(* Those whose target no other move reads, lowest target first... *)
MoveFree(e) ==
    LET sources == {m.source : m \in ToSet(e.moves)}
        free == {j \in DOMAIN e.moves : e.moves[j].target \notin sources}
        m == e.moves[Min(free)]
    IN  IF free = {} THEN e
        ELSE MoveFree([Emit(Uses(e, m.target), op_ab("mov", m.target, m.source, 0))
                          EXCEPT !.moves = RemoveAt(@, Min(free))])

(* ... and the rest go round in circles. *)
MoveLoops(e, i) ==
    LET m == e.moves[i]
        After(j) == IF j > i /\ e.moves[j].source = m.target
                    THEN [e.moves[j] EXCEPT !.source = m.source] ELSE e.moves[j]
        swapped == [Emit(Uses(e, m.target), op_ab("swp", m.target, m.source, 0))
                       EXCEPT !.moves = [j \in DOMAIN @ |-> After(j)]]
    IN  IF i > Len(e.moves) THEN [e EXCEPT !.moves = <<>>]
        ELSE MoveLoops(IF m.target = m.source THEN e ELSE swapped, i + 1)

(* Mutant: the moves are made in the order they are asked for. *)
move_emit_in_order(e) ==
    LET Mov(a, m) == Emit(Uses(a, m.target), op_ab("mov", m.target, m.source, 0))
    IN  [FoldLeft(Mov, e, e.moves) EXCEPT !.moves = <<>>]

move_emit(e) ==
    MoveLoops(MoveFree([e EXCEPT !.moves = SortSeq(@, LAMBDA m, n : m.target < n.target)]), 1)

-----------------------------------------------------------------------------

(* The two ways of a test: jump goes to the one that does not follow, if   *)
(* the test is true or, when they are swapped, false.                      *)
Branches(f, i) ==
    LET in == f.ops[i].in
        next == NextOp(f, i, "block")
    IN  IF in[2].i = next THEN [to |-> in[3].i, else |-> in[2].i, swapped |-> TRUE, next |-> next]
        ELSE [to |-> in[2].i, else |-> in[3].i, swapped |-> FALSE, next |-> next]

EmitElse(e, w) == IF w.else = w.next THEN e ELSE EmitJump(e, "jmp", 0, w.else)

(* The test that a comparison is for; it may be the next op only. *)
TestOf(f, i) == NextOp(f, i, "jump_test")

WithCompare(e, f, i, shape) ==
    LET op == f.ops[i]
        in == IF shape.kind = "j_swap" THEN Reverse(op.in) ELSE op.in
        test == TestOf(f, i)
        w == Branches(f, test)
        when == (op.op # "ne") # w.swapped
    IN  IF test = Invalid THEN Fail(e)
        ELSE IF f.ops[test].in[1] # OpAt(i) \/ ~ArgsOk(f, op) THEN Fail(e)
        ELSE [EmitElse(EmitJump(Emit(e, op_ab(shape.code, IF when THEN 1 ELSE 0,
                                              Arg(f, in[1]), Arg(f, in[2]))),
                                "jmp", 0, w.to), w)
                 EXCEPT !.at = test]

LdvOf(v) == CASE v.k = "true" -> 2 [] v.k = "false" -> 1 [] v.k = "null" -> 0 [] OTHER -> v.i

with_shape(e, f, i) ==
    LET op == f.ops[i]
        shapes == {shape \in SHAPES : match_operands(op, shape)}
        shape == CHOOSE s \in shapes : TRUE
        in == IF shape.kind = "ab_swap" THEN Reverse(op.in) ELSE op.in
        r == CASE shape.kind = "ab_no_r" -> 0
               [] Len(in) = 3 -> RegOf(f, in[3])
               [] OTHER -> op.r
        b == IF Len(in) = 1 THEN NoOperand.i - 1 ELSE Arg(f, in[2])
        used == Uses(e, r)
    IN  IF shapes = {} THEN Fail(e)
        ELSE IF shape.kind \in {"jump", "j_swap"} THEN WithCompare(e, f, i, shape)
        ELSE IF r = Register \/ ~ArgsOk(f, op) THEN Fail(e)
        ELSE IF shape.kind = "c" THEN Emit(used, op_c(shape.code, r, LdvOf(in[1])))
        ELSE Emit(used, op_ab(shape.code, r, Arg(f, in[1]), b))

(* Params, or selects, that follow each other move all at once. *)
Gather(e, f, i) ==
    LET op == f.ops[i]
        next == NextOp(f, i, op.op)
        from == IF op.op = "param" THEN op.in[1].i
                ELSE f.ops[op.in[1].i].s + op.in[2].i
        moved == [move(e, op.r, from) EXCEPT !.at = i]
    IN  IF op.r = Register THEN Fail(e)
        ELSE IF op.op = "select" /\ f.ops[op.in[1].i].s = Register THEN Fail(e)
        ELSE IF next = Invalid THEN moved ELSE Gather(moved, f, next)

with_moves(e, f, i) ==
    LET op == f.ops[i]
    IN  IF op.op # "mov" THEN move_emit(Gather(e, f, i))
        ELSE IF op.r = Register \/ ~ArgsOk(f, op) THEN Fail(e)
        ELSE move_emit(move(e, op.r, RegOf(f, op.in[1])))

(* Ops that take and give values at their stack top s.  The values go into *)
(* the registers from s on, the instruction has them up to a, and gives    *)
(* results up to b.                                                        *)
with_stacked(e, f, i) ==
    LET op     == f.ops[i]
        first  == IF op.op \in {"unpack", "extend"} THEN 2 ELSE 1
        values == {j \in first..Len(op.in) : f.ops[op.in[j].i].unpack # All}
        one    == op.unpack = 1 /\ op.op \notin {"jump_return", "extend"}
        callr  == op.op = "call" /\ one /\ op.r # op.s
        direct == op.op \in {"vararg", "unpack"}
        Place(j, x) == move(x, op.s + j - first, RegOf(f, op.in[j]))
        placed == move_emit(FoldSet(Place, e, values))
        a == CASE op.op = "vararg" -> 0
               [] op.op = "unpack" -> RegOf(f, op.in[1])
               [] op.in # <<>> /\ f.ops[Last(op.in).i].unpack = All -> StackMark
               [] OTHER -> op.s + Len(op.in)
        b == CASE op.op = "jump_return" -> 0
               [] op.op = "extend" -> RegOf(f, op.in[1])
               [] callr -> op.r
               [] one -> op.r + 1
               [] op.unpack = All -> StackMark
               [] OTHER -> op.s + op.unpack
        code == CASE callr -> "callr"
                  [] op.op = "jump_return" -> "return"
                  [] OTHER -> op.op
        used == CASE one -> Uses(placed, op.r)
                  [] op.op \in {"jump_return", "extend"} \/ op.unpack = All -> placed
                  [] OTHER -> Uses(placed, b)
        done == Emit(used, op_ab(code, IF one /\ direct THEN op.r ELSE op.s, a, b))
    IN  IF op.s = Register \/ (one /\ op.r = Register) THEN Fail(e)
        ELSE IF \E j \in values \cup 1..first - 1 : ~HasReg(f, op.in[j]) THEN Fail(e)
        ELSE IF one /\ ~callr /\ ~direct THEN move_emit(move(done, op.r, op.s))
        ELSE done

(* The ops of a loop header: the block, the jump of the loop, the block    *)
(* of its body and the op that gives the index or the items.               *)
HeaderOf(f, i, jump, items) ==
    LET block == NextOp(f, i, "block")
        at    == NextOp(f, block, jump)
        body  == NextOp(f, at, "block")
    IN  [block |-> block, jump |-> at, body |-> body, items |-> NextOp(f, body, items)]

(* The instruction of the loop, with the jump out of it. *)
WithHeader(e, f, h, loop, last) ==
    [Label(EmitJump(Emit(Uses(e, last), loop), "jmp", 0, f.ops[h.jump].in[3].i), h.body)
        EXCEPT !.at = h.items]

with_for_each(e, f, i) ==
    LET op == f.ops[i]
        h  == HeaderOf(f, i, "jump_for_each", "for_each_items")
        x  == f.ops[h.items]
        r  == IF x.unpack = 1 THEN x.r ELSE x.s
        generate == op_ab("generate", op.r, RegOf(f, op.in[1]), 0)
    IN  IF h.items = Invalid \/ op.r = Register \/ ~HasReg(f, op.in[1]) THEN Fail(e)
        ELSE IF r = Register THEN Fail(e)
        ELSE WithHeader(Label(Emit(Uses(e, op.r + 1), generate), h.block), f, h,
                        op_ab("for_each", r, op.r, r + x.unpack),
                        IF x.unpack = 1 THEN r ELSE r + x.unpack)

with_for_step(e, f, i) ==
    LET op == f.ops[i]
        h  == HeaderOf(f, i, "jump_for_step", "for_step_index")
        x  == f.ops[h.items]
        Place(a, j) == move(a, op.r + j - 1, RegOf(f, op.in[j]))
        placed == move_emit(FoldLeft(Place, e, <<1, 2, 3>>))
    IN  IF h.items = Invalid \/ op.r = Register \/ ~ArgsOk(f, op) THEN Fail(e)
        ELSE WithHeader(Label(placed, h.block), f, h, op_ab("for_step", x.r, op.r, 0), x.r)

WithFunction(e, f, i) ==
    LET op == f.ops[i]
        Env(j) == op_ab(IF op.in[j].k = "op" THEN "f_varenv" ELSE "f_outenv",
                        op.r, j - 3, Arg(f, op.in[j]))
        method == IF op.in[2].k = "none" THEN <<>>
                  ELSE <<op_ab("f_method", op.r, RegOf(f, op.in[2]), 0)>>
    IN  IF op.r = Register \/ ~ArgsOk(f, op) THEN Fail(e)
        ELSE [Uses(e, op.r) EXCEPT
                !.code = @ \o <<op_c("function", op.r, op.in[1].i)>> \o method
                           \o [j \in 1..Len(op.in) - 2 |-> Env(j + 2)]]

WithTest(e, f, i) ==
    LET op == f.ops[i]
        w == Branches(f, i)
    IN  IF ~HasReg(f, op.in[1]) THEN Fail(e)
        ELSE EmitElse(EmitJump(e, IF w.swapped THEN "jf" ELSE "jt", RegOf(f, op.in[1]), w.to), w)

(* Op i and those emitted with it; at is the last of them. *)
EmitOp(e, f, i) ==
    LET op == f.ops[i]
    IN  CASE op.op \in {"phi", "ref", "nop"} -> e
          [] op.op \in Shaped -> with_shape(e, f, i)
          [] op.op \in {"param", "mov", "select"} -> with_moves(e, f, i)
          [] op.op \in {"call", "ycall", "yield", "vararg", "unpack", "jump_return",
                        "extend"} -> with_stacked(e, f, i)
          [] op.op = "jump_for_egen" -> with_for_each(e, f, i)
          [] op.op = "jump_for_sgen" -> with_for_step(e, f, i)
          [] op.op = "new_function" -> WithFunction(e, f, i)
          [] op.op = "new_object" ->
                 IF op.r = Register \/ op.s = Register \/ ~ArgsOk(f, op) THEN Fail(e)
                 ELSE Emit(e, op_ab("new_object", op.r, RegOf(f, op.in[1]), op.s))
          [] op.op = "super" ->
                 IF op.r = Register THEN Fail(e) ELSE Emit(e, op_ab("super", op.r, 0, 0))
          [] op.op = "block" -> Label(e, i)
          [] op.op = "jump" ->
                 IF op.in[1].i = NextOp(f, i, "block") THEN e
                 ELSE EmitJump(e, "jmp", 0, op.in[1].i)
          [] op.op = "jump_test" -> WithTest(e, f, i)
          [] OTHER -> Fail(e)

assemble(e, f, i) ==
    IF i > Len(f.ops) \/ e.error THEN e ELSE AssembleNext(EmitOp([e EXCEPT !.at = i], f, i), f)

AssembleNext(e, f) == assemble(e, f, e.at + 1)

(* Jumps are relative to the instruction behind them. *)
fixup_jumps(e) ==
    LET Known(x) == x.to \in DOMAIN e.labels
        Fix(c, x) == IF Known(x) THEN [c EXCEPT ![x.from].j = e.labels[x.to] - x.from] ELSE c
    IN  [e EXCEPT !.code = FoldLeft(Fix, @, e.fixups),
                  !.error = @ \/ \E x \in ToSet(e.fixups) : ~Known(x)]

(* The code of a function of param_count parameters. *)
CodeOf(e, f) ==
    LET params == f.fn.params - (IF f.fn.varargs THEN 1 ELSE 0)
    IN  [code |-> e.code, error |-> e.error, param_count |-> params,
         vararg |-> f.fn.varargs, generator |-> f.fn.generator,
         outenv_count |-> Len(f.fn.outenvs),
         constants |-> f.constants, selectors |-> f.selectors, functions |-> f.functions,
         stack_size |-> Max({e.max_r, params + 1}) + 1]

emit(f) ==
    LET start == [code |-> <<>>, fixups |-> <<>>, labels |-> << >>, moves |-> <<>>,
                  max_r |-> 0, error |-> f.error, at |-> 0]
    IN  CodeOf(fixup_jumps(assemble(start, f, 1)), f)

=============================================================================
