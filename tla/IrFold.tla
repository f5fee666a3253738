------------------------------- MODULE IrFold -------------------------------
(***************************************************************************)
(* Folding of phi ops and of constants, and the blocks that folding leaves *)
(* without a way to them (compiler/ir_fold.cpp).  Numbers are integers     *)
(* here, so division and the operators on bits are left alone.             *)
(***************************************************************************)
EXTENDS Ir

RECURSIVE LoopsBack(_, _, _, _), LookPast(_, _), PastNots(_, _), fold_constants(_, _)

-----------------------------------------------------------------------------
(* Phi ops. *)

(* phi_loop_search: every way back from v ends at phi; path is the ops     *)
(* marked on the way.                                                      *)
LoopsBack(ops, phi, v, path) ==
    /\ ops[v.i].op \in {"phi", "ref"}
    /\ v.i \notin path =>
           \A w \in ToSet(ops[v.i].in) :
               w.i = phi \/ LoopsBack(ops, phi, w, path \cup {v.i})

(* Operand j of the phi op. *)
FoldLoopOperand(ops, phi, j) ==
    IF LoopsBack(ops, phi, ops[phi].in[j], {})
    THEN [ops EXCEPT ![phi].in[j] = OpAt(phi)]
    ELSE ops

PhisOf(f, kinds) ==
    FlattenSeq([b \in DOMAIN f.blocks |->
                   IF f.blocks[b].kind \in kinds THEN f.blocks[b].phis ELSE <<>>])

fold_phi_loop(f) ==
    LET FoldPhi(ops, phi) ==
            IF ops[phi].op = "ref" THEN ops
            ELSE FoldLeft(LAMBDA a, j : FoldLoopOperand(a, phi, j), ops,
                          [j \in DOMAIN ops[phi].in |-> j])
    IN  [f EXCEPT !.ops = FoldLeft(FoldPhi, @, PhisOf(f, {"loop"}))]

(* A phi op all of whose operands are one op, or itself, becomes a ref.    *)
FoldStep(ops, phi) ==
    LET Past(v) == IF ops[v.i].op = "ref" THEN ops[v.i].in[1] ELSE v
        refs == FoldLeft(LAMBDA a, v : IF Past(v).i \in {phi, a.ref.i} THEN a
                                       ELSE [ref |-> Past(v), count |-> a.count + 1],
                         [ref |-> NoOperand, count |-> 0], ops[phi].in)
    IN  IF ops[phi].in = <<>> \/ refs.count # 1 THEN ops
        ELSE [ops EXCEPT ![phi].op = "ref", ![phi].in = <<refs.ref>>]

fold_phi_step(f) ==
    [f EXCEPT !.ops = FoldLeft(FoldStep, @, PhisOf(f, {"basic", "loop", "unsealed"}))]

fold_phi(f) == fold_phi_step(fold_phi_loop(f))

-----------------------------------------------------------------------------
(* Constants. *)

LookPast(ops, i) ==
    IF ops[i].op \in {"mov", "ref"} THEN LookPast(ops, ops[i].in[1].i) ELSE i

(* ir_fold_operand: the constant v is known to be, or v. *)
ir_fold_operand(ops, v) ==
    LET o == IF v.k = "op" THEN ops[LookPast(ops, v.i)] ELSE IrOp("nop", <<>>)
    IN  IF o.op = "const" THEN o.in[1] ELSE v

test_constant(v) == ~(v.k \in {"null", "false"} \/ (v.k = "number" /\ v.i = 0))

Truth(t) == Operand(IF t THEN "true" ELSE "false", 0)

Const(op, v) == [op EXCEPT !.op = "const", !.in = <<v>>]

(* Constants are equal when they are of one kind, and then one number or   *)
(* string.                                                                 *)
SameConstant(u, v) == u.k = v.k /\ (u.k \in {"number", "string"} => u.i = v.i)

Arithmetic == {"mul", "intdiv", "mod", "add", "sub"}

Calculate(opcode, u, v) ==
    CASE opcode = "mul" -> u * v
      [] opcode = "add" -> u + v
      [] opcode = "sub" -> u - v
      [] opcode = "intdiv" -> u \div v
      [] opcode = "mod" -> u % v

(* fold_unarithmetic, fold_biarithmetic, fold_concat, fold_mov, fold_equal, *)
(* fold_compare and fold_not: op with its value if it is a constant.       *)
FoldOp(ops, op) ==
    LET in == [j \in DOMAIN op.in |-> ir_fold_operand(ops, op.in[j])]
        u == in[1]
        v == in[2]
        Kinds(kind) == \A j \in DOMAIN in : in[j].k = kind
    IN  CASE op.op \in {"neg", "pos"} /\ Kinds("number") ->
                 Const(op, Operand("number", IF op.op = "neg" THEN -u.i ELSE u.i))
          [] op.op \in Arithmetic /\ Kinds("number") ->
                 Const(op, Operand("number", Calculate(op.op, u.i, v.i)))
          [] op.op = "concat" /\ Kinds("string") ->
                 Const(op, Operand("string", Concat(u.i, v.i)))
          [] op.op = "mov" /\ IsConstant(u) -> Const(op, u)
          [] op.op \in {"eq", "ne"} /\ IsConstant(u) /\ IsConstant(v) ->
                 Const(op, Truth(SameConstant(u, v) = (op.op = "eq")))
          [] op.op \in {"lt", "le"} /\ (Kinds("number") \/ Kinds("string")) ->
                 Const(op, Truth(u.i < v.i \/ (op.op = "le" /\ u.i = v.i)))
          [] op.op = "not" /\ IsConstant(u) -> Const(op, Truth(~test_constant(u)))
          [] OTHER -> op

(* count_nots: the operand under the nots, and whether they are odd. *)
PastNots(ops, v) ==
    IF v.k = "op" /\ ops[v.i].op = "not"
    THEN LET n == PastNots(ops, ops[v.i].in[1]) IN [v |-> n.v, odd |-> ~n.odd]
    ELSE [v |-> v, odd |-> FALSE]

(* A test of a constant is a jump; nots are skipped by swapping the ways.  *)
fold_test(ops, op) ==
    LET u == ir_fold_operand(ops, op.in[1])
        nots == PastNots(ops, u)
        way == IF test_constant(u) THEN 2 ELSE 3
    IN  IF IsConstant(u) THEN [op EXCEPT !.op = "jump", !.in = <<op.in[way]>>]
        ELSE IF nots.v = u THEN op
        ELSE [op EXCEPT !.in = IF nots.odd THEN <<nots.v, op.in[3], op.in[2]>>
                               ELSE <<nots.v, op.in[2], op.in[3]>>]

FoldAt(ops, i) ==
    [ops EXCEPT ![i] = IF @.op = "jump_test" THEN fold_test(ops, @) ELSE FoldOp(ops, @)]

(* The blocks the jump at the end of block b goes to, as they are pushed.  *)
Ways(f, b) ==
    LET jump == f.ops[f.blocks[b].upper - 1]
        To(j) == BlockAt(f, jump.in[j].i)
    IN  CASE jump.op = "jump" -> <<To(1)>>
          [] jump.op \in Conditional -> <<To(2), To(3)>>
          [] jump.op \in ForGen -> <<To(Len(jump.in))>>
          [] OTHER -> <<>>

(* Folds the blocks that are reached from the stack. *)
fold_constants(f, stack) ==
    LET b == Last(stack)
        folded == [f EXCEPT !.blocks[b].reachable = TRUE,
                            !.ops = FoldLeft(FoldAt, @, InOrder(f, b))]
    IN  IF stack = <<>> THEN f
        ELSE IF f.blocks[b].reachable THEN fold_constants(f, Front(stack))
        ELSE fold_constants(folded, Front(stack) \o Ways(folded, b))

-----------------------------------------------------------------------------

Nop(op) == [op EXCEPT !.op = "nop", !.in = <<>>, !.local = Invalid]

remove_unreachable_blocks(f) ==
    LET dead == {b \in DOMAIN f.blocks : ~f.blocks[b].reachable}
        phis == UNION {ToSet(f.blocks[b].phis) : b \in dead}
        plain == {i \in UNION {OpsOf(f, b) : b \in dead} : f.ops[i].op \notin {"phi", "ref"}}
    IN  [f EXCEPT
            !.ops = [i \in DOMAIN @ |-> IF i \in phis \cup plain THEN Nop(@[i]) ELSE @[i]],
            !.blocks = [b \in DOMAIN @ |->
                           IF b \notin dead THEN @[b]
                           ELSE [@[b] EXCEPT !.kind = "none", !.preceding = <<>>,
                                             !.phis = <<>>]]]

(* The assertion of fold_phi_loop: what comes into a loop is known. *)
Joined(f) ==
    \A phi \in ToSet(PhisOf(f, {"loop"})) :
        f.ops[phi].op # "ref" => \A v \in ToSet(f.ops[phi].in) : v.k = "op"

fold(f) ==
    LET folded == fold_phi(f)
    IN  IF ~Joined(f) THEN [f EXCEPT !.error = TRUE]
        ELSE remove_unreachable_blocks(
                IF f.blocks = <<>> THEN folded ELSE fold_constants(folded, <<1>>))

=============================================================================
