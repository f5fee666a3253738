------------------------------ MODULE IrFoldk ------------------------------
(***************************************************************************)
(* Constant operands (compiler/ir_foldk.cpp): constants that the bytecode  *)
(* has a place for become operands of the op that uses them, and every     *)
(* constant, selector and function an op refers to gets its place in the   *)
(* lists of the function.  From here on an operand of the op holds that    *)
(* place.                                                                  *)
(***************************************************************************)
EXTENDS IrFold

CONSTANT MaxInline      \* 0xFF, the last constant that can be inlined

(* insert_number, insert_string, insert_selector and insert_function: list *)
(* holds the entry, and the operand is its place there.                    *)
With(list, entry) == IF entry \in ToSet(list) THEN list ELSE Append(list, entry)
PlaceOf(list, entry) == CHOOSE i \in DOMAIN list : list[i] = entry

Insert(f, i, j, constant) ==
    LET list == With(f.constants, constant)
    IN  [f EXCEPT !.constants = list,
                  !.ops[i].in[j] = Operand(constant.k, PlaceOf(list, constant))]

InsertSelector(f, i, j) ==
    LET list == With(f.selectors, f.ops[i].in[j].i)
    IN  [f EXCEPT !.selectors = list,
                  !.ops[i].in[j] = Operand("selector", PlaceOf(list, f.ops[i].in[j].i))]

InsertFunction(f, i) ==
    LET list == With(f.functions, f.ops[i].in[1].i)
    IN  [f EXCEPT !.functions = list,
                  !.ops[i].in[1] = Operand("ifuncref", PlaceOf(list, f.ops[i].in[1].i))]

Swap(f, i) == [f EXCEPT !.ops[i].in = <<@[2], @[1]>>]

(* The jump behind op i tests it. *)
IsTested(f, i) ==
    /\ i < Len(f.ops)
    /\ f.ops[i + 1].op = "jump_test"
    /\ f.ops[i + 1].in[1] = OpAt(i)


(* A constant index that fits into a byte. *)
b_immediate(v) == IF v.i \in 0..255 THEN Operand("immediate", v.i) ELSE v

(* One op of inline_operands. *)
InlineAt(f, i) ==
    LET op == f.ops[i]
        u == ir_fold_operand(f.ops, op.in[1])
        v == ir_fold_operand(f.ops, op.in[2])
        kinds == IF op.op \in {"eq", "ne"} THEN {"number", "string"} ELSE {"number"}
    IN  CASE op.op \in {"add", "mul"} ->
                 IF v.k = "number" THEN Insert(f, i, 2, v)
                 ELSE IF u.k = "number" THEN Insert(Swap(f, i), i, 2, u)
                 ELSE f
          [] op.op = "sub" ->
                 IF v.k = "number"
                 THEN Insert([f EXCEPT !.ops[i].op = "add"], i, 2, [v EXCEPT !.i = -v.i])
                 ELSE IF u.k = "number" THEN Insert(f, i, 1, u)
                 ELSE f
          [] op.op = "concat" ->
                 IF v.k = "string" THEN Insert(f, i, 2, v)
                 ELSE IF u.k = "string" THEN Insert(f, i, 1, u)
                 ELSE f
          [] op.op \in {"eq", "ne", "lt", "le"} /\ IsTested(f, i) ->
                 IF v.k \in kinds THEN Insert(f, i, 2, v)
                 ELSE IF u.k \notin kinds THEN f
                 ELSE IF op.op \in {"eq", "ne"} THEN Swap(Insert(f, i, 1, u), i)
                 ELSE Insert(f, i, 1, u)
          [] op.op \in {"get_key", "set_key"} -> InsertSelector(f, i, 2)
          [] op.op \in {"get_index", "set_index"} ->
                 IF v.k = "number" THEN [f EXCEPT !.ops[i].in[2] = b_immediate(v)] ELSE f
          [] OTHER -> f

(* Once a constant could not be inlined, no further op is looked at. *)
RECURSIVE InlineFrom(_, _)
InlineFrom(f, i) ==
    IF i > Len(f.ops) \/ Len(f.constants) > MaxInline THEN f
    ELSE InlineFrom(InlineAt(f, i), i + 1)

inline_operands(f) == InlineFrom(f, 1)

AllocAt(f, i) ==
    LET op == f.ops[i]
    IN  CASE op.op = "const" /\ op.in[1].k \in {"number", "string"} ->
                 Insert(f, i, 1, op.in[1])
          [] op.op = "get_global" -> InsertSelector(f, i, 1)
          [] op.op = "new_function" -> InsertFunction(f, i)
          [] OTHER -> f

RECURSIVE AllocFrom(_, _)
AllocFrom(f, i) ==
    IF i > Len(f.ops) THEN f ELSE AllocFrom(AllocAt(f, i), i + 1)

alloc_constants(f) == AllocFrom(f, 1)

foldk(f) ==
    alloc_constants(inline_operands(
        [constants |-> <<>>, selectors |-> <<>>, functions |-> <<>>] @@ f))

=============================================================================
