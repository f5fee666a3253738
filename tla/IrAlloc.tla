------------------------------ MODULE IrAlloc ------------------------------
(***************************************************************************)
(* Register allocation (compiler/ir_alloc.cpp and ir_regmap.cpp).  The     *)
(* values of a function are allocated in program order, and never again;   *)
(* a value that dies as an operand of an op that wants it in a certain     *)
(* register is pinned, and waits until that op is anchored: until every    *)
(* value that lives across it has a register.                              *)
(*                                                                         *)
(* regs is the map of registers: the ops at which each of them is taken.   *)
(* values are the values of the locals: first definition, last use, the    *)
(* ops at which it lives, its definitions, its register and whether it is  *)
(* pinned.  waiting are the values that stacked ops wait for, each with    *)
(* the op, and unpinned the values to allocate out of order.               *)
(***************************************************************************)
EXTENDS Ir

RECURSIVE AnchorUnpack(_, _), Sweep(_, _), HiddenAt(_, _, _, _)

-----------------------------------------------------------------------------
(* The register map. *)

Span(lower, upper) == lower .. upper - 1

check(regs, r, span) == r < Len(regs) => regs[r + 1] \cap span = {}
lowest(regs, span) == Min({r \in 0..Len(regs) : check(regs, r, span)})

(* The register behind the last one that is taken at op i. *)
RegTop(regs, i) == Max({0} \cup {r \in 1..Len(regs) : i \in regs[r]})

Take(regs, r, span) ==
    LET grown == regs \o [j \in 1..Max({0, r + 1 - Len(regs)}) |-> {}]
    IN  [grown EXCEPT ![r + 1] = @ \cup span]

-----------------------------------------------------------------------------
(* Kinds of op. *)

is_stacked(op) ==
    \/ op.op \in {"new_object", "call", "ycall", "yield", "extend", "jump_return"} \cup ForGen
    \/ op.op \in {"vararg", "unpack", "for_each_items"} /\ op.unpack # 1

is_pinning(op) ==
    \/ op.op = "mov"
    \/ /\ is_stacked(op)
       /\ op.op \notin {"new_object", "vararg", "unpack", "for_each_items"}

has_result(op) ==
    IF op.op \in {"call", "ycall", "yield", "vararg", "unpack"} THEN op.unpack = 1
    ELSE op.op \notin {"eq", "ne", "lt", "le", "set_key", "set_index", "set_env",
                       "append", "extend", "block"} \cup (Jumps \ ForGen)

-----------------------------------------------------------------------------
(* Before allocation. *)

(* An op kept although its result is not used has no result, or lives just *)
(* where it is.                                                            *)
zero_results(f) ==
    LET Zero(op) == IF is_stacked(op) THEN [op EXCEPT !.local = Invalid, !.unpack = 0]
                    ELSE [op EXCEPT !.live = @ + 1]
        Unused(i) == /\ f.ops[i].op \notin {"phi", "ref"}
                     /\ f.ops[i].live = i
                     /\ has_result(f.ops[i])
    IN  [f EXCEPT !.ops = Computed([i \in DOMAIN @ |->
                                        IF Unused(i) THEN Zero(@[i]) ELSE @[i]])]

DefsOf(f, local) ==
    {i \in DOMAIN f.ops : f.ops[i].local = local /\ f.ops[i].live # Invalid
                          /\ f.ops[i].op \notin {"phi", "ref"}}

(* Where a local lives: from a definition, or from the head of a block.    *)
(* Mutant: the local takes no room where a phi op holds it. *)
RangesOf_ops(f, local) == {<<i, f.ops[i].live>> : i \in DefsOf(f, local)}

RangesOf(f, local) ==
    LET Held(phi) == f.ops[phi].local = local /\ f.ops[phi].live # Invalid
        In(b) == {<<f.blocks[b].lower, f.ops[phi].live>> :
                     phi \in {p \in ToSet(f.blocks[b].phis) : Held(p)}}
    IN  {<<i, f.ops[i].live>> : i \in DefsOf(f, local)}
        \cup UNION {In(b) : b \in DOMAIN f.blocks}

Value(f, local) ==
    LET ranges == RangesOf(f, local)
        lowers == {x[1] : x \in ranges}
    IN  IF ranges = {}
        THEN [first |-> Invalid, live |-> Invalid, span |-> {}, defs |-> {},
              r |-> 0, mark |-> FALSE]
        ELSE [first |-> Min(lowers),
              live |-> Max({x[2] : x \in {y \in ranges : y[1] = Max(lowers)}}),
              span |-> UNION {Span(x[1], x[2]) : x \in ranges},
              defs |-> DefsOf(f, local), r |-> Register, mark |-> FALSE]

(* ir_regmap asserts that the ranges of a local do not overlap. *)
OverlapsItself(f, local) ==
    \E x, y \in RangesOf(f, local) :
        x # y /\ x[1] <= y[1] /\ y[1] < x[2] /\ y[1] < y[2]

build_values(f) ==
    [values |-> Computed([l \in DOMAIN f.fn.locals |-> Value(f, l)]),
     waiting |-> {}, unpinned |-> {}, regs |-> <<>>] @@ f

BlockOf(f, i) == CHOOSE b \in DOMAIN f.blocks : i \in OpsOf(f, b)

(* The op that stands for the value of op i. *)
FirstOf(g, i) ==
    IF g.ops[i].local = Invalid THEN i ELSE g.values[g.ops[i].local].first

(* The values that live across op i. *)
Across(g, i) ==
    LET b == BlockOf(g, i)
        body == {j \in g.blocks[b].lower + 1 .. i - 1 : g.ops[j].op \notin {"phi", "ref"}}
    IN  {FirstOf(g, j) : j \in {j \in body \cup ToSet(g.blocks[b].phis) : g.ops[j].live > i}}

(* Operand j of op i is a value that dies there. *)
Dies(g, i, j) ==
    LET v == g.ops[i].in[j]
        local == g.ops[v.i].local
    IN  /\ v.k = "op"
        /\ (IF local = Invalid THEN g.ops[v.i].live ELSE g.values[local].live) = i

IsPinned(g, i) ==
    IF g.ops[i].local = Invalid THEN g.ops[i].mark ELSE g.values[g.ops[i].local].mark

Pin(g, i, pinned) ==
    IF g.ops[i].local = Invalid THEN [g EXCEPT !.ops[i].mark = pinned]
    ELSE [g EXCEPT !.values[g.ops[i].local].mark = pinned]

PinOperands(g, i) ==
    LET first == IF g.ops[i].op = "extend" THEN 2 ELSE 1
        PinOne(a, j) == IF j >= first /\ Dies(a, i, j) THEN Pin(a, a.ops[i].in[j].i, TRUE)
                        ELSE a
    IN  FoldLeft(PinOne, g, [j \in DOMAIN g.ops[i].in |-> j])

PinAt(g, i) ==
    LET pins == IF is_pinning(g.ops[i]) THEN PinOperands(g, i) ELSE g
    IN  IF g.ops[i].live = Invalid THEN g
        ELSE IF g.ops[i].op \in ForGen THEN Pin(pins, i, TRUE)
        ELSE pins

StackedOps(g) == {i \in DOMAIN g.ops : is_stacked(g.ops[i]) /\ g.ops[i].live # Invalid}

RECURSIVE PinFrom(_, _)
PinFrom(g, i) == IF i > Len(g.ops) THEN g ELSE PinFrom(PinAt(g, i), i + 1)

mark_pinning(g) ==
    LET clear == [g EXCEPT !.ops = Computed([i \in DOMAIN @ |->
                     [@[i] EXCEPT !.mark = FALSE, !.s = Register, !.r = Register]])]
        waiting == UNION {{<<v, i>> : v \in Across(g, i)} : i \in StackedOps(g)}
    IN  PinFrom([clear EXCEPT !.waiting = waiting], 1)

-----------------------------------------------------------------------------
(* Allocation. *)

Unpin(g, i, prefer) ==
    [Pin(g, i, FALSE) EXCEPT !.unpinned = @ \cup {[at |-> FirstOf(g, i), prefer |-> prefer]}]

(* The operands that die at op i wait no more; prefer[j] is the register   *)
(* the op wants operand j in.                                              *)
unpin_operands(g, i, prefer) ==
    LET UnpinOne(a, j) ==
            LET v == a.ops[i].in[j]
            IN  IF Dies(a, i, j) /\ IsPinned(a, v.i) THEN Unpin(a, v.i, prefer[j]) ELSE a
    IN  FoldLeft(UnpinOne, g, [j \in DOMAIN g.ops[i].in |-> j])

unpin_stacked(g, i) ==
    LET op == g.ops[i]
        free == unpin_operands(g, i, [j \in DOMAIN op.in |-> op.s + j - 1])
    IN  IF op.op \in ForGen THEN Unpin(free, i, op.s) ELSE free

unpin_move(g, i) ==
    IF g.ops[i].op = "mov" THEN unpin_operands(g, i, <<g.ops[i].r>>) ELSE g

(* The stack top of the ops that give op i all their results. *)
AnchorUnpack(g, i) ==
    LET op == g.ops[i]
        v == Last(op.in)
        top == op.s + Len(op.in) - (IF op.op = "extend" THEN 2 ELSE 1)
    IN  IF op.in = <<>> \/ v.k # "op" THEN g
        ELSE IF g.ops[v.i].unpack # All THEN g
        ELSE AnchorUnpack(unpin_stacked([g EXCEPT !.ops[v.i].s = top], v.i), v.i)

anchor_stacked(g, i) ==
    LET op == g.ops[i]
        top == RegTop(g.regs, i)
        s == IF has_result(op) /\ op.r # Register /\ top = op.r + 1 THEN op.r ELSE top
    IN  IF op.unpack = All THEN g
        ELSE AnchorUnpack(unpin_stacked([g EXCEPT !.ops[i].s = s], i), i)

(* The value of op i has its register: ops that waited for it last are     *)
(* anchored.                                                               *)
across_stacked(g, i) ==
    LET was  == {w \in g.waiting : w[1] = i}
        left == g.waiting \ was
        due  == {w[2] : w \in was} \ {w[2] : w \in left}
    IN  FoldSet(LAMBDA s, a : anchor_stacked(a, s), [g EXCEPT !.waiting = left], due)

(* The first place from r on with n registers in a row. *)
HiddenAt(regs, r, n, span) ==
    LET taken == {j \in 0..n - 1 : ~check(regs, r + j, span)}
    IN  IF taken = {} THEN r ELSE HiddenAt(regs, r + Min(taken) + 1, n, span)

(* val is the register of the value that op i defines first. *)
allocate_register(g, i, prefer, span) ==
    LET op == g.ops[i]
        n  == IF op.op = "jump_for_sgen" THEN 3 ELSE 2
        h  == HiddenAt(g.regs, op.s, n, span)
        want == IF op.op = "param" THEN op.in[1].i ELSE prefer
        r  == IF want = Register \/ ~check(g.regs, want, span) THEN lowest(g.regs, span)
              ELSE want
    IN  IF op.op \in ForGen
        THEN [g EXCEPT !.regs = FoldLeft(LAMBDA a, j : Take(a, h + j - 1, span), @,
                                         [j \in 1..n |-> j]),
                       !.val = h]
        ELSE [g EXCEPT !.regs = Take(@, r, span), !.val = r]

AllocateOp(g, i, prefer) ==
    LET op == g.ops[i]
        a == allocate_register(g, i, prefer, Span(i, op.live))
        placed == IF has_result(op) THEN [a EXCEPT !.ops[i].r = a.val] ELSE g
    IN  IF op.mark THEN g ELSE unpin_move(across_stacked(placed, i), i)

AllocateLocal(g, i, prefer) ==
    LET local == g.ops[i].local
        value == g.values[local]
        a == allocate_register(g, i, prefer, value.span)
        placed == across_stacked([a EXCEPT !.values[local].r = a.val], i)
        Def(d, j) == unpin_move([d EXCEPT !.ops[j].r = a.val], j)
    IN  IF value.mark \/ value.first # i THEN g
        ELSE FoldSet(LAMBDA j, d : Def(d, j), placed, value.defs)

allocate(g, i, prefer) ==
    IF g.ops[i].op \in {"ref", "phi", "nop"} THEN g
    ELSE IF g.ops[i].local = Invalid THEN AllocateOp(g, i, prefer)
    ELSE AllocateLocal(g, i, prefer)

(* Values in program order, those that have come unpinned among them. *)
Sweep(g, i) ==
    LET u == CHOOSE u \in g.unpinned : \A w \in g.unpinned : u.at <= w.at
        popped == [g EXCEPT !.unpinned = @ \ {u}]
    IN  IF g.unpinned # {} /\ (u.at <= i \/ i > Len(g.ops))
        THEN Sweep(allocate(popped, u.at, u.prefer), IF u.at = i THEN i + 1 ELSE i)
        ELSE IF i <= Len(g.ops) THEN Sweep(allocate(g, i, Register), i + 1)
        ELSE g

assign_locals(g) ==
    LET Placed(op) == IF op.local = Invalid THEN op
                      ELSE [op EXCEPT !.r = g.values[op.local].r]
    IN  [g EXCEPT !.ops = [i \in DOMAIN @ |-> Placed(@[i])]]

alloc(f) ==
    LET marked == mark_pinning(build_values(zero_results(f)))
        free == StackedOps(marked) \ {w[2] : w \in marked.waiting}
        placed == Sweep(FoldSet(LAMBDA i, a : anchor_stacked(a, i),
                                [val |-> 0] @@ marked, free), 1)
    IN  [assign_locals(placed) EXCEPT
            !.error = @ \/ \E l \in DOMAIN f.fn.locals : OverlapsItself(marked, l)]

=============================================================================
