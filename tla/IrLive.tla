------------------------------- MODULE IrLive -------------------------------
(***************************************************************************)
(* Live ranges (compiler/ir_live.cpp): the last use of each op, and how    *)
(* often it is used.  An op that nothing uses and that does nothing is     *)
(* erased.                                                                 *)
(***************************************************************************)
EXTENDS Ir

(* Ops that are kept although nothing uses them. *)
Kept == Jumps \cup {"block", "for_each_items", "for_step_index", "set_key",
                    "set_index", "set_env", "append", "call", "ycall", "yield",
                    "extend"}

Body == 1       \* LIVE_BODY
Head_ == 2      \* LIVE_HEAD

Marks(mark) == {m \in {Body, Head_} : (mark \div m) % 2 = 1}
AddMark(mark, m) == IF m \in Marks(mark) THEN mark ELSE mark + m

RECURSIVE drain(_)

reset(f) ==
    [f EXCEPT !.ops = [i \in DOMAIN @ |->
                          [@[i] EXCEPT !.mark = FALSE, !.s = 0, !.live = Invalid]],
              !.blocks = [b \in DOMAIN @ |-> [@[b] EXCEPT !.mark = Body + Head_]]]

(* Op d is used at op i; the count of uses sticks at 255. *)
mark_use(f, d, i) ==
    [f EXCEPT !.ops[d].s = IF @ = Sticky THEN Sticky ELSE @ + 1,
              !.ops[d].live = Max({@, i}),
              !.ops[d].mark = @ \/ f.ops[d].s = 0]

(* The operands of op i that are ops, with the place where each is used:   *)
(* the first operand of an extend is live across it.                       *)
UsesOf(f, i) ==
    LET op == f.ops[i]
        At(j) == IF op.op = "extend" /\ j = 1 THEN i + 1 ELSE i
    IN  [j \in DOMAIN op.in |-> [v |-> op.in[j], at |-> At(j)]]

LiveOp(f, i) ==
    LET kept == IF f.ops[i].op \in Kept /\ f.ops[i].s = 0
                THEN [f EXCEPT !.ops[i].mark = TRUE, !.ops[i].s = Sticky, !.ops[i].live = i]
                ELSE f
        Use(a, u) == IF u.v.k = "op" THEN mark_use(a, u.v.i, u.at) ELSE a
    IN  IF f.ops[i].op \in {"phi", "ref"} THEN f
        ELSE IF ~kept.ops[i].mark THEN kept
        ELSE [FoldLeft(Use, kept, UsesOf(f, i)) EXCEPT !.ops[i].mark = FALSE]

live_body(f, b) == FoldLeft(LiveOp, f, Reverse(InOrder(f, b)))

(* The phi ops of a block that hold the local; the first is taken. *)
match_phi(f, block, local) ==
    SelectSeq(block.phis, LAMBDA phi : f.ops[phi].local = local)

(* The phi op is used, so that what comes in from its n-th predecessor is  *)
(* live to the end of that.  A block that has work to do is pushed.  That  *)
(* there is such a phi in a predecessor is asserted.                       *)
LiveFrom(f, b, phi, n) ==
    LET p == f.blocks[b].preceding[n]
        block == f.blocks[p]
        d == f.ops[phi].in[IF f.ops[phi].op = "ref" THEN 1 ELSE n].i
        inBody == f.ops[d].op \notin {"phi", "ref"} /\ d \in OpsOf(f, p)
        phis == match_phi(f, block, f.ops[phi].local)
        def == IF inBody THEN d ELSE phis[1]
        used == mark_use(f, def, block.upper)
    IN  IF ~inBody /\ phis = <<>> THEN [f EXCEPT !.error = TRUE]
        ELSE IF f.ops[def].s # 0 THEN used
        ELSE [used EXCEPT !.stack = IF block.mark = 0 THEN Append(@, p) ELSE @,
                          !.blocks[p].mark = AddMark(@, IF inBody THEN Body ELSE Head_)]

LivePhi(f, b, phi) ==
    LET preceding == f.blocks[b].preceding
        From(a, n) == LiveFrom(a, b, phi, n)
    IN  IF ~f.ops[phi].mark THEN f
        ELSE [FoldLeft(From, f, [n \in DOMAIN preceding |-> n])
                 EXCEPT !.ops[phi].mark = FALSE]

live_head(f, b) == FoldLeft(LAMBDA a, phi : LivePhi(a, b, phi), f, f.blocks[b].phis)

(* Every block once, the last first. *)
FirstPass(f) ==
    LET Visit(a, b) == IF a.blocks[b].kind = "none" THEN a
                       ELSE live_head(live_body([a EXCEPT !.blocks[b].mark = 0], b), b)
    IN  FoldLeft(Visit, f, Reverse([b \in DOMAIN f.blocks |-> b]))

(* Then those that the back edge of a loop has made more of live. *)
drain(f) ==
    LET b == Last(f.stack)
        popped == [f EXCEPT !.stack = Front(@), !.blocks[b].mark = 0]
    IN  IF f.stack = <<>> THEN f
        ELSE drain(IF Body \in Marks(f.blocks[b].mark)
                   THEN live_head(live_body(popped, b), b)
                   ELSE live_head(popped, b))

live_blocks(f) == drain(FirstPass([stack |-> <<>>] @@ f))

erase_dead(f) ==
    [f EXCEPT !.ops = [i \in DOMAIN @ |->
                          IF @[i].live # Invalid THEN @[i]
                          ELSE [@[i] EXCEPT !.op = "nop", !.in = <<>>, !.local = Invalid]]]

live(f) == erase_dead(live_blocks(reset(f)))

=============================================================================
