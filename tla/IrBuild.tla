------------------------------ MODULE IrBuild ------------------------------
(***************************************************************************)
(* Construction of the IR from the resolved tree of a function             *)
(* (compiler/ir_build.cpp): SSA construction on the fly, with phi ops left *)
(* open in the header of a loop until its back edges are known.            *)
(*                                                                         *)
(* Each function of the code is an operator from the state b of the build  *)
(* to the state after it: ops and blocks, the IR so far; fn, the function, *)
(* whose locals grow by temporaries; outenvs, those of every function of   *)
(* the script; o, the evaluation stack (_o); block, the open block         *)
(* (_block_index); labels, the goto lists, and pending, the jumps to       *)
(* whatever block comes next (_goto_block); loops (_loop_gotos); defs      *)
(* (_defs); error, an internal error reported; and val, what the last      *)
(* function returned.                                                      *)
(***************************************************************************)
EXTENDS Ir

NewBuild(fns, f) ==
    [fn |-> fns[f], outenvs |-> [i \in DOMAIN fns |-> fns[i].outenvs],
     ops |-> <<>>, blocks |-> <<>>, o |-> <<>>, block |-> Invalid,
     labels |-> <<>>, pending |-> <<>>, loops |-> <<>>, defs |-> <<>>,
     error |-> FALSE, val |-> NoOperand]

Return_(b, v) == [b EXCEPT !.val = v]
None(b) == Return_(b, NoOperand)

Push(b) == [b EXCEPT !.o = Append(@, b.val)]
PushOperand(b, kind, index) == [b EXCEPT !.o = Append(@, Operand(kind, index))]
PushAll(b, operands) == [b EXCEPT !.o = @ \o operands]
Keep(b, n) == [b EXCEPT !.o = SubSeq(@, 1, n)]

(* goto_label variables: the n labels after LastLabel. *)
NewLabels(b, n) == [b EXCEPT !.labels = @ \o [i \in 1..n |-> <<>>]]
LastLabel(b) == Len(b.labels)

temporary(b) == [b EXCEPT !.fn.locals =
                    Append(@, [kind |-> "temporary", env |-> Invalid, slot |-> 0])]
LastTemp(b) == Len(b.fn.locals)

Captured(b, local) == b.fn.locals[local].env # Invalid

RECURSIVE search_def(_, _, _), find_defs(_, _, _, _), emit(_, _, _), ToOps(_, _)

-----------------------------------------------------------------------------
(* Definitions and uses of locals. *)

(* The definitions that reach a block from its predecessors, with what a   *)
(* ref among them refers to instead of it.                                 *)
find_defs(b, preceding, local, found) ==
    LET p == preceding[Len(found) + 1]
        Meant(v, op) == IF op.op = "ref" THEN op.in[1] ELSE v
        FindNext(d) ==
            find_defs(d, preceding, local, Append(found, Meant(d.val, d.ops[d.val.i])))
    IN  IF Len(found) = Len(preceding) THEN Return_(b, found)
        ELSE FindNext(IF p = Invalid THEN None(b) ELSE search_def(b, p, local))

(* How often the definition changes along the list, not counting the phi   *)
(* itself; and the last one.                                               *)
CountRefs(found, phi) ==
    FoldLeft(LAMBDA a, v : IF v.i \in {phi, a.ref.i} THEN a
                           ELSE [ref |-> v, count |-> a.count + 1],
             [ref |-> NoOperand, count |-> 0], found)

close_phi(b, block, local, phi) ==
    LET Close(d, refs) ==
            IF d.val # <<>> /\ refs.count = 1
            THEN [d EXCEPT !.ops[phi].op = "ref", !.ops[phi].in = <<refs.ref>>]
            ELSE [d EXCEPT !.ops[phi].op = "phi", !.ops[phi].in = d.val]
        CloseOver(d) == Close(d, CountRefs(d.val, phi))
    IN  CloseOver(find_defs(b, b.blocks[block].preceding, local, <<>>))

search_def(b, block, local) ==
    LET phi  == Len(b.ops) + 1
        open == [b EXCEPT
                    !.ops = Append(@, [IrOp("phi_open", <<>>) EXCEPT !.local = local]),
                    !.blocks[block].phis = Append(@, phi),
                    !.defs = @ @@ (<<block, local>> :> OpAt(phi))]
    IN  IF <<block, local>> \in DOMAIN b.defs
        THEN Return_(b, b.defs[<<block, local>>])
        ELSE Return_(IF b.blocks[block].kind = "unsealed" THEN open
                     ELSE close_phi(open, block, local, phi),
                     OpAt(phi))

seal_loop(b, loop) ==
    LET closed == FoldLeft(LAMBDA a, phi : close_phi(a, loop, a.ops[phi].local, phi),
                           b, b.blocks[loop].phis)
    IN  [closed EXCEPT !.blocks[loop].kind = "loop"]

(* The local that holds the value: a captured one is in its environment.   *)
HolderOf(b, local) == IF Captured(b, local) THEN b.fn.locals[local].env ELSE local

search_here(b, local) == search_def(b, b.block, local)

(* Gives local the value v; a captured local is set in its environment. *)
def(b, local, v) ==
    LET l == b.fn.locals[local]
        Bind(a) == [a EXCEPT !.ops[a.val.i].local = local,
                             !.defs = (<<b.block, local>> :> a.val) @@ @]
    IN  IF Captured(b, local)
        THEN Return_(emit(PushAll(Push(search_here(b, l.env)), <<Operand("envslot", l.slot), v>>),
                          "set_env", 3), v)
        ELSE IF v.k # "op" THEN [b EXCEPT !.error = TRUE]
        ELSE Bind(IF b.ops[v.i].local = Invalid THEN Return_(b, v)
                  ELSE emit(PushOperand(b, "op", v.i), "mov", 1))

(* Gives local the value that b returned. *)
def_val(b, local) == def(b, local, b.val)

-----------------------------------------------------------------------------
(* Ops, blocks and jumps. *)

(* Every jump of a list of fixups goes to op label. *)
Retarget(ops, fixups, label) ==
    FoldLeft(LAMBDA a, x : [a EXCEPT ![x.op].in[x.arg].i = label], ops, fixups)

(* A block begins where the pending jumps go, with its header. *)
open_block(b, kind) ==
    LET label == Len(b.ops) + 1
        preceding == [i \in DOMAIN b.pending |-> b.pending[i].block]
                        \o IF kind = "unsealed" THEN <<Invalid>> ELSE <<>>
        n == Len(b.blocks) + 1
    IN  [b EXCEPT !.ops = Append(Retarget(@, b.pending, label),
                                 IrOp("block", <<Operand("block", n)>>)),
                  !.blocks = Append(@, IrBlock(kind, label, preceding)),
                  !.pending = <<>>, !.block = n, !.val = OpAt(label)]

NeedBlock(b) == IF b.block = Invalid THEN open_block(b, "basic") ELSE b

GetCaptured(b, local) ==
    IF ~Captured(b, local) THEN b
    ELSE emit(PushOperand(Push(b), "envslot", b.fn.locals[local].slot), "get_env", 2)

use(b, local) ==
    GetCaptured(search_here(NeedBlock(b), HolderOf(b, local)), local)

(* Temporaries from place i of the evaluation stack on become ops. *)
ToOps(b, i) ==
    IF i > Len(b.o) THEN b
    ELSE LET Replace(u) == [u EXCEPT !.o[i] = u.val]
         IN  ToOps(IF b.o[i].k = "temp" THEN Replace(use(b, b.o[i].i)) ELSE b, i + 1)

emit(b, opcode, n) ==
    LET at == Len(b.o) - n
        Add(u) == [Keep(u, at) EXCEPT
                      !.ops = Append(@, IrOp(opcode, SubSeq(u.o, at + 1, Len(u.o)))),
                      !.val = OpAt(Len(u.ops) + 1)]
    IN  Add(ToOps(NeedBlock(b), at + 1))

goto_block(b, label) ==
    [b EXCEPT !.pending = @ \o b.labels[label], !.labels[label] = <<>>]

AddFixup(b, label, arg) ==
    [b EXCEPT !.labels[label] = Append(@, [block |-> b.block, op |-> b.val.i, arg |-> arg])]

(* A jump with no block to be in hands the jumps to it on. *)
emit_jump(b, opcode, n, label) ==
    IF opcode = "jump" /\ b.block = Invalid
    THEN None([b EXCEPT !.labels[label] = @ \o b.pending, !.pending = <<>>])
    ELSE AddFixup(emit(PushOperand(b, "jump", Invalid), opcode, n + 1), label, n + 1)

emit_test(b, opcode, n, goto_true, goto_false) ==
    LET jump == Operand("jump", Invalid)
    IN  IF goto_true = goto_false
        THEN emit_jump(Keep(b, Len(b.o) - 1), "jump", 0, goto_true)
        ELSE AddFixup(AddFixup(emit(PushAll(b, <<jump, jump>>), opcode, n + 2),
                               goto_true, n + 1), goto_false, n + 2)

(* Mutant: values that outlive their block get no temporary. *)
ToTemp_none(b, i) == b

(* A value on the evaluation stack outlives the block: the op gets a       *)
(* temporary of its own unless it defines a local already.                 *)
ToTemp(b, i) ==
    LET v == b.o[i]
        Rename(d) == [d EXCEPT !.o[i] = Operand("temp", d.ops[v.i].local)]
    IN  CASE v.k # "op" -> b
          [] v.k = "op" /\ b.ops[v.i].local # Invalid -> Rename(b)
          [] OTHER -> Rename(def(temporary(b), LastTemp(b) + 1, v))

(* val is the jump that ends the block. *)
end_block(b) ==
    LET Close(t) == [t EXCEPT !.blocks[b.block].upper = Len(t.ops) + 1,
                              !.block = Invalid]
    IN  IF b.val.k = "none" THEN b
        ELSE Return_(Close(FoldLeft(ToTemp, b, [i \in DOMAIN b.o |-> i])), b.val)

jump_to(b, label) == end_block(emit_jump(b, "jump", 0, label))

new_block(b, kind) ==
    LET l == NewLabels(b, 1)
    IN  open_block(IF b.block = Invalid THEN b
                   ELSE goto_block(jump_to(l, LastLabel(l)), LastLabel(l)), kind)

(* The first back edge takes the place kept for it, the others follow it.  *)
end_loop(b, loop, label) ==
    LET edges == [i \in DOMAIN b.labels[label] |-> b.labels[label][i].block]
        lower == b.blocks[loop].lower
    IN  seal_loop([b EXCEPT
            !.blocks[loop].preceding = IF edges = <<>> THEN @ ELSE Front(@) \o edges,
            !.ops = Retarget(@, b.labels[label], lower),
            !.labels[label] = <<>>], loop)

=============================================================================
