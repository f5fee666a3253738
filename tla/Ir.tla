--------------------------------- MODULE Ir ---------------------------------
(***************************************************************************)
(* The intermediate representation (compiler/ir.h): ops in a flat array,   *)
(* and the basic blocks they make up.  Opcodes and kinds of operand are    *)
(* those of ir.h in lower case.  The operands of an op are part of it, and *)
(* so are the preceding blocks and the phi ops of a block; a constant      *)
(* operand holds its number, string or selector, not its index in a table. *)
(* Indexes start at 1, so that the header of the entry block, which an     *)
(* operand of no kind has the index of, is op 1.                           *)
(***************************************************************************)
EXTENDS Syntax, Integers, SequencesExt, FiniteSetsExt, TLC

Register == 255         \* IR_INVALID_REGISTER
Sticky   == 255         \* IR_LIVE_STICKY
All      == 255         \* IR_UNPACK_ALL

Operand(kind, index) == [k |-> kind, i |-> index]
NoOperand == Operand("none", 1)
OpAt(i) == Operand("op", i)

IrOp(opcode, in) ==
    [op |-> opcode, in |-> in, local |-> Invalid, unpack |-> 1,
     mark |-> FALSE, s |-> Register, r |-> Register, live |-> Invalid]

IrBlock(kind, lower, preceding) ==
    [kind |-> kind, lower |-> lower, upper |-> Invalid,
     preceding |-> preceding, phis |-> <<>>, mark |-> 0, reachable |-> FALSE]

Conditional == {"jump_test", "jump_for_each", "jump_for_step"}
ForGen      == {"jump_for_egen", "jump_for_sgen"}
Jumps       == {"jump", "jump_throw", "jump_return"} \cup Conditional \cup ForGen
Phis        == {"phi", "phi_open", "ref"}

IsConstant(v) == v.k \in {"null", "true", "false", "number", "string"}

(* The sequence itself, each element computed once. *)
Computed(s) == SubSeq(s, 1, Len(s))

(* Strings are numbers of decimal digits; ~ puts one behind the other. *)
Digits(u) == Min({n \in 1..5 : 10 ^ n > u})
Digit(u, i) == u \div 10 ^ (Digits(u) - i) % 10
Concat(u, v) == u * 10 ^ Digits(v) + v

(* The ops of block b, and in program order. *)
OpsOf(f, b) == f.blocks[b].lower .. f.blocks[b].upper - 1
InOrder(f, b) == [j \in 1..Cardinality(OpsOf(f, b)) |-> f.blocks[b].lower + j - 1]

(* The block a jump to the block header op i goes to. *)
BlockAt(f, i) == f.ops[i].in[1].i

=============================================================================
