------------------------------- MODULE Compiler -------------------------------
(***************************************************************************)
(* The compiler's passes over a script (compile, compiler/compiler.cpp),   *)
(* and the execution of what it makes.  Functions are compiled one after   *)
(* the other; an error in a pass ends the compilation.                     *)
(***************************************************************************)
EXTENDS Ir

CONSTANTS
    Scripts,        \* the scripts that may be compiled
    Globals,        \* the values of global names
    Fuel,           \* bound: calls and rounds of loops in a run
    PastLocals,     \* see Resolve
    Capacities,     \* see IrVisit
    Misread,        \* the scripts that do not do what they say,
    Uncompiled,     \* that do not compile,
    Crossing,       \* that have operands from other blocks,
    Endless         \* and that do not end, although they should

VARIABLES
    script,         \* what the parser made
    pass,           \* the pass that is next
    fns,            \* the functions, once names are resolved
    ir,             \* the IR of the function that is compiled
    unit,           \* the code of those before it
    machine         \* the machine that executes the code

vars == <<script, pass, fns, ir, unit, machine>>

Resolve_  == INSTANCE Resolve
Build_    == INSTANCE IrVisit
Fold_     == INSTANCE IrFold
Foldk_    == INSTANCE IrFoldk WITH MaxInline <- 255
Live_     == INSTANCE IrLive
Alloc_    == INSTANCE IrAlloc
Emit_     == INSTANCE IrEmit
Machine   == INSTANCE Execute
Meaning   == INSTANCE Language

Nothing == [ops |-> <<>>, blocks |-> <<>>]
Stopped == [status |-> "none"]

Init ==
    /\ script \in Scripts
    /\ pass = "resolve"
    /\ fns = <<>> /\ ir = Nothing /\ unit = <<>> /\ machine = Stopped

Resolve ==
    LET r == Resolve_!resolve(script)
    IN  /\ pass = "resolve"
        /\ pass' = IF r.errors = {} THEN "build" ELSE "rejected"
        /\ fns' = r.fns
        /\ UNCHANGED <<script, ir, unit, machine>>

Build ==
    /\ pass = "build"
    /\ ir' = Build_!build(fns, Len(unit) + 1)
    /\ pass' = IF ir'.error THEN "failed" ELSE "fold"
    /\ UNCHANGED <<script, fns, unit, machine>>

(* The passes that rewrite the IR; they report no error, but assert.       *)
Pass(now, next, result) ==
    /\ pass = now
    /\ ir' = result
    /\ pass' = IF ir'.error THEN "failed" ELSE next
    /\ UNCHANGED <<script, fns, unit, machine>>

Fold     == Pass("fold", "live", Fold_!fold(ir))
Live     == Pass("live", "foldk", Live_!live(ir))
Foldk    == Pass("foldk", "fold_live", Foldk_!foldk(ir))
FoldLive == Pass("fold_live", "alloc", Live_!live(ir))
Alloc    == Pass("alloc", "emit", Alloc_!alloc(ir))

Emit ==
    /\ pass = "emit"
    /\ unit' = Append(unit, Emit_!emit(ir))
    /\ pass' = IF Last(unit').error THEN "failed"
               ELSE IF Len(unit') = Len(fns) THEN "execute" ELSE "build"
    /\ ir' = Nothing
    /\ machine' = IF pass' = "execute" THEN Machine!NewMachine(unit') ELSE Stopped
    /\ UNCHANGED <<script, fns>>

Execute ==
    /\ pass = "execute"
    /\ machine.status = "run"
    /\ machine' = Machine!execute(unit, machine)
    /\ UNCHANGED <<script, pass, fns, ir, unit>>

Next == Resolve \/ Build \/ Fold \/ Live \/ Foldk \/ FoldLive \/ Alloc \/ Emit \/ Execute

Halted ==
    \/ pass \in {"rejected", "failed"}
    \/ pass = "execute" /\ machine.status # "run"

(* The compiler and the interpreter go on until there is nothing to do:    *)
(* WF_vars(Next), where a step is possible until they have halted.         *)
Fairness == <>[]~Halted => []<><<Next>>_vars

Spec == Init /\ [][Next]_vars /\ Fairness

-----------------------------------------------------------------------------

(* Values in print order, without the names of objects.                    *)
Shown(trace) ==
    [i \in DOMAIN trace |-> [j \in DOMAIN trace[i] |->
        IF trace[i][j].k = "object" THEN Operand("object", 0) ELSE trace[i][j]]]

(* The code of a script calls the native function with what the script     *)
(* says, in its order: whatever the passes have folded, moved, dropped or  *)
(* given a register in common.  A script with an error in it may do less.  *)
(* Those that are Misread, and no others, do something else.               *)
MeansWhatItSays ==
    LET Does(meaning) ==
            meaning.sig = "go" =>
                /\ machine.status = "done"
                /\ Shown(machine.trace) = Shown(meaning.trace)
    IN  pass = "execute" /\ machine.status # "run" =>
            (Does(Meaning!meaning(script)) <=> script \notin Misread)

(* A script that compiles and comes to an end does so when it is executed: *)
(* no jump goes back where the script does not, and no loop fails to       *)
(* advance, but in those that are Endless, which go on for ever.           *)
Ends ==
    /\ (pass = "resolve" /\ script \notin Uncompiled \cup Endless
        /\ Meaning!meaning(script).sig = "go") ~> Halted
    /\ [](script \in Endless => ~Halted)


Placed == {"fold", "live", "foldk", "fold_live", "alloc", "emit"}

(* The block an op belongs to. *)
HomeOf(i) ==
    CHOOSE b \in DOMAIN ir.blocks :
        IF ir.ops[i].op \in Phis THEN i \in ToSet(ir.blocks[b].phis)
        ELSE i \in OpsOf(ir, b)

Alive == {i \in DOMAIN ir.ops : ir.ops[i].op # "nop"}

(* Each value live in a block is defined in it: only phi ops refer to ops  *)
(* of other blocks (ir.h).  Scripts that are Crossing, and no others, leave *)
(* an op that does once they are built.                                    *)
OnlyPhisReachAcross ==
    LET Crosses ==
            \E i \in {x \in Alive : ir.ops[x].op \notin Phis} : \E j \in DOMAIN ir.ops[i].in :
                LET v == ir.ops[i].in[j]
                IN  v.k = "op" /\ HomeOf(v.i) # HomeOf(i)
    IN  /\ pass \in Placed /\ Crosses => script \in Crossing
        /\ pass = "fold" /\ script \in Crossing => Crosses

(* From the op that defines it to the last that uses it. *)
RangeOf(i) ==
    LET b == HomeOf(i)
    IN  IF ir.ops[i].op \in Phis THEN ir.blocks[b].lower .. ir.ops[i].live - 1
        ELSE i .. ir.ops[i].live - 1

HasRange(i) == ir.ops[i].live # Invalid

Overlap(i, j) == RangeOf(i) \cap RangeOf(j) # {}

(* Only one definition of each local variable is live at any point (ir.h,  *)
(* ir_live.h).  An op that is used in another block is in two places at     *)
(* once, so Crossing scripts are left out, here and below.                 *)
OneDefinitionLives ==
    pass \in {"foldk", "alloc", "emit"} /\ script \notin Crossing =>
        \A i, j \in {x \in Alive : HasRange(x) /\ ir.ops[x].local # Invalid} :
            i # j /\ ir.ops[i].local = ir.ops[j].local => ~Overlap(i, j)

(* No two values that are alive at once are in one register. *)
RegistersAreNotShared ==
    pass = "emit" /\ script \notin Crossing =>
        \A i, j \in {x \in Alive : HasRange(x) /\ ir.ops[x].r # Register} :
            i # j /\ ir.ops[i].r = ir.ops[j].r => ~Overlap(i, j)

=============================================================================
