------------------------------- MODULE Execute -------------------------------
(***************************************************************************)
(* The bytecode interpreter (runtime/execute.cpp) on one cothread, with    *)
(* the calls of functions and the returns of runtime/call_stack.cpp.       *)
(*                                                                         *)
(* p is the script's functions as they were emitted, and m the machine:    *)
(* stack, frames and xp of the cothread, the heap of objects, and trace,   *)
(* what the native function has been called with.  status is "run" until   *)
(* the script returns or raises an error.                                  *)
(*                                                                         *)
(* A value is a kind and an index: constants are those of the IR, and the  *)
(* index of an object is its place in the heap.  Stack addresses start at  *)
(* 0 as in the code; ip is the index of the next instruction.  Left out    *)
(* are division and bits, for numbers are integers; and what CallStack,    *)
(* and tables, model: generators, constructors and loops over tables.      *)
(***************************************************************************)
EXTENDS Ir

CONSTANT
    Globals         \* the value of each global name

StackMark == 255    \* OP_STACK_MARK

null_value == Operand("null", 0)
number_value(n) == Operand("number", n)
object_value(i) == Operand("object", i)
(* The values of LDV's operand. *)
SPECIAL == <<null_value, Operand("false", 0), Operand("true", 0)>>

value_test(u) == ~(u.k \in {"null", "false"} \/ (u.k = "number" /\ u.i = 0))

-----------------------------------------------------------------------------
(* The machine. *)

Object(type, v) == [type |-> type, v |-> v]

(* The host has an object in the heap and has called the script. *)
NewMachine(p) ==
    [stack |-> [i \in 1..p[1].stack_size |-> null_value], xp |-> p[1].stack_size,
     trace |-> <<>>, status |-> "run",
     heap |-> <<Object("lookup", << >>), Object("function", [code |-> 1, outenvs |-> <<>>])>>,
     frames |-> <<[function |-> 2, bp |-> 0, fp |-> 0, ip |-> 1, xr |-> 0, xb |-> 0, rr |-> 0]>>]

active_frame(m) == Last(m.frames)
Running(m) == m.heap[active_frame(m).function].v
Program(p, m) == p[Running(m).code]
SetFrame(m, f) == [m EXCEPT !.frames = Append(Front(@), f)]
Jump(m, j) == [m EXCEPT !.frames[Len(m.frames)].ip = @ + j]
raise(m) == [m EXCEPT !.status = "error"]

R(m, i) == m.stack[active_frame(m).fp + i + 1]
SetR(m, i, v) == [m EXCEPT !.stack[active_frame(m).fp + i + 1] = v]

(* xp is relative to the active frame. *)
resize_stack(m, xp) ==
    LET top == active_frame(m).fp + xp
    IN  [m EXCEPT !.xp = top,
                  !.stack = IF Len(@) >= top THEN @
                            ELSE @ \o [i \in 1..top - Len(@) |-> null_value]]

IsObject(m, u, type) == u.k = "object" /\ m.heap[u.i].type = type

(* The contents of an object, and a new object in register r. *)
Of(m, u) == m.heap[u.i].v
New(m, r, o) == SetR([m EXCEPT !.heap = Append(@, o)], r, object_value(Len(m.heap) + 1))

(* Values from place to of the stack on, and those of a range of it.       *)
Put(m, to, vs) ==
    [m EXCEPT !.stack = [i \in DOMAIN @ |-> IF i - to \in DOMAIN vs THEN vs[i - to] ELSE @[i]]]
Slice(m, from, to) == SubSeq(m.stack, from + 1, to)

(* vs, cut or padded with null to n values. *)
Exactly(vs, n) == SubSeq(vs \o [i \in 1..n |-> null_value], 1, n)

-----------------------------------------------------------------------------
(* Operands.  Instructions whose name ends in n or s take a constant for   *)
(* their second operand.                                                   *)

WithConstant == {"addn", "subn", "muln", "concats", "rconcats", "jeqn", "jeqs",
                 "jltn", "jgtn", "jlen", "jgen"}

OperandB(p, m, op) ==
    IF op.op \in WithConstant THEN Program(p, m).constants[op.b] ELSE R(m, op.b)

Numeric == {"add", "addn", "sub", "subn", "mul", "muln", "intdiv", "mod"}

(* The operands of sub are swapped. *)
Number(code, u, v) ==
    CASE code \in {"add", "addn"} -> u + v
      [] code \in {"sub", "subn"} -> v - u
      [] code \in {"mul", "muln"} -> u * v
      [] code = "intdiv" -> u \div v
      [] code = "mod" -> u % v

numeric(p, m, op) ==
    LET u == R(m, op.a)
        v == OperandB(p, m, op)
    IN  IF u.k # "number" \/ v.k # "number" THEN raise(m)
        ELSE SetR(m, op.r, number_value(Number(op.op, u.i, v.i)))

unary(m, op) ==
    LET u == R(m, op.a)
    IN  IF u.k # "number" THEN raise(m)
        ELSE SetR(m, op.r, IF op.op = "neg" THEN number_value(-u.i) ELSE u)

concat(p, m, op) ==
    LET u == R(m, op.a)
        v == OperandB(p, m, op)
    IN  IF u.k # "string" \/ v.k # "string" THEN raise(m)
        ELSE SetR(m, op.r, Operand("string", IF op.op = "rconcats" THEN Concat(v.i, u.i)
                                             ELSE Concat(u.i, v.i)))

-----------------------------------------------------------------------------
(* Tests.  The jump behind a comparison is taken if it is what r says.     *)

JumpIf(p, m, op, test) ==
    LET jump == Program(p, m).code[active_frame(m).ip]
    IN  Jump(m, IF (op.r = 1) = test THEN 1 + jump.j ELSE 1)

equal(p, m, op) ==
    LET u == R(m, op.a)
        v == OperandB(p, m, op)
    IN  JumpIf(p, m, op, u = v)

less(p, m, op) ==
    LET u == R(m, op.a)
        v == OperandB(p, m, op)
        test == CASE op.op \in {"jlt", "jltn"} -> u.i < v.i
                  [] op.op \in {"jle", "jlen"} -> u.i <= v.i
                  [] op.op = "jgtn" -> u.i > v.i
                  [] op.op = "jgen" -> u.i >= v.i
    IN  IF u.k = v.k /\ u.k \in {"number", "string"} THEN JumpIf(p, m, op, test) ELSE raise(m)

-----------------------------------------------------------------------------
(* Keys and indexes. *)

get_global(p, m, op) ==
    LET name == Program(p, m).selectors[op.c]
    IN  IF name \in DOMAIN Globals THEN SetR(m, op.r, Globals[name]) ELSE raise(m)

get_key(p, m, op) ==
    LET u == R(m, op.a)
        key == Program(p, m).selectors[op.b]
    IN  IF ~IsObject(m, u, "lookup") THEN raise(m)
        ELSE IF key \notin DOMAIN Of(m, u) THEN raise(m)
        ELSE SetR(m, op.r, Of(m, u)[key])

set_key(p, m, op) ==
    LET u == R(m, op.a)
        key == Program(p, m).selectors[op.b]
    IN  IF ~IsObject(m, u, "lookup") THEN raise(m)
        ELSE [m EXCEPT !.heap[u.i].v = (key :> R(m, op.r)) @@ @]

(* Array indexes start at 0. *)
Index(m, op) ==
    IF op.op \in {"get_indexi", "set_indexi"} THEN number_value(op.b) ELSE R(m, op.b)

HasIndex(m, u, v) ==
    \/ IsObject(m, u, "table") /\ v \in DOMAIN Of(m, u)
    \/ IsObject(m, u, "array") /\ v.k = "number" /\ v.i + 1 \in DOMAIN Of(m, u)

get_index(m, op) ==
    LET u == R(m, op.a)
        v == Index(m, op)
    IN  IF ~HasIndex(m, u, v) THEN raise(m)
        ELSE SetR(m, op.r, Of(m, u)[IF IsObject(m, u, "table") THEN v ELSE v.i + 1])

set_index(m, op) ==
    LET u == R(m, op.a)
        v == Index(m, op)
    IN  CASE IsObject(m, u, "table") -> [m EXCEPT !.heap[u.i].v = (v :> R(m, op.r)) @@ @]
          [] IsObject(m, u, "array") /\ HasIndex(m, u, v) ->
                [m EXCEPT !.heap[u.i].v[v.i + 1] = R(m, op.r)]
          [] OTHER -> raise(m)

length(m, op) ==
    LET u == R(m, op.a)
    IN  CASE IsObject(m, u, "array") -> SetR(m, op.r, number_value(Len(Of(m, u))))
          [] IsObject(m, u, "table") ->
                SetR(m, op.r, number_value(Cardinality(DOMAIN Of(m, u))))
          [] u.k = "string" -> SetR(m, op.r, number_value(Digits(u.i)))
          [] OTHER -> raise(m)

-----------------------------------------------------------------------------
(* New objects.                                                            *)

GetEnv(m, op, env) == SetR(m, op.r, m.heap[env].v[op.b])
SetEnv(m, op, env) == [m EXCEPT !.heap[env].v[op.b] = R(m, op.r)]

(* The instructions that follow give the function its environments.        *)
RECURSIVE Outenvs(_, _, _)
Outenvs(p, m, ip) ==
    LET code == Program(p, m).code
        op == code[ip]
    IN  IF ip > Len(code) THEN <<>>
        ELSE CASE op.op = "f_varenv" -> <<R(m, op.b).i>> \o Outenvs(p, m, ip + 1)
               [] op.op = "f_outenv" -> <<Running(m).outenvs[op.b]>> \o Outenvs(p, m, ip + 1)
               [] OTHER -> <<>>

function(p, m, op) ==
    LET outenvs == Outenvs(p, m, active_frame(m).ip)
    IN  New(Jump(m, Len(outenvs)), op.r,
            Object("function", [code |-> Program(p, m).functions[op.c], outenvs |-> outenvs]))

append(m, op) ==
    IF ~IsObject(m, R(m, op.a), "array") THEN raise(m)
    ELSE [m EXCEPT !.heap[R(m, op.a).i].v = Append(@, R(m, op.b))]

-----------------------------------------------------------------------------
(* Calls.  Values in registers r up to a, or up to xp, are passed.         *)

UpTo(m, op) ==
    IF op.a = StackMark THEN m ELSE resize_stack(m, op.a)

Passed(m, op) == Slice(m, active_frame(m).fp + op.r, m.xp)

TakesCount(code, count) ==
    count = code.param_count \/ (count > code.param_count /\ code.vararg)

(* The arguments are behind the function; those that vary are moved before *)
(* it, and the frame begins at the function.                               *)
call_function(p, m, callee, bp) ==
    LET list == Slice(m, bp, m.xp)
        code == p[m.heap[callee].v.code]
        split == code.param_count + 1
        varargs == SubSeq(list, split + 1, Len(list))
        called == [m EXCEPT !.frames = Append(@,
                     [function |-> callee, bp |-> bp, fp |-> bp + Len(varargs), ip |-> 1,
                      xr |-> 0, xb |-> 0, rr |-> 0])]
    IN  IF ~TakesCount(code, Len(list) - 1) THEN raise(m)
        ELSE resize_stack(Put(called, bp, varargs \o SubSeq(list, 1, split)), code.stack_size)

(* memmove of count + sizeof( value ) bytes: of two values or more only    *)
(* the first arrives if they move, and part of the second.                 *)
Moved(vs) ==
    [i \in DOMAIN vs |-> IF i = 1 THEN vs[1] ELSE Operand("torn", 0)]

stack_return(m, from, vs) ==
    LET f  == active_frame(m)
        xb == IF f.xb # StackMark THEN f.xb ELSE f.xr + Len(vs)
        kept == IF f.fp + f.xr < from THEN Moved(vs) ELSE vs
        t  == Put(m, f.fp + f.xr, Exactly(kept, xb - f.xr))
        r  == IF f.rr # f.xr THEN SetR(t, f.rr, R(t, f.xr)) ELSE t
    IN  [r EXCEPT !.xp = f.fp + xb]

(* The native function remembers what it is given, and returns nothing.    *)
call_native(m, bp) ==
    stack_return([m EXCEPT !.trace = Append(@, Slice(m, bp + 1, m.xp))], bp, <<>>)

call(p, m, op) ==
    LET t == UpTo(m, op)
        u == R(t, op.r)
        bp == active_frame(t).fp + op.r
        callr == op.op = "callr"
        waits == SetFrame(t, [active_frame(t) EXCEPT
                     !.xr = op.r,
                     !.xb = IF callr THEN op.r + 1 ELSE op.b,
                     !.rr = IF callr THEN op.b ELSE op.r])
    IN  CASE u.k = "native" -> call_native(waits, bp)
          [] IsObject(m, u, "function") -> call_function(p, waits, u.i, bp)
          [] OTHER -> raise(t)

return(m, op) ==
    LET t == UpTo(m, op)
        from == active_frame(t).fp + op.r
        popped == [t EXCEPT !.frames = Front(@)]
    IN  IF Len(m.frames) = 1 THEN [t EXCEPT !.status = "done"]
        ELSE stack_return(popped, from, Passed(t, op))

(* Values up to register b, or all there are. *)
Spread(m, op, vs) ==
    LET n == IF op.b = StackMark THEN Len(vs) ELSE op.b - op.r
        t == resize_stack(m, op.r + n)
    IN  Put(t, active_frame(t).fp + op.r, Exactly(vs, n))

vararg(m, op) == Spread(m, op, Slice(m, active_frame(m).bp, active_frame(m).fp))

unpack(m, op) ==
    IF IsObject(m, R(m, op.a), "array") THEN Spread(m, op, Of(m, R(m, op.a))) ELSE raise(m)

extend(m, op) ==
    LET t == UpTo(m, op)
    IN  IF ~IsObject(m, R(m, op.b), "array") THEN raise(m)
        ELSE [t EXCEPT !.heap[R(m, op.b).i].v = @ \o Passed(t, op)]

-----------------------------------------------------------------------------
(* Loops.  The jump out of the loop follows the instruction.               *)

Loop(p, m, more, next) ==
    IF more THEN Jump(next, 1)
    ELSE Jump(m, 1 + Program(p, m).code[active_frame(m).ip].j)

generate(m, op) ==
    LET u == R(m, op.a)
        t == SetR(m, op.r, u)
    IN  IF u.k = "string" \/ IsObject(m, u, "array")
        THEN SetR(t, op.r + 1, Operand("index", 0)) ELSE raise(t)

(* An element of an array comes with its number, counted from 1.  The     *)
(* place in the array moves on only if a register takes the element, and   *)
(* that in a string only if two do.                                        *)
(* Mutant: the place in a string is never written back. *)
for_each_forgetful(p, m, op) ==
    LET g == R(m, op.a)
        i == R(m, op.a + 1).i + 1
        array == g.k # "string"
        vs == IF array THEN <<Of(m, g)[i], number_value(i)>>
              ELSE <<Operand("string", Digit(g.i, i))>>
        n == IF op.b = StackMark THEN 2 ELSE op.b - op.r
        t == Spread(m, op, SubSeq(vs, 1, Min({n, Len(vs)})))
    IN  Loop(p, m, i <= IF array THEN Len(Of(m, g)) ELSE Digits(g.i),
             IF array /\ n > 0 THEN SetR(t, op.a + 1, Operand("index", i)) ELSE t)

for_each(p, m, op) ==
    LET g == R(m, op.a)
        i == R(m, op.a + 1).i + 1
        array == g.k # "string"
        vs == IF array THEN <<Of(m, g)[i], number_value(i)>>
              ELSE <<Operand("string", Digit(g.i, i))>>
        n == IF op.b = StackMark THEN 2 ELSE op.b - op.r
        t == Spread(m, op, SubSeq(vs, 1, Min({n, Len(vs)})))
    IN  Loop(p, m, i <= IF array THEN Len(Of(m, g)) ELSE Digits(g.i),
             IF n > IF array THEN 0 ELSE 1 THEN SetR(t, op.a + 1, Operand("index", i)) ELSE t)

for_step(p, m, op) ==
    LET v == [j \in 0..2 |-> R(m, op.a + j)]
        more == IF v[2].i >= 0 THEN v[0].i < v[1].i ELSE v[0].i > v[1].i
        next == SetR(SetR(m, op.r, v[0]), op.a, number_value(v[0].i + v[2].i))
    IN  IF \E j \in 0..2 : v[j].k # "number" THEN raise(m) ELSE Loop(p, m, more, next)

-----------------------------------------------------------------------------

execute(p, m) ==
    LET op == Program(p, m).code[active_frame(m).ip]
        n  == Jump(m, 1)
        Truth(t) == SPECIAL[IF t THEN 3 ELSE 2]
    IN  CASE op.op = "mov" -> SetR(n, op.r, R(n, op.a))
          [] op.op = "swp" -> SetR(SetR(n, op.r, R(n, op.a)), op.a, R(n, op.r))
          [] op.op = "ldv" -> SetR(n, op.r, SPECIAL[op.c + 1])
          [] op.op = "ldk" -> SetR(n, op.r, Program(p, n).constants[op.c])
          [] op.op \in {"neg", "pos"} -> unary(n, op)
          [] op.op \in Numeric -> numeric(p, n, op)
          [] op.op = "not" -> SetR(n, op.r, Truth(~value_test(R(n, op.a))))
          [] op.op = "jmp" -> Jump(n, op.j)
          [] op.op \in {"jt", "jf"} ->
                IF value_test(R(n, op.r)) = (op.op = "jt") THEN Jump(n, op.j) ELSE n
          [] op.op \in {"jeq", "jeqn", "jeqs"} -> equal(p, n, op)
          [] op.op \in {"jlt", "jltn", "jgtn", "jle", "jlen", "jgen"} -> less(p, n, op)
          [] op.op = "get_global" -> get_global(p, n, op)
          [] op.op = "get_key" -> get_key(p, n, op)
          [] op.op = "set_key" -> set_key(p, n, op)
          [] op.op \in {"get_index", "get_indexi"} -> get_index(n, op)
          [] op.op \in {"set_index", "set_indexi"} -> set_index(n, op)
          [] op.op = "new_env" ->
                New(n, op.r, Object("vslots", [i \in 1..op.c |-> null_value]))
          [] op.op = "get_varenv" -> GetEnv(n, op, R(n, op.a).i)
          [] op.op = "set_varenv" -> SetEnv(n, op, R(n, op.a).i)
          [] op.op = "get_outenv" -> GetEnv(n, op, Running(n).outenvs[op.a])
          [] op.op = "set_outenv" -> SetEnv(n, op, Running(n).outenvs[op.a])
          [] op.op = "function" -> function(p, n, op)
          [] op.op = "new_array" -> New(n, op.r, Object("array", <<>>))
          [] op.op = "new_table" -> New(n, op.r, Object("table", << >>))
          [] op.op = "append" -> append(n, op)
          [] op.op \in {"call", "callr"} -> call(p, n, op)
          [] op.op = "return" -> return(n, op)
          [] op.op = "vararg" -> vararg(n, op)
          [] op.op = "unpack" -> unpack(n, op)
          [] op.op = "extend" -> extend(n, op)
          [] op.op = "generate" -> generate(n, op)
          [] op.op = "for_each" -> for_each(p, n, op)
          [] op.op = "for_step" -> for_step(p, n, op)
          [] op.op \in {"concat", "concats", "rconcats"} -> concat(p, n, op)
          [] op.op = "length" -> length(n, op)
          [] op.op = "throw" -> raise(n)

=============================================================================
