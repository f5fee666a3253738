------------------------------ MODULE CallStack ------------------------------
(***************************************************************************)
(* Calls, returns, yields and constructors on the register stacks of       *)
(* cothreads (runtime/call_stack.cpp), the instructions of                 *)
(* runtime/execute.cpp that use them, and the functions of                 *)
(* runtime/runtime.cpp by which native code calls back.                    *)
(*                                                                         *)
(* Every function of the code takes and returns the whole machine, the     *)
(* record m: cothread and cothread_stack (vm->c), and stack, frames and xp *)
(* of each cothread as in the code; made, the cothreads created so far;    *)
(* host, what is on the C++ stack above the embedding program; thrown, an  *)
(* exception in flight; astray, what the code has done wrong.  An entry of *)
(* host is a `call` waiting for its result, a run of `execute`, or a       *)
(* native function.                                                        *)
(*                                                                         *)
(* The instructions between two calls compute values in registers.  They   *)
(* are one action, Load, and a frame's ip is what they have reached: used, *)
(* the number of registers that hold a value the function still needs;     *)
(* open, whether the last instruction left a list up to xp; and waiting,   *)
(* whether the frame waits for results.                                    *)
(***************************************************************************)
EXTENDS Integers, Sequences, SequencesExt, FiniteSetsExt, Functions, TLC

CONSTANTS
    Cothreads,      \* cothread objects
    Main,           \* the cothread of the context
    Programs,       \* function objects
    Code,           \* what each function is compiled to, or registered with
    HostCalls,      \* bound: the values the embedding program calls
    Prototypes,     \* lookup objects that have a constructor
    Constructor,    \* the self method of each prototype
    Host,           \* stands for the null function of a frame of native code
    Null, Torn,     \* the null value; part of one value and part of another
    Junk,           \* any value that nothing refers to any more
    Granule,        \* a stack grows to a multiple of this (32 in the code)
    Garbage,        \* what xp of a new context's cothread can hold
    Wanted,         \* bound: the fixed numbers of results calls ask for
    MaxCalls        \* bound: calls made, but for generators

ASSUME CallStackAssumption ==
    /\ Main \in Cothreads /\ Granule \in Nat \ {0} /\ Garbage \subseteq Nat
    /\ DOMAIN Code = Programs
    /\ \A f \in Programs : Code[f].stack_size > Code[f].param_count

VARIABLE m

MARK == -1
ValueBytes == 8

-----------------------------------------------------------------------------
(* Frames and stacks.  Register i of a frame is stack[fp + i + 1]. *)

active_frame(s) == Last(s.frames[s.cothread])

SetActive(s, f) == [s EXCEPT !.frames[s.cothread] = Append(Front(@), f)]

Frame(f, bp, fp, resume, xb, used) ==
    [function |-> f, bp |-> bp, fp |-> fp, resume |-> resume, xr |-> 0,
     xb |-> xb, rr |-> 0, used |-> used, open |-> FALSE, waiting |-> FALSE]

Fill(n, v) == [i \in 1 .. n |-> v]

Grown(st, n) ==
    LET size == ((n + Granule - 1) \div Granule) * Granule
    IN  IF n <= Len(st) THEN st ELSE st \o Fill(size - Len(st), Null)


resize_stack(s, c, fp, xp) ==
    [s EXCEPT !.xp[c] = fp + xp, !.stack[c] = Grown(@, fp + xp)]

Put(st, base, vals) ==
    [i \in DOMAIN st |-> IF i - base \in DOMAIN vals THEN vals[i - base] ELSE st[i]]

Slice(s, c, first, last) == SubSeq(s.stack[c], first + 1, last)

raise_error(s) == [s EXCEPT !.thrown = TRUE]

(* What the code does wrong without noticing.  "torn": the results returned *)
(* last were moved and did not all arrive.  "wrapped": a negative number of *)
(* results was taken for a large one.  "overrun": a frame's registers are   *)
(* not all in its stack.  "reentered": a cothread was resumed that had not  *)
(* yielded.                                                                 *)
Astray(s, what, wrong) == [s EXCEPT !.astray = IF wrong THEN @ \union {what} ELSE @ \ {what}]

(* A frame that runs: its resume, xr, xb and rr are set before it waits again. *)
Run(f) == [f EXCEPT !.waiting = FALSE, !.resume = "NONE", !.xr = 0, !.xb = 0, !.rr = 0]

(* The registers a frame has in use once its results have arrived. *)
Resumed(f, xb) ==
    Run([f EXCEPT !.used = IF f.rr # f.xr THEN f.xr ELSE xb, !.open = (f.xb = MARK)])

-----------------------------------------------------------------------------
(* Returning results. *)

(* memmove of count + sizeof( value ) bytes: the values of that many bytes *)
(* from the front arrive, the next is overwritten in part.                 *)
MoveValues(st, to, from, count) ==
    LET bytes == count + ValueBytes
        Got(i) == IF ValueBytes * (i + 1) <= bytes \/ st[to + i + 1] = st[from + i + 1]
                  THEN st[from + i + 1] ELSE Torn
    IN  [j \in DOMAIN st |->
            LET i == j - to - 1
            IN  IF i >= 0 /\ ValueBytes * i < bytes /\ from + i < Len(st)
                THEN Got(i) ELSE st[j]]


stack_return(s, return_fp, rp, xp) ==
    LET c == s.cothread
        f == active_frame(s)
        count == xp - rp
        xb == IF f.xb # MARK THEN f.xb ELSE f.xr + count
        xr == IF f.resume = "CONSTRUCT" /\ count = 0 THEN f.xr + 1 ELSE f.xr
        value_count == IF count = 0 THEN 0 ELSE Min({count, xb - xr})
        moved == IF f.fp + xr < return_fp + rp
                 THEN MoveValues(s.stack[c], f.fp + xr, return_fp + rp, value_count)
                 ELSE s.stack[c]
        padded == Put(moved, f.fp + xr + value_count,
                      Fill(Max({0, xb - xr - value_count}), Null))
        kept == IF f.rr # f.xr
                THEN Put(padded, f.fp + f.rr, <<padded[f.fp + f.xr + 1]>>)
                ELSE padded
        t == Astray(s, "torn", f.fp + xr < return_fp + rp /\ value_count > 1)
    IN  SetActive([t EXCEPT !.stack[c] = kept, !.xp[c] = f.fp + xb], Resumed(f, xb))

(* The number of results is computed as rp - xp. *)
yield_return(s, vals) ==
    LET c == s.cothread
        f == active_frame(s)
        xb == IF f.xb # MARK THEN f.xb ELSE f.xr - Len(vals)
        t == Astray(resize_stack(s, c, f.fp, xb), "wrapped", xb < f.xr)
        xr == IF f.resume = "CONSTRUCT" /\ Len(vals) = 0 THEN f.xr + 1 ELSE f.xr
        n == Max({0, xb - xr})
        got == Put(t.stack[c], f.fp + xr, SubSeq(vals \o Fill(n, Null), 1, n))
        kept == IF f.rr # f.xr
                THEN Put(got, f.fp + f.rr, <<got[f.fp + f.xr + 1]>>) ELSE got
    IN  SetActive([t EXCEPT !.stack[c] = kept], Resumed(f, xb))

(* The cothread that resumed this one continues. *)
Leave(s) == [s EXCEPT !.cothread = Last(s.cothread_stack), !.cothread_stack = Front(@)]

call_return(s, rp, xp) ==
    LET c == s.cothread
        fp == active_frame(s).fp
        popped == [s EXCEPT !.frames[c] = Front(@)]
        left == Leave(popped)
        f == active_frame(left)
    IN  CASE popped.frames[c] # <<>> -> stack_return(popped, fp, rp, xp)
          [] popped.frames[c] = <<>> /\ f.resume # "FOR_EACH" ->
                yield_return(left, Slice(s, c, fp + rp, fp + xp))
          [] popped.frames[c] = <<>> /\ f.resume = "FOR_EACH" ->
                SetActive(resize_stack(left, left.cothread, f.fp, rp),
                          Run(f))

call_yield(s, rp, xp) ==
    LET fp == active_frame(s).fp
    IN  yield_return(Leave(s), Slice(s, s.cothread, fp + rp, fp + xp))

-----------------------------------------------------------------------------
(* Calling.  The callee is in register rp, its arguments in those after it *)
(* up to xp.                                                               *)

TakesCount(f, count) ==
    \/ count = Code[f].param_count
    \/ count > Code[f].param_count /\ Code[f].vararg

(* Mutant of call_function: the stack has room for its parameters only.     *)
call_function_narrow(s, f, rp, xp) ==
    LET c == s.cothread
        bp == active_frame(s).fp + rp
        t == [s EXCEPT !.calls = @ + 1,
                       !.frames[c] = Append(@, Run(Frame(f, bp, bp, "CALL", 0, xp - rp)))]
    IN  IF TakesCount(f, xp - rp - 1)
        THEN resize_stack(t, c, bp, xp - rp) ELSE raise_error(s)

call_function(s, f, rp, xp) ==
    LET c == s.cothread
        bp == active_frame(s).fp + rp
        split == Code[f].param_count + 1
        list == Slice(s, c, bp, bp + xp - rp)
        turned == Reverse(Reverse(SubSeq(list, 1, split))
                            \o Reverse(SubSeq(list, split + 1, Len(list))))
        fp == IF Code[f].vararg THEN bp + Len(list) - split ELSE bp
        t == [s EXCEPT !.calls = @ + 1,
                       !.frames[c] = Append(@, Run(Frame(f, bp, fp, "CALL", 0, split))),
                       !.stack[c] = IF Code[f].vararg THEN Put(@, bp, turned) ELSE @]
    IN  IF TakesCount(f, xp - rp - 1)
        THEN resize_stack(t, c, fp, Code[f].stack_size)
        ELSE raise_error(s)

call_native(s, f, rp, xp) ==
    IF TakesCount(f, xp - rp - 1)
    THEN [s EXCEPT !.calls = @ + 1, !.host = Append(@,
             [kind |-> "native", function |-> f, cothread |-> s.cothread,
              bp |-> active_frame(s).fp + rp, count |-> xp - rp - 1,
              frames |-> Len(s.frames[s.cothread])])]
    ELSE raise_error(s)

call_generator(s, f, rp, xp) ==
    LET c == s.cothread
        g == CHOOSE x \in Cothreads \ s.made : TRUE
        bp == active_frame(s).fp + rp
        actual == Code[f].param_count + 1
        list == Slice(s, c, bp, bp + xp - rp)
        copied == SubSeq(list, actual + 1, Len(list)) \o SubSeq(list, 1, actual)
        fp == Len(list) - actual
        t == [s EXCEPT !.made = @ \union {g},
                       !.frames[g] = <<[Frame(f, 0, fp, "YIELD", 0, actual)
                                           EXCEPT !.waiting = TRUE]>>]
        sized == resize_stack(t, g, 0, Max({Code[f].stack_size, Len(list)}))
        u == Astray(sized, "overrun", fp + Code[f].stack_size > Len(sized.stack[g]))
    IN  IF TakesCount(f, xp - rp - 1)
        THEN stack_return([u EXCEPT !.stack[g] = Put(@, 0, copied),
                                    !.stack[c] = Put(@, bp, <<g>>)], bp, 0, 1)
        ELSE raise_error(s)

call_cothread(s, g, rp, xp) ==
    LET from == active_frame(s).fp
        vals == Slice(s, s.cothread, from + rp + 1, from + xp)
        f == Last(s.frames[g])
        xb == IF f.xb # MARK THEN f.xb ELSE f.xr + Len(vals)
        n == xb - f.xr
        t == Astray(resize_stack(s, g, f.fp, xb), "reentered", f.resume # "YIELD")
        u == [t EXCEPT !.calls = @ + 1, !.stack[g] = Put(@, f.fp + f.xr,
                                        SubSeq(vals \o Fill(n, Null), 1, n)),
                       !.cothread_stack = Append(@, s.cothread), !.cothread = g]
        start == f.xr = 0     \* the frame of a cothread that has not run yet
    IN  IF s.frames[g] = <<>> THEN raise_error(s)
        ELSE SetActive(u, IF start THEN Run(f) ELSE Resumed(f, xb))

(* The object a constructor is given: made by register rp of this frame. *)
NewObject(s, rp) == 30 + Len(s.frames[s.cothread])

call_prototype(s, p, rp, xp) ==
    LET c == s.cothread
        f == Constructor[p]
        fp == active_frame(s).fp
        args == Slice(s, c, fp + rp + 1, fp + xp)
        self == NewObject(s, rp)
        end == IF Code[f].direct THEN xp + 1 ELSE xp + 2
        wide == resize_stack(s, c, fp, end)
        t == IF Code[f].direct
             THEN [wide EXCEPT !.stack[c] = Put(@, fp + rp, <<f, Null>> \o args)]
             ELSE SetActive([wide EXCEPT !.stack[c] = Put(@, fp + rp, <<self, f, self>> \o args)],
                            [active_frame(s) EXCEPT !.resume = "CONSTRUCT"])
        at == IF Code[f].direct THEN rp ELSE rp + 1
    IN  CASE f \notin Programs -> raise_error(s)
          [] f \in Programs /\ Code[f].generator -> raise_error(t)
          [] f \in Programs /\ Code[f].native -> call_native(t, f, at, end)
          [] OTHER -> call_function(t, f, at, end)

call_value(s, u, rp, xp, ycall) ==
    CASE u \in Programs /\ Code[u].native -> call_native(s, u, rp, xp)
      [] u \in Programs /\ ~Code[u].native /\ Code[u].generator /\ ~ycall ->
            call_generator(s, u, rp, xp)
      [] u \in Programs /\ ~Code[u].native /\ (ycall \/ ~Code[u].generator) ->
            call_function(s, u, rp, xp)
      [] u \in Cothreads -> call_cothread(s, u, rp, xp)
      [] u \in Prototypes -> call_prototype(s, u, rp, xp)
      [] OTHER -> raise_error(s)

-----------------------------------------------------------------------------
(* Native code: push_frame, call_frame and pop_frame, as call uses them. *)

push_frame(s, count) ==
    LET c == s.cothread
        bp == s.xp[c]
    IN  resize_stack([s EXCEPT !.frames[c] = Append(@, Frame(Host, bp, bp, "CALL", MARK, 0))],
                     c, bp, count + 1)

pop_frame(s) ==
    [s EXCEPT !.frames[s.cothread] = Front(@), !.xp[s.cothread] = active_frame(s).bp,
              !.host = Front(@)]

call(s, u, args) ==
    LET c == s.cothread
        t == push_frame(s, Len(args))
        fp == active_frame(t).fp
        f == SetActive([t EXCEPT !.stack[c] = Put(@, fp, <<u>> \o args),
                                 !.host = Append(@, [kind |-> "call", bp |-> fp])],
                       [active_frame(t) EXCEPT !.waiting = TRUE])
        called == call_value(f, u, 0, Len(args) + 1, FALSE)
    IN  IF called.thrown \/ active_frame(called).function = Host
        THEN called
        ELSE [called EXCEPT !.host = Append(@, [kind |-> "execute"])]

(* What a native function returns is in the stack from its bp. *)
native_return(s, vals) ==
    LET n == Last(s.host)
        t == resize_stack([s EXCEPT !.host = Front(@)], n.cothread, n.bp, n.bp + Len(vals))
    IN  IF vals = <<>>
        THEN stack_return([s EXCEPT !.host = Front(@)], n.bp, 0, 0)
        ELSE stack_return([t EXCEPT !.stack[n.cothread] = Put(@, n.bp, vals)],
                          n.bp, 0, Len(vals))

(* Frames up to the last one of native code are dropped, and with them     *)
(* the cothreads that have no other.                                       *)
Chain(s) == Append(s.cothread_stack, s.cothread)

HostFrames(s, c) == {i \in DOMAIN s.frames[c] : s.frames[c][i].function = Host}

(* Mutant of unwind: the cothreads that were unwound are still to be        *)
(* returned to.                                                             *)
unwind_keeping_chain(s) ==
    LET k == Max({j \in DOMAIN Chain(s) : HostFrames(s, Chain(s)[j]) # {}})
        c == Chain(s)[k]
    IN  [s EXCEPT !.cothread = c,
                  !.frames = [x \in Cothreads |->
                     IF x = c THEN SubSeq(@[c], 1, Max(HostFrames(s, c)))
                     ELSE IF \E j \in k + 1 .. Len(Chain(s)) : Chain(s)[j] = x THEN <<>>
                     ELSE @[x]],
                  !.host = Front(@)]

unwind(s) ==
    LET k == Max({j \in DOMAIN Chain(s) : HostFrames(s, Chain(s)[j]) # {}})
        c == Chain(s)[k]
    IN  [s EXCEPT !.cothread = c, !.cothread_stack = SubSeq(@, 1, k - 1),
                  !.frames = [x \in Cothreads |->
                     IF x = c THEN SubSeq(@[c], 1, Max(HostFrames(s, c)))
                     ELSE IF \E j \in k + 1 .. Len(Chain(s)) : Chain(s)[j] = x THEN <<>>
                     ELSE @[x]],
                  !.host = Front(@)]

(* execute unwinds what an instruction throws, and returns when the frame it *)
(* continues with is one of native code.                                     *)
Continue(s) ==
    IF s.thrown THEN unwind(s)
    ELSE IF active_frame(s).function = Host THEN [s EXCEPT !.host = Front(@)]
    ELSE s

(* The part of a cothread's stack that frames and native functions use.     *)
(* What is left above it stays there until it is overwritten: Junk.         *)
InUse(s, c) ==
    LET ends == {f.fp + f.used + (IF f.resume = "CONSTRUCT" THEN 1 ELSE 0) : f \in Range(s.frames[c])}
        args == {s.host[i].bp + s.host[i].count + 1 :
                    i \in {j \in DOMAIN s.host : s.host[j].kind = "native" /\ s.host[j].cothread = c}}
    IN  Max({0} \union ends \union args)

Forget(s) ==
    [s EXCEPT !.stack = [c \in Cothreads |->
        [i \in DOMAIN s.stack[c] |-> IF i <= InUse(s, c) THEN s.stack[c][i] ELSE Junk]]]

-----------------------------------------------------------------------------
(* The embedding program. *)

EmptyVm ==
    [cothread |-> Main, cothread_stack |-> <<>>, made |-> {Main},
     stack |-> [c \in Cothreads |-> <<>>], frames |-> [c \in Cothreads |-> <<>>],
     xp |-> [c \in Cothreads |-> 0], host |-> <<>>, thrown |-> FALSE, calls |-> 0,
     astray |-> {}]

Init == \E x \in Garbage : m = [EmptyVm EXCEPT !.xp[Main] = x]

Callables == Programs \union Cothreads \union Prototypes

(* The values native code calls, and those a function refers to. *)
NativeCalls == IF m.host = <<>> THEN HostCalls ELSE Code[Last(m.host).function].calls
Exists == Programs \union Prototypes \union (m.made \ {Main}) \union {Null}

(* The values of registers: told apart by the register, and from the caller's. *)
Word(i) == 10 * (Len(m.frames[m.cothread]) % 2) + i

(* Nothing is said of what a machine does after it ran into any of these:   *)
(* assertions have failed, or memory that is not the stack's is written.    *)
Lost == {"wrapped", "overrun", "reentered"} \intersect m.astray # {}

Running == ~Lost /\ ~m.thrown /\ m.host # <<>> /\ Last(m.host).kind = "execute"
AtNative == ~Lost /\ (m.host # <<>> => Last(m.host).kind = "native")
InNative == ~m.thrown /\ AtNative

(* Bound: of the values that are not callable only null is called, and only  *)
(* as many generators are as there are cothreads.                            *)
CanCall(u, ycall) ==
    /\ u \in Callables \union {Null}
    /\ u \in Programs /\ Code[u].generator /\ ~ycall => m.made # Cothreads

Bounded == m'.calls <= MaxCalls

HostCall ==
    /\ InNative
    /\ \E u \in Exists \intersect NativeCalls, n \in 0 .. 1 :
          /\ CanCall(u, FALSE)
          /\ m' = Forget(call(m, u, [i \in 1 .. n |-> Word(i)]))
          /\ Bounded

(* call takes the first result, and drops the frame. *)
HostReturn ==
    /\ ~Lost /\ ~m.thrown /\ m.host # <<>> /\ Last(m.host).kind = "call"
    /\ m' = Forget(pop_frame(m))

NativeReturn ==
    /\ InNative /\ m.host # <<>>
    /\ \E n \in 0 .. 2 : m' = Forget(native_return(m, [i \in 1 .. n |-> 20 + i]))

-----------------------------------------------------------------------------
(* Exceptions. *)

NativeThrow ==
    /\ InNative /\ m.host # <<>>
    /\ m' = Forget([m EXCEPT !.thrown = TRUE, !.host = Front(@)])

Catch ==
    /\ m.thrown /\ AtNative
    /\ m' = [m EXCEPT !.thrown = FALSE]

Propagate ==
    /\ ~Lost /\ m.thrown /\ m.host # <<>>
    /\ m' = Forget(CASE Last(m.host).kind = "execute" -> unwind(m)
                     [] Last(m.host).kind = "call" -> pop_frame(m)
                     [] Last(m.host).kind = "native" -> [m EXCEPT !.host = Front(@)])

(* OP_THROW: execute unwinds what throw_value throws. *)
Throw == Running /\ m' = Forget(Continue(raise_error(m)))

-----------------------------------------------------------------------------
(* Instructions of the active frame. *)

Top == active_frame(m)
Program == Code[Top.function]
Register(i) == m.stack[m.cothread][Top.fp + i + 1]

(* Bound: what a function computes has one callable value among it. *)
HasCallee == \E i \in Program.param_count + 1 .. Top.used - 1 : Register(i) \in Callables

(* Moves, loads and arithmetic before the next call: one more value. *)
Load ==
    /\ Running /\ ~Top.open /\ Top.used < Program.stack_size
    /\ \E v \in {Word(Top.used)} \union (IF HasCallee THEN {} ELSE Program.calls \intersect Exists) :
          m' = SetActive([m EXCEPT !.stack[m.cothread] = Put(@, Top.fp + Top.used, <<v>>)],
                         [Top EXCEPT !.used = @ + 1])

(* The list an instruction takes ends at op.a, or where the last one did. *)
ListEnd == IF Top.open THEN m.xp[m.cothread] - Top.fp ELSE Top.used
Resized == IF Top.open THEN m ELSE resize_stack(m, m.cothread, Top.fp, ListEnd)

Suspend(s, resume, xr, xb, rr) ==
    SetActive(s, [active_frame(s) EXCEPT !.resume = resume, !.xr = xr, !.xb = xb, !.rr = rr,
                                         !.used = xr, !.open = FALSE, !.waiting = TRUE])

ListEnds(r) == {MARK} \union {b \in {r + n : n \in Wanted} : b <= Program.stack_size}

OpCall ==
    /\ Running
    /\ \E r \in 1 .. Top.used - 1, ycall \in {FALSE, Program.generator} :
       \E <<b, rr>> \in (ListEnds(r) \X {r}) \union {<<r + 1, 1>>} :
          /\ CanCall(Register(r), ycall)
          /\ m' = Forget(Continue(call_value(Suspend(Resized, "CALL", r, b, rr),
                                             Register(r), r, ListEnd, ycall)))
          /\ Bounded

(* The prototype is in a register below the top of the stack. *)
OpNewObject ==
    /\ Running /\ ~Top.open /\ Top.used < Program.stack_size
    /\ \E a \in 1 .. Top.used - 1 :
          LET b == Top.used
              t == resize_stack(m, m.cothread, Top.fp, b + 1)
              u == [t EXCEPT !.stack[m.cothread] = Put(@, Top.fp + b, <<Register(a)>>)]
          IN  /\ Register(a) \in Prototypes
              /\ m' = Forget(Continue(call_prototype(Suspend(u, "CALL", b, b + 1, a),
                                                     Register(a), b, b + 1)))
              /\ Bounded

OpYield ==
    /\ Running /\ Program.generator
    /\ \E r \in 1 .. Top.used : \E b \in ListEnds(r) :
          /\ m' = Forget(Continue(call_yield(Suspend(Resized, "YIELD", r, b, r), r, ListEnd)))

OpReturn ==
    /\ Running
    /\ \E r \in 0 .. Top.used : m' = Forget(Continue(call_return(Resized, r, ListEnd)))

(* A cothread as the generator of a loop; other generators are in ForEach. *)
OpForEach ==
    /\ Running /\ ~Top.open /\ Top.used < Program.stack_size
    /\ \E a \in 1 .. Top.used - 1 : \E r \in a + 1 .. Top.used :
          LET g == Register(a)
              t == Suspend([m EXCEPT !.stack[m.cothread] = Put(@, Top.fp + r, <<g>>)],
                           "FOR_EACH", r, r + 1, r)
          IN  /\ g \in Cothreads
              /\ m' = Forget(Continue(call_cothread(t, g, r, r + 1)))
              /\ Bounded

OpVararg ==
    /\ Running /\ ~Top.open
    /\ \E b \in ListEnds(Top.used) :
          LET r == Top.used
              extra == Slice(m, m.cothread, Top.bp, Top.fp)
              xp == IF b # MARK THEN b ELSE r + Len(extra)
              t == resize_stack(m, m.cothread, Top.fp, xp)
              list == SubSeq(extra \o Fill(xp, Null), 1, xp - r)
          IN  /\ Program.vararg
              /\ m' = SetActive([t EXCEPT !.stack[m.cothread] = Put(@, Top.fp + r, list)],
                                [Top EXCEPT !.used = xp, !.open = (b = MARK)])

Next ==
    \/ HostCall \/ HostReturn \/ NativeReturn \/ NativeThrow \/ Catch \/ Propagate
    \/ Throw \/ Load \/ OpCall \/ OpNewObject \/ OpYield \/ OpReturn \/ OpForEach \/ OpVararg

Spec == Init /\ [][Next]_m

-----------------------------------------------------------------------------
(* Properties. *)

Numbers == 0 .. 3 \union 10 .. 13 \union 21 .. 22 \union 30 .. 34
Values == Callables \union Numbers \union {Null}

(* The interpreter writes its registers without a check: all registers of   *)
(* a function's frame are in the stack, below them lie its variable         *)
(* arguments, and below those what the frame that called it holds.  Only a  *)
(* generator with variable arguments may reach past its stack, by as many   *)
(* registers as it has of those.  (call_function, call_generator,           *)
(* resize_stack)                                                            *)
RegistersInStack ==
    \A c \in Cothreads : \A i \in DOMAIN m.frames[c] :
        LET f == m.frames[c][i]
            past == IF f.function # Host /\ Code[f.function].generator THEN f.fp - f.bp ELSE 0
        IN  /\ f.function # Host =>
                  f.fp + Code[f.function].stack_size <= Len(m.stack[c]) + past
            /\ f.bp <= f.fp /\ f.fp + f.used <= Len(m.stack[c])
            /\ i > 1 => m.frames[c][i - 1].fp + m.frames[c][i - 1].used <= f.bp


(* What call_frame, pop_frame, call_native and call_yield assert: a cothread *)
(* is in the chain once, frames of native code are those of the calls on the *)
(* C++ stack, in order, and a native function that is running finds the      *)
(* frames that it was called from.  A generator yields past no native code.  *)
(* All this as long as cothreads are resumed only when they have yielded,    *)
(* which call_cothread asserts and does not check (call_stack.cpp:295).      *)
HostMatchesFrames ==
    LET frames == FoldSeq(LAMBDA c, s : SelectSeq(m.frames[c], LAMBDA f : f.function = Host) \o s,
                          <<>>, Chain(m))
        calls == SelectSeq(m.host, LAMBDA h : h.kind = "call")
    IN  "reentered" \notin m.astray =>
        /\ Cardinality(Range(Chain(m))) = Len(Chain(m))
        /\ Len(frames) = Len(calls)
        /\ \A i \in DOMAIN calls : calls[i].bp = frames[i].bp
        /\ ~m.thrown /\ m.host # <<>> /\ Last(m.host).kind = "native" =>
              /\ Last(m.host).cothread = m.cothread
              /\ Last(m.host).frames = Len(m.frames[m.cothread])
        /\ \A i \in 2 .. Len(Chain(m)) : m.frames[Chain(m)[i]] # <<>>

(* Arguments, results, yielded values and objects under construction reach  *)
(* who should get them, and what a function holds while it waits is not      *)
(* changed: the machine does what calls that pass lists do, where a frame is *)
(* an activation that holds the values of its registers in use.              *)
Activation(c, f) ==
    [function |-> f.function,
     extra |-> Slice(m, c, f.bp, f.fp),
     held |-> Slice(m, c, f.fp, f.fp + f.used),
     wait |-> IF f.waiting
              THEN [kind |-> f.resume, want |-> IF f.xb = MARK THEN MARK ELSE f.xb - f.xr,
                    target |-> IF f.rr = f.xr THEN 0 ELSE f.rr,
                    self |-> IF f.resume = "CONSTRUCT"
                             THEN m.stack[c][f.fp + f.xr + 1] ELSE Null]
              ELSE [kind |-> "NONE", want |-> 0, target |-> 0, self |-> Null]]

Activations(c) == <<>> \o [i \in DOMAIN m.frames[c] |-> Activation(c, m.frames[c][i])]

Calls == INSTANCE ListCalls WITH
    Words <- {1, 2, 11, 12, 21, 22},
    Objects <- 30 .. 34,
    chain <- Chain(m),
    acts <- (Main :> Activations(Main)) @@ [c \in Cothreads |-> Activations(c)],
    made <- m.made,
    host <- <<>> \o [i \in DOMAIN m.host |->
                LET h == m.host[i]
                IN  [kind |-> h.kind,
                     args |-> IF h.kind = "native"
                              THEN Slice(m, h.cothread, h.bp + 1, h.bp + 1 + h.count) ELSE <<>>]],
    thrown <- m.thrown

=============================================================================
