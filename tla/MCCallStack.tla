----------------------------- MODULE MCCallStack -----------------------------
(* Functions of each kind: a plain one, one with variable arguments, a       *)
(* generator that has them too, one that has no register to spare for them,  *)
(* a native, and a constructor.                                              *)
EXTENDS CallStack
CONSTANTS plain, variadic, gen, slim, nat, con,
          Size      \* registers of the plain function

Function(count, size, calls) ==
    [param_count |-> count, stack_size |-> size, vararg |-> FALSE, generator |-> FALSE,
     native |-> FALSE, direct |-> FALSE, calls |-> calls]

McCode ==
    [x \in Programs |->
        CASE x = plain -> Function(0, Size, {gen, slim, nat} \union Cothreads \union Prototypes)
          [] x = variadic -> [Function(1, 3, {nat}) EXCEPT !.vararg = TRUE]
          [] x = gen -> [Function(0, 3, {gen, variadic} \union Cothreads) EXCEPT !.vararg = TRUE, !.generator = TRUE]
          [] x = slim -> [Function(0, 2, {}) EXCEPT !.vararg = TRUE, !.generator = TRUE]
          [] x = nat -> [Function(0, 1, {con}) EXCEPT !.vararg = TRUE, !.native = TRUE]
          [] x = con -> Function(1, 2, {})]

McConstructor == [p \in Prototypes |-> con]
=============================================================================
