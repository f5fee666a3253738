------------------------------ MODULE ListCalls ------------------------------
(***************************************************************************)
(* What calls mean, without stacks: a call passes a list of values and     *)
(* gets a list back.  An activation is a function, the variable arguments  *)
(* it was given, and the list of values it holds; a waiting one knows what *)
(* it will do with the list that it gets.                                  *)
(***************************************************************************)
EXTENDS Integers, Sequences, SequencesExt, FiniteSetsExt

CONSTANTS Cothreads, Main, Programs, Code, Prototypes, Constructor, Host, Null,
          Values,     \* everything a register can hold
          Words,      \* the values that native code passes
          Objects     \* objects that constructors are given

VARIABLES
    chain,      \* the cothreads that have resumed one another, the running one last
    acts,       \* the activations of each cothread
    made,       \* cothreads created so far
    host,       \* calls, native functions and runs of the interpreter in progress
    thrown      \* an exception is in flight

vars == <<chain, acts, made, host, thrown>>

ANY == -1
NoWait == [kind |-> "NONE", want |-> 0, target |-> 0, self |-> Null]

Init ==
    /\ chain = <<Main>> /\ acts = [c \in Cothreads |-> <<>>] /\ made = {Main}
    /\ host = <<>> /\ thrown = FALSE

-----------------------------------------------------------------------------
Top(x) == Last(acts[x])
Running == Last(chain)
Interpreting == ~thrown /\ host # <<>> /\ Last(host).kind = "execute"

Activation(f, extra, held) == [function |-> f, extra |-> extra, held |-> held, wait |-> NoWait]

Fit(list, want) ==
    IF want = ANY THEN list
    ELSE [i \in 1 .. want |-> IF i <= Len(list) THEN list[i] ELSE Null]

(* A constructor that returns nothing gives its object; a call of any       *)
(* number of values then gets none.                                         *)
Results(a, list) ==
    IF a.wait.kind = "CONSTRUCT" /\ list = <<>> /\ a.wait.want # ANY
    THEN Fit(<<a.wait.self>>, a.wait.want)
    ELSE Fit(list, a.wait.want)

Deliver(a, list) ==
    LET got == Results(a, list)
    IN  [a EXCEPT !.wait = NoWait,
                  !.held = IF a.wait.target # 0
                           THEN [@ EXCEPT ![a.wait.target + 1] = got[1]]
                           ELSE @ \o got]

Replaced(as, x, a) == [as EXCEPT ![x] = Append(Front(@), a)]

(* Whoever waits for results has function Host when native code called. *)
Resumes(a) == IF a.function = Host /\ host # <<>> /\ Last(host).kind = "execute"
              THEN Front(host) ELSE host

-----------------------------------------------------------------------------
(* Calls.  as is acts with the caller waiting at the top of cothread x. *)

Takes(f, n) ==
    n = Code[f].param_count \/ (n > Code[f].param_count /\ Code[f].vararg)

(* The state after a call: thrown when the callee does not take the list. *)
Effect(as, ch, hs, md, th) ==
    thrown' = th /\ made' = md /\ chain' = ch /\ host' = hs /\ acts' = as

(* An exception leaves the functions that native code has called, in the    *)
(* cothread of the call and in those resumed since.                         *)
CallsOfHost(x) == {i \in DOMAIN acts[x] : acts[x][i].function = Host}

Unwind ==
    LET k == Max({j \in DOMAIN chain : CallsOfHost(chain[j]) # {}})
        x == chain[k]
    IN  Effect([y \in Cothreads |->
                    IF y = x THEN SubSeq(acts[x], 1, Max(CallsOfHost(x)))
                    ELSE IF y \in ToSet(SubSeq(chain, k + 1, Len(chain))) THEN <<>>
                    ELSE acts[y]],
               SubSeq(chain, 1, k), Front(host), made, TRUE)

Fails(as, hs) ==
    IF Last(hs).kind = "execute" THEN Unwind ELSE Effect(as, chain, hs, made, TRUE)

CallFunction(as, hs, f, list) ==
    LET p == Code[f].param_count
        new == Activation(f, SubSeq(list, p + 1, Len(list)), <<f>> \o SubSeq(list, 1, p))
        run == IF hs # <<>> /\ Last(hs).kind = "execute" THEN hs
               ELSE Append(hs, [kind |-> "execute", args |-> <<>>])
    IN  IF Takes(f, Len(list))
        THEN Effect([as EXCEPT ![Running] = Append(@, new)], chain, run, made, FALSE)
        ELSE Fails(as, hs)

CallNative(as, hs, f, list) ==
    IF Takes(f, Len(list))
    THEN Effect(as, chain, Append(hs, [kind |-> "native", args |-> list]), made, FALSE)
    ELSE Fails(as, hs)

CallGenerator(as, hs, f, list) ==
    LET p == Code[f].param_count
        new == [Activation(f, SubSeq(list, p + 1, Len(list)), <<f>> \o SubSeq(list, 1, p))
                    EXCEPT !.wait.kind = "YIELD"]
    IN  IF Takes(f, Len(list))
        THEN \E g \in Cothreads \ made :
                Effect([Replaced(as, Running, Deliver(Last(as[Running]), <<g>>))
                            EXCEPT ![g] = <<new>>], chain, hs, made \union {g}, FALSE)
        ELSE Fails(as, hs)

CallCothread(as, hs, g, list) ==
    LET run == IF hs # <<>> /\ Last(hs).kind = "execute" THEN hs
               ELSE Append(hs, [kind |-> "execute", args |-> <<>>])
    IN  IF as[g] = <<>> THEN Fails(as, hs)
        ELSE Effect(Replaced(as, g, Deliver(Last(as[g]), list)), Append(chain, g), run, made, FALSE)

(* A constructor is given a new object, or null when it makes its own. *)
CallPrototype(as, hs, p, list) ==
    LET f == Constructor[p]
        a == Last(as[Running])
    IN  \E self \in Objects :
        LET self1 == IF Code[f].direct THEN Null ELSE self
            made1 == IF Code[f].direct THEN as
                     ELSE Replaced(as, Running,
                                   [a EXCEPT !.wait.kind = "CONSTRUCT", !.wait.self = self])
        IN  IF Code[f].generator THEN Fails(made1, hs)
            ELSE IF Code[f].native THEN CallNative(made1, hs, f, <<self1>> \o list)
            ELSE CallFunction(made1, hs, f, <<self1>> \o list)

CallValue(as, hs, u, list, ycall) ==
    \/ u \in Programs /\ Code[u].native /\ CallNative(as, hs, u, list)
    \/ u \in Programs /\ ~Code[u].native /\ Code[u].generator /\ ~ycall
          /\ CallGenerator(as, hs, u, list)
    \/ u \in Programs /\ ~Code[u].native /\ (Code[u].generator => ycall)
          /\ CallFunction(as, hs, u, list)
    \/ u \in Cothreads /\ CallCothread(as, hs, u, list)
    \/ u \in Prototypes /\ CallPrototype(as, hs, u, list)
    \/ u \notin Programs \union Cothreads \union Prototypes /\ Fails(as, hs)

-----------------------------------------------------------------------------
(* What a running function does.  Lists it passes are the end of what it holds. *)

Held == Top(Running).held
From(r) == SubSeq(Held, r + 1, Len(Held))
Waiting(r, kind, want, target) ==
    Replaced(acts, Running,
             [Top(Running) EXCEPT !.held = SubSeq(@, 1, r),
                                  !.wait = [kind |-> kind, want |-> want,
                                            target |-> target, self |-> Null]])
Wants == {ANY} \union 0 .. 2

Load ==
    /\ Interpreting
    /\ acts'[Running] # <<>> /\ Len(Last(acts'[Running]).held) > Len(Held)
    /\ \E v \in Values :
          Effect(Replaced(acts, Running, [Top(Running) EXCEPT !.held = Append(@, v)]),
                 chain, host, made, FALSE)

Call ==
    /\ Interpreting
    /\ \E r \in 1 .. Len(Held) - 1, ycall \in BOOLEAN :
       \E <<want, target>> \in (Wants \X {0}) \union (IF r > 1 THEN {<<1, 1>>} ELSE {}) :
          CallValue(Waiting(r, "CALL", want, target),
                    host, Held[r + 1], From(r + 1), ycall)

NewObject ==
    /\ Interpreting
    /\ \E a \in 1 .. Len(Held) - 1 :
          /\ Held[a + 1] \in Prototypes
          /\ CallPrototype(Waiting(Len(Held), "CALL", 1, a), host, Held[a + 1], <<>>)

ForEach ==
    /\ Interpreting
    /\ \E a \in 1 .. Len(Held) - 1 : \E r \in a + 1 .. Len(Held) :
          /\ Held[a + 1] \in Cothreads
          /\ CallCothread(Waiting(r, "FOR_EACH", 1, 0), host, Held[a + 1], <<>>)

Vararg ==
    /\ Interpreting
    /\ \E want \in Wants :
          Effect(Replaced(acts, Running, [Top(Running) EXCEPT !.held = @ \o Fit(Top(Running).extra, want)]),
                 chain, host, made, FALSE)

(* The list goes to the function below, or to the cothread below in the     *)
(* chain; a loop over a cothread that has returned ends.                    *)
Below == Last(Front(chain))
Given(x, list) == Append(Front(acts[x]), Deliver(Top(x), list))

Yield ==
    /\ Interpreting /\ Len(chain) > 1
    /\ \E r \in 1 .. Len(Held), want \in Wants :
          Effect([Waiting(r, "YIELD", want, 0) EXCEPT ![Below] = Given(Below, From(r))],
                 Front(chain), Resumes(Top(Below)), made, FALSE)

Return ==
    /\ Interpreting
    /\ LET rest == Front(acts[Running])
       IN  \E r \in 0 .. Len(Held) :
           \/ /\ rest # <<>>
              /\ Effect([acts EXCEPT ![Running] = Append(Front(rest), Deliver(Last(rest), From(r)))],
                        chain, Resumes(Last(rest)), made, FALSE)
           \/ /\ rest = <<>> /\ Top(Below).wait.kind # "FOR_EACH"
              /\ Effect([acts EXCEPT ![Running] = <<>>, ![Below] = Given(Below, From(r))],
                        Front(chain), Resumes(Top(Below)), made, FALSE)
           \/ /\ rest = <<>> /\ Top(Below).wait.kind = "FOR_EACH"
              /\ Effect([acts EXCEPT ![Running] = <<>>,
                                     ![Below] = Append(Front(@), [Last(@) EXCEPT !.wait = NoWait])],
                        Front(chain), host, made, FALSE)

-----------------------------------------------------------------------------
(* What native code does. *)

AtNative == host # <<>> => Last(host).kind = "native"

HostCall ==
    /\ ~thrown /\ AtNative
    /\ \E u \in Values \ Words, n \in 0 .. 2 : \E list \in {<<>> \o l : l \in [1 .. n -> Words]} :
          LET new == [Activation(Host, <<>>, <<>>) EXCEPT !.wait.kind = "CALL", !.wait.want = ANY]
          IN  CallValue([acts EXCEPT ![Running] = Append(@, new)],
                        Append(host, [kind |-> "call", args |-> <<>>]), u, list, FALSE)

HostReturn ==
    /\ ~thrown /\ host # <<>> /\ Last(host).kind = "call"
    /\ Effect([acts EXCEPT ![Running] = Front(@)], chain, Front(host), made, FALSE)

NativeReturn ==
    /\ ~thrown /\ host # <<>> /\ Last(host).kind = "native"
    /\ \E n \in 0 .. 2 : \E list \in {<<>> \o l : l \in [1 .. n -> Words]} :
          Effect(Replaced(acts, Running, Deliver(Top(Running), list)), chain, Front(host), made, FALSE)

Catch == thrown /\ AtNative /\ Effect(acts, chain, host, made, FALSE)

Throw ==
    \/ Interpreting /\ Unwind
    \/ ~thrown /\ host # <<>> /\ Last(host).kind = "native"
          /\ Effect(acts, chain, Front(host), made, TRUE)
    \/ thrown /\ host # <<>> /\ Last(host).kind = "execute" /\ Unwind
    \/ thrown /\ host # <<>> /\ Last(host).kind = "native"
          /\ Effect(acts, chain, Front(host), made, TRUE)
    \/ thrown /\ host # <<>> /\ Last(host).kind = "call"
          /\ Effect([acts EXCEPT ![Running] = Front(@)], chain, Front(host), made, TRUE)

-----------------------------------------------------------------------------
(* Two steps that keep less than is promised; Next has neither.  What the   *)
(* caller has after them is seen in the state they lead to.                 *)

(* From a it became b with the first of the list; the others are open.      *)
FirstArrives(a, list, b) ==
    LET d == Deliver(a, list)
        open == Len(a.held) + 2 .. Len(a.held) + Len(list)
    IN  /\ b = [d EXCEPT !.held = b.held] /\ Len(b.held) = Len(d.held)
        /\ \A i \in DOMAIN d.held \ open : b.held[i] = d.held[i]

PartialReturn ==
    LET rest == Front(acts[Running])
        got == Last(acts'[Running])
    IN  /\ Interpreting /\ rest # <<>>
        /\ \E r \in 0 .. Len(Held) : FirstArrives(Last(rest), From(r), got)
        /\ Effect([acts EXCEPT ![Running] = Append(Front(rest), got)],
                  chain, Resumes(Last(rest)), made, FALSE)

PartialYield ==
    LET rest == Front(acts[Running])
        got == Last(acts'[Below])
    IN  /\ Interpreting /\ Len(chain) > 1 /\ got.function = Top(Below).function
        /\ \E as \in {Waiting(r, "YIELD", want, 0) : r \in 1 .. Len(Held), want \in Wants}
                         \union {[acts EXCEPT ![Running] = rest]} :
              Effect([as EXCEPT ![Below] = Append(Front(@), got)],
                     Front(chain), Resumes(Top(Below)), made, FALSE)

Next ==
    \/ Throw \/ Catch \/ HostReturn \/ NativeReturn
    \/ Return \/ Yield \/ Vararg \/ ForEach \/ NewObject \/ Load \/ Call \/ HostCall

Spec == Init /\ [][Next]_vars
=============================================================================
