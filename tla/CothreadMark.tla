------------------------------ MODULE CothreadMark -----------------------------
(*****************************************************************************)
(* Marking cothreads (gc_mark_cothread in runtime/collector.cpp and          *)
(* mark_cothread in runtime/vmachine.cpp) while the mutator switches between *)
(* them (runtime/call_stack.cpp).  The mutator writes to the stack of the    *)
(* running cothread without a barrier, so the whole of a stack has to be     *)
(* marked before its cothread runs, by one thread or the other.              *)
(*                                                                           *)
(* One marking phase, from safepoint_start_mark to safepoint_start_sweep.  A *)
(* stack is the set of the values in it, those of its frames' functions      *)
(* included; what plain objects refer to does not change (Collector is about *)
(* the barrier that makes that no matter).  Mark lists are bags.  Memory is  *)
(* sequentially consistent here.                                             *)
(*****************************************************************************)
EXTENDS Integers, Sequences, FiniteSets, SequencesExt

CONSTANTS
  Cothreads, Objects,
  Null,      \* any value that is neither an object nor a string
  NumRefs,   \* how many references an object has
  MaxHeld,   \* bound on the references in a stack when the phase begins
  MaxPushed  \* bound on the mutator's mark list when a switch begins

ASSUME CothreadAssumption ==
  /\ IsFiniteSet(Cothreads) /\ IsFiniteSet(Objects)
  /\ Cothreads \cap Objects = {} /\ Null \notin Cothreads \cup Objects
  /\ NumRefs \in Nat /\ MaxHeld \in Nat /\ MaxPushed \in Nat

Refs   == Cothreads \cup Objects
Values == Refs \cup {Null}

VARIABLES
  color,          \* the colour in an object's header
  stack,          \* stack of each cothread
  refs,           \* what each plain object refers to
  fresh,          \* cothreads that have not been created
  done,           \* cothreads that have no stack frame left
  cothread,       \* vm->c->cothread, the running one
  cothread_stack, \* vm->c->cothread_stack, those that wait for it, in order
  vm_mark_list,   \* the mutator's mark list
  mark_mutex,     \* which thread holds it
  (* the mutator: where it is, the cothread it is switching to and why, and  *)
  (* the values mark_cothread has still to mark                              *)
  mpc, target, why, rest,
  (* the GC thread: its mark list, where it is, the object it scans, the     *)
  (* values it has still to look at, and the one it is marking               *)
  mark_list, gpc, cur, todo, ref,
  due             \* history: what this phase has to mark

stackVars == <<stack, done, cothread, cothread_stack>>
mutVars   == <<mpc, target, why, rest>>
gcVars    == <<mark_list, gpc, cur, todo, ref>>
vars == <<color, refs, fresh, due, stackVars, vm_mark_list, mark_mutex,
          mutVars, gcVars>>

EmptyList == [o \in Refs |-> 0]
Pushed(list, o) == [list EXCEPT ![o] = @ + 1]

Successors(S) ==
  ((UNION {stack[c] : c \in S \cap Cothreads}) \ {Null})
    \cup UNION {refs[o] : o \in S \cap Objects}

(* What can be reached from the objects of S, themselves included. *)
Reachable(S) ==
  {o \in Refs : \A T \in SUBSET Refs :
                  S \subseteq T /\ Successors(T) \subseteq T => o \in T}

Marking == gpc \notin {"swept", "crashed"} /\ mpc # "crashed"

(* After safepoint_start_mark: the running cothread is black and what its    *)
(* stack refers to is marked, those that wait for it are on the mark list.   *)
Init ==
  /\ cothread \in Cothreads
  /\ cothread_stack \in {<<>>} \cup {<<c>> : c \in Cothreads \ {cothread}}
  /\ fresh \in SUBSET (Cothreads \ ({cothread} \cup ToSet(cothread_stack)))
  /\ done = {}
  /\ LET born == Refs \ fresh IN
     /\ stack \in [Cothreads -> {S \in SUBSET (born \cup {Null}) \ {{}} :
                                  Cardinality(S \ {Null}) <= MaxHeld}]
     /\ \A c \in fresh : stack[c] = {Null}
     /\ refs \in [Objects -> {S \in SUBSET born : Cardinality(S) = NumRefs}]
  /\ LET marked == ToSet(cothread_stack) \cup (stack[cothread] \ {Null})
     IN  /\ mark_list = [o \in Refs |-> IF o \in marked THEN 1 ELSE 0]
         /\ color = [o \in Refs |-> IF o = cothread THEN "black"
                                    ELSE IF o \in marked THEN "MARKED"
                                    ELSE "white"]
  /\ due = Reachable({cothread} \cup ToSet(cothread_stack))
  /\ mark_mutex = "free"
  /\ mpc = "run" /\ target = Null /\ why = "none" /\ rest = {}
  /\ vm_mark_list = EmptyList
  /\ gpc = "mark" /\ cur = Null /\ todo = {} /\ ref = Null

-------------------------------------------------------------------------------
(* The mutator. *)

(* A value is loaded from an object and written to the running stack. *)
read(o, v) ==
  /\ Marking /\ mpc = "run"
  /\ o \in stack[cothread] \cap Objects /\ v \in refs[o]
  /\ stack' = [stack EXCEPT ![cothread] = @ \cup {v}]
  /\ UNCHANGED <<color, refs, fresh, due, done, cothread, cothread_stack,
                 vm_mark_list, mark_mutex, mutVars, gcVars>>

(* A value of the running stack is overwritten. *)
drop(v) ==
  /\ Marking /\ mpc = "run" /\ v \in stack[cothread]
  /\ stack' = [stack EXCEPT ![cothread] = @ \ {v}]
  /\ UNCHANGED <<color, refs, fresh, due, done, cothread, cothread_stack,
                 vm_mark_list, mark_mutex, mutVars, gcVars>>

(* A new cothread is black; its function and arguments come from the running *)
(* stack, which also gets the generator.                                     *)
call_generator(c, v) ==
  /\ Marking /\ mpc = "run" /\ c \in fresh /\ v \in stack[cothread] \ {Null}
  /\ fresh' = fresh \ {c}
  /\ color' = [color EXCEPT ![c] = "black"]
  /\ stack' = [stack EXCEPT ![c] = {v, Null}, ![cothread] = @ \cup {c}]
  /\ UNCHANGED <<refs, due, done, cothread, cothread_stack, vm_mark_list,
                 mark_mutex, mutVars, gcVars>>

(* Every switch marks the cothread it goes to first. *)
SwitchTo(c, reason) ==
  /\ Marking /\ mpc = "run"
  /\ SumFunction(vm_mark_list) <= MaxPushed
  /\ mpc' = "lock" /\ target' = c /\ why' = reason
  /\ UNCHANGED <<color, refs, fresh, due, stackVars, vm_mark_list, mark_mutex,
                 rest, gcVars>>

(* RESUME_YIELD is asserted of the top frame of the cothread called: it does *)
(* not run, nor wait for one that it called.                                 *)
Callable(c) == c # cothread /\ c \notin ToSet(cothread_stack)

call_cothread(c) ==
  /\ c \in stack[cothread] \cap Cothreads /\ Callable(c)
  /\ SwitchTo(c, "call")

call_yield ==
  cothread_stack # <<>> /\ SwitchTo(Last(cothread_stack), "yield")

(* The last frame of the running cothread returns, or unwind pops it. *)
call_return ==
  cothread_stack # <<>> /\ SwitchTo(Last(cothread_stack), "return")

(* Altered forms, here and below, are what the mutants put in the place of   *)
(* the definition that follows them; no specification uses them.             *)
NeedsMarkingUnlessGrey(c) == color[c] = "white"

(* "It doesn't matter if the cothread has been pushed onto the mark list". *)
NeedsMarking(c) == color[c] # "black"

mark_cothread_lock ==
  /\ mpc = "lock" /\ gpc # "crashed" /\ mark_mutex = "free"
  /\ IF NeedsMarking(target)
     THEN mpc' = "mark" /\ mark_mutex' = "mutator" /\ rest' = stack[target]
     ELSE mpc' = "enter" /\ UNCHANGED <<mark_mutex, rest>>
  /\ UNCHANGED <<color, refs, fresh, due, stackVars, vm_mark_list, target, why,
                 gcVars>>

(* write_barrier, whatever the value's colour; it takes what is not an       *)
(* object for a string, and writes to the header of an address that is none. *)
mark_cothread_value(v) ==
  /\ mpc = "mark" /\ gpc # "crashed" /\ v \in rest
  /\ IF v = Null
     THEN mpc' = "crashed" /\ UNCHANGED <<color, vm_mark_list, rest>>
     ELSE /\ color' = [color EXCEPT ![v] = "MARKED"]
          /\ vm_mark_list' = Pushed(vm_mark_list, v)
          /\ rest' = rest \ {v} /\ UNCHANGED mpc
  /\ UNCHANGED <<refs, fresh, due, stackVars, mark_mutex, target, why, gcVars>>

mark_cothread_unlock ==
  /\ mpc = "mark" /\ gpc # "crashed" /\ rest = {}
  /\ color' = [color EXCEPT ![target] = "black"]
  /\ mark_mutex' = "free" /\ mpc' = "enter"
  /\ UNCHANGED <<refs, fresh, due, stackVars, vm_mark_list, target, why, rest,
                 gcVars>>

(* The rest of call_cothread, call_yield or call_return: the switch, and an  *)
(* argument or result copied, or a null when there is none.                  *)
enter(v) ==
  /\ mpc = "enter" /\ gpc # "crashed"
  /\ v \in stack[cothread] \cup {Null}
  /\ IF why = "call" /\ target \in done
     THEN v = Null /\ UNCHANGED stackVars          \* "cothread is done"
     ELSE /\ cothread' = target
          /\ stack' = [stack EXCEPT ![target] = @ \cup {v}]
          /\ cothread_stack' = IF why = "call"
                               THEN Append(cothread_stack, cothread)
                               ELSE Front(cothread_stack)
          /\ done' = IF why = "return" THEN done \cup {cothread} ELSE done
  /\ mpc' = "run" /\ target' = Null /\ why' = "none"
  /\ UNCHANGED <<color, refs, fresh, due, vm_mark_list, mark_mutex, rest,
                 gcVars>>

KeepMarkList == vm_mark_list
EmptyMarkList == EmptyList

(* safepoint_handshake, when the GC thread is through with its mark list. *)
safepoint_handshake ==
  /\ mpc = "run" /\ gpc = "done"
  /\ IF vm_mark_list # EmptyList
     THEN /\ gpc' = "mark" /\ mark_list' = vm_mark_list
          /\ vm_mark_list' = EmptyMarkList
     ELSE gpc' = "swept" /\ UNCHANGED <<mark_list, vm_mark_list>>
  /\ UNCHANGED <<color, refs, fresh, due, stackVars, mark_mutex, mutVars, cur,
                 todo, ref>>

-------------------------------------------------------------------------------
(* The GC thread. *)

gc_pop(o) ==
  /\ Marking /\ gpc = "mark" /\ mark_list[o] > 0
  /\ mark_list' = [mark_list EXCEPT ![o] = @ - 1]
  /\ cur' = o
  /\ IF o \in Cothreads THEN gpc' = "lock" /\ todo' = {}
                         ELSE gpc' = "scan" /\ todo' = refs[o]
  /\ UNCHANGED <<color, refs, fresh, due, stackVars, vm_mark_list, mark_mutex,
                 mutVars, ref>>

gc_mark_cothread_lock ==
  /\ Marking /\ gpc = "lock" /\ mark_mutex = "free"
  /\ IF color[cur] = "black"
     THEN gpc' = "blacken" /\ UNCHANGED <<mark_mutex, todo>>
     ELSE gpc' = "scan" /\ mark_mutex' = "gc" /\ todo' = stack[cur] \ {Null}
  /\ UNCHANGED <<color, refs, fresh, due, stackVars, vm_mark_list, mutVars,
                 mark_list, cur, ref>>

(* gc_mark_value and gc_mark_object_ref: the colour is tested, then stored.  *)
gc_mark_test(v) ==
  /\ Marking /\ gpc = "scan" /\ v \in todo
  /\ todo' = todo \ {v}
  /\ IF color[v] = "white" THEN gpc' = "shade" /\ ref' = v
                           ELSE UNCHANGED <<gpc, ref>>
  /\ UNCHANGED <<color, refs, fresh, due, stackVars, vm_mark_list, mark_mutex,
                 mutVars, mark_list, cur>>

gc_mark_shade ==
  /\ Marking /\ gpc = "shade"
  /\ color' = [color EXCEPT ![ref] = "MARKED"]
  /\ mark_list' = Pushed(mark_list, ref)
  /\ ref' = Null /\ gpc' = "scan"
  /\ UNCHANGED <<refs, fresh, due, stackVars, vm_mark_list, mark_mutex, mutVars,
                 cur, todo>>

(* What a scan of the running stack reads is undefined: the mutator writes   *)
(* to it and reallocates it.  It may miss values, or read freed memory.      *)
ScansRunning == gpc = "scan" /\ cur = cothread /\ mpc = "run"

gc_scan_undefined ==
  /\ Marking /\ ScansRunning
  /\ \/ gpc' = "crashed" /\ UNCHANGED todo
     \/ \E v \in todo : todo' = todo \ {v} /\ UNCHANGED gpc
  /\ UNCHANGED <<color, refs, fresh, due, stackVars, vm_mark_list, mark_mutex,
                 mutVars, mark_list, cur, ref>>

gc_mark_cothread_unlock ==
  /\ Marking /\ gpc = "scan" /\ todo = {} /\ cur \in Cothreads
  /\ color' = [color EXCEPT ![cur] = "black"]
  /\ mark_mutex' = "free" /\ gpc' = "blacken"
  /\ UNCHANGED <<refs, fresh, due, stackVars, vm_mark_list, mutVars, mark_list,
                 cur, todo, ref>>

(* The end of gc_mark's loop blackens every object, cothreads again. *)
gc_blacken ==
  /\ Marking
  /\ gpc = "blacken" \/ (gpc = "scan" /\ todo = {} /\ cur \in Objects)
  /\ color' = [color EXCEPT ![cur] = "black"]
  /\ cur' = Null /\ gpc' = "mark"
  /\ UNCHANGED <<refs, fresh, due, stackVars, vm_mark_list, mark_mutex, mutVars,
                 mark_list, todo, ref>>

gc_mark_done ==
  /\ Marking /\ gpc = "mark" /\ mark_list = EmptyList
  /\ gpc' = "done"
  /\ UNCHANGED <<color, refs, fresh, due, stackVars, vm_mark_list, mark_mutex,
                 mutVars, mark_list, cur, todo, ref>>

-------------------------------------------------------------------------------
MutatorStep ==
  \/ \E v \in Values : \/ drop(v) \/ mark_cothread_value(v) \/ enter(v)
                       \/ \E o \in Objects : read(o, v)
                       \/ \E c \in Cothreads : call_generator(c, v)
  \/ \E c \in Cothreads : call_cothread(c)
  \/ call_yield \/ call_return
  \/ mark_cothread_lock \/ mark_cothread_unlock

GcStep ==
  \/ \E o \in Refs : gc_pop(o) \/ gc_mark_test(o)
  \/ gc_mark_cothread_lock \/ gc_mark_shade \/ gc_scan_undefined
  \/ gc_mark_cothread_unlock \/ gc_blacken \/ gc_mark_done

(* The phase is over, or the program has crashed. *)
Stopped == ~Marking /\ UNCHANGED vars

Next == MutatorStep \/ safepoint_handshake \/ GcStep \/ Stopped

Spec == Init /\ [][Next]_vars

(* The GC thread runs.  The mutator is assumed to reach safepoints.  *)
FairSpec == Spec /\ WF_vars(GcStep) /\ WF_vars(safepoint_handshake)

-------------------------------------------------------------------------------
(* When marking ends nothing is white that could be reached when it began,   *)
(* although the mutator pops values from the stacks it switches between      *)
(* without a barrier, and although it and the GC thread may both mark a      *)
(* cothread (mark_cothread, gc_mark_cothread).                               *)
DueIsMarked == gpc = "swept" => \A o \in due : color[o] # "white"

(* Marking ends once the program stops switching cothreads, whoever holds    *)
(* mark_mutex and however often objects were marked twice.                   *)
MarkingEnds == <>[](mpc = "run") => <>~Marking

-------------------------------------------------------------------------------
(* What makes DueIsMarked inductive.                                         *)

TypeOK ==
  /\ color \in [Refs -> {"white", "MARKED", "black"}]
  /\ stack \in [Cothreads -> SUBSET Values] /\ refs \in [Objects -> SUBSET Refs]
  /\ fresh \subseteq Cothreads /\ done \subseteq Cothreads
  /\ cothread \in Cothreads /\ cothread_stack \in Seq(Cothreads)
  /\ vm_mark_list \in [Refs -> Nat] /\ mark_list \in [Refs -> Nat]
  /\ mark_mutex \in {"free", "mutator", "gc"}
  /\ mpc \in {"run", "lock", "mark", "enter", "crashed"}
  /\ target \in Cothreads \cup {Null} /\ rest \subseteq Values
  /\ gpc \in {"mark", "lock", "scan", "shade", "blacken", "done", "swept", "crashed"}
  /\ cur \in Refs \cup {Null} /\ todo \subseteq Refs /\ ref \in Refs \cup {Null}
  /\ due \subseteq Refs

(* Which thread has the mutex, and what each thread is about.                *)
ControlInv ==
  /\ mpc \in {"lock", "mark", "enter"} => target \in Cothreads
  /\ mpc = "mark" => mark_mutex = "mutator"
  /\ gpc \in {"lock", "scan", "shade", "blacken"} => cur \in Refs
  /\ gpc = "lock" => cur \in Cothreads
  /\ gpc \in {"scan", "shade"} /\ cur \in Cothreads => mark_mutex = "gc"
  /\ gpc = "shade" => ref \in Refs
  /\ gpc \in {"done", "swept"} => mark_list = EmptyList
  /\ gpc = "swept" => vm_mark_list = EmptyList /\ mpc = "run"

(* Nothing has a reference to a cothread that is not created yet.            *)
FreshInv ==
  /\ \A c \in fresh : stack[c] \subseteq {Null}
  /\ \A c \in Cothreads : stack[c] \cap fresh = {}
  /\ \A o \in Objects : refs[o] \cap fresh = {}
  /\ cothread \notin fresh /\ target \notin fresh
  /\ ToSet(cothread_stack) \cap fresh = {}

IsWhite(o) == color[o] = "white"

(* The cothread whose stack the mutator writes to, or will without looking   *)
(* at colours again.                                                         *)
Runs(c) == c = cothread \/ (mpc = "enter" /\ c = target)

(* What the threads have taken in hand is not white; and mark_cothread has   *)
(* marked what it has passed.                                                *)
ShadedInv ==
  /\ \A o \in Refs : mark_list[o] > 0 \/ vm_mark_list[o] > 0 => ~IsWhite(o)
  /\ gpc \in {"lock", "scan", "shade", "blacken"} => ~IsWhite(cur)
  /\ \A c \in Cothreads : Runs(c) => ~IsWhite(c)
  /\ mpc = "mark" => \A v \in stack[target] \ (rest \cup {Null}) : ~IsWhite(v)

Content(o) == (IF o \in Cothreads THEN stack[o] ELSE refs[o]) \ {Null}

Scanned == gpc \in {"scan", "shade", "blacken"}
Listed(o) == mark_list[o] > 0 \/ vm_mark_list[o] > 0 \/ (gpc = "lock" /\ cur = o)

(* Objects whose content some thread is still going to look at.  A cothread  *)
(* on a list that is black is passed over, and no use is made of what one    *)
(* has that runs, or that the GC thread is already scanning.                 *)
Pending(o) ==
  /\ Listed(o)
  /\ o \in Cothreads => color[o] # "black" /\ ~Runs(o) /\ ~(Scanned /\ o = cur)

(* T has the white objects that marking comes to next, and those it would    *)
(* come to through the members of T.                                         *)
GreyClosed(T) ==
  /\ \A o \in Refs : Pending(o) \/ (IsWhite(o) /\ o \in T) =>
       \A v \in Content(o) : IsWhite(v) => v \in T
  /\ gpc \in {"scan", "shade"} /\ ~Runs(cur) => \A v \in todo : IsWhite(v) => v \in T
  /\ gpc = "shade" /\ IsWhite(ref) => ref \in T

(* Marking is still going to come to what has to be marked. *)
DueInv ==
  \A o \in due : IsWhite(o) => \A T \in SUBSET Refs : GreyClosed(T) => o \in T

CothreadInv == TypeOK /\ ControlInv /\ FreshInv /\ ShadedInv /\ DueInv

================================================================================
