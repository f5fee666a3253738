-------------------------- MODULE CothreadMarkProofs ---------------------------
(*****************************************************************************)
(* When marking ends nothing that could be reached when it began is white,   *)
(* for any number of cothreads and objects, whichever thread marked what.    *)
(*****************************************************************************)
EXTENDS CothreadMark, TLAPS

USE CothreadAssumption

LEMMA Disjoint ==
  /\ \A o \in Objects : o \notin Cothreads /\ o \in Refs /\ o \in Values
  /\ \A c \in Cothreads : c \notin Objects /\ c \in Refs /\ c \in Values
  /\ \A o \in Refs : o # Null /\ o \in Values /\ (o \in Cothreads \/ o \in Objects)
  /\ Null \in Values
BY DEF Refs, Values

(* What pushing does to a mark list. *)
LEMMA PushedIsListed ==
  ASSUME NEW list \in [Refs -> Nat], NEW o \in Refs
  PROVE  /\ Pushed(list, o) \in [Refs -> Nat]
         /\ Pushed(list, o)[o] > 0
         /\ \A x \in Refs : Pushed(list, o)[x] > 0 <=> x = o \/ list[x] > 0
BY DEF Pushed

(* The cothread that waits last, and what is left of the others. *)
LEMMA LastWaiting ==
  ASSUME cothread_stack \in Seq(Cothreads), cothread_stack # <<>>
  PROVE  /\ Last(cothread_stack) \in ToSet(cothread_stack)
         /\ Last(cothread_stack) \in Cothreads
BY DEF Last, ToSet

LEMMA OthersWait ==
  ASSUME NEW s \in Seq(Cothreads)
  PROVE  Front(s) \in Seq(Cothreads) /\ ToSet(Front(s)) \subseteq ToSet(s)
<1>1. CASE s = <<>>
  <2>1. Front(s) = <<>>
    BY <1>1 DEF Front
  <2> QED BY <2>1 DEF ToSet
<1>2. CASE s # <<>>
  BY <1>2 DEF Front, ToSet
<1> QED BY <1>1, <1>2

LEMMA OneMoreWaits ==
  ASSUME NEW s \in Seq(Cothreads), NEW c \in Cothreads
  PROVE  /\ Append(s, c) \in Seq(Cothreads)
         /\ ToSet(Append(s, c)) = ToSet(s) \cup {c}
<1>1. Append(s, c) \in Seq(Cothreads) /\ DOMAIN Append(s, c) = 1 .. Len(s) + 1
  OBVIOUS
<1>2. /\ \A i \in 1 .. Len(s) : Append(s, c)[i] = s[i]
      /\ Append(s, c)[Len(s) + 1] = c
  OBVIOUS
<1>3. DOMAIN Append(s, c) = DOMAIN s \cup {Len(s) + 1} /\ Len(s) + 1 \notin DOMAIN s
  BY <1>1
<1> QED BY <1>1, <1>2, <1>3 DEF ToSet

(* Marking still comes to what is due if each step only takes from the white *)
(* objects, and whatever showed the way to one that stays white before the   *)
(* step has marking come to it after the step.                               *)
LEMMA KeepDue ==
  ASSUME TypeOK, TypeOK', ControlInv, DueInv, due' = due,
         \A o \in Refs : IsWhite(o)' => IsWhite(o),
         \A T \in SUBSET Refs : GreyClosed(T)' =>
           /\ \A o \in Refs :
                Pending(o) \/ (IsWhite(o) /\ (o \in T \/ ~IsWhite(o)')) =>
                \A v \in Content(o) : IsWhite(v)' => v \in T
           /\ gpc \in {"scan", "shade"} /\ ~Runs(cur) =>
                \A v \in todo : IsWhite(v)' => v \in T
           /\ gpc = "shade" /\ color'[ref] = "white" => ref \in T
  PROVE  DueInv'
<1> SUFFICES ASSUME NEW x \in due, IsWhite(x)', NEW T \in SUBSET Refs,
                    GreyClosed(T)'
             PROVE  x \in T
  BY DEF DueInv
<1> DEFINE U == T \cup {o \in Refs : ~IsWhite(o)'}
<1>1. GreyClosed(U)
  <2>1. \A o \in Refs : Content(o) \subseteq Refs
    BY Disjoint DEF TypeOK, Content, Values
  <2>2. \A o \in Refs : Pending(o) \/ (IsWhite(o) /\ o \in U) =>
          \A v \in Content(o) : IsWhite(v) => v \in U
    BY <2>1
  <2>3. gpc \in {"scan", "shade"} /\ ~Runs(cur) =>
          \A v \in todo : IsWhite(v) => v \in U
    BY DEF TypeOK
  <2>4. gpc = "shade" /\ IsWhite(ref) => ref \in U
    BY DEF ControlInv, IsWhite
  <2> QED BY <2>2, <2>3, <2>4 DEF GreyClosed
<1>2. x \in U
  BY <1>1 DEF DueInv, TypeOK
<1> QED BY <1>2

(* The common case: no colour changes, and marking comes to all it did.      *)
LEMMA KeepDueByGrowth ==
  ASSUME TypeOK, TypeOK', ControlInv, DueInv, due' = due, color' = color,
         \A o \in Refs : Pending(o) \/ IsWhite(o) => Content(o)' = Content(o),
         \A o \in Refs : Pending(o) => Pending(o)',
         gpc \in {"scan", "shade"} /\ ~Runs(cur) =>
           /\ gpc' \in {"scan", "shade"} /\ cur' = cur /\ ~Runs(cur)'
           /\ todo \subseteq todo',
         gpc = "shade" => gpc' = "shade" /\ ref' = ref
  PROVE  DueInv'
<1>1. \A o : IsWhite(o)' <=> IsWhite(o)
  BY DEF IsWhite
<1>2. ASSUME NEW T \in SUBSET Refs, GreyClosed(T)'
      PROVE  /\ \A o \in Refs :
                  Pending(o) \/ (IsWhite(o) /\ (o \in T \/ ~IsWhite(o)')) =>
                  \A v \in Content(o) : IsWhite(v)' => v \in T
             /\ gpc \in {"scan", "shade"} /\ ~Runs(cur) =>
                  \A v \in todo : IsWhite(v)' => v \in T
             /\ gpc = "shade" /\ color'[ref] = "white" => ref \in T
  <2>1. \A o \in Refs : Pending(o) \/ (IsWhite(o) /\ (o \in T \/ ~IsWhite(o)')) =>
           \A v \in Content(o) : IsWhite(v)' => v \in T
    BY <1>1, <1>2 DEF GreyClosed
  <2>2. gpc \in {"scan", "shade"} /\ ~Runs(cur) =>
           \A v \in todo : IsWhite(v)' => v \in T
    BY <1>2 DEF GreyClosed
  <2>3. gpc = "shade" /\ color'[ref] = "white" => ref \in T
    BY <1>2 DEF GreyClosed, IsWhite
  <2> QED BY <2>1, <2>2, <2>3
<1> QED BY <1>1, <1>2, KeepDue

-------------------------------------------------------------------------------
(* Where the phase begins: what the running cothread has is grey, those that *)
(* wait are on the mark list, so what can be reached from them is white only *)
(* if marking comes to it.                                                   *)
LEMMA InitCothread == Init => CothreadInv
<1> SUFFICES ASSUME Init PROVE CothreadInv
  OBVIOUS
<1> DEFINE born == Refs \ fresh
           marked == ToSet(cothread_stack) \cup (stack[cothread] \ {Null})
<1>1. /\ cothread \in Cothreads /\ cothread \notin fresh /\ fresh \subseteq Cothreads
      /\ cothread_stack \in Seq(Cothreads)
      /\ ToSet(cothread_stack) \subseteq Cothreads \ fresh
  <2>1. CASE cothread_stack = <<>>
    BY <2>1 DEF Init, ToSet
  <2>2. ASSUME NEW c \in Cothreads, cothread_stack = <<c>>
        PROVE  cothread_stack \in Seq(Cothreads) /\ ToSet(cothread_stack) = {c}
    BY <2>2 DEF ToSet
  <2> QED BY <2>1, <2>2 DEF Init
<1>2. /\ stack \in [Cothreads -> SUBSET (born \cup {Null})]
      /\ \A c \in fresh : stack[c] = {Null}
      /\ refs \in [Objects -> SUBSET born]
  BY DEF Init
<1>3. /\ mark_list = [o \in Refs |-> IF o \in marked THEN 1 ELSE 0]
      /\ color = [o \in Refs |-> IF o = cothread THEN "black"
                                 ELSE IF o \in marked THEN "MARKED" ELSE "white"]
      /\ vm_mark_list = [o \in Refs |-> 0]
  BY DEF Init, EmptyList
<1>4. /\ due = Reachable({cothread} \cup ToSet(cothread_stack))
      /\ mpc = "run" /\ target = Null /\ rest = {} /\ mark_mutex = "free"
      /\ gpc = "mark" /\ cur = Null /\ todo = {} /\ ref = Null /\ done = {}
  BY DEF Init
<1>5. TypeOK
  <2>1. due \subseteq Refs
    BY <1>4 DEF Reachable
  <2>2. stack \in [Cothreads -> SUBSET Values] /\ refs \in [Objects -> SUBSET Refs]
    BY <1>2 DEF Values
  <2>3. /\ color \in [Refs -> {"white", "MARKED", "black"}]
        /\ vm_mark_list \in [Refs -> Nat] /\ mark_list \in [Refs -> Nat]
    BY <1>3
  <2> QED BY <1>1, <1>4, <2>1, <2>2, <2>3 DEF TypeOK
<1>6. ControlInv
  BY <1>4 DEF ControlInv
<1>7. FreshInv
  BY <1>1, <1>2, <1>4, Disjoint DEF FreshInv
<1>8. ShadedInv
  <2>1. \A o \in Refs : IsWhite(o) => o # cothread /\ o \notin marked
    BY <1>3 DEF IsWhite
  <2> QED BY <1>1, <1>3, <1>4, <2>1, Disjoint DEF ShadedInv, Runs
<1>9. DueInv
  <2> SUFFICES ASSUME NEW x \in due, IsWhite(x), NEW T \in SUBSET Refs, GreyClosed(T)
               PROVE  x \in T
    BY DEF DueInv
  <2> DEFINE U == T \cup {o \in Refs : ~IsWhite(o)}
  <2>1. \A o \in Refs : ~IsWhite(o) => o = cothread \/ o \in marked
    BY <1>3 DEF IsWhite
  <2>2. marked \subseteq Refs /\ \A o \in marked : ~IsWhite(o) /\ mark_list[o] > 0
    <3>1. marked \subseteq Refs
      BY <1>1, <1>2, Disjoint
    <3> QED BY <1>3, <3>1 DEF IsWhite
  <2>3. ~IsWhite(cothread)
    BY <1>1, <1>3, Disjoint DEF IsWhite
  <2>4. \A o \in marked : o # cothread => Pending(o)
    <3>1. \A o \in marked : o # cothread => color[o] = "MARKED"
      BY <1>3, <2>2
    <3> QED BY <1>4, <2>2, <3>1 DEF Pending, Listed, Runs, Scanned
  <2>5. \A o \in U : Content(o) \subseteq U
    <3> SUFFICES ASSUME NEW o \in U, NEW v \in Content(o), IsWhite(v) PROVE v \in T
      <4>1. ASSUME NEW o \in U, NEW v \in Content(o) PROVE v \in Refs
        BY <1>2, Disjoint DEF Content
      <4> QED BY <4>1
    <3>1. CASE o = cothread
      BY <1>1, <2>2, <3>1 DEF Content
    <3>2. CASE o # cothread /\ o \in marked
      BY <2>2, <2>4, <3>2 DEF GreyClosed
    <3>3. CASE IsWhite(o) /\ o \in T
      BY <3>3 DEF GreyClosed
    <3> QED BY <2>1, <3>1, <3>2, <3>3
  <2>6. Successors(U) \subseteq U
    <3>1. \A c \in U \cap Cothreads : stack[c] \ {Null} \subseteq U
      BY <2>5 DEF Content
    <3>2. \A o \in U \cap Objects : refs[o] \subseteq U
      BY <1>2, <2>5, Disjoint DEF Content
    <3> SUFFICES ASSUME NEW v \in Successors(U) PROVE v \in U
      OBVIOUS
    <3>3. \/ \E c \in U \cap Cothreads : v \in stack[c] \ {Null}
          \/ \E o \in U \cap Objects : v \in refs[o]
      BY Zenon DEF Successors
    <3> HIDE DEF U
    <3> QED BY <3>1, <3>2, <3>3
  <2>7. {cothread} \cup ToSet(cothread_stack) \subseteq U
    BY <1>1, <2>2, <2>3, Disjoint
  <2>8. U \in SUBSET Refs
    OBVIOUS
  <2>9. x \in U
    BY <1>4, <2>6, <2>7, <2>8 DEF Reachable
  <2> QED BY <2>9
<1> QED BY <1>5, <1>6, <1>7, <1>8, <1>9 DEF CothreadInv

-------------------------------------------------------------------------------
(* The mutator. *)

(* No use is made of what the running cothread has on its stack: it was      *)
(* marked before it ran.                                                     *)
LEMMA KeepRunningStack ==
  ASSUME CothreadInv, mpc = "run",
         UNCHANGED <<color, refs, fresh, due, done, cothread, cothread_stack,
                     vm_mark_list, mark_mutex, mutVars, gcVars>>,
         stack' \in [Cothreads -> SUBSET Values],
         \A c \in Cothreads : c # cothread => stack'[c] = stack[c],
         stack'[cothread] \cap fresh = {}
  PROVE  CothreadInv'
<1> USE DEF CothreadInv, mutVars, gcVars
<1>1. TypeOK'
  BY DEF TypeOK
<1>2. ControlInv'
  BY DEF ControlInv
<1>3. FreshInv'
  BY DEF FreshInv, TypeOK
<1>4. \A o : (IsWhite(o)' <=> IsWhite(o)) /\ (Runs(o)' <=> Runs(o))
            /\ (Pending(o)' <=> Pending(o))
  BY DEF IsWhite, Runs, Pending, Listed, Scanned
<1>5. ShadedInv'
  BY <1>4 DEF ShadedInv
<1>6. DueInv'
  <2>1. \A o \in Refs : Pending(o) \/ IsWhite(o) => Content(o)' = Content(o)
    BY DEF ShadedInv, Runs, Pending, Content
  <2> QED BY <1>1, <1>4, <2>1, KeepDueByGrowth
<1> QED BY <1>1, <1>2, <1>3, <1>5, <1>6

LEMMA KeepRead ==
  ASSUME CothreadInv, NEW o \in Objects, NEW v \in Values, read(o, v)
  PROVE  CothreadInv'
<1>1. cothread \in Cothreads /\ stack \in [Cothreads -> SUBSET Values]
  BY DEF CothreadInv, TypeOK
<1>2. v \notin fresh /\ stack[cothread] \cap fresh = {}
  BY <1>1 DEF CothreadInv, FreshInv, read
<1>3. stack' = [stack EXCEPT ![cothread] = stack[cothread] \cup {v}]
  BY DEF read
<1>4. stack' \in [Cothreads -> SUBSET Values] /\ stack'[cothread] \cap fresh = {}
  BY <1>1, <1>2, <1>3
<1> QED BY <1>1, <1>3, <1>4, KeepRunningStack DEF read

LEMMA KeepDrop ==
  ASSUME CothreadInv, NEW v \in Values, drop(v)
  PROVE  CothreadInv'
<1>1. cothread \in Cothreads /\ stack \in [Cothreads -> SUBSET Values]
  BY DEF CothreadInv, TypeOK
<1>2. stack' = [stack EXCEPT ![cothread] = stack[cothread] \ {v}]
  BY DEF drop
<1>3. stack[cothread] \cap fresh = {}
  BY <1>1 DEF CothreadInv, FreshInv
<1>4. stack' \in [Cothreads -> SUBSET Values] /\ stack'[cothread] \cap fresh = {}
  BY <1>1, <1>2, <1>3
<1> QED BY <1>1, <1>2, <1>4, KeepRunningStack DEF drop

(* A new cothread is black, and nothing marking has in hand depends on it.   *)
LEMMA KeepCallGenerator ==
  ASSUME CothreadInv, NEW c \in Cothreads, NEW v \in Values, call_generator(c, v)
  PROVE  CothreadInv'
<1> USE DEF CothreadInv, mutVars, gcVars
<1>1. /\ mpc = "run" /\ c \in fresh /\ v \in stack[cothread] \ {Null}
      /\ fresh' = fresh \ {c} /\ color' = [color EXCEPT ![c] = "black"]
      /\ UNCHANGED <<refs, due, done, cothread, cothread_stack, vm_mark_list,
                     mark_mutex, mutVars, gcVars>>
  BY DEF call_generator
<1>2. cothread \in Cothreads /\ c # cothread /\ v \in Refs /\ v \notin fresh
  BY <1>1, Disjoint DEF TypeOK, FreshInv, Values
<1>3. /\ stack' \in [Cothreads -> SUBSET Values]
      /\ stack'[c] = {v, Null}
      /\ stack'[cothread] = stack[cothread] \cup {c}
      /\ \A d \in Cothreads : d # c /\ d # cothread => stack'[d] = stack[d]
  <2>1. stack' = [stack EXCEPT ![c] = {v, Null}, ![cothread] = @ \cup {c}]
    BY DEF call_generator
  <2> QED BY <1>2, <2>1, Disjoint DEF TypeOK
<1>4. /\ color' \in [Refs -> {"white", "MARKED", "black"}] /\ color'[c] = "black"
      /\ \A o \in Refs : o # c => color'[o] = color[o]
  BY <1>1, Disjoint DEF TypeOK
<1>5. TypeOK'
  BY <1>1, <1>3, <1>4 DEF TypeOK
<1>6. ControlInv'
  BY <1>1 DEF ControlInv
<1>7. FreshInv'
  <2>1. \A d \in fresh' : d # c /\ d # cothread /\ d \in fresh /\ d \in Cothreads
    BY <1>1 DEF FreshInv, TypeOK
  <2>2. \A d \in fresh' : stack'[d] \subseteq {Null}
    BY <1>3, <2>1 DEF FreshInv
  <2>3. ASSUME NEW d \in Cothreads, NEW w \in fresh' PROVE w \notin stack'[d]
    <3>1. w \notin stack[d] /\ w # v /\ w # Null /\ w # c
      BY <1>2, <2>1, Disjoint DEF FreshInv
    <3> QED BY <1>2, <1>3, <3>1
  <2>4. \A d \in Cothreads : stack'[d] \cap fresh' = {}
    BY <2>3
  <2> QED BY <1>1, <2>2, <2>4 DEF FreshInv
<1>8. \A o \in Refs : (IsWhite(o)' => IsWhite(o)) /\ (IsWhite(o) /\ o # c => IsWhite(o)')
  BY <1>4 DEF IsWhite
<1>9. ShadedInv'
  BY <1>1, <1>8, Disjoint DEF ShadedInv, Runs, ControlInv, TypeOK
<1>10. DueInv'
  <2> SUFFICES ASSUME NEW T \in SUBSET Refs, GreyClosed(T)'
               PROVE  /\ \A o \in Refs :
                           Pending(o) \/ (IsWhite(o) /\ (o \in T \/ ~IsWhite(o)')) =>
                           \A w \in Content(o) : IsWhite(w)' => w \in T
                      /\ gpc \in {"scan", "shade"} /\ ~Runs(cur) =>
                           \A w \in todo : IsWhite(w)' => w \in T
                      /\ gpc = "shade" /\ color'[ref] = "white" => ref \in T
    BY <1>1, <1>5, <1>8, KeepDue
  <2>1. Content(c) = {}
    BY <1>1 DEF FreshInv, Content
  <2>2. \A o \in Refs : o # c /\ (Pending(o) \/ IsWhite(o)) =>
          Content(o)' = Content(o) /\ (Pending(o) => Pending(o)')
    BY <1>1, <1>3, <1>4 DEF Pending, Listed, Runs, Scanned, Content, ShadedInv, IsWhite
  <2>3. \A o \in Refs : Pending(o) \/ (IsWhite(o) /\ (o \in T \/ ~IsWhite(o)')) =>
          \A w \in Content(o) : IsWhite(w)' => w \in T
    BY <1>8, <2>1, <2>2 DEF GreyClosed
  <2>4. gpc \in {"scan", "shade"} /\ ~Runs(cur) => \A w \in todo : IsWhite(w)' => w \in T
    BY <1>1 DEF GreyClosed, Runs
  <2>5. gpc = "shade" /\ color'[ref] = "white" => ref \in T
    BY <1>1 DEF GreyClosed, IsWhite
  <2> QED BY <2>3, <2>4, <2>5
<1> QED BY <1>5, <1>6, <1>7, <1>9, <1>10

(* The decision to switch. *)
LEMMA KeepSwitchTo ==
  ASSUME CothreadInv, NEW c \in Cothreads, NEW reason, SwitchTo(c, reason),
         c \notin fresh
  PROVE  CothreadInv'
<1> USE DEF CothreadInv, mutVars, gcVars, stackVars
<1>1. /\ mpc = "run" /\ mpc' = "lock" /\ target' = c /\ gpc # "swept"
      /\ UNCHANGED <<color, refs, fresh, due, stackVars, vm_mark_list, mark_mutex,
                     rest, gcVars>>
  BY DEF SwitchTo, Marking
<1>2. TypeOK'
  BY <1>1 DEF TypeOK
<1>3. ControlInv'
  BY <1>1 DEF ControlInv
<1>4. FreshInv'
  BY <1>1 DEF FreshInv
<1>5. \A o : (IsWhite(o)' <=> IsWhite(o)) /\ (Runs(o)' <=> Runs(o))
            /\ (Pending(o)' <=> Pending(o)) /\ Content(o)' = Content(o)
  BY <1>1 DEF IsWhite, Runs, Pending, Listed, Scanned, Content
<1>6. ShadedInv'
  BY <1>1, <1>5 DEF ShadedInv
<1>7. DueInv'
  BY <1>1, <1>2, <1>5, KeepDueByGrowth
<1> QED BY <1>2, <1>3, <1>4, <1>6, <1>7

LEMMA KeepSwitch ==
  ASSUME CothreadInv,
         (\E c \in Cothreads : call_cothread(c)) \/ call_yield \/ call_return
  PROVE  CothreadInv'
<1>1. ASSUME NEW c \in Cothreads, call_cothread(c) PROVE CothreadInv'
  <2>1. c \notin fresh
    BY <1>1 DEF CothreadInv, TypeOK, FreshInv, call_cothread
  <2> QED BY <1>1, <2>1, KeepSwitchTo DEF call_cothread
<1>2. CASE call_yield \/ call_return
  <2>1. cothread_stack \in Seq(Cothreads) /\ cothread_stack # <<>>
    BY <1>2 DEF CothreadInv, TypeOK, call_yield, call_return
  <2>2. Last(cothread_stack) \in Cothreads /\ Last(cothread_stack) \notin fresh
    BY <2>1, LastWaiting DEF CothreadInv, FreshInv
  <2> QED BY <1>2, <2>2, KeepSwitchTo DEF call_yield, call_return
<1> QED BY <1>1, <1>2

(* The cothread switched to is black from here on, or its stack is marked.   *)
LEMMA KeepLock ==
  ASSUME CothreadInv, mark_cothread_lock
  PROVE  CothreadInv'
<1> USE DEF CothreadInv, stackVars, gcVars
<1>1. /\ mpc = "lock" /\ mark_mutex = "free"
      /\ target \in Cothreads /\ target \notin fresh /\ gpc # "swept"
      /\ \/ /\ color[target] # "black" /\ mpc' = "mark"
            /\ mark_mutex' = "mutator" /\ rest' = stack[target]
         \/ /\ color[target] = "black" /\ mpc' = "enter"
            /\ mark_mutex' = mark_mutex /\ rest' = rest
      /\ UNCHANGED <<color, refs, fresh, due, stackVars, vm_mark_list, target,
                     why, gcVars>>
  BY DEF mark_cothread_lock, NeedsMarking, ControlInv, FreshInv
<1>2. TypeOK'
  BY <1>1 DEF TypeOK
<1>3. ControlInv'
  BY <1>1 DEF ControlInv
<1>4. FreshInv'
  BY <1>1 DEF FreshInv
<1>5. \A o : /\ (IsWhite(o)' <=> IsWhite(o)) /\ Content(o)' = Content(o)
             /\ o # target \/ color[target] # "black" => (Runs(o)' <=> Runs(o))
  BY <1>1 DEF IsWhite, Content, Runs
<1>6. \A o \in Refs : Pending(o) => Pending(o)'
  BY <1>1, <1>5 DEF Pending, Listed, Scanned
<1>7. ShadedInv'
  <2>1. \A c \in Cothreads : Runs(c)' => ~IsWhite(c)'
    BY <1>1, <1>5 DEF ShadedInv, IsWhite
  <2> QED BY <1>1, <1>5, <2>1 DEF ShadedInv
<1>8. DueInv'
  <2>1. gpc \in {"scan", "shade"} => cur # target
    BY <1>1 DEF ControlInv
  <2> QED BY <1>1, <1>2, <1>5, <1>6, <2>1, KeepDueByGrowth
<1> QED BY <1>2, <1>3, <1>4, <1>7, <1>8

(* What a thread has just marked was white, and is on its mark list, so that *)
(* marking still comes to what it has; or it was marked already.             *)
LEMMA ShadedIsPending ==
  ASSUME TypeOK, ShadedInv, NEW v \in Refs,
         color' = [color EXCEPT ![v] = "MARKED"],
         \A o \in Refs : (mark_list[o] > 0 \/ vm_mark_list[o] > 0)' <=>
                           o = v \/ mark_list[o] > 0 \/ vm_mark_list[o] > 0,
         UNCHANGED <<stackVars, mpc, target, cur>>,
         gpc' = gpc \/ (gpc = "shade" /\ gpc' = "scan")
  PROVE  /\ color' \in [Refs -> {"white", "MARKED", "black"}]
         /\ \A o \in Refs : /\ Pending(o) => Pending(o)'
                            /\ IsWhite(o)' => IsWhite(o) /\ o # v
                            /\ IsWhite(o) /\ o # v => IsWhite(o)'
         /\ IsWhite(v) => Pending(v)'
<1> USE DEF stackVars
<1>1. /\ color' \in [Refs -> {"white", "MARKED", "black"}] /\ color'[v] = "MARKED"
      /\ \A o \in Refs : o # v => color'[o] = color[o]
  BY DEF TypeOK
<1>2. \A o : (Runs(o)' <=> Runs(o)) /\ ((Scanned /\ o = cur)' <=> (Scanned /\ o = cur))
  BY DEF Runs, Scanned
<1>3. \A o \in Refs : Listed(o)' <=> o = v \/ Listed(o)
  BY DEF Listed
<1>4. \A o \in Refs : Pending(o) => Pending(o)'
  BY <1>1, <1>2, <1>3 DEF Pending
<1>5. \A o \in Refs : (IsWhite(o)' => IsWhite(o) /\ o # v)
                      /\ (IsWhite(o) /\ o # v => IsWhite(o)')
  BY <1>1 DEF IsWhite
<1>6. ASSUME IsWhite(v) PROVE Pending(v)'
  <2>1. (v \in Cothreads => ~Runs(v)) /\ ~(Scanned /\ v = cur)
    BY <1>6 DEF ShadedInv, Scanned
  <2> QED BY <1>1, <1>2, <1>3, <2>1 DEF Pending
<1> QED BY <1>1, <1>4, <1>5, <1>6

LEMMA KeepValue ==
  ASSUME CothreadInv, NEW v \in Values, mark_cothread_value(v)
  PROVE  CothreadInv'
<1> USE DEF CothreadInv, stackVars, gcVars
<1>1. /\ mpc = "mark" /\ gpc # "crashed" /\ v \in rest
      /\ UNCHANGED <<refs, fresh, due, stackVars, mark_mutex, target, why, gcVars>>
  BY DEF mark_cothread_value
<1>2. CASE v = Null
  <2>1. mpc' = "crashed" /\ UNCHANGED <<color, vm_mark_list, rest>>
    BY <1>2 DEF mark_cothread_value
  <2>2. TypeOK'
    BY <1>1, <2>1 DEF TypeOK
  <2>3. ControlInv' /\ FreshInv'
    BY <1>1, <2>1 DEF ControlInv, FreshInv
  <2>4. \A o : /\ (IsWhite(o)' <=> IsWhite(o)) /\ (Runs(o)' <=> Runs(o))
               /\ (Pending(o)' <=> Pending(o)) /\ Content(o)' = Content(o)
    BY <1>1, <2>1 DEF IsWhite, Runs, Pending, Listed, Scanned, Content
  <2>5. ShadedInv'
    BY <1>1, <2>1, <2>4 DEF ShadedInv
  <2>6. DueInv'
    BY <1>1, <2>1, <2>2, <2>4, KeepDueByGrowth
  <2> QED BY <2>2, <2>3, <2>5, <2>6
<1>3. CASE v # Null
  <2>1. /\ v \in Refs /\ color' = [color EXCEPT ![v] = "MARKED"]
        /\ vm_mark_list' = Pushed(vm_mark_list, v)
        /\ rest' = rest \ {v} /\ mpc' = mpc
    BY <1>3 DEF mark_cothread_value, Values
  <2>2. /\ vm_mark_list' \in [Refs -> Nat]
        /\ \A o \in Refs : vm_mark_list'[o] > 0 <=> o = v \/ vm_mark_list[o] > 0
    BY <2>1, PushedIsListed DEF TypeOK
  <2>3. /\ color' \in [Refs -> {"white", "MARKED", "black"}]
        /\ \A o \in Refs : /\ Pending(o) => Pending(o)'
                           /\ IsWhite(o)' => IsWhite(o) /\ o # v
                           /\ IsWhite(o) /\ o # v => IsWhite(o)'
        /\ IsWhite(v) => Pending(v)'
    <3>1. \A o \in Refs : (mark_list[o] > 0 \/ vm_mark_list[o] > 0)' <=>
                            o = v \/ mark_list[o] > 0 \/ vm_mark_list[o] > 0
      BY <1>1, <2>2
    <3> QED BY <1>1, <2>1, <3>1, ShadedIsPending
  <2>4. TypeOK'
    BY <1>1, <2>1, <2>2, <2>3 DEF TypeOK
  <2>5. ControlInv' /\ FreshInv'
    BY <1>1, <2>1 DEF ControlInv, FreshInv
  <2>6. ShadedInv'
    <3>1. \A o \in Refs : mark_list'[o] > 0 \/ vm_mark_list'[o] > 0 => ~IsWhite(o)'
      BY <1>1, <2>2, <2>3 DEF ShadedInv
    <3>2. gpc' \in {"lock", "scan", "shade", "blacken"} => ~IsWhite(cur)'
      BY <1>1, <2>3 DEF ShadedInv, ControlInv, IsWhite
    <3>3. \A c \in Cothreads : Runs(c)' => ~IsWhite(c)'
      BY <1>1, <2>1, <2>3, Disjoint DEF ShadedInv, Runs
    <3>4. \A w \in stack'[target'] \ (rest' \cup {Null}) : ~IsWhite(w)'
      <4>1. stack[target] \subseteq Values
        BY <1>1 DEF TypeOK, ControlInv
      <4> QED BY <1>1, <2>1, <2>3, <4>1 DEF ShadedInv, Values
    <3> QED BY <3>1, <3>2, <3>3, <3>4 DEF ShadedInv
  <2>7. DueInv'
    <3> SUFFICES ASSUME NEW T \in SUBSET Refs, GreyClosed(T)'
                 PROVE  /\ \A o \in Refs :
                             Pending(o) \/ (IsWhite(o) /\ (o \in T \/ ~IsWhite(o)')) =>
                             \A w \in Content(o) : IsWhite(w)' => w \in T
                        /\ gpc \in {"scan", "shade"} /\ ~Runs(cur) =>
                             \A w \in todo : IsWhite(w)' => w \in T
                        /\ gpc = "shade" /\ color'[ref] = "white" => ref \in T
      BY <1>1, <2>3, <2>4, KeepDue
    <3>1. \A o : Content(o)' = Content(o) /\ (Runs(o)' <=> Runs(o))
      BY <1>1, <2>1 DEF Content, Runs
    <3>2. \A o \in Refs : Pending(o) \/ (IsWhite(o) /\ (o \in T \/ ~IsWhite(o)')) =>
             \A w \in Content(o) : IsWhite(w)' => w \in T
      BY <2>3, <3>1 DEF GreyClosed
    <3>3. gpc \in {"scan", "shade"} /\ ~Runs(cur) => \A w \in todo : IsWhite(w)' => w \in T
      BY <1>1, <3>1 DEF GreyClosed, Runs
    <3>4. gpc = "shade" /\ color'[ref] = "white" => ref \in T
      BY <1>1 DEF GreyClosed, IsWhite
    <3> QED BY <3>2, <3>3, <3>4
  <2> QED BY <2>4, <2>5, <2>6, <2>7
<1> QED BY <1>2, <1>3

(* Once all of the stack is marked the cothread is black, and may run.       *)
LEMMA KeepUnlock ==
  ASSUME CothreadInv, mark_cothread_unlock
  PROVE  CothreadInv'
<1> USE DEF CothreadInv, stackVars, gcVars
<1>1. /\ mpc = "mark" /\ gpc # "swept" /\ rest = {} /\ target \in Cothreads
      /\ mark_mutex = "mutator" /\ mark_mutex' = "free" /\ mpc' = "enter"
      /\ color' = [color EXCEPT ![target] = "black"]
      /\ UNCHANGED <<refs, fresh, due, stackVars, vm_mark_list, target, why, rest,
                     gcVars>>
  BY DEF mark_cothread_unlock, ControlInv
<1>2. /\ color' \in [Refs -> {"white", "MARKED", "black"}] /\ color'[target] = "black"
      /\ \A o \in Refs : o # target => color'[o] = color[o]
  BY <1>1, Disjoint DEF TypeOK
<1>3. TypeOK'
  BY <1>1, <1>2 DEF TypeOK
<1>4. ControlInv'
  BY <1>1 DEF ControlInv
<1>5. FreshInv'
  BY <1>1 DEF FreshInv
<1>6. \A o \in Refs : /\ IsWhite(o)' => IsWhite(o)
                      /\ IsWhite(o) /\ o # target => IsWhite(o)'
  BY <1>2 DEF IsWhite
<1>7. \A o : o # target => (Runs(o)' <=> Runs(o))
  BY <1>1 DEF Runs
<1>8. ShadedInv'
  <2>1. \A c \in Cothreads : Runs(c)' => ~IsWhite(c)'
    BY <1>2, <1>6, <1>7, Disjoint DEF ShadedInv, IsWhite
  <2>2. gpc' \in {"lock", "scan", "shade", "blacken"} => ~IsWhite(cur)'
    BY <1>1, <1>6 DEF ShadedInv, ControlInv, IsWhite
  <2> QED BY <1>1, <1>6, <2>1, <2>2 DEF ShadedInv
<1>9. DueInv'
  <2> SUFFICES ASSUME NEW T \in SUBSET Refs, GreyClosed(T)'
               PROVE  /\ \A o \in Refs :
                           Pending(o) \/ (IsWhite(o) /\ (o \in T \/ ~IsWhite(o)')) =>
                           \A w \in Content(o) : IsWhite(w)' => w \in T
                      /\ gpc \in {"scan", "shade"} /\ ~Runs(cur) =>
                           \A w \in todo : IsWhite(w)' => w \in T
                      /\ gpc = "shade" /\ color'[ref] = "white" => ref \in T
    BY <1>1, <1>3, <1>6, KeepDue
  <2>1. \A w \in Content(target) : ~IsWhite(w)'
    <3>1. Content(target) \subseteq Refs
      BY <1>1 DEF Content, TypeOK, Values
    <3>2. \A w \in Content(target) : ~IsWhite(w)
      BY <1>1 DEF Content, ShadedInv
    <3> QED BY <1>6, <3>1, <3>2
  <2>2. \A o \in Refs : Content(o)' = Content(o)
                      /\ (Pending(o) /\ o # target => Pending(o)')
    BY <1>1, <1>2, <1>7 DEF Content, Pending, Listed, Scanned
  <2>3. \A o \in Refs : Pending(o) \/ (IsWhite(o) /\ (o \in T \/ ~IsWhite(o)')) =>
           \A w \in Content(o) : IsWhite(w)' => w \in T
    BY <1>6, <2>1, <2>2 DEF GreyClosed
  <2>4. gpc \in {"scan", "shade"} /\ ~Runs(cur) => \A w \in todo : IsWhite(w)' => w \in T
    <3>1. gpc \in {"scan", "shade"} => cur # target
      BY <1>1 DEF ControlInv
    <3> QED BY <1>1, <3>1 DEF GreyClosed, Runs
  <2>5. gpc = "shade" /\ color'[ref] = "white" => ref \in T
    BY <1>1 DEF GreyClosed, IsWhite
  <2> QED BY <2>3, <2>4, <2>5
<1> QED BY <1>3, <1>4, <1>5, <1>8, <1>9

(* The switch: the stack written to is that of a cothread that is not white, *)
(* and no use is made of it from before the switch.                          *)
LEMMA KeepEnter ==
  ASSUME CothreadInv, NEW v \in Values, enter(v)
  PROVE  CothreadInv'
<1> USE DEF CothreadInv, gcVars
<1>1. /\ mpc = "enter" /\ mpc' = "run" /\ target' = Null /\ gpc # "swept"
      /\ target \in Cothreads /\ target \notin fresh
      /\ v \in stack[cothread] \cup {Null}
      /\ UNCHANGED <<color, refs, fresh, due, vm_mark_list, mark_mutex, rest,
                     gcVars>>
  BY DEF enter, ControlInv, FreshInv
<1>2. /\ cothread' \in {cothread, target}
      /\ stack' \in [Cothreads -> SUBSET Values]
      /\ \A c \in Cothreads : c # target => stack'[c] = stack[c]
      /\ stack'[target] \subseteq stack[target] \cup {v}
      /\ done' \subseteq Cothreads
      /\ cothread_stack' \in Seq(Cothreads)
      /\ ToSet(cothread_stack') \subseteq ToSet(cothread_stack) \cup {cothread}
  <2>1. CASE why = "call" /\ target \in done
    BY <1>1, <2>1 DEF enter, stackVars, TypeOK
  <2>2. CASE ~(why = "call" /\ target \in done)
    <3>1. /\ cothread' = target /\ stack' = [stack EXCEPT ![target] = @ \cup {v}]
          /\ \/ cothread_stack' = Append(cothread_stack, cothread)
             \/ cothread_stack' = Front(cothread_stack)
          /\ done' = done \cup {cothread} \/ done' = done
      BY <2>2 DEF enter
    <3>2. /\ cothread_stack' \in Seq(Cothreads)
          /\ ToSet(cothread_stack') \subseteq ToSet(cothread_stack) \cup {cothread}
      <4>1. cothread \in Cothreads /\ cothread_stack \in Seq(Cothreads)
        BY DEF TypeOK
      <4>2. CASE cothread_stack' = Append(cothread_stack, cothread)
        BY <4>1, <4>2, OneMoreWaits
      <4>3. CASE cothread_stack' = Front(cothread_stack)
        BY <4>1, <4>3, OthersWait
      <4> QED BY <3>1, <4>2, <4>3
    <3>3. /\ stack' \in [Cothreads -> SUBSET Values]
          /\ stack'[target] = stack[target] \cup {v}
          /\ \A c \in Cothreads : c # target => stack'[c] = stack[c]
      BY <1>1, <3>1 DEF TypeOK
    <3>4. done' \subseteq Cothreads
      BY <3>1 DEF TypeOK
    <3> QED BY <3>1, <3>2, <3>3, <3>4
  <2> QED BY <2>1, <2>2
<1>3. TypeOK'
  BY <1>1, <1>2 DEF TypeOK
<1>4. ControlInv'
  BY <1>1 DEF ControlInv
<1>5. FreshInv'
  <2>1. v \notin fresh /\ Null \notin fresh
    BY <1>1, Disjoint DEF FreshInv, TypeOK
  <2>2. \A c \in fresh : stack'[c] \subseteq {Null}
    BY <1>1, <1>2 DEF FreshInv, TypeOK
  <2>3. \A c \in Cothreads : stack'[c] \cap fresh = {}
    BY <1>2, <2>1 DEF FreshInv
  <2> QED BY <1>1, <1>2, <2>1, <2>2, <2>3 DEF FreshInv
<1>6. \A o : (IsWhite(o)' <=> IsWhite(o)) /\ (Runs(o)' => Runs(o))
  BY <1>1, <1>2 DEF IsWhite, Runs
<1>7. ShadedInv'
  BY <1>1, <1>6 DEF ShadedInv
<1>8. DueInv'
  <2>1. \A o \in Refs : Pending(o) => Pending(o)'
    BY <1>1, <1>6 DEF Pending, Listed, Scanned
  <2>2. Runs(target)
    BY <1>1 DEF Runs
  <2>3. \A o \in Refs : Pending(o) \/ IsWhite(o) => Content(o)' = Content(o)
    <3>1. \A o \in Refs : o # target => Content(o)' = Content(o)
      BY <1>1, <1>2 DEF Content
    <3> QED BY <1>1, <2>2, <3>1 DEF Pending, ShadedInv
  <2> QED BY <1>1, <1>3, <1>6, <2>1, <2>3, KeepDueByGrowth
<1> QED BY <1>3, <1>4, <1>5, <1>7, <1>8

(* The handshake hands the mutator's list to the GC thread, or there is none.*)
LEMMA KeepHandshake ==
  ASSUME CothreadInv, safepoint_handshake
  PROVE  CothreadInv'
<1> USE DEF CothreadInv, stackVars, mutVars
<1>1. /\ mpc = "run" /\ gpc = "done" /\ mark_list = EmptyList
      /\ \/ /\ gpc' = "mark" /\ mark_list' = vm_mark_list
            /\ vm_mark_list' = EmptyList
         \/ /\ gpc' = "swept" /\ vm_mark_list = EmptyList
            /\ UNCHANGED <<mark_list, vm_mark_list>>
      /\ UNCHANGED <<color, refs, fresh, due, stackVars, mark_mutex, mutVars, cur,
                     todo, ref>>
  BY DEF safepoint_handshake, EmptyMarkList, ControlInv
<1>2. EmptyList \in [Refs -> Nat] /\ \A o \in Refs : EmptyList[o] = 0
  BY DEF EmptyList
<1>3. TypeOK'
  BY <1>1, <1>2 DEF TypeOK
<1>4. ControlInv'
  BY <1>1 DEF ControlInv
<1>5. FreshInv'
  BY <1>1 DEF FreshInv
<1>6. \A o \in Refs : mark_list'[o] > 0 \/ vm_mark_list'[o] > 0 <=>
                      mark_list[o] > 0 \/ vm_mark_list[o] > 0
  BY <1>1, <1>2
<1>7. \A o \in Refs : /\ (IsWhite(o)' <=> IsWhite(o)) /\ (Runs(o)' <=> Runs(o))
                      /\ (Pending(o)' <=> Pending(o)) /\ Content(o)' = Content(o)
  BY <1>1, <1>6 DEF IsWhite, Runs, Pending, Listed, Scanned, Content
<1>8. ShadedInv'
  BY <1>1, <1>6, <1>7, Disjoint DEF ShadedInv
<1>9. DueInv'
  BY <1>1, <1>3, <1>7, KeepDueByGrowth
<1> QED BY <1>3, <1>4, <1>5, <1>8, <1>9

-------------------------------------------------------------------------------
(* The GC thread. *)

(* A popped cothread stays listed until the colour is looked at; a popped    *)
(* object's references are what is left to look at.                          *)
LEMMA KeepPop ==
  ASSUME CothreadInv, NEW x \in Refs, gc_pop(x)
  PROVE  CothreadInv'
<1> USE DEF CothreadInv, stackVars, mutVars
<1>1. /\ gpc = "mark" /\ mark_list[x] > 0
      /\ mark_list' = [mark_list EXCEPT ![x] = @ - 1] /\ cur' = x
      /\ \/ x \in Cothreads /\ gpc' = "lock" /\ todo' = {}
         \/ x \in Objects /\ gpc' = "scan" /\ todo' = refs[x]
      /\ UNCHANGED <<color, refs, fresh, due, stackVars, vm_mark_list, mark_mutex,
                     mutVars, ref>>
  BY Disjoint DEF gc_pop
<1>2. /\ mark_list' \in [Refs -> Nat]
      /\ \A o \in Refs : o # x => mark_list'[o] = mark_list[o]
      /\ \A o \in Refs : mark_list'[o] > 0 => mark_list[o] > 0
  BY <1>1 DEF TypeOK
<1>3. TypeOK'
  <2>1. todo' \subseteq Refs
    BY <1>1 DEF TypeOK
  <2> QED BY <1>1, <1>2, <2>1 DEF TypeOK
<1>4. ControlInv'
  BY <1>1, Disjoint DEF ControlInv
<1>5. FreshInv'
  BY <1>1 DEF FreshInv
<1>6. \A o : /\ (IsWhite(o)' <=> IsWhite(o)) /\ (Runs(o)' <=> Runs(o))
             /\ Content(o)' = Content(o)
  BY <1>1 DEF IsWhite, Runs, Content
<1>7. ShadedInv'
  <2>1. color'[cur'] # "white"
    BY <1>1 DEF ShadedInv, IsWhite
  <2> QED BY <1>1, <1>2, <1>6, <2>1 DEF ShadedInv, IsWhite
<1>8. DueInv'
  <2> SUFFICES ASSUME NEW T \in SUBSET Refs, GreyClosed(T)'
               PROVE  \A o \in Refs :
                        Pending(o) \/ (IsWhite(o) /\ (o \in T \/ ~IsWhite(o)')) =>
                        \A w \in Content(o) : IsWhite(w)' => w \in T
    BY <1>1, <1>3, <1>6, KeepDue
  <2>1. \A o \in Refs : o # x => (Listed(o) => Listed(o)')
    BY <1>1, <1>2 DEF Listed
  <2>2. x \in Cothreads => Listed(x)'
    BY <1>1, Disjoint DEF Listed
  <2>3. \A o \in Refs : Pending(o) /\ (o # x \/ x \in Cothreads) => Pending(o)'
    BY <1>1, <1>6, <2>1, <2>2, Disjoint DEF Pending, Scanned
  <2>4. x \in Objects => \A w \in Content(x) : IsWhite(w)' => w \in T
    <3>1. ASSUME x \in Objects PROVE ~Runs(x) /\ gpc' = "scan" /\ todo' = refs[x]
      BY <1>1, <3>1, Disjoint DEF Runs, TypeOK, ControlInv
    <3>2. ASSUME x \in Objects PROVE \A w \in todo' : IsWhite(w)' => w \in T
      BY <1>1, <1>6, <3>1, <3>2 DEF GreyClosed, Runs
    <3> QED BY <3>1, <3>2, Disjoint DEF Content
  <2> QED BY <1>6, <2>3, <2>4, Disjoint DEF GreyClosed
<1> QED BY <1>3, <1>4, <1>5, <1>7, <1>8

(* A cothread that is black is passed over; the stack of any other is looked *)
(* at while the mutex keeps the mutator from running it.                     *)
LEMMA KeepGcLock ==
  ASSUME CothreadInv, gc_mark_cothread_lock
  PROVE  CothreadInv'
<1> USE DEF CothreadInv, stackVars, mutVars
<1>1. /\ gpc = "lock" /\ mark_mutex = "free" /\ cur \in Cothreads /\ mpc # "mark"
      /\ \/ /\ color[cur] = "black" /\ gpc' = "blacken"
            /\ UNCHANGED <<mark_mutex, todo>>
         \/ /\ color[cur] # "black" /\ gpc' = "scan" /\ mark_mutex' = "gc"
            /\ todo' = stack[cur] \ {Null}
      /\ UNCHANGED <<color, refs, fresh, due, stackVars, vm_mark_list, mutVars,
                     mark_list, cur, ref>>
  BY DEF gc_mark_cothread_lock, ControlInv
<1>2. TypeOK'
  <2>1. stack[cur] \ {Null} \subseteq Refs
    BY <1>1 DEF TypeOK, Values
  <2> QED BY <1>1, <2>1 DEF TypeOK
<1>3. ControlInv'
  BY <1>1 DEF ControlInv
<1>4. FreshInv'
  BY <1>1 DEF FreshInv
<1>5. \A o : /\ (IsWhite(o)' <=> IsWhite(o)) /\ (Runs(o)' <=> Runs(o))
             /\ Content(o)' = Content(o)
  BY <1>1 DEF IsWhite, Runs, Content
<1>6. ShadedInv'
  BY <1>1, <1>5 DEF ShadedInv, IsWhite
<1>7. DueInv'
  <2> SUFFICES ASSUME NEW T \in SUBSET Refs, GreyClosed(T)'
               PROVE  \A o \in Refs :
                        Pending(o) \/ (IsWhite(o) /\ (o \in T \/ ~IsWhite(o)')) =>
                        \A w \in Content(o) : IsWhite(w)' => w \in T
    BY <1>1, <1>2, <1>5, KeepDue
  <2>1. \A o \in Refs : Pending(o) /\ o # cur => Pending(o)'
    BY <1>1, <1>5 DEF Pending, Listed
  <2>2. Pending(cur) => \A w \in Content(cur) : IsWhite(w)' => w \in T
    <3>1. Pending(cur) => gpc' = "scan" /\ todo' = Content(cur) /\ ~Runs(cur)
      BY <1>1 DEF Pending, Content
    <3>2. Runs(cur)' <=> Runs(cur)
      BY <1>1 DEF Runs
    <3> QED BY <3>1, <3>2 DEF GreyClosed
  <2> QED BY <1>5, <2>1, <2>2 DEF GreyClosed
<1> QED BY <1>2, <1>3, <1>4, <1>6, <1>7

(* A value found white is in the GC thread's hand until it is shaded.        *)
LEMMA KeepTest ==
  ASSUME CothreadInv, NEW v \in Refs, gc_mark_test(v)
  PROVE  CothreadInv'
<1> USE DEF CothreadInv, stackVars, mutVars
<1>1. /\ gpc = "scan" /\ v \in todo /\ todo' = todo \ {v}
      /\ \/ IsWhite(v) /\ gpc' = "shade" /\ ref' = v
         \/ ~IsWhite(v) /\ gpc' = "scan" /\ ref' = ref
      /\ UNCHANGED <<color, refs, fresh, due, stackVars, vm_mark_list, mark_mutex,
                     mutVars, mark_list, cur>>
  BY DEF gc_mark_test, IsWhite
<1>2. TypeOK'
  BY <1>1 DEF TypeOK
<1>3. ControlInv'
  BY <1>1 DEF ControlInv
<1>4. FreshInv'
  BY <1>1 DEF FreshInv
<1>5. \A o : /\ (IsWhite(o)' <=> IsWhite(o)) /\ (Runs(o)' <=> Runs(o))
             /\ (Pending(o)' <=> Pending(o)) /\ Content(o)' = Content(o)
  BY <1>1 DEF IsWhite, Runs, Pending, Listed, Scanned, Content
<1>6. ShadedInv'
  BY <1>1, <1>5 DEF ShadedInv, IsWhite
<1>7. DueInv'
  <2> SUFFICES ASSUME NEW T \in SUBSET Refs, GreyClosed(T)'
               PROVE  /\ \A o \in Refs :
                           Pending(o) \/ (IsWhite(o) /\ (o \in T \/ ~IsWhite(o)')) =>
                           \A w \in Content(o) : IsWhite(w)' => w \in T
                      /\ gpc \in {"scan", "shade"} /\ ~Runs(cur) =>
                           \A w \in todo : IsWhite(w)' => w \in T
    BY <1>1, <1>2, <1>5, KeepDue
  <2>1. \A o \in Refs : Pending(o) \/ (IsWhite(o) /\ (o \in T \/ ~IsWhite(o)')) =>
          \A w \in Content(o) : IsWhite(w)' => w \in T
    BY <1>5 DEF GreyClosed
  <2>2. ~Runs(cur) => \A w \in todo : IsWhite(w)' => w \in T
    <3>1. Runs(cur)' <=> Runs(cur)
      BY <1>1 DEF Runs
    <3>2. ~Runs(cur) => \A w \in todo' : IsWhite(w)' => w \in T
      BY <1>1, <3>1 DEF GreyClosed
    <3>3. IsWhite(v) => v \in T
      BY <1>1 DEF GreyClosed, IsWhite
    <3> QED BY <1>1, <1>5, <3>2, <3>3
  <2> QED BY <2>1, <2>2
<1> QED BY <1>2, <1>3, <1>4, <1>6, <1>7

LEMMA KeepShade ==
  ASSUME CothreadInv, gc_mark_shade
  PROVE  CothreadInv'
<1> USE DEF CothreadInv, stackVars, mutVars
<1>1. /\ gpc = "shade" /\ gpc' = "scan" /\ ref \in Refs /\ ref' = Null
      /\ color' = [color EXCEPT ![ref] = "MARKED"]
      /\ mark_list' = Pushed(mark_list, ref)
      /\ UNCHANGED <<refs, fresh, due, stackVars, vm_mark_list, mark_mutex,
                     mutVars, cur, todo>>
  BY DEF gc_mark_shade, ControlInv
<1>2. /\ mark_list' \in [Refs -> Nat]
      /\ \A o \in Refs : mark_list'[o] > 0 <=> o = ref \/ mark_list[o] > 0
  BY <1>1, PushedIsListed DEF TypeOK
<1>3. /\ color' \in [Refs -> {"white", "MARKED", "black"}]
      /\ \A o \in Refs : /\ Pending(o) => Pending(o)'
                         /\ IsWhite(o)' => IsWhite(o) /\ o # ref
                         /\ IsWhite(o) /\ o # ref => IsWhite(o)'
                         /\ IsWhite(o) /\ o = ref => Pending(o)'
  <2>1. PICK r \in Refs : r = ref
    BY <1>1
  <2>2. \A o \in Refs : (mark_list[o] > 0 \/ vm_mark_list[o] > 0)' <=>
                          o = r \/ mark_list[o] > 0 \/ vm_mark_list[o] > 0
    BY <1>1, <1>2, <2>1
  <2>3. color' = [color EXCEPT ![r] = "MARKED"]
    BY <1>1, <2>1
  <2>4. /\ color' \in [Refs -> {"white", "MARKED", "black"}]
        /\ \A o \in Refs : /\ Pending(o) => Pending(o)'
                           /\ IsWhite(o)' => IsWhite(o) /\ o # r
                           /\ IsWhite(o) /\ o # r => IsWhite(o)'
        /\ IsWhite(r) => Pending(r)'
    BY <1>1, <2>2, <2>3, ShadedIsPending
  <2> QED BY <2>1, <2>4
<1>4. TypeOK'
  BY <1>1, <1>2, <1>3 DEF TypeOK
<1>5. ControlInv'
  BY <1>1 DEF ControlInv
<1>6. FreshInv'
  BY <1>1 DEF FreshInv
<1>7. ShadedInv'
  <2>1. \A o \in Refs : mark_list'[o] > 0 \/ vm_mark_list'[o] > 0 => ~IsWhite(o)'
    BY <1>1, <1>2, <1>3 DEF ShadedInv
  <2>2. ~IsWhite(cur)'
    BY <1>1, <1>3 DEF ShadedInv, ControlInv, IsWhite
  <2>3. \A c \in Cothreads : Runs(c)' => ~IsWhite(c)'
    BY <1>1, <1>3, Disjoint DEF ShadedInv, Runs
  <2>4. mpc' = "mark" => \A w \in stack'[target'] \ (rest' \cup {Null}) : ~IsWhite(w)'
    <3>1. mpc = "mark" => stack[target] \subseteq Values
      BY DEF TypeOK, ControlInv
    <3> QED BY <1>1, <1>3, <3>1 DEF ShadedInv, Values
  <2> QED BY <2>1, <2>2, <2>3, <2>4 DEF ShadedInv
<1>8. DueInv'
  <2> SUFFICES ASSUME NEW T \in SUBSET Refs, GreyClosed(T)'
               PROVE  /\ \A o \in Refs :
                           Pending(o) \/ (IsWhite(o) /\ (o \in T \/ ~IsWhite(o)')) =>
                           \A w \in Content(o) : IsWhite(w)' => w \in T
                      /\ gpc \in {"scan", "shade"} /\ ~Runs(cur) =>
                           \A w \in todo : IsWhite(w)' => w \in T
                      /\ gpc = "shade" /\ color'[ref] = "white" => ref \in T
    BY <1>1, <1>3, <1>4, KeepDue
  <2>1. \A o : Content(o)' = Content(o) /\ (Runs(o)' <=> Runs(o))
    BY <1>1 DEF Content, Runs
  <2>2. \A o \in Refs : Pending(o) \/ (IsWhite(o) /\ (o \in T \/ ~IsWhite(o)')) =>
           \A w \in Content(o) : IsWhite(w)' => w \in T
    BY <1>1, <1>3, <2>1 DEF GreyClosed
  <2>3. ~Runs(cur) => \A w \in todo : IsWhite(w)' => w \in T
    BY <1>1, <2>1 DEF GreyClosed, Runs
  <2>4. color'[ref] # "white"
    BY <1>1 DEF TypeOK
  <2> QED BY <2>2, <2>3, <2>4
<1> QED BY <1>4, <1>5, <1>6, <1>7, <1>8

(* What the scan of a running stack misses was marked before it ran.         *)
LEMMA KeepScanUndefined ==
  ASSUME CothreadInv, gc_scan_undefined
  PROVE  CothreadInv'
<1> USE DEF CothreadInv, stackVars, mutVars
<1>1. /\ gpc = "scan" /\ gpc' \in {"scan", "crashed"} /\ todo' \subseteq todo
      /\ Runs(cur)
      /\ UNCHANGED <<color, refs, fresh, due, stackVars, vm_mark_list, mark_mutex,
                     mutVars, mark_list, cur, ref>>
  BY DEF gc_scan_undefined, ScansRunning, Runs
<1>2. TypeOK'
  BY <1>1 DEF TypeOK
<1>3. ControlInv'
  BY <1>1 DEF ControlInv
<1>4. FreshInv'
  BY <1>1 DEF FreshInv
<1>5. \A o : /\ (IsWhite(o)' <=> IsWhite(o)) /\ (Runs(o)' <=> Runs(o))
             /\ (Pending(o) => Pending(o)') /\ Content(o)' = Content(o)
  BY <1>1 DEF IsWhite, Runs, Pending, Listed, Scanned, Content
<1>6. ShadedInv'
  BY <1>1, <1>5 DEF ShadedInv, IsWhite
<1>7. DueInv'
  BY <1>1, <1>2, <1>5, KeepDueByGrowth
<1> QED BY <1>2, <1>3, <1>4, <1>6, <1>7

(* The object that is finished becomes black: marking has looked at all it   *)
(* has, and it was not white.                                                *)
LEMMA KeepBlack ==
  ASSUME CothreadInv, cur \in Refs, Scanned, gpc # "shade",
         gpc = "scan" => todo = {},
         color' = [color EXCEPT ![cur] = "black"],
         UNCHANGED <<refs, fresh, due, stackVars, vm_mark_list, mutVars, mark_list,
                     todo>>,
         TypeOK', ControlInv',
         \/ cur \in Cothreads /\ gpc' = "blacken" /\ cur' = cur
         \/ gpc' = "mark" /\ cur' = Null /\ (cur \in Cothreads => gpc = "blacken")
  PROVE  CothreadInv'
<1> USE DEF CothreadInv, stackVars, mutVars
<1>1. PICK x \in Refs : x = cur
  OBVIOUS
<1>2. color'[x] = "black" /\ \A o \in Refs : o # x => color'[o] = color[o]
  BY <1>1 DEF TypeOK
<1>3. /\ ~IsWhite(x) /\ ~IsWhite(x)'
      /\ \A o \in Refs : IsWhite(o)' <=> IsWhite(o)
  BY <1>1, <1>2 DEF ShadedInv, IsWhite, Scanned
<1>4. FreshInv'
  BY DEF FreshInv
<1>5. \A o : (Runs(o)' <=> Runs(o)) /\ Content(o)' = Content(o)
  BY DEF Runs, Content
<1>6. ShadedInv'
  <2>1. gpc' \in {"lock", "scan", "shade", "blacken"} => ~IsWhite(cur)'
    BY <1>1, <1>3 DEF IsWhite
  <2>2. \A c \in Cothreads : Runs(c)' => ~IsWhite(c)'
    BY <1>3, <1>5, Disjoint DEF ShadedInv
  <2>3. mpc' = "mark" => \A w \in stack'[target'] \ (rest' \cup {Null}) : ~IsWhite(w)'
    <3>1. mpc = "mark" => stack[target] \subseteq Values
      BY DEF TypeOK, ControlInv
    <3> QED BY <1>3, <3>1 DEF ShadedInv, Values
  <2> QED BY <1>3, <2>1, <2>2, <2>3 DEF ShadedInv
<1>7. DueInv'
  <2> SUFFICES ASSUME NEW T \in SUBSET Refs, GreyClosed(T)'
               PROVE  \A o \in Refs :
                        Pending(o) \/ (IsWhite(o) /\ (o \in T \/ ~IsWhite(o)')) =>
                        \A w \in Content(o) : IsWhite(w)' => w \in T
    BY <1>3, KeepDue DEF Scanned
  <2>1. \A o \in Refs : Pending(o) => Pending(o)'
    <3>1. \A o \in Refs : Listed(o) => Listed(o)'
      BY DEF Listed, Scanned
    <3>2. x \in Cothreads => ~Pending(x)
      BY <1>1 DEF Pending
    <3>3. \A o \in Refs : o # x => ~(Scanned /\ o = cur)'
      BY <1>1, Disjoint DEF Scanned
    <3> QED BY <1>2, <1>5, <3>1, <3>2, <3>3 DEF Pending
  <2> QED BY <1>3, <1>5, <2>1 DEF GreyClosed
<1> QED BY <1>4, <1>6, <1>7

LEMMA KeepGcUnlock ==
  ASSUME CothreadInv, gc_mark_cothread_unlock
  PROVE  CothreadInv'
<1>1. /\ gpc = "scan" /\ todo = {} /\ cur \in Cothreads /\ cur \in Refs
      /\ color' = [color EXCEPT ![cur] = "black"]
      /\ mark_mutex' = "free" /\ gpc' = "blacken" /\ cur' = cur
      /\ UNCHANGED <<refs, fresh, due, stackVars, vm_mark_list, mutVars, mark_list,
                     todo, ref>>
  BY Disjoint DEF gc_mark_cothread_unlock
<1>2. TypeOK'
  BY <1>1 DEF CothreadInv, TypeOK, stackVars, mutVars
<1>3. ControlInv'
  BY <1>1 DEF CothreadInv, ControlInv, stackVars, mutVars
<1> QED BY <1>1, <1>2, <1>3, KeepBlack DEF Scanned

LEMMA KeepBlacken ==
  ASSUME CothreadInv, gc_blacken
  PROVE  CothreadInv'
<1>1. /\ gpc = "blacken" \/ (gpc = "scan" /\ todo = {} /\ cur \in Objects)
      /\ cur \in Refs /\ gpc' = "mark" /\ cur' = Null
      /\ color' = [color EXCEPT ![cur] = "black"]
      /\ UNCHANGED <<refs, fresh, due, stackVars, vm_mark_list, mark_mutex, mutVars,
                     mark_list, todo, ref>>
  BY DEF gc_blacken, CothreadInv, ControlInv
<1>2. TypeOK'
  BY <1>1 DEF CothreadInv, TypeOK, stackVars, mutVars
<1>3. ControlInv'
  BY <1>1 DEF CothreadInv, ControlInv, stackVars, mutVars
<1> QED BY <1>1, <1>2, <1>3, Disjoint, KeepBlack DEF Scanned

LEMMA KeepDone ==
  ASSUME CothreadInv, gc_mark_done
  PROVE  CothreadInv'
<1> USE DEF CothreadInv, stackVars, mutVars
<1>1. /\ gpc = "mark" /\ mark_list = EmptyList /\ gpc' = "done"
      /\ UNCHANGED <<color, refs, fresh, due, stackVars, vm_mark_list, mark_mutex,
                     mutVars, mark_list, cur, todo, ref>>
  BY DEF gc_mark_done
<1>2. TypeOK'
  BY <1>1 DEF TypeOK
<1>3. ControlInv'
  BY <1>1 DEF ControlInv
<1>4. FreshInv'
  BY <1>1 DEF FreshInv
<1>5. \A o : /\ (IsWhite(o)' <=> IsWhite(o)) /\ (Runs(o)' <=> Runs(o))
             /\ (Pending(o) <=> Pending(o)') /\ Content(o)' = Content(o)
  BY <1>1 DEF IsWhite, Runs, Pending, Listed, Scanned, Content
<1>6. ShadedInv'
  BY <1>1, <1>5 DEF ShadedInv, IsWhite
<1>7. DueInv'
  BY <1>1, <1>2, <1>5, KeepDueByGrowth
<1> QED BY <1>2, <1>3, <1>4, <1>6, <1>7

-------------------------------------------------------------------------------
(* What CothreadInv says of colours, mark lists and stacks holds in every    *)
(* state of the marking phase.                                               *)
THEOREM CothreadInductive == Spec => []CothreadInv
<1>1. CothreadInv /\ [Next]_vars => CothreadInv'
  <2> SUFFICES ASSUME CothreadInv, [Next]_vars PROVE CothreadInv'
    OBVIOUS
  <2>1. CASE MutatorStep
    <3>1. ASSUME NEW v \in Values,
                 \/ drop(v) \/ mark_cothread_value(v) \/ enter(v)
                 \/ \E o \in Objects : read(o, v)
                 \/ \E c \in Cothreads : call_generator(c, v)
          PROVE  CothreadInv'
      BY <3>1, KeepDrop, KeepValue, KeepEnter, KeepRead, KeepCallGenerator
    <3>2. CASE (\E c \in Cothreads : call_cothread(c)) \/ call_yield \/ call_return
      BY <3>2, KeepSwitch
    <3>3. CASE mark_cothread_lock \/ mark_cothread_unlock
      BY <3>3, KeepLock, KeepUnlock
    <3> QED BY <2>1, <3>1, <3>2, <3>3 DEF MutatorStep
  <2>2. CASE safepoint_handshake
    BY <2>2, KeepHandshake
  <2>3. CASE GcStep
    BY <2>3, KeepPop, KeepTest, KeepGcLock, KeepShade, KeepScanUndefined,
       KeepGcUnlock, KeepBlacken, KeepDone DEF GcStep
  <2>4. CASE UNCHANGED vars
    <3> USE <2>4 DEF vars, stackVars, mutVars, gcVars, CothreadInv
    <3>1. TypeOK' /\ ControlInv' /\ FreshInv'
      BY DEF TypeOK, ControlInv, FreshInv
    <3>2. \A o : /\ (IsWhite(o)' <=> IsWhite(o)) /\ (Runs(o)' <=> Runs(o))
                 /\ (Pending(o)' <=> Pending(o)) /\ Content(o)' = Content(o)
      BY DEF IsWhite, Runs, Pending, Listed, Scanned, Content
    <3>3. ShadedInv'
      BY <3>2 DEF ShadedInv, IsWhite
    <3>4. DueInv'
      BY <3>1, <3>2, KeepDueByGrowth
    <3> QED BY <3>1, <3>3, <3>4
  <2> QED BY <2>1, <2>2, <2>3, <2>4 DEF Next, Stopped
<1> QED BY <1>1, InitCothread, PTL DEF Spec

(* Nothing that could be reached when marking began is white when it ends:   *)
(* mark_cothread and gc_mark_cothread, between which a cothread is marked    *)
(* before it runs, need no barrier on what the mutator takes off a stack.    *)
THEOREM DueAreMarked == Spec => []DueIsMarked
<1>1. CothreadInv => DueIsMarked
  <2> SUFFICES ASSUME CothreadInv, gpc = "swept", NEW o \in due, IsWhite(o)
               PROVE  FALSE
    BY DEF DueIsMarked, IsWhite
  <2>1. \A x \in Refs : ~Pending(x)
    BY DEF CothreadInv, ControlInv, EmptyList, Pending, Listed
  <2>2. GreyClosed({})
    BY <2>1 DEF GreyClosed
  <2> QED BY <2>2 DEF CothreadInv, DueInv, TypeOK
<1> QED BY <1>1, CothreadInductive, PTL

================================================================================
