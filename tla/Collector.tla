------------------------------- MODULE Collector -------------------------------
(*****************************************************************************)
(* The concurrent collector: the mutator thread and the GC thread, what they *)
(* share, and the handshakes between them (runtime/collector.cpp, the object *)
(* allocation and write barriers of runtime/vmachine.{h,cpp}).               *)
(*                                                                           *)
(* One action is one access to memory both threads can reach, except that    *)
(* what runs with work_mutex held on the mutator's side is one action: the   *)
(* GC thread holds that mutex whenever it is not waiting on work_wait.       *)
(*                                                                           *)
(* An object is its address.  Its references are `slots'; the references of  *)
(* every object type, in the order gc_mark visits them, are the same to the  *)
(* collector.  Strings have none.  A single cothread runs, so its stack is   *)
(* marked once, by safepoint_start_mark.                                     *)
(*****************************************************************************)
EXTENDS Integers, FiniteSets

CONSTANTS
  MaxAddr,       \* heap chunks, in address order: 1..MaxAddr
  Strings,       \* the chunks that hold string objects
  NumSlots,      \* references in every other object
  PageSize,      \* chunks the sweep visits while it holds heap_mutex
  MaxCountdown,  \* bound on the allocations between two collections
  StackSize,     \* bound on the objects the mutator's stack refers to
  MaxRoots       \* bound on the objects in the root table

Addr == 1 .. MaxAddr
Null == 0
Ref  == Addr \cup {Null}
Slot == 1 .. NumSlots

ASSUME CollectorAssumption ==
  /\ MaxAddr \in Nat \ {0}
  /\ Strings \subseteq Addr
  /\ NumSlots \in Nat \ {0}
  /\ PageSize \in Nat \ {0}
  /\ MaxCountdown \in Nat \ {0}
  /\ StackSize \in Nat
  /\ MaxRoots \in Nat

Epoch  == {"PURPLE", "ORANGE"}          \* the two colours that swap roles
Colors == Epoch \cup {"NONE", "MARKED"}

VARIABLES
  (* struct collector, guarded by work_mutex *)
  state, white_color, black_color, mark_list,
  (* struct vmachine, read and written by the mutator only *)
  old_color, new_color, phase, countdown, vm_mark_list, roots,
  (* the heap both threads reach *)
  allocated, color, slots, heap_mutex,
  (* the mutator: its stack, where it is, and the operation in progress *)
  stack, mpc, w,
  (* the GC thread: where it is, the object it scans, the next slot, the *)
  (* reference it loaded, and the objects it has coloured since the last *)
  (* handshake, whose relaxed stores the mutator may not see yet         *)
  gpc, cur, idx, ref, unseen,
  (* gc_sweep's locals *)
  p, free_chunk, page_base

gcVars    == <<state, white_color, black_color, mark_list>>
vmVars    == <<old_color, new_color, phase, countdown, vm_mark_list, roots>>
heapVars  == <<allocated, color, slots, heap_mutex>>
mutVars   == <<stack, mpc, w>>
scanVars  == <<gpc, cur, idx, ref, unseen>>
sweepVars == <<p, free_chunk, page_base>>
vars == <<gcVars, vmVars, heapVars, mutVars, scanVars, sweepVars>>

(* Null is on page 0, the first chunk on page 1. *)
PageOf(a) == (a + PageSize - 1) \div PageSize
Pages == {PageOf(a) : a \in Ref}

NoWrite == [o |-> Null, i |-> 1, v |-> Null, old |-> Null]

Init ==
  /\ state = "WAIT" /\ white_color = "ORANGE" /\ black_color = "PURPLE"
  /\ mark_list = {}
  /\ old_color = "NONE" /\ new_color = "PURPLE" /\ phase = "NONE"
  /\ countdown = MaxCountdown /\ vm_mark_list = {} /\ roots = {}
  /\ allocated = {} /\ color = [o \in Addr |-> "NONE"]
  /\ slots = [o \in Addr |-> [i \in Slot |-> Null]] /\ heap_mutex = "free"
  /\ stack = {} /\ mpc = "run" /\ w = NoWrite
  /\ gpc = "acquire" /\ cur = Null /\ idx = 1 /\ ref = Null /\ unseen = {}
  /\ p = Null /\ free_chunk = FALSE /\ page_base = PageOf(Null)

-------------------------------------------------------------------------------
(* Marking, as both threads do it: an object turns grey and goes on the mark *)
(* list of the thread that marks it, a string turns black at once.           *)

(* Altered forms, here and below, are what the mutants put in the place of   *)
(* the definition that follows them; no specification uses them.             *)
ShadeAll(o, black) == "MARKED"

Shade(o, black) == IF o \in Strings THEN black ELSE "MARKED"

(* work_mutex is free exactly when the GC thread waits, or waits to wait.  *)
WorkMutexFree == gpc \in {"acquire", "wait", "exit"}

NotifyNone == UNCHANGED gpc

NotifyAll == gpc' = IF gpc = "wait" THEN "acquire" ELSE gpc

-------------------------------------------------------------------------------
(* The mutator's handshakes with the GC thread. *)

swap_colors ==
  /\ white_color' = black_color /\ black_color' = white_color
  /\ old_color' = black_color /\ new_color' = white_color

(* Every object is black in the old colours, hence white in the new ones:   *)
(* mark the roots and the whole stack, turn the write barrier on.           *)
safepoint_start_mark ==
  LET marked == {o \in roots \cup stack : color[o] = black_color} IN
  /\ WorkMutexFree
  /\ phase = "NONE"
  /\ state' = "MARK" /\ phase' = "MARK"
  /\ swap_colors
  /\ color' = [o \in Addr |-> IF o \in marked THEN Shade(o, white_color)
                                              ELSE color[o]]
  /\ mark_list' = mark_list \cup (marked \ Strings)
  /\ unseen' = {}
  /\ NotifyAll
  /\ UNCHANGED << countdown, vm_mark_list, roots, allocated, slots,
                 heap_mutex, stack, w, cur, idx, ref, sweepVars>>

NothingToMarkAssumed == TRUE

NothingToMark == vm_mark_list = {}

swap_mark_lists_silently ==
  /\ state = "MARK_DONE" /\ ~NothingToMark
  /\ mark_list' = vm_mark_list /\ vm_mark_list' = mark_list
  /\ state' = "MARK"
  /\ unseen' = {}
  /\ UNCHANGED <<white_color, black_color, old_color, new_color,
                 phase, countdown, roots, heapVars, stack, w, gpc, cur, idx,
                 ref, sweepVars>>

(* The GC ran out of grey objects, but the barrier has found more. *)
swap_mark_lists ==
  /\ state = "MARK_DONE" /\ ~NothingToMark
  /\ mark_list' = vm_mark_list /\ vm_mark_list' = mark_list
  /\ state' = "MARK"
  /\ unseen' = {}
  /\ NotifyAll
  /\ UNCHANGED <<white_color, black_color, old_color, new_color,
                 phase, countdown, roots, heapVars, stack, w, cur, idx, ref,
                 sweepVars>>

(* Nothing is grey: turn the barrier off and let the GC sweep. *)
safepoint_start_sweep ==
  /\ state = "MARK_DONE" /\ NothingToMark
  /\ state' = "SWEEP" /\ phase' = "SWEEP"
  /\ old_color' = "NONE"
  /\ unseen' = {}
  /\ NotifyAll
  /\ UNCHANGED <<white_color, black_color, mark_list, new_color, countdown,
                 vm_mark_list, roots, heapVars, stack, w, cur, idx, ref,
                 sweepVars>>

safepoint_new_epoch ==
  /\ state = "SWEEP_DONE"
  /\ state' = "WAIT" /\ phase' = "NONE"
  /\ countdown' \in 1 .. MaxCountdown
  /\ UNCHANGED <<white_color, black_color, mark_list, old_color,
                 new_color, vm_mark_list, roots, heapVars, stack, w, scanVars,
                 sweepVars>>

safepoint_handshake ==
  /\ WorkMutexFree
  /\ swap_mark_lists \/ safepoint_start_sweep \/ safepoint_new_epoch

(* From stack_return.  A try_lock that fails changes nothing. *)
safepoint ==
  /\ mpc = "run" /\ countdown = 0
  /\ \/ safepoint_start_mark
     \/ phase # "NONE" /\ safepoint_handshake
  /\ UNCHANGED mpc

start_collection ==
  /\ mpc = "run"
  /\ safepoint_start_mark
  /\ UNCHANGED mpc

(* The last reference to the runtime is released: no context is left, so no *)
(* stack, and the runtime releases those roots that are its own values.     *)
stop_collector ==
  /\ mpc = "run"
  /\ mpc' = "stopping" /\ stack' = {} /\ roots' \in SUBSET roots
  /\ UNCHANGED <<gcVars, old_color, new_color, phase, countdown, vm_mark_list,
                 heapVars, w, scanVars, sweepVars>>

wait_for_collection ==
  /\ mpc = "stopping" /\ phase # "NONE"
  /\ safepoint_handshake
  /\ UNCHANGED mpc

request_quit ==
  /\ mpc = "stopping" /\ phase = "NONE"
  /\ WorkMutexFree
  /\ mpc' = "joining" /\ state' = "QUIT"
  /\ NotifyAll
  /\ UNCHANGED <<white_color, black_color, mark_list, vmVars,
                 heapVars, stack, w, cur, idx, ref, unseen, sweepVars>>

(* thread.join(), then the sweep of what is left. *)
sweep_entire_heap ==
  /\ mpc = "joining" /\ gpc = "exit"
  /\ mpc' = "destroyed"
  /\ allocated' = {o \in allocated : color[o] = "NONE"}
  /\ UNCHANGED <<gcVars, vmVars, color, slots, heap_mutex, stack, w, scanVars,
                 sweepVars>>

-------------------------------------------------------------------------------
(* The mutator's use of the heap. *)

(* read: the loaded reference is pushed on the stack, with no barrier. *)
read(o, i) ==
  /\ mpc = "run" /\ o \in stack /\ o \notin Strings
  /\ slots[o][i] # Null
  /\ stack' = stack \cup {slots[o][i]}
  /\ Cardinality(stack') <= StackSize
  /\ UNCHANGED <<gcVars, vmVars, heapVars, mpc, w, scanVars, sweepVars>>

(* A stack slot is overwritten: no barrier either. *)
drop(o) ==
  /\ mpc = "run" /\ o \in stack
  /\ stack' = stack \ {o}
  /\ UNCHANGED <<gcVars, vmVars, heapVars, mpc, w, scanVars, sweepVars>>

(* object_retain puts an object in the root table, object_release takes it   *)
(* out; a root is on hand to native code, which may push it again.           *)
object_retain(o) ==
  /\ mpc = "run" /\ o \in stack \ roots
  /\ roots' = roots \cup {o}
  /\ Cardinality(roots') <= MaxRoots
  /\ UNCHANGED <<gcVars, old_color, new_color, phase, countdown, vm_mark_list,
                 heapVars, mutVars, scanVars, sweepVars>>

object_release(o) ==
  /\ mpc = "run" /\ o \in roots
  /\ roots' = roots \ {o}
  /\ UNCHANGED <<gcVars, old_color, new_color, phase, countdown, vm_mark_list,
                 heapVars, mutVars, scanVars, sweepVars>>

push_root(o) ==
  /\ mpc = "run" /\ o \in roots
  /\ stack' = stack \cup {o}
  /\ Cardinality(stack') <= StackSize
  /\ UNCHANGED <<gcVars, vmVars, heapVars, mpc, w, scanVars, sweepVars>>

NeedsHeapLockWhileMarking == phase = "MARK"

(* object_new takes heap_mutex during the sweep only. *)
NeedsHeapLock == phase = "SWEEP"

(* The heap hands out a chunk, whose header still holds what it held.        *)
object_new_malloc(o) ==
  /\ mpc = "run" /\ o \in Addr \ allocated
  /\ Cardinality(stack \cup {o}) <= StackSize
  /\ NeedsHeapLock => heap_mutex = "free"
  /\ heap_mutex' = IF NeedsHeapLock THEN "mutator" ELSE heap_mutex
  /\ allocated' = allocated \cup {o}
  /\ \E garbage \in Epoch : color' = [color EXCEPT ![o] = garbage]
  /\ countdown' = IF countdown > 0 THEN countdown - 1 ELSE 0
  /\ mpc' = "new" /\ w' = [NoWrite EXCEPT !.o = o]
  /\ UNCHANGED <<gcVars, old_color, new_color, phase, vm_mark_list, roots,
                 slots, stack, scanVars, sweepVars>>

NewObjectColorWhite == IF phase = "SWEEP" THEN white_color ELSE new_color

NewObjectColor == new_color

(* The header is initialised before the heap is unlocked, then the memory is *)
(* zeroed; only then can a reference to the object be written.               *)
object_new_header ==
  /\ mpc = "new"
  /\ color' = [color EXCEPT ![w.o] = NewObjectColor]
  /\ slots' = [slots EXCEPT ![w.o] = [i \in Slot |-> Null]]
  /\ heap_mutex' = IF phase = "SWEEP" THEN "free" ELSE heap_mutex
  /\ stack' = stack \cup {w.o}
  /\ mpc' = "run" /\ w' = NoWrite
  /\ UNCHANGED <<gcVars, vmVars, allocated, scanVars, sweepVars>>

(* winit: the first write to a reference, which must still be null. *)
winit(o, i, v) ==
  /\ mpc = "run" /\ o \in stack \ Strings /\ v \in stack
  /\ slots[o][i] = Null
  /\ slots' = [slots EXCEPT ![o][i] = v]
  /\ UNCHANGED <<gcVars, vmVars, allocated, color, heap_mutex, mutVars,
                 scanVars, sweepVars>>

NeverBarrier(o) == FALSE

(* The colour test of write.  It finds a white object white, and may find so *)
(* one the GC thread has coloured since the last handshake (the store is     *)
(* relaxed), unless the mutator itself has coloured it since.                *)
MustBarrier(o) == o # Null /\ color[o] = old_color
MayBarrier(o) ==
  MustBarrier(o) \/ (o \in unseen /\ o \notin vm_mark_list)

(* write, first half: read the reference to overwrite, test its colour.      *)
write_test(o, i, v) ==
  LET old == slots[o][i]
      next(pc) == mpc' = pc /\ w' = [o |-> o, i |-> i, v |-> v, old |-> old]
  IN
  /\ mpc = "run" /\ o \in stack \ Strings /\ v \in stack \cup {Null}
  /\ old_color # "NONE"
  /\ \/ MayBarrier(old) /\ next("barrier")
     \/ ~MustBarrier(old) /\ next("store")
  /\ UNCHANGED <<gcVars, vmVars, heapVars, stack, scanVars, sweepVars>>

(* write_barrier.  When the GC thread has coloured the object meanwhile, the *)
(* two relaxed stores may take effect in either order.                       *)
write_barrier ==
  /\ mpc = "barrier"
  /\ \/ color' = [color EXCEPT ![w.old] = Shade(w.old, new_color)]
     \/ w.old \in unseen /\ UNCHANGED color
  /\ vm_mark_list' = vm_mark_list \cup ({w.old} \ Strings)
  /\ mpc' = "store"
  /\ UNCHANGED <<gcVars, old_color, new_color, phase, countdown, roots,
                 allocated, slots, heap_mutex, stack, w, scanVars, sweepVars>>

(* write, second half: store the new reference. *)
write_store ==
  /\ mpc = "store"
  /\ slots' = [slots EXCEPT ![w.o][w.i] = w.v]
  /\ mpc' = "run" /\ w' = NoWrite
  /\ UNCHANGED <<gcVars, vmVars, allocated, color, heap_mutex, stack, scanVars,
                 sweepVars>>

(* write when the barrier is off is a plain store. *)
write_no_barrier(o, i, v) ==
  /\ mpc = "run" /\ o \in stack \ Strings /\ v \in stack \cup {Null}
  /\ old_color = "NONE"
  /\ slots[o][i] # v
  /\ slots' = [slots EXCEPT ![o][i] = v]
  /\ UNCHANGED <<gcVars, vmVars, allocated, color, heap_mutex, mutVars,
                 scanVars, sweepVars>>

-------------------------------------------------------------------------------
(* The GC thread. *)

(* The thread starts, or wakes from work_wait, and locks work_mutex. *)
gc_acquire ==
  /\ gpc = "acquire"
  /\ gpc' = "loop"
  /\ UNCHANGED <<gcVars, vmVars, heapVars, mutVars, cur, idx, ref, unseen,
                 sweepVars>>

gc_spurious_wakeup ==
  /\ gpc = "wait"
  /\ gpc' = "acquire"
  /\ UNCHANGED <<gcVars, vmVars, heapVars, mutVars, cur, idx, ref, unseen,
                 sweepVars>>

(* gc_thread's loop: what to do in each state; entering gc_sweep, its locals. *)
gc_dispatch ==
  /\ gpc = "loop"
  /\ gpc' = CASE state = "MARK"  -> "mark"
              [] state = "SWEEP" -> "sweep_lock"
              [] state = "QUIT"  -> "exit"
              [] OTHER           -> "wait"
  /\ p' = Null /\ free_chunk' = FALSE /\ page_base' = PageOf(Null)
  /\ UNCHANGED <<gcVars, vmVars, heapVars, mutVars, cur, idx, ref, unseen>>

(* gc_mark: pop the next grey object. *)
gc_pop(o) ==
  /\ gpc = "mark" /\ o \in mark_list
  /\ mark_list' = mark_list \ {o}
  /\ cur' = o /\ idx' = 1
  /\ gpc' = "scan"
  /\ UNCHANGED <<state, white_color, black_color, vmVars, heapVars,
                 mutVars, ref, unseen, sweepVars>>

(* Load the object's next reference. *)
gc_load ==
  /\ gpc = "scan" /\ idx <= NumSlots
  /\ ref' = slots[cur][idx] /\ idx' = idx + 1
  /\ gpc' = "test"
  /\ UNCHANGED <<gcVars, vmVars, heapVars, mutVars, cur, unseen, sweepVars>>

MustMarkUnlessBlack(o) == o # Null /\ color[o] # black_color

(* The colour test of gc_mark_object_ref, gc_mark_value, gc_mark_string_ref: *)
(* likewise it may find white an object that only the mutator has coloured   *)
(* since the last handshake.                                                 *)
MustMark(o) == o # Null /\ color[o] = white_color
MayMark(o)  == MustMark(o) \/ (o \in vm_mark_list /\ o \notin unseen)

gc_mark_ref_test ==
  /\ gpc = "test"
  /\ \/ MayMark(ref) /\ gpc' = "shade" /\ UNCHANGED ref
     \/ ~MustMark(ref) /\ gpc' = "scan" /\ ref' = Null
  /\ UNCHANGED <<gcVars, vmVars, heapVars, mutVars, cur, idx, unseen, sweepVars>>

gc_mark_ref_shade ==
  /\ gpc = "shade"
  /\ color' = [color EXCEPT ![ref] = Shade(ref, black_color)]
  /\ mark_list' = mark_list \cup ({ref} \ Strings)
  /\ unseen' = unseen \cup ({ref} \ Strings)
  /\ ref' = Null
  /\ gpc' = "scan"
  /\ UNCHANGED <<state, white_color, black_color, vmVars, allocated,
                 slots, heap_mutex, mutVars, cur, idx, sweepVars>>

(* All references are marked.  A barrier's store to the same header may take *)
(* effect after this one.                                                    *)
gc_blacken ==
  /\ gpc = "scan" /\ idx > NumSlots
  /\ \/ color' = [color EXCEPT ![cur] = black_color]
     \/ cur \in vm_mark_list /\ UNCHANGED color
  /\ cur' = Null /\ idx' = 1
  /\ gpc' = "mark"
  /\ UNCHANGED <<gcVars, vmVars, allocated, slots, heap_mutex, mutVars, ref,
                 unseen, sweepVars>>

gc_mark_done_early ==
  /\ gpc = "mark"
  /\ state' = "MARK_DONE"
  /\ gpc' = "loop"
  /\ UNCHANGED <<white_color, black_color, mark_list, vmVars,
                 heapVars, mutVars, cur, idx, ref, unseen, sweepVars>>

gc_mark_done ==
  /\ gpc = "mark" /\ mark_list = {}
  /\ state' = "MARK_DONE"
  /\ gpc' = "loop"
  /\ UNCHANGED <<white_color, black_color, mark_list, vmVars,
                 heapVars, mutVars, cur, idx, ref, unseen, sweepVars>>

(* gc_sweep: heap_mutex is held for a page, and released between pages. *)
gc_sweep_lock ==
  /\ gpc = "sweep_lock"
  /\ heap_mutex = "free"
  /\ heap_mutex' = "gc"
  /\ gpc' = "sweep"
  /\ UNCHANGED <<gcVars, vmVars, allocated, color, slots, mutVars, cur, idx,
                 ref, unseen, sweepVars>>

(* heap_sweep frees the chunk that the last call returned, when it is dead,  *)
(* and returns the next allocated one.                                       *)
free_last_chunk ==
  IF free_chunk
  THEN /\ allocated' = allocated \ {p}
       /\ color' = [color EXCEPT ![p] = "NONE"]
       /\ slots' = [slots EXCEPT ![p] = [i \in Slot |-> Null]]
  ELSE UNCHANGED <<allocated, color, slots>>

IsNextChunk(a) == a > p /\ \A b \in allocated : b > p => a <= b

CondemnedUnlessFreeing(a) == color[a] = white_color /\ ~free_chunk

(* A chunk the marking did not reach: destroyed now, freed by the next call. *)
Condemned(a) == color[a] = white_color

gc_sweep_next(a) ==
  /\ gpc = "sweep" /\ PageOf(p) = page_base
  /\ a \in allocated /\ IsNextChunk(a)
  /\ free_last_chunk
  /\ p' = a /\ free_chunk' = Condemned(a)
  /\ UNCHANGED <<state, white_color, black_color, mark_list, vmVars,
                 heap_mutex, mutVars, scanVars, page_base>>

gc_sweep_page ==
  /\ gpc = "sweep" /\ PageOf(p) # page_base
  /\ page_base' = PageOf(p)
  /\ heap_mutex' = "free"
  /\ gpc' = "sweep_lock"
  /\ UNCHANGED <<gcVars, vmVars, allocated, color, slots, mutVars, cur, idx,
                 ref, unseen, p, free_chunk>>

gc_sweep_done ==
  /\ gpc = "sweep" /\ PageOf(p) = page_base
  /\ \A a \in allocated : a <= p
  /\ free_last_chunk
  /\ p' = Null /\ free_chunk' = FALSE /\ page_base' = PageOf(Null)
  /\ heap_mutex' = "free"
  /\ state' = "SWEEP_DONE"
  /\ gpc' = "loop"
  /\ UNCHANGED <<white_color, black_color, mark_list, vmVars,
                 mutVars, cur, idx, ref, unseen>>

-------------------------------------------------------------------------------
HandshakeStep ==
  \/ safepoint \/ start_collection
  \/ stop_collector \/ wait_for_collection \/ request_quit \/ sweep_entire_heap

HeapStep ==
  \/ \E o \in Addr : \/ drop(o) \/ push_root(o)
                     \/ object_retain(o) \/ object_release(o)
                     \/ object_new_malloc(o)
                     \/ \E i \in Slot : read(o, i)
  \/ object_new_header
  \/ \E o \in Addr, i \in Slot, v \in Ref :
       winit(o, i, v) \/ write_test(o, i, v) \/ write_no_barrier(o, i, v)
  \/ write_barrier \/ write_store

GcStep ==
  \/ gc_acquire \/ gc_dispatch
  \/ \E o \in Addr : gc_pop(o) \/ gc_sweep_next(o)
  \/ gc_load \/ gc_mark_ref_test \/ gc_mark_ref_shade \/ gc_blacken
  \/ gc_mark_done
  \/ gc_sweep_lock \/ gc_sweep_page \/ gc_sweep_done

(* The runtime is destroyed: nothing is left to do. *)
Terminated == mpc = "destroyed" /\ UNCHANGED vars

Next == HandshakeStep \/ HeapStep \/ GcStep \/ gc_spurious_wakeup \/ Terminated

(* The operating system runs both threads, and work_mutex starves neither:    *)
(* the mutator gets it although the GC thread may wake spuriously for ever,   *)
(* the GC thread although wait_for_collection spins on it.  The mutator       *)
(* finishes an operation it has begun.                                        *)
Fairness ==
  /\ WF_vars(GcStep)
  /\ WF_vars(object_new_header \/ write_barrier \/ write_store)
  /\ SF_vars(wait_for_collection) /\ SF_vars(request_quit)
  /\ WF_vars(sweep_entire_heap)

(* Nothing in the code makes the program reach a safepoint; this says that it *)
(* does, again and again, and that spurious wakeups do not time themselves so *)
(* that its try_lock always fails.                                            *)
FairSafepoint ==
  SF_vars(safepoint) /\ <>[][~gc_spurious_wakeup]_vars

Spec     == Init /\ [][Next]_vars
FairSpec == Spec /\ Fairness

-------------------------------------------------------------------------------
TypeOK ==
  /\ state \in {"WAIT", "MARK", "MARK_DONE", "SWEEP", "SWEEP_DONE", "QUIT"}
  /\ white_color \in Epoch /\ black_color \in Epoch \ {white_color}
  /\ mark_list \subseteq Addr
  /\ old_color \in {"NONE", white_color} /\ new_color = black_color
  /\ phase \in {"NONE", "MARK", "SWEEP"} /\ countdown \in Nat
  /\ vm_mark_list \subseteq Addr /\ roots \subseteq Addr
  /\ allocated \subseteq Addr /\ color \in [Addr -> Colors]
  /\ slots \in [Addr -> [Slot -> Ref]]
  /\ heap_mutex \in {"free", "mutator", "gc"}
  /\ stack \subseteq Addr
  /\ mpc \in {"run", "new", "barrier", "store", "stopping", "joining",
              "destroyed"}
  /\ w \in [o : Ref, i : Slot, v : Ref, old : Ref]
  /\ gpc \in {"acquire", "wait", "loop", "mark", "scan", "test", "shade",
              "sweep_lock", "sweep", "exit"}
  /\ cur \in Ref /\ idx \in 1 .. NumSlots + 1 /\ ref \in Ref
  /\ unseen \subseteq Addr
  /\ p \in Ref /\ free_chunk \in BOOLEAN /\ page_base \in Pages

-------------------------------------------------------------------------------
(* The objects the program has: not the chunk whose header object_new has    *)
(* still to write, nor the dead chunk the sweep has destroyed and will free. *)
live ==
  allocated \ ((IF mpc = "new" THEN {w.o} ELSE {}) \cup
               (IF free_chunk THEN {p} ELSE {}))

liveSlots ==
  [o \in Addr |-> IF o \in live THEN slots[o] ELSE [i \in Slot |-> Null]]

(* What the program is promised. *)
Promise == INSTANCE ManagedHeap WITH slots <- liveSlots

(* Every step of the two threads is a step of the managed heap, or does not  *)
(* show: the program's reads find what it wrote last (object_new, read,      *)
(* write, winit), an object goes only when nothing can reach it (gc_sweep).  *)
Promised == Promise!Spec

(* Every object that can be reached from the stack or the roots is there: no *)
(* sweep reclaims it, however marking, writes and allocation interleave      *)
(* (gc_mark, write, gc_sweep).                                               *)
NoReachableReclaimed == mpc # "destroyed" => Promise!Reachable \subseteq live

(* The assertions of the handshakes: the two threads agree on the phase, and *)
(* a mark list is empty when the other is swapped in for it.                 *)
HandshakeAsserts ==
  /\ state \in {"WAIT", "QUIT"} <=> phase = "NONE"
  /\ state \in {"MARK", "MARK_DONE"} <=> phase = "MARK"
  /\ state \in {"SWEEP", "SWEEP_DONE"} <=> phase = "SWEEP"
  /\ state # "MARK" => mark_list = {}

(* gc_sweep's assertion: no object is grey once marking is over, although    *)
(* either thread may have re-marked what the other had already marked.       *)
SweepMeetsNoGrey ==
  gpc \in {"sweep_lock", "sweep"} => \A o \in live : color[o] # "MARKED"

(* The heap is used by one thread at a time, although object_new decides     *)
(* whether to lock by looking at the mutator's own phase.                    *)
HeapExclusion == ~(mpc = "new" /\ gpc = "sweep")

(* No thread pushes on its mark list an object that is there: what makes a   *)
(* set of the list, and bounds its length by the number of objects.          *)
NoDoublePush ==
  /\ gpc = "shade" => ref \notin mark_list
  /\ mpc = "barrier" => w.old \notin vm_mark_list

(* Between collections all objects have one colour, so that swapping the two *)
(* colours makes all of them white ("DURING MARK PHASE ... All objects are   *)
(* white", collector.cpp).                                                   *)
EpochHasOneColor == phase = "NONE" => \A o \in live : color[o] = black_color

-------------------------------------------------------------------------------
(* stop_collector returns, whatever the collection was doing when the last   *)
(* reference to the runtime was released: no wakeup is lost and marking and  *)
(* sweeping end.                                                             *)
ShutdownCompletes == mpc = "stopping" ~> mpc = "destroyed"

(* A collection ends if the program keeps reaching safepoints and has used   *)
(* up its allocation countdown, although it goes on allocating and writing.  *)
CycleCompletes ==
  FairSafepoint => (phase # "NONE" /\ countdown = 0 ~> phase = "NONE")

(* If collections keep happening, an object that becomes unreachable is      *)
(* reclaimed: it floats at most until the end of the next collection.        *)
Collecting == []<>(phase = "MARK") /\ []<>(phase = "NONE")
GarbageIsReclaimed ==
  Collecting => \A o \in Addr :
                  o \in live /\ o \notin Promise!Reachable ~> o \notin live
================================================================================
