---------------------------- MODULE CollectorProofs ---------------------------
(*****************************************************************************)
(* Proofs about the collector, for every heap size, number of references and *)
(* page size: the parts of the inductive invariant one after the other, the  *)
(* theorems that follow from it, and that the two threads implement the      *)
(* managed heap.                                                             *)
(*****************************************************************************)
EXTENDS CollectorInv, TLAPS

(* What the assumptions on the constants give about addresses and slots. *)
LEMMA Constants ==
  /\ Null \notin Addr /\ Null \in Ref /\ Addr \subseteq Ref
  /\ 1 \in Slot /\ 1 \in 1 .. NumSlots + 1
  /\ \A i \in 1 .. NumSlots + 1 : i <= NumSlots => i \in Slot /\ i + 1 \in 1 .. NumSlots + 1
BY CollectorAssumption DEF CollectorAssumption, Addr, Null, Ref, Slot

(* The record of a write, when there is none, has the type of one. *)
LEMMA NoWriteType == NoWrite \in [o : Ref, i : Slot, v : Ref, old : Ref]
BY Constants DEF NoWrite

(* Every chunk is on a page (page_base in gc_sweep). *)
LEMMA PagesType == \A a \in Ref : PageOf(a) \in Pages
BY DEF Pages

(* The variables have their types when the runtime is created. *)
LEMMA InitType == Init => TypeOK
<1> SUFFICES ASSUME Init PROVE TypeOK
  OBVIOUS
<1>1. MaxCountdown \in Nat
  BY CollectorAssumption DEF CollectorAssumption
<1>2. color \in [Addr -> Colors] /\ slots \in [Addr -> [Slot -> Ref]]
  BY Constants DEF Init, Colors
<1>3. page_base \in Pages /\ w \in [o : Ref, i : Slot, v : Ref, old : Ref]
  BY Constants, PagesType, NoWriteType DEF Init
<1>4. QED
  BY Constants, <1>1, <1>2, <1>3 DEF Init, TypeOK, Epoch

(* Freeing a chunk in the sweep keeps the heap's types. *)
LEMMA FreeType ==
  TypeOK /\ free_last_chunk =>
    /\ allocated' \subseteq Addr
    /\ color' \in [Addr -> Colors]
    /\ slots' \in [Addr -> [Slot -> Ref]]
<1> SUFFICES ASSUME TypeOK, free_last_chunk
             PROVE  /\ allocated' \subseteq Addr
                    /\ color' \in [Addr -> Colors]
                    /\ slots' \in [Addr -> [Slot -> Ref]]
  OBVIOUS
<1>1. "NONE" \in Colors /\ [i \in Slot |-> Null] \in [Slot -> Ref]
  BY Constants DEF Colors
<1>2. QED
  BY <1>1, ZenonT(40) DEF TypeOK, free_last_chunk

(* Every step of either thread keeps the types. *)
LEMMA StepType == IInv /\ [Next]_vars => TypeOK'
<1> SUFFICES ASSUME TypeOK, ControlInv, RefInv, [Next]_vars PROVE TypeOK'
  BY DEF IInv
<1> USE DEF gcVars, vmVars, heapVars, mutVars, scanVars, sweepVars
<1>1. CASE safepoint_start_mark /\ UNCHANGED mpc
  BY <1>1 DEF TypeOK, safepoint_start_mark, swap_colors, NotifyAll, Shade,
              Epoch, Colors
<1>2. CASE safepoint_handshake /\ UNCHANGED mpc
  <2>1. CASE swap_mark_lists
    BY <1>2, <2>1 DEF TypeOK, swap_mark_lists, NotifyAll
  <2>2. CASE safepoint_start_sweep
    BY <1>2, <2>2 DEF TypeOK, safepoint_start_sweep, NotifyAll
  <2>3. CASE safepoint_new_epoch
    BY <1>2, <2>3 DEF TypeOK, safepoint_new_epoch
  <2>4. QED
    BY <1>2, <2>1, <2>2, <2>3 DEF safepoint_handshake
<1>3. CASE HandshakeStep
  BY <1>1, <1>2, <1>3
     DEF HandshakeStep, safepoint, start_collection, stop_collector,
         wait_for_collection, request_quit, sweep_entire_heap, TypeOK, NotifyAll
<1>4. CASE HeapStep
  <2> USE Constants, NoWriteType DEF TypeOK
  <2>1. ASSUME NEW o \in Addr, drop(o) \/ push_root(o) \/ object_retain(o) \/ object_release(o)
        PROVE  TypeOK'
    BY <2>1 DEF drop, push_root, object_retain, object_release
  <2>2. ASSUME NEW o \in Addr, object_new_malloc(o)
        PROVE  TypeOK'
    <3>1. w' \in [o : Ref, i : Slot, v : Ref, old : Ref]
      BY <2>2 DEF object_new_malloc
    <3>2. color' \in [Addr -> Colors]
      BY <2>2 DEF object_new_malloc, Epoch, Colors
    <3>3. countdown' \in Nat
      BY <2>2 DEF object_new_malloc
    <3>4. QED
      BY <2>2, <3>1, <3>2, <3>3 DEF object_new_malloc
  <2>3. ASSUME NEW o \in Addr, NEW i \in Slot, read(o, i)
        PROVE  TypeOK'
    BY <2>3 DEF read, Ref
  <2>4. CASE object_new_header
    BY <2>4 DEF object_new_header, NewObjectColor, Epoch, Colors, RefInv
  <2>5. ASSUME NEW o \in Addr, NEW i \in Slot, NEW v \in Ref,
               winit(o, i, v) \/ write_no_barrier(o, i, v)
        PROVE  TypeOK'
    <3>1. v \in Ref /\ slots' = [slots EXCEPT ![o][i] = v]
      BY <2>5 DEF winit, write_no_barrier
    <3>2. slots' \in [Addr -> [Slot -> Ref]]
      BY <3>1
    <3>3. QED
      BY <2>5, <3>2 DEF winit, write_no_barrier
  <2>6. ASSUME NEW o \in Addr, NEW i \in Slot, NEW v \in Ref, write_test(o, i, v)
        PROVE  TypeOK'
    BY <2>6 DEF write_test
  <2>7. CASE write_barrier
    <3>1. w.old \in Addr
      BY <2>7 DEF write_barrier, ControlInv, Ref
    <3>2. color' \in [Addr -> Colors]
      BY <2>7 DEF write_barrier, Shade, Epoch, Colors
    <3>3. QED
      BY <2>7, <3>1, <3>2 DEF write_barrier
  <2>8. CASE write_store
    <3>1. slots' \in [Addr -> [Slot -> Ref]]
      BY <2>8 DEF write_store
    <3>2. QED
      BY <2>8, <3>1 DEF write_store
  <2>9. QED
    BY <1>4, <2>1, <2>2, <2>3, <2>4, <2>5, <2>6, <2>7, <2>8 DEF HeapStep
<1>5. CASE GcStep \/ gc_spurious_wakeup
  <2> USE Constants DEF TypeOK
  <2>1. CASE gc_acquire \/ gc_spurious_wakeup \/ gc_mark_done \/ gc_sweep_lock
    BY <2>1 DEF gc_acquire, gc_spurious_wakeup, gc_mark_done, gc_sweep_lock
  <2>2. CASE gc_dispatch
    BY <2>2, PagesType, ZenonT(40) DEF gc_dispatch
  <2>3. ASSUME NEW o \in Addr, gc_pop(o)
        PROVE  TypeOK'
    BY <2>3 DEF gc_pop
  <2>4. ASSUME NEW o \in Addr, gc_sweep_next(o)
        PROVE  TypeOK'
    BY <2>4, FreeType DEF gc_sweep_next, Condemned
  <2>5. CASE gc_load \/ gc_mark_ref_test
    <3>1. CASE gc_load
      <4>1. slots[cur][idx] \in Ref /\ idx + 1 \in 1 .. NumSlots + 1
        BY <3>1 DEF gc_load, ControlInv, Ref
      <4>2. QED
        BY <3>1, <4>1 DEF gc_load
    <3>2. CASE gc_mark_ref_test
      BY <3>2 DEF gc_mark_ref_test
    <3>3. QED
      BY <2>5, <3>1, <3>2
  <2>6. CASE gc_mark_ref_shade \/ gc_blacken
    <3>1. CASE gc_mark_ref_shade
      <4>1. ref \in Addr
        BY <3>1 DEF gc_mark_ref_shade, ControlInv, Ref
      <4>2. color' \in [Addr -> Colors]
        BY <3>1 DEF gc_mark_ref_shade, Shade, Epoch, Colors
      <4>3. QED
        BY <3>1, <4>1, <4>2 DEF gc_mark_ref_shade
    <3>2. CASE gc_blacken
      <4>1. color' \in [Addr -> Colors]
        BY <3>2 DEF gc_blacken, Epoch, Colors
      <4>2. QED
        BY <3>2, <4>1 DEF gc_blacken
    <3>3. QED
      BY <2>6, <3>1, <3>2
  <2>7. CASE gc_sweep_page
    BY <2>7, PagesType DEF gc_sweep_page
  <2>8. CASE gc_sweep_done
    BY <2>8, PagesType, FreeType DEF gc_sweep_done
  <2>9. QED
    BY <1>5, <2>1, <2>2, <2>3, <2>4, <2>5, <2>6, <2>7, <2>8 DEF GcStep
<1>6. CASE Terminated \/ UNCHANGED vars
  BY <1>6 DEF Terminated, vars, TypeOK
<1>7. QED
  BY <1>3, <1>4, <1>5, <1>6 DEF Next

(* The positions of the two threads.  A handshake finds the GC thread out of *)
(* gc_mark and gc_sweep, because it needs work_mutex.                        *)
LEMMA InitControl == Init => ControlInv
BY DEF Init, ControlInv, NoWrite, Null

(* Every step keeps the threads where the state of the collector says. *)
LEMMA StepControl == IInv /\ [Next]_vars => ControlInv'
<1> SUFFICES ASSUME TypeOK, ControlInv, ListInv, [Next]_vars PROVE ControlInv'
  BY DEF IInv
<1> USE DEF gcVars, vmVars, heapVars, mutVars, scanVars, sweepVars
<1>1. ASSUME safepoint_start_mark, UNCHANGED mpc, mpc = "run"
      PROVE  ControlInv'
  BY <1>1 DEF TypeOK, ControlInv, safepoint_start_mark, swap_colors, NotifyAll,
              WorkMutexFree
<1>2. ASSUME safepoint_handshake, UNCHANGED mpc, mpc \in {"run", "stopping"}
      PROVE  ControlInv'
  <2> USE <1>2 DEF TypeOK, ControlInv, safepoint_handshake, WorkMutexFree
  <2>1. CASE swap_mark_lists
    BY <2>1 DEF swap_mark_lists, NotifyAll
  <2>2. CASE safepoint_start_sweep
    BY <2>2 DEF safepoint_start_sweep, NotifyAll
  <2>3. CASE safepoint_new_epoch
    BY <2>3 DEF safepoint_new_epoch
  <2>4. QED
    BY <2>1, <2>2, <2>3
<1>3. CASE safepoint \/ start_collection \/ wait_for_collection
  BY <1>1, <1>2, <1>3 DEF safepoint, start_collection, wait_for_collection
<1>4. CASE stop_collector \/ request_quit \/ sweep_entire_heap
  BY <1>4 DEF stop_collector, request_quit, sweep_entire_heap, TypeOK,
              ControlInv, NotifyAll, WorkMutexFree
<1>5. CASE HeapStep
  <2> USE DEF TypeOK, ControlInv
  <2>1. ASSUME NEW o \in Addr,
               drop(o) \/ push_root(o) \/ object_retain(o) \/ object_release(o)
        PROVE  ControlInv'
    BY <2>1 DEF drop, push_root, object_retain, object_release
  <2>2. ASSUME NEW o \in Addr, object_new_malloc(o)
        PROVE  ControlInv'
    BY <2>2 DEF object_new_malloc, NeedsHeapLock
  <2>3. ASSUME NEW o \in Addr, NEW i \in Slot, read(o, i)
        PROVE  ControlInv'
    BY <2>3 DEF read
  <2>4. CASE object_new_header
    BY <2>4 DEF object_new_header
  <2>5. ASSUME NEW o \in Addr, NEW i \in Slot, NEW v \in Ref,
               winit(o, i, v) \/ write_no_barrier(o, i, v)
        PROVE  ControlInv'
    BY <2>5 DEF winit, write_no_barrier
  <2>6. ASSUME NEW o \in Addr, NEW i \in Slot, NEW v \in Ref,
               write_test(o, i, v)
        PROVE  ControlInv'
    BY <2>6, Constants DEF write_test, MayBarrier, MustBarrier, ListInv
  <2>7. CASE write_barrier \/ write_store
    BY <2>7 DEF write_barrier, write_store
  <2>8. QED
    BY <1>5, <2>1, <2>2, <2>3, <2>4, <2>5, <2>6, <2>7 DEF HeapStep
<1>6. CASE GcStep \/ gc_spurious_wakeup
  <2> USE DEF TypeOK, ControlInv
  <2>1. CASE gc_acquire \/ gc_spurious_wakeup \/ gc_mark_done
    BY <2>1 DEF gc_acquire, gc_spurious_wakeup, gc_mark_done
  <2>2. CASE gc_dispatch
    BY <2>2 DEF gc_dispatch
  <2>3. ASSUME NEW o \in Addr, gc_pop(o)
        PROVE  ControlInv'
    BY <2>3, Constants DEF gc_pop
  <2>4. ASSUME NEW o \in Addr, gc_sweep_next(o)
        PROVE  ControlInv'
    BY <2>4 DEF gc_sweep_next, Condemned
  <2>5. CASE gc_load
    BY <2>5 DEF gc_load
  <2>6. CASE gc_mark_ref_test
    BY <2>6, Constants DEF gc_mark_ref_test, MayMark, MustMark
  <2>7. CASE gc_mark_ref_shade \/ gc_blacken
    BY <2>7 DEF gc_mark_ref_shade, gc_blacken
  <2>8. CASE gc_sweep_lock \/ gc_sweep_page \/ gc_sweep_done
    BY <2>8 DEF gc_sweep_lock, gc_sweep_page, gc_sweep_done
  <2>9. QED
    BY <1>6, <2>1, <2>2, <2>3, <2>4, <2>5, <2>6, <2>7, <2>8 DEF GcStep
<1>7. CASE Terminated \/ UNCHANGED vars
  BY <1>7 DEF Terminated, vars, ControlInv
<1>8. QED
  BY <1>3, <1>4, <1>5, <1>6, <1>7 DEF Next, HandshakeStep

-------------------------------------------------------------------------------
(* Which objects the program has, after each kind of step. *)

(* They are the same when the heap and the position of the sweep stay. *)
LEMMA LiveUnchanged ==
  UNCHANGED <<allocated, mpc, w, free_chunk, p>> => live' = live
BY DEF live

(* The same, when no object_new begins or ends. *)
LEMMA LiveWhileRunning ==
  /\ mpc # "new" /\ mpc' # "new" /\ UNCHANGED <<allocated, free_chunk, p>>
  => live' = live
BY DEF live

(* heap_malloc does not give the program an object yet. *)
LEMMA LiveAfterMalloc ==
  \A o \in Addr : object_new_malloc(o) => live' = live /\ o \notin live
BY DEF live, object_new_malloc, NoWrite, sweepVars

(* The program has a new object once its header is written (object_new). *)
LEMMA LiveAfterHeader ==
  TypeOK /\ RefInv /\ object_new_header =>
    w.o \notin live /\ live' = live \cup {w.o}
<1> SUFFICES ASSUME TypeOK, RefInv, object_new_header
             PROVE  w.o \notin live /\ live' = live \cup {w.o}
  OBVIOUS
<1>1. w.o \in allocated /\ (free_chunk => w.o # p)
  BY DEF RefInv, object_new_header
<1>2. mpc = "new" /\ mpc' = "run" /\ UNCHANGED <<allocated, free_chunk, p>>
  BY DEF object_new_header, sweepVars
<1>3. live = allocated \ ({w.o} \cup IF free_chunk THEN {p} ELSE {})
  BY <1>2 DEF live
<1>4. live' = allocated \ (IF free_chunk THEN {p} ELSE {})
  BY <1>2 DEF live
<1>5. QED
  BY <1>1, <1>3, <1>4

(* The sweep removes the chunk it comes to, when it is white. *)
LEMMA LiveAfterSweepNext ==
  \A a \in Addr :
    TypeOK /\ ControlInv /\ gc_sweep_next(a) =>
      live' = live \ (IF color[a] = white_color THEN {a} ELSE {})
<1> SUFFICES ASSUME NEW a \in Addr, TypeOK, ControlInv, gc_sweep_next(a)
             PROVE  live' = live \ (IF color[a] = white_color THEN {a} ELSE {})
  OBVIOUS
<1>1. mpc # "new" /\ mpc' # "new"
  BY DEF TypeOK, ControlInv, gc_sweep_next, Condemned, mutVars
<1>2. p' = a /\ free_chunk' = (color[a] = white_color)
      /\ allocated' = allocated \ (IF free_chunk THEN {p} ELSE {})
  BY DEF gc_sweep_next, Condemned, free_last_chunk
<1>3. QED
  BY <1>1, <1>2 DEF live

(* The last call of heap_sweep takes no object from the program. *)
LEMMA LiveAfterSweepDone ==
  TypeOK /\ ControlInv /\ gc_sweep_done => live' = live
<1> SUFFICES ASSUME TypeOK, ControlInv, gc_sweep_done PROVE live' = live
  OBVIOUS
<1>1. mpc # "new" /\ mpc' # "new"
  BY DEF TypeOK, ControlInv, gc_sweep_done, mutVars
<1>2. ~free_chunk'
      /\ allocated' = allocated \ (IF free_chunk THEN {p} ELSE {})
  BY DEF gc_sweep_done, free_last_chunk
<1>3. QED
  BY <1>1, <1>2 DEF live

-------------------------------------------------------------------------------
(* The mark lists. *)

(* They are empty when the runtime is created. *)
LEMMA InitList == Init => ListInv
BY DEF Init, ListInv, Grey, live

(* Every step keeps the mark lists as ListInv says: what is grey is on one. *)
LEMMA StepList == IInv /\ [Next]_vars => ListInv'
<1> SUFFICES ASSUME TypeOK, ControlInv, ListInv, ColorInv, RefInv, [Next]_vars
             PROVE  ListInv'
  BY DEF IInv
<1> USE DEF gcVars, vmVars, heapVars, mutVars, scanVars, sweepVars
<1>1. ASSUME safepoint_start_mark, UNCHANGED mpc, mpc = "run"
      PROVE  ListInv'
  <2>1. live' = live
    BY <1>1, LiveUnchanged DEF safepoint_start_mark
  <2>2. stack \cup roots \subseteq live
    BY <1>1 DEF RefInv
  <2> DEFINE M == {o \in roots \cup stack : color[o] = black_color}
  <2>3. /\ mark_list = {} /\ vm_mark_list = {} /\ cur = Null
        /\ mark_list' = M \ Strings /\ vm_mark_list' = {} /\ cur' = Null
        /\ state' = "MARK" /\ phase' = "MARK" /\ unseen' = {}
        /\ gpc' # "shade" /\ mpc' = "run"
    BY <1>1 DEF safepoint_start_mark, ListInv, ControlInv, WorkMutexFree, NotifyAll
  <2>4. Grey' = M \ Strings
    BY <2>3 DEF Grey
  <2>5. /\ black_color' = white_color /\ white_color' = black_color
        /\ white_color # "MARKED"
        /\ color' = [o \in Addr |-> IF o \in M THEN Shade(o, white_color)
                                                ELSE color[o]]
    BY <1>1 DEF safepoint_start_mark, swap_colors, TypeOK, Epoch
  <2>6. \A o \in live : color[o] = black_color /\ o \in Addr
    BY <1>1 DEF ColorInv, safepoint_start_mark, live, TypeOK
  <2>7. black_color # "MARKED"
    BY DEF TypeOK, Epoch
  <2>8. \A o \in live : color'[o] = IF o \in M THEN Shade(o, white_color)
                                               ELSE black_color
    BY <2>5, <2>6
  <2>9. QED
    BY <2>1, <2>2, <2>3, <2>4, <2>5, <2>6, <2>7, <2>8 DEF ListInv, Shade
<1>2. ASSUME safepoint_handshake, UNCHANGED mpc, mpc \in {"run", "stopping"}
      PROVE  ListInv'
  <2>1. live' = live /\ UNCHANGED <<color, black_color, white_color>> /\ mpc' = mpc
        /\ cur = Null /\ cur' = Null /\ gpc' # "shade"
    BY <1>2, LiveUnchanged DEF safepoint_handshake, swap_mark_lists, NotifyAll,
         safepoint_start_sweep, safepoint_new_epoch, ControlInv, WorkMutexFree
  <2>2. CASE swap_mark_lists
    BY <1>2, <2>1, <2>2 DEF swap_mark_lists, ListInv, ControlInv, Grey
  <2>3. CASE safepoint_start_sweep
    BY <1>2, <2>1, <2>3 DEF safepoint_start_sweep, ListInv, ControlInv, Grey, NothingToMark
  <2>4. CASE safepoint_new_epoch
    BY <1>2, <2>1, <2>4 DEF safepoint_new_epoch, ListInv, ControlInv, Grey
  <2>5. QED
    BY <1>2, <2>2, <2>3, <2>4 DEF safepoint_handshake
<1>3. CASE safepoint \/ start_collection \/ wait_for_collection
  BY <1>1, <1>2, <1>3 DEF safepoint, start_collection, wait_for_collection
<1>4. CASE request_quit
  BY <1>4, LiveWhileRunning
     DEF request_quit, ListInv, ControlInv, Grey, NotifyAll, WorkMutexFree
<1>5. CASE sweep_entire_heap
  <2>1. Grey = {} /\ Grey' = {}
    BY <1>5 DEF sweep_entire_heap, ListInv, ControlInv, Grey
  <2>2. live' = {}
    <3>1. mpc' = "destroyed" /\ ~free_chunk /\ ~free_chunk'
      BY <1>5 DEF sweep_entire_heap, ControlInv
    <3>2. live = allocated /\ live' = allocated'
      BY <1>5, <3>1 DEF live, sweep_entire_heap
    <3>3. QED
      BY <1>5, <3>2 DEF sweep_entire_heap, ColorInv
  <2>3. QED
    BY <1>5, <2>1, <2>2 DEF sweep_entire_heap, ListInv, ControlInv
(* Steps that touch neither a colour, nor a list, nor what the clauses on *)
(* write_barrier and gc_mark_ref_shade speak of.                          *)
<1>6. ASSUME UNCHANGED <<state, phase, mark_list, vm_mark_list, cur, color,
                         white_color, black_color, unseen>>,
             live' = live,
             mpc' = "barrier" => mpc = "barrier" /\ UNCHANGED w,
             gpc' = "shade" => gpc = "shade" /\ UNCHANGED ref
      PROVE  ListInv'
  <2>1. Grey' = Grey
    BY <1>6 DEF Grey
  <2>2. QED
    BY <1>6, <2>1 DEF ListInv
<1>7. CASE stop_collector
  BY <1>6, <1>7, LiveWhileRunning DEF stop_collector
<1>8. CASE HeapStep
  <2>1. ASSUME NEW o \in Addr,
               drop(o) \/ push_root(o) \/ object_retain(o) \/ object_release(o)
        PROVE  ListInv'
    BY <2>1, <1>6, LiveUnchanged DEF drop, push_root, object_retain, object_release
  <2>2. ASSUME NEW o \in Addr, object_new_malloc(o)
        PROVE  ListInv'
    <3>1. live' = live /\ o \notin live
      BY <2>2, LiveAfterMalloc
    <3>2. Grey' = Grey /\ o \notin Grey
      BY <2>2, <3>1 DEF object_new_malloc, Grey, ListInv
    <3>3. \A a \in live : color'[a] = color[a]
      BY <2>2, <3>1 DEF object_new_malloc, TypeOK, live
    <3>4. Grey \subseteq live /\ ref \in live \cup {Null}
      BY DEF ListInv, RefInv
    <3>5. mpc' # "barrier"
      BY <2>2 DEF object_new_malloc
    <3>6. UNCHANGED <<state, phase, mark_list, vm_mark_list, gpc, ref, unseen,
                      white_color, black_color>>
      BY <2>2 DEF object_new_malloc
    <3>7. QED
      BY <3>1, <3>2, <3>3, <3>4, <3>5, <3>6 DEF ListInv
  <2>3. ASSUME NEW o \in Addr, NEW i \in Slot, read(o, i)
        PROVE  ListInv'
    BY <2>3, <1>6, LiveUnchanged DEF read
  <2>4. CASE object_new_header
    <3>1. w.o \notin live /\ live' = live \cup {w.o}
      BY <2>4, LiveAfterHeader
    <3>2. /\ \A a \in live : color'[a] = color[a]
          /\ w.o \in Addr /\ color'[w.o] = black_color /\ black_color # "MARKED"
      BY <2>4, <3>1 DEF object_new_header, NewObjectColor, TypeOK, live, RefInv, Epoch
    <3>3. UNCHANGED <<state, phase, mark_list, vm_mark_list, cur, gpc, ref, unseen,
                      white_color, black_color>> /\ mpc' # "barrier"
      BY <2>4 DEF object_new_header
    <3>4. Grey' = Grey
      BY <3>3 DEF Grey
    <3>5. QED
      BY <3>1, <3>2, <3>3, <3>4 DEF ListInv
  <2>5. ASSUME NEW o \in Addr, NEW i \in Slot, NEW v \in Ref,
               winit(o, i, v) \/ write_no_barrier(o, i, v)
        PROVE  ListInv'
    BY <2>5, <1>6, LiveUnchanged DEF winit, write_no_barrier
  <2>6. ASSUME NEW o \in Addr, NEW i \in Slot, NEW v \in Ref,
               write_test(o, i, v)
        PROVE  ListInv'
    <3>1. live' = live
      BY <2>6, LiveWhileRunning DEF write_test
    <3>2. Grey' = Grey
      BY <2>6 DEF write_test, Grey
    <3>3. UNCHANGED <<state, phase, mark_list, vm_mark_list, gpc, ref, unseen,
                      white_color, black_color, color>>
      BY <2>6 DEF write_test
    <3>4. phase = "MARK" /\ old_color = white_color
      BY <2>6 DEF write_test, ControlInv
    <3>5. ASSUME mpc' = "barrier"
          PROVE  w'.old \notin vm_mark_list
                 /\ (color[w'.old] = white_color \/ w'.old \in unseen)
      <4>1. MayBarrier(w'.old) /\ w'.old \in Ref
        BY <2>6, <3>5 DEF write_test, TypeOK
      <4>2. \A a \in vm_mark_list : color[a] # white_color
        BY DEF ListInv, Grey, TypeOK, Epoch
      <4>3. QED
        BY <3>4, <4>1, <4>2 DEF MayBarrier, MustBarrier
    <3>6. QED
      BY <3>1, <3>2, <3>3, <3>5 DEF ListInv
  <2>7. CASE write_barrier
    <3>1. live' = live
      BY <2>7, LiveWhileRunning DEF write_barrier
    <3>2. phase = "MARK" /\ w.old \in Addr
      BY <2>7 DEF write_barrier, ControlInv, TypeOK, Ref
    <3>3. w.old \in live
      BY <2>7, <3>2, Constants DEF write_barrier, RefInv, TypeOK
    <3>4. Grey' = Grey \cup ({w.old} \ Strings)
      BY <2>7 DEF write_barrier, Grey
    <3>5. /\ \A a \in live : a # w.old => color'[a] = color[a]
          /\ \/ color'[w.old] = Shade(w.old, black_color)
             \/ w.old \in unseen /\ color'[w.old] = color[w.old]
      BY <2>7, <3>2 DEF write_barrier, TypeOK, live
    <3>6. w.old \in mark_list \ Strings => w.old \in unseen
      BY <2>7 DEF write_barrier, ListInv, Grey, TypeOK, Epoch
    <3>7. UNCHANGED <<state, phase, mark_list, gpc, ref, unseen, white_color,
                      black_color>>
          /\ mpc' # "barrier" /\ vm_mark_list' = vm_mark_list \cup ({w.old} \ Strings)
      BY <2>7 DEF write_barrier
    <3>8. black_color \notin {"MARKED", white_color} /\ white_color # "MARKED"
      BY DEF TypeOK, Epoch
    <3>9. w.old \in unseen => color[w.old] \in {"MARKED", black_color}
      BY <3>2, <3>3 DEF ListInv, ColorInv, TypeOK, Colors, Epoch
    <3>10. \A a \in Grey' : color'[a] \in {"MARKED", black_color}
      BY <3>3, <3>4, <3>5, <3>9 DEF ListInv, Shade
    <3>11. \A a \in live : color'[a] = "MARKED" => a \in Grey'
      BY <3>3, <3>4, <3>5, <3>8 DEF ListInv, Shade
    <3>12. \A a \in unseen : a \in live /\ color'[a] # white_color
      BY <3>2, <3>5, <3>8 DEF ListInv, Shade
    <3>13. QED
      BY <3>1, <3>2, <3>3, <3>4, <3>6, <3>7, <3>10, <3>11, <3>12 DEF ListInv
  <2>8. CASE write_store
    BY <2>8, <1>6, LiveWhileRunning DEF write_store
  <2>9. QED
    BY <1>8, <2>1, <2>2, <2>3, <2>4, <2>5, <2>6, <2>7, <2>8 DEF HeapStep
<1>9. CASE GcStep \/ gc_spurious_wakeup
  <2>1. CASE gc_acquire \/ gc_spurious_wakeup \/ gc_sweep_lock \/ gc_sweep_page \/ gc_load
    BY <2>1, <1>6, LiveUnchanged
       DEF gc_acquire, gc_spurious_wakeup, gc_sweep_lock, gc_sweep_page, gc_load
  <2>2. CASE gc_mark_done
    BY <2>2, LiveUnchanged DEF gc_mark_done, ListInv, Grey
  <2>3. CASE gc_dispatch
    <3>1. live' = live
      BY <2>3 DEF gc_dispatch, ControlInv, live
    <3>2. QED
      BY <2>3, <3>1, <1>6 DEF gc_dispatch
  <2>4. ASSUME NEW o \in Addr, gc_pop(o)
        PROVE  ListInv'
    <3>1. live' = live
      BY <2>4, LiveUnchanged DEF gc_pop
    <3>2. Grey' = Grey
      BY <2>4, Constants DEF gc_pop, Grey, ControlInv
    <3>3. QED
      BY <2>4, <3>1, <3>2 DEF gc_pop, ListInv, ControlInv
  <2>5. ASSUME NEW o \in Addr, gc_sweep_next(o)
        PROVE  ListInv'
    <3>1. live' = live \ (IF color[o] = white_color THEN {o} ELSE {})
      BY <2>5, LiveAfterSweepNext
    <3>2. phase = "SWEEP" /\ state = "SWEEP" /\ gpc = "sweep"
      BY <2>5 DEF gc_sweep_next, Condemned, ControlInv
    <3>3. Grey = {} /\ Grey' = {}
      BY <2>5, <3>2 DEF gc_sweep_next, Condemned, ListInv, Grey, ControlInv
    <3>4. \A a \in live : color'[a] = color[a]
      BY <2>5 DEF gc_sweep_next, Condemned, free_last_chunk, TypeOK, live
    <3>5. QED
      BY <2>5, <3>1, <3>2, <3>3, <3>4 DEF gc_sweep_next, Condemned, ListInv, ControlInv
  <2>6. CASE gc_sweep_done
    <3>1. live' = live
      BY <2>6, LiveAfterSweepDone
    <3>2. phase = "SWEEP" /\ state = "SWEEP" /\ gpc = "sweep"
      BY <2>6 DEF gc_sweep_done, ControlInv
    <3>3. Grey = {} /\ Grey' = {}
      BY <2>6, <3>2 DEF gc_sweep_done, ListInv, Grey, ControlInv
    <3>4. \A a \in live : color'[a] = color[a]
      BY <2>6 DEF gc_sweep_done, free_last_chunk, TypeOK, live
    <3>5. QED
      BY <2>6, <3>1, <3>2, <3>3, <3>4 DEF gc_sweep_done, ListInv, ControlInv
  <2>7. CASE gc_mark_ref_test
    <3>1. live' = live
      BY <2>7, LiveUnchanged DEF gc_mark_ref_test
    <3>2. Grey' = Grey
      BY <2>7 DEF gc_mark_ref_test, Grey
    <3>3. phase = "MARK"
      BY <2>7 DEF gc_mark_ref_test, ControlInv
    <3>4. \A a \in mark_list : color[a] # white_color
      BY DEF ListInv, Grey, TypeOK, Epoch
    <3>5. gpc' = "shade" => ref' \notin mark_list \cup unseen
      BY <2>7, <3>3, <3>4 DEF gc_mark_ref_test, MayMark, MustMark, ListInv
    <3>6. QED
      BY <2>7, <3>1, <3>2, <3>5 DEF gc_mark_ref_test, ListInv
  <2>8. CASE gc_mark_ref_shade
    <3>1. live' = live
      BY <2>8, LiveUnchanged DEF gc_mark_ref_shade
    <3>2. phase = "MARK" /\ state = "MARK" /\ ref \in live /\ live \subseteq Addr
      BY <2>8 DEF gc_mark_ref_shade, ControlInv, RefInv, live, TypeOK
    <3>3. Grey' = Grey \cup ({ref} \ Strings)
      BY <2>8 DEF gc_mark_ref_shade, Grey
    <3>4. color' = [color EXCEPT ![ref] = Shade(ref, black_color)]
          /\ mark_list' = mark_list \cup ({ref} \ Strings)
          /\ unseen' = unseen \cup ({ref} \ Strings) /\ gpc' # "shade"
          /\ UNCHANGED <<state, phase, vm_mark_list, w, mpc, white_color, black_color>>
      BY <2>8 DEF gc_mark_ref_shade
    <3>5. black_color \notin {"MARKED", white_color} /\ white_color # "MARKED"
      BY DEF TypeOK, Epoch
    <3>6. \A a \in live : color'[a] = IF a = ref THEN Shade(ref, black_color) ELSE color[a]
      BY <3>2, <3>4 DEF TypeOK
    <3>7. mpc = "barrier" => w.old \in Addr
      BY DEF ControlInv, TypeOK, Ref
    <3>8. mpc = "barrier" => color'[w.old] = white_color \/ w.old \in unseen' \cup Strings
      BY <3>2, <3>4, <3>7 DEF ListInv, TypeOK
    <3>9. QED
      BY <3>1, <3>2, <3>3, <3>4, <3>5, <3>6, <3>8 DEF ListInv, Shade
  <2>9. CASE gc_blacken
    <3>1. live' = live
      BY <2>9, LiveUnchanged DEF gc_blacken
    <3>2. phase = "MARK" /\ state = "MARK" /\ cur \in Grey /\ cur \in live \ Strings /\ live \subseteq Addr
      BY <2>9 DEF gc_blacken, ControlInv, ListInv, live, TypeOK, Grey
    <3>3. Grey' = mark_list \cup vm_mark_list
      BY <2>9 DEF gc_blacken, Grey
    <3>4. \A a \in live : a # cur => color'[a] = color[a]
      BY <2>9, <3>2 DEF gc_blacken, TypeOK
    <3>5. color'[cur] = black_color \/ (cur \in vm_mark_list /\ color'[cur] = color[cur])
      BY <2>9, <3>2 DEF gc_blacken, TypeOK
    <3>6. black_color \notin {"MARKED", white_color} /\ white_color # "MARKED"
      BY DEF TypeOK, Epoch
    <3>7. gpc' = "mark" /\ UNCHANGED <<state, phase, vm_mark_list, mark_list, unseen, w, mpc,
                                    white_color, black_color>>
      BY <2>9 DEF gc_blacken
    <3>8. mpc = "barrier" => color'[w.old] = white_color \/ w.old \in unseen \cup Strings
      <4>1. mpc = "barrier" /\ color[w.old] = white_color => w.old # cur
        BY <3>2, <3>6 DEF ListInv
      <4>2. mpc = "barrier" => w.old \in Addr
        BY DEF ControlInv, TypeOK, Ref
      <4>3. QED
        BY <2>9, <4>1, <4>2 DEF gc_blacken, TypeOK, ListInv
    <3>9. QED
      BY <3>1, <3>2, <3>3, <3>4, <3>5, <3>6, <3>7, <3>8 DEF ListInv, Grey
  <2>10. QED
    BY <1>9, <2>1, <2>2, <2>3, <2>4, <2>5, <2>6, <2>7, <2>8, <2>9 DEF GcStep
<1>10. CASE Terminated \/ UNCHANGED vars
  BY <1>6, <1>10, LiveUnchanged DEF Terminated, vars
<1>11. QED
  BY <1>3, <1>4, <1>5, <1>7, <1>8, <1>9, <1>10 DEF Next, HandshakeStep

-------------------------------------------------------------------------------
(* An address is a positive number. *)
LEMMA AddrType == Addr \subseteq Nat /\ Null = 0 /\ \A a \in Addr : a > 0
BY CollectorAssumption DEF CollectorAssumption, Addr, Null

-------------------------------------------------------------------------------
(* Colours.  No white object is behind the sweep, none is left after it. *)
LEMMA InitColor == Init => ColorInv
BY DEF Init, ColorInv, live

(* Every step keeps the colours as ColorInv says. *)
LEMMA StepColor == IInv /\ [Next]_vars => ColorInv'
<1> SUFFICES ASSUME TypeOK, ControlInv, ListInv, ColorInv, RefInv, [Next]_vars
             PROVE  ColorInv'
  BY DEF IInv
<1> USE DEF gcVars, vmVars, heapVars, mutVars, scanVars, sweepVars
<1>0. live \subseteq Addr /\ Addr \subseteq Nat /\ Null = 0 /\ \A a \in Addr : a > 0
  BY AddrType DEF live, TypeOK
<1>1. ASSUME safepoint_start_mark, UNCHANGED mpc, mpc = "run"
      PROVE  ColorInv'
  <2>1. live' = live
    BY <1>1, LiveUnchanged DEF safepoint_start_mark
  <2>2. phase' = "MARK" /\ ~free_chunk'
    BY <1>1 DEF safepoint_start_mark, ControlInv
  <2>3. \A o \in live : color'[o] # "NONE"
    BY <1>0, <1>1 DEF safepoint_start_mark, ColorInv, Shade, TypeOK, Epoch
  <2>4. QED
    BY <2>1, <2>2, <2>3 DEF ColorInv
<1>2. ASSUME safepoint_handshake, UNCHANGED mpc, mpc \in {"run", "stopping"}
      PROVE  ColorInv'
  <2>1. live' = live /\ UNCHANGED <<color, black_color, white_color, p, free_chunk>>
    BY <1>2, LiveUnchanged DEF safepoint_handshake, swap_mark_lists,
         safepoint_start_sweep, safepoint_new_epoch
  <2>2. ~free_chunk /\ p = Null
    BY <1>2 DEF safepoint_handshake, WorkMutexFree, ControlInv
  <2>3. CASE swap_mark_lists
    BY <2>1, <2>2, <2>3 DEF swap_mark_lists, ColorInv, ControlInv
  <2>4. CASE safepoint_start_sweep
    <3>1. \A o \in live : o > p'
      BY <1>0, <2>1, <2>2
    <3>2. QED
      BY <2>1, <2>2, <2>4, <3>1 DEF safepoint_start_sweep, ColorInv
  <2>5. CASE safepoint_new_epoch
    <3>1. \A o \in live : color[o] \notin {"MARKED", white_color, "NONE"}
      BY <1>2, <2>5 DEF safepoint_new_epoch, ColorInv, ControlInv, ListInv, Grey,
                        safepoint_handshake, WorkMutexFree
    <3>2. \A o \in live : color[o] = black_color
      BY <1>0, <3>1 DEF TypeOK, Colors, Epoch
    <3>3. QED
      BY <2>1, <2>2, <2>5, <3>2 DEF safepoint_new_epoch, ColorInv
  <2>6. QED
    BY <1>2, <2>3, <2>4, <2>5 DEF safepoint_handshake
<1>3. CASE safepoint \/ start_collection \/ wait_for_collection
  BY <1>1, <1>2, <1>3 DEF safepoint, start_collection, wait_for_collection
<1>4. ASSUME UNCHANGED <<state, phase, color, white_color, black_color, allocated,
                         p, free_chunk>>,
             live' = live
      PROVE  ColorInv'
  BY <1>4 DEF ColorInv
<1>5. CASE stop_collector
  BY <1>4, <1>5, LiveWhileRunning DEF stop_collector
<1>6. CASE request_quit
  BY <1>6, LiveWhileRunning DEF request_quit, ColorInv, ControlInv
<1>7. CASE sweep_entire_heap
  <2>1. ~free_chunk /\ ~free_chunk'
    BY <1>7 DEF sweep_entire_heap, ControlInv
  <2>2. live = allocated /\ live' = allocated'
    BY <1>7, <2>1 DEF live, sweep_entire_heap
  <2>3. live' = {}
    BY <1>7, <2>2 DEF sweep_entire_heap, ColorInv
  <2>4. QED
    BY <2>1, <2>3 DEF ColorInv
<1>8. CASE HeapStep
  <2>1. ASSUME NEW o \in Addr,
               drop(o) \/ push_root(o) \/ object_retain(o) \/ object_release(o)
        PROVE  ColorInv'
    BY <2>1, <1>4, LiveUnchanged DEF drop, push_root, object_retain, object_release
  <2>2. ASSUME NEW o \in Addr, object_new_malloc(o)
        PROVE  ColorInv'
    <3>1. live' = live /\ o \notin live
      BY <2>2, LiveAfterMalloc
    <3>2. \A a \in Addr \ {o} : color'[a] = color[a]
      BY <2>2 DEF object_new_malloc, TypeOK
    <3>3. free_chunk => p # o /\ p \in allocated' /\ color'[p] = white_color
      BY <2>2, <3>2 DEF object_new_malloc, ColorInv, TypeOK
    <3>4. QED
      BY <1>0, <2>2, <3>1, <3>2, <3>3 DEF object_new_malloc, ColorInv
  <2>3. ASSUME NEW o \in Addr, NEW i \in Slot, read(o, i)
        PROVE  ColorInv'
    BY <2>3, <1>4, LiveUnchanged DEF read
  <2>4. CASE object_new_header
    <3>1. live' = live \cup {w.o} /\ w.o \notin live
      BY <2>4, LiveAfterHeader
    <3>2. w.o \in Addr /\ (free_chunk => w.o # p)
      BY <2>4 DEF object_new_header, RefInv, TypeOK
    <3>3. /\ \A a \in Addr \ {w.o} : color'[a] = color[a]
          /\ color'[w.o] = black_color
          /\ black_color \notin {white_color, "NONE"}
      BY <2>4, <3>2 DEF object_new_header, NewObjectColor, TypeOK, Epoch
    <3>4. free_chunk => p \in allocated /\ color'[p] = white_color
      BY <3>2, <3>3 DEF ColorInv, TypeOK
    <3>5. QED
      BY <1>0, <2>4, <3>1, <3>3, <3>4 DEF object_new_header, ColorInv
  <2>5. ASSUME NEW o \in Addr, NEW i \in Slot, NEW v \in Ref,
               winit(o, i, v) \/ write_no_barrier(o, i, v)
        PROVE  ColorInv'
    BY <2>5, <1>4, LiveUnchanged DEF winit, write_no_barrier
  <2>6. ASSUME NEW o \in Addr, NEW i \in Slot, NEW v \in Ref,
               write_test(o, i, v)
        PROVE  ColorInv'
    BY <2>6, <1>4, LiveWhileRunning DEF write_test
  <2>7. CASE write_barrier
    <3>1. live' = live
      BY <2>7, LiveWhileRunning DEF write_barrier
    <3>2. phase' = "MARK" /\ ~free_chunk'
      BY <2>7 DEF write_barrier, ControlInv
    <3>3. \A a \in live : color'[a] # "NONE"
      BY <1>0, <2>7 DEF write_barrier, ColorInv, Shade, TypeOK, Epoch
    <3>4. QED
      BY <3>1, <3>2, <3>3 DEF ColorInv
  <2>8. CASE write_store
    BY <2>8, <1>4, LiveWhileRunning DEF write_store
  <2>9. QED
    BY <1>8, <2>1, <2>2, <2>3, <2>4, <2>5, <2>6, <2>7, <2>8 DEF HeapStep
<1>9. CASE GcStep \/ gc_spurious_wakeup
  <2>1. CASE \/ gc_acquire \/ gc_spurious_wakeup \/ gc_sweep_lock \/ gc_sweep_page
             \/ gc_load \/ gc_mark_ref_test
    BY <2>1, <1>4, LiveUnchanged
       DEF gc_acquire, gc_spurious_wakeup, gc_sweep_lock, gc_sweep_page, gc_load,
           gc_mark_ref_test
  <2>2. ASSUME NEW o \in Addr, gc_pop(o)
        PROVE  ColorInv'
    BY <2>2, <1>4, LiveUnchanged DEF gc_pop
  <2>3. CASE gc_dispatch
    <3>1. live' = live /\ p' = p /\ free_chunk' = free_chunk
      BY <2>3 DEF gc_dispatch, ControlInv, live, TypeOK
    <3>2. QED
      BY <2>3, <3>1, <1>4 DEF gc_dispatch
  <2>4. CASE gc_mark_done \/ gc_mark_ref_shade \/ gc_blacken
    <3>1. live' = live
      BY <2>4, LiveUnchanged DEF gc_mark_done, gc_mark_ref_shade, gc_blacken
    <3>2. phase' = "MARK" /\ ~free_chunk'
      BY <2>4 DEF gc_mark_done, gc_mark_ref_shade, gc_blacken, ControlInv
    <3>3. \A a \in live : color'[a] # "NONE"
      BY <1>0, <2>4 DEF gc_mark_done, gc_mark_ref_shade, gc_blacken, ColorInv,
                        Shade, TypeOK, Epoch
    <3>4. QED
      BY <3>1, <3>2, <3>3 DEF ColorInv
  <2>5. ASSUME NEW a \in Addr, gc_sweep_next(a)
        PROVE  ColorInv'
    <3>1. live' = live \ (IF color[a] = white_color THEN {a} ELSE {})
      BY <2>5, LiveAfterSweepNext
    <3>2. /\ a > p /\ a \in allocated /\ \A b \in allocated : b > p => a <= b
          /\ p' = a /\ free_chunk' = (color[a] = white_color)
          /\ UNCHANGED <<state, phase, white_color, black_color>>
          /\ phase = "SWEEP" /\ p \in Nat
      BY <1>0, <2>5 DEF gc_sweep_next, Condemned, IsNextChunk, ControlInv, TypeOK, Ref
    <3>3. \A b \in Addr : (free_chunk => b # p) => color'[b] = color[b]
      BY <2>5 DEF gc_sweep_next, Condemned, free_last_chunk, TypeOK
    <3>4. \A b \in live : color'[b] = color[b] /\ b \in allocated
      BY <1>0, <3>3 DEF live
    <3>5. a # p
      BY <1>0, <3>2
    <3>6. free_chunk' => a \in allocated' /\ color'[a] = white_color
      BY <2>5, <3>2, <3>3, <3>5 DEF gc_sweep_next, Condemned, free_last_chunk
    <3>7. \A b \in live' : color[b] = white_color => state = "SWEEP" /\ b > a
      <4> SUFFICES ASSUME NEW b \in live', color[b] = white_color
                   PROVE  state = "SWEEP" /\ b > a
        OBVIOUS
      <4>1. b \in live /\ b # a /\ state = "SWEEP" /\ b > p
        BY <3>1, <3>2 DEF ColorInv
      <4>2. a <= b /\ a \in Nat /\ b \in Nat
        BY <1>0, <3>2, <3>4, <4>1
      <4>3. QED
        BY <4>1, <4>2
    <3>8. QED
      BY <3>1, <3>2, <3>4, <3>6, <3>7 DEF ColorInv
  <2>6. CASE gc_sweep_done
    <3>1. live' = live
      BY <2>6, LiveAfterSweepDone
    <3>2. phase = "SWEEP" /\ ~free_chunk' /\ p \in Nat
          /\ UNCHANGED <<phase, white_color, black_color>>
      BY <1>0, <2>6 DEF gc_sweep_done, ControlInv, TypeOK, Ref
    <3>3. \A b \in live : color'[b] = color[b] /\ b <= p /\ b \in Nat
      BY <1>0, <2>6 DEF gc_sweep_done, free_last_chunk, TypeOK, live
    <3>4. \A b \in live : color[b] # white_color
      BY <3>2, <3>3 DEF ColorInv
    <3>5. QED
      BY <3>1, <3>2, <3>3, <3>4 DEF ColorInv
  <2>7. QED
    BY <1>9, <2>1, <2>2, <2>3, <2>4, <2>5, <2>6 DEF GcStep
<1>10. CASE Terminated \/ UNCHANGED vars
  BY <1>4, <1>10, LiveUnchanged DEF Terminated, vars
<1>11. QED
  BY <1>3, <1>5, <1>6, <1>7, <1>8, <1>9, <1>10 DEF Next, HandshakeStep

-------------------------------------------------------------------------------
(* References.  The sweep takes no object that a live, non-white one refers  *)
(* to: outside the marking phase such a reference is not white.              *)
LEMMA InitRef == Init => RefInv
BY CollectorAssumption DEF CollectorAssumption, Init, RefInv, live

(* No step leaves a reference that dangles. *)
LEMMA StepRef == IInv /\ [Next]_vars => RefInv'
<1> SUFFICES ASSUME TypeOK, ControlInv, ListInv, ColorInv, RefInv, TriColorInv,
                    [Next]_vars
             PROVE  RefInv'
  BY DEF IInv
<1> USE DEF gcVars, vmVars, heapVars, mutVars, scanVars, sweepVars
<1>0. live \subseteq Addr /\ Null \notin Addr
  BY Constants DEF live, TypeOK
<1>1. ASSUME safepoint_start_mark, UNCHANGED mpc, mpc = "run"
      PROVE  RefInv'
  <2>1. live' = live
    BY <1>1, LiveUnchanged DEF safepoint_start_mark
  <2>2. QED
    BY <1>1, <2>1 DEF safepoint_start_mark, RefInv
<1>2. ASSUME safepoint_handshake, UNCHANGED mpc, mpc \in {"run", "stopping"}
      PROVE  RefInv'
  <2>1. live' = live
    BY <1>2, LiveUnchanged DEF safepoint_handshake, swap_mark_lists,
         safepoint_start_sweep, safepoint_new_epoch
  <2>2. CASE swap_mark_lists
    BY <1>2, <2>1, <2>2 DEF swap_mark_lists, RefInv
  <2>3. CASE safepoint_start_sweep
    BY <1>2, <2>1, <2>3 DEF safepoint_start_sweep, RefInv, ControlInv
  <2>4. CASE safepoint_new_epoch
    <3>1. \A o \in live : color[o] # white_color
      BY <2>4 DEF safepoint_new_epoch, ColorInv, ControlInv
    <3>2. QED
      BY <1>2, <2>1, <2>4, <3>1 DEF safepoint_new_epoch, RefInv
  <2>5. QED
    BY <1>2, <2>2, <2>3, <2>4 DEF safepoint_handshake
<1>3. CASE safepoint \/ start_collection \/ wait_for_collection
  BY <1>1, <1>2, <1>3 DEF safepoint, start_collection, wait_for_collection
<1>4. CASE stop_collector
  BY <1>4, LiveWhileRunning DEF stop_collector, RefInv
<1>5. CASE request_quit
  BY <1>5, LiveWhileRunning DEF request_quit, RefInv
<1>6. CASE sweep_entire_heap
  <2>1. ~free_chunk /\ ~free_chunk' /\ ref = Null
    BY <1>6 DEF sweep_entire_heap, ControlInv
  <2>2. live = allocated /\ live' = allocated'
    BY <1>6, <2>1 DEF live, sweep_entire_heap
  <2>3. live' = {}
    BY <1>6, <2>2 DEF sweep_entire_heap, ColorInv
  <2>4. QED
    BY <1>6, <2>1, <2>3 DEF sweep_entire_heap, RefInv
<1>7. CASE HeapStep
  <2>1. ASSUME NEW o \in Addr,
               drop(o) \/ push_root(o) \/ object_retain(o) \/ object_release(o)
        PROVE  RefInv'
    <3>1. live' = live /\ mpc = "run"
      BY <2>1, LiveUnchanged DEF drop, push_root, object_retain, object_release
    <3>2. QED
      BY <2>1, <3>1 DEF drop, push_root, object_retain, object_release, RefInv
  <2>2. ASSUME NEW o \in Addr, object_new_malloc(o)
        PROVE  RefInv'
    <3>1. live' = live /\ o \notin live
      BY <2>2, LiveAfterMalloc
    <3>2. \A a \in live : color'[a] = color[a]
      BY <1>0, <2>2, <3>1 DEF object_new_malloc, TypeOK
    <3>3. w'.o = o /\ o \in allocated' /\ (free_chunk => o # p)
      BY <2>2 DEF object_new_malloc, NoWrite, ColorInv
    <3>4. QED
      BY <2>2, <3>1, <3>2, <3>3 DEF object_new_malloc, RefInv
  <2>3. ASSUME NEW o \in Addr, NEW i \in Slot, read(o, i)
        PROVE  RefInv'
    <3>1. live' = live
      BY <2>3, LiveUnchanged DEF read
    <3>2. o \in live /\ (White(o) => phase = "MARK") /\ slots[o][i] # Null
      BY <2>3 DEF read, RefInv, TriColorInv, Safe
    <3>3. slots[o][i] \in live
      BY <1>0, <3>2 DEF RefInv, White
    <3>4. QED
      BY <2>3, <3>1, <3>3 DEF read, RefInv
  <2>4. CASE object_new_header
    <3>1. live' = live \cup {w.o} /\ w.o \notin live
      BY <2>4, LiveAfterHeader
    <3>2. w.o \in Addr
      BY <2>4 DEF object_new_header, RefInv, TypeOK
    <3>3. \A a \in live : color'[a] = color[a] /\ slots'[a] = slots[a]
      BY <1>0, <2>4, <3>1, <3>2 DEF object_new_header, TypeOK
    <3>4. \A i \in Slot : slots'[w.o][i] = Null
      BY <2>4, <3>2 DEF object_new_header, TypeOK
    <3>5. \A o \in Strings, i \in Slot : slots'[o][i] = Null
      BY <2>4, <3>2 DEF object_new_header, TypeOK, RefInv
    <3>6. QED
      BY <2>4, <3>1, <3>3, <3>4, <3>5 DEF object_new_header, RefInv
  <2>5. ASSUME NEW o \in Addr, NEW i \in Slot, NEW v \in Ref,
               winit(o, i, v) \/ write_no_barrier(o, i, v)
        PROVE  RefInv'
    <3>1. live' = live /\ mpc = "run" /\ mpc' = "run"
      BY <2>5, LiveUnchanged DEF winit, write_no_barrier
    <3>2. v \in live \cup {Null} /\ o \notin Strings
      BY <2>5, <3>1 DEF winit, write_no_barrier, RefInv
    <3>3. \A a \in Addr, k \in Slot :
            slots'[a][k] = IF a = o /\ k = i THEN v ELSE slots[a][k]
      BY <2>5 DEF winit, write_no_barrier, TypeOK
    <3>4. Strings \subseteq Addr
      BY CollectorAssumption DEF CollectorAssumption
    <3>5. QED
      BY <1>0, <2>5, <3>1, <3>2, <3>3, <3>4 DEF winit, write_no_barrier, RefInv
  <2>6. ASSUME NEW o \in Addr, NEW i \in Slot, NEW v \in Ref, write_test(o, i, v)
        PROVE  RefInv'
    <3>1. live' = live
      BY <2>6, LiveWhileRunning DEF write_test
    <3>2. phase = "MARK" /\ old_color = white_color
      BY <2>6 DEF write_test, ControlInv
    <3>3. w' = [o |-> o, i |-> i, v |-> v, old |-> slots[o][i]]
          /\ mpc' \in {"barrier", "store"}
          /\ (mpc' = "store" => ~MustBarrier(slots[o][i]))
      BY <2>6 DEF write_test
    <3>4. mpc' = "store" /\ w'.old # Null => color[w'.old] # white_color
      BY <3>2, <3>3 DEF MustBarrier
    <3>5. w'.o = o /\ w'.i = i /\ w'.v = v /\ w'.old = slots[o][i]
      BY <3>3
    <3>6. QED
      BY <2>6, <3>1, <3>3, <3>4, <3>5 DEF write_test, RefInv
  <2>7. CASE write_barrier
    <3>1. live' = live
      BY <2>7, LiveWhileRunning DEF write_barrier
    <3>2. phase = "MARK" /\ w.old \in Addr
      BY <2>7 DEF write_barrier, ControlInv, TypeOK, Ref
    <3>3. color'[w.old] # white_color
      BY <2>7, <3>2 DEF write_barrier, Shade, TypeOK, Epoch, ListInv
    <3>4. QED
      BY <2>7, <3>1, <3>2, <3>3 DEF write_barrier, RefInv
  <2>8. CASE write_store
    <3>1. live' = live
      BY <2>8, LiveWhileRunning DEF write_store
    <3>2. w.o \in Addr \ Strings /\ w.i \in Slot /\ w.v \in live \cup {Null}
      BY <1>0, <2>8 DEF write_store, RefInv, TypeOK
    <3>3. \A a \in Addr, k \in Slot :
            slots'[a][k] = IF a = w.o /\ k = w.i THEN w.v ELSE slots[a][k]
      BY <2>8, <3>2 DEF write_store, TypeOK
    <3>4. Strings \subseteq Addr
      BY CollectorAssumption DEF CollectorAssumption
    <3>5. QED
      BY <1>0, <2>8, <3>1, <3>2, <3>3, <3>4 DEF write_store, RefInv
  <2>9. QED
    BY <1>7, <2>1, <2>2, <2>3, <2>4, <2>5, <2>6, <2>7, <2>8 DEF HeapStep
<1>8. CASE GcStep \/ gc_spurious_wakeup
  <2>1. CASE \/ gc_acquire \/ gc_spurious_wakeup \/ gc_sweep_lock \/ gc_sweep_page
             \/ gc_mark_ref_test \/ gc_mark_done
    BY <2>1, LiveUnchanged
       DEF gc_acquire, gc_spurious_wakeup, gc_sweep_lock, gc_sweep_page,
           gc_mark_ref_test, gc_mark_done, RefInv
  <2>2. ASSUME NEW o \in Addr, gc_pop(o)
        PROVE  RefInv'
    BY <2>2, LiveUnchanged DEF gc_pop, RefInv
  <2>3. CASE gc_dispatch
    <3>1. live' = live /\ p' = p /\ free_chunk' = free_chunk
      BY <2>3 DEF gc_dispatch, ControlInv, live, TypeOK
    <3>2. QED
      BY <2>3, <3>1 DEF gc_dispatch, RefInv
  <2>4. CASE gc_load
    <3>1. live' = live
      BY <2>4, LiveUnchanged DEF gc_load
    <3>2. phase = "MARK" /\ cur \in live /\ idx \in Slot
      BY <2>4, Constants DEF gc_load, ControlInv, ListInv, Grey, TypeOK
    <3>3. ref' \in live \cup {Null}
      BY <2>4, <3>2 DEF gc_load, RefInv
    <3>4. QED
      BY <2>4, <3>1, <3>3 DEF gc_load, RefInv
  <2>5. CASE gc_mark_ref_shade \/ gc_blacken
    <3>1. live' = live /\ phase = "MARK"
      BY <2>5, LiveUnchanged DEF gc_mark_ref_shade, gc_blacken, ControlInv
    <3>2. \A a \in Addr : color[a] # white_color => color'[a] # white_color
      BY <2>5 DEF gc_mark_ref_shade, gc_blacken, Shade, TypeOK, Epoch
    <3>3. mpc = "store" => w.old \in Ref
      BY DEF TypeOK
    <3>4. mpc = "store" /\ w.old # Null => color'[w.old] # white_color
      BY <3>2, <3>3 DEF RefInv, Ref
    <3>5. QED
      BY <2>5, <3>1, <3>4 DEF gc_mark_ref_shade, gc_blacken, RefInv
  <2>6. ASSUME NEW a \in Addr, gc_sweep_next(a)
        PROVE  RefInv'
    <3>1. live' = live \ (IF color[a] = white_color THEN {a} ELSE {})
      BY <2>6, LiveAfterSweepNext
    <3>2. /\ phase = "SWEEP" /\ phase' = "SWEEP" /\ ref = Null /\ ref' = Null
          /\ mpc # "new" /\ mpc \notin {"barrier", "store"} /\ mpc' = mpc
          /\ UNCHANGED <<white_color, stack, roots>>
      BY <2>6 DEF gc_sweep_next, Condemned, ControlInv
    <3>3. \A b \in live : color'[b] = color[b] /\ slots'[b] = slots[b]
      BY <1>0, <2>6 DEF gc_sweep_next, Condemned, free_last_chunk, TypeOK, live
    <3>4. \A b \in stack \cup roots : ~White(b)
      BY <3>2 DEF TriColorInv, Safe
    <3>5. mpc' # "destroyed" => stack' \cup roots' \subseteq live'
      BY <1>0, <3>1, <3>2, <3>4 DEF White, RefInv
    <3>6. \A b \in live, i \in Slot : ~White(b) => ~White(slots[b][i])
      BY <3>2 DEF TriColorInv, Safe
    <3>7. \A b \in live', i \in Slot :
            color'[b] # white_color => slots'[b][i] \in live' \cup {Null}
      BY <1>0, <3>1, <3>2, <3>3, <3>6 DEF White, RefInv
    <3>8. \A o \in Strings, i \in Slot : slots'[o][i] = Null
      BY <2>6, CollectorAssumption
         DEF CollectorAssumption, gc_sweep_next, Condemned, free_last_chunk, TypeOK, RefInv
    <3>9. QED
      BY <3>2, <3>5, <3>7, <3>8 DEF RefInv
  <2>7. CASE gc_sweep_done
    <3>1. live' = live
      BY <2>7, LiveAfterSweepDone
    <3>2. /\ phase = "SWEEP" /\ mpc # "new" /\ mpc \notin {"barrier", "store"}
          /\ UNCHANGED <<phase, white_color, stack, roots, mpc, ref>>
      BY <2>7 DEF gc_sweep_done, ControlInv
    <3>3. \A b \in live : color'[b] = color[b] /\ slots'[b] = slots[b]
      BY <1>0, <2>7 DEF gc_sweep_done, free_last_chunk, TypeOK, live
    <3>4. \A o \in Strings, i \in Slot : slots'[o][i] = Null
      <4>1. \/ slots' = slots
            \/ slots' = [slots EXCEPT ![p] = [i \in Slot |-> Null]]
        BY <2>7 DEF gc_sweep_done, free_last_chunk
      <4>2. QED
        BY <4>1, CollectorAssumption DEF CollectorAssumption, TypeOK, RefInv
    <3>5. stack' \cup roots' = stack \cup roots /\ ref = Null
      BY <2>7, <3>2 DEF gc_sweep_done, ControlInv
    <3>6. \A b \in live', i \in Slot :
            phase' # "SWEEP" \/ color'[b] # white_color' =>
              slots'[b][i] \in live' \cup {Null}
      BY <3>1, <3>2, <3>3 DEF RefInv
    <3>7. QED
      BY <3>1, <3>2, <3>4, <3>5, <3>6 DEF RefInv
  <2>8. QED
    BY <1>8, <2>1, <2>2, <2>3, <2>4, <2>5, <2>6, <2>7 DEF GcStep
<1>9. CASE Terminated \/ UNCHANGED vars
  BY <1>9, LiveUnchanged DEF Terminated, vars, RefInv
<1>10. QED
  BY <1>3, <1>4, <1>5, <1>6, <1>7, <1>8, <1>9 DEF Next, HandshakeStep
-------------------------------------------------------------------------------
(* Protection.  Sets closed under what the GC will still follow are compared *)
(* before and after each step; Null is never white.                          *)
(* What a step must do to keep white objects protected while marking: every  *)
(* set that is closed after the step had, but for objects that are not       *)
(* white, a closed set in it before.                                         *)
LEMMA KeepSafe ==
  ASSUME phase' = "MARK",
         \A o \in Addr : White(o)' => White(o),
         \A S \in SUBSET Addr :
           GreyClosed(S)' =>
             \E T \in SUBSET Addr :
               GreyClosed(T) /\ \A o \in T : o \in S \/ ~White(o)'
  PROVE  \A o \in Addr : Safe(o) => Safe(o)'
<1> SUFFICES ASSUME NEW o \in Addr, Safe(o), White(o)' PROVE Protected(o)'
  BY DEF Safe
<1>1. Protected(o)
  BY DEF Safe
<1> SUFFICES ASSUME NEW S \in SUBSET Addr, GreyClosed(S)' PROVE o \in S
  BY DEF Protected
<1>2. PICK T \in SUBSET Addr :
        GreyClosed(T) /\ \A x \in T : x \in S \/ ~White(x)'
  OBVIOUS
<1>3. QED
  BY <1>1, <1>2 DEF Protected

(* Outside the marking phase nothing white is in use. *)
LEMMA SafeOutsideMarking ==
  ASSUME phase' # "MARK"
  PROVE  \A o : ~White(o)' => Safe(o)'
BY DEF Safe

(* Null needs no protection: it is not white. *)
LEMMA NullSafe == Safe(Null) /\ Safe(Null)'
BY DEF Safe, White

(* There is nothing to protect when the runtime is created. *)
LEMMA InitTriColor == Init => TriColorInv
BY DEF Init, TriColorInv, live

(* Every step, of the GC thread or of the program, keeps what is white and in*)
(* use protected.                                                            *)
LEMMA StepTriColor == IInv /\ [Next]_vars => TriColorInv'
<1> SUFFICES ASSUME TypeOK, ControlInv, ListInv, ColorInv, RefInv, TriColorInv,
                    [Next]_vars
             PROVE  TriColorInv'
  BY DEF IInv
<1> USE DEF gcVars, vmVars, heapVars, mutVars, scanVars, sweepVars
<1>a. live \subseteq Addr /\ Null \notin Addr /\ Ref = Addr \cup {Null}
  BY Constants DEF live, TypeOK, Ref
<1>b. stack \cup roots \subseteq Addr
  BY DEF TypeOK
<1>c. \A o \in Addr, i \in Slot : slots[o][i] \in Ref
  BY DEF TypeOK
(* Steps that leave every colour, grey object and reference alone. *)
<1>1. ASSUME UNCHANGED <<phase, mark_list, vm_mark_list, cur, idx, ref, color,
                         slots, white_color>>
      PROVE  \A o : Safe(o)' <=> Safe(o)
  BY <1>1 DEF Safe, White, Protected, GreyClosed
<1>2. ASSUME UNCHANGED <<phase, mark_list, vm_mark_list, cur, idx, ref, color,
                         slots, white_color, stack, roots>>,
             live' = live
      PROVE  TriColorInv'
  <2>1. \A o : (Safe(o)' <=> Safe(o)) /\ (White(o)' <=> White(o))
    BY <1>1, <1>2 DEF White
  <2>2. QED
    BY <1>2, <2>1 DEF TriColorInv
(* A thread turns an object grey, or black when it is a string. *)
<1>s. ASSUME NEW n \in Addr,
             live' = live, phase = "MARK",
             UNCHANGED <<phase, cur, idx, slots, white_color, stack, roots>>,
             mark_list' \cup vm_mark_list'
               = mark_list \cup vm_mark_list \cup ({n} \ Strings),
             ref' = ref \/ ref = n,
             color'[n] # white_color,
             \A a \in Addr \ {n} : color'[a] = color[a]
      PROVE  TriColorInv'
  <2>1. ~White(n)' /\ \A x \in Ref : x # n => (White(x)' <=> White(x))
    BY <1>a, <1>s DEF White
  <2>2. ASSUME NEW S \in SUBSET Addr, GreyClosed(S)'
        PROVE  GreyClosed(S \cup {n})
    <3>1. \A i \in Slot : White(slots[n][i]) => slots[n][i] \in S \cup {n}
      <4>1. CASE n \in Strings
        BY <4>1 DEF RefInv, White
      <4>2. CASE n \notin Strings
        BY <1>c, <1>s, <2>1, <2>2, <4>2 DEF GreyClosed
      <4>3. QED
        BY <4>1, <4>2
    <3>2. \A a \in mark_list \cup vm_mark_list \cup S, i \in Slot :
            White(slots[a][i]) => slots[a][i] \in S \cup {n}
      BY <1>c, <1>s, <2>1, <2>2 DEF GreyClosed, TypeOK
    <3>3. cur # Null => \A i \in Slot :
            i >= idx /\ White(slots[cur][i]) => slots[cur][i] \in S \cup {n}
      BY <1>a, <1>c, <1>s, <2>1, <2>2 DEF GreyClosed, TypeOK
    <3>4. White(ref) => ref \in S \cup {n}
      BY <1>s, <2>1, <2>2 DEF GreyClosed, TypeOK
    <3>5. QED
      BY <3>1, <3>2, <3>3, <3>4 DEF GreyClosed
  <2>3. \A x \in Addr : White(x)' => White(x)
    BY <1>a, <2>1
  <2>4. ASSUME NEW S \in SUBSET Addr, GreyClosed(S)'
        PROVE  \E T \in SUBSET Addr :
                 GreyClosed(T) /\ \A x \in T : x \in S \/ ~White(x)'
    <3>1. GreyClosed(S \cup {n}) /\ S \cup {n} \in SUBSET Addr
      BY <2>2, <2>4
    <3>2. QED
      BY <2>1, <3>1
  <2>5. \A x \in Addr : Safe(x) => Safe(x)'
    BY <1>s, <2>3, <2>4, KeepSafe
  <2>6. ASSUME NEW a \in live, NEW i \in Slot, ~White(a)'
        PROVE  Safe(slots[a][i])'
    <3>1. CASE a # n
      <4>1. /\ Safe(slots[a][i]) /\ slots[a][i] \in Ref
            /\ slots'[a][i] = slots[a][i]
        BY <1>a, <1>c, <1>s, <2>1, <2>6, <3>1 DEF TriColorInv
      <4>2. QED
        BY <1>a, <2>5, <4>1, NullSafe
    <3>2. CASE a = n /\ n \in Strings
      BY <1>s, <3>2, NullSafe DEF RefInv
    <3>3. CASE a = n /\ n \notin Strings
      <4>1. n \in mark_list' \cup vm_mark_list' /\ phase' = "MARK"
        BY <1>s, <3>3
      <4>2. \A S \in SUBSET Addr :
              GreyClosed(S)' /\ White(slots[a][i])' => slots'[a][i] \in S
        BY <3>3, <4>1 DEF GreyClosed
      <4>3. QED
        BY <4>1, <4>2 DEF Safe, Protected
    <3>4. QED
      BY <3>1, <3>2, <3>3
  <2>7. QED
    BY <1>b, <1>s, <2>5, <2>6 DEF TriColorInv
<1>3. ASSUME safepoint_start_mark, UNCHANGED mpc, mpc = "run"
      PROVE  TriColorInv'
  <2> DEFINE M == {o \in roots \cup stack : color[o] = black_color}
  <2>1. /\ live' = live /\ white_color' = black_color
        /\ color' = [o \in Addr |-> IF o \in M THEN Shade(o, white_color)
                                               ELSE color[o]]
        /\ UNCHANGED <<stack, roots, slots>> /\ phase' = "MARK"
        /\ mark_list' = mark_list \cup (M \ Strings)
    BY <1>3, LiveUnchanged DEF safepoint_start_mark, swap_colors
  <2>2. black_color \notin {"MARKED", white_color}
    BY DEF TypeOK, Epoch
  <2>3. \A o \in live : color[o] = black_color
    BY <1>3 DEF safepoint_start_mark, ColorInv
  <2>4. \A o \in live : o \notin M => White(o)'
    BY <1>a, <2>1, <2>3 DEF White
  <2>5. \A o \in M : ~White(o)'
    BY <1>b, <2>1, <2>2 DEF White, Shade
  <2>6. \A o \in stack \cup roots : o \in M
    BY <1>3, <2>3 DEF RefInv
  <2>7. ASSUME NEW o \in live, NEW i \in Slot, ~White(o)'
        PROVE  Safe(slots[o][i])'
    <3>1. o \in M
      BY <2>4, <2>7
    <3>2. CASE o \in Strings
      BY <2>1, <3>2, NullSafe DEF RefInv
    <3>3. CASE o \notin Strings
      <4>1. o \in mark_list'
        BY <2>1, <3>1, <3>3
      <4>2. \A S \in SUBSET Addr :
              GreyClosed(S)' /\ White(slots[o][i])' => slots'[o][i] \in S
        BY <4>1 DEF GreyClosed
      <4>3. QED
        BY <2>1, <4>2 DEF Safe, Protected
    <3>4. QED
      BY <3>2, <3>3
  <2>8. QED
    BY <2>1, <2>5, <2>6, <2>7 DEF TriColorInv, Safe
<1>4. ASSUME safepoint_handshake, UNCHANGED mpc, mpc \in {"run", "stopping"}
      PROVE  TriColorInv'
  <2>1. live' = live /\ UNCHANGED <<color, white_color, stack, roots, slots>>
    BY <1>4, LiveUnchanged DEF safepoint_handshake, swap_mark_lists,
         safepoint_start_sweep, safepoint_new_epoch
  <2>2. \A o : White(o)' <=> White(o)
    BY <2>1 DEF White
  <2>3. CASE swap_mark_lists
    <3>1. \A o : Safe(o)' <=> Safe(o)
      BY <2>1, <2>2, <2>3
         DEF swap_mark_lists, Safe, Protected, GreyClosed, White
    <3>2. QED
      BY <2>1, <2>2, <3>1 DEF TriColorInv
  <2>4. CASE safepoint_start_sweep
    <3>1. mark_list = {} /\ vm_mark_list = {} /\ cur = Null /\ ref = Null
      BY <1>4, <2>4 DEF safepoint_handshake, WorkMutexFree, ControlInv, ListInv,
                        safepoint_start_sweep, NothingToMark
    <3>2. GreyClosed({})
      BY <3>1 DEF GreyClosed, White
    <3>3. \A o : Safe(o) => ~White(o)
      BY <3>2 DEF Safe, Protected
    <3>4. \A o : Safe(o) => Safe(o)'
      BY <2>2, <3>3 DEF Safe
    <3>5. QED
      BY <2>1, <2>2, <3>4 DEF TriColorInv
  <2>5. CASE safepoint_new_epoch
    <3>1. phase # "MARK"
      BY <2>5 DEF safepoint_new_epoch, ControlInv
    <3>2. \A o : Safe(o) => Safe(o)'
      BY <2>2, <3>1 DEF Safe
    <3>3. QED
      BY <2>1, <2>2, <3>2 DEF TriColorInv
  <2>6. QED
    BY <1>4, <2>3, <2>4, <2>5 DEF safepoint_handshake
<1>5. CASE safepoint \/ start_collection \/ wait_for_collection
  BY <1>3, <1>4, <1>5 DEF safepoint, start_collection, wait_for_collection
<1>6. CASE stop_collector \/ request_quit
  <2>1. live' = live
    BY <1>6, LiveWhileRunning DEF stop_collector, request_quit
  <2>2. UNCHANGED <<phase, mark_list, vm_mark_list, cur, idx, ref, color, slots,
                    white_color>>
        /\ stack' \subseteq stack /\ roots' \subseteq roots
    BY <1>6 DEF stop_collector, request_quit
  <2>3. \A o : (Safe(o)' <=> Safe(o)) /\ (White(o)' <=> White(o))
    BY <1>1, <2>2 DEF White
  <2>4. QED
    BY <2>1, <2>2, <2>3 DEF TriColorInv
<1>7. CASE sweep_entire_heap
  <2>1. live' \subseteq live
    BY <1>7 DEF sweep_entire_heap, live
  <2>2. UNCHANGED <<phase, mark_list, vm_mark_list, cur, idx, ref, color, slots,
                    white_color, stack, roots>>
    BY <1>7 DEF sweep_entire_heap
  <2>3. \A o : (Safe(o)' <=> Safe(o)) /\ (White(o)' <=> White(o))
    BY <1>1, <2>2 DEF White
  <2>4. QED
    BY <2>1, <2>2, <2>3 DEF TriColorInv
<1>8. CASE HeapStep
  <2>1. ASSUME NEW o \in Addr,
               drop(o) \/ push_root(o) \/ object_retain(o) \/ object_release(o)
        PROVE  TriColorInv'
    <3>1. UNCHANGED <<phase, mark_list, vm_mark_list, cur, idx, ref, color, slots,
                      white_color>>
          /\ stack' \cup roots' \subseteq stack \cup roots /\ live' = live
      BY <2>1, LiveUnchanged
         DEF drop, push_root, object_retain, object_release
    <3>2. \A x : (Safe(x)' <=> Safe(x)) /\ (White(x)' <=> White(x))
      BY <1>1, <3>1 DEF White
    <3>3. QED
      BY <3>1, <3>2 DEF TriColorInv
  <2>2. ASSUME NEW o \in Addr, object_new_malloc(o)
        PROVE  TriColorInv'
    <3>1. live' = live /\ o \notin live
      BY <2>2, LiveAfterMalloc
    <3>2. /\ UNCHANGED <<phase, mark_list, vm_mark_list, cur, idx, ref, slots,
                         white_color, stack, roots>>
          /\ \A a \in Addr \ {o} : color'[a] = color[a]
          /\ mpc = "run"
      BY <2>2 DEF object_new_malloc, TypeOK
    <3>3. \A a \in live \cup {Null} : White(a)' <=> White(a)
      BY <1>a, <3>1, <3>2 DEF White
    <3>4. stack \cup roots \subseteq live
      BY <3>2 DEF RefInv
    <3>5. ASSUME phase # "MARK"
          PROVE  TriColorInv'
      <4>1. \A a \in live : ~White(a) => \A i \in Slot :
              ~White(slots[a][i]) /\ slots[a][i] \in live \cup {Null}
        BY <1>a, <3>5 DEF TriColorInv, Safe, White, RefInv
      <4>2. \A a \in stack \cup roots : ~White(a)
        BY <3>5 DEF TriColorInv, Safe
      <4>3. QED
        BY <3>1, <3>2, <3>3, <3>4, <4>1, <4>2 DEF TriColorInv, Safe
    <3>6. ASSUME phase = "MARK"
          PROVE  \A a \in live : Safe(a) => Safe(a)'
      <4> SUFFICES ASSUME NEW a \in live, Safe(a), White(a)',
                          NEW S \in SUBSET Addr, GreyClosed(S)'
                   PROVE  a \in S
        BY <3>2, <3>6 DEF Safe, Protected
      <4>1. \A x \in live, i \in Slot : slots[x][i] \in live \cup {Null}
        BY <3>6 DEF RefInv
      <4>2. mark_list \cup vm_mark_list \subseteq live
            /\ (cur # Null => cur \in live) /\ ref \in live \cup {Null}
        BY DEF ListInv, Grey, RefInv
      <4>3. GreyClosed(S \cap live)
        BY <3>2, <3>3, <4>1, <4>2 DEF GreyClosed, White
      <4>4. White(a) /\ Protected(a)
        BY <3>3 DEF Safe
      <4>5. QED
        BY <1>a, <4>3, <4>4 DEF Protected
    <3>7. ASSUME phase = "MARK"
          PROVE  TriColorInv'
      <4>1. \A a \in live, i \in Slot :
              ~White(a)' => Safe(slots[a][i]) /\ slots[a][i] \in live \cup {Null}
        BY <3>3, <3>7 DEF TriColorInv, RefInv
      <4>2. \A a \in live, i \in Slot : ~White(a)' => Safe(slots[a][i])'
        BY <3>2, <3>6, <3>7, <4>1, NullSafe
      <4>3. QED
        BY <3>1, <3>2, <3>4, <3>6, <3>7, <4>2 DEF TriColorInv
    <3>8. QED
      BY <3>5, <3>7
  <2>3. ASSUME NEW o \in Addr, NEW i \in Slot, read(o, i)
        PROVE  TriColorInv'
    <3>1. live' = live
          /\ UNCHANGED <<phase, mark_list, vm_mark_list, cur, idx, ref, color, slots,
                         white_color, roots>>
          /\ o \in stack /\ stack' = stack \cup {slots[o][i]} /\ mpc = "run"
      BY <2>3, LiveUnchanged DEF read
    <3>2. o \in live /\ Safe(o)
      BY <3>1 DEF RefInv, TriColorInv
    <3>3. Safe(slots[o][i])
      <4>1. CASE ~White(o)
        BY <3>2, <4>1 DEF TriColorInv
      <4>2. CASE White(o)
        BY <3>2, <4>2 DEF Safe, Protected, GreyClosed
      <4>3. QED
        BY <4>1, <4>2
    <3>4. \A x : (Safe(x)' <=> Safe(x)) /\ (White(x)' <=> White(x))
      BY <1>1, <3>1 DEF White
    <3>5. QED
      BY <3>1, <3>3, <3>4 DEF TriColorInv
  <2>4. CASE object_new_header
    <3>0. PICK n \in Addr : n = w.o
      BY <2>4 DEF object_new_header, RefInv, TypeOK
    <3>1. n \notin live /\ live' = live \cup {n}
      BY <2>4, <3>0, LiveAfterHeader
    <3>2. /\ UNCHANGED <<phase, mark_list, vm_mark_list, cur, idx, ref,
                         white_color, roots>>
          /\ \A a \in Addr \ {n} : color'[a] = color[a] /\ slots'[a] = slots[a]
          /\ \A k \in Slot : slots'[n][k] = Null
          /\ color'[n] = black_color /\ mpc = "new"
          /\ stack' = stack \cup {n}
      BY <2>4, <3>0 DEF object_new_header, NewObjectColor, TypeOK
    <3>3. ~White(n)'
      BY <3>2 DEF White, TypeOK
    <3>4. \A a \in live \cup {Null} : White(a)' <=> White(a)
      BY <1>a, <3>1, <3>2 DEF White
    <3>5. stack \cup roots \subseteq live
      BY <3>2 DEF RefInv
    <3>6. \A a \in live : Safe(a) => Safe(a)'
      <4> SUFFICES ASSUME NEW a \in live, Safe(a), White(a)'
                   PROVE  phase = "MARK" /\ Protected(a)'
        BY <3>2 DEF Safe
      <4>1. White(a) /\ phase = "MARK" /\ Protected(a)
        BY <3>4 DEF Safe
      <4> SUFFICES ASSUME NEW S \in SUBSET Addr, GreyClosed(S)' PROVE a \in S
        BY <4>1 DEF Protected
      <4>2. \A x \in live, i \in Slot : slots[x][i] \in live \cup {Null}
        BY <4>1 DEF RefInv
      <4>3. mark_list \cup vm_mark_list \subseteq live
            /\ (cur # Null => cur \in live) /\ ref \in live \cup {Null}
        BY DEF ListInv, Grey, RefInv
      <4>4. \A x \in live : slots'[x] = slots[x]
        BY <1>a, <3>1, <3>2
      <4>5. GreyClosed(S \cap live)
        BY <3>2, <3>4, <4>2, <4>3, <4>4 DEF GreyClosed, White
      <4>6. QED
        BY <1>a, <4>1, <4>5 DEF Protected
    <3>7. ASSUME NEW a \in live, NEW i \in Slot, ~White(a)'
          PROVE  Safe(slots[a][i])'
      <4>1. ~White(a) /\ Safe(slots[a][i]) /\ slots'[a][i] = slots[a][i]
        BY <1>a, <3>1, <3>2, <3>4, <3>7 DEF TriColorInv
      <4>2. slots[a][i] \in live \cup {Null}
        BY <1>a, <4>1 DEF RefInv, White
      <4>3. QED
        BY <3>6, <4>1, <4>2, NullSafe
    <3>8. \A i \in Slot : Safe(slots[n][i])'
      BY <3>2, NullSafe
    <3>9. \A a \in stack' \cup roots' : Safe(a)'
      BY <3>2, <3>3, <3>5, <3>6 DEF TriColorInv, Safe
    <3>10. QED
      BY <3>1, <3>7, <3>8, <3>9 DEF TriColorInv
  <2>5. ASSUME NEW o \in Addr, NEW i \in Slot, NEW v \in Ref,
               winit(o, i, v) \/ write_no_barrier(o, i, v)
        PROVE  TriColorInv'
    <3>1. /\ live' = live
          /\ UNCHANGED <<phase, mark_list, vm_mark_list, cur, idx, ref, color,
                         white_color, stack, roots>>
          /\ v \in stack \cup {Null}
          /\ slots[o][i] = Null \/ phase # "MARK"
      BY <2>5, LiveUnchanged DEF winit, write_no_barrier, ControlInv, TypeOK, Epoch
    <3>2. \A a \in Addr, k \in Slot :
            slots'[a][k] = IF a = o /\ k = i THEN v ELSE slots[a][k]
      BY <2>5 DEF winit, write_no_barrier, TypeOK
    <3>3. \A x : White(x)' <=> White(x)
      BY <3>1 DEF White
    <3>4. ASSUME phase = "MARK", NEW S \in SUBSET Addr, GreyClosed(S)'
          PROVE  GreyClosed(S)
      <4>1. \A a \in Addr, k \in Slot :
              White(slots[a][k]) => slots'[a][k] = slots[a][k]
        BY <3>1, <3>2, <3>4 DEF White
      <4>2. mark_list \cup vm_mark_list \cup S \subseteq Addr /\ cur \in Ref
        BY DEF TypeOK
      <4>3. QED
        BY <1>a, <3>1, <3>3, <3>4, <4>1, <4>2 DEF GreyClosed
    <3>5. \A x \in Addr : Safe(x) => Safe(x)'
      <4>1. CASE phase = "MARK"
        <5>1. \A S \in SUBSET Addr : GreyClosed(S)' =>
                \E T \in SUBSET Addr :
                  GreyClosed(T) /\ \A x \in T : x \in S \/ ~White(x)'
          BY <3>4, <4>1
        <5>2. QED
          BY <3>1, <3>3, <4>1, <5>1, KeepSafe
      <4>2. CASE phase # "MARK"
        BY <3>1, <3>3, <4>2 DEF Safe
      <4>3. QED
        BY <4>1, <4>2
    <3>6. Safe(v)'
      BY <1>b, <3>1, <3>5, NullSafe DEF TriColorInv
    <3>7. ASSUME NEW a \in live, NEW k \in Slot, ~White(a)'
          PROVE  Safe(slots[a][k])'
      <4>1. Safe(slots[a][k]) /\ slots[a][k] \in Ref
        BY <1>a, <1>c, <3>3, <3>7 DEF TriColorInv
      <4>2. Safe(slots[a][k]) => slots[a][k] = Null \/ Safe(slots[a][k])
        OBVIOUS
      <4>3. \A x \in Ref : Safe(x) => Safe(x)'
        BY <1>a, <3>5, NullSafe
      <4>4. slots'[a][k] = IF a = o /\ k = i THEN v ELSE slots[a][k]
        BY <1>a, <3>2
      <4>5. QED
        BY <3>6, <4>1, <4>3, <4>4
    <3>8. QED
      BY <1>b, <3>1, <3>5, <3>7 DEF TriColorInv
  <2>6. ASSUME NEW o \in Addr, NEW i \in Slot, NEW v \in Ref, write_test(o, i, v)
        PROVE  TriColorInv'
    BY <2>6, <1>2, LiveWhileRunning DEF write_test
  <2>7. CASE write_barrier
    <3>0. PICK n \in Addr : n = w.old
      BY <2>7 DEF write_barrier, ControlInv, TypeOK, Ref
    <3>1. /\ live' = live /\ phase = "MARK"
          /\ UNCHANGED <<phase, mark_list, cur, idx, ref, slots, white_color, stack,
                         roots>>
          /\ vm_mark_list' = vm_mark_list \cup ({n} \ Strings)
      BY <2>7, <3>0, LiveWhileRunning DEF write_barrier, ControlInv
    <3>2. /\ \A a \in Addr \ {n} : color'[a] = color[a]
          /\ color'[n] # white_color
      <4>1. \/ color' = [color EXCEPT ![n] = Shade(n, black_color)]
            \/ n \in unseen /\ color' = color
        BY <2>7, <3>0 DEF write_barrier, TypeOK
      <4>2. n \in unseen => color[n] # white_color
        BY <3>1 DEF ListInv
      <4>3. Shade(n, black_color) # white_color
        BY DEF Shade, TypeOK, Epoch
      <4>4. QED
        BY <4>1, <4>2, <4>3 DEF TypeOK
    <3>3. QED
      BY <1>s, <3>1, <3>2
  <2>8. CASE write_store
    <3>0. PICK o \in Addr, i \in Slot, v \in Ref : o = w.o /\ i = w.i /\ v = w.v
      BY <1>b, <2>8 DEF write_store, RefInv, TypeOK
    <3>1. /\ live' = live /\ phase = "MARK"
          /\ UNCHANGED <<phase, mark_list, vm_mark_list, cur, idx, ref, color,
                         white_color, stack, roots>>
          /\ v \in stack \cup {Null}
          /\ ~White(slots[o][i])
      BY <2>8, <3>0, LiveWhileRunning DEF write_store, ControlInv, RefInv, White
    <3>2. \A a \in Addr, k \in Slot :
            slots'[a][k] = IF a = o /\ k = i THEN v ELSE slots[a][k]
      BY <2>8, <3>0 DEF write_store, TypeOK
    <3>3. \A x : White(x)' <=> White(x)
      BY <3>1 DEF White
    <3>4. ASSUME NEW S \in SUBSET Addr, GreyClosed(S)'
          PROVE  GreyClosed(S)
      <4>1. \A a \in Addr, k \in Slot :
              White(slots[a][k]) => slots'[a][k] = slots[a][k]
        BY <3>1, <3>2
      <4>2. mark_list \cup vm_mark_list \cup S \subseteq Addr /\ cur \in Ref
        BY DEF TypeOK
      <4>3. QED
        BY <1>a, <3>1, <3>3, <3>4, <4>1, <4>2 DEF GreyClosed
    <3>5. \A S \in SUBSET Addr : GreyClosed(S)' =>
            \E T \in SUBSET Addr :
              GreyClosed(T) /\ \A x \in T : x \in S \/ ~White(x)'
      BY <3>4
    <3>6. \A x \in Addr : Safe(x) => Safe(x)'
      BY <3>1, <3>3, <3>5, KeepSafe
    <3>7. Safe(v)'
      BY <1>b, <3>1, <3>6, NullSafe DEF TriColorInv
    <3>8. ASSUME NEW a \in live, NEW k \in Slot, ~White(a)'
          PROVE  Safe(slots[a][k])'
      <4>1. Safe(slots[a][k]) /\ slots[a][k] \in Ref
        BY <1>a, <1>c, <3>3, <3>8 DEF TriColorInv
      <4>2. \A x \in Ref : Safe(x) => Safe(x)'
        BY <1>a, <3>6, NullSafe
      <4>3. slots'[a][k] = IF a = o /\ k = i THEN v ELSE slots[a][k]
        BY <1>a, <3>2
      <4>4. QED
        BY <3>7, <4>1, <4>2, <4>3
    <3>9. QED
      BY <1>b, <3>1, <3>6, <3>8 DEF TriColorInv
  <2>9. QED
    BY <1>8, <2>1, <2>2, <2>3, <2>4, <2>5, <2>6, <2>7, <2>8 DEF HeapStep
<1>9. CASE GcStep \/ gc_spurious_wakeup
  <2>1. CASE \/ gc_acquire \/ gc_spurious_wakeup \/ gc_sweep_lock \/ gc_sweep_page
             \/ gc_mark_done
    BY <2>1, <1>2, LiveUnchanged
       DEF gc_acquire, gc_spurious_wakeup, gc_sweep_lock, gc_sweep_page,
           gc_mark_done
  <2>2. CASE gc_dispatch
    <3>1. live' = live
      BY <2>2 DEF gc_dispatch, ControlInv, live, TypeOK
    <3>2. QED
      BY <2>2, <3>1, <1>2 DEF gc_dispatch
  (* Steps that only move the scan on. *)
  <2>3. ASSUME UNCHANGED <<phase, color, white_color, slots, stack, roots>>,
               live' = live, phase = "MARK",
               \A S \in SUBSET Addr : GreyClosed(S)' => GreyClosed(S)
        PROVE  TriColorInv'
    <3>1. \A x : White(x)' <=> White(x)
      BY <2>3 DEF White
    <3>2. \A S \in SUBSET Addr : GreyClosed(S)' =>
            \E T \in SUBSET Addr :
              GreyClosed(T) /\ \A x \in T : x \in S \/ ~White(x)'
      BY <2>3
    <3>3. \A x \in Addr : Safe(x) => Safe(x)'
      BY <2>3, <3>1, <3>2, KeepSafe
    <3>4. \A x \in Ref : Safe(x) => Safe(x)'
      BY <1>a, <3>3, NullSafe
    <3>5. QED
      BY <1>a, <1>b, <1>c, <2>3, <3>1, <3>4 DEF TriColorInv
  <2>4. ASSUME NEW o \in Addr, gc_pop(o)
        PROVE  TriColorInv'
    <3>1. /\ UNCHANGED <<phase, color, white_color, slots, stack, roots, ref,
                         vm_mark_list>>
          /\ live' = live /\ phase = "MARK"
          /\ mark_list' = mark_list \ {o} /\ cur = Null /\ cur' = o /\ idx' = 1
      BY <2>4, LiveUnchanged DEF gc_pop, ControlInv
    <3>2. \A i \in Slot : i >= 1
      BY DEF Slot
    <3>3. \A S \in SUBSET Addr : GreyClosed(S)' => GreyClosed(S)
      BY <1>a, <3>1, <3>2 DEF GreyClosed, White
    <3>4. QED
      BY <2>3, <3>1, <3>3
  <2>5. CASE gc_load
    <3>1. /\ UNCHANGED <<phase, color, white_color, slots, stack, roots,
                         vm_mark_list, mark_list, cur>>
          /\ live' = live /\ phase = "MARK" /\ idx \in Slot
          /\ ref = Null /\ ref' = slots[cur][idx] /\ idx' = idx + 1
      BY <2>5, LiveUnchanged, Constants DEF gc_load, ControlInv, TypeOK
    <3>2. \A i \in Slot : i >= idx => i = idx \/ i >= idx + 1
      BY <3>1 DEF Slot
    <3>3. \A S \in SUBSET Addr : GreyClosed(S)' => GreyClosed(S)
      BY <3>1, <3>2 DEF GreyClosed, White
    <3>4. QED
      BY <2>3, <3>1, <3>3
  <2>6. CASE gc_mark_ref_test
    <3>1. /\ UNCHANGED <<phase, color, white_color, slots, stack, roots,
                         vm_mark_list, mark_list, cur, idx>>
          /\ live' = live /\ phase = "MARK"
          /\ ref' = ref \/ ~White(ref)
      BY <2>6, LiveUnchanged DEF gc_mark_ref_test, ControlInv, MustMark, White
    <3>2. \A S \in SUBSET Addr : GreyClosed(S)' => GreyClosed(S)
      BY <3>1 DEF GreyClosed, White
    <3>3. QED
      BY <2>3, <3>1, <3>2
  <2>7. CASE gc_mark_ref_shade
    <3>0. PICK n \in Addr : n = ref
      BY <2>7 DEF gc_mark_ref_shade, ControlInv, TypeOK, Ref
    <3>1. /\ live' = live /\ phase = "MARK"
          /\ UNCHANGED <<phase, vm_mark_list, cur, idx, slots, white_color, stack,
                         roots>>
          /\ mark_list' = mark_list \cup ({n} \ Strings) /\ ref = n
      BY <2>7, <3>0, LiveUnchanged DEF gc_mark_ref_shade, ControlInv
    <3>2. /\ \A a \in Addr \ {n} : color'[a] = color[a]
          /\ color'[n] # white_color
      BY <2>7, <3>0 DEF gc_mark_ref_shade, Shade, TypeOK, Epoch
    <3>3. QED
      BY <1>s, <3>1, <3>2
  <2>8. CASE gc_blacken
    <3>1. /\ live' = live /\ phase = "MARK"
          /\ UNCHANGED <<phase, mark_list, vm_mark_list, ref, slots, white_color,
                         stack, roots>>
          /\ cur' = Null /\ idx > NumSlots /\ cur \in Grey /\ cur \in live
      BY <2>8, LiveUnchanged DEF gc_blacken, ControlInv, ListInv, Grey
    <3>2. \A a \in Addr : color[a] = white_color <=> color'[a] = white_color
      BY <2>8, <3>1 DEF gc_blacken, ListInv, TypeOK, Epoch
    <3>3. \A x \in Ref : White(x)' <=> White(x)
      BY <1>a, <3>1, <3>2 DEF White
    <3>4. \A i \in Slot : ~(i >= idx)
      BY <3>1, CollectorAssumption DEF CollectorAssumption, Slot, TypeOK
    <3>5. \A S \in SUBSET Addr : GreyClosed(S)' => GreyClosed(S)
      BY <1>c, <3>1, <3>3, <3>4 DEF GreyClosed, TypeOK
    <3>6. \A S \in SUBSET Addr : GreyClosed(S)' =>
            \E T \in SUBSET Addr :
              GreyClosed(T) /\ \A x \in T : x \in S \/ ~White(x)'
      BY <3>5
    <3>7. \A x \in Addr : White(x)' => White(x)
      BY <1>a, <3>3
    <3>8. \A x \in Addr : Safe(x) => Safe(x)'
      BY <3>1, <3>6, <3>7, KeepSafe
    <3>9. \A x \in Ref : Safe(x) => Safe(x)'
      BY <1>a, <3>8, NullSafe
    <3>10. QED
      BY <1>a, <1>b, <1>c, <3>1, <3>3, <3>9 DEF TriColorInv
  <2>9. ASSUME NEW a \in Addr, gc_sweep_next(a) \/ gc_sweep_done
        PROVE  TriColorInv'
    <3>1. live' \subseteq live
      BY <2>9, LiveAfterSweepNext, LiveAfterSweepDone
    <3>2. /\ phase = "SWEEP" /\ UNCHANGED <<phase, white_color, stack, roots>>
          /\ white_color # "NONE"
      BY <2>9 DEF gc_sweep_next, Condemned, gc_sweep_done, ControlInv, TypeOK, Epoch
    <3>3. \A b \in live : color'[b] = color[b] /\ slots'[b] = slots[b]
      BY <1>a, <2>9 DEF gc_sweep_next, Condemned, gc_sweep_done, free_last_chunk, TypeOK, live
    <3>4. \A b \in Addr : color'[b] = color[b] \/ color'[b] = "NONE"
      BY <2>9 DEF gc_sweep_next, Condemned, gc_sweep_done, free_last_chunk, TypeOK
    <3>5. \A x \in Ref : White(x)' => White(x)
      BY <1>a, <3>2, <3>4 DEF White
    <3>6. \A x \in Ref : Safe(x) => Safe(x)'
      BY <3>2, <3>5 DEF Safe
    <3>7. \A b \in live : White(b) => White(b)'
      BY <3>2, <3>3 DEF White
    <3>8. QED
      BY <1>a, <1>b, <1>c, <3>1, <3>2, <3>3, <3>6, <3>7 DEF TriColorInv
  <2>10. CASE gc_sweep_done
    <3>1. \E a : a \in Addr
      BY CollectorAssumption DEF CollectorAssumption, Addr
    <3>2. QED
      BY <2>9, <2>10, <3>1
  <2>11. QED
    BY <1>9, <2>1, <2>2, <2>4, <2>5, <2>6, <2>7, <2>8, <2>9, <2>10 DEF GcStep
<1>10. CASE Terminated \/ UNCHANGED vars
  BY <1>2, <1>10, LiveUnchanged DEF Terminated, vars
<1>11. QED
  BY <1>5, <1>6, <1>7, <1>8, <1>9, <1>10 DEF Next, HandshakeStep

-------------------------------------------------------------------------------
(* The theorems. *)

(* The invariant holds when the runtime is created. *)
LEMMA InitIInv == Init => IInv
BY InitType, InitControl, InitList, InitColor, InitRef, InitTriColor DEF IInv

(* Every step of either thread keeps the invariant. *)
LEMMA StepIInv == IInv /\ [Next]_vars => IInv'
BY StepType, StepControl, StepList, StepColor, StepRef, StepTriColor DEF IInv

(* The invariant holds in every reachable state, whatever the numbers of     *)
(* objects and references, the page size and the bounds on roots and stack.  *)
THEOREM InductiveInvariant == Spec => []IInv
<1>1. Init => IInv
  BY InitIInv
<1>2. IInv /\ [Next]_vars => IInv'
  BY StepIInv
<1>3. QED
  BY <1>1, <1>2, PTL DEF Spec

(* Every variable keeps its type. *)
THEOREM TypeCorrect == Spec => []TypeOK
<1>1. IInv => TypeOK
  BY DEF IInv
<1>2. QED
  BY <1>1, InductiveInvariant, PTL

(* The assertions of the handshakes never fail. *)
THEOREM HandshakesAgree == Spec => []HandshakeAsserts
<1>1. IInv => HandshakeAsserts
  BY DEF IInv, ControlInv, ListInv, HandshakeAsserts
<1>2. QED
  BY <1>1, InductiveInvariant, PTL

(* The two threads are never in the heap together. *)
THEOREM HeapExclusive == Spec => []HeapExclusion
<1>1. IInv => HeapExclusion
  BY DEF IInv, ControlInv, HeapExclusion
<1>2. QED
  BY <1>1, InductiveInvariant, PTL

(* No object is on one mark list twice. *)
THEOREM NoObjectPushedTwice == Spec => []NoDoublePush
<1>1. IInv => NoDoublePush
  BY DEF IInv, ListInv, NoDoublePush
<1>2. QED
  BY <1>1, InductiveInvariant, PTL

(* gc_sweep never finds a grey object. *)
THEOREM SweepAfterMarking == Spec => []SweepMeetsNoGrey
<1>1. ASSUME IInv, gpc \in {"sweep_lock", "sweep"}, NEW o \in live
      PROVE  color[o] # "MARKED"
  <2>1. Grey = {}
    BY <1>1 DEF IInv, ControlInv, ListInv, Grey
  <2>2. QED
    BY <1>1, <2>1 DEF IInv, ListInv
<1>2. IInv => SweepMeetsNoGrey
  BY <1>1 DEF SweepMeetsNoGrey
<1>3. QED
  BY <1>2, InductiveInvariant, PTL

(* Between collections every object has the colour that is about to become   *)
(* white.                                                                    *)
THEOREM OneColorBetweenCollections == Spec => []EpochHasOneColor
<1>1. IInv => EpochHasOneColor
  BY DEF IInv, ColorInv, EpochHasOneColor
<1>2. QED
  BY <1>1, InductiveInvariant, PTL

-------------------------------------------------------------------------------
(* The collector implements the managed heap. *)

(* What the program can get at without meeting a dead object: all that is    *)
(* live, but once marking is over only what is not white.                    *)
Kept == {o \in live : phase = "MARK" \/ ~White(o)}

(* What is kept is closed under references, and holds the stack and the      *)
(* roots.                                                                    *)
LEMMA KeptClosed ==
  IInv /\ mpc # "destroyed" => Promise!ClosedSet(Kept)
<1> SUFFICES ASSUME TypeOK, RefInv, TriColorInv, mpc # "destroyed"
             PROVE  Promise!ClosedSet(Kept)
  BY DEF IInv
<1>0. live \subseteq Addr
  BY DEF live, TypeOK
<1>1. roots \cup stack \subseteq Kept
  BY DEF Kept, RefInv, TriColorInv, Safe
<1>2. ASSUME NEW o \in Kept, NEW i \in Slot
      PROVE  liveSlots[o][i] \in Kept \cup {Null}
  <2>1. o \in live /\ liveSlots[o] = slots[o]
    BY <1>0 DEF Kept, liveSlots
  <2>2. slots[o][i] \in live \cup {Null}
    BY <1>0, <1>2, <2>1, Constants DEF Kept, RefInv, White
  <2>3. phase = "MARK" \/ ~White(slots[o][i])
    BY <1>2, <2>1 DEF Kept, TriColorInv, Safe
  <2>4. QED
    BY <2>1, <2>2, <2>3 DEF Kept
<1>3. QED
  BY <1>1, <1>2 DEF Promise!ClosedSet

(* What can be reached is kept. *)
LEMMA ReachableKept == IInv /\ mpc # "destroyed" => Promise!Reachable \subseteq Kept
<1> SUFFICES ASSUME IInv, mpc # "destroyed" PROVE Promise!Reachable \subseteq Kept
  OBVIOUS
<1>1. Kept \in SUBSET Addr
  BY DEF Kept, live, IInv, TypeOK
<1>2. QED
  BY <1>1, KeptClosed DEF Promise!Reachable

(* No sweep reclaims an object that can be reached from the stack or roots. *)
THEOREM NothingReachableReclaimed == Spec => []NoReachableReclaimed
<1>1. IInv => NoReachableReclaimed
  BY ReachableKept DEF NoReachableReclaimed, Kept
<1>2. QED
  BY <1>1, InductiveInvariant, PTL

-------------------------------------------------------------------------------
(* Refinement. *)

(* The runtime begins as an empty managed heap. *)
LEMMA InitRefines == Init => Promise!Init
BY DEF Init, Promise!Init, Promise!NoRefs, live, liveSlots

(* The program's references are the same when those of its objects are. *)
LEMMA SlotsUnchanged ==
  live' = live /\ (\A o \in live : slots'[o] = slots[o]) => liveSlots' = liveSlots
BY DEF liveSlots

(* Every step of either thread is a step of the managed heap or a stutter. *)
LEMMA StepRefines ==
  IInv /\ [Next]_vars => [Promise!Next]_(Promise!heap)
<1> SUFFICES ASSUME TypeOK, ControlInv, ListInv, ColorInv, RefInv, TriColorInv,
                    IInv, [Next]_vars
             PROVE  [Promise!Next]_(Promise!heap)
  BY DEF IInv
<1> USE DEF gcVars, vmVars, heapVars, mutVars, scanVars, sweepVars
<1>0. live \subseteq Addr /\ Null \notin Addr
  BY Constants DEF live, TypeOK
(* Steps the program cannot see. *)
<1>1. ASSUME live' = live, \A o \in live : slots'[o] = slots[o],
             UNCHANGED <<stack, roots>>
      PROVE  UNCHANGED Promise!heap
  BY <1>1, SlotsUnchanged DEF Promise!heap
<1>2. CASE safepoint \/ start_collection \/ wait_for_collection \/ request_quit
  <2>1. live' = live
    BY <1>2, LiveUnchanged, LiveWhileRunning
       DEF safepoint, start_collection, wait_for_collection, request_quit,
           safepoint_start_mark, safepoint_handshake, swap_mark_lists,
           safepoint_start_sweep, safepoint_new_epoch
  <2>2. UNCHANGED <<slots, stack, roots>>
    BY <1>2
       DEF safepoint, start_collection, wait_for_collection, request_quit,
           safepoint_start_mark, safepoint_handshake, swap_mark_lists,
           safepoint_start_sweep, safepoint_new_epoch
  <2>3. QED
    BY <1>1, <2>1, <2>2
<1>3. CASE stop_collector
  <2>1. live' = live
    BY <1>3, LiveWhileRunning DEF stop_collector
  <2>2. liveSlots' = liveSlots
    BY <1>3, <2>1, SlotsUnchanged DEF stop_collector
  <2>3. Promise!Leave
    BY <1>3, <2>1, <2>2 DEF stop_collector, Promise!Leave
  <2>4. QED
    BY <2>3 DEF Promise!Next
<1>4. CASE sweep_entire_heap
  <2>1. ~free_chunk /\ ~free_chunk' /\ stack = {}
    BY <1>4 DEF sweep_entire_heap, ControlInv
  <2>2. live = allocated /\ live' = allocated'
    BY <1>4, <2>1 DEF live, sweep_entire_heap
  <2>3. live' = {}
    BY <1>4, <2>2 DEF sweep_entire_heap, ColorInv
  <2>4. liveSlots' = [o \in Addr |-> Promise!NoRefs]
    BY <2>3 DEF liveSlots, Promise!NoRefs
  <2>5. Promise!Destroy
    BY <1>4, <2>1, <2>3, <2>4 DEF Promise!Destroy, sweep_entire_heap
  <2>6. QED
    BY <2>5 DEF Promise!Next
<1>5. CASE HeapStep
  <2>1. ASSUME NEW o \in Addr,
               drop(o) \/ push_root(o) \/ object_retain(o) \/ object_release(o)
        PROVE  Promise!Next
    <3>1. live' = live /\ UNCHANGED slots
      BY <2>1, LiveUnchanged
         DEF drop, push_root, object_retain, object_release
    <3>2. liveSlots' = liveSlots
      BY <3>1, SlotsUnchanged
    <3>3. Promise!Drop(o) \/ Promise!Push(o) \/ Promise!Retain(o)
          \/ Promise!Release(o)
      BY <2>1, <3>1, <3>2
         DEF drop, push_root, object_retain, object_release,
             Promise!Drop, Promise!Push, Promise!Retain, Promise!Release
    <3>4. QED
      BY <3>3 DEF Promise!Next
  <2>2. ASSUME NEW o \in Addr, object_new_malloc(o)
        PROVE  UNCHANGED Promise!heap
    BY <1>1, <2>2, LiveAfterMalloc DEF object_new_malloc
  <2>3. ASSUME NEW o \in Addr, NEW i \in Slot, read(o, i)
        PROVE  Promise!Next
    <3>1. live' = live /\ UNCHANGED slots /\ o \in live
      BY <2>3, LiveUnchanged DEF read, RefInv
    <3>2. liveSlots' = liveSlots /\ liveSlots[o] = slots[o]
      BY <3>1, SlotsUnchanged DEF liveSlots
    <3>3. Promise!Read(o, i)
      BY <2>3, <3>1, <3>2 DEF read, Promise!Read
    <3>4. QED
      BY <3>3 DEF Promise!Next
  <2>4. CASE object_new_header
    <3>1. PICK n \in Addr : n = w.o
      BY <2>4 DEF object_new_header, RefInv, TypeOK
    <3>2. n \notin live /\ live' = live \cup {n}
      BY <2>4, <3>1, LiveAfterHeader
    <3>3. slots' = [slots EXCEPT ![n] = [i \in Slot |-> Null]]
          /\ stack' = stack \cup {n} /\ UNCHANGED roots
      BY <2>4, <3>1 DEF object_new_header
    <3>4. liveSlots' = [liveSlots EXCEPT ![n] = Promise!NoRefs]
      BY <3>2, <3>3 DEF liveSlots, Promise!NoRefs, TypeOK
    <3>5. Promise!New(n)
      BY <3>2, <3>3, <3>4 DEF Promise!New
    <3>6. QED
      BY <3>5 DEF Promise!Next
  <2>5. ASSUME NEW o \in Addr, NEW i \in Slot, NEW v \in Ref,
               o \in stack \ Strings, v \in stack \cup {Null},
               mpc # "destroyed", live' = live,
               slots' = [slots EXCEPT ![o][i] = v],
               UNCHANGED <<stack, roots>>
        PROVE  Promise!Next
    <3>1. o \in live
      BY <2>5 DEF RefInv
    <3>2. liveSlots' = [liveSlots EXCEPT ![o][i] = v]
      BY <2>5, <3>1 DEF liveSlots, TypeOK
    <3>3. Promise!Write(o, i, v)
      BY <2>5, <3>2 DEF Promise!Write
    <3>4. QED
      BY <2>5, <3>3 DEF Promise!Next, Ref
  <2>6. ASSUME NEW o \in Addr, NEW i \in Slot, NEW v \in Ref,
               winit(o, i, v) \/ write_no_barrier(o, i, v)
        PROVE  Promise!Next
    <3>1. live' = live
      BY <2>6, LiveUnchanged DEF winit, write_no_barrier
    <3>2. QED
      BY <2>5, <2>6, <3>1 DEF winit, write_no_barrier
  <2>7. CASE write_store
    <3>1. live' = live
      BY <2>7, LiveWhileRunning DEF write_store
    <3>2. QED
      BY <2>5, <2>7, <3>1 DEF write_store, RefInv, TypeOK
  <2>8. ASSUME NEW o \in Addr, NEW i \in Slot, NEW v \in Ref, write_test(o, i, v)
        PROVE  UNCHANGED Promise!heap
    BY <1>1, <2>8, LiveWhileRunning DEF write_test
  <2>9. CASE write_barrier
    BY <1>1, <2>9, LiveWhileRunning DEF write_barrier
  <2>10. QED
    BY <1>5, <2>1, <2>2, <2>3, <2>4, <2>6, <2>7, <2>8, <2>9 DEF HeapStep
<1>6. CASE GcStep \/ gc_spurious_wakeup
  <2>1. CASE \/ gc_acquire \/ gc_spurious_wakeup \/ gc_sweep_lock \/ gc_sweep_page
             \/ gc_load \/ gc_mark_ref_test \/ gc_mark_ref_shade \/ gc_blacken
             \/ gc_mark_done
    <3>1. live' = live /\ UNCHANGED <<slots, stack, roots>>
      BY <2>1, LiveUnchanged
         DEF gc_acquire, gc_spurious_wakeup, gc_sweep_lock, gc_sweep_page,
             gc_load, gc_mark_ref_test, gc_mark_ref_shade, gc_blacken,
             gc_mark_done
    <3>2. QED
      BY <1>1, <3>1
  <2>2. CASE gc_dispatch
    <3>1. live' = live
      BY <2>2 DEF gc_dispatch, ControlInv, live, TypeOK
    <3>2. QED
      BY <1>1, <2>2, <3>1 DEF gc_dispatch
  <2>3. ASSUME NEW o \in Addr, gc_pop(o)
        PROVE  UNCHANGED Promise!heap
    BY <1>1, <2>3, LiveUnchanged DEF gc_pop
  <2>4. ASSUME NEW a \in Addr, gc_sweep_next(a)
        PROVE  [Promise!Next]_(Promise!heap)
    <3>1. live' = live \ (IF color[a] = white_color THEN {a} ELSE {})
      BY <2>4, LiveAfterSweepNext
    <3>2. \A b \in live : slots'[b] = slots[b]
      BY <1>0, <2>4 DEF gc_sweep_next, Condemned, free_last_chunk, TypeOK, live
    <3>3. UNCHANGED <<stack, roots>>
      BY <2>4 DEF gc_sweep_next, Condemned
    <3>4. CASE color[a] # white_color \/ a \notin live
      <4>1. live' = live
        BY <3>1, <3>4
      <4>2. QED
        BY <1>1, <3>2, <3>3, <4>1
    <3>5. CASE color[a] = white_color /\ a \in live
      <4>1. phase = "SWEEP" /\ mpc # "destroyed"
        BY <2>4 DEF gc_sweep_next, Condemned, ControlInv
      <4>2. a \notin Kept
        BY <1>0, <3>5, <4>1 DEF Kept, White
      <4>3. a \notin Promise!Reachable
        BY <4>1, <4>2, ReachableKept
      <4>4. live' = live \ {a}
        BY <3>1, <3>5
      <4>5. liveSlots' = [liveSlots EXCEPT ![a] = Promise!NoRefs]
        BY <3>2, <4>4 DEF liveSlots, Promise!NoRefs
      <4>6. Promise!Reclaim(a)
        BY <3>3, <3>5, <4>3, <4>4, <4>5 DEF Promise!Reclaim
      <4>7. QED
        BY <4>6 DEF Promise!Next
    <3>6. QED
      BY <3>4, <3>5
  <2>5. CASE gc_sweep_done
    <3>1. live' = live
      BY <2>5, LiveAfterSweepDone
    <3>2. \A b \in live : slots'[b] = slots[b]
      BY <1>0, <2>5 DEF gc_sweep_done, free_last_chunk, TypeOK, live
    <3>3. QED
      BY <1>1, <2>5, <3>1, <3>2 DEF gc_sweep_done
  <2>6. QED
    BY <1>6, <2>1, <2>2, <2>3, <2>4, <2>5 DEF GcStep
<1>7. CASE Terminated \/ UNCHANGED vars
  BY <1>1, <1>7, LiveUnchanged DEF Terminated, vars
<1>8. QED
  BY <1>2, <1>3, <1>4, <1>5, <1>6, <1>7 DEF Next, HandshakeStep

(* Every behaviour of the two threads is one the managed heap allows: the    *)
(* program's reads find what it wrote, and nothing it can reach goes away.   *)
THEOREM ImplementsManagedHeap == Spec => Promised
<1>1. Init => Promise!Init
  BY InitRefines
<1>2. IInv /\ [Next]_vars => [Promise!Next]_(Promise!heap)
  BY StepRefines
<1>3. QED
  BY <1>1, <1>2, InductiveInvariant, PTL DEF Spec, Promised, Promise!Spec
================================================================================
