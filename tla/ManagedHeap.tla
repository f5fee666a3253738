------------------------------ MODULE ManagedHeap ------------------------------
(*****************************************************************************)
(* What the garbage-collected heap promises to the program that uses it: an  *)
(* object stays, with the references that were written into it, for as long  *)
(* as it can be reached from the stack or the roots.  There are no colours,  *)
(* phases, lists, locks or threads here; an unreachable object may go at any *)
(* moment, and never has to.                                                 *)
(*****************************************************************************)
EXTENDS Integers

CONSTANTS Addr, Strings, Slot, Null

VARIABLES live, slots, roots, stack

heap == <<live, slots, roots, stack>>

NoRefs == [i \in Slot |-> Null]

Init ==
  /\ live = {} /\ slots = [o \in Addr |-> NoRefs]
  /\ roots = {} /\ stack = {}

(* The least set that holds the roots and the stack and is closed under the  *)
(* references of its members.                                                *)
ClosedSet(S) ==
  /\ roots \cup stack \subseteq S
  /\ \A o \in S \cap Addr, i \in Slot : slots[o][i] \in S \cup {Null}
Reachable == {o \in Addr : \A S \in SUBSET Addr : ClosedSet(S) => o \in S}

New(o) ==
  /\ o \in Addr \ live
  /\ live' = live \cup {o} /\ slots' = [slots EXCEPT ![o] = NoRefs]
  /\ stack' = stack \cup {o}
  /\ UNCHANGED roots

Write(o, i, v) ==
  /\ o \in stack \ Strings /\ v \in stack \cup {Null}
  /\ slots' = [slots EXCEPT ![o][i] = v]
  /\ UNCHANGED <<live, roots, stack>>

Read(o, i) ==
  /\ o \in stack \ Strings /\ slots[o][i] # Null
  /\ stack' = stack \cup {slots[o][i]}
  /\ UNCHANGED <<live, slots, roots>>

Push(o) ==
  /\ o \in roots
  /\ stack' = stack \cup {o}
  /\ UNCHANGED <<live, slots, roots>>

Drop(o) ==
  /\ o \in stack
  /\ stack' = stack \ {o}
  /\ UNCHANGED <<live, slots, roots>>

Retain(o) ==
  /\ o \in stack
  /\ roots' = roots \cup {o}
  /\ UNCHANGED <<live, slots, stack>>

Release(o) ==
  /\ o \in roots
  /\ roots' = roots \ {o}
  /\ UNCHANGED <<live, slots, stack>>

Reclaim(o) ==
  /\ o \in live \ Reachable
  /\ live' = live \ {o} /\ slots' = [slots EXCEPT ![o] = NoRefs]
  /\ UNCHANGED <<roots, stack>>

(* The program ends: first its stack and some roots go, then everything.     *)
Leave ==
  /\ stack' = {} /\ roots' \in SUBSET roots
  /\ UNCHANGED <<live, slots>>

Destroy ==
  /\ stack = {}
  /\ live' = {} /\ slots' = [o \in Addr |-> NoRefs]
  /\ UNCHANGED <<roots, stack>>

Next ==
  \/ \E o \in Addr : \/ New(o) \/ Push(o) \/ Drop(o) \/ Retain(o) \/ Release(o)
                     \/ Reclaim(o)
  \/ \E o \in Addr, i \in Slot : Read(o, i)
  \/ \E o \in Addr, i \in Slot, v \in Addr \cup {Null} : Write(o, i, v)
  \/ Leave \/ Destroy

Spec == Init /\ [][Next]_heap
================================================================================
