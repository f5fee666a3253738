------------------------------- MODULE Prototypes ------------------------------
(*****************************************************************************)
(* What objects promise a script: each has its own keys, in the order they   *)
(* were added, and a prototype to look in for the others.  A prototype gets  *)
(* no new keys, and loses none.                                              *)
(*****************************************************************************)
EXTENDS Integers, SequencesExt

CONSTANTS Object, Key, Value, KeySlots, Null

VARIABLES
  objects,  \* the objects that a script can get at
  held      \* those of them that it has in hand

vars == <<objects, held>>

(* Where an object has a key: native code may have named it twice.           *)
Own(o, k) == {i \in DOMAIN objects[o].slots : objects[o].slots[i].key = k}

(* What S leads to by following f, which is Null where it ends.              *)
Reached(f, S) ==
  {x \in DOMAIN f : \A T \in SUBSET DOMAIN f :
     S \subseteq T /\ (\A y \in T : f[y] = Null \/ f[y] \in T) => x \in T}

(* What reading a key gives: the first of the object and its prototypes that *)
(* has the key is its owner.  Null also stands for there being none.         *)
Lookup(o, k) ==
  LET prototypes == [p \in DOMAIN objects |-> IF Own(p, k) # {} THEN Null
                                               ELSE objects[p].prototype]
      owners == {p \in Reached(prototypes, {o}) : Own(p, k) # {}}
      owner  == CHOOSE p \in owners : TRUE
  IN  IF owners = {} THEN Null ELSE objects[owner].slots[Max(Own(owner, k))].value

Accessible(objs, hands) == Reached([o \in DOMAIN objs |-> objs[o].prototype], hands)

Init == objects = <<>> /\ held = {}

New(o, prototype, names) ==
  /\ held' = held \cup {o}
  /\ o \notin DOMAIN objects
  /\ objects' = [p \in DOMAIN objects \cup {o} |->
                   IF p = o THEN [prototype |-> prototype, sealed |-> FALSE,
                                  slots |-> [i \in DOMAIN names |->
                                               [key |-> names[i], value |-> Null]]]
                   ELSE [objects[p] EXCEPT !.sealed = @ \/ p = prototype]]

Drop(o) ==
  /\ held' = held \ {o}
  /\ objects' = [p \in Accessible(objects, held') |-> objects[p]]

WithSlots(was, slots) == [was EXCEPT !.slots = slots]
Assign(slots, i, v) == [slots EXCEPT ![i].value = v]

(* What an object may become.  A sealed one keeps its keys, but not their    *)
(* values.                                                                   *)
Assigned(was) ==
  {WithSlots(was, Assign(was.slots, i, v)) : i \in DOMAIN was.slots, v \in Value}
Added(was) ==
  {WithSlots(was, Append(was.slots, [key |-> k, value |-> v])) :
     k \in {x \in Key : \A i \in DOMAIN was.slots : was.slots[i].key # x}, v \in Value}
Deleted(was) == {WithSlots(was, RemoveAt(was.slots, i)) : i \in DOMAIN was.slots}

Change(o) ==
  LET was  == objects[o]
      keys == IF was.sealed THEN {} ELSE Added(was) \cup Deleted(was)
  IN  /\ objects'[o] \in Assigned(was) \cup keys
      /\ objects' = [objects EXCEPT ![o] = objects'[o]]

Next ==
  \/ \E o \in Object, prototype \in held \cup {Null}, names \in KeySlots :
       New(o, prototype, names)
  \/ \E o \in held : Drop(o)
  \/ held' = held /\ \E o \in held : Change(o)

Spec == Init /\ [][Next]_vars
================================================================================
