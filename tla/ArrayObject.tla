------------------------------ MODULE ArrayObject ------------------------------
(*****************************************************************************)
(* Array objects (objects/array_object.cpp, and array.pop of corlib): a      *)
(* length, and a vslots object of at least as many slots.  The slots are     *)
(* numbered from 0, as in the code.  An index out of range raises an error   *)
(* before anything is changed.                                               *)
(*                                                                           *)
(* How many slots a vslots object has is up to the heap, which may give more *)
(* than it is asked for (object_size).                                       *)
(*****************************************************************************)
EXTENDS Integers, Sequences

CONSTANTS
  Value, NullValue,
  MinSlots,     \* 8 in the code: the least number of slots to grow to
  SlowGrowth,   \* 512 in the code: above it growth is by half
  MaxSlack,     \* bound on the slots the heap adds
  MaxLength,    \* bound on the length of arrays
  MaxValues     \* bound on the number of values that extend adds

ASSUME ArrayObjectAssumption ==
  /\ NullValue \in Value
  /\ MinSlots \in Nat /\ SlowGrowth \in Nat /\ MaxSlack \in Nat
  /\ MaxLength \in Nat /\ MaxValues \in Nat

VARIABLES
  count,   \* aslots_count: 0 when aslots is null
  slots,   \* aslots->slots
  length,
  popped   \* whether array_pop was called (history)

vars == <<count, slots, length, popped>>

Lists == UNION {[1 .. n -> Value] : n \in 0 .. MaxValues}

TypeOK ==
  /\ count \in Nat
  /\ slots \in [0 .. count - 1 -> Value]
  /\ length \in 0 .. count

(* vslots_new, with the contents that the slots are then initialised to.     *)
vslots_new(least, contents(_)) ==
  \E slack \in 0 .. MaxSlack :
    /\ count' = least + slack
    /\ slots' = [i \in 0 .. least + slack - 1 |-> contents(i)]

Overwrite(contents(_)) ==
  /\ slots' = [i \in 0 .. count - 1 |-> contents(i)]
  /\ UNCHANGED count

Init ==
  \E capacity \in 0 .. MaxLength, slack \in 0 .. MaxSlack :
    /\ count = IF capacity = 0 THEN 0 ELSE capacity + slack
    /\ slots = [i \in 0 .. count - 1 |-> NullValue]
    /\ length = 0 /\ popped = FALSE

array_setindex(index, v) ==
  /\ index < length
  /\ slots' = [slots EXCEPT ![index] = v]
  /\ UNCHANGED <<count, length, popped>>

(* The old elements in a larger vslots object. *)
Moved(i) == IF i < length THEN slots[i] ELSE NullValue

(* As array_resize, but what it cuts off is left in its slots. *)
array_resize_uncleared(n) ==
  /\ IF n <= count THEN Overwrite(LAMBDA i : slots[i])
     ELSE vslots_new(n, Moved)
  /\ length' = n
  /\ UNCHANGED popped

array_resize(n) ==
  /\ IF n <= length
     THEN Overwrite(LAMBDA i : IF n <= i /\ i < length THEN NullValue
                                                       ELSE slots[i])
     ELSE IF n > count THEN vslots_new(n, Moved) ELSE UNCHANGED <<count, slots>>
  /\ length' = n
  /\ UNCHANGED popped

array_expand_length(current, minimum) ==
  LET expanded == IF current > SlowGrowth THEN current * 2 - current \div 2
                                          ELSE current * 2
  IN  CHOOSE n \in {expanded, minimum, MinSlots} :
        \A m \in {expanded, minimum, MinSlots} : n >= m

(* array_append extends by one value. *)
array_extend(values) ==
  LET extended(i) == IF length <= i /\ i < length + Len(values)
                     THEN values[i - length + 1] ELSE Moved(i)
      written(i)  == IF length <= i /\ i < length + Len(values)
                     THEN values[i - length + 1] ELSE slots[i]
  IN
  /\ length + Len(values) <= MaxLength
  /\ IF length + Len(values) > count
     THEN vslots_new(array_expand_length(count, count + Len(values)), extended)
     ELSE Overwrite(written)
  /\ length' = length + Len(values)
  /\ UNCHANGED popped

(* As Inserted, but the elements are moved from the first to the last. *)
InsertedUpwards(index, v, i) ==
  IF i < index THEN slots[i] ELSE IF i = index THEN v ELSE slots[index]

(* The elements from index on move up by one slot; past the new length, a    *)
(* vslots object that has room keeps what it has, a new one has nulls.       *)
Inserted(index, v, i) ==
  IF i < index THEN slots[i] ELSE IF i = index THEN v ELSE slots[i - 1]

array_insert(index, v) ==
  /\ index <= length /\ length < MaxLength
  /\ IF length + 1 <= count
     THEN Overwrite(LAMBDA i : IF i <= length THEN Inserted(index, v, i)
                                              ELSE slots[i])
     ELSE vslots_new(array_expand_length(count, count + 1),
            LAMBDA i : IF i <= length THEN Inserted(index, v, i) ELSE NullValue)
  /\ length' = length + 1
  /\ UNCHANGED popped

array_remove(index) ==
  /\ index < length
  /\ Overwrite(LAMBDA i : IF index <= i /\ i < length - 1 THEN slots[i + 1]
                          ELSE IF i = length - 1 THEN NullValue ELSE slots[i])
  /\ UNCHANGED <<length, popped>>

array_pop ==
  /\ length > 0
  /\ length' = length - 1 /\ popped' = TRUE
  /\ UNCHANGED <<count, slots>>

array_clear ==
  /\ Overwrite(LAMBDA i : IF i < length THEN NullValue ELSE slots[i])
  /\ length' = 0
  /\ UNCHANGED popped

-------------------------------------------------------------------------------
Next ==
  \/ \E n \in 0 .. MaxLength :
       \/ array_resize(n) \/ array_remove(n)
       \/ \E v \in Value : array_setindex(n, v) \/ array_insert(n, v)
  \/ \E values \in Lists : array_extend(values)
  \/ array_pop \/ array_clear

Spec == Init /\ [][Next]_vars

-------------------------------------------------------------------------------
(* An array is a sequence of values: shifting and moving to other slots keep *)
(* every element in its place.  Two things are not as a program would expect *)
(* (array_pop, array_remove): what an array grows by is null only until the  *)
(* program pops, and an array does not get shorter by the removal of an      *)
(* element but has a null at its end.                                        *)
Elements == [n \in 1 .. length |-> slots[n - 1]]

ArraySequence ==
  INSTANCE ArraySequence WITH
    elements <- Elements, Length <- 0 .. MaxLength + 1, List <- Lists
ImplementsSequence == ArraySequence!Spec

UnusedSlotsAreNull == \A i \in length .. count - 1 : slots[i] = NullValue

(* The slots past the length are null, through every growth, shift and       *)
(* shortening (array_resize, array_insert, array_remove, array_clear), until *)
(* a program pops: array_pop leaves its value in the slot.  The comment of   *)
(* array_extend, which initialises such slots without a write barrier, has   *)
(* them null always.                                                         *)
NullsUnlessPopped == ~popped => UnusedSlotsAreNull
================================================================================
