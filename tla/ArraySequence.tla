----------------------------- MODULE ArraySequence -----------------------------
(*****************************************************************************)
(* An array as a sequence of values, by element and by length.  Two of its   *)
(* operations are weaker than those of a sequence, because the code does no  *)
(* more: resizing to a greater length fills up with nulls until an element   *)
(* was popped, and with anything from then on; and Shift, which stands for   *)
(* the removal of an element, does not make the sequence shorter.            *)
(*****************************************************************************)
EXTENDS Integers, Sequences

CONSTANTS
  Value, NullValue,
  Length, List   \* the lengths and the lists of values that it is called with

VARIABLES elements, popped

Init == elements = <<>> /\ popped = FALSE

Fill == IF popped THEN Value ELSE {NullValue}

Resize(n) ==
  \/ /\ n <= Len(elements)
     /\ elements' = SubSeq(elements, 1, n)
  \/ /\ n >= Len(elements)
     /\ \E added \in [1 .. n - Len(elements) -> Fill] :
          elements' = elements \o added

Extend(values) == elements' = elements \o values

Before(n) == SubSeq(elements, 1, n - 1)
From(n)   == SubSeq(elements, n, Len(elements))

Insert(n, v) ==
  n \in 1 .. Len(elements) + 1 /\ elements' = Before(n) \o <<v>> \o From(n)

(* Element n is gone, those after it are one place further down, and the     *)
(* last place is left with a null.                                           *)
Shift(n) ==
  n \in DOMAIN elements /\ elements' = Before(n) \o From(n + 1) \o <<NullValue>>

Pop ==
  /\ elements # <<>>
  /\ elements' = SubSeq(elements, 1, Len(elements) - 1)
  /\ popped' = TRUE

Set(n, v) == n \in DOMAIN elements /\ elements' = [elements EXCEPT ![n] = v]

Next ==
  \/ /\ \/ \E n \in Length : Resize(n)
        \/ \E n \in Length : Shift(n)
        \/ \E n \in Length, v \in Value : Insert(n, v) \/ Set(n, v)
        \/ \E values \in List : Extend(values)
     /\ UNCHANGED popped
  \/ Pop

Spec == Init /\ [][Next]_<<elements, popped>>
================================================================================
