------------------------------ MODULE MemoryMap ------------------------------
(***************************************************************************)
(* What the program is promised of its heap: blocks that do not overlap,   *)
(* which stay where they are until they are freed, and a sweep that visits *)
(* them in the order of their addresses and may free each as it leaves it. *)
(***************************************************************************)
EXTENDS Integers, Functions, TLC

CONSTANTS Own    \* the address of the block in which the heap keeps its own state

VARIABLES
  given,   \* the blocks: address |-> words
  cursor   \* the block the sweep is at, None when there is no sweep

None == -1

Block(p, words) == p..(p + words - 1)

Init == DOMAIN given = {Own} /\ given[Own] \in Nat /\ cursor = None

(* A block has an address of its own even if it has no words.                *)
Alloc(p, words) ==
  /\ p \notin DOMAIN given
  /\ \A q \in DOMAIN given : /\ Block(p, words) \cap Block(q, given[q]) = {}
                             /\ p \notin Block(q, given[q])
                             /\ q \notin Block(p, words)
  /\ given' = p :> words @@ given
  /\ UNCHANGED cursor

Without(p) == Restrict(given, DOMAIN given \ {p})

Free(p) ==
  /\ p # Own /\ p # cursor
  /\ given' = Without(p)
  /\ UNCHANGED cursor

IsNext(p, q) ==
  LET behind == {r \in DOMAIN given : p = None \/ r > p}
  IN IF behind = {} THEN q = None ELSE q \in behind /\ \A r \in behind : q <= r

Sweep(free) ==
  /\ IsNext(cursor, cursor')
  /\ free => cursor \notin {None, Own}
  /\ given' = IF free THEN Without(cursor) ELSE given

Next ==
  \/ \E p \in DOMAIN given' \ DOMAIN given : Alloc(p, given'[p])
  \/ \E p \in DOMAIN given : Free(p)
  \/ \E free \in BOOLEAN : Sweep(free)

Spec == Init /\ [][Next]_<<given, cursor>>
=============================================================================
