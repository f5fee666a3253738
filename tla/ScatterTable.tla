------------------------------ MODULE ScatterTable -----------------------------
(*****************************************************************************)
(* The chained scatter table that hash_table (datatypes/hash_table.h) and    *)
(* table objects (objects/table_object.cpp) both are: entries live in an     *)
(* array of slots, each in the main slot of its key, or in a slot of the     *)
(* list that starts there.                                                   *)
(*                                                                           *)
(* A table is a record: its number of slots, and for each slot its key, its  *)
(* value and its `next' pointer, which is Free when the slot is empty (the   *)
(* null pointer) and End at the end of a list (the pointer -1).  The code    *)
(* compares pointers into the array; here they are indices.                  *)
(*****************************************************************************)
EXTENDS Integers, FiniteSets, FiniteSetsExt

CONSTANTS
  Key, NoKey,   \* keys, and what an empty slot holds
  Val, NoVal,
  MinSize,      \* 16 in the code: the first array has MinSize - 1 slots
  LoadShare     \* 8 in the code: 1/LoadShare of the slots stays free

ASSUME ScatterTableAssumption ==
  /\ NoKey \notin Key /\ NoVal \notin Val
  /\ MinSize \in Nat /\ LoadShare \in Nat /\ MinSize > LoadShare
  /\ LoadShare > 1

Free   == -2
End    == -1
NoSlot == -3

SlotsOf(t) == 0 .. t.size - 1
Used(t)    == {s \in SlotsOf(t) : t.next[s] # Free}

EmptyTable(n) ==
  [size |-> n,
   key  |-> [s \in 0 .. n - 1 |-> NoKey],
   val  |-> [s \in 0 .. n - 1 |-> NoVal],
   next |-> [s \in 0 .. n - 1 |-> Free]]

(* The entries of a table, as the map from keys to values it stands for.     *)
KeysOf(t)   == {t.key[s] : s \in Used(t)}
Entries(t) ==
  [k \in KeysOf(t) |-> t.val[CHOOSE s \in Used(t) : t.key[s] = k]]

-------------------------------------------------------------------------------
MainSlot(hash, t, k) == hash[k] % t.size

(* The slots of the list that starts at slot s. *)
List(t, s) ==
  LET upTo[n \in 0 .. t.size] ==
        IF n = 0 THEN {s}
        ELSE upTo[n - 1] \cup ({t.next[x] : x \in upTo[n - 1]} \ {End, Free})
  IN  IF t.next[s] = Free THEN {} ELSE upTo[t.size]

(* lookup_key, and the search that an assignment starts with. *)
Lookup(hash, t, k) ==
  LET found == {s \in List(t, MainSlot(hash, t, k)) : t.key[s] = k}
  IN  IF t.size = 0 \/ found = {} THEN NoSlot ELSE CHOOSE s \in found : TRUE

(* The free slot nearest after slot c, or nearest before it. *)
FreeSlot(t, c) ==
  LET free  == SlotsOf(t) \ Used(t)
      after == {s \in free : s > c}
  IN  IF after # {} THEN Min(after) ELSE Max(free)

PlaceAt(t, s, k, v, nexts) ==
  [t EXCEPT !.key[s] = k, !.val[s] = v, !.next = nexts]

(* Altered forms, such as this one, are what the mutants put in the place of *)
(* another definition: Evict that does not mend the list of what it moves.   *)
EvictUnlinked(t, m, c, k, v) ==
  LET free  == FreeSlot(t, c)
      moved == PlaceAt(t, free, t.key[m], t.val[m],
                 [t.next EXCEPT ![free] = t.next[m], ![m] = End])
  IN  PlaceAt(moved, m, k, v, moved.next)

(* An entry that sits in a slot which is not its main one gives way to a key *)
(* whose main slot it is: it moves to the free slot, and its list follows.   *)
Evict(t, m, c, k, v) ==
  LET free     == FreeSlot(t, c)
      previous == CHOOSE s \in List(t, c) : t.next[s] = m
      moved    == PlaceAt(t, free, t.key[m], t.val[m],
                    [t.next EXCEPT ![previous] = free, ![free] = t.next[m],
                                   ![m] = End])
  IN  PlaceAt(moved, m, k, v, moved.next)

(* insert_key and table_insert: the key is not in the table, which has room. *)
Insert(hash, t, k, v) ==
  LET m == MainSlot(hash, t, k)
      c == MainSlot(hash, t, t.key[m])
      free == FreeSlot(t, c)
  IN  CASE t.next[m] = Free -> PlaceAt(t, m, k, v, [t.next EXCEPT ![m] = End])
        [] t.next[m] # Free /\ c = m ->
             PlaceAt(t, free, k, v,
                     [t.next EXCEPT ![free] = t.next[m], ![m] = free])
        [] OTHER -> Evict(t, m, c, k, v)

(* Load factor. *)
IsFull(size, length) == length >= size - size \div LoadShare

NewSize(size) == LET n == (size + 1) * 2 IN (IF n > MinSize THEN n ELSE MinSize) - 1

(* All entries, from the first slot to the last, in an array of n slots. *)
Rehash(hash, t, n) ==
  LET into[s \in 0 .. t.size] ==
        IF s = 0 THEN EmptyTable(n)
        ELSE IF t.next[s - 1] = Free THEN into[s - 1]
        ELSE Insert(hash, into[s - 1], t.key[s - 1], t.val[s - 1])
  IN  into[t.size]

(* An assignment: the table and what is added to its length. *)
Assigned(hash, t, length, k, v) ==
  LET s == Lookup(hash, t, k)
      room == IF IsFull(t.size, length) THEN Rehash(hash, t, NewSize(t.size))
                                        ELSE t
  IN  IF s # NoSlot THEN [t EXCEPT !.val[s] = v] ELSE Insert(hash, room, k, v)

EraseAt(t, s) ==
  [t EXCEPT !.key[s] = NoKey, !.val[s] = NoVal, !.next[s] = Free]

PullUpKey(t, m) ==
  LET n == t.next[m]
  IN  EraseAt([t EXCEPT !.key[m] = t.key[n], !.next[m] = t.next[n]], n)

(* The entry in the main slot is replaced by the second of its list. *)
PullUp(t, m) ==
  LET n == t.next[m]
  IN  EraseAt([t EXCEPT !.key[m] = t.key[n], !.val[m] = t.val[n],
                        !.next[m] = t.next[n]], n)

(* erase_key and table_delindex. *)
Erase(hash, t, k) ==
  LET m == MainSlot(hash, t, k)
      s == Lookup(hash, t, k)
      previous == CHOOSE x \in List(t, m) : t.next[x] = s
  IN  CASE s = NoSlot -> t
        [] s # NoSlot /\ s = m /\ t.next[m] # End -> PullUp(t, m)
        [] s # NoSlot /\ s = m /\ t.next[m] = End -> EraseAt(t, m)
        [] OTHER -> EraseAt([t EXCEPT !.next[previous] = t.next[s]], s)

(* The first used slot from slot s on, or the sentinel after the last slot. *)
NextUsed(t, s) ==
  LET used == {x \in Used(t) : x >= s}
  IN  IF used = {} THEN t.size ELSE Min(used)

-------------------------------------------------------------------------------
(* What a table must satisfy for its operations to make sense. *)

(* Every entry is found by following the list of its key's main slot, and    *)
(* every slot of that list belongs to that main slot (debug_print's checks). *)
ListsAreBuckets(hash, t) ==
  \A s \in Used(t) :
    /\ s \in List(t, MainSlot(hash, t, t.key[s]))
    /\ \A x \in List(t, s) : MainSlot(hash, t, t.key[x]) = MainSlot(hash, t, t.key[s])

(* Two slots never lead to the same slot: no list joins another or a cycle. *)
ListsAreDisjoint(t) ==
  \A s, x \in Used(t) : t.next[s] = t.next[x] /\ s # x => t.next[s] = End
================================================================================
