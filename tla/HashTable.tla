------------------------------- MODULE HashTable -------------------------------
(*****************************************************************************)
(* hash_table of datatypes/hash_table.h: the runtime's tables of interned    *)
(* strings, layouts, boxed integers and roots.  The hash function is chosen  *)
(* at the start.  An iteration, as safepoint_start_sweep runs one, erases    *)
(* through its iterator or steps it, and inserts nothing meanwhile.          *)
(*****************************************************************************)
EXTENDS ScatterTable

CONSTANT HashValue   \* the hashes that keys can have

ASSUME HashTableAssumption == HashValue \subseteq Nat   \* size_t

VARIABLES
  hash,    \* std::hash
  t,       \* _kv and _kvsize
  length,  \* _length
  it,      \* the iterator's slot, NoSlot when there is none
  todo     \* keys that an iteration has still to visit (history)

vars == <<hash, t, length, it, todo>>

Init ==
  /\ hash \in [Key -> HashValue]
  /\ t = EmptyTable(0) /\ length = 0
  /\ it = NoSlot /\ todo = {}

Contains(k) == Lookup(hash, t, k) # NoSlot

insert_or_assign(k, v) ==
  /\ it = NoSlot
  /\ t' = Assigned(hash, t, length, k, v)
  /\ length' = IF Contains(k) THEN length ELSE length + 1
  /\ UNCHANGED <<hash, it, todo>>

erase(k) ==
  /\ it = NoSlot
  /\ t' = Erase(hash, t, k)
  /\ length' = IF Contains(k) THEN length - 1 ELSE length
  /\ UNCHANGED <<hash, it, todo>>

clear_but_length ==
  /\ it = NoSlot
  /\ t' = EmptyTable(t.size)
  /\ UNCHANGED <<hash, length, it, todo>>

clear ==
  /\ it = NoSlot
  /\ t' = EmptyTable(t.size) /\ length' = 0
  /\ UNCHANGED <<hash, it, todo>>

-------------------------------------------------------------------------------
begin ==
  /\ it = NoSlot
  /\ it' = NextUsed(t, 0) /\ todo' = KeysOf(t)
  /\ UNCHANGED <<hash, t, length>>

step ==
  /\ it # NoSlot /\ it < t.size
  /\ it' = NextUsed(t, it + 1) /\ todo' = todo \ {t.key[it]}
  /\ UNCHANGED <<hash, t, length>>

SlotAfterErasedNext(erased) == NextUsed(erased, it + 1)

(* Where the iterator goes: erase_key compares next_slot with main_slot after *)
(* it has made them equal, so that the iterator never skips the slot.         *)
SlotAfterErased(erased) == NextUsed(erased, it)

erase_iterator ==
  /\ it # NoSlot /\ it < t.size
  /\ t' = Erase(hash, t, t.key[it])
  /\ length' = length - 1
  /\ it' = SlotAfterErased(t')
  /\ todo' = todo \ {t.key[it]}
  /\ UNCHANGED hash

end ==
  /\ it = t.size
  /\ it' = NoSlot
  /\ UNCHANGED <<hash, t, length, todo>>

-------------------------------------------------------------------------------
Next ==
  \/ \E k \in Key : erase(k) \/ \E v \in Val : insert_or_assign(k, v)
  \/ clear
  \/ begin \/ step \/ erase_iterator \/ end

Spec == Init /\ [][Next]_vars

-------------------------------------------------------------------------------
(* The table is a map: insert_or_assign and erase change what they say, no   *)
(* eviction and no growth loses or doubles an entry.                         *)
Map == INSTANCE Dictionary WITH dict <- Entries(t)
ImplementsMap == Map!Spec

(* A key is found when the table has it, and only then (lookup_key), and no  *)
(* key has two slots; debug_print's assertions hold of every list, and no    *)
(* two lists share a slot.                                                   *)
LookupFinds ==
  /\ ListsAreBuckets(hash, t) /\ ListsAreDisjoint(t)
  /\ \A k \in Key : Contains(k) <=> k \in KeysOf(t)
  /\ \A s, x \in Used(t) : t.key[s] = t.key[x] => s = x

(* There is a free slot whenever insert_key may look for one: the length the *)
(* load factor is computed from is the number of entries.                    *)
RoomToInsert ==
  /\ length = Cardinality(Used(t))
  /\ ~IsFull(t.size, length) => Used(t) # SlotsOf(t)

(* What an iteration has still to visit is in front of the iterator, although *)
(* erasing moves entries (erase, used by safepoint_start_sweep): at the end   *)
(* it has visited every entry.                                                *)
IterationSkipsNothing ==
  it # NoSlot => todo \subseteq {t.key[s] : s \in {x \in Used(t) : x >= it}}
================================================================================
