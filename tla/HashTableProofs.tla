---------------------------- MODULE HashTableProofs ----------------------------
(*****************************************************************************)
(* Hash tables of any size: keys are found, the length is the number of      *)
(* entries, iterations skip nothing, and a table implements a map.           *)
(*****************************************************************************)
EXTENDS HashTable, ScatterTableProofs

HashTableInductive ==
  /\ HashesKeys(hash)
  /\ GoodTable(hash, t)
  /\ length = Cardinality(Used(t))
  /\ it \in Used(t) \cup {NoSlot, t.size}
  /\ IterationSkipsNothing

LEMMA ContainsIs ==
  ASSUME HashTableInductive, NEW k \in Key
  PROVE  Contains(k) <=> k \in KeysOf(t)
BY LookupIs DEF HashTableInductive, Contains

(* insert_or_assign *)
LEMMA InsertIsAssign ==
  ASSUME HashTableInductive, NEW k \in Key, NEW v \in Val, insert_or_assign(k, v)
  PROVE  HashTableInductive' /\ Map!Assign(k, v)
<1> DEFINE a == Assigned(hash, t, length, k, v)
<1>1. /\ it = NoSlot /\ t' = a /\ hash' = hash /\ it' = it /\ todo' = todo
      /\ length' = IF k \in KeysOf(t) THEN length ELSE length + 1
  BY ContainsIs DEF insert_or_assign
<1>2. /\ GoodTable(hash, a)
      /\ Cardinality(Used(a)) = IF k \in KeysOf(t) THEN length ELSE length + 1
      /\ HoldsAlso(t, k, v, a)
  BY AssignedIs DEF HashTableInductive
<1> HIDE DEF a
<1>3. HashTableInductive'
  BY <1>1, <1>2 DEF HashTableInductive, IterationSkipsNothing
<1>4. Entries(a) = WithEntry(t, k, v)
  BY <1>2, EntriesAfterAssigned DEF HashTableInductive
<1>5. DOMAIN Entries(t) = KeysOf(t)
  BY EntriesAre DEF HashTableInductive
<1> QED BY <1>1, <1>3, <1>4, <1>5 DEF Map!Assign, WithEntry

(* erase *)
LEMMA EraseIsRemove ==
  ASSUME HashTableInductive, NEW k \in Key, erase(k)
  PROVE  HashTableInductive' /\ Map!Remove(k)
<1> DEFINE e == Erase(hash, t, k)
<1>1. /\ it = NoSlot /\ t' = e /\ hash' = hash /\ it' = it /\ todo' = todo
      /\ length' = IF k \in KeysOf(t) THEN length - 1 ELSE length
  BY ContainsIs DEF erase
<1>2. /\ GoodTable(hash, e)
      /\ Cardinality(Used(e)) = IF k \in KeysOf(t) THEN length - 1 ELSE length
      /\ Entries(e) = WithoutEntry(t, k)
  BY ErasedIs DEF HashTableInductive
<1> HIDE DEF e
<1>3. HashTableInductive'
  BY <1>1, <1>2 DEF HashTableInductive, IterationSkipsNothing
<1>4. DOMAIN Entries(t) = KeysOf(t)
  BY EntriesAre DEF HashTableInductive
<1> QED BY <1>1, <1>2, <1>3, <1>4 DEF Map!Remove, WithoutEntry

(* clear *)
LEMMA EmptyEntries ==
  ASSUME NEW n \in Nat
  PROVE  Entries(EmptyTable(n)) = Map!Empty
<1>1. KeysOf(EmptyTable(n)) = {}
  BY EmptyIsGood DEF KeysOf
<1> QED BY <1>1 DEF Entries, Map!Empty

LEMMA ClearIsClear ==
  ASSUME HashTableInductive, clear
  PROVE  HashTableInductive' /\ Map!Clear
<1>1. t.size \in Nat
  BY DEF HashTableInductive, GoodTable, IsTable
<1>2. /\ t' = EmptyTable(t.size) /\ length' = 0 /\ hash' = hash
      /\ it' = NoSlot /\ todo' = todo
  BY DEF clear
<1>3. GoodTable(hash, EmptyTable(t.size)) /\ Used(EmptyTable(t.size)) = {}
  BY <1>1, EmptyIsGood
<1>4. HashTableInductive'
  BY <1>2, <1>3, FS_EmptySet DEF HashTableInductive, IterationSkipsNothing
<1>5. Map!Clear
  BY <1>1, <1>2, EmptyEntries DEF Map!Clear
<1> QED BY <1>4, <1>5

(* begin and step: what is to visit is from the next used slot on.           *)
LEMMA BeginIsNothing ==
  ASSUME HashTableInductive, begin
  PROVE  HashTableInductive' /\ UNCHANGED Entries(t)
<1>1. it' = NextUsed(t, 0) /\ todo' = KeysOf(t) /\ hash' = hash /\ t' = t /\ length' = length
  BY DEF begin
<1>2. NextUsed(t, 0) \in Used(t) \cup {t.size}
  BY NextUsedIs DEF HashTableInductive, GoodTable
<1>3. \A x \in Used(t) : x >= NextUsed(t, 0)
  BY NextUsedIs, SlotsAreNumbers DEF HashTableInductive, GoodTable, Used
<1> QED BY <1>1, <1>2, <1>3 DEF HashTableInductive, IterationSkipsNothing, KeysOf

LEMMA StepIsNothing ==
  ASSUME HashTableInductive, step
  PROVE  HashTableInductive' /\ UNCHANGED Entries(t)
<1>1. /\ it # NoSlot /\ it < t.size /\ it' = NextUsed(t, it + 1)
      /\ todo' = todo \ {t.key[it]} /\ hash' = hash /\ t' = t /\ length' = length
  BY DEF step
<1>2. NextUsed(t, it + 1) \in Used(t) \cup {t.size}
  BY NextUsedIs DEF HashTableInductive, GoodTable
<1>3. it \in Nat /\ \A x \in Used(t) : x \in Nat
  BY <1>1, SlotsAreNumbers DEF HashTableInductive, GoodTable, IsTable, Used
<1>4. \A x \in Used(t) : x >= it + 1 => x >= NextUsed(t, it + 1)
  BY NextUsedIs DEF HashTableInductive, GoodTable
<1>5. \A x \in Used(t) : x >= it /\ x # it => x >= NextUsed(t, it + 1)
  BY <1>3, <1>4
<1> QED BY <1>1, <1>2, <1>5 DEF HashTableInductive, IterationSkipsNothing

(* erase through an iterator: an entry that moves into its slot is in front  *)
(* of it still, as the iterator goes to the first used slot from there.      *)
LEMMA EraseIteratorIsRemove ==
  ASSUME HashTableInductive, erase_iterator
  PROVE  HashTableInductive' /\ \E k \in Key : Map!Remove(k)
<1> DEFINE k == t.key[it]
           e == Erase(hash, t, k)
<1>1. /\ it # NoSlot /\ it < t.size /\ t' = e /\ length' = length - 1
      /\ it' = NextUsed(e, it) /\ todo' = todo \ {k} /\ hash' = hash
  BY DEF erase_iterator, SlotAfterErased
<1>2. it \in Used(t) /\ it \in Nat /\ k \in Key /\ k \in KeysOf(t)
  BY <1>1, UsedSlots, SlotsAreNumbers
  DEF HashTableInductive, GoodTable, IsTable, Used, KeysOf
<1>3. /\ GoodTable(hash, e) /\ Cardinality(Used(e)) = length - 1
      /\ Entries(e) = WithoutEntry(t, k)
  BY <1>2, ErasedIs DEF HashTableInductive
<1>4. IsRemoved(hash, t, it, e)
  BY <1>2, EraseIs DEF HashTableInductive
<1> HIDE DEF e
<1>5. NextUsed(e, it) \in Used(e) \cup {e.size}
  BY <1>3, NextUsedIs DEF GoodTable
<1>6. \A x \in Used(e) : x >= it => x >= NextUsed(e, it)
  BY <1>3, NextUsedIs DEF GoodTable
<1>7. \A q \in todo \ {k} : \E z \in Used(e) : e.key[z] = q /\ z >= NextUsed(e, it)
  <2> TAKE q \in todo \ {k}
  <2>1. PICK y \in Used(t) : t.key[y] = q /\ y >= it
    BY <1>1 DEF HashTableInductive, IterationSkipsNothing
  <2>2. PICK z \in Used(e) : e.key[z] = t.key[y] /\ (z = y \/ z = it)
    BY <1>4, <2>1 DEF IsRemoved
  <2>3. z >= it
    BY <1>2, <2>1, <2>2
  <2> QED BY <1>6, <2>1, <2>2, <2>3
<1>8. HashTableInductive'
  BY <1>1, <1>3, <1>5, <1>7 DEF HashTableInductive, IterationSkipsNothing
<1>9. DOMAIN Entries(t) = KeysOf(t)
  BY EntriesAre DEF HashTableInductive
<1>10. Map!Remove(k)
  BY <1>1, <1>3, <1>9 DEF Map!Remove, WithoutEntry
<1> QED BY <1>2, <1>8, <1>10

-------------------------------------------------------------------------------
LEMMA HashTableInit == Init => HashTableInductive /\ Map!Init
<1> SUFFICES ASSUME Init PROVE HashTableInductive /\ Map!Init
  OBVIOUS
<1>1. HashesKeys(hash)
  BY HashTableAssumption DEF Init, HashesKeys
<1>2. t = EmptyTable(0) /\ length = 0 /\ it = NoSlot
  BY DEF Init
<1>3. GoodTable(hash, t) /\ Used(t) = {}
  BY <1>2, EmptyIsGood
<1>4. Entries(t) = Map!Empty
  BY <1>2, EmptyEntries
<1> QED
  BY <1>1, <1>2, <1>3, <1>4, FS_EmptySet
  DEF HashTableInductive, IterationSkipsNothing, Map!Init

LEMMA HashTableStep ==
  HashTableInductive /\ [Next]_vars => HashTableInductive' /\ [Map!Next]_(Entries(t))
<1> SUFFICES ASSUME HashTableInductive, [Next]_vars
             PROVE  HashTableInductive' /\ [Map!Next]_(Entries(t))
  OBVIOUS
<1>1. ASSUME NEW k \in Key, erase(k) PROVE HashTableInductive' /\ Map!Next
  BY <1>1, EraseIsRemove DEF Map!Next
<1>2. ASSUME NEW k \in Key, NEW v \in Val, insert_or_assign(k, v)
      PROVE  HashTableInductive' /\ Map!Next
  BY <1>2, InsertIsAssign DEF Map!Next
<1>3. CASE clear
  BY <1>3, ClearIsClear DEF Map!Next
<1>4. CASE begin
  BY <1>4, BeginIsNothing
<1>5. CASE step
  BY <1>5, StepIsNothing
<1>6. CASE erase_iterator
  BY <1>6, EraseIteratorIsRemove DEF Map!Next
<1>7. CASE end
  BY <1>7 DEF end, HashTableInductive, IterationSkipsNothing
<1>8. CASE UNCHANGED vars
  BY <1>8 DEF vars, HashTableInductive, IterationSkipsNothing
<1> QED BY <1>1, <1>2, <1>3, <1>4, <1>5, <1>6, <1>7, <1>8 DEF Next

(* The inductive invariant holds: it says what every table looks like.       *)
THEOREM HashTableInvariant == Spec => []HashTableInductive
<1>1. Init => HashTableInductive
  BY HashTableInit
<1>2. HashTableInductive /\ [Next]_vars => HashTableInductive'
  BY HashTableStep
<1> QED BY <1>1, <1>2, PTL DEF Spec

(* A lookup finds a key exactly if the table has it; the lists are the       *)
(* buckets of their main slots and share no slot (hash_table.h).             *)
THEOREM HashTableLookupFinds == Spec => []LookupFinds
<1>1. HashTableInductive => LookupFinds
  BY ContainsIs, GoodTableLists
  DEF HashTableInductive, LookupFinds, GoodTable, KeysAreDistinct
<1> QED BY <1>1, HashTableInvariant, PTL

(* There is a free slot whenever insert_key looks for one.                   *)
THEOREM HashTableHasRoom == Spec => []RoomToInsert
<1>1. HashTableInductive => RoomToInsert
  BY UsedAreFinite, NotFullHasRoom
  DEF HashTableInductive, RoomToInsert, GoodTable, IsTable
<1> QED BY <1>1, HashTableInvariant, PTL

(* An iteration that erases visits every entry (safepoint_start_sweep).      *)
THEOREM IterationsSkipNothing == Spec => []IterationSkipsNothing
<1>1. HashTableInductive => IterationSkipsNothing
  BY DEF HashTableInductive
<1> QED BY <1>1, HashTableInvariant, PTL

(* Whatever the hash function, evictions, growth and erasure keep the        *)
(* entries: each operation of the table is that of a map.                    *)
THEOREM HashTablesAreMaps == Spec => ImplementsMap
<1>1. Init => Map!Init
  BY HashTableInit
<1>2. HashTableInductive /\ [Next]_vars => [Map!Next]_(Entries(t))
  BY HashTableStep
<1> QED BY <1>1, <1>2, HashTableInvariant, PTL DEF Spec, ImplementsMap, Map!Spec
================================================================================
