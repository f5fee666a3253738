--------------------------- MODULE TableObjectProofs ---------------------------
(*****************************************************************************)
(* Table objects of any size: a loop over a table whose keys stay visits     *)
(* each of them once, and a table implements a map.                          *)
(*****************************************************************************)
EXTENDS TableObject, ScatterTableProofs

TableObjectInductive ==
  /\ HashesKeys(hash)
  /\ GoodTable(hash, kvslots)
  /\ length = Cardinality(Used(kvslots))
  /\ i # NoSlot /\ ~ disturbed => i \in Used(kvslots) \cup {kvslots.size}
  /\ LoopVisitsEachOnce

-------------------------------------------------------------------------------
(* table_new: the capacity is rounded up to a power of two, which there is.  *)

IsPower(x, power) ==
  power = [e \in 0 .. x |-> IF e = 0 THEN 1 ELSE 2 * power[e - 1]]

LEMMA PowerExists ==
  ASSUME NEW x \in Nat
  PROVE  \E power : IsPower(x, power)
<1> DEFINE F == [e \in 1 .. x |-> [p \in Nat |-> 2 * p]]
<1>1. F \in [1 .. x -> [Nat -> Nat]] /\ 1 \in Nat
  OBVIOUS
<1>2. PICK f \in [0 .. x -> Nat] : IsSequence(f, x, 1, F)
  <2> HIDE DEF F
  <2> QED BY <1>1, SequenceExists
<1> DEFINE next(e) == IF e = 0 THEN 1 ELSE 2 * f[e - 1]
<1>3. ASSUME NEW e \in 0 .. x PROVE f[e] = next(e)
  <2>1. CASE e = 0
    BY <1>2, <2>1 DEF IsSequence
  <2>2. CASE e # 0
    <3>1. e \in 1 .. x /\ e - 1 \in 0 .. x
      BY <2>2
    <3>2. f[e - 1] \in Nat /\ f[e] = F[e][f[e - 1]]
      BY <1>2, <3>1 DEF IsSequence
    <3> QED BY <2>2, <3>1, <3>2
  <2> QED BY <2>1, <2>2
<1>4. f = [e \in 0 .. x |-> f[e]]
  OBVIOUS
<1>5. f = [e \in 0 .. x |-> next(e)]
  <2> HIDE DEF next
  <2> QED BY <1>3, <1>4
<1> QED BY <1>5 DEF IsPower

LEMMA CeilPow2Is ==
  ASSUME NEW x \in Nat
  PROVE  ceilpow2(x) \in Nat /\ ceilpow2(x) >= x
<1> DEFINE power == CHOOSE f : IsPower(x, f)
           least == {n \in {power[e] : e \in 0 .. x} : n >= x}
<1>1. IsPower(x, power)
  BY PowerExists
<1>2. ceilpow2(x) = Min(least)
  BY DEF ceilpow2, IsPower
<1> HIDE DEF power
<1>3. \A e \in 0 .. x : power[e] = IF e = 0 THEN 1 ELSE 2 * power[e - 1]
  <2> DEFINE next(e) == IF e = 0 THEN 1 ELSE 2 * power[e - 1]
  <2>1. power = [e \in 0 .. x |-> next(e)]
    BY <1>1 DEF IsPower
  <2>2. \A e \in 0 .. x : power[e] = next(e)
    <3> HIDE DEF next
    <3> QED BY <2>1
  <2> QED BY <2>2
<1> DEFINE Q == {e \in 0 .. x : power[e] \in Nat /\ power[e] >= e + 1}
<1>4. \A e \in 0 .. x : e \in Q
  <2>1. 0 \in Q
    BY <1>3
  <2>2. ASSUME NEW e \in 0 .. x - 1, e \in Q PROVE e + 1 \in Q
    <3>1. e \in 0 .. x /\ e + 1 \in 0 .. x /\ e + 1 # 0 /\ (e + 1) - 1 = e
      OBVIOUS
    <3>2. power[e + 1] = 2 * power[e]
      BY <1>3, <3>1
    <3> QED BY <2>2, <3>1, <3>2
  <2> HIDE DEF Q
  <2> QED BY <2>1, <2>2, UpTo
<1>5. least \in SUBSET Nat /\ power[x] \in least
  BY <1>4
<1>6. Min(least) \in least
  <2> HIDE DEF least
  <2> QED BY <1>5, LeastIs
<1> QED BY <1>2, <1>5, <1>6

LEMMA TableNewIsEmpty ==
  ASSUME NEW capacity \in Capacities
  PROVE  \E n \in Nat : table_new(capacity) = EmptyTable(n)
<1> DEFINE least == capacity + capacity \div 4
           x == IF least > MinSize THEN least ELSE MinSize
<1>1. capacity \in Nat /\ MinSize \in Nat /\ MinSize > 1
  BY ScatterTableAssumption, TableObjectAssumption
<1>2. x \in Nat /\ x > 1
  BY <1>1
<1>3. table_new(capacity) = EmptyTable(IF capacity = 0 THEN 0 ELSE ceilpow2(x) - 1)
  BY DEF table_new
<1> HIDE DEF x
<1>4. ceilpow2(x) - 1 \in Nat
  BY <1>2, CeilPow2Is
<1> QED BY <1>3, <1>4

LEMMA EmptyEntries ==
  ASSUME NEW n \in Nat
  PROVE  Entries(EmptyTable(n)) = Map!Empty
<1>1. KeysOf(EmptyTable(n)) = {}
  BY EmptyIsGood DEF KeysOf
<1> QED BY <1>1 DEF Entries, Map!Empty

LEMMA TableObjectInit == Init => TableObjectInductive /\ Map!Init
<1> SUFFICES ASSUME Init PROVE TableObjectInductive /\ Map!Init
  OBVIOUS
<1>1. HashesKeys(hash)
  BY TableObjectAssumption DEF Init, HashesKeys
<1>2. PICK n \in Nat : kvslots = EmptyTable(n)
  BY TableNewIsEmpty DEF Init
<1>3. GoodTable(hash, kvslots) /\ Used(kvslots) = {}
  BY <1>2, EmptyIsGood
<1>4. Entries(kvslots) = Map!Empty
  BY <1>2, EmptyEntries
<1>5. length = 0 /\ i = NoSlot
  BY DEF Init
<1> QED
  BY <1>1, <1>3, <1>4, <1>5, FS_EmptySet
  DEF TableObjectInductive, LoopVisitsEachOnce, Map!Init

-------------------------------------------------------------------------------
LEMMA KeyValueIsKey ==
  ASSUME NEW k \in Key \cup {NegZero}
  PROVE  key_value(k) \in Key
BY TableObjectAssumption DEF key_value

(* table_setindex: new values leave every slot its key.                      *)
LEMMA SetIndexIsAssign ==
  ASSUME TableObjectInductive, NEW argument \in Key \cup {NegZero}, NEW v \in Val,
         table_setindex(argument, v)
  PROVE  TableObjectInductive' /\ Map!Next
<1> DEFINE k == key_value(argument)
           a == Assigned(hash, kvslots, length, k, v)
<1>1. k \in Key
  BY KeyValueIsKey
<1> HIDE DEF k
<1>2. /\ kvslots' = a /\ hash' = hash /\ i' = i /\ todo' = todo
      /\ disturbed' = (disturbed \/ KeysOf(a) # KeysOf(kvslots))
      /\ length' = IF k \in KeysOf(kvslots) THEN length ELSE length + 1
  BY <1>1, LookupIs DEF TableObjectInductive, table_setindex, Disturb, k
<1>3. /\ GoodTable(hash, a)
      /\ Cardinality(Used(a)) = IF k \in KeysOf(kvslots) THEN length ELSE length + 1
      /\ HoldsAlso(kvslots, k, v, a)
      /\ k \in KeysOf(kvslots) =>
           a.size = kvslots.size /\ Used(a) = Used(kvslots) /\ a.key = kvslots.key
  BY <1>1, AssignedIs DEF TableObjectInductive
<1> HIDE DEF a
<1>4. KeysOf(a) = KeysOf(kvslots) \cup {k} /\ Entries(a) = WithEntry(kvslots, k, v)
  BY <1>3, EntriesAfterAssigned DEF TableObjectInductive
<1>5. TableObjectInductive'
  <2>1. CASE k \in KeysOf(kvslots)
    BY <1>2, <1>3, <1>4, <2>1 DEF TableObjectInductive, LoopVisitsEachOnce
  <2>2. CASE k \notin KeysOf(kvslots)
    <3>1. disturbed'
      BY <1>2, <1>4, <2>2
    <3> QED BY <1>2, <1>3, <2>2, <3>1 DEF TableObjectInductive, LoopVisitsEachOnce
  <2> QED BY <2>1, <2>2
<1>6. DOMAIN Entries(kvslots) = KeysOf(kvslots)
  BY EntriesAre DEF TableObjectInductive
<1>7. Map!Assign(k, v)
  BY <1>2, <1>4, <1>6 DEF Map!Assign, WithEntry
<1> QED BY <1>1, <1>5, <1>7 DEF Map!Next

(* table_delindex *)
LEMMA DelIndexIsRemove ==
  ASSUME TableObjectInductive, NEW argument \in Key \cup {NegZero},
         table_delindex(argument)
  PROVE  TableObjectInductive' /\ Map!Next
<1> DEFINE k == key_value(argument)
           e == Erase(hash, kvslots, k)
<1>1. k \in Key
  BY KeyValueIsKey
<1> HIDE DEF k
<1>2. /\ kvslots' = e /\ hash' = hash /\ i' = i /\ todo' = todo
      /\ disturbed' = (disturbed \/ KeysOf(e) # KeysOf(kvslots))
      /\ length' = IF k \in KeysOf(kvslots) THEN length - 1 ELSE length
  BY <1>1, LookupIs DEF TableObjectInductive, table_delindex, Disturb, k
<1>3. /\ GoodTable(hash, e)
      /\ Cardinality(Used(e)) = IF k \in KeysOf(kvslots) THEN length - 1 ELSE length
      /\ KeysOf(e) = KeysOf(kvslots) \ {k}
      /\ Entries(e) = WithoutEntry(kvslots, k)
  BY <1>1, ErasedIs DEF TableObjectInductive
<1>4. k \notin KeysOf(kvslots) => e = kvslots
  BY <1>1, EraseIs DEF TableObjectInductive
<1> HIDE DEF e
<1>5. TableObjectInductive'
  <2>1. CASE k \notin KeysOf(kvslots)
    BY <1>2, <1>3, <1>4, <2>1 DEF TableObjectInductive, LoopVisitsEachOnce
  <2>2. CASE k \in KeysOf(kvslots)
    <3>1. disturbed'
      BY <1>2, <1>3, <2>2
    <3> QED BY <1>2, <1>3, <2>2, <3>1 DEF TableObjectInductive, LoopVisitsEachOnce
  <2> QED BY <2>1, <2>2
<1>6. DOMAIN Entries(kvslots) = KeysOf(kvslots)
  BY EntriesAre DEF TableObjectInductive
<1>7. Map!Remove(k)
  BY <1>2, <1>3, <1>6 DEF Map!Remove, WithoutEntry
<1> QED BY <1>1, <1>5, <1>7 DEF Map!Next

LEMMA TableClearIsClear ==
  ASSUME TableObjectInductive, table_clear
  PROVE  TableObjectInductive' /\ Map!Next
<1>1. kvslots.size \in Nat /\ IsTable(kvslots)
  BY DEF TableObjectInductive, GoodTable, IsTable
<1> DEFINE e == EmptyTable(kvslots.size)
<1>2. /\ kvslots' = e /\ length' = 0 /\ hash' = hash /\ i' = i /\ todo' = todo
      /\ disturbed' = (disturbed \/ KeysOf(e) # KeysOf(kvslots))
  BY DEF table_clear, Disturb
<1>3. GoodTable(hash, e) /\ Used(e) = {} /\ KeysOf(e) = {} /\ e.size = kvslots.size
  BY <1>1, EmptyIsGood DEF KeysOf
<1>4. Entries(e) = Map!Empty
  BY <1>1, EmptyEntries
<1> HIDE DEF e
<1>5. ~ disturbed' => Used(kvslots) = {}
  BY <1>2, <1>3 DEF KeysOf
<1>6. TableObjectInductive'
  BY <1>2, <1>3, <1>5, FS_EmptySet DEF TableObjectInductive, LoopVisitsEachOnce
<1> QED BY <1>2, <1>4, <1>6 DEF Map!Next, Map!Clear

(* OP_GENERATE, and OP_FOR_EACH: what is to visit is from the next used slot *)
(* on.                                                                       *)
LEMMA IterateIsNothing ==
  ASSUME TableObjectInductive, table_iterate
  PROVE  TableObjectInductive' /\ UNCHANGED Entries(kvslots)
<1>1. /\ i' = NextUsed(kvslots, 0) /\ todo' = KeysOf(kvslots)
      /\ hash' = hash /\ kvslots' = kvslots /\ length' = length
  BY DEF table_iterate
<1>2. NextUsed(kvslots, 0) \in Used(kvslots) \cup {kvslots.size}
  BY NextUsedIs DEF TableObjectInductive, GoodTable
<1>3. \A x \in Used(kvslots) : x >= NextUsed(kvslots, 0)
  BY NextUsedIs, SlotsAreNumbers DEF TableObjectInductive, GoodTable, Used
<1> QED BY <1>1, <1>2, <1>3 DEF TableObjectInductive, LoopVisitsEachOnce, KeysOf

LEMMA NextIsNothing ==
  ASSUME TableObjectInductive, table_next
  PROVE  TableObjectInductive' /\ UNCHANGED Entries(kvslots)
<1>1. /\ i # NoSlot /\ hash' = hash /\ kvslots' = kvslots /\ length' = length
      /\ disturbed' = disturbed
      /\ IF i < kvslots.size
         THEN todo' = todo \ {kvslots.key[i]} /\ i' = NextUsed(kvslots, i + 1)
         ELSE i' = NoSlot
  BY DEF table_next, NextIndex
<1>2. SUFFICES ASSUME i < kvslots.size, ~ disturbed
               PROVE  /\ i' \in Used(kvslots) \cup {kvslots.size}
                      /\ todo' = {kvslots.key[s] : s \in {x \in Used(kvslots) : x >= i'}}
  BY <1>1 DEF TableObjectInductive, LoopVisitsEachOnce
<1>3. /\ i' = NextUsed(kvslots, i + 1) /\ todo' = todo \ {kvslots.key[i]}
      /\ todo = {kvslots.key[s] : s \in {x \in Used(kvslots) : x >= i}}
  BY <1>1, <1>2 DEF TableObjectInductive, LoopVisitsEachOnce
<1>4. NextUsed(kvslots, i + 1) \in Used(kvslots) \cup {kvslots.size}
  BY NextUsedIs DEF TableObjectInductive, GoodTable
<1>5. /\ kvslots.size \in Nat /\ i \in Used(kvslots)
      /\ \A x \in Used(kvslots) : x \in Nat /\ x < kvslots.size
  BY <1>1, <1>2, SlotsAreNumbers DEF TableObjectInductive, GoodTable, IsTable, Used
<1>6. \A x \in Used(kvslots) : x >= i /\ x # i <=> x >= NextUsed(kvslots, i + 1)
  <2> TAKE x \in Used(kvslots)
  <2>1. x >= i + 1 => x >= NextUsed(kvslots, i + 1)
    BY NextUsedIs DEF TableObjectInductive, GoodTable
  <2>2. NextUsed(kvslots, i + 1) \in Used(kvslots) => NextUsed(kvslots, i + 1) >= i + 1
    BY NextUsedIs DEF TableObjectInductive, GoodTable
  <2> QED BY <1>4, <1>5, <2>1, <2>2
<1>7. \A x \in Used(kvslots) : kvslots.key[x] = kvslots.key[i] => x = i
  BY <1>5 DEF TableObjectInductive, GoodTable, KeysAreDistinct
<1>8. todo \ {kvslots.key[i]} =
        {kvslots.key[s] : s \in {x \in Used(kvslots) : x >= NextUsed(kvslots, i + 1)}}
  BY <1>3, <1>5, <1>6, <1>7
<1> QED BY <1>3, <1>4, <1>8

LEMMA TableObjectStep ==
  TableObjectInductive /\ [Next]_vars
    => TableObjectInductive' /\ [Map!Next]_(Entries(kvslots))
<1> SUFFICES ASSUME TableObjectInductive, [Next]_vars
             PROVE  TableObjectInductive' /\ [Map!Next]_(Entries(kvslots))
  OBVIOUS
<1>1. ASSUME NEW k \in Key \cup {NegZero}, table_delindex(k)
      PROVE  TableObjectInductive' /\ Map!Next
  BY <1>1, DelIndexIsRemove
<1>2. ASSUME NEW k \in Key \cup {NegZero}, NEW v \in Val, table_setindex(k, v)
      PROVE  TableObjectInductive' /\ Map!Next
  BY <1>2, SetIndexIsAssign
<1>3. CASE table_clear
  BY <1>3, TableClearIsClear
<1>4. CASE table_iterate
  BY <1>4, IterateIsNothing
<1>5. CASE table_next
  BY <1>5, NextIsNothing
<1>6. CASE leave \/ read_null
  BY <1>6 DEF leave, read_null, TableObjectInductive, LoopVisitsEachOnce
<1>7. CASE UNCHANGED vars
  BY <1>7 DEF vars, TableObjectInductive, LoopVisitsEachOnce
<1> QED BY <1>1, <1>2, <1>3, <1>4, <1>5, <1>6, <1>7 DEF Next

-------------------------------------------------------------------------------
(* The inductive invariant holds: it says what every table looks like.       *)
THEOREM TableObjectInvariant == Spec => []TableObjectInductive
<1>1. Init => TableObjectInductive
  BY TableObjectInit
<1>2. TableObjectInductive /\ [Next]_vars => TableObjectInductive'
  BY TableObjectStep
<1> QED BY <1>1, <1>2, PTL DEF Spec

(* A loop whose body leaves the keys as they are visits each key once, also  *)
(* when it assigns new values (table_iterate and table_next).                *)
THEOREM LoopsVisitEachOnce == Spec => []LoopVisitsEachOnce
<1>1. TableObjectInductive => LoopVisitsEachOnce
  BY DEF TableObjectInductive
<1> QED BY <1>1, TableObjectInvariant, PTL

(* Each operation that a script has on a table is that of a map, whatever    *)
(* the hash function and the capacity that the table is made with.           *)
THEOREM TableObjectsAreMaps == Spec => ImplementsMap
<1>1. Init => Map!Init
  BY TableObjectInit
<1>2. TableObjectInductive /\ [Next]_vars => [Map!Next]_(Entries(kvslots))
  BY TableObjectStep
<1> QED BY <1>1, <1>2, TableObjectInvariant, PTL DEF Spec, ImplementsMap, Map!Spec
================================================================================
