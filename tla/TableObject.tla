------------------------------ MODULE TableObject ------------------------------
(*****************************************************************************)
(* Table objects (objects/table_object.cpp): a scatter table that a script   *)
(* assigns, deletes from, clears, and iterates over by slot index.  The body *)
(* of the loop runs between two calls of table_next, and may do to the table *)
(* what it likes.  Until the table has a capacity its kvslots is null (here: *)
(* a table of no slots), and a lookup or a loop reads through it.            *)
(*                                                                           *)
(* Strings are keys by their text, so a key is its text here.                *)
(*****************************************************************************)
EXTENDS ScatterTable

CONSTANTS
  HashValue,       \* the hashes that keys can have
  Capacities,      \* the capacities that tables are made with
  Zero, NegZero    \* the keys 0.0, and -0.0, which is stored as 0.0

ASSUME TableObjectAssumption ==
  /\ Zero \in Key /\ NegZero \notin Key
  /\ Capacities \subseteq Nat /\ HashValue \subseteq Nat

VARIABLES
  hash,      \* std::hash
  kvslots,   \* table->kvslots
  length,    \* table->length
  i,         \* the index that OP_GENERATE and OP_FOR_EACH keep, or NoSlot
  fresh,     \* OP_GENERATE has run, the OP_FOR_EACH that follows it has not
  todo,      \* keys that the loop has still to visit (history)
  disturbed, \* a key came or went since the loop began (history)
  crashed    \* the program read through null, and is gone

vars == <<hash, kvslots, length, i, fresh, todo, disturbed, crashed>>

key_value(k) == IF k = NegZero THEN Zero ELSE k

(* Its shift of a 32-bit 1 is by more than 31 bits; x86 takes it modulo 32.  *)
ceilpow2(x) ==
  LET power[e \in 0 .. x] == IF e = 0 THEN 1 ELSE 2 * power[e - 1]
  IN  Min({n \in {power[e] : e \in 0 .. x} : n >= x})

table_new(capacity) ==
  LET least == capacity + capacity \div 4
  IN  EmptyTable(IF capacity = 0 THEN 0
                 ELSE ceilpow2(IF least > MinSize THEN least ELSE MinSize) - 1)

Init ==
  /\ hash \in [Key \cup {NegZero} -> HashValue]
  /\ \E capacity \in Capacities : kvslots = table_new(capacity)
  /\ length = 0
  /\ i = NoSlot /\ fresh = FALSE /\ todo = {} /\ disturbed = FALSE
  /\ crashed = FALSE

(* A step that leaves the keys as they are does not disturb a loop. *)
Disturb == disturbed' = (disturbed \/ KeysOf(kvslots') # KeysOf(kvslots))

table_setindex(argument, v) ==
  LET k == key_value(argument)
  IN
  /\ ~fresh /\ ~crashed
  /\ kvslots' = Assigned(hash, kvslots, length, k, v)
  /\ length' = IF Lookup(hash, kvslots, k) = NoSlot THEN length + 1 ELSE length
  /\ Disturb
  /\ UNCHANGED <<hash, i, fresh, todo, crashed>>

table_delindex(argument) ==
  LET k == key_value(argument)
  IN
  /\ ~fresh /\ ~crashed
  /\ kvslots.size > 0 /\ length > 0
  /\ kvslots' = Erase(hash, kvslots, k)
  /\ length' = IF Lookup(hash, kvslots, k) = NoSlot THEN length ELSE length - 1
  /\ Disturb
  /\ UNCHANGED <<hash, i, fresh, todo, crashed>>

table_clear ==
  /\ ~fresh /\ ~crashed /\ kvslots.size > 0
  /\ kvslots' = EmptyTable(kvslots.size) /\ length' = 0
  /\ Disturb
  /\ UNCHANGED <<hash, i, fresh, todo, crashed>>

-------------------------------------------------------------------------------
(* OP_GENERATE, of a table that has slots. *)
table_iterate ==
  /\ ~fresh /\ ~crashed /\ kvslots.size > 0
  /\ i' = NextUsed(kvslots, 0) /\ fresh' = TRUE
  /\ todo' = KeysOf(kvslots) /\ disturbed' = FALSE
  /\ UNCHANGED <<hash, kvslots, length, crashed>>

(* Of a table that has no kvslots, table_tryindex and table_iterate read     *)
(* through null.  A lookup of any other changes nothing.                     *)
read_null ==
  /\ ~fresh /\ ~crashed /\ kvslots.size = 0
  /\ crashed' = TRUE
  /\ UNCHANGED <<hash, kvslots, length, i, fresh, todo, disturbed>>

NextIndexFromHere == NextUsed(kvslots, i)

NextIndex == NextUsed(kvslots, i + 1)

(* OP_FOR_EACH: the entry at the index, which an assertion says is there. *)
table_next ==
  /\ i # NoSlot /\ ~crashed
  /\ fresh' = FALSE
  /\ IF i < kvslots.size
     THEN /\ todo' = todo \ {kvslots.key[i]}
          /\ i' = NextIndex
     ELSE i' = NoSlot /\ todo' = {}
  /\ UNCHANGED <<hash, kvslots, length, disturbed, crashed>>

(* The loop is left. *)
leave ==
  /\ i # NoSlot /\ ~fresh /\ ~crashed
  /\ i' = NoSlot /\ todo' = {}
  /\ UNCHANGED <<hash, kvslots, length, fresh, disturbed, crashed>>

-------------------------------------------------------------------------------
Next ==
  \/ \E k \in Key \cup {NegZero} :
       table_delindex(k) \/ \E v \in Val : table_setindex(k, v)
  \/ table_clear
  \/ table_iterate \/ read_null \/ table_next \/ leave

Spec == Init /\ [][Next]_vars

-------------------------------------------------------------------------------
(* A table is a map: table_setindex, table_delindex and table_clear change   *)
(* what they say, no eviction and no growth loses or doubles an entry.       *)
Map == INSTANCE Dictionary WITH dict <- Entries(kvslots)
ImplementsMap == Map!Spec

(* A loop over a table whose keys stay what they are visits every key once,  *)
(* although the body assigns new values (table_iterate, table_next).  Nothing *)
(* is said of a loop whose body adds or deletes keys: it may meet a slot that *)
(* has become empty, which table_next asserts it does not.                   *)
LoopVisitsEachOnce ==
  i # NoSlot /\ ~disturbed =>
    todo = {kvslots.key[s] : s \in {x \in Used(kvslots) : x >= i}}
================================================================================
