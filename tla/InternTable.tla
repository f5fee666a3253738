------------------------------ MODULE InternTable ------------------------------
(*****************************************************************************)
(* The table of keys (vm->keys) and the collector: strings interned by       *)
(* string_key (runtime/objects/string_object.{h,cpp}) are compared by        *)
(* address, and the table does not keep them alive.  safepoint_start_sweep   *)
(* (runtime/collector.cpp) takes the dead ones out of it.  The tables of     *)
(* layouts and of u64vals are used and purged the same way.                  *)
(*                                                                           *)
(* `held' is what the program can reach.  What Collector shows of marking is *)
(* one step for each string here: a string that was held when marking began  *)
(* is marked before the sweep.  A reference to a string that was freed is    *)
(* followed no further: what the program would do with it is undefined.      *)
(*****************************************************************************)
EXTENDS Integers, FiniteSets

CONSTANTS
  Addr,  \* heap chunks that hold strings
  Text,  \* the contents of strings
  None   \* no string

ASSUME InternAssumption == None \notin Addr \cup Text

VARIABLES
  text,      \* content of each chunk, None when it is free
  is_key,    \* strings with FLAG_KEY in their header
  color,     \* the colour in the header
  keys,      \* vm->keys: content to string
  held,      \* strings the program can reach
  phase, black_color, white_color,
  due,       \* strings held when marking began that are not marked yet
  found      \* history: strings that marking does not come to, which a lookup
             \* gave the program while marking ran and the sweep has not freed

vars == <<text, is_key, color, keys, held, phase, black_color, white_color, due,
          found>>
gcVars == <<phase, black_color, white_color>>

allocated == {a \in Addr : text[a] # None}

Init ==
  /\ text = [a \in Addr |-> None] /\ is_key = {}
  /\ color = [a \in Addr |-> "ORANGE"]
  /\ keys = [t \in Text |-> None] /\ held = {}
  /\ phase = "NONE" /\ black_color = "PURPLE" /\ white_color = "ORANGE"
  /\ due = {} /\ found = {}

-------------------------------------------------------------------------------
(* The program. *)

(* Memory of a chunk that is free, given to a black string. *)
NewString(a, t) ==
  /\ a \notin allocated
  /\ text' = [text EXCEPT ![a] = t]
  /\ color' = [color EXCEPT ![a] = black_color]
  /\ held' = held \cup {a}

string_new(a, t) ==
  /\ NewString(a, t)
  /\ UNCHANGED <<is_key, keys, due, found, gcVars>>

(* FindNothing and KeysUntouched are what the mutants put in the place of    *)
(* the definition that follows; no specification uses them.                  *)
FindNothing(t) == None

FindKey(t) == keys[t]

(* The string the table has is handed out whatever its colour: nothing marks *)
(* one that is white, and the sweep may free it.                             *)
HandOut(a) ==
  /\ held' = held \cup {a}
  /\ found' = IF phase = "MARK" /\ color[a] = white_color /\ a \notin due
              THEN found \cup {a} ELSE found

(* string_key of a text: the string in the table, or a new one. *)
string_key(t) ==
  \/ /\ FindKey(t) # None
     /\ HandOut(FindKey(t))
     /\ UNCHANGED <<text, is_key, color, keys, due, gcVars>>
  \/ /\ FindKey(t) = None
     /\ \E a \in Addr :
          /\ NewString(a, t)
          /\ keys' = [keys EXCEPT ![t] = a] /\ is_key' = is_key \cup {a}
     /\ UNCHANGED <<due, found, gcVars>>

(* string_key of a string: itself when it is a key, the string the table has *)
(* for its text, or itself, which becomes a key.                             *)
string_key_internal(a) ==
  /\ a \in (held \cap allocated) \ is_key
  /\ IF FindKey(text[a]) # None
     THEN HandOut(FindKey(text[a])) /\ UNCHANGED <<keys, is_key>>
     ELSE /\ keys' = [keys EXCEPT ![text[a]] = a]
          /\ is_key' = is_key \cup {a} /\ UNCHANGED <<held, found>>
  /\ UNCHANGED <<text, color, due, gcVars>>

(* The last reference to a string is overwritten. *)
drop(a) ==
  /\ a \in held
  /\ held' = held \ {a}
  /\ UNCHANGED <<text, is_key, color, keys, due, found, gcVars>>

-------------------------------------------------------------------------------
(* The collector. *)

safepoint_start_mark ==
  /\ phase = "NONE"
  /\ phase' = "MARK"
  /\ white_color' = black_color /\ black_color' = white_color
  /\ due' = held \cap allocated
  /\ UNCHANGED <<text, is_key, color, keys, held, found>>

gc_mark_string_ref(a) ==
  /\ phase = "MARK" /\ a \in due
  /\ color' = [color EXCEPT ![a] = black_color]
  /\ due' = due \ {a}
  /\ UNCHANGED <<text, is_key, keys, held, found, gcVars>>

IsDead(a) == a # None /\ color[a] = white_color

KeysUntouched == keys

KeysAlive == [t \in Text |-> IF IsDead(keys[t]) THEN None ELSE keys[t]]

safepoint_start_sweep ==
  /\ phase = "MARK" /\ due = {}
  /\ phase' = "SWEEP"
  /\ keys' = KeysAlive
  /\ UNCHANGED <<text, is_key, color, held, due, found, black_color, white_color>>

(* The chunk of a dead string is free, and its header is written over. *)
gc_sweep(a) ==
  /\ phase = "SWEEP" /\ a \in allocated /\ IsDead(a)
  /\ text' = [text EXCEPT ![a] = None] /\ is_key' = is_key \ {a}
  /\ found' = found \ {a}
  /\ UNCHANGED <<color, keys, held, due, gcVars>>

safepoint_new_epoch ==
  /\ phase = "SWEEP" /\ \A a \in allocated : ~IsDead(a)
  /\ phase' = "NONE"
  /\ UNCHANGED <<text, is_key, color, keys, held, due, found, black_color,
                 white_color>>

-------------------------------------------------------------------------------
Next ==
  \/ \E a \in Addr : \/ string_key_internal(a) \/ drop(a)
                     \/ gc_mark_string_ref(a) \/ gc_sweep(a)
                     \/ \E t \in Text : string_new(a, t)
  \/ \E t \in Text : string_key(t)
  \/ safepoint_start_mark \/ safepoint_start_sweep \/ safepoint_new_epoch

Spec == Init /\ [][Next]_vars

-------------------------------------------------------------------------------
TypeOK ==
  /\ text \in [Addr -> Text \cup {None}]
  /\ color \in [Addr -> {"ORANGE", "PURPLE"}]
  /\ keys \in [Text -> Addr \cup {None}]
  /\ is_key \subseteq allocated /\ held \subseteq Addr /\ due \subseteq allocated
  /\ found \subseteq is_key
  /\ phase \in {"NONE", "MARK", "SWEEP"}
  /\ {black_color, white_color} = {"ORANGE", "PURPLE"}

(* What is in the table is a key string with that text, of which the heap    *)
(* has not taken the memory back: a lookup compares with text it may read    *)
(* (string_key, safepoint_start_sweep).                                      *)
KeysAreStrings ==
  \A t \in Text : keys[t] # None => keys[t] \in is_key /\ text[keys[t]] = t

(* A string flagged as a key is the one the table has for its text, but for  *)
(* strings the sweep is going to free.  Those the program does not hold, or  *)
(* a lookup gave it while marking ran and marking did not come to them: so   *)
(* of the keys that it holds and did not get in that way no two have one     *)
(* text (string_key, string_key_internal, safepoint_start_sweep).            *)
KeyIsInterned ==
  \A a \in is_key :
    \/ keys[text[a]] = a
    \/ phase = "SWEEP" /\ IsDead(a) /\ (a \in held => a \in found)

-------------------------------------------------------------------------------
(* What makes the two properties inductive.                                  *)

(* Which strings can still have the colour the sweep frees: none between     *)
(* collections; while marking, of those held, the ones marking has not come  *)
(* to and the ones that were found; in the sweep only the latter.            *)
WhiteStrings ==
  /\ phase = "NONE" => due = {} /\ found = {} /\ \A a \in allocated : ~IsDead(a)
  /\ \A a \in found : IsDead(a) /\ a \notin due
  /\ phase = "MARK" =>
       \A a \in held \cap allocated : IsDead(a) => a \in due \cup found
  /\ phase = "SWEEP" =>
       due = {} /\ \A a \in held \cap allocated : IsDead(a) => a \in found

(* Once the sweep has begun the table has no string that it will free.       *)
TableIsPurged == phase = "SWEEP" => \A t \in Text : ~IsDead(keys[t])

InternInv ==
  TypeOK /\ WhiteStrings /\ TableIsPurged /\ KeysAreStrings /\ KeyIsInterned

================================================================================
