--------------------------- MODULE InternTableProofs ---------------------------
(*****************************************************************************)
(* The table of keys never has a string whose memory was freed, and one text *)
(* has one key, for any number of strings and texts.                         *)
(*****************************************************************************)
EXTENDS InternTable, TLAPS

(* The initial state satisfies the invariant. *)
LEMMA InitIntern == Init => InternInv
BY InternAssumption
   DEF Init, InternInv, TypeOK, WhiteStrings, TableIsPurged, KeysAreStrings,
       KeyIsInterned, allocated, IsDead

(* What a step that touches nothing but what is held has to show.            *)
LEMMA HeldAlone ==
  ASSUME InternInv, UNCHANGED <<text, is_key, color, keys, due, gcVars>>,
         held' \subseteq Addr,
         found \subseteq found' /\ found' \subseteq is_key,
         \A a \in found' \ found :
           phase = "MARK" /\ color[a] = white_color /\ a \notin due,
         \A a \in (held' \cap allocated) \ held :
           IsDead(a) => a \in due \cup found' /\ phase = "MARK"
  PROVE  InternInv'
<1> USE InternAssumption DEF InternInv, gcVars
<1>1. UNCHANGED allocated /\ \A a : IsDead(a)' <=> IsDead(a)
  BY DEF allocated, IsDead
<1>2. TypeOK'
  BY <1>1 DEF TypeOK
<1>3. WhiteStrings'
  BY <1>1 DEF WhiteStrings, TypeOK, IsDead, allocated
<1>4. TableIsPurged' /\ KeysAreStrings'
  BY <1>1 DEF TableIsPurged, KeysAreStrings
<1>5. KeyIsInterned'
  BY <1>1 DEF KeyIsInterned, TypeOK
<1> QED BY <1>2, <1>3, <1>4, <1>5

(* A string the table has may be handed out in any phase (HandOut).          *)
LEMMA HandOutKeeps ==
  ASSUME InternInv, NEW t \in Text, keys[t] # None, HandOut(keys[t]),
         UNCHANGED <<text, is_key, color, keys, due, gcVars>>
  PROVE  InternInv'
<1> USE InternAssumption DEF InternInv
<1> DEFINE a == keys[t]
<1>1. a \in is_key /\ a \in Addr /\ a \in allocated
  BY DEF KeysAreStrings, TypeOK
<1>2. held' \subseteq Addr /\ found \subseteq found' /\ found' \subseteq is_key
  BY <1>1 DEF HandOut, TypeOK
<1>3. \A b \in found' \ found :
        phase = "MARK" /\ color[b] = white_color /\ b \notin due
  BY DEF HandOut
<1>4. IsDead(a) => phase = "MARK"
  BY <1>1 DEF WhiteStrings, TableIsPurged, TypeOK
<1>5. IsDead(a) => a \in due \cup found'
  BY <1>4 DEF HandOut, IsDead
<1>6. \A b \in (held' \cap allocated) \ held :
        IsDead(b) => b \in due \cup found' /\ phase = "MARK"
  BY <1>4, <1>5 DEF HandOut
<1> QED BY <1>2, <1>3, <1>6, HeldAlone

(* A string in memory that was free has the colour that survives, and neither *)
(* the table nor the marker knew that memory (string_new).                   *)
LEMMA NewStringIsBlack ==
  ASSUME InternInv, NEW a \in Addr, NEW t \in Text, NewString(a, t),
         UNCHANGED gcVars
  PROVE  /\ allocated' = allocated \cup {a} /\ a \notin allocated
         /\ text' \in [Addr -> Text \cup {None}] /\ text'[a] = t
         /\ \A b \in Addr \ {a} : text'[b] = text[b]
         /\ color' \in [Addr -> {"ORANGE", "PURPLE"}]
         /\ ~IsDead(a)'
         /\ \A b \in Addr \ {a} : color'[b] = color[b]
         /\ held' = held \cup {a}
         /\ a \notin is_key /\ a \notin due /\ \A u \in Text : keys[u] # a
<1> USE InternAssumption DEF InternInv, gcVars
<1>1. a \notin allocated /\ held' = held \cup {a}
  BY DEF NewString
<1>2. /\ text' \in [Addr -> Text \cup {None}] /\ text'[a] = t
      /\ \A b \in Addr \ {a} : text'[b] = text[b]
  BY DEF NewString, TypeOK
<1>3. allocated' = allocated \cup {a}
  BY <1>2 DEF allocated
<1>4. /\ color' \in [Addr -> {"ORANGE", "PURPLE"}]
      /\ color'[a] = black_color
      /\ \A b \in Addr \ {a} : color'[b] = color[b]
  BY DEF NewString, TypeOK
<1>5. black_color # white_color
  BY DEF TypeOK
<1>6. ~IsDead(a)'
  BY <1>4, <1>5 DEF IsDead
<1>7. a \notin is_key /\ a \notin due /\ \A u \in Text : keys[u] # a
  BY <1>1 DEF TypeOK, KeysAreStrings
<1> QED BY <1>1, <1>2, <1>3, <1>4, <1>6, <1>7

(* A new string that is not a key changes nothing for those that are.        *)
LEMMA KeepNewString ==
  ASSUME InternInv, NEW a \in Addr, NEW t \in Text, string_new(a, t)
  PROVE  InternInv'
<1> USE InternAssumption DEF InternInv, gcVars
<1>0. UNCHANGED <<is_key, keys, due, found, gcVars>> /\ NewString(a, t)
  BY DEF string_new
<1>1. /\ allocated' = allocated \cup {a} /\ a \notin allocated
      /\ text' \in [Addr -> Text \cup {None}] /\ text'[a] = t
      /\ \A b \in Addr \ {a} : text'[b] = text[b]
      /\ color' \in [Addr -> {"ORANGE", "PURPLE"}]
      /\ ~IsDead(a)'
      /\ \A b \in Addr \ {a} : color'[b] = color[b]
      /\ held' = held \cup {a}
      /\ a \notin is_key /\ a \notin due /\ \A u \in Text : keys[u] # a
  BY <1>0, NewStringIsBlack
<1>2. \A b \in Addr \ {a} : IsDead(b)' <=> IsDead(b)
  BY <1>0, <1>1 DEF IsDead
<1>3. TypeOK'
  BY <1>0, <1>1 DEF TypeOK
<1>4. WhiteStrings'
  BY <1>0, <1>1, <1>2 DEF WhiteStrings, TypeOK, allocated
<1>5. TableIsPurged'
  BY <1>0, <1>1, <1>2 DEF TableIsPurged, TypeOK, IsDead
<1>6. KeysAreStrings'
  BY <1>0, <1>1 DEF KeysAreStrings, TypeOK
<1>7. KeyIsInterned'
  BY <1>0, <1>1, <1>2 DEF KeyIsInterned, TypeOK, allocated
<1> QED BY <1>3, <1>4, <1>5, <1>6, <1>7
(* string_key of a text, and of a string: what was no key before becomes the *)
(* only key of its text.                                                     *)
LEMMA KeepStringKey ==
  ASSUME InternInv, NEW t \in Text, string_key(t)
  PROVE  InternInv'
<1> USE InternAssumption DEF InternInv, gcVars, FindKey
<1>1. CASE /\ keys[t] # None /\ HandOut(keys[t])
           /\ UNCHANGED <<text, is_key, color, keys, due, gcVars>>
  BY <1>1, HandOutKeeps
<1>2. CASE /\ keys[t] = None
           /\ \E a \in Addr : /\ NewString(a, t)
                              /\ keys' = [keys EXCEPT ![t] = a]
                              /\ is_key' = is_key \cup {a}
           /\ UNCHANGED <<due, found, gcVars>>
  <2>1. PICK a \in Addr : /\ NewString(a, t)
                          /\ keys' = [keys EXCEPT ![t] = a]
                          /\ is_key' = is_key \cup {a}
    BY <1>2
  <2>2. /\ allocated' = allocated \cup {a} /\ a \notin allocated
        /\ text' \in [Addr -> Text \cup {None}] /\ text'[a] = t
        /\ \A b \in Addr \ {a} : text'[b] = text[b]
        /\ color' \in [Addr -> {"ORANGE", "PURPLE"}]
        /\ ~IsDead(a)'
        /\ \A b \in Addr \ {a} : color'[b] = color[b]
        /\ held' = held \cup {a}
        /\ a \notin is_key /\ a \notin due /\ \A u \in Text : keys[u] # a
    BY <1>2, <2>1, NewStringIsBlack
  <2>3. \A b \in Addr \ {a} : IsDead(b)' <=> IsDead(b)
    BY <1>2, <2>2 DEF IsDead
  <2>4. /\ keys' \in [Text -> Addr \cup {None}] /\ keys'[t] = a
        /\ \A u \in Text \ {t} : keys'[u] = keys[u]
    BY <2>1 DEF TypeOK
  <2>5. TypeOK'
    BY <1>2, <2>1, <2>2, <2>4 DEF TypeOK
  <2>6. WhiteStrings'
    BY <1>2, <2>1, <2>2, <2>3 DEF WhiteStrings, TypeOK, allocated
  <2>7. TableIsPurged'
    BY <1>2, <2>2, <2>3, <2>4 DEF TableIsPurged, TypeOK, IsDead
  <2>8. KeysAreStrings'
    BY <2>1, <2>2, <2>4 DEF KeysAreStrings, TypeOK
  <2>9. KeyIsInterned'
    BY <1>2, <2>1, <2>2, <2>3, <2>4 DEF KeyIsInterned, TypeOK, allocated
  <2> QED BY <2>5, <2>6, <2>7, <2>8, <2>9
<1> QED BY <1>1, <1>2 DEF string_key

LEMMA KeepStringKeyInternal ==
  ASSUME InternInv, NEW a \in Addr, string_key_internal(a)
  PROVE  InternInv'
<1> USE InternAssumption DEF InternInv, gcVars, FindKey
<1>0. /\ a \in (held \cap allocated) \ is_key
      /\ UNCHANGED <<text, color, due, gcVars>>
      /\ text[a] \in Text
  BY DEF string_key_internal, TypeOK, allocated
<1>1. CASE keys[text[a]] # None
  BY <1>0, <1>1, HandOutKeeps DEF string_key_internal
<1>2. CASE keys[text[a]] = None
  <2>1. /\ keys' = [keys EXCEPT ![text[a]] = a]
        /\ is_key' = is_key \cup {a} /\ UNCHANGED <<held, found>>
    BY <1>2 DEF string_key_internal
  <2>2. UNCHANGED allocated /\ \A b : IsDead(b)' <=> IsDead(b)
    BY <1>0 DEF allocated, IsDead
  <2>3. /\ keys' \in [Text -> Addr \cup {None}] /\ keys'[text[a]] = a
        /\ \A u \in Text \ {text[a]} : keys'[u] = keys[u]
    BY <1>0, <2>1 DEF TypeOK
  <2>4. TypeOK'
    BY <1>0, <2>1, <2>2, <2>3 DEF TypeOK
  <2>5. WhiteStrings'
    BY <1>0, <2>1, <2>2 DEF WhiteStrings
  <2>6. TableIsPurged'
    BY <1>0, <2>2, <2>3 DEF TableIsPurged, WhiteStrings, TypeOK
  <2>7. KeysAreStrings'
    BY <1>0, <2>1, <2>3 DEF KeysAreStrings
  <2>8. KeyIsInterned'
    BY <1>0, <1>2, <2>1, <2>2, <2>3 DEF KeyIsInterned, TypeOK, allocated
  <2> QED BY <2>4, <2>5, <2>6, <2>7, <2>8
<1> QED BY <1>1, <1>2

LEMMA KeepDrop ==
  ASSUME InternInv, NEW a \in Addr, drop(a)
  PROVE  InternInv'
<1>1. /\ UNCHANGED <<text, is_key, color, keys, due, found, gcVars>>
      /\ held' = held \ {a}
  BY DEF drop
<1>2. held' \subseteq Addr /\ found' \subseteq is_key
  BY <1>1 DEF InternInv, TypeOK
<1> QED BY <1>1, <1>2, HeldAlone

-------------------------------------------------------------------------------
(* The swap of colours makes every string white, and due those that are held. *)
LEMMA KeepStartMark ==
  ASSUME InternInv, safepoint_start_mark
  PROVE  InternInv'
<1> USE InternAssumption DEF InternInv, safepoint_start_mark
<1>1. UNCHANGED allocated
  BY DEF allocated
<1>2. TypeOK'
  BY <1>1 DEF TypeOK
<1>3. WhiteStrings'
  BY <1>1 DEF WhiteStrings
<1>4. KeyIsInterned'
  BY DEF KeyIsInterned
<1> QED BY <1>2, <1>3, <1>4 DEF TableIsPurged, KeysAreStrings

LEMMA KeepMark ==
  ASSUME InternInv, NEW a \in Addr, gc_mark_string_ref(a)
  PROVE  InternInv'
<1> USE InternAssumption DEF InternInv, gc_mark_string_ref, gcVars
<1>1. UNCHANGED allocated
  BY DEF allocated
<1>2. \A b \in Addr : IsDead(b)' <=> IsDead(b) /\ b # a
  BY DEF IsDead, TypeOK
<1>3. TypeOK'
  BY <1>1 DEF TypeOK
<1>4. WhiteStrings'
  <2>1. is_key \subseteq Addr /\ found \subseteq Addr /\ held \subseteq Addr
    BY DEF TypeOK, allocated
  <2>2. \A b \in found : IsDead(b)' /\ b \notin due'
    BY <1>2, <2>1 DEF WhiteStrings
  <2> QED BY <1>1, <1>2, <2>1, <2>2 DEF WhiteStrings
<1>5. TableIsPurged' /\ KeysAreStrings' /\ KeyIsInterned'
  BY <1>1 DEF TableIsPurged, KeysAreStrings, KeyIsInterned
<1> QED BY <1>3, <1>4, <1>5

(* The purge: what leaves the table is what the sweep may free. *)
LEMMA KeepStartSweep ==
  ASSUME InternInv, safepoint_start_sweep
  PROVE  InternInv'
<1> USE InternAssumption DEF InternInv, safepoint_start_sweep
<1>1. UNCHANGED allocated /\ \A b : IsDead(b)' <=> IsDead(b)
  BY DEF allocated, IsDead
<1>2. \A t \in Text : keys'[t] = IF IsDead(keys[t]) THEN None ELSE keys[t]
  BY DEF KeysAlive
<1>3. TypeOK'
  BY <1>1 DEF TypeOK, KeysAlive
<1>4. WhiteStrings'
  BY <1>1 DEF WhiteStrings
<1>5. TableIsPurged'
  BY <1>1, <1>2 DEF TableIsPurged, IsDead
<1>6. KeysAreStrings'
  BY <1>2 DEF KeysAreStrings
<1>7. KeyIsInterned'
  <2>1. \A a \in is_key : a \in held => ~IsDead(a) \/ a \in found
    BY DEF WhiteStrings, TypeOK
  <2>2. \A a \in is_key : keys[text[a]] = a /\ text[a] \in Text
    BY DEF KeyIsInterned, TypeOK, allocated
  <2> QED BY <1>1, <1>2, <2>1, <2>2 DEF KeyIsInterned
<1> QED BY <1>3, <1>4, <1>5, <1>6, <1>7

LEMMA KeepSweep ==
  ASSUME InternInv, NEW a \in Addr, gc_sweep(a)
  PROVE  InternInv'
<1> USE InternAssumption DEF InternInv, gc_sweep, gcVars
<1>1. allocated' = allocated \ {a} /\ \A b : IsDead(b)' <=> IsDead(b)
  BY DEF allocated, IsDead, TypeOK
<1>2. \A t \in Text : keys[t] # a
  BY DEF TableIsPurged
<1>3. /\ text' \in [Addr -> Text \cup {None}]
      /\ \A b \in Addr \ {a} : text'[b] = text[b]
  BY DEF TypeOK
<1>4. TypeOK'
  BY <1>1, <1>3 DEF TypeOK, WhiteStrings
<1>5. WhiteStrings'
  BY <1>1 DEF WhiteStrings
<1>6. TableIsPurged'
  BY <1>1 DEF TableIsPurged
<1>7. KeysAreStrings'
  BY <1>2, <1>3 DEF KeysAreStrings, TypeOK
<1>8. KeyIsInterned'
  BY <1>1, <1>3 DEF KeyIsInterned, TypeOK
<1> QED BY <1>4, <1>5, <1>6, <1>7, <1>8

LEMMA KeepNewEpoch ==
  ASSUME InternInv, safepoint_new_epoch
  PROVE  InternInv'
<1> USE DEF InternInv, safepoint_new_epoch
<1>1. UNCHANGED allocated /\ \A b : IsDead(b)' <=> IsDead(b)
  BY DEF allocated, IsDead
<1>2. TypeOK' /\ WhiteStrings' /\ TableIsPurged' /\ KeysAreStrings'
  BY <1>1 DEF TypeOK, WhiteStrings, TableIsPurged, KeysAreStrings
<1>3. KeyIsInterned'
  BY <1>1 DEF KeyIsInterned, TypeOK
<1> QED BY <1>2, <1>3

-------------------------------------------------------------------------------
(* The invariant is inductive.  The properties alone are not: that a string  *)
(* the table hands out is not freed depends on which strings are white in    *)
(* which phase (safepoint_start_sweep, string_key).                          *)
THEOREM InternInductive == Spec => []InternInv
<1>1. Init => InternInv
  BY InitIntern
<1>2. InternInv /\ [Next]_vars => InternInv'
  <2> SUFFICES ASSUME InternInv, [Next]_vars PROVE InternInv'
    OBVIOUS
  <2>1. CASE UNCHANGED vars
    <3>1. UNCHANGED <<text, is_key, color, keys, due, found, gcVars, held>>
      BY <2>1 DEF vars, gcVars
    <3> QED BY <3>1, HeldAlone DEF InternInv, TypeOK
  <2>2. ASSUME NEW a \in Addr,
               \/ string_key_internal(a) \/ drop(a)
               \/ gc_mark_string_ref(a) \/ gc_sweep(a)
               \/ \E t \in Text : string_new(a, t)
        PROVE  InternInv'
    BY <2>2, KeepStringKeyInternal, KeepDrop, KeepMark, KeepSweep, KeepNewString
  <2>3. ASSUME NEW t \in Text, string_key(t) PROVE InternInv'
    BY <2>3, KeepStringKey
  <2>4. CASE safepoint_start_mark \/ safepoint_start_sweep \/ safepoint_new_epoch
    BY <2>4, KeepStartMark, KeepStartSweep, KeepNewEpoch
  <2> QED BY <2>1, <2>2, <2>3, <2>4 DEF Next
<1> QED BY <1>1, <1>2, PTL DEF Spec

(* No entry of the table is for a string whose memory was freed, or has      *)
(* another text: lookups compare with live strings (string_key, gc_sweep).   *)
THEOREM TableHasLiveKeys == Spec => []KeysAreStrings
<1>1. InternInv => KeysAreStrings
  BY DEF InternInv
<1> QED BY <1>1, InternInductive, PTL

(* A key is the one its text has in the table, unless the sweep is going to  *)
(* free it and the program either does not hold it or was given it by a      *)
(* lookup while marking ran: comparing other keys that are held by address   *)
(* is comparing them by text (string_key).                                   *)
THEOREM KeysAreInterned == Spec => []KeyIsInterned
<1>1. InternInv => KeyIsInterned
  BY DEF InternInv
<1> QED BY <1>1, InternInductive, PTL
================================================================================
