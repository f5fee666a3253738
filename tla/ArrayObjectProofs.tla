--------------------------- MODULE ArrayObjectProofs ---------------------------
(*****************************************************************************)
(* Arrays have the slots they say they have; the slots past the length of an *)
(* array are null until a program pops; and arrays are sequences.            *)
(*****************************************************************************)
EXTENDS ArrayObject, TLAPS

(* Growing gives at least as many slots as are needed (array_expand_length). *)
LEMMA ExpandLengthSuffices ==
  ASSUME NEW current \in Nat, NEW minimum \in Nat
  PROVE  /\ array_expand_length(current, minimum) \in Nat
         /\ array_expand_length(current, minimum) >= minimum
<1> DEFINE expanded == IF current > SlowGrowth
                       THEN current * 2 - current \div 2 ELSE current * 2
           sizes == {expanded, minimum, MinSlots}
           Largest(n) == \A m \in sizes : n >= m
<1>1. expanded \in Nat /\ MinSlots \in Nat
  BY ArrayObjectAssumption
<1>2. \E n \in sizes : Largest(n)
  <2> HIDE DEF expanded
  <2>1. CASE expanded >= minimum /\ expanded >= MinSlots
    BY <1>1, <2>1
  <2>2. CASE minimum >= expanded /\ minimum >= MinSlots
    BY <1>1, <2>2
  <2>3. CASE MinSlots >= expanded /\ MinSlots >= minimum
    BY <1>1, <2>3
  <2> QED BY <1>1, <2>1, <2>2, <2>3
<1>3. array_expand_length(current, minimum) = CHOOSE n \in sizes : Largest(n)
  BY DEF array_expand_length
<1> HIDE DEF expanded, Largest
<1>4. array_expand_length(current, minimum) \in sizes
      /\ Largest(array_expand_length(current, minimum))
  BY <1>2, <1>3
<1> QED BY <1>1, <1>4 DEF Largest

(* Every operation keeps the slots and the length in their types: no         *)
(* element is beyond the slots.                                              *)
LEMMA StepKeepsTypes ==
  ASSUME TypeOK, [Next]_vars
  PROVE  TypeOK'
<1> USE ArrayObjectAssumption
<1>0. \A n \in Nat : /\ array_expand_length(count, count + n) \in Nat
                     /\ array_expand_length(count, count + n) >= count + n
  <2> TAKE n \in Nat
  <2>1. count \in Nat /\ count + n \in Nat
    BY DEF TypeOK
  <2> QED BY <2>1, ExpandLengthSuffices
<1>1. ASSUME NEW n \in 0 .. MaxLength, array_resize(n)
      PROVE  TypeOK'
  <2>1. CASE n <= length
    BY <1>1, <2>1 DEF TypeOK, array_resize, Overwrite
  <2>2. CASE n > length /\ n > count
    BY <1>1, <2>2 DEF TypeOK, array_resize, vslots_new, Moved
  <2>3. CASE n > length /\ n <= count
    BY <1>1, <2>3 DEF TypeOK, array_resize
  <2> QED BY <2>1, <2>2, <2>3 DEF TypeOK
<1>2. ASSUME NEW n \in 0 .. MaxLength, array_remove(n)
      PROVE  TypeOK'
  BY <1>2 DEF TypeOK, array_remove, Overwrite
<1>3. ASSUME NEW n \in 0 .. MaxLength, NEW v \in Value, array_setindex(n, v)
      PROVE  TypeOK'
  BY <1>3 DEF TypeOK, array_setindex
<1>4. ASSUME NEW n \in 0 .. MaxLength, NEW v \in Value, array_insert(n, v)
      PROVE  TypeOK'
  <2>1. CASE length + 1 <= count
    BY <1>4, <2>1, SMTT(40) DEF TypeOK, array_insert, Overwrite, Inserted
  <2>2. CASE ~ length + 1 <= count
    <3> DEFINE least == array_expand_length(count, count + 1)
    <3>1. least \in Nat /\ least >= count + 1
      BY <1>0
    <3>2. PICK slack \in 0 .. MaxSlack :
            /\ count' = least + slack
            /\ slots' = [i \in 0 .. least + slack - 1 |->
                           IF i <= length THEN Inserted(n, v, i) ELSE NullValue]
      BY <1>4, <2>2 DEF array_insert, vslots_new
    <3>3. length' = length + 1 /\ n <= length /\ length = count
      BY <1>4, <2>2 DEF array_insert, TypeOK
    <3> HIDE DEF least
    <3> QED BY <3>1, <3>2, <3>3 DEF TypeOK, Inserted
  <2> QED BY <2>1, <2>2
<1>5. ASSUME NEW values \in Lists, array_extend(values)
      PROVE  TypeOK'
  <2>0. PICK n \in 0 .. MaxValues : values \in [1 .. n -> Value]
    BY DEF Lists
  <2>1. Len(values) = n /\ n \in Nat
    BY <2>0
  <2>2. CASE length + n <= count
    BY <1>5, <2>0, <2>1, <2>2 DEF TypeOK, array_extend, Overwrite, vslots_new, Moved
  <2>3. CASE ~ length + n <= count
    <3> DEFINE least == array_expand_length(count, count + n)
    <3>1. least \in Nat /\ least >= count + n
      BY <1>0, <2>1
    <3>2. PICK slack \in 0 .. MaxSlack :
            /\ count' = least + slack
            /\ slots' = [i \in 0 .. least + slack - 1 |->
                           IF length <= i /\ i < length + n
                           THEN values[i - length + 1] ELSE Moved(i)]
      <4>1. length + Len(values) > count
        BY <2>1, <2>3 DEF TypeOK
      <4>2. vslots_new(array_expand_length(count, count + Len(values)),
              LAMBDA i : IF length <= i /\ i < length + Len(values)
                         THEN values[i - length + 1] ELSE Moved(i))
        BY <1>5, <4>1 DEF array_extend
      <4> QED BY <2>1, <4>2 DEF vslots_new
    <3>3. length' = length + n
      BY <1>5, <2>1 DEF array_extend
    <3> HIDE DEF least
    <3> QED BY <2>0, <2>1, <3>1, <3>2, <3>3 DEF TypeOK, Moved
  <2> QED BY <2>2, <2>3
<1>6. ASSUME array_pop
      PROVE  TypeOK'
  BY <1>6 DEF TypeOK, array_pop
<1>7. ASSUME array_clear
      PROVE  TypeOK'
  BY <1>7 DEF TypeOK, array_clear, Overwrite
<1>8. CASE UNCHANGED vars
  BY <1>8 DEF TypeOK, vars
<1> QED
  BY <1>1, <1>2, <1>3, <1>4, <1>5, <1>6, <1>7, <1>8 DEF Next

(* The slots and the length of an array keep their types. *)
THEOREM ArrayTypeCorrect == Spec => []TypeOK
<1>1. Init => TypeOK
  BY ArrayObjectAssumption DEF Init, TypeOK
<1> QED
  BY <1>1, StepKeepsTypes, PTL DEF Spec

-------------------------------------------------------------------------------
(* Every operation but array_pop leaves the unused slots null: those that    *)
(* shorten the array clear them, those that move it start from nulls.        *)
LEMMA StepKeepsNulls ==
  ASSUME TypeOK, UnusedSlotsAreNull, [Next]_vars, ~popped'
  PROVE  UnusedSlotsAreNull'
<1> USE ArrayObjectAssumption
<1>0. \A n \in Nat : /\ array_expand_length(count, count + n) \in Nat
                     /\ array_expand_length(count, count + n) >= count + n
  <2> TAKE n \in Nat
  <2>1. count \in Nat /\ count + n \in Nat
    BY DEF TypeOK
  <2> QED BY <2>1, ExpandLengthSuffices
<1>1. ASSUME NEW n \in 0 .. MaxLength, array_resize(n)
      PROVE  UnusedSlotsAreNull'
  <2>1. CASE n <= length
    BY <1>1, <2>1 DEF TypeOK, array_resize, Overwrite, UnusedSlotsAreNull
  <2>2. CASE n > length /\ n > count
    BY <1>1, <2>2 DEF TypeOK, array_resize, vslots_new, Moved, UnusedSlotsAreNull
  <2>3. CASE n > length /\ n <= count
    BY <1>1, <2>3 DEF TypeOK, array_resize, UnusedSlotsAreNull
  <2> QED BY <2>1, <2>2, <2>3 DEF TypeOK
<1>2. ASSUME NEW n \in 0 .. MaxLength, array_remove(n)
      PROVE  UnusedSlotsAreNull'
  BY <1>2 DEF TypeOK, array_remove, Overwrite, UnusedSlotsAreNull
<1>3. ASSUME NEW n \in 0 .. MaxLength, NEW v \in Value, array_setindex(n, v)
      PROVE  UnusedSlotsAreNull'
  BY <1>3 DEF TypeOK, array_setindex, UnusedSlotsAreNull
<1>4. ASSUME NEW n \in 0 .. MaxLength, NEW v \in Value, array_insert(n, v)
      PROVE  UnusedSlotsAreNull'
  <2>1. CASE length + 1 <= count
    BY <1>4, <2>1 DEF TypeOK, array_insert, Overwrite, Inserted, UnusedSlotsAreNull
  <2>2. CASE ~ length + 1 <= count
    <3> DEFINE least == array_expand_length(count, count + 1)
    <3>1. least \in Nat /\ least >= count + 1
      BY <1>0
    <3>2. PICK slack \in 0 .. MaxSlack :
            /\ count' = least + slack
            /\ slots' = [i \in 0 .. least + slack - 1 |->
                           IF i <= length THEN Inserted(n, v, i) ELSE NullValue]
      BY <1>4, <2>2 DEF array_insert, vslots_new
    <3>3. length' = length + 1 /\ n <= length /\ length = count
      BY <1>4, <2>2 DEF array_insert, TypeOK
    <3> HIDE DEF least
    <3> QED BY <3>1, <3>2, <3>3 DEF TypeOK, UnusedSlotsAreNull
  <2> QED BY <2>1, <2>2
<1>5. ASSUME NEW values \in Lists, array_extend(values)
      PROVE  UnusedSlotsAreNull'
  <2>0. PICK n \in 0 .. MaxValues : values \in [1 .. n -> Value]
    BY DEF Lists
  <2>1. Len(values) = n /\ n \in Nat
    BY <2>0
  <2>2. CASE length + n <= count
    BY <1>5, <2>1, <2>2 DEF TypeOK, array_extend, Overwrite, vslots_new, Moved, UnusedSlotsAreNull
  <2>3. CASE ~ length + n <= count
    <3> DEFINE least == array_expand_length(count, count + n)
    <3>1. least \in Nat /\ least >= count + n
      BY <1>0, <2>1
    <3>2. PICK slack \in 0 .. MaxSlack :
            /\ count' = least + slack
            /\ slots' = [i \in 0 .. least + slack - 1 |->
                           IF length <= i /\ i < length + n
                           THEN values[i - length + 1] ELSE Moved(i)]
      <4>1. length + Len(values) > count
        BY <2>1, <2>3 DEF TypeOK
      <4>2. vslots_new(array_expand_length(count, count + Len(values)),
              LAMBDA i : IF length <= i /\ i < length + Len(values)
                         THEN values[i - length + 1] ELSE Moved(i))
        BY <1>5, <4>1 DEF array_extend
      <4> QED BY <2>1, <4>2 DEF vslots_new
    <3>3. length' = length + n
      BY <1>5, <2>1 DEF array_extend
    <3> HIDE DEF least
    <3> QED BY <2>0, <2>1, <3>1, <3>2, <3>3 DEF TypeOK, Moved, UnusedSlotsAreNull
  <2> QED BY <2>2, <2>3
<1>6. ASSUME array_pop
      PROVE  UnusedSlotsAreNull'
  BY <1>6 DEF array_pop
<1>7. ASSUME array_clear
      PROVE  UnusedSlotsAreNull'
  BY <1>7 DEF TypeOK, array_clear, Overwrite, UnusedSlotsAreNull
<1>8. CASE UNCHANGED vars
  BY <1>8 DEF UnusedSlotsAreNull, vars
<1> QED
  BY <1>1, <1>2, <1>3, <1>4, <1>5, <1>6, <1>7, <1>8 DEF Next

(* An array does not forget that a value was popped. *)
LEMMA StaysPopped ==
  ASSUME TypeOK, [Next]_vars, popped
  PROVE  popped'
BY DEF TypeOK, Next, vars, array_resize, array_remove, array_setindex,
       array_insert, array_extend, array_pop, array_clear

(* Until a program calls array.pop, what array_extend initialises without a  *)
(* write barrier is null (array_object.cpp).                                 *)
THEOREM UnusedSlotsStayNull == Spec => []NullsUnlessPopped
<1>1. Init => TypeOK /\ NullsUnlessPopped
  BY ArrayObjectAssumption DEF Init, TypeOK, UnusedSlotsAreNull, NullsUnlessPopped
<1>2. TypeOK /\ NullsUnlessPopped /\ [Next]_vars => (TypeOK /\ NullsUnlessPopped)'
  <2> SUFFICES ASSUME TypeOK, NullsUnlessPopped, [Next]_vars
               PROVE  TypeOK' /\ NullsUnlessPopped'
    OBVIOUS
  <2>1. TypeOK'
    BY StepKeepsTypes
  <2>2. ASSUME ~popped'
        PROVE  UnusedSlotsAreNull'
    <3>1. ~popped
      BY <2>2, StaysPopped
    <3>2. UnusedSlotsAreNull
      BY <3>1 DEF NullsUnlessPopped
    <3> QED BY <2>2, <3>2, StepKeepsNulls
  <2> QED BY <2>1, <2>2 DEF NullsUnlessPopped
<1> QED
  BY <1>1, <1>2, PTL DEF Spec

-------------------------------------------------------------------------------
(* Sequences that are told by their elements. *)

LEMMA SameElements ==
  ASSUME NEW S, NEW s \in Seq(S), NEW t \in Seq(S), Len(s) = Len(t),
         \A i \in 1 .. Len(s) : s[i] = t[i]
  PROVE  s = t
OBVIOUS

LEMMA IsPrefix ==
  ASSUME NEW S, NEW s \in Seq(S), NEW u \in Seq(S), NEW n \in 0 .. Len(s),
         Len(u) = n, \A i \in 1 .. n : u[i] = s[i]
  PROVE  u = SubSeq(s, 1, n)
<1>1. /\ SubSeq(s, 1, n) \in Seq(S) /\ Len(SubSeq(s, 1, n)) = n
      /\ \A i \in 1 .. n : SubSeq(s, 1, n)[i] = s[i]
  OBVIOUS
<1> QED BY <1>1, SameElements

LEMMA IsConcatenation ==
  ASSUME NEW S, NEW s \in Seq(S), NEW t \in Seq(S), NEW u \in Seq(S),
         Len(u) = Len(s) + Len(t),
         \A i \in 1 .. Len(s) : u[i] = s[i],
         \A i \in 1 .. Len(t) : u[Len(s) + i] = t[i]
  PROVE  u = s \o t
<1>1. s \o t \in Seq(S) /\ Len(s \o t) = Len(s) + Len(t)
  OBVIOUS
<1>2. \A i \in 1 .. Len(s) + Len(t) :
        (s \o t)[i] = IF i <= Len(s) THEN s[i] ELSE t[i - Len(s)]
  OBVIOUS
<1>3. ASSUME NEW i \in 1 .. Len(u) PROVE u[i] = (s \o t)[i]
  <2>1. CASE i <= Len(s)
    BY <1>2, <2>1
  <2>2. CASE i > Len(s)
    <3>1. i - Len(s) \in 1 .. Len(t) /\ Len(s) + (i - Len(s)) = i
      BY <2>2
    <3>2. u[Len(s) + (i - Len(s))] = t[i - Len(s)]
      BY <3>1
    <3> QED BY <1>2, <2>2, <3>1, <3>2
  <2> QED BY <2>1, <2>2
<1> QED BY <1>1, <1>3, SameElements

LEMMA IsInsertion ==
  ASSUME NEW S, NEW s \in Seq(S), NEW u \in Seq(S), NEW v \in S,
         NEW n \in 1 .. Len(s) + 1, Len(u) = Len(s) + 1, u[n] = v,
         \A i \in 1 .. n - 1 : u[i] = s[i],
         \A i \in n + 1 .. Len(u) : u[i] = s[i - 1]
  PROVE  u = SubSeq(s, 1, n - 1) \o <<v>> \o SubSeq(s, n, Len(s))
<1> DEFINE front == SubSeq(s, 1, n - 1)
           back  == SubSeq(s, n, Len(s))
           upto  == SubSeq(u, 1, n)
<1>1. /\ front \in Seq(S) /\ Len(front) = n - 1
      /\ \A i \in 1 .. n - 1 : front[i] = s[i]
  OBVIOUS
<1>2. /\ back \in Seq(S) /\ Len(back) = Len(s) - n + 1
      /\ \A i \in 1 .. Len(s) - n + 1 : back[i] = s[n + i - 1]
  OBVIOUS
<1>3. upto \in Seq(S) /\ Len(upto) = n /\ \A i \in 1 .. n : upto[i] = u[i]
  OBVIOUS
<1>4. <<v>> \in Seq(S) /\ Len(<<v>>) = 1 /\ <<v>>[1] = v
  OBVIOUS
<1> HIDE DEF front, back, upto
<1>5. upto = front \o <<v>>
  BY <1>1, <1>3, <1>4, IsConcatenation
<1>6. u = upto \o back
  <2>1. \A i \in 1 .. Len(back) : u[Len(upto) + i] = back[i]
    BY <1>2, <1>3
  <2>2. Len(u) = Len(upto) + Len(back) /\ \A i \in 1 .. Len(upto) : u[i] = upto[i]
    BY <1>2, <1>3
  <2> QED BY <1>2, <1>3, <2>1, <2>2, IsConcatenation
<1> QED BY <1>5, <1>6 DEF front, back

LEMMA IsRemoval ==
  ASSUME NEW S, NEW s \in Seq(S), NEW u \in Seq(S), NEW v \in S,
         NEW n \in 1 .. Len(s), Len(u) = Len(s), u[Len(s)] = v,
         \A i \in 1 .. n - 1 : u[i] = s[i],
         \A i \in n .. Len(s) - 1 : u[i] = s[i + 1]
  PROVE  u = SubSeq(s, 1, n - 1) \o SubSeq(s, n + 1, Len(s)) \o <<v>>
<1> DEFINE front == SubSeq(s, 1, n - 1)
           back  == SubSeq(s, n + 1, Len(s))
           upto  == SubSeq(u, 1, Len(s) - 1)
<1>1. /\ front \in Seq(S) /\ Len(front) = n - 1
      /\ \A i \in 1 .. n - 1 : front[i] = s[i]
  OBVIOUS
<1>2. /\ back \in Seq(S) /\ Len(back) = Len(s) - n
      /\ \A i \in 1 .. Len(s) - n : back[i] = s[n + i]
  OBVIOUS
<1>3. /\ upto \in Seq(S) /\ Len(upto) = Len(s) - 1
      /\ \A i \in 1 .. Len(s) - 1 : upto[i] = u[i]
  OBVIOUS
<1>4. <<v>> \in Seq(S) /\ Len(<<v>>) = 1 /\ <<v>>[1] = v
  OBVIOUS
<1> HIDE DEF front, back, upto
<1>5. upto = front \o back
  <2>1. \A i \in 1 .. Len(back) : upto[Len(front) + i] = back[i]
    <3>1. ASSUME NEW i \in 1 .. Len(s) - n PROVE upto[n - 1 + i] = s[n + i]
      <4>1. n - 1 + i \in n .. Len(s) - 1 /\ n - 1 + i \in 1 .. Len(s) - 1
            /\ (n - 1 + i) + 1 = n + i
        OBVIOUS
      <4> QED BY <1>3, <4>1
    <3> QED BY <1>1, <1>2, <3>1
  <2>2. Len(upto) = Len(front) + Len(back) /\ \A i \in 1 .. Len(front) : upto[i] = front[i]
    BY <1>1, <1>2, <1>3
  <2> QED BY <1>1, <1>2, <1>3, <2>1, <2>2, IsConcatenation
<1>6. u = upto \o <<v>>
  <2>1. \A i \in 1 .. Len(<<v>>) : u[Len(upto) + i] = <<v>>[i]
    BY <1>3, <1>4
  <2>2. Len(u) = Len(upto) + Len(<<v>>) /\ \A i \in 1 .. Len(upto) : u[i] = upto[i]
    BY <1>3, <1>4
  <2> QED BY <1>3, <1>4, <2>1, <2>2, IsConcatenation
<1> QED BY <1>5, <1>6 DEF front, back

-------------------------------------------------------------------------------
(* An array implements a sequence. *)

LEMMA ElementsOf ==
  ASSUME NEW c \in Nat, NEW s \in [0 .. c - 1 -> Value], NEW l \in 0 .. c
  PROVE  LET e == [n \in 1 .. l |-> s[n - 1]]
         IN  e \in Seq(Value) /\ Len(e) = l /\ \A n \in 1 .. l : e[n] = s[n - 1]
OBVIOUS

LEMMA StepIsSequenceStep ==
  ASSUME TypeOK, NullsUnlessPopped, [Next]_vars
  PROVE  [ArraySequence!Next]_<<Elements, popped>>
<1> USE ArrayObjectAssumption
<1>0. TypeOK'
  BY StepKeepsTypes
<1> DEFINE e == Elements
<1>1. /\ e \in Seq(Value) /\ Len(e) = length /\ length \in Nat
      /\ \A n \in 1 .. length : e[n] = slots[n - 1]
  BY ElementsOf DEF TypeOK, Elements
<1>2. /\ e' \in Seq(Value) /\ Len(e') = length' /\ length' \in Nat
      /\ \A n \in 1 .. length' : e'[n] = slots'[n - 1]
  <2>1. count' \in Nat /\ slots' \in [0 .. count' - 1 -> Value] /\ length' \in 0 .. count'
    BY <1>0 DEF TypeOK
  <2>2. e' = [n \in 1 .. length' |-> slots'[n - 1]]
    BY DEF Elements
  <2>3. PICK c \in Nat : c = count'
    BY <2>1
  <2>4. PICK s \in [0 .. c - 1 -> Value], l \in 0 .. c : s = slots' /\ l = length'
    BY <2>1, <2>3
  <2>5. /\ [n \in 1 .. l |-> s[n - 1]] \in Seq(Value)
        /\ Len([n \in 1 .. l |-> s[n - 1]]) = l
        /\ \A n \in 1 .. l : [k \in 1 .. l |-> s[k - 1]][n] = s[n - 1]
    BY ElementsOf
  <2> HIDE DEF e
  <2> QED BY <2>2, <2>4, <2>5
<1>3. \A n \in Nat : /\ array_expand_length(count, count + n) \in Nat
                     /\ array_expand_length(count, count + n) >= count + n
  <2> TAKE n \in Nat
  <2>1. count \in Nat /\ count + n \in Nat
    BY DEF TypeOK
  <2> QED BY <2>1, ExpandLengthSuffices
<1> HIDE DEF e
<1>4. length \in Nat /\ length <= count /\ count \in Nat /\ MaxLength \in Nat
  BY DEF TypeOK
<1>5. ASSUME NEW n \in 0 .. MaxLength, array_resize(n)
      PROVE  \E m \in 0 .. MaxLength + 1 : ArraySequence!Resize(m) /\ UNCHANGED popped
  <2>1. length' = n /\ n \in 0 .. MaxLength + 1 /\ popped' = popped
    BY <1>5 DEF array_resize
  <2>2. CASE n <= length
    <3>1. \A i \in 1 .. n : e'[i] = e[i]
      BY <1>1, <1>2, <1>5, <2>1, <2>2 DEF array_resize, Overwrite, TypeOK
    <3>2. e' = SubSeq(e, 1, n)
      BY <1>1, <1>2, <2>1, <2>2, <3>1, IsPrefix
    <3> QED BY <1>1, <2>1, <2>2, <3>2 DEF ArraySequence!Resize, e
  <2>3. CASE n > length
    <3> DEFINE added == [k \in 1 .. n - length |-> slots'[length + k - 1]]
               Fill  == ArraySequence!Fill
    <3>1. /\ \A i \in 0 .. length - 1 : slots'[i] = slots[i]
          /\ \A i \in length .. n - 1 : slots'[i] = NullValue \/ popped
      <4>1. CASE n > count
        <5>1. PICK slack \in 0 .. MaxSlack :
                slots' = [i \in 0 .. n + slack - 1 |-> Moved(i)]
          BY <1>5, <2>3, <4>1 DEF array_resize, vslots_new, TypeOK
        <5> QED BY <1>1, <2>3, <5>1 DEF Moved
      <4>2. CASE ~ n > count
        BY <1>5, <2>3, <4>2 DEF array_resize, TypeOK, NullsUnlessPopped, UnusedSlotsAreNull
      <4> QED BY <4>1, <4>2
    <3>2. \A k \in 1 .. n - length : slots'[length + k - 1] \in Fill
      <4>1. ASSUME NEW i \in length .. n - 1 PROVE slots'[i] \in Value
        <5>1. i + 1 \in 1 .. length' /\ (i + 1) - 1 = i
          BY <1>4, <2>1
        <5>2. e'[i + 1] = slots'[i] /\ e'[i + 1] \in Value
          BY <1>2, <5>1
        <5> QED BY <5>2
      <4>2. \A i \in length .. n - 1 : slots'[i] \in Fill
        BY <3>1, <4>1 DEF ArraySequence!Fill
      <4>3. \A k \in 1 .. n - length : length + k - 1 \in length .. n - 1
        BY <1>1
      <4> QED BY <4>2, <4>3
    <3>3. added \in [1 .. n - length -> Fill]
      BY <3>2
    <3>4. added \in Seq(Value) /\ Len(added) = n - length
      <4>1. n - length \in Nat /\ Fill \subseteq Value
        BY <1>1, <2>3 DEF ArraySequence!Fill
      <4> HIDE DEF added, Fill
      <4> QED BY <3>3, <4>1
    <3>5. \A k \in 1 .. n - length : added[k] = slots'[length + k - 1]
      OBVIOUS
    <3> HIDE DEF added, Fill
    <3>6. e' = e \o added
      <4>1. \A i \in 1 .. Len(e) : e'[i] = e[i]
        BY <1>1, <1>2, <2>1, <2>3, <3>1
      <4>2. ASSUME NEW i \in 1 .. n - length PROVE e'[length + i] = added[i]
        <5>1. length + i \in 1 .. length'
          BY <1>1, <2>1
        <5>2. e'[length + i] = slots'[(length + i) - 1]
          BY <1>2, <5>1
        <5> QED BY <1>4, <3>5, <5>2
      <4>3. Len(e') = Len(e) + Len(added)
        BY <1>1, <1>2, <2>1, <3>4
      <4>4. \A i \in 1 .. Len(added) : e'[Len(e) + i] = added[i]
        BY <1>1, <3>4, <4>2
      <4> QED BY <1>1, <1>2, <3>4, <4>1, <4>3, <4>4, IsConcatenation
    <3>7. ArraySequence!Resize(n)
      <4>1. n >= Len(e) /\ added \in [1 .. n - Len(e) -> Fill]
        BY <1>1, <2>3, <3>3
      <4> QED BY <3>6, <4>1, Zenon DEF ArraySequence!Resize, e, Fill
    <3> QED BY <2>1, <3>7
  <2> QED BY <1>1, <2>1, <2>2, <2>3
<1>6. ASSUME NEW n \in 0 .. MaxLength, array_remove(n)
      PROVE  \E m \in 0 .. MaxLength + 1 : ArraySequence!Shift(m) /\ UNCHANGED popped
  <2>1. n < length /\ length' = length /\ popped' = popped
    BY <1>6 DEF array_remove
  <2>2. \A i \in 0 .. length - 1 :
          slots'[i] = IF n <= i /\ i < length - 1 THEN slots[i + 1]
                      ELSE IF i = length - 1 THEN NullValue ELSE slots[i]
    <3>1. slots' = [i \in 0 .. count - 1 |->
                      IF n <= i /\ i < length - 1 THEN slots[i + 1]
                      ELSE IF i = length - 1 THEN NullValue ELSE slots[i]]
      BY <1>6 DEF array_remove, Overwrite
    <3> QED BY <1>4, <3>1
  <2>3. /\ \A i \in 1 .. n : e'[i] = e[i]
        /\ \A i \in n + 1 .. length - 1 : e'[i] = e[i + 1]
        /\ e'[length] = NullValue
    <3>1. ASSUME NEW i \in 1 .. n PROVE e'[i] = e[i]
      <4>1. i \in 1 .. length /\ i - 1 \in 0 .. length - 1 /\ i - 1 < n /\ i - 1 # length - 1
        BY <1>4, <2>1
      <4> QED BY <1>1, <1>2, <2>1, <2>2, <4>1
    <3>2. ASSUME NEW i \in n + 1 .. length - 1 PROVE e'[i] = e[i + 1]
      <4>1. /\ i \in 1 .. length /\ i + 1 \in 1 .. length /\ i - 1 \in 0 .. length - 1
            /\ n <= i - 1 /\ i - 1 < length - 1 /\ (i - 1) + 1 = i /\ (i + 1) - 1 = i
        BY <1>4, <2>1
      <4>2. slots'[i - 1] = slots[i]
        BY <2>2, <4>1
      <4>3. e'[i] = slots'[i - 1] /\ e[i + 1] = slots[i]
        BY <1>1, <1>2, <2>1, <4>1
      <4> QED BY <4>2, <4>3
    <3>3. e'[length] = NullValue
      <4>1. length \in 1 .. length' /\ length - 1 \in 0 .. length - 1
        BY <1>4, <2>1
      <4>2. slots'[length - 1] = NullValue
        BY <1>4, <2>2, <4>1
      <4> QED BY <1>2, <4>1, <4>2
    <3> QED BY <3>1, <3>2, <3>3
  <2>4. e' = SubSeq(e, 1, n + 1 - 1) \o SubSeq(e, n + 1 + 1, Len(e)) \o <<NullValue>>
    <3>1. n + 1 \in 1 .. Len(e) /\ n + 1 - 1 = n
      BY <1>1, <2>1
    <3>2. /\ Len(e') = Len(e) /\ e'[Len(e)] = NullValue
          /\ \A i \in 1 .. n + 1 - 1 : e'[i] = e[i]
          /\ \A i \in n + 1 .. Len(e) - 1 : e'[i] = e[i + 1]
      BY <1>1, <1>2, <2>1, <2>3, <3>1
    <3> QED BY <1>1, <1>2, <3>1, <3>2, IsRemoval
  <2>5. n + 1 \in DOMAIN e /\ n + 1 \in 0 .. MaxLength + 1
    BY <1>1, <1>4, <2>1
  <2>6. ArraySequence!Shift(n + 1)
    BY <2>4, <2>5 DEF ArraySequence!Shift, ArraySequence!Before, ArraySequence!From, e
  <2> QED BY <2>1, <2>5, <2>6
<1>7. ASSUME NEW n \in 0 .. MaxLength, NEW v \in Value, array_setindex(n, v)
      PROVE  \E m \in 0 .. MaxLength + 1 : ArraySequence!Set(m, v) /\ UNCHANGED popped
  <2>1. n < length /\ length' = length /\ popped' = popped
        /\ slots' = [slots EXCEPT ![n] = v]
    BY <1>7 DEF array_setindex
  <2>2. n + 1 \in DOMAIN e /\ n + 1 \in 0 .. MaxLength + 1
    BY <1>1, <1>4, <2>1
  <2>3. e' = [e EXCEPT ![n + 1] = v]
    <3>1. \A i \in 0 .. length - 1 : slots'[i] = IF i = n THEN v ELSE slots[i]
      BY <1>4, <2>1 DEF TypeOK
    <3>2. \A i \in 1 .. length : e'[i] = IF i = n + 1 THEN v ELSE e[i]
      BY <1>1, <1>2, <1>4, <2>1, <3>1
    <3>3. e \in [1 .. length -> Value] /\ e' \in [1 .. length -> Value]
      BY <1>1, <1>2, <2>1
    <3> QED BY <3>2, <3>3
  <2>4. ArraySequence!Set(n + 1, v)
    BY <2>2, <2>3 DEF ArraySequence!Set, e
  <2> QED BY <2>1, <2>2, <2>4
<1>8. ASSUME NEW n \in 0 .. MaxLength, NEW v \in Value, array_insert(n, v)
      PROVE  \E m \in 0 .. MaxLength + 1 : ArraySequence!Insert(m, v) /\ UNCHANGED popped
  <2>1. n <= length /\ length' = length + 1 /\ popped' = popped
    BY <1>8 DEF array_insert
  <2>2. \A i \in 0 .. length : slots'[i] = Inserted(n, v, i)
    <3>1. CASE length + 1 <= count
      <4>1. slots' = [i \in 0 .. count - 1 |->
                        IF i <= length THEN Inserted(n, v, i) ELSE slots[i]]
        BY <1>8, <3>1 DEF array_insert, Overwrite
      <4> QED BY <1>4, <3>1, <4>1
    <3>2. CASE ~ length + 1 <= count
      <4> DEFINE least == array_expand_length(count, count + 1)
      <4>1. least \in Nat /\ least >= count + 1
        BY <1>3
      <4>2. PICK slack \in 0 .. MaxSlack :
              slots' = [i \in 0 .. least + slack - 1 |->
                          IF i <= length THEN Inserted(n, v, i) ELSE NullValue]
        BY <1>8, <3>2 DEF array_insert, vslots_new
      <4> HIDE DEF least
      <4> QED BY <1>4, <3>2, <4>1, <4>2
    <3> QED BY <3>1, <3>2
  <2>3. /\ \A i \in 1 .. n : e'[i] = e[i]
        /\ e'[n + 1] = v
        /\ \A i \in n + 2 .. length + 1 : e'[i] = e[i - 1]
    <3>1. ASSUME NEW i \in 1 .. n PROVE e'[i] = e[i]
      <4>1. /\ i \in 1 .. length /\ i \in 1 .. length' /\ i - 1 \in 0 .. length
            /\ i - 1 < n
        BY <1>4, <2>1
      <4>2. slots'[i - 1] = slots[i - 1]
        BY <2>2, <4>1 DEF Inserted
      <4> QED BY <1>1, <1>2, <4>1, <4>2
    <3>2. e'[n + 1] = v
      <4>1. n + 1 \in 1 .. length' /\ n \in 0 .. length /\ (n + 1) - 1 = n
        BY <1>4, <2>1
      <4>2. slots'[n] = v
        BY <2>2, <4>1 DEF Inserted
      <4> QED BY <1>2, <4>1, <4>2
    <3>3. ASSUME NEW i \in n + 2 .. length + 1 PROVE e'[i] = e[i - 1]
      <4>1. /\ i - 1 \in 1 .. length /\ i \in 1 .. length' /\ i - 1 \in 0 .. length
            /\ ~ i - 1 < n /\ i - 1 # n
        BY <1>4, <2>1
      <4>2. slots'[i - 1] = slots[(i - 1) - 1]
        BY <2>2, <4>1 DEF Inserted
      <4> QED BY <1>1, <1>2, <4>1, <4>2
    <3> QED BY <3>1, <3>2, <3>3
  <2>4. PICK m \in 1 .. Len(e) + 1 : m = n + 1
    BY <1>1, <2>1
  <2>5. e' = SubSeq(e, 1, m - 1) \o <<v>> \o SubSeq(e, m, Len(e))
    <3>1. /\ e \in Seq(Value) /\ e' \in Seq(Value) /\ Len(e') = Len(e) + 1
          /\ e'[m] = v
          /\ \A i \in 1 .. m - 1 : e'[i] = e[i]
          /\ \A i \in m + 1 .. Len(e') : e'[i] = e[i - 1]
      BY <1>1, <1>2, <2>1, <2>3, <2>4
    <3>2. PICK s \in Seq(Value), u \in Seq(Value) : s = e /\ u = e'
      BY <3>1
    <3>3. /\ m \in 1 .. Len(s) + 1 /\ Len(u) = Len(s) + 1 /\ u[m] = v
          /\ \A i \in 1 .. m - 1 : u[i] = s[i]
          /\ \A i \in m + 1 .. Len(u) : u[i] = s[i - 1]
      BY <2>4, <3>1, <3>2
    <3>4. u = SubSeq(s, 1, m - 1) \o <<v>> \o SubSeq(s, m, Len(s))
      BY <3>3, IsInsertion
    <3> QED BY <3>2, <3>4
  <2>6. m \in 0 .. MaxLength + 1
    BY <1>1, <1>4, <2>1, <2>4
  <2>7. ArraySequence!Insert(m, v)
    BY <2>4, <2>5 DEF ArraySequence!Insert, ArraySequence!Before, ArraySequence!From, e
  <2> QED BY <2>1, <2>6, <2>7
<1>9. ASSUME NEW values \in Lists, array_extend(values)
      PROVE  ArraySequence!Extend(values) /\ UNCHANGED popped
  <2>1. PICK n \in 0 .. MaxValues : values \in [1 .. n -> Value]
    BY DEF Lists
  <2>2. values \in Seq(Value) /\ Len(values) = n /\ n \in Nat
    BY <2>1
  <2>3. length' = length + n /\ popped' = popped
    BY <1>9, <2>2 DEF array_extend
  <2>4. /\ \A i \in 0 .. length - 1 : slots'[i] = slots[i]
        /\ \A i \in length .. length + n - 1 : slots'[i] = values[i - length + 1]
    <3>1. CASE length + n > count
      <4> DEFINE least == array_expand_length(count, count + n)
      <4>1. least \in Nat /\ least >= count + n
        BY <1>3, <2>2
      <4>2. PICK slack \in 0 .. MaxSlack :
              slots' = [i \in 0 .. least + slack - 1 |->
                          IF length <= i /\ i < length + n
                          THEN values[i - length + 1] ELSE Moved(i)]
        <5>1. vslots_new(array_expand_length(count, count + Len(values)),
                LAMBDA i : IF length <= i /\ i < length + Len(values)
                           THEN values[i - length + 1] ELSE Moved(i))
          BY <1>9, <2>2, <3>1 DEF array_extend
        <5> QED BY <2>2, <5>1 DEF vslots_new
      <4> HIDE DEF least
      <4> QED BY <1>4, <2>2, <4>1, <4>2 DEF Moved
    <3>2. CASE ~ length + n > count
      <4>1. slots' = [i \in 0 .. count - 1 |->
                        IF length <= i /\ i < length + n
                        THEN values[i - length + 1] ELSE slots[i]]
        BY <1>9, <2>2, <3>2 DEF array_extend, Overwrite
      <4> QED BY <1>4, <2>2, <3>2, <4>1
    <3> QED BY <3>1, <3>2
  <2>5. /\ \A i \in 1 .. length : e'[i] = e[i]
        /\ \A i \in 1 .. n : e'[length + i] = values[i]
    <3>1. \A i \in 1 .. length : e'[i] = e[i]
      BY <1>1, <1>2, <1>4, <2>2, <2>3, <2>4, SMTT(40)
    <3>2. ASSUME NEW i \in 1 .. n PROVE e'[length + i] = values[i]
      <4>1. /\ length + i \in 1 .. length' /\ length + i - 1 \in length .. length + n - 1
            /\ (length + i - 1) - length + 1 = i
        BY <1>4, <2>2, <2>3
      <4>2. slots'[length + i - 1] = values[i]
        BY <2>4, <4>1
      <4>3. PICK k \in 1 .. length' : k = length + i
        BY <4>1
      <4>4. e'[k] = slots'[k - 1]
        BY <1>2
      <4>5. k - 1 = length + i - 1
        BY <1>4, <4>3
      <4> QED BY <4>2, <4>3, <4>4, <4>5
    <3> QED BY <3>1, <3>2
  <2>6. e' = e \o values
    <3>1. /\ Len(e') = Len(e) + Len(values)
          /\ \A i \in 1 .. Len(e) : e'[i] = e[i]
          /\ \A i \in 1 .. Len(values) : e'[Len(e) + i] = values[i]
      BY <1>1, <1>2, <2>2, <2>3, <2>5
    <3> QED BY <1>1, <1>2, <2>2, <3>1, IsConcatenation
  <2> QED BY <2>3, <2>6 DEF ArraySequence!Extend, e
<1>10. ASSUME array_pop
       PROVE  ArraySequence!Pop
  <2>1. length > 0 /\ length' = length - 1 /\ popped' = TRUE /\ slots' = slots
    BY <1>10 DEF array_pop
  <2>2. e' = SubSeq(e, 1, Len(e) - 1)
    <3>1. \A i \in 1 .. length - 1 : e'[i] = e[i]
      <4>1. \A i \in 1 .. length - 1 : i \in 1 .. length
        BY <1>4
      <4> QED BY <1>1, <1>2, <2>1, <4>1
    <3>2. length - 1 \in 0 .. Len(e) /\ Len(e') = length - 1 /\ Len(e) - 1 = length - 1
      BY <1>1, <1>2, <2>1
    <3> QED BY <1>1, <1>2, <3>1, <3>2, IsPrefix
  <2>3. e # <<>>
    BY <1>1, <2>1
  <2> QED BY <2>1, <2>2, <2>3 DEF ArraySequence!Pop, e
<1>11. ASSUME array_clear
       PROVE  ArraySequence!Resize(0) /\ UNCHANGED popped
  <2>1. length' = 0 /\ popped' = popped
    BY <1>11 DEF array_clear
  <2>2. e' = SubSeq(e, 1, 0)
    BY <1>1, <1>2, <2>1, IsPrefix
  <2> QED BY <1>1, <2>1, <2>2 DEF ArraySequence!Resize, e
<1>12. CASE UNCHANGED vars
  BY <1>12 DEF vars, Elements
<1>13. 0 \in 0 .. MaxLength + 1
  BY <1>4
<1> QED
  BY <1>5, <1>6, <1>7, <1>8, <1>9, <1>10, <1>11, <1>12, <1>13
  DEF Next, ArraySequence!Next

(* Every operation of an array is that of the sequence of its elements:      *)
(* growing, shifting and moving to other slots lose and swap none, and       *)
(* resizing shows only nulls until a program pops (array_object.cpp).        *)
THEOREM ArraysAreSequences == Spec => ImplementsSequence
<1>1. Init => ArraySequence!Init
  BY DEF Init, ArraySequence!Init, Elements
<1>2. TypeOK /\ NullsUnlessPopped /\ [Next]_vars
        => [ArraySequence!Next]_<<Elements, popped>>
  BY StepIsSequenceStep
<1> QED
  BY <1>1, <1>2, ArrayTypeCorrect, UnusedSlotsStayNull, PTL
  DEF Spec, ImplementsSequence, ArraySequence!Spec
================================================================================
