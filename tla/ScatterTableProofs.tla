-------------------------- MODULE ScatterTableProofs ---------------------------
(*****************************************************************************)
(* Lemmas on scatter tables of any size: what an insertion, an erasure and a *)
(* growth do to the lists and to the entries.                                *)
(*****************************************************************************)
EXTENDS ScatterTable, TLAPS, FiniteSetTheorems, WellFoundedInduction

-------------------------------------------------------------------------------
(* Numbers and sequences of values. *)

LEMMA LeastNumber ==
  ASSUME NEW T \in SUBSET Nat, T # {}
  PROVE  \E x \in T : \A y \in T : x <= y
<1> DEFINE less == OpToRel(<, Nat)
<1>1. IsWellFoundedOn(less, Nat)
  BY NatLessThanWellFounded
<1>2. \A y, x \in Nat : y < x => <<y, x>> \in less
  BY DEF OpToRel
<1> HIDE DEF less
<1>3. PICK x \in T : \A y \in T : ~ (<<y, x>> \in less)
  BY <1>1, WFMin
<1>4. \A y \in T : x <= y
  <2> TAKE y \in T
  <2>1. x \in Nat /\ y \in Nat /\ ~ y < x
    BY <1>2, <1>3
  <2> QED BY <2>1
<1> QED BY <1>4

(* A set that has 0, and with each number below N the next, has all up to N. *)
LEMMA UpTo ==
  ASSUME NEW N \in Nat, NEW P, 0 \in P,
         \A n \in 0 .. N - 1 : n \in P => n + 1 \in P
  PROVE  \A n \in 0 .. N : n \in P
<1> DEFINE T == {n \in 0 .. N : n \notin P}
<1> SUFFICES ASSUME T # {} PROVE FALSE
  OBVIOUS
<1>1. PICK x \in T : \A y \in T : x <= y
  <2>1. T \in SUBSET Nat
    OBVIOUS
  <2> HIDE DEF T
  <2> QED BY <2>1, LeastNumber
<1>2. x # 0 /\ x - 1 \in 0 .. N - 1 /\ x - 1 \notin T
  BY <1>1
<1> QED BY <1>2

IsSequence(f, N, c, F) == f[0] = c /\ \A n \in 1 .. N : f[n] = F[n][f[n - 1]]

(* A sequence of values of which each is made from the one before.           *)
LEMMA SequenceExists ==
  ASSUME NEW N \in Nat, NEW V, NEW c \in V, NEW F \in [1 .. N -> [V -> V]]
  PROVE  \E f \in [0 .. N -> V] : IsSequence(f, N, c, F)
<1> DEFINE IsFor(n, f) == f[0] = c /\ \A i \in 1 .. n : f[i] = F[i][f[i - 1]]
           P == {n \in 0 .. N : \E f \in [0 .. n -> V] : IsFor(n, f)}
<1>1. 0 \in P
  <2>1. [i \in 0 .. 0 |-> c] \in [0 .. 0 -> V] /\ IsFor(0, [i \in 0 .. 0 |-> c])
    OBVIOUS
  <2>2. \E f \in [0 .. 0 -> V] : IsFor(0, f)
    BY <2>1
  <2> HIDE DEF IsFor
  <2> QED BY <2>2
<1>2. ASSUME NEW n \in 0 .. N - 1, n \in P PROVE n + 1 \in P
  <2>1. PICK f \in [0 .. n -> V] : IsFor(n, f)
    BY <1>2
  <2> DEFINE g == [i \in 0 .. n + 1 |-> IF i = n + 1 THEN F[n + 1][f[n]] ELSE f[i]]
  <2>2. n + 1 \in 1 .. N /\ f[n] \in V /\ F[n + 1][f[n]] \in V
    OBVIOUS
  <2>3. g \in [0 .. n + 1 -> V]
    BY <2>2
  <2>4. g[0] = c
    BY <2>1
  <2>5. ASSUME NEW i \in 1 .. n + 1 PROVE g[i] = F[i][g[i - 1]]
    <3>1. CASE i = n + 1
      BY <3>1
    <3>2. CASE i # n + 1
      <4>1. i \in 1 .. n /\ i - 1 \in 0 .. n /\ i - 1 # n + 1
        BY <3>2
      <4> QED BY <2>1, <4>1
    <3> QED BY <3>1, <3>2
  <2>6. IsFor(n + 1, g)
    BY <2>4, <2>5
  <2> HIDE DEF g, IsFor
  <2> QED BY <2>2, <2>3, <2>6
<1> HIDE DEF P
<1>3. \A n \in 0 .. N : n \in P
  BY <1>1, <1>2, UpTo
<1>4. N \in P
  BY <1>3
<1> QED BY <1>4 DEF P, IsSequence

-------------------------------------------------------------------------------
(* Lists.  A slot is in the list that starts at s if it is in every set that *)
(* has s and with each slot the next.                                        *)

IsTable(t) ==
  /\ t.size \in Nat
  /\ t \in [size : {t.size},
            key  : [SlotsOf(t) -> Key \cup {NoKey}],
            val  : [SlotsOf(t) -> Val \cup {NoVal}],
            next : [SlotsOf(t) -> SlotsOf(t) \cup {End, Free}]]

Closed(t, T) == \A x \in T : t.next[x] \in SlotsOf(t) => t.next[x] \in T

Leads(t, s, x) == \A T \in SUBSET SlotsOf(t) : s \in T /\ Closed(t, T) => x \in T

LEMMA SlotsAreNumbers ==
  ASSUME NEW t, IsTable(t)
  PROVE  /\ \A s \in SlotsOf(t) : s \in Nat /\ s < t.size
         /\ Free \notin SlotsOf(t) /\ End \notin SlotsOf(t) /\ NoSlot \notin SlotsOf(t)
         /\ End # Free
         /\ IsFiniteSet(SlotsOf(t)) /\ Cardinality(SlotsOf(t)) = t.size
<1>1. t.size \in Nat
  BY DEF IsTable
<1>2. /\ \A s \in SlotsOf(t) : s \in Nat /\ s < t.size
      /\ Free \notin SlotsOf(t) /\ End \notin SlotsOf(t) /\ NoSlot \notin SlotsOf(t)
      /\ End # Free
  BY <1>1 DEF SlotsOf, Free, End, NoSlot
<1>3. IsFiniteSet(SlotsOf(t)) /\ Cardinality(SlotsOf(t)) = t.size
  <2>1. /\ IsFiniteSet(0 .. t.size - 1)
        /\ Cardinality(0 .. t.size - 1) = IF 0 > t.size - 1 THEN 0 ELSE t.size - 1 - 0 + 1
    <3>1. 0 \in Int /\ t.size - 1 \in Int
      BY <1>1
    <3> QED BY <3>1, FS_Interval, Zenon
  <2> QED BY <1>1, <2>1 DEF SlotsOf
<1> QED BY <1>2, <1>3

Onward(t, A) == A \cup ({t.next[x] : x \in A} \ {End, Free})

IsUpTo(t, s, u) ==
  u = [n \in 0 .. t.size |-> IF n = 0 THEN {s} ELSE Onward(t, u[n - 1])]

(* The recursive function in List exists.                                    *)
LEMMA ListIsUpTo ==
  ASSUME NEW t, IsTable(t), NEW s \in SlotsOf(t), t.next[s] # Free
  PROVE  \E u \in [0 .. t.size -> SUBSET SlotsOf(t)] :
           /\ u[0] = {s}
           /\ \A n \in 1 .. t.size : u[n] = Onward(t, u[n - 1])
           /\ List(t, s) = u[t.size]
<1> DEFINE V == SUBSET SlotsOf(t)
           F == [n \in 1 .. t.size |-> [A \in V |-> Onward(t, A)]]
<1>1. t.size \in Nat /\ t.next \in [SlotsOf(t) -> SlotsOf(t) \cup {End, Free}]
  BY DEF IsTable
<1>2. \A A \in V : Onward(t, A) \in V
  BY <1>1 DEF Onward
<1>3. F \in [1 .. t.size -> [V -> V]] /\ {s} \in V
  BY <1>2
<1>4. PICK f \in [0 .. t.size -> V] : IsSequence(f, t.size, {s}, F)
  <2> HIDE DEF F, V
  <2> QED BY <1>1, <1>3, SequenceExists
<1>5. \A n \in 1 .. t.size : f[n] = Onward(t, f[n - 1])
  <2> TAKE n \in 1 .. t.size
  <2>1. n - 1 \in 0 .. t.size
    BY <1>1
  <2>2. f[n - 1] \in V
    BY <2>1
  <2> QED BY <1>4, <2>2 DEF IsSequence
<1>6. IsUpTo(t, s, f)
  <2> DEFINE e(n) == IF n = 0 THEN {s} ELSE Onward(t, f[n - 1])
  <2>1. ASSUME NEW n \in 0 .. t.size PROVE f[n] = e(n)
    <3>1. n = 0 \/ (n \in 1 .. t.size /\ n # 0)
      BY <1>1
    <3> QED BY <1>4, <1>5, <3>1 DEF IsSequence
  <2>2. f = [n \in 0 .. t.size |-> f[n]]
    OBVIOUS
  <2>3. f = [n \in 0 .. t.size |-> e(n)]
    <3> HIDE DEF e
    <3> QED BY <2>1, <2>2
  <2> QED BY <2>3 DEF IsUpTo
<1> DEFINE u == CHOOSE g : IsUpTo(t, s, g)
<1>7. IsUpTo(t, s, u)
  BY <1>6
<1>8. List(t, s) = u[t.size]
  BY DEF List, IsUpTo, Onward
<1> HIDE DEF u
<1>9. /\ DOMAIN u = 0 .. t.size /\ u[0] = {s}
      /\ \A n \in 1 .. t.size : u[n] = Onward(t, u[n - 1])
  <2>1. DOMAIN u = 0 .. t.size
    BY <1>7 DEF IsUpTo
  <2>2. \A n \in 0 .. t.size : u[n] = IF n = 0 THEN {s} ELSE Onward(t, u[n - 1])
    <3> DEFINE e(n) == IF n = 0 THEN {s} ELSE Onward(t, u[n - 1])
    <3>1. u = [n \in 0 .. t.size |-> e(n)]
      BY <1>7 DEF IsUpTo
    <3>2. \A n \in 0 .. t.size : u[n] = e(n)
      <4> HIDE DEF e
      <4> QED BY <3>1
    <3> QED BY <3>2
  <2>3. 0 \in 0 .. t.size /\ \A n \in 1 .. t.size : n \in 0 .. t.size /\ n # 0
    BY <1>1
  <2> QED BY <2>1, <2>2, <2>3
<1>10. \A n \in 0 .. t.size : u[n] \in V
  <2> DEFINE P == {n \in 0 .. t.size : u[n] \in V}
  <2>1. 0 \in P
    BY <1>1, <1>3, <1>9
  <2>2. ASSUME NEW n \in 0 .. t.size - 1, n \in P PROVE n + 1 \in P
    <3>1. n + 1 \in 1 .. t.size /\ (n + 1) - 1 = n
      BY <1>1
    <3> QED BY <1>2, <1>9, <2>2, <3>1
  <2>3. \A n \in 0 .. t.size : n \in P
    <3> HIDE DEF P
    <3> QED BY <1>1, <2>1, <2>2, UpTo
  <2> QED BY <2>3
<1>11. u \in [0 .. t.size -> V]
  BY <1>7, <1>10 DEF IsUpTo
<1> QED BY <1>8, <1>9, <1>11

LEMMA ListIsLeads ==
  ASSUME NEW t, IsTable(t), NEW s \in SlotsOf(t), t.next[s] # Free
  PROVE  List(t, s) = {x \in SlotsOf(t) : Leads(t, s, x)}
<1>1. /\ t.size \in Nat /\ t.next \in [SlotsOf(t) -> SlotsOf(t) \cup {End, Free}]
      /\ Free \notin SlotsOf(t) /\ End \notin SlotsOf(t)
      /\ IsFiniteSet(SlotsOf(t)) /\ Cardinality(SlotsOf(t)) = t.size
  BY SlotsAreNumbers DEF IsTable
<1>2. PICK u \in [0 .. t.size -> SUBSET SlotsOf(t)] :
        /\ u[0] = {s}
        /\ \A n \in 1 .. t.size : u[n] = Onward(t, u[n - 1])
        /\ List(t, s) = u[t.size]
  BY ListIsUpTo
<1>3. \A n \in 0 .. t.size - 1 :
        n \in 0 .. t.size /\ n + 1 \in 0 .. t.size /\ u[n + 1] = Onward(t, u[n])
  <2> TAKE n \in 0 .. t.size - 1
  <2>1. n \in 0 .. t.size /\ n + 1 \in 1 .. t.size /\ (n + 1) - 1 = n
    BY <1>1
  <2> QED BY <1>2, <2>1
<1>4. ASSUME NEW T \in SUBSET SlotsOf(t), s \in T, Closed(t, T)
      PROVE  u[t.size] \subseteq T
  <2> DEFINE P == {n \in 0 .. t.size : u[n] \subseteq T}
  <2>1. 0 \in P
    BY <1>1, <1>2, <1>4
  <2>2. ASSUME NEW n \in 0 .. t.size - 1, n \in P PROVE n + 1 \in P
    <3>1. Onward(t, u[n]) \subseteq T
      BY <1>1, <1>3, <1>4, <2>2 DEF Onward, Closed
    <3> QED BY <1>3, <3>1
  <2> HIDE DEF P
  <2>3. \A n \in 0 .. t.size : n \in P
    BY <1>1, <2>1, <2>2, UpTo
  <2> QED BY <1>1, <2>3 DEF P
<1>5. s \in u[t.size]
  <2> DEFINE P == {n \in 0 .. t.size : s \in u[n]}
  <2>1. 0 \in P
    BY <1>1, <1>2
  <2>2. ASSUME NEW n \in 0 .. t.size - 1, n \in P PROVE n + 1 \in P
    BY <1>3, <2>2 DEF Onward
  <2> HIDE DEF P
  <2>3. \A n \in 0 .. t.size : n \in P
    BY <1>1, <2>1, <2>2, UpTo
  <2> QED BY <1>1, <2>3 DEF P
<1>6. \A n \in 0 .. t.size : IsFiniteSet(u[n]) /\ Cardinality(u[n]) \in Nat
  BY <1>1, FS_Subset, FS_CardinalityType
(* Each time the list gains a slot, or it is closed already. *)
<1>7. Closed(t, u[t.size])
  <2> DEFINE P == {n \in 0 .. t.size : Closed(t, u[n]) \/ Cardinality(u[n]) >= n + 1}
  <2>1. 0 \in P
    <3>1. Cardinality({s}) = 1
      BY FS_Singleton
    <3>2. Cardinality(u[0]) >= 0 + 1 /\ 0 \in 0 .. t.size
      BY <1>1, <1>2, <3>1
    <3> QED BY <3>2
  <2>2. ASSUME NEW n \in 0 .. t.size - 1, n \in P PROVE n + 1 \in P
    <3>1. CASE Closed(t, u[n])
      <4>1. Onward(t, u[n]) = u[n]
        BY <1>1, <1>3, <3>1 DEF Onward, Closed
      <4> QED BY <1>3, <3>1, <4>1
    <3>2. CASE ~ Closed(t, u[n])
      <4>1. PICK x \in u[n] : t.next[x] \in SlotsOf(t) /\ t.next[x] \notin u[n]
        BY <3>2 DEF Closed
      <4>2. u[n] \cup {t.next[x]} \subseteq u[n + 1]
        BY <1>1, <1>3, <4>1 DEF Onward
      <4>3. /\ IsFiniteSet(u[n] \cup {t.next[x]})
            /\ Cardinality(u[n] \cup {t.next[x]}) = Cardinality(u[n]) + 1
        BY <1>3, <1>6, <4>1, FS_AddElement
      <4>4. Cardinality(u[n] \cup {t.next[x]}) <= Cardinality(u[n + 1])
        BY <1>3, <1>6, <4>2, FS_Subset
      <4>5. Cardinality(u[n]) >= n + 1
        BY <2>2, <3>2
      <4> QED BY <1>3, <1>6, <4>3, <4>4, <4>5
    <3> QED BY <3>1, <3>2
  <2> HIDE DEF P
  <2>3. \A n \in 0 .. t.size : n \in P
    BY <1>1, <2>1, <2>2, UpTo
  <2>4. Cardinality(u[t.size]) <= t.size
    <3>1. t.size \in 0 .. t.size
      BY <1>1
    <3>2. u[t.size] \in SUBSET SlotsOf(t)
      BY <3>1
    <3> QED BY <1>1, <3>2, FS_Subset
  <2>5. ~ Cardinality(u[t.size]) >= t.size + 1
    BY <1>1, <1>6, <2>4
  <2> QED BY <1>1, <2>3, <2>5 DEF P
<1>8. u[t.size] \in SUBSET SlotsOf(t)
  <2>1. t.size \in 0 .. t.size
    BY <1>1
  <2> QED BY <2>1
<1>9. \A x \in SlotsOf(t) : x \in u[t.size] <=> Leads(t, s, x)
  BY <1>4, <1>5, <1>7, <1>8 DEF Leads
<1> QED BY <1>2, <1>8, <1>9

-------------------------------------------------------------------------------
(* What is true of every table that the operations make. *)

HashesKeys(hash) == \A k \in Key : hash[k] \in Nat

Home(hash, t, s) == MainSlot(hash, t, t.key[s])

(* A slot has a key and a value if it is in a list. *)
SlotsAreFilled(t) ==
  \A s \in SlotsOf(t) :
    /\ t.next[s] = Free <=> t.key[s] = NoKey
    /\ t.next[s] = Free <=> t.val[s] = NoVal

(* A list stays in its bucket, and never leads back to the main slot.        *)
ListsStayHome(hash, t) ==
  \A s \in Used(t) :
    t.next[s] # End =>
      /\ t.next[s] \in Used(t)
      /\ Home(hash, t, t.next[s]) = Home(hash, t, s)
      /\ t.next[s] # Home(hash, t, s)

KeysAreDistinct(t) == \A s, x \in Used(t) : t.key[s] = t.key[x] => s = x

HomesLead(hash, t) == \A s \in Used(t) : Leads(t, Home(hash, t, s), s)

GoodTable(hash, t) ==
  /\ IsTable(t)
  /\ SlotsAreFilled(t)
  /\ ListsStayHome(hash, t)
  /\ ListsAreDisjoint(t)
  /\ KeysAreDistinct(t)
  /\ HomesLead(hash, t)

LEMMA MainSlotIsSlot ==
  ASSUME NEW hash, HashesKeys(hash), NEW t, IsTable(t), t.size > 0, NEW k \in Key
  PROVE  MainSlot(hash, t, k) \in SlotsOf(t)
<1>1. \A a, n \in Nat : n > 0 => a % n \in 0 .. n - 1
  OBVIOUS
<1> QED BY <1>1 DEF HashesKeys, IsTable, MainSlot, SlotsOf

(* The slots of a good table: used ones have keys, values and homes.         *)
LEMMA UsedSlots ==
  ASSUME NEW hash, HashesKeys(hash), NEW t, GoodTable(hash, t), NEW s \in Used(t)
  PROVE  /\ s \in SlotsOf(t) /\ t.size > 0
         /\ t.key[s] \in Key /\ t.val[s] \in Val
         /\ t.next[s] \in Used(t) \cup {End}
         /\ Home(hash, t, s) \in Used(t)
         /\ Home(hash, t, Home(hash, t, s)) = Home(hash, t, s)
<1>1. s \in SlotsOf(t) /\ t.size \in Nat /\ t.size > 0
  BY SlotsAreNumbers DEF GoodTable, IsTable, Used
<1>2. t.key[s] \in Key /\ t.val[s] \in Val
  BY <1>1 DEF GoodTable, IsTable, SlotsAreFilled, Used
<1>3. t.next[s] \in Used(t) \cup {End}
  BY <1>1 DEF GoodTable, ListsStayHome
<1> DEFINE h == Home(hash, t, s)
<1>4. h \in SlotsOf(t)
  BY <1>1, <1>2, MainSlotIsSlot DEF GoodTable, Home
<1>5. Leads(t, h, s)
  BY DEF GoodTable, HomesLead
<1> HIDE DEF h
<1>6. h \in Used(t)
  <2> SUFFICES ASSUME t.next[h] = Free PROVE FALSE
    BY <1>4 DEF Used
  <2>1. Closed(t, {h})
    BY SlotsAreNumbers DEF GoodTable, Closed
  <2>2. s = h
    BY <1>4, <1>5, <2>1 DEF Leads
  <2> QED BY <2>2 DEF Used
<1>7. Home(hash, t, h) = h
  <2> DEFINE T == {x \in Used(t) : Home(hash, t, x) = Home(hash, t, h)}
  <2>1. T \in SUBSET SlotsOf(t) /\ h \in T
    BY <1>6 DEF Used
  <2>2. Closed(t, T)
    <3> SUFFICES ASSUME NEW x \in T, t.next[x] \in SlotsOf(t) PROVE t.next[x] \in T
      BY DEF Closed
    <3>1. t.next[x] # End
      BY SlotsAreNumbers DEF GoodTable
    <3> QED BY <3>1 DEF GoodTable, ListsStayHome
  <2>3. s \in T
    <3> HIDE DEF T
    <3> QED BY <1>5, <2>1, <2>2 DEF Leads
  <2> QED BY <2>3 DEF h
<1> QED BY <1>1, <1>2, <1>3, <1>6, <1>7 DEF h

(* A slot that is not its key's main slot has one slot in front of it.       *)
LEMMA PreviousSlot ==
  ASSUME NEW hash, HashesKeys(hash), NEW t, GoodTable(hash, t), NEW s \in Used(t),
         s # Home(hash, t, s)
  PROVE  \E p \in Used(t) : /\ t.next[p] = s /\ p # s
                            /\ Home(hash, t, p) = Home(hash, t, s)
                            /\ Leads(t, Home(hash, t, s), p)
<1> DEFINE h == Home(hash, t, s)
           T == {x \in SlotsOf(t) : Leads(t, h, x) /\ x # s}
<1>1. h \in SlotsOf(t) /\ h \in Used(t) /\ Leads(t, h, s) /\ s \in SlotsOf(t)
  BY UsedSlots DEF GoodTable, HomesLead, Used
<1>2. h \in T
  BY <1>1 DEF Leads
<1>3. ~ Closed(t, T)
  BY <1>1, <1>2 DEF Leads
<1>4. PICK p \in T : t.next[p] \in SlotsOf(t) /\ t.next[p] \notin T
  BY <1>3 DEF Closed
<1>5. Leads(t, h, t.next[p])
  BY <1>4 DEF Leads, Closed
<1>6. t.next[p] = s
  BY <1>4, <1>5
<1>7. p \in Used(t) /\ s # End
  BY <1>1, <1>4, <1>6, SlotsAreNumbers DEF GoodTable, Used
<1>8. Home(hash, t, p) = Home(hash, t, s)
  BY <1>6, <1>7 DEF GoodTable, ListsStayHome
<1> QED BY <1>4, <1>6, <1>7, <1>8

LEMMA NoSlotLeadsToItself ==
  ASSUME NEW hash, HashesKeys(hash), NEW t, GoodTable(hash, t), NEW s \in Used(t)
  PROVE  t.next[s] # s
<1> SUFFICES ASSUME t.next[s] = s PROVE FALSE
  OBVIOUS
<1>1. s # End
  BY SlotsAreNumbers DEF GoodTable, Used
<1>2. s # Home(hash, t, s)
  BY <1>1 DEF GoodTable, ListsStayHome
<1>3. PICK p \in Used(t) : t.next[p] = s /\ p # s
  BY <1>2, PreviousSlot
<1> QED BY <1>1, <1>3 DEF GoodTable, ListsAreDisjoint

LEMMA ListOfSlot ==
  ASSUME NEW hash, HashesKeys(hash), NEW t, GoodTable(hash, t), NEW s \in SlotsOf(t)
  PROVE  /\ s \notin Used(t) => List(t, s) = {}
         /\ s \in Used(t) =>
              /\ List(t, s) = {x \in Used(t) : Leads(t, s, x)}
              /\ \A x \in List(t, s) : Home(hash, t, x) = Home(hash, t, s)
<1>1. CASE s \notin Used(t)
  BY <1>1 DEF Used, List
<1>2. CASE s \in Used(t)
  <2> DEFINE T == {x \in Used(t) : Home(hash, t, x) = Home(hash, t, s)}
  <2>1. T \in SUBSET SlotsOf(t) /\ s \in T
    BY <1>2 DEF Used
  <2>2. Closed(t, T)
    <3> SUFFICES ASSUME NEW x \in T, t.next[x] \in SlotsOf(t) PROVE t.next[x] \in T
      BY DEF Closed
    <3>1. t.next[x] # End
      BY SlotsAreNumbers DEF GoodTable
    <3> QED BY <3>1 DEF GoodTable, ListsStayHome
  <2>3. \A x \in SlotsOf(t) : Leads(t, s, x) => x \in T
    <3> HIDE DEF T
    <3> QED BY <2>1, <2>2 DEF Leads
  <2>4. List(t, s) = {x \in SlotsOf(t) : Leads(t, s, x)}
    BY <1>2, ListIsLeads DEF GoodTable, Used
  <2>5. List(t, s) = {x \in Used(t) : Leads(t, s, x)}
    BY <2>3, <2>4 DEF Used
  <2> QED BY <1>2, <2>3, <2>5 DEF Used
<1> QED BY <1>1, <1>2

LEMMA LookupIs ==
  ASSUME NEW hash, HashesKeys(hash), NEW t, GoodTable(hash, t), NEW k \in Key
  PROVE  /\ k \notin KeysOf(t) => Lookup(hash, t, k) = NoSlot
         /\ k \in KeysOf(t) =>
              /\ Lookup(hash, t, k) \in Used(t) /\ Lookup(hash, t, k) # NoSlot
              /\ t.key[Lookup(hash, t, k)] = k
<1> DEFINE m == MainSlot(hash, t, k)
           found == {s \in List(t, m) : t.key[s] = k}
<1>1. t.size \in Nat
  BY DEF GoodTable, IsTable
<1>2. t.size > 0 => m \in SlotsOf(t)
  BY MainSlotIsSlot DEF GoodTable
<1>3. t.size > 0 => found \subseteq {s \in Used(t) : t.key[s] = k}
  BY <1>2, ListOfSlot
<1>4. ASSUME NEW s \in Used(t), t.key[s] = k PROVE t.size > 0 /\ s \in found
  <2>1. t.size > 0 /\ Home(hash, t, s) \in Used(t) /\ Home(hash, t, s) \in SlotsOf(t)
    BY UsedSlots DEF Used
  <2>2. Home(hash, t, s) = m
    BY <1>4 DEF Home
  <2>3. s \in List(t, m)
    BY <2>1, <2>2, ListOfSlot DEF GoodTable, HomesLead
  <2> QED BY <1>4, <2>1, <2>3
<1>5. NoSlot \notin Used(t)
  BY SlotsAreNumbers DEF GoodTable, Used
<1>6. Lookup(hash, t, k) = IF t.size = 0 \/ found = {} THEN NoSlot
                           ELSE CHOOSE s \in found : TRUE
  BY DEF Lookup
<1> HIDE DEF found
<1>7. k \notin KeysOf(t) => t.size = 0 \/ found = {}
  BY <1>1, <1>3 DEF KeysOf
<1>8. k \in KeysOf(t) => t.size > 0 /\ found # {}
  BY <1>4 DEF KeysOf
<1>9. k \in KeysOf(t) => Lookup(hash, t, k) \in found
  BY <1>6, <1>8
<1> QED BY <1>3, <1>5, <1>6, <1>7, <1>8, <1>9

-------------------------------------------------------------------------------
LEMMA LeastIs ==
  ASSUME NEW T \in SUBSET Nat, T # {}
  PROVE  Min(T) \in T /\ \A x \in T : Min(T) <= x
BY LeastNumber DEF Min

LEMMA FreeSlotIs ==
  ASSUME NEW t, IsTable(t), Used(t) # SlotsOf(t), NEW c
  PROVE  FreeSlot(t, c) \in SlotsOf(t) \ Used(t)
<1> DEFINE free == SlotsOf(t) \ Used(t)
           after == {s \in free : s > c}
<1>1. t.size \in Nat /\ free # {} /\ free \in SUBSET Nat /\ \A s \in free : s < t.size
  BY SlotsAreNumbers DEF IsTable, Used
<1>2. FreeSlot(t, c) = IF after # {} THEN Min(after) ELSE Max(free)
  BY DEF FreeSlot
<1>3. after \subseteq free
  OBVIOUS
<1> HIDE DEF free, after
<1>4. CASE after # {}
  <2>1. Min(after) \in free
    BY <1>1, <1>3, <1>4, LeastIs
  <2> QED BY <1>2, <1>4, <2>1 DEF free
<1>5. CASE after = {}
  <2> DEFINE D == {t.size - s : s \in free}
  <2>1. D \in SUBSET Nat /\ D # {}
    <3>1. \A s \in free : s \in Nat /\ t.size - s \in Nat
      BY <1>1
    <3>2. PICK s \in free : TRUE
      BY <1>1
    <3> QED BY <3>1, <3>2
  <2>2. PICK d \in D : \A e \in D : d <= e
    <3> HIDE DEF D
    <3> QED BY <2>1, LeastNumber
  <2>3. PICK x \in free : d = t.size - x
    OBVIOUS
  <2>4. \A y \in free : x >= y
    <3> TAKE y \in free
    <3>1. d <= t.size - y
      BY <2>2
    <3> QED BY <1>1, <2>3, <3>1
  <2>5. Max(free) \in free
    BY <2>4 DEF Max
  <2> QED BY <1>2, <1>5, <2>5 DEF free
<1> QED BY <1>4, <1>5 DEF free

-------------------------------------------------------------------------------
(* An entry that is not in the table is added.                               *)

Has(t, k, v) == \E s \in Used(t) : t.key[s] = k /\ t.val[s] = v

Nexts(t) == [SlotsOf(t) -> SlotsOf(t) \cup {End, Free}]

IsAdded(hash, t, k, v, added) ==
  /\ GoodTable(hash, added)
  /\ added.size = t.size
  /\ \E f \in SlotsOf(t) \ Used(t) : Used(added) = Used(t) \cup {f}
  /\ \A x, w : Has(added, x, w) <=> Has(t, x, w) \/ (x = k /\ w = v)

LEMMA PlaceAtIs ==
  ASSUME NEW t, IsTable(t), NEW s \in SlotsOf(t), NEW k \in Key, NEW v \in Val,
         NEW nexts \in Nexts(t)
  PROVE  /\ IsTable(PlaceAt(t, s, k, v, nexts))
         /\ PlaceAt(t, s, k, v, nexts).size = t.size
         /\ SlotsOf(PlaceAt(t, s, k, v, nexts)) = SlotsOf(t)
         /\ \A x \in SlotsOf(t) :
              /\ PlaceAt(t, s, k, v, nexts).key[x] = IF x = s THEN k ELSE t.key[x]
              /\ PlaceAt(t, s, k, v, nexts).val[x] = IF x = s THEN v ELSE t.val[x]
         /\ PlaceAt(t, s, k, v, nexts).next = nexts
<1> DEFINE placed == PlaceAt(t, s, k, v, nexts)
<1>1. /\ placed.size = t.size
      /\ placed.key = [t.key EXCEPT ![s] = k]
      /\ placed.val = [t.val EXCEPT ![s] = v]
      /\ placed.next = nexts
      /\ placed \in [size : {t.size},
                     key  : [SlotsOf(t) -> Key \cup {NoKey}],
                     val  : [SlotsOf(t) -> Val \cup {NoVal}],
                     next : [SlotsOf(t) -> SlotsOf(t) \cup {End, Free}]]
  BY DEF IsTable, PlaceAt, Nexts
<1>2. SlotsOf(placed) = SlotsOf(t)
  BY <1>1 DEF SlotsOf
<1>3. IsTable(placed)
  <2> HIDE DEF placed
  <2> QED BY <1>1, <1>2 DEF IsTable
<1>4. \A x \in SlotsOf(t) : /\ placed.key[x] = IF x = s THEN k ELSE t.key[x]
                            /\ placed.val[x] = IF x = s THEN v ELSE t.val[x]
  <2> HIDE DEF placed
  <2> QED BY <1>1 DEF IsTable
<1> QED BY <1>1, <1>2, <1>3, <1>4

(* The main slot is free. *)
LEMMA AddToMain ==
  ASSUME NEW hash, HashesKeys(hash), NEW t, GoodTable(hash, t),
         NEW k \in Key, NEW v \in Val, k \notin KeysOf(t),
         NEW m \in SlotsOf(t), m = MainSlot(hash, t, k), t.next[m] = Free
  PROVE  IsAdded(hash, t, k, v, PlaceAt(t, m, k, v, [t.next EXCEPT ![m] = End]))
<1> DEFINE added == PlaceAt(t, m, k, v, [t.next EXCEPT ![m] = End])
           S == SlotsOf(t)
           U == Used(t)
<1>1. /\ \A s \in S : s \in U <=> t.next[s] # Free
      /\ U \subseteq S /\ m \notin U /\ End # Free /\ End \notin S /\ Free \notin S
  BY SlotsAreNumbers DEF GoodTable, Used
<1>2. /\ IsTable(added) /\ added.size = t.size /\ SlotsOf(added) = S
      /\ \A s \in S : /\ added.key[s] = IF s = m THEN k ELSE t.key[s]
                      /\ added.val[s] = IF s = m THEN v ELSE t.val[s]
                      /\ added.next[s] = IF s = m THEN End ELSE t.next[s]
  <2> DEFINE nexts == [t.next EXCEPT ![m] = End]
  <2>1. /\ nexts \in Nexts(t) /\ IsTable(t)
        /\ \A s \in S : nexts[s] = IF s = m THEN End ELSE t.next[s]
    BY DEF GoodTable, IsTable, Nexts
  <2> HIDE DEF nexts
  <2>2. added = PlaceAt(t, m, k, v, nexts)
    BY DEF nexts
  <2> HIDE DEF added
  <2> QED BY <2>1, <2>2, PlaceAtIs
<1> HIDE DEF added
<1>3. Used(added) = U \cup {m}
  BY <1>1, <1>2 DEF Used
<1>4. /\ \A s \in U : Home(hash, added, s) = Home(hash, t, s)
      /\ Home(hash, added, m) = m
  BY <1>1, <1>2 DEF Home, MainSlot
<1>5. /\ \A s \in U : /\ s # m /\ t.next[s] # m /\ t.next[s] \in U \cup {End}
                      /\ t.key[s] # k /\ t.key[s] \in Key /\ t.val[s] \in Val
                      /\ Home(hash, t, s) \in U
  BY <1>1, UsedSlots DEF KeysOf
<1>6. SlotsAreFilled(added)
  BY <1>1, <1>2, ScatterTableAssumption DEF GoodTable, SlotsAreFilled
<1>7. ListsStayHome(hash, added)
  BY <1>1, <1>2, <1>3, <1>4, <1>5 DEF GoodTable, ListsStayHome
<1>8. ListsAreDisjoint(added)
  BY <1>1, <1>2, <1>3, <1>5 DEF GoodTable, ListsAreDisjoint
<1>9. KeysAreDistinct(added)
  BY <1>1, <1>2, <1>3, <1>5 DEF GoodTable, KeysAreDistinct
<1>10. HomesLead(hash, added)
  <2> SUFFICES ASSUME NEW s \in Used(added), NEW T \in SUBSET S,
                      Home(hash, added, s) \in T, Closed(added, T)
               PROVE  s \in T
    BY <1>2 DEF HomesLead, Leads
  <2>1. CASE s = m
    BY <1>4, <2>1
  <2>2. CASE s # m
    <3> DEFINE R == T \ {m}
    <3>1. Closed(t, R)
      BY <1>1, <1>2, <1>5 DEF Closed
    <3>2. Home(hash, t, s) \in R
      BY <1>3, <1>4, <1>5, <2>2
    <3>3. s \in R
      BY <1>3, <2>2, <3>1, <3>2 DEF GoodTable, HomesLead, Leads
    <3> QED BY <3>3
  <2> QED BY <2>1, <2>2
<1>11. GoodTable(hash, added)
  BY <1>2, <1>6, <1>7, <1>8, <1>9, <1>10 DEF GoodTable
<1>12. \A x, w : Has(added, x, w) <=> Has(t, x, w) \/ (x = k /\ w = v)
  BY <1>1, <1>2, <1>3, <1>5 DEF Has
<1> QED BY <1>1, <1>2, <1>3, <1>11, <1>12 DEF IsAdded, added

(* The main slot holds a key of its own: the entry comes second in its list. *)
LEMMA AddToList ==
  ASSUME NEW hash, HashesKeys(hash), NEW t, GoodTable(hash, t),
         NEW k \in Key, NEW v \in Val, k \notin KeysOf(t),
         NEW m \in Used(t), m = MainSlot(hash, t, k), Home(hash, t, m) = m,
         NEW free \in SlotsOf(t) \ Used(t)
  PROVE  IsAdded(hash, t, k, v,
           PlaceAt(t, free, k, v, [t.next EXCEPT ![free] = t.next[m], ![m] = free]))
<1> DEFINE added == PlaceAt(t, free, k, v,
                            [t.next EXCEPT ![free] = t.next[m], ![m] = free])
           S == SlotsOf(t)
           U == Used(t)
<1>1. /\ \A s \in S : s \in U <=> t.next[s] # Free
      /\ U \subseteq S /\ m \in S /\ free \in S /\ free # m
      /\ End # Free /\ End \notin S /\ Free \notin S
  BY SlotsAreNumbers DEF GoodTable, Used
<1>2. /\ IsTable(added) /\ added.size = t.size /\ SlotsOf(added) = S
      /\ \A s \in S :
           /\ added.key[s] = IF s = free THEN k ELSE t.key[s]
           /\ added.val[s] = IF s = free THEN v ELSE t.val[s]
           /\ added.next[s] = IF s = free THEN t.next[m]
                              ELSE IF s = m THEN free ELSE t.next[s]
  <2> DEFINE nexts == [t.next EXCEPT ![free] = t.next[m], ![m] = free]
  <2>1. /\ nexts \in Nexts(t) /\ IsTable(t)
        /\ \A s \in S : nexts[s] = IF s = free THEN t.next[m]
                                   ELSE IF s = m THEN free ELSE t.next[s]
    BY <1>1 DEF GoodTable, IsTable, Nexts
  <2> HIDE DEF nexts
  <2>2. added = PlaceAt(t, free, k, v, nexts)
    BY DEF nexts
  <2> HIDE DEF added
  <2> QED BY <1>1, <2>1, <2>2, PlaceAtIs
<1> HIDE DEF added
<1>3. Used(added) = U \cup {free}
  BY <1>1, <1>2 DEF Used
<1>4. /\ \A s \in U : Home(hash, added, s) = Home(hash, t, s)
      /\ Home(hash, added, free) = m
  BY <1>1, <1>2 DEF Home, MainSlot
<1>5. /\ \A s \in U : /\ s # free /\ t.next[s] # free /\ t.next[s] \in U \cup {End}
                      /\ t.key[s] # k /\ t.key[s] \in Key /\ t.val[s] \in Val
                      /\ Home(hash, t, s) \in U
  BY <1>1, UsedSlots DEF KeysOf
<1>6. SlotsAreFilled(added)
  BY <1>1, <1>2, ScatterTableAssumption DEF GoodTable, SlotsAreFilled
<1>7. ListsStayHome(hash, added)
  BY <1>1, <1>2, <1>3, <1>4, <1>5 DEF GoodTable, ListsStayHome
<1>8. ListsAreDisjoint(added)
  BY <1>1, <1>2, <1>3, <1>5 DEF GoodTable, ListsAreDisjoint
<1>9. KeysAreDistinct(added)
  BY <1>1, <1>2, <1>3, <1>5 DEF GoodTable, KeysAreDistinct
<1>10. HomesLead(hash, added)
  <2> SUFFICES ASSUME NEW s \in Used(added), NEW T \in SUBSET S,
                      Home(hash, added, s) \in T, Closed(added, T)
               PROVE  s \in T
    BY <1>2 DEF HomesLead, Leads
  <2>1. CASE s = free
    BY <1>1, <1>2, <1>4, <2>1 DEF Closed
  <2>2. CASE s # free
    <3> DEFINE R == T \ {free}
    <3>1. Closed(t, R)
      <4> SUFFICES ASSUME NEW x \in R, t.next[x] \in S PROVE t.next[x] \in R
        BY DEF Closed
      <4>1. x \in U /\ t.next[x] # free
        BY <1>1, <1>5
      <4>2. CASE x = m
        BY <1>1, <1>2, <4>1, <4>2 DEF Closed
      <4>3. CASE x # m
        BY <1>1, <1>2, <4>1, <4>3 DEF Closed
      <4> QED BY <4>2, <4>3
    <3>2. Home(hash, t, s) \in R
      BY <1>1, <1>3, <1>4, <1>5, <2>2
    <3>3. s \in R
      BY <1>3, <2>2, <3>1, <3>2 DEF GoodTable, HomesLead, Leads
    <3> QED BY <3>3
  <2> QED BY <2>1, <2>2
<1>11. GoodTable(hash, added)
  BY <1>2, <1>6, <1>7, <1>8, <1>9, <1>10 DEF GoodTable
<1>12. \A x, w : Has(added, x, w) <=> Has(t, x, w) \/ (x = k /\ w = v)
  BY <1>1, <1>2, <1>3, <1>5 DEF Has
<1> QED BY <1>1, <1>2, <1>3, <1>11, <1>12 DEF IsAdded, added

(* The main slot holds a key of another list: that key moves to a free slot. *)
LEMMA AddByMoving ==
  ASSUME NEW hash, HashesKeys(hash), NEW t, GoodTable(hash, t),
         NEW k \in Key, NEW v \in Val, k \notin KeysOf(t),
         NEW m \in Used(t), m = MainSlot(hash, t, k),
         NEW c, c = Home(hash, t, m), c # m, Used(t) # SlotsOf(t)
  PROVE  IsAdded(hash, t, k, v, Evict(t, m, c, k, v))
<1> DEFINE added == Evict(t, m, c, k, v)
           free == FreeSlot(t, c)
           previous == CHOOSE s \in List(t, c) : t.next[s] = m
           nexts == [t.next EXCEPT ![previous] = free, ![free] = t.next[m], ![m] = End]
           moved == PlaceAt(t, free, t.key[m], t.val[m], nexts)
           S == SlotsOf(t)
           U == Used(t)
<1>1. /\ \A s \in S : s \in U <=> t.next[s] # Free
      /\ U \subseteq S /\ m \in S
      /\ free \in S /\ free \notin U /\ free # m
      /\ End # Free /\ End \notin S /\ Free \notin S
  BY SlotsAreNumbers, FreeSlotIs DEF GoodTable, Used
<1>2. /\ previous \in U /\ t.next[previous] = m /\ previous # m
      /\ Home(hash, t, previous) = c
      /\ \A s \in U : t.next[s] = m => s = previous
  <2>1. PICK p \in U : t.next[p] = m /\ p # m /\ Home(hash, t, p) = c /\ Leads(t, c, p)
    BY PreviousSlot
  <2>2. c \in U /\ c \in S
    BY UsedSlots DEF Used
  <2>3. p \in List(t, c) /\ List(t, c) \subseteq U
    BY <2>1, <2>2, ListOfSlot
  <2>4. \A s \in U : t.next[s] = m => s = p
    BY <1>1, <2>1 DEF GoodTable, ListsAreDisjoint
  <2>5. previous \in List(t, c) /\ t.next[previous] = m
    BY <2>1, <2>3
  <2> HIDE DEF previous
  <2> QED BY <2>1, <2>3, <2>4, <2>5
<1>3. /\ IsTable(added) /\ added.size = t.size /\ SlotsOf(added) = S
      /\ \A s \in S :
           /\ added.key[s] = IF s = m THEN k ELSE IF s = free THEN t.key[m] ELSE t.key[s]
           /\ added.val[s] = IF s = m THEN v ELSE IF s = free THEN t.val[m] ELSE t.val[s]
           /\ added.next[s] = IF s = m THEN End
                              ELSE IF s = free THEN t.next[m]
                              ELSE IF s = previous THEN free ELSE t.next[s]
  <2> HIDE DEF previous, free
  <2>1. /\ nexts \in Nexts(t) /\ IsTable(t) /\ t.key[m] \in Key /\ t.val[m] \in Val
        /\ \A s \in S : nexts[s] = IF s = m THEN End
                                   ELSE IF s = free THEN t.next[m]
                                   ELSE IF s = previous THEN free ELSE t.next[s]
    BY <1>1, <1>2, UsedSlots DEF GoodTable, IsTable, Nexts
  <2>2. added = PlaceAt(moved, m, k, v, moved.next)
    BY DEF Evict, free, previous
  <2> HIDE DEF added, nexts
  <2>3. /\ IsTable(moved) /\ moved.size = t.size /\ SlotsOf(moved) = S
        /\ moved.next = nexts
        /\ \A s \in S : /\ moved.key[s] = IF s = free THEN t.key[m] ELSE t.key[s]
                        /\ moved.val[s] = IF s = free THEN t.val[m] ELSE t.val[s]
    BY <1>1, <2>1, PlaceAtIs, SMTT(40)
  <2> HIDE DEF moved
  <2>4. moved.next \in Nexts(moved) /\ m \in SlotsOf(moved)
    BY <1>1, <2>1, <2>3 DEF Nexts
  <2>5. /\ IsTable(added) /\ added.size = t.size /\ SlotsOf(added) = S
        /\ added.next = nexts
        /\ \A s \in S : /\ added.key[s] = IF s = m THEN k ELSE moved.key[s]
                        /\ added.val[s] = IF s = m THEN v ELSE moved.val[s]
    BY <2>2, <2>3, <2>4, PlaceAtIs
  <2> QED BY <2>1, <2>3, <2>5
<1> HIDE DEF added, previous, free
<1>4. Used(added) = U \cup {free}
  BY <1>1, <1>2, <1>3 DEF Used
<1>5. /\ \A s \in U : s # m => Home(hash, added, s) = Home(hash, t, s)
      /\ Home(hash, added, free) = c
      /\ Home(hash, added, m) = m
  BY <1>1, <1>3 DEF Home, MainSlot
<1>6. /\ \A s \in U : /\ s # free /\ t.next[s] # free /\ t.next[s] \in U \cup {End}
                      /\ t.key[s] # k /\ t.key[s] \in Key /\ t.val[s] \in Val
                      /\ Home(hash, t, s) \in U /\ Home(hash, t, s) # m
      /\ c \in U
  BY <1>1, UsedSlots DEF KeysOf
<1>7. SlotsAreFilled(added)
  <2> SUFFICES ASSUME NEW s \in S
               PROVE  /\ added.next[s] = Free <=> added.key[s] = NoKey
                      /\ added.next[s] = Free <=> added.val[s] = NoVal
    BY <1>3 DEF SlotsAreFilled
  <2>1. CASE s = m
    BY <1>1, <1>3, <2>1, ScatterTableAssumption
  <2>2. CASE s = free
    BY <1>1, <1>3, <1>6, <2>2, ScatterTableAssumption
  <2>3. CASE s # m /\ s # free
    BY <1>1, <1>2, <1>3, <2>3 DEF GoodTable, SlotsAreFilled
  <2> QED BY <2>1, <2>2, <2>3
<1>8. ListsStayHome(hash, added)
  <2> SUFFICES ASSUME NEW s \in Used(added), added.next[s] # End
               PROVE  /\ added.next[s] \in Used(added)
                      /\ Home(hash, added, added.next[s]) = Home(hash, added, s)
                      /\ added.next[s] # Home(hash, added, s)
    BY DEF ListsStayHome
  <2>1. s # m
    BY <1>1, <1>3
  <2>2. CASE s = free
    <3>1. added.next[s] = t.next[m]
      BY <1>1, <1>3, <2>2
    <3>2. /\ t.next[m] \in U /\ t.next[m] # m /\ t.next[m] # c
          /\ Home(hash, t, t.next[m]) = c
      BY <2>1, <3>1, <1>2, NoSlotLeadsToItself DEF GoodTable, ListsStayHome
    <3> QED BY <1>4, <1>5, <2>2, <3>1, <3>2
  <2>3. CASE s = previous
    BY <1>1, <1>2, <1>3, <1>4, <1>5, <1>6, <2>3
  <2>4. CASE s # free /\ s # previous
    <3>1. s \in U /\ added.next[s] = t.next[s] /\ t.next[s] # m
      BY <1>1, <1>2, <1>3, <1>4, <2>1, <2>4
    <3> QED BY <1>4, <1>5, <2>1, <3>1 DEF GoodTable, ListsStayHome
  <2> QED BY <2>2, <2>3, <2>4
<1>9. ListsAreDisjoint(added)
  BY <1>1, <1>2, <1>3, <1>4, <1>6 DEF GoodTable, ListsAreDisjoint
<1>10. KeysAreDistinct(added)
  BY <1>1, <1>2, <1>3, <1>4, <1>6 DEF GoodTable, KeysAreDistinct
<1>11. HomesLead(hash, added)
  <2> SUFFICES ASSUME NEW s \in Used(added), NEW T \in SUBSET S,
                      Home(hash, added, s) \in T, Closed(added, T)
               PROVE  s \in T
    BY <1>3 DEF HomesLead, Leads
  <2> DEFINE R == {x \in S : /\ x # free
                             /\ x # m => x \in T
                             /\ x = m => free \in T}
  <2>0. \A x \in T : added.next[x] \in S => added.next[x] \in T
    BY <1>3 DEF Closed
  <2>1. Closed(t, R)
    <3> SUFFICES ASSUME NEW x \in R, t.next[x] \in S PROVE t.next[x] \in R
      BY DEF Closed
    <3>1. x \in U /\ t.next[x] # free
      BY <1>1, <1>6
    <3>2. CASE x = m
      <4>1. free \in T /\ added.next[free] = t.next[m] /\ t.next[m] # m
        BY <1>1, <1>2, <1>3, <3>2
      <4> QED BY <2>0, <3>1, <3>2, <4>1
    <3>3. CASE x = previous
      <4>1. added.next[x] = free /\ t.next[x] = m
        BY <1>1, <1>2, <1>3, <3>3
      <4> QED BY <1>1, <1>2, <2>0, <3>1, <3>3, <4>1
    <3>4. CASE x # m /\ x # previous
      <4>1. added.next[x] = t.next[x] /\ t.next[x] # m
        BY <1>1, <1>2, <1>3, <3>1, <3>4
      <4> QED BY <2>0, <3>1, <3>4, <4>1
    <3> QED BY <3>2, <3>3, <3>4
  <2>2. CASE s = m
    BY <1>5, <2>2
  <2>3. CASE s = free
    <3>1. c \in R
      BY <1>1, <1>5, <1>6, <2>3
    <3>2. m \in R
      <4> HIDE DEF R
      <4> QED BY <2>1, <3>1 DEF GoodTable, HomesLead, Leads, R
    <3> QED BY <2>3, <3>2
  <2>4. CASE s # m /\ s # free
    <3>1. s \in U /\ Home(hash, t, s) \in R
      BY <1>1, <1>4, <1>5, <1>6, <2>4
    <3>2. s \in R
      <4> HIDE DEF R
      <4> QED BY <2>1, <3>1 DEF GoodTable, HomesLead, Leads, R
    <3> QED BY <2>4, <3>2
  <2> QED BY <2>2, <2>3, <2>4
<1>12. GoodTable(hash, added)
  BY <1>3, <1>7, <1>8, <1>9, <1>10, <1>11 DEF GoodTable
<1>13. \A x, w : Has(added, x, w) <=> Has(t, x, w) \/ (x = k /\ w = v)
  BY <1>1, <1>3, <1>4, <1>6 DEF Has
<1> QED BY <1>1, <1>3, <1>4, <1>12, <1>13 DEF IsAdded, added

(* insert_key and table_insert, of a key that is not there, where is room.   *)
LEMMA InsertIs ==
  ASSUME NEW hash, HashesKeys(hash), NEW t, GoodTable(hash, t),
         NEW k \in Key, NEW v \in Val, k \notin KeysOf(t), Used(t) # SlotsOf(t)
  PROVE  IsAdded(hash, t, k, v, Insert(hash, t, k, v))
<1> DEFINE m == MainSlot(hash, t, k)
           c == MainSlot(hash, t, t.key[m])
           free == FreeSlot(t, c)
<1>1. t.size > 0 /\ IsTable(t)
  BY DEF GoodTable, IsTable, Used, SlotsOf
<1>2. m \in SlotsOf(t) /\ free \in SlotsOf(t) \ Used(t)
  BY <1>1, MainSlotIsSlot, FreeSlotIs
<1>3. Insert(hash, t, k, v) =
        CASE t.next[m] = Free -> PlaceAt(t, m, k, v, [t.next EXCEPT ![m] = End])
          [] t.next[m] # Free /\ c = m ->
               PlaceAt(t, free, k, v, [t.next EXCEPT ![free] = t.next[m], ![m] = free])
          [] OTHER -> Evict(t, m, c, k, v)
  BY DEF Insert
<1>4. c = Home(hash, t, m)
  BY DEF Home
<1> HIDE DEF m, c, free
<1>5. CASE t.next[m] = Free
  <2>1. Insert(hash, t, k, v) = PlaceAt(t, m, k, v, [t.next EXCEPT ![m] = End])
    BY <1>3, <1>5
  <2> QED BY <1>2, <1>5, <2>1, AddToMain DEF m
<1>6. CASE t.next[m] # Free /\ c = m
  <2>1. Insert(hash, t, k, v) =
          PlaceAt(t, free, k, v, [t.next EXCEPT ![free] = t.next[m], ![m] = free])
    BY <1>3, <1>6
  <2>2. m \in Used(t) /\ Home(hash, t, m) = m
    BY <1>2, <1>4, <1>6 DEF Used
  <2> QED BY <1>2, <2>1, <2>2, AddToList DEF m
<1>7. CASE t.next[m] # Free /\ c # m
  <2>1. Insert(hash, t, k, v) = Evict(t, m, c, k, v)
    BY <1>3, <1>7
  <2>2. m \in Used(t)
    BY <1>2, <1>7 DEF Used
  <2> QED BY <1>4, <1>7, <2>1, <2>2, AddByMoving DEF m
<1> QED BY <1>5, <1>6, <1>7

LEMMA EmptyIsGood ==
  ASSUME NEW hash, NEW n \in Nat
  PROVE  /\ GoodTable(hash, EmptyTable(n)) /\ EmptyTable(n).size = n
         /\ Used(EmptyTable(n)) = {}
<1> DEFINE t == EmptyTable(n)
<1>1. /\ t.size = n
      /\ t.key = [s \in 0 .. n - 1 |-> NoKey]
      /\ t.val = [s \in 0 .. n - 1 |-> NoVal]
      /\ t.next = [s \in 0 .. n - 1 |-> Free]
      /\ t \in [size : {n},
                key  : [0 .. n - 1 -> Key \cup {NoKey}],
                val  : [0 .. n - 1 -> Val \cup {NoVal}],
                next : [0 .. n - 1 -> (0 .. n - 1) \cup {End, Free}]]
  BY DEF EmptyTable
<1> HIDE DEF t
<1>2. SlotsOf(t) = 0 .. n - 1
  BY <1>1 DEF SlotsOf
<1>3. IsTable(t)
  BY <1>1, <1>2 DEF IsTable
<1>4. Used(t) = {} /\ SlotsAreFilled(t)
  BY <1>1, <1>2 DEF Used, SlotsAreFilled
<1> QED
  BY <1>1, <1>3, <1>4
  DEF GoodTable, ListsStayHome, ListsAreDisjoint, KeysAreDistinct, HomesLead, t

-------------------------------------------------------------------------------
(* A table is made larger: its entries, slot by slot, come into a new one.   *)

UsedBelow(t, s) == {x \in Used(t) : x < s}

HoldsBelow(hash, t, n, s, into) ==
  /\ GoodTable(hash, into) /\ into.size = n
  /\ Cardinality(Used(into)) = Cardinality(UsedBelow(t, s))
  /\ \A k, v : Has(into, k, v) <=> \E x \in UsedBelow(t, s) : t.key[x] = k /\ t.val[x] = v

LEMMA UsedAreFinite ==
  ASSUME NEW t, IsTable(t)
  PROVE  /\ IsFiniteSet(Used(t)) /\ Cardinality(Used(t)) \in Nat
         /\ Cardinality(Used(t)) <= t.size
         /\ Used(t) # SlotsOf(t) <=> Cardinality(Used(t)) < t.size
<1>1. IsFiniteSet(SlotsOf(t)) /\ Cardinality(SlotsOf(t)) = t.size /\ t.size \in Nat
  BY SlotsAreNumbers DEF IsTable
<1>2. Used(t) \in SUBSET SlotsOf(t)
  BY DEF Used
<1>3. /\ IsFiniteSet(Used(t)) /\ Cardinality(Used(t)) <= Cardinality(SlotsOf(t))
      /\ Cardinality(SlotsOf(t)) = Cardinality(Used(t)) => SlotsOf(t) = Used(t)
  BY <1>1, <1>2, FS_Subset
<1>4. Cardinality(Used(t)) \in Nat
  BY <1>3, FS_CardinalityType
<1> QED BY <1>1, <1>3, <1>4

LEMMA EmptyHoldsNothing ==
  ASSUME NEW hash, NEW t, IsTable(t), NEW n \in Nat
  PROVE  HoldsBelow(hash, t, n, 0, EmptyTable(n))
<1>1. UsedBelow(t, 0) = {}
  BY SlotsAreNumbers DEF UsedBelow, Used
<1> QED BY <1>1, EmptyIsGood DEF HoldsBelow, Has

LEMMA NextSlotComesIn ==
  ASSUME NEW hash, HashesKeys(hash), NEW t, GoodTable(hash, t),
         NEW n \in Nat, n > t.size, NEW s \in SlotsOf(t), NEW into,
         HoldsBelow(hash, t, n, s, into)
  PROVE  HoldsBelow(hash, t, n, s + 1,
           IF t.next[s] = Free THEN into ELSE Insert(hash, into, t.key[s], t.val[s]))
<1>1. s \in Nat /\ s < t.size /\ t.size \in Nat /\ Used(t) \subseteq SlotsOf(t)
  BY SlotsAreNumbers DEF GoodTable, IsTable, Used
<1>2. \A x \in Used(t) : x \in Nat
  BY <1>1, SlotsAreNumbers DEF GoodTable
<1>3. CASE t.next[s] = Free
  <2>1. UsedBelow(t, s + 1) = UsedBelow(t, s)
    BY <1>1, <1>2, <1>3 DEF UsedBelow, Used
  <2> QED BY <1>3, <2>1 DEF HoldsBelow
<1>4. CASE t.next[s] # Free
  <2> DEFINE k == t.key[s]
             v == t.val[s]
  <2>1. s \in Used(t) /\ k \in Key /\ v \in Val
    BY <1>4, UsedSlots DEF Used
  <2>2. UsedBelow(t, s + 1) = UsedBelow(t, s) \cup {s} /\ s \notin UsedBelow(t, s)
    <3>1. \A x \in Used(t) : x < s + 1 <=> x < s \/ x = s
      BY <1>1, <1>2
    <3>2. ~ s < s
      BY <1>1
    <3> QED BY <2>1, <3>1, <3>2 DEF UsedBelow
  <2>3. /\ IsFiniteSet(UsedBelow(t, s)) /\ Cardinality(UsedBelow(t, s)) \in Nat
        /\ Cardinality(UsedBelow(t, s)) <= t.size
    <3>1. UsedBelow(t, s) \in SUBSET Used(t)
      BY DEF UsedBelow
    <3>2. IsFiniteSet(Used(t)) /\ Cardinality(Used(t)) \in Nat /\ Cardinality(Used(t)) <= t.size
      BY UsedAreFinite DEF GoodTable
    <3>3. IsFiniteSet(UsedBelow(t, s)) /\ Cardinality(UsedBelow(t, s)) <= Cardinality(Used(t))
      BY <3>1, <3>2, FS_Subset
    <3> QED BY <1>1, <3>2, <3>3, FS_CardinalityType
  <2>4. Cardinality(UsedBelow(t, s + 1)) = Cardinality(UsedBelow(t, s)) + 1
    BY <2>2, <2>3, FS_AddElement
  <2>5. k \notin KeysOf(into)
    <3> SUFFICES ASSUME NEW y \in Used(into), into.key[y] = k PROVE FALSE
      BY DEF KeysOf
    <3>1. Has(into, k, into.val[y])
      BY DEF Has
    <3>2. PICK x \in UsedBelow(t, s) : t.key[x] = k
      BY <3>1 DEF HoldsBelow
    <3> QED BY <2>1, <2>2, <3>2 DEF UsedBelow, GoodTable, KeysAreDistinct
  <2>6. Used(into) # SlotsOf(into)
    BY <1>1, <2>3, UsedAreFinite DEF HoldsBelow, GoodTable
  <2> DEFINE next == Insert(hash, into, k, v)
  <2>7. IsAdded(hash, into, k, v, next)
    BY <2>1, <2>5, <2>6, InsertIs DEF HoldsBelow
  <2> HIDE DEF next
  <2>8. Cardinality(Used(next)) = Cardinality(Used(into)) + 1
    <3>1. PICK f \in SlotsOf(into) \ Used(into) : Used(next) = Used(into) \cup {f}
      BY <2>7 DEF IsAdded
    <3>2. IsFiniteSet(Used(into)) /\ f \notin Used(into)
      BY UsedAreFinite DEF HoldsBelow, GoodTable
    <3> QED BY <3>1, <3>2, FS_AddElement
  <2>9. ASSUME NEW x, NEW w
        PROVE  Has(next, x, w) <=> \E y \in UsedBelow(t, s + 1) : t.key[y] = x /\ t.val[y] = w
    BY <2>2, <2>7 DEF HoldsBelow, IsAdded
  <2>10. HoldsBelow(hash, t, n, s + 1, next)
    BY <2>4, <2>7, <2>8, <2>9 DEF HoldsBelow, IsAdded
  <2> QED BY <1>4, <2>10 DEF next
<1> QED BY <1>3, <1>4

Incoming(hash, t, s, into) ==
  IF t.next[s - 1] = Free THEN into ELSE Insert(hash, into, t.key[s - 1], t.val[s - 1])

IsInto(hash, t, n, u) ==
  u = [s \in 0 .. t.size |->
        IF s = 0 THEN EmptyTable(n)
        ELSE IF t.next[s - 1] = Free THEN u[s - 1]
        ELSE Insert(hash, u[s - 1], t.key[s - 1], t.val[s - 1])]

(* The recursive function in Rehash exists: the sequence that is made with a *)
(* step that stays among the tables of n slots never needs to be kept there. *)
LEMMA IntoExists ==
  ASSUME NEW hash, HashesKeys(hash), NEW t, GoodTable(hash, t),
         NEW n \in Nat, n > t.size
  PROVE  \E u : IsInto(hash, t, n, u)
<1> DEFINE V == [size : {n},
                 key  : [0 .. n - 1 -> Key \cup {NoKey}],
                 val  : [0 .. n - 1 -> Val \cup {NoVal}],
                 next : [0 .. n - 1 -> (0 .. n - 1) \cup {End, Free}]]
           Kept(s, x) == IF Incoming(hash, t, s, x) \in V THEN Incoming(hash, t, s, x) ELSE x
           F == [s \in 1 .. t.size |-> [x \in V |-> Kept(s, x)]]
<1>1. t.size \in Nat /\ SlotsOf(t) = 0 .. t.size - 1
  BY DEF GoodTable, IsTable, SlotsOf
<1>2. \A x : IsTable(x) /\ x.size = n => x \in V
  BY DEF IsTable, SlotsOf
<1>3. EmptyTable(n) \in V
  BY <1>2, EmptyIsGood DEF GoodTable
<1>4. F \in [1 .. t.size -> [V -> V]]
  <2>1. \A s \in 1 .. t.size : \A x \in V : Kept(s, x) \in V
    <3> HIDE DEF V
    <3> QED OBVIOUS
  <2> HIDE DEF V, Kept
  <2> QED BY <2>1
<1>5. PICK f \in [0 .. t.size -> V] : IsSequence(f, t.size, EmptyTable(n), F)
  <2> HIDE DEF F, V
  <2> QED BY <1>1, <1>3, <1>4, SequenceExists
<1>6. \A s \in 0 .. t.size - 1 :
        /\ s \in 0 .. t.size /\ s + 1 \in 1 .. t.size /\ s \in SlotsOf(t)
        /\ f[s + 1] = Kept(s + 1, f[s])
  <2> TAKE s \in 0 .. t.size - 1
  <2>1. s \in 0 .. t.size /\ s + 1 \in 1 .. t.size /\ (s + 1) - 1 = s /\ s \in SlotsOf(t)
    BY <1>1
  <2>2. f[s] \in V /\ f[s + 1] = F[s + 1][f[s]]
    BY <1>5, <2>1 DEF IsSequence
  <2> HIDE DEF V, Kept
  <2> QED BY <2>1, <2>2
<1> HIDE DEF V, F
<1> DEFINE P == {s \in 0 .. t.size : HoldsBelow(hash, t, n, s, f[s])}
<1>7. 0 \in P
  <2>1. f[0] = EmptyTable(n)
    BY <1>5 DEF IsSequence
  <2> QED BY <1>1, <2>1, EmptyHoldsNothing DEF GoodTable
<1>8. ASSUME NEW s \in 0 .. t.size - 1, s \in P
      PROVE  s + 1 \in P /\ f[s + 1] = Incoming(hash, t, s + 1, f[s])
  <2>1. (s + 1) - 1 = s /\ s + 1 \in 0 .. t.size
    BY <1>1
  <2>2. HoldsBelow(hash, t, n, s + 1, Incoming(hash, t, s + 1, f[s]))
    BY <1>6, <1>8, <2>1, NextSlotComesIn DEF Incoming
  <2>3. Incoming(hash, t, s + 1, f[s]) \in V
    BY <1>2, <2>2 DEF HoldsBelow, GoodTable
  <2> QED BY <1>6, <2>1, <2>2, <2>3
<1>9. \A s \in 0 .. t.size : s \in P
  <2> HIDE DEF P
  <2> QED BY <1>1, <1>7, <1>8, UpTo
<1>10. \A s \in 1 .. t.size : f[s] = Incoming(hash, t, s, f[s - 1])
  <2> TAKE s \in 1 .. t.size
  <2>1. s - 1 \in 0 .. t.size - 1 /\ s - 1 \in 0 .. t.size /\ (s - 1) + 1 = s
    BY <1>1
  <2> HIDE DEF P
  <2> QED BY <1>8, <1>9, <2>1
<1>11. IsInto(hash, t, n, f)
  <2> DEFINE e(s) == IF s = 0 THEN EmptyTable(n)
                     ELSE IF t.next[s - 1] = Free THEN f[s - 1]
                     ELSE Insert(hash, f[s - 1], t.key[s - 1], t.val[s - 1])
  <2>1. ASSUME NEW s \in 0 .. t.size PROVE f[s] = e(s)
    <3>1. s = 0 \/ (s \in 1 .. t.size /\ s # 0)
      BY <1>1
    <3>2. f[0] = EmptyTable(n)
      BY <1>5 DEF IsSequence
    <3> QED BY <1>10, <3>1, <3>2 DEF Incoming
  <2>2. f = [s \in 0 .. t.size |-> f[s]]
    OBVIOUS
  <2>3. f = [s \in 0 .. t.size |-> e(s)]
    <3> HIDE DEF e
    <3> QED BY <2>1, <2>2
  <2> QED BY <2>3 DEF IsInto
<1> QED BY <1>11

(* Load factor: the larger table has all entries. *)
LEMMA RehashIs ==
  ASSUME NEW hash, HashesKeys(hash), NEW t, GoodTable(hash, t),
         NEW n \in Nat, n > t.size
  PROVE  /\ GoodTable(hash, Rehash(hash, t, n)) /\ Rehash(hash, t, n).size = n
         /\ Cardinality(Used(Rehash(hash, t, n))) = Cardinality(Used(t))
         /\ \A k, v : Has(Rehash(hash, t, n), k, v) <=> Has(t, k, v)
<1> DEFINE u == CHOOSE g : IsInto(hash, t, n, g)
<1>1. IsInto(hash, t, n, u)
  BY IntoExists
<1>2. Rehash(hash, t, n) = u[t.size]
  BY DEF Rehash, IsInto
<1> HIDE DEF u
<1>3. t.size \in Nat /\ SlotsOf(t) = 0 .. t.size - 1
  BY DEF GoodTable, IsTable, SlotsOf
<1>4. \A s \in 0 .. t.size : u[s] = IF s = 0 THEN EmptyTable(n) ELSE Incoming(hash, t, s, u[s - 1])
  <2> DEFINE e(s) == IF s = 0 THEN EmptyTable(n)
                     ELSE IF t.next[s - 1] = Free THEN u[s - 1]
                     ELSE Insert(hash, u[s - 1], t.key[s - 1], t.val[s - 1])
  <2>1. u = [s \in 0 .. t.size |-> e(s)]
    BY <1>1 DEF IsInto
  <2>2. \A s \in 0 .. t.size : u[s] = e(s)
    <3> HIDE DEF e
    <3> QED BY <2>1
  <2> QED BY <2>2 DEF Incoming
<1> DEFINE P == {s \in 0 .. t.size : HoldsBelow(hash, t, n, s, u[s])}
<1>5. 0 \in P
  BY <1>3, <1>4, EmptyHoldsNothing DEF GoodTable
<1>6. ASSUME NEW s \in 0 .. t.size - 1, s \in P PROVE s + 1 \in P
  <2>1. /\ (s + 1) - 1 = s /\ s + 1 \in 0 .. t.size /\ s + 1 # 0 /\ s \in SlotsOf(t)
    BY <1>3
  <2>2. u[s + 1] = Incoming(hash, t, s + 1, u[s])
    BY <1>4, <2>1
  <2>3. HoldsBelow(hash, t, n, s + 1, Incoming(hash, t, s + 1, u[s]))
    BY <1>6, <2>1, NextSlotComesIn DEF Incoming
  <2> QED BY <2>1, <2>2, <2>3
<1>7. \A s \in 0 .. t.size : s \in P
  <2> HIDE DEF P
  <2> QED BY <1>3, <1>5, <1>6, UpTo
<1>8. HoldsBelow(hash, t, n, t.size, u[t.size])
  BY <1>3, <1>7
<1>9. UsedBelow(t, t.size) = Used(t)
  BY SlotsAreNumbers DEF GoodTable, UsedBelow, Used
<1> QED BY <1>2, <1>8, <1>9 DEF HoldsBelow, Has

-------------------------------------------------------------------------------
(* Assignments. *)

LEMMA NotFullHasRoom ==
  ASSUME NEW size \in Nat, NEW length \in Nat
  PROVE  /\ ~ IsFull(size, length) => length < size
         /\ NewSize(size) \in Nat /\ NewSize(size) > size
<1>1. \A a \in Nat : a \div LoadShare \in Nat
  BY ScatterTableAssumption
<1>2. size - size \div LoadShare <= size
  BY <1>1
<1>3. ~ IsFull(size, length) => length < size
  BY <1>1, <1>2 DEF IsFull
<1>4. NewSize(size) \in Nat /\ NewSize(size) > size
  BY ScatterTableAssumption DEF NewSize
<1> QED BY <1>3, <1>4

LEMMA NewValueIs ==
  ASSUME NEW hash, NEW t, GoodTable(hash, t), NEW s \in Used(t), NEW v \in Val
  PROVE  /\ GoodTable(hash, [t EXCEPT !.val[s] = v])
         /\ Used([t EXCEPT !.val[s] = v]) = Used(t)
         /\ [t EXCEPT !.val[s] = v].size = t.size
         /\ KeysOf([t EXCEPT !.val[s] = v]) = KeysOf(t)
         /\ \A x, w : Has([t EXCEPT !.val[s] = v], x, w) <=>
              (x = t.key[s] /\ w = v) \/ (x # t.key[s] /\ Has(t, x, w))
<1> DEFINE a == [t EXCEPT !.val[s] = v]
<1>1. /\ a.size = t.size /\ a.key = t.key /\ a.next = t.next
      /\ a.val = [t.val EXCEPT ![s] = v]
      /\ a \in [size : {t.size},
                key  : [SlotsOf(t) -> Key \cup {NoKey}],
                val  : [SlotsOf(t) -> Val \cup {NoVal}],
                next : [SlotsOf(t) -> SlotsOf(t) \cup {End, Free}]]
  BY DEF GoodTable, IsTable
<1> HIDE DEF a
<1>2. SlotsOf(a) = SlotsOf(t) /\ Used(a) = Used(t)
  BY <1>1 DEF SlotsOf, Used
<1>3. IsTable(a)
  BY <1>1, <1>2 DEF GoodTable, IsTable
<1>4. \A x \in SlotsOf(t) : a.val[x] = IF x = s THEN v ELSE t.val[x]
  BY <1>1 DEF GoodTable, IsTable
<1>5. s \in SlotsOf(t) /\ t.next[s] # Free
  BY DEF Used
<1>6. SlotsAreFilled(a)
  BY <1>1, <1>2, <1>4, <1>5, ScatterTableAssumption DEF GoodTable, SlotsAreFilled
<1>7. \A x : Home(hash, a, x) = Home(hash, t, x)
  BY <1>1 DEF Home, MainSlot
<1>8. ListsStayHome(hash, a)
  BY <1>1, <1>2, <1>7 DEF GoodTable, ListsStayHome
<1>9. ListsAreDisjoint(a) /\ KeysAreDistinct(a)
  BY <1>1, <1>2 DEF GoodTable, ListsAreDisjoint, KeysAreDistinct
<1>10. HomesLead(hash, a)
  BY <1>1, <1>2, <1>7 DEF GoodTable, HomesLead, Leads, Closed
<1>11. KeysOf(a) = KeysOf(t)
  BY <1>1, <1>2 DEF KeysOf
<1>12. ASSUME NEW x, NEW w
       PROVE  Has(a, x, w) <=> (x = t.key[s] /\ w = v) \/ (x # t.key[s] /\ Has(t, x, w))
  BY <1>1, <1>2, <1>4 DEF Has, GoodTable, KeysAreDistinct, Used
<1> QED BY <1>1, <1>2, <1>3, <1>6, <1>8, <1>9, <1>10, <1>11, <1>12 DEF GoodTable, a

(* Table a has the entries of t, but the value v for the key k. *)
HoldsAlso(t, k, v, a) ==
  \A x, w : Has(a, x, w) <=> (x = k /\ w = v) \/ (x # k /\ Has(t, x, w))

(* insert_or_assign and table_setindex. *)
LEMMA AssignedIs ==
  ASSUME NEW hash, HashesKeys(hash), NEW t, GoodTable(hash, t),
         NEW k \in Key, NEW v \in Val
  PROVE  LET a == Assigned(hash, t, Cardinality(Used(t)), k, v)
         IN  /\ GoodTable(hash, a)
             /\ Cardinality(Used(a)) = IF k \in KeysOf(t) THEN Cardinality(Used(t))
                                       ELSE Cardinality(Used(t)) + 1
             /\ HoldsAlso(t, k, v, a)
             /\ k \in KeysOf(t) =>
                  a.size = t.size /\ Used(a) = Used(t) /\ a.key = t.key
<1> DEFINE length == Cardinality(Used(t))
           s == Lookup(hash, t, k)
           room == IF IsFull(t.size, length) THEN Rehash(hash, t, NewSize(t.size)) ELSE t
           a == Assigned(hash, t, length, k, v)
<1>1. a = IF s # NoSlot THEN [t EXCEPT !.val[s] = v] ELSE Insert(hash, room, k, v)
  BY DEF Assigned
<1>2. t.size \in Nat /\ length \in Nat /\ length <= t.size
  BY UsedAreFinite DEF GoodTable, IsTable
<1>3. CASE k \in KeysOf(t)
  <2>1. s \in Used(t) /\ s # NoSlot /\ t.key[s] = k
    BY <1>3, LookupIs
  <2>2. a = [t EXCEPT !.val[s] = v]
    BY <1>1, <2>1
  <2>3. [t EXCEPT !.val[s] = v].key = t.key
    BY DEF GoodTable, IsTable
  <2> HIDE DEF s, a
  <2> QED BY <1>3, <2>1, <2>2, <2>3, NewValueIs DEF a, HoldsAlso
<1>4. CASE k \notin KeysOf(t)
  <2>1. a = Insert(hash, room, k, v)
    BY <1>1, <1>4, LookupIs
  <2>2. /\ GoodTable(hash, room) /\ Cardinality(Used(room)) = length
        /\ \A x, w : Has(room, x, w) <=> Has(t, x, w)
        /\ length < room.size
    <3>1. CASE IsFull(t.size, length)
      <4>1. NewSize(t.size) \in Nat /\ NewSize(t.size) > t.size
        BY <1>2, NotFullHasRoom
      <4>2. room = Rehash(hash, t, NewSize(t.size))
        BY <3>1
      <4> HIDE DEF room
      <4> QED BY <1>2, <4>1, <4>2, RehashIs
    <3>2. CASE ~ IsFull(t.size, length)
      BY <1>2, <3>2, NotFullHasRoom
    <3> QED BY <3>1, <3>2
  <2> HIDE DEF room
  <2>3. Used(room) # SlotsOf(room)
    BY <2>2, UsedAreFinite DEF GoodTable
  <2>4. \A x \in Used(room) : room.key[x] # k
    <3> SUFFICES ASSUME NEW x \in Used(room), room.key[x] = k PROVE FALSE
      OBVIOUS
    <3>1. Has(t, k, room.val[x])
      BY <2>2 DEF Has
    <3> QED BY <1>4, <3>1 DEF Has, KeysOf
  <2>5. IsAdded(hash, room, k, v, a)
    BY <2>1, <2>2, <2>3, <2>4, InsertIs DEF KeysOf
  <2> HIDE DEF a
  <2>6. Cardinality(Used(a)) = length + 1
    <3>1. PICK f \in SlotsOf(room) \ Used(room) : Used(a) = Used(room) \cup {f}
      BY <2>5 DEF IsAdded
    <3>2. IsFiniteSet(Used(room)) /\ f \notin Used(room)
      BY <2>2, UsedAreFinite DEF GoodTable
    <3> QED BY <2>2, <3>1, <3>2, FS_AddElement
  <2>7. \A x, w : Has(t, x, w) => x # k
    BY <1>4 DEF Has, KeysOf
  <2>8. ASSUME NEW x, NEW w
        PROVE  Has(a, x, w) <=> (x = k /\ w = v) \/ (x # k /\ Has(t, x, w))
    BY <2>2, <2>5, <2>7 DEF IsAdded
  <2>9. GoodTable(hash, a)
    BY <2>5 DEF IsAdded
  <2> QED BY <1>4, <2>6, <2>8, <2>9 DEF a, HoldsAlso
<1> QED BY <1>3, <1>4

-------------------------------------------------------------------------------
(* An entry is taken out: the others stay, one may move into its slot.       *)

IsRemoved(hash, t, s, removed) ==
  /\ GoodTable(hash, removed)
  /\ removed.size = t.size
  /\ \E f \in Used(t) : Used(removed) = Used(t) \ {f}
  /\ \A x, w : Has(removed, x, w) <=> x # t.key[s] /\ Has(t, x, w)
  /\ \A y \in Used(t) \ {s} :
       \E z \in Used(removed) : removed.key[z] = t.key[y] /\ (z = y \/ z = s)

LEMMA EraseAtIs ==
  ASSUME NEW t, IsTable(t), NEW s \in SlotsOf(t)
  PROVE  /\ IsTable(EraseAt(t, s)) /\ EraseAt(t, s).size = t.size
         /\ SlotsOf(EraseAt(t, s)) = SlotsOf(t)
         /\ \A x \in SlotsOf(t) :
              /\ EraseAt(t, s).key[x] = IF x = s THEN NoKey ELSE t.key[x]
              /\ EraseAt(t, s).val[x] = IF x = s THEN NoVal ELSE t.val[x]
              /\ EraseAt(t, s).next[x] = IF x = s THEN Free ELSE t.next[x]
<1> DEFINE e == EraseAt(t, s)
<1>1. /\ e.size = t.size
      /\ e.key = [t.key EXCEPT ![s] = NoKey]
      /\ e.val = [t.val EXCEPT ![s] = NoVal]
      /\ e.next = [t.next EXCEPT ![s] = Free]
      /\ e \in [size : {t.size},
                key  : [SlotsOf(t) -> Key \cup {NoKey}],
                val  : [SlotsOf(t) -> Val \cup {NoVal}],
                next : [SlotsOf(t) -> SlotsOf(t) \cup {End, Free}]]
  BY DEF IsTable, EraseAt
<1> HIDE DEF e
<1>2. SlotsOf(e) = SlotsOf(t)
  BY <1>1 DEF SlotsOf
<1>3. IsTable(e)
  BY <1>1, <1>2 DEF IsTable
<1>4. \A x \in SlotsOf(t) : /\ e.key[x] = IF x = s THEN NoKey ELSE t.key[x]
                            /\ e.val[x] = IF x = s THEN NoVal ELSE t.val[x]
                            /\ e.next[x] = IF x = s THEN Free ELSE t.next[x]
  BY <1>1 DEF IsTable
<1> QED BY <1>1, <1>2, <1>3, <1>4 DEF e

(* Slot s is taken out of its list, behind slot p.                           *)
IsUnlinked(t, p, s, removed) ==
  /\ SlotsOf(removed) = SlotsOf(t)
  /\ \A x \in SlotsOf(t) :
       removed.next[x] = IF x = s THEN Free ELSE IF x = p THEN t.next[s] ELSE t.next[x]

LEMMA UnlinkedLeads ==
  ASSUME NEW hash, HashesKeys(hash), NEW t, GoodTable(hash, t),
         NEW p \in Used(t), NEW s \in Used(t), t.next[p] = s, p # s,
         NEW removed, IsUnlinked(t, p, s, removed),
         NEW h \in Used(t), NEW x \in Used(t), h # s, x # s, Leads(t, h, x)
  PROVE  Leads(removed, h, x)
<1> DEFINE S == SlotsOf(t)
           U == Used(t)
<1>1. /\ \A y \in S : y \in U <=> t.next[y] # Free
      /\ U \subseteq S /\ End # Free /\ End \notin S /\ Free \notin S
  BY SlotsAreNumbers DEF GoodTable, Used
<1>2. /\ t.next[s] # s
      /\ \A y \in U : t.next[y] = s => y = p
  BY <1>1, NoSlotLeadsToItself DEF GoodTable, ListsAreDisjoint
<1> SUFFICES ASSUME NEW T \in SUBSET S, h \in T, Closed(removed, T) PROVE x \in T
  BY DEF Leads, IsUnlinked
<1> DEFINE R == {y \in S : (y # s => y \in T) /\ (y = s => p \in T)}
<1>3. \A y \in T : removed.next[y] \in S => removed.next[y] \in T
  BY DEF Closed, IsUnlinked
<1>4. Closed(t, R)
  <2> SUFFICES ASSUME NEW y \in R, t.next[y] \in S PROVE t.next[y] \in R
    BY DEF Closed
  <2>1. y \in U
    BY <1>1
  <2>2. CASE y = s
    <3>1. p \in T /\ removed.next[p] = t.next[s]
      BY <1>1, <2>2 DEF IsUnlinked
    <3> QED BY <1>2, <1>3, <2>2, <3>1
  <2>3. CASE y = p
    BY <1>1, <2>3
  <2>4. CASE y # s /\ y # p
    <3>1. removed.next[y] = t.next[y] /\ t.next[y] # s
      BY <1>2, <2>1, <2>4 DEF IsUnlinked
    <3> QED BY <1>3, <2>4, <3>1
  <2> QED BY <2>2, <2>3, <2>4
<1>5. h \in R
  BY <1>1
<1>6. x \in R
  <2> HIDE DEF R
  <2> QED BY <1>4, <1>5 DEF Leads, R
<1> QED BY <1>6

(* The entry is in a slot that is not its main one. *)
LEMMA RemoveBehind ==
  ASSUME NEW hash, HashesKeys(hash), NEW t, GoodTable(hash, t),
         NEW p \in Used(t), NEW s \in Used(t), t.next[p] = s, p # s,
         s # Home(hash, t, s)
  PROVE  IsRemoved(hash, t, s, EraseAt([t EXCEPT !.next[p] = t.next[s]], s))
<1> DEFINE removed == EraseAt([t EXCEPT !.next[p] = t.next[s]], s)
           S == SlotsOf(t)
           U == Used(t)
<1>1. /\ \A x \in S : x \in U <=> t.next[x] # Free
      /\ U \subseteq S /\ p \in S /\ s \in S
      /\ End # Free /\ End \notin S /\ Free \notin S
  BY SlotsAreNumbers DEF GoodTable, Used
<1>2. /\ t.next[s] # s /\ t.next[s] # Free
      /\ \A x \in U : t.next[x] = s => x = p
  BY <1>1, NoSlotLeadsToItself DEF GoodTable, ListsAreDisjoint
<1>3. /\ IsTable(removed) /\ removed.size = t.size /\ SlotsOf(removed) = S
      /\ \A x \in S :
           /\ removed.key[x] = IF x = s THEN NoKey ELSE t.key[x]
           /\ removed.val[x] = IF x = s THEN NoVal ELSE t.val[x]
           /\ removed.next[x] = IF x = s THEN Free
                                ELSE IF x = p THEN t.next[s] ELSE t.next[x]
  <2> DEFINE l == [t EXCEPT !.next[p] = t.next[s]]
  <2>1. /\ l.size = t.size /\ l.key = t.key /\ l.val = t.val
        /\ l.next = [t.next EXCEPT ![p] = t.next[s]]
        /\ l \in [size : {t.size},
                  key  : [SlotsOf(t) -> Key \cup {NoKey}],
                  val  : [SlotsOf(t) -> Val \cup {NoVal}],
                  next : [SlotsOf(t) -> SlotsOf(t) \cup {End, Free}]]
    BY <1>1 DEF GoodTable, IsTable
  <2> HIDE DEF l
  <2>2. SlotsOf(l) = S
    BY <2>1 DEF SlotsOf
  <2>3. IsTable(l)
    BY <2>1, <2>2 DEF GoodTable, IsTable
  <2>4. \A x \in S : l.next[x] = IF x = p THEN t.next[s] ELSE t.next[x]
    BY <2>1 DEF GoodTable, IsTable
  <2>5. removed = EraseAt(l, s)
    BY DEF l
  <2> HIDE DEF removed
  <2> QED BY <1>1, <2>1, <2>2, <2>3, <2>4, <2>5, EraseAtIs, SMTT(40)
<1> HIDE DEF removed
<1>4. Used(removed) = U \ {s}
  BY <1>1, <1>2, <1>3 DEF Used
<1>5. \A x \in U \ {s} : Home(hash, removed, x) = Home(hash, t, x)
  BY <1>1, <1>3 DEF Home, MainSlot
<1>6. \A x \in U : /\ Home(hash, t, x) \in U /\ t.next[x] \in U \cup {End}
                   /\ Home(hash, t, x) # s
  BY UsedSlots
<1>7. SlotsAreFilled(removed)
  <2> SUFFICES ASSUME NEW x \in S
               PROVE  /\ removed.next[x] = Free <=> removed.key[x] = NoKey
                      /\ removed.next[x] = Free <=> removed.val[x] = NoVal
    BY <1>3 DEF SlotsAreFilled
  <2>1. CASE x = s
    BY <1>3, <2>1
  <2>2. CASE x # s
    BY <1>1, <1>2, <1>3, <2>2 DEF GoodTable, SlotsAreFilled
  <2> QED BY <2>1, <2>2
<1>8. ListsStayHome(hash, removed)
  <2> SUFFICES ASSUME NEW x \in Used(removed), removed.next[x] # End
               PROVE  /\ removed.next[x] \in Used(removed)
                      /\ Home(hash, removed, removed.next[x]) = Home(hash, removed, x)
                      /\ removed.next[x] # Home(hash, removed, x)
    BY DEF ListsStayHome
  <2>1. x \in U /\ x # s
    BY <1>4
  <2>2. CASE x = p
    <3>1. removed.next[x] = t.next[s] /\ t.next[s] # End
      BY <1>1, <1>3, <2>1, <2>2
    <3>2. /\ t.next[s] \in U /\ Home(hash, t, t.next[s]) = Home(hash, t, s)
          /\ t.next[s] # Home(hash, t, s)
      BY <3>1 DEF GoodTable, ListsStayHome
    <3>3. Home(hash, t, p) = Home(hash, t, s)
      BY <1>1 DEF GoodTable, ListsStayHome
    <3> QED BY <1>2, <1>4, <1>5, <2>1, <2>2, <3>1, <3>2, <3>3
  <2>3. CASE x # p
    <3>1. removed.next[x] = t.next[x] /\ t.next[x] # s
      BY <1>1, <1>2, <1>3, <2>1, <2>3
    <3> QED BY <1>4, <1>5, <2>1, <3>1 DEF GoodTable, ListsStayHome
  <2> QED BY <2>2, <2>3
<1>9. ListsAreDisjoint(removed)
  BY <1>1, <1>2, <1>3, <1>4, <1>6 DEF GoodTable, ListsAreDisjoint
<1>10. KeysAreDistinct(removed)
  BY <1>1, <1>3, <1>4 DEF GoodTable, KeysAreDistinct
<1>11. HomesLead(hash, removed)
  <2> SUFFICES ASSUME NEW x \in U, x # s PROVE Leads(removed, Home(hash, t, x), x)
    BY <1>4, <1>5 DEF HomesLead
  <2>1. IsUnlinked(t, p, s, removed)
    BY <1>3 DEF IsUnlinked
  <2>2. Leads(t, Home(hash, t, x), x)
    BY DEF GoodTable, HomesLead
  <2> QED BY <1>6, <2>1, <2>2, UnlinkedLeads
<1>12. GoodTable(hash, removed)
  BY <1>3, <1>7, <1>8, <1>9, <1>10, <1>11 DEF GoodTable
<1>13. ASSUME NEW x, NEW w PROVE Has(removed, x, w) <=> x # t.key[s] /\ Has(t, x, w)
  BY <1>1, <1>3, <1>4 DEF Has, GoodTable, KeysAreDistinct
<1>14. \A y \in U \ {s} :
         \E z \in Used(removed) : removed.key[z] = t.key[y] /\ (z = y \/ z = s)
  BY <1>1, <1>3, <1>4
<1> QED BY <1>3, <1>4, <1>12, <1>13, <1>14 DEF IsRemoved, removed

(* No slot leads to a main slot. *)
LEMMA NothingLeadsHome ==
  ASSUME NEW hash, HashesKeys(hash), NEW t, GoodTable(hash, t),
         NEW m \in Used(t), Home(hash, t, m) = m, NEW x \in Used(t)
  PROVE  t.next[x] # m
<1> SUFFICES ASSUME t.next[x] = m PROVE FALSE
  OBVIOUS
<1>1. m # End
  BY SlotsAreNumbers DEF GoodTable, Used
<1>2. Home(hash, t, m) = Home(hash, t, x) /\ m # Home(hash, t, x)
  BY <1>1 DEF GoodTable, ListsStayHome
<1> QED BY <1>2

(* The entry is in the main slot: the second of the list replaces it.        *)
LEMMA RemoveFirst ==
  ASSUME NEW hash, HashesKeys(hash), NEW t, GoodTable(hash, t),
         NEW m \in Used(t), Home(hash, t, m) = m, t.next[m] # End
  PROVE  IsRemoved(hash, t, m, PullUp(t, m))
<1> DEFINE removed == PullUp(t, m)
           n == t.next[m]
           S == SlotsOf(t)
           U == Used(t)
<1>1. /\ \A x \in S : x \in U <=> t.next[x] # Free
      /\ U \subseteq S /\ m \in S /\ n \in S /\ n \in U
      /\ End # Free /\ End \notin S /\ Free \notin S
  BY SlotsAreNumbers, UsedSlots DEF GoodTable, Used
<1>2. /\ n # m /\ t.next[n] # n /\ t.next[n] # Free
      /\ \A x \in U : t.next[x] = n => x = m
      /\ \A x \in U : t.next[x] # m
      /\ Home(hash, t, n) = m
  BY <1>1, NoSlotLeadsToItself, NothingLeadsHome DEF GoodTable, ListsAreDisjoint, ListsStayHome
<1>3. /\ IsTable(removed) /\ removed.size = t.size /\ SlotsOf(removed) = S
      /\ \A x \in S :
           /\ removed.key[x] = IF x = n THEN NoKey ELSE IF x = m THEN t.key[n] ELSE t.key[x]
           /\ removed.val[x] = IF x = n THEN NoVal ELSE IF x = m THEN t.val[n] ELSE t.val[x]
           /\ removed.next[x] = IF x = n THEN Free
                                ELSE IF x = m THEN t.next[n] ELSE t.next[x]
  <2> DEFINE l == [t EXCEPT !.key[m] = t.key[n], !.val[m] = t.val[n], !.next[m] = t.next[n]]
  <2>1. /\ l.size = t.size
        /\ l.key = [t.key EXCEPT ![m] = t.key[n]]
        /\ l.val = [t.val EXCEPT ![m] = t.val[n]]
        /\ l.next = [t.next EXCEPT ![m] = t.next[n]]
        /\ l \in [size : {t.size},
                  key  : [SlotsOf(t) -> Key \cup {NoKey}],
                  val  : [SlotsOf(t) -> Val \cup {NoVal}],
                  next : [SlotsOf(t) -> SlotsOf(t) \cup {End, Free}]]
    BY <1>1 DEF GoodTable, IsTable
  <2>2. removed = EraseAt(l, n)
    BY DEF PullUp
  <2> HIDE DEF l, removed
  <2>3. SlotsOf(l) = S
    BY <2>1 DEF SlotsOf
  <2>4. IsTable(l)
    BY <2>1, <2>3 DEF GoodTable, IsTable
  <2>5. \A x \in S : /\ l.key[x] = IF x = m THEN t.key[n] ELSE t.key[x]
                     /\ l.val[x] = IF x = m THEN t.val[n] ELSE t.val[x]
                     /\ l.next[x] = IF x = m THEN t.next[n] ELSE t.next[x]
    BY <2>1 DEF GoodTable, IsTable
  <2> HIDE DEF n
  <2>6. /\ IsTable(removed) /\ removed.size = t.size /\ SlotsOf(removed) = S
        /\ \A x \in S : /\ removed.key[x] = IF x = n THEN NoKey ELSE l.key[x]
                        /\ removed.val[x] = IF x = n THEN NoVal ELSE l.val[x]
                        /\ removed.next[x] = IF x = n THEN Free ELSE l.next[x]
    BY <1>1, <2>1, <2>2, <2>3, <2>4, EraseAtIs, SMTT(40)
  <2> QED BY <2>5, <2>6
<1> HIDE DEF removed, n
<1>4. Used(removed) = U \ {n}
  BY <1>1, <1>2, <1>3 DEF Used
<1>5. \A x \in U \ {n} : Home(hash, removed, x) = Home(hash, t, x)
  <2> TAKE x \in U \ {n}
  <2>1. CASE x = m
    <3>1. removed.key[x] = t.key[n]
      BY <1>1, <1>3, <2>1
    <3>2. Home(hash, t, n) = Home(hash, t, x)
      BY <1>2, <2>1
    <3> QED BY <1>3, <3>1, <3>2 DEF Home, MainSlot
  <2>2. CASE x # m
    BY <1>1, <1>3, <2>2 DEF Home, MainSlot
  <2> QED BY <2>1, <2>2
<1>6. \A x \in U : /\ Home(hash, t, x) \in U /\ t.next[x] \in U \cup {End}
                   /\ Home(hash, t, x) # n
  BY <1>2, UsedSlots
<1>7. SlotsAreFilled(removed)
  <2> SUFFICES ASSUME NEW x \in S
               PROVE  /\ removed.next[x] = Free <=> removed.key[x] = NoKey
                      /\ removed.next[x] = Free <=> removed.val[x] = NoVal
    BY <1>3 DEF SlotsAreFilled
  <2>1. CASE x = n
    BY <1>3, <2>1
  <2>2. CASE x = m
    BY <1>1, <1>2, <1>3, <2>2 DEF GoodTable, SlotsAreFilled
  <2>3. CASE x # n /\ x # m
    BY <1>3, <2>3 DEF GoodTable, SlotsAreFilled
  <2> QED BY <2>1, <2>2, <2>3
<1>8. ListsStayHome(hash, removed)
  <2> SUFFICES ASSUME NEW x \in Used(removed), removed.next[x] # End
               PROVE  /\ removed.next[x] \in Used(removed)
                      /\ Home(hash, removed, removed.next[x]) = Home(hash, removed, x)
                      /\ removed.next[x] # Home(hash, removed, x)
    BY DEF ListsStayHome
  <2>1. x \in U /\ x # n
    BY <1>4
  <2>2. CASE x = m
    <3>1. removed.next[x] = t.next[n] /\ t.next[n] # End
      BY <1>1, <1>3, <2>1, <2>2
    <3>2. /\ t.next[n] \in U /\ Home(hash, t, t.next[n]) = Home(hash, t, n)
          /\ t.next[n] # Home(hash, t, n)
      BY <1>1, <3>1 DEF GoodTable, ListsStayHome
    <3> QED BY <1>2, <1>4, <1>5, <2>1, <2>2, <3>1, <3>2
  <2>3. CASE x # m
    <3>1. removed.next[x] = t.next[x] /\ t.next[x] # n
      BY <1>1, <1>2, <1>3, <2>1, <2>3
    <3> QED BY <1>4, <1>5, <2>1, <3>1 DEF GoodTable, ListsStayHome
  <2> QED BY <2>2, <2>3
<1>9. ListsAreDisjoint(removed)
  BY <1>1, <1>2, <1>3, <1>4, <1>6 DEF GoodTable, ListsAreDisjoint
<1>10. KeysAreDistinct(removed)
  BY <1>1, <1>2, <1>3, <1>4 DEF GoodTable, KeysAreDistinct
<1>11. HomesLead(hash, removed)
  <2> SUFFICES ASSUME NEW x \in U, x # n PROVE Leads(removed, Home(hash, t, x), x)
    BY <1>4, <1>5 DEF HomesLead
  <2>1. IsUnlinked(t, m, n, removed)
    BY <1>3 DEF IsUnlinked
  <2>2. Leads(t, Home(hash, t, x), x)
    BY DEF GoodTable, HomesLead
  <2>3. t.next[m] = n
    BY DEF n
  <2> QED BY <1>1, <1>2, <1>6, <2>1, <2>2, <2>3, UnlinkedLeads
<1>12. GoodTable(hash, removed)
  BY <1>3, <1>7, <1>8, <1>9, <1>10, <1>11 DEF GoodTable
<1>13. ASSUME NEW x, NEW w PROVE Has(removed, x, w) <=> x # t.key[m] /\ Has(t, x, w)
  <2>1. \A y \in U : t.key[y] = t.key[m] => y = m
    BY DEF GoodTable, KeysAreDistinct
  <2>2. ASSUME Has(removed, x, w) PROVE x # t.key[m] /\ Has(t, x, w)
    <3>1. PICK z \in U \ {n} : removed.key[z] = x /\ removed.val[z] = w
      BY <1>4, <2>2 DEF Has
    <3>2. CASE z = m
      BY <1>1, <1>2, <1>3, <2>1, <3>1, <3>2 DEF Has
    <3>3. CASE z # m
      BY <1>1, <1>3, <2>1, <3>1, <3>3 DEF Has
    <3> QED BY <3>2, <3>3
  <2>3. ASSUME x # t.key[m], Has(t, x, w) PROVE Has(removed, x, w)
    <3>1. PICK z \in U : t.key[z] = x /\ t.val[z] = w
      BY <2>3 DEF Has
    <3>2. CASE z = n
      BY <1>1, <1>2, <1>3, <1>4, <3>1, <3>2 DEF Has
    <3>3. CASE z # n
      BY <1>1, <1>3, <1>4, <2>3, <3>1, <3>3 DEF Has
    <3> QED BY <3>2, <3>3
  <2> QED BY <2>2, <2>3
<1>14. \A y \in U \ {m} :
         \E z \in Used(removed) : removed.key[z] = t.key[y] /\ (z = y \/ z = m)
  <2> TAKE y \in U \ {m}
  <2>1. CASE y = n
    BY <1>1, <1>2, <1>3, <1>4, <2>1
  <2>2. CASE y # n
    BY <1>1, <1>3, <1>4, <2>2
  <2> QED BY <2>1, <2>2
<1> QED BY <1>1, <1>3, <1>4, <1>12, <1>13, <1>14 DEF IsRemoved, removed

(* The entry is in the main slot, and alone in its list. *)
LEMMA RemoveOnly ==
  ASSUME NEW hash, HashesKeys(hash), NEW t, GoodTable(hash, t),
         NEW m \in Used(t), Home(hash, t, m) = m, t.next[m] = End
  PROVE  IsRemoved(hash, t, m, EraseAt(t, m))
<1> DEFINE removed == EraseAt(t, m)
           S == SlotsOf(t)
           U == Used(t)
<1>1. /\ \A x \in S : x \in U <=> t.next[x] # Free
      /\ U \subseteq S /\ m \in S
      /\ End # Free /\ End \notin S /\ Free \notin S
  BY SlotsAreNumbers DEF GoodTable, Used
<1>2. \A x \in U : t.next[x] # m
  BY NothingLeadsHome
<1>3. /\ IsTable(removed) /\ removed.size = t.size /\ SlotsOf(removed) = S
      /\ \A x \in S :
           /\ removed.key[x] = IF x = m THEN NoKey ELSE t.key[x]
           /\ removed.val[x] = IF x = m THEN NoVal ELSE t.val[x]
           /\ removed.next[x] = IF x = m THEN Free ELSE t.next[x]
  BY <1>1, EraseAtIs DEF GoodTable
<1> HIDE DEF removed
<1>4. Used(removed) = U \ {m}
  BY <1>1, <1>3 DEF Used
<1>5. \A x \in U \ {m} : Home(hash, removed, x) = Home(hash, t, x)
  BY <1>1, <1>3 DEF Home, MainSlot
(* No other entry has this main slot, which leads nowhere. *)
<1>6. \A x \in U \ {m} : /\ Home(hash, t, x) \in U /\ t.next[x] \in U \cup {End}
                         /\ Home(hash, t, x) # m
  <2> TAKE x \in U \ {m}
  <2>1. Home(hash, t, x) # m
    <3> SUFFICES ASSUME Home(hash, t, x) = m PROVE FALSE
      OBVIOUS
    <3>1. Closed(t, {m}) /\ {m} \in SUBSET S /\ x \in S
      BY <1>1 DEF Closed
    <3>2. Leads(t, m, x)
      BY DEF GoodTable, HomesLead
    <3>3. x \in {m}
      BY <3>1, <3>2 DEF Leads
    <3> QED BY <3>3
  <2> QED BY <2>1, UsedSlots
<1>7. SlotsAreFilled(removed)
  BY <1>3 DEF GoodTable, SlotsAreFilled
<1>8. ListsStayHome(hash, removed)
  BY <1>1, <1>2, <1>3, <1>4, <1>5, <1>6 DEF GoodTable, ListsStayHome
<1>9. ListsAreDisjoint(removed)
  BY <1>1, <1>3, <1>4 DEF GoodTable, ListsAreDisjoint
<1>10. KeysAreDistinct(removed)
  BY <1>1, <1>3, <1>4 DEF GoodTable, KeysAreDistinct
<1>11. HomesLead(hash, removed)
  <2> SUFFICES ASSUME NEW x \in U \ {m}, NEW T \in SUBSET S,
                      Home(hash, t, x) \in T, Closed(removed, T)
               PROVE  x \in T
    BY <1>3, <1>4, <1>5 DEF HomesLead, Leads
  <2> DEFINE R == T \ {m}
  <2>1. Closed(t, R)
    BY <1>1, <1>2, <1>3 DEF Closed
  <2>2. Home(hash, t, x) \in R
    BY <1>6
  <2>3. x \in R
    BY <2>1, <2>2 DEF GoodTable, HomesLead, Leads
  <2> QED BY <2>3
<1>12. GoodTable(hash, removed)
  BY <1>3, <1>7, <1>8, <1>9, <1>10, <1>11 DEF GoodTable
<1>13. ASSUME NEW x, NEW w PROVE Has(removed, x, w) <=> x # t.key[m] /\ Has(t, x, w)
  BY <1>1, <1>3, <1>4 DEF Has, GoodTable, KeysAreDistinct
<1>14. \A y \in U \ {m} :
         \E z \in Used(removed) : removed.key[z] = t.key[y] /\ (z = y \/ z = m)
  BY <1>1, <1>3, <1>4
<1> QED BY <1>3, <1>4, <1>12, <1>13, <1>14 DEF IsRemoved, removed

(* erase_key and table_delindex. *)
LEMMA EraseIs ==
  ASSUME NEW hash, HashesKeys(hash), NEW t, GoodTable(hash, t), NEW k \in Key
  PROVE  /\ k \notin KeysOf(t) => Erase(hash, t, k) = t
         /\ \A s \in Used(t) : t.key[s] = k => IsRemoved(hash, t, s, Erase(hash, t, k))
<1> DEFINE m == MainSlot(hash, t, k)
           s == Lookup(hash, t, k)
           previous == CHOOSE x \in List(t, m) : t.next[x] = s
<1>1. Erase(hash, t, k) =
        CASE s = NoSlot -> t
          [] s # NoSlot /\ s = m /\ t.next[m] # End -> PullUp(t, m)
          [] s # NoSlot /\ s = m /\ t.next[m] = End -> EraseAt(t, m)
          [] OTHER -> EraseAt([t EXCEPT !.next[previous] = t.next[s]], s)
  BY DEF Erase
<1>2. CASE k \notin KeysOf(t)
  BY <1>1, <1>2, LookupIs DEF KeysOf
<1>3. CASE k \in KeysOf(t)
  <2>1. s \in Used(t) /\ s # NoSlot /\ t.key[s] = k
    BY <1>3, LookupIs
  <2>2. m = Home(hash, t, s)
    BY <2>1 DEF Home
  <2>3. \A x \in Used(t) : t.key[x] = k => x = s
    BY <2>1 DEF GoodTable, KeysAreDistinct
  <2> HIDE DEF s, m
  <2>4. SUFFICES IsRemoved(hash, t, s, Erase(hash, t, k))
    BY <1>3, <2>3
  <2>5. CASE s = m /\ t.next[m] # End
    <3>1. Erase(hash, t, k) = PullUp(t, m)
      BY <1>1, <2>1, <2>5
    <3> QED BY <2>1, <2>2, <2>5, <3>1, RemoveFirst
  <2>6. CASE s = m /\ t.next[m] = End
    <3>1. Erase(hash, t, k) = EraseAt(t, m)
      BY <1>1, <2>1, <2>6
    <3> QED BY <2>1, <2>2, <2>6, <3>1, RemoveOnly
  <2>7. CASE s # m
    <3>1. Erase(hash, t, k) = EraseAt([t EXCEPT !.next[previous] = t.next[s]], s)
      BY <1>1, <2>1, <2>7
    <3>2. PICK p \in Used(t) : t.next[p] = s /\ p # s /\ Leads(t, m, p)
      BY <2>1, <2>2, <2>7, PreviousSlot
    <3>3. m \in Used(t) /\ m \in SlotsOf(t)
      BY <2>1, <2>2, UsedSlots DEF Used
    <3>4. p \in List(t, m) /\ List(t, m) \subseteq Used(t)
      BY <3>2, <3>3, ListOfSlot
    <3>5. \A x \in Used(t) : t.next[x] = s => x = p
      <4>1. s # End
        BY <2>1, SlotsAreNumbers DEF GoodTable, Used
      <4> QED BY <3>2, <4>1 DEF GoodTable, ListsAreDisjoint
    <3>6. previous = p
      BY <3>2, <3>4, <3>5
    <3> HIDE DEF previous
    <3> QED BY <2>1, <2>2, <2>7, <3>1, <3>2, <3>6, RemoveBehind
  <2> QED BY <2>5, <2>6, <2>7
<1> QED BY <1>2, <1>3

-------------------------------------------------------------------------------
(* Tables as maps, and the order of their slots. *)

LEMMA EntriesAre ==
  ASSUME NEW hash, NEW t, GoodTable(hash, t)
  PROVE  /\ Entries(t) = [x \in KeysOf(t) |-> Entries(t)[x]]
         /\ DOMAIN Entries(t) = KeysOf(t)
         /\ \A x, w : Has(t, x, w) <=> x \in KeysOf(t) /\ Entries(t)[x] = w
<1> DEFINE at(x) == CHOOSE s \in Used(t) : t.key[s] = x
<1>1. Entries(t) = [x \in KeysOf(t) |-> t.val[at(x)]]
  BY DEF Entries
<1>2. \A x \in KeysOf(t) : /\ at(x) \in Used(t) /\ t.key[at(x)] = x
                           /\ \A s \in Used(t) : t.key[s] = x => s = at(x)
  BY DEF KeysOf, GoodTable, KeysAreDistinct
<1> HIDE DEF at
<1>3. \A x \in KeysOf(t) : Entries(t)[x] = t.val[at(x)]
  BY <1>1
<1>4. \A x, w : Has(t, x, w) <=> x \in KeysOf(t) /\ Entries(t)[x] = w
  BY <1>2, <1>3 DEF Has, KeysOf
<1>5. Entries(t) = [x \in KeysOf(t) |-> Entries(t)[x]] /\ DOMAIN Entries(t) = KeysOf(t)
  BY <1>1
<1> QED BY <1>4, <1>5

WithEntry(t, k, v) ==
  [x \in KeysOf(t) \cup {k} |-> IF x = k THEN v ELSE Entries(t)[x]]

WithoutEntry(t, k) == [x \in KeysOf(t) \ {k} |-> Entries(t)[x]]

LEMMA EntriesAfterAssigned ==
  ASSUME NEW hash, NEW t, GoodTable(hash, t), NEW a, GoodTable(hash, a),
         NEW k, NEW v, HoldsAlso(t, k, v, a)
  PROVE  /\ KeysOf(a) = KeysOf(t) \cup {k}
         /\ Entries(a) = WithEntry(t, k, v)
<1>1. \A x : x \in KeysOf(a) <=> \E w : Has(a, x, w)
  BY DEF KeysOf, Has
<1>2. \A x : x \in KeysOf(t) <=> \E w : Has(t, x, w)
  BY DEF KeysOf, Has
<1>3. KeysOf(a) = KeysOf(t) \cup {k}
  BY <1>1, <1>2 DEF HoldsAlso
<1>4. /\ Entries(a) = [x \in KeysOf(a) |-> Entries(a)[x]]
      /\ \A x, w : Has(a, x, w) <=> x \in KeysOf(a) /\ Entries(a)[x] = w
      /\ \A x, w : Has(t, x, w) <=> x \in KeysOf(t) /\ Entries(t)[x] = w
  BY EntriesAre
<1>5. \A x \in KeysOf(a) : Entries(a)[x] = IF x = k THEN v ELSE Entries(t)[x]
  BY <1>3, <1>4 DEF HoldsAlso
<1> QED BY <1>3, <1>4, <1>5 DEF WithEntry

LEMMA EntriesAfterRemoved ==
  ASSUME NEW hash, NEW t, GoodTable(hash, t), NEW r, GoodTable(hash, r), NEW k,
         \A x, w : Has(r, x, w) <=> x # k /\ Has(t, x, w)
  PROVE  /\ KeysOf(r) = KeysOf(t) \ {k}
         /\ Entries(r) = WithoutEntry(t, k)
<1>1. \A x : x \in KeysOf(r) <=> \E w : Has(r, x, w)
  BY DEF KeysOf, Has
<1>2. \A x : x \in KeysOf(t) <=> \E w : Has(t, x, w)
  BY DEF KeysOf, Has
<1>3. KeysOf(r) = KeysOf(t) \ {k}
  BY <1>1, <1>2
<1>4. /\ Entries(r) = [x \in KeysOf(r) |-> Entries(r)[x]]
      /\ \A x, w : Has(r, x, w) <=> x \in KeysOf(r) /\ Entries(r)[x] = w
      /\ \A x, w : Has(t, x, w) <=> x \in KeysOf(t) /\ Entries(t)[x] = w
  BY EntriesAre
<1>5. \A x \in KeysOf(r) : Entries(r)[x] = Entries(t)[x]
  BY <1>3, <1>4
<1> QED BY <1>3, <1>4, <1>5 DEF WithoutEntry

(* Erasing a key that may or may not be there. *)
LEMMA ErasedIs ==
  ASSUME NEW hash, HashesKeys(hash), NEW t, GoodTable(hash, t), NEW k \in Key
  PROVE  LET e == Erase(hash, t, k)
         IN  /\ GoodTable(hash, e) /\ e.size = t.size
             /\ Cardinality(Used(e)) = IF k \in KeysOf(t) THEN Cardinality(Used(t)) - 1
                                       ELSE Cardinality(Used(t))
             /\ KeysOf(e) = KeysOf(t) \ {k}
             /\ Entries(e) = WithoutEntry(t, k)
<1> DEFINE e == Erase(hash, t, k)
<1>1. CASE k \notin KeysOf(t)
  <2>1. e = t
    BY <1>1, EraseIs
  <2>2. KeysOf(t) \ {k} = KeysOf(t)
    BY <1>1
  <2>3. Entries(t) = WithoutEntry(t, k)
    BY <2>2, EntriesAre DEF WithoutEntry
  <2> QED BY <1>1, <2>1, <2>2, <2>3
<1>2. CASE k \in KeysOf(t)
  <2>1. PICK s \in Used(t) : t.key[s] = k
    BY <1>2 DEF KeysOf
  <2>2. IsRemoved(hash, t, s, e)
    BY <2>1, EraseIs
  <2> HIDE DEF e
  <2>3. GoodTable(hash, e) /\ e.size = t.size
    BY <2>2 DEF IsRemoved
  <2>4. Cardinality(Used(e)) = Cardinality(Used(t)) - 1
    <3>1. PICK f \in Used(t) : Used(e) = Used(t) \ {f}
      BY <2>2 DEF IsRemoved
    <3>2. IsFiniteSet(Used(t))
      BY UsedAreFinite DEF GoodTable
    <3> QED BY <3>1, <3>2, FS_RemoveElement
  <2>5. \A x, w : Has(e, x, w) <=> x # k /\ Has(t, x, w)
    BY <2>1, <2>2 DEF IsRemoved
  <2>6. /\ KeysOf(e) = KeysOf(t) \ {k}
        /\ Entries(e) = WithoutEntry(t, k)
    BY <2>3, <2>5, EntriesAfterRemoved
  <2> QED BY <1>2, <2>3, <2>4, <2>6 DEF e
<1> QED BY <1>1, <1>2

LEMMA NextUsedIs ==
  ASSUME NEW t, IsTable(t), NEW s
  PROVE  /\ NextUsed(t, s) \in Used(t) \cup {t.size}
         /\ NextUsed(t, s) \in Used(t) => NextUsed(t, s) >= s
         /\ \A x \in Used(t) : x >= s => x >= NextUsed(t, s) /\ NextUsed(t, s) \in Used(t)
<1> DEFINE used == {x \in Used(t) : x >= s}
<1>1. NextUsed(t, s) = IF used = {} THEN t.size ELSE Min(used)
  BY DEF NextUsed
<1>2. used \in SUBSET Nat /\ used \subseteq Used(t) /\ t.size \notin Used(t)
  BY SlotsAreNumbers DEF Used
<1>3. CASE used = {}
  BY <1>1, <1>2, <1>3
<1>4. CASE used # {}
  <2>1. Min(used) \in used /\ \A x \in used : Min(used) <= x
    <3> HIDE DEF used
    <3> QED BY <1>2, <1>4, LeastIs
  <2>2. NextUsed(t, s) \in used /\ \A x \in used : x >= NextUsed(t, s)
    <3>1. \A x \in used : x \in Nat
      BY <1>2
    <3> HIDE DEF used
    <3> QED BY <1>1, <1>4, <2>1, <3>1
  <2> QED BY <2>2
<1> QED BY <1>3, <1>4

(* What LookupFinds of the hash table asks for. *)
LEMMA GoodTableLists ==
  ASSUME NEW hash, HashesKeys(hash), NEW t, GoodTable(hash, t)
  PROVE  ListsAreBuckets(hash, t) /\ ListsAreDisjoint(t)
<1> SUFFICES ASSUME NEW s \in Used(t)
             PROVE  /\ s \in List(t, MainSlot(hash, t, t.key[s]))
                    /\ \A x \in List(t, s) :
                         MainSlot(hash, t, t.key[x]) = MainSlot(hash, t, t.key[s])
  BY DEF ListsAreBuckets, GoodTable
<1>1. Home(hash, t, s) \in Used(t)
  BY UsedSlots
<1>2. s \in SlotsOf(t) /\ Home(hash, t, s) \in SlotsOf(t)
  BY <1>1 DEF Used
<1>3. s \in List(t, Home(hash, t, s))
  BY <1>1, <1>2, ListOfSlot DEF GoodTable, HomesLead
<1>4. \A x \in List(t, s) : Home(hash, t, x) = Home(hash, t, s)
  BY <1>2, ListOfSlot
<1> QED BY <1>3, <1>4 DEF Home
================================================================================
