------------------------------ MODULE LookupProofs -----------------------------
(*****************************************************************************)
(* Theorems about lookup objects: the invariant of layouts, tables, slots    *)
(* and selectors, the properties that follow from it, and that the objects   *)
(* behave to a script as Prototypes says.                                    *)
(*****************************************************************************)
EXTENDS Lookup, TLAPS, FiniteSetTheorems, WellFoundedInduction, SequenceTheorems

--------------------------------------------------------------------------------
(* Numbers. *)

(* A set of numbers has a least one.                                         *)
LEMMA LeastNumber ==
  ASSUME NEW T \in SUBSET Nat, T # {}
  PROVE  \E x \in T : \A y \in T : x <= y
<1> DEFINE less == OpToRel(<, Nat)
<1>1. IsWellFoundedOn(less, Nat)
  BY NatLessThanWellFounded
<1>2. \A y, x \in Nat : y < x => <<y, x>> \in less
  BY DEF OpToRel
<1> HIDE DEF less
<1>3. PICK x \in T : \A y \in T : ~ (<<y, x>> \in less)
  BY <1>1, WFMin
<1>4. \A y \in T : x <= y
  <2> TAKE y \in T
  <2>1. x \in Nat /\ y \in Nat /\ ~ y < x
    BY <1>2, <1>3
  <2> QED BY <2>1
<1> QED BY <1>4

(* A set that has 0, and with each number below N the next, has all up to N. *)
LEMMA UpTo ==
  ASSUME NEW N \in Nat, NEW P, 0 \in P,
         \A n \in 0 .. N - 1 : n \in P => n + 1 \in P
  PROVE  \A n \in 0 .. N : n \in P
<1> DEFINE T == {n \in 0 .. N : n \notin P}
<1> SUFFICES ASSUME T # {} PROVE FALSE
  OBVIOUS
<1>1. PICK x \in T : \A y \in T : x <= y
  <2>1. T \in SUBSET Nat
    OBVIOUS
  <2> HIDE DEF T
  <2> QED BY <2>1, LeastNumber
<1>2. x # 0 /\ x - 1 \in 0 .. N - 1 /\ x - 1 \notin T
  BY <1>1
<1> QED BY <1>2

(* The largest member of a set of indexes.                                   *)
LEMMA MaxIs ==
  ASSUME NEW N \in Int, NEW T \in SUBSET (0 .. N), T # {}
  PROVE  Max(T) \in T /\ \A y \in T : y <= Max(T)
<1> DEFINE U == {N - x : x \in T}
<1>1. U \in SUBSET Nat /\ U # {}
  <2>1. ASSUME NEW x \in T PROVE N - x \in Nat
    <3>1. x \in 0 .. N
      OBVIOUS
    <3> QED BY <3>1
  <2>2. U # {}
    OBVIOUS
  <2> QED BY <2>1, <2>2
<1>2. PICK u \in U : \A y \in U : u <= y
  <2> HIDE DEF U
  <2> QED BY <1>1, LeastNumber
<1>3. PICK x \in T : u = N - x
  BY <1>2
<1>4. \A y \in T : x >= y
  <2> TAKE y \in T
  <2>1. N - y \in U /\ x \in Int /\ y \in Int
    OBVIOUS
  <2>2. N - x <= N - y
    BY <1>2, <1>3, <2>1
  <2> QED BY <2>1, <2>2
<1>5. \E z \in T : \A y \in T : z >= y
  BY <1>4
<1>6. Max(T) \in T /\ \A y \in T : Max(T) >= y
  BY <1>5 DEF Max
<1>7. \A y \in T : y \in Int
  OBVIOUS
<1> QED BY <1>6, <1>7

(* An address that nothing has.                                              *)
LEMMA UnusedIs ==
  ASSUME NEW f, IsFiniteSet(DOMAIN f)
  PROVE  /\ Unused(f) \in Nat \ {0} /\ Unused(f) \notin DOMAIN f
         /\ Unused(f) <= Cardinality(DOMAIN f) + 1
         /\ Cardinality(DOMAIN f) \in Nat
<1> DEFINE n == Cardinality(DOMAIN f)
           T == (1 .. n + 1) \ DOMAIN f
<1>1. n \in Nat
  BY FS_CardinalityType
<1>2. T # {}
  <2> SUFFICES ASSUME 1 .. n + 1 \subseteq DOMAIN f PROVE FALSE
    OBVIOUS
  <2>1. Cardinality(1 .. n + 1) = n + 1
    <3>1. Cardinality(1 .. n + 1) = IF 1 > n + 1 THEN 0 ELSE n + 1 - 1 + 1
      BY <1>1, FS_Interval
    <3> QED BY <1>1, <3>1
  <2>2. Cardinality(1 .. n + 1) <= Cardinality(DOMAIN f)
    BY FS_Subset
  <2> QED BY <1>1, <2>1, <2>2
<1>3. T \in SUBSET Nat
  BY <1>1
<1>4. PICK x \in T : \A y \in T : x <= y
  <2> HIDE DEF T
  <2> QED BY <1>2, <1>3, LeastNumber
<1>5. Min(T) \in T
  BY <1>4 DEF Min
<1>6. Unused(f) \in T
  BY <1>5 DEF Unused
<1> QED BY <1>1, <1>6

--------------------------------------------------------------------------------
(* Layouts. *)

IsVm(v) ==
  /\ v = [layouts |-> v.layouts, next_cookie |-> v.next_cookie,
          instance_layouts |-> v.instance_layouts,
          splitkey_layouts |-> v.splitkey_layouts]
  /\ DOMAIN v.layouts \in SUBSET (Nat \ {0}) /\ IsFiniteSet(DOMAIN v.layouts)
  /\ v.layouts \in [DOMAIN v.layouts ->
                      [parent : Nat \cup {Null}, key : Key \cup {Null}, cookie : Nat,
                       sindex : Nat \cup {NoIndex}, next : Nat \cup {Null}]]
  /\ v.next_cookie \in Nat
  /\ DOMAIN v.instance_layouts \in SUBSET (Nat \cup {Null})
  /\ v.instance_layouts \in [DOMAIN v.instance_layouts -> DOMAIN v.layouts]
  /\ DOMAIN v.splitkey_layouts \in SUBSET ((DOMAIN v.layouts) \X Key)
  /\ v.splitkey_layouts \in [DOMAIN v.splitkey_layouts -> DOMAIN v.layouts]

IsChild(v, p, l) ==
  /\ p \in DOMAIN v.layouts /\ l \in DOMAIN v.layouts
  /\ v.layouts[l].key # Null /\ v.layouts[l].parent = p

(* A root layout is that of its prototype.                                   *)
RootsAreInstances(v) ==
  \A l \in DOMAIN v.layouts :
    v.layouts[l].key = Null =>
      /\ v.layouts[l].sindex = NoIndex
      /\ v.layouts[l].parent \in DOMAIN v.instance_layouts
      /\ v.instance_layouts[v.layouts[l].parent] = l

(* Another is found from its parent, which has one index less.               *)
ParentsLead(v) ==
  \A l \in DOMAIN v.layouts :
    v.layouts[l].key # Null =>
      /\ v.layouts[l].parent \in DOMAIN v.layouts
      /\ v.layouts[l].sindex = v.layouts[v.layouts[l].parent].sindex + 1
      /\ \/ v.layouts[v.layouts[l].parent].next = l
         \/ /\ <<v.layouts[l].parent, v.layouts[l].key>> \in DOMAIN v.splitkey_layouts
            /\ v.splitkey_layouts[<<v.layouts[l].parent, v.layouts[l].key>>] = l

LinksLead(v) ==
  /\ \A l \in DOMAIN v.layouts :
       v.layouts[l].next # Null => IsChild(v, l, v.layouts[l].next)
  /\ \A p \in DOMAIN v.instance_layouts :
       /\ v.layouts[v.instance_layouts[p]].key = Null
       /\ v.layouts[v.instance_layouts[p]].parent = p
  /\ \A x \in DOMAIN v.splitkey_layouts :
       /\ IsChild(v, x[1], v.splitkey_layouts[x])
       /\ v.layouts[v.splitkey_layouts[x]].key = x[2]
       /\ v.layouts[x[1]].next # Null => v.layouts[v.layouts[x[1]].next].key # x[2]

CookiesAreDistinct(v) ==
  /\ \A l \in DOMAIN v.layouts : v.layouts[l].cookie \in 1 .. v.next_cookie
  /\ \A l, m \in DOMAIN v.layouts : v.layouts[l].cookie = v.layouts[m].cookie => l = m

GoodVm(v) ==
  /\ IsVm(v)
  /\ RootsAreInstances(v)
  /\ ParentsLead(v)
  /\ LinksLead(v)
  /\ CookiesAreDistinct(v)

--------------------------------------------------------------------------------
(* Paths. *)

IsPath(v, l, p) ==
  /\ p \in [NoIndex .. v.layouts[l].sindex -> DOMAIN v.layouts]
  /\ p[v.layouts[l].sindex] = l
  /\ \A i \in 0 .. v.layouts[l].sindex : p[i - 1] = v.layouts[p[i]].parent

(* What a layout has: an index and a key, or neither.                        *)
LEMMA LayoutIs ==
  ASSUME NEW v, GoodVm(v), NEW l \in DOMAIN v.layouts
  PROVE  /\ v.layouts[l].sindex \in Nat \cup {NoIndex} /\ v.layouts[l].sindex \in Int
         /\ v.layouts[l].sindex >= NoIndex
         /\ v.layouts[l].key = Null <=> v.layouts[l].sindex = NoIndex
         /\ v.layouts[l].key # Null =>
              /\ v.layouts[l].key \in Key
              /\ v.layouts[l].parent \in DOMAIN v.layouts
              /\ v.layouts[v.layouts[l].parent].sindex = v.layouts[l].sindex - 1
<1>1. /\ v.layouts[l].sindex \in Nat \cup {NoIndex}
      /\ v.layouts[l].key \in Key \cup {Null}
  BY DEF GoodVm, IsVm
<1>2. v.layouts[l].key = Null => v.layouts[l].sindex = NoIndex
  BY DEF GoodVm, RootsAreInstances
<1>3. v.layouts[l].key # Null =>
         /\ v.layouts[l].parent \in DOMAIN v.layouts
         /\ v.layouts[l].sindex = v.layouts[v.layouts[l].parent].sindex + 1
  BY DEF GoodVm, ParentsLead
<1>4. v.layouts[l].key # Null => v.layouts[v.layouts[l].parent].sindex \in Nat \cup {NoIndex}
  BY <1>3 DEF GoodVm, IsVm
<1> QED BY <1>1, <1>2, <1>3, <1>4 DEF NoIndex

(* A layout of a path has the index it is at, and a key unless it is the root. *)
LEMMA IndexesOnPath ==
  ASSUME NEW v, GoodVm(v), NEW l \in DOMAIN v.layouts, NEW p, IsPath(v, l, p)
  PROVE  /\ \A i \in NoIndex .. v.layouts[l].sindex : v.layouts[p[i]].sindex = i
         /\ \A i \in 0 .. v.layouts[l].sindex : v.layouts[p[i]].key \in Key
              /\ v.layouts[p[i]].key # Null
         /\ v.layouts[p[NoIndex]].key = Null
<1> DEFINE s == v.layouts[l].sindex
           P == {n \in 0 .. s + 1 : v.layouts[p[s - n]].sindex = s - n}
<1>1. s \in Int /\ s >= NoIndex /\ s + 1 \in Nat
  BY LayoutIs DEF NoIndex
<1>2. \A n \in 0 .. s + 1 : s - n \in NoIndex .. s /\ p[s - n] \in DOMAIN v.layouts
  <2> TAKE n \in 0 .. s + 1
  <2>1. s - n \in NoIndex .. s
    BY <1>1 DEF NoIndex
  <2> QED BY <2>1 DEF IsPath
<1>3. 0 \in P
  BY <1>1 DEF IsPath
<1>4. ASSUME NEW n \in 0 .. (s + 1) - 1, n \in P PROVE n + 1 \in P
  <2>1. s - n \in 0 .. s /\ (s - n) - 1 = s - (n + 1) /\ n + 1 \in 0 .. s + 1
    BY <1>1
  <2>2. p[s - n] \in DOMAIN v.layouts /\ v.layouts[p[s - n]].sindex = s - n /\ s - n # NoIndex
    BY <1>1, <1>2, <1>4 DEF NoIndex
  <2>3. v.layouts[v.layouts[p[s - n]].parent].sindex = (s - n) - 1
    BY <2>2, LayoutIs
  <2>4. p[(s - n) - 1] = v.layouts[p[s - n]].parent
    BY <2>1 DEF IsPath
  <2> QED BY <2>1, <2>3, <2>4
<1>5. \A n \in 0 .. s + 1 : n \in P
  <2> HIDE DEF P
  <2> QED BY <1>1, <1>3, <1>4, UpTo
<1>6. ASSUME NEW i \in NoIndex .. s PROVE v.layouts[p[i]].sindex = i
  <2>1. s - i \in 0 .. s + 1 /\ s - (s - i) = i
    BY <1>1 DEF NoIndex
  <2> QED BY <1>5, <2>1
<1>7. \A i \in NoIndex .. s : p[i] \in DOMAIN v.layouts
  BY DEF IsPath
<1>8. NoIndex \in NoIndex .. s /\ \A i \in 0 .. s : i \in NoIndex .. s /\ i # NoIndex
  BY <1>1 DEF NoIndex
<1>9. \A i \in 0 .. s : v.layouts[p[i]].key # Null /\ v.layouts[p[i]].key \in Key
  BY <1>6, <1>7, <1>8, LayoutIs
<1>10. v.layouts[p[NoIndex]].key = Null
  BY <1>6, <1>7, <1>8, LayoutIs
<1> QED BY <1>6, <1>9, <1>10

(* There is one path to a layout.                                            *)
LEMMA PathIsUnique ==
  ASSUME NEW v, GoodVm(v), NEW l \in DOMAIN v.layouts,
         NEW p, IsPath(v, l, p), NEW q, IsPath(v, l, q)
  PROVE  p = q
<1> DEFINE s == v.layouts[l].sindex
           P == {n \in 0 .. s + 1 : p[s - n] = q[s - n]}
<1>1. s \in Int /\ s >= NoIndex /\ s + 1 \in Nat
  BY LayoutIs DEF NoIndex
<1>2. 0 \in P
  BY <1>1 DEF IsPath
<1>3. ASSUME NEW n \in 0 .. (s + 1) - 1, n \in P PROVE n + 1 \in P
  <2>1. s - n \in 0 .. s /\ (s - n) - 1 = s - (n + 1) /\ n + 1 \in 0 .. s + 1
    BY <1>1
  <2>2. /\ p[(s - n) - 1] = v.layouts[p[s - n]].parent
        /\ q[(s - n) - 1] = v.layouts[q[s - n]].parent
    BY <2>1 DEF IsPath
  <2> QED BY <1>3, <2>1, <2>2
<1>4. \A n \in 0 .. s + 1 : n \in P
  <2> HIDE DEF P
  <2> QED BY <1>1, <1>2, <1>3, UpTo
<1>5. ASSUME NEW i \in NoIndex .. s PROVE p[i] = q[i]
  <2>1. s - i \in 0 .. s + 1 /\ s - (s - i) = i
    BY <1>1 DEF NoIndex
  <2> QED BY <1>4, <2>1
<1>6. p = [i \in NoIndex .. s |-> p[i]] /\ q = [i \in NoIndex .. s |-> q[i]]
  BY DEF IsPath
<1> QED BY <1>5, <1>6

(* The walk from a layout to its root comes to its end.                      *)
LEMMA PathExists ==
  ASSUME NEW v, GoodVm(v), NEW l \in DOMAIN v.layouts
  PROVE  \E p : IsPath(v, l, p)
<1> DEFINE s == v.layouts[l].sindex
           IsFor(n, f) ==
             /\ f \in [s - n .. s -> DOMAIN v.layouts]
             /\ f[s] = l /\ v.layouts[f[s - n]].sindex = s - n
             /\ \A i \in s - n + 1 .. s : f[i - 1] = v.layouts[f[i]].parent
           P == {n \in 0 .. s + 1 : \E f : IsFor(n, f)}
<1>1. s \in Int /\ s >= NoIndex /\ s + 1 \in Nat
  BY LayoutIs DEF NoIndex
<1>2. 0 \in P
  <2>1. s - 0 = s /\ (s - 0) .. s = {s} /\ s - 0 + 1 .. s = {}
    BY <1>1
  <2>2. IsFor(0, [i \in {s} |-> l])
    BY <2>1
  <2>3. \E f : IsFor(0, f)
    BY <2>2
  <2>4. 0 \in 0 .. s + 1
    BY <1>1
  <2> HIDE DEF IsFor
  <2> QED BY <2>3, <2>4
<1>3. ASSUME NEW n \in 0 .. (s + 1) - 1, n \in P PROVE n + 1 \in P
  <2>1. PICK f : IsFor(n, f)
    BY <1>3
  <2>2. s - n \in 0 .. s /\ (s - n) - 1 = s - (n + 1) /\ n + 1 \in 0 .. s + 1 /\ n \in Nat
    BY <1>1
  <2>3. f[s - n] \in DOMAIN v.layouts /\ s - n # NoIndex
    BY <2>1, <2>2 DEF NoIndex
  <2>4. /\ v.layouts[f[s - n]].parent \in DOMAIN v.layouts
        /\ v.layouts[v.layouts[f[s - n]].parent].sindex = s - (n + 1)
    <3>1. v.layouts[f[s - n]].sindex = s - n
      BY <2>1
    <3>2. v.layouts[f[s - n]].key # Null
      BY <2>3, <3>1, LayoutIs
    <3>3. /\ v.layouts[f[s - n]].parent \in DOMAIN v.layouts
          /\ v.layouts[v.layouts[f[s - n]].parent].sindex = v.layouts[f[s - n]].sindex - 1
      BY <2>3, <3>2, LayoutIs
    <3> QED BY <2>2, <3>1, <3>3
  <2> DEFINE g == [i \in s - (n + 1) .. s |->
                     IF i = s - (n + 1) THEN v.layouts[f[s - n]].parent ELSE f[i]]
  <2>5. ASSUME NEW i \in s - (n + 1) .. s, i # s - (n + 1)
        PROVE  i \in s - n .. s /\ f[i] \in DOMAIN v.layouts
    <3>1. i \in s - n .. s
      BY <1>1, <2>2, <2>5
    <3> QED BY <2>1, <3>1
  <2>6. g \in [s - (n + 1) .. s -> DOMAIN v.layouts]
    BY <2>4, <2>5, Zenon
  <2>7. s \in s - (n + 1) .. s /\ s # s - (n + 1) /\ s - (n + 1) \in s - (n + 1) .. s
    BY <1>1, <2>2
  <2>8. g[s] = l /\ v.layouts[g[s - (n + 1)]].sindex = s - (n + 1)
    <3>1. g[s] = f[s] /\ g[s - (n + 1)] = v.layouts[f[s - n]].parent
      BY <2>7
    <3> HIDE DEF g
    <3> QED BY <2>1, <2>4, <3>1, Zenon
  <2>9. ASSUME NEW i \in s - (n + 1) + 1 .. s PROVE g[i - 1] = v.layouts[g[i]].parent
    <3>1. i \in s - (n + 1) .. s /\ i # s - (n + 1) /\ i - 1 \in s - (n + 1) .. s
      BY <1>1, <2>2, SMTT(30)
    <3>2. CASE i = s - n
      BY <2>2, <3>1, <3>2, Zenon
    <3>3. CASE i # s - n
      <4>1. i \in s - n + 1 .. s /\ i - 1 # s - (n + 1)
        BY <1>1, <2>2, <3>1, <3>3
      <4> QED BY <2>1, <3>1, <4>1, Zenon
    <3> QED BY <3>2, <3>3, Zenon
  <2>10. IsFor(n + 1, g)
    BY <2>6, <2>8, <2>9, Zenon
  <2> HIDE DEF IsFor, g
  <2> QED BY <2>2, <2>10
<1>4. \A n \in 0 .. s + 1 : n \in P
  <2> HIDE DEF P
  <2> QED BY <1>1, <1>2, <1>3, UpTo
<1>5. PICK f : IsFor(s + 1, f)
  <2>1. s + 1 \in 0 .. s + 1
    BY <1>1
  <2>2. s + 1 \in P
    <3> HIDE DEF P
    <3> QED BY <1>4, <2>1
  <2> HIDE DEF IsFor
  <2> QED BY <2>2
<1>6. s - (s + 1) = NoIndex /\ s - (s + 1) + 1 = 0
  BY <1>1 DEF NoIndex
<1>7. IsPath(v, l, f)
  BY <1>5, <1>6 DEF IsPath
<1> QED BY <1>7

(* Path is that path.                                                        *)
LEMMA PathIs ==
  ASSUME NEW v, GoodVm(v), NEW l \in DOMAIN v.layouts
  PROVE  IsPath(v, l, Path(v, l))
<1> DEFINE s == v.layouts[l].sindex
           IsOne(g) == g = [i \in NoIndex .. s |-> IF i = s THEN l ELSE v.layouts[g[i + 1]].parent]
           g == CHOOSE p : IsOne(p)
<1>1. s \in Int /\ s >= NoIndex
  BY LayoutIs
<1>2. PICK p : IsPath(v, l, p)
  BY PathExists
<1>3. IsOne(p)
  <2> DEFINE e(i) == IF i = s THEN l ELSE v.layouts[p[i + 1]].parent
  <2>1. ASSUME NEW i \in NoIndex .. s PROVE p[i] = e(i)
    <3>1. CASE i = s
      BY <1>2, <3>1 DEF IsPath
    <3>2. CASE i # s
      <4>1. i + 1 \in 0 .. s /\ (i + 1) - 1 = i
        BY <1>1, <3>2 DEF NoIndex
      <4> QED BY <1>2, <3>2, <4>1 DEF IsPath
    <3> QED BY <3>1, <3>2
  <2>2. p = [i \in NoIndex .. s |-> p[i]]
    BY <1>2 DEF IsPath
  <2>3. p = [i \in NoIndex .. s |-> e(i)]
    <3> HIDE DEF e
    <3> QED BY <2>1, <2>2
  <2> QED BY <2>3
<1>4. IsOne(g)
  BY <1>3, Zenon
<1>5. Path(v, l) = g
  BY DEF Path
<1> HIDE DEF g
<1>6. ASSUME NEW i \in NoIndex .. s PROVE g[i] = IF i = s THEN l ELSE v.layouts[g[i + 1]].parent
  <2> DEFINE e(j) == IF j = s THEN l ELSE v.layouts[g[j + 1]].parent
  <2>1. g = [j \in NoIndex .. s |-> e(j)]
    BY <1>4
  <2>2. g[i] = e(i)
    <3> HIDE DEF e
    <3> QED BY <2>1
  <2> QED BY <2>2
<1>7. DOMAIN g = NoIndex .. s
  BY <1>4
(* Downwards, it is the walk that there is. *)
<1> DEFINE P == {n \in 0 .. s + 1 : g[s - n] = p[s - n]}
<1>8. 0 \in P
  BY <1>1, <1>2, <1>6 DEF IsPath, NoIndex
<1>9. ASSUME NEW n \in 0 .. (s + 1) - 1, n \in P PROVE n + 1 \in P
  <2>1. /\ s - n \in 0 .. s /\ (s - n) - 1 = s - (n + 1) /\ n + 1 \in 0 .. s + 1
        /\ (s - (n + 1)) + 1 = s - n /\ s - (n + 1) \in NoIndex .. s /\ s - (n + 1) # s
    BY <1>1 DEF NoIndex
  <2>2. p[s - (n + 1)] = v.layouts[p[s - n]].parent
    BY <1>2, <2>1 DEF IsPath
  <2>3. g[s - (n + 1)] = v.layouts[g[s - n]].parent
    BY <1>6, <2>1
  <2> QED BY <1>9, <2>1, <2>2, <2>3
<1>10. \A n \in 0 .. s + 1 : n \in P
  <2>1. s + 1 \in Nat
    BY <1>1 DEF NoIndex
  <2> HIDE DEF P
  <2> QED BY <1>8, <1>9, <2>1, UpTo
<1>11. ASSUME NEW i \in NoIndex .. s PROVE g[i] = p[i]
  <2>1. s - i \in 0 .. s + 1 /\ s - (s - i) = i
    BY <1>1 DEF NoIndex
  <2> QED BY <1>10, <2>1
<1>12. g = p
  <2>1. p = [i \in NoIndex .. s |-> p[i]]
    BY <1>2 DEF IsPath
  <2>2. g = [i \in NoIndex .. s |-> g[i]]
    BY <1>4, <1>7
  <2> HIDE DEF s, g
  <2> QED BY <1>11, <2>1, <2>2
<1> QED BY <1>2, <1>5, <1>12

(* What is on the path of a layout.                                          *)
LEMMA PathGives ==
  ASSUME NEW v, GoodVm(v), NEW l \in DOMAIN v.layouts
  PROVE  /\ v.layouts[l].sindex \in Int /\ v.layouts[l].sindex >= NoIndex
         /\ DOMAIN Path(v, l) = NoIndex .. v.layouts[l].sindex
         /\ Path(v, l) = [i \in NoIndex .. v.layouts[l].sindex |-> Path(v, l)[i]]
         /\ Path(v, l)[v.layouts[l].sindex] = l
         /\ \A i \in NoIndex .. v.layouts[l].sindex :
              Path(v, l)[i] \in DOMAIN v.layouts /\ v.layouts[Path(v, l)[i]].sindex = i
         /\ \A i \in 0 .. v.layouts[l].sindex :
              /\ v.layouts[Path(v, l)[i]].parent = Path(v, l)[i - 1]
              /\ v.layouts[Path(v, l)[i]].key \in Key /\ v.layouts[Path(v, l)[i]].key # Null
         /\ NoIndex \in NoIndex .. v.layouts[l].sindex
         /\ v.layouts[Path(v, l)[NoIndex]].key = Null
         /\ v.layouts[Path(v, l)[NoIndex]].parent \in DOMAIN v.instance_layouts
         /\ v.layouts[Path(v, l)[NoIndex]].parent \in Nat \cup {Null}
         /\ v.instance_layouts[v.layouts[Path(v, l)[NoIndex]].parent] = Path(v, l)[NoIndex]
<1>1. IsPath(v, l, Path(v, l))
  BY PathIs
<1>2. /\ v.layouts[l].sindex \in Int /\ v.layouts[l].sindex >= NoIndex
      /\ NoIndex \in NoIndex .. v.layouts[l].sindex
  BY LayoutIs DEF NoIndex
<1>3. /\ \A i \in NoIndex .. v.layouts[l].sindex : v.layouts[Path(v, l)[i]].sindex = i
      /\ \A i \in 0 .. v.layouts[l].sindex :
           v.layouts[Path(v, l)[i]].key \in Key /\ v.layouts[Path(v, l)[i]].key # Null
      /\ v.layouts[Path(v, l)[NoIndex]].key = Null
  BY <1>1, IndexesOnPath
<1>4. /\ Path(v, l) \in [NoIndex .. v.layouts[l].sindex -> DOMAIN v.layouts]
      /\ Path(v, l)[v.layouts[l].sindex] = l
      /\ \A i \in 0 .. v.layouts[l].sindex : Path(v, l)[i - 1] = v.layouts[Path(v, l)[i]].parent
  BY <1>1 DEF IsPath
<1>5. Path(v, l)[NoIndex] \in DOMAIN v.layouts
  BY <1>2, <1>4
<1>6. /\ v.layouts[Path(v, l)[NoIndex]].parent \in DOMAIN v.instance_layouts
      /\ v.instance_layouts[v.layouts[Path(v, l)[NoIndex]].parent] = Path(v, l)[NoIndex]
  BY <1>3, <1>5 DEF GoodVm, RootsAreInstances
<1>7. v.layouts[Path(v, l)[NoIndex]].parent \in Nat \cup {Null}
  BY <1>6 DEF GoodVm, IsVm
<1> QED BY <1>2, <1>3, <1>4, <1>6, <1>7, Zenon

(* From a layout to its root, each is the parent of the one before, and all  *)
(* but the root have a key.                                                  *)
LEMMA PathLeads ==
  ASSUME NEW v, GoodVm(v), NEW l \in DOMAIN v.layouts
  PROVE  /\ DOMAIN Path(v, l) = NoIndex .. v.layouts[l].sindex /\ v.layouts[l].sindex \in Int
         /\ v.layouts[Path(v, l)[NoIndex]].key = Null
         /\ \A i \in 0 .. v.layouts[l].sindex :
              /\ v.layouts[Path(v, l)[i]].parent = Path(v, l)[i - 1]
              /\ v.layouts[Path(v, l)[i]].key # Null
BY PathGives

(* Path is any path there is.                                                *)
LEMMA PathIsThis ==
  ASSUME NEW v, GoodVm(v), NEW l \in DOMAIN v.layouts, NEW p, IsPath(v, l, p)
  PROVE  Path(v, l) = p
BY PathIs, PathIsUnique

(* The path of a layout that is on a path is the start of it.                *)
LEMMA SubPath ==
  ASSUME NEW v, GoodVm(v), NEW l \in DOMAIN v.layouts, NEW j \in NoIndex .. v.layouts[l].sindex
  PROVE  Path(v, Path(v, l)[j]) = [i \in NoIndex .. j |-> Path(v, l)[i]]
<1> DEFINE s == v.layouts[l].sindex
           p == Path(v, l)
           q == [i \in NoIndex .. j |-> p[i]]
<1>1. s \in Int /\ s >= NoIndex /\ j \in NoIndex .. s
  BY LayoutIs
<1>2. /\ \A i \in NoIndex .. s : p[i] \in DOMAIN v.layouts /\ v.layouts[p[i]].sindex = i
      /\ \A i \in 0 .. s : v.layouts[p[i]].parent = p[i - 1]
  BY PathGives
<1> HIDE DEF p, s
<1>3. p[j] \in DOMAIN v.layouts /\ v.layouts[p[j]].sindex = j
  BY <1>1, <1>2
<1>4. \A i \in NoIndex .. j : i \in NoIndex .. s
  BY <1>1 DEF NoIndex
<1>5. q \in [NoIndex .. j -> DOMAIN v.layouts] /\ q[j] = p[j]
  BY <1>1, <1>2, <1>4 DEF NoIndex
<1>6. \A i \in 0 .. j : q[i - 1] = v.layouts[q[i]].parent
  <2> TAKE i \in 0 .. j
  <2>1. i \in 0 .. s /\ i \in NoIndex .. j /\ i - 1 \in NoIndex .. j
    BY <1>1 DEF NoIndex
  <2> QED BY <1>2, <2>1
<1>7. IsPath(v, p[j], q)
  <2> HIDE DEF q
  <2> QED BY <1>3, <1>5, <1>6 DEF IsPath
<1>8. Path(v, p[j]) = q
  <2> HIDE DEF q
  <2> QED BY <1>3, <1>7, PathIsThis
<1> QED BY <1>8 DEF p

(* The path of a layout is that of its parent, and itself.                   *)
LEMMA ChildPath ==
  ASSUME NEW v, GoodVm(v), NEW l, NEW p, IsChild(v, p, l)
  PROVE  /\ v.layouts[l].sindex = v.layouts[p].sindex + 1 /\ v.layouts[l].sindex \in Nat
         /\ Path(v, l)[v.layouts[l].sindex] = l
         /\ \A i \in NoIndex .. v.layouts[p].sindex : Path(v, l)[i] = Path(v, p)[i]
<1>1. /\ l \in DOMAIN v.layouts /\ p \in DOMAIN v.layouts
      /\ v.layouts[l].key # Null /\ v.layouts[l].parent = p
  BY DEF IsChild
<1>2. /\ v.layouts[l].sindex \in Nat /\ v.layouts[p].sindex \in Int
      /\ v.layouts[l].sindex = v.layouts[p].sindex + 1
  BY <1>1, LayoutIs DEF NoIndex
<1>3. /\ Path(v, l)[v.layouts[l].sindex] = l
      /\ v.layouts[Path(v, l)[v.layouts[l].sindex]].parent = Path(v, l)[v.layouts[l].sindex - 1]
  <2>1. v.layouts[l].sindex \in 0 .. v.layouts[l].sindex
    BY <1>2
  <2> QED BY <1>1, <2>1, PathGives
<1>4. Path(v, l)[v.layouts[p].sindex] = p
  <2>1. v.layouts[l].sindex - 1 = v.layouts[p].sindex
    BY <1>2
  <2> QED BY <1>1, <1>3, <2>1
<1>5. v.layouts[p].sindex \in NoIndex .. v.layouts[l].sindex
  <2>1. v.layouts[p].sindex >= NoIndex
    BY <1>1, LayoutIs
  <2> QED BY <1>2, <2>1 DEF NoIndex
<1>6. Path(v, p) = [i \in NoIndex .. v.layouts[p].sindex |-> Path(v, l)[i]]
  <2>1. Path(v, Path(v, l)[v.layouts[p].sindex])
          = [i \in NoIndex .. v.layouts[p].sindex |-> Path(v, l)[i]]
    BY <1>1, <1>5, SubPath
  <2> QED BY <1>4, <2>1
<1> QED BY <1>2, <1>3, <1>6

(* A layout keeps its parent, key, index and cookie.                         *)
Keeps(v, w) ==
  \A l \in DOMAIN v.layouts :
    /\ l \in DOMAIN w.layouts
    /\ w.layouts[l].parent = v.layouts[l].parent
    /\ w.layouts[l].key = v.layouts[l].key
    /\ w.layouts[l].cookie = v.layouts[l].cookie
    /\ w.layouts[l].sindex = v.layouts[l].sindex

(* Layouts that are kept keep their paths.                                   *)
LEMMA PathIsKept ==
  ASSUME NEW v, NEW w, GoodVm(v), GoodVm(w), Keeps(v, w), NEW l \in DOMAIN v.layouts
  PROVE  /\ Path(w, l) = Path(v, l)
         /\ w.layouts[l].sindex = v.layouts[l].sindex
         /\ \A i \in NoIndex .. v.layouts[l].sindex :
              /\ w.layouts[Path(w, l)[i]].key = v.layouts[Path(v, l)[i]].key
              /\ w.layouts[Path(w, l)[i]].parent = v.layouts[Path(v, l)[i]].parent
         /\ \A k : IndexesOf(w, l, k) = IndexesOf(v, l, k) /\ IndexOf(w, l, k) = IndexOf(v, l, k)
<1>1. l \in DOMAIN w.layouts /\ w.layouts[l].sindex = v.layouts[l].sindex
  BY DEF Keeps
<1>2. IsPath(v, l, Path(v, l))
  BY PathIs
<1>3. v.layouts[l].sindex \in Int
  BY LayoutIs
<1>4. IsPath(w, l, Path(v, l))
  <2>1. \A i \in NoIndex .. v.layouts[l].sindex : Path(v, l)[i] \in DOMAIN w.layouts
    BY <1>2 DEF IsPath, Keeps
  <2>2. Path(v, l) \in [NoIndex .. w.layouts[l].sindex -> DOMAIN w.layouts]
    BY <1>1, <1>2, <2>1 DEF IsPath
  <2>3. ASSUME NEW i \in 0 .. v.layouts[l].sindex
        PROVE  Path(v, l)[i - 1] = w.layouts[Path(v, l)[i]].parent
    <3>1. i \in NoIndex .. v.layouts[l].sindex
      BY <1>3 DEF NoIndex
    <3> QED BY <1>2, <3>1 DEF IsPath, Keeps
  <2>4. Path(v, l)[w.layouts[l].sindex] = l
    BY <1>1, <1>2 DEF IsPath
  <2> QED BY <1>1, <2>2, <2>3, <2>4 DEF IsPath
<1>5. Path(w, l) = Path(v, l)
  BY <1>1, <1>4, PathIsThis
<1>6. \A i \in NoIndex .. v.layouts[l].sindex :
        /\ w.layouts[Path(w, l)[i]].key = v.layouts[Path(v, l)[i]].key
        /\ w.layouts[Path(w, l)[i]].parent = v.layouts[Path(v, l)[i]].parent
  BY <1>2, <1>5 DEF IsPath, Keeps
<1>7. ASSUME NEW k PROVE IndexesOf(w, l, k) = IndexesOf(v, l, k)
  <2>1. \A i \in 0 .. v.layouts[l].sindex : i \in NoIndex .. v.layouts[l].sindex
    BY <1>3 DEF NoIndex
  <2> QED BY <1>1, <1>6, <2>1 DEF IndexesOf
<1>8. ASSUME NEW k PROVE IndexOf(w, l, k) = IndexOf(v, l, k)
  BY <1>7 DEF IndexOf
<1> QED BY <1>1, <1>5, <1>6, <1>7, <1>8

(* The index of a key is the last that has it.                               *)
LEMMA IndexOfIs ==
  ASSUME NEW v, GoodVm(v), NEW l \in DOMAIN v.layouts, NEW k, IndexesOf(v, l, k) # {}
  PROVE  /\ IndexOf(v, l, k) \in 0 .. v.layouts[l].sindex /\ IndexOf(v, l, k) \in Nat
         /\ v.layouts[Path(v, l)[IndexOf(v, l, k)]].key = k
         /\ \A i \in 0 .. v.layouts[l].sindex :
              v.layouts[Path(v, l)[i]].key = k => i <= IndexOf(v, l, k)
<1>1. v.layouts[l].sindex \in Int
  BY LayoutIs
<1>2. IndexesOf(v, l, k) \in SUBSET (0 .. v.layouts[l].sindex)
  BY DEF IndexesOf
<1>3. IndexOf(v, l, k) \in IndexesOf(v, l, k) /\ \A i \in IndexesOf(v, l, k) : i <= IndexOf(v, l, k)
  BY <1>1, <1>2, MaxIs DEF IndexOf
<1> QED BY <1>1, <1>3 DEF IndexesOf

--------------------------------------------------------------------------------
(* New layouts. *)

(* w is v with more layouts, that have cookies of their own.                 *)
Grows(v, w) ==
  /\ Keeps(v, w)
  /\ v.next_cookie <= w.next_cookie
  /\ \A l \in DOMAIN w.layouts \ DOMAIN v.layouts : w.layouts[l].cookie > v.next_cookie

(* Growing twice is growing.                                                 *)
LEMMA GrowsOn ==
  ASSUME NEW u, NEW v, NEW w, GoodVm(u), GoodVm(v), GoodVm(w), Grows(u, v), Grows(v, w)
  PROVE  Grows(u, w)
<1>1. u.next_cookie \in Nat /\ v.next_cookie \in Nat /\ w.next_cookie \in Nat
  BY DEF GoodVm, IsVm
<1>2. Keeps(u, w)
  BY DEF Grows, Keeps
<1>3. u.next_cookie <= w.next_cookie
  BY <1>1 DEF Grows
<1>4. ASSUME NEW l \in DOMAIN w.layouts \ DOMAIN u.layouts PROVE w.layouts[l].cookie > u.next_cookie
  <2>1. w.layouts[l].cookie \in Nat
    BY DEF GoodVm, IsVm
  <2>2. CASE l \in DOMAIN v.layouts
    BY <2>2 DEF Grows, Keeps
  <2>3. CASE l \notin DOMAIN v.layouts
    BY <1>1, <2>1, <2>3 DEF Grows
  <2> QED BY <2>2, <2>3
<1> QED BY <1>2, <1>3, <1>4 DEF Grows

NewLayout(v, parent, k) ==
  [parent |-> parent, key |-> k, cookie |-> v.next_cookie + 1,
   sindex |-> IF k = Null THEN NoIndex ELSE v.layouts[parent].sindex + 1, next |-> Null]

(* A root for a prototype that has none.                                     *)
LEMMA NewRoot ==
  ASSUME NEW v, GoodVm(v), NEW prototype \in Nat \cup {Null},
         prototype \notin DOMAIN v.instance_layouts
  PROVE  LET to == layout_new(v, prototype, Null)
         IN  /\ GoodVm(to.vm) /\ Grows(v, to.vm)
             /\ to.vm.next_cookie = v.next_cookie + 1
             /\ to.layout \in DOMAIN to.vm.layouts /\ to.layout \notin DOMAIN v.layouts
             /\ DOMAIN to.vm.layouts = DOMAIN v.layouts \cup {to.layout}
             /\ to.vm.layouts[to.layout].key = Null
             /\ to.vm.layouts[to.layout].parent = prototype
             /\ DOMAIN to.vm.instance_layouts = DOMAIN v.instance_layouts \cup {prototype}
<1> DEFINE l == Unused(v.layouts)
           x == NewLayout(v, prototype, Null)
           layouts == With(v.layouts, l, x)
           w == [layouts |-> layouts, next_cookie |-> v.next_cookie + 1,
                 instance_layouts |-> With(v.instance_layouts, prototype, l),
                 splitkey_layouts |-> v.splitkey_layouts]
           to == layout_new(v, prototype, Null)
<1>1. IsVm(v) /\ RootsAreInstances(v) /\ ParentsLead(v) /\ LinksLead(v) /\ CookiesAreDistinct(v)
  BY DEF GoodVm
<1>2. to = [layout |-> l, vm |-> w]
  <2>1. v = [layouts |-> v.layouts, next_cookie |-> v.next_cookie,
             instance_layouts |-> v.instance_layouts,
             splitkey_layouts |-> v.splitkey_layouts]
    BY <1>1 DEF IsVm
  <2> QED BY <2>1 DEF layout_new, NewLayout, NextCookie
<1>3. l \in Nat \ {0} /\ l \notin DOMAIN v.layouts
  BY <1>1, UnusedIs DEF IsVm
<1>4. /\ DOMAIN layouts = DOMAIN v.layouts \cup {l} /\ layouts[l] = x
      /\ \A m \in DOMAIN v.layouts : layouts[m] = v.layouts[m]
  BY <1>3 DEF With
<1>5. /\ DOMAIN w.instance_layouts = DOMAIN v.instance_layouts \cup {prototype}
      /\ w.instance_layouts[prototype] = l
      /\ \A p \in DOMAIN v.instance_layouts : w.instance_layouts[p] = v.instance_layouts[p]
  BY DEF With
<1>6. /\ x.parent = prototype /\ x.key = Null /\ x.cookie = v.next_cookie + 1
      /\ x.sindex = NoIndex /\ x.next = Null
      /\ x \in [parent : Nat \cup {Null}, key : Key \cup {Null}, cookie : Nat,
                sindex : Nat \cup {NoIndex}, next : Nat \cup {Null}]
  BY <1>1 DEF NewLayout, IsVm
<1>7. /\ w.layouts = layouts /\ w.next_cookie = v.next_cookie + 1
      /\ w.splitkey_layouts = v.splitkey_layouts
      /\ w = [layouts |-> w.layouts, next_cookie |-> w.next_cookie,
              instance_layouts |-> w.instance_layouts, splitkey_layouts |-> w.splitkey_layouts]
  OBVIOUS
<1>8. w.instance_layouts = [p \in DOMAIN w.instance_layouts |-> w.instance_layouts[p]]
  BY DEF With
<1>9. layouts = [m \in DOMAIN layouts |-> layouts[m]]
  BY DEF With
<1> HIDE DEF x, layouts, w, l
<1>10. IsVm(w)
  <2>1. IsFiniteSet(DOMAIN layouts)
    BY <1>1, <1>4, FS_AddElement DEF IsVm
  <2>2. layouts \in [DOMAIN layouts -> [parent : Nat \cup {Null}, key : Key \cup {Null}, cookie :
          Nat,
                       sindex : Nat \cup {NoIndex}, next : Nat \cup {Null}]]
    BY <1>1, <1>4, <1>6, <1>9 DEF IsVm
  <2>3. w.instance_layouts \in [DOMAIN w.instance_layouts -> DOMAIN layouts]
    <3>1. \A p \in DOMAIN w.instance_layouts : w.instance_layouts[p] \in DOMAIN layouts
      BY <1>1, <1>4, <1>5 DEF IsVm
    <3> QED BY <1>8, <3>1
  <2>4. /\ DOMAIN w.splitkey_layouts \in SUBSET ((DOMAIN layouts) \X Key)
        /\ w.splitkey_layouts \in [DOMAIN w.splitkey_layouts -> DOMAIN layouts]
    BY <1>1, <1>4, <1>7 DEF IsVm
  <2>5. DOMAIN layouts \in SUBSET (Nat \ {0}) /\ w.next_cookie \in Nat
        /\ DOMAIN w.instance_layouts \in SUBSET (Nat \cup {Null})
    BY <1>1, <1>3, <1>4, <1>5, <1>7 DEF IsVm
  <2> QED BY <1>7, <2>1, <2>2, <2>3, <2>4, <2>5 DEF IsVm
<1>11. RootsAreInstances(w)
  <2> SUFFICES ASSUME NEW m \in DOMAIN layouts, layouts[m].key = Null
               PROVE  /\ layouts[m].sindex = NoIndex
                      /\ layouts[m].parent \in DOMAIN w.instance_layouts
                      /\ w.instance_layouts[layouts[m].parent] = m
    BY <1>7 DEF RootsAreInstances
  <2>1. CASE m = l
    BY <1>4, <1>5, <1>6, <2>1
  <2>2. CASE m # l
    BY <1>1, <1>4, <1>5, <2>2 DEF RootsAreInstances
  <2> QED BY <2>1, <2>2
<1>12. ParentsLead(w)
  <2> SUFFICES ASSUME NEW m \in DOMAIN layouts, layouts[m].key # Null
               PROVE  /\ layouts[m].parent \in DOMAIN layouts
                      /\ layouts[m].sindex = layouts[layouts[m].parent].sindex + 1
                      /\ \/ layouts[layouts[m].parent].next = m
                         \/ /\ <<layouts[m].parent, layouts[m].key>> \in DOMAIN v.splitkey_layouts
                            /\ v.splitkey_layouts[<<layouts[m].parent, layouts[m].key>>] = m
    BY <1>7 DEF ParentsLead
  <2>1. m \in DOMAIN v.layouts /\ layouts[m] = v.layouts[m]
    BY <1>4, <1>6
  <2>2. /\ v.layouts[m].parent \in DOMAIN v.layouts
        /\ v.layouts[m].sindex = v.layouts[v.layouts[m].parent].sindex + 1
        /\ \/ v.layouts[v.layouts[m].parent].next = m
           \/ /\ <<v.layouts[m].parent, v.layouts[m].key>> \in DOMAIN v.splitkey_layouts
              /\ v.splitkey_layouts[<<v.layouts[m].parent, v.layouts[m].key>>] = m
    BY <1>1, <2>1 DEF ParentsLead
  <2> QED BY <1>4, <2>1, <2>2
<1>13. LinksLead(w)
  <2>1. ASSUME NEW p, NEW m, IsChild(v, p, m) PROVE IsChild(w, p, m)
    BY <1>4, <1>7, <2>1 DEF IsChild
  <2>2. ASSUME NEW m \in DOMAIN layouts, layouts[m].next # Null PROVE IsChild(w, m, layouts[m].next)
    <3>1. m \in DOMAIN v.layouts /\ layouts[m] = v.layouts[m]
      BY <1>4, <1>6, <2>2
    <3> QED BY <1>1, <2>1, <2>2, <3>1 DEF LinksLead
  <2>3. ASSUME NEW p \in DOMAIN w.instance_layouts
        PROVE  /\ layouts[w.instance_layouts[p]].key = Null
               /\ layouts[w.instance_layouts[p]].parent = p
    <3>1. CASE p = prototype
      BY <1>4, <1>5, <1>6, <3>1
    <3>2. CASE p # prototype
      <4>1. p \in DOMAIN v.instance_layouts /\ w.instance_layouts[p] = v.instance_layouts[p]
        BY <1>5, <3>2
      <4>2. v.instance_layouts[p] \in DOMAIN v.layouts
        BY <1>1, <4>1 DEF IsVm
      <4> QED BY <1>1, <1>4, <4>1, <4>2 DEF LinksLead
    <3> QED BY <3>1, <3>2
  <2>4. ASSUME NEW y \in DOMAIN v.splitkey_layouts
        PROVE  /\ IsChild(w, y[1], v.splitkey_layouts[y])
               /\ layouts[v.splitkey_layouts[y]].key = y[2]
               /\ layouts[y[1]].next # Null => layouts[layouts[y[1]].next].key # y[2]
    <3>1. /\ IsChild(v, y[1], v.splitkey_layouts[y])
          /\ v.layouts[v.splitkey_layouts[y]].key = y[2]
          /\ v.layouts[y[1]].next # Null => v.layouts[v.layouts[y[1]].next].key # y[2]
      BY <1>1 DEF LinksLead
    <3>2. /\ y[1] \in DOMAIN v.layouts /\ v.splitkey_layouts[y] \in DOMAIN v.layouts
          /\ v.layouts[y[1]].next # Null => v.layouts[y[1]].next \in DOMAIN v.layouts
      BY <1>1, <3>1 DEF IsChild, LinksLead
    <3> QED BY <1>4, <2>1, <3>1, <3>2
  <2> QED BY <1>7, <2>2, <2>3, <2>4 DEF LinksLead
<1>14. /\ v.next_cookie \in Nat /\ \A m \in DOMAIN v.layouts :
            v.layouts[m].cookie \in 1 .. v.next_cookie
       /\ \A m, n \in DOMAIN v.layouts : v.layouts[m].cookie = v.layouts[n].cookie => m = n
  BY <1>1 DEF IsVm, CookiesAreDistinct
<1>15. CookiesAreDistinct(w)
  <2>1. \A m \in DOMAIN layouts : layouts[m].cookie \in 1 .. w.next_cookie
    BY <1>4, <1>6, <1>7, <1>14
  <2>2. ASSUME NEW m \in DOMAIN layouts, NEW n \in DOMAIN layouts,
               layouts[m].cookie = layouts[n].cookie
        PROVE  m = n
    <3>1. \A y \in DOMAIN v.layouts : layouts[y].cookie # x.cookie
      BY <1>4, <1>6, <1>14
    <3>2. CASE m = l \/ n = l
      BY <1>4, <2>2, <3>1, <3>2
    <3>3. CASE m # l /\ n # l
      BY <1>4, <1>14, <2>2, <3>3
    <3> QED BY <3>2, <3>3
  <2> QED BY <1>7, <2>1, <2>2 DEF CookiesAreDistinct
<1>16. GoodVm(w)
  BY <1>10, <1>11, <1>12, <1>13, <1>15 DEF GoodVm
<1>17. Grows(v, w)
  BY <1>4, <1>6, <1>7, <1>14 DEF Grows, Keeps
<1> HIDE DEF to
<1>18. to.layout = l /\ to.vm = w
  BY <1>2
<1>19. /\ GoodVm(to.vm) /\ Grows(v, to.vm)
       /\ to.vm.next_cookie = v.next_cookie + 1
       /\ to.layout \in DOMAIN to.vm.layouts /\ to.layout \notin DOMAIN v.layouts
       /\ DOMAIN to.vm.layouts = DOMAIN v.layouts \cup {to.layout}
       /\ to.vm.layouts[to.layout].key = Null
       /\ to.vm.layouts[to.layout].parent = prototype
       /\ DOMAIN to.vm.instance_layouts = DOMAIN v.instance_layouts \cup {prototype}
  BY <1>3, <1>4, <1>5, <1>6, <1>7, <1>16, <1>17, <1>18
<1> QED BY <1>19 DEF to

(* A layout with another key, where none is found.                           *)
LEMMA NewChild ==
  ASSUME NEW v, GoodVm(v), NEW parent \in DOMAIN v.layouts, NEW k \in Key,
         v.layouts[parent].next # Null => v.layouts[v.layouts[parent].next].key # k,
         <<parent, k>> \notin DOMAIN v.splitkey_layouts
  PROVE  LET to == layout_new(v, parent, k)
         IN  /\ GoodVm(to.vm) /\ Grows(v, to.vm)
             /\ to.layout \notin DOMAIN v.layouts
             /\ DOMAIN to.vm.layouts = DOMAIN v.layouts \cup {to.layout}
             /\ to.vm.layouts[to.layout].key = k
             /\ IsChild(to.vm, parent, to.layout)
             /\ to.vm.instance_layouts = v.instance_layouts
<1> DEFINE l == Unused(v.layouts)
           x == NewLayout(v, parent, k)
           split == v.layouts[parent].next # Null
           added == With(v.layouts, l, x)
           layouts == IF split THEN added ELSE [added EXCEPT ![parent].next = l]
           w == [layouts |-> layouts, next_cookie |-> v.next_cookie + 1,
                 instance_layouts |-> v.instance_layouts,
                 splitkey_layouts |-> IF split THEN With(v.splitkey_layouts, <<parent, k>>, l)
                                      ELSE v.splitkey_layouts]
           to == layout_new(v, parent, k)
           Record == [parent : Nat \cup {Null}, key : Key \cup {Null}, cookie : Nat,
                      sindex : Nat \cup {NoIndex}, next : Nat \cup {Null}]
<1>1. IsVm(v) /\ RootsAreInstances(v) /\ ParentsLead(v) /\ LinksLead(v) /\ CookiesAreDistinct(v)
  BY DEF GoodVm
<1>2. k # Null
  BY LookupAssumption
<1>3. to = [layout |-> l, vm |-> w]
  <2>1. v = [layouts |-> v.layouts, next_cookie |-> v.next_cookie,
             instance_layouts |-> v.instance_layouts,
             splitkey_layouts |-> v.splitkey_layouts]
    BY <1>1 DEF IsVm
  <2>2. CASE split
    BY <1>2, <2>1, <2>2 DEF layout_new, NewLayout, NextCookie
  <2>3. CASE ~ split
    BY <1>2, <2>1, <2>3 DEF layout_new, NewLayout, NextCookie
  <2> QED BY <2>2, <2>3
<1>4. l \in Nat \ {0} /\ l \notin DOMAIN v.layouts /\ l # Null /\ l # parent
  BY <1>1, UnusedIs, LookupAssumption DEF IsVm
<1>5. /\ DOMAIN added = DOMAIN v.layouts \cup {l} /\ added[l] = x
      /\ \A m \in DOMAIN v.layouts : added[m] = v.layouts[m]
      /\ added = [m \in DOMAIN added |-> added[m]]
  BY <1>4 DEF With
<1>6. v.layouts[parent] \in Record /\ v.layouts[parent].sindex + 1 \in Nat
  BY <1>1 DEF IsVm, NoIndex
<1>7. /\ x.parent = parent /\ x.key = k /\ x.cookie = v.next_cookie + 1
      /\ x.sindex = v.layouts[parent].sindex + 1 /\ x.next = Null
      /\ x \in Record
  BY <1>1, <1>2, <1>6 DEF NewLayout, IsVm
<1> HIDE DEF x, added, l
<1>8. /\ DOMAIN layouts = DOMAIN v.layouts \cup {l} /\ layouts[l] = x
      /\ \A m \in DOMAIN v.layouts \ {parent} : layouts[m] = v.layouts[m]
      /\ layouts[parent] = IF split THEN v.layouts[parent]
           ELSE [v.layouts[parent] EXCEPT !.next = l]
      /\ layouts = [m \in DOMAIN layouts |-> layouts[m]]
  <2>1. CASE split
    BY <1>4, <1>5, <2>1
  <2>2. CASE ~ split
    BY <1>4, <1>5, <2>2
  <2> QED BY <2>1, <2>2
<1>9. /\ layouts[parent] \in Record
      /\ layouts[parent].parent = v.layouts[parent].parent
      /\ layouts[parent].key = v.layouts[parent].key
      /\ layouts[parent].cookie = v.layouts[parent].cookie
      /\ layouts[parent].sindex = v.layouts[parent].sindex
      /\ layouts[parent].next = IF split THEN v.layouts[parent].next ELSE l
  <2>1. CASE split
    BY <1>6, <1>8, <2>1
  <2>2. CASE ~ split
    <3>1. layouts[parent] = [v.layouts[parent] EXCEPT !.next = l] /\ l \in Nat \cup {Null}
      BY <1>4, <1>8, <2>2
    <3> HIDE DEF layouts
    <3> QED BY <1>6, <2>2, <3>1
  <2> QED BY <2>1, <2>2
<1> DEFINE splits == w.splitkey_layouts
<1>10. /\ DOMAIN splits = DOMAIN v.splitkey_layouts \cup (IF split THEN {<<parent, k>>} ELSE {})
       /\ split => splits[<<parent, k>>] = l
       /\ \A y \in DOMAIN v.splitkey_layouts : splits[y] = v.splitkey_layouts[y]
       /\ splits = [y \in DOMAIN splits |-> splits[y]]
  <2>0. v.splitkey_layouts = [y \in DOMAIN v.splitkey_layouts |-> v.splitkey_layouts[y]]
    BY <1>1 DEF IsVm
  <2>1. CASE split
    BY <2>1 DEF With
  <2>2. CASE ~ split
    BY <2>0, <2>2
  <2> QED BY <2>1, <2>2
<1>11. /\ w.layouts = layouts /\ w.next_cookie = v.next_cookie + 1
       /\ w.instance_layouts = v.instance_layouts
       /\ w = [layouts |-> w.layouts, next_cookie |-> w.next_cookie,
               instance_layouts |-> w.instance_layouts, splitkey_layouts |-> w.splitkey_layouts]
  OBVIOUS
<1> HIDE DEF layouts, w
<1>12. \A m \in DOMAIN v.layouts :
         /\ m \in DOMAIN layouts
         /\ layouts[m].parent = v.layouts[m].parent /\ layouts[m].key = v.layouts[m].key
         /\ layouts[m].cookie = v.layouts[m].cookie /\ layouts[m].sindex = v.layouts[m].sindex
         /\ layouts[m].next = IF m = parent /\ ~ split THEN l ELSE v.layouts[m].next
  BY <1>8, <1>9
<1>13. IsVm(w)
  <2>1. IsFiniteSet(DOMAIN layouts)
    BY <1>1, <1>8, FS_AddElement DEF IsVm
  <2>2. layouts \in [DOMAIN layouts -> Record]
    <3>1. \A m \in DOMAIN layouts : layouts[m] \in Record
      <4> TAKE m \in DOMAIN layouts
      <4>1. CASE m = l
        BY <1>7, <1>8, <4>1
      <4>2. CASE m = parent
        BY <1>9, <4>2
      <4>3. CASE m # l /\ m # parent
        <5>1. m \in DOMAIN v.layouts /\ layouts[m] = v.layouts[m]
          BY <1>8, <4>3
        <5>2. v.layouts[m] \in Record
          BY <1>1, <5>1 DEF IsVm
        <5> QED BY <5>1, <5>2
      <4> HIDE DEF Record
      <4> QED BY <4>1, <4>2, <4>3
    <3> HIDE DEF Record
    <3> QED BY <1>8, <3>1
  <2>3. w.instance_layouts \in [DOMAIN w.instance_layouts -> DOMAIN layouts]
    BY <1>1, <1>8, <1>11 DEF IsVm
  <2>4. DOMAIN splits \in SUBSET ((DOMAIN layouts) \X Key)
    BY <1>1, <1>8, <1>10 DEF IsVm
  <2>5. splits \in [DOMAIN splits -> DOMAIN layouts]
    <3>1. \A y \in DOMAIN splits : splits[y] \in DOMAIN layouts
      BY <1>1, <1>8, <1>10 DEF IsVm
    <3> HIDE DEF splits
    <3> QED BY <1>10, <3>1
  <2>6. DOMAIN layouts \in SUBSET (Nat \ {0}) /\ w.next_cookie \in Nat
        /\ DOMAIN w.instance_layouts \in SUBSET (Nat \cup {Null})
    BY <1>1, <1>4, <1>8, <1>11 DEF IsVm
  <2> QED BY <1>11, <2>1, <2>2, <2>3, <2>4, <2>5, <2>6 DEF IsVm
<1>14. RootsAreInstances(w)
  <2> SUFFICES ASSUME NEW m \in DOMAIN layouts, layouts[m].key = Null
               PROVE  /\ layouts[m].sindex = NoIndex
                      /\ layouts[m].parent \in DOMAIN v.instance_layouts
                      /\ v.instance_layouts[layouts[m].parent] = m
    BY <1>11 DEF RootsAreInstances
  <2>1. m \in DOMAIN v.layouts
    BY <1>2, <1>7, <1>8
  <2> QED BY <1>1, <1>12, <2>1 DEF RootsAreInstances
<1>15. ParentsLead(w)
  <2> SUFFICES ASSUME NEW m \in DOMAIN layouts, layouts[m].key # Null
               PROVE  /\ layouts[m].parent \in DOMAIN layouts
                      /\ layouts[m].sindex = layouts[layouts[m].parent].sindex + 1
                      /\ \/ layouts[layouts[m].parent].next = m
                         \/ /\ <<layouts[m].parent, layouts[m].key>> \in DOMAIN splits
                            /\ splits[<<layouts[m].parent, layouts[m].key>>] = m
    BY <1>11 DEF ParentsLead
  <2>1. CASE m = l
    BY <1>7, <1>8, <1>9, <1>10, <2>1
  <2>2. CASE m # l
    <3>1. m \in DOMAIN v.layouts
      BY <1>8, <2>2
    <3>2. v.layouts[m].key # Null
      BY <1>12, <3>1
    <3>3. /\ v.layouts[m].parent \in DOMAIN v.layouts
          /\ v.layouts[m].sindex = v.layouts[v.layouts[m].parent].sindex + 1
          /\ \/ v.layouts[v.layouts[m].parent].next = m
             \/ /\ <<v.layouts[m].parent, v.layouts[m].key>> \in DOMAIN v.splitkey_layouts
                /\ v.splitkey_layouts[<<v.layouts[m].parent, v.layouts[m].key>>] = m
      BY <1>1, <3>1, <3>2 DEF ParentsLead
    <3>4. /\ layouts[m].parent \in DOMAIN layouts
          /\ layouts[m].sindex = layouts[layouts[m].parent].sindex + 1
      BY <1>12, <3>1, <3>3
    <3>5. CASE v.layouts[v.layouts[m].parent].next = m
      <4>1. m # Null
        BY <1>1, <3>1, LookupAssumption DEF IsVm
      <4>2. layouts[v.layouts[m].parent].next = m
        BY <1>12, <3>3, <3>5, <4>1
      <4> QED BY <1>12, <3>1, <3>4, <4>2
    <3>6. CASE /\ <<v.layouts[m].parent, v.layouts[m].key>> \in DOMAIN v.splitkey_layouts
               /\ v.splitkey_layouts[<<v.layouts[m].parent, v.layouts[m].key>>] = m
      <4>1. /\ <<v.layouts[m].parent, v.layouts[m].key>> \in DOMAIN splits
            /\ splits[<<v.layouts[m].parent, v.layouts[m].key>>] = m
        BY <1>10, <3>6
      <4> QED BY <1>12, <3>1, <3>4, <4>1
    <3> QED BY <3>3, <3>5, <3>6
  <2> QED BY <2>1, <2>2
<1>16. IsChild(w, parent, l)
  BY <1>2, <1>7, <1>8, <1>11 DEF IsChild
<1>17. LinksLead(w)
  <2>1. ASSUME NEW p, NEW m, IsChild(v, p, m) PROVE IsChild(w, p, m)
    BY <1>8, <1>11, <1>12, <2>1 DEF IsChild
  <2>2. ASSUME NEW m \in DOMAIN layouts, layouts[m].next # Null PROVE IsChild(w, m, layouts[m].next)
    <3>1. m \in DOMAIN v.layouts
      BY <1>7, <1>8, <2>2
    <3>2. CASE m = parent /\ ~ split
      BY <1>12, <1>16, <3>1, <3>2
    <3>3. CASE ~ (m = parent /\ ~ split)
      BY <1>1, <1>12, <2>1, <2>2, <3>1, <3>3 DEF LinksLead
    <3> QED BY <3>2, <3>3
  <2>3. ASSUME NEW p \in DOMAIN v.instance_layouts
        PROVE  /\ layouts[v.instance_layouts[p]].key = Null
               /\ layouts[v.instance_layouts[p]].parent = p
    <3>1. v.instance_layouts[p] \in DOMAIN v.layouts
      BY <1>1 DEF IsVm
    <3> QED BY <1>1, <1>12, <3>1 DEF LinksLead
  <2>4. ASSUME NEW y \in DOMAIN splits
        PROVE  /\ IsChild(w, y[1], splits[y])
               /\ layouts[splits[y]].key = y[2]
               /\ layouts[y[1]].next # Null => layouts[layouts[y[1]].next].key # y[2]
    <3>1. CASE y \in DOMAIN v.splitkey_layouts
      <4>1. /\ IsChild(v, y[1], v.splitkey_layouts[y])
            /\ v.layouts[v.splitkey_layouts[y]].key = y[2]
            /\ v.layouts[y[1]].next # Null => v.layouts[v.layouts[y[1]].next].key # y[2]
        BY <1>1, <3>1 DEF LinksLead
      <4>2. /\ y[1] \in DOMAIN v.layouts /\ v.splitkey_layouts[y] \in DOMAIN v.layouts
            /\ v.layouts[y[1]].next # Null => v.layouts[y[1]].next \in DOMAIN v.layouts
        BY <1>1, <4>1 DEF IsChild, LinksLead
      <4>3. splits[y] = v.splitkey_layouts[y]
        BY <1>10, <3>1
      <4>4. /\ IsChild(w, y[1], splits[y]) /\ layouts[splits[y]].key = y[2]
        BY <1>12, <2>1, <4>1, <4>2, <4>3
      <4>5. CASE y[1] = parent /\ ~ split
        <5>1. y[2] # k
          <6>1. y \in (DOMAIN v.layouts) \X Key
            BY <1>1, <3>1 DEF IsVm
          <6>2. y = <<y[1], y[2]>>
            BY <6>1
          <6> QED BY <3>1, <4>5, <6>2
        <5> QED BY <1>7, <1>8, <1>12, <4>2, <4>4, <4>5, <5>1
      <4>6. CASE ~ (y[1] = parent /\ ~ split)
        BY <1>12, <4>1, <4>2, <4>4, <4>6
      <4> QED BY <4>5, <4>6
    <3>2. CASE split /\ y = <<parent, k>>
      <4>1. splits[y] = l /\ y[1] = parent /\ y[2] = k
        BY <1>10, <3>2
      <4>2. v.layouts[parent].next \in DOMAIN v.layouts
        BY <1>1, <3>2 DEF LinksLead, IsChild
      <4> QED BY <1>7, <1>8, <1>12, <1>16, <3>2, <4>1, <4>2
    <3> QED BY <1>10, <3>1, <3>2
  <2> QED BY <1>11, <2>2, <2>3, <2>4 DEF LinksLead
<1>18. /\ v.next_cookie \in Nat /\ \A m \in DOMAIN v.layouts :
            v.layouts[m].cookie \in 1 .. v.next_cookie
       /\ \A m, n \in DOMAIN v.layouts : v.layouts[m].cookie = v.layouts[n].cookie => m = n
  BY <1>1 DEF IsVm, CookiesAreDistinct
<1>19. CookiesAreDistinct(w)
  <2>1. \A m \in DOMAIN layouts : layouts[m].cookie \in 1 .. w.next_cookie
    BY <1>7, <1>8, <1>11, <1>12, <1>18
  <2>2. ASSUME NEW m \in DOMAIN layouts, NEW n \in DOMAIN layouts,
               layouts[m].cookie = layouts[n].cookie
        PROVE  m = n
    <3>1. \A y \in DOMAIN v.layouts : layouts[y].cookie # x.cookie
      BY <1>7, <1>12, <1>18
    <3>2. CASE m = l \/ n = l
      BY <1>8, <2>2, <3>1, <3>2
    <3>3. CASE m # l /\ n # l
      BY <1>8, <1>12, <1>18, <2>2, <3>3
    <3> QED BY <3>2, <3>3
  <2> QED BY <1>11, <2>1, <2>2 DEF CookiesAreDistinct
<1>20. GoodVm(w)
  BY <1>13, <1>14, <1>15, <1>17, <1>19 DEF GoodVm
<1>21. Grows(v, w)
  BY <1>7, <1>8, <1>11, <1>12, <1>18 DEF Grows, Keeps
<1> HIDE DEF to
<1>22. to.layout = l /\ to.vm = w
  BY <1>3
<1>23. /\ GoodVm(to.vm) /\ Grows(v, to.vm)
       /\ to.layout \notin DOMAIN v.layouts
       /\ DOMAIN to.vm.layouts = DOMAIN v.layouts \cup {to.layout}
       /\ to.vm.layouts[to.layout].key = k
       /\ IsChild(to.vm, parent, to.layout)
       /\ to.vm.instance_layouts = v.instance_layouts
  BY <1>4, <1>7, <1>8, <1>11, <1>16, <1>20, <1>21, <1>22
<1> QED BY <1>23 DEF to

(* The layout with another key, which is found or made.                      *)
LEMMA NextLayoutIs ==
  ASSUME NEW v, GoodVm(v), NEW l \in DOMAIN v.layouts, NEW k \in Key
  PROVE  LET to == next_layout(v, l, k)
         IN  /\ GoodVm(to.vm) /\ Grows(v, to.vm)
             /\ DOMAIN to.vm.layouts = DOMAIN v.layouts \cup {to.layout}
             /\ to.vm.layouts[to.layout].key = k
             /\ IsChild(to.vm, l, to.layout)
             /\ to.vm.instance_layouts = v.instance_layouts
<1> DEFINE to == next_layout(v, l, k)
           next == v.layouts[l].next
           Goal == /\ GoodVm(to.vm) /\ Grows(v, to.vm)
                   /\ DOMAIN to.vm.layouts = DOMAIN v.layouts \cup {to.layout}
                   /\ to.vm.layouts[to.layout].key = k
                   /\ IsChild(to.vm, l, to.layout)
                   /\ to.vm.instance_layouts = v.instance_layouts
<1> SUFFICES Goal
  OBVIOUS
<1>1. Grows(v, v)
  BY DEF Grows, Keeps, GoodVm, IsVm
<1>2. k # Null /\ LinksLead(v)
  BY LookupAssumption DEF GoodVm
<1>3. ASSUME NEW m, IsChild(v, l, m), v.layouts[m].key = k, to = [layout |-> m, vm |-> v]
      PROVE  Goal
  <2>1. to.layout = m /\ to.vm = v
    BY <1>3
  <2> HIDE DEF to
  <2> QED BY <1>1, <1>3, <2>1 DEF IsChild
<1>4. CASE next # Null /\ v.layouts[next].key = k
  <2>1. IsChild(v, l, next)
    BY <1>2, <1>4 DEF LinksLead
  <2>2. to = [layout |-> next, vm |-> v]
    BY <1>4 DEF next_layout
  <2> HIDE DEF next, to, Goal
  <2> QED BY <1>3, <1>4, <2>1, <2>2
<1>5. CASE ~ (next # Null /\ v.layouts[next].key = k) /\ <<l, k>> \in DOMAIN v.splitkey_layouts
  <2> DEFINE m == v.splitkey_layouts[<<l, k>>]
  <2>1. IsChild(v, l, m) /\ v.layouts[m].key = k
    BY <1>2, <1>5 DEF LinksLead
  <2>2. to = [layout |-> m, vm |-> v]
    BY <1>5 DEF next_layout
  <2> HIDE DEF m, to, Goal
  <2> QED BY <1>3, <2>1, <2>2
<1>6. CASE ~ (next # Null /\ v.layouts[next].key = k) /\ <<l, k>> \notin DOMAIN v.splitkey_layouts
  <2>1. to = layout_new(v, l, k)
    BY <1>6 DEF next_layout
  <2>2. LET made == layout_new(v, l, k)
        IN  /\ GoodVm(made.vm) /\ Grows(v, made.vm)
            /\ made.layout \notin DOMAIN v.layouts
            /\ DOMAIN made.vm.layouts = DOMAIN v.layouts \cup {made.layout}
            /\ made.vm.layouts[made.layout].key = k
            /\ IsChild(made.vm, l, made.layout)
            /\ made.vm.instance_layouts = v.instance_layouts
    BY <1>6, NewChild
  <2> HIDE DEF to
  <2> QED BY <2>1, <2>2
<1> QED BY <1>4, <1>5, <1>6

--------------------------------------------------------------------------------
(* Objects. *)

IsSlots(slots) ==
  LET count == Cardinality(DOMAIN slots)
  IN  count \in Nat \ {0} /\ slots \in [0 .. count - 1 -> Value \cup {Null}]

LookupType ==
  /\ DOMAIN lookups \in SUBSET (1 .. MaxLookups)
  /\ lookups \in [DOMAIN lookups ->
                    [layout : DOMAIN vm.layouts, oslots : DOMAIN vslots, sealed : BOOLEAN]]
  /\ DOMAIN vslots \in SUBSET (Nat \ {0}) /\ IsFiniteSet(DOMAIN vslots)
  /\ vslots = [s \in DOMAIN vslots |-> vslots[s]]
  /\ \A s \in DOMAIN vslots : IsSlots(vslots[s])
  /\ sel \in [Cached -> [cookie : Nat, sindex : Nat \cup {NoIndex},
                         slot : [vslots : Nat, sindex : Nat] \cup {Null}]]
  /\ \A k \in Cached : sel[k].cookie <= vm.next_cookie
  /\ held \in SUBSET DOMAIN lookups
  /\ marking \in BOOLEAN

SlotsFit ==
  /\ \A o \in DOMAIN lookups :
       vm.layouts[lookups[o].layout].sindex \in DOMAIN vslots[lookups[o].oslots] \cup {NoIndex}
  /\ \A o, p \in DOMAIN lookups : lookups[o].oslots = lookups[p].oslots => o = p

PrototypesAreSealed ==
  \A p \in DOMAIN vm.instance_layouts \ {Null} : p \in DOMAIN lookups /\ lookups[p].sealed

(* What is not white refers to nothing white, but for a layout: the one that *)
(* an object has may be white, and so may the one that a layout extends.     *)
NoWhiteFound ==
  /\ white = [lookups |-> white.lookups, vslots |-> white.vslots, layouts |-> white.layouts]
  /\ white.lookups \subseteq DOMAIN lookups
  /\ white.vslots \subseteq DOMAIN vslots
  /\ white.layouts \subseteq DOMAIN vm.layouts
  /\ ~marking => white = NoneWhite
  /\ held \cap white.lookups = {}
  /\ grey \subseteq DOMAIN lookups \ white.lookups
  /\ \A o \in DOMAIN lookups \ white.lookups :
       Prototypes[o] \notin white.lookups /\ lookups[o].oslots \notin white.vslots
  /\ \A l \in DOMAIN vm.layouts \ white.layouts :
       vm.layouts[l].key = Null => vm.layouts[l].parent \notin white.lookups

(* Where a key is in the objects of a layout.                                *)
Selected(l, k) ==
  LET above == vm.layouts[Path(vm, l)[NoIndex]].parent
      owner == CHOOSE p \in Owners(above, k) : TRUE
  IN  IF IndexesOf(vm, l, k) # {}
      THEN [cookie |-> vm.layouts[l].cookie, sindex |-> IndexOf(vm, l, k), slot |-> Null]
      ELSE IF above = Null \/ Owners(above, k) = {} THEN NoSel
      ELSE [cookie |-> vm.layouts[l].cookie, sindex |-> NoIndex,
            slot   |-> [vslots |-> lookups[owner].oslots,
                        sindex |-> IndexOf(vm, lookups[owner].layout, k)]]

SelectorsAreFresh ==
  \A k \in Cached, l \in DOMAIN vm.layouts :
    vm.layouts[l].cookie = sel[k].cookie => sel[k] = Selected(l, k)

LookupInv ==
  /\ GoodVm(vm)
  /\ LookupType
  /\ SlotsFit
  /\ PrototypesAreSealed
  /\ NoWhiteFound
  /\ SelectorsAreFresh
--------------------------------------------------------------------------------
(* Reaching. *)

Ends(f) == \A y \in DOMAIN f : f[y] = Null \/ f[y] \in DOMAIN f

ClosedIn(f, T) == \A y \in T : f[y] = Null \/ f[y] \in T

(* What is reached is the least set that starts with S and is closed.        *)
LEMMA ReachedIs ==
  ASSUME NEW f, Ends(f), NEW S \in SUBSET DOMAIN f
  PROVE  /\ S \subseteq Reached(f, S) /\ Reached(f, S) \subseteq DOMAIN f
         /\ ClosedIn(f, Reached(f, S))
         /\ \A T \in SUBSET DOMAIN f : S \subseteq T /\ ClosedIn(f, T) => Reached(f, S) \subseteq T
BY DEF Ends, ClosedIn, Reached

(* Where two functions agree on a closed set, they reach the same from within. *)
LEMMA ReachedAgrees ==
  ASSUME NEW f, Ends(f), NEW g, Ends(g), NEW C \in SUBSET DOMAIN f, C \subseteq DOMAIN g,
         ClosedIn(f, C), \A y \in C : f[y] = g[y], NEW S \in SUBSET C
  PROVE  Reached(f, S) = Reached(g, S) /\ Reached(f, S) \subseteq C
<1>1. ClosedIn(g, C)
  BY DEF ClosedIn
<1>2. Reached(f, S) \subseteq C /\ Reached(g, S) \subseteq C
  BY <1>1, ReachedIs
<1>3. S \subseteq Reached(f, S) /\ S \subseteq Reached(g, S)
  BY ReachedIs
<1>4. ClosedIn(f, Reached(f, S)) /\ ClosedIn(g, Reached(g, S))
  BY ReachedIs
<1>5. ClosedIn(g, Reached(f, S)) /\ ClosedIn(f, Reached(g, S))
  BY <1>2, <1>4 DEF ClosedIn
<1>6. Reached(g, S) \subseteq Reached(f, S) /\ Reached(f, S) \subseteq Reached(g, S)
  BY <1>2, <1>3, <1>5, ReachedIs
<1> QED BY <1>2, <1>6

(* What is reached from one point.                                           *)
LEMMA ReachedFromOne ==
  ASSUME NEW f, Ends(f), NEW o \in DOMAIN f
  PROVE  /\ f[o] = Null => Reached(f, {o}) = {o}
         /\ f[o] # Null => Reached(f, {o}) = {o} \cup Reached(f, {f[o]})
<1>1. {o} \in SUBSET DOMAIN f
  OBVIOUS
<1>2. o \in Reached(f, {o}) /\ ClosedIn(f, Reached(f, {o})) /\ Reached(f, {o}) \subseteq DOMAIN f
  BY <1>1, ReachedIs
<1>3. ASSUME f[o] = Null PROVE Reached(f, {o}) = {o}
  <2>1. ClosedIn(f, {o})
    BY <1>3 DEF ClosedIn
  <2>2. Reached(f, {o}) \subseteq {o}
    BY <1>1, <2>1, ReachedIs
  <2> QED BY <1>2, <2>2
<1>4. ASSUME f[o] # Null PROVE Reached(f, {o}) = {o} \cup Reached(f, {f[o]})
  <2>1. f[o] \in DOMAIN f
    BY <1>4 DEF Ends
  <2>2. /\ f[o] \in Reached(f, {f[o]}) /\ ClosedIn(f, Reached(f, {f[o]}))
        /\ Reached(f, {f[o]}) \subseteq DOMAIN f
    BY <2>1, ReachedIs
  <2>3. ClosedIn(f, {o} \cup Reached(f, {f[o]}))
    BY <2>2 DEF ClosedIn
  <2>4. Reached(f, {o}) \subseteq {o} \cup Reached(f, {f[o]})
    BY <1>1, <2>2, <2>3, ReachedIs
  <2>5. f[o] \in Reached(f, {o})
    BY <1>2, <1>4 DEF ClosedIn
  <2>6. Reached(f, {f[o]}) \subseteq Reached(f, {o})
    BY <1>2, <2>1, <2>5, ReachedIs
  <2> QED BY <1>2, <2>4, <2>6
<1> QED BY <1>3, <1>4

--------------------------------------------------------------------------------
(* Prototypes and selectors. *)

(* The prototype of an object is an object, sealed, and the root of its layout. *)
LEMMA PrototypesAre ==
  ASSUME GoodVm(vm), LookupType, PrototypesAreSealed
  PROVE  /\ DOMAIN Prototypes = DOMAIN lookups /\ Ends(Prototypes)
         /\ \A o \in DOMAIN lookups :
              /\ lookups[o].layout \in DOMAIN vm.layouts /\ o \in Nat /\ o # Null
              /\ Prototypes[o] = lookup_prototype(o)
              /\ Prototypes[o] = vm.layouts[Path(vm, lookups[o].layout)[NoIndex]].parent
              /\ Prototypes[o] # Null => Prototypes[o] \in DOMAIN lookups
                   /\ lookups[Prototypes[o]].sealed
<1>1. DOMAIN Prototypes = DOMAIN lookups
  BY DEF Prototypes
<1>2. ASSUME NEW o \in DOMAIN lookups
      PROVE  /\ lookups[o].layout \in DOMAIN vm.layouts /\ o \in Nat /\ o # Null
             /\ Prototypes[o] = lookup_prototype(o)
             /\ Prototypes[o] = vm.layouts[Path(vm, lookups[o].layout)[NoIndex]].parent
             /\ Prototypes[o] # Null => Prototypes[o] \in DOMAIN lookups
                  /\ lookups[Prototypes[o]].sealed
  <2>1. lookups[o].layout \in DOMAIN vm.layouts /\ o \in Nat /\ o # Null
    BY LookupAssumption DEF LookupType
  <2>2. Prototypes[o] = lookup_prototype(o) /\ Prototypes[o]
          = vm.layouts[Path(vm, lookups[o].layout)[NoIndex]].parent
    BY DEF Prototypes, lookup_prototype
  <2>3. vm.layouts[Path(vm, lookups[o].layout)[NoIndex]].parent \in DOMAIN vm.instance_layouts
    BY <2>1, PathGives
  <2> QED BY <2>1, <2>2, <2>3 DEF PrototypesAreSealed
<1>3. Ends(Prototypes)
  BY <1>1, <1>2 DEF Ends
<1> QED BY <1>1, <1>2, <1>3

(* Where the search for a key goes on from each object.                      *)
Onwards(k) ==
  [q \in DOMAIN lookups |->
     IF IndexesOf(vm, lookups[q].layout, k) # {} THEN Null ELSE Prototypes[q]]

(* Who has a key: the object, or else those of its prototype.                *)
LEMMA OwnersAre ==
  ASSUME GoodVm(vm), LookupType, PrototypesAreSealed, NEW k
  PROVE  /\ DOMAIN Onwards(k) = DOMAIN lookups /\ Ends(Onwards(k))
         /\ \A q \in DOMAIN lookups :
              Onwards(k)[q] = IF IndexesOf(vm, lookups[q].layout, k) # {} THEN Null
                ELSE Prototypes[q]
         /\ \A o : Owners(o, k) = {p \in Reached(Onwards(k), {o}) :
              IndexesOf(vm, lookups[p].layout, k) # {}}
         /\ \A o \in DOMAIN lookups :
              /\ Owners(o, k) \subseteq DOMAIN lookups
              /\ IndexesOf(vm, lookups[o].layout, k) # {} => Owners(o, k) = {o}
              /\ IndexesOf(vm, lookups[o].layout, k) = {} =>
                   Owners(o, k) = IF Prototypes[o] = Null THEN {} ELSE Owners(Prototypes[o], k)
<1> DEFINE f == Onwards(k)
           has(q) == IndexesOf(vm, lookups[q].layout, k) # {}
<1>1. DOMAIN f = DOMAIN lookups /\ \A q \in DOMAIN lookups : f[q] = IF has(q) THEN Null
        ELSE Prototypes[q]
  BY DEF Onwards
<1>2. Ends(f)
  <2>1. \A q \in DOMAIN lookups : Prototypes[q] = Null \/ Prototypes[q] \in DOMAIN lookups
    BY PrototypesAre
  <2> HIDE DEF f, has
  <2> QED BY <1>1, <2>1 DEF Ends
<1>3. \A o : Owners(o, k) = {p \in Reached(f, {o}) : has(p)}
  BY DEF Owners, Onwards
<1> HIDE DEF f, has
<1>4. ASSUME NEW o \in DOMAIN lookups
      PROVE  /\ Owners(o, k) \subseteq DOMAIN lookups
             /\ has(o) => Owners(o, k) = {o}
             /\ ~ has(o) => Owners(o, k) = IF Prototypes[o] = Null THEN {}
                  ELSE Owners(Prototypes[o], k)
  <2>1. Reached(f, {o}) \subseteq DOMAIN f
    BY <1>1, <1>2, ReachedIs
  <2>2. /\ f[o] = Null => Reached(f, {o}) = {o}
        /\ f[o] # Null => Reached(f, {o}) = {o} \cup Reached(f, {f[o]})
    BY <1>1, <1>2, ReachedFromOne
  <2>3. f[o] = IF has(o) THEN Null ELSE Prototypes[o]
    BY <1>1
  <2>4. ASSUME has(o) PROVE Owners(o, k) = {o}
    BY <1>3, <2>2, <2>3, <2>4
  <2>5. ASSUME ~ has(o), Prototypes[o] = Null PROVE Owners(o, k) = {}
    BY <1>3, <2>2, <2>3, <2>5
  <2>6. ASSUME ~ has(o), Prototypes[o] # Null PROVE Owners(o, k) = Owners(Prototypes[o], k)
    BY <1>3, <2>2, <2>3, <2>6
  <2> QED BY <1>1, <1>3, <2>1, <2>4, <2>5, <2>6
<1> QED BY <1>1, <1>2, <1>3, <1>4 DEF f, has

(* Where a key is found depends on the layout alone.                         *)
LEMMA GetselIs ==
  ASSUME GoodVm(vm), LookupType, PrototypesAreSealed, NEW o \in DOMAIN lookups, NEW k
  PROVE  lookup_getsel(o, k) = Selected(lookups[o].layout, k)
<1> DEFINE l == lookups[o].layout
           above == vm.layouts[Path(vm, l)[NoIndex]].parent
<1>1. /\ IndexesOf(vm, l, k) # {} => Owners(o, k) = {o}
      /\ IndexesOf(vm, l, k) = {} =>
           Owners(o, k) = IF Prototypes[o] = Null THEN {} ELSE Owners(Prototypes[o], k)
  BY OwnersAre
<1>2. Prototypes[o] = above
  BY PrototypesAre
<1>3. \A p \in Owners(o, k) : IndexesOf(vm, lookups[p].layout, k) # {}
  <2>1. Owners(o, k) = {p \in Reached(Onwards(k), {o}) : IndexesOf(vm, lookups[p].layout, k) # {}}
    BY OwnersAre
  <2> QED BY <2>1
<1> HIDE DEF l, above
<1>4. CASE IndexesOf(vm, l, k) # {}
  <2>1. (CHOOSE p \in Owners(o, k) : TRUE) = o /\ Owners(o, k) # {}
    BY <1>1, <1>4
  <2>2. lookup_getsel(o, k)
          = [cookie |-> vm.layouts[l].cookie, sindex |-> IndexOf(vm, l, k), slot |-> Null]
    BY <2>1 DEF lookup_getsel, l
  <2> QED BY <1>4, <2>2 DEF Selected, l
<1>5. CASE IndexesOf(vm, l, k) = {} /\ (above = Null \/ Owners(above, k) = {})
  <2>1. Owners(o, k) = {}
    BY <1>1, <1>2, <1>5
  <2>2. lookup_getsel(o, k) = NoSel
    BY <2>1 DEF lookup_getsel
  <2> QED BY <1>5, <2>2, Zenon DEF Selected, above, l
<1>6. CASE IndexesOf(vm, l, k) = {} /\ above # Null /\ Owners(above, k) # {}
  <2>1. Owners(o, k) = Owners(above, k)
    BY <1>1, <1>2, <1>6
  <2>2. (CHOOSE p \in Owners(o, k) : TRUE) # o
    BY <1>3, <1>6, <2>1 DEF l
  <2>3. lookup_getsel(o, k)
          = LET owner == CHOOSE p \in Owners(above, k) : TRUE
            IN  [cookie |-> vm.layouts[l].cookie, sindex |-> NoIndex,
                 slot |-> [vslots |-> lookups[owner].oslots,
                           sindex |-> IndexOf(vm, lookups[owner].layout, k)]]
    BY <1>6, <2>1, <2>2 DEF lookup_getsel, l
  <2> QED BY <1>6, <2>3, Zenon DEF Selected, above, l
<1> QED BY <1>4, <1>5, <1>6

(* What a script can get at is closed under prototypes.                      *)
LEMMA AccessibleAre ==
  ASSUME GoodVm(vm), LookupType, PrototypesAreSealed
  PROVE  /\ held \subseteq Accessible /\ Accessible \subseteq DOMAIN lookups
         /\ ClosedIn(Prototypes, Accessible)
         /\ \A o \in Accessible : o \in DOMAIN lookups
              /\ (Prototypes[o] # Null => Prototypes[o] \in Accessible)
<1>1. DOMAIN Prototypes = DOMAIN lookups /\ Ends(Prototypes)
  BY PrototypesAre
<1>2. held \in SUBSET DOMAIN Prototypes
  BY <1>1 DEF LookupType
<1>3. /\ held \subseteq Reached(Prototypes, held)
      /\ Reached(Prototypes, held) \subseteq DOMAIN Prototypes
      /\ ClosedIn(Prototypes, Reached(Prototypes, held))
  BY <1>1, <1>2, ReachedIs
<1> QED BY <1>1, <1>3 DEF Accessible, ClosedIn

(* An abstract object has its keys in the order of their indexes.            *)
LEMMA ObjectIs ==
  ASSUME GoodVm(vm), LookupType, PrototypesAreSealed, NEW o \in Accessible
  PROVE  LET l == lookups[o].layout
             s == vm.layouts[l].sindex
             x == AbstractObjects[o]
         IN  /\ o \in DOMAIN lookups /\ l \in DOMAIN vm.layouts /\ s \in Int /\ s >= NoIndex
             /\ x = [prototype |-> Prototypes[o], sealed |-> lookups[o].sealed, slots |-> x.slots]
             /\ x.prototype = Prototypes[o] /\ x.sealed = lookups[o].sealed
             /\ DOMAIN x.slots = 1 .. s + 1
             /\ x.slots = [i \in 1 .. s + 1 |-> [key   |-> vm.layouts[Path(vm, l)[i - 1]].key,
                                                value |-> vslots[lookups[o].oslots][i - 1]]]
             /\ \A i \in 1 .. s + 1 : /\ x.slots[i].key = vm.layouts[Path(vm, l)[i - 1]].key
                                      /\ x.slots[i].value = vslots[lookups[o].oslots][i - 1]
<1> DEFINE l == lookups[o].layout
           s == vm.layouts[l].sindex
<1>1. o \in DOMAIN lookups /\ l \in DOMAIN vm.layouts
  BY AccessibleAre, PrototypesAre
<1>2. s \in Int /\ s >= NoIndex
  BY <1>1, LayoutIs
<1> DEFINE slots == [i \in 1 .. s + 1 |-> [key   |-> vm.layouts[Path(vm, l)[i - 1]].key,
                                          value |-> vslots[lookups[o].oslots][i - 1]]]
<1>3. AbstractObjects[o] =
        [prototype |-> Prototypes[o], sealed |-> lookups[o].sealed, slots |-> slots]
  BY DEF AbstractObjects
<1>4. /\ DOMAIN slots = 1 .. s + 1
      /\ \A i \in 1 .. s + 1 : /\ slots[i].key = vm.layouts[Path(vm, l)[i - 1]].key
                               /\ slots[i].value = vslots[lookups[o].oslots][i - 1]
  <2> HIDE DEF l, s
  <2> QED OBVIOUS
<1>5. /\ AbstractObjects[o] = [prototype |-> Prototypes[o], sealed |-> lookups[o].sealed,
                               slots     |-> AbstractObjects[o].slots]
      /\ AbstractObjects[o].prototype = Prototypes[o]
      /\ AbstractObjects[o].sealed = lookups[o].sealed
      /\ AbstractObjects[o].slots = slots
  <2> HIDE DEF slots
  <2> QED BY <1>3
<1> QED BY <1>1, <1>2, <1>4, <1>5, Zenon

(* Where an object has a key, to the script and in its layout.               *)
LEMMA OwnIs ==
  ASSUME GoodVm(vm), LookupType, PrototypesAreSealed, NEW o \in Accessible, NEW k
  PROVE  LET l == lookups[o].layout
         IN  /\ Abstract!Own(o, k) = {} <=> IndexesOf(vm, l, k) = {}
             /\ IndexesOf(vm, l, k) # {} =>
                  /\ Max(Abstract!Own(o, k)) = IndexOf(vm, l, k) + 1
                  /\ AbstractObjects[o].slots[IndexOf(vm, l, k) + 1].value
                       = vslots[lookups[o].oslots][IndexOf(vm, l, k)]
<1> DEFINE l == lookups[o].layout
           s == vm.layouts[l].sindex
           own == Abstract!Own(o, k)
           x == AbstractObjects[o]
<1>1. /\ o \in DOMAIN lookups /\ l \in DOMAIN vm.layouts /\ s \in Int /\ s >= NoIndex
      /\ DOMAIN x.slots = 1 .. s + 1
      /\ \A i \in 1 .. s + 1 : /\ x.slots[i].key = vm.layouts[Path(vm, l)[i - 1]].key
                               /\ x.slots[i].value = vslots[lookups[o].oslots][i - 1]
  BY ObjectIs
<1>2. own = {i \in 1 .. s + 1 : x.slots[i].key = k}
  BY <1>1 DEF Abstract!Own
<1> HIDE DEF x, own, l
<1>3. \A i \in 1 .. s + 1 : i \in own <=> i - 1 \in IndexesOf(vm, l, k)
  <2> TAKE i \in 1 .. s + 1
  <2>1. i - 1 \in 0 .. s
    BY <1>1
  <2> QED BY <1>1, <1>2, <2>1 DEF IndexesOf
<1>4. \A i \in 0 .. s : i + 1 \in own <=> i \in IndexesOf(vm, l, k)
  <2> TAKE i \in 0 .. s
  <2>1. i + 1 \in 1 .. s + 1 /\ (i + 1) - 1 = i
    BY <1>1
  <2> QED BY <1>3, <2>1
<1>5. own \subseteq 1 .. s + 1 /\ IndexesOf(vm, l, k) \subseteq 0 .. s
  BY <1>2 DEF IndexesOf
<1>6. own = {} <=> IndexesOf(vm, l, k) = {}
  BY <1>3, <1>4, <1>5
<1>7. ASSUME IndexesOf(vm, l, k) # {}
      PROVE  /\ Max(own) = IndexOf(vm, l, k) + 1
             /\ x.slots[IndexOf(vm, l, k) + 1].value = vslots[lookups[o].oslots][IndexOf(vm, l, k)]
  <2> DEFINE m == IndexOf(vm, l, k)
  <2>1. m \in IndexesOf(vm, l, k) /\ \A i \in IndexesOf(vm, l, k) : i <= m
    BY <1>1, <1>5, <1>7, MaxIs DEF IndexOf
  <2>2. own \in SUBSET (0 .. s + 1) /\ own # {} /\ s + 1 \in Int
    BY <1>1, <1>5, <1>6, <1>7
  <2>3. Max(own) \in own /\ \A i \in own : i <= Max(own)
    BY <2>2, MaxIs
  <2> HIDE DEF m
  <2>4. m \in 0 .. s /\ m + 1 \in own /\ m + 1 \in 1 .. s + 1 /\ (m + 1) - 1 = m
    BY <1>1, <1>4, <1>5, <2>1
  <2>5. Max(own) \in 1 .. s + 1 /\ Max(own) - 1 \in IndexesOf(vm, l, k)
    BY <1>3, <1>5, <2>3
  <2>6. Max(own) = m + 1
    BY <1>1, <2>1, <2>3, <2>4, <2>5
  <2>7. x.slots[m + 1].value = vslots[lookups[o].oslots][m]
    BY <1>1, <2>4
  <2> QED BY <2>6, <2>7 DEF m
<1> QED BY <1>6, <1>7 DEF x, own, l

(* A selector that has the cookie of a layout is used in place of a search.  *)
LEMMA SelectedIs ==
  ASSUME LookupInv, NEW o \in DOMAIN lookups, NEW k
  PROVE  selected(o, k) = Selected(lookups[o].layout, k)
<1>1. lookup_getsel(o, k) = Selected(lookups[o].layout, k)
  BY GetselIs DEF LookupInv
<1>2. lookups[o].layout \in DOMAIN vm.layouts
  BY PrototypesAre DEF LookupInv
<1>3. vm.layouts[lookups[o].layout].cookie # 0
  BY <1>2 DEF LookupInv, GoodVm, CookiesAreDistinct
<1>4. Good(o, k) => k \in Cached /\ sel[k] = Selected(lookups[o].layout, k)
  BY <1>2, <1>3 DEF LookupInv, SelectorsAreFresh, Good, selector, NoSel
<1> QED BY <1>1, <1>4 DEF selected, selector

(* What a selector reads is what a walk of the prototypes finds.             *)
LEMMA ReadIs ==
  ASSUME LookupInv, NEW o \in Accessible, NEW k
  PROVE  read(o, selected(o, k)) = Abstract!Lookup(o, k)
<1> DEFINE has(p) == IndexesOf(vm, lookups[p].layout, k) # {}
           f == Onwards(k)
           g == [p \in DOMAIN AbstractObjects |->
                   IF Abstract!Own(p, k) # {} THEN Null ELSE AbstractObjects[p].prototype]
           owners == {p \in Abstract!Reached(g, {o}) : Abstract!Own(p, k) # {}}
           owner == CHOOSE p \in owners : TRUE
           value(p) == vslots[lookups[p].oslots][IndexOf(vm, lookups[p].layout, k)]
<1>10. Abstract!Lookup(o, k) = IF owners = {} THEN Null
                               ELSE AbstractObjects[owner].slots[Max(Abstract!Own(owner, k))].value
  BY DEF Abstract!Lookup, Abstract!Max, Max
<1>0. GoodVm(vm) /\ LookupType /\ PrototypesAreSealed
  BY DEF LookupInv
<1>1. /\ DOMAIN f = DOMAIN lookups /\ Ends(f)
      /\ \A q \in DOMAIN lookups : f[q] = IF has(q) THEN Null ELSE Prototypes[q]
      /\ Owners(o, k) = {p \in Reached(f, {o}) : has(p)}
  BY <1>0, OwnersAre
<1>2. /\ Accessible \subseteq DOMAIN lookups
      /\ \A p \in Accessible : Prototypes[p] # Null => Prototypes[p] \in Accessible
  BY <1>0, AccessibleAre
<1>3. \A p \in Accessible : /\ Abstract!Own(p, k) # {} <=> has(p)
                            /\ AbstractObjects[p].prototype = Prototypes[p]
  <2> TAKE p \in Accessible
  <2>1. Abstract!Own(p, k) # {} <=> has(p)
    BY <1>0, OwnIs
  <2>2. AbstractObjects[p].prototype = Prototypes[p]
    BY <1>0, ObjectIs
  <2> QED BY <2>1, <2>2
<1>4. DOMAIN AbstractObjects = Accessible
  BY DEF AbstractObjects
<1>5. DOMAIN g = Accessible /\ \A p \in Accessible : g[p] = f[p]
  <2>1. ASSUME NEW p \in Accessible PROVE g[p] = IF has(p) THEN Null ELSE Prototypes[p]
    BY <1>3, <1>4
  <2> QED BY <1>1, <1>2, <1>4, <2>1
<1>6. \A S : Abstract!Reached(g, S) = Reached(g, S)
  BY DEF Abstract!Reached, Reached
<1> HIDE DEF f, g
<1>7. Ends(g) /\ ClosedIn(f, Accessible)
  BY <1>1, <1>2, <1>5 DEF Ends, ClosedIn
<1>8. Reached(f, {o}) = Reached(g, {o}) /\ Reached(f, {o}) \subseteq Accessible
  BY <1>1, <1>2, <1>5, <1>7, ReachedAgrees
<1>9. owners = Owners(o, k) /\ owners \subseteq Accessible
  BY <1>1, <1>3, <1>6, <1>8
<1>11. selected(o, k) = lookup_getsel(o, k)
  BY <1>0, <1>2, SelectedIs, GetselIs
<1> HIDE DEF owners
<1>12. CASE owners = {}
  <2>1. selected(o, k) = NoSel
    BY <1>9, <1>11, <1>12 DEF lookup_getsel
  <2> QED BY <1>10, <1>12, <2>1 DEF read
<1>13. CASE owners # {}
  <2>1. owner \in Accessible /\ has(owner) /\ owner = CHOOSE p \in Owners(o, k) : TRUE
    BY <1>1, <1>9, <1>13
  <2> HIDE DEF owner
  <2>2. Abstract!Lookup(o, k) = value(owner)
    <3>1. /\ Max(Abstract!Own(owner, k)) = IndexOf(vm, lookups[owner].layout, k) + 1
          /\ AbstractObjects[owner].slots[IndexOf(vm, lookups[owner].layout, k) + 1].value
               = value(owner)
      BY <1>0, <2>1, OwnIs
    <3> QED BY <1>10, <1>13, <3>1
  <2>3. vm.layouts[lookups[o].layout].cookie # 0
    <3>1. lookups[o].layout \in DOMAIN vm.layouts
      BY <1>0, <1>2, PrototypesAre
    <3> QED BY <1>0, <3>1 DEF GoodVm, CookiesAreDistinct
  <2>4. IndexOf(vm, lookups[owner].layout, k) \in Nat
          /\ IndexOf(vm, lookups[owner].layout, k) # NoIndex
    <3>1. lookups[owner].layout \in DOMAIN vm.layouts
      BY <1>0, <1>2, <2>1, PrototypesAre
    <3> QED BY <1>0, <2>1, <3>1, IndexOfIs DEF NoIndex
  <2>5. CASE owner = o
    <3>1. selected(o, k) = [cookie |-> vm.layouts[lookups[o].layout].cookie,
                            sindex |-> IndexOf(vm, lookups[owner].layout, k), slot |-> Null]
      BY <1>9, <1>11, <1>13, <2>1, <2>5 DEF lookup_getsel
    <3>2. selected(o, k) # NoSel
      BY <2>3, <3>1 DEF NoSel
    <3>3. read(o, selected(o, k)) = value(owner)
      BY <2>4, <2>5, <3>1, <3>2 DEF read
    <3> QED BY <2>2, <3>3
  <2>6. CASE owner # o
    <3>1. selected(o, k) = [cookie |-> vm.layouts[lookups[o].layout].cookie, sindex |-> NoIndex,
                            slot |-> [vslots |-> lookups[owner].oslots,
                                      sindex |-> IndexOf(vm, lookups[owner].layout, k)]]
      BY <1>9, <1>11, <1>13, <2>1, <2>6 DEF lookup_getsel
    <3>2. selected(o, k) # NoSel
      BY <2>3, <3>1 DEF NoSel
    <3>3. read(o, selected(o, k)) = value(owner)
      BY <3>1, <3>2 DEF read
    <3> QED BY <2>2, <3>3
  <2> QED BY <2>5, <2>6
<1> QED BY <1>12, <1>13

(* The invariant gives the first property.                                   *)
LEMMA SelectorsDoAgree == LookupInv => SelectorsAgree
<1> SUFFICES ASSUME LookupInv, NEW o \in held, NEW k \in Key
             PROVE  read(o, selected(o, k)) = Abstract!Lookup(o, k)
  BY DEF SelectorsAgree
<1>1. o \in Accessible
  BY AccessibleAre DEF LookupInv
<1> QED BY <1>1, ReadIs

(* And the second: two equal paths from one root are one.                    *)
LEMMA LayoutsAreShared == LookupInv => SameKeysShareLayout
<1> DEFINE l(o) == lookups[o].layout
           s(o) == vm.layouts[l(o)].sindex
           KeysOf(o) == [i \in 0 .. s(o) |-> vm.layouts[Path(vm, l(o))[i]].key]
<1> SUFFICES ASSUME LookupInv, NEW o \in held, NEW p \in held,
                    lookup_prototype(o) = lookup_prototype(p), KeysOf(o) = KeysOf(p)
             PROVE  l(o) = l(p)
  BY DEF SameKeysShareLayout
<1>1. GoodVm(vm) /\ LookupType /\ PrototypesAreSealed
  BY DEF LookupInv
<1>2. l(o) \in DOMAIN vm.layouts /\ l(p) \in DOMAIN vm.layouts
  BY <1>1, PrototypesAre DEF LookupType
<1>3. s(o) \in Nat \cup {NoIndex} /\ s(p) \in Nat \cup {NoIndex}
  BY <1>1, <1>2, LayoutIs
<1>4. 0 .. s(o) = 0 .. s(p) /\ \A i \in 0 .. s(o) : KeysOf(o)[i] = KeysOf(p)[i]
  <2>1. DOMAIN KeysOf(o) = 0 .. s(o) /\ DOMAIN KeysOf(p) = 0 .. s(p)
    OBVIOUS
  <2> HIDE DEF KeysOf
  <2> QED BY <2>1
<1>5. s(o) = s(p)
  <2>1. \A i : i \in 0 .. s(o) <=> i \in 0 .. s(p)
    BY <1>4, Zenon
  <2>2. s(o) \in Nat => s(o) \in 0 .. s(o)
    OBVIOUS
  <2>3. s(p) \in Nat => s(p) \in 0 .. s(p)
    OBVIOUS
  <2>4. s(o) \in 0 .. s(p) => s(p) \in Nat /\ s(o) <= s(p)
    BY <1>3 DEF NoIndex
  <2>5. s(p) \in 0 .. s(o) => s(o) \in Nat /\ s(p) <= s(o)
    BY <1>3 DEF NoIndex
  <2> QED BY <1>3, <2>1, <2>2, <2>3, <2>4, <2>5, SMTT(30)
<1> DEFINE a == Path(vm, l(o))
           b == Path(vm, l(p))
           N == s(o) + 1
           P == {n \in 0 .. N : a[n - 1] = b[n - 1]}
<1>6. N \in Nat /\ s(o) \in Int
  BY <1>3 DEF NoIndex
<1>7. a[NoIndex] = b[NoIndex]
  <2>1. /\ vm.instance_layouts[vm.layouts[a[NoIndex]].parent] = a[NoIndex]
        /\ vm.instance_layouts[vm.layouts[b[NoIndex]].parent] = b[NoIndex]
    BY <1>1, <1>2, PathGives
  <2>2. vm.layouts[a[NoIndex]].parent = vm.layouts[b[NoIndex]].parent
    BY DEF lookup_prototype
  <2> HIDE DEF a, b
  <2> QED BY <2>1, <2>2, Zenon
<1>8. 0 \in P
  BY <1>6, <1>7, SMTT(30) DEF NoIndex
<1>9. /\ a[s(o)] = l(o) /\ b[s(o)] = l(p)
      /\ \A i \in 0 .. s(o) : /\ a[i] \in DOMAIN vm.layouts /\ b[i] \in DOMAIN vm.layouts
                             /\ vm.layouts[a[i]].parent = a[i - 1]
                             /\ vm.layouts[b[i]].parent = b[i - 1]
                             /\ vm.layouts[a[i]].key = vm.layouts[b[i]].key
                             /\ vm.layouts[a[i]].key # Null
  <2>1. \A i \in 0 .. s(o) : i \in NoIndex .. s(o)
    BY <1>6 DEF NoIndex
  <2>2. \A i \in 0 .. s(o) : vm.layouts[a[i]].key = vm.layouts[b[i]].key
    <3> TAKE i \in 0 .. s(o)
    <3>1. i \in 0 .. s(p)
      BY <1>5, SMTT(30)
    <3>2. KeysOf(o)[i] = vm.layouts[a[i]].key /\ KeysOf(p)[i] = vm.layouts[b[i]].key
      BY <3>1, Zenon
    <3> QED BY <1>4, <3>2, Zenon
  <2>3. /\ a[s(o)] = l(o)
        /\ \A i \in NoIndex .. s(o) : a[i] \in DOMAIN vm.layouts
        /\ \A i \in 0 .. s(o) : vm.layouts[a[i]].parent = a[i - 1] /\ vm.layouts[a[i]].key # Null
    <3>1. IsPath(vm, l(o), a)
      BY <1>1, <1>2, PathIs, Zenon
    <3>2. \A i \in 0 .. s(o) : vm.layouts[a[i]].key # Null
      <4> HIDE DEF l, KeysOf
      <4> QED BY <1>1, <1>2, PathLeads
    <3> HIDE DEF a
    <3> QED BY <3>1, <3>2, Zenon DEF IsPath
  <2>4. /\ b[s(p)] = l(p)
        /\ \A i \in NoIndex .. s(p) : b[i] \in DOMAIN vm.layouts
        /\ \A i \in 0 .. s(p) : vm.layouts[b[i]].parent = b[i - 1]
    <3>1. IsPath(vm, l(p), b)
      BY <1>1, <1>2, PathIs, Zenon
    <3> HIDE DEF b
    <3> QED BY <3>1, Zenon DEF IsPath
  <2> HIDE DEF a, b
  <2> QED BY <1>5, <2>1, <2>2, <2>3, <2>4, Zenon
(* A layout's child for a key is the only one. *)
<1>10. ASSUME NEW x \in DOMAIN vm.layouts, NEW y \in DOMAIN vm.layouts,
              vm.layouts[x].key # Null, vm.layouts[x].key = vm.layouts[y].key,
              vm.layouts[x].parent = vm.layouts[y].parent
       PROVE  x = y
  <2>1. ParentsLead(vm) /\ LinksLead(vm)
    BY <1>1 DEF GoodVm
  <2>2. x # Null /\ y # Null
    BY <1>1, LookupAssumption DEF GoodVm, IsVm
  <2>3. /\ \/ vm.layouts[vm.layouts[x].parent].next = x
           \/ /\ <<vm.layouts[x].parent, vm.layouts[x].key>> \in DOMAIN vm.splitkey_layouts
              /\ vm.splitkey_layouts[<<vm.layouts[x].parent, vm.layouts[x].key>>] = x
        /\ \/ vm.layouts[vm.layouts[x].parent].next = y
           \/ /\ <<vm.layouts[x].parent, vm.layouts[x].key>> \in DOMAIN vm.splitkey_layouts
              /\ vm.splitkey_layouts[<<vm.layouts[x].parent, vm.layouts[x].key>>] = y
    BY <1>10, <2>1, Zenon DEF ParentsLead
  <2>4. <<vm.layouts[x].parent, vm.layouts[x].key>> \in DOMAIN vm.splitkey_layouts
          /\ vm.layouts[vm.layouts[x].parent].next # Null =>
            vm.layouts[vm.layouts[vm.layouts[x].parent].next].key # vm.layouts[x].key
    BY <2>1 DEF LinksLead
  <2> QED BY <1>10, <2>2, <2>3, <2>4
<1> HIDE DEF a, b, l
<1>11. ASSUME NEW n \in 0 .. N - 1, n \in P PROVE n + 1 \in P
  <2>1. n \in 0 .. s(o) /\ n + 1 \in 0 .. N /\ (n + 1) - 1 = n
    BY <1>6
  <2>2. a[n] = b[n]
    BY <1>9, <1>10, <1>11, <2>1
  <2> QED BY <2>1, <2>2
<1>12. \A n \in 0 .. N : n \in P
  <2> HIDE DEF P, N
  <2> QED BY <1>6, <1>8, <1>11, UpTo
<1>13. N \in P /\ N - 1 = s(o)
  BY <1>6, <1>12
<1> QED BY <1>9, <1>13

--------------------------------------------------------------------------------
(* Making layouts. *)

(* What an object of v becomes with more keys.  Roots are made for Q only.   *)
Made(v, Q, at) ==
  /\ at = [layout |-> at.layout, vm |-> at.vm, slots |-> at.slots]
  /\ GoodVm(at.vm) /\ Grows(v, at.vm)
  /\ at.layout \in DOMAIN at.vm.layouts
  /\ DOMAIN at.vm.layouts \subseteq DOMAIN v.layouts \cup Range(Path(at.vm, at.layout))
  /\ DOMAIN at.vm.instance_layouts \subseteq DOMAIN v.instance_layouts \cup Q
  /\ \A l \in DOMAIN at.vm.layouts \ DOMAIN v.layouts :
       at.vm.layouts[l].key = Null => at.vm.layouts[l].parent \in Q
  /\ IsSlots(at.slots)
  /\ at.vm.layouts[at.layout].sindex \in DOMAIN at.slots \cup {NoIndex}

(* The path of a layout with another key is that of the layout, and itself.  *)
LEMMA NextPath ==
  ASSUME NEW v, GoodVm(v), NEW l \in DOMAIN v.layouts, NEW k \in Key
  PROVE  LET to == next_layout(v, l, k)
             s  == v.layouts[l].sindex
         IN  /\ s \in Int /\ s >= NoIndex /\ s + 1 \in Nat
             /\ to.vm.layouts[to.layout].sindex = s + 1
             /\ to.layout \in DOMAIN to.vm.layouts
             /\ Path(to.vm, to.layout)[s + 1] = to.layout
             /\ to.vm.layouts[to.layout].key = k
             /\ DOMAIN Path(to.vm, to.layout) = NoIndex .. s + 1
             /\ \A i \in NoIndex .. s :
                  /\ Path(to.vm, to.layout)[i] = Path(v, l)[i]
                  /\ to.vm.layouts[Path(to.vm, to.layout)[i]].key = v.layouts[Path(v, l)[i]].key
                  /\ to.vm.layouts[Path(to.vm, to.layout)[i]].parent
                       = v.layouts[Path(v, l)[i]].parent
<1> DEFINE to == next_layout(v, l, k)
           s  == v.layouts[l].sindex
<1>1. /\ GoodVm(to.vm) /\ Keeps(v, to.vm) /\ to.vm.layouts[to.layout].key = k
      /\ IsChild(to.vm, l, to.layout)
  BY NextLayoutIs DEF Grows
<1> HIDE DEF to
<1>2. to.layout \in DOMAIN to.vm.layouts
  BY <1>1 DEF IsChild
<1>3. s \in Int /\ s >= NoIndex /\ s + 1 \in Nat
  BY LayoutIs DEF NoIndex
<1>4. /\ Path(to.vm, l) = Path(v, l) /\ to.vm.layouts[l].sindex = s
      /\ \A i \in NoIndex .. s :
           /\ to.vm.layouts[Path(to.vm, l)[i]].key = v.layouts[Path(v, l)[i]].key
           /\ to.vm.layouts[Path(to.vm, l)[i]].parent = v.layouts[Path(v, l)[i]].parent
  BY <1>1, PathIsKept
<1>5. /\ to.vm.layouts[to.layout].sindex = s + 1
      /\ Path(to.vm, to.layout)[s + 1] = to.layout
      /\ \A i \in NoIndex .. s : Path(to.vm, to.layout)[i] = Path(to.vm, l)[i]
  <2>1. /\ to.vm.layouts[to.layout].sindex = to.vm.layouts[l].sindex + 1
        /\ Path(to.vm, to.layout)[to.vm.layouts[to.layout].sindex] = to.layout
        /\ \A i \in NoIndex .. to.vm.layouts[l].sindex :
             Path(to.vm, to.layout)[i] = Path(to.vm, l)[i]
    BY <1>1, ChildPath
  <2> QED BY <1>4, <2>1
<1>6. DOMAIN Path(to.vm, to.layout) = NoIndex .. s + 1
  BY <1>1, <1>2, <1>5, PathGives
<1> QED BY <1>1, <1>2, <1>3, <1>4, <1>5, <1>6, Zenon DEF to

(* The same, as a fact about the layout and those there are with it.         *)
IsNext(v, l, k, to) ==
  LET s == v.layouts[l].sindex
  IN  /\ s \in Int /\ s >= NoIndex /\ s + 1 \in Nat
      /\ to.vm.layouts[to.layout].sindex = s + 1
      /\ to.layout \in DOMAIN to.vm.layouts
      /\ Path(to.vm, to.layout)[s + 1] = to.layout
      /\ to.vm.layouts[to.layout].key = k
      /\ \A i \in NoIndex .. s :
           /\ Path(to.vm, to.layout)[i] = Path(v, l)[i]
           /\ to.vm.layouts[Path(to.vm, to.layout)[i]].key = v.layouts[Path(v, l)[i]].key
           /\ to.vm.layouts[Path(to.vm, to.layout)[i]].parent = v.layouts[Path(v, l)[i]].parent

LEMMA NextIs ==
  ASSUME NEW v, GoodVm(v), NEW l \in DOMAIN v.layouts, NEW k \in Key
  PROVE  IsNext(v, l, k, next_layout(v, l, k))
BY NextPath DEF IsNext

(* next_layout adds a key to what is made.                                   *)
LEMMA MadeNext ==
  ASSUME NEW v, GoodVm(v), NEW Q, NEW at, Made(v, Q, at), NEW k \in Key, NEW slots, IsSlots(slots),
         at.vm.layouts[at.layout].sindex + 1 \in DOMAIN slots
  PROVE  LET to == next_layout(at.vm, at.layout, k)
         IN  Made(v, Q, [layout |-> to.layout, vm |-> to.vm, slots |-> slots])
<1> DEFINE to == next_layout(at.vm, at.layout, k)
           s  == at.vm.layouts[at.layout].sindex
<1>1. GoodVm(at.vm) /\ Grows(v, at.vm) /\ at.layout \in DOMAIN at.vm.layouts
  BY DEF Made
<1>2. /\ GoodVm(to.vm) /\ Grows(at.vm, to.vm)
      /\ DOMAIN to.vm.layouts = DOMAIN at.vm.layouts \cup {to.layout}
      /\ to.vm.layouts[to.layout].key = k
      /\ to.vm.instance_layouts = at.vm.instance_layouts
  BY <1>1, NextLayoutIs
<1>3. /\ s \in Int /\ s >= NoIndex /\ s + 1 \in Nat
      /\ to.vm.layouts[to.layout].sindex = s + 1
      /\ to.layout \in DOMAIN to.vm.layouts
      /\ Path(to.vm, to.layout)[s + 1] = to.layout
      /\ DOMAIN Path(to.vm, to.layout) = NoIndex .. s + 1
      /\ \A i \in NoIndex .. s : Path(to.vm, to.layout)[i] = Path(at.vm, at.layout)[i]
  BY <1>1, NextPath
<1> HIDE DEF to
<1>4. Grows(v, to.vm)
  BY <1>1, <1>2, GrowsOn
<1>5. DOMAIN to.vm.layouts \subseteq DOMAIN v.layouts \cup Range(Path(to.vm, to.layout))
  <2>1. DOMAIN Path(at.vm, at.layout) = NoIndex .. s
    BY <1>1, PathGives
  <2>2. s \in Int /\ s >= NoIndex
    BY <1>3, Zenon
  <2>3. s + 1 \in NoIndex .. s + 1 /\ \A i \in NoIndex .. s : i \in NoIndex .. s + 1
    <3> HIDE DEF s
    <3> QED BY <2>2 DEF NoIndex
  <2>4. Range(Path(at.vm, at.layout)) \subseteq Range(Path(to.vm, to.layout))
    BY <1>3, <2>1, <2>3 DEF Range
  <2>5. to.layout \in Range(Path(to.vm, to.layout))
    BY <1>3, <2>3 DEF Range
  <2> QED BY <1>2, <2>4, <2>5 DEF Made
<1>6. ASSUME NEW l \in DOMAIN to.vm.layouts \ DOMAIN v.layouts, to.vm.layouts[l].key = Null
      PROVE  to.vm.layouts[l].parent \in Q
  <2>1. k # Null
    BY LookupAssumption
  <2>2. l \in DOMAIN at.vm.layouts
    BY <1>2, <1>6, <2>1
  <2>3. at.vm.layouts[l].key = Null /\ to.vm.layouts[l].parent = at.vm.layouts[l].parent
    BY <1>2, <1>6, <2>2 DEF Grows, Keeps
  <2> QED BY <2>2, <2>3 DEF Made
<1>7. DOMAIN to.vm.instance_layouts \subseteq DOMAIN v.instance_layouts \cup Q
  BY <1>2 DEF Made
<1> DEFINE x == [layout |-> to.layout, vm |-> to.vm, slots |-> slots]
<1>8. x = [layout |-> x.layout, vm |-> x.vm, slots |-> x.slots]
      /\ x.layout = to.layout /\ x.vm = to.vm /\ x.slots = slots
  OBVIOUS
<1> HIDE DEF x
<1>9. Made(v, Q, x)
  BY <1>2, <1>3, <1>4, <1>5, <1>6, <1>7, <1>8 DEF Made
<1> QED BY <1>9 DEF x, to

(* Slots that grow keep what is in them.                                     *)
LEMMA GrownIs ==
  ASSUME NEW slots, IsSlots(slots), NEW layout, layout.sindex \in Nat,
         layout.sindex <= Cardinality(DOMAIN slots)
  PROVE  /\ IsSlots(Grown(slots, layout))
         /\ layout.sindex \in DOMAIN Grown(slots, layout)
         /\ \A i \in DOMAIN slots : /\ i \in DOMAIN Grown(slots, layout)
                                    /\ Grown(slots, layout)[i] = slots[i]
         /\ \A i \in DOMAIN Grown(slots, layout) \ DOMAIN slots : Grown(slots, layout)[i] = Null
<1> DEFINE count == Cardinality(DOMAIN slots)
           less == IF count >= SlowGrowth THEN count \div 2 ELSE 0
           expand == 2 * count - less
           more == [i \in 0 .. expand - 1 |-> IF i < count THEN slots[i] ELSE Null]
<1>1. /\ count \in Nat \ {0} /\ DOMAIN slots = 0 .. count - 1
      /\ \A i \in 0 .. count - 1 : slots[i] \in Value \cup {Null}
      /\ slots \in [0 .. count - 1 -> Value \cup {Null}]
  BY DEF IsSlots
<1> HIDE DEF count
<1>2. less \in Nat /\ 2 * less <= count
  <2>1. count \div 2 \in Nat /\ 2 * (count \div 2) <= count
    BY <1>1
  <2> QED BY <1>1, <2>1
<1> HIDE DEF less
<1>3. expand \in Nat /\ expand >= count + 1
  BY <1>1, <1>2
<1> HIDE DEF expand
<1>4. CASE layout.sindex < count
  <2>1. Grown(slots, layout) = slots
    BY <1>4 DEF Grown, count
  <2> QED BY <1>1, <1>4, <2>1
<1>5. CASE ~ layout.sindex < count
  <2>1. Grown(slots, layout) = more
    BY <1>5 DEF Grown, count, less, expand
  <2>2. DOMAIN more = 0 .. expand - 1 /\ \A i \in 0 .. expand - 1 : more[i] \in Value \cup {Null}
    BY <1>1, <1>3
  <2>3. \A i \in 0 .. count - 1 : i \in 0 .. expand - 1 /\ more[i] = slots[i]
    BY <1>1, <1>3
  <2>8. \A i \in (0 .. expand - 1) \ (0 .. count - 1) : more[i] = Null
    BY <1>1, <1>3
  <2>4. more \in [0 .. expand - 1 -> Value \cup {Null}]
    BY <2>2
  <2> HIDE DEF more
  <2>5. Cardinality(DOMAIN more) = expand
    <3>1. Cardinality(0 .. expand - 1) = IF 0 > expand - 1 THEN 0 ELSE (expand - 1) - 0 + 1
      BY <1>3, FS_Interval
    <3> QED BY <1>1, <1>3, <2>2, <3>1
  <2>6. IsSlots(more)
    BY <1>1, <1>3, <2>4, <2>5 DEF IsSlots
  <2>7. layout.sindex \in 0 .. expand - 1
    BY <1>1, <1>3, <1>5 DEF count
  <2> QED BY <1>1, <2>1, <2>2, <2>3, <2>6, <2>7, <2>8
<1> QED BY <1>4, <1>5

(* So does update_layout, with the slots grown for it.                       *)
LEMMA MadeUpdate ==
  ASSUME NEW v, GoodVm(v), NEW Q, NEW at, Made(v, Q, at), NEW k \in Key
  PROVE  LET to == update_layout(at, k)
             s  == at.vm.layouts[at.layout].sindex
         IN  /\ Made(v, Q, to)
             /\ s \in Int /\ s >= NoIndex /\ s + 1 \in Nat
             /\ to.vm.layouts[to.layout].sindex = s + 1
             /\ to.layout \in DOMAIN to.vm.layouts
             /\ s + 1 \in DOMAIN to.slots
             /\ Path(to.vm, to.layout)[s + 1] = to.layout
             /\ to.vm.layouts[to.layout].key = k
             /\ \A i \in NoIndex .. s :
                  /\ Path(to.vm, to.layout)[i] = Path(at.vm, at.layout)[i]
                  /\ to.vm.layouts[Path(to.vm, to.layout)[i]].key
                       = at.vm.layouts[Path(at.vm, at.layout)[i]].key
                  /\ to.vm.layouts[Path(to.vm, to.layout)[i]].parent
                       = at.vm.layouts[Path(at.vm, at.layout)[i]].parent
             /\ \A i \in DOMAIN at.slots : i \in DOMAIN to.slots /\ to.slots[i] = at.slots[i]
             /\ \A i \in DOMAIN to.slots \ DOMAIN at.slots : to.slots[i] = Null
<1> DEFINE next == next_layout(at.vm, at.layout, k)
           s  == at.vm.layouts[at.layout].sindex
           slots == Grown(at.slots, next.vm.layouts[next.layout])
           to == update_layout(at, k)
<1>1. GoodVm(at.vm) /\ at.layout \in DOMAIN at.vm.layouts
  BY Zenon DEF Made
<1>2. /\ s \in Int /\ s >= NoIndex /\ s + 1 \in Nat
      /\ next.vm.layouts[next.layout].sindex = s + 1
      /\ next.layout \in DOMAIN next.vm.layouts
      /\ Path(next.vm, next.layout)[s + 1] = next.layout
      /\ next.vm.layouts[next.layout].key = k
      /\ \A i \in NoIndex .. s :
           /\ Path(next.vm, next.layout)[i] = Path(at.vm, at.layout)[i]
           /\ next.vm.layouts[Path(next.vm, next.layout)[i]].key
                = at.vm.layouts[Path(at.vm, at.layout)[i]].key
           /\ next.vm.layouts[Path(next.vm, next.layout)[i]].parent
                = at.vm.layouts[Path(at.vm, at.layout)[i]].parent
  <2>1. IsNext(at.vm, at.layout, k, next)
    BY <1>1, NextIs, Zenon
  <2> HIDE DEF next
  <2> QED BY <2>1, Zenon DEF IsNext
<1>3. to = [layout |-> next.layout, vm |-> next.vm, slots |-> slots]
  BY DEF update_layout
<1>4. IsSlots(at.slots) /\ s + 1 <= Cardinality(DOMAIN at.slots)
  <2>1. IsSlots(at.slots) /\ s \in DOMAIN at.slots \cup {NoIndex}
    BY DEF Made
  <2> DEFINE count == Cardinality(DOMAIN at.slots)
  <2>2. count \in Nat \ {0} /\ DOMAIN at.slots = 0 .. count - 1
    BY <2>1 DEF IsSlots
  <2> HIDE DEF count
  <2>3. s \in 0 .. count - 1 \/ s = NoIndex
    BY <2>1, <2>2
  <2> HIDE DEF s
  <2>4. s + 1 <= count
    BY <2>2, <2>3 DEF NoIndex
  <2> QED BY <2>1, <2>4 DEF count
<1>5. /\ IsSlots(slots) /\ s + 1 \in DOMAIN slots
      /\ \A i \in DOMAIN at.slots : i \in DOMAIN slots /\ slots[i] = at.slots[i]
      /\ \A i \in DOMAIN slots \ DOMAIN at.slots : slots[i] = Null
  <2> HIDE DEF next, s
  <2> QED BY <1>2, <1>4, GrownIs
<1> HIDE DEF slots
<1>6. Made(v, Q, [layout |-> next.layout, vm |-> next.vm, slots |-> slots])
  BY <1>5, MadeNext
<1> HIDE DEF next, to
<1>7. to.layout = next.layout /\ to.vm = next.vm /\ to.slots = slots /\ Made(v, Q, to)
  BY <1>3, <1>6, Zenon
<1>8. /\ to.vm.layouts[to.layout].sindex = s + 1
      /\ to.layout \in DOMAIN to.vm.layouts
      /\ Path(to.vm, to.layout)[s + 1] = to.layout
      /\ to.vm.layouts[to.layout].key = k
      /\ \A i \in NoIndex .. s :
           /\ Path(to.vm, to.layout)[i] = Path(at.vm, at.layout)[i]
           /\ to.vm.layouts[Path(to.vm, to.layout)[i]].key
                = at.vm.layouts[Path(at.vm, at.layout)[i]].key
           /\ to.vm.layouts[Path(to.vm, to.layout)[i]].parent
                = at.vm.layouts[Path(at.vm, at.layout)[i]].parent
  BY <1>2, <1>7, Zenon
<1>9. /\ s + 1 \in DOMAIN to.slots
      /\ \A i \in DOMAIN at.slots : i \in DOMAIN to.slots /\ to.slots[i] = at.slots[i]
      /\ \A i \in DOMAIN to.slots \ DOMAIN at.slots : to.slots[i] = Null
  BY <1>5, <1>7, Zenon
<1> QED BY <1>2, <1>7, <1>8, <1>9, Zenon DEF to

(* What an object with a root layout becomes with other keys.                *)
LEMMA AddKeysIs ==
  ASSUME NEW v, GoodVm(v), NEW Q, NEW at, Made(v, Q, at),
         at.vm.layouts[at.layout].sindex = NoIndex,
         \A i \in DOMAIN at.slots : at.slots[i] = Null, NEW names \in Seq(Key)
  PROVE  LET to == AddKeys(at, names)
         IN  /\ Made(v, Q, to)
             /\ to.vm.layouts[to.layout].sindex = Len(names) - 1
             /\ to.vm.layouts[Path(to.vm, to.layout)[NoIndex]].parent
                  = at.vm.layouts[at.layout].parent
             /\ \A i \in 0 .. Len(names) - 1 :
                  to.vm.layouts[Path(to.vm, to.layout)[i]].key = names[i + 1]
             /\ \A i \in DOMAIN to.slots : to.slots[i] = Null
<1> DEFINE N == Len(names)
           IsNamed(f) == f = [n \in 0 .. N |-> IF n = 0 THEN at
             ELSE update_layout(f[n - 1], names[n])]
           g == CHOOSE f : IsNamed(f)
           IsFor(n, f) == /\ DOMAIN f = 0 .. n /\ f[0] = at
                          /\ \A i \in 1 .. n : f[i] = update_layout(f[i - 1], names[i])
           P == {n \in 0 .. N : \E f : IsFor(n, f)}
<1>1. N \in Nat
  OBVIOUS
<1> HIDE DEF N
<1>2. 0 \in P
  <2>1. IsFor(0, [i \in {0} |-> at])
    OBVIOUS
  <2>2. \E f : IsFor(0, f)
    BY <2>1
  <2> HIDE DEF IsFor
  <2> QED BY <1>1, <2>2
<1>3. ASSUME NEW n \in 0 .. N - 1, n \in P PROVE n + 1 \in P
  <2>1. PICK f : IsFor(n, f)
    BY <1>3
  <2> DEFINE more == [i \in 0 .. n + 1 |-> IF i = n + 1 THEN update_layout(f[n], names[n + 1])
        ELSE f[i]]
  <2>2. n \in Nat /\ n + 1 \in 0 .. N
    BY <1>1
  <2>3. DOMAIN more = 0 .. n + 1 /\ more[0] = at
    BY <2>1, <2>2
  <2>4. ASSUME NEW i \in 1 .. n + 1 PROVE more[i] = update_layout(more[i - 1], names[i])
    <3>1. i \in 0 .. n + 1 /\ i - 1 \in 0 .. n + 1 /\ i - 1 # n + 1
      BY <2>2
    <3>2. more[i - 1] = f[i - 1] /\ more[i] = IF i = n + 1 THEN update_layout(f[n], names[n + 1])
            ELSE f[i]
      BY <3>1
    <3>3. CASE i = n + 1
      <4>1. i - 1 = n
        BY <2>2, <3>3
      <4> QED BY <3>2, <3>3, <4>1
    <3>4. CASE i # n + 1
      <4>1. i \in 1 .. n
        BY <2>2, <3>4
      <4> QED BY <2>1, <3>2, <3>4, <4>1
    <3> QED BY <3>3, <3>4
  <2> HIDE DEF more
  <2>5. IsFor(n + 1, more)
    BY <2>3, <2>4
  <2> HIDE DEF IsFor
  <2> QED BY <2>2, <2>5
<1>4. \A n \in 0 .. N : n \in P
  <2> HIDE DEF P
  <2> QED BY <1>1, <1>2, <1>3, UpTo
<1>5. PICK f : IsFor(N, f)
  <2>1. N \in P
    <3> HIDE DEF P
    <3> QED BY <1>1, <1>4
  <2> HIDE DEF IsFor
  <2> QED BY <2>1
<1>6. IsNamed([n \in 0 .. N |-> f[n]])
  <2> DEFINE h == [n \in 0 .. N |-> f[n]]
             e(n) == IF n = 0 THEN at ELSE update_layout(h[n - 1], names[n])
  <2>1. ASSUME NEW n \in 0 .. N PROVE f[n] = e(n)
    <3>1. CASE n = 0
      BY <1>5, <3>1
    <3>2. CASE n # 0
      <4>1. n \in 1 .. N /\ n - 1 \in 0 .. N
        BY <1>1, <3>2
      <4>2. h[n - 1] = f[n - 1]
        BY <4>1
      <4> HIDE DEF h
      <4> QED BY <1>5, <3>2, <4>1, <4>2
    <3> QED BY <3>1, <3>2
  <2>2. h = [n \in 0 .. N |-> e(n)]
    <3> HIDE DEF e
    <3> QED BY <2>1
  <2> QED BY <2>2
<1>7. IsNamed(g)
  <2> HIDE DEF IsNamed
  <2> QED BY <1>6
<1>8. AddKeys(at, names) = g[N]
  BY DEF AddKeys, N
<1> HIDE DEF g
<1>9. ASSUME NEW n \in 0 .. N PROVE g[n] = IF n = 0 THEN at ELSE update_layout(g[n - 1], names[n])
  <2> DEFINE e(m) == IF m = 0 THEN at ELSE update_layout(g[m - 1], names[m])
  <2>1. g = [m \in 0 .. N |-> e(m)]
    BY <1>7
  <2>2. g[n] = e(n)
    <3> HIDE DEF e
    <3> QED BY <2>1
  <2> QED BY <2>2
<1> HIDE DEF IsNamed
(* What holds of each in turn. *)
<1> DEFINE Has(n, x) ==
             /\ Made(v, Q, x)
             /\ x.vm.layouts[x.layout].sindex = n - 1
             /\ x.vm.layouts[Path(x.vm, x.layout)[NoIndex]].parent = at.vm.layouts[at.layout].parent
             /\ \A i \in 0 .. n - 1 : x.vm.layouts[Path(x.vm, x.layout)[i]].key = names[i + 1]
             /\ \A i \in DOMAIN x.slots : x.slots[i] = Null
           R == {n \in 0 .. N : Has(n, g[n])}
<1>10. Has(0, at)
  <2>1. Path(at.vm, at.layout)[NoIndex] = at.layout
    <3>1. GoodVm(at.vm) /\ at.layout \in DOMAIN at.vm.layouts
      BY DEF Made
    <3> QED BY <3>1, PathGives
  <2>2. 0 .. 0 - 1 = {} /\ NoIndex = 0 - 1
    BY DEF NoIndex
  <2> QED BY <2>1, <2>2
<1>11. 0 \in R
  <2>1. g[0] = at /\ 0 \in 0 .. N
    BY <1>1, <1>9
  <2> HIDE DEF Has
  <2> QED BY <1>10, <2>1
<1>12. ASSUME NEW n \in 0 .. N - 1, n \in R PROVE n + 1 \in R
  <2> DEFINE x == g[n]
             k == names[n + 1]
             to == update_layout(x, k)
  <2>1. n \in Nat /\ n + 1 \in 0 .. N /\ n + 1 \in 1 .. N /\ n + 1 # 0 /\ (n + 1) - 1 = n
    BY <1>1
  <2>2. g[n + 1] = to
    BY <1>9, <2>1
  <2>3. k \in Key
    BY <2>1 DEF N
  <2>4. Has(n, x)
    BY <1>12, Zenon
  <2> HIDE DEF x, k
  <2> DEFINE s == x.vm.layouts[x.layout].sindex
  <2>5. /\ Made(v, Q, to)
        /\ to.vm.layouts[to.layout].sindex = s + 1
        /\ to.layout \in DOMAIN to.vm.layouts
        /\ Path(to.vm, to.layout)[s + 1] = to.layout
        /\ to.vm.layouts[to.layout].key = k
        /\ \A i \in NoIndex .. s :
             /\ to.vm.layouts[Path(to.vm, to.layout)[i]].key
                  = x.vm.layouts[Path(x.vm, x.layout)[i]].key
             /\ to.vm.layouts[Path(to.vm, to.layout)[i]].parent
                  = x.vm.layouts[Path(x.vm, x.layout)[i]].parent
        /\ \A i \in DOMAIN x.slots : i \in DOMAIN to.slots /\ to.slots[i] = x.slots[i]
        /\ \A i \in DOMAIN to.slots \ DOMAIN x.slots : to.slots[i] = Null
    <3>1. Made(v, Q, x)
      BY <2>4
    <3> HIDE DEF Has
    <3> QED BY <2>3, <3>1, MadeUpdate
  <2>6. s = n - 1
    BY <2>4
  <2> HIDE DEF to, s
  <2>7. s + 1 = n /\ NoIndex \in NoIndex .. s /\ \A i \in 0 .. s : i \in NoIndex .. s
    BY <2>1, <2>6 DEF NoIndex
  <2>8. ASSUME NEW i \in 0 .. n PROVE to.vm.layouts[Path(to.vm, to.layout)[i]].key = names[i + 1]
    <3>1. CASE i = n
      BY <2>5, <2>7, <3>1, Zenon DEF k
    <3>2. CASE i # n
      <4>1. i \in 0 .. n - 1 /\ i \in 0 .. s
        BY <2>1, <2>6, <3>2
      <4> QED BY <2>4, <2>5, <2>7, <4>1
    <3> QED BY <3>1, <3>2
  <2>9. to.vm.layouts[Path(to.vm, to.layout)[NoIndex]].parent = at.vm.layouts[at.layout].parent
    BY <2>4, <2>5, <2>7, Zenon
  <2>10. \A i \in DOMAIN to.slots : to.slots[i] = Null
    BY <2>4, <2>5, Zenon
  <2>11. Has(n + 1, to)
    BY <2>1, <2>5, <2>7, <2>8, <2>9, <2>10
  <2> HIDE DEF Has
  <2> QED BY <2>1, <2>2, <2>11
<1>13. \A n \in 0 .. N : n \in R
  <2> HIDE DEF R
  <2> QED BY <1>1, <1>11, <1>12, UpTo
<1>14. Has(N, g[N])
  <2>1. N \in 0 .. N
    BY <1>1
  <2> HIDE DEF Has
  <2> QED BY <1>13, <2>1
<1> QED BY <1>8, <1>14, Zenon DEF N

(* What an object becomes without the key of an index.                       *)
LEMMA DeleteKeyIs ==
  ASSUME NEW at, at = [layout |-> at.layout, vm |-> at.vm, slots |-> at.slots],
         GoodVm(at.vm), at.layout \in DOMAIN at.vm.layouts, IsSlots(at.slots),
         at.vm.layouts[at.layout].sindex \in DOMAIN at.slots,
         NEW index \in 0 .. at.vm.layouts[at.layout].sindex
  PROVE  LET to == DeleteKey(at, index)
             s  == at.vm.layouts[at.layout].sindex
         IN  /\ Made(at.vm, {}, to)
             /\ to.vm.layouts[to.layout].sindex = s - 1
             /\ DOMAIN to.slots = DOMAIN at.slots
             /\ to.vm.layouts[Path(to.vm, to.layout)[NoIndex]].parent
                  = at.vm.layouts[Path(at.vm, at.layout)[NoIndex]].parent
             /\ \A i \in 0 .. s - 1 :
                  /\ to.vm.layouts[Path(to.vm, to.layout)[i]].key
                       = at.vm.layouts[Path(at.vm, at.layout)[IF i < index THEN i ELSE i + 1]].key
                  /\ to.slots[i] = at.slots[IF i < index THEN i ELSE i + 1]
<1> DEFINE v == at.vm
           s == at.vm.layouts[at.layout].sindex
           path == Path(at.vm, at.layout)
           first == [at EXCEPT !.layout = path[index - 1]]
           to(x, i) == next_layout(x.vm, x.layout, at.vm.layouts[path[i]].key)
           readd(x, i) == [layout |-> to(x, i).layout, vm |-> to(x, i).vm,
                           slots |-> [x.slots EXCEPT ![i - 1] = x.slots[i]]]
           IsKept(f) == f = [i \in index .. s |-> IF i = index THEN first ELSE readd(f[i - 1], i)]
           g == CHOOSE f : IsKept(f)
           IsFor(n, f) == /\ DOMAIN f = index .. index + n /\ f[index] = first
                          /\ \A i \in index + 1 .. index + n : f[i] = readd(f[i - 1], i)
           N == s - index
           P == {n \in 0 .. N : \E f : IsFor(n, f)}
<1>1. /\ s \in Int /\ s \in 0 .. s /\ index \in Nat /\ s \in Nat /\ index <= s /\ N \in Nat
      /\ index + N = s
  BY LayoutIs
<1>8. DeleteKey(at, index) = g[s]
  BY DEF DeleteKey
<1> HIDE DEF readd, first, s, N
<1>2. 0 \in P
  <2>1. index .. index + 0 = {index} /\ index + 1 .. index + 0 = {}
    BY <1>1
  <2>2. IsFor(0, [i \in {index} |-> first])
    BY <2>1
  <2>3. \E f : IsFor(0, f)
    BY <2>2
  <2> HIDE DEF IsFor
  <2> QED BY <1>1, <2>3
<1>3. ASSUME NEW n \in 0 .. N - 1, n \in P PROVE n + 1 \in P
  <2>1. PICK f : IsFor(n, f)
    BY <1>3
  <2> DEFINE m == index + (n + 1)
             more == [i \in index .. m |-> IF i = m THEN readd(f[m - 1], m) ELSE f[i]]
  <2>2. n \in Nat /\ n + 1 \in 0 .. N /\ m \in Nat /\ m - 1 = index + n /\ index # m
        /\ index \in index .. m
    BY <1>1
  <2> HIDE DEF m
  <2>3. DOMAIN more = index .. m /\ more[index] = first
    BY <2>1, <2>2
  <2>4. ASSUME NEW i \in index + 1 .. m PROVE more[i] = readd(more[i - 1], i)
    <3>1. i \in index .. m /\ i - 1 \in index .. m /\ i - 1 # m
      BY <1>1, <2>2
    <3>2. more[i - 1] = f[i - 1] /\ more[i] = IF i = m THEN readd(f[m - 1], m) ELSE f[i]
      BY <3>1
    <3>3. CASE i = m
      BY <3>2, <3>3
    <3>4. CASE i # m
      <4>1. i \in index + 1 .. index + n
        BY <1>1, <2>2, <3>4
      <4> QED BY <2>1, <3>2, <3>4, <4>1
    <3> QED BY <3>3, <3>4
  <2> HIDE DEF more
  <2>5. IsFor(n + 1, more)
    BY <2>3, <2>4 DEF m
  <2> HIDE DEF IsFor
  <2> QED BY <2>2, <2>5
<1>4. \A n \in 0 .. N : n \in P
  <2> HIDE DEF P
  <2> QED BY <1>1, <1>2, <1>3, UpTo
<1>5. PICK f : IsFor(N, f)
  <2>1. N \in P
    <3> HIDE DEF P
    <3> QED BY <1>1, <1>4
  <2> HIDE DEF IsFor
  <2> QED BY <2>1
<1>6. IsKept([i \in index .. s |-> f[i]])
  <2> DEFINE h == [i \in index .. s |-> f[i]]
             e(i) == IF i = index THEN first ELSE readd(h[i - 1], i)
  <2>1. ASSUME NEW i \in index .. s PROVE f[i] = e(i)
    <3>1. CASE i = index
      BY <1>5, <3>1
    <3>2. CASE i # index
      <4>1. i \in index + 1 .. index + N /\ i - 1 \in index .. s
        BY <1>1, <3>2
      <4>2. h[i - 1] = f[i - 1]
        BY <4>1
      <4> HIDE DEF h
      <4> QED BY <1>5, <3>2, <4>1, <4>2
    <3> QED BY <3>1, <3>2
  <2>2. h = [i \in index .. s |-> e(i)]
    <3> HIDE DEF e
    <3> QED BY <2>1
  <2> QED BY <2>2
<1>7. IsKept(g)
  <2> HIDE DEF IsKept
  <2> QED BY <1>6
<1> HIDE DEF g
<1>9. ASSUME NEW i \in index .. s PROVE g[i] = IF i = index THEN first ELSE readd(g[i - 1], i)
  <2> DEFINE e(m) == IF m = index THEN first ELSE readd(g[m - 1], m)
  <2>1. g = [m \in index .. s |-> e(m)]
    BY <1>7
  <2>2. g[i] = e(i)
    <3> HIDE DEF e
    <3> QED BY <2>1
  <2> QED BY <2>2
<1> HIDE DEF IsKept
(* What holds of each in turn. *)
<1> DEFINE root == at.vm.layouts[path[NoIndex]].parent
           was(i) == IF i < index THEN i ELSE i + 1
           Has(m, x) ==
             /\ Made(v, {}, x)
             /\ x.vm.layouts[x.layout].sindex = m - 1
             /\ DOMAIN x.slots = DOMAIN at.slots
             /\ x.vm.layouts[Path(x.vm, x.layout)[NoIndex]].parent = root
             /\ \A i \in 0 .. m - 1 :
                  /\ x.vm.layouts[Path(x.vm, x.layout)[i]].key = at.vm.layouts[path[was(i)]].key
                  /\ x.slots[i] = at.slots[was(i)]
             /\ \A i \in m .. s : x.slots[i] = at.slots[i]
           R == {n \in 0 .. N : Has(index + n, g[index + n])}
<1>10. /\ \A i \in NoIndex .. s : path[i] \in DOMAIN v.layouts /\ v.layouts[path[i]].sindex = i
       /\ \A i \in 0 .. s : v.layouts[path[i]].key \in Key
       /\ path = Path(v, at.layout) /\ DOMAIN path = NoIndex .. s
  BY PathGives DEF s
<1>11. index - 1 \in NoIndex .. s /\ NoIndex \in NoIndex .. index - 1
  BY <1>1 DEF NoIndex
<1>12. Path(v, path[index - 1]) = [i \in NoIndex .. index - 1 |-> path[i]]
  BY <1>11, SubPath DEF s
<1>13. first = [layout |-> path[index - 1], vm |-> v, slots |-> at.slots]
  BY DEF first
<1> DEFINE count == Cardinality(DOMAIN at.slots)
<1>14. /\ count \in Nat \ {0} /\ DOMAIN at.slots = 0 .. count - 1 /\ s < count
       /\ at.slots = [i \in 0 .. count - 1 |-> at.slots[i]]
       /\ \A i \in 0 .. count - 1 : at.slots[i] \in Value \cup {Null}
  BY <1>1 DEF IsSlots, s
<1> HIDE DEF path, v, count
<1>15. Has(index, first)
  <2>1. first.layout = path[index - 1] /\ first.vm = v /\ first.slots = at.slots
        /\ first = [layout |-> first.layout, vm |-> first.vm, slots |-> first.slots]
    BY <1>13
  <2>2. Grows(v, v)
    BY DEF Grows, Keeps, GoodVm, IsVm, v
  <2>3. path[index - 1] \in DOMAIN v.layouts /\ v.layouts[path[index - 1]].sindex = index - 1
    BY <1>10, <1>11
  <2>4. index - 1 \in DOMAIN at.slots \cup {NoIndex}
    BY <1>1, <1>14 DEF NoIndex
  <2>5. Made(v, {}, first)
    BY <2>1, <2>2, <2>3, <2>4 DEF Made, v
  <2>6. \A i \in 0 .. index - 1 : was(i) = i /\ i \in NoIndex .. index - 1
    BY <1>1 DEF NoIndex
  <2> HIDE DEF was
  <2>7. \A i \in 0 .. index - 1 :
          /\ first.vm.layouts[Path(first.vm, first.layout)[i]].key = at.vm.layouts[path[was(i)]].key
          /\ first.slots[i] = at.slots[was(i)]
    BY <1>12, <2>1, <2>6 DEF v
  <2>8. first.vm.layouts[Path(first.vm, first.layout)[NoIndex]].parent = root
    BY <1>11, <1>12, <2>1 DEF v
  <2> QED BY <2>1, <2>3, <2>5, <2>7, <2>8
<1>16. 0 \in R
  <2>1. g[index + 0] = first /\ index + 0 = index /\ 0 \in 0 .. N
    BY <1>1, <1>9
  <2> HIDE DEF Has
  <2> QED BY <1>15, <2>1
<1>17. ASSUME NEW n \in 0 .. N - 1, n \in R PROVE n + 1 \in R
  <2> DEFINE m == index + n
             x == g[m]
             i0 == m + 1
             y == readd(x, i0)
  <2>1. /\ n \in Nat /\ n + 1 \in 0 .. N /\ m \in Nat /\ i0 \in Nat /\ i0 \in index .. s
        /\ i0 # index
        /\ i0 - 1 = m /\ index + (n + 1) = i0 /\ index <= m /\ m < s /\ i0 \in 0 .. s
        /\ m \in 0 .. s
    BY <1>1
  <2>0. /\ m \in 0 .. count - 1 /\ i0 \in 0 .. count - 1 /\ (m - 1) + 1 = m
        /\ \A i \in i0 .. s : i \in m .. s /\ i \in (0 .. count - 1) \ {m}
        /\ \A i \in 0 .. i0 - 1 :
             i # m => i \in 0 .. m - 1 /\ i \in (0 .. count - 1) \ {m}
    <3>1. m \in Nat /\ i0 \in Nat /\ i0 - 1 = m /\ s \in Nat /\ m < s
      BY <1>1, <2>1, Zenon
    <3>2. count \in Nat \ {0} /\ s < count
      BY <1>14, Zenon
    <3> HIDE DEF s, m, i0
    <3> QED BY <3>1, <3>2
  <2>2. g[i0] = y
    BY <1>9, <2>1
  <2>3. Has(m, x)
    BY <1>17, Zenon
  <2> HIDE DEF m, x, i0
  <2> DEFINE k == at.vm.layouts[path[i0]].key
             next == next_layout(x.vm, x.layout, k)
             slots == [x.slots EXCEPT ![i0 - 1] = x.slots[i0]]
  <2>4. k \in Key
    BY <1>10, <2>1 DEF v
  <2>5. y = [layout |-> next.layout, vm |-> next.vm, slots |-> slots]
    BY Zenon DEF readd
  <2>6. /\ Made(v, {}, x) /\ x.vm.layouts[x.layout].sindex = m - 1
        /\ x.layout \in DOMAIN x.vm.layouts /\ GoodVm(x.vm) /\ IsSlots(x.slots)
        /\ DOMAIN x.slots = 0 .. count - 1
    BY <1>14, <2>3 DEF Made
  <2>7. /\ DOMAIN slots = 0 .. count - 1 /\ slots[m] = x.slots[i0]
        /\ \A i \in (0 .. count - 1) \ {m} : slots[i] = x.slots[i]
        /\ slots = [i \in 0 .. count - 1 |-> slots[i]]
    <3>1. m \in DOMAIN x.slots
      BY <2>6, <2>0, Zenon
    <3> QED BY <2>1, <2>6, <3>1
  <2> HIDE DEF slots
  <2>8. IsSlots(slots)
    <3>1. \A i \in 0 .. count - 1 : x.slots[i] \in Value \cup {Null}
      BY <2>6 DEF IsSlots
    <3>3. \A i \in 0 .. count - 1 : slots[i] \in Value \cup {Null}
      BY <2>7, <2>0, <3>1
    <3>4. Cardinality(DOMAIN slots) = count
      BY <1>14, <2>7 DEF count
    <3> QED BY <1>14, <2>7, <3>3, <3>4 DEF IsSlots
  <2>9. (m - 1) + 1 = m /\ m \in DOMAIN slots
    BY <2>7, <2>0, Zenon
  <2>10. /\ next.vm.layouts[next.layout].sindex = m
         /\ Path(next.vm, next.layout)[m] = next.layout
         /\ next.vm.layouts[next.layout].key = k
         /\ \A i \in NoIndex .. m - 1 :
              /\ next.vm.layouts[Path(next.vm, next.layout)[i]].key
                   = x.vm.layouts[Path(x.vm, x.layout)[i]].key
              /\ next.vm.layouts[Path(next.vm, next.layout)[i]].parent
                   = x.vm.layouts[Path(x.vm, x.layout)[i]].parent
    <3> HIDE DEF k, next
    <3>2. GoodVm(x.vm) /\ x.layout \in DOMAIN x.vm.layouts
      BY <2>6
    <3>1. IsNext(x.vm, x.layout, k, next)
      BY <2>4, <3>2, NextIs DEF next
    <3> QED BY <2>6, <2>9, <3>1 DEF IsNext
  <2>11. Made(v, {}, [layout |-> next.layout, vm |-> next.vm, slots |-> slots])
    <3> HIDE DEF k
    <3> QED BY <2>4, <2>6, <2>8, <2>9, MadeNext DEF v
  <2> HIDE DEF next, y
  <2>12. y.layout = next.layout /\ y.vm = next.vm /\ y.slots = slots /\ Made(v, {}, y)
    BY <2>5, <2>11, Zenon
  <2>13. y.vm.layouts[y.layout].sindex = i0 - 1 /\ DOMAIN y.slots = DOMAIN at.slots
    BY <1>14, <2>1, <2>7, <2>10, <2>12, Zenon
  <2>14. NoIndex \in NoIndex .. m - 1 /\ \A i \in 0 .. m - 1 : i \in NoIndex .. m - 1
    BY <2>1 DEF NoIndex
  <2>15. y.vm.layouts[Path(y.vm, y.layout)[NoIndex]].parent = root
    BY <2>3, <2>10, <2>12, <2>14, Zenon
  <2>16. ASSUME NEW i \in 0 .. i0 - 1
         PROVE  /\ y.vm.layouts[Path(y.vm, y.layout)[i]].key = at.vm.layouts[path[was(i)]].key
                /\ y.slots[i] = at.slots[was(i)]
    <3>1. CASE i = m
      <4>1. was(m) = i0
        BY <2>1
      <4>2. x.slots[i0] = at.slots[i0]
        <5>1. i0 \in m .. s
          BY <2>1
        <5> QED BY <2>3, <5>1
      <4> HIDE DEF was
      <4> QED BY <2>7, <2>10, <2>12, <3>1, <4>1, <4>2
    <3>2. CASE i # m
      <4>1. i \in 0 .. m - 1 /\ i \in (0 .. count - 1) \ {m}
        BY <2>0, <3>2
      <4>2. /\ x.vm.layouts[Path(x.vm, x.layout)[i]].key = at.vm.layouts[path[was(i)]].key
            /\ x.slots[i] = at.slots[was(i)]
        BY <2>3, <4>1
      <4> HIDE DEF was
      <4> QED BY <2>7, <2>10, <2>12, <2>14, <4>1, <4>2
    <3> QED BY <3>1, <3>2, Zenon
  <2>17. ASSUME NEW i \in i0 .. s PROVE y.slots[i] = at.slots[i]
    <3>1. i \in m .. s /\ i \in (0 .. count - 1) \ {m}
      BY <2>0, Zenon
    <3> QED BY <2>3, <2>7, <2>12, <3>1
  <2>18. Has(i0, y)
    <3> HIDE DEF was, root
    <3> QED BY <2>12, <2>13, <2>15, <2>16, <2>17
  <2> HIDE DEF Has
  <2> QED BY <2>1, <2>2, <2>18
<1>18. \A n \in 0 .. N : n \in R
  <2> HIDE DEF R
  <2> QED BY <1>1, <1>16, <1>17, UpTo
<1>19. Has(s, g[s])
  <2>1. N \in 0 .. N
    BY <1>1
  <2> HIDE DEF Has
  <2> QED BY <1>1, <1>18, <2>1
<1> QED BY <1>8, <1>19, Zenon DEF s, path, v

--------------------------------------------------------------------------------
(* What selectors say, before a step and after it. *)

Sound == GoodVm(vm) /\ LookupType /\ PrototypesAreSealed

(* What the proofs about selectors use of it.                                *)
LEMMA SoundGives ==
  Sound =>
    /\ DOMAIN Prototypes = DOMAIN lookups /\ Ends(Prototypes)
    /\ \A o \in DOMAIN lookups :
         /\ lookups[o].layout \in DOMAIN vm.layouts
         /\ Prototypes[o] = vm.layouts[Path(vm, lookups[o].layout)[NoIndex]].parent
    /\ \A k :
         /\ DOMAIN Onwards(k) = DOMAIN lookups /\ Ends(Onwards(k))
         /\ \A q \in DOMAIN lookups :
              Onwards(k)[q] = IF IndexesOf(vm, lookups[q].layout, k) # {} THEN Null
                ELSE Prototypes[q]
         /\ \A o : Owners(o, k) = {p \in Reached(Onwards(k), {o}) :
              IndexesOf(vm, lookups[p].layout, k) # {}}
<1> SUFFICES ASSUME Sound
             PROVE  /\ DOMAIN Prototypes = DOMAIN lookups /\ Ends(Prototypes)
                    /\ \A o \in DOMAIN lookups :
                         /\ lookups[o].layout \in DOMAIN vm.layouts
                         /\ Prototypes[o] = vm.layouts[Path(vm, lookups[o].layout)[NoIndex]].parent
                    /\ \A k :
                         /\ DOMAIN Onwards(k) = DOMAIN lookups /\ Ends(Onwards(k))
                         /\ \A q \in DOMAIN lookups :
                              Onwards(k)[q] = IF IndexesOf(vm, lookups[q].layout, k) # {}
                                              THEN Null ELSE Prototypes[q]
                         /\ \A o : Owners(o, k) = {p \in Reached(Onwards(k), {o}) :
                                                     IndexesOf(vm, lookups[p].layout, k) # {}}
  OBVIOUS
<1>1. GoodVm(vm) /\ LookupType /\ PrototypesAreSealed
  BY DEF Sound
<1>2. /\ DOMAIN Prototypes = DOMAIN lookups /\ Ends(Prototypes)
      /\ \A o \in DOMAIN lookups :
           /\ lookups[o].layout \in DOMAIN vm.layouts
           /\ Prototypes[o] = vm.layouts[Path(vm, lookups[o].layout)[NoIndex]].parent
  BY <1>1, PrototypesAre
<1>3. ASSUME NEW k
      PROVE  /\ DOMAIN Onwards(k) = DOMAIN lookups /\ Ends(Onwards(k))
             /\ \A q \in DOMAIN lookups :
                  Onwards(k)[q] = IF IndexesOf(vm, lookups[q].layout, k) # {} THEN Null
                    ELSE Prototypes[q]
             /\ \A o : Owners(o, k) = {p \in Reached(Onwards(k), {o}) :
                                         IndexesOf(vm, lookups[p].layout, k) # {}}
  BY <1>1, OwnersAre
<1> QED BY <1>2, <1>3

(* The same of the next state.                                               *)
LEMMA SoundGivesNext ==
  Sound' =>
    (/\ DOMAIN Prototypes = DOMAIN lookups /\ Ends(Prototypes)
     /\ \A o \in DOMAIN lookups :
         /\ lookups[o].layout \in DOMAIN vm.layouts
         /\ Prototypes[o] = vm.layouts[Path(vm, lookups[o].layout)[NoIndex]].parent
     /\ \A k :
         /\ DOMAIN Onwards(k) = DOMAIN lookups /\ Ends(Onwards(k))
         /\ \A q \in DOMAIN lookups :
              Onwards(k)[q] = IF IndexesOf(vm, lookups[q].layout, k) # {} THEN Null
                ELSE Prototypes[q]
         /\ \A o : Owners(o, k) = {p \in Reached(Onwards(k), {o}) :
                                     IndexesOf(vm, lookups[p].layout, k) # {}})'
BY SoundGives, PTL

(* Layouts that have the same keys in both.                                  *)
SamePaths(v, w, L) ==
  \A l \in L :
    /\ l \in DOMAIN v.layouts /\ l \in DOMAIN w.layouts
    /\ w.layouts[l].cookie = v.layouts[l].cookie
    /\ w.layouts[l].sindex = v.layouts[l].sindex
    /\ Path(w, l) = Path(v, l)
    /\ w.layouts[Path(w, l)[NoIndex]].parent = v.layouts[Path(v, l)[NoIndex]].parent
    /\ \A k : IndexesOf(w, l, k) = IndexesOf(v, l, k) /\ IndexOf(w, l, k) = IndexOf(v, l, k)

(* Layouts that are kept are the same, seen from either side.                *)
LEMMA SamePathsOf ==
  ASSUME NEW v, NEW w, GoodVm(v), GoodVm(w), Keeps(v, w)
  PROVE  SamePaths(v, w, DOMAIN v.layouts) /\ SamePaths(w, v, DOMAIN v.layouts)
<1>1. ASSUME NEW l \in DOMAIN v.layouts
      PROVE  /\ l \in DOMAIN w.layouts
             /\ w.layouts[l].cookie = v.layouts[l].cookie
             /\ w.layouts[l].sindex = v.layouts[l].sindex
             /\ Path(w, l) = Path(v, l)
             /\ w.layouts[Path(w, l)[NoIndex]].parent = v.layouts[Path(v, l)[NoIndex]].parent
             /\ \A k : IndexesOf(w, l, k) = IndexesOf(v, l, k)
                  /\ IndexOf(w, l, k) = IndexOf(v, l, k)
  <2>1. NoIndex \in NoIndex .. v.layouts[l].sindex
    BY PathGives
  <2>2. /\ Path(w, l) = Path(v, l)
        /\ \A i \in NoIndex .. v.layouts[l].sindex :
             w.layouts[Path(w, l)[i]].parent = v.layouts[Path(v, l)[i]].parent
        /\ \A k : IndexesOf(w, l, k) = IndexesOf(v, l, k) /\ IndexOf(w, l, k) = IndexOf(v, l, k)
    BY PathIsKept
  <2> QED BY <2>1, <2>2 DEF Keeps
<1> QED BY <1>1 DEF SamePaths

(* Objects that keep their layouts keep the owners of their keys.            *)
LEMMA OwnersAreKept ==
  ASSUME Sound, Sound', NEW C, C \subseteq DOMAIN lookups, C \subseteq DOMAIN lookups',
         ClosedIn(Prototypes, C),
         \A p \in C : lookups'[p].layout = lookups[p].layout,
         NEW L, SamePaths(vm, vm', L), \A p \in C : lookups[p].layout \in L,
         NEW o \in C, NEW k
  PROVE  Owners(o, k)' = Owners(o, k) /\ Owners(o, k) \subseteq C
         /\ \A p \in C : Prototypes'[p] = Prototypes[p]
<1> DEFINE f == Onwards(k)
           g == Onwards(k)'
<1>1. /\ DOMAIN f = DOMAIN lookups /\ Ends(f) /\ Ends(Prototypes)
      /\ DOMAIN Prototypes = DOMAIN lookups
      /\ \A q \in DOMAIN lookups :
              f[q] = IF IndexesOf(vm, lookups[q].layout, k) # {} THEN Null ELSE Prototypes[q]
      /\ \A p : Owners(p, k) = {q \in Reached(f, {p}) : IndexesOf(vm, lookups[q].layout, k) # {}}
      /\ \A q \in DOMAIN lookups :
           Prototypes[q] = vm.layouts[Path(vm, lookups[q].layout)[NoIndex]].parent
  BY SoundGives
<1>2. /\ DOMAIN g = DOMAIN lookups' /\ Ends(g)
      /\ \A q \in DOMAIN lookups' :
              g[q] = IF IndexesOf(vm', lookups'[q].layout, k) # {} THEN Null ELSE Prototypes'[q]
      /\ Owners(o, k)' = {q \in Reached(g, {o}) : IndexesOf(vm', lookups'[q].layout, k) # {}}
      /\ \A q \in DOMAIN lookups' :
           Prototypes'[q] = vm'.layouts[Path(vm', lookups'[q].layout)[NoIndex]].parent
  BY SoundGivesNext
<1> HIDE DEF f, g
<1>3. ASSUME NEW q \in C
      PROVE  /\ Prototypes'[q] = Prototypes[q] /\ g[q] = f[q]
             /\ IndexesOf(vm', lookups'[q].layout, k) = IndexesOf(vm, lookups[q].layout, k)
  <2>1. IndexesOf(vm', lookups'[q].layout, k) = IndexesOf(vm, lookups[q].layout, k)
    BY DEF SamePaths
  <2>2. vm'.layouts[Path(vm', lookups'[q].layout)[NoIndex]].parent
          = vm.layouts[Path(vm, lookups[q].layout)[NoIndex]].parent
    BY DEF SamePaths
  <2>3. Prototypes'[q] = Prototypes[q]
    BY <1>1, <1>2, <2>2
  <2> QED BY <1>1, <1>2, <2>1, <2>3
<1>4. ClosedIn(f, C)
  BY <1>1 DEF ClosedIn
<1>5. Reached(f, {o}) = Reached(g, {o}) /\ Reached(f, {o}) \subseteq C
  <2>1. {o} \in SUBSET C /\ C \in SUBSET DOMAIN f /\ C \subseteq DOMAIN g
          /\ \A y \in C : f[y] = g[y]
    BY <1>1, <1>2, <1>3
  <2> QED BY <1>1, <1>2, <1>4, <2>1, ReachedAgrees
<1> DEFINE now == {q \in Reached(f, {o}) : IndexesOf(vm, lookups[q].layout, k) # {}}
           then == {q \in Reached(g, {o}) : IndexesOf(vm', lookups'[q].layout, k) # {}}
<1>6. now = then /\ now \subseteq C
  BY <1>3, <1>5
<1>7. Owners(o, k) = now /\ Owners(o, k)' = then
  BY <1>1, <1>2
<1> HIDE DEF now, then
<1>8. Owners(o, k)' = Owners(o, k) /\ Owners(o, k) \subseteq C
  BY <1>6, <1>7
<1> QED BY <1>3, <1>8

(* What a selector for a layout ought to be does not change.                 *)
LEMMA SelectedIsKept ==
  ASSUME Sound, Sound', NEW C, C \subseteq DOMAIN lookups, C \subseteq DOMAIN lookups',
         ClosedIn(Prototypes, C),
         \A p \in C : lookups'[p].layout = lookups[p].layout
           /\ lookups'[p].oslots = lookups[p].oslots,
         NEW L, SamePaths(vm, vm', L), \A p \in C : lookups[p].layout \in L,
         NEW l \in L, vm.layouts[Path(vm, l)[NoIndex]].parent \in C \cup {Null}, NEW k
  PROVE  Selected(l, k)' = Selected(l, k)
<1>0. PICK above : above = vm.layouts[Path(vm, l)[NoIndex]].parent
  OBVIOUS
<1>1. /\ vm'.layouts[l].cookie = vm.layouts[l].cookie
      /\ vm'.layouts[Path(vm', l)[NoIndex]].parent = above
      /\ IndexesOf(vm', l, k) = IndexesOf(vm, l, k) /\ IndexOf(vm', l, k) = IndexOf(vm, l, k)
  BY <1>0 DEF SamePaths
<1>2. Selected(l, k)' = IF IndexesOf(vm, l, k) # {}
      THEN [cookie |-> vm.layouts[l].cookie, sindex |-> IndexOf(vm, l, k), slot |-> Null]
      ELSE IF above = Null \/ Owners(above, k)' = {} THEN NoSel
      ELSE LET o == CHOOSE p \in Owners(above, k)' : TRUE
           IN  [cookie |-> vm.layouts[l].cookie, sindex |-> NoIndex,
                slot   |-> [vslots |-> lookups'[o].oslots,
                            sindex |-> IndexOf(vm', lookups'[o].layout, k)]]
  BY <1>1 DEF Selected
<1>3. Selected(l, k) = IF IndexesOf(vm, l, k) # {}
      THEN [cookie |-> vm.layouts[l].cookie, sindex |-> IndexOf(vm, l, k), slot |-> Null]
      ELSE IF above = Null \/ Owners(above, k) = {} THEN NoSel
      ELSE LET o == CHOOSE p \in Owners(above, k) : TRUE
           IN  [cookie |-> vm.layouts[l].cookie, sindex |-> NoIndex,
                slot   |-> [vslots |-> lookups[o].oslots,
                            sindex |-> IndexOf(vm, lookups[o].layout, k)]]
  BY <1>0 DEF Selected
<1>4. CASE IndexesOf(vm, l, k) # {}
  BY <1>2, <1>3, <1>4
<1>5. CASE IndexesOf(vm, l, k) = {} /\ above = Null
  BY <1>2, <1>3, <1>5
<1>6. CASE IndexesOf(vm, l, k) = {} /\ above # Null
  <2>1. above \in C
    BY <1>0, <1>6
  <2>2. Owners(above, k)' = Owners(above, k) /\ Owners(above, k) \subseteq C
    BY <2>1, OwnersAreKept
  <2>3. \A p \in C : /\ lookups'[p].oslots = lookups[p].oslots
                     /\ IndexOf(vm', lookups'[p].layout, k) = IndexOf(vm, lookups[p].layout, k)
    BY DEF SamePaths
  <2>4. Owners(above, k) # {} => (CHOOSE p \in Owners(above, k) : TRUE) \in C
    BY <2>2
  <2> QED BY <1>2, <1>3, <1>6, <2>2, <2>3, <2>4
<1> QED BY <1>4, <1>5, <1>6

(* The layout that has a key last has it there.                              *)
LEMMA LastIs ==
  ASSUME NEW v, GoodVm(v), NEW l \in DOMAIN v.layouts, NEW k, v.layouts[l].key = k, k # Null
  PROVE  IndexesOf(v, l, k) # {} /\ IndexOf(v, l, k) = v.layouts[l].sindex
           /\ v.layouts[l].sindex \in Nat
<1>1. v.layouts[l].sindex \in Nat /\ v.layouts[l].sindex \in 0 .. v.layouts[l].sindex
  BY LayoutIs DEF NoIndex
<1>2. Path(v, l)[v.layouts[l].sindex] = l
  BY PathGives
<1>3. IndexesOf(v, l, k) # {}
  BY <1>1, <1>2 DEF IndexesOf
<1>4. /\ IndexOf(v, l, k) \in 0 .. v.layouts[l].sindex
      /\ v.layouts[l].sindex <= IndexOf(v, l, k)
  BY <1>1, <1>2, <1>3, IndexOfIs
<1> QED BY <1>1, <1>3, <1>4

IsSelector(x) ==
  x \in [cookie : Nat, sindex : Nat \cup {NoIndex}, slot : [vslots : Nat, sindex : Nat] \cup {Null}]

(* What a selector for a layout ought to be is a selector.                   *)
LEMMA SelectedType ==
  ASSUME Sound, NEW l \in DOMAIN vm.layouts, NEW k
  PROVE  /\ IsSelector(Selected(l, k))
         /\ Selected(l, k).cookie \in {0, vm.layouts[l].cookie}
         /\ Selected(l, k).cookie \in Nat /\ Selected(l, k).cookie <= vm.next_cookie
<1> DEFINE above == vm.layouts[Path(vm, l)[NoIndex]].parent
           owner == CHOOSE p \in Owners(above, k) : TRUE
<1>1. GoodVm(vm) /\ LookupType /\ PrototypesAreSealed
  BY DEF Sound
<1>2. vm.layouts[l].cookie \in 1 .. vm.next_cookie /\ vm.next_cookie \in Nat
  BY <1>1 DEF GoodVm, IsVm, CookiesAreDistinct
<1>3. CASE IndexesOf(vm, l, k) # {}
  <2>1. Selected(l, k) = [cookie |-> vm.layouts[l].cookie, sindex |-> IndexOf(vm, l, k),
          slot |-> Null]
    BY <1>3 DEF Selected
  <2>2. IndexOf(vm, l, k) \in Nat
    BY <1>1, <1>3, IndexOfIs
  <2> QED BY <1>2, <2>1, <2>2 DEF IsSelector
<1>4. CASE IndexesOf(vm, l, k) = {} /\ (above = Null \/ Owners(above, k) = {})
  <2>1. Selected(l, k) = NoSel
    BY <1>4 DEF Selected
  <2> QED BY <1>2, <2>1 DEF IsSelector, NoSel
<1>5. CASE IndexesOf(vm, l, k) = {} /\ above # Null /\ Owners(above, k) # {}
  <2>1. Selected(l, k) = [cookie |-> vm.layouts[l].cookie, sindex |-> NoIndex,
                          slot |-> [vslots |-> lookups[owner].oslots,
                                    sindex |-> IndexOf(vm, lookups[owner].layout, k)]]
    BY <1>5 DEF Selected
  <2>2. above \in DOMAIN lookups
    <3>1. above \in DOMAIN vm.instance_layouts
      BY <1>1, PathGives
    <3> QED BY <1>1, <1>5, <3>1 DEF PrototypesAreSealed
  <2>3. /\ Owners(above, k) \subseteq DOMAIN lookups
        /\ \A p \in Owners(above, k) : IndexesOf(vm, lookups[p].layout, k) # {}
    <3> HIDE DEF above
    <3>1. Owners(above, k) \subseteq DOMAIN lookups
      BY <1>1, <2>2, OwnersAre
    <3>2. Owners(above, k) = {p \in Reached(Onwards(k), {above}) :
            IndexesOf(vm, lookups[p].layout, k) # {}}
      BY SoundGives
    <3> QED BY <3>1, <3>2
  <2>4. owner \in DOMAIN lookups /\ IndexesOf(vm, lookups[owner].layout, k) # {}
    BY <1>5, <2>3
  <2> HIDE DEF owner
  <2>5. lookups[owner].layout \in DOMAIN vm.layouts /\ lookups[owner].oslots \in DOMAIN vslots
    BY <1>1, <2>4 DEF LookupType
  <2>6. IndexOf(vm, lookups[owner].layout, k) \in Nat /\ lookups[owner].oslots \in Nat
    BY <1>1, <2>4, <2>5, IndexOfIs DEF LookupType
  <2> QED BY <1>2, <2>1, <2>6 DEF IsSelector
<1> QED BY <1>3, <1>4, <1>5

--------------------------------------------------------------------------------
(* Steps that give an object a layout. *)

(* The one layout of a path that has no key is its root.                     *)
LEMMA RootOnPath ==
  ASSUME NEW v, GoodVm(v), NEW l \in DOMAIN v.layouts, NEW m \in Range(Path(v, l))
  PROVE  /\ m \in DOMAIN v.layouts
         /\ v.layouts[m].key = Null =>
              v.layouts[m].parent = v.layouts[Path(v, l)[NoIndex]].parent
<1>1. PICK p : p = Path(v, l)
  OBVIOUS
<1>2. PICK s : s = v.layouts[l].sindex
  OBVIOUS
<1>3. /\ DOMAIN p = NoIndex .. s /\ s \in Int
      /\ \A i \in NoIndex .. s : p[i] \in DOMAIN v.layouts
      /\ \A i \in 0 .. s : v.layouts[p[i]].key # Null
  BY <1>1, <1>2, PathGives
<1>4. PICK i \in NoIndex .. s : p[i] = m
  BY <1>1, <1>3 DEF Range
<1>5. i = NoIndex \/ i \in 0 .. s
  BY <1>3 DEF NoIndex
<1> QED BY <1>1, <1>3, <1>4, <1>5

(* An object gets the layout, layouts and slots of at, whose slots go to new.*)
Put(Q, at, o, new) ==
  /\ Made(vm, Q, at) /\ vm' = at.vm
  /\ at.vm.layouts[Path(at.vm, at.layout)[NoIndex]].parent \notin white.lookups
  /\ \E S : /\ Mark(S)
            /\ \A l \in S : at.vm.layouts[l].key = Null =>
                 at.vm.layouts[l].parent \notin white.lookups
  /\ o \in 1 .. MaxLookups /\ o \notin white.lookups
  /\ o \in DOMAIN lookups => ~lookups[o].sealed
  /\ new \in Nat \ {0}
  /\ new \in DOMAIN vslots => o \in DOMAIN lookups /\ new = lookups[o].oslots
  /\ vslots' = With(vslots, new, at.slots)
  /\ DOMAIN lookups' = DOMAIN lookups \cup {o}
  /\ lookups' = [p \in DOMAIN lookups' |-> lookups'[p]]
  /\ lookups'[o] = [layout |-> at.layout, oslots |-> new, sealed |-> FALSE]
  /\ \A p \in DOMAIN lookups \ {o} : \E b \in BOOLEAN :
       /\ lookups'[p] = [layout |-> lookups[p].layout, oslots |-> lookups[p].oslots, sealed |-> b]
       /\ lookups[p].sealed => b
  /\ \A q \in Q : \/ q = Null
                  \/ q \in DOMAIN lookups \ {o} /\ q \notin white.lookups /\ lookups'[q].sealed
  /\ held' \subseteq held \cup {o} /\ grey' = grey /\ marking' = marking
  /\ sel' = [x \in Cached |-> sel'[x]]
  /\ \A x \in Cached :
       \/ sel'[x] = sel[x]
       \/ /\ IndexesOf(at.vm, at.layout, x) # {}
          /\ sel'[x] = [cookie |-> at.vm.layouts[at.layout].cookie,
                        sindex |-> IndexOf(at.vm, at.layout, x), slot |-> Null]

(* Giving an object a layout keeps the invariant: another object, or none, has it, as *)
(* the object is not a prototype.                                                     *)
LEMMA PutKeeps ==
  ASSUME LookupInv, NEW Q, NEW at, NEW o, NEW new, Put(Q, at, o, new)
  PROVE  LookupInv'
<1>0. /\ Made(vm, Q, at) /\ vm' = at.vm
      /\ at.vm.layouts[Path(at.vm, at.layout)[NoIndex]].parent \notin white.lookups
      /\ o \in 1 .. MaxLookups /\ o \notin white.lookups
      /\ o \in DOMAIN lookups => ~lookups[o].sealed
      /\ new \in Nat \ {0}
      /\ new \in DOMAIN vslots => o \in DOMAIN lookups /\ new = lookups[o].oslots
      /\ vslots' = With(vslots, new, at.slots)
      /\ DOMAIN lookups' = DOMAIN lookups \cup {o}
      /\ lookups' = [p \in DOMAIN lookups' |-> lookups'[p]]
      /\ lookups'[o] = [layout |-> at.layout, oslots |-> new, sealed |-> FALSE]
      /\ \A p \in DOMAIN lookups \ {o} : \E b \in BOOLEAN :
           /\ lookups'[p] = [layout |-> lookups[p].layout, oslots |-> lookups[p].oslots,
                sealed |-> b]
           /\ lookups[p].sealed => b
      /\ \A q \in Q : \/ q = Null
                      \/ q \in DOMAIN lookups \ {o} /\ q \notin white.lookups /\ lookups'[q].sealed
      /\ held' \subseteq held \cup {o} /\ grey' = grey /\ marking' = marking
      /\ sel' = [x \in Cached |-> sel'[x]]
      /\ \A x \in Cached :
           \/ sel'[x] = sel[x]
           \/ /\ IndexesOf(at.vm, at.layout, x) # {}
              /\ sel'[x] = [cookie |-> at.vm.layouts[at.layout].cookie,
                            sindex |-> IndexOf(at.vm, at.layout, x), slot |-> Null]
  BY DEF Put
<1> USE <1>0
<1>1. /\ GoodVm(vm) /\ LookupType /\ SlotsFit /\ PrototypesAreSealed /\ NoWhiteFound
      /\ SelectorsAreFresh
      /\ Sound
  BY DEF LookupInv, Sound
<1>2. /\ GoodVm(at.vm) /\ Grows(vm, at.vm) /\ Keeps(vm, at.vm) /\ at.layout \in DOMAIN at.vm.layouts
      /\ DOMAIN at.vm.layouts \subseteq DOMAIN vm.layouts \cup Range(Path(at.vm, at.layout))
      /\ DOMAIN at.vm.instance_layouts \subseteq DOMAIN vm.instance_layouts \cup Q
      /\ \A l \in DOMAIN at.vm.layouts \ DOMAIN vm.layouts :
           at.vm.layouts[l].key = Null => at.vm.layouts[l].parent \in Q
      /\ IsSlots(at.slots)
      /\ at.vm.layouts[at.layout].sindex \in DOMAIN at.slots \cup {NoIndex}
  BY DEF Made, Grows
<1>3. \A l \in DOMAIN vm.layouts :
        /\ l \in DOMAIN vm'.layouts /\ vm'.layouts[l].parent = vm.layouts[l].parent
        /\ vm'.layouts[l].key = vm.layouts[l].key /\ vm'.layouts[l].cookie = vm.layouts[l].cookie
        /\ vm'.layouts[l].sindex = vm.layouts[l].sindex
  BY <1>2 DEF Keeps
<1>4. /\ GoodVm(vm)' /\ GoodVm(vm') /\ IsVm(vm')
  BY <1>2 DEF GoodVm
<1>5. /\ vm.next_cookie \in Nat /\ vm'.next_cookie \in Nat /\ vm.next_cookie <= vm'.next_cookie
      /\ \A l \in DOMAIN vm'.layouts \ DOMAIN vm.layouts : vm'.layouts[l].cookie > vm.next_cookie
      /\ \A l \in DOMAIN vm'.layouts : vm'.layouts[l].cookie \in 1 .. vm'.next_cookie
  <2>1. vm.next_cookie \in Nat /\ vm'.next_cookie \in Nat
    BY <1>1, <1>4 DEF GoodVm, IsVm
  <2>2. \A l \in DOMAIN vm'.layouts : vm'.layouts[l].cookie \in 1 .. vm'.next_cookie
    BY <1>4 DEF GoodVm, CookiesAreDistinct
  <2> QED BY <1>2, <2>1, <2>2 DEF Grows
<1>6. /\ DOMAIN lookups \in SUBSET (1 .. MaxLookups)
      /\ \A p \in DOMAIN lookups : /\ lookups[p].layout \in DOMAIN vm.layouts
                                   /\ lookups[p].oslots \in DOMAIN vslots
                                   /\ lookups[p].sealed \in BOOLEAN
      /\ DOMAIN vslots \in SUBSET (Nat \ {0}) /\ IsFiniteSet(DOMAIN vslots)
      /\ \A s \in DOMAIN vslots : IsSlots(vslots[s])
      /\ sel \in [Cached -> [cookie : Nat, sindex : Nat \cup {NoIndex},
                             slot : [vslots : Nat, sindex : Nat] \cup {Null}]]
      /\ \A k \in Cached : sel[k].cookie <= vm.next_cookie
      /\ held \in SUBSET DOMAIN lookups /\ marking \in BOOLEAN
  BY <1>1 DEF LookupType
<1>7. /\ DOMAIN vslots' = DOMAIN vslots \cup {new} /\ vslots'[new] = at.slots
      /\ \A s \in DOMAIN vslots \ {new} : vslots'[s] = vslots[s]
      /\ vslots' = [s \in DOMAIN vslots' |-> vslots'[s]]
  BY DEF With
<1>8. \A p \in DOMAIN lookups \ {o} :
        /\ p \in DOMAIN lookups' /\ lookups'[p].layout = lookups[p].layout
        /\ lookups'[p].oslots = lookups[p].oslots /\ lookups'[p].sealed \in BOOLEAN
        /\ lookups[p].sealed => lookups'[p].sealed
        /\ lookups'[p] = [layout |-> lookups[p].layout, oslots |-> lookups[p].oslots,
                          sealed |-> lookups'[p].sealed]
  <2> TAKE p \in DOMAIN lookups \ {o}
  <2>1. PICK b \in BOOLEAN :
          /\ lookups'[p] = [layout |-> lookups[p].layout, oslots |-> lookups[p].oslots,
               sealed |-> b]
          /\ lookups[p].sealed => b
    OBVIOUS
  <2> QED BY <2>1
<1>9. \A p \in DOMAIN lookups \ {o} : lookups[p].oslots # new
  BY <1>1, <1>6 DEF SlotsFit
<1>10. LookupType'
  <2>1. DOMAIN lookups' \in SUBSET (1 .. MaxLookups)
    BY <1>6
  <2>2. \A p \in DOMAIN lookups' :
          lookups'[p] \in [layout : DOMAIN vm'.layouts, oslots : DOMAIN vslots', sealed : BOOLEAN]
    <3>1. lookups'[o] \in [layout : DOMAIN vm'.layouts, oslots : DOMAIN vslots', sealed : BOOLEAN]
      BY <1>2, <1>7
    <3>2. ASSUME NEW p \in DOMAIN lookups \ {o}
          PROVE  lookups'[p] \in [layout : DOMAIN vm'.layouts, oslots : DOMAIN vslots', sealed :
                   BOOLEAN]
      <4>1. lookups[p].layout \in DOMAIN vm'.layouts /\ lookups[p].oslots \in DOMAIN vslots'
        BY <1>3, <1>6, <1>7
      <4> QED BY <1>8, <4>1
    <3> QED BY <3>1, <3>2
  <2>3. lookups' \in [DOMAIN lookups' ->
                        [layout : DOMAIN vm'.layouts, oslots : DOMAIN vslots', sealed : BOOLEAN]]
    BY <2>2
  <2>4. DOMAIN vslots' \in SUBSET (Nat \ {0}) /\ IsFiniteSet(DOMAIN vslots')
    BY <1>6, <1>7, FS_AddElement
  <2>5. \A s \in DOMAIN vslots' : IsSlots(vslots'[s])
    BY <1>2, <1>6, <1>7
  <2>6. ASSUME NEW k \in Cached
        PROVE  /\ sel'[k] \in [cookie : Nat, sindex : Nat \cup {NoIndex},
                               slot : [vslots : Nat, sindex : Nat] \cup {Null}]
               /\ sel'[k].cookie <= vm'.next_cookie
    <3>1. CASE sel'[k] = sel[k]
      <4>1. /\ sel[k] \in [cookie : Nat, sindex : Nat \cup {NoIndex},
                           slot : [vslots : Nat, sindex : Nat] \cup {Null}]
            /\ sel[k].cookie <= vm.next_cookie /\ sel[k].cookie \in Nat
        BY <1>6
      <4> QED BY <1>5, <3>1, <4>1
    <3>2. CASE /\ IndexesOf(at.vm, at.layout, k) # {}
               /\ sel'[k] = [cookie |-> at.vm.layouts[at.layout].cookie,
                             sindex |-> IndexOf(at.vm, at.layout, k), slot |-> Null]
      <4>1. IndexOf(at.vm, at.layout, k) \in Nat
        BY <1>2, <3>2, IndexOfIs
      <4>2. /\ at.vm.layouts[at.layout].cookie \in Nat
            /\ at.vm.layouts[at.layout].cookie <= vm'.next_cookie
        BY <1>2, <1>5
      <4> QED BY <3>2, <4>1, <4>2
    <3> QED BY <3>1, <3>2
  <2>7. sel' \in [Cached -> [cookie : Nat, sindex : Nat \cup {NoIndex},
                             slot : [vslots : Nat, sindex : Nat] \cup {Null}]]
    BY <2>6
  <2>8. held' \in SUBSET DOMAIN lookups' /\ marking' \in BOOLEAN
    BY <1>6, Zenon
  <2> QED BY <1>7, <2>1, <2>3, <2>4, <2>5, <2>6, <2>7, <2>8 DEF LookupType
<1>11. SlotsFit'
  <2>1. ASSUME NEW p \in DOMAIN lookups'
        PROVE  vm'.layouts[lookups'[p].layout].sindex \in DOMAIN vslots'[lookups'[p].oslots]
                 \cup {NoIndex}
    <3>1. CASE p = o
      BY <1>2, <1>7, <3>1
    <3>2. CASE p # o
      <4>1. p \in DOMAIN lookups \ {o}
        BY <3>2
      <4>2. vm.layouts[lookups[p].layout].sindex \in DOMAIN vslots[lookups[p].oslots] \cup {NoIndex}
        BY <1>1, <4>1 DEF SlotsFit
      <4>3. vslots'[lookups[p].oslots] = vslots[lookups[p].oslots]
        BY <1>6, <1>7, <1>9, <4>1
      <4> QED BY <1>3, <1>6, <1>8, <4>1, <4>2, <4>3
    <3> QED BY <3>1, <3>2
  <2>2. ASSUME NEW p \in DOMAIN lookups', NEW q \in DOMAIN lookups',
               lookups'[p].oslots = lookups'[q].oslots
        PROVE  p = q
    <3>1. CASE p # o /\ q # o
      <4>1. p \in DOMAIN lookups \ {o} /\ q \in DOMAIN lookups \ {o}
        BY <3>1
      <4>2. lookups[p].oslots = lookups[q].oslots
        BY <1>8, <2>2, <4>1
      <4> QED BY <1>1, <4>1, <4>2 DEF SlotsFit
    <3>2. CASE p = o /\ q # o
      <4>1. q \in DOMAIN lookups \ {o} /\ lookups'[q].oslots = new
        BY <2>2, <3>2
      <4> QED BY <1>8, <1>9, <4>1
    <3>3. CASE p # o /\ q = o
      <4>1. p \in DOMAIN lookups \ {o} /\ lookups'[p].oslots = new
        BY <2>2, <3>3
      <4> QED BY <1>8, <1>9, <4>1
    <3> QED BY <3>1, <3>2, <3>3
  <2> QED BY <2>1, <2>2, Zenon DEF SlotsFit
<1>12. PrototypesAreSealed'
  <2> SUFFICES ASSUME NEW p \in DOMAIN vm'.instance_layouts \ {Null}
               PROVE  p \in DOMAIN lookups' /\ lookups'[p].sealed
    BY DEF PrototypesAreSealed
  <2>1. CASE p \in Q
    BY <2>1
  <2>2. CASE p \in DOMAIN vm.instance_layouts
    <3>1. p \in DOMAIN lookups /\ lookups[p].sealed
      BY <1>1, <2>2 DEF PrototypesAreSealed
    <3>2. p # o
      BY <3>1
    <3> QED BY <1>8, <3>1, <3>2
  <2> QED BY <1>2, <2>1, <2>2
<1>13. Sound'
  BY <1>4, <1>10, <1>12 DEF Sound
<1>14. NoWhiteFound'
  <2>1. /\ white = [lookups |-> white.lookups, vslots |-> white.vslots, layouts |-> white.layouts]
        /\ white.lookups \subseteq DOMAIN lookups
        /\ white.vslots \subseteq DOMAIN vslots
        /\ white.layouts \subseteq DOMAIN vm.layouts
        /\ ~marking => white = NoneWhite
        /\ held \cap white.lookups = {}
        /\ grey \subseteq DOMAIN lookups \ white.lookups
        /\ \A p \in DOMAIN lookups \ white.lookups :
             Prototypes[p] \notin white.lookups /\ lookups[p].oslots \notin white.vslots
        /\ \A l \in DOMAIN vm.layouts \ white.layouts :
             vm.layouts[l].key = Null => vm.layouts[l].parent \notin white.lookups
    BY <1>1 DEF NoWhiteFound
  <2>2. PICK S : /\ Mark(S)
                 /\ \A l \in S : at.vm.layouts[l].key = Null =>
                      at.vm.layouts[l].parent \notin white.lookups
    BY DEF Put
  <2>3. white' = [lookups |-> white.lookups, vslots |-> white.vslots,
                  layouts |-> white.layouts \ S]
    BY <2>1, <2>2 DEF Mark
  <2>4. /\ white'.lookups = white.lookups /\ white'.vslots = white.vslots
        /\ white'.layouts = white.layouts \ S
        /\ white' = [lookups |-> white'.lookups, vslots |-> white'.vslots,
                     layouts |-> white'.layouts]
    BY <2>3
  <2>5. /\ white'.lookups \subseteq DOMAIN lookups' /\ white'.vslots \subseteq DOMAIN vslots'
        /\ white'.layouts \subseteq DOMAIN vm'.layouts /\ held' \cap white'.lookups = {}
        /\ grey' \subseteq DOMAIN lookups' \ white'.lookups
    BY <1>3, <1>7, <2>1, <2>4
  <2>6. ASSUME NEW p \in DOMAIN lookups' \ white'.lookups
        PROVE  Prototypes'[p] \notin white'.lookups /\ lookups'[p].oslots \notin white'.vslots
    <3>1. Prototypes'[p] = vm'.layouts[Path(vm', lookups'[p].layout)[NoIndex]].parent
      BY <1>13, SoundGivesNext
    <3>2. CASE p = o
      <4>1. new \notin white.vslots
        BY <2>1
      <4> QED BY <2>4, <3>1, <3>2, <4>1
    <3>3. CASE p # o
      <4>1. p \in DOMAIN lookups \ {o} /\ p \notin white.lookups
        BY <2>4, <3>3
      <4>2. PICK l : l = lookups[p].layout
        OBVIOUS
      <4>3. /\ Prototypes[p] = vm.layouts[Path(vm, l)[NoIndex]].parent
            /\ lookups'[p].layout = l /\ lookups'[p].oslots = lookups[p].oslots
            /\ l \in DOMAIN vm.layouts
        BY <1>1, <1>6, <1>8, <4>1, <4>2, SoundGives
      <4>4. vm'.layouts[Path(vm', l)[NoIndex]].parent = vm.layouts[Path(vm, l)[NoIndex]].parent
        <5>1. SamePaths(vm, vm', DOMAIN vm.layouts)
          BY <1>1, <1>2, SamePathsOf
        <5> QED BY <4>3, <5>1, Zenon DEF SamePaths
      <4>5. Prototypes'[p] = Prototypes[p]
        BY <3>1, <4>3, <4>4
      <4> QED BY <2>1, <2>4, <4>1, <4>3, <4>5
    <3> QED BY <3>2, <3>3
  <2>7. ASSUME NEW l \in DOMAIN vm'.layouts \ white'.layouts, vm'.layouts[l].key = Null
        PROVE  vm'.layouts[l].parent \notin white'.lookups
    <3>1. CASE l \in S
      BY <2>2, <2>4, <2>7, <3>1
    <3>2. CASE l \notin S /\ l \in DOMAIN vm.layouts
      BY <1>3, <2>1, <2>4, <2>7, <3>2
    <3>3. CASE l \notin DOMAIN vm.layouts
      <4>1. vm'.layouts[l].parent \in Q
        BY <1>2, <2>7, <3>3
      <4>2. Null \notin white.lookups
        BY <1>6, <2>1, LookupAssumption
      <4> QED BY <2>4, <4>1, <4>2
    <3> QED BY <3>1, <3>2, <3>3
  <2>8. ~marking' => white' = NoneWhite
    <3>1. ASSUME ~marking PROVE white' = NoneWhite
      <4>1. white.lookups = {} /\ white.vslots = {} /\ white.layouts = {}
        BY <2>1, <3>1 DEF NoneWhite
      <4> QED BY <2>3, <4>1 DEF NoneWhite
    <3> QED BY <3>1
  <2> QED BY <2>4, <2>5, <2>6, <2>7, <2>8, Zenon DEF NoWhiteFound
<1>15. SelectorsAreFresh'
  <2> SUFFICES ASSUME NEW k \in Cached, NEW l \in DOMAIN vm'.layouts,
                      vm'.layouts[l].cookie = sel'[k].cookie
               PROVE  sel'[k] = Selected(l, k)'
    BY Zenon DEF SelectorsAreFresh
  <2>1. CASE /\ IndexesOf(at.vm, at.layout, k) # {}
             /\ sel'[k] = [cookie |-> at.vm.layouts[at.layout].cookie,
                           sindex |-> IndexOf(at.vm, at.layout, k), slot |-> Null]
    <3>1. at.vm.layouts[l].cookie = at.vm.layouts[at.layout].cookie
      BY <2>1
    <3>2. l = at.layout
      BY <1>2, <3>1 DEF GoodVm, CookiesAreDistinct
    <3> QED BY <2>1, <3>2, Zenon DEF Selected
  <2>2. CASE sel'[k] = sel[k]
    <3>1. l \in DOMAIN vm.layouts
      <4>1. sel[k].cookie <= vm.next_cookie /\ sel[k].cookie \in Nat
        BY <1>6
      <4> QED BY <1>5, <2>2, <4>1
    <3>2. sel[k] = Selected(l, k)
      BY <1>1, <1>3, <2>2, <3>1 DEF SelectorsAreFresh
    <3> DEFINE C == DOMAIN lookups \ {o}
    <3>3. ASSUME NEW m \in DOMAIN vm.layouts
          PROVE  vm.layouts[Path(vm, m)[NoIndex]].parent \in C \cup {Null}
      <4>1. vm.layouts[Path(vm, m)[NoIndex]].parent \in DOMAIN vm.instance_layouts
        BY <1>1, PathGives
      <4> QED BY <1>1, <4>1 DEF PrototypesAreSealed
    <3>4. ClosedIn(Prototypes, C)
      <4> SUFFICES ASSUME NEW p \in C PROVE Prototypes[p] = Null \/ Prototypes[p] \in C
        BY DEF ClosedIn
      <4>1. /\ lookups[p].layout \in DOMAIN vm.layouts
            /\ Prototypes[p] = vm.layouts[Path(vm, lookups[p].layout)[NoIndex]].parent
        BY <1>1, SoundGives
      <4> QED BY <3>3, <4>1
    <3>5. SamePaths(vm, vm', DOMAIN vm.layouts)
      BY <1>1, <1>2, SamePathsOf
    <3>6. /\ C \subseteq DOMAIN lookups /\ C \subseteq DOMAIN lookups'
          /\ \A p \in C : lookups'[p].layout = lookups[p].layout
               /\ lookups'[p].oslots = lookups[p].oslots
          /\ \A p \in C : lookups[p].layout \in DOMAIN vm.layouts
      BY <1>6, <1>8
    <3>7. vm.layouts[Path(vm, l)[NoIndex]].parent \in C \cup {Null}
      BY <3>1, <3>3
    <3>8. Selected(l, k)' = Selected(l, k)
      <4> HIDE DEF C
      <4> QED BY <1>1, <1>13, <3>1, <3>4, <3>5, <3>6, <3>7, SelectedIsKept
    <3> QED BY <2>2, <3>2, <3>8
  <2> QED BY <2>1, <2>2
<1> QED BY <1>4, <1>10, <1>11, <1>12, <1>14, <1>15 DEF LookupInv

--------------------------------------------------------------------------------
(* Steps that keep layouts.                                                  *)

(* So does Place, if the selectors that change are for the layout it gives.  *)
LEMMA PlaceKeeps ==
  ASSUME LookupInv, NEW o \in held, ~lookups[o].sealed,
         NEW to, Made(vm, {}, to), Place(o, to),
         to.vm.layouts[Path(to.vm, to.layout)[NoIndex]].parent
           = vm.layouts[Path(vm, lookups[o].layout)[NoIndex]].parent,
         held' = held, grey' = grey, marking' = marking,
         sel' = [x \in Cached |-> sel'[x]],
         \A x \in Cached :
           \/ sel'[x] = sel[x]
           \/ /\ IndexesOf(to.vm, to.layout, x) # {}
              /\ sel'[x] = [cookie |-> to.vm.layouts[to.layout].cookie,
                            sindex |-> IndexOf(to.vm, to.layout, x), slot |-> Null]
  PROVE  LookupInv'
<1>1. PICK new : new = IF DOMAIN to.slots = DOMAIN vslots[lookups[o].oslots] THEN lookups[o].oslots
                       ELSE Unused(vslots)
  OBVIOUS
<1>2. /\ Mark(Range(Path(vm, lookups[o].layout)))
      /\ vm' = to.vm /\ vslots' = With(vslots, new, to.slots)
      /\ lookups' = [lookups EXCEPT ![o].layout = to.layout, ![o].oslots = new]
  BY <1>1 DEF Place
<1>3. /\ o \in DOMAIN lookups /\ o \in 1 .. MaxLookups
      /\ lookups \in [DOMAIN lookups ->
                    [layout : DOMAIN vm.layouts, oslots : DOMAIN vslots, sealed : BOOLEAN]]
      /\ lookups[o].oslots \in DOMAIN vslots
      /\ DOMAIN vslots \in SUBSET (Nat \ {0}) /\ IsFiniteSet(DOMAIN vslots)
  BY DEF LookupInv, LookupType
<1>4. o \notin white.lookups
  BY DEF LookupInv, NoWhiteFound
<1>5. new \in Nat \ {0} /\ (new \in DOMAIN vslots => new = lookups[o].oslots)
  <2>1. CASE new = lookups[o].oslots
    BY <1>3, <2>1
  <2>2. CASE new = Unused(vslots)
    BY <1>3, <2>2, UnusedIs
  <2> QED BY <1>1, <2>1, <2>2
<1>6. /\ DOMAIN lookups' = DOMAIN lookups \cup {o}
      /\ lookups' = [p \in DOMAIN lookups' |-> lookups'[p]]
      /\ \A p \in DOMAIN lookups \ {o} : lookups'[p] = lookups[p]
  BY <1>2, <1>3
<1>7. lookups'[o] = [layout |-> to.layout, oslots |-> new, sealed |-> FALSE]
  <2>1. PICK was : was = lookups[o]
    OBVIOUS
  <2>2. was \in [layout : DOMAIN vm.layouts, oslots : DOMAIN vslots, sealed : BOOLEAN]
          /\ was.sealed = FALSE
    BY <1>3, <2>1
  <2>3. lookups'[o] = [[was EXCEPT !.layout = to.layout] EXCEPT !.oslots = new]
    BY <1>2, <1>3, <2>1
  <2> QED BY <2>2, <2>3
<1>8. \A p \in DOMAIN lookups \ {o} : \E b \in BOOLEAN :
           /\ lookups'[p] = [layout |-> lookups[p].layout, oslots |-> lookups[p].oslots,
                sealed |-> b]
           /\ lookups[p].sealed => b
  <2> TAKE p \in DOMAIN lookups \ {o}
  <2>1. lookups[p] \in [layout : DOMAIN vm.layouts, oslots : DOMAIN vslots, sealed : BOOLEAN]
    BY <1>3
  <2>2. /\ lookups[p].sealed \in BOOLEAN
        /\ lookups'[p] = [layout |-> lookups[p].layout, oslots |-> lookups[p].oslots,
                          sealed |-> lookups[p].sealed]
    BY <1>6, <2>1
  <2> QED BY <2>2
<1> DEFINE none == {}
<1>9. \A q \in none : q = Null \/ (q \in DOMAIN lookups \ {o} /\ q \notin white.lookups
        /\ lookups'[q].sealed)
  OBVIOUS
<1>10. held' \subseteq held \cup {o} /\ (o \in DOMAIN lookups => ~lookups[o].sealed)
       /\ (new \in DOMAIN vslots => o \in DOMAIN lookups /\ new = lookups[o].oslots)
  BY <1>3, <1>5
<1>11. Made(vm, none, to)
  OBVIOUS
<1> HIDE DEF none
<1>12. PICK l : l = lookups[o].layout
  OBVIOUS
<1>13. PICK S : S = Range(Path(vm, l))
  OBVIOUS
<1>14. /\ GoodVm(vm) /\ Sound /\ l \in DOMAIN vm.layouts /\ Keeps(vm, to.vm)
       /\ Prototypes[o] = vm.layouts[Path(vm, l)[NoIndex]].parent
       /\ Prototypes[o] \notin white.lookups
  BY <1>3, <1>4, <1>12, SoundGives DEF LookupInv, Sound, Made, Grows, NoWhiteFound
<1>15. ASSUME NEW m \in S, to.vm.layouts[m].key = Null
       PROVE  to.vm.layouts[m].parent \notin white.lookups
  <2>1. /\ m \in DOMAIN vm.layouts
        /\ vm.layouts[m].key = Null => vm.layouts[m].parent = Prototypes[o]
    BY <1>13, <1>14, RootOnPath
  <2>2. to.vm.layouts[m].key = vm.layouts[m].key /\ to.vm.layouts[m].parent = vm.layouts[m].parent
    BY <1>14, <2>1 DEF Keeps
  <2> QED BY <1>14, <1>15, <2>1, <2>2
<1>16. to.vm.layouts[Path(to.vm, to.layout)[NoIndex]].parent \notin white.lookups
  BY <1>12, <1>14
<1>17. Mark(S)
  BY <1>2, <1>12, <1>13
<1>18. \E T : /\ Mark(T)
              /\ \A m \in T : to.vm.layouts[m].key = Null =>
                   to.vm.layouts[m].parent \notin white.lookups
  BY <1>15, <1>17, Zenon
<1>19. Put(none, to, o, new)
  BY <1>2, <1>3, <1>4, <1>5, <1>6, <1>7, <1>8, <1>9, <1>10, <1>11, <1>16, <1>18 DEF Put
<1> QED BY <1>19, PutKeeps

(* Steps that make no layouts.                                               *)
LEMMA WriteKeeps ==
  ASSUME LookupInv, lookups' = lookups, vm' = vm, white' = white, marking' = marking,
         grey' = grey, held' \subseteq held,
         DOMAIN vslots' = DOMAIN vslots, vslots' = [s \in DOMAIN vslots |-> vslots'[s]],
         \A s \in DOMAIN vslots : IsSlots(vslots'[s]) /\ DOMAIN vslots'[s] = DOMAIN vslots[s],
         sel' = [x \in Cached |-> sel'[x]],
         \A x \in Cached :
           sel'[x] = sel[x] \/ \E l \in DOMAIN vm.layouts : sel'[x] = Selected(l, x)
  PROVE  LookupInv'
<1>1. /\ GoodVm(vm) /\ LookupType /\ SlotsFit /\ PrototypesAreSealed /\ NoWhiteFound
      /\ SelectorsAreFresh
      /\ Sound
  BY DEF LookupInv, Sound
<1>2. \A x \in Cached : /\ IsSelector(sel'[x])
                        /\ sel'[x].cookie <= vm.next_cookie
  <2> TAKE x \in Cached
  <2>1. CASE sel'[x] = sel[x]
    BY <1>1, <2>1 DEF LookupType, IsSelector
  <2>2. CASE \E l \in DOMAIN vm.layouts : sel'[x] = Selected(l, x)
    BY <1>1, <2>2, SelectedType
  <2> QED BY <2>1, <2>2
<1>3. LookupType'
  <2>1. sel' \in [Cached -> [cookie : Nat, sindex : Nat \cup {NoIndex},
                             slot : [vslots : Nat, sindex : Nat] \cup {Null}]]
    BY <1>2 DEF IsSelector
  <2> QED BY <1>1, <1>2, <2>1 DEF LookupType
<1>4. SlotsFit'
  <2>1. \A o \in DOMAIN lookups : lookups[o].oslots \in DOMAIN vslots
    BY <1>1 DEF LookupType
  <2> QED BY <1>1, <2>1 DEF SlotsFit
<1>5. GoodVm(vm)' /\ PrototypesAreSealed'
  BY <1>1 DEF PrototypesAreSealed
<1>6. NoWhiteFound'
  <2>1. Prototypes' = Prototypes
    BY DEF Prototypes, lookup_prototype
  <2> QED BY <1>1, <2>1 DEF NoWhiteFound
<1>7. SelectorsAreFresh'
  <2> SUFFICES ASSUME NEW k \in Cached, NEW l \in DOMAIN vm.layouts,
                 vm.layouts[l].cookie = sel'[k].cookie
               PROVE  sel'[k] = Selected(l, k)'
    BY DEF SelectorsAreFresh
  <2>1. Selected(l, k)' = Selected(l, k)
    BY ZenonT(60) DEF Selected, Owners, Prototypes, lookup_prototype
  <2>2. CASE sel'[k] = sel[k]
    BY <1>1, <2>1, <2>2 DEF SelectorsAreFresh
  <2>3. CASE \E m \in DOMAIN vm.layouts : sel'[k] = Selected(m, k)
    <3>1. PICK m \in DOMAIN vm.layouts : sel'[k] = Selected(m, k)
      BY <2>3
    <3>2. Selected(m, k).cookie \in {0, vm.layouts[m].cookie}
      BY <1>1, SelectedType
    <3>3. \A n \in DOMAIN vm.layouts : vm.layouts[n].cookie # 0
      BY <1>1 DEF GoodVm, CookiesAreDistinct
    <3>4. vm.layouts[l].cookie = vm.layouts[m].cookie
      BY <3>1, <3>2, <3>3
    <3>5. l = m
      BY <1>1, <3>4 DEF GoodVm, CookiesAreDistinct
    <3> QED BY <2>1, <3>1, <3>5
  <2> QED BY <2>2, <2>3
<1> QED BY <1>3, <1>4, <1>5, <1>6, <1>7 DEF LookupInv

(* A layout is on its path.                                                  *)
LEMMA OwnPath ==
  ASSUME NEW v, GoodVm(v), NEW l \in DOMAIN v.layouts
  PROVE  l \in Range(Path(v, l))
<1>1. /\ Path(v, l)[v.layouts[l].sindex] = l /\ DOMAIN Path(v, l) = NoIndex .. v.layouts[l].sindex
      /\ v.layouts[l].sindex \in Int /\ v.layouts[l].sindex >= NoIndex
  BY PathGives
<1>2. v.layouts[l].sindex \in NoIndex .. v.layouts[l].sindex
  BY <1>1 DEF NoIndex
<1> QED BY <1>1, <1>2 DEF Range

(* Marking keeps the invariant: what a script has in hand is not white.      *)
LEMMA StartMarkKeeps ==
  ASSUME LookupInv, safepoint_start_mark
  PROVE  LookupInv'
<1>1. /\ GoodVm(vm) /\ LookupType /\ SlotsFit /\ PrototypesAreSealed /\ NoWhiteFound
      /\ SelectorsAreFresh
  BY DEF LookupInv
<1>2. /\ lookups' = lookups /\ vslots' = vslots /\ vm' = vm /\ sel' = sel /\ held' = held
      /\ marking' = TRUE
  BY DEF safepoint_start_mark
<1>3. /\ GoodVm(vm)' /\ LookupType' /\ SlotsFit' /\ PrototypesAreSealed' /\ SelectorsAreFresh'
  <2>1. ASSUME NEW l, NEW k PROVE Selected(l, k)' = Selected(l, k)
    BY <1>2 DEF Selected, Owners, Prototypes, lookup_prototype
  <2>2. SelectorsAreFresh'
    BY <1>1, <1>2, <2>1 DEF SelectorsAreFresh
  <2>3. LookupType'
    BY <1>1, <1>2 DEF LookupType
  <2>4. SlotsFit' /\ PrototypesAreSealed' /\ GoodVm(vm)'
    BY <1>1, <1>2 DEF SlotsFit, PrototypesAreSealed
  <2> QED BY <2>2, <2>3, <2>4
<1> DEFINE path(o) == Path(vm, lookups[o].layout)
           paths == UNION {Range(path(o)) : o \in Accessible}
<1>4. /\ held \subseteq Accessible
      /\ \A o \in Accessible : o \in DOMAIN lookups
           /\ (Prototypes[o] # Null => Prototypes[o] \in Accessible)
  BY <1>1, AccessibleAre
<1>5. \A o \in Accessible : /\ lookups[o].layout \in DOMAIN vm.layouts /\ o # Null
                            /\ Prototypes[o] = vm.layouts[path(o)[NoIndex]].parent
                            /\ lookups[o].layout \in Range(path(o))
  BY <1>1, <1>4, PrototypesAre, OwnPath
<1>6. /\ white'.lookups = DOMAIN lookups \ Accessible /\ grey' = Accessible
      /\ white'.vslots = DOMAIN vslots \ {lookups[o].oslots : o \in Accessible}
      /\ white'.layouts = DOMAIN vm.layouts \ paths
      /\ white' = [lookups |-> white'.lookups, vslots |-> white'.vslots, layouts |-> white'.layouts]
  BY DEF safepoint_start_mark
<1>7. Null \notin DOMAIN lookups
  BY <1>1, LookupAssumption DEF LookupType
<1>8. ASSUME NEW o \in DOMAIN lookups \ white'.lookups
      PROVE  Prototypes'[o] \notin white'.lookups /\ lookups[o].oslots \notin white'.vslots
  <2>1. o \in Accessible
    BY <1>6
  <2>2. Prototypes' = Prototypes
    BY <1>2 DEF Prototypes, lookup_prototype
  <2> QED BY <1>4, <1>6, <1>7, <2>1, <2>2
<1>9. ASSUME NEW l \in DOMAIN vm.layouts \ white'.layouts, vm.layouts[l].key = Null
      PROVE  vm.layouts[l].parent \notin white'.lookups
  <2>1. PICK o \in Accessible : l \in Range(path(o))
    BY <1>6
  <2>2. vm.layouts[l].parent = Prototypes[o]
    BY <1>1, <1>5, <1>9, <2>1, RootOnPath
  <2> QED BY <1>4, <1>6, <1>7, <2>2
<1>10. held \cap white'.lookups = {} /\ grey' \subseteq DOMAIN lookups \ white'.lookups
  BY <1>4, <1>6
<1> HIDE DEF paths, path
<1>11. NoWhiteFound'
  BY <1>2, <1>6, <1>8, <1>9, <1>10 DEF NoWhiteFound
<1> QED BY <1>3, <1>11 DEF LookupInv

(* Scanning an object marks layouts, of which the root is for its prototype. *)
LEMMA MarkKeeps ==
  ASSUME LookupInv, NEW o \in grey, gc_mark(o)
  PROVE  LookupInv'
<1>1. /\ GoodVm(vm) /\ LookupType /\ SlotsFit /\ PrototypesAreSealed /\ NoWhiteFound
      /\ SelectorsAreFresh /\ Sound
  BY DEF LookupInv, Sound
<1>2. /\ lookups' = lookups /\ vslots' = vslots /\ vm' = vm /\ sel' = sel /\ held' = held
      /\ marking' = marking /\ grey' = grey \ {o} /\ Mark(Range(Path(vm, lookups[o].layout)))
  BY DEF gc_mark
<1>3. /\ GoodVm(vm)' /\ LookupType' /\ SlotsFit' /\ PrototypesAreSealed' /\ SelectorsAreFresh'
  <2>1. ASSUME NEW l, NEW k PROVE Selected(l, k)' = Selected(l, k)
    BY <1>2 DEF Selected, Owners, Prototypes, lookup_prototype
  <2>2. SelectorsAreFresh'
    BY <1>1, <1>2, <2>1 DEF SelectorsAreFresh
  <2>3. LookupType'
    BY <1>1, <1>2 DEF LookupType
  <2>4. SlotsFit' /\ PrototypesAreSealed' /\ GoodVm(vm)'
    BY <1>1, <1>2 DEF SlotsFit, PrototypesAreSealed
  <2> QED BY <2>2, <2>3, <2>4
<1>4. PICK l : l = lookups[o].layout
  OBVIOUS
<1>5. PICK S : S = Range(Path(vm, l))
  OBVIOUS
<1>6. /\ white = [lookups |-> white.lookups, vslots |-> white.vslots, layouts |-> white.layouts]
      /\ white' = [white EXCEPT !.layouts = @ \ S]
  BY <1>1, <1>2, <1>4, <1>5 DEF NoWhiteFound, Mark
<1>7. white' = [lookups |-> white.lookups, vslots |-> white.vslots, layouts |-> white.layouts \ S]
  BY <1>6
<1>8. /\ white'.lookups = white.lookups /\ white'.vslots = white.vslots
      /\ white'.layouts = white.layouts \ S
      /\ white' = [lookups |-> white'.lookups, vslots |-> white'.vslots, layouts |-> white'.layouts]
  BY <1>7
<1>9. o \in DOMAIN lookups /\ o \notin white.lookups /\ Prototypes[o] \notin white.lookups
  BY <1>1 DEF NoWhiteFound
<1>10. /\ l \in DOMAIN vm.layouts
       /\ Prototypes[o] = vm.layouts[Path(vm, l)[NoIndex]].parent
  BY <1>1, <1>4, <1>9, SoundGives
<1>11. ASSUME NEW m \in DOMAIN vm.layouts \ white'.layouts, vm.layouts[m].key = Null
       PROVE  vm.layouts[m].parent \notin white.lookups
  <2>1. CASE m \in S
    BY <1>1, <1>5, <1>9, <1>10, <1>11, <2>1, RootOnPath
  <2>2. CASE m \notin S
    BY <1>1, <1>8, <1>11, <2>2 DEF NoWhiteFound
  <2> QED BY <2>1, <2>2
<1>12. ~marking => white' = NoneWhite
  <2>1. ASSUME ~marking PROVE white' = NoneWhite
    <3>1. white.lookups = {} /\ white.vslots = {} /\ white.layouts = {}
      BY <1>1, <2>1 DEF NoWhiteFound, NoneWhite
    <3> QED BY <1>7, <3>1 DEF NoneWhite
  <2> QED BY <2>1
<1>13. Prototypes' = Prototypes
  BY <1>2 DEF Prototypes, lookup_prototype
<1>14. NoWhiteFound'
  BY <1>1, <1>2, <1>8, <1>11, <1>12, <1>13 DEF NoWhiteFound
<1> QED BY <1>3, <1>14 DEF LookupInv

--------------------------------------------------------------------------------
(* The sweep.                                                                *)

(* Every layout that stays is found again from the tables: its next link is  *)
(* looked at.                                                                *)
Tables ==
  {vm.instance_layouts[p] : p \in {x \in DOMAIN vm.instance_layouts :
    vm.instance_layouts[x] \notin white.layouts}}
    \cup {vm.splitkey_layouts[x] :
            x \in {y \in DOMAIN vm.splitkey_layouts : vm.splitkey_layouts[y] \notin white.layouts}}

Links == [l \in DOMAIN vm.layouts |->
            IF vm.layouts[l].next \in white.layouts THEN Null ELSE vm.layouts[l].next]

(* What the sweep needs of the mark: what stays has its layouts.             *)
LayoutsKept ==
  /\ \A o \in DOMAIN lookups \ white.lookups : lookups[o].layout \notin white.layouts
  /\ \A l \in DOMAIN vm.layouts \ white.layouts :
       vm.layouts[l].key # Null => vm.layouts[l].parent \notin white.layouts

(* It is what it comes to that they are there afterwards.                    *)
LEMMA KeptIs ==
  ASSUME LookupInv, safepoint_start_sweep, LayoutsStay'
  PROVE  LayoutsKept
<1> DEFINE D == DOMAIN vm.layouts \ white.layouts
           C == DOMAIN lookups \ white.lookups
           pruned(l) == l \in Reached(Links, Tables) /\ vm.layouts[l].next \in white.layouts
           swept == [l \in D |-> IF pruned(l) THEN [vm.layouts[l] EXCEPT !.next = Null]
                                 ELSE vm.layouts[l]]
           Record == [parent : Nat \cup {Null}, key : Key \cup {Null}, cookie : Nat,
                      sindex : Nat \cup {NoIndex}, next : Nat \cup {Null}]
<1>1. GoodVm(vm) /\ IsVm(vm)
  BY DEF LookupInv, GoodVm
<1>2. vm'.layouts = swept
  <2>1. vm = [layouts |-> vm.layouts, next_cookie |-> vm.next_cookie,
              instance_layouts |-> vm.instance_layouts, splitkey_layouts |-> vm.splitkey_layouts]
    BY <1>1, Zenon DEF IsVm
  <2>2. \E x, y : vm' = [vm EXCEPT !.instance_layouts = x, !.splitkey_layouts = y,
                                   !.layouts = swept]
    BY Zenon DEF safepoint_start_sweep, Links, Tables
  <2> HIDE DEF swept
  <2> QED BY <2>1, <2>2
<1>3. \A l \in D : swept[l] = IF pruned(l) THEN [vm.layouts[l] EXCEPT !.next = Null]
                                ELSE vm.layouts[l]
  OBVIOUS
<1>4. DOMAIN vm'.layouts = D
  BY <1>2
<1>5. ASSUME NEW l \in D
      PROVE  vm'.layouts[l].key = vm.layouts[l].key /\ vm'.layouts[l].parent = vm.layouts[l].parent
  <2>1. PICK was : was = vm.layouts[l]
    OBVIOUS
  <2>2. was \in Record
    BY <1>1, <2>1 DEF IsVm
  <2>3. vm'.layouts[l] = was \/ vm'.layouts[l] = [was EXCEPT !.next = Null]
    BY <1>2, <1>3, <2>1
  <2> QED BY <2>1, <2>2, <2>3
<1>6. lookups' = [o \in C |-> lookups[o]]
  BY DEF safepoint_start_sweep, Without, Restrict
<1> HIDE DEF swept, pruned
<1>7. \A o \in C : lookups[o].layout \in D
  BY <1>4, <1>6 DEF LayoutsStay
<1>8. \A l \in D : vm.layouts[l].key # Null => vm.layouts[l].parent \in D
  BY <1>4, <1>5 DEF LayoutsStay
<1> QED BY <1>7, <1>8 DEF LayoutsKept

(* A layout that stays is reached from the tables: the purge looks at its link. *)
LEMMA AllAreWalked ==
  ASSUME LookupInv, LayoutsKept, NEW l \in DOMAIN vm.layouts \ white.layouts
  PROVE  l \in Reached(Links, Tables)
<1> DEFINE D == DOMAIN vm.layouts \ white.layouts
           walked == Reached(Links, Tables)
           left == {vm.layouts[m].sindex + 1 : m \in D \ walked}
<1>1. GoodVm(vm) /\ NoWhiteFound /\ IsVm(vm) /\ RootsAreInstances(vm) /\ ParentsLead(vm)
        /\ LinksLead(vm)
  BY DEF LookupInv, GoodVm
<1>2. DOMAIN Links = DOMAIN vm.layouts
      /\ \A m \in DOMAIN vm.layouts :
           Links[m] = IF vm.layouts[m].next \in white.layouts THEN Null ELSE vm.layouts[m].next
  BY DEF Links
<1>3. Ends(Links)
  BY <1>1, <1>2 DEF Ends, LinksLead, IsChild
<1>4. Tables \in SUBSET DOMAIN Links
  BY <1>1, <1>2 DEF Tables, IsVm
<1>5. Tables \subseteq walked /\ ClosedIn(Links, walked)
  BY <1>3, <1>4, ReachedIs
<1> HIDE DEF walked
<1>6. \A m \in DOMAIN vm.layouts : vm.layouts[m].sindex + 1 \in Nat /\ vm.layouts[m].sindex \in Int
  <2> TAKE m \in DOMAIN vm.layouts
  <2>1. vm.layouts[m].sindex \in Nat \cup {NoIndex}
    BY <1>1, LayoutIs
  <2> QED BY <2>1 DEF NoIndex
<1> SUFFICES ASSUME D \ walked # {} PROVE FALSE
  BY DEF walked
<1>7. PICK x \in left : \A y \in left : x <= y
  <2>1. left \in SUBSET Nat /\ left # {}
    BY <1>6
  <2> HIDE DEF left
  <2> QED BY <2>1, LeastNumber
<1>8. PICK m \in D \ walked : x = vm.layouts[m].sindex + 1
  BY <1>7
<1>9. m \in DOMAIN vm.layouts /\ m \notin white.layouts /\ m # Null
  BY <1>1, <1>8, LookupAssumption DEF IsVm
<1>10. CASE vm.layouts[m].key = Null
  <2>1. vm.layouts[m].parent \in DOMAIN vm.instance_layouts
          /\ vm.instance_layouts[vm.layouts[m].parent] = m
    BY <1>1, <1>9, <1>10 DEF RootsAreInstances
  <2>2. m \in Tables
    BY <1>9, <2>1 DEF Tables
  <2> QED BY <1>5, <1>8, <2>2
<1>11. CASE vm.layouts[m].key # Null
  <2> DEFINE p == vm.layouts[m].parent
  <2>1. /\ p \in DOMAIN vm.layouts /\ vm.layouts[m].sindex = vm.layouts[p].sindex + 1
        /\ \/ vm.layouts[p].next = m
           \/ /\ <<p, vm.layouts[m].key>> \in DOMAIN vm.splitkey_layouts
              /\ vm.splitkey_layouts[<<p, vm.layouts[m].key>>] = m
    BY <1>1, <1>9, <1>11 DEF ParentsLead
  <2>2. p \in D
    BY <1>9, <1>11, <2>1 DEF LayoutsKept
  <2> HIDE DEF p
  <2>3. p \in walked
    <3> SUFFICES ASSUME p \notin walked PROVE FALSE
      OBVIOUS
    <3>1. vm.layouts[p].sindex + 1 \in left
      BY <2>2
    <3>2. x <= vm.layouts[p].sindex + 1
      BY <1>7, <3>1
    <3> QED BY <1>6, <1>8, <1>9, <2>1, <3>2
  <2>4. CASE vm.layouts[p].next = m
    <3>1. Links[p] = m
      BY <1>2, <1>9, <2>1, <2>4
    <3> QED BY <1>5, <1>8, <1>9, <2>3, <3>1 DEF ClosedIn
  <2>5. CASE /\ <<p, vm.layouts[m].key>> \in DOMAIN vm.splitkey_layouts
             /\ vm.splitkey_layouts[<<p, vm.layouts[m].key>>] = m
    <3>1. m \in Tables
      BY <1>9, <2>5 DEF Tables
    <3> QED BY <1>5, <1>8, <3>1
  <2> QED BY <2>1, <2>4, <2>5
<1> QED BY <1>10, <1>11

(* What the sweep leaves.                                                    *)
LEMMA SweptVm ==
  ASSUME LookupInv, LayoutsKept, safepoint_start_sweep
  PROVE  /\ GoodVm(vm') /\ Keeps(vm', vm) /\ vm'.next_cookie = vm.next_cookie
         /\ DOMAIN vm'.layouts = DOMAIN vm.layouts \ white.layouts
         /\ \A p \in DOMAIN vm'.instance_layouts :
              /\ p \in DOMAIN vm.instance_layouts /\ vm.instance_layouts[p] \notin white.layouts
              /\ vm'.instance_layouts[p] = vm.instance_layouts[p]
<1> DEFINE D == DOMAIN vm.layouts \ white.layouts
           live(table) == {x \in DOMAIN table : table[x] \notin white.layouts}
           walked == Reached(Links, Tables)
           pruned(l) == l \in walked /\ vm.layouts[l].next \in white.layouts
           layouts == [l \in D |-> IF pruned(l) THEN [vm.layouts[l] EXCEPT !.next = Null]
             ELSE vm.layouts[l]]
           instances == Restrict(vm.instance_layouts, live(vm.instance_layouts))
           splits == Restrict(vm.splitkey_layouts, live(vm.splitkey_layouts))
           Record == [parent : Nat \cup {Null}, key : Key \cup {Null}, cookie : Nat,
                      sindex : Nat \cup {NoIndex}, next : Nat \cup {Null}]
<1>1. /\ GoodVm(vm) /\ NoWhiteFound /\ IsVm(vm) /\ RootsAreInstances(vm) /\ ParentsLead(vm)
      /\ LinksLead(vm)
      /\ CookiesAreDistinct(vm)
  BY DEF LookupInv, GoodVm
<1>2. vm' = [layouts |-> layouts, next_cookie |-> vm.next_cookie,
             instance_layouts |-> instances, splitkey_layouts |-> splits]
  <2>1. vm = [layouts |-> vm.layouts, next_cookie |-> vm.next_cookie,
              instance_layouts |-> vm.instance_layouts, splitkey_layouts |-> vm.splitkey_layouts]
    BY <1>1 DEF IsVm
  <2>2. vm' = [vm EXCEPT !.instance_layouts = instances, !.splitkey_layouts = splits,
          !.layouts = layouts]
    BY DEF safepoint_start_sweep, Links, Tables
  <2> HIDE DEF instances, splits, layouts
  <2> QED BY <2>1, <2>2
<1>3. /\ vm'.layouts = layouts /\ vm'.next_cookie = vm.next_cookie
      /\ vm'.instance_layouts = instances /\ vm'.splitkey_layouts = splits
      /\ vm' = [layouts |-> vm'.layouts, next_cookie |-> vm'.next_cookie,
                instance_layouts |-> vm'.instance_layouts,
                  splitkey_layouts |-> vm'.splitkey_layouts]
  BY <1>2
<1>4. ASSUME NEW l \in D
      PROVE  /\ vm.layouts[l] \in Record
             /\ layouts[l] \in Record
             /\ layouts[l].parent = vm.layouts[l].parent /\ layouts[l].key = vm.layouts[l].key
             /\ layouts[l].cookie = vm.layouts[l].cookie /\ layouts[l].sindex = vm.layouts[l].sindex
             /\ layouts[l].next = IF vm.layouts[l].next \in white.layouts THEN Null
                  ELSE vm.layouts[l].next
  <2>1. vm.layouts[l] \in Record
    BY <1>1 DEF IsVm
  <2>2. l \in walked
    BY AllAreWalked
  <2>3. layouts[l] = IF vm.layouts[l].next \in white.layouts THEN [vm.layouts[l] EXCEPT !.next
          = Null]
                     ELSE vm.layouts[l]
    BY <2>2
  <2> HIDE DEF layouts
  <2>4. CASE vm.layouts[l].next \in white.layouts
    <3>1. PICK was : was = vm.layouts[l]
      OBVIOUS
    <3>2. layouts[l] = [was EXCEPT !.next = Null] /\ was \in Record
      BY <2>1, <2>3, <2>4, <3>1
    <3> QED BY <2>1, <2>4, <3>1, <3>2
  <2>5. CASE vm.layouts[l].next \notin white.layouts
    BY <2>1, <2>3, <2>5
  <2> QED BY <2>4, <2>5
<1>5. DOMAIN layouts = D /\ layouts = [l \in D |-> layouts[l]]
  OBVIOUS
<1>6. /\ DOMAIN instances = live(vm.instance_layouts)
      /\ \A p \in live(vm.instance_layouts) : instances[p] = vm.instance_layouts[p]
      /\ instances = [p \in DOMAIN instances |-> instances[p]]
      /\ DOMAIN splits = live(vm.splitkey_layouts)
      /\ \A x \in live(vm.splitkey_layouts) : splits[x] = vm.splitkey_layouts[x]
      /\ splits = [x \in DOMAIN splits |-> splits[x]]
  BY DEF Restrict
<1> HIDE DEF layouts, instances, splits
<1>7. \A l \in D : vm.layouts[l].key # Null => vm.layouts[l].parent \notin white.layouts
  BY DEF LayoutsKept
<1>8. ASSUME NEW p, NEW l \in D, IsChild(vm, p, l)
      PROVE  IsChild(vm', p, l) /\ p \in D
  <2>1. /\ p \in DOMAIN vm.layouts /\ l \in DOMAIN vm.layouts
        /\ vm.layouts[l].key # Null /\ vm.layouts[l].parent = p
    BY <1>8 DEF IsChild
  <2>2. p \in D
    BY <1>7, <2>1
  <2> QED BY <1>3, <1>4, <1>5, <2>1, <2>2 DEF IsChild
<1>9. IsVm(vm')
  <2>1. D \in SUBSET (Nat \ {0}) /\ IsFiniteSet(D)
    BY <1>1, FS_Difference DEF IsVm
  <2>2. layouts \in [D -> Record]
    <3> HIDE DEF Record
    <3> QED BY <1>4, <1>5
  <2>3. vm.next_cookie \in Nat
    BY <1>1 DEF IsVm
  <2>4. DOMAIN instances \in SUBSET (Nat \cup {Null}) /\ instances \in [DOMAIN instances -> D]
    <3>1. \A p \in DOMAIN instances : p \in Nat \cup {Null} /\ instances[p] \in D
      BY <1>1, <1>6 DEF IsVm
    <3> QED BY <1>6, <3>1
  <2>5. DOMAIN splits \in SUBSET (D \X Key) /\ splits \in [DOMAIN splits -> D]
    <3>1. ASSUME NEW x \in DOMAIN splits PROVE x \in D \X Key /\ splits[x] \in D
      <4>1. /\ x \in DOMAIN vm.splitkey_layouts /\ splits[x] = vm.splitkey_layouts[x]
            /\ vm.splitkey_layouts[x] \in D
        BY <1>1, <1>6 DEF IsVm
      <4>2. x \in (DOMAIN vm.layouts) \X Key
        BY <1>1, <4>1 DEF IsVm
      <4>3. IsChild(vm, x[1], vm.splitkey_layouts[x])
        BY <1>1, <4>1 DEF LinksLead
      <4>4. x[1] \in D
        BY <1>8, <4>1, <4>3
      <4> QED BY <4>1, <4>2, <4>4
    <3> QED BY <1>6, <3>1
  <2> QED BY <1>3, <1>5, <2>1, <2>2, <2>3, <2>4, <2>5 DEF IsVm
<1>10. RootsAreInstances(vm')
  <2> SUFFICES ASSUME NEW l \in D, layouts[l].key = Null
               PROVE  /\ layouts[l].sindex = NoIndex
                      /\ layouts[l].parent \in DOMAIN instances
                      /\ instances[layouts[l].parent] = l
    BY <1>3, <1>5 DEF RootsAreInstances
  <2>1. /\ vm.layouts[l].sindex = NoIndex
        /\ vm.layouts[l].parent \in DOMAIN vm.instance_layouts
        /\ vm.instance_layouts[vm.layouts[l].parent] = l
    BY <1>1, <1>4 DEF RootsAreInstances
  <2> QED BY <1>4, <1>6, <2>1
<1>11. ParentsLead(vm')
  <2> SUFFICES ASSUME NEW l \in D, layouts[l].key # Null
               PROVE  /\ layouts[l].parent \in D
                      /\ layouts[l].sindex = layouts[layouts[l].parent].sindex + 1
                      /\ \/ layouts[layouts[l].parent].next = l
                         \/ /\ <<layouts[l].parent, layouts[l].key>> \in DOMAIN splits
                            /\ splits[<<layouts[l].parent, layouts[l].key>>] = l
    BY <1>3, <1>5 DEF ParentsLead
  <2>1. vm.layouts[l].key # Null
    BY <1>4
  <2>2. /\ vm.layouts[l].parent \in DOMAIN vm.layouts
        /\ vm.layouts[l].sindex = vm.layouts[vm.layouts[l].parent].sindex + 1
        /\ \/ vm.layouts[vm.layouts[l].parent].next = l
           \/ /\ <<vm.layouts[l].parent, vm.layouts[l].key>> \in DOMAIN vm.splitkey_layouts
              /\ vm.splitkey_layouts[<<vm.layouts[l].parent, vm.layouts[l].key>>] = l
    BY <1>1, <2>1 DEF ParentsLead
  <2>3. vm.layouts[l].parent \in D
    BY <1>7, <2>1, <2>2
  <2>4. CASE vm.layouts[vm.layouts[l].parent].next = l
    BY <1>4, <2>2, <2>3, <2>4
  <2>5. CASE /\ <<vm.layouts[l].parent, vm.layouts[l].key>> \in DOMAIN vm.splitkey_layouts
             /\ vm.splitkey_layouts[<<vm.layouts[l].parent, vm.layouts[l].key>>] = l
    <3>1. <<vm.layouts[l].parent, vm.layouts[l].key>> \in live(vm.splitkey_layouts)
      BY <2>5, Zenon
    <3> QED BY <1>4, <1>6, <2>2, <2>3, <2>5, <3>1
  <2> QED BY <2>2, <2>4, <2>5, Zenon
<1>12. LinksLead(vm')
  <2>1. ASSUME NEW l \in D, layouts[l].next # Null PROVE IsChild(vm', l, layouts[l].next)
    <3>1. vm.layouts[l].next # Null /\ vm.layouts[l].next \notin white.layouts
          /\ layouts[l].next = vm.layouts[l].next
      BY <1>4, <2>1
    <3>2. IsChild(vm, l, vm.layouts[l].next)
      BY <1>1, <3>1 DEF LinksLead
    <3>3. vm.layouts[l].next \in D
      BY <3>1, <3>2 DEF IsChild
    <3> QED BY <1>8, <3>1, <3>2, <3>3
  <2>2. ASSUME NEW p \in DOMAIN instances
        PROVE  /\ layouts[instances[p]].key = Null
               /\ layouts[instances[p]].parent = p
    <3>1. /\ p \in DOMAIN vm.instance_layouts /\ instances[p] = vm.instance_layouts[p]
          /\ vm.instance_layouts[p] \in D
      BY <1>1, <1>6 DEF IsVm
    <3> QED BY <1>1, <1>4, <3>1 DEF LinksLead
  <2>3. ASSUME NEW x \in DOMAIN splits
        PROVE  /\ IsChild(vm', x[1], splits[x])
               /\ layouts[splits[x]].key = x[2]
               /\ layouts[x[1]].next # Null => layouts[layouts[x[1]].next].key # x[2]
    <3>1. /\ x \in DOMAIN vm.splitkey_layouts /\ splits[x] = vm.splitkey_layouts[x]
          /\ vm.splitkey_layouts[x] \in D
      BY <1>1, <1>6 DEF IsVm
    <3>2. /\ IsChild(vm, x[1], vm.splitkey_layouts[x])
          /\ vm.layouts[vm.splitkey_layouts[x]].key = x[2]
          /\ vm.layouts[x[1]].next # Null => vm.layouts[vm.layouts[x[1]].next].key # x[2]
      BY <1>1, <3>1 DEF LinksLead
    <3>3. IsChild(vm', x[1], splits[x]) /\ x[1] \in D
      BY <1>8, <3>1, <3>2
    <3>4. ASSUME layouts[x[1]].next # Null PROVE layouts[layouts[x[1]].next].key # x[2]
      <4>1. layouts[x[1]].next = vm.layouts[x[1]].next /\ vm.layouts[x[1]].next # Null
        BY <1>4, <3>3, <3>4, Zenon
      <4>2. layouts[x[1]].next \in D
        <5>1. IsChild(vm', x[1], layouts[x[1]].next)
          BY <2>1, <3>3, <3>4
        <5> QED BY <1>3, <1>5, <5>1 DEF IsChild
      <4> QED BY <1>4, <3>2, <4>1, <4>2
    <3> QED BY <1>4, <3>1, <3>2, <3>3, <3>4
  <2> QED BY <1>3, <1>5, <2>1, <2>2, <2>3 DEF LinksLead
<1>13. CookiesAreDistinct(vm')
  <2>1. \A l \in D : l \in DOMAIN vm.layouts /\ layouts[l].cookie = vm.layouts[l].cookie
    BY <1>4
  <2>2. /\ \A l \in D : layouts[l].cookie \in 1 .. vm.next_cookie
        /\ \A l, m \in D : layouts[l].cookie = layouts[m].cookie => l = m
    BY <1>1, <2>1 DEF CookiesAreDistinct
  <2> QED BY <1>3, <1>5, <2>2 DEF CookiesAreDistinct
<1>14. GoodVm(vm')
  BY <1>9, <1>10, <1>11, <1>12, <1>13 DEF GoodVm
<1>15. Keeps(vm', vm)
  BY <1>3, <1>4, <1>5 DEF Keeps
<1> QED BY <1>3, <1>5, <1>6, <1>14, <1>15

(* So the sweep keeps the invariant: it leaves no link or table entry to what it frees. *)
LEMMA StartSweepKeeps ==
  ASSUME LookupInv, safepoint_start_sweep, LayoutsStay'
  PROVE  LookupInv'
<1>0. LayoutsKept
  BY KeptIs
<1>1. /\ GoodVm(vm) /\ LookupType /\ SlotsFit /\ PrototypesAreSealed /\ NoWhiteFound
      /\ SelectorsAreFresh
      /\ Sound
  BY DEF LookupInv, Sound
<1>2. /\ GoodVm(vm') /\ GoodVm(vm)' /\ Keeps(vm', vm) /\ vm'.next_cookie = vm.next_cookie
      /\ DOMAIN vm'.layouts = DOMAIN vm.layouts \ white.layouts
      /\ \A p \in DOMAIN vm'.instance_layouts :
           /\ p \in DOMAIN vm.instance_layouts /\ vm.instance_layouts[p] \notin white.layouts
           /\ vm'.instance_layouts[p] = vm.instance_layouts[p]
  BY <1>0, SweptVm
<1> DEFINE C == DOMAIN lookups \ white.lookups
           S == DOMAIN vslots \ white.vslots
<1>3. /\ lookups' = [o \in C |-> lookups[o]] /\ vslots' = [s \in S |-> vslots[s]]
      /\ marking' = FALSE /\ white' = NoneWhite /\ sel' = sel /\ held' = held
      /\ grey = {} /\ grey' = {}
  BY DEF safepoint_start_sweep, Without, Restrict
<1>4. /\ DOMAIN lookups' = C /\ DOMAIN vslots' = S
      /\ \A o \in C : lookups'[o] = lookups[o]
      /\ \A s \in S : vslots'[s] = vslots[s]
      /\ lookups' = [o \in DOMAIN lookups' |-> lookups'[o]]
      /\ vslots' = [s \in DOMAIN vslots' |-> vslots'[s]]
  BY <1>3
<1>5. /\ held \cap white.lookups = {}
      /\ \A o \in C : lookups[o].layout \notin white.layouts
           /\ lookups[o].oslots \notin white.vslots
      /\ \A l \in DOMAIN vm.layouts \ white.layouts :
           vm.layouts[l].key = Null => vm.layouts[l].parent \notin white.lookups
  BY <1>0, <1>1 DEF NoWhiteFound, LayoutsKept
<1> HIDE DEF C, S
<1>6. LookupType'
  <2>1. /\ DOMAIN lookups \in SUBSET (1 .. MaxLookups)
        /\ lookups \in [DOMAIN lookups ->
                    [layout : DOMAIN vm.layouts, oslots : DOMAIN vslots, sealed : BOOLEAN]]
        /\ DOMAIN vslots \in SUBSET (Nat \ {0}) /\ IsFiniteSet(DOMAIN vslots)
        /\ \A s \in DOMAIN vslots : IsSlots(vslots[s])
        /\ sel \in [Cached -> [cookie : Nat, sindex : Nat \cup {NoIndex},
                               slot : [vslots : Nat, sindex : Nat] \cup {Null}]]
        /\ \A k \in Cached : sel[k].cookie <= vm.next_cookie
        /\ held \in SUBSET DOMAIN lookups
    BY <1>1 DEF LookupType
  <2>2. \A o \in C : lookups'[o] \in [layout : DOMAIN vm'.layouts, oslots : DOMAIN vslots', sealed :
          BOOLEAN]
    <3> TAKE o \in C
    <3>1. lookups[o] \in [layout : DOMAIN vm.layouts, oslots : DOMAIN vslots, sealed : BOOLEAN]
      BY <2>1 DEF C
    <3>2. lookups[o].layout \in DOMAIN vm'.layouts /\ lookups[o].oslots \in DOMAIN vslots'
      BY <1>2, <1>4, <1>5, <3>1 DEF S
    <3> QED BY <1>4, <3>1, <3>2
  <2>3. IsFiniteSet(S) /\ S \subseteq DOMAIN vslots
    BY <2>1, FS_Difference DEF S
  <2>4. lookups' \in [DOMAIN lookups' -> [layout : DOMAIN vm'.layouts, oslots : DOMAIN vslots',
          sealed : BOOLEAN]]
    BY <1>4, <2>2
  <2>5. DOMAIN lookups' \in SUBSET (1 .. MaxLookups) /\ held' \in SUBSET DOMAIN lookups'
    BY <1>3, <1>4, <1>5, <2>1 DEF C
  <2> QED BY <1>2, <1>3, <1>4, <2>1, <2>3, <2>4, <2>5 DEF LookupType
<1>7. SlotsFit'
  <2>1. ASSUME NEW o \in C
        PROVE  vm'.layouts[lookups[o].layout].sindex \in DOMAIN vslots'[lookups[o].oslots]
                 \cup {NoIndex}
    <3>1. /\ vm.layouts[lookups[o].layout].sindex \in DOMAIN vslots[lookups[o].oslots]
               \cup {NoIndex}
          /\ lookups[o].layout \in DOMAIN vm.layouts /\ lookups[o].oslots \in DOMAIN vslots
      BY <1>1 DEF SlotsFit, LookupType, C
    <3>2. lookups[o].layout \in DOMAIN vm'.layouts /\ lookups[o].oslots \in S
      BY <1>2, <1>5, <3>1 DEF S
    <3> QED BY <1>2, <1>4, <3>1, <3>2 DEF Keeps
  <2> QED BY <1>1, <1>4, <2>1 DEF SlotsFit, C
<1>8. PrototypesAreSealed'
  <2> SUFFICES ASSUME NEW p \in DOMAIN vm'.instance_layouts \ {Null}
               PROVE  p \in DOMAIN lookups' /\ lookups'[p].sealed
    BY DEF PrototypesAreSealed
  <2>1. p \in DOMAIN vm.instance_layouts /\ vm.instance_layouts[p] \notin white.layouts
    BY <1>2
  <2>2. p \in DOMAIN lookups /\ lookups[p].sealed
    BY <1>1, <2>1 DEF PrototypesAreSealed
  <2>3. /\ vm.instance_layouts[p] \in DOMAIN vm.layouts
        /\ vm.layouts[vm.instance_layouts[p]].key = Null
        /\ vm.layouts[vm.instance_layouts[p]].parent = p
    BY <1>1, <2>1 DEF GoodVm, IsVm, LinksLead
  <2>4. p \in C
    BY <1>5, <2>1, <2>2, <2>3 DEF C
  <2> QED BY <1>4, <2>2, <2>4
<1>9. NoWhiteFound'
  BY <1>3 DEF NoWhiteFound, NoneWhite
<1>10. Sound'
  BY <1>2, <1>6, <1>8 DEF Sound
<1>11. SelectorsAreFresh'
  <2> SUFFICES ASSUME NEW k \in Cached, NEW l \in DOMAIN vm'.layouts,
                      vm'.layouts[l].cookie = sel[k].cookie
               PROVE  sel[k] = Selected(l, k)'
    BY <1>3 DEF SelectorsAreFresh
  <2> DEFINE L == DOMAIN vm'.layouts
  <2>1. SamePaths(vm, vm', L)
    BY <1>1, <1>2, SamePathsOf
  <2>2. ASSUME NEW m \in L PROVE vm.layouts[Path(vm, m)[NoIndex]].parent \in C \cup {Null}
    <3>1. Path(vm', m) = Path(vm, m) /\ m \in DOMAIN vm.layouts
      BY <2>1 DEF SamePaths
    <3>2. Path(vm', m)[NoIndex] \in L
      BY <1>2, PathGives
    <3>3. /\ vm.layouts[Path(vm, m)[NoIndex]].key = Null
          /\ vm.layouts[Path(vm, m)[NoIndex]].parent \in DOMAIN vm.instance_layouts
      BY <1>1, <3>1, PathGives
    <3>4. vm.layouts[Path(vm, m)[NoIndex]].parent \notin white.lookups
      BY <1>2, <1>5, <3>1, <3>2, <3>3
    <3> QED BY <1>1, <3>3, <3>4 DEF PrototypesAreSealed, C
  <2>3. \A p \in C : lookups[p].layout \in L /\ p \in DOMAIN lookups
    <3> TAKE p \in C
    <3>1. p \in DOMAIN lookups /\ lookups[p].layout \in DOMAIN vm.layouts
      BY <1>1 DEF LookupType, C
    <3> QED BY <1>2, <1>5, <3>1
  <2>4. ClosedIn(Prototypes, C)
    <3> SUFFICES ASSUME NEW p \in C PROVE Prototypes[p] = Null \/ Prototypes[p] \in C
      BY DEF ClosedIn
    <3>1. Prototypes[p] = vm.layouts[Path(vm, lookups[p].layout)[NoIndex]].parent
      BY <1>1, <2>3, SoundGives
    <3> QED BY <2>2, <2>3, <3>1
  <2>5. /\ C \subseteq DOMAIN lookups /\ C \subseteq DOMAIN lookups'
        /\ \A p \in C : lookups'[p].layout = lookups[p].layout
             /\ lookups'[p].oslots = lookups[p].oslots
    BY <1>4, <2>3
  <2>6. Selected(l, k)' = Selected(l, k)
    <3>1. vm.layouts[Path(vm, l)[NoIndex]].parent \in C \cup {Null}
            /\ \A p \in C : lookups[p].layout \in L
      BY <2>2, <2>3
    <3> HIDE DEF L
    <3>2. l \in L
      BY DEF L
    <3> QED BY <1>1, <1>10, <2>1, <2>4, <2>5, <3>1, <3>2, SelectedIsKept
  <2>7. l \in DOMAIN vm.layouts /\ vm.layouts[l].cookie = sel[k].cookie
    BY <1>2 DEF Keeps
  <2> QED BY <1>1, <2>6, <2>7 DEF SelectorsAreFresh
<1> QED BY <1>2, <1>6, <1>7, <1>8, <1>9, <1>11 DEF LookupInv

--------------------------------------------------------------------------------
(* New objects.                                                              *)

(* New slots are empty.                                                      *)
LEMMA NewSlots ==
  /\ IsSlots(vslots_new(InitialSlots)) /\ \A i \in DOMAIN vslots_new(InitialSlots) :
       vslots_new(InitialSlots)[i] = Null
<1>1. InitialSlots \in Nat \ {0}
  BY LookupAssumption
<1> DEFINE new == vslots_new(InitialSlots)
<1>2. DOMAIN new = 0 .. InitialSlots - 1 /\ new = [i \in 0 .. InitialSlots - 1 |-> Null]
  BY DEF vslots_new
<1>3. Cardinality(0 .. InitialSlots - 1) = InitialSlots
  <2>1. Cardinality(0 .. InitialSlots - 1) = IF 0 > InitialSlots - 1 THEN 0
          ELSE InitialSlots - 1 - 0 + 1
    BY <1>1, FS_Interval
  <2> QED BY <1>1, <2>1
<1>4. new \in [0 .. InitialSlots - 1 -> Value \cup {Null}]
  BY <1>2
<1> HIDE DEF new
<1>5. IsSlots(new)
  BY <1>1, <1>2, <1>3, <1>4 DEF IsSlots
<1>6. \A i \in DOMAIN new : new[i] = Null
  BY <1>2, Zenon
<1> QED BY <1>5, <1>6 DEF new

(* The root for a prototype is found, or made.                               *)
LEMMA RootIs ==
  ASSUME NEW v, GoodVm(v), NEW prototype \in Nat \cup {Null}
  PROVE  LET root == IF prototype \in DOMAIN v.instance_layouts
                     THEN [layout |-> v.instance_layouts[prototype], vm |-> v]
                     ELSE layout_new(v, prototype, Null)
             at == [layout |-> root.layout, vm |-> root.vm, slots |-> vslots_new(InitialSlots)]
         IN  /\ Made(v, {prototype}, at)
             /\ at.vm.layouts[at.layout].sindex = NoIndex
             /\ at.vm.layouts[at.layout].parent = prototype
             /\ \A i \in DOMAIN at.slots : at.slots[i] = Null
<1> DEFINE root == IF prototype \in DOMAIN v.instance_layouts
                     THEN [layout |-> v.instance_layouts[prototype], vm |-> v]
                     ELSE layout_new(v, prototype, Null)
           at == [layout |-> root.layout, vm |-> root.vm, slots |-> vslots_new(InitialSlots)]
<1>1. /\ GoodVm(root.vm) /\ Grows(v, root.vm)
      /\ root.layout \in DOMAIN root.vm.layouts
      /\ DOMAIN root.vm.layouts \subseteq DOMAIN v.layouts \cup {root.layout}
      /\ DOMAIN root.vm.instance_layouts \subseteq DOMAIN v.instance_layouts \cup {prototype}
      /\ root.vm.layouts[root.layout].key = Null /\ root.vm.layouts[root.layout].parent = prototype
  <2>1. CASE prototype \in DOMAIN v.instance_layouts
    <3>1. root.layout = v.instance_layouts[prototype] /\ root.vm = v
      BY <2>1
    <3>2. /\ v.instance_layouts[prototype] \in DOMAIN v.layouts
          /\ v.layouts[v.instance_layouts[prototype]].key = Null
          /\ v.layouts[v.instance_layouts[prototype]].parent = prototype
      BY <2>1 DEF GoodVm, IsVm, LinksLead
    <3>3. Grows(v, v)
      BY DEF Grows, Keeps, GoodVm, IsVm
    <3> HIDE DEF root
    <3> QED BY <3>1, <3>2, <3>3
  <2>2. CASE prototype \notin DOMAIN v.instance_layouts
    <3>1. root = layout_new(v, prototype, Null)
      BY <2>2
    <3> HIDE DEF root
    <3> QED BY <2>2, <3>1, NewRoot
  <2> QED BY <2>1, <2>2
<1> HIDE DEF root
<1>2. /\ at = [layout |-> at.layout, vm |-> at.vm, slots |-> at.slots]
      /\ at.layout = root.layout /\ at.vm = root.vm /\ at.slots = vslots_new(InitialSlots)
  OBVIOUS
<1> HIDE DEF at
<1>3. IsSlots(at.slots) /\ \A i \in DOMAIN at.slots : at.slots[i] = Null
  BY <1>2, NewSlots
<1>4. at.layout \in Range(Path(at.vm, at.layout))
  BY <1>1, <1>2, OwnPath
<1>5. at.vm.layouts[at.layout].sindex = NoIndex
  BY <1>1, <1>2, LayoutIs
<1>6. \A l \in DOMAIN at.vm.layouts \ DOMAIN v.layouts : at.vm.layouts[l].parent \in {prototype}
  BY <1>1, <1>2
<1>7. Made(v, {prototype}, at)
  BY <1>1, <1>2, <1>3, <1>4, <1>5, <1>6 DEF Made
<1> QED BY <1>1, <1>2, <1>3, <1>5, <1>7 DEF at, root

IsNamed(v, Q, prototype, names, to) ==
  /\ Made(v, Q, to)
  /\ to.vm.layouts[to.layout].sindex = Len(names) - 1
  /\ to.vm.layouts[Path(to.vm, to.layout)[NoIndex]].parent = prototype
  /\ \A i \in 0 .. Len(names) - 1 : to.vm.layouts[Path(to.vm, to.layout)[i]].key = names[i + 1]
  /\ \A i \in DOMAIN to.slots : to.slots[i] = Null

(* Keys that are named are added in turn.                                    *)
LEMMA NamedIs ==
  ASSUME NEW v, GoodVm(v), NEW Q, NEW prototype, NEW at, Made(v, Q, at),
         at.vm.layouts[at.layout].sindex = NoIndex,
         at.vm.layouts[at.layout].parent = prototype,
         \A i \in DOMAIN at.slots : at.slots[i] = Null, NEW names, names \in Seq(Key)
  PROVE  IsNamed(v, Q, prototype, names, AddKeys(at, names))
  BY AddKeysIs DEF IsNamed

(* The bound on objects, by itself.                                          *)
LEMMA BoundIs ==
  /\ MaxLookups \in Nat /\ IsFiniteSet(1 .. MaxLookups)
  /\ \A p \in 1 .. MaxLookups : p \in Nat
  /\ \A p \in Nat \ {0}, c \in Nat : c < MaxLookups /\ p <= c + 1 => p \in 1 .. MaxLookups
<1>1. MaxLookups \in Nat
  BY LookupAssumption
<1>2. IsFiniteSet(1 .. MaxLookups)
  BY <1>1, FS_Interval
<1>3. \A p \in 1 .. MaxLookups : p \in Nat
  BY <1>1
<1>4. \A p \in Nat \ {0}, c \in Nat : c < MaxLookups /\ p <= c + 1 => p \in 1 .. MaxLookups
  BY <1>1
<1> QED BY <1>1, <1>2, <1>3, <1>4

(* A new object, o.                                                          *)
Created(prototype, n, names, at, o, new) ==
  /\ Put({prototype}, at, o, new)
  /\ o \notin DOMAIN lookups
  /\ held' = held \cup {o} /\ sel' = sel
  /\ \A p \in DOMAIN lookups : lookups'[p] = [lookups[p] EXCEPT !.sealed = @ \/ p = prototype]
  /\ at.vm.layouts[at.layout].sindex = n - 1
  /\ at.vm.layouts[Path(at.vm, at.layout)[NoIndex]].parent = prototype
  /\ \A i \in 0 .. n - 1 : at.vm.layouts[Path(at.vm, at.layout)[i]].key = names[i + 1]
  /\ \A i \in DOMAIN at.slots : at.slots[i] = Null

(* A new object has its prototype, and the keys that are named.              *)
LEMMA CreateIs ==
  ASSUME LookupInv,
         NEW prototype \in held \cup {Null}, NEW names \in KeySlots, create_lookup(prototype, names)
  PROVE  \E at, o, new : Created(prototype, Len(names), names, at, o, new)
<1> DEFINE root == IF prototype \in DOMAIN vm.instance_layouts
                     THEN [layout |-> vm.instance_layouts[prototype], vm |-> vm]
                     ELSE layout_new(vm, prototype, Null)
           at == [layout |-> root.layout, vm |-> root.vm, slots |-> vslots_new(InitialSlots)]
           to == AddKeys(at, names)
           o == Unused(lookups)
           new == Unused(vslots)
           was == [p \in DOMAIN lookups |-> [lookups[p] EXCEPT !.sealed = @ \/ p = prototype]]
           Q == {prototype}
<1>1. /\ Cardinality(DOMAIN lookups) < MaxLookups
      /\ vm' = to.vm /\ Mark(Range(Path(to.vm, to.layout)) \ {to.layout})
      /\ vslots' = With(vslots, new, to.slots)
      /\ lookups' = With(was, o, [layout |-> to.layout, oslots |-> new, sealed |-> FALSE])
      /\ held' = held \cup {o} /\ sel' = sel /\ grey' = grey /\ marking' = marking
  BY DEF create_lookup
<1>2. GoodVm(vm) /\ LookupType /\ NoWhiteFound
  BY DEF LookupInv
<1>3. /\ DOMAIN lookups \in SUBSET (1 .. MaxLookups)
      /\ lookups \in [DOMAIN lookups ->
                    [layout : DOMAIN vm.layouts, oslots : DOMAIN vslots, sealed : BOOLEAN]]
      /\ DOMAIN vslots \in SUBSET (Nat \ {0}) /\ IsFiniteSet(DOMAIN vslots)
      /\ held \in SUBSET DOMAIN lookups
      /\ sel \in [Cached -> [cookie : Nat, sindex : Nat \cup {NoIndex},
                             slot : [vslots : Nat, sindex : Nat] \cup {Null}]]
  BY <1>2 DEF LookupType
<1>4. MaxLookups \in Nat
  BY LookupAssumption
<1>19. names \in Seq(Key)
  BY LookupAssumption
<1>5. prototype \in Nat \cup {Null}
  <2>1. \A p \in DOMAIN lookups : p \in 1 .. MaxLookups
    BY <1>3
  <2>2. \A p \in 1 .. MaxLookups : p \in Nat
    BY BoundIs
  <2>3. prototype = Null \/ prototype \in DOMAIN lookups
    BY <1>3
  <2> QED BY <2>1, <2>2, <2>3
<1>6. /\ Made(vm, Q, at)
      /\ at.vm.layouts[at.layout].sindex = NoIndex
      /\ at.vm.layouts[at.layout].parent = prototype
      /\ \A i \in DOMAIN at.slots : at.slots[i] = Null
  BY <1>2, <1>5, RootIs
<1> HIDE DEF root, at, Q, o, new, was
<1>7. /\ Made(vm, Q, to)
      /\ to.vm.layouts[to.layout].sindex = Len(names) - 1
      /\ to.vm.layouts[Path(to.vm, to.layout)[NoIndex]].parent = prototype
      /\ \A i \in 0 .. Len(names) - 1 : to.vm.layouts[Path(to.vm, to.layout)[i]].key = names[i + 1]
      /\ \A i \in DOMAIN to.slots : to.slots[i] = Null
  <2>1. IsNamed(vm, Q, prototype, names, to)
    BY <1>2, <1>19, <1>6, NamedIs
  <2> HIDE DEF to
  <2> QED BY <2>1 DEF IsNamed
<1> HIDE DEF to
<1>8. o \in 1 .. MaxLookups /\ o \notin DOMAIN lookups
  <2>1. IsFiniteSet(DOMAIN lookups)
    <3>1. IsFiniteSet(1 .. MaxLookups)
      BY BoundIs
    <3> QED BY <1>3, <3>1, FS_Subset
  <2>2. /\ o \in Nat \ {0} /\ o \notin DOMAIN lookups /\ o <= Cardinality(DOMAIN lookups) + 1
        /\ Cardinality(DOMAIN lookups) \in Nat
    BY <2>1, UnusedIs DEF o
  <2>5. o \in 1 .. MaxLookups
    BY <1>1, <2>2, BoundIs
  <2> QED BY <2>2, <2>5
<1>9. new \in Nat \ {0} /\ new \notin DOMAIN vslots
  BY <1>3, UnusedIs DEF new
<1>10. DOMAIN was = DOMAIN lookups
  BY DEF was
<1>11. /\ DOMAIN lookups' = DOMAIN lookups \cup {o}
       /\ lookups' = [p \in DOMAIN lookups' |-> lookups'[p]]
       /\ lookups'[o] = [layout |-> to.layout, oslots |-> new, sealed |-> FALSE]
       /\ \A p \in DOMAIN lookups : lookups'[p] = [lookups[p] EXCEPT !.sealed = @ \/ p = prototype]
  BY <1>1, <1>8, <1>10 DEF With, was
<1>12. \A p \in DOMAIN lookups :
           /\ lookups'[p] = [layout |-> lookups[p].layout, oslots |-> lookups[p].oslots,
                             sealed |-> lookups[p].sealed \/ p = prototype]
           /\ (lookups[p].sealed \/ p = prototype) \in BOOLEAN
           /\ p = prototype => lookups'[p].sealed
  <2> TAKE p \in DOMAIN lookups
  <2>1. PICK x : x = lookups[p]
    OBVIOUS
  <2>2. x \in [layout : DOMAIN vm.layouts, oslots : DOMAIN vslots, sealed : BOOLEAN]
    BY <1>3, <2>1
  <2>3. lookups'[p] = [x EXCEPT !.sealed = x.sealed \/ p = prototype]
    BY <1>11, <2>1
  <2>4. lookups'[p].sealed = (x.sealed \/ p = prototype)
    BY <2>2, <2>3
  <2> QED BY <2>1, <2>2, <2>3, <2>4
<1>13. \A p \in DOMAIN lookups \ {o} : \E b \in BOOLEAN :
           /\ lookups'[p] = [layout |-> lookups[p].layout, oslots |-> lookups[p].oslots,
                sealed |-> b]
           /\ lookups[p].sealed => b
  BY <1>12
<1>14. \A q \in Q : \/ q = Null
                    \/ q \in DOMAIN lookups \ {o} /\ q \notin white.lookups /\ lookups'[q].sealed
  <2> SUFFICES ASSUME prototype # Null
               PROVE  /\ prototype \in DOMAIN lookups \ {o} /\ prototype \notin white.lookups
                      /\ lookups'[prototype].sealed
    BY DEF Q
  <2>1. prototype \in held /\ prototype \in DOMAIN lookups
    BY <1>3
  <2>2. prototype \notin white.lookups
    BY <1>2, <2>1 DEF NoWhiteFound
  <2>3. lookups'[prototype].sealed
    BY <1>12, <2>1
  <2> QED BY <1>8, <2>1, <2>2, <2>3
<1>15. o \notin white.lookups
  BY <1>2, <1>8 DEF NoWhiteFound
<1>16. prototype \notin white.lookups
  <2>1. Null \notin DOMAIN lookups
    BY <1>3, LookupAssumption
  <2> QED BY <1>2, <2>1 DEF NoWhiteFound
<1>21. \E S : /\ Mark(S)
              /\ \A l \in S : to.vm.layouts[l].key = Null =>
                   to.vm.layouts[l].parent \notin white.lookups
  <2>1. PICK S : S = Range(Path(to.vm, to.layout)) \ {to.layout}
    OBVIOUS
  <2>2. GoodVm(to.vm) /\ to.layout \in DOMAIN to.vm.layouts
    BY <1>7 DEF Made
  <2>3. \A l \in S : to.vm.layouts[l].key = Null => to.vm.layouts[l].parent = prototype
    BY <1>7, <2>1, <2>2, RootOnPath
  <2> QED BY <1>1, <1>16, <2>1, <2>3
<1>17. sel' = [x \in Cached |-> sel'[x]]
  BY <1>1, <1>3
<1>18. Put(Q, to, o, new)
  BY <1>1, <1>7, <1>8, <1>9, <1>11, <1>13, <1>14, <1>15, <1>16, <1>17, <1>21 DEF Put
<1>20. Put({prototype}, to, o, new)
  BY <1>18 DEF Q
<1> HIDE DEF root, at, to, o, new, was, Q
<1> QED BY <1>1, <1>7, <1>8, <1>11, <1>20 DEF Created

(* Making an object keeps the invariant.                                     *)
LEMMA CreateKeeps ==
  ASSUME LookupInv,
         NEW prototype \in held \cup {Null}, NEW names \in KeySlots, create_lookup(prototype, names)
  PROVE  LookupInv'
<1>1. \E at, o, new : Put({prototype}, at, o, new)
  BY CreateIs DEF Created
<1> QED BY <1>1, PutKeeps

--------------------------------------------------------------------------------
(* Steps of an object.                                                       *)

(* An object that a script has, as update_layout and the rest find it.       *)
LEMMA AtIs ==
  ASSUME LookupInv, NEW o \in DOMAIN lookups
  PROVE  /\ At(o) = [layout |-> At(o).layout, vm |-> At(o).vm, slots |-> At(o).slots]
         /\ At(o).layout = lookups[o].layout /\ At(o).vm = vm
         /\ At(o).slots = vslots[lookups[o].oslots]
         /\ Made(vm, {}, At(o))
<1>1. /\ At(o) = [layout |-> At(o).layout, vm |-> At(o).vm, slots |-> At(o).slots]
      /\ At(o).layout = lookups[o].layout /\ At(o).vm = vm
      /\ At(o).slots = vslots[lookups[o].oslots]
  BY DEF At
<1>2. GoodVm(vm) /\ LookupType /\ SlotsFit
  BY DEF LookupInv
<1>3. lookups[o].layout \in DOMAIN vm.layouts /\ lookups[o].oslots \in DOMAIN vslots
  BY <1>2 DEF LookupType
<1>4. IsSlots(vslots[lookups[o].oslots])
  BY <1>2, <1>3 DEF LookupType
<1>5. vm.layouts[lookups[o].layout].sindex \in DOMAIN vslots[lookups[o].oslots] \cup {NoIndex}
  BY <1>2 DEF SlotsFit
<1>6. Grows(vm, vm)
  <2>1. vm.next_cookie \in Nat
    BY <1>2 DEF GoodVm, IsVm
  <2> QED BY <2>1 DEF Grows, Keeps
<1> QED BY <1>1, <1>2, <1>3, <1>4, <1>5, <1>6 DEF Made

(* What an object in hand has.                                               *)
LEMMA HeldIs ==
  ASSUME LookupInv, NEW o \in held
  PROVE  /\ o \in DOMAIN lookups /\ lookups[o].layout \in DOMAIN vm.layouts
         /\ lookups[o].oslots \in DOMAIN vslots /\ lookups[o].sealed \in BOOLEAN
         /\ GoodVm(vm) /\ Sound
BY DEF LookupInv, LookupType, Sound

(* A write to a slot of an object.                                           *)
LEMMA WriteIs ==
  ASSUME LookupInv, NEW o \in held, NEW i, i \in DOMAIN vslots[lookups[o].oslots], NEW v \in Value,
         write(o, i, v)
  PROVE  /\ lookups' = lookups /\ vm' = vm /\ white' = white
         /\ DOMAIN vslots' = DOMAIN vslots /\ vslots' = [s \in DOMAIN vslots |-> vslots'[s]]
         /\ \A s \in DOMAIN vslots :
              /\ IsSlots(vslots'[s]) /\ DOMAIN vslots'[s] = DOMAIN vslots[s]
              /\ \A j \in DOMAIN vslots[s] :
                   vslots'[s][j] = IF s = lookups[o].oslots /\ j = i THEN v ELSE vslots[s][j]
<1>1. PICK t : t = lookups[o].oslots
  OBVIOUS
<1>2. PICK old : old = vslots[t]
  OBVIOUS
<1>3. /\ t \in DOMAIN vslots /\ IsSlots(old) /\ i \in DOMAIN old
      /\ vslots = [s \in DOMAIN vslots |-> vslots[s]]
      /\ \A s \in DOMAIN vslots : IsSlots(vslots[s])
  BY <1>1, <1>2, HeldIs DEF LookupInv, LookupType
<1>4. vslots' = [vslots EXCEPT ![t] = [old EXCEPT ![i] = v]] /\ lookups' = lookups /\ vm' = vm
        /\ white' = white
  BY <1>1, <1>2 DEF write
<1>5. PICK new : new = [old EXCEPT ![i] = v]
  OBVIOUS
<1>6. /\ DOMAIN vslots' = DOMAIN vslots /\ vslots' = [s \in DOMAIN vslots |-> vslots'[s]]
      /\ vslots'[t] = new
      /\ \A s \in DOMAIN vslots \ {t} : vslots'[s] = vslots[s]
  BY <1>3, <1>4, <1>5
<1>7. old \in [DOMAIN old -> Value \cup {Null}] /\ Cardinality(DOMAIN old) \in Nat \ {0}
      /\ DOMAIN old = 0 .. Cardinality(DOMAIN old) - 1
  BY <1>3 DEF IsSlots
<1>8. /\ DOMAIN new = DOMAIN old /\ new \in [DOMAIN old -> Value \cup {Null}]
      /\ \A j \in DOMAIN old : new[j] = IF j = i THEN v ELSE old[j]
  BY <1>3, <1>5, <1>7
<1>9. IsSlots(new)
  BY <1>7, <1>8 DEF IsSlots
<1>10. ASSUME NEW s \in DOMAIN vslots
       PROVE  /\ IsSlots(vslots'[s]) /\ DOMAIN vslots'[s] = DOMAIN vslots[s]
              /\ \A j \in DOMAIN vslots[s] :
                   vslots'[s][j] = IF s = t /\ j = i THEN v ELSE vslots[s][j]
  BY <1>2, <1>3, <1>6, <1>8, <1>9
<1> QED BY <1>1, <1>4, <1>6, <1>10

(* Reading a key keeps the invariant: the selector it leaves is the one for the layout. *)
LEMMA GetkeyKeeps ==
  ASSUME LookupInv, NEW o \in held, NEW k \in Key, lookup_getkey(o, k)
  PROVE  LookupInv'
<1>1. /\ sel' = [x \in Cached |-> IF x = k THEN selected(o, k) ELSE sel[x]]
      /\ lookups' = lookups /\ vslots' = vslots /\ vm' = vm /\ held' = held
      /\ white' = white /\ marking' = marking /\ grey' = grey
  BY DEF lookup_getkey, Keep
<1>2. lookups[o].layout \in DOMAIN vm.layouts /\ selected(o, k) = Selected(lookups[o].layout, k)
  BY HeldIs, SelectedIs
<1>3. \A x \in Cached : sel'[x] = sel[x] \/ \E l \in DOMAIN vm.layouts : sel'[x] = Selected(l, x)
  <2> TAKE x \in Cached
  <2>1. CASE x = k
    <3>1. sel'[x] = Selected(lookups[o].layout, x)
      BY <1>1, <1>2, <2>1
    <3> QED BY <1>2, <3>1
  <2>2. CASE x # k
    BY <1>1, <2>2
  <2> QED BY <2>1, <2>2
<1>4. /\ vslots' = [s \in DOMAIN vslots |-> vslots'[s]]
      /\ \A s \in DOMAIN vslots : IsSlots(vslots'[s])
  BY <1>1 DEF LookupInv, LookupType
<1>5. sel' = [x \in Cached |-> sel'[x]]
  BY <1>1
<1> HIDE DEF lookup_getkey
<1> QED BY <1>1, <1>3, <1>4, <1>5, WriteKeeps

(* So does letting an object go,                                             *)
LEMMA DropKeeps ==
  ASSUME LookupInv, NEW o \in held, drop(o)
  PROVE  LookupInv'
<1>1. /\ sel' = sel /\ lookups' = lookups /\ vslots' = vslots /\ vm' = vm /\ held' \subseteq held
      /\ white' = white /\ marking' = marking /\ grey' = grey
  BY DEF drop
<1>2. /\ vslots' = [s \in DOMAIN vslots |-> vslots'[s]]
      /\ \A s \in DOMAIN vslots : IsSlots(vslots'[s])
      /\ sel' = [x \in Cached |-> sel'[x]]
  BY <1>1 DEF LookupInv, LookupType
<1> QED BY <1>1, <1>2, WriteKeeps

(* and writing a slot.                                                       *)
LEMMA SetkeyslotKeeps ==
  ASSUME LookupInv, NEW o \in held, NEW i \in DOMAIN vslots[lookups[o].oslots], NEW v \in Value,
         lookup_setkeyslot(o, i, v)
  PROVE  LookupInv'
<1>1. /\ write(o, i, v) /\ sel' = sel /\ held' = held
      /\ marking' = marking /\ grey' = grey
  BY DEF lookup_setkeyslot
<1>2. sel' = [x \in Cached |-> sel'[x]]
  BY <1>1 DEF LookupInv, LookupType
<1>3. /\ lookups' = lookups /\ vm' = vm /\ white' = white
      /\ DOMAIN vslots' = DOMAIN vslots /\ vslots' = [s \in DOMAIN vslots |-> vslots'[s]]
      /\ \A s \in DOMAIN vslots : IsSlots(vslots'[s]) /\ DOMAIN vslots'[s] = DOMAIN vslots[s]
  BY <1>1, WriteIs
<1> QED BY <1>1, <1>2, <1>3, WriteKeeps

(* Where a key that an object has is.                                        *)
LEMMA HasIs ==
  ASSUME LookupInv, NEW o \in held, NEW k, IndexesOf(vm, lookups[o].layout, k) # {}
  PROVE  /\ IndexOf(vm, lookups[o].layout, k) \in 0 .. vm.layouts[lookups[o].layout].sindex
         /\ IndexOf(vm, lookups[o].layout, k) \in DOMAIN vslots[lookups[o].oslots]
         /\ Selected(lookups[o].layout, k).sindex = IndexOf(vm, lookups[o].layout, k)
<1>1. PICK l : l = lookups[o].layout
  OBVIOUS
<1>2. l \in DOMAIN vm.layouts /\ lookups[o].oslots \in DOMAIN vslots /\ GoodVm(vm)
        /\ o \in DOMAIN lookups
  BY <1>1, HeldIs
<1>3. /\ IndexOf(vm, l, k) \in 0 .. vm.layouts[l].sindex
      /\ IndexOf(vm, l, k) \in Nat /\ vm.layouts[l].sindex \in Int
  BY <1>1, <1>2, IndexOfIs, LayoutIs
<1>4. /\ IsSlots(vslots[lookups[o].oslots])
      /\ vm.layouts[l].sindex \in DOMAIN vslots[lookups[o].oslots] \cup {NoIndex}
  BY <1>1, <1>2 DEF LookupInv, LookupType, SlotsFit
<1>5. IndexOf(vm, l, k) \in DOMAIN vslots[lookups[o].oslots]
  <2>1. PICK n : n = Cardinality(DOMAIN vslots[lookups[o].oslots])
    OBVIOUS
  <2>2. n \in Nat /\ DOMAIN vslots[lookups[o].oslots] = 0 .. n - 1
    BY <1>4, <2>1 DEF IsSlots
  <2>3. PICK i : i = IndexOf(vm, l, k)
    OBVIOUS
  <2>4. PICK m : m = vm.layouts[l].sindex
    OBVIOUS
  <2>5. i \in Nat /\ m \in Int /\ i <= m
    BY <1>3, <2>3, <2>4
  <2>6. m \in 0 .. n - 1 \/ m = NoIndex
    BY <1>4, <2>2, <2>4
  <2>7. i \in 0 .. n - 1
    BY <2>2, <2>5, <2>6 DEF NoIndex
  <2> QED BY <2>2, <2>3, <2>7
<1>6. Selected(l, k) = [cookie |-> vm.layouts[l].cookie, sindex |-> IndexOf(vm, l, k),
        slot |-> Null]
  BY <1>1 DEF Selected
<1> QED BY <1>1, <1>3, <1>5, <1>6

(* A selector that says where a key of the object's own is.                  *)
LEMMA CachedIs ==
  ASSUME LookupInv, NEW o \in held, NEW k \in Key, Good(o, k), selector(k).sindex # NoIndex
  PROVE  /\ IndexesOf(vm, lookups[o].layout, k) # {}
         /\ selector(k) = Selected(lookups[o].layout, k)
<1>1. PICK l : l = lookups[o].layout
  OBVIOUS
<1>2. l \in DOMAIN vm.layouts /\ o \in DOMAIN lookups
  BY <1>1, HeldIs
<1>3. selector(k) = Selected(l, k)
  BY <1>1, <1>2, SelectedIs DEF selected
<1>4. vm.layouts[l].cookie = selector(k).cookie /\ vm.layouts[l].cookie # 0
  BY <1>1, <1>2 DEF Good, LookupInv, GoodVm, CookiesAreDistinct
<1>5. Selected(l, k) # NoSel
  BY <1>3, <1>4 DEF NoSel
<1>6. IndexesOf(vm, l, k) = {} => Selected(l, k) = NoSel \/ Selected(l, k).sindex = NoIndex
  BY DEF Selected
<1> QED BY <1>1, <1>3, <1>5, <1>6

(* A key that an object has is written where it is; one that it has not is   *)
(* added.                                                                    *)
LEMMA SetkeyIs ==
  ASSUME LookupInv, NEW o \in held, NEW k \in Key, NEW v \in Value, lookup_setkey(o, k, v)
  PROVE  /\ held' = held /\ grey' = grey /\ marking' = marking
         /\ sel' = [x \in Cached |-> sel'[x]]
         /\ \/ /\ IndexesOf(vm, lookups[o].layout, k) # {}
               /\ write(o, IndexOf(vm, lookups[o].layout, k), v)
               /\ \A x \in Cached : sel'[x] = sel[x] \/ \E l \in DOMAIN vm.layouts :
                    sel'[x] = Selected(l, x)
            \/ /\ IndexesOf(vm, lookups[o].layout, k) = {} /\ ~ lookups[o].sealed
               /\ LET to == update_layout(At(o), k)
                      s  == to.vm.layouts[to.layout].sindex
                  IN  /\ Place(o, [to EXCEPT !.slots[s] = v])
                      /\ \A x \in Cached :
                           \/ sel'[x] = sel[x]
                           \/ x = k /\ sel'[x] = [cookie |-> to.vm.layouts[to.layout].cookie,
                                                  sindex |-> s, slot |-> Null]
<1> DEFINE l == lookups[o].layout
           cached == Good(o, k) /\ selector(k).sindex # NoIndex
           has    == IndexesOf(vm, l, k) # {}
           to     == update_layout(At(o), k)
           at(v2, m) == [cookie |-> v2.layouts[m].cookie, sindex |-> v2.layouts[m].sindex,
                         slot |-> Null]
           used   == IF cached THEN selector(k)
                     ELSE IF has THEN at(vm, Path(vm, l)[IndexOf(vm, l, k)])
                     ELSE at(to.vm, to.layout)
<1>1. /\ cached \/ has \/ ~lookups[o].sealed
      /\ sel' = [x \in Cached |-> IF x = k THEN used ELSE sel[x]]
      /\ IF cached \/ has THEN write(o, used.sindex, v)
         ELSE Place(o, [to EXCEPT !.slots[used.sindex] = v])
      /\ held' = held /\ grey' = grey /\ marking' = marking
  BY Zenon DEF lookup_setkey, Keep
<1>2. cached => has /\ selector(k) = Selected(l, k)
  BY CachedIs
<1>3. l \in DOMAIN vm.layouts /\ GoodVm(vm) /\ o \in DOMAIN lookups /\ k # Null
  BY HeldIs, LookupAssumption
<1> HIDE DEF used
<1>4. CASE has
  <2>1. /\ IndexOf(vm, l, k) \in 0 .. vm.layouts[l].sindex
        /\ Selected(l, k).sindex = IndexOf(vm, l, k)
    BY <1>4, HasIs
  <2>2. \E m \in DOMAIN vm.layouts : used = Selected(m, k) /\ used.sindex = IndexOf(vm, l, k)
    <3>1. CASE cached
      BY <1>2, <1>3, <2>1, <3>1 DEF used
    <3>2. CASE ~ cached
      <4>1. PICK m : m = Path(vm, l)[IndexOf(vm, l, k)]
        OBVIOUS
      <4>2. IndexOf(vm, l, k) \in NoIndex .. vm.layouts[l].sindex
        BY <2>1 DEF NoIndex
      <4>3. m \in DOMAIN vm.layouts /\ vm.layouts[m].sindex = IndexOf(vm, l, k)
              /\ vm.layouts[m].key = k
        BY <1>3, <1>4, <4>1, <4>2, PathGives, IndexOfIs
      <4>4. IndexesOf(vm, m, k) # {} /\ IndexOf(vm, m, k) = vm.layouts[m].sindex
        BY <1>3, <4>3, LastIs
      <4>5. used = [cookie |-> vm.layouts[m].cookie, sindex |-> vm.layouts[m].sindex, slot |-> Null]
        BY <1>4, <3>2, <4>1 DEF used
      <4>6. used = Selected(m, k)
        BY <4>4, <4>5 DEF Selected
      <4> QED BY <4>3, <4>5, <4>6
    <3> QED BY <3>1, <3>2
  <2>3. \A x \in Cached : sel'[x] = sel[x] \/ \E m \in DOMAIN vm.layouts : sel'[x] = Selected(m, x)
    BY <1>1, <2>2
  <2>4. sel' = [x \in Cached |-> sel'[x]]
    BY <1>1
  <2>5. write(o, IndexOf(vm, l, k), v)
    BY <1>1, <1>4, <2>2, Zenon
  <2> QED BY <1>1, <1>4, <2>3, <2>4, <2>5
<1>5. CASE ~ has
  <2>1. used = at(to.vm, to.layout) /\ ~ cached
    BY <1>2, <1>5 DEF used
  <2>2. used.sindex = to.vm.layouts[to.layout].sindex
    BY <2>1
  <2>3. /\ Place(o, [to EXCEPT !.slots[to.vm.layouts[to.layout].sindex] = v]) /\ ~ lookups[o].sealed
    BY <1>1, <1>5, <2>1, <2>2
  <2>4. sel' = [x \in Cached |-> sel'[x]]
    BY <1>1
  <2>5. \A x \in Cached : sel'[x] = sel[x] \/ (x = k /\ sel'[x] = at(to.vm, to.layout))
    BY <1>1, <2>1
  <2> HIDE DEF to
  <2> QED BY <1>1, <1>5, <2>3, <2>4, <2>5 DEF to
<1> QED BY <1>4, <1>5, Zenon

(* What an object becomes with a key that is set, and its value.             *)
Added(o, k, v) ==
  LET up == update_layout(At(o), k)
  IN  [up EXCEPT !.slots[up.vm.layouts[up.layout].sindex] = v]

IsAdded(o, k, v, to) ==
  LET l == lookups[o].layout
      s == vm.layouts[l].sindex
  IN  /\ Made(vm, {}, to)
      /\ s \in Int /\ s >= NoIndex
      /\ to.vm.layouts[to.layout].sindex = s + 1
      /\ IndexesOf(to.vm, to.layout, k) # {} /\ IndexOf(to.vm, to.layout, k) = s + 1
      /\ \A i \in NoIndex .. s :
           /\ Path(to.vm, to.layout)[i] = Path(vm, l)[i]
           /\ to.vm.layouts[Path(vm, l)[i]].key = vm.layouts[Path(vm, l)[i]].key
           /\ to.vm.layouts[Path(vm, l)[i]].parent = vm.layouts[Path(vm, l)[i]].parent
      /\ to.vm.layouts[Path(to.vm, to.layout)[s + 1]].key = k
      /\ s + 1 \in DOMAIN to.slots /\ to.slots[s + 1] = v
      /\ \A i \in DOMAIN vslots[lookups[o].oslots] :
           /\ i \in DOMAIN to.slots
           /\ i # s + 1 => to.slots[i] = vslots[lookups[o].oslots][i]

(* What setting a key that the object has not makes of it.                   *)
LEMMA AddedIs ==
  ASSUME LookupInv, NEW o \in DOMAIN lookups, NEW k \in Key, NEW v \in Value
  PROVE  /\ IsAdded(o, k, v, Added(o, k, v))
         /\ Added(o, k, v).layout = update_layout(At(o), k).layout
         /\ Added(o, k, v).vm = update_layout(At(o), k).vm
<1> DEFINE up == update_layout(At(o), k)
           to == [up EXCEPT !.slots[up.vm.layouts[up.layout].sindex] = v]
           l == lookups[o].layout
           s == vm.layouts[l].sindex
<1>1. /\ At(o).layout = l /\ At(o).vm = vm
      /\ At(o).slots = vslots[lookups[o].oslots]
      /\ Made(vm, {}, At(o)) /\ GoodVm(vm)
  BY AtIs DEF LookupInv
<1>2. PICK a : a = At(o)
  OBVIOUS
<1>3. PICK n : n = a.vm.layouts[a.layout].sindex
  OBVIOUS
<1>4. n = s
  BY <1>1, <1>2, <1>3
<1>5. PICK u : u = update_layout(a, k)
  OBVIOUS
<1>6. Made(vm, {}, a)
  BY <1>1, <1>2, Zenon
<1>7. /\ Made(vm, {}, u)
      /\ n \in Int /\ n >= NoIndex /\ n + 1 \in Nat
      /\ u.vm.layouts[u.layout].sindex = n + 1
      /\ n + 1 \in DOMAIN u.slots
      /\ u.layout \in DOMAIN u.vm.layouts
      /\ Path(u.vm, u.layout)[n + 1] = u.layout
      /\ u.vm.layouts[u.layout].key = k
      /\ \A i \in NoIndex .. n :
           /\ Path(u.vm, u.layout)[i] = Path(a.vm, a.layout)[i]
           /\ u.vm.layouts[Path(u.vm, u.layout)[i]].key = a.vm.layouts[Path(a.vm, a.layout)[i]].key
           /\ u.vm.layouts[Path(u.vm, u.layout)[i]].parent
                = a.vm.layouts[Path(a.vm, a.layout)[i]].parent
      /\ \A i \in DOMAIN a.slots : i \in DOMAIN u.slots /\ u.slots[i] = a.slots[i]
  BY <1>1, <1>3, <1>5, <1>6, MadeUpdate, SMTT(30)
<1>8. PICK w : w = [u.slots EXCEPT ![n + 1] = v]
  OBVIOUS
<1>9. /\ u = [layout |-> u.layout, vm |-> u.vm, slots |-> u.slots]
      /\ IsSlots(u.slots) /\ GoodVm(u.vm)
  BY <1>7 DEF Made
<1>10. up = u
  BY <1>2, <1>5
<1>11. to = [layout |-> u.layout, vm |-> u.vm, slots |-> w]
  <2>1. to = [u EXCEPT !.slots[n + 1] = v]
    BY <1>7, <1>10
  <2> HIDE DEF to
  <2> QED BY <1>8, <1>9, <2>1
<1>12. /\ IsSlots(w) /\ DOMAIN w = DOMAIN u.slots /\ w[n + 1] = v
       /\ \A i \in DOMAIN w : i # n + 1 => w[i] = u.slots[i]
  <2>1. /\ u.slots \in [DOMAIN u.slots -> Value \cup {Null}]
        /\ Cardinality(DOMAIN u.slots) \in Nat \ {0}
        /\ DOMAIN u.slots = 0 .. Cardinality(DOMAIN u.slots) - 1
    BY <1>9 DEF IsSlots
  <2>2. /\ DOMAIN w = DOMAIN u.slots /\ w \in [DOMAIN u.slots -> Value \cup {Null}]
        /\ w[n + 1] = v /\ \A i \in DOMAIN w : i # n + 1 => w[i] = u.slots[i]
    BY <1>7, <1>8, <2>1
  <2> QED BY <2>1, <2>2 DEF IsSlots
<1> HIDE DEF to, up
<1>13. PICK t : t = to
  OBVIOUS
<1>14. t.layout = u.layout /\ t.vm = u.vm /\ t.slots = w
         /\ t = [layout |-> t.layout, vm |-> t.vm, slots |-> t.slots]
  BY <1>11, <1>13
<1>15. Made(vm, {}, t)
  BY <1>7, <1>12, <1>14 DEF Made
<1>16. IndexesOf(u.vm, u.layout, k) # {} /\ IndexOf(u.vm, u.layout, k) = n + 1
  <2>1. k # Null
    BY LookupAssumption, Zenon
  <2> QED BY <1>7, <1>9, <2>1, LastIs
<1>17. /\ Made(vm, {}, t)
       /\ n \in Int /\ n >= NoIndex
       /\ t.vm.layouts[t.layout].sindex = n + 1
       /\ IndexesOf(t.vm, t.layout, k) # {} /\ IndexOf(t.vm, t.layout, k) = n + 1
       /\ t.vm.layouts[Path(t.vm, t.layout)[n + 1]].key = k
       /\ n + 1 \in DOMAIN t.slots /\ t.slots[n + 1] = v
  BY <1>7, <1>12, <1>14, <1>15, <1>16
<1>18. \A i \in NoIndex .. n :
           /\ Path(t.vm, t.layout)[i] = Path(a.vm, a.layout)[i]
           /\ t.vm.layouts[Path(a.vm, a.layout)[i]].key = a.vm.layouts[Path(a.vm, a.layout)[i]].key
           /\ t.vm.layouts[Path(a.vm, a.layout)[i]].parent
                = a.vm.layouts[Path(a.vm, a.layout)[i]].parent
  <2> TAKE i \in NoIndex .. n
  <2>1. /\ Path(u.vm, u.layout)[i] = Path(a.vm, a.layout)[i]
        /\ u.vm.layouts[Path(u.vm, u.layout)[i]].key = a.vm.layouts[Path(a.vm, a.layout)[i]].key
        /\ u.vm.layouts[Path(u.vm, u.layout)[i]].parent
             = a.vm.layouts[Path(a.vm, a.layout)[i]].parent
    BY <1>7
  <2> QED BY <1>14, <2>1
<1>19. \A i \in DOMAIN a.slots : /\ i \in DOMAIN t.slots
                                 /\ i # n + 1 => t.slots[i] = a.slots[i]
  BY <1>7, <1>12, <1>14
<1>20. a.vm = vm /\ a.layout = l /\ a.slots = vslots[lookups[o].oslots]
  BY <1>1, <1>2
<1>21. to.layout = up.layout /\ to.vm = up.vm
  BY <1>10, <1>13, <1>14
<1> HIDE DEF l
<1>22. \A i \in NoIndex .. s :
         /\ Path(to.vm, to.layout)[i] = Path(vm, l)[i]
         /\ to.vm.layouts[Path(vm, l)[i]].key = vm.layouts[Path(vm, l)[i]].key
         /\ to.vm.layouts[Path(vm, l)[i]].parent = vm.layouts[Path(vm, l)[i]].parent
  BY <1>4, <1>13, <1>18, <1>20
<1>23. to = Added(o, k, v)
  BY DEF to, up, Added
<1>24. IsAdded(o, k, v, t)
  BY <1>4, <1>13, <1>17, <1>19, <1>20, <1>22, ZenonT(40) DEF l, IsAdded
<1> QED BY <1>13, <1>21, <1>23, <1>24 DEF up

(* Setting a key keeps the invariant, with a selector, with the key, or with a new key. *)
LEMMA SetkeyKeeps ==
  ASSUME LookupInv,
         NEW o \in held, NEW k \in Key, NEW v \in Value, lookup_setkey(o, k, v)
  PROVE  LookupInv'
<1> DEFINE up == update_layout(At(o), k)
           to == Added(o, k, v)
           l == lookups[o].layout
           s == vm.layouts[l].sindex
<1>1. /\ held' = held /\ grey' = grey /\ marking' = marking /\ sel' = [x \in Cached |-> sel'[x]]
      /\ \/ /\ IndexesOf(vm, l, k) # {}
            /\ write(o, IndexOf(vm, l, k), v)
            /\ \A x \in Cached : sel'[x] = sel[x] \/ \E m \in DOMAIN vm.layouts :
                 sel'[x] = Selected(m, x)
         \/ /\ ~ lookups[o].sealed /\ Place(o, to)
            /\ \A x \in Cached :
                 \/ sel'[x] = sel[x]
                 \/ x = k /\ sel'[x] = [cookie |-> up.vm.layouts[up.layout].cookie,
                                        sindex |-> up.vm.layouts[up.layout].sindex, slot |-> Null]
  BY SetkeyIs, ZenonT(40) DEF Added
<1>2. CASE /\ IndexesOf(vm, l, k) # {}
           /\ write(o, IndexOf(vm, l, k), v)
           /\ \A x \in Cached : sel'[x] = sel[x] \/ \E m \in DOMAIN vm.layouts :
                sel'[x] = Selected(m, x)
  <2>1. IndexOf(vm, l, k) \in DOMAIN vslots[lookups[o].oslots]
    BY <1>2, HasIs
  <2>2. /\ lookups' = lookups /\ vm' = vm /\ white' = white
        /\ DOMAIN vslots' = DOMAIN vslots /\ vslots' = [t \in DOMAIN vslots |-> vslots'[t]]
        /\ \A t \in DOMAIN vslots : IsSlots(vslots'[t]) /\ DOMAIN vslots'[t] = DOMAIN vslots[t]
    BY <1>2, <2>1, WriteIs, Zenon
  <2> QED BY <1>1, <1>2, <2>2, WriteKeeps
<1>3. CASE /\ ~ lookups[o].sealed /\ Place(o, to)
           /\ \A x \in Cached :
                 \/ sel'[x] = sel[x]
                 \/ x = k /\ sel'[x] = [cookie |-> up.vm.layouts[up.layout].cookie,
                                        sindex |-> up.vm.layouts[up.layout].sindex, slot |-> Null]
  <2>1. o \in DOMAIN lookups
    BY HeldIs
  <2>2. /\ Made(vm, {}, to) /\ to.layout = up.layout /\ to.vm = up.vm
        /\ to.vm.layouts[to.layout].sindex = s + 1
        /\ IndexesOf(to.vm, to.layout, k) # {} /\ IndexOf(to.vm, to.layout, k) = s + 1
        /\ IsAdded(o, k, v, to)
    <3>1. IsAdded(o, k, v, to) /\ to.layout = up.layout /\ to.vm = up.vm
      BY <2>1, AddedIs
    <3> HIDE DEF to, up
    <3> QED BY <3>1, Zenon DEF IsAdded
  <2>4. to.vm.layouts[Path(to.vm, to.layout)[NoIndex]].parent = vm.layouts[Path(vm, l)[NoIndex]].parent
    <3>1. GoodVm(vm) /\ l \in DOMAIN vm.layouts
      BY HeldIs
    <3>2. NoIndex \in NoIndex .. s
      BY <3>1, PathGives
    <3> HIDE DEF to
    <3> QED BY <2>2, <3>2, Zenon DEF IsAdded
  <2> HIDE DEF to, up
  <2>3. \A x \in Cached :
          \/ sel'[x] = sel[x]
          \/ /\ IndexesOf(to.vm, to.layout, x) # {}
             /\ sel'[x] = [cookie |-> to.vm.layouts[to.layout].cookie,
                           sindex |-> IndexOf(to.vm, to.layout, x), slot |-> Null]
    BY <1>3, <2>2
  <2> QED BY <1>1, <1>3, <2>2, <2>3, <2>4, PlaceKeeps, Zenon
<1> QED BY <1>1, <1>2, <1>3, Zenon

(* What at becomes without the key of an index.                              *)
IsDeleted(at, index, to) ==
  LET s == at.vm.layouts[at.layout].sindex
  IN  /\ Made(at.vm, {}, to)
      /\ s \in Nat /\ index \in 0 .. s
      /\ to.vm.layouts[to.layout].sindex = s - 1
      /\ DOMAIN to.slots = DOMAIN at.slots
      /\ to.vm.layouts[Path(to.vm, to.layout)[NoIndex]].parent
           = at.vm.layouts[Path(at.vm, at.layout)[NoIndex]].parent
      /\ \A i \in 0 .. s - 1 :
           /\ to.vm.layouts[Path(to.vm, to.layout)[i]].key
                = at.vm.layouts[Path(at.vm, at.layout)[IF i < index THEN i ELSE i + 1]].key
           /\ to.slots[i] = at.slots[IF i < index THEN i ELSE i + 1]

(* What deleting a key makes of it.                                          *)
LEMMA DeletedIs ==
  ASSUME LookupInv, NEW o \in DOMAIN lookups, NEW k, IndexesOf(vm, lookups[o].layout, k) # {}
  PROVE  /\ IsDeleted(At(o), IndexOf(vm, lookups[o].layout, k),
                      DeleteKey(At(o), IndexOf(vm, lookups[o].layout, k)))
         /\ At(o).layout = lookups[o].layout /\ At(o).vm = vm
         /\ At(o).slots = vslots[lookups[o].oslots]
<1>1. PICK l : l = lookups[o].layout
  OBVIOUS
<1>2. PICK a : a = At(o)
  OBVIOUS
<1>3. PICK x : x = IndexOf(vm, l, k)
  OBVIOUS
<1>4. /\ a.layout = l /\ a.vm = vm /\ a.slots = vslots[lookups[o].oslots]
      /\ a = [layout |-> a.layout, vm |-> a.vm, slots |-> a.slots]
      /\ Made(vm, {}, a) /\ GoodVm(vm)
  BY <1>1, <1>2, AtIs DEF LookupInv
<1>5. GoodVm(a.vm) /\ a.layout \in DOMAIN a.vm.layouts /\ IsSlots(a.slots)
      /\ a.vm.layouts[a.layout].sindex \in DOMAIN a.slots \cup {NoIndex}
  BY <1>4 DEF Made
<1>6. x \in 0 .. a.vm.layouts[a.layout].sindex /\ a.vm.layouts[a.layout].sindex \in Int
  BY <1>1, <1>3, <1>4, <1>5, IndexOfIs, LayoutIs
<1>7. a.vm.layouts[a.layout].sindex \in Nat /\ a.vm.layouts[a.layout].sindex # NoIndex
  BY <1>6 DEF NoIndex
<1>8. a.vm.layouts[a.layout].sindex \in DOMAIN a.slots
  BY <1>5, <1>7, Zenon
<1>9. IsDeleted(a, x, DeleteKey(a, x))
  BY <1>4, <1>5, <1>6, <1>7, <1>8, DeleteKeyIs DEF IsDeleted
<1> QED BY <1>1, <1>2, <1>3, <1>4, <1>9

(* Deleting a key keeps the invariant.                                       *)
LEMMA DelkeyKeeps ==
  ASSUME LookupInv,
         NEW o \in held, NEW k \in Key, lookup_delkey(o, k)
  PROVE  LookupInv'
<1> DEFINE to == DeleteKey(At(o), IndexOf(vm, lookups[o].layout, k))
<1>1. /\ ~ lookups[o].sealed /\ IndexesOf(vm, lookups[o].layout, k) # {}
      /\ Place(o, to)
      /\ sel' = sel /\ held' = held /\ grey' = grey /\ marking' = marking
  BY Zenon DEF lookup_delkey
<1>2. /\ Made(vm, {}, to)
      /\ to.vm.layouts[Path(to.vm, to.layout)[NoIndex]].parent
           = vm.layouts[Path(vm, lookups[o].layout)[NoIndex]].parent
  <2>1. /\ IsDeleted(At(o), IndexOf(vm, lookups[o].layout, k), to)
        /\ At(o).vm = vm /\ At(o).layout = lookups[o].layout
    BY <1>1, HeldIs, DeletedIs
  <2> HIDE DEF to
  <2> QED BY <2>1 DEF IsDeleted
<1>3. sel' = [x \in Cached |-> sel'[x]]
  BY <1>1 DEF LookupInv, LookupType
<1> HIDE DEF to
<1> QED BY <1>1, <1>2, <1>3, PlaceKeeps

(* The first state has it.                                                   *)
LEMMA LookupInit == Init => LookupInv
<1> SUFFICES ASSUME Init PROVE LookupInv
  OBVIOUS
<1>1. /\ lookups = <<>> /\ vslots = <<>>
      /\ vm = [layouts |-> <<>>, next_cookie |-> 0,
               instance_layouts |-> <<>>, splitkey_layouts |-> <<>>]
      /\ sel = [k \in Cached |-> NoSel]
      /\ held = {} /\ white = NoneWhite /\ marking = FALSE /\ grey = {}
  BY DEF Init
<1> DEFINE none == <<>>
<1>2. DOMAIN none = {} /\ \A S : none \in [{} -> S] /\ none = [x \in {} |-> none[x]]
  OBVIOUS
<1>3. /\ vm.layouts = none /\ vm.next_cookie = 0 /\ vm.instance_layouts = none
      /\ vm.splitkey_layouts = none
      /\ vm = [layouts |-> vm.layouts, next_cookie |-> vm.next_cookie,
               instance_layouts |-> vm.instance_layouts, splitkey_layouts |-> vm.splitkey_layouts]
      /\ lookups = none /\ vslots = none
  BY <1>1
<1>4. IsFiniteSet({})
  BY FS_EmptySet
<1> HIDE DEF none
<1>5. IsVm(vm)
  BY <1>2, <1>3, <1>4 DEF IsVm
<1>6. GoodVm(vm)
  BY <1>2, <1>3, <1>5 DEF GoodVm, RootsAreInstances, ParentsLead, LinksLead, CookiesAreDistinct
<1>7. /\ sel \in [Cached -> [cookie : Nat, sindex : Nat \cup {NoIndex},
                             slot : [vslots : Nat, sindex : Nat] \cup {Null}]]
      /\ \A k \in Cached : sel[k].cookie <= 0
  BY <1>1 DEF NoSel
<1>8. LookupType
  BY <1>1, <1>2, <1>3, <1>4, <1>7 DEF LookupType
<1>9. SlotsFit /\ PrototypesAreSealed /\ SelectorsAreFresh
  BY <1>2, <1>3 DEF SlotsFit, PrototypesAreSealed, SelectorsAreFresh
<1>10. NoWhiteFound
  BY <1>1, <1>2, <1>3 DEF NoWhiteFound, NoneWhite
<1> QED BY <1>6, <1>8, <1>9, <1>10 DEF LookupInv

(* Every step keeps it.                                                      *)
LEMMA LookupNext ==
  ASSUME LookupInv, [Next]_vars, LayoutsStay'
  PROVE  LookupInv'
<1>1. CASE UNCHANGED vars
  <2>1. /\ lookups' = lookups /\ vslots' = vslots /\ vm' = vm /\ sel' = sel /\ held' = held
        /\ white' = white /\ marking' = marking /\ grey' = grey
    BY <1>1 DEF vars
  <2>2. /\ vslots' = [s \in DOMAIN vslots |-> vslots'[s]]
        /\ \A s \in DOMAIN vslots : IsSlots(vslots'[s])
        /\ sel' = [x \in Cached |-> sel'[x]]
    BY <2>1 DEF LookupInv, LookupType
  <2> QED BY <2>1, <2>2, WriteKeeps
<1>2. ASSUME NEW prototype \in held \cup {Null}, NEW names \in KeySlots,
             create_lookup(prototype, names)
      PROVE  LookupInv'
  BY <1>2, CreateKeeps
<1>3. ASSUME NEW o \in held, drop(o) PROVE LookupInv'
  BY <1>3, DropKeeps
<1>4. ASSUME NEW o \in held, NEW k \in Key, lookup_getkey(o, k) PROVE LookupInv'
  BY <1>4, GetkeyKeeps
<1>5. ASSUME NEW o \in held, NEW k \in Key, lookup_delkey(o, k) PROVE LookupInv'
  BY <1>5, DelkeyKeeps
<1>6. ASSUME NEW o \in held, NEW k \in Key, NEW v \in Value, lookup_setkey(o, k, v) PROVE LookupInv'
  BY <1>6, SetkeyKeeps
<1>7. ASSUME NEW o \in held, NEW i \in DOMAIN vslots[lookups[o].oslots], NEW v \in Value,
             lookup_setkeyslot(o, i, v)
      PROVE  LookupInv'
  BY <1>7, SetkeyslotKeeps
<1>8. CASE safepoint_start_mark
  BY <1>8, StartMarkKeeps
<1>9. CASE safepoint_start_sweep
  BY <1>9, StartSweepKeeps
<1>10. ASSUME NEW o \in grey, gc_mark(o) PROVE LookupInv'
  BY <1>10, MarkKeeps
<1> QED BY <1>1, <1>2, <1>3, <1>4, <1>5, <1>6, <1>7, <1>8, <1>9, <1>10 DEF Next

(* As long as they stay, LayoutsStay held before.                            *)
LEMMA StayedSo ==
  ASSUME [Next]_vars, LayoutsStay'
  PROVE  LayoutsStay
<1>1. CASE Next
  BY <1>1 DEF Next
<1>2. CASE UNCHANGED vars
  BY <1>2 DEF vars, LayoutsStay
<1> QED BY <1>1, <1>2

(* Up to a sweep that frees a layout in use, the layouts form trees that their tables    *)
(* lead to, cookies are not used again, slots fit, prototypes are sealed, no object that *)
(* is in use is white, and each selector is the one for the layout whose cookie it has,  *)
(* whatever is made, marked, swept and named again.  White layouts may be found and used *)
(* meanwhile; the premise is of what the sweep leaves.  (next_layout, lookup_getsel, the *)
(* purge)                                                                                *)
THEOREM LookupInvariant == Spec => [](LayoutsStay => LookupInv)
<1>1. (LayoutsStay => LookupInv) /\ [Next]_vars => (LayoutsStay => LookupInv)'
  BY LookupNext, StayedSo
<1> QED BY <1>1, LookupInit, PTL DEF Spec

(* A read through an instruction's selector gives what walking the object and its *)
(* prototypes gives, as long as no layout in use was freed.  (lookup_getkey,      *)
(* lookup_setkey)                                                                 *)
THEOREM SelectorsNeverStale == Spec => []SelectorsAgree
<1>1. (LayoutsStay => LookupInv) => SelectorsAgree
  BY SelectorsDoAgree DEF SelectorsAgree
<1> QED BY <1>1, LookupInvariant, PTL

(* Objects with one prototype, and the same keys in one order, share a layout, as long as *)
(* no layout in use was freed.  (next_layout, the purge)                                  *)
THEOREM LayoutsShared == Spec => []SameKeysShareLayout
<1>1. (LayoutsStay => LookupInv) => SameKeysShareLayout
  BY LayoutsAreShared DEF SameKeysShareLayout
<1> QED BY <1>1, LookupInvariant, PTL

--------------------------------------------------------------------------------
(* What a script sees of slots.                                              *)

(* Append, by index.                                                         *)
LEMMA Appended ==
  ASSUME NEW n \in Nat, NEW f, f = [i \in 1 .. n |-> f[i]], NEW e
  PROVE  Append(f, e) = [i \in 1 .. n + 1 |-> IF i = n + 1 THEN e ELSE f[i]]
<1> DEFINE S == {f[i] : i \in 1 .. n} \cup {e}
<1>1. f \in Seq(S) /\ Len(f) = n /\ e \in S
  OBVIOUS
<1> HIDE DEF S
<1> QED BY <1>1

(* RemoveAt, by index.                                                       *)
LEMMA Removed ==
  ASSUME NEW n \in Nat, NEW f, f = [i \in 1 .. n |-> f[i]], NEW x \in 1 .. n
  PROVE  Abstract!RemoveAt(f, x) = [i \in 1 .. n - 1 |-> f[IF i < x THEN i ELSE i + 1]]
<1> DEFINE S == {f[i] : i \in 1 .. n}
           a == SubSeq(f, 1, x - 1)
           b == SubSeq(f, x + 1, Len(f))
<1>1. f \in Seq(S) /\ Len(f) = n
  OBVIOUS
<1> HIDE DEF S
<1>2. a \in Seq(S) /\ Len(a) = x - 1 /\ \A i \in 1 .. x - 1 : a[i] = f[i]
  BY <1>1
<1>3. b \in Seq(S) /\ Len(b) = n - x /\ \A i \in 1 .. n - x : b[i] = f[x + i]
  BY <1>1
<1>4. Abstract!RemoveAt(f, x) = a \o b
  BY DEF Abstract!RemoveAt
<1> HIDE DEF a, b
<1>5. /\ a \o b \in Seq(S) /\ Len(a \o b) = Len(a) + Len(b)
      /\ \A i \in 1 .. Len(a) : (a \o b)[i] = a[i]
      /\ \A i \in 1 .. Len(b) : (a \o b)[Len(a) + i] = b[i]
  <2>1. a \in Seq(S) /\ b \in Seq(S) /\ Len(a) \in Nat /\ Len(b) \in Nat
    BY <1>2, <1>3, LenProperties
  <2>2. /\ a \o b \in Seq(S) /\ Len(a \o b) = Len(a) + Len(b)
        /\ \A i \in 1 .. Len(a) + Len(b) : (a \o b)[i] = IF i <= Len(a) THEN a[i] ELSE b[i - Len(a)]
    BY <2>1, ConcatProperties
  <2>3. PICK m \in Nat : m = Len(a)
    BY <2>1
  <2>4. PICK p \in Nat : p = Len(b)
    BY <2>1
  <2>5. PICK ab : ab = a \o b
    OBVIOUS
  <2>6. \A i \in 1 .. m + p : ab[i] = IF i <= m THEN a[i] ELSE b[i - m]
    BY <2>2, <2>3, <2>4, <2>5
  <2>7. \A i \in 1 .. m : ab[i] = a[i]
    BY <2>6
  <2>8. \A i \in 1 .. p : ab[m + i] = b[i]
    <3> TAKE i \in 1 .. p
    <3>1. m + i \in 1 .. m + p /\ ~ (m + i <= m) /\ (m + i) - m = i
      OBVIOUS
    <3> QED BY <2>6, <3>1
  <2> QED BY <2>2, <2>3, <2>4, <2>5, <2>7, <2>8
<1>6. x \in Nat /\ x >= 1 /\ x <= n /\ Len(a \o b) = n - 1
  BY <1>2, <1>3, <1>5
<1>7. ASSUME NEW i \in 1 .. n - 1 PROVE (a \o b)[i] = f[IF i < x THEN i ELSE i + 1]
  <2>1. CASE i < x
    <3>1. i \in 1 .. x - 1 /\ i \in 1 .. Len(a)
      BY <1>2, <1>6, <2>1
    <3> QED BY <1>2, <1>5, <2>1, <3>1
  <2>2. CASE ~ i < x
    <3> DEFINE j == i - (x - 1)
    <3>1. j \in 1 .. n - x /\ j \in 1 .. Len(b) /\ Len(a) + j = i /\ x + j = i + 1
      BY <1>2, <1>3, <1>6, <2>2, SMTT(30)
    <3> HIDE DEF j
    <3> QED BY <1>3, <1>5, <2>2, <3>1
  <2> QED BY <2>1, <2>2
<1>8. DOMAIN (a \o b) = 1 .. n - 1 /\ a \o b \in [1 .. n - 1 -> S]
  BY <1>5, <1>6, LenProperties
<1>9. a \o b = [i \in 1 .. n - 1 |-> (a \o b)[i]]
  BY <1>8
<1> QED BY <1>4, <1>7, <1>9

(* The slots of an abstract object.                                          *)
SlotsOf(v, l, slots) ==
  [i \in 1 .. v.layouts[l].sindex + 1 |->
     [key |-> v.layouts[Path(v, l)[i - 1]].key, value |-> slots[i - 1]]]

(* An object with the same path and values is the same to a script.          *)
LEMMA SlotsKept ==
  ASSUME NEW v, NEW w, GoodVm(v), NEW l \in DOMAIN v.layouts, SamePaths(v, w, {l}),
         NEW slots, NEW new, \A i \in 0 .. v.layouts[l].sindex : new[i] = slots[i]
  PROVE  SlotsOf(w, l, new) = SlotsOf(v, l, slots)
<1> DEFINE s == v.layouts[l].sindex
<1>1. s \in Int /\ w.layouts[l].sindex = s /\ \A k : IndexesOf(w, l, k) = IndexesOf(v, l, k)
  BY LayoutIs DEF SamePaths
<1>2. ASSUME NEW i \in 0 .. s PROVE w.layouts[Path(w, l)[i]].key = v.layouts[Path(v, l)[i]].key
  <2>1. i \in IndexesOf(v, l, v.layouts[Path(v, l)[i]].key)
    BY DEF IndexesOf
  <2> QED BY <1>1, <2>1 DEF IndexesOf
<1>3. ASSUME NEW i \in 1 .. s + 1
      PROVE  /\ w.layouts[Path(w, l)[i - 1]].key = v.layouts[Path(v, l)[i - 1]].key
             /\ new[i - 1] = slots[i - 1]
  <2>1. i - 1 \in 0 .. s
    BY <1>1
  <2> QED BY <1>2, <2>1
<1> QED BY <1>1, <1>3 DEF SlotsOf

(* What an object may become.                                                *)
LEMMA AssignedIs ==
  ASSUME NEW was, NEW m \in DOMAIN was.slots, NEW x \in Value
  PROVE  Abstract!WithSlots(was, Abstract!Assign(was.slots, m, x)) \in Abstract!Assigned(was)
BY DEF Abstract!Assigned

(* What is a deletion to a script.                                           *)
LEMMA DeletedMay ==
  ASSUME NEW was, NEW m \in DOMAIN was.slots
  PROVE  Abstract!WithSlots(was, Abstract!RemoveAt(was.slots, m)) \in Abstract!Deleted(was)
BY DEF Abstract!Deleted

(* What is an addition to a script.                                          *)
LEMMA AddedMay ==
  ASSUME NEW was, NEW k \in Key, NEW x \in Value, \A i \in DOMAIN was.slots : was.slots[i].key # k
  PROVE  Abstract!WithSlots(was, Append(was.slots, [key |-> k, value |-> x]))
           \in Abstract!Added(was)
BY DEF Abstract!Added

(* Of the slots up to s, new has another value in i.                         *)
DifferAt(slots, new, s, i, x) == \A j \in 0 .. s : new[j] = IF j = i THEN x ELSE slots[j]

(* Writing a slot is assigning a key.                                        *)
LEMMA SlotsAssigned ==
  ASSUME NEW v, NEW l, NEW s \in Int, v.layouts[l].sindex = s, NEW i \in 0 .. s,
         NEW slots, NEW new, NEW x, DifferAt(slots, new, s, i, x)
  PROVE  /\ i + 1 \in DOMAIN SlotsOf(v, l, slots)
         /\ SlotsOf(v, l, new) = Abstract!Assign(SlotsOf(v, l, slots), i + 1, x)
<1> DEFINE key(j) == v.layouts[Path(v, l)[j - 1]].key
           was == [j \in 1 .. s + 1 |-> [key |-> key(j), value |-> slots[j - 1]]]
           now == [j \in 1 .. s + 1 |-> [key |-> key(j), value |-> new[j - 1]]]
<1>1. was = SlotsOf(v, l, slots) /\ now = SlotsOf(v, l, new)
  BY DEF SlotsOf
<1>2. i + 1 \in 1 .. s + 1 /\ (i + 1) - 1 = i
  OBVIOUS
<1>3. ASSUME NEW j \in 1 .. s + 1
      PROVE  now[j] = IF j = i + 1 THEN [was[i + 1] EXCEPT !.value = x] ELSE was[j]
  <2>1. j - 1 \in 0 .. s /\ (j - 1 = i <=> j = i + 1)
    OBVIOUS
  <2>2. new[j - 1] = IF j = i + 1 THEN x ELSE slots[j - 1]
    BY <2>1 DEF DifferAt
  <2>3. now[j] = [key |-> key(j), value |-> new[j - 1]]
          /\ was[j] = [key |-> key(j), value |-> slots[j - 1]]
    OBVIOUS
  <2> HIDE DEF now, was, key
  <2>4. CASE j = i + 1
    <3>1. [was[j] EXCEPT !.value = x] = [key |-> key(j), value |-> x]
      BY <2>3
    <3> QED BY <2>2, <2>3, <2>4, <3>1
  <2>5. CASE j # i + 1
    BY <2>2, <2>3, <2>5
  <2> QED BY <2>4, <2>5
<1>4. DOMAIN was = 1 .. s + 1 /\ DOMAIN now = 1 .. s + 1
      /\ was = [j \in 1 .. s + 1 |-> was[j]] /\ now = [j \in 1 .. s + 1 |-> now[j]]
  OBVIOUS
<1> HIDE DEF was, now
<1>5. now = [was EXCEPT ![i + 1] = [was[i + 1] EXCEPT !.value = x]]
  BY <1>2, <1>3, <1>4
<1>6. now = [was EXCEPT ![i + 1].value = x]
  BY <1>2, <1>4, <1>5
<1> QED BY <1>1, <1>2, <1>4, <1>6 DEF Abstract!Assign

(* Adding a key to the layout is adding it to the object.                    *)
LEMMA SlotsAdded ==
  ASSUME LookupInv, NEW o \in DOMAIN lookups, NEW k, NEW x, NEW to, IsAdded(o, k, x, to)
  PROVE  SlotsOf(to.vm, to.layout, to.slots)
           = Append(SlotsOf(vm, lookups[o].layout, vslots[lookups[o].oslots]),
             [key |-> k, value |-> x])
<1>1. PICK l : l = lookups[o].layout
  OBVIOUS
<1>2. PICK slots : slots = vslots[lookups[o].oslots]
  OBVIOUS
<1>3. PICK s : s = vm.layouts[l].sindex
  OBVIOUS
<1>4. /\ s \in Int /\ s >= NoIndex
      /\ to.vm.layouts[to.layout].sindex = s + 1
      /\ \A i \in NoIndex .. s :
           /\ Path(to.vm, to.layout)[i] = Path(vm, l)[i]
           /\ to.vm.layouts[Path(vm, l)[i]].key = vm.layouts[Path(vm, l)[i]].key
      /\ to.vm.layouts[Path(to.vm, to.layout)[s + 1]].key = k
      /\ to.slots[s + 1] = x
      /\ \A i \in DOMAIN slots : i # s + 1 => to.slots[i] = slots[i]
  BY <1>1, <1>2, <1>3, Zenon DEF IsAdded
<1>5. \A i \in 0 .. s : i \in DOMAIN slots
  <2>1. s \in DOMAIN slots \cup {NoIndex} /\ IsSlots(slots)
    BY <1>1, <1>2, <1>3 DEF LookupInv, SlotsFit, LookupType
  <2>2. PICK n : n = Cardinality(DOMAIN slots)
    OBVIOUS
  <2>3. n \in Nat /\ DOMAIN slots = 0 .. n - 1
    BY <2>1, <2>2, Zenon DEF IsSlots
  <2> QED BY <1>4, <2>1, <2>3 DEF NoIndex
<1> DEFINE was == SlotsOf(vm, l, slots)
           now == SlotsOf(to.vm, to.layout, to.slots)
           e == [key |-> k, value |-> x]
           n == s + 1
<1>6. n \in Nat /\ was = [i \in 1 .. n |-> was[i]] /\ now = [i \in 1 .. n + 1 |-> now[i]]
  BY <1>3, <1>4 DEF SlotsOf, NoIndex
<1>7. ASSUME NEW i \in 1 .. n + 1 PROVE now[i] = IF i = n + 1 THEN e ELSE was[i]
  <2>1. now[i] = [key |-> to.vm.layouts[Path(to.vm, to.layout)[i - 1]].key,
          value |-> to.slots[i - 1]]
    BY <1>4 DEF SlotsOf
  <2> HIDE DEF now
  <2>2. CASE i = n + 1
    <3>1. i - 1 = s + 1
      BY <1>4, <2>2
    <3> QED BY <1>4, <2>1, <2>2, <3>1
  <2>3. CASE i # n + 1
    <3>1. i \in 1 .. s + 1 /\ i - 1 \in 0 .. s /\ i - 1 \in NoIndex .. s /\ i - 1 # s + 1
      BY <1>4, <2>3 DEF NoIndex
    <3>2. was[i] = [key |-> vm.layouts[Path(vm, l)[i - 1]].key, value |-> slots[i - 1]]
      BY <1>3, <3>1 DEF SlotsOf
    <3> HIDE DEF was
    <3> QED BY <1>4, <1>5, <2>1, <2>3, <3>1, <3>2
  <2> QED BY <2>2, <2>3
<1> HIDE DEF was, now, e, n
<1>8. Append(was, e) = [i \in 1 .. n + 1 |-> IF i = n + 1 THEN e ELSE was[i]]
  BY <1>6, Appended
<1>9. now = Append(was, e)
  BY <1>6, <1>7, <1>8, Zenon
<1> QED BY <1>1, <1>2, <1>9 DEF was, now, e

(* Adding the keys above it again is deleting it.                            *)
LEMMA SlotsDeleted ==
  ASSUME NEW at, NEW index, NEW to, IsDeleted(at, index, to)
  PROVE  /\ index + 1 \in DOMAIN SlotsOf(at.vm, at.layout, at.slots)
         /\ SlotsOf(to.vm, to.layout, to.slots)
              = Abstract!RemoveAt(SlotsOf(at.vm, at.layout, at.slots), index + 1)
<1> DEFINE s == at.vm.layouts[at.layout].sindex
<1>1. s = at.vm.layouts[at.layout].sindex
  OBVIOUS
<1>2. /\ s \in Nat /\ index \in 0 .. s
      /\ to.vm.layouts[to.layout].sindex = s - 1
      /\ \A i \in 0 .. s - 1 :
           /\ to.vm.layouts[Path(to.vm, to.layout)[i]].key
                = at.vm.layouts[Path(at.vm, at.layout)[IF i < index THEN i ELSE i + 1]].key
           /\ to.slots[i] = at.slots[IF i < index THEN i ELSE i + 1]
  BY <1>1, Zenon DEF IsDeleted
<1> HIDE DEF s
<1> DEFINE was == SlotsOf(at.vm, at.layout, at.slots)
           now == SlotsOf(to.vm, to.layout, to.slots)
           n == s + 1
<1>3. n \in Nat /\ index + 1 \in 1 .. n /\ DOMAIN was = 1 .. n
      /\ was = [i \in 1 .. n |-> was[i]] /\ now = [i \in 1 .. n - 1 |-> now[i]]
  <2>1. s \in Nat /\ index \in 0 .. s
    BY <1>2, Zenon
  <2>2. n \in Nat /\ index + 1 \in 1 .. n /\ (s - 1) + 1 = n - 1
    BY <2>1
  <2>3. DOMAIN was = 1 .. n /\ was = [i \in 1 .. n |-> was[i]]
    BY <1>1 DEF SlotsOf
  <2>4. to.vm.layouts[to.layout].sindex + 1 = n - 1
    BY <1>2, <2>2, Zenon
  <2>5. now = [i \in 1 .. n - 1 |-> now[i]]
    BY <2>4 DEF SlotsOf
  <2> QED BY <2>2, <2>3, <2>5, Zenon
<1>4. ASSUME NEW i \in 1 .. n - 1 PROVE now[i] = was[IF i < index + 1 THEN i ELSE i + 1]
  <2> DEFINE j == IF i < index + 1 THEN i ELSE i + 1
  <2>1. now[i] = [key |-> to.vm.layouts[Path(to.vm, to.layout)[i - 1]].key,
          value |-> to.slots[i - 1]]
    BY <1>2 DEF SlotsOf
  <2> HIDE DEF now
  <2>2. /\ i - 1 \in 0 .. s - 1 /\ j \in 1 .. s + 1
        /\ (IF i - 1 < index THEN i - 1 ELSE (i - 1) + 1) = j - 1
    BY <1>2
  <2> HIDE DEF j
  <2>3. was[j] = [key |-> at.vm.layouts[Path(at.vm, at.layout)[j - 1]].key,
          value |-> at.slots[j - 1]]
    BY <1>1, <2>2 DEF SlotsOf
  <2> HIDE DEF was
  <2>4. now[i] = was[j]
    BY <1>2, <2>1, <2>2, <2>3
  <2> QED BY <2>4 DEF j
<1> HIDE DEF was, now, n
<1>5. Abstract!RemoveAt(was, index + 1) = [i \in 1 .. n - 1 |-> was[IF i < index + 1 THEN i
        ELSE i + 1]]
  BY <1>3, Removed
<1>6. now = Abstract!RemoveAt(was, index + 1)
  BY <1>3, <1>4, <1>5
<1> QED BY <1>3, <1>6 DEF was, now

--------------------------------------------------------------------------------
(* What a script sees of objects.                                            *)

(* The objects that a script can get at, and what it takes each for.         *)
ObjectsMade ==
  /\ DOMAIN AbstractObjects = Accessible
  /\ AbstractObjects = [o \in Accessible |-> AbstractObjects[o]]
  /\ \A o \in Accessible :
       /\ AbstractObjects[o] =
            [prototype |-> Prototypes[o], sealed |-> lookups[o].sealed,
             slots |-> SlotsOf(vm, lookups[o].layout, vslots[lookups[o].oslots])]
       /\ o \in DOMAIN lookups /\ lookups[o].layout \in DOMAIN vm.layouts
       /\ lookups[o].sealed \in BOOLEAN
  /\ Accessible = Reached(Prototypes, held)
  /\ held \subseteq Accessible /\ Accessible \subseteq DOMAIN lookups
  /\ DOMAIN Prototypes = DOMAIN lookups /\ Ends(Prototypes) /\ ClosedIn(Prototypes, Accessible)
  /\ \A o \in DOMAIN lookups :
       Prototypes[o] = vm.layouts[Path(vm, lookups[o].layout)[NoIndex]].parent

(* It is what they are.                                                      *)
LEMMA ObjectsAre == Sound => ObjectsMade
<1> SUFFICES ASSUME Sound PROVE ObjectsMade
  OBVIOUS
<1>1. GoodVm(vm) /\ LookupType /\ PrototypesAreSealed
  BY DEF Sound
<1>2. DOMAIN AbstractObjects = Accessible /\ AbstractObjects
        = [o \in Accessible |-> AbstractObjects[o]]
  BY DEF AbstractObjects
<1>3. ASSUME NEW o \in Accessible
      PROVE  AbstractObjects[o] =
               [prototype |-> Prototypes[o], sealed |-> lookups[o].sealed,
                slots |-> SlotsOf(vm, lookups[o].layout, vslots[lookups[o].oslots])]
  BY DEF AbstractObjects, SlotsOf
<1>4. /\ held \subseteq Accessible /\ Accessible \subseteq DOMAIN lookups
      /\ ClosedIn(Prototypes, Accessible)
  BY <1>1, AccessibleAre
<1>5. /\ DOMAIN Prototypes = DOMAIN lookups /\ Ends(Prototypes)
      /\ \A o \in DOMAIN lookups :
           Prototypes[o] = vm.layouts[Path(vm, lookups[o].layout)[NoIndex]].parent
  BY <1>1, PrototypesAre
<1>6. \A o \in DOMAIN lookups : lookups[o].layout \in DOMAIN vm.layouts
        /\ lookups[o].sealed \in BOOLEAN
  BY <1>1 DEF LookupType
<1>7. Accessible = Reached(Prototypes, held)
  BY DEF Accessible
<1> QED BY <1>2, <1>3, <1>4, <1>5, <1>6, <1>7 DEF ObjectsMade

(* And in the next state.                                                    *)
LEMMA ObjectsAreNext == Sound' => ObjectsMade'
BY ObjectsAre, PTL

(* The part of the invariant that it takes.                                  *)
LEMMA InvIsSound == LookupInv => Sound
BY DEF LookupInv, Sound

(* And in the next state.                                                    *)
LEMMA InvIsSoundNext == LookupInv' => Sound'
BY InvIsSound, PTL

(* Objects that keep their prototypes.                                       *)
LEMMA AccessibleIsKept ==
  ASSUME ObjectsMade, ObjectsMade', held' = held,
         Accessible \subseteq DOMAIN lookups', \A p \in Accessible : Prototypes'[p] = Prototypes[p]
  PROVE  Accessible' = Accessible
<1>1. PICK f : f = Prototypes
  OBVIOUS
<1>2. PICK g : g = Prototypes'
  OBVIOUS
<1>3. PICK C : C = Accessible
  OBVIOUS
<1>4. /\ Ends(f) /\ Ends(g) /\ C \in SUBSET DOMAIN f /\ C \subseteq DOMAIN g
      /\ ClosedIn(f, C) /\ (\A y \in C : f[y] = g[y]) /\ held \in SUBSET C
      /\ C = Reached(f, held) /\ Accessible' = Reached(g, held)
  BY <1>1, <1>2, <1>3 DEF ObjectsMade
<1>5. Reached(f, held) = Reached(g, held)
  BY <1>4, ReachedAgrees
<1> QED BY <1>3, <1>4, <1>5

(* An object that keeps its layout and slots.                                *)
LEMMA ObjectIsKept ==
  ASSUME Sound, ObjectsMade, ObjectsMade', NEW p \in Accessible, p \in Accessible',
         lookups'[p].layout = lookups[p].layout, SamePaths(vm, vm', {lookups[p].layout}),
         \A i \in 0 .. vm.layouts[lookups[p].layout].sindex :
           vslots'[lookups'[p].oslots][i] = vslots[lookups[p].oslots][i]
  PROVE  /\ Prototypes'[p] = Prototypes[p]
         /\ AbstractObjects'[p] = [prototype |-> AbstractObjects[p].prototype,
                                   sealed |-> lookups'[p].sealed,
                                     slots |-> AbstractObjects[p].slots]
         /\ lookups'[p].sealed = lookups[p].sealed => AbstractObjects'[p] = AbstractObjects[p]
<1>1. PICK l : l = lookups[p].layout
  OBVIOUS
<1>2. PICK slots : slots = vslots[lookups[p].oslots]
  OBVIOUS
<1>3. PICK new : new = vslots'[lookups'[p].oslots]
  OBVIOUS
<1>4. l \in DOMAIN vm.layouts /\ GoodVm(vm)
  BY <1>1 DEF ObjectsMade, Sound
<1>5. SlotsOf(vm', l, new) = SlotsOf(vm, l, slots)
  BY <1>1, <1>2, <1>3, <1>4, SlotsKept
<1>6. Prototypes'[p] = Prototypes[p]
  <2>1. vm'.layouts[Path(vm', l)[NoIndex]].parent = vm.layouts[Path(vm, l)[NoIndex]].parent
    BY <1>1 DEF SamePaths
  <2> QED BY <1>1, <2>1, Zenon DEF ObjectsMade
<1>7. AbstractObjects[p] = [prototype |-> Prototypes[p], sealed |-> lookups[p].sealed,
                            slots |-> SlotsOf(vm, l, slots)]
  BY <1>1, <1>2 DEF ObjectsMade
<1>8. AbstractObjects'[p] = [prototype |-> Prototypes'[p], sealed |-> lookups'[p].sealed,
                             slots |-> SlotsOf(vm', l, new)]
  BY <1>1, <1>3 DEF ObjectsMade
<1> QED BY <1>5, <1>6, <1>7, <1>8

(* One of them.                                                              *)
LEMMA SamePathsToo ==
  ASSUME NEW v, NEW w, NEW L, SamePaths(v, w, L), NEW l \in L
  PROVE  SamePaths(v, w, {l})
BY DEF SamePaths

(* Steps that a script sees nothing of.                                      *)
LEMMA NothingChanges ==
  ASSUME lookups' = lookups, vslots' = vslots, vm' = vm, held' = held
  PROVE  UNCHANGED Abstract!vars
<1>1. AbstractObjects' = AbstractObjects
  BY DEF AbstractObjects, Accessible, Prototypes, lookup_prototype
<1> QED BY <1>1 DEF Abstract!vars

(* The sweep is nothing to a script: it frees only what cannot be got at.    *)
LEMMA SweepChangesNothing ==
  ASSUME LookupInv, LookupInv', LayoutsStay', safepoint_start_sweep
  PROVE  UNCHANGED Abstract!vars
<1>0. LayoutsKept
  BY KeptIs
<1>1. /\ GoodVm(vm) /\ LookupType /\ NoWhiteFound /\ Sound /\ ObjectsMade /\ ObjectsMade'
  BY InvIsSound, InvIsSoundNext, ObjectsAre, ObjectsAreNext DEF LookupInv
<1>2. /\ GoodVm(vm') /\ Keeps(vm', vm)
      /\ DOMAIN vm'.layouts = DOMAIN vm.layouts \ white.layouts
  BY <1>0, SweptVm
<1> DEFINE C == DOMAIN lookups \ white.lookups
           S == DOMAIN vslots \ white.vslots
<1>3. /\ lookups' = [o \in C |-> lookups[o]] /\ vslots' = [s \in S |-> vslots[s]]
      /\ held' = held
  BY DEF safepoint_start_sweep, Without, Restrict
<1>4. /\ DOMAIN lookups' = C /\ DOMAIN vslots' = S
      /\ \A o \in C : lookups'[o] = lookups[o]
      /\ \A s \in S : vslots'[s] = vslots[s]
  BY <1>3
<1> HIDE DEF C, S
<1>5. \A o \in C : /\ o \in DOMAIN lookups /\ lookups[o].layout \in DOMAIN vm'.layouts
                   /\ vslots'[lookups[o].oslots] = vslots[lookups[o].oslots]
  BY <1>0, <1>1, <1>2, <1>4 DEF C, S, LookupType, NoWhiteFound, LayoutsKept
<1>6. SamePaths(vm, vm', DOMAIN vm'.layouts)
  BY <1>1, <1>2, SamePathsOf
<1>7. \A o \in C : Prototypes'[o] = Prototypes[o] /\ SamePaths(vm, vm', {lookups[o].layout})
  <2> TAKE o \in C
  <2>1. PICK l : l = lookups[o].layout
    OBVIOUS
  <2>2. vm'.layouts[Path(vm', l)[NoIndex]].parent = vm.layouts[Path(vm, l)[NoIndex]].parent
    BY <1>5, <1>6, <2>1, Zenon DEF SamePaths
  <2>3. Prototypes'[o] = Prototypes[o]
    BY <1>1, <1>4, <1>5, <2>1, <2>2 DEF ObjectsMade
  <2>4. SamePaths(vm, vm', {l})
    BY <1>5, <1>6, <2>1, SamePathsToo
  <2> QED BY <2>1, <2>3, <2>4
<1>8. Accessible' = Accessible
  <2>1. held \subseteq C
    BY <1>1, <1>4, <1>3 DEF ObjectsMade
  <2>2. ClosedIn(Prototypes, C)
    <3>1. Ends(Prototypes') /\ DOMAIN Prototypes' = C
      BY <1>1, <1>4 DEF ObjectsMade
    <3> QED BY <1>7, <3>1 DEF Ends, ClosedIn
  <2>3. PICK f : f = Prototypes
    OBVIOUS
  <2>4. PICK g : g = Prototypes'
    OBVIOUS
  <2>5. /\ Ends(f) /\ Ends(g) /\ C \in SUBSET DOMAIN f /\ C \subseteq DOMAIN g
        /\ ClosedIn(f, C) /\ (\A y \in C : f[y] = g[y]) /\ held \in SUBSET C
        /\ Accessible = Reached(f, held) /\ Accessible' = Reached(g, held)
    BY <1>1, <1>3, <1>4, <1>5, <1>7, <2>1, <2>2, <2>3, <2>4 DEF ObjectsMade
  <2>6. Reached(f, held) = Reached(g, held)
    BY <2>5, ReachedAgrees
  <2> QED BY <2>5, <2>6
<1>9. \A o \in Accessible : AbstractObjects'[o] = AbstractObjects[o]
  <2> TAKE o \in Accessible
  <2>1. o \in C /\ o \in Accessible'
    BY <1>1, <1>4, <1>8 DEF ObjectsMade
  <2>2. lookups'[o].layout = lookups[o].layout /\ SamePaths(vm, vm', {lookups[o].layout})
        /\ lookups'[o].sealed = lookups[o].sealed
        /\ vslots'[lookups'[o].oslots] = vslots[lookups[o].oslots]
    BY <1>4, <1>5, <1>7, <2>1
  <2> QED BY <1>1, <2>1, <2>2, ObjectIsKept
<1>10. AbstractObjects' = AbstractObjects
  BY <1>1, <1>8, <1>9 DEF ObjectsMade
<1> QED BY <1>3, <1>10 DEF Abstract!vars

--------------------------------------------------------------------------------
(* Steps, as a script sees them.                                             *)

(* Letting an object go.                                                     *)
LEMMA DropDrops ==
  ASSUME LookupInv, LookupInv', NEW o \in held, drop(o)
  PROVE  Abstract!Drop(o)
<1>1. ObjectsMade /\ ObjectsMade'
  BY InvIsSound, InvIsSoundNext, ObjectsAre, ObjectsAreNext
<1>2. /\ held' = held \ {o}
      /\ lookups' = lookups /\ vslots' = vslots /\ vm' = vm
  BY DEF drop
<1>3. Prototypes' = Prototypes
  BY <1>2 DEF Prototypes, lookup_prototype
<1>4. PICK h : h = held'
  OBVIOUS
<1>5. PICK f : f = Prototypes
  OBVIOUS
<1>6. PICK C : C = Accessible
  OBVIOUS
<1> DEFINE g == [p \in DOMAIN AbstractObjects |-> AbstractObjects[p].prototype]
<1>7. DOMAIN g = C /\ \A p \in C : g[p] = f[p]
  BY <1>1, <1>5, <1>6 DEF ObjectsMade
<1> HIDE DEF g
<1>8. /\ Ends(f) /\ ClosedIn(f, C) /\ C \in SUBSET DOMAIN f /\ h \in SUBSET C
      /\ Accessible' = Reached(f, h)
  BY <1>1, <1>2, <1>3, <1>4, <1>5, <1>6 DEF ObjectsMade
<1>9. Ends(g)
  BY <1>7, <1>8 DEF Ends, ClosedIn
<1>10. Reached(f, h) = Reached(g, h) /\ Reached(f, h) \subseteq C
  BY <1>7, <1>8, <1>9, ReachedAgrees
<1>11. Abstract!Accessible(AbstractObjects, h) = Reached(g, h)
  BY DEF Abstract!Accessible, Abstract!Reached, Reached, g
<1>12. AbstractObjects' = [p \in Accessible' |-> AbstractObjects[p]]
  <2>1. \A p \in Accessible' : AbstractObjects'[p] = AbstractObjects[p]
    <3> TAKE p \in Accessible'
    <3>1. p \in Accessible
      BY <1>6, <1>8, <1>10
    <3> QED BY <1>1, <1>2, <1>3, <3>1 DEF ObjectsMade
  <2> QED BY <1>1, <2>1 DEF ObjectsMade
<1>13. AbstractObjects' = [p \in Abstract!Accessible(AbstractObjects, h) |-> AbstractObjects[p]]
  BY <1>8, <1>10, <1>11, <1>12
<1> QED BY <1>2, <1>4, <1>13 DEF Abstract!Drop

(* One object changes.                                                       *)
LEMMA OneChanges ==
  ASSUME ObjectsMade, ObjectsMade', NEW o \in held, held' = held, Accessible' = Accessible,
         \A p \in Accessible \ {o} : AbstractObjects'[p] = AbstractObjects[p],
         \/ AbstractObjects'[o] \in Abstract!Assigned(AbstractObjects[o])
         \/ /\ ~ lookups[o].sealed
            /\ AbstractObjects'[o] \in Abstract!Added(AbstractObjects[o])
                                         \cup Abstract!Deleted(AbstractObjects[o])
  PROVE  Abstract!Next
<1>1. o \in Accessible /\ AbstractObjects[o].sealed = lookups[o].sealed
  BY DEF ObjectsMade
<1>2. AbstractObjects' = [AbstractObjects EXCEPT ![o] = AbstractObjects'[o]]
  BY <1>1 DEF ObjectsMade
<1>3. Abstract!Change(o)
  BY <1>1, <1>2 DEF Abstract!Change
<1> QED BY <1>3 DEF Abstract!Next

(* Writing a slot of an object is a change of that object and no other.      *)
LEMMA WriteAssigns ==
  ASSUME LookupInv, LookupInv', NEW o \in held, held' = held,
         NEW i \in 0 .. vm.layouts[lookups[o].layout].sindex, NEW v \in Value, write(o, i, v)
  PROVE  Abstract!Next
<1>1. ObjectsMade /\ ObjectsMade' /\ Sound
  BY InvIsSound, InvIsSoundNext, ObjectsAre, ObjectsAreNext
<1>2. PICK l : l = lookups[o].layout
  OBVIOUS
<1>3. PICK slots : slots = vslots[lookups[o].oslots]
  OBVIOUS
<1>4. PICK new : new = vslots'[lookups[o].oslots]
  OBVIOUS
<1>5. /\ o \in DOMAIN lookups /\ l \in DOMAIN vm.layouts /\ GoodVm(vm)
      /\ lookups[o].oslots \in DOMAIN vslots /\ o \in Accessible
      /\ vm.layouts[l].sindex \in Int
  BY <1>1, <1>2, HeldIs, LayoutIs DEF ObjectsMade
<1>6. \A p \in DOMAIN lookups : \A j \in 0 .. vm.layouts[lookups[p].layout].sindex :
        j \in DOMAIN vslots[lookups[p].oslots]
  <2> TAKE p \in DOMAIN lookups
  <2>1. PICK s : s = vm.layouts[lookups[p].layout].sindex
    OBVIOUS
  <2>2. PICK n : n = Cardinality(DOMAIN vslots[lookups[p].oslots])
    OBVIOUS
  <2>3. s \in DOMAIN vslots[lookups[p].oslots] \cup {NoIndex} /\ IsSlots(vslots[lookups[p].oslots])
    BY <2>1 DEF LookupInv, SlotsFit, LookupType
  <2>4. n \in Nat /\ DOMAIN vslots[lookups[p].oslots] = 0 .. n - 1
    BY <2>2, <2>3 DEF IsSlots
  <2>5. \A j \in 0 .. s : j \in 0 .. n - 1
    BY <2>3, <2>4 DEF NoIndex
  <2> QED BY <2>1, <2>4, <2>5
<1>7. i \in DOMAIN slots
  BY <1>2, <1>3, <1>5, <1>6
<1>8. /\ lookups' = lookups /\ vm' = vm
      /\ \A s \in DOMAIN vslots : \A j \in DOMAIN vslots[s] :
           vslots'[s][j] = IF s = lookups[o].oslots /\ j = i THEN v ELSE vslots[s][j]
  BY <1>3, <1>7, WriteIs, SMTT(30)
<1>9. Prototypes' = Prototypes
  BY <1>8 DEF Prototypes, lookup_prototype
<1>10. Accessible' = Accessible
  BY <1>1, <1>8, <1>9, AccessibleIsKept DEF ObjectsMade
<1>11. ASSUME NEW p \in Accessible \ {o} PROVE AbstractObjects'[p] = AbstractObjects[p]
  <2>1. /\ p \in DOMAIN lookups /\ lookups[p].oslots # lookups[o].oslots
        /\ lookups[p].oslots \in DOMAIN vslots
    BY <1>1, <1>5 DEF ObjectsMade, LookupInv, SlotsFit, LookupType
  <2>2. \A j \in 0 .. vm.layouts[lookups[p].layout].sindex :
          vslots'[lookups'[p].oslots][j] = vslots[lookups[p].oslots][j]
    BY <1>6, <1>8, <2>1
  <2>3. SamePaths(vm, vm', {lookups[p].layout})
    BY <1>1, <1>8 DEF SamePaths, ObjectsMade
  <2> QED BY <1>1, <1>8, <1>10, <2>2, <2>3, ObjectIsKept
<1>12. \A j \in 0 .. vm.layouts[l].sindex : new[j] = IF j = i THEN v ELSE slots[j]
  BY <1>2, <1>3, <1>4, <1>5, <1>6, <1>8
<1>13. /\ i + 1 \in DOMAIN SlotsOf(vm, l, slots)
       /\ SlotsOf(vm, l, new) = Abstract!Assign(SlotsOf(vm, l, slots), i + 1, v)
  <2>1. PICK w : w = vm
    OBVIOUS
  <2>5. PICK m : m = w.layouts[l].sindex
    OBVIOUS
  <2>2. m \in Int /\ i \in 0 .. m
    BY <1>2, <1>5, <2>1, <2>5
  <2>3. DifferAt(slots, new, m, i, v)
    BY <1>12, <2>1, <2>5 DEF DifferAt
  <2>4. /\ i + 1 \in DOMAIN SlotsOf(w, l, slots)
        /\ SlotsOf(w, l, new) = Abstract!Assign(SlotsOf(w, l, slots), i + 1, v)
    BY <2>2, <2>3, <2>5, SlotsAssigned
  <2> QED BY <2>1, <2>4
<1>14. PICK was : was = AbstractObjects[o]
  OBVIOUS
<1>15. was = [prototype |-> Prototypes[o], sealed |-> lookups[o].sealed,
         slots |-> SlotsOf(vm, l, slots)]
  BY <1>1, <1>2, <1>3, <1>5, <1>14 DEF ObjectsMade
<1>16. AbstractObjects'[o] = [prototype |-> Prototypes[o], sealed |-> lookups[o].sealed,
                              slots |-> SlotsOf(vm, l, new)]
  BY <1>1, <1>2, <1>4, <1>5, <1>8, <1>9, <1>10 DEF ObjectsMade
<1>17. /\ i + 1 \in DOMAIN was.slots
       /\ AbstractObjects'[o] = Abstract!WithSlots(was, Abstract!Assign(was.slots, i + 1, v))
  BY <1>13, <1>15, <1>16 DEF Abstract!WithSlots
<1>18. AbstractObjects'[o] \in Abstract!Assigned(AbstractObjects[o])
  BY <1>14, <1>17, AssignedIs
<1> QED BY <1>1, <1>10, <1>11, <1>18, OneChanges

(* An object gets another layout, and its own slots.                         *)
LEMMA PlaceChanges ==
  ASSUME LookupInv, LookupInv', NEW o \in held, held' = held, ~ lookups[o].sealed,
         NEW to, Made(vm, {}, to), Place(o, to),
         to.vm.layouts[Path(to.vm, to.layout)[NoIndex]].parent
           = vm.layouts[Path(vm, lookups[o].layout)[NoIndex]].parent,
         NEW slots, slots = SlotsOf(to.vm, to.layout, to.slots),
         Abstract!WithSlots(AbstractObjects[o], slots)
           \in Abstract!Added(AbstractObjects[o]) \cup Abstract!Deleted(AbstractObjects[o])
  PROVE  Abstract!Next
<1>1. ObjectsMade /\ ObjectsMade' /\ Sound
  BY InvIsSound, InvIsSoundNext, ObjectsAre, ObjectsAreNext
<1>2. PICK new : new = IF DOMAIN to.slots = DOMAIN vslots[lookups[o].oslots] THEN lookups[o].oslots
                       ELSE Unused(vslots)
  OBVIOUS
<1>3. /\ vm' = to.vm /\ vslots' = With(vslots, new, to.slots)
      /\ lookups' = [lookups EXCEPT ![o].layout = to.layout, ![o].oslots = new]
  BY <1>2, Zenon DEF Place
<1>4. /\ o \in DOMAIN lookups /\ lookups[o].oslots \in DOMAIN vslots /\ o \in Accessible
      /\ IsFiniteSet(DOMAIN vslots) /\ GoodVm(vm) /\ GoodVm(to.vm) /\ Keeps(vm, to.vm)
      /\ lookups \in [DOMAIN lookups ->
                    [layout : DOMAIN vm.layouts, oslots : DOMAIN vslots, sealed : BOOLEAN]]
  BY <1>1 DEF ObjectsMade, LookupInv, LookupType, Made, Grows
<1>5. new \in DOMAIN vslots => new = lookups[o].oslots
  BY <1>2, <1>4, UnusedIs
<1>6. /\ DOMAIN lookups' = DOMAIN lookups
      /\ \A p \in DOMAIN lookups \ {o} : lookups'[p] = lookups[p]
      /\ lookups'[o].layout = to.layout /\ lookups'[o].oslots = new
      /\ lookups'[o].sealed = lookups[o].sealed
  <2>1. PICK was : was = lookups[o]
    OBVIOUS
  <2>2. was \in [layout : DOMAIN vm.layouts, oslots : DOMAIN vslots, sealed : BOOLEAN]
    BY <1>4, <2>1
  <2>3. lookups'[o] = [[was EXCEPT !.layout = to.layout] EXCEPT !.oslots = new]
    BY <1>3, <1>4, <2>1
  <2>4. lookups'[o].layout = to.layout /\ lookups'[o].oslots = new
          /\ lookups'[o].sealed = was.sealed
    BY <2>2, <2>3
  <2> QED BY <1>3, <1>4, <2>1, <2>4
<1>7. vslots'[new] = to.slots /\ \A s \in DOMAIN vslots \ {new} : vslots'[s] = vslots[s]
  BY <1>3 DEF With
<1>8. SamePaths(vm, vm', DOMAIN vm.layouts)
  BY <1>3, <1>4, SamePathsOf
<1>9. \A p \in DOMAIN lookups \ {o} :
        /\ vslots'[lookups'[p].oslots] = vslots[lookups[p].oslots]
        /\ SamePaths(vm, vm', {lookups[p].layout})
        /\ Prototypes'[p] = Prototypes[p]
  <2> TAKE p \in DOMAIN lookups \ {o}
  <2>1. PICK l : l = lookups[p].layout
    OBVIOUS
  <2>2. /\ l \in DOMAIN vm.layouts /\ lookups[p].oslots \in DOMAIN vslots
        /\ lookups[p].oslots # lookups[o].oslots
    BY <1>4, <2>1 DEF LookupInv, SlotsFit
  <2>3. vslots'[lookups'[p].oslots] = vslots[lookups[p].oslots]
    BY <1>5, <1>6, <1>7, <2>2
  <2>4. SamePaths(vm, vm', {l})
    BY <1>8, <2>2, SamePathsToo
  <2>5. vm'.layouts[Path(vm', l)[NoIndex]].parent = vm.layouts[Path(vm, l)[NoIndex]].parent
    BY <2>4, Zenon DEF SamePaths
  <2>6. Prototypes'[p] = Prototypes[p]
    BY <1>1, <1>6, <2>1, <2>5 DEF ObjectsMade
  <2> QED BY <2>1, <2>3, <2>4, <2>6
<1>10. Prototypes'[o] = Prototypes[o]
  <2>1. Prototypes[o] = vm.layouts[Path(vm, lookups[o].layout)[NoIndex]].parent
    BY <1>1, <1>4, Zenon DEF ObjectsMade
  <2>2. Prototypes'[o] = vm'.layouts[Path(vm', lookups'[o].layout)[NoIndex]].parent
    BY <1>1, <1>4, <1>6, Zenon DEF ObjectsMade
  <2> QED BY <1>3, <1>6, <2>1, <2>2, Zenon
<1>11. Accessible' = Accessible
  BY <1>1, <1>6, <1>9, <1>10, AccessibleIsKept, Zenon DEF ObjectsMade
<1>12. ASSUME NEW p \in Accessible \ {o} PROVE AbstractObjects'[p] = AbstractObjects[p]
  <2>1. p \in DOMAIN lookups \ {o} /\ p \in Accessible'
    BY <1>1, <1>11, Zenon DEF ObjectsMade
  <2>2. /\ lookups'[p].layout = lookups[p].layout /\ lookups'[p].sealed = lookups[p].sealed
        /\ SamePaths(vm, vm', {lookups[p].layout})
        /\ vslots'[lookups'[p].oslots] = vslots[lookups[p].oslots]
    BY <1>6, <1>9, <2>1
  <2> QED BY <1>1, <2>1, <2>2, ObjectIsKept
<1>13. AbstractObjects'[o] = [prototype |-> Prototypes[o], sealed |-> lookups[o].sealed,
         slots |-> slots]
  <2>1. /\ o \in Accessible'
        /\ vm' = to.vm /\ lookups'[o].layout = to.layout /\ vslots'[lookups'[o].oslots] = to.slots
    BY <1>3, <1>4, <1>6, <1>7, <1>11, Zenon
  <2>2. AbstractObjects'[o] = [prototype |-> Prototypes'[o], sealed |-> lookups'[o].sealed,
                               slots |-> SlotsOf(vm', lookups'[o].layout,
                                 vslots'[lookups'[o].oslots])]
    BY <1>1, <2>1 DEF ObjectsMade
  <2> QED BY <1>6, <1>10, <2>1, <2>2
<1>14. PICK was : was = AbstractObjects[o]
  OBVIOUS
<1>15. was = [prototype |-> Prototypes[o], sealed |-> lookups[o].sealed, slots |-> was.slots]
  BY <1>1, <1>4, <1>14 DEF ObjectsMade
<1>16. AbstractObjects'[o] = Abstract!WithSlots(AbstractObjects[o], slots)
  BY <1>13, <1>14, <1>15 DEF Abstract!WithSlots
<1> QED BY <1>1, <1>11, <1>12, <1>16, OneChanges

(* Setting a key: an assignment, or an addition.                             *)
LEMMA SetkeyChanges ==
  ASSUME LookupInv, LookupInv', NEW o \in held, NEW k \in Key, NEW v \in Value,
         lookup_setkey(o, k, v)
  PROVE  Abstract!Next
<1>1. PICK to : to = Added(o, k, v)
  OBVIOUS
<1>2. PICK l : l = lookups[o].layout
  OBVIOUS
<1>3. /\ held' = held
      /\ \/ /\ IndexesOf(vm, l, k) # {}
            /\ write(o, IndexOf(vm, l, k), v)
         \/ /\ IndexesOf(vm, l, k) = {} /\ ~ lookups[o].sealed /\ Place(o, to)
  BY <1>1, <1>2, SetkeyIs DEF Added
<1>4. CASE IndexesOf(vm, l, k) # {} /\ write(o, IndexOf(vm, l, k), v)
  <2>1. PICK i : i = IndexOf(vm, l, k)
    OBVIOUS
  <2>2. i \in 0 .. vm.layouts[lookups[o].layout].sindex /\ write(o, i, v)
    BY <1>2, <1>4, <2>1, HasIs
  <2> QED BY <1>3, <2>2, WriteAssigns
<1>5. CASE IndexesOf(vm, l, k) = {} /\ ~ lookups[o].sealed /\ Place(o, to)
  <2>1. ObjectsMade
    BY InvIsSound, ObjectsAre
  <2>2. o \in DOMAIN lookups /\ o \in Accessible /\ l \in DOMAIN vm.layouts /\ GoodVm(vm)
    BY <1>2, <2>1, HeldIs DEF ObjectsMade
  <2>3. IsAdded(o, k, v, to)
    BY <1>1, <2>2, AddedIs, Zenon
  <2>4. /\ Made(vm, {}, to)
        /\ to.vm.layouts[Path(to.vm, to.layout)[NoIndex]].parent
             = vm.layouts[Path(vm, l)[NoIndex]].parent
    <3>1. NoIndex \in NoIndex .. vm.layouts[l].sindex
      BY <2>2, PathGives
    <3> QED BY <1>2, <2>3, <3>1, Zenon DEF IsAdded
  <2>5. PICK was : was = AbstractObjects[o]
    OBVIOUS
  <2>6. was.slots = SlotsOf(vm, l, vslots[lookups[o].oslots])
    BY <1>2, <2>1, <2>2, <2>5 DEF ObjectsMade
  <2>7. PICK slots : slots = SlotsOf(to.vm, to.layout, to.slots)
    OBVIOUS
  <2>8. slots = Append(was.slots, [key |-> k, value |-> v])
    BY <1>2, <2>2, <2>3, <2>6, <2>7, SlotsAdded
  <2>9. \A i \in DOMAIN was.slots : was.slots[i].key # k
    <3> SUFFICES ASSUME NEW i \in DOMAIN was.slots, was.slots[i].key = k PROVE FALSE
      OBVIOUS
    <3>1. PICK s : s = vm.layouts[l].sindex
      OBVIOUS
    <3>2. s \in Int /\ i \in 1 .. s + 1 /\ was.slots[i].key = vm.layouts[Path(vm, l)[i - 1]].key
      BY <2>2, <2>6, <3>1, LayoutIs DEF SlotsOf
    <3>3. i - 1 \in 0 .. s
      BY <3>2
    <3>4. i - 1 \in IndexesOf(vm, l, k)
      BY <3>1, <3>2, <3>3 DEF IndexesOf
    <3> QED BY <1>5, <3>4
  <2>10. Abstract!WithSlots(was, slots) \in Abstract!Added(was)
    BY <2>8, <2>9, AddedMay, Zenon
  <2> QED BY <1>2, <1>3, <1>5, <2>4, <2>5, <2>7, <2>10, PlaceChanges, Zenon
<1> QED BY <1>3, <1>4, <1>5

(* Deleting a key.                                                           *)
LEMMA DelkeyChanges ==
  ASSUME LookupInv, LookupInv', NEW o \in held, NEW k \in Key, lookup_delkey(o, k)
  PROVE  Abstract!Next
<1>1. PICK index : index = IndexOf(vm, lookups[o].layout, k)
  OBVIOUS
<1>2. PICK at : at = At(o)
  OBVIOUS
<1>3. PICK to : to = DeleteKey(at, index)
  OBVIOUS
<1>4. /\ ~ lookups[o].sealed /\ IndexesOf(vm, lookups[o].layout, k) # {}
      /\ Place(o, to) /\ held' = held
  BY <1>1, <1>2, <1>3 DEF lookup_delkey
<1>5. ObjectsMade
  BY InvIsSound, ObjectsAre
<1>6. o \in DOMAIN lookups /\ o \in Accessible
  BY <1>5 DEF ObjectsMade
<1>7. /\ IsDeleted(at, index, to)
      /\ at.layout = lookups[o].layout /\ at.vm = vm
      /\ at.slots = vslots[lookups[o].oslots]
  BY <1>1, <1>2, <1>3, <1>4, <1>6, DeletedIs, Zenon
<1>8. /\ Made(vm, {}, to)
      /\ to.vm.layouts[Path(to.vm, to.layout)[NoIndex]].parent
           = vm.layouts[Path(vm, lookups[o].layout)[NoIndex]].parent
  BY <1>7 DEF IsDeleted
<1>9. PICK was : was = AbstractObjects[o]
  OBVIOUS
<1>10. was.slots = SlotsOf(at.vm, at.layout, at.slots)
  BY <1>5, <1>6, <1>7, <1>9 DEF ObjectsMade
<1>11. PICK slots : slots = SlotsOf(to.vm, to.layout, to.slots)
  OBVIOUS
<1>12. index + 1 \in DOMAIN was.slots /\ slots = Abstract!RemoveAt(was.slots, index + 1)
  BY <1>7, <1>10, <1>11, SlotsDeleted
<1>13. Abstract!WithSlots(was, slots) \in Abstract!Deleted(was)
  BY <1>12, DeletedMay
<1> QED BY <1>4, <1>8, <1>9, <1>11, <1>13, PlaceChanges

(* A new object seals its prototype, and is the only other change.           *)
LEMMA CreatedIsNew ==
  ASSUME LookupInv, LookupInv', NEW prototype, prototype = Null \/ prototype \in held,
         NEW n \in Nat, NEW names, DOMAIN names = 1 .. n,
         NEW at, NEW o, NEW new, Created(prototype, n, names, at, o, new)
  PROVE  o \in 1 .. MaxLookups /\ Abstract!New(o, prototype, names)
<1>1. /\ Put({prototype}, at, o, new)
      /\ o \notin DOMAIN lookups
      /\ held' = held \cup {o}
      /\ \A p \in DOMAIN lookups : lookups'[p] = [lookups[p] EXCEPT !.sealed = @ \/ p = prototype]
      /\ at.vm.layouts[at.layout].sindex = n - 1
      /\ at.vm.layouts[Path(at.vm, at.layout)[NoIndex]].parent = prototype
      /\ \A i \in 0 .. n - 1 : at.vm.layouts[Path(at.vm, at.layout)[i]].key = names[i + 1]
      /\ \A i \in DOMAIN at.slots : at.slots[i] = Null
  BY DEF Created
<1>2. /\ Made(vm, {prototype}, at) /\ vm' = at.vm /\ o \in 1 .. MaxLookups
      /\ new \notin DOMAIN vslots /\ vslots' = With(vslots, new, at.slots)
      /\ DOMAIN lookups' = DOMAIN lookups \cup {o}
      /\ lookups'[o] = [layout |-> at.layout, oslots |-> new, sealed |-> FALSE]
  BY <1>1 DEF Put
<1>3. ObjectsMade /\ ObjectsMade' /\ GoodVm(vm) /\ LookupType
  BY InvIsSound, InvIsSoundNext, ObjectsAre, ObjectsAreNext DEF LookupInv
<1>4. vslots'[new] = at.slots /\ \A s \in DOMAIN vslots : vslots'[s] = vslots[s]
  BY <1>2 DEF With
<1>5. \A p \in DOMAIN lookups :
        /\ lookups'[p].layout = lookups[p].layout /\ lookups'[p].oslots = lookups[p].oslots
        /\ lookups'[p].sealed = (lookups[p].sealed \/ p = prototype)
        /\ lookups[p].layout \in DOMAIN vm.layouts /\ lookups[p].oslots \in DOMAIN vslots
  <2> TAKE p \in DOMAIN lookups
  <2>1. PICK x : x = lookups[p]
    OBVIOUS
  <2>2. x \in [layout : DOMAIN vm.layouts, oslots : DOMAIN vslots, sealed : BOOLEAN]
    BY <1>3, <2>1 DEF LookupType
  <2>3. lookups'[p] = [x EXCEPT !.sealed = x.sealed \/ p = prototype]
    BY <1>1, <2>1
  <2> QED BY <2>1, <2>2, <2>3
<1>6. SamePaths(vm, vm', DOMAIN vm.layouts)
  <2>1. GoodVm(at.vm) /\ Keeps(vm, at.vm)
    BY <1>2 DEF Made, Grows
  <2> QED BY <1>2, <1>3, <2>1, SamePathsOf
<1>7. \A p \in DOMAIN lookups :
        /\ vslots'[lookups'[p].oslots] = vslots[lookups[p].oslots]
        /\ SamePaths(vm, vm', {lookups[p].layout})
        /\ Prototypes'[p] = Prototypes[p]
  <2> TAKE p \in DOMAIN lookups
  <2>1. PICK l : l = lookups[p].layout
    OBVIOUS
  <2>2. SamePaths(vm, vm', {l})
    BY <1>5, <1>6, <2>1, SamePathsToo
  <2>3. vm'.layouts[Path(vm', l)[NoIndex]].parent = vm.layouts[Path(vm, l)[NoIndex]].parent
    BY <2>2, Zenon DEF SamePaths
  <2>4. Prototypes'[p] = Prototypes[p]
    BY <1>2, <1>3, <1>5, <2>1, <2>3 DEF ObjectsMade
  <2> QED BY <1>4, <1>5, <2>1, <2>2, <2>4
<1>8. Prototypes'[o] = prototype
  BY <1>1, <1>2, <1>3 DEF ObjectsMade
(* It is added to what there is. *)
<1>9. Accessible' = Accessible \cup {o}
  <2>1. PICK f : f = Prototypes
    OBVIOUS
  <2>2. PICK g : g = Prototypes'
    OBVIOUS
  <2>3. PICK C : C = Accessible
    OBVIOUS
  <2>4. PICK h : h = held
    OBVIOUS
  <2>5. /\ Ends(f) /\ Ends(g) /\ C \in SUBSET DOMAIN f /\ DOMAIN g = DOMAIN f \cup {o}
        /\ ClosedIn(f, C) /\ (\A y \in C : f[y] = g[y]) /\ h \in SUBSET C
        /\ C = Reached(f, h) /\ Accessible' = Reached(g, h \cup {o})
        /\ g[o] \in C \cup {Null}
    <3>1. /\ Ends(f) /\ C \in SUBSET DOMAIN f /\ DOMAIN f = DOMAIN lookups
          /\ ClosedIn(f, C) /\ h \in SUBSET C /\ C = Reached(f, h)
      BY <1>3, <2>1, <2>3, <2>4 DEF ObjectsMade
    <3>2. Ends(g) /\ DOMAIN g = DOMAIN lookups' /\ Accessible' = Reached(g, held')
      BY <1>3, <2>2 DEF ObjectsMade
    <3>3. DOMAIN g = DOMAIN f \cup {o} /\ Accessible' = Reached(g, h \cup {o})
      BY <1>1, <1>2, <2>4, <3>1, <3>2
    <3>4. \A y \in C : f[y] = g[y]
      BY <1>7, <2>1, <2>2, <3>1
    <3>5. g[o] \in C \cup {Null}
      BY <1>8, <2>2, <2>4, <3>1
    <3> QED BY <3>1, <3>2, <3>3, <3>4, <3>5
  <2>6. Reached(g, h) = C
    <3>1. C \subseteq DOMAIN g
      BY <2>5
    <3> QED BY <2>5, <3>1, ReachedAgrees
  <2>7. /\ h \cup {o} \subseteq Reached(g, h \cup {o}) /\ Reached(g, h \cup {o}) \subseteq DOMAIN g
        /\ ClosedIn(g, Reached(g, h \cup {o}))
        /\ \A T \in SUBSET DOMAIN g : h \cup {o} \subseteq T /\ ClosedIn(g, T)
             => Reached(g, h \cup {o}) \subseteq T
    <3>1. h \cup {o} \in SUBSET DOMAIN g
      BY <2>5
    <3> QED BY <2>5, <3>1, ReachedIs
  <2>8. ClosedIn(g, C \cup {o})
    BY <2>5 DEF ClosedIn
  <2>9. Reached(g, h \cup {o}) \subseteq C \cup {o}
    BY <2>5, <2>7, <2>8
  <2>10. C \subseteq Reached(g, h \cup {o})
    <3>1. h \in SUBSET DOMAIN g
      BY <2>5
    <3>2. Reached(g, h) \subseteq Reached(g, h \cup {o})
      <4>1. \A T \in SUBSET DOMAIN g : h \subseteq T /\ ClosedIn(g, T) => Reached(g, h) \subseteq T
        BY <2>5, <3>1, ReachedIs
      <4> QED BY <2>7, <4>1
    <3> QED BY <2>6, <3>2
  <2> QED BY <2>3, <2>5, <2>7, <2>9, <2>10
<1> DEFINE empty == [i \in DOMAIN names |-> [key |-> names[i], value |-> Null]]
<1>10. SlotsOf(at.vm, at.layout, at.slots) = empty
  <2>3. \A i \in 0 .. n - 1 : i \in DOMAIN at.slots
    <3>1. IsSlots(at.slots) /\ n - 1 \in DOMAIN at.slots \cup {NoIndex}
      BY <1>1, <1>2 DEF Made
    <3>2. PICK c : c = Cardinality(DOMAIN at.slots)
      OBVIOUS
    <3>3. c \in Nat /\ DOMAIN at.slots = 0 .. c - 1
      BY <3>1, <3>2 DEF IsSlots
    <3> QED BY <3>1, <3>3 DEF NoIndex
  <2>4. \A i \in 1 .. n : /\ at.vm.layouts[Path(at.vm, at.layout)[i - 1]].key = names[i]
                          /\ at.slots[i - 1] = Null
    <3> TAKE i \in 1 .. n
    <3>1. i - 1 \in 0 .. n - 1 /\ (i - 1) + 1 = i
      OBVIOUS
    <3> QED BY <1>1, <2>3, <3>1
  <2>5. at.vm.layouts[at.layout].sindex + 1 = n
    BY <1>1
  <2> QED BY <2>4, <2>5 DEF SlotsOf
<1> HIDE DEF empty
<1>11. AbstractObjects'[o] = [prototype |-> prototype, sealed |-> FALSE, slots |-> empty]
  <2>1. o \in Accessible' /\ lookups'[o].layout = at.layout
          /\ vslots'[lookups'[o].oslots] = at.slots
    BY <1>2, <1>4, <1>9
  <2>2. AbstractObjects'[o] = [prototype |-> Prototypes'[o], sealed |-> lookups'[o].sealed,
                               slots |-> SlotsOf(vm', lookups'[o].layout,
                                 vslots'[lookups'[o].oslots])]
    BY <1>3, <2>1 DEF ObjectsMade
  <2>3. lookups'[o].sealed = FALSE /\ vm' = at.vm
    BY <1>2
  <2> QED BY <1>8, <1>10, <2>1, <2>2, <2>3
<1>12. ASSUME NEW p \in Accessible
       PROVE  AbstractObjects'[p] = [AbstractObjects[p] EXCEPT !.sealed = @ \/ p = prototype]
  <2>1. p \in DOMAIN lookups /\ p \in Accessible'
    BY <1>3, <1>9 DEF ObjectsMade
  <2>2. /\ lookups'[p].layout = lookups[p].layout /\ SamePaths(vm, vm', {lookups[p].layout})
        /\ vslots'[lookups'[p].oslots] = vslots[lookups[p].oslots]
    BY <1>5, <1>7, <2>1
  <2>3. PICK x : x = AbstractObjects[p]
    OBVIOUS
  <2>4. AbstractObjects'[p] = [prototype |-> x.prototype, sealed |-> lookups'[p].sealed,
          slots |-> x.slots]
    BY <1>3, <2>1, <2>2, <2>3, InvIsSound, ObjectIsKept
  <2>5. x = [prototype |-> x.prototype, sealed |-> lookups[p].sealed, slots |-> x.slots]
    BY <1>3, <2>3 DEF ObjectsMade
  <2>6. lookups'[p].sealed = (lookups[p].sealed \/ p = prototype)
    BY <1>5, <2>1
  <2> QED BY <2>3, <2>4, <2>5, <2>6
<1>13. Abstract!New(o, prototype, names)
  <2>1. DOMAIN AbstractObjects = Accessible /\ o \notin Accessible
        /\ AbstractObjects' = [p \in Accessible' |-> AbstractObjects'[p]]
    BY <1>1, <1>3 DEF ObjectsMade
  <2>2. AbstractObjects' = [p \in Accessible \cup {o} |->
                              IF p = o THEN [prototype |-> prototype, sealed |-> FALSE,
                                slots |-> empty]
                              ELSE [AbstractObjects[p] EXCEPT !.sealed = @ \/ p = prototype]]
    BY <1>9, <1>11, <1>12, <2>1
  <2> QED BY <1>1, <2>1, <2>2 DEF Abstract!New, empty
<1> QED BY <1>2, <1>13

(* The keys that are named.                                                  *)
LEMMA NamesAre ==
  ASSUME NEW names \in KeySlots
  PROVE  Len(names) \in Nat /\ DOMAIN names = 1 .. Len(names)
<1>1. names \in Seq(Key)
  BY LookupAssumption
<1> QED BY <1>1, LenProperties

(* Making an object.                                                         *)
LEMMA CreateIsNew ==
  ASSUME LookupInv, LookupInv',
         NEW prototype \in held \cup {Null}, NEW names \in KeySlots, create_lookup(prototype, names)
  PROVE  Abstract!Next
<1>1. PICK n : n = Len(names)
  OBVIOUS
<1>2. \E at, o, new : Created(prototype, n, names, at, o, new)
  BY <1>1, CreateIs
<1>3. n \in Nat /\ DOMAIN names = 1 .. n
  BY <1>1, NamesAre
<1>4. \E o \in 1 .. MaxLookups : Abstract!New(o, prototype, names)
  <2>1. PICK at, o, new : Created(prototype, n, names, at, o, new)
    BY <1>2
  <2>2. prototype = Null \/ prototype \in held
    OBVIOUS
  <2> QED BY <1>3, <2>1, <2>2, CreatedIsNew
<1> QED BY <1>4 DEF Abstract!Next

(* Writing a slot.                                                           *)
LEMMA SetkeyslotChanges ==
  ASSUME LookupInv, LookupInv', NEW o \in held, NEW i \in DOMAIN vslots[lookups[o].oslots],
         NEW v \in Value,
         lookup_setkeyslot(o, i, v)
  PROVE  Abstract!Next
<1>1. PICK s : s = vm.layouts[lookups[o].layout].sindex
  OBVIOUS
<1>2. i < s + 1 /\ write(o, i, v) /\ held' = held
  BY <1>1 DEF lookup_setkeyslot
<1>3. lookups[o].layout \in DOMAIN vm.layouts /\ GoodVm(vm) /\ IsSlots(vslots[lookups[o].oslots])
  BY HeldIs DEF LookupInv, LookupType
<1>4. PICK n : n = Cardinality(DOMAIN vslots[lookups[o].oslots])
  OBVIOUS
<1>5. n \in Nat /\ DOMAIN vslots[lookups[o].oslots] = 0 .. n - 1
  BY <1>3, <1>4 DEF IsSlots
<1>6. s \in Int /\ i \in 0 .. n - 1
  BY <1>1, <1>3, <1>5, LayoutIs
<1>7. i \in 0 .. s
  BY <1>2, <1>5, <1>6
<1> QED BY <1>1, <1>2, <1>7, WriteAssigns

(* There is nothing at first.                                                *)
LEMMA InitIsInit == Init => Abstract!Init
<1> SUFFICES ASSUME Init PROVE Abstract!Init
  OBVIOUS
<1>1. DOMAIN lookups = {} /\ held = {}
  <2>1. lookups = <<>> /\ held = {}
    BY DEF Init
  <2> QED BY <2>1
<1>2. Sound
  BY LookupInit, InvIsSound
<1>3. ObjectsMade
  BY <1>2, ObjectsAre
<1>4. DOMAIN AbstractObjects = {} /\ AbstractObjects = [o \in {} |-> AbstractObjects[o]]
  BY <1>1, <1>3 DEF ObjectsMade
<1>5. AbstractObjects = <<>>
  BY <1>4
<1> QED BY <1>1, <1>5 DEF Abstract!Init

(* A step is a step to a script, or nothing.                                 *)
LEMMA StepIsStep ==
  ASSUME LookupInv, LookupInv', LayoutsStay', [Next]_vars
  PROVE  [Abstract!Next]_(Abstract!vars)
<1>1. CASE UNCHANGED vars
  <2>1. lookups' = lookups /\ vslots' = vslots /\ vm' = vm /\ held' = held
    BY <1>1 DEF vars
  <2> QED BY <2>1, NothingChanges
<1>2. ASSUME NEW prototype \in held \cup {Null}, NEW names \in KeySlots,
             create_lookup(prototype, names)
      PROVE  Abstract!Next
  BY <1>2, CreateIsNew
<1>3. ASSUME NEW o \in held, drop(o) PROVE Abstract!Next
  <2>1. Abstract!Drop(o)
    BY <1>3, DropDrops
  <2> QED BY <2>1 DEF Abstract!Next
<1>4. ASSUME NEW o \in held, NEW k \in Key, lookup_getkey(o, k) PROVE UNCHANGED Abstract!vars
  <2>1. lookups' = lookups /\ vslots' = vslots /\ vm' = vm /\ held' = held
    BY <1>4 DEF lookup_getkey
  <2> QED BY <2>1, NothingChanges
<1>5. ASSUME NEW o \in held, NEW k \in Key, lookup_delkey(o, k) PROVE Abstract!Next
  BY <1>5, DelkeyChanges
<1>6. ASSUME NEW o \in held, NEW k \in Key, NEW v \in Value, lookup_setkey(o, k, v)
             PROVE Abstract!Next
  BY <1>6, SetkeyChanges
<1>7. ASSUME NEW o \in held, NEW i \in DOMAIN vslots[lookups[o].oslots], NEW v \in Value,
             lookup_setkeyslot(o, i, v)
      PROVE  Abstract!Next
  BY <1>7, SetkeyslotChanges
<1>8. CASE safepoint_start_mark
  <2>1. lookups' = lookups /\ vslots' = vslots /\ vm' = vm /\ held' = held
    BY <1>8 DEF safepoint_start_mark
  <2> QED BY <2>1, NothingChanges
<1>9. CASE safepoint_start_sweep
  BY <1>9, SweepChangesNothing
<1>10. ASSUME NEW o \in grey, gc_mark(o) PROVE UNCHANGED Abstract!vars
  <2>1. lookups' = lookups /\ vslots' = vslots /\ vm' = vm /\ held' = held
    BY <1>10 DEF gc_mark
  <2> QED BY <2>1, NothingChanges
<1> QED BY <1>1, <1>2, <1>3, <1>4, <1>5, <1>6, <1>7, <1>8, <1>9, <1>10 DEF Next

(* Lookup objects implement objects with keys and a prototype: making, setting, declaring *)
(* and deleting do to the object what they say and to the others nothing, and marking,    *)
(* sweeping and reading do nothing, up to a sweep that frees a layout in use.             *)
(* (lookup_object.cpp)                                                                    *)
THEOREM LookupImplementsPrototypes == Spec => ImplementsPrototypes
<1>1. (LayoutsStay => LookupInv) /\ (LayoutsStay => LookupInv)' /\ [Next]_vars
        => [LayoutsStay' => Abstract!Next]_(Abstract!vars)
  BY StepIsStep, StayedSo
<1> QED BY <1>1, InitIsInit, LookupInvariant, PTL DEF Spec, ImplementsPrototypes

================================================================================
