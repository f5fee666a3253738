--------------------------------- MODULE Lookup --------------------------------
(*****************************************************************************)
(* Lookup objects (objects/lookup_object.cpp).  An object has slots, and a   *)
(* layout that says which key each slot is for.  Layouts are shared, and     *)
(* form a tree: a layout adds one key to its parent, and the root layout of  *)
(* the objects that have a prototype has that prototype for its parent.  An  *)
(* instruction that reads or writes a key keeps a selector, which says where *)
(* the value is in every object whose layout has the selector's cookie.      *)
(*                                                                           *)
(* Layouts are found through weak tables, which the collector purges between *)
(* its mark and its sweep.  Objects are named by their addresses, which are  *)
(* used again once the sweep has freed them.  A layout that the collector is *)
(* not going to mark may be found in the tables while it marks; if it is     *)
(* freed under an object the model stops there (LayoutsStay), as the code    *)
(* then reads freed memory.                                                  *)
(*****************************************************************************)
EXTENDS Integers, Sequences, FiniteSetsExt, Functions

CONSTANTS
  Key, Value,
  Null,          \* no object, no key, and the value of an empty slot
  Cached,        \* the keys of instructions, that keep a selector; native code
                 \* uses the others, each time with a new one
  InitialSlots,  \* slots of a new object: 4
  SlowGrowth,    \* slots at which an object no longer doubles: 16
  KeySlots,      \* the sequences of keys that native code makes objects with
  MaxLookups,    \* bound on the objects at one time
  MaxVslots,     \* bound on the vslots objects at one time
  MaxCookie      \* bound on the layouts ever made

ASSUME LookupAssumption ==
  /\ Null \notin Key \cup Value \cup Nat
  /\ {InitialSlots, SlowGrowth, MaxLookups, MaxVslots, MaxCookie} \subseteq Nat \ {0}
  /\ KeySlots \subseteq Seq(Key) /\ Cached \subseteq Key

VARIABLES
  lookups,  \* lookup objects: their layout, oslots, and whether they are sealed
  vslots,   \* vslots objects: the values, by index
  vm,       \* layouts, next_cookie, and the tables of layouts, by prototype
            \* and by parent and key
  sel,      \* for each key of an instruction, its selector
  held,     \* the objects that a script has in hand
  marking,  \* the collector marks
  grey,     \* the objects that it is going to mark and has not scanned yet
  white     \* what it does not reach from what there was when it began

vars == <<lookups, vslots, vm, sel, held, marking, grey, white>>

NoIndex == -1
NoSel == [cookie |-> 0, sindex |-> 0, slot |-> Null]
NoneWhite == [lookups |-> {}, vslots |-> {}, layouts |-> {}]

With(f, x, y) == [z \in DOMAIN f \cup {x} |-> IF z = x THEN y ELSE f[z]]
Without(f, S) == Restrict(f, DOMAIN f \ S)
Unused(f) == Min((1 .. Cardinality(DOMAIN f) + 1) \ DOMAIN f)

(* What S leads to by following f, which is Null where it ends.              *)
Reached(f, S) ==
  {x \in DOMAIN f : \A T \in SUBSET DOMAIN f :
     S \subseteq T /\ (\A y \in T : f[y] = Null \/ f[y] \in T) => x \in T}

(* A layout and those it extends, by index, the root with NoIndex.           *)
Path(v, l) ==
  LET path[i \in NoIndex .. v.layouts[l].sindex] ==
        IF i = v.layouts[l].sindex THEN l ELSE v.layouts[path[i + 1]].parent
  IN  path

(* Where a layout has a key.  The last one is found.                         *)
IndexesOf(v, l, k) == {i \in 0 .. v.layouts[l].sindex : v.layouts[Path(v, l)[i]].key = k}

IndexOf(v, l, k) == Max(IndexesOf(v, l, k))

lookup_prototype(o) == vm.layouts[Path(vm, lookups[o].layout)[NoIndex]].parent

Prototypes == [o \in DOMAIN lookups |-> lookup_prototype(o)]

vslots_new(count) == [i \in 0 .. count - 1 |-> Null]

(* Mutant: cookies are the numbers of the layouts there are.                 *)
CookieOfCount(v) == Cardinality(DOMAIN v.layouts) + 1

NextCookie(v) == v.next_cookie + 1

layout_new(v, parent, k) ==
  LET l    == Unused(v.layouts)
      made == [v EXCEPT
        !.next_cookie = @ + 1,
        !.layouts = With(@, l, [parent |-> parent, key |-> k, cookie |-> NextCookie(v),
                                sindex |-> IF k = Null THEN NoIndex
                                           ELSE v.layouts[parent].sindex + 1,
                                next   |-> Null])]
  IN  [layout |-> l,
       vm     |-> IF k = Null
                  THEN [made EXCEPT !.instance_layouts = With(@, parent, l)]
                  ELSE IF v.layouts[parent].next = Null
                  THEN [made EXCEPT !.layouts[parent].next = l]
                  ELSE [made EXCEPT !.splitkey_layouts = With(@, <<parent, k>>, l)]]

(* Mutant: the chain through next is not followed.                           *)
NextLayoutUnchained(v, l, k) ==
  IF <<l, k>> \in DOMAIN v.splitkey_layouts
  THEN [layout |-> v.splitkey_layouts[<<l, k>>], vm |-> v]
  ELSE layout_new(v, l, k)

next_layout(v, l, k) ==
  LET next == v.layouts[l].next
  IN  IF next # Null /\ v.layouts[next].key = k THEN [layout |-> next, vm |-> v]
      ELSE IF <<l, k>> \in DOMAIN v.splitkey_layouts
      THEN [layout |-> v.splitkey_layouts[<<l, k>>], vm |-> v]
      ELSE layout_new(v, l, k)

(* Mutant: what is in the slots is not copied when they grow.                *)
GrownEmpty(slots, layout) ==
  IF layout.sindex < Cardinality(DOMAIN slots) THEN slots
  ELSE vslots_new(2 * Cardinality(DOMAIN slots))

(* Slots, grown if a layout has no room in them.                             *)
Grown(slots, layout) ==
  LET count  == Cardinality(DOMAIN slots)
      expand == 2 * count - (IF count >= SlowGrowth THEN count \div 2 ELSE 0)
  IN  IF layout.sindex < count THEN slots
      ELSE [i \in 0 .. expand - 1 |-> IF i < count THEN slots[i] ELSE Null]

(* What an object, its layout and slots given, becomes with another key.     *)
update_layout(at, k) ==
  LET to == next_layout(at.vm, at.layout, k)
  IN  [layout |-> to.layout, vm |-> to.vm,
       slots |-> Grown(at.slots, to.vm.layouts[to.layout])]

(* What it becomes with other keys, each in turn.                            *)
AddKeys(at, names) ==
  LET named[n \in 0 .. Len(names)] ==
        IF n = 0 THEN at ELSE update_layout(named[n - 1], names[n])
  IN  named[Len(names)]

(* What it becomes without the key of an index.  The keys above it are added *)
(* again below where they were; the slot of the last one keeps its value.    *)
DeleteKey(at, index) ==
  LET path == Path(at.vm, at.layout)
      readd(x, i) ==
        LET to == next_layout(x.vm, x.layout, at.vm.layouts[path[i]].key)
        IN  [layout |-> to.layout, vm |-> to.vm,
             slots |-> [x.slots EXCEPT ![i - 1] = x.slots[i]]]
      kept[i \in index .. at.vm.layouts[at.layout].sindex] ==
        IF i = index THEN [at EXCEPT !.layout = path[index - 1]] ELSE readd(kept[i - 1], i)
  IN  kept[at.vm.layouts[at.layout].sindex]

At(o) == [layout |-> lookups[o].layout, vm |-> vm, slots |-> vslots[lookups[o].oslots]]

(* Marking a layout marks those it extends.                                  *)
Mark(layouts) == white' = [white EXCEPT !.layouts = @ \ layouts]

(* An object gets a layout, and a vslots object of its own if it has grown.  *)
(* The write barrier marks the layout it had.  The one it gets may be white. *)
Place(o, to) ==
  LET old == lookups[o].oslots
      new == IF DOMAIN to.slots = DOMAIN vslots[old] THEN old ELSE Unused(vslots)
  IN
  /\ to.vm.next_cookie <= MaxCookie
  /\ vm' = to.vm
  /\ Mark(Range(Path(vm, lookups[o].layout)))
  /\ vslots' = With(vslots, new, to.slots)
  /\ Cardinality(DOMAIN vslots') <= MaxVslots
  /\ lookups' = [lookups EXCEPT ![o].layout = to.layout, ![o].oslots = new]

--------------------------------------------------------------------------------

Init ==
  /\ lookups = <<>> /\ vslots = <<>>
  /\ vm = [layouts |-> <<>>, next_cookie |-> 0,
           instance_layouts |-> <<>>, splitkey_layouts |-> <<>>]
  /\ sel = [k \in Cached |-> NoSel]
  /\ held = {} /\ marking = FALSE /\ grey = {} /\ white = NoneWhite

(* A new object, with the keys that native code names for it.  What it grows *)
(* out of before it has them all is garbage that nothing else has seen; the  *)
(* barrier marks the layouts it has before the last.                         *)
create_lookup(prototype, names) ==
  LET root == IF prototype \in DOMAIN vm.instance_layouts
              THEN [layout |-> vm.instance_layouts[prototype], vm |-> vm]
              ELSE layout_new(vm, prototype, Null)
      to   == AddKeys([layout |-> root.layout, vm |-> root.vm,
                       slots |-> vslots_new(InitialSlots)], names)
      o    == Unused(lookups)
      s    == Unused(vslots)
  IN
  /\ Cardinality(DOMAIN lookups) < MaxLookups
  /\ Cardinality(DOMAIN vslots) < MaxVslots
  /\ to.vm.next_cookie <= MaxCookie
  /\ vm' = to.vm
  /\ Mark(Range(Path(to.vm, to.layout)) \ {to.layout})
  /\ vslots' = With(vslots, s, to.slots)
  /\ lookups' = With([p \in DOMAIN lookups |->
                        [lookups[p] EXCEPT !.sealed = @ \/ p = prototype]],
                     o, [layout |-> to.layout, oslots |-> s, sealed |-> FALSE])
  /\ held' = held \cup {o}
  /\ UNCHANGED <<sel, marking, grey>>

(* The first of an object and its prototypes that has a key: one, or none.   *)
Owners(o, k) ==
  LET has(p) == IndexesOf(vm, lookups[p].layout, k) # {}
  IN  {p \in Reached([q \in DOMAIN lookups |-> IF has(q) THEN Null ELSE Prototypes[q]], {o}) :
         has(p)}

(* Where a key of an object, or of its prototypes, is: NoSel if nowhere.     *)
lookup_getsel(o, k) ==
  LET cookie == vm.layouts[lookups[o].layout].cookie
      owner  == CHOOSE p \in Owners(o, k) : TRUE
      index  == IndexOf(vm, lookups[owner].layout, k)
  IN  IF Owners(o, k) = {} THEN NoSel
      ELSE IF owner = o THEN [cookie |-> cookie, sindex |-> index, slot |-> Null]
      ELSE [cookie |-> cookie, sindex |-> NoIndex,
            slot   |-> [vslots |-> lookups[owner].oslots, sindex |-> index]]

selector(k) == IF k \in Cached THEN sel[k] ELSE NoSel

Keep(k, s) == sel' = [x \in Cached |-> IF x = k THEN s ELSE sel[x]]

Good(o, k) == selector(k).cookie = vm.layouts[lookups[o].layout].cookie

(* The selector with which a key of an object is read, NoSel for an error.   *)
selected(o, k) == IF Good(o, k) THEN selector(k) ELSE lookup_getsel(o, k)

read(o, s) ==
  IF s = NoSel THEN Null
  ELSE IF s.sindex # NoIndex THEN vslots[lookups[o].oslots][s.sindex]
  ELSE vslots[s.slot.vslots][s.slot.sindex]

lookup_getkey(o, k) ==
  /\ selected(o, k) # NoSel
  /\ Keep(k, selected(o, k))
  /\ UNCHANGED <<lookups, vslots, vm, held, marking, grey, white>>

write(o, i, v) ==
  /\ vslots' = [vslots EXCEPT ![lookups[o].oslots][i] = v]
  /\ UNCHANGED <<lookups, vm, white>>

(* A key that the object has is written though the object is sealed.         *)
lookup_setkey(o, k, v) ==
  LET layout == lookups[o].layout
      cached == Good(o, k) /\ selector(k).sindex # NoIndex
      has    == IndexesOf(vm, layout, k) # {}
      to     == update_layout(At(o), k)
      at(v2, l) == [cookie |-> v2.layouts[l].cookie, sindex |-> v2.layouts[l].sindex,
                    slot |-> Null]
      used   == IF cached THEN selector(k)
                ELSE IF has THEN at(vm, Path(vm, layout)[IndexOf(vm, layout, k)])
                ELSE at(to.vm, to.layout)
  IN
  /\ cached \/ has \/ ~lookups[o].sealed
  /\ Keep(k, used)
  /\ IF cached \/ has THEN write(o, used.sindex, v)
     ELSE Place(o, [to EXCEPT !.slots[used.sindex] = v])
  /\ UNCHANGED <<held, marking, grey>>

lookup_setkeyslot(o, i, v) ==
  /\ i < vm.layouts[lookups[o].layout].sindex + 1
  /\ write(o, i, v)
  /\ UNCHANGED <<sel, held, marking, grey>>

lookup_delkey(o, k) ==
  LET layout == lookups[o].layout
  IN
  /\ ~lookups[o].sealed /\ IndexesOf(vm, layout, k) # {}
  /\ Place(o, DeleteKey(At(o), IndexOf(vm, layout, k)))
  /\ UNCHANGED <<sel, held, marking, grey>>

drop(o) ==
  /\ held' = held \ {o}
  /\ UNCHANGED <<lookups, vslots, vm, sel, marking, grey, white>>

--------------------------------------------------------------------------------

Accessible == Reached(Prototypes, held)

(* What is made from here on has the colour of what is marked.               *)
safepoint_start_mark ==
  /\ ~marking
  /\ marking' = TRUE /\ grey' = Accessible
  /\ white' =
       [lookups |-> DOMAIN lookups \ Accessible,
        vslots  |-> DOMAIN vslots \ {lookups[o].oslots : o \in Accessible},
        layouts |-> DOMAIN vm.layouts
                      \ UNION {Range(Path(vm, lookups[o].layout)) : o \in Accessible}]
  /\ UNCHANGED <<lookups, vslots, vm, sel, held>>

(* The collector scans an object: it marks the layout that the object has    *)
(* now, which need not be the one it had when marking began.                 *)
gc_mark(o) ==
  /\ grey' = grey \ {o}
  /\ Mark(Range(Path(vm, lookups[o].layout)))
  /\ UNCHANGED <<lookups, vslots, vm, sel, held, marking>>

(* When all is scanned, what is white goes from the tables, and from the     *)
(* next links of the layouts that they lead to; then it is freed.            *)
safepoint_start_sweep ==
  LET live(table) == {x \in DOMAIN table : table[x] \notin white.layouts}
      tables == {vm.instance_layouts[p] : p \in live(vm.instance_layouts)}
                  \cup {vm.splitkey_layouts[x] : x \in live(vm.splitkey_layouts)}
      walked == Reached([l \in DOMAIN vm.layouts |->
                           IF vm.layouts[l].next \in white.layouts THEN Null
                           ELSE vm.layouts[l].next], tables)
      pruned(l) == l \in walked /\ vm.layouts[l].next \in white.layouts
  IN
  /\ marking /\ grey = {}
  /\ vm' = [vm EXCEPT
       !.instance_layouts = Restrict(@, live(@)),
       !.splitkey_layouts = Restrict(@, live(@)),
       !.layouts = [l \in DOMAIN @ \ white.layouts |->
                      IF pruned(l) THEN [@[l] EXCEPT !.next = Null] ELSE @[l]]]
  /\ lookups' = Without(lookups, white.lookups)
  /\ vslots' = Without(vslots, white.vslots)
  /\ marking' = FALSE /\ white' = NoneWhite
  /\ UNCHANGED <<sel, held, grey>>

(* An object keeps the layout it has, and a layout the one it extends, for   *)
(* as long as they are there themselves: after the mark nothing in use is of *)
(* the dead colour.  (collector.h:31, next_layout, lookup_new)               *)
LayoutsStay ==
  /\ \A o \in DOMAIN lookups : lookups[o].layout \in DOMAIN vm.layouts
  /\ \A l \in DOMAIN vm.layouts :
       vm.layouts[l].key # Null => vm.layouts[l].parent \in DOMAIN vm.layouts

Next == LayoutsStay /\
  \/ \E prototype \in held \cup {Null}, names \in KeySlots : create_lookup(prototype, names)
  \/ \E o \in held :
       \/ drop(o)
       \/ \E k \in Key :
            \/ lookup_getkey(o, k)
            \/ lookup_delkey(o, k)
            \/ \E v \in Value : lookup_setkey(o, k, v)
       \/ \E i \in DOMAIN vslots[lookups[o].oslots], v \in Value : lookup_setkeyslot(o, i, v)
  \/ safepoint_start_mark
  \/ \E o \in grey : gc_mark(o)
  \/ safepoint_start_sweep

Spec == Init /\ [][Next]_vars

--------------------------------------------------------------------------------

AbstractObjects ==
  [o \in Accessible |->
     [prototype |-> Prototypes[o],
      sealed    |-> lookups[o].sealed,
      slots     |-> [i \in 1 .. vm.layouts[lookups[o].layout].sindex + 1 |->
                       [key   |-> vm.layouts[Path(vm, lookups[o].layout)[i - 1]].key,
                        value |-> vslots[lookups[o].oslots][i - 1]]]]]

Abstract == INSTANCE Prototypes WITH Object <- 1 .. MaxLookups, objects <- AbstractObjects

(* Objects with layouts, slots and a collector behave to a script as objects *)
(* with keys and a prototype: a key that is set, declared or deleted changes *)
(* that key of that object, and nothing else does anything, whatever layouts *)
(* are made, shared, split and swept meanwhile, up to a sweep that frees a   *)
(* layout in use.  (Whether one does is LayoutsStay.)                        *)
ImplementsPrototypes ==
  Abstract!Init /\ [][LayoutsStay' => Abstract!Next]_Abstract!vars

(* Whatever its selector last saw, a key that is read now gives what a walk  *)
(* of the object's keys and its prototypes' gives: a cookie is never that of *)
(* another layout, and a pointer into a prototype's slots never stale, as    *)
(* long as no layout in use was freed.  (lookup_getkey, lookup_getsel)       *)
SelectorsAgree ==
  LayoutsStay =>
    \A o \in held, k \in Key : read(o, selected(o, k)) = Abstract!Lookup(o, k)

(* Two objects that have the same prototype and the same keys in one order   *)
(* share one layout, however each came by them and whatever was swept since, *)
(* as long as no layout in use was: it is what makes a selector good for     *)
(* both.  (next_layout, the purge)                                           *)
SameKeysShareLayout ==
  LET KeysOf(o) == [i \in 0 .. vm.layouts[lookups[o].layout].sindex |->
                      vm.layouts[Path(vm, lookups[o].layout)[i]].key]
  IN
  LayoutsStay =>
    \A o, p \in held :
      /\ lookup_prototype(o) = lookup_prototype(p)
      /\ KeysOf(o) = KeysOf(p)
      => lookups[o].layout = lookups[p].layout

================================================================================
