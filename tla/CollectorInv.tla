------------------------------ MODULE CollectorInv -----------------------------
(*****************************************************************************)
(* The inductive invariant of the collector, by parts.  Marking is a         *)
(* snapshot at the beginning; what it keeps up is stated without the         *)
(* snapshot: a white object the program can get at is one the GC has still   *)
(* to reach from something grey, through references that are there now.      *)
(*****************************************************************************)
EXTENDS Collector

(* Where the two threads can be in each state of the collector. *)
ControlInv ==
  /\ state \in {"WAIT", "QUIT"} <=> phase = "NONE"
  /\ state \in {"MARK", "MARK_DONE"} <=> phase = "MARK"
  /\ state \in {"SWEEP", "SWEEP_DONE"} <=> phase = "SWEEP"
  /\ old_color = IF phase = "MARK" THEN white_color ELSE "NONE"
  /\ gpc \in {"mark", "scan", "test", "shade"} => state = "MARK"
  /\ gpc \in {"sweep_lock", "sweep"} => state = "SWEEP"
  /\ gpc = "exit" => state = "QUIT"
  /\ gpc \in {"scan", "test", "shade"} <=> cur # Null
  /\ gpc \notin {"test", "shade"} => ref = Null
  /\ gpc = "shade" => ref # Null
  /\ gpc = "test" => idx > 1
  /\ state = "QUIT" <=> mpc \in {"joining", "destroyed"}
  /\ mpc = "destroyed" => gpc = "exit"
  /\ mpc = "barrier" => phase = "MARK" /\ w.old # Null
  /\ mpc = "store" => phase = "MARK"
  /\ mpc \in {"stopping", "joining", "destroyed"} => stack = {}
  /\ heap_mutex = "gc" <=> gpc = "sweep"
  /\ heap_mutex = "mutator" <=> mpc = "new" /\ phase = "SWEEP"
  /\ gpc \notin {"sweep_lock", "sweep"} => p = Null /\ ~free_chunk

(* What is on the mark lists, and when. *)
Grey == mark_list \cup vm_mark_list \cup ({cur} \ {Null})

ListInv ==
  /\ mark_list # {} => state = "MARK"
  /\ vm_mark_list # {} => phase = "MARK"
  /\ Grey \subseteq live \ Strings
  /\ \A o \in Grey : color[o] \in {"MARKED", black_color}
  /\ \A o \in live : color[o] = "MARKED" => o \in Grey
  /\ mark_list \cap vm_mark_list \subseteq unseen
  /\ unseen \cap Strings = {}
  /\ phase = "MARK" => \A o \in unseen : o \in live /\ color[o] # white_color
  /\ mpc = "barrier" =>
       w.old \notin vm_mark_list
       /\ (color[w.old] = white_color \/ w.old \in unseen \cup Strings)
  /\ gpc = "shade" => ref \notin mark_list \cup unseen

(* Colours. *)
ColorInv ==
  /\ \A o \in live : color[o] # "NONE"
  /\ phase = "NONE" => \A o \in live : color[o] = black_color
  /\ free_chunk => p \in allocated /\ color[p] = white_color
  /\ phase = "SWEEP" =>
       \A o \in live : color[o] = white_color => state = "SWEEP" /\ o > p

(* No reference the program or the GC can load dangles. *)
RefInv ==
  /\ mpc = "new" => w.o \in allocated /\ (free_chunk => w.o # p)
  /\ mpc # "destroyed" => stack \cup roots \subseteq live
  /\ ref \in live \cup {Null}
  /\ \A o \in Strings, i \in Slot : slots[o][i] = Null
  /\ \A o \in live, i \in Slot :
       phase # "SWEEP" \/ color[o] # white_color =>
         slots[o][i] \in live \cup {Null}
  /\ mpc \in {"barrier", "store"} =>
       /\ w.o \in stack \ Strings /\ w.v \in stack \cup {Null}
       /\ slots[w.o][w.i] = w.old
       /\ mpc = "store" /\ w.old # Null => color[w.old] # white_color

(* The white references the GC is still going to follow lead to S, and the   *)
(* white references of S stay in S.                                          *)
White(o) == o # Null /\ color[o] = white_color
GreyClosed(S) ==
  /\ \A o \in mark_list \cup vm_mark_list \cup S, i \in Slot :
       White(slots[o][i]) => slots[o][i] \in S
  /\ cur # Null => \A i \in Slot :
       i >= idx /\ White(slots[cur][i]) => slots[cur][i] \in S
  /\ White(ref) => ref \in S
Protected(o) == \A S \in SUBSET Addr : GreyClosed(S) => o \in S

(* A white object that the program holds, or that an object already black or *)
(* grey refers to, is protected.                                             *)
Safe(o) == White(o) => phase = "MARK" /\ Protected(o)
TriColorInv ==
  /\ \A o \in stack \cup roots : Safe(o)
  /\ \A o \in live, i \in Slot : ~White(o) => Safe(slots[o][i])

IInv == TypeOK /\ ControlInv /\ ListInv /\ ColorInv /\ RefInv /\ TriColorInv
================================================================================
