----------------------------- MODULE OwnMemory ------------------------------
(***************************************************************************)
(* What a process may rely on about its memory, with nothing said of how   *)
(* pages are shared, counted or copied: a page holds what the process last *)
(* put there; nothing another process does to memory of its own changes    *)
(* it; a fork's child starts with what its parent had.  Only a page of an  *)
(* object mapped MAP_SHARED is everyone's who maps it.                     *)
(***************************************************************************)
CONSTANTS Spaces, Pages, Vals, Objects, Untouched, Screen

VARIABLES
  live,  \* the spaces there are
  mem,   \* what each has at each page: a value, an object, or one of
         \* Untouched and Screen
  obj,   \* what each object holds
  did    \* what a process just did to its own memory, and to which pages

mvars == <<live, mem, obj, did>>

Mapped(o) == \E s \in Spaces, p \in Pages : mem[s][p] = o
Empty == [p \in Pages |-> Untouched]

\* Objects, but for those in O, hold what they held for as long as they are mapped.
KeptBut(O) ==
  \A o \in Objects \ O : (Mapped(o) /\ Mapped(o)') => obj'[o] = obj[o]

Init ==
  /\ live \in SUBSET Spaces
  /\ mem = [s \in Spaces |-> Empty]
  /\ obj \in [Objects -> Vals] /\ did.op = "none"

\* A step that is s's alone: each page of its memory is as it was, or as Now
\* allows; nobody else's is touched.
StepOf(s, Now(_)) ==
  /\ s \in live /\ UNCHANGED live /\ KeptBut({})
  /\ \A t \in Spaces \ {s} : mem'[t] = mem[t]
  /\ \A p \in Pages : mem'[s][p] = mem[s][p] \/ Now(p)

\* Pages never touched are given their first contents.
Touch(s) == StepOf(s, LAMBDA p : mem[s][p] = Untouched /\ mem'[s][p] \in Vals)

\* A process writes in a page of its own, or lays new memory over one.
Write(s) ==
  /\ did'.op = "write" /\ did'.s = s
  /\ StepOf(s, LAMBDA p : p \in did'.P /\ mem'[s][p] \in Vals)

\* A process lets go of pages, or maps the screen over some.
Forget(s) == StepOf(s, LAMBDA p : mem'[s][p] \in {Untouched, Screen})

\* A process maps an object.
Share(s) == StepOf(s, LAMBDA p : mem'[s][p] \in Objects)

\* An object is written, by a process that maps it or through its file.
WriteShared(o) ==
  /\ obj'[o] \in Vals /\ KeptBut({o})
  /\ UNCHANGED <<live, mem>>

Fork(s, t) ==
  /\ s \in live /\ t \notin live
  /\ live' = live \union {t}
  /\ mem' = [mem EXCEPT ![t] = mem[s]]
  /\ KeptBut({})

Exit(s) ==
  /\ s \in live
  /\ live' = live \ {s}
  /\ mem' = [mem EXCEPT ![s] = Empty]
  /\ KeptBut({})

Next ==
  \/ \E s \in Spaces : Touch(s) \/ Write(s) \/ Forget(s) \/ Share(s) \/ Exit(s)
  \/ \E s, t \in Spaces : Fork(s, t)
  \/ \E o \in Objects : WriteShared(o)

Spec == Init /\ [][Next]_mvars
=============================================================================
