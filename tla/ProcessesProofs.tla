--------------------------- MODULE ProcessesProofs ---------------------------
(***************************************************************************)
(* Proofs about the thread and process tables, for any number of threads,  *)
(* processes and pids: types, and then that no thread outlives its process *)
(* and every process keeps the thread that can end it.  Those two need an  *)
(* inductive invariant about leaders: the shell's own thread and a         *)
(* process's first thread are the only ones, each process has one, and a   *)
(* leader that unwinds is alone in its process.                            *)
(***************************************************************************)
EXTENDS Processes, Lemmas

----------------------------------------------------------------------------
(* The operators on the thread table keep its type.  A thread that is not  *)
(* the shell's runs in a process: TypeOK needs it to be inductive.         *)

Idle == {"free", "shell"}

Seated(t) == t \in Thread /\ (t.pc \notin Idle \/ t.exiting => t.proc # 0)

Table == {th \in [Slots -> Thread] : \A i \in Slots : Seated(th[i])}

TInv == TypeOK /\ thr \in Table

\* The constants as the proofs use them: there is a slot 0, and slots, pids and
\* signals are naturals.
LEMMA Constants ==
  /\ 0 \in Slots /\ Slots \subseteq Nat
  /\ Pids \subseteq Nat /\ 0 \notin Pids
  /\ Sigs \subseteq Nat
BY ConstantsAssumption DEF Slots, Pids, Sigs, SIGINT, SIGKILL, SIGCHLD

\* An empty slot is a slot.
LEMMA NoThreadType == Seated(NoThread)
BY DEF NoThread, Thread, Codes, Labels, Entries, Seated, Idle

\* reap
LEMMA ReapedType ==
  ASSUME NEW th \in Table, NEW c PROVE Reaped(th, c) \in Table
BY NoThreadType DEF Reaped, Table, Seated

\* next_one answers a slot.
LEMMA NextOneIn ==
  ASSUME NEW th, NEW c \in Slots PROVE NextOne(th, c) \in Slots
<1>1. LiveIn(th, {i \in Slots : i > c}) \subseteq Slots
  BY DEF LiveIn
<1>2. LiveIn(th, {i \in Slots : i < c}) \subseteq Slots
  BY DEF LiveIn
<1> QED BY <1>1, <1>2, MinIn, Constants DEF NextOne

\* switch_to
LEMMA SwitchType ==
  ASSUME NEW th \in Table, cur \in Slots, SwitchNext(th)
  PROVE  thr' \in Table /\ cur' \in Slots
BY NextOneIn, ReapedType DEF SwitchNext

\* A change to one thread.
LEMMA SetType ==
  ASSUME NEW th \in Table, NEW c \in Slots, NEW t, Seated(t)
  PROVE  [th EXCEPT ![c] = t] \in Table
BY DEF Table, Seated

\* Goto, by a thread in a process.
LEMMA GotoType ==
  ASSUME TInv, NEW l \in Labels, Me # 0, Goto(l)
  PROVE  thr' \in Table
<1>1. thr \in Table /\ cur \in Slots /\ Seated(thr[cur])
  BY DEF TInv, TypeOK, Table
<1>2. Seated([thr[cur] EXCEPT !.pc = l, !.arg = 0])
  BY <1>1 DEF Thread, Seated, Me
<1>3. thr' = [thr EXCEPT ![cur] = [thr[cur] EXCEPT !.pc = l, !.arg = 0]]
  BY <1>1 DEF Goto, Table
<1> QED BY <1>1, <1>2, <1>3, SetType

\* thread_yield, by a thread in a process.
LEMMA YieldType ==
  ASSUME TInv, NEW l \in Labels, Me # 0 \/ l \in Idle, YieldAt(l)
  PROVE  thr' \in Table /\ cur' \in Slots
<1>1. thr \in Table /\ cur \in Slots /\ Seated(thr[cur])
  BY DEF TInv, TypeOK, Table
<1>2. Seated([thr[cur] EXCEPT !.pc = l])
  BY <1>1 DEF Thread, Seated, Me
<1>3. [thr EXCEPT ![cur].pc = l] = [thr EXCEPT ![cur] = [thr[cur] EXCEPT !.pc = l]]
  BY <1>1 DEF Table
<1>4. [thr EXCEPT ![cur].pc = l] \in Table
  BY <1>1, <1>2, <1>3, SetType
<1> QED BY <1>1, <1>4, SwitchType DEF YieldAt

\* thread_end_others
LEMMA EndOthersType ==
  ASSUME NEW th \in Table, cur \in Slots
  PROVE  EndOthers(th) \in Table /\ EndOthers(th)[cur] = th[cur]
<1>1. Reaped(th, cur) \in Table
  BY ReapedType
<1>2. EndOthers(th)[cur] = th[cur]
  BY DEF EndOthers, Reaped
<1>3. ASSUME NEW i \in Slots PROVE Seated(EndOthers(th)[i])
  BY <1>1, NoThreadType DEF EndOthers, Table
<1>4. EndOthers(th) \in [Slots -> Thread]
  BY <1>3 DEF EndOthers, Seated
<1> QED BY <1>2, <1>3, <1>4 DEF Table

\* thread_new
LEMMA WithThreadType ==
  ASSUME TInv, NEW t, Seated(t), FreeSlots(thr) # {}
  PROVE  WithThread(t) \in Table /\ Min(FreeSlots(thr)) \in Slots \ {0}
<1>1. FreeSlots(thr) \subseteq Slots \ {0}
  BY DEF FreeSlots
<1>2. Min(FreeSlots(thr)) \in Slots \ {0}
  BY <1>1, MinIn, Constants
<1> QED BY <1>2, ReapedType, SetType DEF WithThread, TInv

\* A new thread starts with its creator's mask.
LEMMA NewThreadType ==
  ASSUME TInv, NEW p \in Pids, NEW l \in BOOLEAN, NEW e \in Entries
  PROVE  Seated(NewThread(p, l, e))
<1>1. thr[cur].blocked \subseteq Sigs
  BY DEF TInv, TypeOK, Thread
<1>2. "user" \in Labels
  BY DEF Labels
<1>3. NewThread(p, l, e) \in Thread
  BY <1>1, <1>2, NoThreadType DEF NewThread, Thread, Seated
<1> QED BY <1>3, Constants DEF NewThread, NoThread, Seated, Idle

----------------------------------------------------------------------------
(* So do the operators on the process table.                               *)

Procs == [Pids -> Process]

\* A free slot of procs[] is a slot.
LEMMA NoProcessType == NoProcess \in Process
BY DEF NoProcess, Process, Codes, Handlers

\* signal_to
LEMMA SignalToType ==
  ASSUME NEW pr \in Procs, NEW ps, NEW s \in Sigs
  PROVE  SignalTo(pr, ps, s) \in Procs
<1>1. ASSUME NEW p \in Pids PROVE [pr[p] EXCEPT !.pend = @ \union {s}] \in Process
  BY DEF Procs, Process
<1> QED BY <1>1 DEF SignalTo, Procs

\* proc_new's first pass.
LEMMA ForgottenType == ASSUME TypeOK PROVE Forgotten \in Procs
BY NoProcessType DEF Forgotten, Procs, TypeOK

\* A pid is left for a new process.
LEMMA RoomType == ASSUME TypeOK, NEW pr, RoomFor(pr) PROVE nextPid \in Pids /\ nextPid + 1 \in 1 .. MaxPid + 1
BY ConstantsAssumption DEF RoomFor, TypeOK, Pids

\* A change of what is pending.
LEMMA PendType ==
  ASSUME TypeOK, NEW p, NEW S \in SUBSET Sigs
  PROVE  [proc EXCEPT ![p].pend = S] \in Procs
<1>1. proc \in [Pids -> Process]
  BY DEF TypeOK
<1> QED BY ZenonT(60), <1>1 DEF Procs, Process

\* process_end
LEMMA EndedType ==
  ASSUME TypeOK, NEW p \in Pids, NEW code \in Codes
  PROVE  Ended(p, code) \in Procs
<1> DEFINE parent == proc[p].ppid
           heard  == parent # 0 /\ Live(parent)
           orphan == [q \in Pids |-> IF proc[q].ppid = p THEN [proc[q] EXCEPT !.ppid = 0]
                                                         ELSE proc[q]]
           ended  == [orphan EXCEPT ![p].st = "zombie", ![p].borrowed = FALSE, ![p].space = 0,
                                    ![p].status = code, ![p].ppid = IF heard THEN @ ELSE 0]
<1>1. proc \in [Pids -> Process]
  BY DEF TypeOK
<1>2. ASSUME NEW q \in Pids PROVE [proc[q] EXCEPT !.ppid = 0] \in Process
  BY <1>1 DEF Process
<1>3. orphan \in Procs
  BY <1>1, <1>2 DEF Procs
<1>4. ended \in Procs
  <2> DEFINE to == IF heard THEN orphan[p].ppid ELSE 0
  <2> HIDE DEF orphan, heard
  <2>1. orphan[p] \in Process
    BY <1>3 DEF Procs
  <2>2. to \in Pids \union {0}
    BY <2>1 DEF Process
  <2>3. ended = [orphan EXCEPT ![p] = [orphan[p] EXCEPT !.st = "zombie", !.borrowed = FALSE,
                                         !.space = 0, !.status = code, !.ppid = to]]
    BY <1>3 DEF Procs
  <2> HIDE DEF to
  <2>4. [orphan[p] EXCEPT !.st = "zombie", !.borrowed = FALSE,
                          !.space = 0, !.status = code, !.ppid = to] \in Process
    BY <2>1, <2>2 DEF Process
  <2> QED BY <1>3, <2>3, <2>4 DEF Procs
<1>5. SIGCHLD \in Sigs
  BY DEF Sigs
<1>6. SignalTo(ended, {parent}, SIGCHLD) \in Procs
  BY <1>4, <1>5, SignalToType
<1> QED
  <2> HIDE DEF ended, heard, parent
  <2>1. Ended(p, code) = IF heard THEN SignalTo(ended, {parent}, SIGCHLD) ELSE ended
    BY DEF Ended, ended, heard, parent
  <2> QED BY <2>1, <1>4, <1>6

----------------------------------------------------------------------------
(* The type invariant.                                                     *)

\* A thread making a call, or waiting in one, is in a process.
LEMMA MeType ==
  ASSUME TInv, NEW l, l \notin Idle, thr[cur].pc = l
  PROVE  Me \in Pids /\ proc[Me] \in Process /\ thr[cur] \in Thread /\ cur \in Slots
<1>1. cur \in Slots /\ thr \in Table /\ proc \in [Pids -> Process]
  BY DEF TInv, TypeOK
<1>2. Seated(thr[cur])
  BY <1>1 DEF Table
<1>3. Me \in Pids \union {0} /\ Me # 0
  BY <1>2 DEF Seated, Thread, Me
<1> QED BY <1>1, <1>2, <1>3 DEF Seated

\* What signal_fatal and deliverable look for are signals.
LEMMA SignalsType ==
  ASSUME TInv, NEW l, l \notin Idle, thr[cur].pc = l
  PROVE  /\ Unhandled \subseteq Sigs /\ Fatal \subseteq Sigs /\ Deliverable \subseteq Sigs
         /\ proc[Me].pend \subseteq Sigs
         /\ Fatal # {} => Min(Fatal) \in Sigs
<1>1. proc[Me].pend \subseteq Sigs
  BY MeType DEF Process
<1>2. Fatal \subseteq Sigs
  BY <1>1 DEF Unhandled, Fatal
<1>3. Fatal # {} => Min(Fatal) \in Sigs
  BY <1>2, MinIn, Constants
<1> QED BY <1>1, <1>2, <1>3 DEF Unhandled, Deliverable

\* A change to the current thread, by a step that leaves cur alone.
LEMMA CurType ==
  ASSUME TInv, NEW t, Seated(t), thr' = [thr EXCEPT ![cur] = t]
  PROVE  thr' \in Table
BY SetType DEF TInv, TypeOK

\* signal_fatal
LEMMA DieType ==
  ASSUME TInv, NEW l, l \notin Idle, thr[cur].pc = l, Die
  PROVE  TInv'
<1>1. /\ Me \in Pids /\ thr[cur] \in Thread /\ cur \in Slots
      /\ Min(Fatal) \in Codes
  BY MeType, SignalsType DEF Die, Codes
<1>2. proc' \in Procs
  <2>1. proc[Me].pend \ {s \in Unhandled : s <= Min(Fatal)} \in SUBSET Sigs
    BY SignalsType
  <2>2. proc' = [proc EXCEPT ![Me].pend = proc[Me].pend \ {s \in Unhandled : s <= Min(Fatal)}]
    BY <1>1 DEF Die
  <2> QED BY <2>1, <2>2, PendType DEF TInv
<1>3. thr' \in Table
  <2> DEFINE t == [thr[cur] EXCEPT !.pc = "exit", !.code = Min(Fatal), !.arg = 0]
  <2>1. thr' = [thr EXCEPT ![cur] = t]
    BY <1>1 DEF Die, TInv, Table
  <2>2. "exit" \in Labels
    BY DEF Labels
  <2>3. t \in Thread /\ t.proc # 0
    BY <1>1, <2>2, Constants DEF Thread, Me
  <2> QED BY <2>1, <2>3, CurType DEF Seated
<1>4. UNCHANGED <<cur, nextPid, spaces, fg, calls>>
  BY DEF Die
<1> QED BY <1>2, <1>3, <1>4 DEF TInv, TypeOK, Procs, Table

\* A thread of a process moves on: to a label, with a code or an argument.
LEMMA MoveType ==
  ASSUME NEW th \in Table, NEW c \in Slots, th[c].proc # 0,
         NEW l \in Labels, NEW k \in Codes, NEW a \in Pids \union {0}
  PROVE  /\ [th EXCEPT ![c].pc = l] \in Table
         /\ [th EXCEPT ![c].pc = l, ![c].code = k] \in Table
         /\ [th EXCEPT ![c].pc = l, ![c].arg = a] \in Table
<1>1. th[c] \in Thread /\ th \in [Slots -> Thread]
  BY DEF Table, Seated
<1>2. Seated([th[c] EXCEPT !.pc = l])
  BY <1>1 DEF Thread, Seated
<1>3. Seated([th[c] EXCEPT !.pc = l, !.code = k])
  BY <1>1 DEF Thread, Seated
<1>4. Seated([th[c] EXCEPT !.pc = l, !.arg = a])
  BY <1>1 DEF Thread, Seated
<1>5. [th EXCEPT ![c].pc = l] = [th EXCEPT ![c] = [th[c] EXCEPT !.pc = l]]
  BY <1>1
<1>6. [th EXCEPT ![c].pc = l, ![c].code = k] = [th EXCEPT ![c] = [th[c] EXCEPT !.pc = l, !.code = k]]
  BY <1>1
<1>7. [th EXCEPT ![c].pc = l, ![c].arg = a] = [th EXCEPT ![c] = [th[c] EXCEPT !.pc = l, !.arg = a]]
  BY <1>1
<1>8. [th EXCEPT ![c].pc = l] \in Table
  BY <1>2, <1>5, SetType
<1>9. [th EXCEPT ![c].pc = l, ![c].code = k] \in Table
  BY <1>3, <1>6, SetType
<1>10. [th EXCEPT ![c].pc = l, ![c].arg = a] \in Table
  BY <1>4, <1>7, SetType
<1> QED BY <1>8, <1>9, <1>10

\* The caller keeps its process when a thread is made, whatever slot that takes.
LEMMA SpawnType ==
  ASSUME TInv, Me # 0, NEW t, Seated(t), t.proc # 0, FreeSlots(thr) # {}
  PROVE  WithThread(t) \in Table /\ WithThread(t)[cur].proc # 0
<1>1. cur \in Slots /\ Reaped(thr, cur) \in Table
  BY ReapedType DEF TInv, TypeOK
<1>2. Reaped(thr, cur)[cur] = thr[cur]
  BY <1>1 DEF Reaped
<1>3. WithThread(t)[cur] \in {t, thr[cur]}
  BY <1>1, <1>2 DEF WithThread, Table
<1> QED BY <1>3, WithThreadType DEF Me

\* fork_on's child is a process.
LEMMA ChildType ==
  ASSUME TInv, Me \in Pids, nextPid \in Pids, NEW share \in BOOLEAN
  PROVE  Child(share) \in Process /\ [Child(share) EXCEPT !.space = 0] \in Process
<1> DEFINE sp == IF share THEN proc[Me].space ELSE nextPid
<1>1. proc[Me] \in Process
  BY DEF TInv, TypeOK
<1>2. sp \in Pids \union {0}
  BY <1>1 DEF Process
<1>3. Child(share) = [proc[Me] EXCEPT !.ppid = Me, !.borrowed = share, !.pend = {},
                                      !.status = 0, !.space = sp]
  BY DEF Child
<1> HIDE DEF sp
<1>4. Child(share) \in Process
  BY <1>1, <1>2, <1>3 DEF Process, Codes
<1>5. ASSUME NEW q \in Process PROVE [q EXCEPT !.space = 0] \in Process
  BY DEF Process
<1> QED BY <1>4, <1>5

\* fork and vfork
LEMMA ForkType == ASSUME TInv, NEW share \in BOOLEAN, Fork(share) PROVE TInv'
<1>1. Me \in Pids /\ cur \in Slots /\ Me # 0
  BY MeType, Constants DEF Fork, At, Idle
<1>2. nextPid \in Pids /\ nextPid + 1 \in 1 .. MaxPid + 1
  BY RoomType DEF Fork, TInv
<1>3. proc' \in Procs
  BY <1>1, <1>2, ChildType, ForgottenType DEF Fork, TInv, Procs
<1>4. spaces' \subseteq Pids
  BY <1>2 DEF Fork, TInv, TypeOK
<1>5. thr' \in Table
  <2> DEFINE t == NewThread(nextPid, TRUE, "process")
             l == IF share THEN "vfork" ELSE "ret"
             a == IF share THEN nextPid ELSE 0
  <2>1. Seated(t) /\ t.proc # 0
    <3>1. Seated(t)
      BY <1>2, NewThreadType DEF Entries
    <3> QED BY <1>2, <3>1, Constants DEF NewThread, NoThread
  <2>2. l \in Labels /\ a \in Pids \union {0}
    BY <1>2 DEF Labels
  <2>3. thr' = [WithThread(t) EXCEPT ![cur].pc = l, ![cur].arg = a]
    BY DEF Fork
  <2>4. WithThread(t) \in Table /\ WithThread(t)[cur].proc # 0
    BY <1>1, <2>1, SpawnType DEF Fork
  <2>5. 0 \in Codes
    BY DEF Codes
  <2> HIDE DEF t, l, a
  <2> QED BY <1>1, <2>2, <2>3, <2>4, <2>5, MoveType
<1>6. UNCHANGED <<cur, fg, calls>> /\ nextPid' = nextPid + 1
  BY DEF Fork
<1> QED BY <1>2, <1>3, <1>4, <1>5, <1>6 DEF TInv, TypeOK, Procs, Table

\* A fork that has no room.
LEMMA ForkFailsType == ASSUME TInv, ForkFails PROVE TInv'
<1>1. Me \in Pids /\ cur \in Slots /\ Me # 0
  BY MeType, Constants DEF ForkFails, At, Idle
<1>2. nextPid' \in 1 .. MaxPid + 1
  BY RoomType DEF ForkFails, TInv, TypeOK
<1>3. proc' \in Procs
  BY ForgottenType DEF ForkFails, TInv
<1>4. thr' \in Table
  <2>1. Reaped(thr, cur) \in Table /\ Reaped(thr, cur)[cur].proc # 0
    BY <1>1, ReapedType DEF TInv, Reaped, Me
  <2>2. "ret" \in Labels /\ 0 \in Codes
    BY DEF Labels, Codes
  <2> QED BY <1>1, <2>1, <2>2, MoveType DEF ForkFails
<1>5. UNCHANGED <<cur, spaces, fg, calls>>
  BY DEF ForkFails
<1> QED BY <1>2, <1>3, <1>4, <1>5 DEF TInv, TypeOK, Procs, Table

\* A fork that fails half way.
LEMMA ForkNoFilesType == ASSUME TInv, ForkNoFiles PROVE TInv'
<1>1. Me \in Pids /\ cur \in Slots /\ Me # 0
  BY MeType, Constants DEF ForkNoFiles, At, Idle
<1>2. nextPid \in Pids /\ nextPid' \in 1 .. MaxPid + 1
  BY RoomType DEF ForkNoFiles, TInv
<1>3. proc' \in Procs
  BY <1>1, <1>2, ChildType, ForgottenType DEF ForkNoFiles, TInv, Procs
<1>4. thr' \in Table
  BY <1>1, GotoType DEF ForkNoFiles, Labels
<1>5. UNCHANGED <<cur, spaces, fg, calls>>
  BY DEF ForkNoFiles
<1> QED BY <1>2, <1>3, <1>4, <1>5 DEF TInv, TypeOK, Procs, Table

\* Steps that only move the thread on, or let the others run.
LEMMA QuietType ==
  ASSUME TInv, NEW l, l \notin Idle, thr[cur].pc = l, NEW m \in Labels,
         YieldAt(m) \/ (Goto(m) /\ cur' = cur),
         UNCHANGED <<nextPid, spaces, fg>>, proc' \in Procs,
         calls' \in 0 .. CallsPerYield - 1
  PROVE  TInv'
<1>1. Me # 0 /\ cur \in Slots
  BY MeType, Constants
<1>2. thr' \in Table /\ cur' \in Slots
  BY <1>1, GotoType, YieldType
<1> QED BY <1>2 DEF TInv, TypeOK, Procs, Table

\* One turn of a wait.
LEMMA WaitTurnType ==
  ASSUME TInv, NEW l \in Labels, l \notin Idle, thr[cur].pc = l, WaitTurn(l)
  PROVE  TInv'
<1>1. CASE Die
  BY <1>1, DieType
<1>2. CASE ~Die
  <2>1. proc' = [proc EXCEPT ![Me].pend = proc[Me].pend \ Unhandled]
    BY <1>2, MeType DEF WaitTurn, TInv, TypeOK
  <2>2. proc' \in Procs
    <3>1. proc[Me].pend \ Unhandled \in SUBSET Sigs
      BY SignalsType
    <3> QED BY <2>1, <3>1, PendType DEF TInv
  <2>3. UNCHANGED <<nextPid, spaces, fg, calls>>
    BY <1>2 DEF WaitTurn
  <2>4. YieldAt(l) \/ (Goto("ret") /\ cur' = cur)
    BY <1>2 DEF WaitTurn
  <2>5. "ret" \in Labels /\ calls' \in 0 .. CallsPerYield - 1
    BY <2>3 DEF Labels, TInv, TypeOK
  <2> QED BY <2>2, <2>3, <2>4, <2>5, QuietType
<1> QED BY <1>1, <1>2

\* The waits.
LEMMA WaitsType == ASSUME TInv, Waits PROVE TInv'
<1>1. proc \in Procs /\ calls \in 0 .. CallsPerYield - 1
  BY DEF TInv, TypeOK, Procs
<1>2. CASE VforkTurn
  <2>1. thr[cur].pc = "vfork" /\ "vfork" \notin Idle /\ {"vfork", "ret"} \subseteq Labels
    BY <1>2 DEF VforkTurn, At, Idle, Labels
  <2>2. /\ UNCHANGED <<proc, nextPid, spaces, fg, calls>>
        /\ YieldAt("vfork") \/ (Goto("ret") /\ cur' = cur)
    BY <1>2 DEF VforkTurn
  <2> QED BY <1>1, <2>1, <2>2, QuietType
<1>3. CASE JoinTurn
  <2>1. thr[cur].pc = "join" /\ "join" \notin Idle /\ {"join", "unwind"} \subseteq Labels
    BY <1>3 DEF JoinTurn, At, Idle, Labels
  <2>2. /\ UNCHANGED <<proc, nextPid, spaces, fg, calls>>
        /\ YieldAt("join") \/ (Goto("unwind") /\ cur' = cur)
    BY <1>3 DEF JoinTurn
  <2> QED BY <1>1, <2>1, <2>2, QuietType
<1>4. CASE Wait4Turn
  <2>1. thr[cur].pc = "wait4" /\ "wait4" \notin Idle /\ {"wait4", "ret"} \subseteq Labels
    BY <1>4 DEF Wait4Turn, At, Idle, Labels
  <2>2. CASE WaitTurn("wait4")
    BY <2>1, <2>2, WaitTurnType
  <2>3. CASE ~WaitTurn("wait4")
    <3>1. Goto("ret") /\ UNCHANGED <<cur, nextPid, spaces, fg, calls>>
      BY <1>4, <2>3 DEF Wait4Turn
    <3>2. proc' \in Procs
      BY <1>1, <1>4, <2>3, NoProcessType DEF Wait4Turn, Procs
    <3> QED BY <1>1, <2>1, <3>1, <3>2, QuietType
  <2> QED BY <2>2, <2>3
<1>5. CASE SleepTurn
  <2>1. thr[cur].pc = "sleep" /\ "sleep" \notin Idle /\ {"sleep", "ret"} \subseteq Labels
    BY <1>5 DEF SleepTurn, At, Idle, Labels
  <2>2. CASE WaitTurn("sleep")
    BY <2>1, <2>2, WaitTurnType
  <2>3. CASE Goto("ret") /\ UNCHANGED <<cur, proc, nextPid, spaces, fg, calls>>
    BY <1>1, <2>1, <2>3, QuietType
  <2> QED BY <1>5, <2>2, <2>3 DEF SleepTurn
<1> QED BY <1>2, <1>3, <1>4, <1>5 DEF Waits

\* A call that moves on to a label by itself.
LEMMA SimpleType ==
  ASSUME TInv, At("user"), NEW m \in Labels, NEW k \in Codes, NEW a \in Pids \union {0},
         \/ Goto(m)
         \/ thr' = [thr EXCEPT ![cur].pc = m, ![cur].code = k]
         \/ thr' = [thr EXCEPT ![cur].pc = m, ![cur].arg = a],
         proc' \in Procs, UNCHANGED <<cur, nextPid, spaces, fg, calls>>
  PROVE  TInv'
<1>1. Me # 0 /\ cur \in Slots /\ thr[cur].proc # 0 /\ thr \in Table
  BY MeType, Constants DEF At, Idle, Me, TInv
<1>2. CASE Goto(m)
  <2>1. thr' \in Table
    BY <1>1, <1>2, GotoType
  <2> QED BY <2>1 DEF TInv, TypeOK, Procs, Table
<1>3. CASE thr' = [thr EXCEPT ![cur].pc = m, ![cur].code = k]
  <2>1. thr' \in Table
    BY <1>1, <1>3, MoveType
  <2> QED BY <2>1 DEF TInv, TypeOK, Procs, Table
<1>4. CASE thr' = [thr EXCEPT ![cur].pc = m, ![cur].arg = a]
  <2>1. thr' \in Table
    BY <1>1, <1>4, MoveType
  <2> QED BY <2>1 DEF TInv, TypeOK, Procs, Table
<1> QED BY <1>2, <1>3, <1>4

\* clone
LEMMA CloneType == ASSUME TInv, Clone PROVE TInv'
<1>1. Me \in Pids /\ Me # 0 /\ cur \in Slots
  BY MeType, Constants DEF Clone, At, Idle
<1> DEFINE t == NewThread(Me, FALSE, "thread")
           th == IF FreeSlots(thr) # {} THEN WithThread(t) ELSE Reaped(thr, cur)
<1>2. Seated(t)
  BY <1>1, NewThreadType DEF Entries
<1>3. t.proc # 0
  BY <1>1, <1>2 DEF NewThread, NoThread
<1>4. Reaped(thr, cur) \in Table /\ Reaped(thr, cur)[cur].proc # 0
  BY <1>1, ReapedType DEF TInv, Reaped, Me
<1>5. th \in Table /\ th[cur].proc # 0
  <2> HIDE DEF t
  <2> QED BY <1>1, <1>2, <1>3, <1>4, SpawnType
<1>6. thr' = [th EXCEPT ![cur].pc = "ret"]
  BY DEF Clone
<1>7. thr' \in Table
  <2> HIDE DEF th
  <2> QED BY <1>1, <1>5, <1>6, MoveType DEF Labels, Codes
<1>8. UNCHANGED <<cur, proc, nextPid, spaces, fg, calls>>
  BY DEF Clone
<1> QED BY <1>7, <1>8 DEF TInv, TypeOK, Table

\* execve, in its three endings.
LEMMA ExecType == ASSUME TInv, Exec \/ ExecNoSpace \/ ExecNoLoad PROVE TInv'
<1>1. Me \in Pids /\ Me # 0 /\ cur \in Slots /\ proc \in [Pids -> Process] /\ proc[Me] \in Process
  BY MeType, Constants DEF Exec, ExecNoSpace, ExecNoLoad, MayExec, At, Idle, TInv, TypeOK
<1>2. EndOthers(thr) \in Table /\ EndOthers(thr)[cur].proc # 0
  BY <1>1, EndOthersType DEF TInv, Me
<1>3. "ret" \in Labels /\ "exit" \in Labels /\ 0 \in Codes
  BY DEF Labels, Codes
<1>4. thr' \in Table
  <2>1. [EndOthers(thr) EXCEPT ![cur].pc = "ret"] \in Table
    BY <1>1, <1>2, <1>3, MoveType
  <2>2. [EndOthers(thr) EXCEPT ![cur].pc = "exit", ![cur].code = 0] \in Table
    BY <1>1, <1>2, <1>3, MoveType
  <2> QED BY <2>1, <2>2 DEF Exec, ExecNoSpace, ExecNoLoad
<1> DEFINE sp == IF proc[Me].borrowed THEN Me ELSE proc[Me].space
           ac == [s \in Sigs |-> IF proc[Me].act[s] = "ign" THEN "ign" ELSE "dfl"]
<1>5. sp \in Pids \union {0} /\ ac \in [Sigs -> Handlers]
  BY <1>1 DEF Process, Handlers
<1>6. proc' \in Procs
  <2>1. CASE Exec
    <3>1. proc' = [proc EXCEPT ![Me] = [proc[Me] EXCEPT !.borrowed = FALSE, !.space = sp, !.act = ac]]
      BY <1>1, <2>1 DEF Exec
    <3> HIDE DEF sp, ac
    <3>2. [proc[Me] EXCEPT !.borrowed = FALSE, !.space = sp, !.act = ac] \in Process
      BY <1>1, <1>5 DEF Process
    <3> QED BY <1>1, <3>1, <3>2 DEF Procs
  <2>2. CASE ExecNoSpace
    BY <1>1, <2>2 DEF ExecNoSpace, Procs
  <2>3. CASE ExecNoLoad
    <3>1. proc' = [proc EXCEPT ![Me] = [proc[Me] EXCEPT !.borrowed = FALSE, !.space = sp]]
      BY <1>1, <2>3 DEF ExecNoLoad
    <3> HIDE DEF sp
    <3>2. [proc[Me] EXCEPT !.borrowed = FALSE, !.space = sp] \in Process
      BY <1>1, <1>5 DEF Process
    <3> QED BY <1>1, <3>1, <3>2 DEF Procs
  <2> QED BY <2>1, <2>2, <2>3
<1>7. spaces' \subseteq Pids /\ UNCHANGED <<cur, nextPid, fg, calls>>
  BY <1>1 DEF Exec, ExecNoSpace, ExecNoLoad, TInv, TypeOK
<1> QED BY <1>4, <1>6, <1>7 DEF TInv, TypeOK, Procs, Table

\* The calls.
LEMMA CallsType == ASSUME TInv, Calls PROVE TInv'
<1>1. proc \in Procs /\ calls \in 0 .. CallsPerYield - 1
  BY DEF TInv, TypeOK, Procs
<1>2. ASSUME NEW share \in BOOLEAN, Fork(share) PROVE TInv'
  BY <1>2, ForkType
<1>3. CASE ForkFails \/ ForkNoFiles
  BY <1>3, ForkFailsType, ForkNoFilesType
<1>4. CASE Clone
  BY <1>4, CloneType
<1>5. CASE Exec \/ ExecNoSpace \/ ExecNoLoad
  BY <1>5, ExecType
<1>6. CASE ExecTsh
  BY <1>1, <1>6, SimpleType DEF ExecTsh, Labels, Codes
<1>7. CASE ThreadExit
  <2> DEFINE l == IF thr[cur].leader THEN "join" ELSE "unwind"
  <2>1. l \in Labels /\ 0 \in Codes
    BY DEF Labels, Codes
  <2>2. /\ thr' = [thr EXCEPT ![cur].pc = l, ![cur].code = 0] /\ At("user")
        /\ UNCHANGED <<cur, proc, nextPid, spaces, fg, calls>>
    BY <1>7 DEF ThreadExit
  <2> HIDE DEF l
  <2> QED BY <1>1, <2>1, <2>2, SimpleType
<1>8. CASE ExitGroup
  BY <1>1, <1>8, SimpleType DEF ExitGroup, Labels, Codes
<1>9. ASSUME NEW want \in Pids \union {0}, NEW nohang \in BOOLEAN, Wait4(want, nohang) PROVE TInv'
  <2>1. /\ At("user") /\ UNCHANGED <<cur, proc, nextPid, spaces, fg, calls>>
        /\ Goto("ret") \/ thr' = [thr EXCEPT ![cur].pc = "wait4", ![cur].arg = want]
    BY <1>9 DEF Wait4
  <2>2. "ret" \in Labels /\ "wait4" \in Labels /\ 0 \in Codes
    BY DEF Labels, Codes
  <2> QED BY <1>1, <2>1, <2>2, SimpleType
<1>10. CASE Sleep
  BY <1>1, <1>10, SimpleType DEF Sleep, Labels, Codes
<1>11. ASSUME NEW s \in Sigs, Kill(s) PROVE TInv'
  <2>1. proc' \in Procs
    BY <1>1, <1>11, SignalToType DEF Kill
  <2> QED BY <1>11, <2>1, SimpleType DEF Kill, Labels, Codes
<1>12. ASSUME NEW s \in Sigs, NEW h \in Handlers, Sigaction(s, h) PROVE TInv'
  <2>1. Me \in Pids /\ proc[Me] \in Process
    BY <1>12, MeType DEF Sigaction, At, Idle
  <2> DEFINE ac == [proc[Me].act EXCEPT ![s] = h]
             pe == IF h = "ign" \/ (h = "dfl" /\ s \in IgnoredByDefault)
                   THEN proc[Me].pend \ {s} ELSE proc[Me].pend
  <2>2. ac \in [Sigs -> Handlers] /\ pe \in SUBSET Sigs
    BY <2>1 DEF Process
  <2>3. proc' = [proc EXCEPT ![Me] = [proc[Me] EXCEPT !.act = ac, !.pend = pe]]
    BY <1>1, <1>12, <2>1 DEF Sigaction, Procs
  <2> HIDE DEF ac, pe
  <2>4. [proc[Me] EXCEPT !.act = ac, !.pend = pe] \in Process
    BY <2>1, <2>2 DEF Process
  <2>5. proc' \in Procs
    BY <1>1, <2>1, <2>3, <2>4 DEF Procs
  <2> QED BY <1>12, <2>5, SimpleType DEF Sigaction, Labels, Codes
<1>13. ASSUME NEW s \in Sigs, Sigprocmask(s) PROVE TInv'
  <2>1. cur \in Slots /\ thr[cur] \in Thread /\ Me # 0 /\ thr \in [Slots -> Thread]
    BY <1>13, MeType, Constants DEF Sigprocmask, At, Idle, TInv, TypeOK
  <2> DEFINE bl == IF s \in thr[cur].blocked THEN thr[cur].blocked \ {s}
                                             ELSE thr[cur].blocked \union {s}
  <2>2. bl \in SUBSET Sigs
    BY <2>1 DEF Thread
  <2>3. thr' = [thr EXCEPT ![cur] = [thr[cur] EXCEPT !.pc = "ret", !.blocked = bl]]
    BY <1>13, <2>1 DEF Sigprocmask
  <2> HIDE DEF bl
  <2>4. "ret" \in Labels
    BY DEF Labels
  <2>5. Seated([thr[cur] EXCEPT !.pc = "ret", !.blocked = bl])
    BY <2>1, <2>2, <2>4 DEF Thread, Seated, Me
  <2>6. thr' \in Table
    BY <2>3, <2>5, CurType
  <2> QED BY <1>13, <2>6 DEF Sigprocmask, TInv, TypeOK, Table
<1> QED BY <1>2, <1>3, <1>4, <1>5, <1>6, <1>7, <1>8, <1>9, <1>10, <1>11, <1>12, <1>13 DEF Calls

\* program_start, and the shell.
LEMMA ShellType ==
  ASSUME TInv, TshDone \/ ShellIdle \/ \E loads \in BOOLEAN : StartProgram(loads)
  PROVE  TInv'
<1>1. /\ cur \in Slots /\ thr \in Table /\ thr[cur] \in Thread
      /\ thr \in [Slots -> Thread] /\ Seated(thr[cur])
  BY DEF TInv, TypeOK, Table
<1>2. CASE TshDone
  <2>1. thr[cur].proc # 0
    BY <1>2, MeType, Constants DEF TshDone, At, Idle, Me
  <2>2. "exit" \in Labels /\ 0 \in Codes
    BY DEF Labels, Codes
  <2>3. thr' = [thr EXCEPT ![cur].pc = "exit", ![cur].code = 0]
    BY <1>2 DEF TshDone
  <2>4. thr' \in Table
    BY <1>1, <2>1, <2>2, <2>3, MoveType
  <2> QED BY <1>2, <2>4 DEF TshDone, TInv, TypeOK, Table
<1>3. CASE ShellIdle
  <2>1. thr' \in Table /\ cur' \in Slots
    BY <1>3, YieldType DEF ShellIdle, Labels, Idle
  <2> QED BY <1>3, <2>1 DEF ShellIdle, TInv, TypeOK, Table
<1>4. ASSUME NEW loads \in BOOLEAN, StartProgram(loads) PROVE TInv'
  <2>1. nextPid \in Pids /\ nextPid + 1 \in 1 .. MaxPid + 1 /\ nextPid # 0
    BY <1>4, RoomType, Constants DEF StartProgram, TInv
  <2>2. proc' \in Procs
    <3>1. [NoProcess EXCEPT !.st = "live", !.pgid = nextPid, !.space = nextPid] \in Process
      BY <2>1, NoProcessType DEF Process
    <3> QED BY <1>4, <3>1, ForgottenType DEF StartProgram, Procs, TInv
  <2> DEFINE w == Append(thr[cur].was, Me)
             l == IF loads THEN "user" ELSE "unwind"
             t == [thr[cur] EXCEPT !.proc = nextPid, !.leader = TRUE, !.was = w, !.pc = l]
  <2>3. thr' = [thr EXCEPT ![cur] = t]
    BY <1>1, <1>4 DEF StartProgram
  <2>4. l \in Labels
    BY DEF Labels
  <2>5. w \in Seq(Pids \union {0})
    BY <1>1 DEF Thread, Me
  <2>6. Seated(t)
    <3> HIDE DEF w, l
    <3> QED BY <1>1, <2>1, <2>4, <2>5 DEF Thread, Seated
  <2>7. thr' \in Table
    BY <2>3, <2>6, CurType
  <2>8. /\ nextPid' = nextPid + 1 /\ spaces' = spaces \union {nextPid} /\ fg' = nextPid
        /\ UNCHANGED <<cur, calls>>
    BY <1>4 DEF StartProgram
  <2> QED BY <2>1, <2>2, <2>7, <2>8 DEF TInv, TypeOK, Procs, Table
<1> QED BY <1>2, <1>3, <1>4

\* A thread that has ended, and the switch away from it.
LEMMA DeadType ==
  ASSUME TInv, SwitchNext([thr EXCEPT ![cur].dead = TRUE])
  PROVE  thr' \in Table /\ cur' \in Slots
<1>1. cur \in Slots /\ thr \in Table /\ thr \in [Slots -> Thread] /\ Seated(thr[cur])
  BY DEF TInv, TypeOK, Table
<1>2. Seated([thr[cur] EXCEPT !.dead = TRUE])
  BY <1>1 DEF Thread, Seated
<1>3. [thr EXCEPT ![cur].dead = TRUE] = [thr EXCEPT ![cur] = [thr[cur] EXCEPT !.dead = TRUE]]
  BY <1>1
<1>4. [thr EXCEPT ![cur].dead = TRUE] \in Table
  BY <1>1, <1>2, <1>3, SetType
<1> QED BY <1>1, <1>4, SwitchType

\* process_exit
LEMMA ProcessExitType == ASSUME TInv, ProcessExit PROVE TInv'
<1>1. Me # 0 /\ cur \in Slots /\ thr \in Table /\ thr \in [Slots -> Thread] /\ thr[cur] \in Thread
  BY MeType, Constants DEF ProcessExit, At, Idle, TInv, Table
<1>2. UNCHANGED <<proc, nextPid, spaces, fg, calls>>
  BY DEF ProcessExit
<1> DEFINE others == LeadersOf(Me) \ {cur}
<1>3. CASE cur \notin LeadersOf(Me) /\ others # {}
  <2> DEFINE l == Min(others)
             t == [thr[l] EXCEPT !.exiting = TRUE, !.code = thr[cur].code]
             u == [thr[cur] EXCEPT !.dead = TRUE]
             th == [thr EXCEPT ![l].exiting = TRUE, ![l].code = thr[cur].code, ![cur].dead = TRUE]
  <2>1. l \in Slots /\ l # cur /\ thr[l].proc # 0
    <3>1. others \subseteq Nat /\ others \subseteq Slots
      BY Constants DEF LeadersOf, ThreadsOf
    <3>2. l \in others
      BY <1>3, <3>1, MinIn
    <3> QED BY <1>1, <3>1, <3>2 DEF LeadersOf, ThreadsOf
  <2>2. cur' = l /\ thr' = Reaped(th, l)
    BY <1>3 DEF ProcessExit
  <2> HIDE DEF l
  <2>3. Seated(thr[l]) /\ Seated(thr[cur])
    BY <1>1, <2>1 DEF Table
  <2>4. Seated(t) /\ Seated(u)
    BY <1>1, <2>1, <2>3 DEF Seated, Thread, Me
  <2>5. th = [[thr EXCEPT ![l] = t] EXCEPT ![cur] = u]
    BY <1>1, <2>1
  <2>6. th \in Table
    <3> HIDE DEF t, u, th
    <3>1. [thr EXCEPT ![l] = t] \in Table
      BY <1>1, <2>1, <2>4, SetType
    <3> QED BY <1>1, <2>4, <2>5, <3>1, SetType
  <2>7. Reaped(th, l) \in Table
    <3> HIDE DEF th
    <3> QED BY <2>6, ReapedType
  <2> QED BY <1>2, <2>1, <2>2, <2>7 DEF TInv, TypeOK, Table
<1>4. CASE ~(cur \notin LeadersOf(Me) /\ others # {})
  <2>1. thr' = [EndOthers(thr) EXCEPT ![cur].pc = "unwind"] /\ cur' = cur
    BY <1>4 DEF ProcessExit
  <2>2. EndOthers(thr) \in Table /\ EndOthers(thr)[cur].proc # 0
    BY <1>1, EndOthersType DEF Me
  <2>3. "unwind" \in Labels /\ 0 \in Codes
    BY DEF Labels, Codes
  <2>4. thr' \in Table
    BY <1>1, <2>1, <2>2, <2>3, MoveType
  <2> QED BY <1>2, <2>1, <2>4 DEF TInv, TypeOK, Table
<1> QED BY <1>3, <1>4

\* The end of a thread, of a process, and of a program_start.
LEMMA EndsType == ASSUME TInv, Ends PROVE TInv'
<1>1. /\ cur \in Slots /\ thr \in Table /\ thr[cur] \in Thread
      /\ thr \in [Slots -> Thread] /\ Seated(thr[cur]) /\ spaces \subseteq Pids
  BY DEF TInv, TypeOK, Table
<1>2. CASE ProcessExit
  BY <1>2, ProcessExitType
<1>3. CASE LeaderTold
  <2> DEFINE t == [thr[cur] EXCEPT !.exiting = FALSE, !.pc = "exit", !.arg = 0]
  <2>1. thr' = [thr EXCEPT ![cur] = t]
    BY <1>1, <1>3 DEF LeaderTold
  <2>2. "exit" \in Labels
    BY DEF Labels
  <2>3. Seated(t)
    BY <1>1, <1>3, <2>2 DEF Thread, Seated, LeaderTold
  <2>4. thr' \in Table
    BY <2>1, <2>3, CurType
  <2> QED BY <1>3, <2>4 DEF LeaderTold, TInv, TypeOK, Table
<1>4. CASE UnwindProgram \/ UnwindProcess
  <2>1. Me \in Pids /\ thr[cur].code \in Codes
    BY <1>4, MeType DEF UnwindProgram, UnwindProcess, At, Idle, Thread
  <2>2. Ended(Me, thr[cur].code) \in Procs
    BY <2>1, EndedType DEF TInv
  <2>3. proc' \in Procs
    BY <1>4, <2>1, <2>2, NoProcessType DEF UnwindProgram, UnwindProcess, Procs
  <2>4. spaces' \subseteq Pids
    BY <1>1, <1>4 DEF UnwindProgram, UnwindProcess, SpacesAfter
  <2>5. CASE UnwindProgram
    <3> DEFINE n == Len(thr[cur].was)
               back == thr[cur].was[n]
               w == SubSeq(thr[cur].was, 1, n - 1)
               l == IF back = 0 THEN "shell" ELSE "tsh"
               t == [thr[cur] EXCEPT !.proc = back, !.leader = FALSE, !.was = w,
                                     !.code = 0, !.pc = l]
    <3>1. EndOthers(thr) \in Table /\ EndOthers(thr)[cur] = thr[cur]
      BY <1>1, EndOthersType
    <3>2. thr' = [EndOthers(thr) EXCEPT ![cur] = t]
      BY <1>1, <2>5, <3>1 DEF UnwindProgram, Table
    <3>3. thr[cur].was \in Seq(Pids \union {0}) /\ thr[cur].was # <<>> /\ ~thr[cur].exiting
      BY <1>1, <2>5 DEF Thread, UnwindProgram, At
    <3>4. back \in Pids \union {0} /\ w \in Seq(Pids \union {0})
      BY <3>3
    <3>5. l \in Labels /\ 0 \in Codes /\ (l \notin Idle => back # 0)
      BY DEF Labels, Codes, Idle
    <3>6. Seated(t)
      <4> HIDE DEF back, w, l
      <4> QED BY <1>1, <3>3, <3>4, <3>5 DEF Thread, Seated
    <3>7. thr' \in Table
      <4> HIDE DEF t
      <4> QED BY <1>1, <3>1, <3>2, <3>6, SetType
    <3>8. UNCHANGED <<cur, nextPid, calls>> /\ fg' = 0
      BY <2>5 DEF UnwindProgram
    <3> QED BY <2>3, <2>4, <3>7, <3>8 DEF TInv, TypeOK, Procs, Table
  <2>6. CASE UnwindProcess
    <3>1. thr' \in Table /\ cur' \in Slots
      BY <2>6, DeadType DEF UnwindProcess
    <3> QED BY <2>3, <2>4, <2>6, <3>1 DEF UnwindProcess, TInv, TypeOK, Procs, Table
  <2> QED BY <1>4, <2>5, <2>6
<1>5. CASE UnwindThread
  <2>1. thr' \in Table /\ cur' \in Slots
    BY <1>5, DeadType DEF UnwindThread
  <2> QED BY <1>5, <2>1 DEF UnwindThread, TInv, TypeOK, Table
<1> QED BY <1>2, <1>3, <1>4, <1>5 DEF Ends

\* The tail of syscall_dispatch, and the keys.
LEMMA TailType ==
  ASSUME TInv, DispatchTail \/ ToUser \/ \E s \in {SIGINT, SIGKILL} : KeyTyped(s)
  PROVE  TInv'
<1>1. proc \in Procs /\ calls \in 0 .. CallsPerYield - 1
  BY DEF TInv, TypeOK, Procs
<1>2. CASE DispatchTail
  <2>1. thr[cur].pc = "ret" /\ "ret" \notin Idle /\ "resched" \in Labels
    BY <1>2 DEF DispatchTail, At, Idle, Labels
  <2>2. calls' \in 0 .. CallsPerYield - 1
    BY <1>1, <1>2, ConstantsAssumption DEF DispatchTail
  <2>3. UNCHANGED <<proc, nextPid, spaces, fg>> /\ (YieldAt("resched") \/ (Goto("resched") /\ cur' = cur))
    BY <1>2 DEF DispatchTail
  <2> QED BY <1>1, <2>1, <2>2, <2>3, QuietType
<1>3. CASE ToUser
  <2>1. thr[cur].pc = "resched" /\ "resched" \notin Idle /\ "user" \in Labels
    BY <1>3 DEF ToUser, At, Idle, Labels
  <2>2. CASE Die
    BY <2>1, <2>2, DieType
  <2>3. CASE ~Die
    <3> DEFINE pe == proc[Me].pend \ (Unhandled \union IF Deliverable = {} THEN {} ELSE {Min(Deliverable)})
    <3>1. proc' = [proc EXCEPT ![Me].pend = pe]
      BY <1>1, <1>3, <2>1, <2>3, MeType DEF ToUser, Procs
    <3>2. pe \in SUBSET Sigs
      BY <2>1, SignalsType
    <3>3. proc' \in Procs
      <4> HIDE DEF pe
      <4> QED BY <3>1, <3>2, PendType DEF TInv
    <3>4. Goto("user") /\ UNCHANGED <<cur, nextPid, spaces, fg, calls>>
      BY <1>3, <2>3 DEF ToUser
    <3> QED BY <1>1, <2>1, <3>3, <3>4, QuietType
  <2> QED BY <2>2, <2>3
<1>4. ASSUME NEW s \in {SIGINT, SIGKILL}, KeyTyped(s) PROVE TInv'
  <2>1. proc' \in Procs
    BY <1>1, <1>4, SignalToType DEF KeyTyped, Sigs
  <2> QED BY <1>4, <2>1 DEF KeyTyped, TInv, TypeOK, Procs, Table
<1> QED BY <1>2, <1>3, <1>4

\* Every step keeps the type invariant.
LEMMA TypeStep == TInv /\ [Next]_vars => TInv'
<1> SUFFICES ASSUME TInv, [Next]_vars PROVE TInv'
  OBVIOUS
<1>1. CASE UNCHANGED vars
  BY <1>1 DEF vars, TInv, TypeOK, Table
<1>2. CASE Next
  BY <1>2, CallsType, WaitsType, EndsType, TailType, ShellType DEF Next, Steps
<1> QED BY <1>1, <1>2

\* The tables are well formed at the start.
LEMMA TypeInit == Init => TInv
<1> SUFFICES ASSUME Init PROVE TInv
  OBVIOUS
<1>1. [NoThread EXCEPT !.pc = "shell", !.entry = "kernel"] \in Thread
  BY NoThreadType DEF Seated, Thread, Labels, Entries
<1>2. Seated([NoThread EXCEPT !.pc = "shell", !.entry = "kernel"])
  BY <1>1 DEF Seated, Idle, NoThread
<1>3. thr \in Table
  BY <1>2, NoThreadType DEF Init, Table, Seated
<1>4. proc \in [Pids -> Process]
  BY NoProcessType DEF Init
<1> QED BY <1>3, <1>4, Constants, ConstantsAssumption DEF Init, TInv, TypeOK, Table

\* The thread table and the process table keep their type, whatever programs do
\* and however many threads, processes and pids there are.
THEOREM TypeCorrect == Spec => []TypeOK
<1>1. TInv => TypeOK
  BY DEF TInv
<1> QED BY <1>1, TypeInit, TypeStep, PTL DEF Spec

----------------------------------------------------------------------------
(* Threads, processes and leaders.                                         *)


\* The thread in slot i of th has not ended.
Al(th, i) == th[i].pc # "free" /\ ~th[i].dead

\* Slot 0 is the kernel's: the shell, or the leader of the program it runs.
ShellSlot(t) ==
  /\ t.entry = "kernel"
  /\ \/ t.proc = 0 /\ t.was = <<>> /\ ~t.leader /\ t.pc = "shell"
     \/ t.proc # 0 /\ t.was = <<0>> /\ t.leader /\ t.pc # "shell"

\* Any other slot is a process's first thread, its leader, or one it made.
OtherSlot(t) ==
  /\ t.proc # 0 /\ t.was = <<>> /\ t.pc # "shell"
  /\ t.entry = IF t.leader THEN "process" ELSE "thread"

Shape(th) ==
  /\ Al(th, 0) /\ ShellSlot(th[0])
  /\ \A i \in Slots \ {0} : Al(th, i) => OtherSlot(th[i])
  /\ \A i \in Slots : Al(th, i) => th[i].pc # "tsh"

OneLeader(th) ==
  \A i, j \in Slots : Al(th, i) /\ Al(th, j) /\ th[i].leader /\ th[j].leader
                        /\ th[i].proc = th[j].proc => i = j

InLive(th, pr) == \A i \in Slots : Al(th, i) /\ th[i].proc # 0 => pr[th[i].proc].st = "live"

\* Pids not yet given out are nobody's.
Fresh(th, pr, np) ==
  /\ \A p \in Pids : p >= np => pr[p].st = "free"
  /\ \A i \in Slots : Al(th, i) => th[i].proc < np

UnwindsAlone(th, c) ==
  \A i \in Slots : Al(th, i) /\ th[i].pc = "unwind" =>
    /\ i = c
    /\ th[i].leader => \A j \in Slots : Al(th, j) /\ th[j].proc = th[i].proc => j = i

\* Programs whose leader cannot be lost: none execs with other threads about,
\* and no fork fails half way.
KeepsLeaders == \A d \in Cases : {"mtexec", "nofiles"} \intersect d = {}

Led(th, pr) == KeepsLeaders =>
  \A p \in Pids : pr[p].st = "live" => \E i \in Slots : Al(th, i) /\ th[i].leader /\ th[i].proc = p

Good(th, pr, np) ==
  Shape(th) /\ OneLeader(th) /\ InLive(th, pr) /\ Fresh(th, pr, np) /\ Led(th, pr)

SInv ==
  /\ TInv /\ Does \in Cases
  /\ Good(thr, proc, nextPid) /\ UnwindsAlone(thr, cur) /\ Al(thr, cur)

\* A table with the same living threads, each in the same place, is as good.
LEMMA SameGood ==
  ASSUME NEW th, NEW ti, NEW pr, NEW np, Good(th, pr, np),
         \A i \in Slots : Al(ti, i) <=> Al(th, i),
         \A i \in Slots : Al(ti, i) =>
            /\ ti[i].proc = th[i].proc /\ ti[i].leader = th[i].leader
            /\ ti[i].entry = th[i].entry /\ ti[i].was = th[i].was
            /\ (ti[i].pc = "shell") <=> (th[i].pc = "shell")
            /\ ti[i].pc # "tsh"
  PROVE  Good(ti, pr, np)
<1>1. Shape(ti)
  BY Constants DEF Good, Shape, ShellSlot, OtherSlot
<1>2. OneLeader(ti)
  BY DEF Good, OneLeader
<1>3. InLive(ti, pr)
  BY DEF Good, InLive
<1>4. Fresh(ti, pr, np)
  BY DEF Good, Fresh
<1>5. Led(ti, pr)
  BY DEF Good, Led
<1> QED BY <1>1, <1>2, <1>3, <1>4, <1>5 DEF Good

\* reap takes no living thread.
LEMMA ReapedGood ==
  ASSUME NEW th, NEW c, NEW pr, NEW np, Good(th, pr, np)
  PROVE  /\ Good(Reaped(th, c), pr, np)
         /\ \A i \in Slots : Al(Reaped(th, c), i) <=> Al(th, i)
         /\ \A i \in Slots : Al(th, i) => Reaped(th, c)[i] = th[i]
<1>1. \A i \in Slots : Al(th, i) => Reaped(th, c)[i] = th[i]
  BY DEF Reaped, Al
<1>2. \A i \in Slots : Al(Reaped(th, c), i) <=> Al(th, i)
  BY DEF Reaped, Al, NoThread
<1>3. \A i \in Slots : Al(th, i) => th[i].pc # "tsh"
  BY DEF Good, Shape
<1>4. Good(Reaped(th, c), pr, np)
  BY <1>1, <1>2, <1>3, SameGood
<1> QED BY <1>1, <1>2, <1>4

\* next_one finds a living thread: there is always the kernel's own.
LEMMA NextOneAlive ==
  ASSUME NEW th, NEW c \in Slots, Al(th, 0)
  PROVE  Al(th, NextOne(th, c))
<1> DEFINE after == LiveIn(th, {i \in Slots : i > c})
           before == LiveIn(th, {i \in Slots : i < c})
<1>1. after \subseteq Nat /\ before \subseteq Nat
  BY Constants DEF LiveIn
<1>2. CASE after # {}
  <2>1. Min(after) \in after
    BY <1>1, <1>2, MinIn
  <2> QED BY <1>2, <2>1 DEF NextOne, LiveIn, Al
<1>3. CASE after = {} /\ before # {}
  <2>1. Min(before) \in before
    BY <1>1, <1>3, MinIn
  <2> QED BY <1>3, <2>1 DEF NextOne, LiveIn, Al
<1>4. CASE after = {} /\ before = {}
  <2>1. c = 0
    BY <1>4, Constants DEF LiveIn, Al
  <2> QED BY <1>4, <2>1 DEF NextOne
<1> QED BY <1>2, <1>3, <1>4

\* A switch, with nobody unwinding, keeps everything.
LEMMA SwitchGood ==
  ASSUME NEW th, NEW pr, NEW np, Good(th, pr, np), cur \in Slots, SwitchNext(th),
         \A i \in Slots : Al(th, i) => th[i].pc # "unwind"
  PROVE  Good(thr', pr, np) /\ UnwindsAlone(thr', cur') /\ Al(thr', cur')
<1>1. Al(th, NextOne(th, cur)) /\ NextOne(th, cur) \in Slots
  BY NextOneAlive, NextOneIn DEF Good, Shape
<1> DEFINE n == NextOne(th, cur)
<1>2. cur' = n /\ (thr' = th \/ thr' = Reaped(th, n))
  BY DEF SwitchNext
<1> HIDE DEF n
<1>3. CASE thr' = th
  BY <1>1, <1>2, <1>3 DEF UnwindsAlone, n
<1>4. CASE thr' = Reaped(th, n)
  <2>1. /\ Good(Reaped(th, n), pr, np)
        /\ \A i \in Slots : Al(Reaped(th, n), i) <=> Al(th, i)
        /\ \A i \in Slots : Al(th, i) => Reaped(th, n)[i] = th[i]
    BY ReapedGood
  <2>2. Al(Reaped(th, n), n)
    BY <1>1, <2>1 DEF n
  <2> QED BY <1>2, <1>4, <2>1, <2>2 DEF UnwindsAlone
<1> QED BY <1>2, <1>3, <1>4

\* The parts of SInv that are not types, after a step.
Safe == Good(thr, proc, nextPid) /\ UnwindsAlone(thr, cur) /\ Al(thr, cur)

\* What happens to processes without any of them starting or ending to live.
LEMMA ProcsGood ==
  ASSUME NEW th, NEW pr, NEW np \in Int, NEW qr, NEW nq \in Int, Good(th, pr, np),
         \A p \in Pids : qr[p].st = "live" <=> pr[p].st = "live",
         \A p \in Pids : p >= nq => qr[p].st = "free",
         nq >= np, \A i \in Slots : th[i].proc \in Pids \union {0}
  PROVE  Good(th, qr, nq)
<1>1. Shape(th) /\ OneLeader(th)
  BY DEF Good
<1>2. InLive(th, qr)
  BY DEF Good, InLive
<1>3. Fresh(th, qr, nq)
  <2>1. ASSUME NEW i \in Slots, Al(th, i) PROVE th[i].proc < nq
    <3>1. th[i].proc < np
      BY <2>1 DEF Good, Fresh
    <3>2. th[i].proc \in Pids \union {0}
      OBVIOUS
    <3>3. th[i].proc \in Int
      BY <3>2, ConstantsAssumption DEF Pids
    <3> QED BY <3>1, <3>3
  <2> QED BY <2>1 DEF Fresh
<1>4. Led(th, qr)
  BY DEF Good, Led
<1> QED BY <1>1, <1>2, <1>3, <1>4 DEF Good

\* The facts about the state that every action's proof starts from.
LEMMA Start ==
  ASSUME SInv
  PROVE  /\ TInv /\ Good(thr, proc, nextPid) /\ cur \in Slots /\ Al(thr, cur)
         /\ thr \in [Slots -> Thread] /\ proc \in [Pids -> Process]
         /\ nextPid \in Int
         /\ \A i \in Slots : thr[i].proc \in Pids \union {0}
         /\ \A i \in Slots : i # cur /\ Al(thr, i) => thr[i].pc # "unwind"
         /\ \A i \in Slots : Al(thr, i) => thr[i].pc # "tsh"
         /\ \A p \in Pids : p >= nextPid => proc[p].st = "free"
<1>1. TInv /\ Good(thr, proc, nextPid) /\ Al(thr, cur) /\ UnwindsAlone(thr, cur)
  BY DEF SInv
<1>2. /\ cur \in Slots /\ nextPid \in Int
      /\ thr \in [Slots -> Thread] /\ proc \in [Pids -> Process]
  BY <1>1 DEF TInv, TypeOK
<1>3. \A i \in Slots : thr[i].proc \in Pids \union {0}
  BY <1>2 DEF Thread
<1>4. \A i \in Slots : i # cur /\ Al(thr, i) => thr[i].pc # "unwind"
  BY <1>1 DEF UnwindsAlone
<1>5. \A i \in Slots : Al(thr, i) => thr[i].pc # "tsh"
  BY <1>1 DEF Good, Shape
<1>6. \A p \in Pids : p >= nextPid => proc[p].st = "free"
  BY <1>1 DEF Good, Fresh
<1> QED BY <1>1, <1>2, <1>3, <1>4, <1>5, <1>6

\* The current thread changes nothing about itself but its label and the like.
LEMMA HereSafe ==
  ASSUME SInv, thr[cur].pc # "shell", Good(thr, proc', nextPid'), cur' = cur,
         \A i \in Slots : i # cur => thr'[i] = thr[i],
         /\ thr'[cur].proc = thr[cur].proc /\ thr'[cur].leader = thr[cur].leader
         /\ thr'[cur].entry = thr[cur].entry /\ thr'[cur].was = thr[cur].was,
         ~thr'[cur].dead,
         thr'[cur].pc \notin {"free", "shell", "tsh"},
         thr'[cur].pc = "unwind" /\ thr[cur].leader =>
           \A j \in Slots : Al(thr, j) /\ thr[j].proc = thr[cur].proc => j = cur
  PROVE  Safe'
<1>1. cur \in Slots /\ Al(thr, cur)
  BY Start
<1>2. \A i \in Slots : Al(thr', i) <=> Al(thr, i)
  BY <1>1 DEF Al
<1>3. \A i \in Slots : Al(thr', i) =>
            /\ thr'[i].proc = thr[i].proc /\ thr'[i].leader = thr[i].leader
            /\ thr'[i].entry = thr[i].entry /\ thr'[i].was = thr[i].was
            /\ (thr'[i].pc = "shell") <=> (thr[i].pc = "shell")
            /\ thr'[i].pc # "tsh"
  BY <1>1, <1>2, Start
<1>4. Good(thr', proc', nextPid')
  BY <1>2, <1>3, SameGood
<1>5. UnwindsAlone(thr', cur)
  <2> SUFFICES ASSUME NEW i \in Slots, Al(thr', i), thr'[i].pc = "unwind"
               PROVE  /\ i = cur
                      /\ thr'[i].leader =>
                           \A j \in Slots : Al(thr', j) /\ thr'[j].proc = thr'[i].proc => j = i
    BY DEF UnwindsAlone
  <2>1. i = cur
    BY <1>2, Start
  <2> QED BY <1>2, <1>3, <2>1
<1> QED BY <1>1, <1>2, <1>4, <1>5 DEF Safe

\* A thread in its process moves on, or lets the others run.
LEMMA MoveSafe ==
  ASSUME SInv, NEW m, m \notin {"free", "shell", "tsh", "unwind"}, thr[cur].pc # "shell",
         YieldAt(m) \/ (Goto(m) /\ cur' = cur), Good(thr, proc', nextPid')
  PROVE  Safe'
<1>0. cur \in Slots /\ thr \in [Slots -> Thread] /\ Al(thr, cur)
  BY Start
<1>1. CASE Goto(m) /\ cur' = cur
  <2>1. /\ \A i \in Slots : i # cur => thr'[i] = thr[i]
        /\ thr'[cur] = [thr[cur] EXCEPT !.pc = m, !.arg = 0]
    BY <1>0, <1>1 DEF Goto
  <2>2. /\ thr'[cur].proc = thr[cur].proc /\ thr'[cur].leader = thr[cur].leader
        /\ thr'[cur].entry = thr[cur].entry /\ thr'[cur].was = thr[cur].was
        /\ thr'[cur].dead = thr[cur].dead /\ thr'[cur].pc = m
    BY <1>0, <2>1 DEF Thread
  <2>3. ~thr'[cur].dead
    BY <1>0, <2>2 DEF Al
  <2> QED BY <1>1, <2>1, <2>2, <2>3, HereSafe
<1>2. CASE YieldAt(m)
  <2> DEFINE th == [thr EXCEPT ![cur].pc = m]
  <2>1. /\ \A i \in Slots : i # cur => th[i] = thr[i]
        /\ th[cur] = [thr[cur] EXCEPT !.pc = m]
    BY <1>0
  <2>2. /\ th[cur].proc = thr[cur].proc /\ th[cur].leader = thr[cur].leader
        /\ th[cur].entry = thr[cur].entry /\ th[cur].was = thr[cur].was
        /\ th[cur].dead = thr[cur].dead /\ th[cur].pc = m
    BY <1>0, <2>1 DEF Thread
  <2>3. SwitchNext(th)
    BY <1>2 DEF YieldAt
  <2> HIDE DEF th
  <2>4. \A i \in Slots : Al(th, i) <=> Al(thr, i)
    BY <1>0, <2>1, <2>2 DEF Al
  <2>5. \A i \in Slots : Al(th, i) =>
            /\ th[i].proc = thr[i].proc /\ th[i].leader = thr[i].leader
            /\ th[i].entry = thr[i].entry /\ th[i].was = thr[i].was
            /\ (th[i].pc = "shell") <=> (thr[i].pc = "shell")
            /\ th[i].pc # "tsh"
    BY <2>1, <2>2, <2>4, Start
  <2>7. Good(th, proc', nextPid')
    BY <2>4, <2>5, SameGood
  <2>6. \A i \in Slots : Al(th, i) => th[i].pc # "unwind"
    BY <2>1, <2>2, <2>4, Start
  <2> QED BY <1>0, <2>3, <2>6, <2>7, SwitchGood DEF Safe
<1> QED BY <1>1, <1>2

\* A step that leaves every process as alive as it was.
LEMMA StillGood ==
  ASSUME SInv, nextPid' = nextPid,
         \A p \in Pids : proc'[p].st = proc[p].st
                        \/ (proc[p].st = "zombie" /\ proc'[p].st = "free")
  PROVE  Good(thr, proc', nextPid')
<1>1. \A p \in Pids : proc'[p].st = "live" <=> proc[p].st = "live"
  OBVIOUS
<1>2. \A p \in Pids : p >= nextPid => proc'[p].st = "free"
  BY Start
<1> QED BY <1>1, <1>2, Start, ProcsGood

\* Signals leave every process as alive as it was.
LEMMA SignalToSt ==
  ASSUME NEW pr, NEW ps, NEW s, NEW p \in Pids, pr \in [Pids -> Process]
  PROVE  SignalTo(pr, ps, s)[p].st = pr[p].st /\ SignalTo(pr, ps, s)[p].ppid = pr[p].ppid
BY DEF SignalTo, Process

\* So does a change of what is pending.
LEMMA PendSt ==
  ASSUME NEW q, NEW S, NEW p \in Pids, proc \in [Pids -> Process]
  PROVE  [proc EXCEPT ![q].pend = S][p].st = proc[p].st
BY DEF Process

\* signal_fatal
LEMMA DieSafe ==
  ASSUME SInv, thr[cur].pc # "shell", Die
  PROVE  Safe'
<1>0. cur \in Slots /\ thr \in [Slots -> Thread] /\ Al(thr, cur) /\ proc \in [Pids -> Process]
  BY Start
<1>1. Good(thr, proc', nextPid')
  <2>1. \A p \in Pids : proc'[p].st = proc[p].st
    BY <1>0 DEF Die, Process
  <2>2. nextPid' = nextPid
    BY DEF Die
  <2> QED BY <2>1, <2>2, StillGood
<1>2. /\ \A i \in Slots : i # cur => thr'[i] = thr[i]
      /\ thr'[cur] = [thr[cur] EXCEPT !.pc = "exit", !.code = Min(Fatal), !.arg = 0]
      /\ cur' = cur
  BY <1>0 DEF Die
<1>3. /\ thr'[cur].proc = thr[cur].proc /\ thr'[cur].leader = thr[cur].leader
      /\ thr'[cur].entry = thr[cur].entry /\ thr'[cur].was = thr[cur].was
      /\ ~thr'[cur].dead /\ thr'[cur].pc = "exit"
  BY <1>0, <1>2 DEF Thread, Al
<1> QED BY <1>1, <1>2, <1>3, HereSafe

\* One turn of a wait.
LEMMA WaitTurnSafe ==
  ASSUME SInv, NEW l \in {"sleep", "wait4"}, thr[cur].pc = l, WaitTurn(l)
  PROVE  Safe'
<1>1. CASE Die
  BY <1>1, DieSafe
<1>2. CASE ~Die
  <2>1. /\ proc' = [proc EXCEPT ![Me].pend = @ \ Unhandled] /\ nextPid' = nextPid
        /\ YieldAt(l) \/ (Goto("ret") /\ cur' = cur)
    BY <1>2 DEF WaitTurn
  <2>0. proc \in [Pids -> Process]
    BY Start
  <2>2. \A p \in Pids : proc'[p].st = proc[p].st
    BY <2>0, <2>1 DEF Process
  <2>3. Good(thr, proc', nextPid')
    BY <2>1, <2>2, StillGood
  <2> QED BY <2>1, <2>3, MoveSafe
<1> QED BY <1>1, <1>2

\* The waits.
LEMMA WaitsSafe == ASSUME SInv, Waits PROVE Safe'
<1>1. (proc' = proc /\ nextPid' = nextPid) => Good(thr, proc', nextPid')
  BY Start
<1>2. CASE VforkTurn
  BY <1>1, <1>2, MoveSafe DEF VforkTurn, At
<1>3. CASE JoinTurn
  <2>1. CASE YieldAt("join")
    BY <1>1, <1>3, <2>1, MoveSafe DEF JoinTurn, At
  <2>2. CASE ThreadsOf(Me) = {cur} /\ Goto("unwind") /\ cur' = cur
    <3>0. cur \in Slots /\ thr \in [Slots -> Thread] /\ Al(thr, cur) /\ thr[cur].pc = "join"
      BY <1>3, Start DEF JoinTurn, At
    <3>1. /\ \A i \in Slots : i # cur => thr'[i] = thr[i]
          /\ thr'[cur] = [thr[cur] EXCEPT !.pc = "unwind", !.arg = 0]
      BY <2>2, <3>0 DEF Goto
    <3>2. /\ thr'[cur].proc = thr[cur].proc /\ thr'[cur].leader = thr[cur].leader
          /\ thr'[cur].entry = thr[cur].entry /\ thr'[cur].was = thr[cur].was
          /\ ~thr'[cur].dead /\ thr'[cur].pc = "unwind"
      BY <3>0, <3>1 DEF Thread, Al
    <3>3. \A j \in Slots : Al(thr, j) /\ thr[j].proc = thr[cur].proc => j = cur
      BY <2>2 DEF ThreadsOf, Alive, Al, Me
    <3>4. Good(thr, proc', nextPid')
      BY <1>1, <1>3 DEF JoinTurn
    <3> QED BY <2>2, <3>0, <3>1, <3>2, <3>3, <3>4, HereSafe
  <2> QED BY <1>3, <2>1, <2>2 DEF JoinTurn
<1>4. CASE Wait4Turn
  <2>1. CASE WaitTurn("wait4")
    BY <1>4, <2>1, WaitTurnSafe DEF Wait4Turn, At
  <2>2. CASE ~WaitTurn("wait4")
    <3>1. Goto("ret") /\ cur' = cur /\ nextPid' = nextPid /\ thr[cur].pc = "wait4"
      BY <1>4, <2>2 DEF Wait4Turn, At
    <3>2. proc' = proc \/ \E c \in Pids : proc[c].st = "zombie" /\ proc' = [proc EXCEPT ![c] = NoProcess]
      BY <1>4, <2>2 DEF Wait4Turn, Kids
    <3>3. \A p \in Pids : proc'[p].st = proc[p].st
                        \/ (proc[p].st = "zombie" /\ proc'[p].st = "free")
      <4>1. proc \in [Pids -> Process] /\ NoProcess.st = "free"
        BY Start DEF NoProcess
      <4> QED BY <3>2, <4>1
    <3>4. Good(thr, proc', nextPid')
      BY <3>1, <3>3, StillGood
    <3> QED BY <3>1, <3>4, MoveSafe
  <2> QED BY <2>1, <2>2
<1>5. CASE SleepTurn
  <2>1. CASE WaitTurn("sleep")
    BY <1>5, <2>1, WaitTurnSafe DEF SleepTurn, At
  <2>2. CASE Goto("ret") /\ UNCHANGED <<cur, proc, nextPid, spaces, fg, calls>>
    BY <1>1, <1>5, <2>2, MoveSafe DEF SleepTurn, At
  <2> QED BY <1>5, <2>1, <2>2 DEF SleepTurn
<1> QED BY <1>2, <1>3, <1>4, <1>5 DEF Waits

----------------------------------------------------------------------------
(* The steps that take threads away, make them, or end a process.          *)

\* What a thread is, as opposed to where it has got to.
Keeps(t, u) ==
  t.proc = u.proc /\ t.leader = u.leader /\ t.entry = u.entry /\ t.was = u.was

\* Some threads end and some processes do, each of them together.
LEMMA FewerGood ==
  ASSUME NEW th, NEW ti, NEW pr, NEW qr, NEW np \in Int, NEW nq \in Int, Good(th, pr, np),
         \A i \in Slots : th[i].proc \in Pids \union {0},
         Al(ti, 0),
         \A i \in Slots : Al(ti, i) =>
            /\ Al(th, i) /\ Keeps(ti[i], th[i]) /\ ti[i].pc # "tsh"
            /\ (ti[i].pc = "shell") <=> (th[i].pc = "shell"),
         \A i \in Slots : Al(ti, i) /\ th[i].proc # 0 => qr[th[i].proc].st = "live",
         \A p \in Pids : p >= nq => qr[p].st = "free",
         nq >= np, Led(ti, qr)
  PROVE  Good(ti, qr, nq)
<1>1. Shape(ti)
  BY Constants DEF Good, Shape, ShellSlot, OtherSlot, Keeps
<1>2. OneLeader(ti)
  BY DEF Good, OneLeader, Keeps
<1>3. InLive(ti, qr)
  BY DEF InLive, Keeps
<1>4. Fresh(ti, qr, nq)
  <2>1. ASSUME NEW i \in Slots, Al(ti, i) PROVE ti[i].proc < nq
    <3>1. th[i].proc < np /\ ti[i].proc = th[i].proc
      BY <2>1 DEF Good, Fresh, Keeps
    <3>2. th[i].proc \in Pids \union {0}
      OBVIOUS
    <3>3. th[i].proc \in Int
      BY <3>2, ConstantsAssumption DEF Pids
    <3> QED BY <3>1, <3>3
  <2> QED BY <2>1 DEF Fresh
<1> QED BY <1>1, <1>2, <1>3, <1>4 DEF Good

\* What EndOthers leaves alive: the current thread, the kernel's own, and the
\* threads of the other processes.
LEMMA EndOthersAl ==
  ASSUME SInv
  PROVE  /\ \A i \in Slots : Al(EndOthers(thr), i) <=>
               Al(thr, i) /\ (i = 0 \/ i = cur \/ thr[i].proc # Me)
         /\ \A i \in Slots : Al(EndOthers(thr), i) => EndOthers(thr)[i] = thr[i]
<1>1. ASSUME NEW i \in Slots
      PROVE  /\ Al(EndOthers(thr), i) <=> Al(thr, i) /\ (i = 0 \/ i = cur \/ thr[i].proc # Me)
             /\ Al(EndOthers(thr), i) => EndOthers(thr)[i] = thr[i]
  <2>1. NoThread.pc = "free"
    BY DEF NoThread
  <2>2. CASE i # 0 /\ i # cur /\ thr[i].proc = Me /\ thr[i].pc # "free"
    <3>1. EndOthers(thr)[i] = NoThread
      BY <2>2 DEF EndOthers
    <3> QED BY <2>1, <2>2, <3>1 DEF Al
  <2>3. CASE ~(i # 0 /\ i # cur /\ thr[i].proc = Me /\ thr[i].pc # "free")
    <3>1. EndOthers(thr)[i] = IF i # 0 /\ thr[i].dead /\ i # cur THEN NoThread ELSE thr[i]
      BY <2>3 DEF EndOthers, Reaped
    <3> QED BY <2>1, <2>3, <3>1 DEF Al
  <2> QED BY <2>2, <2>3
<1> QED BY <1>1

\* Only slot 0 is the kernel's own, and a thread at work there leads a process.
LEMMA Slot0 ==
  ASSUME SInv
  PROVE  /\ Al(thr, 0) /\ 0 \in Slots
         /\ thr[0].entry = "kernel"
         /\ thr[0].pc # "shell" => thr[0].leader /\ thr[0].proc # 0 /\ thr[0].was = <<0>>
         /\ thr[0].pc = "shell" => ~thr[0].leader /\ thr[0].proc = 0 /\ thr[0].was = <<>>
         /\ \A i \in Slots \ {0} : Al(thr, i) =>
              /\ thr[i].proc # 0 /\ thr[i].was = <<>> /\ thr[i].pc # "shell"
              /\ thr[i].entry = IF thr[i].leader THEN "process" ELSE "thread"
BY Start, Constants DEF Good, Shape, ShellSlot, OtherSlot

\* The current thread stays what it is, and other threads may end.
LEMMA StaySafe ==
  ASSUME SInv, thr[cur].pc # "shell", cur' = cur,
         Al(thr', cur), Keeps(thr'[cur], thr[cur]), thr'[cur].pc \notin {"shell", "tsh"},
         \A i \in Slots : i # cur /\ Al(thr', i) => Al(thr, i) /\ thr'[i] = thr[i],
         Al(thr', 0),
         nextPid' \in Int, nextPid' >= nextPid,
         \A p \in Pids : proc'[p].st = "live" <=> proc[p].st = "live",
         \A p \in Pids : p >= nextPid' => proc'[p].st = "free",
         Led(thr', proc'),
         thr'[cur].pc = "unwind" /\ thr[cur].leader =>
           \A j \in Slots : Al(thr', j) /\ thr[j].proc = thr[cur].proc => j = cur
  PROVE  Safe'
<1>1. \A i \in Slots : Al(thr', i) =>
            /\ Al(thr, i) /\ Keeps(thr'[i], thr[i]) /\ thr'[i].pc # "tsh"
            /\ (thr'[i].pc = "shell") <=> (thr[i].pc = "shell")
  <2> SUFFICES ASSUME NEW i \in Slots, Al(thr', i)
               PROVE  /\ Al(thr, i) /\ Keeps(thr'[i], thr[i]) /\ thr'[i].pc # "tsh"
                      /\ (thr'[i].pc = "shell") <=> (thr[i].pc = "shell")
    OBVIOUS
  <2>1. CASE i = cur
    BY <2>1, Start
  <2>2. CASE i # cur
    BY <2>2, Start DEF Keeps
  <2> QED BY <2>1, <2>2
<1>2. \A i \in Slots : Al(thr', i) /\ thr[i].proc # 0 => proc'[thr[i].proc].st = "live"
  <2> SUFFICES ASSUME NEW i \in Slots, Al(thr', i), thr[i].proc # 0
               PROVE  proc'[thr[i].proc].st = "live"
    OBVIOUS
  <2>1. thr[i].proc \in Pids
    BY Start
  <2>2. proc[thr[i].proc].st = "live"
    BY <1>1, Start DEF Good, InLive
  <2> QED BY <2>1, <2>2
<1>3. Good(thr', proc', nextPid')
  BY <1>1, <1>2, Start, FewerGood
<1>4. UnwindsAlone(thr', cur)
  <2> SUFFICES ASSUME NEW i \in Slots, Al(thr', i), thr'[i].pc = "unwind"
               PROVE  /\ i = cur
                      /\ thr'[i].leader =>
                           \A j \in Slots : Al(thr', j) /\ thr'[j].proc = thr'[i].proc => j = i
    BY DEF UnwindsAlone
  <2>1. i = cur
    BY Start
  <2>2. \A j \in Slots : Al(thr', j) => thr'[j].proc = thr[j].proc
    BY <1>1 DEF Keeps
  <2>3. thr'[i].leader = thr[cur].leader /\ thr'[i].proc = thr[cur].proc
    BY <2>1 DEF Keeps
  <2> QED BY <2>1, <2>2, <2>3
<1> QED BY <1>3, <1>4 DEF Safe

\* thread_end_others, by a leader, or by a thread that was alone.
LEMMA EndOthersSafe ==
  ASSUME SInv, thr[cur].pc # "shell", cur' = cur, nextPid' = nextPid,
         NEW t, thr' = [EndOthers(thr) EXCEPT ![cur] = t],
         Keeps(t, thr[cur]), ~t.dead, t.pc \notin {"free", "shell", "tsh"},
         \A p \in Pids : proc'[p].st = proc[p].st,
         KeepsLeaders => \/ thr[cur].leader
                         \/ \A i \in Slots : Al(thr, i) /\ thr[i].proc = Me => i = cur
  PROVE  Safe'
<1>1. cur \in Slots /\ EndOthers(thr) \in [Slots -> Thread]
  BY Start, EndOthersType DEF TInv, Table
<1>2. thr'[cur] = t /\ \A i \in Slots : i # cur => thr'[i] = EndOthers(thr)[i]
  BY <1>1
<1>3. Al(thr', cur)
  BY <1>2 DEF Al
<1>4. \A i \in Slots : i # cur => (Al(thr', i) <=> Al(EndOthers(thr), i))
  BY <1>2 DEF Al
<1>5. \A i \in Slots : i # cur =>
         /\ Al(thr', i) <=> Al(thr, i) /\ (i = 0 \/ thr[i].proc # Me)
         /\ Al(thr', i) => Al(thr, i) /\ thr'[i] = thr[i]
  BY <1>2, <1>4, EndOthersAl
<1>6. Al(thr', 0)
  BY <1>3, <1>5, Slot0
<1>7. Led(thr', proc')
  <2> SUFFICES ASSUME KeepsLeaders, NEW p \in Pids, proc[p].st = "live"
               PROVE  \E i \in Slots : Al(thr', i) /\ thr'[i].leader /\ thr'[i].proc = p
    BY DEF Led
  <2>1. PICK i \in Slots : Al(thr, i) /\ thr[i].leader /\ thr[i].proc = p
    BY Start DEF Good, Led
  <2>2. CASE i = cur
    BY <1>1, <1>2, <1>3, <2>1, <2>2 DEF Keeps
  <2>3. CASE i # cur /\ thr[i].proc # Me
    BY <1>5, <2>1, <2>3
  <2>4. CASE i # cur /\ thr[i].proc = Me
    <3>1. thr[cur].leader
      BY <2>1, <2>4
    <3>2. i = cur
      BY <2>1, <2>4, <3>1, Start DEF Good, OneLeader, Me
    <3> QED BY <2>4, <3>2
  <2> QED BY <2>2, <2>3, <2>4
<1>8. thr[cur].leader => \A j \in Slots : Al(thr', j) /\ thr[j].proc = thr[cur].proc => j = cur
  <2> SUFFICES ASSUME thr[cur].leader, NEW j \in Slots, Al(thr', j),
                      thr[j].proc = thr[cur].proc, j # cur
               PROVE  FALSE
    OBVIOUS
  <2>1. j = 0 /\ Al(thr, 0)
    BY <1>5 DEF Me
  <2>2. thr[cur].proc # 0
    BY <2>1, Slot0, Start
  <2>3. thr[0].leader
    BY <2>1, <2>2, Slot0
  <2> QED BY <2>1, <2>3, Start DEF Good, OneLeader
<1>9. /\ \A p \in Pids : proc'[p].st = "live" <=> proc[p].st = "live"
      /\ \A p \in Pids : p >= nextPid' => proc'[p].st = "free"
      /\ nextPid' \in Int /\ nextPid' >= nextPid
  BY Start
<1>10. Keeps(thr'[cur], thr[cur]) /\ thr'[cur].pc \notin {"shell", "tsh"}
  BY <1>2
<1>11. \A i \in Slots : i # cur /\ Al(thr', i) => Al(thr, i) /\ thr'[i] = thr[i]
  BY <1>5
<1> QED BY <1>3, <1>6, <1>7, <1>8, <1>9, <1>10, <1>11, StaySafe

\* execve
LEMMA ExecSafe == ASSUME SInv, Exec \/ ExecNoSpace \/ ExecNoLoad PROVE Safe'
<1>1. /\ cur \in Slots /\ thr \in [Slots -> Thread] /\ proc \in [Pids -> Process]
      /\ thr[cur] \in Thread /\ Al(thr, cur)
  BY Start
<1>2. /\ MayExec /\ cur' = cur /\ nextPid' = nextPid /\ thr[cur].pc # "shell"
  BY DEF Exec, ExecNoSpace, ExecNoLoad, MayExec, At
<1>3. EndOthers(thr) \in [Slots -> Thread] /\ EndOthers(thr)[cur] = thr[cur]
  BY Start, EndOthersType DEF TInv, Table
<1> DEFINE a == [thr[cur] EXCEPT !.pc = "ret"]
           b == [thr[cur] EXCEPT !.pc = "exit", !.code = 0]
<1>4. thr' = [EndOthers(thr) EXCEPT ![cur] = a] \/ thr' = [EndOthers(thr) EXCEPT ![cur] = b]
  BY <1>1, <1>3 DEF Exec, ExecNoSpace, ExecNoLoad
<1>5. /\ Keeps(a, thr[cur]) /\ ~a.dead /\ a.pc = "ret"
      /\ Keeps(b, thr[cur]) /\ ~b.dead /\ b.pc = "exit"
  BY <1>1 DEF Thread, Keeps, Al
<1> HIDE DEF a, b
<1>6. \A p \in Pids : proc'[p].st = proc[p].st
  <2>1. CASE Exec
    BY <1>1, <2>1 DEF Exec, Process
  <2>2. CASE ExecNoSpace
    BY <2>2 DEF ExecNoSpace
  <2>3. CASE ExecNoLoad
    BY <1>1, <2>3 DEF ExecNoLoad, Process
  <2> QED BY <2>1, <2>2, <2>3
<1>7. KeepsLeaders => \A i \in Slots : Al(thr, i) /\ thr[i].proc = Me => i = cur
  BY <1>2 DEF KeepsLeaders, MayExec, ThreadsOf, Alive, Al, SInv
<1>8. CASE thr' = [EndOthers(thr) EXCEPT ![cur] = a]
  BY <1>2, <1>5, <1>6, <1>7, <1>8, EndOthersSafe
<1>9. CASE thr' = [EndOthers(thr) EXCEPT ![cur] = b]
  BY <1>2, <1>5, <1>6, <1>7, <1>9, EndOthersSafe
<1> QED BY <1>4, <1>8, <1>9

\* process_exit, by a thread that is not the leader: the leader goes on.
LEMMA HandOverSafe ==
  ASSUME SInv, At("exit"), UNCHANGED <<proc, nextPid>>,
         NEW l \in LeadersOf(Me) \ {cur}, cur \notin LeadersOf(Me), cur' = l,
         thr' = Reaped([thr EXCEPT ![l].exiting = TRUE, ![l].code = thr[cur].code,
                                   ![cur].dead = TRUE], l)
  PROVE  Safe'
<1> DEFINE th == [thr EXCEPT ![l].exiting = TRUE, ![l].code = thr[cur].code,
                             ![cur].dead = TRUE]
           tl == [thr[l] EXCEPT !.exiting = TRUE, !.code = thr[cur].code]
           tc == [thr[cur] EXCEPT !.dead = TRUE]
<1>1. /\ cur \in Slots /\ thr \in [Slots -> Thread] /\ l \in Slots /\ l # cur
      /\ thr[cur] \in Thread /\ thr[l] \in Thread /\ Al(thr, cur) /\ Al(thr, l)
      /\ thr[cur].pc = "exit"
  BY Start DEF LeadersOf, ThreadsOf, Alive, Al, At
<1>2. /\ th[l] = tl /\ th[cur] = tc
      /\ \A i \in Slots : i # l /\ i # cur => th[i] = thr[i]
  BY <1>1
<1>3. Keeps(tl, thr[l]) /\ ~tl.dead /\ tl.pc = thr[l].pc /\ tc.dead
  BY <1>1 DEF Thread, Keeps, Al
<1>4. ~thr[cur].leader /\ cur # 0
  BY <1>1, Slot0 DEF LeadersOf, ThreadsOf, Alive, Al, Me
<1>5. thr' = Reaped(th, l)
  OBVIOUS
<1> HIDE DEF th, tl, tc
<1>6. /\ ~Al(th, cur) /\ Al(th, l)
      /\ \A i \in Slots : i # cur => (Al(th, i) <=> Al(thr, i)) /\ Keeps(th[i], thr[i]) /\ th[i].pc = thr[i].pc
  BY <1>1, <1>2, <1>3 DEF Al, Keeps
<1>7. Good(th, proc, nextPid)
  <2>1. Al(th, 0)
    BY <1>4, <1>6, Slot0
  <2>2. \A i \in Slots : Al(th, i) =>
            /\ Al(thr, i) /\ Keeps(th[i], thr[i]) /\ th[i].pc # "tsh"
            /\ (th[i].pc = "shell") <=> (thr[i].pc = "shell")
    BY <1>6, Start
  <2>3. \A i \in Slots : Al(th, i) /\ thr[i].proc # 0 => proc[thr[i].proc].st = "live"
    BY <2>2, Start DEF Good, InLive
  <2>4. Led(th, proc)
    <3> SUFFICES ASSUME KeepsLeaders, NEW p \in Pids, proc[p].st = "live"
                 PROVE  \E i \in Slots : Al(th, i) /\ th[i].leader /\ th[i].proc = p
      BY DEF Led
    <3>1. PICK i \in Slots : Al(thr, i) /\ thr[i].leader /\ thr[i].proc = p
      BY Start DEF Good, Led
    <3> QED BY <1>4, <1>6, <3>1 DEF Keeps
  <2> QED BY <2>1, <2>2, <2>3, <2>4, Start, FewerGood
<1>8. /\ Good(thr', proc, nextPid)
      /\ \A i \in Slots : Al(thr', i) <=> Al(th, i)
      /\ \A i \in Slots : Al(th, i) => thr'[i] = th[i]
  <2>1. /\ Good(Reaped(th, l), proc, nextPid)
        /\ \A i \in Slots : Al(Reaped(th, l), i) <=> Al(th, i)
        /\ \A i \in Slots : Al(th, i) => Reaped(th, l)[i] = th[i]
    BY <1>7, ReapedGood
  <2> QED BY <1>5, <2>1
<1>9. \A i \in Slots : Al(thr', i) => thr'[i].pc # "unwind"
  BY <1>6, <1>8, Start
<1>10. Al(thr', cur')
  BY <1>1, <1>6, <1>8
<1> QED BY <1>8, <1>9, <1>10 DEF Safe, UnwindsAlone

LEMMA ProcessExitSafe == ASSUME SInv, ProcessExit PROVE Safe'
<1> DEFINE others == LeadersOf(Me) \ {cur}
<1>1. At("exit") /\ UNCHANGED <<proc, nextPid>> /\ thr[cur].pc # "shell"
  BY DEF ProcessExit, At
<1>2. CASE cur \notin LeadersOf(Me) /\ others # {}
  <2>1. Min(others) \in others
    BY <1>2, MinIn, Constants DEF LeadersOf, ThreadsOf
  <2>2. /\ cur' = Min(others)
        /\ thr' = Reaped([thr EXCEPT ![Min(others)].exiting = TRUE,
                                     ![Min(others)].code = thr[cur].code,
                                     ![cur].dead = TRUE], Min(others))
    BY <1>2 DEF ProcessExit
  <2> QED BY <1>1, <1>2, <2>1, <2>2, HandOverSafe
<1>3. CASE ~(cur \notin LeadersOf(Me) /\ others # {})
  <2> DEFINE t == [thr[cur] EXCEPT !.pc = "unwind"]
  <2>1. /\ cur \in Slots /\ thr[cur] \in Thread /\ Al(thr, cur)
        /\ EndOthers(thr) \in [Slots -> Thread] /\ EndOthers(thr)[cur] = thr[cur]
    BY Start, EndOthersType DEF TInv, Table
  <2>2. thr' = [EndOthers(thr) EXCEPT ![cur] = t] /\ cur' = cur
    BY <1>3, <2>1 DEF ProcessExit
  <2>3. Keeps(t, thr[cur]) /\ ~t.dead /\ t.pc = "unwind"
    BY <2>1 DEF Thread, Keeps, Al
  <2>4. KeepsLeaders => thr[cur].leader
    <3> SUFFICES ASSUME KeepsLeaders PROVE thr[cur].leader
      OBVIOUS
    <3>1. Me \in Pids /\ proc[Me].st = "live"
      <4>1. Me \in Pids
        BY <1>1, Start, MeType DEF At, Idle
      <4>2. Me # 0
        BY <4>1, Constants
      <4> QED BY <4>1, <4>2, <2>1, Start DEF Good, InLive, Me
    <3>2. PICK i \in Slots : Al(thr, i) /\ thr[i].leader /\ thr[i].proc = Me
      BY <3>1, Start DEF Good, Led
    <3>3. i \in LeadersOf(Me)
      BY <3>2 DEF LeadersOf, ThreadsOf, Alive, Al
    <3>4. cur \in LeadersOf(Me)
      BY <1>3, <3>3
    <3> QED BY <3>4 DEF LeadersOf
  <2> HIDE DEF t
  <2>5. \A p \in Pids : proc'[p].st = proc[p].st
    BY <1>1
  <2> QED BY <1>1, <2>2, <2>3, <2>4, <2>5, EndOthersSafe
<1> QED BY <1>2, <1>3

\* The current thread moves on, and nothing starts or ends.
LEMMA StepSafe ==
  ASSUME SInv, thr[cur].pc # "shell", cur' = cur, nextPid' = nextPid,
         NEW t, thr' = [thr EXCEPT ![cur] = t], Keeps(t, thr[cur]), ~t.dead,
         t.pc \notin {"free", "shell", "tsh"}, t.pc = "unwind" => ~thr[cur].leader,
         \A p \in Pids : proc'[p].st = proc[p].st
  PROVE  Safe'
<1>1. cur \in Slots /\ thr \in [Slots -> Thread]
  BY Start
<1>2. thr'[cur] = t /\ \A i \in Slots : i # cur => thr'[i] = thr[i]
  BY <1>1
<1>3. Good(thr, proc', nextPid')
  BY StillGood
<1>4. /\ thr'[cur].proc = thr[cur].proc /\ thr'[cur].leader = thr[cur].leader
      /\ thr'[cur].entry = thr[cur].entry /\ thr'[cur].was = thr[cur].was
      /\ ~thr'[cur].dead /\ thr'[cur].pc \notin {"free", "shell", "tsh"}
      /\ ~(thr'[cur].pc = "unwind" /\ thr[cur].leader)
  BY <1>2 DEF Keeps
<1> QED BY <1>2, <1>3, <1>4, HereSafe

\* The calls that make and end nothing.
LEMMA SimpleSafe ==
  ASSUME SInv,
         \/ ThreadExit \/ ExitGroup \/ Sleep \/ LeaderTold
         \/ \E want \in Pids \union {0}, nohang \in BOOLEAN : Wait4(want, nohang)
         \/ \E s \in Sigs : Kill(s)
         \/ \E s \in Sigs, h \in Handlers : Sigaction(s, h)
         \/ \E s \in Sigs : Sigprocmask(s)
  PROVE  Safe'
<1>1. /\ cur \in Slots /\ thr \in [Slots -> Thread] /\ thr[cur] \in Thread
      /\ proc \in [Pids -> Process] /\ Al(thr, cur)
  BY Start
<1>2. thr[cur].pc # "shell"
  <2>1. CASE LeaderTold
    <3>1. thr[cur].proc # 0
      BY <1>1, <2>1, Start DEF LeaderTold, TInv, Table, Seated
    <3> QED BY <3>1, <1>1, Slot0
  <2> QED BY <2>1 DEF ThreadExit, ExitGroup, Sleep, Wait4, Kill, Sigaction, Sigprocmask, At
<1>3. cur' = cur /\ nextPid' = nextPid
  BY DEF ThreadExit, ExitGroup, Sleep, Wait4, Kill, Sigaction, Sigprocmask, LeaderTold
<1>4. \A p \in Pids : proc'[p].st = proc[p].st
  <2>1. ASSUME NEW s \in Sigs, Kill(s) PROVE \A p \in Pids : proc'[p].st = proc[p].st
    BY <1>1, <2>1, SignalToSt DEF Kill
  <2>2. ASSUME NEW s \in Sigs, NEW h \in Handlers, Sigaction(s, h)
        PROVE  \A p \in Pids : proc'[p].st = proc[p].st
    BY <1>1, <2>2 DEF Sigaction, Process
  <2> QED BY <2>1, <2>2 DEF ThreadExit, ExitGroup, Sleep, Wait4, Sigprocmask, LeaderTold
<1>5. \E t : /\ thr' = [thr EXCEPT ![cur] = t] /\ Keeps(t, thr[cur]) /\ ~t.dead
             /\ t.pc \notin {"free", "shell", "tsh"} /\ (t.pc = "unwind" => ~thr[cur].leader)
  <2>1. CASE Goto("ret") \/ Goto("sleep")
    <3> DEFINE t(l) == [thr[cur] EXCEPT !.pc = l, !.arg = 0]
    <3>1. thr' = [thr EXCEPT ![cur] = t("ret")] \/ thr' = [thr EXCEPT ![cur] = t("sleep")]
      BY <1>1, <2>1 DEF Goto
    <3>2. /\ Keeps(t("ret"), thr[cur]) /\ ~t("ret").dead /\ t("ret").pc = "ret"
          /\ Keeps(t("sleep"), thr[cur]) /\ ~t("sleep").dead /\ t("sleep").pc = "sleep"
      BY <1>1 DEF Thread, Keeps, Al
    <3> HIDE DEF t
    <3> QED BY <3>1, <3>2
  <2>2. CASE ThreadExit
    <3> DEFINE l == IF thr[cur].leader THEN "join" ELSE "unwind"
               t == [thr[cur] EXCEPT !.pc = l, !.code = 0]
    <3>1. thr' = [thr EXCEPT ![cur] = t]
      BY <1>1, <2>2 DEF ThreadExit
    <3>2. Keeps(t, thr[cur]) /\ ~t.dead /\ t.pc = l
      BY <1>1 DEF Thread, Keeps, Al
    <3> HIDE DEF t
    <3> QED BY <3>1, <3>2
  <2>3. CASE ExitGroup
    <3> DEFINE t == [thr[cur] EXCEPT !.pc = "exit", !.code = 0]
    <3>1. thr' = [thr EXCEPT ![cur] = t]
      BY <1>1, <2>3 DEF ExitGroup
    <3>2. Keeps(t, thr[cur]) /\ ~t.dead /\ t.pc = "exit"
      BY <1>1 DEF Thread, Keeps, Al
    <3> HIDE DEF t
    <3> QED BY <3>1, <3>2
  <2>4. CASE LeaderTold
    <3> DEFINE t == [thr[cur] EXCEPT !.exiting = FALSE, !.pc = "exit", !.arg = 0]
    <3>1. thr' = [thr EXCEPT ![cur] = t]
      BY <1>1, <2>4 DEF LeaderTold
    <3>2. Keeps(t, thr[cur]) /\ ~t.dead /\ t.pc = "exit"
      BY <1>1 DEF Thread, Keeps, Al
    <3> HIDE DEF t
    <3> QED BY <3>1, <3>2
  <2>5. ASSUME NEW want \in Pids \union {0}, thr' = [thr EXCEPT ![cur].pc = "wait4", ![cur].arg = want]
        PROVE  \E t : /\ thr' = [thr EXCEPT ![cur] = t] /\ Keeps(t, thr[cur]) /\ ~t.dead
                      /\ t.pc \notin {"free", "shell", "tsh"} /\ (t.pc = "unwind" => ~thr[cur].leader)
    <3> DEFINE t == [thr[cur] EXCEPT !.pc = "wait4", !.arg = want]
    <3>1. thr' = [thr EXCEPT ![cur] = t]
      BY <1>1, <2>5
    <3>2. Keeps(t, thr[cur]) /\ ~t.dead /\ t.pc = "wait4"
      BY <1>1 DEF Thread, Keeps, Al
    <3> HIDE DEF t
    <3> QED BY <3>1, <3>2
  <2>6. ASSUME NEW s \in Sigs, Sigprocmask(s)
        PROVE  \E t : /\ thr' = [thr EXCEPT ![cur] = t] /\ Keeps(t, thr[cur]) /\ ~t.dead
                      /\ t.pc \notin {"free", "shell", "tsh"} /\ (t.pc = "unwind" => ~thr[cur].leader)
    <3> DEFINE b == IF s \in thr[cur].blocked THEN thr[cur].blocked \ {s} ELSE thr[cur].blocked \union {s}
               t == [thr[cur] EXCEPT !.pc = "ret", !.blocked = b]
    <3>1. thr' = [thr EXCEPT ![cur] = t]
      BY <1>1, <2>6 DEF Sigprocmask, Thread
    <3> HIDE DEF b
    <3>2. Keeps(t, thr[cur]) /\ ~t.dead /\ t.pc = "ret"
      BY <1>1 DEF Thread, Keeps, Al
    <3> HIDE DEF t
    <3> QED BY <3>1, <3>2
  <2>7. (\E s \in Sigs : Kill(s)) \/ (\E s \in Sigs, h \in Handlers : Sigaction(s, h)) \/ Sleep
        => Goto("ret") \/ Goto("sleep")
    BY DEF Kill, Sigaction, Sleep
  <2>8. ASSUME NEW want \in Pids \union {0}, NEW nohang \in BOOLEAN, Wait4(want, nohang)
        PROVE  Goto("ret") \/ thr' = [thr EXCEPT ![cur].pc = "wait4", ![cur].arg = want]
    BY <2>8 DEF Wait4
  <2> QED BY <2>1, <2>2, <2>3, <2>4, <2>5, <2>6, <2>7, <2>8
<1> QED BY <1>2, <1>3, <1>4, <1>5, StepSafe

\* The tail of syscall_dispatch, and the keys.
LEMMA TailSafe ==
  ASSUME SInv, DispatchTail \/ ToUser \/ \E s \in {SIGINT, SIGKILL} : KeyTyped(s)
  PROVE  Safe'
<1>1. CASE DispatchTail
  <2>1. thr[cur].pc = "ret" /\ proc' = proc /\ nextPid' = nextPid
    BY <1>1 DEF DispatchTail, At
  <2>2. YieldAt("resched") \/ (Goto("resched") /\ cur' = cur)
    BY <1>1 DEF DispatchTail
  <2>3. Good(thr, proc', nextPid')
    BY <2>1, Start
  <2> QED BY <2>1, <2>2, <2>3, MoveSafe
<1>2. CASE ToUser
  <2>1. thr[cur].pc = "resched"
    BY <1>2 DEF ToUser, At
  <2>2. CASE Die
    BY <2>1, <2>2, DieSafe
  <2>3. CASE ~Die
    <3>0. proc \in [Pids -> Process]
      BY Start
    <3>1. nextPid' = nextPid /\ Goto("user") /\ cur' = cur
      BY <1>2, <2>3 DEF ToUser
    <3>2. \A p \in Pids : proc'[p].st = proc[p].st
      BY <1>2, <2>3, <3>0 DEF ToUser, Process
    <3>3. Good(thr, proc', nextPid')
      BY <3>1, <3>2, StillGood
    <3> QED BY <2>1, <3>1, <3>3, MoveSafe
  <2> QED BY <2>2, <2>3
<1>3. ASSUME NEW s \in {SIGINT, SIGKILL}, KeyTyped(s) PROVE Safe'
  <2>1. UNCHANGED <<thr, cur, nextPid>>
    BY <1>3 DEF KeyTyped
  <2>2. \A p \in Pids : proc'[p].st = proc[p].st
    BY <1>3, Start, SignalToSt DEF KeyTyped
  <2>3. Good(thr, proc', nextPid')
    BY <2>1, <2>2, StillGood
  <2> QED BY <2>1, <2>3 DEF SInv, Safe
<1> QED BY <1>1, <1>2, <1>3

\* proc_new's first pass forgets no process that lives.
LEMMA ForgottenSt ==
  ASSUME SInv, NEW p \in Pids
  PROVE  /\ Forgotten[p].st = "live" <=> proc[p].st = "live"
         /\ proc[p].st = "free" => Forgotten[p].st = "free"
BY DEF Forgotten, NoProcess

\* What reap leaves, with the current thread moved on.
LEMMA ReapedHere ==
  ASSUME SInv, NEW ti, NEW t, ti = [Reaped(thr, cur) EXCEPT ![cur] = t],
         ~t.dead, t.pc # "free"
  PROVE  /\ \A i \in Slots : Al(ti, i) <=> Al(thr, i)
         /\ \A i \in Slots : i # cur /\ Al(ti, i) => ti[i] = thr[i]
         /\ ti[cur] = t
<1>1. cur \in Slots /\ Al(thr, cur) /\ Reaped(thr, cur) \in [Slots -> Thread]
  BY Start, ReapedType DEF TInv, Table
<1>2. /\ \A i \in Slots : Al(Reaped(thr, cur), i) <=> Al(thr, i)
      /\ \A i \in Slots : Al(thr, i) => Reaped(thr, cur)[i] = thr[i]
  BY Start, ReapedGood
<1>3. ti[cur] = t /\ \A i \in Slots : i # cur => ti[i] = Reaped(thr, cur)[i]
  BY <1>1
<1>4. Al(ti, cur)
  BY <1>3 DEF Al
<1>5. \A i \in Slots : i # cur => (Al(ti, i) <=> Al(Reaped(thr, cur), i))
  BY <1>3 DEF Al
<1> QED BY <1>1, <1>2, <1>3, <1>4, <1>5

LEMMA ReapedCur ==
  ASSUME SInv
  PROVE  /\ Reaped(thr, cur) \in [Slots -> Thread] /\ Reaped(thr, cur)[cur] = thr[cur]
         /\ \A i \in Slots : Al(Reaped(thr, cur), i) <=> Al(thr, i)
         /\ \A i \in Slots : Al(thr, i) => Reaped(thr, cur)[i] = thr[i]
<1>1. cur \in Slots /\ thr \in Table /\ Good(thr, proc, nextPid)
  BY Start DEF TInv
<1>2. Reaped(thr, cur) \in Table
  BY <1>1, ReapedType
<1>3. Reaped(thr, cur)[cur] = thr[cur]
  BY <1>1 DEF Reaped
<1>4. /\ \A i \in Slots : Al(Reaped(thr, cur), i) <=> Al(thr, i)
      /\ \A i \in Slots : Al(thr, i) => Reaped(thr, cur)[i] = thr[i]
  BY <1>1, ReapedGood
<1> QED BY <1>2, <1>3, <1>4 DEF Table

\* A call that finds no room.
LEMMA NoRoomSafe ==
  ASSUME SInv, thr[cur].pc # "shell", cur' = cur, nextPid' \in {nextPid, nextPid + 1},
         thr' = [Reaped(thr, cur) EXCEPT ![cur].pc = "ret"],
         \A p \in Pids : proc'[p].st = "live" <=> proc[p].st = "live",
         \A p \in Pids : proc[p].st = "free" => proc'[p].st = "free"
  PROVE  Safe'
<1> DEFINE t == [thr[cur] EXCEPT !.pc = "ret"]
<1>0. cur \in Slots /\ Al(thr, cur) /\ thr[cur] \in Thread /\ thr \in Table
  BY Start DEF TInv
<1>1. /\ cur \in Slots /\ Al(thr, cur) /\ thr[cur] \in Thread
      /\ Reaped(thr, cur) \in [Slots -> Thread] /\ Reaped(thr, cur)[cur] = thr[cur]
  BY <1>0, ReapedCur
<1>2. thr' = [Reaped(thr, cur) EXCEPT ![cur] = t]
  BY <1>1
<1>3. Keeps(t, thr[cur]) /\ ~t.dead /\ t.pc = "ret"
  BY <1>1 DEF Thread, Keeps, Al
<1> HIDE DEF t
<1>4. /\ \A i \in Slots : Al(thr', i) <=> Al(thr, i)
      /\ \A i \in Slots : i # cur /\ Al(thr', i) => thr'[i] = thr[i]
      /\ thr'[cur] = t
  BY ZenonT(60), <1>2, <1>3, ReapedHere
<1>5. Led(thr', proc')
  <2> SUFFICES ASSUME KeepsLeaders, NEW p \in Pids, proc[p].st = "live"
               PROVE  \E i \in Slots : Al(thr', i) /\ thr'[i].leader /\ thr'[i].proc = p
    BY DEF Led
  <2>1. PICK i \in Slots : Al(thr, i) /\ thr[i].leader /\ thr[i].proc = p
    BY Start DEF Good, Led
  <2> QED BY <1>3, <1>4, <2>1 DEF Keeps
<1>6. nextPid' \in Int /\ nextPid' >= nextPid
  BY Start
<1>7. \A p \in Pids : p >= nextPid' => proc'[p].st = "free"
  <2> SUFFICES ASSUME NEW p \in Pids, p >= nextPid' PROVE proc'[p].st = "free"
    OBVIOUS
  <2>1. p >= nextPid
    BY <1>6, Start, ConstantsAssumption DEF Pids
  <2> QED BY <2>1, Start
<1>8. Al(thr', 0) /\ Al(thr', cur)
  BY <1>1, <1>4, Slot0
<1> QED BY <1>3, <1>4, <1>5, <1>6, <1>7, <1>8, StaySafe

\* Slot n of th is free, and in ti it has a thread: of a process there is, or
\* the leader of one there was not.
Adds(th, pr, np, ti, qr, nq, n) ==
  /\ n \in Slots \ {0} /\ ~Al(th, n) /\ Al(ti, n) /\ OtherSlot(ti[n]) /\ ti[n].pc # "tsh"
  /\ \A i \in Slots : i # n => (Al(ti, i) <=> Al(th, i))
  /\ \A i \in Slots : i # n /\ Al(ti, i) =>
       /\ Keeps(ti[i], th[i]) /\ ti[i].pc # "tsh"
       /\ (ti[i].pc = "shell") <=> (th[i].pc = "shell")
  /\ qr[ti[n].proc].st = "live" /\ ti[n].proc < nq
  /\ ti[n].leader => \A i \in Slots : Al(th, i) => th[i].proc # ti[n].proc
  /\ \A p \in Pids : pr[p].st = "live" => qr[p].st = "live"
  /\ \A p \in Pids : qr[p].st = "live" => pr[p].st = "live" \/ (p = ti[n].proc /\ ti[n].leader)
  /\ \A p \in Pids : p >= nq => qr[p].st = "free"
  /\ nq >= np

LEMMA MoreGood ==
  ASSUME NEW th, NEW ti, NEW pr, NEW qr, NEW np \in Int, NEW nq \in Int, Good(th, pr, np),
         \A i \in Slots : th[i].proc \in Pids \union {0},
         NEW n, Adds(th, pr, np, ti, qr, nq, n)
  PROVE  Good(ti, qr, nq)
<1> USE DEF Adds
<1>1. Shape(ti)
  BY Constants DEF Good, Shape, ShellSlot, OtherSlot, Keeps
<1>2. OneLeader(ti)
  BY DEF Good, OneLeader, Keeps
<1>3. InLive(ti, qr)
  BY DEF Good, InLive, Keeps
<1>4. Fresh(ti, qr, nq)
  <2>1. ASSUME NEW i \in Slots, Al(ti, i), i # n PROVE ti[i].proc < nq
    <3>1. th[i].proc < np /\ ti[i].proc = th[i].proc
      BY <2>1 DEF Good, Fresh, Keeps
    <3>2. th[i].proc \in Pids \union {0}
      OBVIOUS
    <3>3. th[i].proc \in Int
      BY <3>2, ConstantsAssumption DEF Pids
    <3> QED BY <3>1, <3>3
  <2> QED BY <2>1 DEF Fresh
<1>5. Led(ti, qr)
  <2> SUFFICES ASSUME KeepsLeaders, NEW p \in Pids, qr[p].st = "live"
               PROVE  \E i \in Slots : Al(ti, i) /\ ti[i].leader /\ ti[i].proc = p
    BY DEF Led
  <2>1. CASE p = ti[n].proc /\ ti[n].leader
    BY <2>1
  <2>2. CASE pr[p].st = "live"
    <3>1. PICK i \in Slots : Al(th, i) /\ th[i].leader /\ th[i].proc = p
      BY <2>2 DEF Good, Led
    <3> QED BY <3>1 DEF Keeps
  <2> QED BY <2>1, <2>2
<1> QED BY <1>1, <1>2, <1>3, <1>4, <1>5 DEF Good

\* thread_spawn: the new thread is in a slot that was free, and the current one
\* moves on.
LEMMA SpawnSafe ==
  ASSUME SInv, thr[cur].pc # "shell", cur' = cur, FreeSlots(thr) # {},
         NEW u, NEW t, NEW p \in Pids,
         thr' = [[Reaped(thr, cur) EXCEPT ![Min(FreeSlots(thr))] = u] EXCEPT ![cur] = t],
         Keeps(t, thr[cur]), ~t.dead, t.pc \notin {"free", "shell", "tsh", "unwind"},
         u.pc = "user", ~u.dead, u.was = <<>>, u.proc = p,
         u.entry = IF u.leader THEN "process" ELSE "thread",
         proc'[p].st = "live", p < nextPid', nextPid' \in Int, nextPid' >= nextPid,
         u.leader => \A i \in Slots : Al(thr, i) => thr[i].proc # p,
         \A q \in Pids : proc[q].st = "live" => proc'[q].st = "live",
         \A q \in Pids : proc'[q].st = "live" => proc[q].st = "live" \/ (q = p /\ u.leader),
         \A q \in Pids : q >= nextPid' => proc'[q].st = "free"
  PROVE  Safe'
<1> DEFINE re == Reaped(thr, cur)
           n == Min(FreeSlots(thr))
<1>0. cur \in Slots /\ Al(thr, cur) /\ thr[cur] \in Thread /\ thr \in Table
  BY Start DEF TInv
<1>1. re \in [Slots -> Thread] /\ re[cur] = thr[cur]
  BY ReapedCur
<1>2. n \in FreeSlots(thr) /\ n \in Slots \ {0} /\ re[n].pc = "free"
  <2>1. FreeSlots(thr) \subseteq Slots \ {0}
    BY DEF FreeSlots
  <2>2. n \in FreeSlots(thr)
    BY <2>1, MinIn, Constants
  <2> QED BY <2>1, <2>2 DEF FreeSlots
<1>3. /\ \A i \in Slots : Al(re, i) <=> Al(thr, i)
      /\ \A i \in Slots : Al(thr, i) => re[i] = thr[i]
  BY ReapedCur
<1>4. n # cur /\ ~Al(thr, n)
  <2>1. ~Al(re, n)
    BY <1>2 DEF Al
  <2>2. ~Al(thr, n)
    BY <1>2, <1>3, <2>1
  <2> QED BY <1>0, <2>2
<1>5. thr' = [[re EXCEPT ![n] = u] EXCEPT ![cur] = t]
  OBVIOUS
<1> HIDE DEF re, n
<1>6. thr'[n] = u /\ thr'[cur] = t /\ \A i \in Slots : i # n /\ i # cur => thr'[i] = re[i]
  BY <1>0, <1>1, <1>2, <1>4, <1>5
<1>7. Al(thr', n) /\ Al(thr', cur)
  BY <1>6 DEF Al
<1>8. \A i \in Slots : i # n => (Al(thr', i) <=> Al(thr, i))
  <2>1. \A i \in Slots : i # n /\ i # cur => (Al(thr', i) <=> Al(re, i))
    BY <1>6 DEF Al
  <2> QED BY <1>0, <1>3, <1>7, <2>1
<1>9. \A i \in Slots : i # n /\ i # cur /\ Al(thr', i) => thr'[i] = thr[i]
  BY <1>3, <1>6, <1>8
<1>10. \A i \in Slots : i # n /\ Al(thr', i) =>
            /\ Keeps(thr'[i], thr[i]) /\ thr'[i].pc # "tsh"
            /\ (thr'[i].pc = "shell") <=> (thr[i].pc = "shell")
  <2> SUFFICES ASSUME NEW i \in Slots, i # n, Al(thr', i)
               PROVE  /\ Keeps(thr'[i], thr[i]) /\ thr'[i].pc # "tsh"
                      /\ (thr'[i].pc = "shell") <=> (thr[i].pc = "shell")
    OBVIOUS
  <2>1. CASE i = cur
    BY <1>6, <2>1
  <2>2. CASE i # cur
    BY ZenonT(60), <1>8, <1>9, <2>2, Start DEF Keeps
  <2> QED BY <2>1, <2>2
<1>11. OtherSlot(thr'[n]) /\ thr'[n].pc # "tsh" /\ thr'[n].proc = p /\ thr'[n].leader = u.leader
  BY <1>6, Constants DEF OtherSlot
<1>12. Good(thr', proc', nextPid')
  <2>1. /\ Good(thr, proc, nextPid) /\ nextPid \in Int
        /\ \A i \in Slots : thr[i].proc \in Pids \union {0}
    BY Start
  <2>2. proc'[thr'[n].proc].st = "live" /\ thr'[n].proc < nextPid'
    BY <1>11
  <2>3. thr'[n].leader => \A i \in Slots : Al(thr, i) => thr[i].proc # thr'[n].proc
    BY <1>11
  <2>4. \A q \in Pids : proc'[q].st = "live" => proc[q].st = "live" \/ (q = thr'[n].proc /\ thr'[n].leader)
    BY <1>11
  <2>5. Adds(thr, proc, nextPid, thr', proc', nextPid', n)
    BY <1>2, <1>4, <1>7, <1>8, <1>10, <1>11, <2>2, <2>3, <2>4 DEF Adds
  <2> QED BY <2>1, <2>5, MoreGood
<1>13. \A i \in Slots : Al(thr', i) => thr'[i].pc # "unwind"
  <2> SUFFICES ASSUME NEW i \in Slots, Al(thr', i) PROVE thr'[i].pc # "unwind"
    OBVIOUS
  <2>1. CASE i = n \/ i = cur
    BY <1>6, <2>1
  <2>2. CASE i # n /\ i # cur
    BY <1>8, <1>9, <2>2, Start
  <2> QED BY <2>1, <2>2
<1> QED BY <1>7, <1>12, <1>13 DEF Safe, UnwindsAlone

\* clone
LEMMA CloneSafe == ASSUME SInv, Clone PROVE Safe'
<1>1. /\ thr[cur].pc = "user" /\ cur' = cur /\ UNCHANGED <<proc, nextPid>>
      /\ thr[cur].pc # "shell"
  BY DEF Clone, At
<1>2. Me \in Pids /\ Me # 0 /\ cur \in Slots /\ Al(thr, cur) /\ thr[cur] \in Thread /\ thr \in Table
  BY <1>1, MeType, Constants, Start DEF Idle, TInv
<1>3. CASE FreeSlots(thr) # {}
  <2> DEFINE u == NewThread(Me, FALSE, "thread")
             t == [thr[cur] EXCEPT !.pc = "ret"]
             re == Reaped(thr, cur)
             w == [re EXCEPT ![Min(FreeSlots(thr))] = u]
  <2>1. u.pc = "user" /\ ~u.dead /\ u.was = <<>> /\ u.proc = Me /\ u.leader = FALSE /\ u.entry = "thread"
    BY DEF NewThread, NoThread
  <2>2. re \in [Slots -> Thread] /\ re[cur] = thr[cur] /\ re[cur].pc # "free"
    BY <1>1, ReapedCur
  <2>3. Min(FreeSlots(thr)) # cur
    <3>1. Min(FreeSlots(thr)) \in FreeSlots(thr)
      BY <1>3, MinIn, Constants DEF FreeSlots
    <3> QED BY <2>2, <3>1 DEF FreeSlots
  <2>4. w[cur] = thr[cur]
    BY <1>2, <2>2, <2>3
  <2>5. thr' = [w EXCEPT ![cur].pc = "ret"]
    BY <1>3 DEF Clone, WithThread
  <2>6. thr' = [w EXCEPT ![cur] = t]
    <3> HIDE DEF w
    <3> QED BY <2>4, <2>5
  <2>7. Keeps(t, thr[cur]) /\ ~t.dead /\ t.pc = "ret"
    BY <1>2 DEF Thread, Keeps, Al
  <2>8. proc'[Me].st = "live" /\ Me < nextPid'
    BY <1>1, <1>2, Start DEF Good, InLive, Fresh, Me
  <2>9. nextPid' \in Int /\ nextPid' >= nextPid
    BY <1>1, Start
  <2>10. \A q \in Pids : q >= nextPid' => proc'[q].st = "free"
    BY <1>1, Start
  <2>11. \A q \in Pids : proc'[q].st = proc[q].st
    BY <1>1
  <2>12. thr' = [[Reaped(thr, cur) EXCEPT ![Min(FreeSlots(thr))] = u] EXCEPT ![cur] = t]
    BY <2>6
  <2> HIDE DEF u, t, w, re
  <2> QED BY <1>1, <1>2, <1>3, <2>1, <2>7, <2>8, <2>9, <2>10, <2>11, <2>12, SpawnSafe
<1>4. CASE FreeSlots(thr) = {}
  <2>1. thr' = [Reaped(thr, cur) EXCEPT ![cur].pc = "ret"]
    BY <1>4 DEF Clone
  <2> QED BY <1>1, <2>1, NoRoomSafe
<1> QED BY <1>3, <1>4

\* The current thread's process lives, and the next pid is nobody's.
LEMMA MeLives ==
  ASSUME SInv, thr[cur].pc # "shell"
  PROVE  /\ Me \in Pids /\ Me # 0 /\ proc[Me].st = "live"
         /\ \A i \in Slots : Al(thr, i) => thr[i].proc # nextPid
<1>1. cur \in Slots /\ Al(thr, cur) /\ TInv
  BY Start
<1>2. Me \in Pids /\ Me # 0
  BY <1>1, MeType, Constants DEF Idle, Al
<1>3. proc[Me].st = "live"
  BY <1>1, <1>2, Start DEF Good, InLive, Me
<1>4. \A i \in Slots : Al(thr, i) => thr[i].proc < nextPid
  BY Start DEF Good, Fresh
<1>5. \A i \in Slots : Al(thr, i) => thr[i].proc # nextPid
  BY <1>4, Start, ConstantsAssumption DEF Pids
<1> QED BY <1>2, <1>3, <1>5

\* A new process, in a slot of procs[] found for the next pid.
LEMMA NewProcess ==
  ASSUME SInv, RoomFor(Forgotten), NEW q, q.st = "live",
         nextPid' = nextPid + 1, proc' = [Forgotten EXCEPT ![nextPid] = q]
  PROVE  /\ nextPid \in Pids /\ proc'[nextPid].st = "live"
         /\ nextPid < nextPid' /\ nextPid' \in Int /\ nextPid' >= nextPid
         /\ \A p \in Pids : proc[p].st = "live" => proc'[p].st = "live"
         /\ \A p \in Pids : proc'[p].st = "live" => proc[p].st = "live" \/ p = nextPid
         /\ \A p \in Pids : p >= nextPid' => proc'[p].st = "free"
<1>1. nextPid \in Pids /\ nextPid \in Int
  BY Start, RoomType DEF TInv
<1>2. Forgotten \in [Pids -> Process]
  BY Start, ForgottenType DEF TInv, Procs
<1>3. proc'[nextPid] = q /\ \A p \in Pids : p # nextPid => proc'[p] = Forgotten[p]
  BY <1>1, <1>2
<1>4. \A p \in Pids : p >= nextPid' => proc'[p].st = "free"
  <2> SUFFICES ASSUME NEW p \in Pids, p >= nextPid' PROVE proc'[p].st = "free"
    OBVIOUS
  <2>1. p >= nextPid /\ p # nextPid
    BY <1>1, ConstantsAssumption DEF Pids
  <2> QED BY <1>3, <2>1, Start, ForgottenSt
<1> QED BY <1>1, <1>3, <1>4, ForgottenSt

\* fork and vfork
LEMMA ForkSafe == ASSUME SInv, NEW share \in BOOLEAN, Fork(share) PROVE Safe'
<1>1. /\ thr[cur].pc = "user" /\ cur' = cur /\ FreeSlots(thr) # {} /\ thr[cur].pc # "shell"
      /\ RoomFor(Forgotten) /\ nextPid' = nextPid + 1
      /\ proc' = [Forgotten EXCEPT ![nextPid] = Child(share)]
  BY DEF Fork, At
<1>2. cur \in Slots /\ Al(thr, cur) /\ thr[cur] \in Thread /\ proc \in [Pids -> Process]
  BY Start
<1>3. Me \in Pids /\ proc[Me].st = "live" /\ \A i \in Slots : Al(thr, i) => thr[i].proc # nextPid
  BY <1>1, MeLives
<1>4. Child(share).st = "live"
  BY <1>2, <1>3 DEF Child, Process
<1>5. /\ nextPid \in Pids /\ proc'[nextPid].st = "live"
      /\ nextPid < nextPid' /\ nextPid' \in Int /\ nextPid' >= nextPid
      /\ \A p \in Pids : proc[p].st = "live" => proc'[p].st = "live"
      /\ \A p \in Pids : proc'[p].st = "live" => proc[p].st = "live" \/ p = nextPid
      /\ \A p \in Pids : p >= nextPid' => proc'[p].st = "free"
  <2> HIDE DEF Child
  <2> QED BY <1>1, <1>4, NewProcess
<1> DEFINE u == NewThread(nextPid, TRUE, "process")
           l == IF share THEN "vfork" ELSE "ret"
           a == IF share THEN nextPid ELSE 0
           t == [thr[cur] EXCEPT !.pc = l, !.arg = a]
           re == Reaped(thr, cur)
           w == [re EXCEPT ![Min(FreeSlots(thr))] = u]
<1>6. u.pc = "user" /\ ~u.dead /\ u.was = <<>> /\ u.proc = nextPid /\ u.leader = TRUE /\ u.entry = "process"
  BY DEF NewThread, NoThread
<1>7. re \in [Slots -> Thread] /\ re[cur] = thr[cur] /\ re[cur].pc # "free"
  BY <1>1, ReapedCur
<1>8. Min(FreeSlots(thr)) # cur
  <2>1. Min(FreeSlots(thr)) \in FreeSlots(thr)
    BY <1>1, MinIn, Constants DEF FreeSlots
  <2> QED BY <1>7, <2>1 DEF FreeSlots
<1>9. w[cur] = thr[cur]
  BY <1>2, <1>7, <1>8
<1>10. thr' = [w EXCEPT ![cur].pc = l, ![cur].arg = a]
  BY DEF Fork, WithThread
<1>11. thr' = [w EXCEPT ![cur] = t]
  <2> HIDE DEF w
  <2> QED BY <1>9, <1>10
<1>12. Keeps(t, thr[cur]) /\ ~t.dead /\ t.pc = l
  <2> HIDE DEF l, a
  <2> QED BY <1>2 DEF Thread, Keeps, Al
<1>13. thr' = [[Reaped(thr, cur) EXCEPT ![Min(FreeSlots(thr))] = u] EXCEPT ![cur] = t]
  BY <1>11
<1>14. t.pc \notin {"free", "shell", "tsh", "unwind"}
  <2> HIDE DEF t
  <2> QED BY <1>12
<1> HIDE DEF u, t, w, re, l, a
<1> QED BY <1>1, <1>3, <1>5, <1>6, <1>12, <1>13, <1>14, SpawnSafe

\* fork that fails
LEMMA ForkFailsSafe == ASSUME SInv, ForkFails PROVE Safe'
<1>1. /\ thr[cur].pc # "shell" /\ cur' = cur /\ nextPid' \in {nextPid, nextPid + 1}
      /\ thr' = [Reaped(thr, cur) EXCEPT ![cur].pc = "ret"] /\ proc' = Forgotten
  BY DEF ForkFails, At
<1>2. /\ \A p \in Pids : proc'[p].st = "live" <=> proc[p].st = "live"
      /\ \A p \in Pids : proc[p].st = "free" => proc'[p].st = "free"
  BY <1>1, ForgottenSt
<1> QED BY <1>1, <1>2, NoRoomSafe

\* fork that leaves half a child
LEMMA ForkNoFilesSafe == ASSUME SInv, ForkNoFiles PROVE Safe'
<1> DEFINE q == [Child(FALSE) EXCEPT !.space = 0]
<1>1. /\ thr[cur].pc # "shell" /\ RoomFor(Forgotten) /\ nextPid' = nextPid + 1
      /\ proc' = [Forgotten EXCEPT ![nextPid] = q]
      /\ Goto("ret") /\ cur' = cur /\ ~KeepsLeaders
  BY DEF ForkNoFiles, At, KeepsLeaders, SInv
<1>2. q.st = "live"
  <2>1. Me \in Pids /\ proc[Me].st = "live" /\ proc \in [Pids -> Process]
    BY <1>1, MeLives, Start
  <2> QED BY <2>1 DEF Child, Process
<1> HIDE DEF q
<1>3. /\ nextPid' \in Int /\ nextPid' >= nextPid
      /\ \A p \in Pids : proc[p].st = "live" => proc'[p].st = "live"
      /\ \A p \in Pids : p >= nextPid' => proc'[p].st = "free"
  BY <1>1, <1>2, NewProcess
<1>4. \A i \in Slots : Al(thr, i) /\ thr[i].proc # 0 => proc'[thr[i].proc].st = "live"
  BY <1>3, Start DEF Good, InLive
<1>5. Good(thr, proc', nextPid')
  <2>1. Led(thr, proc')
    BY <1>1 DEF Led
  <2>2. \A i \in Slots : Al(thr, i) =>
            /\ Al(thr, i) /\ Keeps(thr[i], thr[i]) /\ thr[i].pc # "tsh"
            /\ (thr[i].pc = "shell") <=> (thr[i].pc = "shell")
    BY Start DEF Keeps
  <2> QED BY <1>3, <1>4, <2>1, <2>2, Start, Slot0, FewerGood
<1> QED BY <1>1, <1>5, MoveSafe

\* process_end ends p and nothing else.
LEMMA EndedSt ==
  ASSUME SInv, NEW p \in Pids, NEW code
  PROVE  /\ Ended(p, code)[p].st = "zombie"
         /\ \A q \in Pids : q # p => Ended(p, code)[q].st = proc[q].st
<1> DEFINE parent == proc[p].ppid
           heard  == parent # 0 /\ Live(parent)
           orphan == [q \in Pids |-> IF proc[q].ppid = p THEN [proc[q] EXCEPT !.ppid = 0]
                                                         ELSE proc[q]]
           up == IF heard THEN orphan[p].ppid ELSE 0
           dead == [orphan[p] EXCEPT !.st = "zombie", !.borrowed = FALSE, !.space = 0,
                                     !.status = code, !.ppid = up]
           ended  == [orphan EXCEPT ![p].st = "zombie", ![p].borrowed = FALSE, ![p].space = 0,
                                    ![p].status = code, ![p].ppid = IF heard THEN @ ELSE 0]
<1>0. proc \in [Pids -> Process]
  BY Start
<1>1. \A q \in Pids : orphan[q].st = proc[q].st
  BY <1>0 DEF Process
<1>2. \A q \in Pids : DOMAIN orphan[q] = DOMAIN NoProcess /\ orphan[q].st = proc[q].st
  BY <1>0, <1>1 DEF Process, NoProcess
<1>3. Ended(p, code) = IF heard THEN SignalTo(ended, {parent}, SIGCHLD) ELSE ended
  BY DEF Ended
<1>4. dead.st = "zombie"
  <2> HIDE DEF orphan, up
  <2> QED BY <1>2 DEF NoProcess
<1>5. DOMAIN orphan = Pids
  OBVIOUS
<1>6. ended[p].st = "zombie" /\ \A q \in Pids : q # p => ended[q].st = proc[q].st
  <2> HIDE DEF orphan, heard
  <2>1. ended = [orphan EXCEPT ![p] = dead]
    BY <1>5
  <2> HIDE DEF ended, dead
  <2> QED BY <1>1, <1>4, <1>5, <2>1
<1>7. \A q \in Pids : SignalTo(ended, {parent}, SIGCHLD)[q].st = ended[q].st
  <2> HIDE DEF ended, parent
  <2> QED BY DEF SignalTo
<1> QED
  <2> HIDE DEF ended, heard, parent
  <2> QED BY <1>3, <1>6, <1>7

\* The current thread is done, and with it its process if it leads one.
LEMMA DeadSafe ==
  ASSUME SInv, thr[cur].pc = "unwind", cur # 0, nextPid' = nextPid,
         SwitchNext([thr EXCEPT ![cur].dead = TRUE]),
         \A p \in Pids : p # Me => proc'[p].st = proc[p].st,
         proc'[Me].st = IF thr[cur].leader THEN "zombie" ELSE proc[Me].st
  PROVE  Safe'
<1> DEFINE th == [thr EXCEPT ![cur].dead = TRUE]
           t == [thr[cur] EXCEPT !.dead = TRUE]
<1>1. cur \in Slots /\ thr \in [Slots -> Thread] /\ thr[cur] \in Thread /\ Al(thr, cur)
  BY Start
<1>2. th[cur] = t /\ \A i \in Slots : i # cur => th[i] = thr[i]
  BY <1>1
<1>3. t.dead
  BY <1>1 DEF Thread
<1>4. SwitchNext(th)
  OBVIOUS
<1> HIDE DEF th, t
<1>5. ~Al(th, cur) /\ \A i \in Slots : i # cur => (Al(th, i) <=> Al(thr, i))
  BY <1>2, <1>3 DEF Al
<1>6. Me \in Pids /\ Me # 0 /\ proc[Me].st = "live"
  BY MeLives
<1>7. thr[cur].leader => \A i \in Slots : Al(th, i) => thr[i].proc # Me
  <2>1. UnwindsAlone(thr, cur)
    BY DEF SInv
  <2> QED BY <1>1, <1>5, <2>1 DEF UnwindsAlone, Me
<1>8. Good(th, proc', nextPid')
  <2>1. Al(th, 0)
    BY <1>5, Slot0
  <2>2. \A i \in Slots : Al(th, i) =>
            /\ Al(thr, i) /\ Keeps(th[i], thr[i]) /\ th[i].pc # "tsh"
            /\ (th[i].pc = "shell") <=> (thr[i].pc = "shell")
    BY <1>2, <1>5, Start DEF Keeps
  <2>3. \A i \in Slots : Al(th, i) /\ thr[i].proc # 0 => proc'[thr[i].proc].st = "live"
    <3> SUFFICES ASSUME NEW i \in Slots, Al(th, i), thr[i].proc # 0
                 PROVE  proc'[thr[i].proc].st = "live"
      OBVIOUS
    <3>1. thr[i].proc \in Pids /\ proc[thr[i].proc].st = "live"
      BY <2>2, Start DEF Good, InLive
    <3> QED BY <1>7, <3>1
  <2>4. \A p \in Pids : p >= nextPid' => proc'[p].st = "free"
    <3> SUFFICES ASSUME NEW p \in Pids, p >= nextPid PROVE proc'[p].st = "free"
      OBVIOUS
    <3>1. proc[p].st = "free"
      BY Start
    <3> QED BY <1>6, <3>1
  <2>5. Led(th, proc')
    <3> SUFFICES ASSUME KeepsLeaders, NEW p \in Pids, proc'[p].st = "live"
                 PROVE  \E i \in Slots : Al(th, i) /\ th[i].leader /\ th[i].proc = p
      BY DEF Led
    <3>1. proc[p].st = "live"
      BY <1>6
    <3>2. PICK i \in Slots : Al(thr, i) /\ thr[i].leader /\ thr[i].proc = p
      BY <3>1, Start DEF Good, Led
    <3>3. i # cur
      BY <3>2 DEF Me
    <3> QED BY <1>2, <1>5, <3>2, <3>3
  <2> QED BY <2>1, <2>2, <2>3, <2>4, <2>5, Start, FewerGood
<1>9. \A i \in Slots : Al(th, i) => th[i].pc # "unwind"
  BY <1>2, <1>5, Start
<1> QED BY <1>1, <1>4, <1>8, <1>9, SwitchGood DEF Safe

\* user_exit into thread_start, and into process_entry
LEMMA UnwindSafe == ASSUME SInv, UnwindThread \/ UnwindProcess PROVE Safe'
<1>1. /\ thr[cur].pc = "unwind" /\ thr[cur].was = <<>>
      /\ thr[cur].entry \in {"thread", "process"} /\ nextPid' = nextPid
      /\ SwitchNext([thr EXCEPT ![cur].dead = TRUE])
  BY DEF UnwindThread, UnwindProcess, At
<1>2. /\ cur # 0 /\ cur \in Slots
      /\ thr[cur].leader <=> thr[cur].entry = "process"
      /\ Me \in Pids
  BY <1>1, Start, Slot0, MeLives
<1>3. CASE UnwindThread
  <2>1. ~thr[cur].leader /\ proc' = proc
    BY <1>2, <1>3 DEF UnwindThread
  <2> QED BY <1>1, <1>2, <2>1, DeadSafe
<1>4. CASE UnwindProcess
  <2>1. thr[cur].leader /\ proc' = Ended(Me, thr[cur].code)
    BY <1>2, <1>4 DEF UnwindProcess
  <2>2. proc'[Me].st = "zombie" /\ \A p \in Pids : p # Me => proc'[p].st = proc[p].st
    BY <1>2, <2>1, EndedSt
  <2> QED BY <1>1, <1>2, <2>1, <2>2, DeadSafe
<1> QED BY <1>3, <1>4

\* user_exit into program_start: the shell's thread is its own again.
LEMMA UnwindProgramSafe == ASSUME SInv, UnwindProgram PROVE Safe'
<1>1. /\ thr[cur].pc = "unwind" /\ thr[cur].was # <<>> /\ cur' = cur /\ nextPid' = nextPid
      /\ proc' = [Ended(Me, thr[cur].code) EXCEPT ![Me] = NoProcess]
  BY DEF UnwindProgram, At
<1>2. /\ cur = 0 /\ 0 \in Slots /\ Al(thr, 0) /\ thr[0] \in Thread /\ thr[0].entry = "kernel"
      /\ thr[0].was = <<0>> /\ thr[0].leader
  BY <1>1, Start, Slot0
<1>3. <<0>>[Len(<<0>>)] = 0 /\ SubSeq(<<0>>, 1, Len(<<0>>) - 1) = <<>>
  OBVIOUS
<1> DEFINE w == SubSeq(<<0>>, 1, Len(<<0>>) - 1)
           t == [thr[0] EXCEPT !.proc = 0, !.leader = FALSE, !.was = w, !.code = 0, !.pc = "shell"]
<1>4. EndOthers(thr) \in [Slots -> Thread] /\ EndOthers(thr)[cur] = thr[cur]
  BY Start, EndOthersType DEF TInv, Table
<1>5. thr' = [EndOthers(thr) EXCEPT ![0] = t]
  <2> DEFINE n == Len(thr[cur].was)
             back == thr[cur].was[n]
             v == SubSeq(thr[cur].was, 1, n - 1)
             l == IF back = 0 THEN "shell" ELSE "tsh"
             tt == [thr[cur] EXCEPT !.proc = back, !.leader = FALSE, !.was = v,
                                    !.code = 0, !.pc = l]
  <2>1. thr' = [EndOthers(thr) EXCEPT ![cur] = tt]
    BY <1>2, <1>4 DEF UnwindProgram
  <2>2. back = 0 /\ v = w /\ l = "shell"
    BY <1>2, <1>3
  <2> HIDE DEF back, v, l, w
  <2> QED BY <1>2, <2>1, <2>2
<1>6. t.proc = 0 /\ ~t.leader /\ t.was = <<>> /\ t.pc = "shell" /\ t.entry = "kernel" /\ ~t.dead
  <2>1. w = <<>>
    BY <1>3
  <2> HIDE DEF w
  <2> QED BY <1>2, <2>1 DEF Thread, Al
<1>7. thr'[0] = t /\ \A i \in Slots : i # 0 => thr'[i] = EndOthers(thr)[i]
  BY <1>2, <1>4, <1>5
<1> HIDE DEF t
<1>8. Al(thr', 0) /\ \A i \in Slots : i # 0 => (Al(thr', i) <=> Al(EndOthers(thr), i))
  BY <1>6, <1>7 DEF Al
<1>9. \A i \in Slots : i # 0 /\ Al(thr', i) => Al(thr, i) /\ thr'[i] = thr[i] /\ thr[i].proc # Me
  BY <1>2, <1>7, <1>8, EndOthersAl
<1>10. \A i \in Slots : i # 0 /\ Al(thr, i) => thr[i].proc # Me /\ Al(thr', i)
  <2>1. UnwindsAlone(thr, cur)
    BY DEF SInv
  <2>2. \A i \in Slots : i # 0 /\ Al(thr, i) => thr[i].proc # Me
    BY <1>1, <1>2, <2>1 DEF UnwindsAlone, Me
  <2> QED BY <1>8, <2>2, EndOthersAl
<1>11. Me \in Pids /\ Me # 0 /\ proc[Me].st = "live"
  BY <1>1, MeLives
<1>12. proc'[Me].st = "free" /\ \A p \in Pids : p # Me => proc'[p].st = proc[p].st
  <2>1. /\ DOMAIN Ended(Me, thr[cur].code) = Pids /\ NoProcess.st = "free"
        /\ \A p \in Pids : p # Me => Ended(Me, thr[cur].code)[p].st = proc[p].st
    <3>1. thr[cur].code \in Codes /\ TypeOK
      BY <1>2, Start DEF Thread, TInv
    <3>2. Ended(Me, thr[cur].code) \in [Pids -> Process]
      BY <1>11, <3>1, EndedType DEF Procs
    <3>3. \A p \in Pids : p # Me => Ended(Me, thr[cur].code)[p].st = proc[p].st
      BY <1>11, EndedSt
    <3> QED BY <3>2, <3>3 DEF NoProcess
  <2> QED BY <1>1, <1>11, <2>1
<1>13. Shape(thr')
  BY <1>2, <1>6, <1>7, <1>8, <1>9, Slot0, Start DEF Shape, ShellSlot, OtherSlot
<1>14. OneLeader(thr')
  <2>1. OneLeader(thr)
    BY Start DEF Good
  <2> QED BY <1>6, <1>7, <1>9, <2>1 DEF OneLeader
<1>15. InLive(thr', proc')
  <2> SUFFICES ASSUME NEW i \in Slots, Al(thr', i), thr'[i].proc # 0
               PROVE  proc'[thr'[i].proc].st = "live"
    BY DEF InLive
  <2>1. i # 0 /\ Al(thr, i) /\ thr'[i] = thr[i] /\ thr[i].proc # Me
    BY <1>6, <1>7, <1>9
  <2>2. thr[i].proc \in Pids /\ proc[thr[i].proc].st = "live"
    BY <2>1, Start DEF Good, InLive
  <2> QED BY <1>12, <2>1, <2>2
<1>16. Fresh(thr', proc', nextPid')
  <2>1. \A p \in Pids : p >= nextPid' => proc'[p].st = "free"
    BY <1>1, <1>12, Start
  <2>2. ASSUME NEW i \in Slots, Al(thr', i) PROVE thr'[i].proc < nextPid'
    <3>1. CASE i = 0
      <4>1. nextPid \in 1 .. MaxPid + 1
        BY Start DEF TInv, TypeOK
      <4> QED BY <1>1, <1>6, <1>7, <3>1, <4>1, ConstantsAssumption
    <3>2. CASE i # 0
      BY <1>1, <1>9, <2>2, <3>2, Start DEF Good, Fresh
    <3> QED BY <3>1, <3>2
  <2> QED BY <2>1, <2>2 DEF Fresh
<1>17. Led(thr', proc')
  <2> SUFFICES ASSUME KeepsLeaders, NEW p \in Pids, proc'[p].st = "live"
               PROVE  \E i \in Slots : Al(thr', i) /\ thr'[i].leader /\ thr'[i].proc = p
    BY DEF Led
  <2>1. p # Me /\ proc[p].st = "live"
    BY <1>12
  <2>2. PICK i \in Slots : Al(thr, i) /\ thr[i].leader /\ thr[i].proc = p
    BY <2>1, Start DEF Good, Led
  <2>3. i # 0
    BY <1>2, <2>1, <2>2 DEF Me
  <2> QED BY <1>9, <1>10, <2>2, <2>3
<1>18. UnwindsAlone(thr', cur')
  BY <1>1, <1>2, <1>6, <1>7, <1>9, Start DEF UnwindsAlone
<1> QED BY <1>1, <1>2, <1>8, <1>13, <1>14, <1>15, <1>16, <1>17, <1>18 DEF Safe, Good

\* program_start: the shell's thread leads the new process.
LEMMA StartProgramSafe ==
  ASSUME SInv, NEW loads \in BOOLEAN, StartProgram(loads) PROVE Safe'
<1> DEFINE q == [NoProcess EXCEPT !.st = "live", !.pgid = nextPid, !.space = nextPid]
           l == IF loads THEN "user" ELSE "unwind"
           w == Append(<<>>, 0)
           t == [thr[0] EXCEPT !.proc = nextPid, !.leader = TRUE, !.was = w, !.pc = l]
<1>1. /\ cur = 0 /\ 0 \in Slots /\ Al(thr, 0) /\ thr[0] \in Thread /\ thr[0].entry = "kernel"
      /\ thr[0].pc = "shell" /\ thr[0].was = <<>> /\ thr[0].proc = 0 /\ thr \in [Slots -> Thread]
  <2>1. thr[cur].pc \in {"shell", "tsh"}
    BY DEF StartProgram, At
  <2>2. thr[cur].pc = "shell" /\ cur \in Slots
    BY <2>1, Start
  <2>3. cur = 0
    BY <2>2, Start, Slot0
  <2> QED BY <2>2, <2>3, Start, Slot0
<1>2. /\ RoomFor(Forgotten) /\ nextPid' = nextPid + 1 /\ cur' = cur
      /\ proc' = [Forgotten EXCEPT ![nextPid] = q]
  BY DEF StartProgram
<1>3. q.st = "live"
  BY DEF NoProcess
<1>4. thr' = [thr EXCEPT ![0] = t]
  BY <1>1 DEF StartProgram, Me
<1>5. /\ t.proc = nextPid /\ t.leader /\ t.was = <<0>> /\ t.pc = l /\ t.entry = "kernel" /\ ~t.dead
  <2>1. w = <<0>>
    OBVIOUS
  <2> HIDE DEF w, l
  <2> QED BY <1>1, <2>1 DEF Thread, Al
<1>6. l \notin {"free", "shell", "tsh"}
  OBVIOUS
<1> HIDE DEF q, t, l
<1>7. /\ nextPid \in Pids /\ proc'[nextPid].st = "live"
      /\ nextPid < nextPid' /\ nextPid' \in Int /\ nextPid' >= nextPid
      /\ \A p \in Pids : proc[p].st = "live" => proc'[p].st = "live"
      /\ \A p \in Pids : proc'[p].st = "live" => proc[p].st = "live" \/ p = nextPid
      /\ \A p \in Pids : p >= nextPid' => proc'[p].st = "free"
  BY <1>2, <1>3, NewProcess
<1>8. thr'[0] = t /\ \A i \in Slots : i # 0 => thr'[i] = thr[i]
  BY <1>1, <1>4
<1>9. Al(thr', 0) /\ \A i \in Slots : i # 0 => (Al(thr', i) <=> Al(thr, i))
  BY <1>5, <1>6, <1>8 DEF Al
<1>10. nextPid # 0 /\ \A i \in Slots : Al(thr, i) => thr[i].proc < nextPid
  BY <1>7, Constants, Start DEF Good, Fresh
<1>11. \A i \in Slots : i # 0 /\ Al(thr', i) => thr'[i].proc # nextPid
  <2> SUFFICES ASSUME NEW i \in Slots, i # 0, Al(thr', i) PROVE thr'[i].proc # nextPid
    OBVIOUS
  <2>1. thr'[i].proc = thr[i].proc /\ thr[i].proc < nextPid
    BY <1>8, <1>9, <1>10
  <2>2. nextPid \in Int
    BY Start
  <2> QED BY <2>1, <2>2
<1>12. Shape(thr')
  BY <1>1, <1>5, <1>6, <1>8, <1>9, <1>10, Slot0, Start DEF Shape, ShellSlot, OtherSlot
<1>13. OneLeader(thr')
  <2>1. OneLeader(thr)
    BY Start DEF Good
  <2> QED BY <1>5, <1>8, <1>9, <1>11, <2>1 DEF OneLeader
<1>14. InLive(thr', proc')
  <2> SUFFICES ASSUME NEW i \in Slots, Al(thr', i), thr'[i].proc # 0
               PROVE  proc'[thr'[i].proc].st = "live"
    BY DEF InLive
  <2>1. CASE i = 0
    BY <1>5, <1>7, <1>8, <2>1
  <2>2. CASE i # 0
    <3>1. thr[i].proc \in Pids /\ proc[thr[i].proc].st = "live" /\ thr'[i] = thr[i]
      BY <1>8, <1>9, <2>2, Start DEF Good, InLive
    <3> QED BY <1>7, <3>1
  <2> QED BY <2>1, <2>2
<1>15. Fresh(thr', proc', nextPid')
  <2>1. ASSUME NEW i \in Slots, Al(thr', i) PROVE thr'[i].proc < nextPid'
    <3>1. CASE i = 0
      BY <1>5, <1>7, <1>8, <3>1
    <3>2. CASE i # 0
      <4>1. thr'[i].proc = thr[i].proc /\ thr[i].proc < nextPid /\ thr[i].proc \in Pids \union {0}
        BY <1>8, <1>9, <1>10, <2>1, <3>2, Start
      <4>2. thr[i].proc \in Int /\ nextPid \in Int
        BY <4>1, Start, ConstantsAssumption DEF Pids
      <4> QED BY <1>2, <4>1, <4>2
    <3> QED BY <3>1, <3>2
  <2> QED BY <1>7, <2>1 DEF Fresh
<1>16. Led(thr', proc')
  <2> SUFFICES ASSUME KeepsLeaders, NEW p \in Pids, proc'[p].st = "live"
               PROVE  \E i \in Slots : Al(thr', i) /\ thr'[i].leader /\ thr'[i].proc = p
    BY DEF Led
  <2>1. CASE p = nextPid
    BY <1>1, <1>5, <1>8, <1>9, <2>1
  <2>2. CASE proc[p].st = "live"
    <3>1. PICK i \in Slots : Al(thr, i) /\ thr[i].leader /\ thr[i].proc = p
      BY <2>2, Start DEF Good, Led
    <3>2. i # 0
      BY <1>1, <3>1, Constants
    <3> QED BY <1>8, <1>9, <3>1, <3>2
  <2> QED BY <1>7, <2>1, <2>2
<1>17. UnwindsAlone(thr', 0)
  <2> SUFFICES ASSUME NEW i \in Slots, Al(thr', i), thr'[i].pc = "unwind"
               PROVE  /\ i = 0
                      /\ \A j \in Slots : Al(thr', j) /\ thr'[j].proc = thr'[i].proc => j = i
    BY DEF UnwindsAlone
  <2>1. i = 0
    BY <1>1, <1>8, <1>9, Start
  <2> QED BY <1>5, <1>8, <1>11, <2>1
<1> QED BY <1>1, <1>2, <1>9, <1>12, <1>13, <1>14, <1>15, <1>16, <1>17 DEF Safe, Good

\* The shell lets the others run.
LEMMA ShellIdleSafe == ASSUME SInv, ShellIdle PROVE Safe'
<1>1. /\ thr[cur].pc = "shell" /\ UNCHANGED <<proc, nextPid>>
      /\ SwitchNext([thr EXCEPT ![cur].pc = "shell"])
  BY DEF ShellIdle, At, YieldAt
<1>2. cur \in Slots /\ thr \in [Slots -> Thread] /\ thr[cur] \in Thread
  BY Start
<1>3. [thr EXCEPT ![cur].pc = "shell"] = thr
  <2>1. [thr[cur] EXCEPT !.pc = "shell"] = thr[cur]
    BY <1>1, <1>2 DEF Thread
  <2> QED BY <1>2, <2>1
<1>4. SwitchNext(thr)
  BY <1>1, <1>3
<1>5. \A i \in Slots : Al(thr, i) => thr[i].pc # "unwind"
  BY <1>1, Start
<1> QED BY <1>1, <1>4, <1>5, Start, SwitchGood DEF Safe

----------------------------------------------------------------------------
(* The theorems.                                                           *)

\* The tables are safe at the start.
LEMMA SafeInit == Init => SInv
<1> SUFFICES ASSUME Init PROVE SInv
  OBVIOUS
<1>1. /\ thr[0].pc = "shell" /\ thr[0].entry = "kernel" /\ thr[0].proc = 0 /\ thr[0].was = <<>>
      /\ ~thr[0].leader /\ ~thr[0].dead /\ cur = 0 /\ 0 \in Slots /\ nextPid = 1
  BY Constants DEF Init, NoThread
<1>2. \A i \in Slots : i # 0 => ~Al(thr, i)
  BY DEF Init, NoThread, Al
<1>3. \A p \in Pids : proc[p].st = "free"
  BY DEF Init, NoProcess
<1>4. Al(thr, 0)
  BY <1>1 DEF Al
<1>5. Shape(thr) /\ OneLeader(thr) /\ InLive(thr, proc) /\ Led(thr, proc)
  BY <1>1, <1>2, <1>3, <1>4 DEF Shape, ShellSlot, OneLeader, InLive, Led
<1>6. Fresh(thr, proc, nextPid)
  BY <1>1, <1>2, <1>3 DEF Fresh
<1>7. UnwindsAlone(thr, cur)
  BY <1>1, <1>2 DEF UnwindsAlone
<1> QED BY <1>1, <1>4, <1>5, <1>6, <1>7, TypeInit DEF SInv, Good, Init

\* Every step keeps them so, where no program runs the kernel's shell.
LEMMA SafeStep == ASSUME \A d \in Cases : "tsh" \notin d PROVE SInv /\ [Next]_vars => SInv'
<1> SUFFICES ASSUME SInv, [Next]_vars PROVE SInv'
  OBVIOUS
<1>1. TInv' /\ Does' \in Cases
  BY TypeStep DEF SInv, Next, vars
<1>2. CASE UNCHANGED vars
  BY <1>1, <1>2 DEF SInv, vars
<1>3. CASE Next
  <2>1. Safe'
    <3>1. CASE Calls
      <4>1. ~ExecTsh
        BY DEF ExecTsh, SInv
      <4> QED BY <3>1, <4>1, ForkSafe, ForkFailsSafe, ForkNoFilesSafe, CloneSafe, ExecSafe, SimpleSafe
             DEF Calls
    <3>2. CASE Ends
      BY <3>2, ProcessExitSafe, SimpleSafe, UnwindProgramSafe, UnwindSafe DEF Ends
    <3>3. ~TshDone
      BY Start DEF TshDone, At
    <3> QED BY <1>3, <3>1, <3>2, <3>3, WaitsSafe, TailSafe, ShellIdleSafe, StartProgramSafe DEF Next, Steps
  <2> QED BY <1>1, <2>1 DEF SInv, Safe
<1> QED BY <1>2, <1>3

\* A thread's stack: the process it is in, above the kernel's own or alone.
LEMMA NestIs ==
  ASSUME SInv, NEW i \in Slots, Al(thr, i)
  PROVE  IF i = 0 /\ thr[i].proc # 0
         THEN Len(Nest(i)) = 2 /\ Nest(i)[1] = 0 /\ Nest(i)[2] = thr[i].proc
         ELSE Len(Nest(i)) = 1 /\ Nest(i)[1] = thr[i].proc
<1>0. thr[i].proc \in Nat
  BY Start, ConstantsAssumption DEF Pids
<1>1. CASE thr[i].was = <<>> /\ (i # 0 \/ thr[i].proc = 0)
  BY <1>1 DEF Nest
<1>2. CASE thr[i].was = <<0>> /\ i = 0 /\ thr[i].proc # 0
  <2>1. ASSUME NEW x \in Nat
        PROVE  Len(Append(<<0>>, x)) = 2 /\ Append(<<0>>, x)[1] = 0 /\ Append(<<0>>, x)[2] = x
    <3>1. Len(Append(<<0>>, x)) = 2
      OBVIOUS
    <3>2. Append(<<0>>, x)[1] = 0
      OBVIOUS
    <3>3. Append(<<0>>, x)[2] = x
      OBVIOUS
    <3> QED BY <3>1, <3>2, <3>3
  <2>2. Nest(i) = Append(<<0>>, thr[i].proc)
    BY <1>2 DEF Nest
  <2> QED BY <1>0, <1>2, <2>1, <2>2
<1> QED BY <1>1, <1>2, Slot0

\* The invariant gives what the runs check.
LEMMA SafeRuns == SInv => RunsInLive
<1> SUFFICES ASSUME SInv, NEW i \in Slots, Alive(i), NEW k \in 1 .. Len(Nest(i))
             PROVE  Nest(i)[k] = 0 \/ Live(Nest(i)[k])
  BY DEF RunsInLive
<1>1. Al(thr, i)
  BY DEF Al, Alive
<1>2. thr[i].proc = 0 \/ Live(thr[i].proc)
  BY <1>1, Start DEF Good, InLive, Live
<1>3. Nest(i)[k] = 0 \/ Nest(i)[k] = thr[i].proc
  BY <1>1, NestIs
<1> QED BY <1>2, <1>3

LEMMA SafeCarried == KeepsLeaders => (SInv => CarriedOn)
<1> SUFFICES ASSUME KeepsLeaders, SInv, NEW p \in Pids, Live(p)
             PROVE  \E i \in Slots : Alive(i) /\ CanEnd(i, p)
  BY DEF CarriedOn
<1>1. PICK i \in Slots : Al(thr, i) /\ thr[i].leader /\ thr[i].proc = p
  BY Start DEF Good, Led, Live
<1>2. Alive(i) /\ thr[i].proc # 0
  BY <1>1, Constants DEF Al, Alive
<1>3. CASE i = 0
  <2>1. Len(Nest(i)) = 2 /\ Nest(i)[2] = p
    BY <1>1, <1>2, <1>3, NestIs
  <2>2. 2 \in 1 .. Len(Nest(i)) /\ Nest(i)[2] = p
    BY <2>1
  <2> QED BY <1>2, <2>2 DEF CanEnd
<1>4. CASE i # 0
  <2>1. Len(Nest(i)) = 1 /\ Nest(i)[1] = p /\ thr[i].entry = "process"
    BY <1>1, <1>2, <1>4, NestIs, Slot0
  <2>2. 1 \in 1 .. Len(Nest(i)) /\ Nest(i)[1] = p
    BY <2>1
  <2> QED BY <1>2, <2>1, <2>2 DEF CanEnd
<1> QED BY <1>3, <1>4

\* No thread outlives its process - it never runs in one that has ended or been
\* freed - whatever programs do, short of running the kernel's shell inside a
\* process.
THEOREM NoThreadOutlives == ASSUME \A d \in Cases : "tsh" \notin d PROVE Spec => []RunsInLive
<1>1. SInv /\ [Next]_vars => SInv'
  BY SafeStep
<1> QED BY <1>1, SafeInit, SafeRuns, PTL DEF Spec

\* Every process that lives has a thread that will end it, where no process with
\* several threads execs and no fork fails half way: the two ways the code has
\* to lose a process's leader.
THEOREM LiveIsCarriedOn ==
  ASSUME \A d \in Cases : "tsh" \notin d, KeepsLeaders PROVE Spec => []CarriedOn
<1>1. SInv /\ [Next]_vars => SInv'
  BY SafeStep
<1>2. SInv => CarriedOn
  BY SafeCarried
<1> QED BY <1>1, <1>2, SafeInit, PTL DEF Spec

----------------------------------------------------------------------------
(* Parents, children and the memory they are in, and the signals that end  *)
(* nobody.  Memory is lent by a vfork's parent to its child, by that child *)
(* to its own, and so on: what keeps it there is that each lender waits    *)
(* (VforkTurn), and that a child's pid comes after its parent's.           *)

\* Programs that lend their memory have one thread, and none runs the kernel's
\* shell in itself: with several, another thread may end the process while its
\* child is in its memory.
LendsAlone == \A d \in Cases : "tsh" \notin d /\ ~({"thread", "vfork"} \subseteq d)

Lends == "vfork" \in Does

AtVfork(th, i) == Al(th, i) /\ th[i].pc = "vfork"

\* A child's parent lives and came before it.
Kin(pr) ==
  \A p \in Pids : pr[p].st # "free" /\ pr[p].ppid # 0 =>
    pr[pr[p].ppid].st = "live" /\ pr[p].ppid < p

\* What the shell runs is nobody's child.
ShellsOwn(th, pr) == th[0].proc # 0 => pr[th[0].proc].ppid = 0

\* Where memory is lent, threads are alone in their processes.
Alone(th) == Lends =>
  \A i \in Slots : Al(th, i) /\ th[i].proc # 0 => th[i].leader /\ ~th[i].exiting

\* A process that runs is in memory of its own, which exists, or in its parent's.
Home(pr, sp, p) == pr[p].borrowed \/ (pr[p].space = p /\ p \in sp)
Homes(th, pr, sp) == \A i \in Slots : Al(th, i) /\ th[i].proc # 0 => Home(pr, sp, th[i].proc)

Owners(pr, sp) == \A p \in sp : pr[p].st = "live" /\ pr[p].space = p /\ ~pr[p].borrowed

\* The parent of a process in lent memory is in the same and waits for it.
Lent(th, pr) ==
  \A p \in Pids : pr[p].borrowed =>
    /\ Lends /\ pr[p].st = "live" /\ pr[p].ppid # 0 /\ pr[p].space = pr[pr[p].ppid].space
    /\ \E i \in Slots : AtVfork(th, i) /\ th[i].arg = p /\ th[i].proc = pr[p].ppid

\* Who waits for a child has one.
Waiters(th, pr) ==
  \A i \in Slots : AtVfork(th, i) =>
    /\ Lends /\ th[i].arg \in Pids /\ th[i].proc # 0
    /\ pr[th[i].arg].st # "free" /\ pr[th[i].arg].ppid = th[i].proc

Family(th, pr, sp) ==
  /\ Kin(pr) /\ ShellsOwn(th, pr) /\ Alone(th) /\ Homes(th, pr, sp)
  /\ Owners(pr, sp) /\ Lent(th, pr) /\ Waiters(th, pr)

FInv == SInv /\ Family(thr, proc, spaces)
----------------------------------------------------------------------------
(* What keeps families, by kinds of step.                                  *)

\* Threads move on, end, or start in memory that is there.
LEMMA ThreadsFamily ==
  ASSUME NEW th, NEW ti, NEW pr, NEW sp, Family(th, pr, sp), Al(th, 0),
         \A i \in Slots : Al(ti, i) /\ ti[i].proc # 0 =>
           /\ \/ \E j \in Slots : Al(th, j) /\ th[j].proc = ti[i].proc
              \/ Home(pr, sp, ti[i].proc)
           /\ Lends => ti[i].leader /\ ~ti[i].exiting,
         \A i \in Slots : AtVfork(ti, i) =>
           AtVfork(th, i) /\ ti[i].arg = th[i].arg /\ ti[i].proc = th[i].proc,
         \A i \in Slots : AtVfork(th, i) /\ pr[th[i].arg].borrowed =>
           AtVfork(ti, i) /\ ti[i].arg = th[i].arg /\ ti[i].proc = th[i].proc,
         ti[0].proc \in {th[0].proc, 0} \/ pr[ti[0].proc].ppid = 0
  PROVE  Family(ti, pr, sp)
<1>1. Kin(pr) /\ Owners(pr, sp)
  BY DEF Family
<1>2. ShellsOwn(ti, pr)
  BY DEF Family, ShellsOwn
<1>3. Alone(ti)
  BY DEF Alone
<1>4. Homes(ti, pr, sp)
  BY DEF Family, Homes
<1>5. Lent(ti, pr)
  BY DEF Family, Lent
<1>6. Waiters(ti, pr)
  BY DEF Family, Waiters
<1> QED BY <1>1, <1>2, <1>3, <1>4, <1>5, <1>6 DEF Family

\* Process q is in qr as in pr: whether it lives, whose it is and its memory.
As(q, qr, pr) ==
  /\ qr[q].st = pr[q].st /\ qr[q].ppid = pr[q].ppid
  /\ qr[q].borrowed = pr[q].borrowed /\ qr[q].space = pr[q].space

\* Processes of S end or go; their children are nobody's, and nobody is in them.
Ending(th, pr, qr, S) ==
  /\ S \subseteq Pids /\ th[0].proc \in Pids \union {0}
  /\ \A q \in Pids \ S :
       /\ qr[q].st = pr[q].st /\ qr[q].ppid \in {0, pr[q].ppid}
       /\ qr[q].borrowed = pr[q].borrowed /\ qr[q].space = pr[q].space
  /\ \A q \in Pids : qr[q].st # "free" => pr[q].st # "free" /\ qr[q].ppid \notin S
  /\ \A q \in S : qr[q].st # "live" /\ ~qr[q].borrowed
  /\ \A q \in S : qr[q].st # "free" => qr[q].ppid \in {0, pr[q].ppid}
  /\ \A i \in Slots : Al(th, i) => th[i].proc \in (Pids \union {0}) \ S
  /\ \A i \in Slots : AtVfork(th, i) =>
       qr[th[i].arg].st # "free" /\ qr[th[i].arg].ppid = pr[th[i].arg].ppid
  /\ \A q \in Pids : pr[q].ppid \in Pids \union {0}

LEMMA EndsFamily ==
  ASSUME NEW th, NEW pr, NEW qr, NEW sp, NEW S, Family(th, pr, sp), sp \subseteq Pids,
         Ending(th, pr, qr, S), Al(th, 0), 0 \in Slots
  PROVE  Family(th, qr, sp \ S)
<1> USE DEF Ending
<1> DEFINE sq == sp \ S
<1>0. \A q \in Pids \ S : /\ qr[q].st = pr[q].st /\ qr[q].borrowed = pr[q].borrowed
                          /\ qr[q].space = pr[q].space /\ qr[q].ppid \in {0, pr[q].ppid}
  OBVIOUS
<1>1. Kin(qr)
  <2> SUFFICES ASSUME NEW q \in Pids, qr[q].st # "free", qr[q].ppid # 0
               PROVE  qr[qr[q].ppid].st = "live" /\ qr[q].ppid < q
    BY DEF Kin
  <2>1. pr[q].st # "free" /\ qr[q].ppid = pr[q].ppid /\ qr[q].ppid \notin S
    BY <1>0
  <2>2. pr[qr[q].ppid].st = "live" /\ qr[q].ppid < q /\ qr[q].ppid \in Pids
    BY <2>1 DEF Family, Kin
  <2> QED BY <1>0, <2>1, <2>2
<1>2. ShellsOwn(th, qr)
  <2> SUFFICES ASSUME th[0].proc # 0 PROVE qr[th[0].proc].ppid = 0
    BY DEF ShellsOwn
  <2>1. th[0].proc \in Pids \ S /\ pr[th[0].proc].ppid = 0
    BY DEF Family, ShellsOwn
  <2> QED BY <1>0, <2>1
<1>3. Alone(th)
  BY DEF Family
<1>4. Homes(th, qr, sq)
  <2> SUFFICES ASSUME NEW i \in Slots, Al(th, i), th[i].proc # 0 PROVE Home(qr, sq, th[i].proc)
    BY DEF Homes
  <2>1. th[i].proc \in Pids \ S /\ Home(pr, sp, th[i].proc)
    BY DEF Family, Homes
  <2> QED BY <1>0, <2>1 DEF Home
<1>5. Owners(qr, sq)
  BY <1>0 DEF Family, Owners
<1>6. Lent(th, qr)
  <2> SUFFICES ASSUME NEW q \in Pids, qr[q].borrowed
               PROVE  /\ Lends /\ qr[q].st = "live" /\ qr[q].ppid # 0 /\ qr[q].space = qr[qr[q].ppid].space
                      /\ \E i \in Slots : AtVfork(th, i) /\ th[i].arg = q /\ th[i].proc = qr[q].ppid
    BY DEF Lent
  <2>1. q \in Pids \ S /\ pr[q].borrowed
    BY <1>0
  <2>2. PICK i \in Slots : AtVfork(th, i) /\ th[i].arg = q /\ th[i].proc = pr[q].ppid
    BY <2>1 DEF Family, Lent
  <2>3. /\ Lends /\ pr[q].st = "live" /\ pr[q].ppid # 0 /\ pr[q].space = pr[pr[q].ppid].space
    BY <2>1 DEF Family, Lent
  <2>4. qr[q].ppid = pr[q].ppid /\ pr[q].ppid \in Pids \ S
    BY <2>2, <2>3 DEF AtVfork
  <2> QED BY <1>0, <2>1, <2>2, <2>3, <2>4
<1>7. Waiters(th, qr)
  BY DEF Family, Waiters
<1> QED BY <1>1, <1>2, <1>3, <1>4, <1>5, <1>6, <1>7 DEF Family

\* Nothing of this changes for any process.
LEMMA SameFamily ==
  ASSUME NEW th, NEW pr, NEW qr, NEW sp, Family(th, pr, sp),
         \A q \in Pids : As(q, qr, pr), \A q \in Pids : pr[q].ppid \in Pids \union {0},
         th[0].proc \in Pids \union {0}, sp \subseteq Pids, Al(th, 0), 0 \in Slots,
         \A i \in Slots : Al(th, i) => th[i].proc \in Pids \union {0}
  PROVE  Family(th, qr, sp)
<1>1. sp \ {} = sp
  OBVIOUS
<1>2. \A i \in Slots : AtVfork(th, i) =>
           qr[th[i].arg].st # "free" /\ qr[th[i].arg].ppid = pr[th[i].arg].ppid
  BY DEF Family, Waiters, As
<1>3. Ending(th, pr, qr, {})
  BY <1>2 DEF Ending, As
<1> QED BY <1>1, <1>3, EndsFamily

\* A new process n, in which nobody is yet.
Bearing(th, pr, qr, n) ==
  /\ n \in Pids /\ pr[n].st = "free" /\ qr[n].st = "live" /\ ~qr[n].borrowed
  /\ \A q \in Pids \ {n} : qr[q] = pr[q]
  /\ qr[n].ppid # 0 => qr[n].ppid \in Pids /\ pr[qr[n].ppid].st = "live" /\ qr[n].ppid < n
  /\ \A q \in Pids : pr[q].ppid \in Pids \union {0}
  /\ \A i \in Slots : Al(th, i) => th[i].proc \in (Pids \union {0}) \ {n}

LEMMA BornFamily ==
  ASSUME NEW th, NEW pr, NEW qr, NEW sp, NEW sq, NEW n, Family(th, pr, sp),
         Bearing(th, pr, qr, n), sp \subseteq Pids, Al(th, 0), 0 \in Slots,
         sq = sp \/ (qr[n].space = n /\ sq = sp \union {n})
  PROVE  Family(th, qr, sq)
<1> USE DEF Bearing
<1>0. n \notin sp /\ ~pr[n].borrowed
  BY DEF Family, Owners, Lent
<1>1. Kin(qr)
  BY DEF Family, Kin
<1>2. ShellsOwn(th, qr)
  BY DEF Family, ShellsOwn
<1>3. Alone(th)
  BY DEF Family
<1>4. Homes(th, qr, sq)
  <2> SUFFICES ASSUME NEW i \in Slots, Al(th, i), th[i].proc # 0 PROVE Home(qr, sq, th[i].proc)
    BY DEF Homes
  <2>1. th[i].proc \in Pids \ {n} /\ Home(pr, sp, th[i].proc)
    BY DEF Family, Homes
  <2> QED BY <2>1 DEF Home
<1>5. Owners(qr, sq)
  BY <1>0 DEF Family, Owners
<1>6. Lent(th, qr)
  <2> SUFFICES ASSUME NEW q \in Pids, qr[q].borrowed
               PROVE  /\ Lends /\ qr[q].st = "live" /\ qr[q].ppid # 0 /\ qr[q].space = qr[qr[q].ppid].space
                      /\ \E i \in Slots : AtVfork(th, i) /\ th[i].arg = q /\ th[i].proc = qr[q].ppid
    BY DEF Lent
  <2>1. q # n /\ qr[q] = pr[q]
    OBVIOUS
  <2>2. /\ Lends /\ pr[q].st = "live" /\ pr[q].ppid # 0 /\ pr[q].space = pr[pr[q].ppid].space
        /\ \E i \in Slots : AtVfork(th, i) /\ th[i].arg = q /\ th[i].proc = pr[q].ppid
    BY <2>1 DEF Family, Lent
  <2>3. pr[pr[q].ppid].st = "live" /\ pr[q].ppid \in Pids
    BY <2>2 DEF Family, Kin
  <2> QED BY <2>1, <2>2, <2>3
<1>7. Waiters(th, qr)
  BY DEF Family, Waiters
<1> QED BY <1>1, <1>2, <1>3, <1>4, <1>5, <1>6, <1>7 DEF Family
----------------------------------------------------------------------------
(* Steps in which the current thread moves on.                             *)

\* The types that every step's proof uses.
LEMMA FamilyTypes ==
  ASSUME SInv
  PROVE  /\ \A q \in Pids : proc[q].ppid \in Pids \union {0} /\ DOMAIN proc[q] = DOMAIN NoProcess
         /\ spaces \subseteq Pids /\ thr[0].proc \in Pids \union {0} /\ Al(thr, 0)
         /\ \A i \in Slots : Al(thr, i) => thr[i].proc \in Pids \union {0}
         /\ cur \in Slots /\ Al(thr, cur) /\ thr[cur] \in Thread /\ Me = thr[cur].proc
         /\ thr \in [Slots -> Thread] /\ proc \in [Pids -> Process]
<1>1. spaces \subseteq Pids
  BY Start DEF TInv, TypeOK
<1>2. \A q \in Pids : proc[q].ppid \in Pids \union {0} /\ DOMAIN proc[q] = DOMAIN NoProcess
  BY Start DEF Process, NoProcess
<1> QED BY <1>1, <1>2, Start, Slot0 DEF Me

\* A lender waits for one child, and is not running.
LEMMA LenderWaits ==
  ASSUME SInv, NEW pr, NEW sp, Family(thr, pr, sp), thr[cur].pc # "vfork",
         NEW i \in Slots, AtVfork(thr, i)
  PROVE  i # cur /\ thr[i].proc # Me
<1>1. Lends /\ thr[i].proc # 0 /\ Al(thr, i)
  BY DEF Family, Waiters, AtVfork
<1>2. thr[i].leader /\ (Me # 0 => thr[cur].leader)
  BY <1>1, FamilyTypes DEF Family, Alone
<1>3. OneLeader(thr) /\ i # cur
  BY Start DEF Good, AtVfork
<1> QED BY <1>1, <1>2, <1>3, FamilyTypes DEF OneLeader

LEMMA MoveFamily ==
  ASSUME SInv, NEW pr, NEW sp, Family(thr, pr, sp), NEW ti, NEW t, Al(ti, 0),
         Al(ti, cur) => ti[cur] = t,
         \A i \in Slots : i # cur /\ Al(ti, i) => Al(thr, i) /\ ti[i] = thr[i],
         \A i \in Slots : i # cur /\ AtVfork(thr, i) => Al(ti, i),
         t.proc = thr[cur].proc, t.leader = thr[cur].leader,
         Lends => (t.exiting => thr[cur].exiting),
         t.pc = "vfork" => thr[cur].pc = "vfork" /\ t.arg = thr[cur].arg,
         thr[cur].pc = "vfork" => (t.pc = "vfork" /\ Al(ti, cur)) \/ ~pr[thr[cur].arg].borrowed
  PROVE  Family(ti, pr, sp)
<1>1. cur \in Slots /\ Al(thr, cur) /\ Al(thr, 0) /\ 0 \in Slots
  BY FamilyTypes, Constants
<1>2. ASSUME NEW i \in Slots, Al(ti, i), ti[i].proc # 0
      PROVE  /\ \E j \in Slots : Al(thr, j) /\ thr[j].proc = ti[i].proc
             /\ Lends => ti[i].leader /\ ~ti[i].exiting
  <2>1. Al(thr, i) /\ ti[i].proc = thr[i].proc /\ ti[i].leader = thr[i].leader
        /\ (Lends => (ti[i].exiting => thr[i].exiting))
    BY <1>1, <1>2
  <2> QED BY <1>2, <2>1 DEF Family, Alone
<1>3. ASSUME NEW i \in Slots, AtVfork(ti, i)
      PROVE  AtVfork(thr, i) /\ ti[i].arg = thr[i].arg /\ ti[i].proc = thr[i].proc
  BY <1>1, <1>3 DEF AtVfork
<1>4. ASSUME NEW i \in Slots, AtVfork(thr, i), pr[thr[i].arg].borrowed
      PROVE  AtVfork(ti, i) /\ ti[i].arg = thr[i].arg /\ ti[i].proc = thr[i].proc
  BY <1>1, <1>4 DEF AtVfork
<1>5. ti[0].proc = thr[0].proc
  BY <1>1
<1> QED BY <1>1, <1>2, <1>3, <1>4, <1>5, ThreadsFamily

\* switch_to takes no living thread away.
LEMMA SwitchKeeps ==
  ASSUME NEW th, SwitchNext(th), NEW i \in Slots
  PROVE  (Al(thr', i) <=> Al(th, i)) /\ (Al(th, i) => thr'[i] = th[i])
BY DEF SwitchNext, Reaped, NoThread, Al

\* The current thread is t now, with or without a switch.
LEMMA StepFamily ==
  ASSUME SInv, Family(thr, proc, spaces), \A q \in Pids : As(q, proc', proc), spaces' = spaces,
         NEW t, NEW th, th = [thr EXCEPT ![cur] = t], thr' = th \/ SwitchNext(th),
         t.proc = thr[cur].proc, t.leader = thr[cur].leader,
         t.dead => cur # 0 /\ thr[cur].pc # "vfork", t.pc # "free",
         Lends => (t.exiting => thr[cur].exiting),
         t.pc = "vfork" => thr[cur].pc = "vfork" /\ t.arg = thr[cur].arg,
         thr[cur].pc = "vfork" => t.pc = "vfork" \/ ~proc[thr[cur].arg].borrowed
  PROVE  Family(thr', proc', spaces')
<1>1. cur \in Slots /\ Al(thr, cur) /\ Al(thr, 0) /\ 0 \in Slots /\ thr \in [Slots -> Thread]
  BY FamilyTypes, Constants
<1>2. th[cur] = t /\ \A i \in Slots : i # cur => th[i] = thr[i]
  BY <1>1
<1>3. \A i \in Slots : (Al(thr', i) <=> Al(th, i)) /\ (Al(th, i) => thr'[i] = th[i])
  BY SwitchKeeps
<1>4. \A i \in Slots : i # cur => (Al(th, i) <=> Al(thr, i))
  BY <1>2 DEF Al
<1>5. (~t.dead => Al(th, cur)) /\ Al(th, 0)
  BY <1>1, <1>2, <1>4 DEF Al
<1>6. Family(thr', proc, spaces)
  <2>1. Al(thr', 0) /\ (Al(thr', cur) => thr'[cur] = t)
    BY <1>1, <1>2, <1>3, <1>5
  <2>2. \A i \in Slots : i # cur /\ Al(thr', i) => Al(thr, i) /\ thr'[i] = thr[i]
    BY <1>2, <1>3, <1>4
  <2>3. \A i \in Slots : i # cur /\ AtVfork(thr, i) => Al(thr', i)
    BY <1>3, <1>4 DEF AtVfork
  <2>4. thr[cur].pc = "vfork" => (t.pc = "vfork" /\ Al(thr', cur)) \/ ~proc[thr[cur].arg].borrowed
    BY <1>1, <1>3, <1>5
  <2> QED BY <2>1, <2>2, <2>3, <2>4, MoveFamily
<1>7. \A i \in Slots : Al(thr', i) => thr'[i].proc \in Pids \union {0}
  BY <1>2, <1>3, <1>4, FamilyTypes
<1>8. thr'[0].proc \in Pids \union {0} /\ Al(thr', 0) /\ 0 \in Slots
  BY <1>1, <1>3, <1>5, <1>7
<1> QED BY <1>6, <1>7, <1>8, FamilyTypes, SameFamily

\* Goto and YieldAt
LEMMA GoFamily ==
  ASSUME SInv, Family(thr, proc, spaces), \A q \in Pids : As(q, proc', proc), spaces' = spaces,
         NEW l \in Labels \ {"free"}, Goto(l) \/ YieldAt(l),
         (l = "vfork") => thr[cur].pc = "vfork" /\ YieldAt(l),
         thr[cur].pc = "vfork" => l = "vfork" \/ ~proc[thr[cur].arg].borrowed
  PROVE  Family(thr', proc', spaces')
<1> DEFINE a == [thr[cur] EXCEPT !.pc = l, !.arg = 0]
           b == [thr[cur] EXCEPT !.pc = l]
<1>1. thr[cur] \in Thread /\ cur \in Slots /\ thr \in [Slots -> Thread] /\ Al(thr, cur)
  BY FamilyTypes
<1>2. /\ a.pc = l /\ a.proc = thr[cur].proc /\ a.leader = thr[cur].leader /\ ~a.dead
      /\ a.exiting = thr[cur].exiting
      /\ b.pc = l /\ b.proc = thr[cur].proc /\ b.leader = thr[cur].leader /\ ~b.dead
      /\ b.exiting = thr[cur].exiting /\ b.arg = thr[cur].arg
  BY <1>1 DEF Thread, Al
<1>3. Goto(l) => thr' = [thr EXCEPT ![cur] = a]
  BY <1>1 DEF Goto
<1>4. YieldAt(l) => SwitchNext([thr EXCEPT ![cur] = b])
  BY <1>1 DEF YieldAt
<1> HIDE DEF a, b
<1>5. CASE Goto(l) /\ l # "vfork"
  BY <1>2, <1>3, <1>5, StepFamily
<1>6. CASE YieldAt(l)
  BY <1>2, <1>4, <1>6, StepFamily
<1> QED BY <1>5, <1>6

\* What is pending, what is done with a signal: nothing of families.
LEMMA SignalToAs ==
  ASSUME SInv, NEW ps, NEW s, NEW q \in Pids PROVE As(q, SignalTo(proc, ps, s), proc)
<1>1. SignalTo(proc, ps, s)[q] = proc[q] \/ SignalTo(proc, ps, s)[q] = [proc[q] EXCEPT !.pend = @ \union {s}]
  BY DEF SignalTo
<1> QED BY <1>1, FamilyTypes DEF As, Process

LEMMA PendAs ==
  ASSUME SInv, NEW S, proc' = [proc EXCEPT ![Me].pend = S], NEW q \in Pids PROVE As(q, proc', proc)
BY FamilyTypes DEF As, Process

LEMMA SameAs == ASSUME SInv, proc' = proc, NEW q \in Pids PROVE As(q, proc', proc)
BY DEF As
\* signal_fatal, found in a wait or on the way back to the program
LEMMA DieFamily ==
  ASSUME SInv, Family(thr, proc, spaces), Die, thr[cur].pc # "vfork"
  PROVE  Family(thr', proc', spaces')
<1> DEFINE t == [thr[cur] EXCEPT !.pc = "exit", !.code = Min(Fatal), !.arg = 0]
<1>1. thr' = [thr EXCEPT ![cur] = t]
  BY FamilyTypes DEF Die
<1>2. /\ t.pc = "exit" /\ t.proc = thr[cur].proc /\ t.leader = thr[cur].leader /\ ~t.dead
      /\ t.exiting = thr[cur].exiting
  BY FamilyTypes DEF Thread, Al
<1>3. \A q \in Pids : As(q, proc', proc)
  BY PendAs DEF Die
<1> HIDE DEF t
<1> QED BY <1>1, <1>2, <1>3, StepFamily DEF Die

LEMMA WaitTurnFamily ==
  ASSUME SInv, Family(thr, proc, spaces), NEW l \in {"sleep", "wait4"}, WaitTurn(l),
         thr[cur].pc = l
  PROVE  Family(thr', proc', spaces')
<1>1. CASE Die
  BY <1>1, DieFamily
<1>2. CASE ~Die
  <2>1. \A q \in Pids : As(q, proc', proc)
    BY <1>2, PendAs DEF WaitTurn
  <2>2. spaces' = spaces /\ (Goto("ret") \/ YieldAt(l))
    BY <1>2 DEF WaitTurn
  <2> QED BY <2>1, <2>2, GoFamily DEF Labels
<1> QED BY <1>1, <1>2

\* Who waited for a child to have memory of its own may go on: it has.
LEMMA VforkTurnFamily ==
  ASSUME SInv, Family(thr, proc, spaces), VforkTurn PROVE Family(thr', proc', spaces')
<1>1. thr[cur].pc = "vfork" /\ spaces' = spaces /\ proc' = proc
  BY DEF VforkTurn, At
<1>2. Used(thr[cur].arg)
  BY <1>1, FamilyTypes DEF Family, Waiters, AtVfork, Used
<1>3. YieldAt("vfork") \/ (Goto("ret") /\ ~proc[thr[cur].arg].borrowed)
  BY <1>2 DEF VforkTurn
<1> QED BY <1>1, <1>3, SameAs, GoFamily DEF Labels

\* The child a parent collects is not one that another of its threads waits for.
LEMMA CollectFamily ==
  ASSUME SInv, Family(thr, proc, spaces), thr[cur].pc = "wait4",
         NEW c \in Pids, proc[c].st = "zombie", proc[c].ppid = Me,
         proc' = [proc EXCEPT ![c] = NoProcess], spaces' = spaces, Goto("ret")
  PROVE  Family(thr', proc', spaces')
<1>1. \A i \in Slots : AtVfork(thr, i) => thr[i].arg # c /\ thr[i].arg \in Pids
  <2> SUFFICES ASSUME NEW i \in Slots, AtVfork(thr, i) PROVE thr[i].arg # c /\ thr[i].arg \in Pids
    OBVIOUS
  <2>1. thr[i].proc # Me
    BY LenderWaits
  <2> QED BY <2>1 DEF Family, Waiters
<1>2. \A i \in Slots : Al(thr, i) => thr[i].proc \in (Pids \union {0}) \ {c}
  <2> SUFFICES ASSUME NEW i \in Slots, Al(thr, i) PROVE thr[i].proc # c
    BY FamilyTypes
  <2> QED BY Start, Constants DEF Good, InLive
<1>3. c \notin spaces /\ thr[0].proc # c
  <2>1. 0 \in Slots /\ Al(thr, 0)
    BY FamilyTypes, Constants
  <2> QED BY <1>2, <2>1 DEF Family, Owners
<1>4. /\ proc'[c].st = "free" /\ proc'[c].ppid = 0 /\ ~proc'[c].borrowed
      /\ \A q \in Pids \ {c} : proc'[q] = proc[q]
  BY FamilyTypes DEF NoProcess
<1>5. \A q \in Pids : proc[q].st # "free" => proc[q].ppid # c
  BY Constants DEF Family, Kin
<1>6. Family(thr, proc', spaces)
  <2>1. \A i \in Slots : AtVfork(thr, i) =>
           proc'[thr[i].arg].st # "free" /\ proc'[thr[i].arg].ppid = proc[thr[i].arg].ppid
    BY <1>1, <1>4 DEF Family, Waiters
  <2>2. spaces \ {c} = spaces
    BY <1>3
  <2>3. Ending(thr, proc, proc', {c})
    BY <1>2, <1>3, <1>4, <1>5, <2>1, FamilyTypes DEF Ending
  <2> QED BY <2>2, <2>3, FamilyTypes, Constants, EndsFamily
<1> DEFINE t == [thr[cur] EXCEPT !.pc = "ret", !.arg = 0]
<1>7. thr' = [thr EXCEPT ![cur] = t]
  BY FamilyTypes DEF Goto
<1>8. /\ t.pc = "ret" /\ t.proc = thr[cur].proc /\ t.leader = thr[cur].leader /\ ~t.dead
      /\ t.exiting = thr[cur].exiting
  BY FamilyTypes DEF Thread, Al
<1> HIDE DEF t
<1>9. thr'[cur] = t /\ \A i \in Slots : i # cur => thr'[i] = thr[i]
  BY <1>7, FamilyTypes
<1>10. /\ Al(thr', cur) /\ \A i \in Slots : i # cur => (Al(thr', i) <=> Al(thr, i))
  BY <1>8, <1>9 DEF Al
<1>11. Al(thr', 0)
  BY <1>10, FamilyTypes, Constants
<1> QED BY <1>6, <1>8, <1>9, <1>10, <1>11, MoveFamily DEF AtVfork

LEMMA WaitsFamily ==
  ASSUME SInv, Family(thr, proc, spaces), Waits PROVE Family(thr', proc', spaces')
<1>1. CASE VforkTurn
  BY <1>1, VforkTurnFamily
<1>2. CASE JoinTurn
  <2>1. /\ thr[cur].pc = "join" /\ spaces' = spaces /\ proc' = proc
        /\ Goto("unwind") \/ YieldAt("join")
    BY <1>2 DEF JoinTurn, At
  <2> QED BY <2>1, SameAs, GoFamily DEF Labels
<1>3. CASE Wait4Turn
  <2>1. thr[cur].pc = "wait4"
    BY <1>3 DEF Wait4Turn, At
  <2>2. CASE WaitTurn("wait4")
    BY <2>1, <2>2, WaitTurnFamily
  <2>3. CASE Goto("ret") /\ UNCHANGED <<cur, proc, nextPid, spaces, fg, calls>>
    BY <2>1, <2>3, SameAs, GoFamily DEF Labels
  <2>4. CASE /\ Goto("ret") /\ spaces' = spaces
             /\ \E c \in Pids : /\ proc[c].st = "zombie" /\ proc[c].ppid = Me
                                /\ proc' = [proc EXCEPT ![c] = NoProcess]
    BY <2>1, <2>4, CollectFamily
  <2> QED BY <1>3, <2>2, <2>3, <2>4 DEF Wait4Turn, Kids
<1>4. CASE SleepTurn
  <2>1. thr[cur].pc = "sleep"
    BY <1>4 DEF SleepTurn, At
  <2>2. CASE WaitTurn("sleep")
    BY <2>1, <2>2, WaitTurnFamily
  <2>3. CASE Goto("ret") /\ UNCHANGED <<cur, proc, nextPid, spaces, fg, calls>>
    BY <2>1, <2>3, SameAs, GoFamily DEF Labels
  <2> QED BY <1>4, <2>2, <2>3 DEF SleepTurn
<1> QED BY <1>1, <1>2, <1>3, <1>4 DEF Waits

\* The calls that make and end nothing, and what happens on the way in and out.
LEMMA SimpleFamily ==
  ASSUME SInv, Family(thr, proc, spaces),
         \/ Sleep \/ DispatchTail \/ ShellIdle
         \/ \E want \in Pids \union {0}, nohang \in BOOLEAN : Wait4(want, nohang)
         \/ \E s \in Sigs : Kill(s)
         \/ \E s \in Sigs, h \in Handlers : Sigaction(s, h)
         \/ \E s \in Sigs : Sigprocmask(s)
         \/ ThreadExit \/ ExitGroup \/ LeaderTold \/ UnwindThread
         \/ ToUser \/ \E s \in {SIGINT, SIGKILL} : KeyTyped(s)
  PROVE  Family(thr', proc', spaces')
<1>0. thr[cur] \in Thread /\ cur \in Slots /\ thr \in [Slots -> Thread] /\ Al(thr, cur)
  BY FamilyTypes
<1>1. CASE Sleep
  BY <1>1, SameAs, GoFamily DEF Sleep, At, Labels
<1>2. CASE DispatchTail
  BY <1>2, SameAs, GoFamily DEF DispatchTail, At, Labels
<1>3. CASE ShellIdle
  BY <1>3, SameAs, GoFamily DEF ShellIdle, At, Labels
<1>4. ASSUME NEW want \in Pids \union {0}, NEW nohang \in BOOLEAN, Wait4(want, nohang)
      PROVE  Family(thr', proc', spaces')
  <2>1. thr[cur].pc = "user" /\ proc' = proc /\ spaces' = spaces
    BY <1>4 DEF Wait4, At
  <2>2. CASE Goto("ret")
    BY <2>1, <2>2, SameAs, GoFamily DEF Labels
  <2>3. CASE thr' = [thr EXCEPT ![cur].pc = "wait4", ![cur].arg = want]
    <3> DEFINE t == [thr[cur] EXCEPT !.pc = "wait4", !.arg = want]
    <3>1. thr' = [thr EXCEPT ![cur] = t]
      BY <1>0, <2>3
    <3>2. /\ t.pc = "wait4" /\ t.proc = thr[cur].proc /\ t.leader = thr[cur].leader /\ ~t.dead
          /\ t.exiting = thr[cur].exiting
      BY <1>0 DEF Thread, Al
    <3> HIDE DEF t
    <3> QED BY <2>1, <3>1, <3>2, SameAs, StepFamily
  <2> QED BY <1>4, <2>2, <2>3 DEF Wait4
<1>5. ASSUME NEW s \in Sigs, Kill(s) PROVE Family(thr', proc', spaces')
  <2>1. \A q \in Pids : As(q, proc', proc)
    BY <1>5, SignalToAs DEF Kill
  <2> QED BY <1>5, <2>1, GoFamily DEF Kill, At, Labels
<1>6. ASSUME NEW s \in Sigs, NEW h \in Handlers, Sigaction(s, h) PROVE Family(thr', proc', spaces')
  <2>1. \A q \in Pids : As(q, proc', proc)
    BY <1>6, FamilyTypes DEF Sigaction, As, Process
  <2> QED BY <1>6, <2>1, GoFamily DEF Sigaction, At, Labels
<1>7. ASSUME NEW s \in Sigs, Sigprocmask(s) PROVE Family(thr', proc', spaces')
  <2> DEFINE b == IF s \in thr[cur].blocked THEN thr[cur].blocked \ {s} ELSE thr[cur].blocked \union {s}
             t == [thr[cur] EXCEPT !.pc = "ret", !.blocked = b]
  <2>1. thr' = [thr EXCEPT ![cur] = t] /\ proc' = proc /\ spaces' = spaces /\ thr[cur].pc = "user"
    BY <1>0, <1>7 DEF Sigprocmask, At
  <2>2. /\ t.pc = "ret" /\ t.proc = thr[cur].proc /\ t.leader = thr[cur].leader /\ ~t.dead
        /\ t.exiting = thr[cur].exiting
    <3> HIDE DEF b
    <3> QED BY <1>0 DEF Thread, Al
  <2> HIDE DEF t
  <2> QED BY <2>1, <2>2, SameAs, StepFamily
<1>8. CASE ThreadExit
  <2> DEFINE l == IF thr[cur].leader THEN "join" ELSE "unwind"
             t == [thr[cur] EXCEPT !.pc = l, !.code = 0]
  <2>1. thr' = [thr EXCEPT ![cur] = t] /\ proc' = proc /\ spaces' = spaces /\ thr[cur].pc = "user"
    BY <1>0, <1>8 DEF ThreadExit, At
  <2>2. /\ t.pc \notin {"free", "vfork"} /\ t.proc = thr[cur].proc /\ t.leader = thr[cur].leader /\ ~t.dead
        /\ t.exiting = thr[cur].exiting
    BY <1>0 DEF Thread, Al
  <2> HIDE DEF t
  <2> QED BY <2>1, <2>2, SameAs, StepFamily
<1>9. CASE ExitGroup
  <2> DEFINE t == [thr[cur] EXCEPT !.pc = "exit", !.code = 0]
  <2>1. thr' = [thr EXCEPT ![cur] = t] /\ proc' = proc /\ spaces' = spaces /\ thr[cur].pc = "user"
    BY <1>0, <1>9 DEF ExitGroup, At
  <2>2. /\ t.pc = "exit" /\ t.proc = thr[cur].proc /\ t.leader = thr[cur].leader /\ ~t.dead
        /\ t.exiting = thr[cur].exiting
    BY <1>0 DEF Thread, Al
  <2> HIDE DEF t
  <2> QED BY <2>1, <2>2, SameAs, StepFamily
<1>10. CASE LeaderTold
  <2> DEFINE t == [thr[cur] EXCEPT !.exiting = FALSE, !.pc = "exit", !.arg = 0]
  <2>1. thr' = [thr EXCEPT ![cur] = t] /\ proc' = proc /\ spaces' = spaces /\ thr[cur].exiting
    BY <1>0, <1>10 DEF LeaderTold
  <2>2. /\ t.pc = "exit" /\ t.proc = thr[cur].proc /\ t.leader = thr[cur].leader /\ ~t.dead
        /\ ~t.exiting
    BY <1>0 DEF Thread, Al
  <2>3. thr[cur].pc # "vfork"
    BY <1>0, <2>1 DEF Family, Waiters, AtVfork, Alone
  <2> HIDE DEF t
  <2> QED BY <2>1, <2>2, <2>3, SameAs, StepFamily
<1>11. CASE UnwindThread
  <2> DEFINE t == [thr[cur] EXCEPT !.dead = TRUE]
  <2>1. /\ SwitchNext([thr EXCEPT ![cur] = t]) /\ proc' = proc /\ spaces' = spaces
        /\ thr[cur].pc = "unwind" /\ cur # 0
    BY <1>0, <1>11, Slot0 DEF UnwindThread, At
  <2>2. /\ t.pc = "unwind" /\ t.proc = thr[cur].proc /\ t.leader = thr[cur].leader
        /\ t.exiting = thr[cur].exiting
    BY <1>0, <2>1 DEF Thread
  <2> HIDE DEF t
  <2> QED BY <2>1, <2>2, SameAs, StepFamily
<1>12. CASE ToUser
  <2>1. thr[cur].pc = "resched"
    BY <1>12 DEF ToUser, At
  <2>2. CASE Die
    BY <2>1, <2>2, DieFamily
  <2>3. CASE ~Die
    <3>1. \A q \in Pids : As(q, proc', proc)
      BY <1>12, <2>3, FamilyTypes DEF ToUser, As, Process
    <3> QED BY <1>12, <2>1, <2>3, <3>1, GoFamily DEF ToUser, Labels
  <2> QED BY <2>2, <2>3
<1>13. ASSUME NEW s \in {SIGINT, SIGKILL}, KeyTyped(s) PROVE Family(thr', proc', spaces')
  <2>1. UNCHANGED <<thr, spaces>>
    BY <1>13 DEF KeyTyped
  <2>2. \A q \in Pids : As(q, proc', proc)
    BY <1>13, SignalToAs DEF KeyTyped
  <2> QED BY <2>1, <2>2, FamilyTypes, Constants, SameFamily
<1> QED BY <1>1, <1>2, <1>3, <1>4, <1>5, <1>6, <1>7, <1>8, <1>9, <1>10, <1>11, <1>12, <1>13
----------------------------------------------------------------------------
(* execve, exit and the threads they end.                                  *)

LEMMA EndOthersFamily ==
  ASSUME SInv, NEW pr, NEW sp, Family(thr, pr, sp), thr[cur].pc # "vfork",
         NEW t, thr' = [EndOthers(thr) EXCEPT ![cur] = t], ~t.dead, t.pc \notin {"free", "vfork"},
         t.proc = thr[cur].proc, t.leader = thr[cur].leader,
         Lends => (t.exiting => thr[cur].exiting)
  PROVE  Family(thr', pr, sp)
<1>1. EndOthers(thr) \in [Slots -> Thread] /\ cur \in Slots
  BY Start, EndOthersType DEF TInv, Table
<1>2. thr'[cur] = t /\ \A i \in Slots : i # cur => thr'[i] = EndOthers(thr)[i]
  BY <1>1
<1>3. Al(thr', cur) /\ \A i \in Slots : i # cur => (Al(thr', i) <=> Al(EndOthers(thr), i))
  BY <1>2 DEF Al
<1>4. \A i \in Slots : i # cur /\ Al(thr', i) => Al(thr, i) /\ thr'[i] = thr[i]
  BY <1>2, <1>3, EndOthersAl
<1>5. \A i \in Slots : i # cur /\ AtVfork(thr, i) => Al(thr', i)
  BY <1>3, EndOthersAl, LenderWaits DEF AtVfork
<1>6. Al(thr', 0)
  BY <1>3, EndOthersAl, FamilyTypes, Constants
<1> QED BY <1>2, <1>4, <1>5, <1>6, MoveFamily

\* A vfork's child gets a space of its own.
LEMMA OwnSpaceFamily ==
  ASSUME SInv, Family(thr, proc, spaces), thr[cur].pc = "user",
         \A q \in Pids \ {Me} : proc'[q] = proc[q],
         proc'[Me].st = proc[Me].st, proc'[Me].ppid = proc[Me].ppid, ~proc'[Me].borrowed,
         proc'[Me].space = IF proc[Me].borrowed THEN Me ELSE proc[Me].space,
         spaces' = IF proc[Me].borrowed THEN spaces \union {Me} ELSE spaces
  PROVE  Family(thr, proc', spaces')
<1>0. Me \in Pids /\ Me # 0 /\ proc[Me].st = "live"
  BY MeLives
<1>3. \A q \in Pids : /\ proc'[q].st = proc[q].st /\ proc'[q].ppid = proc[q].ppid
                      /\ proc[q].ppid # 0 => proc[q].ppid \in Pids
  BY FamilyTypes
<1>1. CASE ~proc[Me].borrowed
  <2>1. Kin(proc')
    BY <1>3 DEF Family, Kin
  <2>2. ShellsOwn(thr, proc')
    BY FamilyTypes DEF Family, ShellsOwn
  <2>3. Homes(thr, proc', spaces')
    BY <1>1, FamilyTypes DEF Family, Homes, Home
  <2>4. Owners(proc', spaces')
    BY <1>1, FamilyTypes DEF Family, Owners
  <2>5. Lent(thr, proc')
    <3> SUFFICES ASSUME NEW q \in Pids, proc'[q].borrowed
                 PROVE  /\ Lends /\ proc'[q].st = "live" /\ proc'[q].ppid # 0 /\ proc'[q].space = proc'[proc'[q].ppid].space
                        /\ \E i \in Slots : AtVfork(thr, i) /\ thr[i].arg = q /\ thr[i].proc = proc'[q].ppid
      BY DEF Lent
    <3>1. q # Me /\ proc'[q] = proc[q]
      OBVIOUS
    <3> QED BY <1>1, <3>1, FamilyTypes DEF Family, Lent
  <2>6. Waiters(thr, proc')
    BY <1>1 DEF Family, Waiters
  <2> QED BY <2>1, <2>2, <2>3, <2>4, <2>5, <2>6 DEF Family
<1>2. CASE proc[Me].borrowed
  <2>1. Kin(proc')
    BY <1>3 DEF Family, Kin
  <2>2. ShellsOwn(thr, proc')
    BY FamilyTypes DEF Family, ShellsOwn
  <2>3. Homes(thr, proc', spaces')
    BY <1>0, <1>2, FamilyTypes DEF Family, Homes, Home
  <2>4. Owners(proc', spaces')
    BY <1>0, <1>2, FamilyTypes DEF Family, Owners
  <2>5. Lent(thr, proc')
    <3> SUFFICES ASSUME NEW q \in Pids, proc'[q].borrowed
                 PROVE  /\ Lends /\ proc'[q].st = "live" /\ proc'[q].ppid # 0 /\ proc'[q].space = proc'[proc'[q].ppid].space
                        /\ \E i \in Slots : AtVfork(thr, i) /\ thr[i].arg = q /\ thr[i].proc = proc'[q].ppid
      BY DEF Lent
    <3>1. q # Me /\ proc'[q] = proc[q]
      OBVIOUS
    <3>2. /\ Lends /\ proc[q].st = "live" /\ proc[q].ppid # 0 /\ proc[q].space = proc[proc[q].ppid].space
      BY <3>1 DEF Family, Lent
    <3>3. PICK i \in Slots : AtVfork(thr, i) /\ thr[i].arg = q /\ thr[i].proc = proc[q].ppid
      BY <3>1 DEF Family, Lent
    <3>4. proc[q].ppid # Me /\ proc[q].ppid \in Pids
      BY <3>2, <3>3, LenderWaits, FamilyTypes
    <3> QED BY <3>1, <3>2, <3>3, <3>4
  <2>6. Waiters(thr, proc')
    BY <1>0 DEF Family, Waiters
  <2> QED BY <2>1, <2>2, <2>3, <2>4, <2>5, <2>6 DEF Family
<1> QED BY <1>1, <1>2

\* execve, in whichever way it ends
LEMMA ExecFamily ==
  ASSUME SInv, Family(thr, proc, spaces), Exec \/ ExecNoSpace \/ ExecNoLoad
  PROVE  Family(thr', proc', spaces')
<1>1. /\ cur \in Slots /\ thr[cur] \in Thread /\ Al(thr, cur) /\ thr[cur].pc = "user"
      /\ Me \in Pids /\ proc \in [Pids -> Process]
  BY FamilyTypes, MeLives DEF Exec, ExecNoSpace, ExecNoLoad, MayExec, At
<1>2. EndOthers(thr) \in [Slots -> Thread] /\ EndOthers(thr)[cur] = thr[cur]
  BY Start, EndOthersType DEF TInv, Table
<1> DEFINE a == [thr[cur] EXCEPT !.pc = "ret"]
           b == [thr[cur] EXCEPT !.pc = "exit", !.code = 0]
<1>3. thr' = [EndOthers(thr) EXCEPT ![cur] = a] \/ thr' = [EndOthers(thr) EXCEPT ![cur] = b]
  BY <1>1, <1>2 DEF Exec, ExecNoSpace, ExecNoLoad
<1>4. /\ a.proc = thr[cur].proc /\ a.leader = thr[cur].leader /\ ~a.dead /\ a.pc = "ret"
      /\ a.exiting = thr[cur].exiting
      /\ b.proc = thr[cur].proc /\ b.leader = thr[cur].leader /\ ~b.dead /\ b.pc = "exit"
      /\ b.exiting = thr[cur].exiting
  BY <1>1 DEF Thread, Al
<1> HIDE DEF a, b
<1>5. Family(thr, proc', spaces')
  <2> DEFINE sp == IF proc[Me].borrowed THEN Me ELSE proc[Me].space
             ac == [s \in Sigs |-> IF proc[Me].act[s] = "ign" THEN "ign" ELSE "dfl"]
             c == [proc[Me] EXCEPT !.borrowed = FALSE, !.space = sp, !.act = ac]
             d == [proc[Me] EXCEPT !.borrowed = FALSE, !.space = sp]
  <2>1. /\ c.st = proc[Me].st /\ c.ppid = proc[Me].ppid /\ ~c.borrowed /\ c.space = sp
        /\ d.st = proc[Me].st /\ d.ppid = proc[Me].ppid /\ ~d.borrowed /\ d.space = sp
    <3> HIDE DEF sp, ac
    <3> QED BY <1>1 DEF Process
  <2>2. CASE Exec
    <3>1. proc' = [proc EXCEPT ![Me] = c]
      BY <1>1, <2>2 DEF Exec
    <3> HIDE DEF c
    <3>2. \A q \in Pids \ {Me} : proc'[q] = proc[q]
      BY <1>1, <3>1
    <3>3. /\ proc'[Me].st = proc[Me].st /\ proc'[Me].ppid = proc[Me].ppid /\ ~proc'[Me].borrowed
          /\ proc'[Me].space = IF proc[Me].borrowed THEN Me ELSE proc[Me].space
      BY <1>1, <2>1, <3>1
    <3> QED BY <1>1, <2>2, <3>2, <3>3, OwnSpaceFamily DEF Exec
  <2>3. CASE ExecNoLoad
    <3>1. proc' = [proc EXCEPT ![Me] = d]
      BY <1>1, <2>3 DEF ExecNoLoad
    <3> HIDE DEF d
    <3>2. \A q \in Pids \ {Me} : proc'[q] = proc[q]
      BY <1>1, <3>1
    <3>3. /\ proc'[Me].st = proc[Me].st /\ proc'[Me].ppid = proc[Me].ppid /\ ~proc'[Me].borrowed
          /\ proc'[Me].space = IF proc[Me].borrowed THEN Me ELSE proc[Me].space
      BY <1>1, <2>1, <3>1
    <3> QED BY <1>1, <2>3, <3>2, <3>3, OwnSpaceFamily DEF ExecNoLoad
  <2>4. CASE ExecNoSpace
    BY <2>4 DEF ExecNoSpace
  <2> QED BY <2>2, <2>3, <2>4
<1> QED BY <1>1, <1>3, <1>4, <1>5, EndOthersFamily

\* process_exit
LEMMA ProcessExitFamily ==
  ASSUME SInv, Family(thr, proc, spaces), ProcessExit PROVE Family(thr', proc', spaces')
<1> DEFINE others == LeadersOf(Me) \ {cur}
<1>0. /\ cur \in Slots /\ thr[cur] \in Thread /\ Al(thr, cur) /\ thr[cur].pc = "exit"
      /\ proc' = proc /\ spaces' = spaces /\ thr \in [Slots -> Thread]
  BY FamilyTypes DEF ProcessExit, At
<1>1. CASE cur \notin LeadersOf(Me) /\ others # {}
  <2> DEFINE l == Min(others)
             tl == [thr[l] EXCEPT !.exiting = TRUE, !.code = thr[cur].code]
             tc == [thr[cur] EXCEPT !.dead = TRUE]
             th == [thr EXCEPT ![l].exiting = TRUE, ![l].code = thr[cur].code, ![cur].dead = TRUE]
  <2>1. l \in others
    BY <1>1, MinIn, Constants DEF LeadersOf, ThreadsOf
  <2>2. thr' = Reaped(th, l) /\ l \in Slots /\ l # cur /\ Al(thr, l)
    BY <1>1, <2>1 DEF ProcessExit, LeadersOf, ThreadsOf, Alive, Al
  <2> HIDE DEF l
  <2>3. th[l] = tl /\ th[cur] = tc /\ \A i \in Slots : i # l /\ i # cur => th[i] = thr[i]
    BY <1>0, <2>2
  <2>4. ~Lends
    <3>1. ~thr[cur].leader
      BY <1>0, <1>1 DEF LeadersOf, ThreadsOf, Alive, Al, Me
    <3>2. Me # 0
      BY <1>0, MeLives
    <3> QED BY <1>0, <3>1, <3>2, FamilyTypes DEF Family, Alone
  <2>5. tc.dead /\ tl.proc = thr[l].proc /\ tl.pc = thr[l].pc /\ ~tl.dead
    BY <1>0, <2>2 DEF Thread, Al
  <2> HIDE DEF th, tl, tc
  <2>6. \A i \in Slots : (Al(thr', i) <=> Al(th, i)) /\ (Al(th, i) => thr'[i] = th[i])
    BY <2>2 DEF Reaped, NoThread, Al
  <2>7. ~Al(th, cur) /\ \A i \in Slots : i # cur => (Al(th, i) <=> Al(thr, i)) /\ th[i].proc = thr[i].proc
                                                    /\ th[i].pc = thr[i].pc
    BY <2>2, <2>3, <2>5 DEF Al
  <2>8. cur # 0
    <3>1. ~thr[cur].leader
      BY <1>0, <1>1 DEF LeadersOf, ThreadsOf, Alive, Al, Me
    <3> QED BY <1>0, <3>1, Slot0
  <2>9. \A i \in Slots : ~AtVfork(thr, i)
    BY <2>4 DEF Family, Waiters
  <2>10. \A i \in Slots : ~AtVfork(thr', i)
    BY <2>6, <2>7, <2>9 DEF AtVfork
  <2>11. thr'[0].proc = thr[0].proc
    BY <2>6, <2>7, <2>8, FamilyTypes, Constants
  <2>12. \A i \in Slots : Al(thr', i) => \E j \in Slots : Al(thr, j) /\ thr[j].proc = thr'[i].proc
    BY <2>6, <2>7
  <2> QED BY <1>0, <2>4, <2>9, <2>10, <2>11, <2>12, FamilyTypes, ThreadsFamily
<1>2. CASE ~(cur \notin LeadersOf(Me) /\ others # {})
  <2> DEFINE t == [thr[cur] EXCEPT !.pc = "unwind"]
  <2>1. EndOthers(thr) \in [Slots -> Thread] /\ EndOthers(thr)[cur] = thr[cur]
    BY Start, EndOthersType DEF TInv, Table
  <2>2. thr' = [EndOthers(thr) EXCEPT ![cur] = t]
    BY <1>0, <1>2, <2>1 DEF ProcessExit
  <2>3. t.proc = thr[cur].proc /\ t.leader = thr[cur].leader /\ ~t.dead /\ t.pc = "unwind"
        /\ t.exiting = thr[cur].exiting
    BY <1>0 DEF Thread, Al
  <2> HIDE DEF t
  <2> QED BY <1>0, <2>2, <2>3, EndOthersFamily
<1> QED BY <1>1, <1>2
----------------------------------------------------------------------------
(* fork, clone and the programs the shell runs.                            *)

\* proc_new's first pass forgets nobody's child that somebody waits for.
LEMMA ForgottenFamily ==
  ASSUME SInv, Family(thr, proc, spaces)
  PROVE  /\ Family(thr, Forgotten, spaces)
         /\ \A q \in Pids : Forgotten[q].ppid \in Pids \union {0}
         /\ \A q \in Pids : proc[q].st = "free" => Forgotten[q].st = "free"
         /\ \A q \in Pids : proc[q].st = "live" => Forgotten[q] = proc[q]
<1> DEFINE S == {p \in Pids : proc[p].st = "zombie" /\ proc[p].ppid = 0 /\ p # Me}
<1>1. /\ \A q \in Pids \ S : Forgotten[q] = proc[q]
      /\ \A q \in S : Forgotten[q].st = "free" /\ ~Forgotten[q].borrowed /\ Forgotten[q].ppid = 0
                       /\ proc[q].st = "zombie"
  BY DEF Forgotten, NoProcess
<1>2. \A i \in Slots : Al(thr, i) => thr[i].proc \in (Pids \union {0}) \ S
  BY FamilyTypes, Start, Constants DEF Good, InLive
<1>3. \A i \in Slots : AtVfork(thr, i) => thr[i].arg \in Pids \ S /\ proc[thr[i].arg].st # "free"
  BY DEF Family, Waiters
<1>4. \A q \in Pids : proc[q].st # "free" => proc[q].ppid \notin S
  BY Constants DEF Family, Kin
<1>5. spaces \ S = spaces
  BY DEF Family, Owners
<1>6. S \subseteq Pids
  OBVIOUS
<1> HIDE DEF S
<1>7. Ending(thr, proc, Forgotten, S)
  BY <1>1, <1>2, <1>3, <1>4, <1>6, FamilyTypes DEF Ending
<1>8. Family(thr, Forgotten, spaces)
  BY <1>5, <1>7, FamilyTypes, Constants, EndsFamily
<1>9. \A q \in Pids : Forgotten[q].ppid \in Pids \union {0}
  BY <1>1, FamilyTypes
<1>10. \A q \in Pids : proc[q].st = "live" => q \notin S
  BY <1>1
<1> QED BY <1>1, <1>8, <1>9, <1>10

\* thread_new, and the current thread moved on.
Spawned(n, u, t) ==
  /\ n \in Slots \ {0} /\ n # cur /\ ~Al(thr, n) /\ thr'[n] = u /\ thr'[cur] = t
  /\ \A i \in Slots : i # n /\ i # cur => (Al(thr', i) <=> Al(thr, i)) /\ (Al(thr', i) => thr'[i] = thr[i])

LEMMA SpawnIs ==
  ASSUME SInv, FreeSlots(thr) # {}, NEW u, NEW t,
         thr' = [[Reaped(thr, cur) EXCEPT ![Min(FreeSlots(thr))] = u] EXCEPT ![cur] = t]
  PROVE  \E n \in Slots : Spawned(n, u, t)
<1> DEFINE re == Reaped(thr, cur)
           n == Min(FreeSlots(thr))
<1>1. re \in [Slots -> Thread] /\ re[cur] = thr[cur] /\ cur \in Slots /\ Al(thr, cur)
  BY ReapedCur, Start
<1>2. n \in FreeSlots(thr) /\ n \in Slots \ {0} /\ re[n].pc = "free"
  <2>1. FreeSlots(thr) \subseteq Slots \ {0}
    BY DEF FreeSlots
  <2>2. n \in FreeSlots(thr)
    BY <2>1, MinIn, Constants
  <2> QED BY <2>1, <2>2 DEF FreeSlots
<1>3. /\ \A i \in Slots : Al(re, i) <=> Al(thr, i)
      /\ \A i \in Slots : Al(thr, i) => re[i] = thr[i]
  BY ReapedCur
<1>4. n # cur /\ ~Al(thr, n)
  <2>1. ~Al(re, n)
    BY <1>2 DEF Al
  <2>2. ~Al(thr, n)
    BY <1>2, <1>3, <2>1
  <2> QED BY <1>1, <2>2
<1>5. thr' = [[re EXCEPT ![n] = u] EXCEPT ![cur] = t]
  OBVIOUS
<1> HIDE DEF re, n
<1>6. thr'[n] = u /\ thr'[cur] = t /\ \A i \in Slots : i # n /\ i # cur => thr'[i] = re[i]
  BY <1>1, <1>2, <1>4, <1>5
<1>7. \A i \in Slots : i # n /\ i # cur => (Al(thr', i) <=> Al(re, i))
  BY <1>6 DEF Al
<1>8. \A i \in Slots : i # n /\ i # cur => (Al(thr', i) <=> Al(thr, i)) /\ (Al(thr', i) => thr'[i] = thr[i])
  BY <1>3, <1>6, <1>7
<1>9. Spawned(n, u, t)
  BY <1>2, <1>4, <1>6, <1>8 DEF Spawned
<1> QED BY <1>2, <1>9

\* A thread in memory that is there.
LEMMA SpawnFamily ==
  ASSUME SInv, NEW pr, NEW sp, Family(thr, pr, sp), thr[cur].pc # "vfork",
         NEW n \in Slots, NEW u, NEW t, Spawned(n, u, t),
         ~t.dead, t.pc \notin {"free", "vfork"}, t.proc = thr[cur].proc, t.leader = thr[cur].leader,
         t.exiting = thr[cur].exiting,
         u.pc = "user", Lends => u.leader /\ ~u.exiting,
         u.proc = Me \/ Home(pr, sp, u.proc)
  PROVE  Family(thr', pr, sp)
<1>1. cur \in Slots /\ Al(thr, cur) /\ Me = thr[cur].proc /\ 0 \in Slots /\ Al(thr, 0)
  BY FamilyTypes, Constants
<1>2. ASSUME NEW i \in Slots, Al(thr', i), thr'[i].proc # 0
      PROVE  /\ \/ \E j \in Slots : Al(thr, j) /\ thr[j].proc = thr'[i].proc
                \/ Home(pr, sp, thr'[i].proc)
             /\ Lends => thr'[i].leader /\ ~thr'[i].exiting
  <2>1. CASE i = n
    BY <1>1, <2>1 DEF Spawned
  <2>2. CASE i # n
    <3>1. \E j \in Slots : Al(thr, j) /\ thr[j].proc = thr'[i].proc /\ thr[j].leader = thr'[i].leader
                            /\ thr[j].exiting = thr'[i].exiting
      BY <1>1, <1>2, <2>2 DEF Spawned
    <3> QED BY <1>2, <3>1 DEF Family, Alone
  <2> QED BY <2>1, <2>2
<1>3. \A i \in Slots : AtVfork(thr', i) =>
           AtVfork(thr, i) /\ thr'[i].arg = thr[i].arg /\ thr'[i].proc = thr[i].proc
  BY <1>1 DEF Spawned, AtVfork
<1>4. \A i \in Slots : AtVfork(thr, i) =>
           AtVfork(thr', i) /\ thr'[i].arg = thr[i].arg /\ thr'[i].proc = thr[i].proc
  BY <1>1 DEF Spawned, AtVfork
<1>5. thr'[0].proc = thr[0].proc
  BY <1>1 DEF Spawned
<1> QED BY <1>1, <1>2, <1>3, <1>4, <1>5, ThreadsFamily

\* clone
LEMMA CloneFamily ==
  ASSUME SInv, Family(thr, proc, spaces), ~Lends, Clone PROVE Family(thr', proc', spaces')
<1>0. /\ thr[cur].pc = "user" /\ proc' = proc /\ spaces' = spaces
      /\ cur \in Slots /\ Al(thr, cur) /\ thr[cur] \in Thread /\ Me \in Pids
  BY FamilyTypes, MeLives DEF Clone, At
<1> DEFINE u == NewThread(Me, FALSE, "thread")
           t == [thr[cur] EXCEPT !.pc = "ret"]
           re == Reaped(thr, cur)
           w == [re EXCEPT ![Min(FreeSlots(thr))] = u]
<1>1. u.pc = "user" /\ u.proc = Me
  BY DEF NewThread, NoThread
<1>2. t.proc = thr[cur].proc /\ t.leader = thr[cur].leader /\ ~t.dead /\ t.pc = "ret"
        /\ t.exiting = thr[cur].exiting
  BY <1>0 DEF Thread, Al
<1>3. re \in [Slots -> Thread] /\ re[cur] = thr[cur] /\ re[cur].pc # "free"
  BY <1>0, ReapedCur
<1>4. CASE FreeSlots(thr) # {}
  <2>1. Min(FreeSlots(thr)) # cur
    <3>1. Min(FreeSlots(thr)) \in FreeSlots(thr)
      BY <1>4, MinIn, Constants DEF FreeSlots
    <3> QED BY <1>3, <3>1 DEF FreeSlots
  <2>2. w[cur] = thr[cur] /\ cur \in DOMAIN w
    BY <1>0, <1>3, <2>1
  <2>3. thr' = [w EXCEPT ![cur].pc = "ret"]
    BY <1>4 DEF Clone, WithThread
  <2>4. thr' = [w EXCEPT ![cur] = t]
    <3> HIDE DEF w
    <3> QED BY <2>2, <2>3
  <2>5. thr' = [[Reaped(thr, cur) EXCEPT ![Min(FreeSlots(thr))] = u] EXCEPT ![cur] = t]
    BY <2>4
  <2> HIDE DEF u, t, re, w
  <2>6. PICK n \in Slots : Spawned(n, u, t)
    BY <1>4, <2>5, SpawnIs
  <2> QED BY <1>0, <1>1, <1>2, <2>6, SpawnFamily
<1>5. CASE FreeSlots(thr) = {}
  <2>1. thr' = [re EXCEPT ![cur] = t]
    BY <1>0, <1>3, <1>5 DEF Clone
  <2> HIDE DEF t
  <2>2. /\ \A i \in Slots : Al(thr', i) <=> Al(thr, i)
        /\ \A i \in Slots : i # cur /\ Al(thr', i) => thr'[i] = thr[i]
        /\ thr'[cur] = t
    BY <1>2, <2>1, ReapedHere
  <2> QED BY <1>0, <1>2, <2>2, FamilyTypes, Constants, MoveFamily DEF AtVfork
<1> QED BY <1>4, <1>5
\* A new pid is nobody's, and a process's own pid comes before it.
LEMMA NextPidIs ==
  ASSUME SInv, RoomFor(Forgotten), Family(thr, proc, spaces)
  PROVE  /\ nextPid \in Pids /\ proc[nextPid].st = "free" /\ Forgotten[nextPid].st = "free"
         /\ Forgotten \in [Pids -> Process]
         /\ \A i \in Slots : Al(thr, i) => thr[i].proc \in (Pids \union {0}) \ {nextPid}
         /\ Me # 0 => Me \in Pids /\ Me < nextPid /\ proc[Me].st = "live" /\ Forgotten[Me] = proc[Me]
<1>1. nextPid \in Pids /\ Forgotten \in [Pids -> Process]
  BY Start, RoomType, ForgottenType DEF TInv, Procs
<1>2. proc[nextPid].st = "free"
  BY <1>1, Start, ConstantsAssumption DEF Pids
<1>3. \A i \in Slots : Al(thr, i) => thr[i].proc \in Pids \union {0} /\ thr[i].proc < nextPid
  BY FamilyTypes, Start DEF Good, Fresh
<1>4. \A i \in Slots : Al(thr, i) => thr[i].proc # nextPid
  BY <1>1, <1>3, ConstantsAssumption DEF Pids
<1>5. Me # 0 => Me \in Pids /\ Me < nextPid /\ proc[Me].st = "live"
  BY <1>3, FamilyTypes, Start DEF Good, InLive
<1> QED BY <1>1, <1>2, <1>3, <1>4, <1>5, ForgottenFamily

\* A process that is in nobody else's memory.
LEMMA NewFamily ==
  ASSUME SInv, Family(thr, proc, spaces), RoomFor(Forgotten), NEW c,
         proc' = [Forgotten EXCEPT ![nextPid] = c], c.st = "live", ~c.borrowed,
         c.ppid # 0 => c.ppid = Me,
         spaces' = spaces \/ (c.space = nextPid /\ spaces' = spaces \union {nextPid})
  PROVE  /\ Family(thr, proc', spaces') /\ nextPid \in Pids /\ proc'[nextPid] = c
<1>1. /\ nextPid \in Pids /\ Forgotten[nextPid].st = "free"
      /\ \A i \in Slots : Al(thr, i) => thr[i].proc \in (Pids \union {0}) \ {nextPid}
      /\ Me # 0 => Me \in Pids /\ Me < nextPid /\ Forgotten[Me].st = "live"
      /\ Forgotten \in [Pids -> Process]
  BY NextPidIs
<1>2. proc'[nextPid] = c /\ \A q \in Pids \ {nextPid} : proc'[q] = Forgotten[q]
  BY <1>1
<1>3. Family(thr, Forgotten, spaces) /\ \A q \in Pids : Forgotten[q].ppid \in Pids \union {0}
  BY ForgottenFamily
<1>4. Bearing(thr, Forgotten, proc', nextPid)
  BY <1>1, <1>2, <1>3, FamilyTypes DEF Bearing
<1>5. Family(thr, proc', spaces')
  <2>1. spaces' = spaces \/ (proc'[nextPid].space = nextPid /\ spaces' = spaces \union {nextPid})
    BY <1>2
  <2>2. spaces \subseteq Pids /\ Al(thr, 0) /\ 0 \in Slots
    BY FamilyTypes, Constants
  <2> QED BY <1>3, <1>4, <2>1, <2>2, BornFamily
<1> QED BY <1>1, <1>2, <1>5

\* The child's first thread and its parent's next place.
LEMMA ForkThreads ==
  ASSUME SInv, NEW share \in BOOLEAN, Fork(share)
  PROVE  \E u, t :
         /\ \E n \in Slots : Spawned(n, u, t)
         /\ u.pc = "user" /\ u.proc = nextPid /\ u.leader /\ ~u.exiting /\ ~u.dead
         /\ t.proc = thr[cur].proc /\ t.leader = thr[cur].leader /\ ~t.dead
         /\ t.exiting = thr[cur].exiting
         /\ IF share THEN t.pc = "vfork" /\ t.arg = nextPid ELSE t.pc = "ret"
<1> DEFINE re == Reaped(thr, cur)
           u == NewThread(nextPid, TRUE, "process")
           w == [re EXCEPT ![Min(FreeSlots(thr))] = u]
           l == IF share THEN "vfork" ELSE "ret"
           a == IF share THEN nextPid ELSE 0
           t == [thr[cur] EXCEPT !.pc = l, !.arg = a]
<1>0. /\ thr[cur].pc = "user" /\ FreeSlots(thr) # {}
      /\ cur \in Slots /\ Al(thr, cur) /\ thr[cur] \in Thread
  BY FamilyTypes DEF Fork, At
<1>1. u.pc = "user" /\ u.proc = nextPid /\ u.leader /\ ~u.exiting /\ ~u.dead
  BY DEF NewThread, NoThread
<1>2. /\ t.proc = thr[cur].proc /\ t.leader = thr[cur].leader /\ ~t.dead
      /\ t.exiting = thr[cur].exiting /\ t.pc = l /\ t.arg = a
  <2> HIDE DEF l, a
  <2> QED BY <1>0 DEF Thread, Al
<1>3. re \in [Slots -> Thread] /\ re[cur] = thr[cur] /\ re[cur].pc # "free"
  BY <1>0, ReapedCur
<1>4. Min(FreeSlots(thr)) # cur
  <2>1. Min(FreeSlots(thr)) \in FreeSlots(thr)
    BY <1>0, MinIn, Constants DEF FreeSlots
  <2> QED BY <1>3, <2>1 DEF FreeSlots
<1>5. w[cur] = thr[cur] /\ cur \in DOMAIN w
  BY <1>0, <1>3, <1>4
<1>6. thr' = [w EXCEPT ![cur].pc = l, ![cur].arg = a]
  BY DEF Fork, WithThread
<1>7. thr' = [w EXCEPT ![cur] = t]
  <2> HIDE DEF w, l, a
  <2> QED BY <1>5, <1>6
<1>8. thr' = [[Reaped(thr, cur) EXCEPT ![Min(FreeSlots(thr))] = u] EXCEPT ![cur] = t]
  BY <1>7
<1>9. \E n \in Slots : Spawned(n, u, t)
  <2> HIDE DEF re, u, t, w, l, a
  <2> QED BY <1>0, <1>8, SpawnIs
<1>10. IF share THEN t.pc = "vfork" /\ t.arg = nextPid ELSE t.pc = "ret"
  <2> HIDE DEF t
  <2> QED BY <1>2
<1> HIDE DEF u, t
<1> QED BY <1>1, <1>2, <1>9, <1>10

\* fork
LEMMA ForkFamily ==
  ASSUME SInv, Family(thr, proc, spaces), Fork(FALSE) PROVE Family(thr', proc', spaces')
<1>0. /\ thr[cur].pc = "user" /\ RoomFor(Forgotten) /\ Me \in Pids /\ proc \in [Pids -> Process]
      /\ proc' = [Forgotten EXCEPT ![nextPid] = Child(FALSE)] /\ spaces' = spaces \union {nextPid}
      /\ proc[Me].st = "live"
  BY FamilyTypes, MeLives DEF Fork, At
<1>1. /\ Child(FALSE).st = "live" /\ ~Child(FALSE).borrowed /\ Child(FALSE).ppid = Me
      /\ Child(FALSE).space = nextPid
  BY <1>0 DEF Child, Process
<1>2. Family(thr, proc', spaces') /\ nextPid \in Pids /\ proc'[nextPid] = Child(FALSE)
  <2> HIDE DEF Child
  <2> QED BY <1>0, <1>1, NewFamily
<1>3. Home(proc', spaces', nextPid)
  BY <1>0, <1>1, <1>2 DEF Home
<1>4. PICK share \in BOOLEAN : ~share /\ Fork(share)
  OBVIOUS
<1>5. PICK u, t :
      /\ \E n \in Slots : Spawned(n, u, t)
      /\ u.pc = "user" /\ u.proc = nextPid /\ u.leader /\ ~u.exiting /\ ~u.dead
      /\ t.proc = thr[cur].proc /\ t.leader = thr[cur].leader /\ ~t.dead
      /\ t.exiting = thr[cur].exiting
      /\ IF share THEN t.pc = "vfork" /\ t.arg = nextPid ELSE t.pc = "ret"
  BY <1>4, ForkThreads
<1>6. t.pc = "ret"
  BY <1>4, <1>5
<1>7. PICK n \in Slots : Spawned(n, u, t)
  BY <1>5
<1> QED BY <1>0, <1>2, <1>3, <1>5, <1>6, <1>7, SpawnFamily

\* vfork
LEMMA VforkFamily ==
  ASSUME SInv, Family(thr, proc, spaces), Fork(TRUE) PROVE Family(thr', proc', spaces')
<1>0. /\ thr[cur].pc = "user" /\ RoomFor(Forgotten) /\ Me \in Pids /\ proc \in [Pids -> Process]
      /\ proc' = [Forgotten EXCEPT ![nextPid] = Child(TRUE)] /\ spaces' = spaces
      /\ proc[Me].st = "live" /\ Lends /\ Me # 0
  BY FamilyTypes, MeLives DEF Fork, At, Lends
<1> DEFINE pr == Forgotten
           c == Child(TRUE)
<1>1. /\ c.st = "live" /\ c.borrowed /\ c.ppid = Me /\ c.space = proc[Me].space
  BY <1>0 DEF Child, Process
<1>2. /\ nextPid \in Pids /\ pr[nextPid].st = "free" /\ pr \in [Pids -> Process]
      /\ \A i \in Slots : Al(thr, i) => thr[i].proc \in (Pids \union {0}) \ {nextPid}
      /\ Me < nextPid /\ pr[Me] = proc[Me] /\ Me # nextPid
  BY <1>0, NextPidIs
<1>3. Family(thr, pr, spaces) /\ \A q \in Pids : pr[q].ppid \in Pids \union {0}
  BY ForgottenFamily
<1> HIDE DEF pr, c
<1>4. proc'[nextPid] = c /\ \A q \in Pids \ {nextPid} : proc'[q] = pr[q]
  BY <1>0, <1>2 DEF pr, c
<1>7. PICK u, t :
      /\ \E n \in Slots : Spawned(n, u, t)
      /\ u.pc = "user" /\ u.proc = nextPid /\ u.leader /\ ~u.exiting /\ ~u.dead
      /\ t.proc = thr[cur].proc /\ t.leader = thr[cur].leader /\ ~t.dead
      /\ t.exiting = thr[cur].exiting /\ t.pc = "vfork" /\ t.arg = nextPid
  BY ForkThreads
<1>8. PICK n \in Slots : Spawned(n, u, t)
  BY <1>7
<1>9. /\ cur \in Slots /\ Al(thr, cur) /\ Me = thr[cur].proc /\ 0 \in Slots /\ Al(thr, 0)
      /\ Al(thr', cur) /\ Al(thr', n)
  BY <1>7, <1>8, FamilyTypes, Constants DEF Spawned, Al
<1>10. Kin(proc')
  <2> SUFFICES ASSUME NEW q \in Pids, proc'[q].st # "free", proc'[q].ppid # 0
               PROVE  proc'[proc'[q].ppid].st = "live" /\ proc'[q].ppid < q
    BY DEF Kin
  <2>1. CASE q = nextPid
    BY ZenonT(60), <1>0, <1>1, <1>2, <1>4, <2>1
  <2>2. CASE q # nextPid
    <3>1. pr[q].ppid \in Pids /\ pr[pr[q].ppid].st = "live" /\ pr[q].ppid < q /\ proc'[q] = pr[q]
      BY <1>3, <1>4, <2>2 DEF Family, Kin
    <3> QED BY <1>2, <1>4, <3>1
  <2> QED BY <2>1, <2>2
<1>11. ShellsOwn(thr', proc')
  <2>1. thr'[0].proc = thr[0].proc /\ thr[0].proc \in (Pids \union {0}) \ {nextPid}
    BY <1>2, <1>7, <1>8, <1>9 DEF Spawned
  <2> QED BY <1>3, <1>4, <2>1 DEF Family, ShellsOwn
<1>12. Alone(thr')
  <2> SUFFICES ASSUME NEW i \in Slots, Al(thr', i), thr'[i].proc # 0 PROVE thr'[i].leader /\ ~thr'[i].exiting
    BY DEF Alone
  <2>1. CASE i = n
    BY <1>7, <1>8, <2>1 DEF Spawned
  <2>2. CASE i = cur
    BY <1>0, <1>3, <1>7, <1>8, <1>9, <2>2 DEF Spawned, Family, Alone
  <2>3. CASE i # n /\ i # cur
    BY <1>0, <1>3, <1>8, <2>3 DEF Spawned, Family, Alone
  <2> QED BY <2>1, <2>2, <2>3
<1>13. Homes(thr', proc', spaces')
  <2> SUFFICES ASSUME NEW i \in Slots, Al(thr', i), thr'[i].proc # 0 PROVE Home(proc', spaces, thr'[i].proc)
    BY <1>0 DEF Homes
  <2>1. CASE i = n
    BY <1>1, <1>4, <1>7, <1>8, <2>1 DEF Spawned, Home
  <2>2. CASE i # n
    <3>1. \E j \in Slots : Al(thr, j) /\ thr[j].proc = thr'[i].proc
      BY <1>7, <1>8, <1>9, <2>2 DEF Spawned
    <3>2. thr'[i].proc \in Pids \ {nextPid} /\ Home(pr, spaces, thr'[i].proc)
      BY <1>2, <1>3, <3>1 DEF Family, Homes
    <3> QED BY <1>4, <3>2 DEF Home
  <2> QED BY <2>1, <2>2
<1>14. Owners(proc', spaces')
  <2>1. nextPid \notin spaces /\ spaces \subseteq Pids
    BY <1>2, <1>3, FamilyTypes DEF Family, Owners
  <2> QED BY ZenonT(60), <1>0, <1>3, <1>4, <2>1 DEF Family, Owners
<1>15. Lent(thr', proc')
  <2> SUFFICES ASSUME NEW q \in Pids, proc'[q].borrowed
               PROVE  /\ Lends /\ proc'[q].st = "live" /\ proc'[q].ppid # 0 /\ proc'[q].space = proc'[proc'[q].ppid].space
                      /\ \E i \in Slots : AtVfork(thr', i) /\ thr'[i].arg = q /\ thr'[i].proc = proc'[q].ppid
    BY DEF Lent
  <2>1. CASE q = nextPid
    <3>1. AtVfork(thr', cur) /\ thr'[cur].arg = nextPid /\ thr'[cur].proc = Me
      BY <1>7, <1>8, <1>9 DEF Spawned, AtVfork
    <3>2. proc'[Me].space = proc[Me].space
      BY <1>0, <1>2, <1>4
    <3> QED BY <1>0, <1>1, <1>4, <1>9, <2>1, <3>1, <3>2
  <2>2. CASE q # nextPid
    <3>1. proc'[q] = pr[q]
      BY <1>4, <2>2
    <3>2. PICK i \in Slots : AtVfork(thr, i) /\ thr[i].arg = q /\ thr[i].proc = pr[q].ppid
      BY <1>3, <3>1 DEF Family, Lent
    <3>3. pr[q].st = "live" /\ pr[q].ppid # 0 /\ pr[q].space = pr[pr[q].ppid].space
      BY <1>3, <3>1 DEF Family, Lent
    <3>4. i # cur /\ i # n
      BY <1>0, <1>8, <3>2 DEF AtVfork, Spawned
    <3>5. AtVfork(thr', i) /\ thr'[i] = thr[i]
      BY <1>8, <3>2, <3>4 DEF Spawned, AtVfork
    <3>6. pr[q].ppid \in Pids \ {nextPid}
      BY <1>2, <3>2, <3>3 DEF AtVfork
    <3> QED BY ZenonT(60), <1>0, <1>4, <3>1, <3>2, <3>3, <3>5, <3>6
  <2> QED BY <2>1, <2>2
<1>16. Waiters(thr', proc')
  <2> SUFFICES ASSUME NEW i \in Slots, AtVfork(thr', i)
               PROVE  /\ Lends /\ thr'[i].arg \in Pids /\ thr'[i].proc # 0
                      /\ proc'[thr'[i].arg].st # "free" /\ proc'[thr'[i].arg].ppid = thr'[i].proc
    BY DEF Waiters
  <2>1. CASE i = cur
    BY ZenonT(60), <1>0, <1>1, <1>2, <1>4, <1>7, <1>8, <1>9, <2>1 DEF Spawned
  <2>2. CASE i # cur
    <3>1. i # n
      BY <1>7, <1>8 DEF Spawned, AtVfork
    <3>2. AtVfork(thr, i) /\ thr'[i] = thr[i]
      BY <1>8, <2>2, <3>1 DEF Spawned, AtVfork
    <3>3. /\ thr[i].arg \in Pids /\ thr[i].proc # 0
          /\ pr[thr[i].arg].st # "free" /\ pr[thr[i].arg].ppid = thr[i].proc
      BY <1>3, <3>2 DEF Family, Waiters
    <3>4. thr[i].arg # nextPid
      BY <1>2, <3>3
    <3> QED BY <1>0, <1>4, <3>2, <3>3, <3>4
  <2> QED BY <2>1, <2>2
<1> QED BY <1>10, <1>11, <1>12, <1>13, <1>14, <1>15, <1>16 DEF Family
\* fork that fails, with nothing of the child or half of it left
LEMMA ForkFailsFamily ==
  ASSUME SInv, Family(thr, proc, spaces), ForkFails PROVE Family(thr', proc', spaces')
<1> DEFINE t == [thr[cur] EXCEPT !.pc = "ret"]
<1>0. /\ thr[cur].pc = "user" /\ proc' = Forgotten /\ spaces' = spaces
      /\ cur \in Slots /\ Al(thr, cur) /\ thr[cur] \in Thread
      /\ Reaped(thr, cur) \in [Slots -> Thread] /\ Reaped(thr, cur)[cur] = thr[cur]
  BY FamilyTypes, ReapedCur DEF ForkFails, At
<1>1. thr' = [Reaped(thr, cur) EXCEPT ![cur] = t]
  BY <1>0 DEF ForkFails
<1>2. t.proc = thr[cur].proc /\ t.leader = thr[cur].leader /\ ~t.dead /\ t.pc = "ret"
        /\ t.exiting = thr[cur].exiting
  BY <1>0 DEF Thread, Al
<1> HIDE DEF t
<1>3. /\ \A i \in Slots : Al(thr', i) <=> Al(thr, i)
      /\ \A i \in Slots : i # cur /\ Al(thr', i) => thr'[i] = thr[i]
      /\ thr'[cur] = t
  BY <1>1, <1>2, ReapedHere
<1>4. Family(thr, proc', spaces')
  BY <1>0, ForgottenFamily
<1> QED BY <1>0, <1>2, <1>3, <1>4, FamilyTypes, Constants, MoveFamily DEF AtVfork

LEMMA ForkNoFilesFamily ==
  ASSUME SInv, Family(thr, proc, spaces), ForkNoFiles PROVE Family(thr', proc', spaces')
<1> DEFINE c == [Child(FALSE) EXCEPT !.space = 0]
           t == [thr[cur] EXCEPT !.pc = "ret", !.arg = 0]
<1>0. /\ thr[cur].pc = "user" /\ RoomFor(Forgotten) /\ spaces' = spaces
      /\ proc' = [Forgotten EXCEPT ![nextPid] = c] /\ thr' = [thr EXCEPT ![cur] = t]
      /\ cur \in Slots /\ Al(thr, cur) /\ Al(thr, 0) /\ thr[cur] \in Thread /\ thr \in [Slots -> Thread]
      /\ Me \in Pids /\ proc[Me].st = "live" /\ proc[Me] \in Process
  BY FamilyTypes, MeLives DEF ForkNoFiles, At, Goto
<1>1. c.st = "live" /\ ~c.borrowed /\ c.ppid = Me
  BY <1>0 DEF Child, Process
<1>2. t.proc = thr[cur].proc /\ t.leader = thr[cur].leader /\ ~t.dead /\ t.pc = "ret"
        /\ t.exiting = thr[cur].exiting
  BY <1>0 DEF Thread, Al
<1> HIDE DEF c, t
<1>3. Family(thr, proc', spaces')
  BY <1>0, <1>1, NewFamily
<1>4. thr'[cur] = t /\ \A i \in Slots : i # cur => thr'[i] = thr[i]
  BY <1>0
<1>5. Al(thr', cur) /\ \A i \in Slots : i # cur => (Al(thr', i) <=> Al(thr, i))
  BY <1>2, <1>4 DEF Al
<1>6. Al(thr', 0)
  BY <1>0, <1>5, Constants
<1> QED BY <1>0, <1>2, <1>3, <1>4, <1>5, <1>6, MoveFamily DEF AtVfork

\* program_start: the shell's thread leads a process that is nobody's child.
LEMMA StartProgramFamily ==
  ASSUME SInv, Family(thr, proc, spaces), NEW loads \in BOOLEAN, StartProgram(loads)
  PROVE  Family(thr', proc', spaces')
<1> DEFINE c == [NoProcess EXCEPT !.st = "live", !.pgid = nextPid, !.space = nextPid]
           l == IF loads THEN "user" ELSE "unwind"
           w == Append(thr[cur].was, Me)
           t == [thr[cur] EXCEPT !.proc = nextPid, !.leader = TRUE, !.was = w, !.pc = l]
<1>0. /\ thr[cur].pc \in {"shell", "tsh"} /\ RoomFor(Forgotten) /\ ~thr[cur].exiting
      /\ proc' = [Forgotten EXCEPT ![nextPid] = c] /\ spaces' = spaces \union {nextPid}
      /\ cur \in Slots /\ Al(thr, cur) /\ Al(thr, 0) /\ thr[cur] \in Thread /\ thr \in [Slots -> Thread]
  BY FamilyTypes DEF StartProgram, At
<1>1. cur = 0 /\ 0 \in Slots
  BY <1>0, Start, Slot0
<1>2. thr' = [thr EXCEPT ![cur] = t]
  BY <1>0 DEF StartProgram
<1>3. c.st = "live" /\ ~c.borrowed /\ c.ppid = 0 /\ c.space = nextPid
  BY DEF NoProcess
<1>4. t.proc = nextPid /\ t.leader /\ ~t.dead /\ ~t.exiting /\ t.pc = l /\ l \notin {"free", "vfork"}
  <2>1. l \notin {"free", "vfork"}
    OBVIOUS
  <2> HIDE DEF l, w
  <2> QED BY <1>0, <2>1 DEF Thread, Al
<1> HIDE DEF c, t, l, w
<1>5. Family(thr, proc', spaces') /\ nextPid \in Pids /\ proc'[nextPid] = c
  BY <1>0, <1>3, NewFamily
<1>6. Home(proc', spaces', nextPid) /\ proc'[nextPid].ppid = 0
  BY <1>0, <1>3, <1>5 DEF Home
<1>7. thr'[cur] = t /\ \A i \in Slots : i # cur => thr'[i] = thr[i]
  BY <1>0, <1>2
<1>8. \A i \in Slots : i # cur => (Al(thr', i) <=> Al(thr, i))
  BY <1>7 DEF Al
<1>9. ASSUME NEW i \in Slots, Al(thr', i), thr'[i].proc # 0
      PROVE  /\ \/ \E j \in Slots : Al(thr, j) /\ thr[j].proc = thr'[i].proc
                \/ Home(proc', spaces', thr'[i].proc)
             /\ Lends => thr'[i].leader /\ ~thr'[i].exiting
  <2>1. CASE i = cur
    BY <1>4, <1>6, <1>7, <2>1
  <2>2. CASE i # cur
    BY <1>5, <1>7, <1>8, <1>9, <2>2 DEF Family, Alone
  <2> QED BY <2>1, <2>2
<1>10. \A i \in Slots : AtVfork(thr', i) =>
           AtVfork(thr, i) /\ thr'[i].arg = thr[i].arg /\ thr'[i].proc = thr[i].proc
  BY <1>4, <1>7, <1>8 DEF AtVfork
<1>11. \A i \in Slots : AtVfork(thr, i) =>
           AtVfork(thr', i) /\ thr'[i].arg = thr[i].arg /\ thr'[i].proc = thr[i].proc
  BY <1>0, <1>7, <1>8 DEF AtVfork
<1>12. proc'[thr'[0].proc].ppid = 0
  BY <1>1, <1>4, <1>6, <1>7
<1> QED BY <1>0, <1>5, <1>9, <1>10, <1>11, <1>12, ThreadsFamily

----------------------------------------------------------------------------
(* process_end.                                                            *)

LEMMA EndedIs ==
  ASSUME SInv, NEW p \in Pids, NEW code, proc[p].ppid # p
  PROVE  /\ \A q \in Pids \ {p} :
              /\ Ended(p, code)[q].st = proc[q].st /\ Ended(p, code)[q].borrowed = proc[q].borrowed
              /\ Ended(p, code)[q].space = proc[q].space
              /\ Ended(p, code)[q].ppid = IF proc[q].ppid = p THEN 0 ELSE proc[q].ppid
         /\ Ended(p, code)[p].st = "zombie" /\ ~Ended(p, code)[p].borrowed
         /\ Ended(p, code)[p].ppid = IF proc[p].ppid # 0 /\ Live(proc[p].ppid) THEN proc[p].ppid ELSE 0
         /\ DOMAIN Ended(p, code) = Pids
<1> DEFINE parent == proc[p].ppid
           heard  == parent # 0 /\ Live(parent)
           orphan == [q \in Pids |-> IF proc[q].ppid = p THEN [proc[q] EXCEPT !.ppid = 0]
                                                         ELSE proc[q]]
           up == IF heard THEN orphan[p].ppid ELSE 0
           dead == [orphan[p] EXCEPT !.st = "zombie", !.borrowed = FALSE, !.space = 0,
                                     !.status = code, !.ppid = up]
           ended  == [orphan EXCEPT ![p].st = "zombie", ![p].borrowed = FALSE, ![p].space = 0,
                                    ![p].status = code, ![p].ppid = IF heard THEN @ ELSE 0]
<1>0. proc \in [Pids -> Process]
  BY Start
<1>1. \A q \in Pids : /\ orphan[q].st = proc[q].st /\ orphan[q].borrowed = proc[q].borrowed
                      /\ orphan[q].space = proc[q].space
                      /\ orphan[q].ppid = (IF proc[q].ppid = p THEN 0 ELSE proc[q].ppid)
                      /\ DOMAIN orphan[q] = DOMAIN NoProcess
  BY <1>0 DEF Process, NoProcess
<1>2. orphan[p] = proc[p]
  OBVIOUS
<1>3. Ended(p, code) = IF heard THEN SignalTo(ended, {parent}, SIGCHLD) ELSE ended
  BY DEF Ended
<1>4. dead.st = "zombie" /\ ~dead.borrowed /\ dead.ppid = up /\ DOMAIN dead = DOMAIN NoProcess
  <2> HIDE DEF orphan, up
  <2> QED BY <1>1 DEF NoProcess
<1>5. DOMAIN orphan = Pids
  OBVIOUS
<1>6. up = IF heard THEN parent ELSE 0
  BY <1>2
<1> HIDE DEF up
<1>7. /\ ended[p].st = "zombie" /\ ~ended[p].borrowed /\ ended[p].ppid = (IF heard THEN parent ELSE 0)
      /\ \A q \in Pids \ {p} : ended[q] = orphan[q]
      /\ \A q \in Pids : DOMAIN ended[q] = DOMAIN NoProcess
      /\ DOMAIN ended = Pids
  <2>1. ended = [orphan EXCEPT ![p] = dead]
    <3> HIDE DEF heard, orphan
    <3> QED BY <1>5 DEF up
  <2> HIDE DEF ended, dead, orphan, heard
  <2> QED BY <1>1, <1>4, <1>5, <1>6, <2>1
<1>8. /\ DOMAIN SignalTo(ended, {parent}, SIGCHLD) = Pids
      /\ \A q \in Pids : As(q, SignalTo(ended, {parent}, SIGCHLD), ended)
  <2> HIDE DEF ended, parent
  <2>1. ASSUME NEW q \in Pids PROVE As(q, SignalTo(ended, {parent}, SIGCHLD), ended)
    <3>1. \/ SignalTo(ended, {parent}, SIGCHLD)[q] = ended[q]
          \/ SignalTo(ended, {parent}, SIGCHLD)[q] = [ended[q] EXCEPT !.pend = @ \union {SIGCHLD}]
      BY DEF SignalTo
    <3>2. DOMAIN ended[q] = DOMAIN NoProcess
      BY <1>7
    <3> QED BY <3>1, <3>2 DEF As, NoProcess
  <2>2. DOMAIN SignalTo(ended, {parent}, SIGCHLD) = Pids
    BY DEF SignalTo
  <2> QED BY <2>1, <2>2
<1>9. DOMAIN Ended(p, code) = Pids /\ \A q \in Pids : As(q, Ended(p, code), ended)
  <2> HIDE DEF ended, heard, parent
  <2> QED BY <1>3, <1>7, <1>8 DEF As
<1> HIDE DEF ended, orphan
<1> QED BY <1>1, <1>7, <1>9 DEF As
\* The process of the current thread ends, with nobody in it any more.
LEMMA EndFamily ==
  ASSUME SInv, Family(thr, proc, spaces), thr[cur].pc = "unwind",
         NEW th, Family(th, proc, spaces), Al(th, 0), th[0].proc \in Pids \union {0},
         \A i \in Slots : Al(th, i) => th[i].proc \in (Pids \union {0}) \ {Me},
         \A i \in Slots : AtVfork(th, i) => AtVfork(thr, i) /\ th[i].proc = thr[i].proc,
         NEW code, spaces' = SpacesAfter(Me),
         \/ proc' = Ended(Me, code)
         \/ proc' = [Ended(Me, code) EXCEPT ![Me] = NoProcess] /\ proc[Me].ppid = 0
  PROVE  Family(th, proc', spaces')
<1>0. Me \in Pids /\ Me # 0 /\ proc[Me].st = "live" /\ cur \in Slots /\ Al(thr, cur)
  BY FamilyTypes, MeLives
<1>1. proc[Me].ppid # Me
  BY <1>0, ConstantsAssumption DEF Family, Kin, Pids
<1>2. /\ \A q \in Pids \ {Me} :
           /\ Ended(Me, code)[q].st = proc[q].st /\ Ended(Me, code)[q].borrowed = proc[q].borrowed
           /\ Ended(Me, code)[q].space = proc[q].space
           /\ Ended(Me, code)[q].ppid = IF proc[q].ppid = Me THEN 0 ELSE proc[q].ppid
      /\ Ended(Me, code)[Me].st = "zombie" /\ ~Ended(Me, code)[Me].borrowed
      /\ Ended(Me, code)[Me].ppid =
           IF proc[Me].ppid # 0 /\ Live(proc[Me].ppid) THEN proc[Me].ppid ELSE 0
      /\ DOMAIN Ended(Me, code) = Pids
  BY <1>0, <1>1, EndedIs
<1>3. /\ \A q \in Pids \ {Me} :
           /\ proc'[q].st = proc[q].st /\ proc'[q].borrowed = proc[q].borrowed
           /\ proc'[q].space = proc[q].space
           /\ proc'[q].ppid = IF proc[q].ppid = Me THEN 0 ELSE proc[q].ppid
      /\ proc'[Me].st # "live" /\ ~proc'[Me].borrowed /\ proc'[Me].ppid \in {0, proc[Me].ppid}
      /\ proc[Me].ppid # 0 =>
           proc'[Me].st = "zombie" /\ (Live(proc[Me].ppid) => proc'[Me].ppid = proc[Me].ppid)
  <2>1. CASE proc' = Ended(Me, code)
    BY <1>2, <2>1
  <2>2. CASE proc' = [Ended(Me, code) EXCEPT ![Me] = NoProcess] /\ proc[Me].ppid = 0
    <3>1. proc'[Me] = NoProcess /\ \A q \in Pids \ {Me} : proc'[q] = Ended(Me, code)[q]
      BY <1>0, <1>2, <2>2
    <3> QED BY <1>2, <2>2, <3>1 DEF NoProcess
  <2> QED BY <2>1, <2>2
<1>4. ASSUME NEW i \in Slots, AtVfork(th, i)
      PROVE  proc'[th[i].arg].st # "free" /\ proc'[th[i].arg].ppid = proc[th[i].arg].ppid
  <2>1. /\ th[i].arg \in Pids /\ th[i].proc # 0 /\ proc[th[i].arg].st # "free"
        /\ proc[th[i].arg].ppid = th[i].proc
    BY <1>4 DEF Family, Waiters
  <2>2. th[i].proc # Me /\ th[i].proc = thr[i].proc
    BY <1>4 DEF AtVfork
  <2>3. CASE th[i].arg # Me
    BY <1>3, <2>1, <2>2, <2>3
  <2>4. CASE th[i].arg = Me
    <3>1. Live(th[i].proc)
      BY <1>4, <2>1, <2>2, FamilyTypes, Start DEF AtVfork, Good, InLive, Live
    <3> QED BY <1>3, <2>1, <2>4, <3>1
  <2> QED BY <2>3, <2>4
<1>5. Ending(th, proc, proc', {Me})
  <2>1. \A q \in Pids : proc'[q].st # "free" => proc[q].st # "free" /\ proc'[q].ppid \notin {Me}
    BY <1>0, <1>1, <1>3
  <2>2. \A q \in Pids \ {Me} : proc'[q].ppid \in {0, proc[q].ppid}
    BY <1>3
  <2> QED BY <1>0, <1>3, <1>4, <2>1, <2>2, FamilyTypes DEF Ending
<1>6. SpacesAfter(Me) = spaces \ {Me}
  <2>1. CASE proc[Me].borrowed
    <3>1. Me \notin spaces
      BY <2>1 DEF Family, Owners
    <3> QED BY <2>1, <3>1 DEF SpacesAfter
  <2>2. CASE ~proc[Me].borrowed
    <3>1. proc[Me].space = Me
      BY <1>0, <2>2, FamilyTypes DEF Family, Homes, Home
    <3> QED BY <2>2, <3>1 DEF SpacesAfter
  <2> QED BY <2>1, <2>2
<1>7. Family(th, proc', spaces \ {Me})
  BY <1>5, FamilyTypes, Constants, EndsFamily
<1> QED BY <1>6, <1>7

\* A process ends with its leader's thread.
LEMMA UnwindProcessFamily ==
  ASSUME SInv, Family(thr, proc, spaces), UnwindProcess PROVE Family(thr', proc', spaces')
<1> DEFINE t == [thr[cur] EXCEPT !.dead = TRUE]
           th == [thr EXCEPT ![cur] = t]
<1>0. /\ thr[cur].pc = "unwind" /\ thr[cur].entry = "process"
      /\ proc' = Ended(Me, thr[cur].code) /\ spaces' = SpacesAfter(Me)
      /\ cur \in Slots /\ Al(thr, cur) /\ Al(thr, 0) /\ thr[cur] \in Thread /\ thr \in [Slots -> Thread]
      /\ Me = thr[cur].proc /\ 0 \in Slots
  BY FamilyTypes, Constants DEF UnwindProcess, At
<1>1. cur # 0 /\ thr[cur].leader
  BY <1>0, Slot0
<1>2. SwitchNext(th)
  BY <1>0 DEF UnwindProcess
<1>3. th[cur] = t /\ t.dead /\ \A i \in Slots : i # cur => th[i] = thr[i]
  BY <1>0 DEF Thread
<1> HIDE DEF t, th
<1>4. \A i \in Slots : (Al(thr', i) <=> Al(th, i)) /\ (Al(th, i) => thr'[i] = th[i])
  BY <1>2, SwitchKeeps
<1>5. ~Al(thr', cur) /\ \A i \in Slots : i # cur => (Al(thr', i) <=> Al(thr, i))
  <2>1. ~Al(th, cur) /\ \A i \in Slots : i # cur => (Al(th, i) <=> Al(thr, i))
    BY <1>0, <1>3 DEF Al
  <2> QED BY <1>0, <1>4, <2>1
<1>6. \A i \in Slots : i # cur /\ Al(thr', i) => thr'[i] = thr[i]
  BY <1>3, <1>4, <1>5
<1>7. Family(thr', proc, spaces)
  <2>1. \A i \in Slots : AtVfork(thr', i) =>
           AtVfork(thr, i) /\ thr'[i].arg = thr[i].arg /\ thr'[i].proc = thr[i].proc
    BY <1>5, <1>6 DEF AtVfork
  <2>2. \A i \in Slots : AtVfork(thr, i) =>
           AtVfork(thr', i) /\ thr'[i].arg = thr[i].arg /\ thr'[i].proc = thr[i].proc
    BY <1>0, <1>5, <1>6 DEF AtVfork
  <2>3. ASSUME NEW i \in Slots, Al(thr', i), thr'[i].proc # 0
        PROVE  /\ \E j \in Slots : Al(thr, j) /\ thr[j].proc = thr'[i].proc
               /\ Lends => thr'[i].leader /\ ~thr'[i].exiting
    BY <1>5, <1>6, <2>3 DEF Family, Alone
  <2>4. thr'[0].proc = thr[0].proc
    BY <1>0, <1>1, <1>5, <1>6
  <2> QED BY <1>0, <2>1, <2>2, <2>3, <2>4, ThreadsFamily
<1>8. \A i \in Slots : Al(thr', i) => thr'[i].proc \in (Pids \union {0}) \ {Me}
  <2>1. UnwindsAlone(thr, cur)
    BY DEF SInv
  <2>2. \A i \in Slots : Al(thr, i) /\ i # cur => thr[i].proc # Me
    BY <1>0, <1>1, <2>1 DEF UnwindsAlone
  <2> QED BY <1>5, <1>6, <2>2, FamilyTypes
<1>9. \A i \in Slots : AtVfork(thr', i) => AtVfork(thr, i) /\ thr'[i].proc = thr[i].proc
  BY <1>5, <1>6 DEF AtVfork
<1>10. Al(thr', 0) /\ thr'[0].proc \in Pids \union {0}
  BY <1>0, <1>1, <1>5, <1>8
<1> QED BY <1>0, <1>7, <1>8, <1>9, <1>10, EndFamily

\* A program of the shell's ends, and its thread is the shell's again.
LEMMA UnwindProgramFamily ==
  ASSUME SInv, Family(thr, proc, spaces), UnwindProgram PROVE Family(thr', proc', spaces')
<1> DEFINE back == thr[cur].was[Len(thr[cur].was)]
           v == SubSeq(thr[cur].was, 1, Len(thr[cur].was) - 1)
           l == IF back = 0 THEN "shell" ELSE "tsh"
           t == [thr[cur] EXCEPT !.proc = back, !.leader = FALSE, !.was = v, !.code = 0, !.pc = l]
<1>0. /\ thr[cur].pc = "unwind" /\ thr[cur].was # <<>>
      /\ proc' = [Ended(Me, thr[cur].code) EXCEPT ![Me] = NoProcess] /\ spaces' = SpacesAfter(Me)
      /\ cur \in Slots /\ Al(thr, cur) /\ thr[cur] \in Thread /\ thr \in [Slots -> Thread]
      /\ Me = thr[cur].proc /\ 0 \in Slots
  BY FamilyTypes, Constants DEF UnwindProgram, At
<1>1. cur = 0 /\ thr[cur].was = <<0>> /\ thr[cur].leader /\ Me # 0
  BY <1>0, Slot0
<1>2. EndOthers(thr) \in [Slots -> Thread] /\ EndOthers(thr)[cur] = thr[cur]
  BY Start, EndOthersType DEF TInv, Table
<1>3. thr' = [EndOthers(thr) EXCEPT ![cur] = t]
  BY <1>0, <1>2 DEF UnwindProgram
<1>4. back = 0
  BY <1>1
<1>5. t.proc = 0 /\ ~t.dead /\ t.pc = "shell"
  <2>1. l = "shell"
    BY <1>4
  <2> HIDE DEF back, v, l
  <2> QED BY <1>0, <1>4, <2>1 DEF Thread, Al
<1> HIDE DEF back, v, l, t
<1>6. thr'[cur] = t /\ \A i \in Slots : i # cur => thr'[i] = EndOthers(thr)[i]
  BY <1>0, <1>2, <1>3
<1>7. Al(thr', cur) /\ \A i \in Slots : i # cur => (Al(thr', i) <=> Al(EndOthers(thr), i))
  BY <1>5, <1>6 DEF Al
<1>8. \A i \in Slots : Al(thr, i) /\ i # cur => thr[i].proc # Me
  <2>1. UnwindsAlone(thr, cur)
    BY DEF SInv
  <2> QED BY <1>0, <1>1, <2>1 DEF UnwindsAlone
<1>9. \A i \in Slots : i # cur => (Al(thr', i) <=> Al(thr, i)) /\ (Al(thr', i) => thr'[i] = thr[i])
  BY <1>6, <1>7, <1>8, EndOthersAl
<1>10. \A i \in Slots : AtVfork(thr', i) =>
           AtVfork(thr, i) /\ thr'[i].arg = thr[i].arg /\ thr'[i].proc = thr[i].proc
  BY <1>5, <1>6, <1>9 DEF AtVfork
<1>11. Family(thr', proc, spaces)
  <2>1. \A i \in Slots : AtVfork(thr, i) =>
           AtVfork(thr', i) /\ thr'[i].arg = thr[i].arg /\ thr'[i].proc = thr[i].proc
    BY <1>0, <1>9 DEF AtVfork
  <2>2. ASSUME NEW i \in Slots, Al(thr', i), thr'[i].proc # 0
        PROVE  /\ \E j \in Slots : Al(thr, j) /\ thr[j].proc = thr'[i].proc
               /\ Lends => thr'[i].leader /\ ~thr'[i].exiting
    BY <1>5, <1>6, <1>9, <2>2 DEF Family, Alone
  <2>3. thr'[0].proc = 0
    BY <1>1, <1>5, <1>6
  <2> QED BY <1>0, <1>1, <1>10, <2>1, <2>2, <2>3, ThreadsFamily
<1>12. \A i \in Slots : Al(thr', i) => thr'[i].proc \in (Pids \union {0}) \ {Me}
  BY <1>1, <1>5, <1>6, <1>8, <1>9, FamilyTypes
<1>13. Al(thr', 0) /\ thr'[0].proc \in Pids \union {0}
  BY <1>1, <1>5, <1>6, <1>7
<1>14. proc[Me].ppid = 0
  BY <1>0, <1>1 DEF Family, ShellsOwn
<1> QED BY <1>0, <1>10, <1>11, <1>12, <1>13, <1>14, EndFamily

----------------------------------------------------------------------------
(* The theorems.                                                           *)

LEMMA FamilyInit == Init => FInv
<1> SUFFICES ASSUME Init PROVE Family(thr, proc, spaces)
  BY SafeInit DEF FInv
<1>1. /\ thr[0].proc = 0 /\ thr[0].pc = "shell" /\ spaces = {} /\ 0 \in Slots
      /\ \A i \in Slots : i # 0 => ~Al(thr, i)
      /\ \A p \in Pids : proc[p].st = "free" /\ ~proc[p].borrowed
  BY Constants DEF Init, NoThread, NoProcess, Al
<1>2. Kin(proc) /\ Owners(proc, spaces) /\ Lent(thr, proc) /\ ShellsOwn(thr, proc)
  BY <1>1 DEF Kin, Owners, Lent, ShellsOwn
<1>3. Alone(thr) /\ Homes(thr, proc, spaces) /\ Waiters(thr, proc)
  BY <1>1 DEF Alone, Homes, Waiters, AtVfork
<1> QED BY <1>2, <1>3 DEF Family

LEMMA FamilyStep == ASSUME LendsAlone PROVE FInv /\ [Next]_vars => FInv'
<1> SUFFICES ASSUME FInv, [Next]_vars PROVE FInv'
  OBVIOUS
<1>1. \A d \in Cases : "tsh" \notin d
  BY DEF LendsAlone
<1>2. SInv' /\ SInv /\ Family(thr, proc, spaces)
  BY <1>1, SafeStep DEF FInv
<1>3. Lends' = Lends
  BY DEF Next, vars, Lends
<1>4. CASE UNCHANGED vars
  BY <1>2, <1>3, <1>4 DEF vars, FInv, Family, Kin, ShellsOwn, Alone, Homes, Home, Owners, Lent, Waiters
<1>5. CASE Next
  <2>1. Family(thr', proc', spaces')
    <3>1. CASE Calls
      <4>1. ~ExecTsh
        BY <1>1, <1>2 DEF ExecTsh, SInv
      <4>2. Clone => ~Lends
        BY <1>2 DEF Clone, LendsAlone, Lends, SInv
      <4>3. ASSUME NEW share \in BOOLEAN, Fork(share) PROVE Family(thr', proc', spaces')
        <5>1. CASE share
          BY <1>2, <4>3, <5>1, VforkFamily
        <5>2. CASE ~share
          BY <1>2, <4>3, <5>2, ForkFamily
        <5> QED BY <5>1, <5>2
      <4> QED BY <1>2, <3>1, <4>1, <4>2, <4>3, ForkFailsFamily, ForkNoFilesFamily, CloneFamily,
                 ExecFamily, SimpleFamily DEF Calls
    <3>2. CASE Ends
      BY <1>2, <3>2, ProcessExitFamily, SimpleFamily, UnwindProgramFamily, UnwindProcessFamily DEF Ends
    <3>3. ~TshDone
      BY <1>2, Start DEF TshDone, At
    <3> QED BY <1>2, <1>5, <3>1, <3>2, <3>3, WaitsFamily, SimpleFamily, StartProgramFamily DEF Next, Steps
  <2> QED BY <1>2, <1>3, <2>1 DEF FInv, Family, Kin, ShellsOwn, Alone, Homes, Home, Owners, Lent, Waiters
<1> QED BY <1>4, <1>5
\* No address space belongs to nobody.
LEMMA FamilyNoneLeft == FInv => NoMemoryLeft
<1> SUFFICES ASSUME FInv, NEW p \in spaces PROVE Live(p) /\ proc[p].space = p /\ ~proc[p].borrowed
  BY DEF NoMemoryLeft
<1>1. p \in Pids
  BY FamilyTypes DEF FInv
<1> QED BY <1>1 DEF FInv, Family, Owners, Live

\* Of the processes in the same lent memory the one with the smallest pid has
\* it from a parent that is in memory of its own.
LEMMA FamilyThere == FInv => MemoryThere
<1> SUFFICES ASSUME FInv, NEW p \in Pids, ThreadsOf(p) # {} PROVE proc[p].space \in spaces
  BY DEF MemoryThere
<1> USE DEF FInv
<1>1. PICK i \in Slots : Al(thr, i) /\ thr[i].proc = p
  BY DEF ThreadsOf, Alive, Al
<1>2. p # 0
  BY Constants
<1>3. Home(proc, spaces, p)
  BY <1>1, <1>2 DEF Family, Homes
<1>4. CASE ~proc[p].borrowed
  BY <1>3, <1>4 DEF Home
<1>5. CASE proc[p].borrowed
  <2> DEFINE S == {q \in Pids : proc[q].borrowed /\ proc[q].space = proc[p].space}
  <2>1. S \subseteq Nat /\ S # {}
    BY <1>5, Constants
  <2>2. PICK x \in S : \A y \in S : ~(<<y, x>> \in Less)
    BY <2>1, LessWellFounded, WFMin
  <2>3. x \in Pids /\ proc[x].borrowed /\ proc[x].space = proc[p].space
    BY <2>2
  <2>4. /\ proc[x].st = "live" /\ proc[x].ppid # 0 /\ proc[x].space = proc[proc[x].ppid].space
        /\ \E j \in Slots : AtVfork(thr, j) /\ thr[j].proc = proc[x].ppid
    BY <2>3 DEF Family, Lent
  <2> DEFINE r == proc[x].ppid
  <2>5. PICK j \in Slots : Al(thr, j) /\ thr[j].proc = r
    BY <2>4 DEF AtVfork
  <2>6. r < x
    BY <2>3, <2>4 DEF Family, Kin
  <2>7. r \in Pids /\ r \in Nat /\ x \in Nat
    BY <2>3, <2>4, FamilyTypes, Constants
  <2>8. <<r, x>> \in Less
    <3>1. <<r, x>> \in Nat \X Nat /\ <<r, x>>[1] = r /\ <<r, x>>[2] = x
      BY <2>7
    <3> QED BY <2>6, <3>1 DEF Less
  <2>9. r \notin S
    BY <2>2, <2>8
  <2>10. ~proc[r].borrowed
    BY <2>3, <2>4, <2>7, <2>9
  <2>11. Home(proc, spaces, r)
    BY <2>4, <2>5 DEF Family, Homes
  <2> QED BY <2>3, <2>4, <2>10, <2>11 DEF Home
<1> QED BY <1>4, <1>5

LEMMA FamilyParents == FInv => ParentsTrue
<1> SUFFICES ASSUME FInv PROVE ParentsTrue
  OBVIOUS
<1> USE DEF FInv
<1>1. ASSUME NEW p \in Pids, proc[p].borrowed
      PROVE  \E i \in Slots : Alive(i) /\ thr[i].pc = "vfork" /\ thr[i].arg = p
                                /\ thr[i].proc = proc[p].ppid
  BY <1>1 DEF Family, Lent, AtVfork, Al, Alive
<1>2. ASSUME NEW i \in Slots, Alive(i), thr[i].pc = "vfork" PROVE Used(thr[i].arg)
  BY <1>2 DEF Family, Waiters, AtVfork, Al, Alive, Used
<1>3. ASSUME NEW p \in Pids, Used(p), proc[p].ppid # 0 PROVE Live(proc[p].ppid)
  BY <1>3, FamilyTypes DEF Family, Kin, Used, Live
<1> QED BY <1>1, <1>2, <1>3 DEF ParentsTrue, VforkParentWaits, ParentLives

\* A child's parent is there until it has collected it or has ended and let it go
\* (fork_on, process_end, proc_new), and the thread that made a vfork waits, in
\* fork_on, while its child is in its memory - for programs that lend memory only
\* while they have one thread.
THEOREM ParentsAreThere == ASSUME LendsAlone PROVE Spec => []ParentsTrue
<1>1. FInv /\ [Next]_vars => FInv'
  BY FamilyStep
<1> QED BY <1>1, FamilyInit, FamilyParents, PTL DEF Spec

\* A process that runs has its memory, its own or lent - also by a process that
\* has borrowed it in turn - and memory goes with the process that owns it
\* (process_end, execve's own space for a vfork's child): none is lost or freed
\* twice.
THEOREM MemoryIsThere == ASSUME LendsAlone PROVE Spec => []MemoryTrue
<1>1. FInv /\ [Next]_vars => FInv'
  BY FamilyStep
<1>2. FInv => MemoryTrue
  BY FamilyNoneLeft, FamilyThere DEF MemoryTrue
<1> QED BY <1>1, <1>2, FamilyInit, PTL DEF Spec
----------------------------------------------------------------------------
(* Signals that are let go.                                                *)

\* Programs that never exec with a handler set: execve sets handlers back to
\* the default and leaves what was kept for them pending.
HandlersStay == \A d \in Cases : ~({"exec", "sigaction"} \subseteq d)

\* A SIGCHLD is kept only where it has a handler or is ignored outright.
Heeded(pr) ==
  \A p \in Pids : /\ pr[p].act[SIGCHLD] # "dfl" => "sigaction" \in Does
                  /\ SIGCHLD \in pr[p].pend => pr[p].act[SIGCHLD] # "dfl"

NoneOf(th) == \A i \in Slots : th[i].code # SIGCHLD

HInv == TInv /\ Does \in Cases /\ Heeded(proc) /\ NoneOf(thr)
\* Threads that end or move on have no such code.
LEMMA NoneKept ==
  ASSUME NEW th \in [Slots -> Thread], NoneOf(th)
  PROVE  /\ \A c : NoneOf(Reaped(th, c))
         /\ NoneOf(EndOthers(th))
         /\ SwitchNext(th) => NoneOf(thr')
<1>1. NoThread.code # SIGCHLD
  BY DEF NoThread, SIGCHLD
<1>2. ASSUME NEW c PROVE NoneOf(Reaped(th, c))
  BY <1>1 DEF NoneOf, Reaped
<1>3. NoneOf(EndOthers(th))
  BY <1>1, <1>2 DEF NoneOf, EndOthers
<1> QED BY <1>2, <1>3 DEF SwitchNext

LEMMA NoneMoves ==
  ASSUME NEW th \in [Slots -> Thread], NoneOf(th), NEW c \in Slots, NEW l, NEW a, NEW b
  PROVE  /\ NoneOf([th EXCEPT ![c].pc = l])
         /\ NoneOf([th EXCEPT ![c].dead = TRUE])
         /\ NoneOf([th EXCEPT ![c].pc = l, ![c].arg = a])
         /\ NoneOf([th EXCEPT ![c].pc = l, ![c].blocked = b])
         /\ NoneOf([th EXCEPT ![c].exiting = FALSE, ![c].pc = l, ![c].arg = a])
         /\ \A k : k # SIGCHLD => NoneOf([th EXCEPT ![c].pc = l, ![c].code = k])
         /\ \A k : k # SIGCHLD => NoneOf([th EXCEPT ![c].pc = l, ![c].code = k, ![c].arg = a])
<1>1. th[c] \in Thread /\ th[c].code # SIGCHLD
  BY DEF NoneOf
<1>2. ASSUME NEW t, t.code # SIGCHLD PROVE NoneOf([th EXCEPT ![c] = t])
  BY <1>2 DEF NoneOf
<1>3. NoneOf([th EXCEPT ![c].pc = l])
  BY <1>1, <1>2 DEF Thread
<1>4. NoneOf([th EXCEPT ![c].dead = TRUE])
  BY <1>1, <1>2 DEF Thread
<1>5. NoneOf([th EXCEPT ![c].pc = l, ![c].arg = a])
  <2>1. [th EXCEPT ![c].pc = l, ![c].arg = a] = [th EXCEPT ![c] = [th[c] EXCEPT !.pc = l, !.arg = a]]
    OBVIOUS
  <2> QED BY <1>1, <1>2, <2>1 DEF Thread
<1>6. NoneOf([th EXCEPT ![c].pc = l, ![c].blocked = b])
  <2>1. [th EXCEPT ![c].pc = l, ![c].blocked = b] = [th EXCEPT ![c] = [th[c] EXCEPT !.pc = l, !.blocked = b]]
    OBVIOUS
  <2> QED BY <1>1, <1>2, <2>1 DEF Thread
<1>7. NoneOf([th EXCEPT ![c].exiting = FALSE, ![c].pc = l, ![c].arg = a])
  <2>1. [th EXCEPT ![c].exiting = FALSE, ![c].pc = l, ![c].arg = a]
          = [th EXCEPT ![c] = [th[c] EXCEPT !.exiting = FALSE, !.pc = l, !.arg = a]]
    OBVIOUS
  <2> QED BY <1>1, <1>2, <2>1 DEF Thread
<1>8. ASSUME NEW k, k # SIGCHLD PROVE NoneOf([th EXCEPT ![c].pc = l, ![c].code = k])
  <2>1. [th EXCEPT ![c].pc = l, ![c].code = k] = [th EXCEPT ![c] = [th[c] EXCEPT !.pc = l, !.code = k]]
    OBVIOUS
  <2> QED BY <1>1, <1>2, <1>8, <2>1 DEF Thread
<1>9. ASSUME NEW k, k # SIGCHLD PROVE NoneOf([th EXCEPT ![c].pc = l, ![c].code = k, ![c].arg = a])
  <2>1. [th EXCEPT ![c].pc = l, ![c].code = k, ![c].arg = a]
          = [th EXCEPT ![c] = [th[c] EXCEPT !.pc = l, !.code = k, !.arg = a]]
    OBVIOUS
  <2> QED BY <1>1, <1>2, <1>9, <2>1 DEF Thread
<1> QED BY <1>3, <1>4, <1>5, <1>6, <1>7, <1>8, <1>9

\* signal_to
LEMMA SentHeeds ==
  ASSUME NEW pr \in Procs, Heeded(pr), NEW ps, NEW s PROVE Heeded(SignalTo(pr, ps, s))
<1> DEFINE qr == SignalTo(pr, ps, s)
<1> SUFFICES ASSUME NEW p \in Pids
             PROVE  /\ qr[p].act[SIGCHLD] # "dfl" => "sigaction" \in Does
                    /\ SIGCHLD \in qr[p].pend => qr[p].act[SIGCHLD] # "dfl"
  BY DEF Heeded
<1>1. qr[p].act = pr[p].act /\ pr[p].pend \subseteq qr[p].pend /\ qr[p].pend \subseteq pr[p].pend \union {s}
  BY DEF SignalTo, Process, Procs
<1>2. SIGCHLD \in qr[p].pend => SIGCHLD \in pr[p].pend \/ pr[p].act[SIGCHLD] # "dfl"
  BY DEF SignalTo, Process, Procs, IgnoredByDefault, SIGKILL, SIGCHLD
<1> QED BY <1>1, <1>2 DEF Heeded

\* What is pending is dropped, or a signal is sent.
LEMMA HeededKept ==
  ASSUME TypeOK, Heeded(proc)
  PROVE  /\ \A ps, s : Heeded(SignalTo(proc, ps, s))
         /\ \A p, S : Heeded([proc EXCEPT ![p].pend = @ \ S])
         /\ Heeded(Forgotten)
<1>1. proc \in [Pids -> Process]
  BY DEF TypeOK
<1>2. ASSUME NEW ps, NEW s PROVE Heeded(SignalTo(proc, ps, s))
  BY <1>1, SentHeeds DEF Procs
<1>3. ASSUME NEW p, NEW S PROVE Heeded([proc EXCEPT ![p].pend = @ \ S])
  BY <1>1 DEF Heeded, Process
<1>4. Heeded(Forgotten)
  BY <1>1 DEF Heeded, Forgotten, NoProcess, Sigs
<1> QED BY <1>2, <1>3, <1>4

\* signal_fatal
LEMMA DieHeeds ==
  ASSUME HInv, NEW l, l \notin Idle, thr[cur].pc = l, Die PROVE Heeded(proc') /\ NoneOf(thr')
<1>1. TypeOK /\ thr \in [Slots -> Thread] /\ cur \in Slots /\ Heeded(proc) /\ NoneOf(thr) /\ Me \in Pids
  BY MeType DEF HInv, TInv, TypeOK
<1>2. Heeded(proc')
  <2> DEFINE S == {s \in Unhandled : s <= Min(Fatal)}
  <2>1. proc' = [proc EXCEPT ![Me].pend = @ \ S]
    BY DEF Die
  <2> HIDE DEF S
  <2> QED BY <1>1, <2>1, HeededKept
<1>3. Min(Fatal) \in Fatal
  BY SignalsType, MinIn, Constants DEF Die, HInv
<1>4. Min(Fatal) # SIGCHLD
  <2> SUFFICES ASSUME SIGCHLD \in Fatal PROVE FALSE
    BY <1>3
  <2> QED BY <1>1 DEF Fatal, Unhandled, Heeded, SIGCHLD, SIGKILL
<1>5. NoneOf(thr')
  BY <1>1, <1>4, NoneMoves DEF Die
<1> QED BY <1>2, <1>5
LEMMA HInvTypes ==
  ASSUME HInv
  PROVE  /\ TInv /\ TypeOK /\ thr \in [Slots -> Thread] /\ cur \in Slots
         /\ proc \in [Pids -> Process] /\ Heeded(proc) /\ NoneOf(thr) /\ Does \in Cases
BY DEF HInv, TInv, TypeOK

LEMMA GoNone ==
  ASSUME HInv, NEW l PROVE (Goto(l) => NoneOf(thr')) /\ (YieldAt(l) => NoneOf(thr'))
<1>1. NoneOf([thr EXCEPT ![cur].pc = l, ![cur].arg = 0]) /\ NoneOf([thr EXCEPT ![cur].pc = l])
  BY HInvTypes, NoneMoves
<1>2. YieldAt(l) => NoneOf(thr')
  <2> DEFINE th == [thr EXCEPT ![cur].pc = l]
  <2> SUFFICES ASSUME YieldAt(l) PROVE NoneOf(thr')
    OBVIOUS
  <2>1. SwitchNext(th)
    BY DEF YieldAt
  <2>2. NoThread.code # SIGCHLD
    BY DEF NoThread, SIGCHLD
  <2>3. NoneOf(th)
    BY <1>1
  <2> HIDE DEF th
  <2> QED BY <2>1, <2>2, <2>3 DEF SwitchNext, Reaped, NoneOf
<1> QED BY <1>1, <1>2 DEF Goto

\* The waits in the kernel.
LEMMA WaitTurnHeeds ==
  ASSUME HInv, NEW l, l \notin Idle, At(l), WaitTurn(l) PROVE Heeded(proc') /\ NoneOf(thr')
<1>1. CASE Die
  BY <1>1, DieHeeds DEF At
<1>2. CASE ~Die
  <2>1. proc' = [proc EXCEPT ![Me].pend = @ \ Unhandled] /\ (Goto("ret") \/ YieldAt(l))
    BY <1>2 DEF WaitTurn
  <2> QED BY <2>1, GoNone, HeededKept, HInvTypes
<1> QED BY <1>1, <1>2

LEMMA WaitsHeed == ASSUME HInv, Waits PROVE Heeded(proc') /\ NoneOf(thr')
<1>1. CASE VforkTurn
  BY <1>1, GoNone, HInvTypes DEF VforkTurn
<1>2. CASE JoinTurn
  BY <1>2, GoNone, HInvTypes DEF JoinTurn
<1>3. CASE Wait4Turn
  <2>1. ASSUME NEW c \in Pids, proc' = [proc EXCEPT ![c] = NoProcess] PROVE Heeded(proc')
    BY <2>1, HInvTypes DEF Heeded, NoProcess, Sigs
  <2>2. CASE Goto("ret") /\ (proc' = proc \/ \E c \in Pids : proc' = [proc EXCEPT ![c] = NoProcess])
    BY <2>1, <2>2, GoNone, HInvTypes
  <2>3. CASE WaitTurn("wait4")
    BY <1>3, <2>3, WaitTurnHeeds DEF Wait4Turn, Idle
  <2>4. \/ Goto("ret") /\ (proc' = proc \/ \E c \in Pids : proc' = [proc EXCEPT ![c] = NoProcess])
        \/ WaitTurn("wait4")
    BY <1>3 DEF Wait4Turn, Kids
  <2> QED BY <2>2, <2>3, <2>4
<1>4. CASE SleepTurn
  BY <1>4, WaitTurnHeeds, GoNone, HInvTypes DEF SleepTurn, Idle
<1> QED BY <1>1, <1>2, <1>3, <1>4 DEF Waits

\* A new process, as its parent is or as program_start makes it.
LEMMA ChildHeeds ==
  ASSUME TypeOK, Heeded(proc), NEW n, NEW c,
         \/ c.act = NoProcess.act /\ c.pend = {}
         \/ Me \in Pids /\ c.act = proc[Me].act /\ c.pend = {}
  PROVE  Heeded([Forgotten EXCEPT ![n] = c])
<1>1. Heeded(Forgotten)
  BY HeededKept
<1>2. /\ c.act[SIGCHLD] # "dfl" => "sigaction" \in Does
      /\ c.pend = {}
  BY DEF Heeded, NoProcess, Sigs
<1> QED BY <1>1, <1>2 DEF Heeded, Forgotten

LEMMA SpawnNone ==
  ASSUME HInv, Me \in Pids, NEW p \in Pids, NEW l \in BOOLEAN, NEW e \in Entries, FreeSlots(thr) # {}
  PROVE  LET th == WithThread(NewThread(p, l, e))
         IN NoneOf(th) /\ th \in [Slots -> Thread]
<1> DEFINE t == NewThread(p, l, e)
           n == Min(FreeSlots(thr))
           ra == Reaped(thr, cur)
<1>1. Seated(t) /\ t.code = 0
  BY HInvTypes, NewThreadType DEF NewThread, NoThread
<1>2. NoneOf(ra)
  BY HInvTypes, NoneKept
<1>3. WithThread(t) = [ra EXCEPT ![n] = t]
  BY DEF WithThread
<1>4. WithThread(t) \in [Slots -> Thread]
  BY <1>1, HInvTypes, WithThreadType DEF Table
<1> HIDE DEF t, n, ra
<1>5. t.code # SIGCHLD
  BY <1>1 DEF SIGCHLD
<1>6. ra = Reaped(thr, cur)
  BY DEF ra
<1>7. \A i \in Slots : WithThread(t)[i] \in {t, ra[i]}
  BY <1>3, <1>6 DEF Reaped
<1>8. NoneOf(WithThread(t))
  BY <1>2, <1>5, <1>7 DEF NoneOf
<1> QED BY <1>4, <1>8 DEF t

\* fork, vfork and their failures.
LEMMA ForksHeed ==
  ASSUME HInv, (\E share \in BOOLEAN : Fork(share)) \/ ForkFails \/ ForkNoFiles
  PROVE  Heeded(proc') /\ NoneOf(thr')
<1>1. Me \in Pids /\ proc[Me] \in Process
  BY HInvTypes, MeType DEF Fork, ForkFails, ForkNoFiles, At, Idle
<1>2. ASSUME NEW share \in BOOLEAN
      PROVE  /\ Child(share).act = proc[Me].act /\ Child(share).pend = {}
             /\ [Child(share) EXCEPT !.space = 0].act = proc[Me].act
             /\ [Child(share) EXCEPT !.space = 0].pend = {}
  BY <1>1 DEF Child, Process
<1>3. ASSUME NEW share \in BOOLEAN, Fork(share) PROVE Heeded(proc') /\ NoneOf(thr')
  <2> DEFINE c == Child(share)
             th == WithThread(NewThread(nextPid, TRUE, "process"))
             l == IF share THEN "vfork" ELSE "ret"
             a == IF share THEN nextPid ELSE 0
  <2>1. nextPid \in Pids /\ FreeSlots(thr) # {} /\ "process" \in Entries /\ cur \in Slots
    BY <1>3, HInvTypes, RoomType DEF Fork, Entries
  <2>2. NoneOf(th) /\ th \in [Slots -> Thread]
    BY <1>1, <2>1, SpawnNone
  <2>3. thr' = [th EXCEPT ![cur].pc = l, ![cur].arg = a] /\ proc' = [Forgotten EXCEPT ![nextPid] = c]
    BY <1>3 DEF Fork
  <2>4. c.act = proc[Me].act /\ c.pend = {}
    BY <1>2
  <2> HIDE DEF c, th, l, a
  <2>5. Heeded(proc')
    BY <1>1, <2>3, <2>4, HInvTypes, ChildHeeds
  <2> QED BY <2>1, <2>2, <2>3, <2>5, NoneMoves
<1>4. CASE ForkFails
  <2>1. thr' = [Reaped(thr, cur) EXCEPT ![cur].pc = "ret"] /\ proc' = Forgotten
    BY <1>4 DEF ForkFails
  <2>2. NoneOf(Reaped(thr, cur)) /\ Reaped(thr, cur) \in [Slots -> Thread]
    BY HInvTypes, NoneKept, ReapedType DEF TInv, Table
  <2> QED BY <2>1, <2>2, HInvTypes, HeededKept, NoneMoves
<1>5. CASE ForkNoFiles
  <2> DEFINE c == [Child(FALSE) EXCEPT !.space = 0]
  <2>1. proc' = [Forgotten EXCEPT ![nextPid] = c] /\ Goto("ret")
    BY <1>5 DEF ForkNoFiles
  <2>2. FALSE \in BOOLEAN
    OBVIOUS
  <2>3. c.act = proc[Me].act /\ c.pend = {}
    BY <1>2, <2>2
  <2> HIDE DEF c
  <2> QED BY <1>1, <2>1, <2>3, HInvTypes, ChildHeeds, GoNone
<1> QED BY <1>3, <1>4, <1>5

LEMMA CloneHeeds == ASSUME HInv, Clone PROVE Heeded(proc') /\ NoneOf(thr')
<1>1. Me \in Pids /\ FALSE \in BOOLEAN /\ "thread" \in Entries
  BY HInvTypes, MeType DEF Clone, At, Idle, Entries
<1>2. NoneOf(Reaped(thr, cur)) /\ Reaped(thr, cur) \in [Slots -> Thread]
  BY HInvTypes, NoneKept, ReapedType DEF TInv, Table
<1> DEFINE th == IF FreeSlots(thr) # {} THEN WithThread(NewThread(Me, FALSE, "thread")) ELSE Reaped(thr, cur)
<1>3. NoneOf(th) /\ th \in [Slots -> Thread]
  BY <1>1, <1>2, SpawnNone
<1>4. thr' = [th EXCEPT ![cur].pc = "ret"] /\ proc' = proc
  BY DEF Clone
<1> HIDE DEF th
<1> QED BY <1>3, <1>4, HInvTypes, NoneMoves

\* execve: where handlers are set no program execs.
LEMMA ExecHeeds ==
  ASSUME HInv, HandlersStay, Exec \/ ExecNoSpace \/ ExecNoLoad PROVE Heeded(proc') /\ NoneOf(thr')
<1>1. Me \in Pids /\ "sigaction" \notin Does /\ proc[Me] \in Process
  BY HInvTypes, MeType DEF HandlersStay, Exec, ExecNoSpace, ExecNoLoad, MayExec, At, Idle
<1>2. \A p \in Pids : proc[p].act[SIGCHLD] = "dfl" /\ SIGCHLD \notin proc[p].pend
  BY <1>1, HInvTypes DEF Heeded
<1>3. NoneOf(EndOthers(thr)) /\ EndOthers(thr) \in [Slots -> Thread]
  BY HInvTypes, NoneKept, EndOthersType DEF TInv, Table
<1>4. NoneOf(thr')
  <2>1. \/ thr' = [EndOthers(thr) EXCEPT ![cur].pc = "ret"]
        \/ thr' = [EndOthers(thr) EXCEPT ![cur].pc = "exit", ![cur].code = 0]
    BY DEF Exec, ExecNoSpace, ExecNoLoad
  <2>2. 0 # SIGCHLD
    BY DEF SIGCHLD
  <2> DEFINE th == EndOthers(thr)
  <2>3. NoneOf(th) /\ th \in [Slots -> Thread] /\ cur \in Slots
    BY <1>3, HInvTypes
  <2>4. thr' = [th EXCEPT ![cur].pc = "ret"] \/ thr' = [th EXCEPT ![cur].pc = "exit", ![cur].code = 0]
    BY <2>1
  <2> HIDE DEF th
  <2>5. NoneOf([th EXCEPT ![cur].pc = "ret"])
    BY <2>3, NoneMoves
  <2>6. NoneOf([th EXCEPT ![cur].pc = "exit", ![cur].code = 0])
    BY <2>2, <2>3, NoneMoves
  <2> QED BY <2>4, <2>5, <2>6
<1>5. ASSUME NEW p \in Pids PROVE proc'[p].act[SIGCHLD] = "dfl" /\ SIGCHLD \notin proc'[p].pend
  <2>0. SIGCHLD \in Sigs /\ proc \in [Pids -> Process]
    BY HInvTypes DEF Sigs
  <2> DEFINE own == IF proc[Me].borrowed THEN Me ELSE proc[Me].space
             dfl == [s \in Sigs |-> IF proc[Me].act[s] = "ign" THEN "ign" ELSE "dfl"]
  <2>1. CASE p # Me \/ ExecNoSpace
    BY <1>2, <2>0, <2>1 DEF Exec, ExecNoSpace, ExecNoLoad
  <2>2. CASE p = Me /\ Exec
    <3>1. proc'[Me] = [proc[Me] EXCEPT !.borrowed = FALSE, !.space = own, !.act = dfl]
      BY <1>1, <2>0, <2>2 DEF Exec
    <3>2. dfl[SIGCHLD] = "dfl"
      BY <1>1, <1>2, <2>0
    <3> HIDE DEF own, dfl
    <3>3. proc'[Me].act = dfl /\ proc'[Me].pend = proc[Me].pend
      BY <1>1, <3>1 DEF Process
    <3> QED BY <1>1, <1>2, <2>2, <3>2, <3>3
  <2>3. CASE p = Me /\ ExecNoLoad
    <3>1. proc'[Me] = [proc[Me] EXCEPT !.borrowed = FALSE, !.space = own]
      BY <1>1, <2>0, <2>3 DEF ExecNoLoad
    <3> HIDE DEF own
    <3>2. proc'[Me].act = proc[Me].act /\ proc'[Me].pend = proc[Me].pend
      BY <1>1, <3>1 DEF Process
    <3> QED BY <1>1, <1>2, <2>3, <3>2
  <2> QED BY <2>1, <2>2, <2>3
<1> QED BY <1>4, <1>5 DEF Heeded
\* process_end
LEMMA EndedHeeds ==
  ASSUME TypeOK, Heeded(proc), NEW p \in Pids, NEW code \in Codes PROVE Heeded(Ended(p, code))
<1> DEFINE parent == proc[p].ppid
           heard  == parent # 0 /\ Live(parent)
           orphan == [q \in Pids |-> IF proc[q].ppid = p THEN [proc[q] EXCEPT !.ppid = 0]
                                                         ELSE proc[q]]
           to     == IF heard THEN orphan[p].ppid ELSE 0
           gone   == [orphan[p] EXCEPT !.st = "zombie", !.borrowed = FALSE, !.space = 0,
                                       !.status = code, !.ppid = to]
           ended  == [orphan EXCEPT ![p].st = "zombie", ![p].borrowed = FALSE, ![p].space = 0,
                                    ![p].status = code, ![p].ppid = IF heard THEN @ ELSE 0]
<1>1. proc \in [Pids -> Process] /\ \A q \in Pids : DOMAIN proc[q] = DOMAIN NoProcess
  BY DEF TypeOK, Process, NoProcess
<1>2. \A q \in Pids : orphan[q].act = proc[q].act /\ orphan[q].pend = proc[q].pend
  BY <1>1 DEF NoProcess
<1>3. Ended(p, code) = IF heard THEN SignalTo(ended, {parent}, SIGCHLD) ELSE ended
  BY DEF Ended
<1>4. \A q \in Pids : orphan[q] \in Process
  BY ZenonT(60), <1>1 DEF Process
<1> HIDE DEF orphan, heard, parent
<1>5. to \in Pids \union {0} /\ gone \in Process /\ gone.act = orphan[p].act /\ gone.pend = orphan[p].pend
  BY <1>4 DEF Process
<1>6. orphan = [q \in Pids |-> orphan[q]]
  BY DEF orphan
<1>7. ended = [orphan EXCEPT ![p] = gone]
  BY <1>4, <1>6
<1> HIDE DEF to, gone, ended
<1>8. ended \in Procs /\ Heeded(ended)
  <2>1. \A q \in Pids : ended[q].act = proc[q].act /\ ended[q].pend = proc[q].pend
    BY <1>2, <1>5, <1>6, <1>7
  <2> QED BY <1>4, <1>5, <1>6, <1>7, <2>1 DEF Procs, Heeded
<1> QED BY <1>3, <1>8, SentHeeds

\* The ends of threads and processes.
LEMMA EndsHeed == ASSUME HInv, Ends PROVE Heeded(proc') /\ NoneOf(thr')
<1>0. cur \in Slots /\ thr[cur] \in Thread /\ thr[cur].code \in Codes /\ thr[cur].code # SIGCHLD
  BY HInvTypes DEF NoneOf, Thread
<1>1. CASE ProcessExit
  <2> DEFINE l == Min(LeadersOf(Me) \ {cur})
             th == EndOthers(thr)
  <2>1. CASE thr' = [th EXCEPT ![cur].pc = "unwind"]
    <3>1. NoneOf(th) /\ th \in [Slots -> Thread]
      BY HInvTypes, NoneKept, EndOthersType DEF TInv, Table
    <3> HIDE DEF th
    <3>2. NoneOf([th EXCEPT ![cur].pc = "unwind"])
      BY <1>0, <3>1, NoneMoves
    <3> QED BY <1>1, <2>1, <3>2, HInvTypes DEF ProcessExit
  <2>2. CASE thr' # [th EXCEPT ![cur].pc = "unwind"]
    <3> DEFINE ti == [thr EXCEPT ![l].exiting = TRUE, ![l].code = thr[cur].code, ![cur].dead = TRUE]
    <3>1. LeadersOf(Me) \ {cur} # {} /\ thr' = Reaped(ti, l)
      BY <1>1, <2>2 DEF ProcessExit
    <3>2. l \in Slots /\ l # cur
      <4>1. LeadersOf(Me) \ {cur} \subseteq Nat
        BY Constants DEF LeadersOf, ThreadsOf
      <4> QED BY <3>1, <4>1, MinIn DEF LeadersOf, ThreadsOf
    <3>3. NoneOf(ti)
      <4> HIDE DEF l
      <4>1. ti[l].code = thr[cur].code
        BY <1>0, <3>2, HInvTypes DEF Thread
      <4>2. ti[cur].code = thr[cur].code
        BY <1>0, <3>2, HInvTypes DEF Thread
      <4>3. \A i \in Slots : i # l /\ i # cur => ti[i] = thr[i]
        BY <1>0, <3>2, HInvTypes
      <4> QED BY <1>0, <4>1, <4>2, <4>3, HInvTypes DEF NoneOf
    <3> HIDE DEF ti, l
    <3>4. NoThread.code # SIGCHLD
      BY DEF NoThread, SIGCHLD
    <3>5. NoneOf(thr')
      BY <3>1, <3>3, <3>4 DEF NoneOf, Reaped
    <3> QED BY <1>1, <3>5, HInvTypes DEF ProcessExit
  <2> QED BY <2>1, <2>2
<1>2. CASE LeaderTold
  <2>1. NoneOf([thr EXCEPT ![cur].exiting = FALSE, ![cur].pc = "exit", ![cur].arg = 0])
    BY <1>0, HInvTypes, NoneMoves
  <2> QED BY <1>2, <2>1, HInvTypes DEF LeaderTold
<1>3. CASE UnwindProgram
  <2> DEFINE th == EndOthers(thr)
             back == thr[cur].was[Len(thr[cur].was)]
             v == SubSeq(thr[cur].was, 1, Len(thr[cur].was) - 1)
             l == IF back = 0 THEN "shell" ELSE "tsh"
             t == [th[cur] EXCEPT !.proc = back, !.leader = FALSE, !.was = v, !.code = 0, !.pc = l]
  <2>1. NoneOf(th) /\ th \in [Slots -> Thread] /\ th[cur] = thr[cur]
    BY HInvTypes, NoneKept, EndOthersType DEF TInv, Table
  <2>2. thr' = [th EXCEPT ![cur] = t]
    BY <1>3, <2>1 DEF UnwindProgram
  <2>3. t.code = 0
    <3> HIDE DEF v, l, back, th
    <3> QED BY <1>0, <2>1 DEF Thread
  <2> HIDE DEF t, th
  <2>4. NoneOf(thr')
    BY <1>0, <2>1, <2>2, <2>3 DEF NoneOf, SIGCHLD
  <2>5. Me \in Pids
    BY <1>3, HInvTypes, MeType DEF UnwindProgram, At, Idle
  <2>6. Heeded(Ended(Me, thr[cur].code))
    BY <1>0, <2>5, HInvTypes, EndedHeeds
  <2>7. proc' = [Ended(Me, thr[cur].code) EXCEPT ![Me] = NoProcess]
    BY <1>3 DEF UnwindProgram
  <2>8. Ended(Me, thr[cur].code) \in Procs
    BY <1>0, <2>5, HInvTypes, EndedType
  <2>9. Heeded(proc')
    BY <2>6, <2>7, <2>8 DEF Heeded, Procs, NoProcess, Sigs
  <2> QED BY <2>4, <2>9
<1>4. CASE UnwindProcess \/ UnwindThread
  <2> DEFINE th == [thr EXCEPT ![cur].dead = TRUE]
  <2>1. NoneOf(th) /\ SwitchNext(th)
    BY <1>0, <1>4, HInvTypes, NoneMoves DEF UnwindProcess, UnwindThread
  <2>2. NoThread.code # SIGCHLD
    BY DEF NoThread, SIGCHLD
  <2> HIDE DEF th
  <2>3. NoneOf(thr')
    BY <2>1, <2>2 DEF SwitchNext, Reaped, NoneOf
  <2>4. Me \in Pids
    BY <1>4, HInvTypes, MeType DEF UnwindProcess, UnwindThread, At, Idle
  <2>5. Heeded(proc')
    BY <1>0, <1>4, <2>4, HInvTypes, EndedHeeds DEF UnwindProcess, UnwindThread
  <2> QED BY <2>3, <2>5
<1> QED BY <1>1, <1>2, <1>3, <1>4 DEF Ends
\* The other calls.
LEMMA SimpleHeeds ==
  ASSUME HInv,
         \/ ExecTsh \/ TshDone \/ ThreadExit \/ ExitGroup \/ Sleep \/ ShellIdle
         \/ \E want \in Pids \union {0}, nohang \in BOOLEAN : Wait4(want, nohang)
         \/ \E s \in Sigs : Kill(s)
         \/ \E s \in Sigs, h \in Handlers : Sigaction(s, h)
         \/ \E s \in Sigs : Sigprocmask(s)
         \/ \E s \in {SIGINT, SIGKILL} : KeyTyped(s)
  PROVE  Heeded(proc') /\ NoneOf(thr')
<1>0. 0 # SIGCHLD /\ cur \in Slots
  BY HInvTypes DEF SIGCHLD
<1>1. CASE ExecTsh \/ Sleep \/ ShellIdle
  BY <1>1, GoNone, HInvTypes DEF ExecTsh, Sleep, ShellIdle
<1>2. CASE TshDone \/ ThreadExit \/ ExitGroup
  <2>1. \E l \in Labels : thr' = [thr EXCEPT ![cur].pc = l, ![cur].code = 0]
    BY <1>2 DEF TshDone, ThreadExit, ExitGroup, Labels
  <2>2. \A l : NoneOf([thr EXCEPT ![cur].pc = l, ![cur].code = 0])
    BY <1>0, HInvTypes, NoneMoves
  <2>3. proc' = proc
    BY <1>2 DEF TshDone, ThreadExit, ExitGroup
  <2> QED BY <2>1, <2>2, <2>3, HInvTypes
<1>3. ASSUME NEW want, NEW nohang, Wait4(want, nohang) PROVE Heeded(proc') /\ NoneOf(thr')
  <2>1. NoneOf([thr EXCEPT ![cur].pc = "wait4", ![cur].arg = want])
    BY <1>0, HInvTypes, NoneMoves
  <2> QED BY <1>3, <2>1, GoNone, HInvTypes DEF Wait4
<1>4. ASSUME NEW s, Kill(s) \/ KeyTyped(s) PROVE Heeded(proc') /\ NoneOf(thr')
  BY <1>4, GoNone, HInvTypes, HeededKept DEF Kill, KeyTyped
<1>5. ASSUME NEW s \in Sigs, NEW h \in Handlers, Sigaction(s, h) PROVE Heeded(proc') /\ NoneOf(thr')
  <2> DEFINE pend == IF h = "ign" \/ (h = "dfl" /\ s \in IgnoredByDefault)
                     THEN proc[Me].pend \ {s} ELSE proc[Me].pend
             act == [proc[Me].act EXCEPT ![s] = h]
             q == [proc[Me] EXCEPT !.act = act, !.pend = pend]
  <2>1. Me \in Pids /\ proc[Me] \in Process /\ "sigaction" \in Does
    BY <1>5, HInvTypes, MeType DEF Sigaction, At, Idle
  <2>2. proc' = [proc EXCEPT ![Me] = q]
    BY <1>5, <2>1, HInvTypes DEF Sigaction
  <2>3. SIGCHLD \in pend => act[SIGCHLD] # "dfl"
    <3>1. SIGCHLD \in proc[Me].pend => proc[Me].act[SIGCHLD] # "dfl"
      BY <2>1, HInvTypes DEF Heeded
    <3>2. proc[Me].act \in [Sigs -> Handlers] /\ SIGCHLD \in Sigs
      BY <2>1 DEF Process, Sigs
    <3>3. CASE s = SIGCHLD
      BY <3>2, <3>3 DEF IgnoredByDefault
    <3>4. CASE s # SIGCHLD
      BY <3>1, <3>2, <3>4
    <3> QED BY <3>3, <3>4
  <2> HIDE DEF pend, act
  <2>4. q.pend = pend /\ q.act = act
    BY <2>1 DEF Process
  <2> HIDE DEF q
  <2>5. Heeded(proc')
    BY <2>1, <2>2, <2>3, <2>4, HInvTypes DEF Heeded
  <2> QED BY <1>5, <2>5, GoNone DEF Sigaction
<1>6. ASSUME NEW s \in Sigs, Sigprocmask(s) PROVE Heeded(proc') /\ NoneOf(thr')
  <2> DEFINE b == IF s \in thr[cur].blocked THEN thr[cur].blocked \ {s} ELSE thr[cur].blocked \union {s}
  <2>1. thr' = [thr EXCEPT ![cur].pc = "ret", ![cur].blocked = b] /\ proc' = proc
    <3>1. [thr EXCEPT ![cur].pc = "ret",
             ![cur].blocked = IF s \in @ THEN @ \ {s} ELSE @ \union {s}]
          = [thr EXCEPT ![cur].pc = "ret", ![cur].blocked = b]
      BY <1>0, HInvTypes DEF Thread
    <3> QED BY <1>6, <3>1 DEF Sigprocmask
  <2> HIDE DEF b
  <2> QED BY <1>0, <2>1, HInvTypes, NoneMoves
<1> QED BY <1>1, <1>2, <1>3, <1>4, <1>5, <1>6

\* The way back to the program, and a program of the shell's.
LEMMA TailHeeds == ASSUME HInv, DispatchTail \/ ToUser PROVE Heeded(proc') /\ NoneOf(thr')
<1>1. CASE DispatchTail
  BY <1>1, GoNone, HInvTypes DEF DispatchTail
<1>2. CASE ToUser /\ Die
  BY <1>2, DieHeeds DEF ToUser, At, Idle
<1>3. CASE ToUser /\ ~Die
  <2> DEFINE S == Unhandled \union IF Deliverable = {} THEN {} ELSE {Min(Deliverable)}
  <2>1. proc' = [proc EXCEPT ![Me].pend = @ \ S] /\ Goto("user")
    BY <1>3 DEF ToUser
  <2> HIDE DEF S
  <2> QED BY <2>1, GoNone, HInvTypes, HeededKept
<1> QED BY <1>1, <1>2, <1>3

LEMMA StartHeeds ==
  ASSUME HInv, NEW loads \in BOOLEAN, StartProgram(loads) PROVE Heeded(proc') /\ NoneOf(thr')
<1> DEFINE c == [NoProcess EXCEPT !.st = "live", !.pgid = nextPid, !.space = nextPid]
           w == Append(thr[cur].was, Me)
           l == IF loads THEN "user" ELSE "unwind"
           t == [thr[cur] EXCEPT !.proc = nextPid, !.leader = TRUE, !.was = w, !.pc = l]
<1>1. proc' = [Forgotten EXCEPT ![nextPid] = c]
  BY DEF StartProgram
<1>2. c.act = NoProcess.act /\ c.pend = {}
  BY DEF NoProcess
<1>3. cur \in Slots /\ thr[cur] \in Thread /\ thr[cur].code # SIGCHLD
  BY HInvTypes DEF NoneOf
<1>4. thr' = [thr EXCEPT ![cur] = t]
  BY <1>3, HInvTypes DEF StartProgram
<1> HIDE DEF c, w, l
<1>5. t.code = thr[cur].code
  BY <1>3 DEF Thread
<1> HIDE DEF t
<1>6. NoneOf(thr')
  BY <1>3, <1>4, <1>5, HInvTypes DEF NoneOf
<1> QED BY <1>1, <1>2, <1>6, HInvTypes, ChildHeeds

LEMMA HeedInit == Init => HInv
<1> SUFFICES ASSUME Init PROVE HInv
  OBVIOUS
<1>1. Heeded(proc)
  BY DEF Init, Heeded, NoProcess, Sigs
<1>2. NoneOf(thr)
  BY DEF Init, NoneOf, NoThread, SIGCHLD
<1> QED BY <1>1, <1>2, TypeInit DEF HInv, Init

LEMMA HeedStep == ASSUME HandlersStay PROVE HInv /\ [Next]_vars => HInv'
<1> SUFFICES ASSUME HInv, [Next]_vars PROVE HInv'
  OBVIOUS
<1>1. TInv' /\ Does' = Does /\ Does \in Cases
  BY TypeStep DEF HInv, Next, vars
<1>2. Heeded(proc') /\ NoneOf(thr')
  <2>1. CASE UNCHANGED vars
    BY <2>1, HInvTypes DEF vars
  <2>2. CASE Next
    BY <2>2, SimpleHeeds, ForksHeed, CloneHeeds, ExecHeeds, WaitsHeed, EndsHeed, TailHeeds, StartHeeds
       DEF Next, Steps, Calls
  <2> QED BY <2>1, <2>2
<1>3. Heeded(proc)'
  BY <1>1, <1>2 DEF Heeded
<1>4. NoneOf(thr)'
  BY <1>2 DEF NoneOf
<1> QED BY <1>1, <1>3, <1>4 DEF HInv

\* A signal that is let go when left to itself (ignored_by_default in signal_to and
\* signal_fatal) never ends a process, whoever sends it and whenever handlers are
\* set - for programs that set none before an execve, which puts the default back
\* under what is pending.
THEOREM IgnoredEndsNobody == ASSUME HandlersStay PROVE Spec => []NoIgnoredDeath
<1>1. HInv /\ [Next]_vars => HInv'
  BY HeedStep
<1>2. HInv => NoIgnoredDeath
  BY DEF HInv, NoneOf, NoIgnoredDeath, IgnoredByDefault
<1> QED BY <1>1, <1>2, HeedInit, PTL DEF Spec
=============================================================================
