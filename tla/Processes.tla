----------------------------- MODULE Processes -----------------------------
(***************************************************************************)
(* Threads and processes: the thread table of kernel/thread.c and the      *)
(* process table of kernel/syscall.c (fork, vfork, clone, execve, exit,    *)
(* wait4, signals, and program_start, by which the kernel's own shell runs *)
(* a program on its own thread).                                           *)
(*                                                                         *)
(* Nothing preempts: only the thread `cur` takes steps, and another one    *)
(* runs when it waits in the kernel (thread_yield) or ends.  What a thread *)
(* does between two yields is atomic towards the others, so a long path    *)
(* through the kernel is split here into steps of the current thread,      *)
(* named by its pc, without adding interleavings.                          *)
(***************************************************************************)
EXTENDS Integers, Sequences, FiniteSets, FiniteSetsExt

CONSTANTS
  NThreads,      \* THREADS: slots of the table all[]; slot 0 is the kernel's own
  NProcs,        \* PROCESSES: slots of the table procs[]
  MaxPid,        \* bound: processes made in one behaviour (pids are never reused)
  CallsPerYield, \* the dispatcher yields once every so many calls (32)
  Cases          \* the sets of things programs do and of things that fail, looked at one by one

Abilities == {"fork", "vfork", "thread", "exec", "mtexec", "tsh", "kill",
              "keys", "sigaction", "sigmask", "sleep",
              "nofiles", "nospace", "noload"}

ASSUME ConstantsAssumption ==
  /\ NThreads \in Nat \ {0} /\ NProcs \in Nat \ {0} /\ MaxPid \in Nat \ {0}
  /\ CallsPerYield \in Nat \ {0}
  /\ Cases \subseteq SUBSET Abilities

VARIABLES
  thr,      \* all[]: the thread in each slot
  cur,      \* current: the slot that has the processor
  proc,     \* the processes, by pid; procs[] holds those that are not "free"
  nextPid,  \* next_tid, as far as processes draw on it
  spaces,   \* pids whose own address space (struct space own) exists
  fg,       \* fg_pgrp: the group the keyboard's signals go to, 0 for none
  calls,    \* the dispatcher's count of syscalls, modulo CallsPerYield
  Does      \* which of Cases this behaviour is of; it never changes

vars == <<thr, cur, proc, nextPid, spaces, fg, calls, Does>>

Slots == 0 .. NThreads - 1
Pids  == 1 .. MaxPid

SIGINT  == 2
SIGKILL == 9
SIGCHLD == 17
Sigs    == {SIGINT, SIGKILL, SIGCHLD}

IgnoredByDefault == {SIGCHLD}           \* ignored_by_default
Handlers == {"dfl", "ign", "han"}       \* SIG_DFL, SIG_IGN, a handler
Codes    == {0} \union Sigs             \* an exit code, or SIGNALLED | sig

Labels == {"free",    \* no thread in the slot
           "user",    \* in its program, about to make a syscall
           "ret",     \* the call is done: the tail of syscall_dispatch
           "resched", \* back from the yield in that tail
           "sleep", "wait4", "vfork", "join",  \* the waits in the kernel
           "exit",    \* process_exit
           "unwind",  \* user_exit: back out of user_resume or user_enter
           "shell",   \* the kernel's own shell
           "tsh"}     \* the shell, run inside a process as /ctl/tsh

Entries == {"kernel", "process", "thread"}  \* where its kernel stack began

NoThread == [proc |-> 0, leader |-> FALSE, dead |-> FALSE, exiting |-> FALSE,
             code |-> 0, pc |-> "free", entry |-> "thread", blocked |-> {},
             arg |-> 0, was |-> <<>>]

NoProcess == [st |-> "free", ppid |-> 0, pgid |-> 0, borrowed |-> FALSE,
              space |-> 0, pend |-> {}, act |-> [s \in Sigs |-> "dfl"],
              status |-> 0]

Me == thr[cur].proc
At(l) == thr[cur].pc = l /\ ~thr[cur].exiting
Goto(l) == thr' = [thr EXCEPT ![cur].pc = l, ![cur].arg = 0]

Used(p) == proc[p].st # "free"
Live(p) == p \in Pids /\ proc[p].st = "live"
Alive(i) == thr[i].pc # "free" /\ ~thr[i].dead
ThreadsOf(p) == {i \in Slots : Alive(i) /\ thr[i].proc = p}

----------------------------------------------------------------------------
(* The thread table.                                                       *)

\* reap: the slots of threads that have ended are free again, but for c's.
Reaped(th, c) ==
  [i \in Slots |-> IF i # 0 /\ th[i].dead /\ i # c THEN NoThread ELSE th[i]]

\* The slots of S whose thread has not ended.
LiveIn(th, S) == {i \in S : th[i].pc # "free" /\ ~th[i].dead}

\* Mutant: the search always starts from slot 0.
NextOneFromZero(th, c) ==
  IF LiveIn(th, Slots \ {c}) = {} THEN c ELSE Min(LiveIn(th, Slots \ {c}))

\* next_one: the next live thread after slot c, going round; c itself if none.
NextOne(th, c) ==
  LET after  == LiveIn(th, {i \in Slots : i > c})
      before == LiveIn(th, {i \in Slots : i < c})
  IN IF after # {} THEN Min(after) ELSE IF before # {} THEN Min(before) ELSE c

\* switch_to the next thread, which reaps as it resumes; th is the table with
\* what the current thread has done.
SwitchNext(th) ==
  LET n == NextOne(th, cur)
  IN cur' = n /\ thr' = IF n = cur THEN th ELSE Reaped(th, n)

\* thread_yield, to carry on at label l.
YieldAt(l) == SwitchNext([thr EXCEPT ![cur].pc = l])

\* thread_end_others: every other thread of the process ends where it waits.
\* The loop starts at slot 1.
EndOthers(th) ==
  [i \in Slots |-> IF i # 0 /\ i # cur /\ th[i].proc = Me /\ th[i].pc # "free"
                   THEN NoThread
                   ELSE Reaped(th, cur)[i]]

\* leader_of
LeadersOf(p) == {i \in ThreadsOf(p) : thr[i].leader}

\* thread_new: the first free slot but 0, once reap has run.
FreeSlots(th) == {i \in Slots \ {0} : Reaped(th, cur)[i].pc = "free"}
NewThread(p, leader, entry) ==
  [NoThread EXCEPT !.proc = p, !.leader = leader, !.entry = entry,
                   !.pc = "user", !.blocked = thr[cur].blocked]
WithThread(t) == [Reaped(thr, cur) EXCEPT ![Min(FreeSlots(thr))] = t]

----------------------------------------------------------------------------
(* Signals.                                                                *)

\* Mutant: what is ignored by default is kept too.
SignalToAlways(pr, ps, s) ==
  [p \in Pids |-> IF p \in ps /\ pr[p].st = "live" /\ (s = SIGKILL \/ pr[p].act[s] # "ign")
                  THEN [pr[p] EXCEPT !.pend = @ \union {s}] ELSE pr[p]]

\* signal_to, for every process in the set ps: kept unless p lets it go.
SignalTo(pr, ps, s) ==
  [p \in Pids |->
     IF p \in ps /\ pr[p].st = "live" /\
        (s = SIGKILL \/ ~(\/ pr[p].act[s] = "ign"
                          \/ pr[p].act[s] = "dfl" /\ s \in IgnoredByDefault))
     THEN [pr[p] EXCEPT !.pend = @ \union {s}]
     ELSE pr[p]]

\* signal_fatal: what is pending, let through and has no handler is taken off,
\* lowest first, up to the first one that ends the process.
Unhandled == {s \in proc[Me].pend :
                s = SIGKILL \/ (s \notin thr[cur].blocked /\ proc[Me].act[s] # "han")}
Fatal == {s \in Unhandled : s = SIGKILL \/ proc[Me].act[s] = "dfl"}

Die ==
  /\ Fatal # {}
  /\ proc' = [proc EXCEPT ![Me].pend = @ \ {s \in Unhandled : s <= Min(Fatal)}]
  /\ thr' = [thr EXCEPT ![cur].pc = "exit", ![cur].code = Min(Fatal), ![cur].arg = 0]
  /\ UNCHANGED <<cur, nextPid, spaces, fg, calls>>

\* deliverable
Deliverable == {s \in proc[Me].pend :
                  s \notin thr[cur].blocked /\ proc[Me].act[s] = "han"}

\* The foreground group, as interrupt_check looks for it.
Foreground == {p \in Pids : proc[p].st = "live" /\ proc[p].pgid = fg}

\* interrupt_check, in a wait or in the tail of a call, with a key typed:
\* Ctrl-C, or Ctrl-C three times over.
KeyTyped(s) ==
  /\ "keys" \in Does
  /\ \E l \in {"sleep", "wait4", "ret"} : At(l)
  /\ Foreground # {}
  /\ proc' = SignalTo(proc, Foreground, s)
  /\ UNCHANGED <<thr, cur, nextPid, spaces, fg, calls>>

\* Mutant: a wait that never looks at signals.
WaitTurnDeaf(l) == YieldAt(l) /\ UNCHANGED <<proc, nextPid, spaces, fg, calls>>

\* One turn of a wait that looks at signals: end the process, end the wait
\* with EINTR, or let the others run.
WaitTurn(l) ==
  \/ Die
  \/ /\ Fatal = {}
     /\ proc' = [proc EXCEPT ![Me].pend = @ \ Unhandled]
     /\ IF Deliverable # {} THEN Goto("ret") /\ cur' = cur ELSE YieldAt(l)
     /\ UNCHANGED <<nextPid, spaces, fg, calls>>

----------------------------------------------------------------------------
(* Making processes.                                                       *)

\* Mutant: the pass does not ask whether the process has ended.
ForgottenAny == [p \in Pids |-> IF proc[p].ppid = 0 /\ p # Me THEN NoProcess ELSE proc[p]]

\* proc_new's first pass: ended processes nobody waits for go.
Forgotten == [p \in Pids |-> IF proc[p].st = "zombie" /\ proc[p].ppid = 0 /\ p # Me
                             THEN NoProcess ELSE proc[p]]

\* Mutant: a full table is not noticed.
RoomAlways(pr) == TRUE

\* A slot of procs[] is free, and the instance has a pid left.
RoomFor(pr) == Cardinality({p \in Pids : pr[p].st # "free"}) < NProcs /\ nextPid <= MaxPid

\* The child fork_on fills in: it starts with nothing pending.
Child(share) ==
  [proc[Me] EXCEPT !.ppid = Me, !.borrowed = share, !.pend = {}, !.status = 0,
                   !.space = IF share THEN proc[Me].space ELSE nextPid]

Fork(share) ==
  /\ At("user") /\ (IF share THEN "vfork" ELSE "fork") \in Does
  /\ RoomFor(Forgotten) /\ FreeSlots(thr) # {}
  /\ nextPid' = nextPid + 1
  /\ proc' = [Forgotten EXCEPT ![nextPid] = Child(share)]
  /\ spaces' = IF share THEN spaces ELSE spaces \union {nextPid}
  /\ thr' = [WithThread(NewThread(nextPid, TRUE, "process"))
               EXCEPT ![cur].pc = IF share THEN "vfork" ELSE "ret",
                      ![cur].arg = IF share THEN nextPid ELSE 0]
  /\ UNCHANGED <<cur, fg, calls>>

\* fork_on when proc_new, vm_fork or thread_spawn has no room: nothing is left
\* of the child, but its pid is gone.
ForkFails ==
  /\ At("user") /\ {"fork", "vfork"} \intersect Does # {}
  /\ \/ /\ ~RoomFor(Forgotten) /\ nextPid' = nextPid
     \/ /\ RoomFor(Forgotten) /\ nextPid' = nextPid + 1
        /\ FreeSlots(thr) = {} \/ "nospace" \in Does
  /\ proc' = Forgotten
  /\ thr' = [Reaped(thr, cur) EXCEPT ![cur].pc = "ret"]
  /\ UNCHANGED <<cur, spaces, fg, calls>>

\* fork_on when the child's descriptor table or its mappings cannot be
\* allocated: it returns FS_ENOSPC as it is, the child still in procs[].
ForkNoFiles ==
  /\ At("user") /\ "nofiles" \in Does
  /\ RoomFor(Forgotten)
  /\ nextPid' = nextPid + 1
  /\ proc' = [Forgotten EXCEPT ![nextPid] = [Child(FALSE) EXCEPT !.space = 0]]
  /\ Goto("ret")
  /\ UNCHANGED <<cur, spaces, fg, calls>>

\* Mutant: the parent waits for the child to be gone instead.
VforkTurnTillGone ==
  /\ At("vfork")
  /\ IF Used(thr[cur].arg) THEN YieldAt("vfork") ELSE Goto("ret") /\ cur' = cur
  /\ UNCHANGED <<proc, nextPid, spaces, fg, calls>>

\* Mutant: the parent does not wait.
VforkTurnNoWait ==
  /\ At("vfork")
  /\ Goto("ret") /\ cur' = cur
  /\ UNCHANGED <<proc, nextPid, spaces, fg, calls>>

\* A vfork's parent waits while its child is in its memory.  A child that has
\* been collected meanwhile is freed memory: what is read there may be either.
VforkTurn ==
  /\ At("vfork")
  /\ LET c == thr[cur].arg IN
       \/ (~Used(c) \/ proc[c].borrowed) /\ YieldAt("vfork")
       \/ (~Used(c) \/ ~proc[c].borrowed) /\ Goto("ret") /\ cur' = cur
  /\ UNCHANGED <<proc, nextPid, spaces, fg, calls>>

\* clone(CLONE_THREAD): start_thread; EAGAIN without a slot.
Clone ==
  /\ At("user") /\ "thread" \in Does
  /\ thr' = [(IF FreeSlots(thr) # {} THEN WithThread(NewThread(Me, FALSE, "thread"))
              ELSE Reaped(thr, cur)) EXCEPT ![cur].pc = "ret"]
  /\ UNCHANGED <<cur, proc, nextPid, spaces, fg, calls>>

----------------------------------------------------------------------------
(* execve.                                                                 *)

MayExec == At("user") /\ "exec" \in Does
           /\ ("mtexec" \in Does \/ ThreadsOf(Me) = {cur})

\* The old program is gone: its threads, its memory - a vfork's child gets a
\* space of its own - and its handlers, but not what is pending or blocked.
Exec ==
  /\ MayExec
  /\ thr' = [EndOthers(thr) EXCEPT ![cur].pc = "ret"]
  /\ proc' = [proc EXCEPT ![Me].borrowed = FALSE,
                ![Me].space = IF proc[Me].borrowed THEN Me ELSE @,
                ![Me].act = [s \in Sigs |-> IF @[s] = "ign" THEN "ign" ELSE "dfl"]]
  /\ spaces' = IF proc[Me].borrowed THEN spaces \union {Me} ELSE spaces
  /\ UNCHANGED <<cur, nextPid, fg, calls>>

\* A vfork's child that gets no space of its own: ENOMEM to the old program,
\* its other threads already ended.
ExecNoSpace ==
  /\ MayExec /\ "nospace" \in Does /\ proc[Me].borrowed
  /\ thr' = [EndOthers(thr) EXCEPT ![cur].pc = "ret"]
  /\ UNCHANGED <<cur, proc, nextPid, spaces, fg, calls>>

\* program_load or build_stack fails: exit(127), the memory already its own.
ExecNoLoad ==
  /\ MayExec /\ "noload" \in Does
  /\ thr' = [EndOthers(thr) EXCEPT ![cur].pc = "exit", ![cur].code = 0]
  /\ proc' = [proc EXCEPT ![Me].borrowed = FALSE,
                ![Me].space = IF proc[Me].borrowed THEN Me ELSE @]
  /\ spaces' = IF proc[Me].borrowed THEN spaces \union {Me} ELSE spaces
  /\ UNCHANGED <<cur, nextPid, fg, calls>>

\* A kernel built-in is run as it is, its output written, and then the process
\* exits; /ctl/tsh may start programs of its own on the way.
ExecTsh ==
  /\ At("user") /\ "tsh" \in Does
  /\ Goto("tsh")
  /\ UNCHANGED <<cur, proc, nextPid, spaces, fg, calls>>

TshDone ==
  /\ At("tsh")
  /\ thr' = [thr EXCEPT ![cur].pc = "exit", ![cur].code = 0]
  /\ UNCHANGED <<cur, proc, nextPid, spaces, fg, calls>>

----------------------------------------------------------------------------
(* program_start: a program on the shell's own thread.                     *)

\* thread_adopt: the thread becomes the new process's leader.  A program that
\* cannot be loaded ends without having run.
StartProgram(loads) ==
  /\ \E l \in {"shell", "tsh"} : At(l)
  /\ loads \/ "noload" \in Does
  /\ RoomFor(Forgotten)
  /\ nextPid' = nextPid + 1
  /\ proc' = [Forgotten EXCEPT ![nextPid] =
                [NoProcess EXCEPT !.st = "live", !.pgid = nextPid, !.space = nextPid]]
  /\ spaces' = spaces \union {nextPid}
  /\ fg' = nextPid
  /\ thr' = [thr EXCEPT ![cur].proc = nextPid, ![cur].leader = TRUE,
                        ![cur].was = Append(@, Me),
                        ![cur].pc = IF loads THEN "user" ELSE "unwind"]
  /\ UNCHANGED <<cur, calls>>

\* The shell waits for a key, and lets the others run meanwhile.
ShellIdle ==
  /\ At("shell")
  /\ YieldAt("shell")
  /\ UNCHANGED <<proc, nextPid, spaces, fg, calls>>

----------------------------------------------------------------------------
(* Ending.                                                                 *)

\* process_end: the memory goes unless it is the parent's, the children are
\* nobody's, and the parent hears.
Ended(p, code) ==
  LET parent == proc[p].ppid
      heard  == parent # 0 /\ Live(parent)
      orphan == [q \in Pids |-> IF proc[q].ppid = p THEN [proc[q] EXCEPT !.ppid = 0]
                                                    ELSE proc[q]]
      ended  == [orphan EXCEPT ![p].st = "zombie", ![p].borrowed = FALSE, ![p].space = 0,
                               ![p].status = code, ![p].ppid = IF heard THEN @ ELSE 0]
  IN IF heard THEN SignalTo(ended, {parent}, SIGCHLD) ELSE ended


\* Mutant: a borrowed space is freed as if it were the child's own.
SpacesFreed(p) == spaces \ {proc[p].space}

\* What is left of the address spaces: p's goes, if it is its own.
SpacesAfter(p) == IF proc[p].borrowed THEN spaces ELSE spaces \ {proc[p].space}

\* thread_exit: a leader's waits until it is alone.
ThreadExit ==
  /\ At("user")
  /\ thr' = [thr EXCEPT ![cur].pc = IF thr[cur].leader THEN "join" ELSE "unwind",
                        ![cur].code = 0]
  /\ UNCHANGED <<cur, proc, nextPid, spaces, fg, calls>>

\* The wait in thread_exit.
JoinTurn ==
  /\ At("join")
  /\ IF ThreadsOf(Me) = {cur} THEN Goto("unwind") /\ cur' = cur ELSE YieldAt("join")
  /\ UNCHANGED <<proc, nextPid, spaces, fg, calls>>

ExitGroup ==
  /\ At("user")
  /\ thr' = [thr EXCEPT ![cur].pc = "exit", ![cur].code = 0]
  /\ UNCHANGED <<cur, proc, nextPid, spaces, fg, calls>>

\* Mutant: whichever thread calls it ends the process itself.
ProcessExitHere ==
  /\ At("exit")
  /\ thr' = [EndOthers(thr) EXCEPT ![cur].pc = "unwind"]
  /\ UNCHANGED <<cur, proc, nextPid, spaces, fg, calls>>

\* process_exit: a thread that is not the leader hands the leader the processor
\* to do it.
ProcessExit ==
  /\ At("exit")
  /\ LET others == LeadersOf(Me) \ {cur} IN
     IF cur \notin LeadersOf(Me) /\ others # {}
     THEN LET l == Min(others)
              th == [thr EXCEPT ![l].exiting = TRUE, ![l].code = thr[cur].code,
                                ![cur].dead = TRUE]
          IN cur' = l /\ thr' = Reaped(th, l)
     ELSE thr' = [EndOthers(thr) EXCEPT ![cur].pc = "unwind"] /\ cur' = cur
  /\ UNCHANGED <<proc, nextPid, spaces, fg, calls>>

\* The end of thread_yield: the leader told to end the process does.
LeaderTold ==
  /\ thr[cur].exiting
  /\ thr' = [thr EXCEPT ![cur].exiting = FALSE, ![cur].pc = "exit", ![cur].arg = 0]
  /\ UNCHANGED <<cur, proc, nextPid, spaces, fg, calls>>

\* user_exit into program_start: process_end, thread_disown, proc_free.
UnwindProgram ==
  /\ At("unwind") /\ thr[cur].was # <<>>
  /\ LET back == thr[cur].was[Len(thr[cur].was)] IN
     thr' = [EndOthers(thr) EXCEPT
               ![cur].proc = back, ![cur].leader = FALSE,
               ![cur].was = SubSeq(@, 1, Len(@) - 1), ![cur].code = 0,
               ![cur].pc = IF back = 0 THEN "shell" ELSE "tsh"]
  /\ proc' = [Ended(Me, thr[cur].code) EXCEPT ![Me] = NoProcess]
  /\ spaces' = SpacesAfter(Me)
  /\ fg' = 0
  /\ UNCHANGED <<cur, nextPid, calls>>

\* user_exit into process_entry: process_finished, and the thread is done.
UnwindProcess ==
  /\ At("unwind") /\ thr[cur].was = <<>> /\ thr[cur].entry = "process"
  /\ proc' = Ended(Me, thr[cur].code)
  /\ spaces' = SpacesAfter(Me)
  /\ SwitchNext([thr EXCEPT ![cur].dead = TRUE])
  /\ UNCHANGED <<nextPid, fg, calls>>

\* user_exit into thread_start.
UnwindThread ==
  /\ At("unwind") /\ thr[cur].was = <<>> /\ thr[cur].entry = "thread"
  /\ SwitchNext([thr EXCEPT ![cur].dead = TRUE])
  /\ UNCHANGED <<proc, nextPid, spaces, fg, calls>>

----------------------------------------------------------------------------
(* wait4, and the other calls.                                             *)

Kids(want) == {c \in Pids : Used(c) /\ proc[c].ppid = Me /\ (want = 0 \/ c = want)}

Wait4(want, nohang) ==
  /\ At("user")
  /\ IF nohang /\ \A c \in Kids(want) : proc[c].st # "zombie"
     THEN Goto("ret")
     ELSE thr' = [thr EXCEPT ![cur].pc = "wait4", ![cur].arg = want]
  /\ UNCHANGED <<cur, proc, nextPid, spaces, fg, calls>>

Wait4Turn ==
  /\ At("wait4")
  /\ LET kids == Kids(thr[cur].arg)
         done == {c \in kids : proc[c].st = "zombie"} IN
     \/ /\ kids = {}                                  \* ECHILD
        /\ Goto("ret")
        /\ UNCHANGED <<cur, proc, nextPid, spaces, fg, calls>>
     \/ /\ \E c \in done : proc' = [proc EXCEPT ![c] = NoProcess]
        /\ Goto("ret")
        /\ UNCHANGED <<cur, nextPid, spaces, fg, calls>>
     \/ kids # {} /\ done = {} /\ WaitTurn("wait4")

\* Any other wait: a key, a pipe, a socket, poll, a pause.  It may be over
\* whenever the thread looks.
Sleep ==
  /\ At("user") /\ "sleep" \in Does
  /\ Goto("sleep")
  /\ UNCHANGED <<cur, proc, nextPid, spaces, fg, calls>>

SleepTurn ==
  /\ At("sleep")
  /\ \/ WaitTurn("sleep")
     \/ Goto("ret") /\ UNCHANGED <<cur, proc, nextPid, spaces, fg, calls>>

\* kill: one process, the caller's group, or all the others.
KillTargets == {{p} : p \in Pids} \union {{p \in Pids : proc[p].pgid = proc[Me].pgid}}
               \union {Pids \ {Me}}

Kill(s) ==
  /\ At("user") /\ "kill" \in Does
  /\ \E ps \in KillTargets : proc' = SignalTo(proc, ps, s)
  /\ Goto("ret")
  /\ UNCHANGED <<cur, nextPid, spaces, fg, calls>>

Sigaction(s, h) ==
  /\ At("user") /\ "sigaction" \in Does /\ s # SIGKILL
  /\ proc' = [proc EXCEPT ![Me].act[s] = h,
                          ![Me].pend = IF h = "ign" \/ (h = "dfl" /\ s \in IgnoredByDefault)
                                       THEN @ \ {s} ELSE @]
  /\ Goto("ret")
  /\ UNCHANGED <<cur, nextPid, spaces, fg, calls>>

Sigprocmask(s) ==
  /\ At("user") /\ "sigmask" \in Does /\ s # SIGKILL
  /\ thr' = [thr EXCEPT ![cur].pc = "ret",
               ![cur].blocked = IF s \in @ THEN @ \ {s} ELSE @ \union {s}]
  /\ UNCHANGED <<cur, proc, nextPid, spaces, fg, calls>>

\* The tail of syscall_dispatch: every so often, and whenever a call answered
\* EAGAIN, the others have a turn.
DispatchTail ==
  /\ At("ret")
  /\ calls' = (calls + 1) % CallsPerYield
  /\ \/ YieldAt("resched")
     \/ calls' # 0 /\ Goto("resched") /\ cur' = cur
  /\ UNCHANGED <<proc, nextPid, spaces, fg>>

\* Then a signal ends the process, or goes to its handler - which has returned
\* by the thread's next call here - or the program carries on.
ToUser ==
  /\ At("resched")
  /\ \/ Die
     \/ /\ Fatal = {}
        /\ proc' = [proc EXCEPT ![Me].pend =
             @ \ (Unhandled \union IF Deliverable = {} THEN {} ELSE {Min(Deliverable)})]
        /\ Goto("user")
        /\ UNCHANGED <<cur, nextPid, spaces, fg, calls>>

----------------------------------------------------------------------------
Init ==
  /\ thr = [i \in Slots |-> IF i = 0 THEN [NoThread EXCEPT !.pc = "shell", !.entry = "kernel"]
                                     ELSE NoThread]
  /\ cur = 0
  /\ proc = [p \in Pids |-> NoProcess]
  /\ nextPid = 1
  /\ spaces = {}
  /\ fg = 0
  /\ calls = 0
  /\ Does \in Cases

Calls ==
  \/ \E share \in BOOLEAN : Fork(share)
  \/ ForkFails \/ ForkNoFiles
  \/ Clone
  \/ Exec \/ ExecNoSpace \/ ExecNoLoad \/ ExecTsh
  \/ ThreadExit \/ ExitGroup
  \/ \E want \in Pids \union {0}, nohang \in BOOLEAN : Wait4(want, nohang)
  \/ Sleep
  \/ \E s \in Sigs : Kill(s)
  \/ \E s \in Sigs, h \in Handlers : Sigaction(s, h)
  \/ \E s \in Sigs : Sigprocmask(s)

Waits == VforkTurn \/ JoinTurn \/ Wait4Turn \/ SleepTurn
Ends  == ProcessExit \/ LeaderTold \/ UnwindProgram \/ UnwindProcess \/ UnwindThread

Steps ==
  \/ Calls \/ Waits \/ Ends \/ DispatchTail \/ ToUser
  \/ TshDone \/ ShellIdle
  \/ \E loads \in BOOLEAN : StartProgram(loads)
  \/ \E s \in {SIGINT, SIGKILL} : KeyTyped(s)

Next == Steps /\ UNCHANGED Does

Spec == Init /\ [][Next]_vars

\* The processor goes on: a thread in its program makes another call some time,
\* and one in the kernel takes its next step.  Nothing more is assumed; in
\* particular who runs next is thread_yield's choice, not the scheduler's luck.
FairSpec == Spec /\ WF_vars(Next)

----------------------------------------------------------------------------
(* What has to hold.                                                       *)

Thread == [proc : Pids \union {0}, leader : BOOLEAN, dead : BOOLEAN,
           exiting : BOOLEAN, code : Codes, pc : Labels, entry : Entries,
           blocked : SUBSET Sigs, arg : Pids \union {0}, was : Seq(Pids \union {0})]

Process == [st : {"free", "live", "zombie"}, ppid : Pids \union {0},
            pgid : Pids \union {0}, borrowed : BOOLEAN, space : Pids \union {0},
            pend : SUBSET Sigs, act : [Sigs -> Handlers], status : Codes]

\* The type invariant of the thread table and the process table.
TypeOK ==
  /\ thr \in [Slots -> Thread]
  /\ cur \in Slots
  /\ proc \in [Pids -> Process]
  /\ nextPid \in 1 .. MaxPid + 1
  /\ spaces \subseteq Pids
  /\ fg \in Pids \union {0}
  /\ calls \in 0 .. CallsPerYield - 1

\* The processes on a thread's kernel stack, the outermost first: the shell's
\* thread runs a program within itself, and so does a process's in /ctl/tsh.
Nest(i) == Append(thr[i].was, thr[i].proc)

\* Whether thread i's stack holds the frame that calls process_end for p:
\* process_entry's at its bottom, or program_start's above it.
CanEnd(i, p) ==
  \E k \in 1 .. Len(Nest(i)) : Nest(i)[k] = p /\ (k > 1 \/ thr[i].entry = "process")

\* Every process that has not ended has a thread that carries it on, and that
\* will end it: only such a process becomes a zombie its parent's wait4 finds.
CarriedOn == \A p \in Pids : Live(p) => \E i \in Slots : Alive(i) /\ CanEnd(i, p)

\* No thread outlives its process: whatever a thread runs in, now or further
\* down its stack, has not ended, let alone been freed under it.
RunsInLive ==
  \A i \in Slots : Alive(i) =>
    \A k \in 1 .. Len(Nest(i)) : Nest(i)[k] = 0 \/ Live(Nest(i)[k])

\* The memory a process runs in exists: its own, or the one it has borrowed.
MemoryThere == \A p \in Pids : Live(p) /\ ThreadsOf(p) # {} => proc[p].space \in spaces

\* And memory is given back: only a process that has not ended still owns any.
NoMemoryLeft == \A p \in spaces : Live(p) /\ proc[p].space = p /\ ~proc[p].borrowed

\* process_end and execve free an address space when nobody is in it any more, and only then.
MemoryTrue == MemoryThere /\ NoMemoryLeft

\* While a vfork's child is in its parent's memory the thread that made it is
\* waiting, and the child is not collected before that thread has looked.
VforkParentWaits ==
  /\ \A p \in Pids : Live(p) /\ proc[p].borrowed =>
       \E i \in Slots : Alive(i) /\ thr[i].pc = "vfork" /\ thr[i].arg = p
                         /\ thr[i].proc = proc[p].ppid
  /\ \A i \in Slots : Alive(i) /\ thr[i].pc = "vfork" => Used(thr[i].arg)

\* A parent a process waits to be collected by has not ended: a zombie is
\* somebody's, or proc_new forgets it.
ParentLives == \A p \in Pids : Used(p) /\ proc[p].ppid # 0 => Live(proc[p].ppid)

\* In whatever order a parent and its children end, start programs and are waited for
\* (fork_on, process_end, proc_new), a child's parent is there to collect it and, of a
\* vfork, does not run on in the memory it lent.
ParentsTrue == VforkParentWaits /\ ParentLives

\* A signal that is let go when left to itself ends no process.
NoIgnoredDeath ==
  \A i \in Slots : thr[i].pc \in {"exit", "unwind"} => thr[i].code \notin IgnoredByDefault

\* A process told to die does, wherever its threads are waiting - short of one that
\* waits for a vfork's child to give its memory back, which nothing cuts short.
KillEnds ==
  \A p \in Pids : (Live(p) /\ SIGKILL \in proc[p].pend)
                   ~> (~Live(p) \/ \E i \in ThreadsOf(p) : thr[i].pc = "vfork")

\* A parent in wait4 with a child that has ended gets out of it.
WaitEnds ==
  \A i \in Slots :
    (/\ Alive(i) /\ thr[i].pc = "wait4" /\ thr[i].arg = 0
     /\ \E c \in Pids : proc[c].st = "zombie" /\ proc[c].ppid = thr[i].proc)
    ~> (thr[i].pc # "wait4")

\* The parent of a vfork carries on once its child has memory of its own or is
\* gone.
VforkEnds ==
  \A i \in Slots :
    (Alive(i) /\ thr[i].pc = "vfork" /\ ~proc[thr[i].arg].borrowed)
    ~> (thr[i].pc # "vfork")
=============================================================================
