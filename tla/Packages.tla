------------------------------ MODULE Packages ------------------------------
(* src/tuxpac/tuxpac.c: packages resolved, downloaded, unpacked path by path, *)
(* configured and removed, over files that are each written by themselves: a   *)
(* download, a member, a path, a list or the list of installed packages may    *)
(* fail, and the command may be killed between any two steps.                  *)
(* A version is a number; a dependency is a sequence of alternatives; what a   *)
(* script does is its own affair, only when it runs is here.                   *)
EXTENDS Integers, Sequences, FiniteSets, SequencesExt, FiniteSetsExt, Functions

CONSTANT Setups \* the mirrors' indexes and packages, the commands given, the faults: see SetupOK

VARIABLES
  setup,    \* the one of Setups that this is, which no step changes
  index,    \* how many of setup.indexes have been synced
  disk,     \* what is at each path: a function from those that are there
  DB,       \* /var/lib/tuxpac/installed: its lines
  lists,    \* <name>.list: from each name that has one, what it says
  kept,     \* the packages whose scripts are kept beside their lists
  status,   \* /var/lib/dpkg/status: names and versions
  run,      \* the command under way: see Idle
  left,     \* how many commands and faults more
  hurt      \* packages that a fault or a kill met half way; not in the code

disks == <<disk, DB, lists, kept, status>>
vars == <<setup, index, disks, run, left, hurt>>

PLAN == setup.PLAN
ROUNDS == 4
TopLinks == {"/bin"}

\* A line of the index, and a package's paths in the order of its archive.
Lines == IF index = 0 THEN <<>> ELSE setup.indexes[index]
Archive(l) == setup.archives[<<l.name, l.ver>>]

SetupOK(s) ==
  /\ s.PLAN \in Nat \ {0} /\ s.left.commands \in Nat
  /\ \A i \in DOMAIN s.indexes : \A j \in DOMAIN s.indexes[i] :
       <<s.indexes[i][j].name, s.indexes[i][j].ver>> \in DOMAIN s.archives
ASSUME SetupsAssumption == \A s \in Setups : SetupOK(s)

Idle ==
  [pc |-> "idle", kind |-> "", purge |-> FALSE, scripts |-> FALSE, db |-> <<>>, wants |-> <<>>, plan |-> <<>>, line |-> <<>>, flag |-> "",
   entries |-> <<>>, list |-> <<>>, was |-> 0, unpacked |-> <<>>, todo |-> <<>>, libs |-> {}, round |-> 1]

Without(f, keys) == Restrict(f, DOMAIN f \ keys)
Put(f, key, value) == [k \in DOMAIN f \union {key} |-> IF k = key THEN value ELSE f[k]]

----------------------------------------------------------------------------
(* What is installed, and what answers a want                              *)

\* find_inst: the place of a name among what is installed, 0 if nowhere.
FindInst(db, name) ==
  LET at == {i \in DOMAIN db : db[i].name = name} IN IF at = {} THEN 0 ELSE Min(at)
Answers(p, a) == p.name = a \/ a \in p.prov

\* satisfied: an alternative is installed, or planned by its name.
Planned(plan, name) == \E i \in DOMAIN plan : plan[i].line.name = name
Satisfied(db, plan, group) ==
  \E k \in DOMAIN group : Planned(plan, group[k]) \/ \E i \in DOMAIN db : Answers(db[i], group[k])

\* match, better: alternative k by its name is 2k, by what a package provides 2k + 1;
\* the least of these, and of those the newest, and of those the first in the index.
Rank(l, want) ==
  Min({2 * Len(want.group) + 2}
      \union {2 * k : k \in {k \in DOMAIN want.group : want.group[k] = l.name}}
      \union {2 * k + 1 : k \in {k \in DOMAIN want.group : want.kind # "upgrade" /\ want.group[k] \in l.prov}})
Found(want) ==
  LET some == {i \in DOMAIN Lines : Rank(Lines[i], want) <= 2 * Len(want.group) + 1}
      good == {i \in some : \A j \in some : Rank(Lines[i], want) <= Rank(Lines[j], want)}
      new == {i \in good : \A j \in good : Lines[i].ver >= Lines[j].ver}
  IN IF new = {} THEN <<>> ELSE <<Lines[Min(new)]>>

\* want: unless this round has asked for it.
WantAlso(wants, group) ==
  IF \E i \in DOMAIN wants : wants[i].group = group THEN wants ELSE Append(wants, [group |-> group, kind |-> "dep"])

Skip(db, x, want, l) ==
  LET k == FindInst(db, l.name)
  IN \/ Planned(x.plan, l.name)
     \/ want.kind = "dep" /\ k # 0
     \/ want.kind = "upgrade" /\ k # 0 /\ l.ver <= db[k].ver

\* One want of a round: into the plan, and what it depends on among the next round's.
Resolved(db, x, want) ==
  LET found == Found(want)
      l == found[1]
      k == FindInst(db, l.name)
      flag == IF want.kind = "target" THEN "m" ELSE IF k # 0 THEN db[k].flag ELSE "a"
      plan == Append(x.plan, [line |-> l, flag |-> flag])
      needs == SelectSeq(l.deps, LAMBDA g : ~Satisfied(db, plan, g))
  IN IF x.failed \/ (found = <<>> /\ want.kind # "target") THEN x
     ELSE IF found = <<>> THEN [x EXCEPT !.failed = TRUE]
     ELSE IF Skip(db, x, want, l) THEN x
     ELSE IF Len(x.plan) = PLAN THEN [x EXCEPT !.failed = TRUE]
     ELSE [x EXCEPT !.plan = plan, !.wants = FoldLeft(WantAlso, @, needs)]

\* resolve, a round of it.
Round(db, plan, wants) == FoldLeft(LAMBDA x, want : Resolved(db, x, want), [plan |-> plan, wants |-> <<>>, failed |-> FALSE], wants)

----------------------------------------------------------------------------
(* Installing: get                                                         *)

Fault(kind) == left.faults > 0 /\ kind \in setup.Faults
Spend == left' = [left EXCEPT !.faults = @ - 1]
Hurt(names) == hurt' = hurt \union names
Names == {of[1] : of \in DOMAIN setup.archives}
Fine == UNCHANGED <<left, hurt>>

\* -s of some, -u of all.
Get(names, kind) ==
  /\ run.pc = "idle" /\ left.commands > 0 /\ index > 0
  /\ run' = [Idle EXCEPT !.pc = "resolve", !.db = DB, !.wants = [i \in DOMAIN names |-> [group |-> <<names[i]>>, kind |-> kind]]]
  /\ left' = [left EXCEPT !.commands = @ - 1]
  /\ UNCHANGED <<index, disks, hurt>>

Ask(name) == "install" \in setup.Does /\ Get(<<name>>, "target")
Upgrade == "upgrade" \in setup.Does /\ DB # <<>> /\ Get([i \in DOMAIN DB |-> DB[i].name], "upgrade")
\* -e: those the index marks, and are not there.
Essential ==
  LET missing == SelectSeq(Lines, LAMBDA l : l.ess /\ FindInst(DB, l.name) = 0)
  IN "essential" \in setup.Does /\ missing # <<>> /\ Get([i \in DOMAIN missing |-> missing[i].name], "target")

Resolve ==
  LET x == Round(run.db, run.plan, run.wants)
  IN /\ run.pc = "resolve"
     /\ run' = IF x.failed THEN Idle
               ELSE [run EXCEPT !.plan = x.plan, !.wants = x.wants, !.pc = IF x.wants = <<>> THEN "next" ELSE @]
     /\ UNCHANGED <<index, disks>> /\ Fine

\* merged_usr, and the plan's last; when none is left, what is unpacked is configured.
NextOfPlan ==
  LET p == Last(run.plan)
      k == FindInst(run.db, p.line.name)
  IN /\ run.pc = "next"
     /\ IF run.plan = <<>>
        THEN /\ run' = [run EXCEPT !.pc = "status"]
             /\ UNCHANGED disk
        ELSE /\ disk' = disk @@ [path \in TopLinks |-> [of |-> "", ver |-> 0, kind |-> "link", whole |-> TRUE]]
             /\ run' = [run EXCEPT !.pc = "download", !.plan = Front(@), !.line = <<p.line>>, !.flag = p.flag,
                                   !.was = IF k = 0 THEN 0 ELSE run.db[k].ver]
     /\ UNCHANGED <<index, DB, lists, kept, status>> /\ Fine

Line == run.line[1]
\* One that fails ends the command, once what went in before it is configured.
GivesUp == run' = [run EXCEPT !.pc = "status", !.plan = <<>>, !.round = ROUNDS]

\* download; then control: the old scripts go, the new are kept, preinst runs.
Download ==
  /\ run.pc = "download"
  /\ \/ /\ run' = [run EXCEPT !.pc = "entry", !.entries = Archive(Line), !.list = <<>>]
        /\ kept' = kept \union {Line.name}
        /\ Fine
     \/ Fault("download") /\ GivesUp /\ UNCHANGED <<kept, hurt>> /\ Spend
  /\ UNCHANGED <<index, disk, DB, lists, status>>

\* Mutant: nothing that was there is listed.
ListedNew(e) == IF e.path \in DOMAIN disk THEN <<>> ELSE <<[path |-> e.path, kind |-> e.kind]>>
\* tar_entry and tar_sink: a folder is listed if it was made, a conffile that is there
\* stays; a path that fails is counted, and a file that fails half way is listed.
Listed(e) ==
  CASE e.kind = "dir" -> IF e.path \in DOMAIN disk THEN <<>> ELSE <<[path |-> e.path, kind |-> "dir"]>>
    [] OTHER -> <<[path |-> e.path, kind |-> e.kind]>>
Stays(e) == e.path \in DOMAIN disk /\ e.kind \in {"dir", "conf"}
Here(e, whole) == [of |-> Line.name, ver |-> Line.ver, kind |-> e.kind, whole |-> whole]
Entry ==
  LET e == Head(run.entries)
      on == [run EXCEPT !.entries = Tail(@), !.list = @ \o Listed(e), !.libs = @ \union e.libs]
  IN /\ run.pc = "entry" /\ run.entries # <<>>
     /\ \/ /\ run' = on
           /\ disk' = IF Stays(e) THEN disk ELSE Put(disk, e.path, Here(e, TRUE))
           /\ Fine
        \/ /\ Fault("path") /\ ~Stays(e) /\ e.kind # "dir"
           /\ \/ run' = [run EXCEPT !.entries = Tail(@)] /\ UNCHANGED disk
              \/ run' = on /\ disk' = Put(disk, e.path, Here(e, FALSE))
           /\ Spend /\ Hurt({Line.name})
        \/ Fault("damaged") /\ GivesUp /\ UNCHANGED disk /\ Spend /\ Hurt({Line.name})
     /\ UNCHANGED <<index, DB, lists, kept, status>>

\* unpack's end: the list, whether or not it could be written.
List ==
  /\ run.pc = "entry" /\ run.entries = <<>>
  /\ run' = [run EXCEPT !.pc = "record"]
  /\ \/ lists' = Put(lists, Line.name, run.list) /\ Fine
     \/ Fault("list") /\ lists' = Put(lists, Line.name, <<>>) /\ Spend /\ Hurt({Line.name})
  /\ UNCHANGED <<index, disk, DB, kept, status>>

\* install's end: db_add of one that is new; db_save of the whole for one that was there,
\* which empties the file first (Save).
Added(db) ==
  Append(SelectSeq(db, LAMBDA p : p.name # Line.name),
         [name |-> Line.name, ver |-> Line.ver, flag |-> run.flag, deps |-> Line.deps, prov |-> Line.prov])
Record ==
  /\ run.pc = "record"
  /\ IF run.was = 0
     THEN \/ /\ DB' = Added(DB)
             /\ run' = [run EXCEPT !.pc = "next", !.db = Added(@), !.unpacked = Append(@, Line)]
             /\ Fine
          \/ Fault("db") /\ GivesUp /\ UNCHANGED DB /\ Spend /\ Hurt({Line.name})
     ELSE /\ DB' = <<>>
          /\ run' = [run EXCEPT !.pc = "save", !.db = Added(@), !.unpacked = Append(@, Line)]
          /\ Fine
  /\ UNCHANGED <<index, disk, lists, kept, status>>

Said(db) == {<<db[i].name, db[i].ver>> : i \in DOMAIN db}
\* db_save: what was memory's is the file's, or some of it is; and dpkg's status.
Save ==
  /\ run.pc = "save"
  /\ \/ /\ DB' = run.db /\ status' = Said(run.db) /\ Fine
        /\ run' = IF run.kind = "remove" THEN Idle ELSE [run EXCEPT !.pc = "next"]
     \/ /\ Fault("db") /\ \E n \in 0 .. Len(run.db) - 1 : DB' = SubSeq(run.db, 1, n)
        /\ (IF run.kind = "remove" THEN run' = Idle ELSE GivesUp)
        /\ UNCHANGED status /\ Spend /\ Hurt(Names)
  /\ UNCHANGED <<index, disk, lists, kept>>

\* configure: the status first, then postinst of each in the order they went in, and
\* the links that update-alternatives would make; then the triggers.
Status ==
  /\ run.pc = "status"
  /\ status' = IF run.unpacked = <<>> THEN status ELSE Said(run.db)
  /\ run' = [run EXCEPT !.pc = "configure"]
  /\ UNCHANGED <<index, disk, DB, lists, kept>> /\ Fine

\* alt_link: only where nothing is, to something that is there.
Alternatives(l) == SelectSeq(l.alts, LAMBDA a : a.link \notin DOMAIN disk /\ a.to \in DOMAIN disk)
Configure ==
  LET l == Head(run.unpacked)
      alts == Alternatives(l)
  IN /\ run.pc = "configure" /\ run.unpacked # <<>>
     /\ disk' = [path \in {alts[i].link : i \in DOMAIN alts} |-> [of |-> l.name, ver |-> l.ver, kind |-> "link", whole |-> TRUE]] @@ disk
     /\ lists' = IF l.name \notin DOMAIN lists THEN lists
                 ELSE [lists EXCEPT ![l.name] = @ \o [i \in DOMAIN alts |-> [path |-> alts[i].link, kind |-> "link"]]]
     /\ run' = [run EXCEPT !.unpacked = Tail(@)]
     /\ UNCHANGED <<index, DB, kept, status>> /\ Fine

\* want_missing: a round more for the libraries that are not on the disk.
Missing ==
  LET so == {s \in run.libs : s \notin DOMAIN disk /\ FindInst(run.db, setup.inside[s].package) = 0}
      wants == SetToSeq({[group |-> <<setup.inside[s].package>>, kind |-> "dep"] : s \in so})
  IN /\ run.pc = "configure" /\ run.unpacked = <<>>
     /\ run' = IF run.round = ROUNDS \/ wants = <<>> THEN Idle
               ELSE [run EXCEPT !.pc = "resolve", !.wants = wants, !.libs = {}, !.round = @ + 1]
     /\ UNCHANGED <<index, disks>> /\ Fine

----------------------------------------------------------------------------
(* Removing                                                                *)

\* needs: any alternative of any dependency that k answers.
Needs(p, q) == \E g \in Range(p.deps) : \E k \in DOMAIN g : Answers(q, g[k])
\* Mutant: only what the packages asked for name themselves is kept.
MarkedOnce(db, roots) == roots \union {j \in DOMAIN db : \E i \in roots : Needs(db[i], db[j])}
\* mark: what the packages asked for need, all the way down.
Marked(db, roots) ==
  FoldLeft(LAMBDA seen, n : seen \union {j \in DOMAIN db : \E i \in seen : Needs(db[i], db[j])},
           roots, [i \in DOMAIN db |-> i])
AskedFor(db) == {i \in DOMAIN db : db[i].flag = "m"}

\* What goes, whether conffiles go with it, and whether its scripts run, and go too.
Removes(db, going, purge, scripts) ==
  /\ left' = [left EXCEPT !.commands = @ - 1]
  /\ run' = IF going = {} THEN Idle
            ELSE [Idle EXCEPT !.pc = "remove", !.kind = "remove", !.purge = purge, !.scripts = scripts,
                          !.todo = [i \in 1 .. Cardinality(going) |-> db[SetToSortSeq(going, <)[i]].name],
                              !.db = SelectSeq(db, LAMBDA p : p.name \notin {db[i].name : i \in going})]

\* -r and -n: refused to one that another needs; with it goes all that nothing asked
\* for needs.
RemovePackage(name, purge) ==
  LET k == FindInst(DB, name)
      marked == Marked(DB, AskedFor(DB) \ {k})
  IN /\ run.pc = "idle" /\ left.commands > 0 /\ "remove" \in setup.Does /\ k # 0
     /\ ~(k \in marked /\ \E i \in marked \ {k} : Needs(DB[i], DB[k]))
     /\ Removes(DB, DOMAIN DB \ marked, purge, TRUE)
     /\ UNCHANGED <<index, disks, hurt>>

\* -re: essential ones count as pulled in; of what was kept, what is not any more goes,
\* but for its scripts, none of which is run.
RemoveEssential ==
  LET ess == {i \in DOMAIN DB : \E j \in DOMAIN Lines : Lines[j].ess /\ Lines[j].name = DB[i].name}
      db == [i \in DOMAIN DB |-> IF i \in ess THEN [DB[i] EXCEPT !.flag = "a"] ELSE DB[i]]
      before == Marked(DB, AskedFor(DB))
      after == Marked(db, AskedFor(db))
  IN /\ run.pc = "idle" /\ left.commands > 0 /\ "essential" \in setup.Does /\ index > 0
     /\ Removes(db, before \ after, FALSE, FALSE)
     /\ UNCHANGED <<index, disks, hurt>>

\* prerm, where scripts run, then the paths from the last to the first.
NextRemoved ==
  LET name == Head(run.todo)
  IN /\ run.pc = "remove"
     /\ run' = [run EXCEPT !.pc = "unlink", !.list = IF name \in DOMAIN lists THEN lists[name] ELSE <<>>]
     /\ UNCHANGED <<index, disks>> /\ Fine

\* Mutant: a folder goes with what is in it.
KeepsNone(e) == FALSE
\* What an entry of the list keeps: a conffile unless all is to go, a folder that is
\* not empty, the links into /usr.
Keeps(e) ==
  \/ e.kind = "conf" /\ ~run.purge
  \/ e.kind = "dir" /\ \E path \in DOMAIN disk : path \in DOMAIN setup.inside /\ setup.inside[path].dir = e.path
  \/ e.path \in TopLinks
Unlink ==
  LET e == Last(run.list)
      gone == IF Keeps(e) THEN {} ELSE {e.path} \union {p \in DOMAIN disk : p \in DOMAIN setup.inside /\ setup.inside[p].dir = e.path}
  IN /\ run.pc = "unlink" /\ run.list # <<>>
     /\ disk' = Without(disk, gone)
     /\ run' = [run EXCEPT !.list = Front(@)]
     /\ UNCHANGED <<index, DB, lists, kept, status>> /\ Fine

\* The list, and after postrm, where scripts run, they too; after the last package, what
\* is installed is saved.
Removed ==
  LET name == Head(run.todo)
  IN /\ run.pc = "unlink" /\ run.list = <<>>
     /\ lists' = Without(lists, {name})
     /\ kept' = IF run.scripts THEN kept \ {name} ELSE kept
     /\ DB' = IF Len(run.todo) = 1 THEN <<>> ELSE DB
     /\ run' = [run EXCEPT !.todo = Tail(@), !.pc = IF Len(run.todo) = 1 THEN "save" ELSE "remove"]
     /\ UNCHANGED <<index, disk, status>> /\ Fine

----------------------------------------------------------------------------
(* The rest                                                                *)

\* sync: the new index takes the old one's place when all of it is there.
Sync ==
  /\ run.pc = "idle" /\ index < Len(setup.indexes)
  /\ index' = index + 1
  /\ UNCHANGED <<disks, run, left, hurt>>

\* What the command is at: the packages it removes, and the one it installs.
NamesIn(db) == {db[i].name : i \in DOMAIN db}
Busy == (IF run.kind = "remove" THEN NamesIn(DB) \ NamesIn(run.db) ELSE {}) \union NamesIn(run.line)

\* Ctrl-C, or the power: what the command was at is left as it is.
Kill ==
  /\ run.pc # "idle" /\ Fault("kill")
  /\ run' = Idle /\ Spend
  /\ Hurt(IF run.pc = "save" THEN Names ELSE Busy)
  /\ UNCHANGED <<index, disks>>

Init ==
  /\ setup \in Setups
  /\ index = 0 /\ disk = <<>> /\ DB = <<>> /\ lists = <<>> /\ kept = {} /\ status = {}
  /\ run = Idle /\ left = setup.left /\ hurt = {}

Steps ==
  \/ Sync \/ Upgrade \/ Essential \/ RemoveEssential \/ Kill
  \/ \E name \in setup.asked : Ask(name) \/ \E purge \in BOOLEAN : RemovePackage(name, purge)
  \/ Resolve \/ NextOfPlan \/ Download \/ Entry \/ List \/ Record \/ Save \/ Status \/ Configure \/ Missing
  \/ NextRemoved \/ Unlink \/ Removed
Next == Steps /\ UNCHANGED setup
Spec == Init /\ [][Next]_vars

----------------------------------------------------------------------------
(* Properties                                                              *)


\* Whatever else is installed, upgraded, removed, fails or is killed, each package that
\* is installed has its list, and every path on that is there, of that version and whole.
FilesThere ==
  \A i \in DOMAIN DB : DB[i].name \notin hurt \union Busy =>
    /\ DB[i].name \in DOMAIN lists /\ DB[i].name \in kept
    /\ \A e \in Range(lists[DB[i].name]) :
         /\ e.path \in DOMAIN disk
         /\ e.kind \in {"file", "link"} => disk[e.path] = [of |-> DB[i].name, ver |-> DB[i].ver, kind |-> e.kind, whole |-> TRUE]

\* A package that is removed takes its files with it, whatever happened while it was
\* installed.
NothingLeft ==
  \A path \in DOMAIN disk :
    disk[path].kind = "file" => disk[path].of \in hurt \union Busy \union NamesIn(run.db) \union NamesIn(DB)

\* When commands have gone well, what each package needs is installed, or is not to be
\* had; and dpkg's status says what is installed, to scripts that configure too.
NeedsKept ==
  left.faults = setup.left.faults =>
    /\ run.pc = "idle" => \A i \in DOMAIN DB : \A g \in Range(DB[i].deps) :
         Satisfied(DB, <<>>, g) \/ Found([group |-> g, kind |-> "dep"]) = <<>>
    /\ run.pc \in {"idle", "configure"} => status = Said(DB)
=============================================================================
