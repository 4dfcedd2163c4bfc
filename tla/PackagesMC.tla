----------------------------- MODULE PackagesMC -----------------------------
(* The packages, commands and faults TLC goes through.                     *)
EXTENDS Packages

Dir(p) == [path |-> p, kind |-> "dir", libs |-> {}]
File(p) == [path |-> p, kind |-> "file", libs |-> {}]
Conf(p) == [path |-> p, kind |-> "conf", libs |-> {}]
Link(p) == [path |-> p, kind |-> "link", libs |-> {}]
Linked(p, so) == [path |-> p, kind |-> "file", libs |-> {so}]

Pkg(name, ver, deps) == [name |-> name, ver |-> ver, deps |-> deps, prov |-> {}, ess |-> FALSE, alts |-> <<>>]

\* a needs b, or v, which c gives too; b and c need each other.
A1 == Pkg("a", 1, << <<"b">>, <<"v", "c">> >>)
A2 == Pkg("a", 2, << <<"b">>, <<"e">> >>)
B1 == Pkg("b", 1, << <<"c">> >>)
B2 == [Pkg("b", 2, <<>>) EXCEPT !.alts = <<[link |-> "/link", to |-> "/d/b"]>>]
C1 == [Pkg("c", 1, << <<"b">> >>) EXCEPT !.prov = {"v"}]
F1 == Pkg("f", 1, <<>>)
E1 == [Pkg("e", 1, << <<"b">>, <<"nowhere">> >>) EXCEPT !.ess = TRUE]

Archives ==
  (<<"a", 1>> :> <<Dir("/d"), File("/d/a"), Conf("/etc")>>) @@ (<<"a", 2>> :> <<Dir("/d"), File("/d/a"), Conf("/etc"), File("/d/a2")>>)
  @@ (<<"b", 1>> :> <<Dir("/d"), File("/d/b")>>) @@ (<<"b", 2>> :> <<Dir("/d"), File("/d/b")>>)
  @@ (<<"c", 1>> :> <<File("/c")>>) @@ (<<"f", 1>> :> <<Dir("/d"), File("/d/f")>>) @@ (<<"e", 1>> :> <<Link("/bin"), File("/e")>>)
Inside == [p \in {"/d/a", "/d/a2", "/d/b", "/d/f"} |-> [dir |-> "/d", package |-> ""]]

Setup ==
  [PLAN |-> 4, indexes |-> <<<<C1, B1, A1, E1, F1>>, <<A2, B2, C1, E1, F1>>>>, archives |-> Archives, inside |-> Inside,
   asked |-> {"a", "f"}, Does |-> {"install", "remove"}, Faults |-> {}, left |-> [commands |-> 4, faults |-> 0]]

\* Every order of commands; upgrades and -re by themselves.
Upgrades == [Setup EXCEPT !.Does = {"install", "remove", "upgrade"}]
Essentials == [Setup EXCEPT !.Does = {"install", "remove", "essential"}, !.asked = {"a", "b", "e"}, !.left.commands = 5]
\* Two of them go wrong, or are killed.
Faulty == [Setup EXCEPT !.Faults = {"download", "path", "damaged", "list", "db", "kill"}, !.Does = {"install", "remove", "upgrade"},
                        !.left = [commands |-> 3, faults |-> 2]]
\* A program that needs a library no package says it does, and one that needs another.
Libraries == [Setup EXCEPT !.Does = {"install"}, !.asked = {"p"}, !.left.commands = 2,
  !.indexes = <<<<Pkg("l", 1, <<>>), Pkg("p", 1, <<>>), Pkg("k", 1, <<>>)>>>>,
  !.archives = (<<"p", 1>> :> <<Linked("/p", "/l")>>) @@ (<<"l", 1>> :> <<Linked("/l", "/k")>>) @@ (<<"k", 1>> :> <<File("/k")>>),
  !.inside = ("/l" :> [dir |-> "/", package |-> "l"]) @@ ("/k" :> [dir |-> "/", package |-> "k"])]
\* More than there is room to plan.
Small == [Setup EXCEPT !.PLAN = 2]
Some == {Upgrades, Essentials, Faulty, Libraries, Small}
=============================================================================
