---------------------------- MODULE MCClientRun ----------------------------
(* A small instance of ClientRun for TLC. *)
EXTENDS ClientRun

TwoClis == {"one", "two"}
TwoContents == {"v1", "v2"}

Version(d, l, s, r) == [dots |-> d, letter |-> l, suffixes |-> s, rev |-> r]
Suffix(k, n) == [kind |-> k, num |-> n]
Num(n, w) == [value |-> n, width |-> w]
N(n) == Num(n, 1)

\* Versions around one another: shorter and longer, with and without letters,
\* suffixes and revisions, and numbers whose digits begin alike or with a zero.
SomeSuffixes == {<<>>, <<Suffix(rc, N(1))>>, <<Suffix(p, Unwritten)>>}
Versions ==
    { Version(d, l, s, Unwritten) :
        d \in {<<N(1)>>, <<N(1), N(2)>>, <<N(1), N(2), N(0)>>}, l \in {0, 1}, s \in SomeSuffixes }
    \cup { Version(<<N(1), N(2)>>, 0, s, r) : s \in SomeSuffixes, r \in {N(0), N(1)} }
    \cup { Version(<<N(1), d>>, 0, <<>>, Unwritten) :
        d \in {N(0), N(1), Num(1, 2), Num(2, 2), Num(10, 2), Num(10, 3), Num(20, 2)} }
    \cup { Version(<<Num(1, 2), N(2)>>, 0, <<>>, Unwritten) }
Plain(v) == v.letter = 0 /\ v.suffixes = <<>> /\ v.rev = Unwritten

NoBuild ==
    [request |-> "good", op |-> "none", installed |-> <<>>, constraint |-> Version(<<N(1)>>, 0, <<>>, Unwritten),
     pkgdir |-> "absolute", digests |-> TRUE,
     force |-> FALSE, dry_run |-> FALSE, submit_only |-> FALSE, no_local |-> FALSE,
     pkgs |-> <<>>, dist |-> <<>>, files |-> <<>>, tree |-> FALSE,
     root |-> <<"var", "lib", "portage">>,
     who |-> {"one"}, wants |-> [c \in Clis |-> "v1"], faults |-> 0, reruns |-> 0]

\* Every pair of versions under every operator, stopped by --dry-run.
VersionScenarios ==
    { [NoBuild EXCEPT !.op = o, !.installed = <<v>>, !.constraint = w, !.dry_run = TRUE] :
        o \in {"=", "~", ">=", "<=", ">", "<"}, v \in Versions, w \in Versions }
    \cup { [NoBuild EXCEPT !.op = "=*", !.installed = <<v>>, !.constraint = w, !.dry_run = TRUE] :
        v \in Versions, w \in {x \in Versions : Plain(x)} }

FlowScenarios ==
    { [NoBuild EXCEPT !.request = "none", !.faults = 1],
      [NoBuild EXCEPT !.request = "bad"],
      [NoBuild EXCEPT !.request = "empty"],
      [NoBuild EXCEPT !.submit_only = TRUE, !.faults = 1] }

OneRun == [NoBuild EXCEPT !.pkgs = <<"pkg1", "pkg2">>, !.dist = <<"distfile">>,
                          !.files = <<"Packages", "state">>, !.tree = TRUE]

\* One CLI with everything to restore, and two that copy one package, of the same
\* build or of two builds of it.
RunScenarios ==
    { [OneRun EXCEPT !.faults = 2, !.reruns = 1],
      [OneRun EXCEPT !.pkgdir = "relative"],
      [OneRun EXCEPT !.digests = FALSE, !.faults = 1],
      [OneRun EXCEPT !.root = <<"var", "cache", "eclass">>],
      [OneRun EXCEPT !.root = <<"var", "db", "repos", "gentoo", "metadata">>],
      [OneRun EXCEPT !.no_local = TRUE, !.force = TRUE, !.faults = 1] }
    \cup { [NoBuild EXCEPT !.pkgs = <<"pkg1">>, !.dist = <<"distfile">>, !.no_local = TRUE, !.who = TwoClis, !.faults = 1,
                           !.wants = [c \in Clis |-> IF c = "one" THEN "v1" ELSE v]] :
           v \in TwoContents }

MCScenarios == VersionScenarios \cup FlowScenarios \cup RunScenarios

=============================================================================
