--------------------------- MODULE MCMaintenance ---------------------------
(* A small instance of Maintenance for TLC. *)
EXTENDS Maintenance, Sequences

TwoTasks == {"t1", "t2"}

\* Two GCC versions of one CHOST and profile, and another profile.
SomeTags == {"a12", "a13", "b13"}
ProfileOf(tag) == IF tag = "b13" THEN "b" ELSE "a"

\* Versions 8, 9 and 10: the file of 10 is the first by name.
SomeVersions == {8, 9, 10}
TextRank(v) == IF v = 10 THEN 0 ELSE v

\* Two packages, and one of the category virtual.
SomeBases == {"lib", "app", "virt"}
NoDash == {"virt"}
Earlier(base, vers) == {[base |-> base, ver |-> v, by |-> "earlier"] : v \in vers}

Build(tag, base, ver) == [at |-> "check", tag |-> tag, base |-> base, ver |-> ver]
NoBuild == [at |-> "done", tag |-> "a12", base |-> "lib", ver |-> 8]
Two(x, y) == [t \in Tasks |-> IF t = "t1" THEN x ELSE y]
Images(a12, a13, b13) == [tag \in Tags |-> CASE tag = "a12" -> a12 [] tag = "a13" -> a13 [] tag = "b13" -> b13]

\* The tags of a sequence, each with those after it.
UsedInOrder(tags) ==
    LET after(i) == {tags[j] : j \in i + 1..Len(tags)} IN
    [tag \in {tags[i] : i \in DOMAIN tags} |-> after(CHOOSE i \in DOMAIN tags : tags[i] = tag)]

\* Builds with images of earlier builds, or with none.
ImageScenarios ==
    { [orders |-> Two(Build(x, "lib", 9), y), image |-> Images("current", "current", "stale"),
       used |-> u, bases |-> {"lib"}, files |-> {}, faults |-> 1] :
        x \in {"a12", "b13"}, y \in {Build("a12", "lib", 9), Build("a13", "lib", 9)},
        u \in {UsedInOrder(<<>>), UsedInOrder(<<"a12", "a13">>)} }

\* Builds that run, of packages the repository has versions of.
Running(base, ver) == [Build("a12", base, ver) EXCEPT !.at = "running"]
RepoScenario(x, y, vers) ==
    [orders |-> Two(Running("lib", x), y), image |-> Images("current", "absent", "absent"),
     used |-> UsedInOrder(<<"a12">>), bases |-> {"lib", "app", y.base},
     files |-> Earlier("lib", vers) \cup Earlier("app", {8}), faults |-> 1]
RepoScenarios ==
    {RepoScenario(x, NoBuild, vers) : x \in {8, 10}, vers \in {{9}, {8, 9, 10}}}
    \cup {RepoScenario(8, Running("app", 9), {8, 9, 10}), RepoScenario(10, Running("app", 9), {9}),
          RepoScenario(10, Running("virt", 9), {9})}

MCScenarios == ImageScenarios \cup RepoScenarios

=============================================================================
