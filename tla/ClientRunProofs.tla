--------------------------- MODULE ClientRunProofs ---------------------------
(***************************************************************************)
(* A run of the CLI copies and restores what it should, whatever the other *)
(* runs do, for every set of CLIs and every list of packages and files.    *)
(***************************************************************************)
EXTENDS ClientRun, TLAPS

(* The greater of two numbers.                                             *)

\* The Max of two numbers is one of them, and no less than either.
LEMMA MaxOfTwo ==
  ASSUME NEW a \in Nat, NEW b \in Nat
  PROVE  /\ Max({a, b}) \in {a, b}
         /\ Max({a, b}) >= a
         /\ Max({a, b}) >= b
<1>1. \E x \in {a, b} : \A y \in {a, b} : x >= y
  OBVIOUS
<1>2. Max({a, b}) \in {a, b} /\ \A y \in {a, b} : Max({a, b}) >= y
  BY <1>1, Zenon DEF Max
<1> QED
  BY <1>2, Zenon

-----------------------------------------------------------------------------
(* The inductive invariant.                                                *)

Fields == {"pc", "stage", "item", "uri", "issues", "lost", "node", "off", "content", "stalled"}
Loop == {"inspect", "fetch", "write", "verify", "rename", "recheck"}
Linking == {"dirs", "links", "unlink", "relink"}
Settled == {"finalize", "check", "emerge"}
Parity == Linking \cup {"files"} \cup Settled
Idle == Ended \cup {"start", "plain", "negotiate", "submit", "stream"}
Stages == {"sync", "dist", "files"}

\* A CLI, whatever the others do.
Shape(r) ==
    /\ DOMAIN r = Fields
    /\ r.pc \in Idle \cup Loop \cup {"index", "index_write"} \cup Parity
    /\ r.stage \in Stages
    /\ r.item \in Nat
    /\ r.off \in {0, 1}
    /\ r.issues \in BOOLEAN
    /\ r.stalled \in BOOLEAN

\* One that has no package to copy yet, or is over, and one that does not write.
Fresh(r) ==
    /\ r.pc \in Idle => r.stage = "sync" /\ r.item = 1 /\ ~r.issues
    /\ r.pc \notin {"write", "index_write"} => r.off = 0

\* A file of one machine: two names for two nodes.
FileOK(f) ==
    /\ DOMAIN f = {"final", "part", "data", "stamped"}
    /\ DOMAIN f.data = Nodes
    /\ f.final \in Nodes \cup {NoNode}
    /\ f.part \in Nodes \cup {NoNode}
    /\ f.final # NoNode => f.final # f.part

Cached(f, v) == f.final # NoNode /\ f.data[f.final] = Whole(v)
Ready(stage, f, v) == Cached(f, v) /\ (stage # "sync" => f.final \in f.stamped)

FilesOK(fs) ==
    /\ DOMAIN fs = Targets
    /\ \A t \in Targets : FileOK(fs[t])
    /\ \A t \in {"pkg1", "pkg2"} : fs[t].final # NoNode => \E v \in Contents : Cached(fs[t], v)

\* The first n entries of a list are where the run wants them.
DoneTo(stage, n, c, fs) == \A i \in 1 .. n : Ready(stage, fs[List(stage)[i]], Want(c))
Done(stage, c, fs) == DoneTo(stage, Len(List(stage)), c, fs)

\* What a working run has of the stages behind it.
Kept(r, c, fs) ==
    /\ r.stage = "sync" => ~r.issues
    /\ r.stage # "sync" /\ r.uri = "local" =>
          /\ Done("sync", c, fs)
          /\ r.lost \/ Cached(fs["Packages"], Listing) \/ Cached(fs["Packages"], Want(c))
    /\ r.stage = "files" => r.issues \/ Done("dist", c, fs)

\* What it has of the stage it is in.
Place(r, c, fs) ==
    /\ r.pc \in Loop => /\ r.item \in 1 .. Len(List(r.stage))
                        /\ r.issues \/ DoneTo(r.stage, r.item - 1, c, fs)
    /\ r.pc \in {"index", "index_write"} => r.stage = "sync" /\ Done("sync", c, fs)
    /\ r.pc \in Parity => r.stage = "files"
    /\ r.pc \in Parity \ Settled => r.item = 1
    /\ r.pc \in Settled => r.issues \/ Done("files", c, fs)

\* What it has of the file it downloads.
Holding(r, c, fs) ==
    /\ r.pc = "write" => r.node # NoNode /\ r.node = fs[Target(r)].part
    /\ r.pc = "rename" => LET f == fs[Target(r)] IN f.part # NoNode /\ f.data[f.part] = Whole(Want(c))
    /\ r.pc = "recheck" => r.stage # "sync"
    /\ r.pc = "index_write" => LET f == fs["Packages"] IN
          r.node # NoNode /\ r.node = f.final /\ f.data[f.final] = [i \in 1 .. r.off |-> Listing]

Restored(c, fs, d, l) ==
    /\ scenario.tree => d = [is |-> "dir", stamped |-> TRUE] /\ l = [to |-> Want(c), stamped |-> TRUE]
    /\ \A t \in Range(scenario.files) : Ready("files", fs[t], Want(c))

Sound(r, c, fs, d, l) ==
    Working(r) => /\ Kept(r, c, fs) /\ Place(r, c, fs) /\ Holding(r, c, fs)
                  /\ r.pc = "emerge" => ~r.issues /\ Restored(c, fs, d, l)

\* Nothing has gone wrong so far, and nothing was wrong from the start.
Calm == /\ faults = 0 /\ ~replaced /\ ~shared /\ scenario.request \notin {"empty", "bad"}
        /\ dir.is # "file" /\ link.to # "dir"

\* There is nothing to copy, no digest to check it by, or no URI for the copy.
Remote == scenario.pkgs = <<>> \/ ~scenario.digests \/ scenario.pkgdir = "relative"

\* What a run is like when nothing went wrong.
Good(r, c, fs, d, l) ==
    /\ r.pc # "failed" /\ ~r.issues /\ ~r.stalled
    /\ r.uri = "remote" => Remote
    /\ r.pc = "write" => LET f == fs[Target(r)] IN
          r.content = Want(c) /\ f.data[f.part] = [i \in 1 .. r.off |-> Want(c)]
    /\ r.pc = "verify" => LET f == fs[Target(r)] IN f.part # NoNode /\ f.data[f.part] = Whole(Want(c))
    /\ r.pc = "recheck" => Ready(r.stage, fs[Target(r)], Want(c))
    /\ Working(r) /\ r.stage = "files" /\ r.pc # "dirs" => d.is = "dir"
    /\ Working(r) /\ r.stage = "files" /\ r.pc \notin Linking /\ scenario.tree =>
          l = [to |-> Want(c), stamped |-> TRUE]
    /\ r.pc = "check" /\ scenario.tree => d.stamped

Alone == \A c, d \in Clis : c # d => ~Working(cli[c]) \/ ~Working(cli[d])

\* The package that is skipped satisfies its atom, as is_installed sees it.
Found == /\ scenario.installed # <<>>
         /\ is_installed(scenario.op, scenario.installed[1], scenario.constraint)

World ==
    /\ scenario \in Scenarios
    /\ faults \in Nat
    /\ dir \in [is : {Absent, "dir", "file"}, stamped : BOOLEAN]
    /\ link \in [to : Contents \cup {Absent, "elsewhere", "dir"}, stamped : BOOLEAN]
    /\ DOMAIN cli = Clis
    /\ ~scenario.tree => dir.is = "dir"

One(c) ==
    /\ Shape(cli[c]) /\ Fresh(cli[c])
    /\ cli[c].pc = "skipped" => Found
    /\ cli[c].pc = "relink" => link.to # "dir"
    /\ ~shared => Sound(cli[c], c, files, dir, link)
    /\ Calm => Good(cli[c], c, files, dir, link)

IInv ==
    /\ World
    /\ ~shared => Alone /\ FilesOK(files)
    /\ Calm => \A t \in Targets : \A c \in Clis : served[t] = Want(c)
    /\ \A c \in Clis : One(c)

-----------------------------------------------------------------------------
(* Where a CLI goes next.                                                  *)

\* The lists of a scenario.
LEMMA Lists ==
  ASSUME scenario \in Scenarios
  PROVE  /\ \A stage \in Stages : Len(List(stage)) \in Nat
         /\ List("sync") = scenario.pkgs /\ List("dist") = scenario.dist /\ List("files") = scenario.files
         /\ \A i \in 1 .. Len(scenario.pkgs) : scenario.pkgs[i] \in {"pkg1", "pkg2"}
         /\ \A i \in 1 .. Len(scenario.dist) : scenario.dist[i] \in {"distfile"}
         /\ \A i \in 1 .. Len(scenario.files) : scenario.files[i] \in {"Packages", "state"}
         /\ Range(scenario.pkgs) = {scenario.pkgs[i] : i \in 1 .. Len(scenario.pkgs)}
         /\ Range(scenario.dist) = {scenario.dist[i] : i \in 1 .. Len(scenario.dist)}
         /\ Range(scenario.files) = {scenario.files[i] : i \in 1 .. Len(scenario.files)}
<1>1. /\ scenario.pkgs \in Seq({"pkg1", "pkg2"})
      /\ scenario.dist \in Seq({"distfile"})
      /\ scenario.files \in Seq({"Packages", "state"})
  BY ScenarioAssumption, Zenon
<1>2. List("sync") = scenario.pkgs /\ List("dist") = scenario.dist /\ List("files") = scenario.files
  BY DEF List
<1>3. Len(scenario.pkgs) \in Nat /\ DOMAIN scenario.pkgs = 1 .. Len(scenario.pkgs)
      /\ \A i \in 1 .. Len(scenario.pkgs) : scenario.pkgs[i] \in {"pkg1", "pkg2"}
  BY <1>1
<1>4. Len(scenario.dist) \in Nat /\ DOMAIN scenario.dist = 1 .. Len(scenario.dist)
      /\ \A i \in 1 .. Len(scenario.dist) : scenario.dist[i] \in {"distfile"}
  BY <1>1
<1>5. Len(scenario.files) \in Nat /\ DOMAIN scenario.files = 1 .. Len(scenario.files)
      /\ \A i \in 1 .. Len(scenario.files) : scenario.files[i] \in {"Packages", "state"}
  BY <1>1
<1>6. /\ Range(scenario.pkgs) = {scenario.pkgs[i] : i \in 1 .. Len(scenario.pkgs)}
      /\ Range(scenario.dist) = {scenario.dist[i] : i \in 1 .. Len(scenario.dist)}
      /\ Range(scenario.files) = {scenario.files[i] : i \in 1 .. Len(scenario.files)}
  BY <1>3, <1>4, <1>5, Zenon DEF Range
<1> QED
  BY <1>2, <1>3, <1>4, <1>5, <1>6, Zenon DEF Stages

\* Not where a run is skipped or is about to replace the symlink.
Onward(r) == Shape(r) /\ Fresh(r) /\ r.pc \notin {"skipped", "relink"}

\* Nothing went wrong for this run.
Clean(r) == ~r.issues /\ ~r.stalled /\ (r.uri = "remote" => Remote)

\* A run that is over.
LEMMA EndOutcome ==
  ASSUME NEW r, NEW how \in Ended
  PROVE  /\ Shape(End(r, how)) /\ Fresh(End(r, how)) /\ End(r, how).pc = how
         /\ ~Working(End(r, how))
         /\ \A c, fs, d, l : Sound(End(r, how), c, fs, d, l)
         /\ how # "failed" /\ (r.uri = "remote" => Remote) =>
               \A c, fs, d, l : Good(End(r, how), c, fs, d, l)
<1> DEFINE q == End(r, how)
<1>1. /\ DOMAIN q = Fields /\ q.pc = how /\ q.uri = r.uri /\ q.stage = "sync" /\ q.item = 1
      /\ q.issues = FALSE /\ q.off = 0 /\ q.stalled = FALSE
  BY DEF End, NewCli, Fields
<1> HIDE DEF q
<1>2. Shape(q)
  <2>1. 1 \in Nat
    OBVIOUS
  <2> QED
    BY <1>1, <2>1, Zenon DEF Shape, Idle, Stages
<1>3. ~Working(q) /\ Fresh(q)
  BY <1>1, Zenon DEF Working, Fresh
<1>4. \A c, fs, d, l : Sound(q, c, fs, d, l)
  BY <1>3, Zenon DEF Sound
<1>5. how \notin {"write", "verify", "recheck", "check"}
  BY DEF Ended
<1>6. ASSUME how # "failed", r.uri = "remote" => Remote
      PROVE  \A c, fs, d, l : Good(q, c, fs, d, l)
  BY <1>1, <1>3, <1>5, <1>6, Zenon DEF Good
<1> QED
  BY <1>1, <1>2, <1>3, <1>4, <1>6, Zenon DEF q

\* The restoration of distfiles is over.
LEMMA AfterDistfilesShape ==
  ASSUME NEW r, Shape(r), r.off = 0
  PROVE  Onward(AfterDistfiles(r))
<1> DEFINE q == [r EXCEPT !.pc = "dirs", !.stage = "files", !.item = 1]
<1>1. /\ DOMAIN q = Fields /\ q.pc = "dirs" /\ q.stage = "files" /\ q.item = 1
      /\ q.off = r.off /\ q.issues = r.issues /\ q.stalled = r.stalled
  BY Zenon DEF Shape, Fields
<1> HIDE DEF q
<1>2. Onward(q)
  <2>1. 1 \in Nat
    OBVIOUS
  <2> QED
    BY <1>1, <2>1, Zenon DEF Shape, Fresh, Onward, Stages, Parity, Linking, Idle, Ended
<1>3. "failed" \in Ended /\ "done" \in Ended
  BY DEF Ended
<1>4. Onward(End(r, "failed")) /\ Onward(End(r, "done"))
  BY <1>3, EndOutcome, Zenon DEF Onward
<1> QED
  BY <1>2, <1>4, Zenon DEF AfterDistfiles, q

\* With the distfiles in place the run is over or goes on with parity.
LEMMA AfterDistfilesOutcome ==
  ASSUME NEW r, Shape(r), NEW c, NEW fs, NEW d, NEW l, r.stage = "dist", Kept(r, c, fs),
         r.issues \/ Done("dist", c, fs)
  PROVE  /\ Sound(AfterDistfiles(r), c, fs, d, l)
         /\ Clean(r) => Good(AfterDistfiles(r), c, fs, d, l)
<1> DEFINE q == [r EXCEPT !.pc = "dirs", !.stage = "files", !.item = 1]
<1>1. /\ q.pc = "dirs" /\ q.stage = "files" /\ q.item = 1 /\ q.uri = r.uri /\ q.lost = r.lost
      /\ q.issues = r.issues /\ q.stalled = r.stalled
  BY Zenon DEF Shape, Fields
<1> HIDE DEF q
<1>2. "failed" \in Ended /\ "done" \in Ended
  BY DEF Ended
<1>3. CASE r.issues
  BY <1>2, <1>3, EndOutcome, Zenon DEF AfterDistfiles, Clean
<1>4. CASE ~r.issues /\ scenario.no_local
  <2>1. AfterDistfiles(r) = End(r, "done")
    BY <1>4, Zenon DEF AfterDistfiles
  <2>2. Clean(r) => (r.uri = "remote" => Remote)
    BY Zenon DEF Clean
  <2> QED
    BY <1>2, <2>1, <2>2, EndOutcome, Zenon
<1>5. CASE ~r.issues /\ ~scenario.no_local
  <2>1. AfterDistfiles(r) = q
    BY <1>5, Zenon DEF AfterDistfiles, q
  <2>2. "dirs" \in Parity \ Settled /\ "dirs" \notin Loop
    BY DEF Parity, Settled, Linking, Loop
  <2>3. Kept(q, c, fs)
    BY <1>1, <1>5, Zenon DEF Kept
  <2>4. Place(q, c, fs)
    BY <1>1, <2>2, Zenon DEF Place, Settled
  <2>5. Holding(q, c, fs)
    BY <1>1, Zenon DEF Holding
  <2>6. Sound(q, c, fs, d, l)
    BY <1>1, <2>3, <2>4, <2>5, Zenon DEF Sound
  <2>7. Clean(r) => Good(q, c, fs, d, l)
    BY <1>1, Zenon DEF Good, Clean, Linking
  <2> QED
    BY <2>1, <2>6, <2>7, Zenon
<1> QED
  BY <1>3, <1>4, <1>5, Zenon

\* The packages are copied, or are left to the remote binhost.
LEMMA ToDistfilesShape ==
  ASSUME NEW r, NEW uri
  PROVE  Onward(ToDistfiles(r, uri))
<1> DEFINE q == [NewCli EXCEPT !.pc = "inspect", !.stage = "dist", !.uri = uri, !.lost = r.lost]
<1>1. /\ DOMAIN q = Fields /\ q.pc = "inspect" /\ q.stage = "dist" /\ q.item = 1
      /\ q.off = 0 /\ q.issues = FALSE /\ q.stalled = FALSE
  BY DEF NewCli, Fields
<1> HIDE DEF q
<1>2. Shape(q) /\ Onward(q)
  <2>1. 1 \in Nat
    OBVIOUS
  <2> QED
    BY <1>1, <2>1, Zenon DEF Shape, Fresh, Onward, Stages, Loop, Idle, Ended
<1> QED
  BY <1>1, <1>2, AfterDistfilesShape, Zenon DEF ToDistfiles, q

\* With the packages in place, or none of them copied, it goes on with distfiles.
LEMMA ToDistfilesOutcome ==
  ASSUME NEW r, NEW uri, NEW c, NEW fs, NEW d, NEW l, scenario \in Scenarios,
         uri = "local" => /\ Done("sync", c, fs)
                          /\ r.lost \/ Cached(fs["Packages"], Listing) \/ Cached(fs["Packages"], Want(c))
  PROVE  /\ Sound(ToDistfiles(r, uri), c, fs, d, l)
         /\ (uri = "remote" => Remote) => Good(ToDistfiles(r, uri), c, fs, d, l)
<1> DEFINE q == [NewCli EXCEPT !.pc = "inspect", !.stage = "dist", !.uri = uri, !.lost = r.lost]
<1>1. /\ DOMAIN q = Fields /\ q.pc = "inspect" /\ q.stage = "dist" /\ q.item = 1 /\ q.uri = uri /\ q.lost = r.lost
      /\ q.off = 0 /\ q.issues = FALSE /\ q.stalled = FALSE
  BY DEF NewCli, Fields
<1> HIDE DEF q
<1>2. Shape(q)
  <2>1. 1 \in Nat
    OBVIOUS
  <2> QED
    BY <1>1, <2>1, Zenon DEF Shape, Stages, Loop
<1>3. Kept(q, c, fs)
  BY <1>1, Zenon DEF Kept
<1>4. Clean(q) <=> (uri = "remote" => Remote)
  BY <1>1, Zenon DEF Clean
<1>5. CASE scenario.dist = <<>>
  <2>1. Done("dist", c, fs)
    <3>1. Len(List("dist")) = 0
      BY <1>5, Lists
    <3> QED
      BY <3>1 DEF Done, DoneTo
  <2>2. ToDistfiles(r, uri) = AfterDistfiles(q)
    BY <1>5, Zenon DEF ToDistfiles, q
  <2> QED
    BY <1>1, <1>2, <1>3, <1>4, <2>1, <2>2, AfterDistfilesOutcome, Zenon
<1>6. CASE scenario.dist # <<>>
  <2>1. ToDistfiles(r, uri) = q
    BY <1>6, Zenon DEF ToDistfiles, q
  <2>2. 1 \in 1 .. Len(List("dist")) /\ DoneTo("dist", 1 - 1, c, fs)
    <3>1. scenario.dist \in Seq({"distfile"}) /\ List("dist") = scenario.dist
      BY ScenarioAssumption, Lists, Zenon
    <3>2. 1 \in 1 .. Len(scenario.dist)
      BY <1>6, <3>1
    <3>3. 1 .. (1 - 1) = {}
      OBVIOUS
    <3> QED
      BY <3>1, <3>2, <3>3, Zenon DEF DoneTo
  <2>3. Place(q, c, fs)
    BY <1>1, <2>2, Zenon DEF Place, Parity, Linking, Settled
  <2>4. Holding(q, c, fs)
    BY <1>1, Zenon DEF Holding
  <2>5. Sound(q, c, fs, d, l)
    BY <1>1, <1>3, <2>3, <2>4, Zenon DEF Sound
  <2>6. Clean(q) => Good(q, c, fs, d, l)
    BY <1>1, Zenon DEF Good, Clean
  <2> QED
    BY <1>4, <2>1, <2>5, <2>6, Zenon
<1> QED
  BY <1>5, <1>6, Zenon

\* One more item of a list is done.
LEMMA DoneStep ==
  ASSUME NEW stage, NEW n \in Nat, n >= 1, NEW c, NEW fs,
         DoneTo(stage, n - 1, c, fs), Ready(stage, fs[List(stage)[n]], Want(c))
  PROVE  DoneTo(stage, n, c, fs)
<1>1. \A i \in 1 .. n : i \in 1 .. n - 1 \/ i = n
  OBVIOUS
<1> QED
  BY <1>1, Zenon DEF DoneTo

\* AfterItem goes to a place of the run.
LEMMA AfterItemShape ==
  ASSUME NEW r, Shape(r)
  PROVE  Onward(AfterItem(r))
<1> DEFINE q == [r EXCEPT !.node = NoNode, !.off = 0, !.content = Absent]
           more == [q EXCEPT !.pc = "inspect", !.item = @ + 1]
           index == [q EXCEPT !.pc = "index"]
           last == [q EXCEPT !.pc = "finalize"]
<1>1. /\ DOMAIN q = Fields /\ q.pc = r.pc /\ q.stage = r.stage /\ q.item = r.item
      /\ q.off = 0 /\ q.issues = r.issues /\ q.stalled = r.stalled
  BY Zenon DEF Shape, Fields
<1>2. Shape(q)
  BY <1>1, Zenon DEF Shape
<1> HIDE DEF q
<1>3. r.item + 1 \in Nat
  BY DEF Shape
<1>4. /\ DOMAIN more = Fields /\ more.pc = "inspect" /\ more.stage = q.stage /\ more.item = r.item + 1
      /\ more.off = q.off /\ more.issues = q.issues /\ more.stalled = q.stalled
  BY <1>1, Zenon DEF Fields
<1>5. /\ DOMAIN index = Fields /\ index.pc = "index" /\ index.stage = q.stage /\ index.item = q.item
      /\ index.off = q.off /\ index.issues = q.issues /\ index.stalled = q.stalled
  BY <1>1, Zenon DEF Fields
<1>6. /\ DOMAIN last = Fields /\ last.pc = "finalize" /\ last.stage = q.stage /\ last.item = q.item
      /\ last.off = q.off /\ last.issues = q.issues /\ last.stalled = q.stalled
  BY <1>1, Zenon DEF Fields
<1> HIDE DEF more, index, last
<1>7. Onward(more)
  BY <1>1, <1>2, <1>3, <1>4, Zenon DEF Onward, Shape, Fresh, Loop, Idle, Ended
<1>8. Onward(index)
  BY <1>1, <1>2, <1>5, Zenon DEF Onward, Shape, Fresh, Idle, Ended
<1>9. Onward(last)
  BY <1>1, <1>2, <1>6, Zenon DEF Onward, Shape, Fresh, Parity, Settled, Idle, Ended
<1>10. Onward(AfterDistfiles(q))
  BY <1>1, <1>2, AfterDistfilesShape, Zenon
<1>11. CASE r.item < Len(List(r.stage))
  BY <1>7, <1>11, Zenon DEF AfterItem, more, q
<1>12. CASE ~(r.item < Len(List(r.stage)))
  <2>1. CASE r.stage = "sync"
    BY <1>8, <1>12, <2>1 DEF AfterItem, index, q
  <2>2. CASE r.stage = "dist"
    BY <1>10, <1>12, <2>2 DEF AfterItem, q
  <2>3. CASE r.stage = "files"
    BY <1>9, <1>12, <2>3 DEF AfterItem, last, q
  <2> QED
    BY <2>1, <2>2, <2>3, Zenon DEF Shape, Stages
<1> QED
  BY <1>11, <1>12, Zenon

\* A run that has finished an item, or has found an issue, goes on in order.
LEMMA AfterItemOutcome ==
  ASSUME NEW r, Shape(r), NEW c, NEW fs, NEW d, NEW l, scenario \in Scenarios, Kept(r, c, fs),
         r.item \in 1 .. Len(List(r.stage)), r.issues \/ DoneTo(r.stage, r.item, c, fs)
  PROVE  /\ Sound(AfterItem(r), c, fs, d, l)
         /\ /\ Clean(r)
            /\ r.stage = "files" => d.is = "dir" /\ (scenario.tree => l = [to |-> Want(c), stamped |-> TRUE])
            => Good(AfterItem(r), c, fs, d, l)
<1> DEFINE q == [r EXCEPT !.node = NoNode, !.off = 0, !.content = Absent]
           more == [q EXCEPT !.pc = "inspect", !.item = @ + 1]
           index == [q EXCEPT !.pc = "index"]
           last == [q EXCEPT !.pc = "finalize"]
           Fine == /\ Clean(r)
                   /\ r.stage = "files" => d.is = "dir" /\ (scenario.tree => l = [to |-> Want(c), stamped |-> TRUE])
<1>1. /\ DOMAIN q = Fields /\ q.pc = r.pc /\ q.stage = r.stage /\ q.item = r.item
      /\ q.off = 0 /\ q.issues = r.issues /\ q.stalled = r.stalled /\ q.uri = r.uri /\ q.lost = r.lost
  BY Zenon DEF Shape, Fields
<1>2. Shape(q) /\ Kept(q, c, fs) /\ (Clean(r) => Clean(q))
  BY <1>1, Zenon DEF Shape, Kept, Clean
<1> HIDE DEF q
<1>3. /\ r.item \in Nat /\ r.item >= 1 /\ r.item + 1 \in Nat /\ Len(List(r.stage)) \in Nat /\ r.stage \in Stages
      /\ r.item <= Len(List(r.stage))
  <2>1. r.item \in Nat /\ r.stage \in Stages
    BY Zenon DEF Shape
  <2>2. Len(List(r.stage)) \in Nat
    BY <2>1, Lists, Zenon
  <2> QED
    BY <2>1, <2>2
<1>4. CASE r.item < Len(List(r.stage))
  <2>1. /\ more.pc = "inspect" /\ more.stage = r.stage /\ more.item = r.item + 1 /\ more.issues = r.issues
        /\ more.stalled = r.stalled /\ more.uri = r.uri /\ more.lost = r.lost
    BY <1>1, Zenon DEF Fields
  <2> HIDE DEF more
  <2>2. AfterItem(r) = more
    BY <1>4, Zenon DEF AfterItem, more, q
  <2>3. r.item + 1 \in 1 .. Len(List(r.stage)) /\ (r.item + 1) - 1 = r.item
    BY <1>3, <1>4
  <2>4. Place(more, c, fs)
    BY <2>1, <2>3, Zenon DEF Place, Parity, Linking, Settled
  <2>5. Holding(more, c, fs)
    BY <2>1, Zenon DEF Holding
  <2>6. Kept(more, c, fs)
    BY <2>1, Zenon DEF Kept
  <2>7. Sound(more, c, fs, d, l)
    BY <2>1, <2>4, <2>5, <2>6, Zenon DEF Sound
  <2>8. Fine => Good(more, c, fs, d, l)
    BY <2>1, Zenon DEF Good, Clean
  <2> QED
    BY <2>2, <2>7, <2>8, Zenon
<1>5. CASE ~(r.item < Len(List(r.stage)))
  <2>0. r.issues \/ Done(r.stage, c, fs)
    <3>1. r.item = Len(List(r.stage))
      BY <1>3, <1>5
    <3> QED
      BY <3>1, Zenon DEF Done
  <2>1. CASE r.stage = "sync"
    <3>1. /\ index.pc = "index" /\ index.stage = r.stage /\ index.issues = r.issues
          /\ index.stalled = r.stalled /\ index.uri = r.uri /\ index.lost = r.lost
      BY <1>1, Zenon DEF Fields
    <3> HIDE DEF index
    <3>2. AfterItem(r) = index
      BY <1>5, <2>1 DEF AfterItem, index, q
    <3>3. Kept(index, c, fs) /\ ~r.issues
      BY <2>1, <3>1, Zenon DEF Kept
    <3>4. Place(index, c, fs)
      BY <2>0, <2>1, <3>1, <3>3, Zenon DEF Place, Parity, Linking, Settled, Loop
    <3>5. Holding(index, c, fs)
      BY <3>1, Zenon DEF Holding
    <3>6. Sound(index, c, fs, d, l)
      BY <3>1, <3>3, <3>4, <3>5, Zenon DEF Sound
    <3>7. Fine => Good(index, c, fs, d, l)
      BY <2>1, <3>1, Zenon DEF Good, Clean
    <3> QED
      BY <3>2, <3>6, <3>7, Zenon
  <2>2. CASE r.stage = "dist"
    <3>1. AfterItem(r) = AfterDistfiles(q)
      BY <1>5, <2>2 DEF AfterItem, q
    <3>2. q.issues \/ Done("dist", c, fs)
      BY <1>1, <2>0, <2>2, Zenon
    <3>3. Sound(AfterDistfiles(q), c, fs, d, l) /\ (Clean(q) => Good(AfterDistfiles(q), c, fs, d, l))
      BY <1>1, <1>2, <2>2, <3>2, AfterDistfilesOutcome, Zenon
    <3> QED
      BY <1>2, <3>1, <3>3, Zenon
  <2>3. CASE r.stage = "files"
    <3>1. /\ last.pc = "finalize" /\ last.stage = r.stage /\ last.issues = r.issues
          /\ last.stalled = r.stalled /\ last.uri = r.uri /\ last.lost = r.lost
      BY <1>1, Zenon DEF Fields
    <3> HIDE DEF last
    <3>2. AfterItem(r) = last
      BY <1>5, <2>3 DEF AfterItem, last, q
    <3>3. Kept(last, c, fs)
      BY <3>1, Zenon DEF Kept
    <3>4. Place(last, c, fs)
      BY <2>0, <2>3, <3>1, Zenon DEF Place, Parity, Linking, Settled, Loop
    <3>5. Holding(last, c, fs)
      BY <3>1, Zenon DEF Holding
    <3>6. Sound(last, c, fs, d, l)
      BY <3>1, <3>3, <3>4, <3>5, Zenon DEF Sound
    <3>7. Fine => Good(last, c, fs, d, l)
      BY <2>3, <3>1, Zenon DEF Good, Clean
    <3> QED
      BY <3>2, <3>6, <3>7, Zenon
  <2> QED
    BY <1>3, <2>1, <2>2, <2>3, Zenon DEF Stages
<1> QED
  BY <1>4, <1>5, Zenon

\* ItemFailed goes to a place of the run.
LEMMA ItemFailedShape ==
  ASSUME NEW r, Shape(r)
  PROVE  Onward(ItemFailed(r))
<1> DEFINE q == [r EXCEPT !.issues = TRUE]
<1>1. /\ DOMAIN q = Fields /\ q.pc = r.pc /\ q.stage = r.stage /\ q.item = r.item
      /\ q.off = r.off /\ q.issues = TRUE /\ q.stalled = r.stalled
  BY Zenon DEF Shape, Fields
<1> HIDE DEF q
<1>2. Shape(q)
  BY <1>1, Zenon DEF Shape
<1> QED
  BY <1>2, AfterItemShape, ToDistfilesShape, Zenon DEF ItemFailed, q

\* An item that fails leaves the packages to the remote binhost, or is an issue.
LEMMA ItemFailedOutcome ==
  ASSUME NEW r, Shape(r), NEW c, NEW fs, NEW d, NEW l, scenario \in Scenarios, Kept(r, c, fs),
         r.item \in 1 .. Len(List(r.stage))
  PROVE  Sound(ItemFailed(r), c, fs, d, l)
<1> DEFINE q == [r EXCEPT !.issues = TRUE]
<1>1. /\ DOMAIN q = Fields /\ q.pc = r.pc /\ q.stage = r.stage /\ q.item = r.item
      /\ q.off = r.off /\ q.issues = TRUE /\ q.stalled = r.stalled /\ q.uri = r.uri /\ q.lost = r.lost
  BY Zenon DEF Shape, Fields
<1> HIDE DEF q
<1>2. CASE r.stage = "sync"
  BY <1>2, ToDistfilesOutcome, Zenon DEF ItemFailed
<1>3. CASE r.stage # "sync"
  <2>1. Shape(q)
    BY <1>1, Zenon DEF Shape
  <2>2. Kept(q, c, fs)
    BY <1>1, <1>3, Zenon DEF Kept
  <2>3. Sound(AfterItem(q), c, fs, d, l)
    BY <1>1, <2>1, <2>2, AfterItemOutcome, Zenon
  <2> QED
    BY <1>3, <2>3, Zenon DEF ItemFailed, q
<1> QED
  BY <1>2, <1>3, Zenon

-----------------------------------------------------------------------------
(* What the operations on files keep.                                      *)

\* The file under the final name is what it was.
Keeps(f, g) ==
    /\ g.final = f.final
    /\ f.final # NoNode => /\ g.data[f.final] = f.data[f.final]
                           /\ f.final \in f.stamped => f.final \in g.stamped

\* A file that is where the run wants it stays there.
LEMMA KeepsReady ==
  ASSUME NEW f, NEW g, Keeps(f, g), NEW v
  PROVE  /\ Cached(f, v) => Cached(g, v)
         /\ \A stage : Ready(stage, f, v) => Ready(stage, g, v)
  BY Zenon DEF Keeps, Cached, Ready

\* There is a node for a new file.
LEMMA NodeFree ==
  ASSUME NEW a \in Nodes \cup {NoNode}, NEW b \in Nodes \cup {NoNode}
  PROVE  Min(Nodes \ {a, b}) \in Nodes \ {a, b}
<1> DEFINE S == Nodes \ {a, b}
<1>1. \E x \in S : \A y \in S : x <= y
  <2>1. CASE 1 \in S
    BY <2>1 DEF Nodes
  <2>2. CASE 1 \notin S /\ 2 \in S
    BY <2>2 DEF Nodes
  <2>3. CASE 1 \notin S /\ 2 \notin S
    BY <2>3 DEF Nodes
  <2> QED
    BY <2>1, <2>2, <2>3
<1> HIDE DEF S
<1>2. Min(S) \in S
  BY <1>1, Zenon DEF Min
<1> QED
  BY <1>2, Zenon DEF S

\* A .part file that is created is empty, and the final file is left alone.
LEMMA CreatedPart ==
  ASSUME NEW f, FileOK(f), NEW new \in Nodes, new # f.final, new # f.part,
         NEW g, g = Created(f, "part", new)
  PROVE  /\ FileOK(g) /\ Keeps(f, g)
         /\ g.part # NoNode /\ g.data[g.part] = <<>>
<1>1. DOMAIN f = {"final", "part", "data", "stamped"} /\ DOMAIN f.data = Nodes
  BY Zenon DEF FileOK
<1>2. new # NoNode
  BY DEF Nodes, NoNode
<1>3. CASE f.part = NoNode
  <2>1. g = [f EXCEPT !["part"] = new, !.data[new] = <<>>, !.stamped = @ \ {new}]
    BY <1>3, Zenon DEF Created
  <2>2. /\ DOMAIN g = DOMAIN f /\ g.final = f.final /\ g.part = new
        /\ g.data = [f.data EXCEPT ![new] = <<>>] /\ g.stamped = f.stamped \ {new}
    BY <1>1, <2>1, Zenon
  <2>3. DOMAIN g.data = Nodes /\ g.data[new] = <<>> /\ \A n \in Nodes : n # new => g.data[n] = f.data[n]
    BY <1>1, <2>2, Zenon
  <2> QED
    BY <1>2, <2>2, <2>3, Zenon DEF FileOK, Keeps
<1>4. CASE f.part # NoNode
  <2>1. g = [f EXCEPT !.data[f.part] = <<>>, !.stamped = @ \ {f.part}]
    BY <1>4, Zenon DEF Created
  <2>2. /\ DOMAIN g = DOMAIN f /\ g.final = f.final /\ g.part = f.part
        /\ g.data = [f.data EXCEPT ![f.part] = <<>>] /\ g.stamped = f.stamped \ {f.part}
    BY <1>1, <2>1, Zenon
  <2>3. f.part \in Nodes
    BY <1>4, Zenon DEF FileOK
  <2>4. DOMAIN g.data = Nodes /\ g.data[f.part] = <<>> /\ \A n \in Nodes : n # f.part => g.data[n] = f.data[n]
    BY <1>1, <2>2, <2>3, Zenon
  <2> QED
    BY <1>4, <2>2, <2>4, Zenon DEF FileOK, Keeps
<1> QED
  BY <1>3, <1>4, Zenon

\* A file that is created under its final name is empty.
LEMMA CreatedFinal ==
  ASSUME NEW f, FileOK(f), NEW new \in Nodes, new # f.final, new # f.part,
         NEW g, g = Created(f, "final", new)
  PROVE  FileOK(g) /\ g.final # NoNode /\ g.data[g.final] = <<>>
<1>1. DOMAIN f = {"final", "part", "data", "stamped"} /\ DOMAIN f.data = Nodes
  BY Zenon DEF FileOK
<1>2. new # NoNode
  BY DEF Nodes, NoNode
<1>3. CASE f.final = NoNode
  <2>1. g = [f EXCEPT !["final"] = new, !.data[new] = <<>>, !.stamped = @ \ {new}]
    BY <1>3, Zenon DEF Created
  <2>2. /\ DOMAIN g = DOMAIN f /\ g.final = new /\ g.part = f.part
        /\ g.data = [f.data EXCEPT ![new] = <<>>]
    BY <1>1, <2>1, Zenon
  <2>3. DOMAIN g.data = Nodes /\ g.data[new] = <<>>
    BY <1>1, <2>2, Zenon
  <2> QED
    BY <1>2, <2>2, <2>3, Zenon DEF FileOK
<1>4. CASE f.final # NoNode
  <2>1. g = [f EXCEPT !.data[f.final] = <<>>, !.stamped = @ \ {f.final}]
    BY <1>4, Zenon DEF Created
  <2>2. /\ DOMAIN g = DOMAIN f /\ g.final = f.final /\ g.part = f.part
        /\ g.data = [f.data EXCEPT ![f.final] = <<>>]
    BY <1>1, <2>1, Zenon
  <2>3. f.final \in Nodes
    BY <1>4, Zenon DEF FileOK
  <2>4. DOMAIN g.data = Nodes /\ g.data[f.final] = <<>>
    BY <1>1, <2>2, <2>3, Zenon
  <2> QED
    BY <1>4, <2>2, <2>4, Zenon DEF FileOK
<1> QED
  BY <1>3, <1>4, Zenon

\* The files that have a name survive when the others are dropped.
LEMMA TidyKeeps ==
  ASSUME NEW f, FileOK(f), NEW open, NEW g, g = Tidy(f, open)
  PROVE  /\ FileOK(g) /\ Keeps(f, g) /\ g.part = f.part /\ g.final = f.final
         /\ f.part # NoNode => g.data[f.part] = f.data[f.part]
         /\ f.final # NoNode => g.data[f.final] = f.data[f.final]
<1>1. DOMAIN f = {"final", "part", "data", "stamped"} /\ DOMAIN f.data = Nodes
  BY Zenon DEF FileOK
<1> DEFINE live == {f.final, f.part} \cup open
<1>2. /\ DOMAIN g = DOMAIN f /\ g.final = f.final /\ g.part = f.part
      /\ g.data = [n \in Nodes |-> IF n \in live THEN f.data[n] ELSE <<>>]
      /\ g.stamped = f.stamped \cap live
  BY <1>1 DEF Tidy
<1>3. /\ DOMAIN g.data = Nodes /\ \A n \in Nodes : n \in live => g.data[n] = f.data[n]
      /\ f.final \in live /\ f.part \in live
  BY <1>2, Zenon
<1> HIDE DEF live
<1> QED
  BY <1>2, <1>3, Zenon DEF FileOK, Keeps

\* A chunk goes to the node that is written, and nowhere else.
LEMMA ChunkIs ==
  ASSUME NEW f, FileOK(f), NEW n \in Nodes, n \in {f.final, f.part}, NEW off, NEW v,
         NEW g, g = Chunk(f, n, off, v)
  PROVE  /\ FileOK(g) /\ g.final = f.final /\ g.part = f.part
         /\ g.data[n] = Written(f.data[n], off, v)
         /\ n # f.final => Keeps(f, g)
<1>1. DOMAIN f = {"final", "part", "data", "stamped"} /\ DOMAIN f.data = Nodes
  BY Zenon DEF FileOK
<1>2. /\ DOMAIN g = DOMAIN f /\ g.final = f.final /\ g.part = f.part
      /\ g.data = [f.data EXCEPT ![n] = Written(f.data[n], off, v)] /\ g.stamped = f.stamped \ {n}
  BY <1>1 DEF Chunk
<1>3. /\ DOMAIN g.data = Nodes /\ g.data[n] = Written(f.data[n], off, v)
      /\ \A m \in Nodes : m # n => g.data[m] = f.data[m]
  BY <1>1, <1>2, Zenon
<1> QED
  BY <1>2, <1>3, Zenon DEF FileOK, Keeps

\* A chunk is written, and the nodes that nobody needs any more are dropped.
Stored(f, n, off, v, open, h) == h = Tidy(Chunk(f, n, off, v), open)

\* A file is what it was, with one more chunk in one of its two nodes.
Extended(f, n, off, v, h) ==
    /\ FileOK(h) /\ h.final = f.final /\ h.part = f.part
    /\ h.data[n] = Written(f.data[n], off, v)
    /\ n # f.final => Keeps(f, h)

\* The chunk is in its place afterwards.
LEMMA StoredIs ==
  ASSUME NEW f, FileOK(f), NEW n \in Nodes, n \in {f.final, f.part}, NEW off, NEW v,
         NEW open, NEW h, Stored(f, n, off, v, open, h)
  PROVE  Extended(f, n, off, v, h)
<1>1. PICK g : g = Chunk(f, n, off, v) /\ h = Tidy(g, open)
  BY Zenon DEF Stored
<1>2. /\ FileOK(g) /\ g.final = f.final /\ g.part = f.part
      /\ g.data[n] = Written(f.data[n], off, v)
      /\ n # f.final => Keeps(f, g)
  BY <1>1, ChunkIs
<1>3. /\ FileOK(h) /\ Keeps(g, h) /\ h.part = g.part /\ h.final = g.final
      /\ g.part # NoNode => h.data[g.part] = g.data[g.part]
      /\ g.final # NoNode => h.data[g.final] = g.data[g.final]
  BY <1>1, <1>2, TidyKeeps
<1>4. n # NoNode
  BY DEF Nodes, NoNode
<1>5. h.data[n] = g.data[n]
  BY <1>2, <1>3, <1>4
<1>6. n # f.final => Keeps(f, h)
  BY <1>2, <1>3, Zenon DEF Keeps
<1> QED
  BY <1>2, <1>3, <1>5, <1>6, Zenon DEF Extended

\* Chunks written in order.
LEMMA WrittenNext ==
  ASSUME NEW off \in {0, 1}, NEW v
  PROVE  Written([i \in 1 .. off |-> v], off, v) = [i \in 1 .. off + 1 |-> v]
<1>1. Len([i \in 1 .. off |-> v]) = off
  OBVIOUS
<1>2. off \in Nat /\ off + 1 \in Nat
  OBVIOUS
<1>3. Max({off, off + 1}) = off + 1
  BY <1>2, MaxOfTwo
<1>4. \A i \in 1 .. off + 1 : i = off + 1 \/ (i <= off /\ i \in 1 .. off)
  OBVIOUS
<1>5. \A i \in 1 .. off : [j \in 1 .. off |-> v][i] = v
  OBVIOUS
<1> QED
  BY <1>1, <1>3, <1>4, <1>5, Zenon DEF Written

\* The whole of a file.
LEMMA WholeIs ==
  ASSUME NEW v
  PROVE  /\ [i \in 1 .. 1 + 1 |-> v] = Whole(v)
         /\ [i \in 1 .. 0 |-> v] = <<>>
<1>1. 1 + 1 = 2
  OBVIOUS
<1> QED
  BY <1>1 DEF Whole, Size

-----------------------------------------------------------------------------
(* What a change of the files leaves of an earlier stage.                  *)

Restorable == {"distfile", "Packages", "state"}

\* What is where the run wants it stays there.
Better(c, fs, gs) ==
    /\ \A t \in {"pkg1", "pkg2"} : Ready("sync", fs[t], Want(c)) => Ready("sync", gs[t], Want(c))
    /\ \A t \in Restorable : Ready("dist", fs[t], Want(c)) => Ready("dist", gs[t], Want(c))
    /\ Cached(fs["Packages"], Listing) \/ Cached(fs["Packages"], Want(c)) =>
          Cached(gs["Packages"], Listing) \/ Cached(gs["Packages"], Want(c))

\* Every file is left alone or is what the run wants.
LEMMA BetterAll ==
  ASSUME NEW c, NEW fs, NEW gs,
         \A t \in Targets : \/ Keeps(fs[t], gs[t])
                            \/ Cached(gs[t], Want(c)) /\ (t \in Restorable => gs[t].final \in gs[t].stamped)
  PROVE  Better(c, fs, gs)
<1>1. \A t \in {"pkg1", "pkg2"} : t \in Targets
  BY Zenon DEF Targets
<1>2. \A t \in Restorable : t \in Targets
  BY Zenon DEF Targets, Restorable
<1>3. ASSUME NEW t \in {"pkg1", "pkg2"}, Ready("sync", fs[t], Want(c)) PROVE Ready("sync", gs[t], Want(c))
  BY <1>1, <1>3, KeepsReady, Zenon DEF Ready
<1>4. ASSUME NEW t \in Restorable, Ready("dist", fs[t], Want(c)) PROVE Ready("dist", gs[t], Want(c))
  <2>1. CASE Keeps(fs[t], gs[t])
    BY <1>4, <2>1, KeepsReady, Zenon
  <2>2. CASE Cached(gs[t], Want(c)) /\ (t \in Restorable => gs[t].final \in gs[t].stamped)
    BY <2>2, Zenon DEF Ready
  <2> QED
    BY <1>2, <2>1, <2>2, Zenon
<1>5. "Packages" \in Targets
  BY Zenon DEF Targets
<1>6. Cached(fs["Packages"], Listing) \/ Cached(fs["Packages"], Want(c)) =>
          Cached(gs["Packages"], Listing) \/ Cached(gs["Packages"], Want(c))
  BY <1>5, KeepsReady, Zenon
<1> QED
  BY <1>3, <1>4, <1>6, Zenon DEF Better

\* The items that are done stay done.
LEMMA DoneFrame ==
  ASSUME NEW c, NEW fs, NEW gs, Better(c, fs, gs), scenario \in Scenarios,
         NEW stage \in Stages, NEW n \in Nat, n <= Len(List(stage)), DoneTo(stage, n, c, fs)
  PROVE  DoneTo(stage, n, c, gs)
<1>1. \A i \in 1 .. n : i \in 1 .. Len(List(stage))
  <2>1. Len(List(stage)) \in Nat
    BY Lists, Zenon
  <2> QED
    BY <2>1
<1>2. CASE stage = "sync"
  <2>1. \A i \in 1 .. n : List(stage)[i] \in {"pkg1", "pkg2"}
    BY <1>1, <1>2, Lists, Zenon
  <2> QED
    BY <1>2, <2>1, Zenon DEF DoneTo, Better
<1>3. CASE stage = "dist"
  <2>1. \A i \in 1 .. n : List(stage)[i] \in Restorable
    BY <1>1, <1>3, Lists, Zenon DEF Restorable
  <2> QED
    BY <1>3, <2>1, Zenon DEF DoneTo, Better
<1>4. CASE stage = "files"
  <2>1. \A i \in 1 .. n : List(stage)[i] \in Restorable
    BY <1>1, <1>4, Lists, Zenon DEF Restorable
  <2>2. \A f, v : Ready("files", f, v) <=> Ready("dist", f, v)
    BY Zenon DEF Ready
  <2> QED
    BY <1>4, <2>1, <2>2, Zenon DEF DoneTo, Better
<1> QED
  BY <1>2, <1>3, <1>4, Zenon DEF Stages

\* All of a list stays done.
LEMMA AllDoneFrame ==
  ASSUME NEW c, NEW fs, NEW gs, Better(c, fs, gs), scenario \in Scenarios,
         NEW stage \in Stages, Done(stage, c, fs)
  PROVE  Done(stage, c, gs)
<1>1. Len(List(stage)) \in Nat /\ Len(List(stage)) <= Len(List(stage))
  <2>1. Len(List(stage)) \in Nat
    BY Lists, Zenon
  <2> QED
    BY <2>1
<1> QED
  BY <1>1, DoneFrame, Zenon DEF Done

\* A run keeps its place.
LEMMA PlaceFrame ==
  ASSUME NEW r, Shape(r), NEW c, NEW fs, NEW gs, Better(c, fs, gs), scenario \in Scenarios,
         Kept(r, c, fs), Place(r, c, fs)
  PROVE  Kept(r, c, gs) /\ Place(r, c, gs)
<1>1. "sync" \in Stages /\ "dist" \in Stages /\ "files" \in Stages
  BY Zenon DEF Stages
<1>2. Done("sync", c, fs) => Done("sync", c, gs)
  BY <1>1, AllDoneFrame, Zenon
<1>3. Done("dist", c, fs) => Done("dist", c, gs)
  BY <1>1, AllDoneFrame, Zenon
<1>4. Done("files", c, fs) => Done("files", c, gs)
  BY <1>1, AllDoneFrame, Zenon
<1>5. Kept(r, c, gs)
  BY <1>2, <1>3, Zenon DEF Kept, Better
<1>6. ASSUME r.pc \in Loop, DoneTo(r.stage, r.item - 1, c, fs) PROVE DoneTo(r.stage, r.item - 1, c, gs)
  <2>1. r.stage \in Stages /\ r.item \in 1 .. Len(List(r.stage))
    BY <1>6, Zenon DEF Shape, Place
  <2>2. Len(List(r.stage)) \in Nat
    BY <2>1, Lists, Zenon
  <2>3. r.item - 1 \in Nat /\ r.item - 1 <= Len(List(r.stage))
    BY <2>1, <2>2
  <2> QED
    BY <1>6, <2>1, <2>3, DoneFrame, Zenon
<1>7. Place(r, c, gs)
  BY <1>2, <1>4, <1>6, Zenon DEF Place
<1> QED
  BY <1>5, <1>7, Zenon

\* The files a dropped run leaves: those that have a name.
Tidied(fs, gs) ==
    \A t \in Targets : /\ Keeps(fs[t], gs[t]) /\ gs[t].part = fs[t].part
                       /\ fs[t].part # NoNode => gs[t].data[fs[t].part] = fs[t].data[fs[t].part]

\* The target of a run that is on an item.
LEMMA TargetIs ==
  ASSUME NEW r, Shape(r), r.pc \in Loop, scenario \in Scenarios, r.item \in 1 .. Len(List(r.stage))
  PROVE  /\ Target(r) = List(r.stage)[r.item] /\ Target(r) \in Targets
         /\ r.stage = "sync" => Target(r) \in {"pkg1", "pkg2"}
         /\ r.stage = "dist" => Target(r) = "distfile"
         /\ r.stage = "files" => Target(r) \in {"Packages", "state"}
<1>1. r.pc # "index_write"
  BY DEF Loop
<1>2. Target(r) = List(r.stage)[r.item]
  BY <1>1, Zenon DEF Target
<1>3. r.stage \in Stages
  BY Zenon DEF Shape
<1>4. ASSUME r.stage = "sync" PROVE Target(r) \in {"pkg1", "pkg2"}
  <2>1. List("sync") = scenario.pkgs /\ \A i \in 1 .. Len(scenario.pkgs) : scenario.pkgs[i] \in {"pkg1", "pkg2"}
    BY Lists, Zenon
  <2>2. List(r.stage) = scenario.pkgs
    BY <1>4, <2>1, Zenon
  <2> QED
    BY <1>2, <2>1, <2>2, Zenon
<1>5. ASSUME r.stage = "dist" PROVE Target(r) \in {"distfile"}
  <2>1. List("dist") = scenario.dist /\ \A i \in 1 .. Len(scenario.dist) : scenario.dist[i] \in {"distfile"}
    BY Lists, Zenon
  <2>2. List(r.stage) = scenario.dist
    BY <1>5, <2>1, Zenon
  <2> QED
    BY <1>2, <2>1, <2>2, Zenon
<1>6. ASSUME r.stage = "files" PROVE Target(r) \in {"Packages", "state"}
  <2>1. List("files") = scenario.files /\ \A i \in 1 .. Len(scenario.files) : scenario.files[i] \in {"Packages", "state"}
    BY Lists, Zenon
  <2>2. List(r.stage) = scenario.files
    BY <1>6, <2>1, Zenon
  <2> QED
    BY <1>2, <2>1, <2>2, Zenon
<1> QED
  BY <1>2, <1>3, <1>4, <1>5, <1>6, Zenon DEF Stages, Targets

\* A run keeps all it has while another is dropped.
LEMMA SoundFrame ==
  ASSUME NEW r, Shape(r), NEW c, NEW fs, NEW gs, NEW d, NEW l, Tidied(fs, gs), scenario \in Scenarios,
         Sound(r, c, fs, d, l)
  PROVE  Sound(r, c, gs, d, l)
<1> SUFFICES ASSUME Working(r) PROVE Sound(r, c, gs, d, l)
  BY Zenon DEF Sound
<1>1. /\ Kept(r, c, fs) /\ Place(r, c, fs) /\ Holding(r, c, fs)
      /\ r.pc = "emerge" => ~r.issues /\ Restored(c, fs, d, l)
  BY Zenon DEF Sound
<1>2. Better(c, fs, gs)
  BY BetterAll, Zenon DEF Tidied
<1>3. Kept(r, c, gs) /\ Place(r, c, gs)
  BY <1>1, <1>2, PlaceFrame, Zenon
<1>4. "Packages" \in Targets
  BY Zenon DEF Targets
<1>5. r.pc \in Loop => Target(r) \in Targets
  BY <1>1, TargetIs, Zenon DEF Place
<1>6. "write" \in Loop /\ "rename" \in Loop
  BY Zenon DEF Loop
<1>7. r.pc = "write" => r.node # NoNode /\ r.node = gs[Target(r)].part
  BY <1>1, <1>5, <1>6, Zenon DEF Tidied, Holding
<1>8. r.pc = "rename" => gs[Target(r)].part # NoNode /\ gs[Target(r)].data[gs[Target(r)].part] = Whole(Want(c))
  BY <1>1, <1>5, <1>6, Zenon DEF Tidied, Holding
<1>9. r.pc = "index_write" => /\ r.node # NoNode /\ r.node = gs["Packages"].final
                              /\ gs["Packages"].data[gs["Packages"].final] = [i \in 1 .. r.off |-> Listing]
  BY <1>1, <1>4, Zenon DEF Tidied, Keeps, Holding
<1>10. Holding(r, c, gs)
  BY <1>1, <1>7, <1>8, <1>9, Zenon DEF Holding
<1>11. ASSUME r.pc = "emerge" PROVE Restored(c, gs, d, l)
  <2>1. Restored(c, fs, d, l)
    BY <1>1, <1>11, Zenon
  <2>2. \A t \in Range(scenario.files) : t \in Targets
    <3>1. \A i \in 1 .. Len(scenario.files) : scenario.files[i] \in {"Packages", "state"}
      BY Lists, Zenon
    <3>2. Range(scenario.files) = {scenario.files[i] : i \in 1 .. Len(scenario.files)}
      BY Lists, Zenon
    <3> QED
      BY <3>1, <3>2, Zenon DEF Targets
  <2>3. \A t \in Range(scenario.files) : Ready("files", gs[t], Want(c))
    BY <2>1, <2>2, KeepsReady, Zenon DEF Restored, Tidied
  <2> QED
    BY <2>1, <2>3, Zenon DEF Restored
<1> QED
  BY <1>1, <1>3, <1>10, <1>11, Zenon DEF Sound

-----------------------------------------------------------------------------
(* A step of one CLI.                                                      *)

\* Only c moves.
Moved(c) ==
    /\ DOMAIN cli' = Clis
    /\ \A d \in Clis : d # c => cli'[d] = cli[d]
    /\ shared' = (shared \/ \E d, e \in Clis : d # e /\ Working(cli'[d]) /\ Working(cli'[e]))

\* What a step does to the rest of the machine.
Frame ==
    /\ scenario' = scenario /\ served' = served /\ replaced' = replaced
    /\ faults' \in {faults, faults + 1}
    /\ dir' \in [is : {Absent, "dir", "file"}, stamped : BOOLEAN]
    /\ link' \in [to : Contents \cup {Absent, "elsewhere", "dir"}, stamped : BOOLEAN]
    /\ dir.is \in {"dir", "file"} => dir'.is = dir.is
    /\ link'.to = "dir" <=> link.to = "dir"

\* What it has to show for the CLI that takes it.
Outcome(c) ==
    /\ Shape(cli'[c]) /\ Fresh(cli'[c])
    /\ cli'[c].pc = "skipped" => Found
    /\ cli'[c].pc = "relink" => link'.to # "dir"
    /\ ~shared' => FilesOK(files') /\ Sound(cli'[c], c, files', dir', link')
    /\ Working(cli[c]) \/ Working(cli'[c]) \/ (/\ dir' = dir /\ link' = link
                                               /\ faults' = faults => files' = files
                                               /\ ~shared' => Tidied(files, files'))
    /\ Calm' => Good(cli'[c], c, files', dir', link')

\* Move changes the state of one CLI.
LEMMA MoveIs ==
  ASSUME World, NEW c \in Clis, NEW next, Move(c, next)
  PROVE  Moved(c) /\ cli'[c] = next
<1>1. DOMAIN cli = Clis /\ cli' = [cli EXCEPT ![c] = next]
  BY Zenon DEF World, Move
<1>2. DOMAIN cli' = Clis /\ cli'[c] = next /\ \A d \in Clis : d # c => cli'[d] = cli[d]
  BY <1>1, Zenon
<1> QED
  BY <1>2, Zenon DEF Moved, Move

\* The scenario never changes, so neither does what is said of it.
LEMMA ListsPrimed ==
  ASSUME scenario' = scenario, NEW c
  PROVE  /\ List("sync")' = List("sync") /\ List("dist")' = List("dist") /\ List("files")' = List("files")
         /\ List(cli[c].stage)' = List(cli'[c].stage)
         /\ Want(c)' = Want(c)
         /\ Target(cli[c])' = Target(cli'[c])
<1>1. List("sync")' = List("sync") /\ List("dist")' = List("dist") /\ List("files")' = List("files")
  BY Zenon DEF List
<1>2. List(cli[c].stage)' = List(cli'[c].stage)
  BY Zenon DEF List
<1>3. Target(cli[c])' = Target(cli'[c])
  BY <1>2, Zenon DEF Target
<1> QED
  BY <1>1, <1>2, <1>3, Zenon DEF Want

\* What a run has of its lists.
LEMMA DonePrimed ==
  ASSUME scenario' = scenario, NEW c
  PROVE  /\ Done("sync", c, files)' <=> Done("sync", c, files')
         /\ Done("dist", c, files)' <=> Done("dist", c, files')
         /\ Done("files", c, files)' <=> Done("files", c, files')
         /\ DoneTo(cli[c].stage, cli[c].item - 1, c, files)' <=> DoneTo(cli'[c].stage, cli'[c].item - 1, c, files')
<1>1. /\ Done("sync", c, files)' <=> Done("sync", c, files')
      /\ Done("dist", c, files)' <=> Done("dist", c, files')
      /\ Done("files", c, files)' <=> Done("files", c, files')
  BY ListsPrimed, Zenon DEF Done, DoneTo, Ready, Cached
<1>2. DoneTo(cli[c].stage, cli[c].item - 1, c, files)' <=> DoneTo(cli'[c].stage, cli'[c].item - 1, c, files')
  BY ListsPrimed, Zenon DEF DoneTo, Ready, Cached
<1> QED
  BY <1>1, <1>2, Zenon

\* A run that is sound in the files it finds is so in the next state.
LEMMA SoundPrimed ==
  ASSUME scenario' = scenario, NEW c
  PROVE  Sound(cli'[c], c, files', dir', link') => Sound(cli[c], c, files, dir, link)'
<1>1. Kept(cli'[c], c, files') => Kept(cli[c], c, files)'
  BY ListsPrimed, DonePrimed, Zenon DEF Kept, Cached
<1>2. Place(cli'[c], c, files') => Place(cli[c], c, files)'
  BY ListsPrimed, DonePrimed, Zenon DEF Place
<1>3. Holding(cli'[c], c, files') => Holding(cli[c], c, files)'
  BY ListsPrimed, Zenon DEF Holding
<1>4. Restored(c, files', dir', link') => Restored(c, files, dir, link)'
  BY ListsPrimed, Zenon DEF Restored, Ready, Cached
<1> QED
  BY <1>1, <1>2, <1>3, <1>4, Zenon DEF Sound, Working

\* And one for which nothing went wrong.
LEMMA GoodPrimed ==
  ASSUME scenario' = scenario, NEW c
  PROVE  Good(cli'[c], c, files', dir', link') => Good(cli[c], c, files, dir, link)'
  BY ListsPrimed, Zenon DEF Good, Working, Ready, Cached, Remote

\* What holds of the CLI that moves, as long as nobody else is in its way and,
\* beyond that, as long as nothing goes wrong.
LEMMA Before ==
  ASSUME IInv, NEW c \in Clis, Moved(c), Frame
  PROVE  /\ World /\ Shape(cli[c]) /\ Fresh(cli[c])
         /\ ~shared' => /\ ~shared /\ Alone /\ FilesOK(files) /\ Sound(cli[c], c, files, dir, link)
         /\ Calm' => /\ faults' = faults /\ Calm /\ ~shared' /\ Good(cli[c], c, files, dir, link)
                     /\ \A t \in Targets : served[t] = Want(c)
<1>1. World /\ One(c) /\ (~shared => Alone /\ FilesOK(files))
  BY Zenon DEF IInv
<1>2. ~shared' => ~shared
  BY Zenon DEF Moved
<1>3. ASSUME Calm' PROVE faults' = faults /\ Calm /\ ~shared'
  <2>1. faults \in Nat /\ faults' = 0
    BY <1>1, <1>3, Zenon DEF World, Calm
  <2>2. faults' = faults
    BY <2>1 DEF Frame
  <2>3. dir.is # "file" /\ link.to # "dir"
    BY <1>3, Zenon DEF Calm, Frame
  <2> QED
    BY <1>2, <1>3, <2>2, <2>3, Zenon DEF Calm, Frame
<1>4. Calm => \A t \in Targets : served[t] = Want(c)
  BY Zenon DEF IInv
<1> QED
  BY <1>1, <1>2, <1>3, <1>4, Zenon DEF One

\* A step that keeps to its frame and shows its outcome keeps the invariant.
LEMMA StepHolds ==
  ASSUME IInv, NEW c \in Clis, Moved(c), Frame, Outcome(c)
  PROVE  IInv'
<1>1. World /\ Shape(cli[c])
  BY Before, Zenon
<1>2. scenario' = scenario
  BY Zenon DEF Frame
<1>3. World'
  <2>1. faults' \in Nat
    BY <1>1 DEF World, Frame
  <2>2. DOMAIN cli' = Clis
    BY Zenon DEF Moved
  <2>3. ~scenario'.tree => dir'.is = "dir"
    BY <1>1, Zenon DEF World, Frame
  <2> QED
    BY <1>1, <2>1, <2>2, <2>3, Zenon DEF World, Frame
<1>4. ~shared' => Alone'
  BY Zenon DEF Moved, Alone, Working
<1>5. ~shared' => FilesOK(files)'
  BY Zenon DEF Outcome, FilesOK, FileOK, Cached
<1>6. Calm' => \A t \in Targets : \A d \in Clis : served'[t] = Want(d)'
  <2>1. Calm' => Calm
    BY Before, Zenon
  <2> QED
    BY <1>2, <2>1, Zenon DEF IInv, Frame, Want
<1>7. Found => Found'
  BY <1>2, Zenon DEF Found
<1>8. One(c)'
  <2>1. ~shared' => Sound(cli[c], c, files, dir, link)'
    BY <1>2, SoundPrimed, Zenon DEF Outcome
  <2>2. Calm' => Good(cli[c], c, files, dir, link)'
    BY <1>2, GoodPrimed, Zenon DEF Outcome
  <2>3. Shape(cli[c])' /\ Fresh(cli[c])'
    BY Zenon DEF Outcome, Shape, Fresh
  <2> QED
    BY <1>7, <2>1, <2>2, <2>3, Zenon DEF One, Outcome
<1>9. ASSUME NEW d \in Clis, d # c PROVE One(d)'
  <2>1. One(d) /\ cli'[d] = cli[d]
    BY <1>9, Zenon DEF IInv, Moved
  <2>2. ASSUME ~shared' PROVE Sound(cli'[d], d, files', dir', link')
    <3>1. ~shared /\ Alone
      BY <2>2, Before, Zenon
    <3>2. CASE ~Working(cli[d])
      BY <2>1, <3>2, Zenon DEF Sound
    <3>3. CASE Working(cli[d])
      <4>1. ~Working(cli[c])
        BY <1>9, <3>1, <3>3, Zenon DEF Alone
      <4>2. ~Working(cli'[c])
        BY <1>9, <2>1, <2>2, <3>3, Zenon DEF Moved
      <4>3. dir' = dir /\ link' = link /\ Tidied(files, files')
        BY <2>2, <4>1, <4>2, Zenon DEF Outcome
      <4>4. Sound(cli[d], d, files, dir, link) /\ Shape(cli[d]) /\ scenario \in Scenarios
        BY <1>1, <2>1, <3>1, Zenon DEF One, World
      <4>5. Sound(cli[d], d, files', dir, link)
        BY <4>3, <4>4, SoundFrame, Zenon
      <4> QED
        BY <2>1, <4>3, <4>5, Zenon
    <3> QED
      BY <3>2, <3>3, Zenon
  <2>3. ASSUME Calm' PROVE Good(cli'[d], d, files', dir', link')
    <3>1. faults' = faults /\ Calm /\ ~shared' /\ ~shared /\ Alone
      BY <2>3, Before, Zenon
    <3>2. Good(cli[d], d, files, dir, link)
      BY <2>1, <3>1, Zenon DEF One
    <3>3. CASE ~Working(cli[d])
      <4>1. cli[d].pc \notin {"write", "verify", "recheck", "check"}
        BY <3>3, Zenon DEF Working, Ended
      <4> QED
        BY <2>1, <3>2, <3>3, <4>1, Zenon DEF Good
    <3>4. CASE Working(cli[d])
      <4>1. ~Working(cli[c])
        BY <1>9, <3>1, <3>4, Zenon DEF Alone
      <4>2. ~Working(cli'[c])
        BY <1>9, <2>1, <3>1, <3>4, Zenon DEF Moved
      <4>3. dir' = dir /\ link' = link /\ files' = files
        BY <3>1, <4>1, <4>2, Zenon DEF Outcome
      <4> QED
        BY <2>1, <3>2, <4>3, Zenon
    <3> QED
      BY <3>3, <3>4, Zenon
  <2>4. ~shared' => Sound(cli[d], d, files, dir, link)'
    BY <1>2, <2>2, SoundPrimed, Zenon
  <2>5. Calm' => Good(cli[d], d, files, dir, link)'
    BY <1>2, <2>3, GoodPrimed, Zenon
  <2>6. Shape(cli[d])' /\ Fresh(cli[d])'
    BY <2>1, Zenon DEF One, Shape, Fresh
  <2>7. cli'[d].pc = "relink" => link'.to # "dir"
    BY <2>1, Zenon DEF One, Frame
  <2> QED
    BY <1>7, <2>1, <2>4, <2>5, <2>6, <2>7, Zenon DEF One
<1> QED
  BY <1>3, <1>4, <1>5, <1>6, <1>8, <1>9, Zenon DEF IInv

\* What a CLI can rely on when it takes a step, as long as nobody else is in its
\* way and, beyond that, as long as nothing goes wrong.
Safe(c) == ~shared /\ FilesOK(files) /\ Sound(cli[c], c, files, dir, link)
Well(c) == /\ faults' = faults /\ Calm /\ Safe(c) /\ Good(cli[c], c, files, dir, link)
           /\ \A t \in Targets : served[t] = Want(c)

\* A step that leaves the disk alone.
LEMMA KeepStep ==
  ASSUME IInv, NEW c \in Clis, Moved(c), UNCHANGED <<diskVars, worldVars>>, faults' \in {faults, faults + 1},
         Shape(cli'[c]), Fresh(cli'[c]), cli'[c].pc = "skipped" => Found, cli'[c].pc = "relink" => link.to # "dir",
         Safe(c) => Sound(cli'[c], c, files, dir, link),
         Well(c) => Good(cli'[c], c, files, dir, link)
  PROVE  IInv'
<1>1. /\ files' = files /\ dir' = dir /\ link' = link
      /\ scenario' = scenario /\ served' = served /\ replaced' = replaced
  BY Zenon DEF diskVars, worldVars
<1>2. World
  BY Zenon DEF IInv
<1>3. Frame
  BY <1>1, <1>2, Zenon DEF Frame, World
<1>4. Tidied(files, files')
  BY <1>1, Zenon DEF Tidied, Keeps
<1>5. ~shared' => FilesOK(files') /\ Sound(cli'[c], c, files', dir', link')
  BY <1>1, <1>3, Before, Zenon DEF Safe
<1>6. Calm' => Good(cli'[c], c, files', dir', link')
  BY <1>1, <1>3, Before, Zenon DEF Safe, Well
<1>7. Outcome(c)
  BY <1>1, <1>4, <1>5, <1>6, Zenon DEF Outcome
<1> QED
  BY <1>3, <1>7, StepHolds, Zenon

-----------------------------------------------------------------------------
(* The steps that leave the disk alone.                                    *)

\* Two states of a CLI that differ in its pc at most.
Same(q, r) ==
    /\ DOMAIN q = Fields /\ q.stage = r.stage /\ q.item = r.item /\ q.uri = r.uri /\ q.issues = r.issues
    /\ q.lost = r.lost /\ q.node = r.node /\ q.off = r.off /\ q.content = r.content /\ q.stalled = r.stalled

Pcs == Idle \cup Loop \cup {"index", "index_write"} \cup Parity

\* A CLI whose pc is set.
LEMMA PcIs ==
  ASSUME NEW r, Shape(r), NEW x \in Pcs, NEW q, q = [r EXCEPT !.pc = x]
  PROVE  q.pc = x /\ Same(q, r) /\ Shape(q)
<1>1. q.pc = x /\ Same(q, r)
  BY Zenon DEF Shape, Fields, Same
<1> QED
  BY <1>1, Zenon DEF Shape, Same, Pcs

\* A run that is not at work on the machine.
LEMMA IdleIs ==
  ASSUME NEW q, q.pc \in Idle
  PROVE  /\ ~Working(q)
         /\ \A c, fs, d, l : Sound(q, c, fs, d, l)
         /\ q.pc # "failed" /\ Clean(q) => \A c, fs, d, l : Good(q, c, fs, d, l)
<1>1. ~Working(q)
  BY Zenon DEF Working, Idle
<1>2. q.pc \notin {"write", "verify", "recheck", "check"}
  BY Zenon DEF Idle, Ended
<1> QED
  BY <1>1, <1>2, Zenon DEF Sound, Good, Clean

\* Nothing went wrong for a run that is Good.
LEMMA GoodIsClean ==
  ASSUME NEW r, NEW c, NEW fs, NEW d, NEW l, Good(r, c, fs, d, l)
  PROVE  Clean(r)
  BY Zenon DEF Good, Clean

\* A run ends.
LEMMA EndStep ==
  ASSUME IInv, NEW c \in Clis, NEW how \in Ended, Move(c, End(cli[c], how)),
         UNCHANGED <<diskVars, worldVars>>, faults' \in {faults, faults + 1},
         how = "skipped" => Found,
         how = "failed" => ~Well(c)
  PROVE  IInv'
<1>1. Moved(c) /\ cli'[c] = End(cli[c], how)
  BY MoveIs, Zenon DEF IInv
<1>2. /\ Shape(cli'[c]) /\ Fresh(cli'[c]) /\ cli'[c].pc = how
      /\ Sound(cli'[c], c, files, dir, link)
  <2> DEFINE q == End(cli[c], how)
  <2>1. Shape(q) /\ Fresh(q) /\ q.pc = how
    BY EndOutcome, Zenon
  <2>2. Sound(q, c, files, dir, link)
    BY EndOutcome, Zenon
  <2> HIDE DEF q
  <2>3. cli'[c] = q
    BY <1>1, Zenon DEF q
  <2> QED
    BY <2>1, <2>2, <2>3, Zenon
<1>3. ASSUME how # "failed", Well(c) PROVE Good(cli'[c], c, files, dir, link)
  <2>1. cli[c].uri = "remote" => Remote
    BY <1>3, Zenon DEF Well, Good
  <2> QED
    <3>1. Good(End(cli[c], how), c, files, dir, link)
      BY <1>3, <2>1, EndOutcome, Zenon
    <3> QED
      BY <1>1, <3>1, Zenon
<1>4. how # "relink"
  BY Zenon DEF Ended
<1> QED
  BY <1>1, <1>2, <1>3, <1>4, KeepStep, Zenon

\* A run goes on without touching the machine.
LEMMA IdleStep ==
  ASSUME IInv, NEW c \in Clis, NEW x, x \in {"plain", "negotiate", "submit", "stream"}, cli[c].pc \in Idle,
         Move(c, [cli[c] EXCEPT !.pc = x]),
         UNCHANGED <<diskVars, worldVars>>, faults' \in {faults, faults + 1}
  PROVE  IInv'
<1>1. Moved(c) /\ cli'[c] = [cli[c] EXCEPT !.pc = x] /\ Shape(cli[c]) /\ Fresh(cli[c])
  BY MoveIs, Zenon DEF IInv, One
<1>2. x \in Pcs /\ x \in Idle /\ x \notin {"skipped", "relink", "failed"}
  BY Zenon DEF Pcs, Idle
<1>3. cli'[c].pc = x /\ Same(cli'[c], cli[c]) /\ Shape(cli'[c])
  BY <1>1, <1>2, PcIs, Zenon
<1>4. Fresh(cli'[c])
  <2>1. cli[c].pc \notin {"write", "index_write"}
    BY Zenon DEF Idle, Ended
  <2> QED
    BY <1>1, <1>3, <2>1, Zenon DEF Fresh, Same
<1>5. Sound(cli'[c], c, files, dir, link)
  BY <1>2, <1>3, IdleIs, Zenon
<1>6. Good(cli[c], c, files, dir, link) => Good(cli'[c], c, files, dir, link)
  <2>1. Clean(cli[c]) => Clean(cli'[c])
    BY <1>3, Zenon DEF Clean, Same
  <2> QED
    BY <1>2, <1>3, <2>1, GoodIsClean, IdleIs, Zenon
<1>7. Well(c) => Good(cli[c], c, files, dir, link)
  BY Zenon DEF Well
<1> QED
  BY <1>1, <1>2, <1>3, <1>4, <1>5, <1>6, <1>7, KeepStep, Zenon

\* What Keep keeps.
LEMMA KeepIs ==
  ASSUME Keep
  PROVE  (UNCHANGED <<diskVars, worldVars>>) /\ faults' \in {faults, faults + 1} /\ faults' = faults
  BY Zenon DEF Keep

\* A failure is one more.
LEMMA FaultIs ==
  ASSUME IInv, Fault
  PROVE  faults' \in {faults, faults + 1} /\ faults' # faults
<1>1. faults \in Nat
  BY Zenon DEF IInv, World
<1> QED
  BY <1>1 DEF Fault

\* A transfer that breaks is one more, or had stalled before.
LEMMA BrokenIs ==
  ASSUME IInv, NEW c \in Clis, Broken(cli[c])
  PROVE  faults' \in {faults, faults + 1} /\ ~Well(c)
<1>1. CASE cli[c].stalled
  BY <1>1, Zenon DEF Broken, Well, Good
<1>2. CASE ~cli[c].stalled
  BY <1>2, FaultIs, Zenon DEF Broken, Well
<1> QED
  BY <1>1, <1>2, Zenon

\* A run starts: it skips, ends, or goes on to the server.
LEMMA StartHolds ==
  ASSUME IInv, NEW c \in Clis, Start(c)
  PROVE  IInv'
<1>1. cli[c].pc = "start" /\ Keep
  BY Zenon DEF Start
<1>2. (UNCHANGED <<diskVars, worldVars>>) /\ faults' \in {faults, faults + 1}
  BY <1>1, KeepIs, Zenon
<1>3. cli[c].pc \in Idle
  BY <1>1, Zenon DEF Idle
<1>4. scenario.request \in {"none", "empty", "bad", "good"}
  BY ScenarioAssumption, Zenon DEF IInv, World, Requests
<1>5. CASE scenario.request = "none"
  <2>1. Move(c, [cli[c] EXCEPT !.pc = "plain"])
    BY <1>5 DEF Start
  <2> QED
    BY <1>2, <1>3, <2>1, IdleStep, Zenon
<1>6. CASE scenario.request \in {"empty", "bad"}
  <2>1. Move(c, End(cli[c], "failed"))
    BY <1>6 DEF Start
  <2>2. "failed" \in Ended /\ ~Well(c)
    BY <1>6, Zenon DEF Ended, Calm, Well
  <2> QED
    BY <1>2, <2>1, <2>2, EndStep, Zenon
<1>7. CASE scenario.request = "good" /\ ~scenario.force /\ Found
  <2>1. Move(c, End(cli[c], "skipped"))
    BY <1>7 DEF Start, Found
  <2>2. "skipped" \in Ended
    BY Zenon DEF Ended
  <2> QED
    BY <1>2, <1>7, <2>1, <2>2, EndStep, Zenon
<1>8. CASE scenario.request = "good" /\ (scenario.force \/ ~Found) /\ scenario.dry_run
  <2>1. Move(c, End(cli[c], "done"))
    BY <1>8 DEF Start, Found
  <2>2. "done" \in Ended
    BY Zenon DEF Ended
  <2> QED
    BY <1>2, <2>1, <2>2, EndStep, Zenon
<1>9. CASE scenario.request = "good" /\ (scenario.force \/ ~Found) /\ ~scenario.dry_run
  <2>1. Move(c, [cli[c] EXCEPT !.pc = "negotiate"])
    BY <1>9 DEF Start, Found
  <2> QED
    BY <1>2, <1>3, <2>1, IdleStep, Zenon
<1> QED
  BY <1>4, <1>5, <1>6, <1>7, <1>8, <1>9, Zenon

\* The blobs are uploaded.
LEMMA NegotiateHolds ==
  ASSUME IInv, NEW c \in Clis, Negotiate(c)
  PROVE  IInv'
<1>1. cli[c].pc = "negotiate" /\ Keep /\ Move(c, [cli[c] EXCEPT !.pc = "submit"])
  BY Zenon DEF Negotiate
<1>2. (UNCHANGED <<diskVars, worldVars>>) /\ faults' \in {faults, faults + 1}
  BY <1>1, KeepIs, Zenon
<1>3. cli[c].pc \in Idle
  BY <1>1, Zenon DEF Idle
<1> QED
  BY <1>1, <1>2, <1>3, IdleStep, Zenon

\* The order is submitted, and with --submit-only that is all.
LEMMA SubmitHolds ==
  ASSUME IInv, NEW c \in Clis, Submit(c)
  PROVE  IInv'
<1>1. cli[c].pc = "submit" /\ Keep
  BY Zenon DEF Submit
<1>2. (UNCHANGED <<diskVars, worldVars>>) /\ faults' \in {faults, faults + 1}
  BY <1>1, KeepIs, Zenon
<1>3. cli[c].pc \in Idle /\ "done" \in Ended
  BY <1>1, Zenon DEF Idle, Ended
<1>4. CASE scenario.submit_only
  <2>1. Move(c, End(cli[c], "done"))
    BY <1>4, Zenon DEF Submit
  <2> QED
    BY <1>2, <1>3, <2>1, EndStep, Zenon
<1>5. CASE ~scenario.submit_only
  <2>1. Move(c, [cli[c] EXCEPT !.pc = "stream"])
    BY <1>5, Zenon DEF Submit
  <2> QED
    BY <1>2, <1>3, <2>1, IdleStep, Zenon
<1> QED
  BY <1>4, <1>5, Zenon

\* The server fails, which excuses the run.
LEMMA RemoteFailsHolds ==
  ASSUME IInv, NEW c \in Clis, RemoteFails(c)
  PROVE  IInv'
<1>1. Fault /\ Move(c, End(cli[c], "failed")) /\ UNCHANGED <<diskVars, worldVars>>
  BY Zenon DEF RemoteFails
<1>2. faults' \in {faults, faults + 1} /\ ~Well(c)
  BY <1>1, FaultIs, Zenon DEF Well
<1>3. "failed" \in Ended
  BY Zenon DEF Ended
<1> QED
  BY <1>1, <1>2, <1>3, EndStep, Zenon

\* The local emerge is the end of a run.
LEMMA EmergeHolds ==
  ASSUME IInv, NEW c \in Clis, Emerge(c)
  PROVE  IInv'
<1>1. Keep /\ Move(c, End(cli[c], "done"))
  BY Zenon DEF Emerge
<1>2. (UNCHANGED <<diskVars, worldVars>>) /\ faults' \in {faults, faults + 1}
  BY <1>1, KeepIs, Zenon
<1>3. "done" \in Ended
  BY Zenon DEF Ended
<1> QED
  BY <1>1, <1>2, <1>3, EndStep, Zenon

\* The local emerge fails, which excuses the run.
LEMMA EmergeFailsHolds ==
  ASSUME IInv, NEW c \in Clis, EmergeFails(c)
  PROVE  IInv'
<1>1. Fault /\ Move(c, End(cli[c], "failed")) /\ UNCHANGED <<diskVars, worldVars>>
  BY Zenon DEF EmergeFails
<1>2. faults' \in {faults, faults + 1} /\ ~Well(c)
  BY <1>1, FaultIs, Zenon DEF Well
<1>3. "failed" \in Ended
  BY Zenon DEF Ended
<1> QED
  BY <1>1, <1>2, <1>3, EndStep, Zenon

\* A run goes on, without a change to the disk.
LEMMA OnwardStep ==
  ASSUME IInv, NEW c \in Clis, NEW next, Move(c, next), Onward(next),
         UNCHANGED <<diskVars, worldVars>>, faults' \in {faults, faults + 1},
         Safe(c) => Sound(next, c, files, dir, link), Well(c) => Good(next, c, files, dir, link)
  PROVE  IInv'
<1>1. Moved(c) /\ cli'[c] = next
  BY MoveIs, Zenon DEF IInv
<1>2. /\ Shape(cli'[c]) /\ Fresh(cli'[c]) /\ cli'[c].pc # "skipped" /\ cli'[c].pc # "relink"
  BY <1>1, Zenon DEF Onward
<1>3. Safe(c) => Sound(cli'[c], c, files, dir, link)
  BY <1>1, Zenon
<1>4. Well(c) => Good(cli'[c], c, files, dir, link)
  BY <1>1, Zenon
<1> QED
  BY <1>1, <1>2, <1>3, <1>4, KeepStep, Zenon

\* A run that starts again.
LEMMA RerunHolds ==
  ASSUME IInv, NEW c \in Clis, Rerun(c)
  PROVE  IInv'
<1>1. Move(c, NewCli) /\ (UNCHANGED <<diskVars, worldVars>>) /\ faults' \in {faults, faults + 1}
  BY Zenon DEF Rerun
<1>2. /\ DOMAIN NewCli = Fields /\ NewCli.pc = "start" /\ NewCli.stage = "sync" /\ NewCli.item = 1 /\ NewCli.off = 0
      /\ NewCli.issues = FALSE /\ NewCli.stalled = FALSE /\ NewCli.uri = "none"
  BY DEF NewCli, Fields
<1>3. NewCli.item \in Nat
  BY <1>2
<1>4. Onward(NewCli)
  BY <1>2, <1>3, Zenon DEF Onward, Shape, Fresh, Idle, Stages
<1>5. NewCli.pc \in Idle /\ NewCli.pc # "failed" /\ Clean(NewCli)
  BY <1>2, Zenon DEF Idle, Clean
<1>6. Sound(NewCli, c, files, dir, link) /\ Good(NewCli, c, files, dir, link)
  BY <1>5, IdleIs, Zenon
<1> QED
  BY <1>1, <1>4, <1>6, OnwardStep, Zenon

\* The result of the build: the first package is next, or the distfiles.
LEMMA StreamHolds ==
  ASSUME IInv, NEW c \in Clis, Stream(c)
  PROVE  IInv'
<1>1. cli[c].pc = "stream" /\ Keep
  BY Zenon DEF Stream
<1>2. (UNCHANGED <<diskVars, worldVars>>) /\ faults' \in {faults, faults + 1}
  BY <1>1, KeepIs, Zenon
<1>3. scenario \in Scenarios /\ Shape(cli[c]) /\ Fresh(cli[c])
  BY Zenon DEF IInv, One, World
<1>4. CASE scenario.pkgs = <<>>
  <2>1. Move(c, ToDistfiles(cli[c], "remote"))
    BY <1>4, Zenon DEF Stream
  <2>2. Onward(ToDistfiles(cli[c], "remote"))
    BY ToDistfilesShape, Zenon
  <2>3. Sound(ToDistfiles(cli[c], "remote"), c, files, dir, link)
    BY <1>3, ToDistfilesOutcome, Zenon
  <2>4. Good(ToDistfiles(cli[c], "remote"), c, files, dir, link)
    BY <1>3, <1>4, ToDistfilesOutcome, Zenon DEF Remote
  <2> QED
    BY <1>2, <2>1, <2>2, <2>3, <2>4, OnwardStep, Zenon
<1>5. CASE scenario.pkgs # <<>>
  <2> DEFINE q == [cli[c] EXCEPT !.pc = "inspect"]
  <2>1. Move(c, q)
    BY <1>5, Zenon DEF Stream
  <2>2. "inspect" \in Pcs /\ "inspect" \notin Idle /\ "inspect" \notin Parity /\ "inspect" \in Loop
    BY Zenon DEF Pcs, Loop, Idle, Ended, Parity, Linking, Settled
  <2>3. q.pc = "inspect" /\ Same(q, cli[c]) /\ Shape(q)
    BY <1>3, <2>2, PcIs, Zenon
  <2> HIDE DEF q
  <2>4. q.stage = "sync" /\ q.item = 1 /\ ~q.issues
    BY <1>1, <1>3, <2>3, Zenon DEF Fresh, Same, Idle
  <2>5. Onward(q)
    BY <1>1, <1>3, <2>2, <2>3, Zenon DEF Onward, Fresh, Same
  <2>6. 1 \in 1 .. Len(List("sync")) /\ DoneTo("sync", 1 - 1, c, files)
    <3>1. scenario.pkgs \in Seq({"pkg1", "pkg2"}) /\ List("sync") = scenario.pkgs
      BY <1>3, ScenarioAssumption, Lists, Zenon
    <3>2. 1 \in 1 .. Len(scenario.pkgs)
      BY <1>5, <3>1
    <3>3. 1 .. (1 - 1) = {}
      OBVIOUS
    <3> QED
      BY <3>1, <3>2, <3>3, Zenon DEF DoneTo
  <2>7. Kept(q, c, files) /\ Holding(q, c, files)
    BY <2>3, <2>4, Zenon DEF Kept, Holding
  <2>8. Place(q, c, files)
    BY <2>2, <2>3, <2>4, <2>6, Zenon DEF Place, Settled
  <2>9. Sound(q, c, files, dir, link)
    BY <2>3, <2>7, <2>8, Zenon DEF Sound
  <2>10. Well(c) => Good(q, c, files, dir, link)
    BY <2>3, <2>4, Zenon DEF Well, Good, Same
  <2> QED
    BY <1>2, <2>1, <2>5, <2>9, <2>10, OnwardStep, Zenon
<1> QED
  BY <1>4, <1>5, Zenon

-----------------------------------------------------------------------------
(* One file.                                                               *)

\* A run on an item of a list.
LEMMA OnItem ==
  ASSUME IInv, NEW c \in Clis, cli[c].pc \in Loop
  PROVE  /\ scenario \in Scenarios /\ Shape(cli[c]) /\ Working(cli[c]) /\ cli[c].stage \in Stages
         /\ Safe(c) => /\ Kept(cli[c], c, files) /\ Place(cli[c], c, files) /\ Holding(cli[c], c, files)
                       /\ cli[c].item \in 1 .. Len(List(cli[c].stage))
                       /\ Target(cli[c]) \in Targets /\ FileOK(files[Target(cli[c])])
<1>1. scenario \in Scenarios /\ Shape(cli[c])
  BY Zenon DEF IInv, One, World
<1>2. Working(cli[c])
  BY Zenon DEF Working, Loop, Ended
<1>3. cli[c].stage \in Stages
  BY <1>1, Zenon DEF Shape
<1>4. ASSUME Safe(c)
      PROVE  /\ Kept(cli[c], c, files) /\ Place(cli[c], c, files) /\ Holding(cli[c], c, files)
             /\ cli[c].item \in 1 .. Len(List(cli[c].stage))
             /\ Target(cli[c]) \in Targets /\ FileOK(files[Target(cli[c])])
  <2>1. Kept(cli[c], c, files) /\ Place(cli[c], c, files) /\ Holding(cli[c], c, files)
    BY <1>2, <1>4, Zenon DEF Safe, Sound
  <2>2. cli[c].item \in 1 .. Len(List(cli[c].stage))
    BY <2>1, Zenon DEF Place
  <2>3. Target(cli[c]) \in Targets
    BY <1>1, <2>2, TargetIs, Zenon
  <2> QED
    BY <1>4, <2>1, <2>2, <2>3, Zenon DEF Safe, FilesOK
<1> QED
  BY <1>1, <1>2, <1>3, <1>4, Zenon

\* The item a run is on is where it wants it.
LEMMA ItemFinished ==
  ASSUME NEW r, Shape(r), r.pc \in Loop, NEW c, NEW fs, NEW d, NEW l, scenario \in Scenarios,
         Kept(r, c, fs), Place(r, c, fs), Ready(r.stage, fs[Target(r)], Want(c))
  PROVE  /\ Sound(AfterItem(r), c, fs, d, l)
         /\ Good(r, c, fs, d, l) => Good(AfterItem(r), c, fs, d, l)
<1>1. r.item \in 1 .. Len(List(r.stage)) /\ (r.issues \/ DoneTo(r.stage, r.item - 1, c, fs))
  BY Zenon DEF Place
<1>2. r.item \in Nat /\ r.item >= 1
  <2>1. r.item \in Nat /\ r.stage \in Stages
    BY Zenon DEF Shape
  <2>2. Len(List(r.stage)) \in Nat
    BY <2>1, Lists, Zenon
  <2> QED
    BY <1>1, <2>1, <2>2
<1>3. Ready(r.stage, fs[List(r.stage)[r.item]], Want(c))
  BY <1>1, TargetIs, Zenon
<1>4. r.issues \/ DoneTo(r.stage, r.item, c, fs)
  BY <1>1, <1>2, <1>3, DoneStep, Zenon
<1>5. Sound(AfterItem(r), c, fs, d, l)
  BY <1>1, <1>4, AfterItemOutcome, Zenon
<1>6. ASSUME Good(r, c, fs, d, l) PROVE Good(AfterItem(r), c, fs, d, l)
  <2>1. Working(r) /\ r.pc # "dirs" /\ r.pc \notin Linking
    BY Zenon DEF Working, Loop, Ended, Linking
  <2>2. r.stage = "files" => d.is = "dir" /\ (scenario.tree => l = [to |-> Want(c), stamped |-> TRUE])
    BY <1>6, <2>1, Zenon DEF Good
  <2>3. Clean(r)
    BY <1>6, GoodIsClean, Zenon
  <2> QED
    BY <1>1, <1>4, <2>2, <2>3, AfterItemOutcome, Zenon
<1> QED
  BY <1>5, <1>6, Zenon

\* What a run compares before and after a download.
LEMMA MatchesIs ==
  ASSUME NEW c, NEW v
  PROVE  Matches(cli[c], v) <=> Described(cli[c]) /\ Ready(cli[c].stage, files[Target(cli[c])], v)
  BY Zenon DEF Matches, Ready, Cached, is_package_cached, file_matches

\* The item at hand is finished, without a change to the disk.
LEMMA ItemDoneStep ==
  ASSUME IInv, NEW c \in Clis, cli[c].pc \in Loop, Keep, Matches(cli[c], Want(c)),
         Move(c, AfterItem(cli[c]))
  PROVE  IInv'
<1>1. (UNCHANGED <<diskVars, worldVars>>) /\ faults' \in {faults, faults + 1}
  BY KeepIs, Zenon
<1>2. scenario \in Scenarios /\ Shape(cli[c])
  BY OnItem, Zenon
<1>3. Onward(AfterItem(cli[c]))
  BY <1>2, AfterItemShape, Zenon
<1>4. Ready(cli[c].stage, files[Target(cli[c])], Want(c))
  BY MatchesIs, Zenon
<1>5. Safe(c) => Kept(cli[c], c, files) /\ Place(cli[c], c, files)
  BY OnItem, Zenon
<1>6. Safe(c) => Sound(AfterItem(cli[c]), c, files, dir, link)
  BY <1>2, <1>4, <1>5, ItemFinished, Zenon
<1>7. Well(c) => Safe(c) /\ Good(cli[c], c, files, dir, link)
  BY Zenon DEF Well
<1>8. ASSUME Well(c) PROVE Good(AfterItem(cli[c]), c, files, dir, link)
  <2>1. Kept(cli[c], c, files) /\ Place(cli[c], c, files) /\ Good(cli[c], c, files, dir, link)
    BY <1>5, <1>7, <1>8, Zenon
  <2> QED
    BY <1>2, <1>4, <2>1, ItemFinished, Zenon
<1> QED
  BY <1>1, <1>3, <1>6, <1>8, OnwardStep, Zenon

\* The item at hand fails, without a change to the disk.
LEMMA ItemFailedStep ==
  ASSUME IInv, NEW c \in Clis, cli[c].pc \in Loop, UNCHANGED <<diskVars, worldVars>>,
         faults' \in {faults, faults + 1}, ~Well(c), Move(c, ItemFailed(cli[c]))
  PROVE  IInv'
<1>1. scenario \in Scenarios /\ Shape(cli[c])
  BY OnItem, Zenon
<1>2. Onward(ItemFailed(cli[c]))
  BY <1>1, ItemFailedShape, Zenon
<1>3. Safe(c) => Kept(cli[c], c, files) /\ cli[c].item \in 1 .. Len(List(cli[c].stage))
  BY OnItem, Zenon
<1>4. Safe(c) => Sound(ItemFailed(cli[c]), c, files, dir, link)
  BY <1>1, <1>3, ItemFailedOutcome, Zenon
<1> QED
  BY <1>2, <1>4, OnwardStep, Zenon

\* A package without a digest is left to the remote binhost.
LEMMA UndescribedStep ==
  ASSUME IInv, NEW c \in Clis, cli[c].pc \in Loop, Keep, ~Described(cli[c]), Move(c, ItemFailed(cli[c]))
  PROVE  IInv'
<1>1. (UNCHANGED <<diskVars, worldVars>>) /\ faults' \in {faults, faults + 1}
  BY KeepIs, Zenon
<1>2. scenario \in Scenarios
  BY OnItem, Zenon
<1>3. cli[c].stage = "sync" /\ Remote
  BY Zenon DEF Described, Remote
<1>4. Move(c, ToDistfiles(cli[c], "remote"))
  BY <1>3, Zenon DEF ItemFailed
<1>5. Onward(ToDistfiles(cli[c], "remote"))
  BY ToDistfilesShape, Zenon
<1>6. /\ Sound(ToDistfiles(cli[c], "remote"), c, files, dir, link)
      /\ Good(ToDistfiles(cli[c], "remote"), c, files, dir, link)
  BY <1>2, <1>3, ToDistfilesOutcome, Zenon
<1> QED
  BY <1>1, <1>4, <1>5, <1>6, OnwardStep, Zenon

\* The run goes to another point of the same item, without a change to the disk.
LEMMA SameItemStep ==
  ASSUME IInv, NEW c \in Clis, cli[c].pc \in {"inspect", "verify"}, Keep, NEW x \in {"fetch", "rename"},
         Move(c, [cli[c] EXCEPT !.pc = x]),
         x = "rename" => /\ files[Target(cli[c])].part # NoNode
                         /\ files[Target(cli[c])].data[files[Target(cli[c])].part] = Whole(Want(c))
  PROVE  IInv'
<1> DEFINE r == cli[c]
           q == [r EXCEPT !.pc = x]
<1>0. r.pc \in Loop /\ r.off = 0
  BY Zenon DEF Loop, IInv, One, Fresh
<1>1. (UNCHANGED <<diskVars, worldVars>>) /\ faults' \in {faults, faults + 1}
  BY KeepIs, Zenon
<1>2. scenario \in Scenarios /\ Shape(r) /\ Working(r)
  BY <1>0, OnItem, Zenon
<1>3. x \in Pcs /\ x \in Loop /\ x \notin Idle /\ x \notin Parity /\ x \notin {"index", "index_write"}
  BY Zenon DEF Pcs, Loop, Idle, Ended, Parity, Linking, Settled
<1>4. q.pc = x /\ Same(q, r) /\ Shape(q)
  BY <1>2, <1>3, PcIs
<1> HIDE DEF q
<1>5. Onward(q)
  BY <1>0, <1>3, <1>4, Zenon DEF Onward, Fresh, Same
<1>6. r.pc # "index_write"
  BY Zenon
<1>7. Target(q) = Target(r)
  BY <1>3, <1>4, <1>6, Zenon DEF Target, Same
<1>8. Safe(c) => Kept(r, c, files) /\ Place(r, c, files)
  BY <1>0, OnItem, Zenon
<1>9. Kept(r, c, files) => Kept(q, c, files)
  BY <1>4, Zenon DEF Kept, Same
<1>10. Place(r, c, files) => Place(q, c, files)
  BY <1>0, <1>3, <1>4, Zenon DEF Place, Same, Settled, Parity
<1>11. Holding(q, c, files)
  BY <1>3, <1>4, <1>7, Zenon DEF Holding
<1>12. Safe(c) => Sound(q, c, files, dir, link)
  BY <1>3, <1>4, <1>8, <1>9, <1>10, <1>11, Zenon DEF Sound
<1>13. Well(c) => Good(q, c, files, dir, link)
  <2>1. r.pc # "dirs" /\ r.pc \notin Linking
    BY Zenon DEF Linking
  <2> QED
    BY <1>2, <1>4, <2>1, Zenon DEF Well, Good, Same
<1>14. Move(c, q)
  BY Zenon DEF q
<1> QED
  BY <1>1, <1>5, <1>12, <1>13, <1>14, OnwardStep, Zenon

\* The paths of the parity entries are ones that are restored.
LEMMA Approved ==
  ASSUME scenario \in Scenarios
  PROVE  /\ is_approved_parity_path(scenario.root)
         /\ \A t \in {"Packages", "state"} : is_approved_parity_path(resolve_parity_target(t))
<1> DEFINE metadata == <<"var", "db", "repos", "gentoo", "metadata">>
           eclass == <<"var", "cache", "eclass">>
           portage == <<"var", "lib", "portage">>
<1>1. scenario.root \in {metadata, eclass, portage}
  <2>1. scenario.root \in CapturedDirs("gentoo")
    BY ScenarioAssumption, Zenon
  <2>2. scenario.root \in {<<"var", "db", "repos", "gentoo", x>> : x \in {"metadata", "Packages"}}
                           \cup {eclass, BinpkgIndex, portage}
        /\ scenario.root[Len(scenario.root)] # "Packages"
    BY <2>1, Zenon DEF CapturedDirs, capture_final_state_parity_from, capture_repo_metadata_and_indexes
  <2>3. LET q == <<"var", "db", "repos", "gentoo", "Packages">> IN q[Len(q)] = "Packages"
    OBVIOUS
  <2>4. BinpkgIndex[Len(BinpkgIndex)] = "Packages"
    BY DEF BinpkgIndex
  <2> QED
    BY <2>2, <2>3, <2>4, Zenon
<1>2. is_approved_parity_path(metadata) /\ is_approved_parity_path(Append(metadata, "state"))
  BY DEF is_approved_parity_path, Under
<1>3. is_approved_parity_path(eclass) /\ is_approved_parity_path(Append(eclass, "state"))
  BY DEF is_approved_parity_path, Under
<1>4. is_approved_parity_path(portage) /\ is_approved_parity_path(Append(portage, "state"))
  BY DEF is_approved_parity_path, Under
<1>5. is_approved_parity_path(BinpkgIndex)
  BY Zenon DEF is_approved_parity_path
<1>6. resolve_parity_target("Packages") = BinpkgIndex
      /\ resolve_parity_target("state") = Append(scenario.root, "state")
  BY DEF resolve_parity_target
<1> HIDE DEF metadata, eclass, portage
<1> QED
  BY <1>1, <1>2, <1>3, <1>4, <1>5, <1>6, Zenon

\* A file that is in place is skipped, another one is fetched.
LEMMA InspectHolds ==
  ASSUME IInv, NEW c \in Clis, Inspect(c)
  PROVE  IInv'
<1>1. cli[c].pc = "inspect" /\ Keep
  BY Zenon DEF Inspect
<1>2. cli[c].pc \in Loop
  BY <1>1, Zenon DEF Loop
<1>3. CASE Excluded(cli[c])
  <2>1. Move(c, ItemFailed(cli[c]))
    BY <1>3, Zenon DEF Inspect
  <2>2. ASSUME Well(c) PROVE FALSE
    <3>1. /\ scenario \in Scenarios /\ Shape(cli[c])
          /\ cli[c].item \in 1 .. Len(List(cli[c].stage))
      BY <1>2, <2>2, OnItem, Zenon DEF Well
    <3>2. cli[c].stage = "files" /\ Target(cli[c]) \in {"Packages", "state"}
      BY <1>2, <1>3, <3>1, TargetIs, Zenon DEF Excluded
    <3> QED
      BY <1>3, <3>1, <3>2, Approved, Zenon DEF Excluded
  <2>3. (UNCHANGED <<diskVars, worldVars>>) /\ faults' \in {faults, faults + 1}
    BY <1>1, KeepIs, Zenon
  <2> QED
    BY <1>2, <2>1, <2>2, <2>3, ItemFailedStep, Zenon
<1>4. CASE ~Excluded(cli[c]) /\ Matches(cli[c], Want(c))
  <2>1. Move(c, AfterItem(cli[c]))
    BY <1>4, Zenon DEF Inspect
  <2> QED
    BY <1>1, <1>2, <1>4, <2>1, ItemDoneStep, Zenon
<1>5. CASE ~Excluded(cli[c]) /\ ~Matches(cli[c], Want(c))
  <2>1. Move(c, [cli[c] EXCEPT !.pc = "fetch"])
    BY <1>5, Zenon DEF Inspect
  <2> QED
    BY <1>1, <2>1, SameItemStep, Zenon
<1> QED
  BY <1>3, <1>4, <1>5, Zenon

\* What a run wants is a content, not a file that is missing.
LEMMA Wanted ==
  ASSUME scenario \in Scenarios, NEW c \in Clis
  PROVE  Want(c) \in Contents /\ Want(c) # Absent /\ Want(c) # "dir"
<1>1. scenario.wants \in [Clis -> Contents]
  BY ScenarioAssumption, Zenon
<1>2. Want(c) \in Contents
  BY <1>1, Zenon DEF Want
<1> QED
  BY <1>2, ContentAssumption, Zenon

\* When nothing went wrong, what is fetched is there, and so is its directory.
LEMMA FetchRefusedHolds ==
  ASSUME IInv, NEW c \in Clis, FetchRefused(c)
  PROVE  IInv'
<1>1. /\ cli[c].pc = "fetch" /\ Keep /\ Move(c, ItemFailed(cli[c]))
      /\ Source(cli[c], c) = Absent \/ (Target(cli[c]) = "state" /\ dir.is # "dir")
  BY Zenon DEF FetchRefused
<1>2. cli[c].pc \in Loop /\ cli[c].pc # "dirs"
  BY <1>1, Zenon DEF Loop
<1>3. (UNCHANGED <<diskVars, worldVars>>) /\ faults' \in {faults, faults + 1}
  BY <1>1, KeepIs, Zenon
<1>4. ASSUME Well(c) PROVE FALSE
  <2>1. /\ scenario \in Scenarios /\ Shape(cli[c]) /\ Working(cli[c]) /\ cli[c].stage \in Stages
        /\ cli[c].item \in 1 .. Len(List(cli[c].stage)) /\ Target(cli[c]) \in Targets
    BY <1>2, <1>4, OnItem, Zenon DEF Well
  <2>2. Source(cli[c], c) # Absent
    BY <1>4, <2>1, Wanted, Zenon DEF Source, Well
  <2>3. Target(cli[c]) = "state"
    BY <1>1, <2>2, Zenon
  <2>4. cli[c].stage = "files"
    <3>1. cli[c].stage # "sync"
      BY <1>2, <2>1, <2>3, TargetIs, Zenon
    <3>2. cli[c].stage # "dist"
      BY <1>2, <2>1, <2>3, TargetIs, Zenon
    <3> QED
      BY <2>1, <3>1, <3>2, Zenon DEF Stages
  <2>5. dir.is = "dir"
    BY <1>2, <1>4, <2>1, <2>4, Zenon DEF Well, Good
  <2> QED
    BY <1>1, <2>2, <2>5, Zenon
<1> QED
  BY <1>1, <1>2, <1>3, <1>4, ItemFailedStep, Zenon

\* A .part that is whole is renamed next; when nothing went wrong it is whole, or
\* there is no digest to check it by.
LEMMA VerifyHolds ==
  ASSUME IInv, NEW c \in Clis, Verify(c)
  PROVE  IInv'
<1> DEFINE f == files[Target(cli[c])]
           ok == f.part # NoNode /\ f.data[f.part] = Whole(Want(c))
<1>1. cli[c].pc = "verify" /\ Keep
  BY Zenon DEF Verify
<1>2. cli[c].pc \in Loop
  BY <1>1, Zenon DEF Loop
<1>3. CASE ok /\ Described(cli[c])
  <2>1. Move(c, [cli[c] EXCEPT !.pc = "rename"])
    BY <1>3, Zenon DEF Verify
  <2> QED
    BY <1>1, <1>3, <2>1, SameItemStep, Zenon
<1>4. CASE ~ok
  <2>1. Move(c, ItemFailed(cli[c]))
    BY <1>4, Zenon DEF Verify
  <2>2. ~Well(c)
    BY <1>1, <1>4, Zenon DEF Well, Good
  <2>3. (UNCHANGED <<diskVars, worldVars>>) /\ faults' \in {faults, faults + 1}
    BY <1>1, KeepIs, Zenon
  <2> QED
    BY <1>2, <2>1, <2>2, <2>3, ItemFailedStep, Zenon
<1>5. CASE ~Described(cli[c])
  <2>1. Move(c, ItemFailed(cli[c]))
    BY <1>5, Zenon DEF Verify
  <2> QED
    BY <1>1, <1>2, <1>5, <2>1, UndescribedStep, Zenon
<1> QED
  BY <1>3, <1>4, <1>5, Zenon

\* When nothing went wrong the file that was renamed matches.
LEMMA RecheckHolds ==
  ASSUME IInv, NEW c \in Clis, Recheck(c)
  PROVE  IInv'
<1>1. cli[c].pc = "recheck" /\ Keep
  BY Zenon DEF Recheck
<1>2. cli[c].pc \in Loop
  BY <1>1, Zenon DEF Loop
<1>3. CASE Matches(cli[c], Want(c))
  <2>1. Move(c, AfterItem(cli[c]))
    BY <1>3, Zenon DEF Recheck
  <2> QED
    BY <1>1, <1>2, <1>3, <2>1, ItemDoneStep, Zenon
<1>4. CASE ~Matches(cli[c], Want(c))
  <2>1. Move(c, ItemFailed(cli[c]))
    BY <1>4, Zenon DEF Recheck
  <2>2. ASSUME Well(c) PROVE FALSE
    <3>1. cli[c].stage # "sync"
      BY <1>1, <1>2, <2>2, OnItem, Zenon DEF Well, Holding
    <3> QED
      BY <1>1, <1>4, <2>2, <3>1, MatchesIs, Zenon DEF Well, Good, Described
  <2>3. (UNCHANGED <<diskVars, worldVars>>) /\ faults' \in {faults, faults + 1}
    BY <1>1, KeepIs, Zenon
  <2> QED
    BY <1>2, <2>1, <2>2, <2>3, ItemFailedStep, Zenon
<1> QED
  BY <1>3, <1>4, Zenon

-----------------------------------------------------------------------------
(* The rest of the steps that leave the disk alone.                        *)

\* A run that stalls keeps what it has.
LEMMA StallHolds ==
  ASSUME IInv, NEW c \in Clis, Stall(c)
  PROVE  IInv'
<1> DEFINE r == cli[c]
           q == [r EXCEPT !.stalled = TRUE]
<1>1. /\ r.pc \in {"fetch", "write", "index", "index_write", "links", "negotiate", "stream"}
      /\ Fault /\ Move(c, q) /\ UNCHANGED <<diskVars, worldVars>>
  BY Zenon DEF Stall, Connecting
<1>2. faults' \in {faults, faults + 1} /\ ~Well(c)
  BY <1>1, FaultIs, Zenon DEF Well
<1>3. Shape(r) /\ Fresh(r)
  BY Zenon DEF IInv, One
<1>4. /\ DOMAIN q = Fields /\ q.pc = r.pc /\ q.stage = r.stage /\ q.item = r.item /\ q.uri = r.uri
      /\ q.issues = r.issues /\ q.lost = r.lost /\ q.node = r.node /\ q.off = r.off /\ q.stalled = TRUE
  BY <1>3, Zenon DEF Shape, Fields
<1>5. r.pc \notin {"skipped", "relink", "emerge"}
  BY <1>1, Zenon
<1> HIDE DEF q
<1>6. Onward(q)
  BY <1>3, <1>4, <1>5, Zenon DEF Onward, Shape, Fresh
<1>7. Target(q) = Target(r)
  BY <1>4, Zenon DEF Target
<1>8. Kept(r, c, files) => Kept(q, c, files)
  BY <1>4, Zenon DEF Kept
<1>9. Place(r, c, files) => Place(q, c, files)
  BY <1>4, Zenon DEF Place
<1>10. Holding(r, c, files) => Holding(q, c, files)
  BY <1>4, <1>7, Zenon DEF Holding
<1>11. Working(q) <=> Working(r)
  BY <1>4, Zenon DEF Working
<1>12. Safe(c) => Sound(q, c, files, dir, link)
  BY <1>4, <1>5, <1>8, <1>9, <1>10, <1>11, Zenon DEF Safe, Sound
<1> QED
  BY <1>1, <1>2, <1>6, <1>12, OnwardStep, Zenon

\* A run in the restoration of parity.
LEMMA InParity ==
  ASSUME IInv, NEW c \in Clis, cli[c].pc \in Parity
  PROVE  /\ scenario \in Scenarios /\ Shape(cli[c]) /\ Working(cli[c])
         /\ Safe(c) => /\ Kept(cli[c], c, files) /\ Place(cli[c], c, files) /\ cli[c].stage = "files"
                       /\ cli[c].pc \notin Settled => cli[c].item = 1
<1>1. scenario \in Scenarios /\ Shape(cli[c])
  BY Zenon DEF IInv, One, World
<1>2. Working(cli[c])
  BY Zenon DEF Working, Parity, Linking, Settled, Ended
<1>3. Safe(c) => Kept(cli[c], c, files) /\ Place(cli[c], c, files)
  BY <1>2, Zenon DEF Safe, Sound
<1> QED
  BY <1>1, <1>2, <1>3, Zenon DEF Place

\* A run in the restoration of parity that stays in it.
LEMMA ParityGoesOn ==
  ASSUME NEW r, NEW q, Shape(r), r.stage = "files",
         NEW c, NEW fs, NEW d, NEW l, Kept(r, c, fs), Place(r, c, fs),
         q.pc \in Parity, q.pc # "emerge", q.stage = r.stage, q.item = r.item, q.uri = r.uri, q.lost = r.lost,
         r.issues => q.issues, q.pc \in Settled => r.pc \in Settled, r.pc \in Settled => q.pc \in Settled,
         r.pc \in Parity
  PROVE  Sound(q, c, fs, d, l)
<1>1. Kept(q, c, fs)
  BY Zenon DEF Kept
<1>2. q.pc \notin Loop /\ q.pc \notin {"index", "index_write", "write", "rename", "recheck"}
  BY Zenon DEF Parity, Linking, Settled, Loop
<1>3. Place(q, c, fs)
  BY <1>2, Zenon DEF Place
<1>4. Holding(q, c, fs)
  BY <1>2, Zenon DEF Holding
<1> QED
  BY <1>1, <1>3, <1>4, Zenon DEF Sound

\* A symlink that cannot be fetched is an issue.
LEMMA LinksFailHolds ==
  ASSUME IInv, NEW c \in Clis, LinksFail(c)
  PROVE  IInv'
<1> DEFINE r == cli[c]
           q == [r EXCEPT !.pc = "files", !.issues = TRUE, !.stalled = FALSE]
<1>1. r.pc = "links" /\ Broken(r) /\ Move(c, q) /\ UNCHANGED <<diskVars, worldVars>>
  BY Zenon DEF LinksFail
<1>2. faults' \in {faults, faults + 1} /\ ~Well(c)
  BY <1>1, BrokenIs, Zenon
<1>3. r.pc \in Parity /\ r.pc \notin Settled /\ "files" \in Parity /\ "files" \notin Settled /\ "files" \notin Idle
  BY <1>1, Zenon DEF Parity, Linking, Settled, Idle, Ended
<1>4. Shape(r) /\ (Safe(c) => Kept(r, c, files) /\ Place(r, c, files) /\ r.stage = "files")
  BY <1>3, InParity, Zenon
<1>5. /\ DOMAIN q = Fields /\ q.pc = "files" /\ q.stage = r.stage /\ q.item = r.item /\ q.uri = r.uri
      /\ q.issues = TRUE /\ q.lost = r.lost /\ q.off = r.off /\ q.stalled = FALSE
  BY <1>4, Zenon DEF Shape, Fields
<1> HIDE DEF q
<1>6. Onward(q)
  <2>1. r.off = 0
    BY <1>1, Zenon DEF IInv, One, Fresh
  <2> QED
    BY <1>3, <1>4, <1>5, <2>1, Zenon DEF Onward, Shape, Fresh
<1>7. Safe(c) => Sound(q, c, files, dir, link)
  BY <1>3, <1>4, <1>5, ParityGoesOn, Zenon
<1> QED
  BY <1>1, <1>2, <1>6, <1>7, OnwardStep, Zenon

\* The files of the restoration are next, or there are none.
LEMMA FilesHolds ==
  ASSUME IInv, NEW c \in Clis, Files(c)
  PROVE  IInv'
<1> DEFINE r == cli[c]
           q == ToFiles(r)
<1>1. r.pc = "files" /\ Keep /\ Move(c, q)
  BY Zenon DEF Files
<1>2. (UNCHANGED <<diskVars, worldVars>>) /\ faults' \in {faults, faults + 1}
  BY <1>1, KeepIs, Zenon
<1>3. r.pc \in Parity /\ r.pc \notin Settled /\ r.pc \notin Linking
  BY <1>1, Zenon DEF Parity, Settled, Linking
<1>4. scenario \in Scenarios /\ Shape(r) /\ Working(r)
      /\ (Safe(c) => Kept(r, c, files) /\ r.stage = "files" /\ r.item = 1)
  BY <1>3, InParity, Zenon
<1>5. /\ DOMAIN q = Fields /\ q.pc = (IF scenario.files = <<>> THEN "finalize" ELSE "inspect")
      /\ q.stage = r.stage /\ q.item = r.item /\ q.uri = r.uri
      /\ q.issues = r.issues /\ q.lost = r.lost /\ q.off = 0 /\ q.stalled = r.stalled
  BY <1>4, Zenon DEF Shape, Fields, ToFiles
<1> HIDE DEF q
<1>6. Onward(q)
  BY <1>4, <1>5, Zenon DEF Onward, Shape, Fresh, Loop, Parity, Settled, Idle, Ended
<1>7. Kept(r, c, files) => Kept(q, c, files)
  BY <1>5, Zenon DEF Kept
<1>8. Holding(q, c, files)
  BY <1>5, Zenon DEF Holding
<1>9. Safe(c) => Place(q, c, files)
  <2>1. List("files") = scenario.files /\ scenario.files \in Seq({"Packages", "state"})
    BY <1>4, ScenarioAssumption, Lists, Zenon
  <2>2. CASE scenario.files = <<>>
    <3>1. 1 .. Len(List("files")) = {}
      BY <2>1, <2>2
    <3>2. Done("files", c, files)
      BY <3>1, Zenon DEF Done, DoneTo
    <3> QED
      BY <1>4, <1>5, <2>2, <3>2, Zenon DEF Place, Loop, Parity, Settled
  <2>3. CASE scenario.files # <<>>
    <3>1. 1 \in 1 .. Len(List("files")) /\ 1 .. (1 - 1) = {}
      BY <2>1, <2>3
    <3>2. DoneTo("files", 1 - 1, c, files)
      BY <3>1, Zenon DEF DoneTo
    <3> QED
      BY <1>4, <1>5, <2>3, <3>1, <3>2, Zenon DEF Place, Loop, Parity, Settled, Linking
  <2> QED
    BY <2>2, <2>3, Zenon
<1>10. Safe(c) => Sound(q, c, files, dir, link)
  BY <1>4, <1>5, <1>7, <1>8, <1>9, Zenon DEF Sound
<1>11. Well(c) => Good(q, c, files, dir, link)
  BY <1>1, <1>3, <1>4, <1>5, Zenon DEF Well, Good
<1> QED
  BY <1>1, <1>2, <1>6, <1>10, <1>11, OnwardStep, Zenon

\* The run that goes on to emerge has checked everything; when nothing went wrong
\* the check finds everything as it should be.
LEMMA CheckHolds ==
  ASSUME IInv, NEW c \in Clis, Check(c)
  PROVE  IInv'
<1> DEFINE r == cli[c]
           q == [r EXCEPT !.pc = "emerge"]
<1>1. r.pc = "check" /\ Keep
  BY Zenon DEF Check
<1>2. (UNCHANGED <<diskVars, worldVars>>) /\ faults' \in {faults, faults + 1}
  BY <1>1, KeepIs, Zenon
<1>3. r.pc \in Parity /\ r.pc \in Settled /\ r.pc \notin Linking
  BY <1>1, Zenon DEF Parity, Settled, Linking
<1>4. scenario \in Scenarios /\ Shape(r) /\ Working(r)
      /\ (Safe(c) => Kept(r, c, files) /\ Place(r, c, files) /\ r.stage = "files")
  BY <1>3, InParity, Zenon
<1>5. \A t, v : file_matches(t, v) <=> Ready("files", files[t], v)
  BY Zenon DEF file_matches, is_package_cached, Ready, Cached
<1>6. ParityHolds(c) <=> Restored(c, files, dir, link)
  BY <1>5, Zenon DEF ParityHolds, Restored, symlink_matches
<1>7. CASE ~r.issues /\ ParityHolds(c)
  <2>1. Move(c, q)
    BY <1>7, Zenon DEF Check
  <2>2. "emerge" \in Pcs /\ "emerge" \in Parity /\ "emerge" \in Settled /\ "emerge" \notin Idle
        /\ "emerge" \notin Loop /\ "emerge" \notin Linking
    BY Zenon DEF Pcs, Parity, Settled, Idle, Ended, Loop, Linking
  <2>3. q.pc = "emerge" /\ Same(q, r) /\ Shape(q)
    BY <1>4, <2>2, PcIs
  <2> HIDE DEF q
  <2>4. Onward(q)
    BY <1>1, <2>2, <2>3, Zenon DEF Onward, Fresh, Same, IInv, One
  <2>5. Kept(r, c, files) => Kept(q, c, files)
    BY <2>3, Zenon DEF Kept, Same
  <2>6. Place(r, c, files) => Place(q, c, files)
    BY <1>3, <2>2, <2>3, Zenon DEF Place, Same
  <2>7. Holding(q, c, files)
    BY <2>3, Zenon DEF Holding
  <2>8. Safe(c) => Sound(q, c, files, dir, link)
    BY <1>4, <1>6, <1>7, <2>3, <2>5, <2>6, <2>7, ZenonT(60) DEF Sound, Same
  <2>9. Well(c) => Good(q, c, files, dir, link)
    BY <1>1, <1>3, <1>4, <2>3, Zenon DEF Well, Good, Same
  <2> QED
    BY <1>2, <2>1, <2>4, <2>8, <2>9, OnwardStep, Zenon
<1>8. CASE r.issues \/ ~ParityHolds(c)
  <2>1. Move(c, End(r, "failed"))
    BY <1>8, Zenon DEF Check
  <2>2. ASSUME Well(c) PROVE FALSE
    <3>1. ~r.issues /\ Place(r, c, files) /\ r.stage = "files"
      BY <1>4, <2>2, Zenon DEF Well, Good
    <3>2. Done("files", c, files)
      BY <1>3, <3>1, Zenon DEF Place
    <3>3. \A t \in Range(scenario.files) : Ready("files", files[t], Want(c))
      <4>1. List("files") = scenario.files
        BY <1>4, Lists, Zenon
      <4>2. Range(scenario.files) = {scenario.files[i] : i \in 1 .. Len(scenario.files)}
        BY <1>4, Lists, Zenon
      <4> QED
        BY <3>2, <4>1, <4>2, Zenon DEF Done, DoneTo
    <3>4. ASSUME scenario.tree
          PROVE  dir = [is |-> "dir", stamped |-> TRUE] /\ link = [to |-> Want(c), stamped |-> TRUE]
      <4>1. /\ dir.is = "dir" /\ dir.stamped /\ link = [to |-> Want(c), stamped |-> TRUE]
            /\ dir \in [is : {Absent, "dir", "file"}, stamped : BOOLEAN]
        BY <1>1, <1>3, <1>4, <2>2, <3>1, <3>4, ZenonT(60) DEF Well, Good, IInv, World
      <4>2. dir.stamped = TRUE
        BY <4>1, Zenon
      <4>3. dir = [is |-> "dir", stamped |-> TRUE]
        BY <4>1, <4>2
      <4> QED
        BY <4>1, <4>3, Zenon
    <3>5. Restored(c, files, dir, link)
      BY <3>3, <3>4, Zenon DEF Restored
    <3> QED
      BY <1>6, <1>8, <3>1, <3>5, Zenon
  <2>3. "failed" \in Ended
    BY Zenon DEF Ended
  <2> QED
    BY <1>2, <2>1, <2>2, <2>3, EndStep, Zenon
<1> QED
  BY <1>7, <1>8, Zenon

-----------------------------------------------------------------------------
(* The steps that change files.                                            *)

\* A package under its final name is whole.
Backed(t, g) == t \in {"pkg1", "pkg2"} /\ g.final # NoNode => \E v \in Contents : Cached(g, v)

\* gs has g in the place of a file of fs.
With(fs, t, g, gs) == gs = [fs EXCEPT ![t] = g]

\* One file of the machine is replaced.
LEMMA Put ==
  ASSUME NEW fs, FilesOK(fs), NEW t \in Targets, NEW g, FileOK(g), Backed(t, g),
         NEW gs, With(fs, t, g, gs)
  PROVE  FilesOK(gs)
<1>1. DOMAIN gs = Targets /\ gs[t] = g /\ \A u \in Targets : u # t => gs[u] = fs[u]
  BY Zenon DEF FilesOK, With
<1>2. \A u \in {"pkg1", "pkg2"} : u \in Targets
  BY Zenon DEF Targets
<1>3. \A u \in Targets : FileOK(gs[u])
  BY <1>1, Zenon DEF FilesOK
<1>4. \A u \in {"pkg1", "pkg2"} : gs[u].final # NoNode => \E v \in Contents : Cached(gs[u], v)
  BY <1>1, <1>2, Zenon DEF FilesOK, Backed
<1> QED
  BY <1>1, <1>3, <1>4, Zenon DEF FilesOK

\* One whose final file is left alone.
LEMMA PutKeeps ==
  ASSUME NEW fs, FilesOK(fs), NEW t \in Targets, NEW g, FileOK(g), Keeps(fs[t], g),
         NEW gs, With(fs, t, g, gs)
  PROVE  FilesOK(gs) /\ \A c : Better(c, fs, gs)
<1>1. Backed(t, g)
  <2> SUFFICES ASSUME t \in {"pkg1", "pkg2"}, g.final # NoNode
               PROVE  \E v \in Contents : Cached(g, v)
    BY Zenon DEF Backed
  <2>1. fs[t].final # NoNode
    BY Zenon DEF Keeps
  <2>2. PICK v \in Contents : Cached(fs[t], v)
    BY <2>1, Zenon DEF FilesOK
  <2> QED
    BY <2>2, KeepsReady, Zenon
<1>0. FilesOK(gs)
  BY <1>1, Put, Zenon
<1>2. gs[t] = g /\ \A u \in Targets : u # t => gs[u] = fs[u]
  BY Zenon DEF FilesOK, With
<1>3. \A u \in Targets : Keeps(fs[u], gs[u])
  <2>1. \A f : Keeps(f, f)
    BY Zenon DEF Keeps
  <2> QED
    BY <1>2, <2>1, Zenon
<1>4. ASSUME NEW c PROVE Better(c, fs, gs)
  BY <1>3, BetterAll, Zenon
<1> QED
  BY <1>0, <1>4, Zenon

\* All files are tidied.
LEMMA AllTidied ==
  ASSUME NEW fs, FilesOK(fs), NEW gs, DOMAIN gs = Targets,
         \A t \in Targets : \E open : gs[t] = Tidy(fs[t], open)
  PROVE  FilesOK(gs) /\ Tidied(fs, gs)
<1>1. ASSUME NEW t \in Targets
      PROVE  /\ FileOK(gs[t]) /\ Keeps(fs[t], gs[t]) /\ gs[t].part = fs[t].part
             /\ fs[t].part # NoNode => gs[t].data[fs[t].part] = fs[t].data[fs[t].part]
  <2>1. FileOK(fs[t])
    BY Zenon DEF FilesOK
  <2>2. PICK open : gs[t] = Tidy(fs[t], open)
    BY Zenon
  <2> DEFINE g == gs[t]
             f == fs[t]
  <2>3. FileOK(f) /\ g = Tidy(f, open)
    BY <2>1, <2>2, Zenon
  <2> HIDE DEF f, g
  <2>4. /\ FileOK(g) /\ Keeps(f, g) /\ g.part = f.part
        /\ f.part # NoNode => g.data[f.part] = f.data[f.part]
    BY <2>3, TidyKeeps, ZenonT(60)
  <2> QED
    BY <2>4, Zenon DEF f, g
<1>2. \A t \in {"pkg1", "pkg2"} : t \in Targets
  BY Zenon DEF Targets
<1>3. ASSUME NEW t \in {"pkg1", "pkg2"}, gs[t].final # NoNode
      PROVE  \E v \in Contents : Cached(gs[t], v)
  <2>1. Keeps(fs[t], gs[t]) /\ fs[t].final # NoNode
    BY <1>1, <1>2, <1>3, Zenon DEF Keeps
  <2>2. PICK v \in Contents : Cached(fs[t], v)
    BY <2>1, Zenon DEF FilesOK
  <2> QED
    BY <2>1, <2>2, KeepsReady, Zenon
<1>4. Tidied(fs, gs)
  BY <1>1, Zenon DEF Tidied
<1>5. \A t \in Targets : FileOK(gs[t])
  BY <1>1, Zenon
<1> QED
  BY <1>3, <1>4, <1>5, Zenon DEF FilesOK

\* A run that works alone makes its files of free nodes.
LEMMA UnusedIs ==
  ASSUME NEW c \in Clis, Alone, Working(cli[c]), cli[c].pc \notin {"write", "index_write"}, NEW t, FileOK(files[t])
  PROVE  Unused(t) \in Nodes /\ Unused(t) # files[t].final /\ Unused(t) # files[t].part
<1>1. ASSUME NEW d \in Clis, cli[d].pc \in {"write", "index_write"} PROVE FALSE
  <2>1. Working(cli[d])
    BY <1>1, Zenon DEF Working, Ended
  <2> QED
    BY <1>1, <2>1, Zenon DEF Alone
<1>2. Open(t, cli) = {}
  BY <1>1, Zenon DEF Open
<1>3. files[t].final \in Nodes \cup {NoNode} /\ files[t].part \in Nodes \cup {NoNode}
  BY Zenon DEF FileOK
<1>4. Nodes \ ({files[t].final, files[t].part} \cup Open(t, cli)) = Nodes \ {files[t].final, files[t].part}
  BY <1>2, Zenon
<1>5. Unused(t) = Min(Nodes \ {files[t].final, files[t].part})
  BY <1>4, Zenon DEF Unused
<1> QED
  BY <1>3, <1>5, NodeFree, Zenon

\* What the mtime of the parity directory is changed to.
LEMMA Touched ==
  ASSUME World, NEW t, TouchDir(t)
  PROVE  dir' \in [is : {Absent, "dir", "file"}, stamped : BOOLEAN] /\ dir'.is = dir.is
<1>1. dir \in [is : {Absent, "dir", "file"}, stamped : BOOLEAN]
  BY Zenon DEF World
<1>2. [dir EXCEPT !.stamped = FALSE] \in [is : {Absent, "dir", "file"}, stamped : BOOLEAN]
      /\ [dir EXCEPT !.stamped = FALSE].is = dir.is
  BY <1>1, Zenon
<1> QED
  BY <1>1, <1>2, Zenon DEF TouchDir

\* A step of a run at work that leaves the symlink alone and keeps what the
\* directory is.
LEMMA WorkStep ==
  ASSUME IInv, NEW c \in Clis, NEW next, Move(c, next), Onward(next), Working(cli[c]), link' = link,
         dir' \in [is : {Absent, "dir", "file"}, stamped : BOOLEAN], dir'.is = dir.is,
         UNCHANGED worldVars, faults' \in {faults, faults + 1},
         Safe(c) /\ Alone => FilesOK(files') /\ Sound(next, c, files', dir', link),
         Well(c) /\ Alone => Good(next, c, files', dir', link)
  PROVE  IInv'
<1>1. Moved(c) /\ cli'[c] = next
  BY MoveIs, Zenon DEF IInv
<1>2. scenario' = scenario /\ served' = served /\ replaced' = replaced
  BY Zenon DEF worldVars
<1>3. Frame
  BY <1>2, Zenon DEF Frame, IInv, World
<1>4. ~shared' => FilesOK(files') /\ Sound(next, c, files', dir', link')
  BY <1>1, <1>3, Before, Zenon DEF Safe
<1>5. Calm' => Good(next, c, files', dir', link')
  BY <1>1, <1>3, Before, Zenon DEF Safe, Well
<1>6. Outcome(c)
  BY <1>1, <1>4, <1>5, Zenon DEF Outcome, Onward
<1> QED
  BY <1>1, <1>3, <1>6, StepHolds, Zenon

\* A run that goes to another point of the same item, in files that are better.
LEMMA SameItem ==
  ASSUME NEW r, NEW q, Shape(r), r.pc \in Loop, q.pc \in Loop, q.stage = r.stage, q.item = r.item,
         q.uri = r.uri, q.issues = r.issues, q.lost = r.lost, scenario \in Scenarios,
         NEW c, NEW fs, NEW gs, Better(c, fs, gs), Kept(r, c, fs), Place(r, c, fs)
  PROVE  Kept(q, c, gs) /\ Place(q, c, gs)
<1>1. Kept(r, c, gs) /\ Place(r, c, gs)
  BY PlaceFrame, Zenon
<1>2. Kept(q, c, gs)
  BY <1>1, Zenon DEF Kept
<1>3. q.pc \notin Parity /\ q.pc \notin {"index", "index_write"} /\ q.pc \notin Settled
  BY Zenon DEF Loop, Parity, Linking, Settled
<1>4. Place(q, c, gs)
  BY <1>1, <1>3, Zenon DEF Place
<1> QED
  BY <1>2, <1>4, Zenon

\* What a run without failures has in the file at hand.
Filled(r, c, fs) ==
    /\ r.pc = "write" => LET f == fs[Target(r)] IN
          r.content = Want(c) /\ f.data[f.part] = [i \in 1 .. r.off |-> Want(c)]
    /\ r.pc = "verify" => LET f == fs[Target(r)] IN f.part # NoNode /\ f.data[f.part] = Whole(Want(c))
    /\ r.pc = "recheck" => Ready(r.stage, fs[Target(r)], Want(c))

\* A run that goes to another point of the same item has no failures of its own.
LEMMA GoodItem ==
  ASSUME NEW r, NEW q, Working(r), r.pc \in Loop, q.pc \in Loop, q.stage = r.stage,
         q.uri = r.uri, q.issues = r.issues, q.stalled = r.stalled,
         NEW c, NEW fs, NEW gs, NEW d, NEW e, NEW l, e.is = d.is, Good(r, c, fs, d, l), Filled(q, c, gs)
  PROVE  Good(q, c, gs, e, l)
<1>1. r.pc # "dirs" /\ r.pc \notin Linking /\ q.pc # "failed" /\ q.pc # "check"
  BY Zenon DEF Linking, Loop
<1>2. /\ q.pc = "write" => LET f == gs[Target(q)] IN
            q.content = Want(c) /\ f.data[f.part] = [i \in 1 .. q.off |-> Want(c)]
      /\ q.pc = "verify" => LET f == gs[Target(q)] IN f.part # NoNode /\ f.data[f.part] = Whole(Want(c))
      /\ q.pc = "recheck" => Ready(q.stage, gs[Target(q)], Want(c))
  BY Zenon DEF Filled
<1>3. /\ ~r.issues /\ ~r.stalled /\ (r.uri = "remote" => Remote)
      /\ r.stage = "files" => d.is = "dir"
      /\ r.stage = "files" /\ scenario.tree => l = [to |-> Want(c), stamped |-> TRUE]
  BY <1>1, Zenon DEF Good
<1> QED
  BY <1>1, <1>2, <1>3, Zenon DEF Good

\* A download begins in an empty .part.
LEMMA FetchHolds ==
  ASSUME IInv, NEW c \in Clis, Fetch(c)
  PROVE  IInv'
<1> DEFINE r == cli[c]
           t == Target(r)
           f == Created(files[t], "part", Unused(t))
           q == [r EXCEPT !.pc = "write", !.node = f.part, !.content = Source(r, c)]
<1>1. /\ r.pc = "fetch" /\ files' = [files EXCEPT ![t] = f] /\ Move(c, q)
      /\ TouchDir(t) /\ link' = link /\ UNCHANGED worldVars /\ faults' = faults
  BY Zenon DEF Fetch
<1>2. r.pc \in Loop /\ "write" \in Loop /\ "write" \notin Idle
  BY <1>1, Zenon DEF Loop, Idle, Ended
<1>3. World /\ scenario \in Scenarios /\ Shape(r) /\ Working(r) /\ r.off = 0
  BY <1>1, <1>2, OnItem, Zenon DEF IInv, One, Fresh
<1>4. /\ DOMAIN q = Fields /\ q.pc = "write" /\ q.stage = r.stage /\ q.item = r.item /\ q.uri = r.uri
      /\ q.issues = r.issues /\ q.lost = r.lost /\ q.node = f.part /\ q.off = r.off
      /\ q.content = Source(r, c) /\ q.stalled = r.stalled
  BY <1>3, Zenon DEF Shape, Fields
<1>5. dir' \in [is : {Absent, "dir", "file"}, stamped : BOOLEAN] /\ dir'.is = dir.is
  BY <1>1, <1>3, Touched, Zenon
<1> HIDE DEF q, f
<1>6. Onward(q)
  BY <1>2, <1>3, <1>4, Zenon DEF Onward, Shape, Fresh
<1>7. Target(q) = t
  BY <1>1, <1>4, Zenon DEF Target
<1>8. ASSUME Safe(c), Alone
      PROVE  /\ FilesOK(files') /\ Sound(q, c, files', dir', link)
             /\ files'[t] = f /\ f.data[f.part] = <<>>
  <2>1. /\ Kept(r, c, files) /\ Place(r, c, files) /\ t \in Targets /\ FileOK(files[t])
        /\ FilesOK(files)
    BY <1>2, <1>8, OnItem, Zenon DEF Safe
  <2>2. r.pc \notin {"write", "index_write"}
    BY <1>1, Zenon
  <2>3. Unused(t) \in Nodes /\ Unused(t) # files[t].final /\ Unused(t) # files[t].part
    BY <1>3, <1>8, <2>1, <2>2, UnusedIs, Zenon
  <2>4. f = Created(files[t], "part", Unused(t))
    BY Zenon DEF f
  <2>5. FileOK(f) /\ Keeps(files[t], f) /\ f.part # NoNode /\ f.data[f.part] = <<>>
    BY <2>1, <2>3, <2>4, CreatedPart, Zenon
  <2>6. With(files, t, f, files')
    BY <1>1, Zenon DEF With
  <2>7. FilesOK(files') /\ Better(c, files, files')
    BY <2>1, <2>5, <2>6, PutKeeps, Zenon
  <2>8. files'[t] = f
    BY <1>1, <2>1, Zenon DEF FilesOK
  <2>9. Kept(q, c, files') /\ Place(q, c, files')
    BY <1>2, <1>3, <1>4, <2>1, <2>7, SameItem, ZenonT(60)
  <2>10. Holding(q, c, files')
    BY <1>4, <1>7, <2>5, <2>8, Zenon DEF Holding
  <2> QED
    BY <1>4, <2>5, <2>7, <2>8, <2>9, <2>10, Zenon DEF Sound
<1>9. ASSUME Well(c), Alone PROVE Good(q, c, files', dir', link)
  <2>1. Safe(c) /\ Good(r, c, files, dir, link) /\ t \in Targets
    BY <1>2, <1>9, OnItem, Zenon DEF Well
  <2>2. files'[t].data[files'[t].part] = <<>>
    BY <1>8, <1>9, <2>1, Zenon
  <2>3. [i \in 1 .. 0 |-> Want(c)] = <<>>
    BY WholeIs, Zenon
  <2>4. Source(r, c) = Want(c)
    BY <1>9, <2>1, Zenon DEF Well, Source
  <2>5. Filled(q, c, files')
    BY <1>3, <1>4, <1>7, <2>2, <2>3, <2>4, ZenonT(60) DEF Filled
  <2> QED
    BY <1>2, <1>3, <1>4, <1>5, <2>1, <2>5, GoodItem, ZenonT(60)
<1>10. Safe(c) /\ Alone => FilesOK(files') /\ Sound(q, c, files', dir', link)
  BY <1>8, Zenon
<1>11. faults' \in {faults, faults + 1}
  BY <1>1, Zenon
<1> QED
  BY <1>1, <1>3, <1>5, <1>6, <1>9, <1>10, <1>11, WorkStep, ZenonT(60)

\* A chunk arrives, at the end of .part if nobody else writes there; the last one
\* leaves .part complete.
LEMMA WriteHolds ==
  ASSUME IInv, NEW c \in Clis, Write(c)
  PROVE  IInv'
<1> DEFINE r == cli[c]
           t == Target(r)
           f == files[t]
           g == Chunk(f, r.node, r.off, r.content)
           h == Tidy(g, Open(t, cli'))
           q == IF r.off + 1 < Size THEN [r EXCEPT !.off = @ + 1]
                ELSE [r EXCEPT !.pc = "verify", !.node = NoNode, !.off = 0, !.content = Absent]
<1>1. /\ r.pc = "write" /\ files' = [files EXCEPT ![t] = h] /\ Move(c, q)
      /\ dir' = dir /\ link' = link /\ UNCHANGED worldVars /\ faults' = faults
  BY Zenon DEF Write
<1>2. r.pc \in Loop /\ {"write", "verify"} \subseteq Loop /\ {"write", "verify"} \cap Idle = {}
  BY <1>1, Zenon DEF Loop, Idle, Ended
<1>3. World /\ scenario \in Scenarios /\ Shape(r) /\ Working(r) /\ r.off \in {0, 1}
  BY <1>2, OnItem, Zenon DEF IInv, Shape
<1>4. /\ DOMAIN q = Fields /\ q.stage = r.stage /\ q.item = r.item /\ q.uri = r.uri
      /\ q.issues = r.issues /\ q.lost = r.lost /\ q.stalled = r.stalled
  BY <1>3, Zenon DEF Shape, Fields
<1>5. \/ /\ r.off = 0 /\ q.pc = "write" /\ q.off = r.off + 1 /\ q.off = 1
         /\ q.node = r.node /\ q.content = r.content
      \/ r.off = 1 /\ q.pc = "verify" /\ q.off = 0
  <2>1. CASE r.off = 0
    <3>1. r.off + 1 < Size /\ 0 + 1 = 1
      BY <2>1, SMT DEF Size
    <3>2. q = [r EXCEPT !.off = @ + 1]
      BY <3>1, Zenon
    <3>3. {"off", "pc", "node", "content"} \subseteq DOMAIN r
      BY <1>3, Zenon DEF Shape, Fields
    <3> QED
      BY <1>1, <2>1, <3>1, <3>2, <3>3, Zenon
  <2>2. CASE r.off = 1
    <3>1. ~(r.off + 1 < Size)
      BY <2>2, SMT DEF Size
    <3>2. q = [r EXCEPT !.pc = "verify", !.node = NoNode, !.off = 0, !.content = Absent]
      BY <3>1, Zenon
    <3>3. {"off", "pc", "node", "content"} \subseteq DOMAIN r
      BY <1>3, Zenon DEF Shape, Fields
    <3> QED
      BY <2>2, <3>2, <3>3, Zenon
  <2> QED
    BY <1>3, <2>1, <2>2, Zenon
<1> HIDE DEF q, g, h
<1>6. q.pc \in {"write", "verify"} /\ q.pc \in Loop /\ q.pc \notin Idle /\ q.off \in {0, 1}
  BY <1>2, <1>5, Zenon
<1>7. Shape(q) /\ Fresh(q)
  BY <1>3, <1>4, <1>5, <1>6, Zenon DEF Shape, Fresh
<1>8. Onward(q)
  BY <1>6, <1>7, Zenon DEF Onward
<1>9. Target(q) = t
  BY <1>1, <1>4, <1>6, Zenon DEF Target
<1>10. ASSUME Safe(c)
       PROVE  /\ FilesOK(files') /\ Sound(q, c, files', dir', link)
              /\ files'[t] = h /\ h.part # NoNode /\ h.data[h.part] = Written(f.data[f.part], r.off, r.content)
  <2>1. /\ Kept(r, c, files) /\ Place(r, c, files) /\ t \in Targets /\ FileOK(f) /\ FilesOK(files)
        /\ r.node # NoNode /\ r.node = f.part
    BY <1>1, <1>2, <1>10, OnItem, Zenon DEF Safe, Holding
  <2>2. FileOK(f) /\ r.node \in Nodes /\ r.node \in {f.final, f.part} /\ r.node # f.final
    BY <2>1, Zenon DEF FileOK
  <2>3. Stored(f, r.node, r.off, r.content, Open(t, cli'), h)
    BY Zenon DEF g, h, Stored
  <2>4. /\ FileOK(h) /\ h.part = f.part /\ Keeps(f, h)
        /\ h.data[r.node] = Written(f.data[r.node], r.off, r.content)
    <3>1. Extended(f, r.node, r.off, r.content, h)
      BY <2>2, <2>3, StoredIs, Zenon
    <3> QED
      BY <2>2, <3>1, Zenon DEF Extended
  <2>5. With(files, t, h, files')
    BY <1>1, Zenon DEF With
  <2>6. FilesOK(files') /\ Better(c, files, files')
    BY <2>1, <2>4, <2>5, PutKeeps, Zenon
  <2>7. files'[t] = h
    BY <1>1, <2>1, Zenon DEF FilesOK
  <2>8. Kept(q, c, files') /\ Place(q, c, files')
    BY <1>2, <1>3, <1>4, <1>6, <2>1, <2>6, SameItem, ZenonT(60)
  <2>9. h.part = r.node
    BY <2>1, <2>4, Zenon
  <2>10. h.data[h.part] = Written(f.data[f.part], r.off, r.content)
    BY <2>1, <2>4, Zenon
  <2>11. Holding(q, c, files')
    BY <1>5, <1>9, <2>1, <2>7, <2>9, Zenon DEF Holding
  <2>12. q.pc # "emerge"
    BY <1>6, Zenon
  <2>13. Sound(q, c, files', dir', link)
    BY <2>8, <2>11, <2>12, Zenon DEF Sound
  <2> QED
    BY <2>1, <2>6, <2>7, <2>9, <2>10, <2>13, ZenonT(60)
<1>11. ASSUME Well(c) PROVE Good(q, c, files', dir', link)
  <2>1. Safe(c) /\ Good(r, c, files, dir, link)
    BY <1>11, Zenon DEF Well
  <2>2. /\ files'[t].part # NoNode
        /\ files'[t].data[files'[t].part] = Written(f.data[f.part], r.off, r.content)
    BY <1>10, <2>1, Zenon
  <2>3. r.content = Want(c) /\ f.data[f.part] = [i \in 1 .. r.off |-> Want(c)]
    BY <1>1, <2>1, Zenon DEF Good
  <2>4. Written([i \in 1 .. r.off |-> Want(c)], r.off, Want(c)) = [i \in 1 .. r.off + 1 |-> Want(c)]
    BY <1>3, WrittenNext, Zenon
  <2>5. files'[t].data[files'[t].part] = [i \in 1 .. r.off + 1 |-> Want(c)]
    BY <2>2, <2>3, <2>4, Zenon
  <2>6. [i \in 1 .. 1 + 1 |-> Want(c)] = Whole(Want(c))
    BY WholeIs, Zenon
  <2>7. Filled(q, c, files')
    BY <1>5, <1>9, <2>2, <2>3, <2>5, <2>6, ZenonT(60) DEF Filled
  <2>8. dir'.is = dir.is
    BY <1>1, Zenon
  <2> QED
    BY <1>2, <1>3, <1>4, <1>6, <2>1, <2>7, <2>8, GoodItem, ZenonT(60)
<1>12. Safe(c) /\ Alone => FilesOK(files') /\ Sound(q, c, files', dir', link)
  BY <1>10, Zenon
<1>13. /\ faults' \in {faults, faults + 1} /\ dir' \in [is : {Absent, "dir", "file"}, stamped : BOOLEAN]
       /\ dir'.is = dir.is
  BY <1>1, <1>3, Zenon DEF World
<1> QED
  BY <1>1, <1>3, <1>8, <1>11, <1>12, <1>13, WorkStep, ZenonT(60)

\* A transfer that breaks leaves the files and their readiness as they were.
LEMMA TransferFailsHolds ==
  ASSUME IInv, NEW c \in Clis, TransferFails(c)
  PROVE  IInv'
<1> DEFINE r == cli[c]
           t == Target(r)
           h == Tidy(files[t], Open(t, cli'))
           m == [r EXCEPT !.stalled = FALSE]
           q == ItemFailed(m)
<1>1. /\ r.pc \in {"fetch", "write"} /\ files' = [files EXCEPT ![t] = h] /\ Move(c, q) /\ Broken(r)
      /\ dir' = dir /\ link' = link /\ UNCHANGED worldVars
  BY Zenon DEF TransferFails
<1>2. r.pc \in Loop
  BY <1>1, Zenon DEF Loop
<1>3. World /\ scenario \in Scenarios /\ Shape(r) /\ Working(r)
  BY <1>2, OnItem, Zenon DEF IInv
<1>4. /\ DOMAIN m = Fields /\ m.pc = r.pc /\ m.stage = r.stage /\ m.item = r.item /\ m.off = r.off
      /\ m.issues = r.issues /\ m.stalled = FALSE /\ m.uri = r.uri /\ m.lost = r.lost
  BY <1>3, Zenon DEF Shape, Fields
<1> HIDE DEF h, m
<1>5. Shape(m)
  BY <1>3, <1>4, Zenon DEF Shape
<1>6. Onward(q)
  BY <1>5, ItemFailedShape, Zenon
<1>7. ASSUME Safe(c) PROVE FilesOK(files') /\ Sound(q, c, files', dir', link)
  <2>1. /\ Kept(r, c, files) /\ Place(r, c, files) /\ t \in Targets /\ FileOK(files[t]) /\ FilesOK(files)
        /\ r.item \in 1 .. Len(List(r.stage))
    BY <1>2, <1>7, OnItem, Zenon DEF Safe
  <2>2. h = Tidy(files[t], Open(t, cli'))
    BY Zenon DEF h
  <2>3. FileOK(h) /\ Keeps(files[t], h)
    BY <2>1, <2>2, TidyKeeps, Zenon
  <2>4. With(files, t, h, files')
    BY <1>1, Zenon DEF With
  <2>5. FilesOK(files') /\ Better(c, files, files')
    BY <2>1, <2>3, <2>4, PutKeeps, Zenon
  <2>6. Kept(r, c, files')
    BY <1>3, <2>1, <2>5, PlaceFrame, Zenon
  <2>7. Kept(m, c, files')
    BY <1>4, <2>6, Zenon DEF Kept
  <2> QED
    BY <1>3, <1>4, <1>5, <2>1, <2>5, <2>7, ItemFailedOutcome, Zenon
<1>8. ~Well(c) /\ faults' \in {faults, faults + 1}
  BY <1>1, BrokenIs, Zenon
<1>9. dir' \in [is : {Absent, "dir", "file"}, stamped : BOOLEAN] /\ dir'.is = dir.is
  BY <1>1, <1>3, Zenon DEF World
<1> HIDE DEF q
<1> QED
  BY <1>1, <1>3, <1>6, <1>7, <1>8, <1>9, WorkStep, Zenon

\* A file that is ready stays ready when nodes without a name go.
LEMMA TidyReady ==
  ASSUME NEW g, FileOK(g), NEW stage, NEW v, Ready(stage, g, v), NEW open, NEW h, h = Tidy(g, open)
  PROVE  FileOK(h) /\ Ready(stage, h, v)
<1>1. FileOK(h) /\ Keeps(g, h)
  BY TidyKeeps, Zenon
<1> QED
  BY <1>1, KeepsReady, Zenon

\* .part takes the final name: what is there afterwards is what .part held, with
\* its mtime unless it is a package.
LEMMA RenamedReady ==
  ASSUME NEW f, FileOK(f), f.part # NoNode, NEW v, f.data[f.part] = Whole(v), NEW stage,
         NEW g, g = [f EXCEPT !.final = f.part, !.part = NoNode,
                              !.stamped = IF stage = "sync" THEN @ ELSE @ \cup {f.part}]
  PROVE  FileOK(g) /\ Ready(stage, g, v)
<1>1. DOMAIN f = {"final", "part", "data", "stamped"} /\ DOMAIN f.data = Nodes /\ f.part \in Nodes
  BY Zenon DEF FileOK
<1>2. /\ DOMAIN g = {"final", "part", "data", "stamped"} /\ g.final = f.part /\ g.part = NoNode
      /\ g.data = f.data /\ (stage # "sync" => f.part \in g.stamped)
  BY <1>1, Zenon
<1>3. FileOK(g)
  BY <1>1, <1>2, Zenon DEF FileOK
<1>4. Cached(g, v) /\ (stage # "sync" => g.final \in g.stamped)
  BY <1>2, Zenon DEF Cached
<1> QED
  BY <1>3, <1>4, Zenon DEF Ready

\* A file that became ready leaves the others as good as they were.
LEMMA PutReady ==
  ASSUME NEW fs, FilesOK(fs), NEW t \in Targets, NEW h, FileOK(h), NEW c \in Clis, scenario \in Scenarios,
         NEW stage \in Stages, Ready(stage, h, Want(c)), stage = "sync" => t \in {"pkg1", "pkg2"},
         NEW gs, With(fs, t, h, gs)
  PROVE  FilesOK(gs) /\ Better(c, fs, gs)
<1>1. Want(c) \in Contents
  BY Wanted, Zenon
<1>2. Backed(t, h)
  BY <1>1, Zenon DEF Backed, Ready
<1>3. FilesOK(gs)
  BY <1>2, Put, Zenon
<1>4. gs[t] = h /\ \A u \in Targets : u # t => gs[u] = fs[u]
  BY Zenon DEF With, FilesOK
<1>5. ASSUME NEW u \in Targets
      PROVE  \/ Keeps(fs[u], gs[u])
             \/ Cached(gs[u], Want(c)) /\ (u \in Restorable => gs[u].final \in gs[u].stamped)
  <2>1. CASE u = t
    <3>1. stage = "sync" => u \notin Restorable
      BY <2>1, Zenon DEF Restorable
    <3> QED
      BY <1>4, <2>1, <3>1, Zenon DEF Ready
  <2>2. CASE u # t
    BY <1>4, <2>2, Zenon DEF Keeps
  <2> QED
    BY <2>1, <2>2, Zenon
<1>6. Better(c, fs, gs)
  BY <1>5, BetterAll, Zenon
<1> QED
  BY <1>3, <1>6, Zenon

\* .part takes the final name: a package is finished, another file is checked again.
LEMMA RenameHolds ==
  ASSUME IInv, NEW c \in Clis, Rename(c)
  PROVE  IInv'
<1> DEFINE r == cli[c]
           t == Target(r)
           f == files[t]
           g == [f EXCEPT !.final = f.part, !.part = NoNode,
                          !.stamped = IF r.stage = "sync" THEN @ ELSE @ \cup {f.part}]
           h == Tidy(g, Open(t, cli))
           m == [r EXCEPT !.pc = "recheck"]
           q == IF f.part = NoNode THEN ItemFailed(r) ELSE IF r.stage = "sync" THEN AfterItem(r) ELSE m
<1>1. /\ r.pc = "rename" /\ Move(c, q)
      /\ f.part # NoNode => files' = [files EXCEPT ![t] = h]
      /\ TouchDir(t) /\ link' = link /\ UNCHANGED worldVars /\ faults' = faults
  BY Zenon DEF Rename
<1>2. r.pc \in Loop /\ "recheck" \in Loop /\ "recheck" \notin Idle /\ "recheck" \in Pcs
  BY <1>1, Zenon DEF Loop, Idle, Ended, Pcs
<1>3. World /\ scenario \in Scenarios /\ Shape(r) /\ Working(r) /\ r.off = 0 /\ r.stage \in Stages
  BY <1>1, <1>2, OnItem, ZenonT(60) DEF IInv, One, Fresh
<1>4. dir' \in [is : {Absent, "dir", "file"}, stamped : BOOLEAN] /\ dir'.is = dir.is
  BY <1>1, <1>3, Touched, Zenon
<1>5. m.pc = "recheck" /\ Same(m, r) /\ Shape(m)
  BY <1>2, <1>3, PcIs
<1> HIDE DEF m, g, h
<1>6. Onward(m)
  BY <1>2, <1>3, <1>5, Zenon DEF Onward, Fresh, Same
<1>7. Onward(q)
  BY <1>3, <1>6, ItemFailedShape, AfterItemShape, ZenonT(60)
<1>8. ASSUME Safe(c)
      PROVE  /\ FilesOK(files') /\ Better(c, files, files') /\ Kept(r, c, files) /\ Place(r, c, files)
             /\ Ready(r.stage, files'[t], Want(c)) /\ f.part # NoNode
  <2>1. /\ Kept(r, c, files) /\ Place(r, c, files) /\ t \in Targets /\ FileOK(f) /\ FilesOK(files)
        /\ f.part # NoNode /\ f.data[f.part] = Whole(Want(c)) /\ r.item \in 1 .. Len(List(r.stage))
    BY <1>1, <1>2, <1>8, OnItem, ZenonT(60) DEF Safe, Holding
  <2>2. FileOK(g) /\ Ready(r.stage, g, Want(c))
    <3>1. g = [f EXCEPT !.final = f.part, !.part = NoNode,
                        !.stamped = IF r.stage = "sync" THEN @ ELSE @ \cup {f.part}]
      BY Zenon DEF g
    <3> QED
      BY <2>1, <3>1, RenamedReady, ZenonT(60)
  <2>3. FileOK(h) /\ Ready(r.stage, h, Want(c))
    <3>1. h = Tidy(g, Open(t, cli))
      BY Zenon DEF h
    <3> QED
      BY <2>2, <3>1, TidyReady, Zenon
  <2>4. With(files, t, h, files')
    BY <1>1, <2>1, Zenon DEF With
  <2>5. r.stage = "sync" => t \in {"pkg1", "pkg2"}
    BY <1>2, <1>3, <2>1, TargetIs, ZenonT(60)
  <2>6. FilesOK(files') /\ Better(c, files, files')
    BY <1>3, <2>1, <2>3, <2>4, <2>5, PutReady, ZenonT(60)
  <2>7. files'[t] = h
    BY <1>1, <2>1, Zenon DEF FilesOK
  <2> QED
    BY <2>1, <2>3, <2>6, <2>7, ZenonT(60)
<1>9. Target(m) = t
  BY <1>1, <1>5, Zenon DEF Target, Same
<1>10. ASSUME Safe(c) PROVE FilesOK(files') /\ Sound(q, c, files', dir', link)
  <2>1. FilesOK(files') /\ Better(c, files, files') /\ Kept(r, c, files) /\ Place(r, c, files)
    BY <1>8, <1>10, Zenon
  <2>2. Ready(r.stage, files'[t], Want(c)) /\ f.part # NoNode
    BY <1>8, <1>10, Zenon
  <2>3. CASE r.stage = "sync"
    <3>1. Kept(r, c, files') /\ Place(r, c, files')
      BY <1>3, <2>1, PlaceFrame, ZenonT(60)
    <3>2. Sound(AfterItem(r), c, files', dir', link)
      BY <1>2, <1>3, <2>2, <3>1, ItemFinished, ZenonT(60)
    <3> QED
      BY <2>1, <2>2, <2>3, <3>2, Zenon
  <2>4. CASE r.stage # "sync"
    <3>1. Kept(m, c, files') /\ Place(m, c, files')
      BY <1>2, <1>3, <1>5, <2>1, SameItem, ZenonT(60) DEF Same
    <3>2. Holding(m, c, files')
      BY <1>5, <2>4, Zenon DEF Holding, Same
    <3>3. Sound(m, c, files', dir', link)
      BY <1>5, <3>1, <3>2, Zenon DEF Sound
    <3> QED
      BY <2>1, <2>2, <2>4, <3>3, ZenonT(60)
  <2> QED
    BY <2>3, <2>4, Zenon
<1>11. ASSUME Well(c) PROVE Good(q, c, files', dir', link)
  <2>1. Safe(c) /\ Good(r, c, files, dir, link)
    BY <1>11, Zenon DEF Well
  <2>2. Better(c, files, files') /\ Kept(r, c, files) /\ Place(r, c, files)
    BY <1>8, <2>1, Zenon
  <2>3. Ready(r.stage, files'[t], Want(c)) /\ f.part # NoNode
    BY <1>8, <2>1, Zenon
  <2>4. CASE r.stage = "sync"
    <3>1. Kept(r, c, files') /\ Place(r, c, files')
      BY <1>3, <2>2, PlaceFrame, Zenon
    <3>2. Filled(r, c, files')
      BY <1>1, Zenon DEF Filled
    <3>3. Good(r, c, files', dir', link)
      BY <1>2, <1>3, <1>4, <2>1, <3>2, GoodItem, ZenonT(60)
    <3>4. Good(AfterItem(r), c, files', dir', link)
      BY <1>2, <1>3, <2>3, <3>1, <3>3, ItemFinished, ZenonT(60)
    <3> QED
      BY <2>3, <2>4, <3>4, Zenon
  <2>5. CASE r.stage # "sync"
    <3>1. Filled(m, c, files')
      BY <1>5, <1>9, <2>3, Zenon DEF Filled, Same
    <3>2. Good(m, c, files', dir', link)
      BY <1>2, <1>3, <1>4, <1>5, <2>1, <3>1, GoodItem, ZenonT(60) DEF Same
    <3> QED
      BY <2>3, <2>5, <3>2, Zenon
  <2> QED
    BY <2>4, <2>5, Zenon
<1>12. faults' \in {faults, faults + 1}
  BY <1>1, Zenon
<1> HIDE DEF q
<1> QED
  BY <1>1, <1>3, <1>4, <1>7, <1>10, <1>11, <1>12, WorkStep, ZenonT(60)

\* The index is put over the one that is there: the packages stay as they are.
LEMMA PutIndex ==
  ASSUME NEW fs, FilesOK(fs), NEW h, FileOK(h), NEW gs, With(fs, "Packages", h, gs),
         NEW c, scenario \in Scenarios, Done("sync", c, fs)
  PROVE  FilesOK(gs) /\ gs["Packages"] = h /\ Done("sync", c, gs)
<1>1. "Packages" \in Targets /\ Backed("Packages", h)
  BY Zenon DEF Targets, Backed
<1>2. FilesOK(gs)
  BY <1>1, Put, Zenon
<1>3. gs["Packages"] = h /\ \A t \in {"pkg1", "pkg2"} : gs[t] = fs[t]
  BY <1>1, Zenon DEF With, FilesOK, Targets
<1>4. ASSUME NEW i \in 1 .. Len(List("sync")) PROVE Ready("sync", gs[List("sync")[i]], Want(c))
  <2>1. List("sync")[i] \in {"pkg1", "pkg2"}
    BY Lists, SMT
  <2>2. Ready("sync", fs[List("sync")[i]], Want(c))
    BY Zenon DEF Done, DoneTo
  <2> QED
    BY <1>3, <2>1, <2>2, Zenon
<1>5. Done("sync", c, gs)
  BY <1>4, Zenon DEF Done, DoneTo
<1> QED
  BY <1>2, <1>3, <1>5, Zenon

\* A run at the index has its packages.
LEMMA AtIndex ==
  ASSUME IInv, NEW c \in Clis, cli[c].pc \in {"index", "index_write"}
  PROVE  /\ World /\ scenario \in Scenarios /\ Shape(cli[c]) /\ Fresh(cli[c]) /\ Working(cli[c])
         /\ "Packages" \in Targets
         /\ Safe(c) => /\ Kept(cli[c], c, files) /\ Place(cli[c], c, files) /\ Holding(cli[c], c, files)
                       /\ cli[c].stage = "sync" /\ Done("sync", c, files)
                       /\ FilesOK(files) /\ FileOK(files["Packages"])
<1>1. World /\ scenario \in Scenarios /\ Shape(cli[c]) /\ Fresh(cli[c]) /\ "Packages" \in Targets
  BY Zenon DEF IInv, One, World, Targets
<1>2. Working(cli[c])
  BY Zenon DEF Working, Ended
<1>3. ASSUME Safe(c)
      PROVE  /\ Kept(cli[c], c, files) /\ Place(cli[c], c, files) /\ Holding(cli[c], c, files)
             /\ FilesOK(files) /\ FileOK(files["Packages"])
  BY <1>1, <1>2, <1>3, Zenon DEF Safe, Sound, FilesOK
<1>4. ASSUME Safe(c) PROVE cli[c].stage = "sync" /\ Done("sync", c, files)
  BY <1>3, <1>4, Zenon DEF Place
<1> QED
  BY <1>1, <1>2, <1>3, <1>4, ZenonT(60)

\* A run at the index that has no failures of its own.
LEMMA GoodAtIndex ==
  ASSUME NEW r, NEW q, q.pc = "index_write", r.stage = "sync", q.stage = r.stage,
         q.uri = r.uri, q.issues = r.issues, q.stalled = r.stalled,
         NEW c, NEW fs, NEW gs, NEW d, NEW l, Good(r, c, fs, d, l)
  PROVE  Good(q, c, gs, d, l)
BY Zenon DEF Good

\* The index file is emptied before it is downloaded.
LEMMA IndexHolds ==
  ASSUME IInv, NEW c \in Clis, Index(c)
  PROVE  IInv'
<1> DEFINE r == cli[c]
           f == Created(files["Packages"], "final", Unused("Packages"))
           q == [r EXCEPT !.pc = "index_write", !.node = f.final]
<1>1. /\ r.pc = "index" /\ files' = [files EXCEPT !["Packages"] = f] /\ Move(c, q)
      /\ dir' = dir /\ link' = link /\ UNCHANGED worldVars /\ faults' = faults
  BY Zenon DEF Index
<1>2. /\ World /\ scenario \in Scenarios /\ Shape(r) /\ Fresh(r) /\ Working(r)
      /\ r.off = 0 /\ "Packages" \in Targets
  BY <1>1, AtIndex, Zenon DEF Fresh
<1>3. /\ DOMAIN q = Fields /\ q.pc = "index_write" /\ q.stage = r.stage /\ q.item = r.item /\ q.uri = r.uri
      /\ q.issues = r.issues /\ q.lost = r.lost /\ q.node = f.final /\ q.off = r.off /\ q.stalled = r.stalled
  BY <1>2, Zenon DEF Shape, Fields
<1> HIDE DEF q, f
<1>4. "index_write" \notin Idle /\ "index_write" \notin Loop /\ "index_write" \notin Parity
  BY Zenon DEF Idle, Ended, Loop, Parity, Linking, Settled
<1>5. Onward(q)
  BY <1>2, <1>3, <1>4, Zenon DEF Onward, Shape, Fresh
<1>6. ASSUME Safe(c), Alone PROVE FilesOK(files') /\ Sound(q, c, files', dir', link)
  <2>1. /\ Kept(r, c, files) /\ r.stage = "sync" /\ Done("sync", c, files)
        /\ FilesOK(files) /\ FileOK(files["Packages"])
    BY <1>1, <1>6, AtIndex, Zenon
  <2>2. /\ Unused("Packages") \in Nodes /\ Unused("Packages") # files["Packages"].final
        /\ Unused("Packages") # files["Packages"].part
    <3>1. r.pc \notin {"write", "index_write"}
      BY <1>1, Zenon
    <3> QED
      BY <1>2, <1>6, <2>1, <3>1, UnusedIs, Zenon
  <2>3. f = Created(files["Packages"], "final", Unused("Packages"))
    BY Zenon DEF f
  <2>4. FileOK(f) /\ f.final # NoNode /\ f.data[f.final] = <<>>
    BY <2>1, <2>2, <2>3, CreatedFinal, Zenon
  <2>5. With(files, "Packages", f, files')
    BY <1>1, Zenon DEF With
  <2>6. FilesOK(files') /\ files'["Packages"] = f /\ Done("sync", c, files')
    BY <1>2, <2>1, <2>4, <2>5, PutIndex, SMTT(40)
  <2>7. f.data[f.final] = [i \in 1 .. q.off |-> Listing]
    <3>1. [i \in 1 .. 0 |-> Listing] = <<>>
      BY WholeIs, Zenon
    <3> QED
      BY <1>2, <1>3, <2>4, <3>1, Zenon
  <2>8. Kept(q, c, files')
    BY <1>3, <2>1, Zenon DEF Kept
  <2>9. Place(q, c, files')
    BY <1>3, <1>4, <2>1, <2>6, Zenon DEF Place, Parity
  <2>10. Holding(q, c, files')
    BY <1>3, <2>4, <2>6, <2>7, Zenon DEF Holding
  <2> QED
    BY <1>3, <2>6, <2>8, <2>9, <2>10, Zenon DEF Sound
<1>7. ASSUME Well(c) PROVE Good(q, c, files', dir', link)
  <2>1. Good(r, c, files, dir, link) /\ r.stage = "sync"
    BY <1>1, <1>7, AtIndex, Zenon DEF Well
  <2>2. Good(q, c, files', dir, link)
    BY <1>3, <2>1, GoodAtIndex, Zenon
  <2> QED
    BY <1>1, <2>2, Zenon
<1>8. /\ faults' \in {faults, faults + 1} /\ dir' \in [is : {Absent, "dir", "file"}, stamped : BOOLEAN]
      /\ dir'.is = dir.is
  BY <1>1, <1>2, Zenon DEF World
<1> QED
  BY <1>1, <1>2, <1>5, <1>6, <1>7, <1>8, WorkStep, ZenonT(60)

\* A copy in a relative PKGDIR cannot be used.
LEMMA UriIs ==
  ASSUME scenario \in Scenarios
  PROVE  file_binhost_uri = "remote" => Remote
<1>1. scenario.pkgdir \in {"absolute", "relative"}
  BY ScenarioAssumption, Zenon
<1> QED
  BY <1>1, Zenon DEF file_binhost_uri, Remote

\* A chunk of the index arrives; after the last one the index is whole and the
\* run goes on to the distfiles with the binhost of file_binhost_uri.
LEMMA IndexWriteHolds ==
  ASSUME IInv, NEW c \in Clis, IndexWrite(c)
  PROVE  IInv'
<1> DEFINE r == cli[c]
           f == files["Packages"]
           g == Chunk(f, r.node, r.off, Listing)
           h == Tidy(g, Open("Packages", cli'))
           m == [r EXCEPT !.off = @ + 1]
           q == IF r.off + 1 < Size THEN m ELSE ToDistfiles(r, file_binhost_uri)
<1>1. /\ r.pc = "index_write" /\ files' = [files EXCEPT !["Packages"] = h] /\ Move(c, q)
      /\ dir' = dir /\ link' = link /\ UNCHANGED worldVars /\ faults' = faults
  BY Zenon DEF IndexWrite
<1>2. /\ World /\ scenario \in Scenarios /\ Shape(r) /\ Fresh(r) /\ Working(r) /\ r.off \in {0, 1}
      /\ "Packages" \in Targets
  BY <1>1, AtIndex, Zenon DEF Shape
<1>3. /\ DOMAIN m = Fields /\ m.pc = "index_write" /\ m.stage = r.stage /\ m.item = r.item /\ m.uri = r.uri
      /\ m.issues = r.issues /\ m.lost = r.lost /\ m.node = r.node /\ m.off = r.off + 1 /\ m.stalled = r.stalled
  BY <1>1, <1>2, Zenon DEF Shape, Fields
<1>4. (r.off = 0 /\ q = m /\ r.off + 1 = 1) \/ (r.off = 1 /\ q = ToDistfiles(r, file_binhost_uri) /\ r.off + 1 = 1 + 1)
  <2>1. CASE r.off = 0
    <3>1. r.off + 1 < Size /\ r.off + 1 = 1
      BY <2>1, SMT DEF Size
    <3> QED
      BY <2>1, <3>1, Zenon
  <2>2. CASE r.off = 1
    <3>1. ~(r.off + 1 < Size)
      BY <2>2, SMT DEF Size
    <3> QED
      BY <2>2, <3>1, ZenonT(60)
  <2> QED
    BY <1>2, <2>1, <2>2, Zenon
<1> HIDE DEF q, m, g, h
<1>5. "index_write" \notin Idle /\ "index_write" \notin Loop /\ "index_write" \notin Parity
  BY Zenon DEF Idle, Ended, Loop, Parity, Linking, Settled
<1>6. Onward(q)
  <2>1. ASSUME r.off = 0 PROVE Onward(m)
    <3>1. m.off \in {0, 1}
      BY <1>3, <2>1, SMT
    <3>2. Shape(m)
      BY <1>2, <1>3, <3>1, Zenon DEF Shape
    <3> QED
      BY <1>3, <1>5, <3>2, ZenonT(60) DEF Onward, Fresh
  <2> QED
    BY <1>4, <2>1, ToDistfilesShape, Zenon
<1>7. ASSUME Safe(c)
      PROVE  /\ Kept(r, c, files) /\ r.stage = "sync" /\ FilesOK(files') /\ Done("sync", c, files')
             /\ r.node = files'["Packages"].final /\ r.node # NoNode
             /\ files'["Packages"].data[files'["Packages"].final] = [i \in 1 .. r.off + 1 |-> Listing]
  <2>1. /\ Kept(r, c, files) /\ r.stage = "sync" /\ Done("sync", c, files)
        /\ FilesOK(files) /\ FileOK(f) /\ r.node # NoNode /\ r.node = f.final
    BY <1>1, <1>7, AtIndex, Zenon DEF Holding
  <2>2. f.data[f.final] = [i \in 1 .. r.off |-> Listing]
    BY <1>1, <1>7, AtIndex, Zenon DEF Holding
  <2>3. FileOK(f) /\ r.node \in Nodes /\ r.node \in {f.final, f.part}
    BY <2>1, Zenon DEF FileOK
  <2>4. Stored(f, r.node, r.off, Listing, Open("Packages", cli'), h)
    BY Zenon DEF g, h, Stored
  <2>5. /\ FileOK(h) /\ h.final = f.final
        /\ h.data[r.node] = Written(f.data[r.node], r.off, Listing)
    <3>1. Extended(f, r.node, r.off, Listing, h)
      BY <2>3, <2>4, StoredIs, Zenon
    <3> QED
      BY <3>1, Zenon DEF Extended
  <2>6. With(files, "Packages", h, files')
    BY <1>1, Zenon DEF With
  <2>7. FilesOK(files') /\ files'["Packages"] = h /\ Done("sync", c, files')
    BY <1>2, <2>1, <2>5, <2>6, PutIndex, Zenon
  <2>8. Written([i \in 1 .. r.off |-> Listing], r.off, Listing) = [i \in 1 .. r.off + 1 |-> Listing]
    BY <1>2, WrittenNext, Zenon
  <2>9. h.final = r.node /\ h.data[h.final] = [i \in 1 .. r.off + 1 |-> Listing]
    BY <2>1, <2>2, <2>5, <2>8, Zenon
  <2> QED
    BY <2>1, <2>7, <2>9, Zenon
<1>8. ASSUME Safe(c), r.off = 0 PROVE Sound(m, c, files', dir', link)
  <2>1. /\ Kept(r, c, files) /\ r.stage = "sync" /\ Done("sync", c, files')
        /\ r.node = files'["Packages"].final /\ r.node # NoNode
        /\ files'["Packages"].data[files'["Packages"].final] = [i \in 1 .. r.off + 1 |-> Listing]
    BY <1>7, <1>8, Zenon
  <2>2. Kept(m, c, files')
    BY <1>3, <2>1, Zenon DEF Kept
  <2>3. Place(m, c, files')
    BY <1>3, <1>5, <2>1, Zenon DEF Place, Parity
  <2>4. Holding(m, c, files')
    BY <1>3, <2>1, Zenon DEF Holding
  <2> QED
    BY <1>3, <2>2, <2>3, <2>4, Zenon DEF Sound
<1>9. ASSUME Safe(c), r.off = 1
      PROVE  /\ Sound(ToDistfiles(r, file_binhost_uri), c, files', dir', link)
             /\ Good(ToDistfiles(r, file_binhost_uri), c, files', dir', link)
  <2>1. /\ Done("sync", c, files')
        /\ r.node = files'["Packages"].final /\ r.node # NoNode
        /\ files'["Packages"].data[files'["Packages"].final] = [i \in 1 .. r.off + 1 |-> Listing]
    BY <1>7, <1>9, Zenon
  <2>2. [i \in 1 .. 1 + 1 |-> Listing] = Whole(Listing)
    BY WholeIs, Zenon
  <2>3. Cached(files'["Packages"], Listing)
    BY <1>4, <1>9, <2>1, <2>2, Zenon DEF Cached
  <2>4. file_binhost_uri = "remote" => Remote
    BY <1>2, UriIs, Zenon
  <2> QED
    BY <1>2, <2>1, <2>3, <2>4, ToDistfilesOutcome, Zenon
<1>10. Safe(c) /\ Alone => FilesOK(files') /\ Sound(q, c, files', dir', link)
  BY <1>4, <1>7, <1>8, <1>9, ZenonT(60)
<1>11. ASSUME Well(c) PROVE Good(q, c, files', dir', link)
  <2>1. Safe(c) /\ Good(r, c, files, dir, link)
    BY <1>11, Zenon DEF Well
  <2>2. r.stage = "sync"
    BY <1>7, <2>1, Zenon
  <2>3. Good(m, c, files', dir, link)
    BY <1>3, <2>1, <2>2, GoodAtIndex, ZenonT(60)
  <2> QED
    BY <1>1, <1>4, <1>9, <2>1, <2>3, ZenonT(60)
<1>12. /\ faults' \in {faults, faults + 1} /\ dir' \in [is : {Absent, "dir", "file"}, stamped : BOOLEAN]
       /\ dir'.is = dir.is
  BY <1>1, <1>2, Zenon DEF World
<1> QED
  BY <1>1, <1>2, <1>6, <1>10, <1>11, <1>12, WorkStep, ZenonT(60)

\* A refresh of the index that fails is remembered; the packages are there.
LEMMA IndexFailsHolds ==
  ASSUME IInv, NEW c \in Clis, IndexFails(c)
  PROVE  IInv'
<1> DEFINE r == cli[c]
           h == Tidy(files["Packages"], Open("Packages", cli'))
           m == [r EXCEPT !.lost = TRUE]
           q == ToDistfiles(m, file_binhost_uri)
<1>1. /\ r.pc \in {"index", "index_write"} /\ files' = [files EXCEPT !["Packages"] = h] /\ Move(c, q) /\ Broken(r)
      /\ dir' = dir /\ link' = link /\ UNCHANGED worldVars
  BY Zenon DEF IndexFails
<1>2. World /\ scenario \in Scenarios /\ Shape(r) /\ Working(r) /\ "Packages" \in Targets
  BY <1>1, AtIndex, Zenon
<1>3. m.lost
  BY <1>2, Zenon DEF Shape, Fields
<1> HIDE DEF h, m
<1>4. Onward(q)
  BY ToDistfilesShape, Zenon
<1>5. ASSUME Safe(c) PROVE FilesOK(files') /\ Sound(q, c, files', dir', link)
  <2>1. Done("sync", c, files) /\ FilesOK(files) /\ FileOK(files["Packages"])
    BY <1>1, <1>5, AtIndex, Zenon
  <2>2. h = Tidy(files["Packages"], Open("Packages", cli'))
    BY Zenon DEF h
  <2>3. FileOK(h)
    BY <2>1, <2>2, TidyKeeps, Zenon
  <2>4. With(files, "Packages", h, files')
    BY <1>1, Zenon DEF With
  <2>5. FilesOK(files') /\ Done("sync", c, files')
    BY <1>2, <2>1, <2>3, <2>4, PutIndex, SMTT(40)
  <2> QED
    BY <1>2, <1>3, <2>5, ToDistfilesOutcome, Zenon
<1>6. ~Well(c) /\ faults' \in {faults, faults + 1}
  BY <1>1, BrokenIs, Zenon
<1>7. dir' \in [is : {Absent, "dir", "file"}, stamped : BOOLEAN] /\ dir'.is = dir.is
  BY <1>1, <1>2, Zenon DEF World
<1> HIDE DEF q
<1> QED
  BY <1>1, <1>2, <1>4, <1>5, <1>6, <1>7, WorkStep, ZenonT(60)

-----------------------------------------------------------------------------
(* Steps that change the parity directory and the symlink.                 *)

\* A step of a run that restores parity.
LEMMA DiskStep ==
  ASSUME IInv, NEW c \in Clis, cli[c].pc \in Parity, NEW next, Move(c, next), Shape(next), Fresh(next),
         next.pc # "skipped", next.pc = "relink" => link'.to # "dir",
         files' = files, UNCHANGED worldVars, faults' = faults,
         dir' \in [is : {Absent, "dir", "file"}, stamped : BOOLEAN],
         dir.is \in {"dir", "file"} => dir'.is = dir.is,
         link' \in [to : Contents \cup {Absent, "elsewhere", "dir"}, stamped : BOOLEAN],
         link'.to = "dir" <=> link.to = "dir",
         Safe(c) => Sound(next, c, files, dir', link'),
         Well(c) => Good(next, c, files, dir', link')
  PROVE  IInv'
<1>1. Moved(c) /\ cli'[c] = next
  BY MoveIs, Zenon DEF IInv
<1>2. scenario' = scenario /\ served' = served /\ replaced' = replaced
  BY Zenon DEF worldVars
<1>3. Frame
  BY <1>2, Zenon DEF Frame
<1>4. ~shared' => FilesOK(files') /\ Sound(next, c, files', dir', link')
  BY <1>1, <1>3, Before, Zenon DEF Safe
<1>5. Calm' => Good(next, c, files', dir', link')
  BY <1>1, <1>3, Before, Zenon DEF Safe, Well
<1>6. Working(cli[c])
  BY InParity, Zenon
<1>7. Outcome(c)
  BY <1>1, <1>4, <1>5, <1>6, ZenonT(60) DEF Outcome
<1> QED
  BY <1>1, <1>3, <1>7, StepHolds, ZenonT(60)

\* What a run that restores parity without failures has when it goes on.
LEMMA GoodParity ==
  ASSUME NEW r, NEW q, NEW c, NEW fs, NEW d, NEW l, NEW e, NEW k, Good(r, c, fs, d, l),
         q.pc \in Parity, ~q.issues, q.stalled = r.stalled, q.uri = r.uri,
         q.pc # "dirs" => e.is = "dir",
         q.pc \notin Linking /\ scenario.tree => k = [to |-> Want(c), stamped |-> TRUE],
         q.pc = "check" /\ scenario.tree => e.stamped
  PROVE  Good(q, c, fs, e, k)
<1>1. q.pc \notin {"failed", "write", "verify", "recheck"}
  BY Zenon DEF Parity, Linking, Settled
<1> QED
  BY <1>1, Zenon DEF Good

\* The state q of CLI c has gone on to x in the restoration of parity.
GoneOn(q, c, x, b) ==
    /\ Shape(q) /\ Fresh(q) /\ q.pc = x /\ q.issues = b /\ q.stalled = cli[c].stalled /\ q.uri = cli[c].uri
    /\ \A d, l : Safe(c) => Sound(q, c, files, d, l)
GoesOn(q, c, x, b) ==
    /\ DOMAIN q = Fields /\ q.pc = x /\ q.stage = cli[c].stage /\ q.item = cli[c].item /\ q.uri = cli[c].uri
    /\ q.issues = b /\ q.lost = cli[c].lost /\ q.off = cli[c].off /\ q.stalled = cli[c].stalled

\* A run that goes to another point of the restoration of parity.
LEMMA ParityNext ==
  ASSUME IInv, NEW c \in Clis, cli[c].pc \in Parity, NEW x \in Parity, x # "emerge", NEW b \in BOOLEAN,
         NEW q, GoesOn(q, c, x, b), cli[c].issues => b, x \in Settled <=> cli[c].pc \in Settled
  PROVE  GoneOn(q, c, x, b)
<1> DEFINE r == cli[c]
<1>1. Shape(r) /\ (Safe(c) => Kept(r, c, files) /\ Place(r, c, files) /\ r.stage = "files")
  BY InParity, Zenon
<1>2. /\ DOMAIN q = Fields /\ q.pc = x /\ q.stage = r.stage /\ q.item = r.item /\ q.uri = r.uri
      /\ q.issues = b /\ q.lost = r.lost /\ q.off = r.off /\ q.stalled = r.stalled
  BY Zenon DEF GoesOn
<1>3. x \notin Idle /\ r.pc \notin {"write", "index_write"}
  BY Zenon DEF Parity, Linking, Settled, Idle, Ended
<1>4. r.off = 0
  BY <1>3, Zenon DEF IInv, One, Fresh
<1>5. Shape(q) /\ Fresh(q)
  BY <1>1, <1>2, <1>3, <1>4, ZenonT(60) DEF Shape, Fresh
<1>6. \A d, l : Safe(c) => Sound(q, c, files, d, l)
  BY <1>1, <1>2, ParityGoesOn, ZenonT(60)
<1> QED
  BY <1>2, <1>5, <1>6, Zenon DEF GoneOn

\* The types of the parity directory and of the symlink.
LEMMA DiskIs ==
  ASSUME IInv
  PROVE  /\ scenario \in Scenarios
         /\ dir \in [is : {Absent, "dir", "file"}, stamped : BOOLEAN]
         /\ link \in [to : Contents \cup {Absent, "elsewhere", "dir"}, stamped : BOOLEAN]
         /\ \A b \in BOOLEAN : /\ [dir EXCEPT !.stamped = b] \in [is : {Absent, "dir", "file"}, stamped : BOOLEAN]
                               /\ [dir EXCEPT !.stamped = b].is = dir.is
                               /\ [dir EXCEPT !.stamped = b].stamped = b
BY Zenon DEF IInv, World

\* The symlink's name stays free of a directory, or taken by one.
LinkKept(x) ==
    /\ link' \in [to : Contents \cup {Absent, "elsewhere", "dir"}, stamped : BOOLEAN]
    /\ link'.to = "dir" <=> link.to = "dir"
    /\ x = "relink" => link'.to # "dir"

\* When nothing went wrong the step to x leaves the directory and the symlink right.
ParityGood(c, x, b) ==
    Well(c) => /\ ~b
               /\ x # "dirs" => dir'.is = "dir"
               /\ x \notin Linking /\ scenario.tree => link' = [to |-> Want(c), stamped |-> TRUE]
               /\ x = "check" /\ scenario.tree => dir'.stamped

\* A step of a run that goes on in the restoration of parity.
LEMMA ParityStep ==
  ASSUME IInv, NEW c \in Clis, cli[c].pc \in Parity, NEW x \in Parity, x # "emerge", NEW b \in BOOLEAN,
         cli[c].issues => b, x \in Settled <=> cli[c].pc \in Settled,
         NEW next, GoesOn(next, c, x, b), Move(c, next), LinkKept(x), ParityGood(c, x, b),
         files' = files, UNCHANGED worldVars, faults' = faults,
         dir' \in [is : {Absent, "dir", "file"}, stamped : BOOLEAN],
         dir.is \in {"dir", "file"} => dir'.is = dir.is
  PROVE  IInv'
<1>1. GoneOn(next, c, x, b)
  BY ParityNext, Zenon
<1>2. /\ Shape(next) /\ Fresh(next) /\ next.pc = x /\ next.issues = b
      /\ next.stalled = cli[c].stalled /\ next.uri = cli[c].uri
      /\ Safe(c) => Sound(next, c, files, dir', link')
  BY <1>1, Zenon DEF GoneOn
<1>3. x # "skipped"
  BY Zenon DEF Parity, Linking, Settled
<1>4. ASSUME Well(c) PROVE Good(next, c, files, dir', link')
  <2>1. Good(cli[c], c, files, dir, link)
    BY <1>4, Zenon DEF Well
  <2>2. /\ ~b /\ (x # "dirs" => dir'.is = "dir")
        /\ x \notin Linking /\ scenario.tree => link' = [to |-> Want(c), stamped |-> TRUE]
        /\ x = "check" /\ scenario.tree => dir'.stamped
    BY <1>4, Zenon DEF ParityGood
  <2> QED
    BY <1>2, <2>1, <2>2, GoodParity, Zenon
<1> QED
  BY <1>2, <1>3, <1>4, DiskStep, ZenonT(60) DEF LinkKept

\* The parity directory is made where there is none.
LEMMA DirsHolds ==
  ASSUME IInv, NEW c \in Clis, Dirs(c)
  PROVE  IInv'
<1> DEFINE r == cli[c]
           x == IF scenario.tree THEN "links" ELSE "files"
           b == r.issues \/ dir.is = "file" \/ ~is_approved_parity_path(scenario.root)
           q == [r EXCEPT !.pc = x, !.issues = b]
<1>1. /\ r.pc = "dirs" /\ Move(c, q) /\ files' = files /\ link' = link /\ UNCHANGED worldVars /\ faults' = faults
      /\ dir' = IF dir.is = Absent /\ is_approved_parity_path(scenario.root)
                THEN [is |-> "dir", stamped |-> FALSE] ELSE dir
  BY Zenon DEF Dirs
<1>2. /\ scenario \in Scenarios /\ is_approved_parity_path(scenario.root)
      /\ dir \in [is : {Absent, "dir", "file"}, stamped : BOOLEAN]
      /\ link \in [to : Contents \cup {Absent, "elsewhere", "dir"}, stamped : BOOLEAN]
      /\ ~scenario.tree => dir.is = "dir"
  BY DiskIs, Approved, Zenon DEF IInv, World
<1>3. /\ r.pc \in Parity /\ x \in Parity /\ x # "emerge" /\ (x \in Settled <=> r.pc \in Settled)
      /\ x # "relink" /\ (x \notin Linking => ~scenario.tree) /\ x # "check"
  BY <1>1, Zenon DEF Parity, Linking, Settled
<1>4. b \in BOOLEAN /\ (r.issues => b)
  BY Zenon
<1>5. Absent \notin {"dir", "file"}
  BY Zenon DEF Absent
<1>6. /\ dir' \in [is : {Absent, "dir", "file"}, stamped : BOOLEAN]
      /\ dir.is \in {"dir", "file"} => dir'.is = dir.is
      /\ dir.is # "file" => dir'.is = "dir"
  <2>1. CASE dir.is = Absent
    <3>1. dir' = [is |-> "dir", stamped |-> FALSE]
      BY <1>1, <1>2, <2>1, Zenon
    <3> QED
      BY <1>5, <2>1, <3>1, SMTT(40)
  <2>2. CASE dir.is # Absent
    <3>1. dir' = dir
      BY <1>1, <2>2, Zenon
    <3>2. dir.is \in {Absent, "dir", "file"}
      BY <1>2, Zenon
    <3> QED
      BY <1>2, <2>2, <3>1, <3>2, ZenonT(60)
  <2> QED
    BY <2>1, <2>2, Zenon
<1>7. Well(c) => ~b /\ dir'.is = "dir"
  BY <1>2, <1>6, Zenon DEF Well, Calm, Good
<1>8. Shape(r)
  BY <1>3, InParity, Zenon
<1> HIDE DEF x, b
<1>9. GoesOn(q, c, x, b)
  BY <1>8, Zenon DEF GoesOn, Shape, Fields
<1> HIDE DEF q
<1>10. Move(c, q) /\ files' = files /\ UNCHANGED worldVars /\ faults' = faults
  BY <1>1, Zenon
<1>11. LinkKept(x)
  BY <1>1, <1>2, <1>3, Zenon DEF LinkKept
<1>12. ParityGood(c, x, b)
  BY <1>3, <1>7, Zenon DEF ParityGood
<1> QED
  BY <1>3, <1>4, <1>6, <1>9, <1>10, <1>11, <1>12, ParityStep, ZenonT(60)

\* The symlink is right, cannot be made, or is to be replaced.
LEMMA LinksHolds ==
  ASSUME IInv, NEW c \in Clis, Links(c)
  PROVE  IInv'
<1> DEFINE r == cli[c]
           x == IF symlink_matches(c) \/ dir.is # "dir" THEN "files" ELSE "unlink"
           b == r.issues \/ (~symlink_matches(c) /\ dir.is # "dir")
           q == IF symlink_matches(c) THEN [r EXCEPT !.pc = "files"]
                ELSE IF dir.is # "dir" THEN [r EXCEPT !.pc = "files", !.issues = TRUE]
                ELSE [r EXCEPT !.pc = "unlink"]
<1>1. /\ r.pc = "links" /\ Move(c, q) /\ files' = files /\ link' = link /\ UNCHANGED worldVars /\ faults' = faults
      /\ dir' = IF symlink_matches(c) \/ dir.is # "dir" THEN dir ELSE [dir EXCEPT !.stamped = FALSE]
  BY Zenon DEF Links
<1>2. /\ r.pc \in Parity /\ x \in Parity /\ x # "emerge" /\ (x \in Settled <=> r.pc \in Settled)
      /\ x # "relink" /\ x # "check"
  BY <1>1, Zenon DEF Parity, Linking, Settled
<1>3. Shape(r) /\ Working(r) /\ (Safe(c) => r.stage = "files")
  BY <1>2, InParity, Zenon
<1>4. b \in BOOLEAN /\ (r.issues => b) /\ r.issues \in BOOLEAN
  BY <1>3, Zenon DEF Shape
<1>5. /\ dir' \in [is : {Absent, "dir", "file"}, stamped : BOOLEAN] /\ dir'.is = dir.is
      /\ link \in [to : Contents \cup {Absent, "elsewhere", "dir"}, stamped : BOOLEAN]
  BY <1>1, DiskIs, ZenonT(60)
<1>6. ASSUME Well(c)
      PROVE  /\ ~b /\ dir.is = "dir"
             /\ x \notin Linking => link = [to |-> Want(c), stamped |-> TRUE]
  <2>1. dir.is = "dir" /\ ~r.issues
    BY <1>1, <1>3, <1>6, ZenonT(60) DEF Well, Good
  <2> QED
    BY <2>1, Zenon DEF symlink_matches, Linking
<1>7. GoesOn(q, c, x, b)
  <2>1. CASE symlink_matches(c)
    <3>1. x = "files" /\ b = r.issues /\ q = [r EXCEPT !.pc = "files"]
      BY <1>4, <2>1, Zenon
    <3> HIDE DEF x, b, q
    <3> QED
      BY <1>3, <3>1, Zenon DEF GoesOn, Shape, Fields
  <2>2. CASE ~symlink_matches(c) /\ dir.is # "dir"
    <3>1. x = "files" /\ b = TRUE /\ q = [r EXCEPT !.pc = "files", !.issues = TRUE]
      BY <2>2, Zenon
    <3> HIDE DEF x, b, q
    <3> QED
      BY <1>3, <3>1, Zenon DEF GoesOn, Shape, Fields
  <2>3. CASE ~symlink_matches(c) /\ dir.is = "dir"
    <3>1. x = "unlink" /\ b = r.issues /\ q = [r EXCEPT !.pc = "unlink"]
      BY <1>4, <2>3, Zenon
    <3> HIDE DEF x, b, q
    <3> QED
      BY <1>3, <3>1, Zenon DEF GoesOn, Shape, Fields
  <2> QED
    BY <2>1, <2>2, <2>3, Zenon
<1> HIDE DEF x, b, q
<1>8. Move(c, q) /\ files' = files /\ UNCHANGED worldVars /\ faults' = faults
  BY <1>1, Zenon
<1>9. LinkKept(x)
  BY <1>1, <1>2, <1>5, Zenon DEF LinkKept
<1>10. ParityGood(c, x, b)
  BY <1>1, <1>2, <1>5, <1>6, Zenon DEF ParityGood
<1> QED
  BY <1>2, <1>4, <1>5, <1>7, <1>8, <1>9, <1>10, ParityStep, ZenonT(60)

\* What has the symlink's name is removed, unless it is a directory.
LEMMA UnlinkHolds ==
  ASSUME IInv, NEW c \in Clis, Unlink(c)
  PROVE  IInv'
<1> DEFINE r == cli[c]
           x == IF link.to = "dir" THEN "files" ELSE "relink"
           b == r.issues \/ link.to = "dir"
           q == IF link.to = "dir" THEN [r EXCEPT !.pc = "files", !.issues = TRUE] ELSE [r EXCEPT !.pc = "relink"]
<1>1. /\ r.pc = "unlink" /\ Move(c, q) /\ files' = files /\ UNCHANGED worldVars /\ faults' = faults
      /\ link' = IF link.to = "dir" THEN link ELSE [to |-> Absent, stamped |-> FALSE]
      /\ dir' = [dir EXCEPT !.stamped = FALSE]
  BY Zenon DEF Unlink
<1>2. /\ r.pc \in Parity /\ x \in Parity /\ x # "emerge" /\ (x \in Settled <=> r.pc \in Settled)
      /\ x # "check"
  BY <1>1, Zenon DEF Parity, Linking, Settled
<1>3. Shape(r) /\ Working(r) /\ (Safe(c) => r.stage = "files")
  BY <1>2, InParity, Zenon
<1>4. b \in BOOLEAN /\ (r.issues => b) /\ r.issues \in BOOLEAN
  BY <1>3, Zenon DEF Shape
<1>5. /\ dir' \in [is : {Absent, "dir", "file"}, stamped : BOOLEAN] /\ dir'.is = dir.is
      /\ link \in [to : Contents \cup {Absent, "elsewhere", "dir"}, stamped : BOOLEAN]
  BY <1>1, DiskIs, Zenon
<1>6. LinkKept(x)
  <2>1. CASE link.to = "dir"
    BY <1>1, <1>5, <2>1, Zenon DEF LinkKept
  <2>2. CASE link.to # "dir"
    <3>1. link' = [to |-> Absent, stamped |-> FALSE] /\ Absent # "dir"
      BY <1>1, <2>2, Zenon DEF Absent
    <3>2. /\ link' \in [to : Contents \cup {Absent, "elsewhere", "dir"}, stamped : BOOLEAN]
          /\ link'.to # "dir"
      BY <3>1
    <3> QED
      BY <2>2, <3>2, Zenon DEF LinkKept
  <2> QED
    BY <2>1, <2>2, Zenon
<1>7. ParityGood(c, x, b)
  <2>1. ASSUME Well(c) PROVE dir.is = "dir" /\ ~r.issues /\ link.to # "dir"
    BY <1>1, <1>3, <2>1, ZenonT(60) DEF Well, Good, Calm
  <2>2. ASSUME Well(c) PROVE ~b /\ x \in Linking
    BY <2>1, <2>2, Zenon DEF Linking
  <2> QED
    BY <1>2, <1>5, <2>1, <2>2, ZenonT(60) DEF ParityGood
<1>8. GoesOn(q, c, x, b)
  <2>1. CASE link.to = "dir"
    <3>1. x = "files" /\ b = TRUE /\ q = [r EXCEPT !.pc = "files", !.issues = TRUE]
      BY <2>1, Zenon
    <3> HIDE DEF x, b, q
    <3> QED
      BY <1>3, <3>1, Zenon DEF GoesOn, Shape, Fields
  <2>2. CASE link.to # "dir"
    <3>1. x = "relink" /\ b = r.issues /\ q = [r EXCEPT !.pc = "relink"]
      BY <1>4, <2>2, Zenon
    <3> HIDE DEF x, b, q
    <3> QED
      BY <1>3, <3>1, ZenonT(60) DEF GoesOn, Shape, Fields
  <2> QED
    BY <2>1, <2>2, ZenonT(60)
<1> HIDE DEF x, b, q
<1>9. Move(c, q) /\ files' = files /\ UNCHANGED worldVars /\ faults' = faults
  BY <1>1, Zenon
<1> QED
  BY <1>2, <1>4, <1>5, <1>6, <1>7, <1>8, <1>9, ParityStep, ZenonT(60)

\* The symlink is made.
LEMMA RelinkHolds ==
  ASSUME IInv, NEW c \in Clis, Relink(c)
  PROVE  IInv'
<1> DEFINE r == cli[c]
           q == [r EXCEPT !.pc = "files"]
<1>1. /\ r.pc = "relink" /\ Move(c, q) /\ files' = files /\ UNCHANGED worldVars /\ faults' = faults
      /\ link' = [to |-> Want(c), stamped |-> TRUE] /\ dir' = [dir EXCEPT !.stamped = FALSE]
  BY Zenon DEF Relink
<1>2. /\ r.pc \in Parity /\ "files" \in Parity /\ ("files" \in Settled <=> r.pc \in Settled)
  BY <1>1, Zenon DEF Parity, Linking, Settled
<1>3. Shape(r) /\ Working(r) /\ (Safe(c) => r.stage = "files")
  BY <1>2, InParity, Zenon
<1>4. r.issues \in BOOLEAN
  BY <1>3, Zenon DEF Shape
<1>5. dir' \in [is : {Absent, "dir", "file"}, stamped : BOOLEAN] /\ dir'.is = dir.is
  BY <1>1, DiskIs, Zenon
<1>6. LinkKept("files")
  <2>1. Want(c) \in Contents /\ Want(c) # "dir"
    BY DiskIs, Wanted, Zenon
  <2>2. link'.to # "dir" /\ link' \in [to : Contents \cup {Absent, "elsewhere", "dir"}, stamped : BOOLEAN]
    BY <1>1, <2>1
  <2>3. link.to # "dir"
    BY <1>1, Zenon DEF IInv, One
  <2> QED
    BY <2>2, <2>3, Zenon DEF LinkKept
<1>7. ParityGood(c, "files", r.issues)
  <2>1. ASSUME Well(c) PROVE dir.is = "dir" /\ ~r.issues
    BY <1>1, <1>3, <2>1, ZenonT(60) DEF Well, Good
  <2> QED
    BY <1>1, <1>5, <2>1, ZenonT(60) DEF ParityGood
<1>8. GoesOn(q, c, "files", r.issues)
  BY <1>3, Zenon DEF GoesOn, Shape, Fields
<1> HIDE DEF q
<1>9. Move(c, q) /\ files' = files /\ UNCHANGED worldVars /\ faults' = faults
  BY <1>1, Zenon
<1> QED
  BY <1>2, <1>4, <1>5, <1>6, <1>7, <1>8, <1>9, ParityStep, ZenonT(60)

\* The mtime of the parity directory is set.
LEMMA FinalizeHolds ==
  ASSUME IInv, NEW c \in Clis, Finalize(c)
  PROVE  IInv'
<1> DEFINE r == cli[c]
           b == r.issues \/ (scenario.tree /\ dir.is # "dir")
           q == [r EXCEPT !.pc = "check", !.issues = b]
<1>1. /\ r.pc = "finalize" /\ Move(c, q) /\ files' = files /\ link' = link /\ UNCHANGED worldVars /\ faults' = faults
      /\ dir' = IF scenario.tree /\ dir.is = "dir" THEN [dir EXCEPT !.stamped = TRUE] ELSE dir
  BY Zenon DEF Finalize
<1>2. /\ r.pc \in Parity /\ "check" \in Parity /\ ("check" \in Settled <=> r.pc \in Settled)
      /\ r.pc \notin Linking
  BY <1>1, Zenon DEF Parity, Linking, Settled
<1>3. Shape(r) /\ Working(r) /\ (Safe(c) => r.stage = "files")
  BY <1>2, InParity, Zenon
<1>4. b \in BOOLEAN /\ (r.issues => b)
  BY Zenon
<1>5. /\ dir' \in [is : {Absent, "dir", "file"}, stamped : BOOLEAN] /\ dir'.is = dir.is
      /\ scenario.tree /\ dir.is = "dir" => dir'.stamped
      /\ link \in [to : Contents \cup {Absent, "elsewhere", "dir"}, stamped : BOOLEAN]
  BY <1>1, DiskIs, Zenon
<1>6. LinkKept("check")
  BY <1>1, <1>5, Zenon DEF LinkKept
<1>7. ParityGood(c, "check", b)
  <2>1. ASSUME Well(c)
        PROVE  /\ dir.is = "dir" /\ ~r.issues
               /\ scenario.tree => link = [to |-> Want(c), stamped |-> TRUE]
    BY <1>1, <1>2, <1>3, <2>1, ZenonT(60) DEF Well, Good
  <2> QED
    BY <1>1, <1>5, <2>1, Zenon DEF ParityGood
<1>8. Shape(r)
  BY <1>3, Zenon
<1> HIDE DEF b
<1>9. GoesOn(q, c, "check", b)
  BY <1>8, Zenon DEF GoesOn, Shape, Fields
<1> HIDE DEF q
<1>10. Move(c, q) /\ files' = files /\ UNCHANGED worldVars /\ faults' = faults
  BY <1>1, Zenon
<1> QED
  BY <1>2, <1>4, <1>5, <1>6, <1>7, <1>9, <1>10, ParityStep, ZenonT(60)

-----------------------------------------------------------------------------
(* A run that ends where it is, and the world around it.                   *)

\* A CLI is dropped: nodes it alone wrote to go, what has a name stays.
LEMMA DropStep ==
  ASSUME IInv, NEW c \in Clis, NEW how \in Ended, how # "skipped", Move(c, End(cli[c], how)), Dropped(c),
         dir' = dir, link' = link, UNCHANGED worldVars, faults' \in {faults, faults + 1},
         ~Well(c), faults' = faults => Working(cli[c])
  PROVE  IInv'
<1> DEFINE q == End(cli[c], how)
<1>1. Moved(c) /\ cli'[c] = q
  BY MoveIs, Zenon DEF IInv
<1>2. scenario' = scenario /\ served' = served /\ replaced' = replaced
  BY Zenon DEF worldVars
<1>3. /\ dir \in [is : {Absent, "dir", "file"}, stamped : BOOLEAN]
      /\ link \in [to : Contents \cup {Absent, "elsewhere", "dir"}, stamped : BOOLEAN]
  BY DiskIs, Zenon
<1>4. Frame
  BY <1>2, <1>3, Zenon DEF Frame
<1>5. Shape(q) /\ Fresh(q) /\ q.pc = how /\ (\A fs, d, l : Sound(q, c, fs, d, l))
  BY EndOutcome, Zenon
<1>6. DOMAIN files' = Targets /\ \A t \in Targets : \E open : files'[t] = Tidy(files[t], open)
  BY Zenon DEF Dropped
<1>7. ~shared' => FilesOK(files') /\ Tidied(files, files')
  BY <1>1, <1>4, <1>6, Before, AllTidied, ZenonT(60)
<1>8. Calm' => Well(c)
  BY <1>1, <1>4, Before, Zenon DEF Well, Safe
<1> HIDE DEF q
<1>9. how # "relink"
  BY Zenon DEF Ended
<1>10. Outcome(c)
  BY <1>1, <1>5, <1>7, <1>8, <1>9, ZenonT(60) DEF Outcome
<1> QED
  BY <1>1, <1>4, <1>10, StepHolds, ZenonT(60)

\* The watchdog fires on a run that stalled, or on one that is only slow.
LEMMA WatchdogHolds ==
  ASSUME IInv, NEW c \in Clis, Watchdog(c)
  PROVE  IInv'
<1>1. /\ Working(cli[c]) /\ Move(c, End(cli[c], "failed")) /\ Dropped(c) /\ dir' = dir /\ link' = link
      /\ UNCHANGED worldVars /\ Broken(cli[c])
  BY Zenon DEF Watchdog, Restoring
<1>2. "failed" \in Ended /\ "failed" # "skipped"
  BY Zenon DEF Ended
<1>3. faults' \in {faults, faults + 1} /\ ~Well(c)
  BY <1>1, BrokenIs, Zenon
<1> QED
  BY <1>1, <1>2, <1>3, DropStep, ZenonT(60)

\* The process is killed, at any point.
LEMMA KillHolds ==
  ASSUME IInv, NEW c \in Clis, Kill(c)
  PROVE  IInv'
<1>1. /\ Move(c, End(cli[c], "killed")) /\ Dropped(c) /\ dir' = dir /\ link' = link
      /\ UNCHANGED worldVars /\ Fault
  BY Zenon DEF Kill
<1>2. "killed" \in Ended /\ "killed" # "skipped"
  BY Zenon DEF Ended
<1>3. ~Well(c) /\ faults' \in {faults, faults + 1} /\ faults' # faults
  BY <1>1, FaultIs, Zenon DEF Well
<1> QED
  BY <1>1, <1>2, <1>3, DropStep, Zenon

\* A step that leaves the CLIs and the machine as they are.
LEMMA StillStep ==
  ASSUME IInv, scenario' = scenario, cli' = cli, files' = files, dir' = dir, link' = link, shared' = shared,
         faults' \in Nat, Calm' => Calm /\ served' = served
  PROVE  IInv'
<1>1. World'
  BY Zenon DEF IInv, World
<1>2. ~shared' => Alone'
  BY Zenon DEF IInv, Alone, Working
<1>3. ~shared' => FilesOK(files)'
  BY Zenon DEF IInv, FilesOK, FileOK, Cached
<1>4. Calm' => \A t \in Targets : \A d \in Clis : served'[t] = Want(d)'
  BY Zenon DEF IInv, Want
<1>5. ASSUME NEW d \in Clis PROVE One(d)'
  <2>1. One(d) /\ cli'[d] = cli[d]
    BY Zenon DEF IInv
  <2>2. ~shared' => Sound(cli'[d], d, files', dir', link')
    BY <2>1, Zenon DEF One
  <2>3. Calm' => Good(cli'[d], d, files', dir', link')
    BY <2>1, Zenon DEF One
  <2>4. ~shared' => Sound(cli[d], d, files, dir, link)'
    BY <2>2, SoundPrimed, Zenon
  <2>5. Calm' => Good(cli[d], d, files, dir, link)'
    BY <2>3, GoodPrimed, Zenon
  <2>6. Shape(cli[d])' /\ Fresh(cli[d])'
    BY <2>1, Zenon DEF One, Shape, Fresh
  <2>7. Found => Found'
    BY Zenon DEF Found
  <2> QED
    BY <2>1, <2>4, <2>5, <2>6, <2>7, ZenonT(60) DEF One
<1> QED
  BY <1>1, <1>2, <1>3, <1>4, <1>5, ZenonT(60) DEF IInv

\* A package is replaced or removed on the binhost.
LEMMA ServerReplacesHolds ==
  ASSUME IInv, ServerReplaces
  PROVE  IInv'
<1>1. /\ scenario' = scenario /\ cli' = cli /\ files' = files /\ dir' = dir /\ link' = link /\ shared' = shared
      /\ replaced' = TRUE /\ faults' = faults + 1
  BY Zenon DEF ServerReplaces, Fault, diskVars
<1>2. faults' \in Nat
  BY <1>1 DEF IInv, World
<1>3. ~Calm'
  BY <1>1, Zenon DEF Calm
<1> QED
  BY <1>1, <1>2, <1>3, StillStep, ZenonT(60)

\* A step of the environment's that changes nothing here.
LEMMA StutterHolds ==
  ASSUME IInv, UNCHANGED vars
  PROVE  IInv'
<1>1. /\ scenario' = scenario /\ cli' = cli /\ files' = files /\ dir' = dir /\ link' = link /\ shared' = shared
      /\ replaced' = replaced /\ faults' = faults /\ served' = served
  BY Zenon DEF vars
<1>2. faults' \in Nat
  BY <1>1, Zenon DEF IInv, World
<1>3. Calm' => Calm /\ served' = served
  BY <1>1, Zenon DEF Calm
<1> QED
  BY <1>1, <1>2, <1>3, StillStep, ZenonT(60)

-----------------------------------------------------------------------------
(* The theorems.                                                           *)

\* In the beginning the invariant holds: no CLI has started, no file is there.
LEMMA InitHolds ==
  ASSUME Init
  PROVE  IInv
<1>1. /\ scenario \in Scenarios /\ faults = 0 /\ shared = FALSE
      /\ cli = [c \in Clis |-> IF c \in scenario.who THEN NewCli ELSE [NewCli EXCEPT !.pc = "done"]]
      /\ files = [t \in Targets |-> [final |-> NoNode, part |-> NoNode,
                                     data |-> [n \in Nodes |-> <<>>], stamped |-> {}]]
      /\ replaced = \E c, d \in Clis : Want(c) # Want(d)
  BY Zenon DEF Init
<1>2. dir \in [is : {Absent, "dir", "file"}, stamped : BOOLEAN] /\ (~scenario.tree => dir.is = "dir")
  <2>1. \E x \in {Absent, "dir", "file"} : dir = [is |-> x, stamped |-> FALSE] /\ (~scenario.tree => x = "dir")
    BY Zenon DEF Init
  <2> QED
    BY <2>1
<1>3. link \in [to : Contents \cup {Absent, "elsewhere", "dir"}, stamped : BOOLEAN]
  <2>1. \E x \in {Absent, "elsewhere", "dir"} : link = [to |-> x, stamped |-> FALSE]
    BY Zenon DEF Init
  <2> QED
    BY <2>1
<1>4. World
  BY <1>1, <1>2, <1>3, ZenonT(60) DEF World
<1>5. ASSUME NEW c \in Clis
      PROVE  /\ Shape(cli[c]) /\ Fresh(cli[c]) /\ cli[c].pc \in {"start", "done"}
             /\ cli[c].stalled = FALSE /\ cli[c].issues = FALSE /\ cli[c].uri = "none"
  <2>1. cli[c] = NewCli \/ cli[c] = [NewCli EXCEPT !.pc = "done"]
    BY <1>1, ZenonT(60)
  <2>2. /\ DOMAIN NewCli = Fields /\ NewCli.pc = "start" /\ NewCli.stage = "sync" /\ NewCli.item = 1
        /\ NewCli.off = 0 /\ NewCli.issues = FALSE /\ NewCli.stalled = FALSE /\ NewCli.uri = "none"
    BY DEF NewCli, Fields
  <2>3. /\ DOMAIN cli[c] = Fields /\ cli[c].pc \in {"start", "done"} /\ cli[c].stage = "sync" /\ cli[c].item = 1
        /\ cli[c].off = 0 /\ cli[c].issues = FALSE /\ cli[c].stalled = FALSE /\ cli[c].uri = "none"
    BY <2>1, <2>2, Zenon DEF Fields
  <2>4. cli[c].pc \in Idle /\ 1 \in Nat
    BY <2>3 DEF Idle, Ended
  <2> QED
    BY <2>3, <2>4, ZenonT(60) DEF Shape, Fresh, Stages
<1>6. Alone
  <2>1. ASSUME NEW c \in Clis PROVE ~Working(cli[c])
    BY <1>5, Zenon DEF Working, Ended
  <2> QED
    BY <2>1, Zenon DEF Alone
<1>7. FilesOK(files)
  <2>1. ASSUME NEW t \in Targets PROVE FileOK(files[t]) /\ files[t].final = NoNode
    <3>1. files[t] = [final |-> NoNode, part |-> NoNode, data |-> [n \in Nodes |-> <<>>], stamped |-> {}]
      BY <1>1, Zenon
    <3> QED
      BY <3>1 DEF FileOK
  <2>2. DOMAIN files = Targets /\ {"pkg1", "pkg2"} \subseteq Targets
    BY <1>1, Zenon DEF Targets
  <2> QED
    BY <2>1, <2>2, Zenon DEF FilesOK
<1>8. ASSUME Calm, NEW t \in Targets, NEW c \in Clis PROVE served[t] = Want(c)
  <2>1. \E d \in Clis : served = [u \in Targets |-> Want(d)]
    BY Zenon DEF Init
  <2>2. \A d \in Clis : Want(d) = Want(c)
    BY <1>1, <1>8, Zenon DEF Calm
  <2> QED
    BY <2>1, <2>2, Zenon
<1>9. ASSUME NEW c \in Clis PROVE One(c)
  <2>1. cli[c].pc \in Idle /\ cli[c].pc # "failed" /\ cli[c].pc # "skipped" /\ cli[c].pc # "relink"
    BY <1>5, Zenon DEF Idle, Ended
  <2>2. Clean(cli[c])
    BY <1>5, Zenon DEF Clean
  <2>3. Sound(cli[c], c, files, dir, link) /\ Good(cli[c], c, files, dir, link)
    BY <2>1, <2>2, IdleIs, ZenonT(60)
  <2> QED
    BY <1>5, <2>1, <2>3, ZenonT(60) DEF One
<1> QED
  BY <1>4, <1>6, <1>7, <1>8, <1>9, ZenonT(60) DEF IInv

\* Every step keeps the invariant.
LEMMA NextHolds ==
  ASSUME IInv, [Next]_vars
  PROVE  IInv'
<1>1. ASSUME NEW c \in Clis, CliStep(c) PROVE IInv'
  <2>1. CASE Start(c) \/ Negotiate(c) \/ Submit(c) \/ Stream(c) \/ Emerge(c)
    BY <2>1, StartHolds, NegotiateHolds, SubmitHolds, StreamHolds, EmergeHolds, ZenonT(60)
  <2>2. CASE Inspect(c) \/ Fetch(c) \/ FetchRefused(c) \/ Write(c) \/ Verify(c) \/ Rename(c) \/ Recheck(c)
    BY <2>2, InspectHolds, FetchHolds, FetchRefusedHolds, WriteHolds, VerifyHolds, RenameHolds,
       RecheckHolds, ZenonT(60)
  <2>3. CASE Index(c) \/ IndexWrite(c)
    BY <2>3, IndexHolds, IndexWriteHolds, Zenon
  <2>4. CASE Dirs(c) \/ Links(c) \/ Unlink(c) \/ Relink(c) \/ Files(c) \/ Finalize(c) \/ Check(c)
    BY <2>4, DirsHolds, LinksHolds, UnlinkHolds, RelinkHolds, FilesHolds, FinalizeHolds, CheckHolds, ZenonT(60)
  <2> QED
    BY <1>1, <2>1, <2>2, <2>3, <2>4, ZenonT(60) DEF CliStep
<1>2. ASSUME NEW c \in Clis, CliFault(c) PROVE IInv'
  <2>1. CASE RemoteFails(c) \/ TransferFails(c) \/ IndexFails(c) \/ LinksFail(c) \/ EmergeFails(c)
    BY <2>1, RemoteFailsHolds, TransferFailsHolds, IndexFailsHolds, LinksFailHolds, EmergeFailsHolds, ZenonT(60)
  <2>2. CASE Stall(c) \/ Kill(c) \/ Rerun(c)
    BY <2>2, StallHolds, KillHolds, RerunHolds, ZenonT(60)
  <2> QED
    BY <1>2, <2>1, <2>2, Zenon DEF CliFault
<1>3. ASSUME NEW c \in Clis, Watchdog(c) PROVE IInv'
  BY <1>3, WatchdogHolds, Zenon
<1>4. CASE ServerReplaces
  BY <1>4, ServerReplacesHolds, Zenon
<1>5. CASE UNCHANGED vars
  BY <1>5, StutterHolds, Zenon
<1>6. CASE Next
  BY <1>1, <1>2, <1>3, <1>4, <1>6, ZenonT(60) DEF Next
<1> QED
  BY <1>5, <1>6, Zenon

\* The invariant holds in every state that is reached, whatever the CLIs, the
\* scenarios and the interleaving of their runs.
THEOREM ClientInvariance == Spec => []IInv
<1>1. Init => IInv
  BY InitHolds
<1>2. IInv /\ [Next]_vars => IInv'
  BY NextHolds
<1> QED
  BY <1>1, <1>2, PTL DEF Spec

\* What the invariant says of a run that has come to emerge.
LEMMA EmergeIsVerified ==
  ASSUME IInv
  PROVE  EmergeInputsVerified
<1> SUFFICES ASSUME NEW c \in Clis, cli[c].pc = "emerge", ~shared
             PROVE  /\ cli[c].uri = "local" => \A t \in Range(scenario.pkgs) : is_package_cached(t, Want(c))
                    /\ cli[c].uri = "local" /\ ~cli[c].lost =>
                           is_package_cached("Packages", Listing) \/ is_package_cached("Packages", Want(c))
                    /\ \A t \in Range(scenario.dist) : file_matches(t, Want(c))
                    /\ ParityHolds(c)
  BY Zenon DEF EmergeInputsVerified
<1>1. scenario \in Scenarios /\ Working(cli[c]) /\ cli[c].pc \in Parity
  BY Zenon DEF IInv, World, Working, Ended, Parity, Settled
<1>2. /\ Kept(cli[c], c, files) /\ Place(cli[c], c, files) /\ ~cli[c].issues
      /\ Restored(c, files, dir, link)
  BY <1>1, Zenon DEF IInv, One, Sound
<1>3. cli[c].stage = "files"
  BY <1>1, <1>2, Zenon DEF Place
<1>4. /\ Done("dist", c, files)
      /\ cli[c].uri = "local" =>
            /\ Done("sync", c, files)
            /\ cli[c].lost \/ Cached(files["Packages"], Listing) \/ Cached(files["Packages"], Want(c))
  BY <1>2, <1>3, Zenon DEF Kept
<1>5. /\ List("sync") = scenario.pkgs /\ List("dist") = scenario.dist
      /\ Range(scenario.pkgs) = {scenario.pkgs[i] : i \in 1 .. Len(scenario.pkgs)}
      /\ Range(scenario.dist) = {scenario.dist[i] : i \in 1 .. Len(scenario.dist)}
  BY <1>1, Lists, Zenon
<1>6. \A t \in Range(scenario.dist) : Ready("dist", files[t], Want(c))
  BY <1>4, <1>5, Zenon DEF Done, DoneTo
<1>7. cli[c].uri = "local" => \A t \in Range(scenario.pkgs) : Ready("sync", files[t], Want(c))
  BY <1>4, <1>5, Zenon DEF Done, DoneTo
<1>8. \A t, v : is_package_cached(t, v) <=> Cached(files[t], v)
  BY Zenon DEF is_package_cached, Cached
<1>9. \A t, v : /\ file_matches(t, v) <=> Ready("files", files[t], v)
                /\ file_matches(t, v) <=> Ready("dist", files[t], v)
  BY <1>8, Zenon DEF file_matches, Ready
<1>10. ParityHolds(c)
  BY <1>2, <1>9, Zenon DEF ParityHolds, Restored, symlink_matches
<1>11. \A t \in Range(scenario.dist) : file_matches(t, Want(c))
  BY <1>6, <1>9, ZenonT(60)
<1>12. cli[c].uri = "local" => \A t \in Range(scenario.pkgs) : is_package_cached(t, Want(c))
  BY <1>7, <1>8, Zenon DEF Ready
<1>13. cli[c].uri = "local" /\ ~cli[c].lost =>
           is_package_cached("Packages", Listing) \/ is_package_cached("Packages", Want(c))
  BY <1>4, <1>8, Zenon
<1> QED
  BY <1>10, <1>11, <1>12, <1>13, ZenonT(60)

\* Unless CLIs share the machine, the local emerge starts with the packages, the
\* index, the distfiles and the parity that its build produced.
THEOREM EmergeVerified == Spec => []EmergeInputsVerified
<1>1. IInv => EmergeInputsVerified
  BY EmergeIsVerified, SMTT(40)
<1> QED
  BY <1>1, ClientInvariance, PTL

\* Unless CLIs share the machine, a package under its final name is whole, in
\* every state, also after a run was killed between any two steps.
THEOREM PackagesWhole == Spec => []CachedPackageWhole
<1>1. IInv => CachedPackageWhole
  BY Zenon DEF IInv, FilesOK, CachedPackageWhole, is_package_cached, Cached
<1> QED
  BY <1>1, ClientInvariance, PTL

\* A run without a failure, a rebuild, another CLI, a request that is refused or
\* something in the way does not fail, and leaves the local binhost only for a
\* result without packages or digests or with a relative PKGDIR.
THEOREM FailuresExcused == Spec => []FailureExcused
<1>1. ASSUME IInv PROVE FailureExcused
  <2>1. faults \in Nat
    BY <1>1, Zenon DEF IInv, World
  <2>2. faults > 0 \/ faults = 0
    BY <2>1
  <2>3. Calm \/ faults > 0 \/ replaced \/ shared \/ scenario.request \in {"empty", "bad"} \/ dir.is = "file" \/ link.to = "dir"
    BY <2>2, ZenonT(60) DEF Calm
  <2>4. ASSUME Calm, NEW c \in Clis PROVE cli[c].pc # "failed" /\ (cli[c].uri = "remote" => Remote)
    BY <1>1, <2>4, ZenonT(60) DEF IInv, One, Good
  <2> QED
    BY <2>3, <2>4, Zenon DEF FailureExcused, Remote
<1> QED
  BY <1>1, ClientInvariance, PTL

=============================================================================
