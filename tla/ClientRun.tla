------------------------------ MODULE ClientRun ------------------------------
(***************************************************************************)
(* A run of the CLI (Cli::run): the decision to build remotely, the        *)
(* submission, the copy of the built packages into the local PKGDIR, the   *)
(* restoration of distfiles and of the final state of the worker (parity), *)
(* and the local emerge.  Several CLIs may run on one machine: they share  *)
(* its files, and the .part files they download into.                      *)
(*                                                                         *)
(* A file is a node with one or two names, its final name and .part; a     *)
(* CLI that downloads writes to the node it opened, whatever happens to    *)
(* the names.  The content of a node is its sequence of chunks, each the   *)
(* version it was written from.  Submission, upload and progress are       *)
(* modelled in Workorders, BlobUpload and Progress, and are one step here. *)
(*                                                                         *)
(* A definition whose name ends in _<what> is a faulty variant of the one  *)
(* it precedes; no specification here uses it.                             *)
(***************************************************************************)
EXTENDS AtomVersions, FiniteSets

CONSTANTS
    Clis,       \* CLI processes on the machine
    Contents,   \* versions of what a build produces
    Scenarios   \* requests, manifests and bounds, taken together

\* The chunks of a download, and the nodes two CLIs can make of a file.
Size == 2
Nodes == 1..4
Absent == "absent"
Zero == "zero"        \* bytes nobody wrote, under a write past the end
Listing == "listing"  \* the Packages index of the server
NoNode == 0

Targets == {"pkg1", "pkg2", "Packages", "distfile", "state"}
\* What the arguments of emerge ask for: there are none, no atoms among them, an
\* invalid atom, a valid one.
Requests == {"empty", "none", "bad", "good"}
Whole(v) == [i \in 1..Size |-> v]

\* What the worker captures: the metadata of a repository, with the index beside
\* it, two trees of its own and the index of its packages.
BinpkgIndex == <<"var", "cache", "binpkgs", "Packages">>
capture_repo_metadata_and_indexes(repo) ==
    {<<"var", "db", "repos", repo, x>> : x \in {"metadata", "Packages"}}
capture_final_state_parity_from(repo) ==
    capture_repo_metadata_and_indexes(repo)
    \cup {<<"var", "cache", "eclass">>, BinpkgIndex, <<"var", "lib", "portage">>}

\* The captured directories: the indexes are files.
CapturedDirs(repo) == {d \in capture_final_state_parity_from(repo) : d[Len(d)] # "Packages"}

\* A path under one of these is restored; an entry with another one is an issue.
Under(path, root) == Len(root) <= Len(path) /\ \A i \in 1..Len(root) : path[i] = root[i]
is_approved_parity_path_noRepos(path) ==
    \/ path = BinpkgIndex
    \/ Under(path, <<"var", "cache", "eclass">>)
    \/ Under(path, <<"var", "lib", "portage">>)
is_approved_parity_path(path) ==
    \/ path = BinpkgIndex
    \/ Under(path, <<"var", "cache", "eclass">>)
    \/ Under(path, <<"var", "lib", "portage">>)
    \/ /\ Len(path) >= 5
       /\ Under(path, <<"var", "db", "repos">>)
       /\ path[5] = "metadata" \/ (path[5] = "Packages" /\ Len(path) = 5)

ASSUME ScenarioAssumption ==
    \A s \in Scenarios :
        /\ s.request \in Requests
        /\ {s.force, s.dry_run, s.submit_only, s.no_local, s.tree} \subseteq BOOLEAN
        /\ s.pkgdir \in {"absolute", "relative"} /\ s.digests \in BOOLEAN
        /\ s.pkgs \in Seq({"pkg1", "pkg2"})
        /\ s.dist \in Seq({"distfile"})
        /\ s.files \in Seq({"Packages", "state"})
        /\ s.op \in AtomOps /\ IsVersion(s.constraint)
        /\ s.installed # <<>> => IsVersion(s.installed[1])
        /\ s.root \in CapturedDirs("gentoo")
        /\ s.who \subseteq Clis
        /\ s.wants \in [Clis -> Contents]
        /\ {s.faults, s.reruns} \subseteq Nat
ASSUME ContentAssumption == {Absent, "dir"} \cap Contents = {}

VARIABLES
    scenario,  \* the scenario of this behaviour
    cli,       \* where each CLI is
    files,     \* the files of the machine that the CLIs write
    dir,       \* the parity directory: what it is, and whether its mtime is right
    link,      \* the parity symlink in it
    served,    \* the content of a package on the binhost
    faults,    \* failures so far
    reruns,    \* runs started again so far
    replaced,  \* a package of a result is no longer what the binhost serves
    shared     \* two CLIs have worked on the machine at once

diskVars == <<files, dir, link>>
worldVars == <<scenario, served, replaced>>
vars == <<scenario, cli, files, dir, link, served, faults, reruns, replaced, shared>>

\* A download in progress, and the rest of what a CLI remembers: the stage and
\* the item of it at hand, the binhost it will use, and whether an issue was
\* found or the index could not be refreshed.
NewCli == [pc |-> "start", stage |-> "sync", item |-> 1, uri |-> "none", issues |-> FALSE,
           lost |-> FALSE, node |-> NoNode, off |-> 0, content |-> Absent, stalled |-> FALSE]
Ended == {"skipped", "done", "failed", "killed"}
Working(r) == r.pc \notin Ended \cup {"start", "plain", "negotiate", "submit", "stream"}
Restoring(r) == Working(r) /\ r.stage # "sync" /\ r.pc # "emerge"

List(stage) ==
    CASE stage = "sync" -> scenario.pkgs
      [] stage = "dist" -> scenario.dist
      [] stage = "files" -> scenario.files
Target(r) == IF r.pc = "index_write" THEN "Packages" ELSE List(r.stage)[r.item]
Want(c) == scenario.wants[c]

Init ==
    /\ scenario \in Scenarios
    /\ cli = [c \in Clis |-> IF c \in scenario.who THEN NewCli ELSE [NewCli EXCEPT !.pc = "done"]]
    /\ files = [t \in Targets |-> [final |-> NoNode, part |-> NoNode,
                                   data |-> [n \in Nodes |-> <<>>], stamped |-> {}]]
    /\ dir \in IF scenario.tree THEN {[is |-> x, stamped |-> FALSE] : x \in {Absent, "dir", "file"}}
               ELSE {[is |-> "dir", stamped |-> FALSE]}
    /\ link \in IF scenario.tree /\ dir.is = "dir"
                THEN {[to |-> x, stamped |-> FALSE] : x \in {Absent, "elsewhere", "dir"}}
                ELSE {[to |-> Absent, stamped |-> FALSE]}
    /\ served \in {[t \in Targets |-> v] : v \in {Want(c) : c \in Clis}}
    /\ faults = 0
    /\ reruns = 0
    /\ replaced = \E c, d \in Clis : Want(c) # Want(d)
    /\ shared = FALSE

-----------------------------------------------------------------------------
(* The files of the machine.                                               *)

\* Nodes of t that a CLI in the given states writes to.
Open(t, clis) == {clis[c].node : c \in {d \in Clis : clis[d].pc \in {"write", "index_write"}
                                                      /\ Target(clis[d]) = t}}

\* A node without a name that nobody writes to is gone.
Tidy(f, open) ==
    LET live == {f.final, f.part} \cup open IN
    [f EXCEPT !.data = [n \in Nodes |-> IF n \in live THEN f.data[n] ELSE <<>>],
              !.stamped = @ \cap live]

Unused(t) == Min(Nodes \ ({files[t].final, files[t].part} \cup Open(t, cli)))

\* File::create: an existing file is emptied, a missing one made.
Created(f, name, new) ==
    IF f[name] = NoNode
    THEN [f EXCEPT ![name] = new, !.data[new] = <<>>, !.stamped = @ \ {new}]
    ELSE [f EXCEPT !.data[f[name]] = <<>>, !.stamped = @ \ {f[name]}]

\* A chunk written at its offset: past the end of a file another CLI has emptied,
\* the bytes in between are zeros.
Written(chunks, off, v) ==
    [i \in 1..Max({Len(chunks), off + 1}) |->
        IF i = off + 1 THEN v ELSE IF i <= Len(chunks) THEN chunks[i] ELSE Zero]
Chunk(f, n, off, v) ==
    [f EXCEPT !.data[n] = Written(f.data[n], off, v), !.stamped = @ \ {n}]

\* is_package_cached: size and digest.
is_package_cached(t, v) == files[t].final # NoNode /\ files[t].data[files[t].final] = Whole(v)

\* parity_file_matches, snapshot_file_matches: size, mtime and digest.
file_matches(t, v) == is_package_cached(t, v) /\ files[t].final \in files[t].stamped

\* An entry that run_build makes from an event instead of a file has size 0 and
\* no digest, which no file has.
Described(r) == r.stage = "sync" => scenario.digests

Matches(r, v) ==
    /\ Described(r)
    /\ IF r.stage = "sync" THEN is_package_cached(Target(r), v) ELSE file_matches(Target(r), v)

-----------------------------------------------------------------------------
(* What a CLI does next.                                                   *)

End(r, how) == [NewCli EXCEPT !.pc = how, !.uri = r.uri]

\* The restoration ends: with --no-local the run is over before parity.
AfterDistfiles(r) ==
    IF r.issues THEN End(r, "failed")
    ELSE IF scenario.no_local THEN End(r, "done")
    ELSE [r EXCEPT !.pc = "dirs", !.stage = "files", !.item = 1]

ToDistfiles(r, uri) ==
    LET next == [NewCli EXCEPT !.pc = "inspect", !.stage = "dist", !.uri = uri, !.lost = r.lost]
    IN IF scenario.dist = <<>> THEN AfterDistfiles(next) ELSE next

ToFiles(r) ==
    [r EXCEPT !.pc = IF scenario.files = <<>> THEN "finalize" ELSE "inspect",
              !.node = NoNode, !.off = 0, !.content = Absent]

\* The item at hand is finished.
AfterItem(r) ==
    LET next == [r EXCEPT !.node = NoNode, !.off = 0, !.content = Absent] IN
    IF r.item < Len(List(r.stage)) THEN [next EXCEPT !.pc = "inspect", !.item = @ + 1]
    ELSE CASE r.stage = "sync" -> [next EXCEPT !.pc = "index"]
           [] r.stage = "dist" -> AfterDistfiles(next)
           [] r.stage = "files" -> [next EXCEPT !.pc = "finalize"]


\* The first package that fails ends the sync, with the remote binhost to fall
\* back on; distfiles and parity go on and report their issues together.
ItemFailed(r) ==
    IF r.stage = "sync" THEN ToDistfiles(r, "remote")
    ELSE AfterItem([r EXCEPT !.issues = TRUE])

Move(c, next) ==
    /\ cli' = [cli EXCEPT ![c] = next]
    /\ shared' = (shared \/ \E d, e \in Clis : d # e /\ Working(cli'[d]) /\ Working(cli'[e]))

Keep == UNCHANGED <<diskVars, worldVars, faults, reruns>>

Fault == faults < scenario.faults /\ faults' = faults + 1

-----------------------------------------------------------------------------
(* Up to the result of the remote build.                                   *)

\* The early returns of Cli::run: no arguments, no atoms, an invalid one, nothing
\* left to build, --dry-run.
Start(c) ==
    LET found == /\ scenario.installed # <<>>
                 /\ is_installed(scenario.op, scenario.installed[1], scenario.constraint)
    IN /\ cli[c].pc = "start"
       /\ Move(c, CASE scenario.request = "none" -> [cli[c] EXCEPT !.pc = "plain"]
                    [] scenario.request \in {"empty", "bad"} -> End(cli[c], "failed")
                    [] scenario.request = "good" /\ ~scenario.force /\ found -> End(cli[c], "skipped")
                    [] scenario.request = "good" /\ (scenario.force \/ ~found) ->
                        IF scenario.dry_run THEN End(cli[c], "done")
                        ELSE [cli[c] EXCEPT !.pc = "negotiate"])
       /\ Keep

\* prepare_manifest_submission: the blobs the server lacks are uploaded.
Negotiate(c) ==
    /\ cli[c].pc = "negotiate"
    /\ ~cli[c].stalled
    /\ Move(c, [cli[c] EXCEPT !.pc = "submit"])
    /\ Keep

Submit(c) ==
    /\ cli[c].pc = "submit"
    /\ Move(c, IF scenario.submit_only THEN End(cli[c], "done") ELSE [cli[c] EXCEPT !.pc = "stream"])
    /\ Keep

\* The build is complete and no package failed.
Stream(c) ==
    /\ cli[c].pc = "stream"
    /\ ~cli[c].stalled
    /\ Move(c, IF scenario.pkgs = <<>> THEN ToDistfiles(cli[c], "remote")
               ELSE [cli[c] EXCEPT !.pc = "inspect"])
    /\ Keep

\* The configuration cannot be read, the server cannot be reached, refuses the
\* order, or reports failed packages.
RemoteFails(c) ==
    /\ cli[c].pc \in {"start", "negotiate", "submit", "stream"}
    /\ cli[c].pc = "start" => scenario.request = "good"
    /\ Fault
    /\ Move(c, End(cli[c], "failed"))
    /\ UNCHANGED <<diskVars, worldVars, reruns>>

-----------------------------------------------------------------------------
(* One file: sync_single_binpkg, restore_single_snapshot_file and          *)
(* restore_single_parity_file.                                             *)

\* The path of a parity file, which sanitize_binpkg_path leaves as it is.
resolve_parity_target(t) ==
    IF t = "Packages" THEN BinpkgIndex ELSE Append(scenario.root, t)

Excluded(r) == r.stage = "files" /\ ~is_approved_parity_path(resolve_parity_target(Target(r)))

Inspect(c) ==
    LET r == cli[c] IN
    /\ r.pc = "inspect"
    /\ Move(c, IF Excluded(r) THEN ItemFailed(r)
               ELSE IF Matches(r, Want(c)) THEN AfterItem(r) ELSE [r EXCEPT !.pc = "fetch"])
    /\ Keep

\* A package comes from the binhost, anything else from the blob store.
Source(r, c) == IF r.stage = "sync" THEN served[Target(r)] ELSE Want(c)

\* A new name in the parity directory changes its mtime.
TouchDir(t) == dir' = IF t = "state" THEN [dir EXCEPT !.stamped = FALSE] ELSE dir

Fetch_inPlace(c) ==
    LET r == cli[c]
        t == Target(r)
        f == Created(files[t], "final", Unused(t))
    IN /\ r.pc = "fetch"
       /\ ~r.stalled
       /\ Source(r, c) # Absent
       /\ files' = [files EXCEPT ![t] = [f EXCEPT !.part = f.final]]
       /\ Move(c, [r EXCEPT !.pc = "write", !.node = f.final, !.content = Source(r, c)])
       /\ TouchDir(t)
       /\ UNCHANGED <<link, worldVars, faults, reruns>>

\* The response has arrived: .part is created and emptied.
Fetch(c) ==
    LET r == cli[c]
        t == Target(r)
        f == Created(files[t], "part", Unused(t))
    IN /\ r.pc = "fetch"
       /\ ~r.stalled
       /\ Source(r, c) # Absent
       /\ t = "state" => dir.is = "dir"
       /\ files' = [files EXCEPT ![t] = f]
       /\ Move(c, [r EXCEPT !.pc = "write", !.node = f.part, !.content = Source(r, c)])
       /\ TouchDir(t)
       /\ UNCHANGED <<link, worldVars, faults, reruns>>

\* The package is gone from the binhost, or the parent directory is a file.
FetchRefused(c) ==
    LET r == cli[c] IN
    /\ r.pc = "fetch"
    /\ Source(r, c) = Absent \/ (Target(r) = "state" /\ dir.is # "dir")
    /\ Move(c, ItemFailed(r))
    /\ Keep

Write(c) ==
    LET r == cli[c]
        t == Target(r)
    IN /\ r.pc = "write"
       /\ ~r.stalled
       /\ Move(c, IF r.off + 1 < Size THEN [r EXCEPT !.off = @ + 1]
                  ELSE [r EXCEPT !.pc = "verify", !.node = NoNode, !.off = 0, !.content = Absent])
       /\ files' = [files EXCEPT ![t] =
              Tidy(Chunk(files[t], r.node, r.off, r.content), Open(t, cli'))]
       /\ UNCHANGED <<dir, link, worldVars, faults, reruns>>

\* A transfer breaks, or has stalled and meets the deadline that the HTTP client
\* gives every request with its body.
Broken(r) == IF r.stalled THEN faults' = faults ELSE Fault

\* The transfer breaks, before .part is made or half-way.
TransferFails(c) ==
    LET r == cli[c] IN
    /\ r.pc \in {"fetch", "write"}
    /\ Broken(r)
    /\ Move(c, ItemFailed([r EXCEPT !.stalled = FALSE]))
    /\ files' = [files EXCEPT ![Target(r)] = Tidy(files[Target(r)], Open(Target(r), cli'))]
    /\ UNCHANGED <<dir, link, worldVars, reruns>>

Verify_sizeOnly(c) ==
    LET r == cli[c]
        f == files[Target(r)]
    IN /\ r.pc = "verify"
       /\ Move(c, IF f.part # NoNode /\ Len(f.data[f.part]) = Size
                  THEN [r EXCEPT !.pc = "rename"] ELSE ItemFailed(r))
       /\ Keep

\* The size and the digest of .part, which is looked up by its name.
Verify(c) ==
    LET r == cli[c]
        f == files[Target(r)]
    IN /\ r.pc = "verify"
       /\ Move(c, IF f.part # NoNode /\ f.data[f.part] = Whole(Want(c))
                     /\ Described(r)
                  THEN [r EXCEPT !.pc = "rename"] ELSE ItemFailed(r))
       /\ Keep

\* .part takes the final name; a distfile or parity file gets its mtime.
Rename(c) ==
    LET r == cli[c]
        t == Target(r)
        f == files[t]
    IN /\ r.pc = "rename"
       /\ Move(c, IF f.part = NoNode THEN ItemFailed(r)
                  ELSE IF r.stage = "sync" THEN AfterItem(r) ELSE [r EXCEPT !.pc = "recheck"])
       /\ files' = IF f.part = NoNode THEN files
                   ELSE [files EXCEPT ![t] =
                       Tidy([f EXCEPT !.final = f.part, !.part = NoNode,
                                      !.stamped = IF r.stage = "sync" THEN @ ELSE @ \cup {f.part}],
                            Open(t, cli))]
       /\ TouchDir(t)
       /\ UNCHANGED <<link, worldVars, faults, reruns>>

Recheck(c) ==
    LET r == cli[c] IN
    /\ r.pc = "recheck"
    /\ Move(c, IF Matches(r, Want(c)) THEN AfterItem(r) ELSE ItemFailed(r))
    /\ Keep

-----------------------------------------------------------------------------
(* The Packages index, which is downloaded over the file itself.           *)

Index(c) ==
    LET r == cli[c]
        f == Created(files["Packages"], "final", Unused("Packages"))
    IN /\ r.pc = "index"
       /\ ~r.stalled
       /\ files' = [files EXCEPT !["Packages"] = f]
       /\ Move(c, [r EXCEPT !.pc = "index_write", !.node = f.final])
       /\ UNCHANGED <<dir, link, worldVars, faults, reruns>>

\* A relative PKGDIR has no file:// URI, whatever has been copied into it.
file_binhost_uri == IF scenario.pkgdir = "absolute" THEN "local" ELSE "remote"

IndexWrite(c) ==
    LET r == cli[c] IN
    /\ r.pc = "index_write"
    /\ ~r.stalled
    /\ Move(c, IF r.off + 1 < Size THEN [r EXCEPT !.off = @ + 1] ELSE ToDistfiles(r, file_binhost_uri))
    /\ files' = [files EXCEPT !["Packages"] =
           Tidy(Chunk(files["Packages"], r.node, r.off, Listing), Open("Packages", cli'))]
    /\ UNCHANGED <<dir, link, worldVars, faults, reruns>>

\* A refresh that fails is only logged: the run goes on as if it had not.
IndexFails(c) ==
    LET r == cli[c] IN
    /\ r.pc \in {"index", "index_write"}
    /\ Broken(r)
    /\ Move(c, ToDistfiles([r EXCEPT !.lost = TRUE], file_binhost_uri))
    /\ files' = [files EXCEPT !["Packages"] = Tidy(files["Packages"], Open("Packages", cli'))]
    /\ UNCHANGED <<dir, link, worldVars, reruns>>

-----------------------------------------------------------------------------
(* reconcile_final_state_parity_into: directories, symlinks and files, the *)
(* mtimes of the directories, and a check of it all.                       *)

Dirs(c) ==
    LET r == cli[c] IN
    /\ r.pc = "dirs"
    /\ dir' = IF dir.is = Absent /\ is_approved_parity_path(scenario.root) THEN [is |-> "dir", stamped |-> FALSE] ELSE dir
    /\ Move(c, [r EXCEPT !.pc = IF scenario.tree THEN "links" ELSE "files",
                         !.issues = @ \/ dir.is = "file" \/ ~is_approved_parity_path(scenario.root)])
    /\ UNCHANGED <<files, link, worldVars, faults, reruns>>

symlink_matches(c) == link = [to |-> Want(c), stamped |-> TRUE]

\* The target of the symlink is downloaded, checked and read into memory.
Links(c) ==
    LET r == cli[c] IN
    /\ r.pc = "links"
    /\ ~r.stalled
    /\ Move(c, IF symlink_matches(c) THEN [r EXCEPT !.pc = "files"]
               ELSE IF dir.is # "dir" THEN [r EXCEPT !.pc = "files", !.issues = TRUE]
               ELSE [r EXCEPT !.pc = "unlink"])
    /\ dir' = IF symlink_matches(c) \/ dir.is # "dir" THEN dir ELSE [dir EXCEPT !.stamped = FALSE]
    /\ UNCHANGED <<files, link, worldVars, faults, reruns>>

LinksFail(c) ==
    /\ cli[c].pc = "links"
    /\ cli[c].stalled \/ ~symlink_matches(c)
    /\ Broken(cli[c])
    /\ Move(c, [cli[c] EXCEPT !.pc = "files", !.issues = TRUE, !.stalled = FALSE])
    /\ UNCHANGED <<diskVars, worldVars, reruns>>

\* What has the name of the symlink is removed, unless it is a directory.
Unlink(c) ==
    LET r == cli[c] IN
    /\ r.pc = "unlink"
    /\ Move(c, IF link.to = "dir" THEN [r EXCEPT !.pc = "files", !.issues = TRUE]
               ELSE [r EXCEPT !.pc = "relink"])
    /\ link' = IF link.to = "dir" THEN link ELSE [to |-> Absent, stamped |-> FALSE]
    /\ dir' = [dir EXCEPT !.stamped = FALSE]
    /\ UNCHANGED <<files, worldVars, faults, reruns>>

Relink(c) ==
    /\ cli[c].pc = "relink"
    /\ Move(c, [cli[c] EXCEPT !.pc = "files"])
    /\ link' = [to |-> Want(c), stamped |-> TRUE]
    /\ dir' = [dir EXCEPT !.stamped = FALSE]
    /\ UNCHANGED <<files, worldVars, faults, reruns>>

Files(c) ==
    /\ cli[c].pc = "files"
    /\ Move(c, ToFiles(cli[c]))
    /\ Keep

Finalize_never(c) ==
    /\ cli[c].pc = "finalize"
    /\ Move(c, [cli[c] EXCEPT !.pc = "check"])
    /\ Keep

Finalize(c) ==
    LET r == cli[c] IN
    /\ r.pc = "finalize"
    /\ Move(c, [r EXCEPT !.pc = "check", !.issues = @ \/ (scenario.tree /\ dir.is # "dir")])
    /\ dir' = IF scenario.tree /\ dir.is = "dir" THEN [dir EXCEPT !.stamped = TRUE] ELSE dir
    /\ UNCHANGED <<files, link, worldVars, faults, reruns>>

ParityHolds(c) ==
    /\ scenario.tree => dir = [is |-> "dir", stamped |-> TRUE] /\ symlink_matches(c)
    /\ \A t \in Range(scenario.files) : file_matches(t, Want(c))

\* Any issue stops the run before the local emerge.
Check(c) ==
    LET r == cli[c] IN
    /\ r.pc = "check"
    /\ Move(c, IF r.issues \/ ~ParityHolds(c) THEN End(r, "failed") ELSE [r EXCEPT !.pc = "emerge"])
    /\ Keep

\* Without atoms emerge runs as it is; otherwise with the binhost of the run.
Emerge(c) ==
    /\ cli[c].pc \in {"plain", "emerge"}
    /\ Move(c, End(cli[c], "done"))
    /\ Keep

EmergeFails(c) ==
    /\ cli[c].pc \in {"plain", "emerge"}
    /\ Fault
    /\ Move(c, End(cli[c], "failed"))
    /\ UNCHANGED <<diskVars, worldVars, reruns>>

-----------------------------------------------------------------------------
(* Stalls, the watchdog, and the world around the CLI.                     *)

\* The other side stops sending without closing the connection: in a transfer, or
\* when a WebSocket is opened for an upload or for the progress of the build.
Connecting == {"negotiate", "stream"}
Stall(c) ==
    /\ cli[c].pc \in {"fetch", "write", "index", "index_write", "links"} \cup Connecting
    /\ cli[c].pc = "links" => ~symlink_matches(c)
    /\ ~cli[c].stalled
    /\ Fault
    /\ Move(c, [cli[c] EXCEPT !.stalled = TRUE])
    /\ UNCHANGED <<diskVars, worldVars, reruns>>

Dropped(c) == files' = [t \in Targets |-> Tidy(files[t], Open(t, cli'))]

\* run_with_watchdog drops the restoration where it is; a slow one counts as a
\* failure of the machine.
Watchdog(c) ==
    /\ Restoring(cli[c])
    /\ Broken(cli[c])
    /\ Move(c, End(cli[c], "failed"))
    /\ Dropped(c)
    /\ UNCHANGED <<dir, link, worldVars, reruns>>

\* The process is killed.
Kill(c) ==
    /\ cli[c].pc \notin Ended
    /\ Fault
    /\ Move(c, End(cli[c], "killed"))
    /\ Dropped(c)
    /\ UNCHANGED <<dir, link, worldVars, reruns>>

Rerun(c) ==
    /\ cli[c].pc \in {"failed", "killed"}
    /\ reruns < scenario.reruns
    /\ reruns' = reruns + 1
    /\ Move(c, NewCli)
    /\ UNCHANGED <<diskVars, worldVars, faults>>

\* Another build replaces a package on the binhost, or a cleanup removes it.
ServerReplaces ==
    /\ Fault
    /\ \E t \in Range(scenario.pkgs) : \E v \in (Contents \cup {Absent}) \ {served[t]} :
           served' = [served EXCEPT ![t] = v]
    /\ replaced' = TRUE
    /\ UNCHANGED <<scenario, cli, diskVars, reruns, shared>>

CliStep(c) ==
    \/ Start(c) \/ Negotiate(c) \/ Submit(c) \/ Stream(c)
    \/ Inspect(c) \/ Fetch(c) \/ FetchRefused(c) \/ Write(c) \/ Verify(c) \/ Rename(c) \/ Recheck(c)
    \/ Index(c) \/ IndexWrite(c)
    \/ Dirs(c) \/ Links(c) \/ Unlink(c) \/ Relink(c) \/ Files(c) \/ Finalize(c) \/ Check(c)
    \/ Emerge(c)

CliFault(c) ==
    \/ RemoteFails(c) \/ TransferFails(c) \/ IndexFails(c) \/ LinksFail(c) \/ EmergeFails(c)
    \/ Stall(c) \/ Kill(c) \/ Rerun(c)

Next ==
    \/ \E c \in Clis : CliStep(c) \/ Watchdog(c) \/ CliFault(c)
    \/ ServerReplaces

Spec == Init /\ [][Next]_vars

Deadline_headersOnly(c) ==
    cli[c].stalled /\ cli[c].pc \notin {"write", "index_write"}
        /\ (TransferFails(c) \/ IndexFails(c) \/ LinksFail(c))

\* A request that has stalled for the 30 seconds of RemergeClient::new fails.
Deadline(c) == cli[c].stalled /\ (TransferFails(c) \/ IndexFails(c) \/ LinksFail(c))

\* A CLI that can take a step takes it, and a request meets its deadline.
FairSpec == Spec /\ \A c \in Clis : WF_vars(CliStep(c)) /\ WF_vars(Deadline(c))

-----------------------------------------------------------------------------
TypeOK ==
    /\ \A c \in Clis :
        /\ cli[c].pc \in Ended \cup
               {"start", "plain", "negotiate", "submit", "stream", "inspect", "fetch", "write",
                "verify", "rename", "recheck", "index", "index_write", "dirs", "links", "unlink",
                "relink", "files", "finalize", "check", "emerge"}
        /\ cli[c].stage \in {"sync", "dist", "files"}
        /\ cli[c].uri \in {"none", "local", "remote"}
        /\ cli[c].node \in Nodes \cup {NoNode}
        /\ cli[c].off \in 0..Size - 1
    /\ \A t \in Targets :
        /\ {files[t].final, files[t].part} \subseteq Nodes \cup {NoNode}
        /\ \A n \in Nodes : /\ Len(files[t].data[n]) <= Size
                            /\ Range(files[t].data[n]) \subseteq Contents \cup {Zero, Listing}
        /\ files[t].stamped \subseteq Nodes
    /\ dir.is \in {Absent, "dir", "file"}
    /\ link.to \in Contents \cup {Absent, "elsewhere", "dir"}
    /\ served \in [Targets -> Contents \cup {Absent}]
    /\ faults \in 0..scenario.faults
    /\ reruns \in 0..scenario.reruns

\* While no two CLIs work on the machine at once, the local emerge starts with
\* what its build produced: with the local binhost every package of the result
\* is in PKGDIR with the digest of the result and the index is whole unless its
\* refresh failed, and distfiles and parity match their manifests.  Rebuilds on
\* the binhost, broken transfers and runs killed half-way do not change that.
EmergeInputsVerified ==
    \A c \in Clis : cli[c].pc = "emerge" /\ ~shared =>
        /\ cli[c].uri = "local" => \A t \in Range(scenario.pkgs) : is_package_cached(t, Want(c))
        /\ cli[c].uri = "local" /\ ~cli[c].lost =>
               is_package_cached("Packages", Listing) \/ is_package_cached("Packages", Want(c))
        /\ \A t \in Range(scenario.dist) : file_matches(t, Want(c))
        /\ ParityHolds(c)

\* A package under its final name in PKGDIR is whole, at every moment, while no
\* two CLIs work on the machine at once: .part keeps what is incomplete away.
CachedPackageWhole ==
    ~shared => \A t \in {"pkg1", "pkg2"} :
        files[t].final # NoNode => \E v \in Contents : is_package_cached(t, v)

\* A run fails, or leaves the local binhost although its packages have digests and
\* PKGDIR has a URI, only after a failure, for a request Cli::run refuses, or where
\* something is in the way of the parity entries: the sync and the restoration do
\* not defeat their own checks.
FailureExcused ==
    \A c \in Clis :
        \/ cli[c].pc = "failed"
        \/ /\ cli[c].uri = "remote" /\ scenario.pkgs # <<>>
           /\ scenario.digests /\ scenario.pkgdir = "absolute"
        => \/ faults > 0 \/ replaced \/ shared
           \/ scenario.request \in {"empty", "bad"}
           \/ dir.is = "file" \/ link.to = "dir"

\* The versions that compare_versions orders in a way of its own.  Either the
\* dotted numbers of one begin those of the other, and it has a letter or a suffix
\* p; or the first numbers that differ, after the first of all, are of different
\* length and one has leading zeros, as in 1.01 and 1.1.
LengthApart(x, y) ==
    /\ Len(x.dots) < Len(y.dots)
    /\ \A i \in 1..Len(x.dots) : x.dots[i].value = y.dots[i].value
    /\ x.letter # 0 \/ (x.suffixes # <<>> /\ x.suffixes[1].kind = p)
ZerosApart(v, w) ==
    \E i \in 2..Len(v.dots) :
        /\ i <= Len(w.dots)
        /\ \A j \in 1..i - 1 : v.dots[j].value = w.dots[j].value
        /\ LeadingZero(v.dots[i]) \/ LeadingZero(w.dots[i])
        /\ v.dots[i].width # w.dots[i].width
        /\ v.dots[i].value # 0 /\ w.dots[i].value # 0
OrderedApart(v, w) == LengthApart(v, w) \/ LengthApart(w, v) \/ ZerosApart(v, w)

\* A package is skipped as installed only if the installed version satisfies the
\* atom by the rules of the PMS, but for versions compare_versions orders in a
\* way of its own and globs, which is_installed matches as text.
SkipSound ==
    \A c \in Clis : cli[c].pc = "skipped" =>
        \/ PMSSatisfies(scenario.op, scenario.installed[1], scenario.constraint)
        \/ scenario.op \in {">=", "<=", ">", "<"}
             /\ OrderedApart(scenario.installed[1], scenario.constraint)
        \/ scenario.op = "=*"


=============================================================================
