---------------------------- MODULE Maintenance ----------------------------
(***************************************************************************)
(* What outlives a workorder and is cleaned up behind the builds: the      *)
(* Docker images of the workers, with the reaper that removes idle ones    *)
(* (run_image_reaper), and the package repository, with the index that     *)
(* every build regenerates and the hourly removal of old versions          *)
(* (cleanup_old_versions).  Build tasks are seen from the image to the     *)
(* result; the rest of them is in Workorders.                              *)
(*                                                                         *)
(* A package file is its base (category and name), its version and who     *)
(* built it, which stands for its size and digest.  The clock is left out: *)
(* image_last_used has for each tag the tags last used after it, and Tick  *)
(* says which of them were last used longer ago than worker_idle_timeout.  *)
(*                                                                         *)
(* A definition whose name ends in _<what> is a faulty variant of the one  *)
(* it precedes; no specification here uses it.                             *)
(***************************************************************************)
EXTENDS Integers, FiniteSets

CONSTANTS
    Tasks,      \* build tasks
    Tags,       \* image tags
    Tuple(_),   \* the CHOST and profile of a tag, without its GCC version
    Bases,      \* packages
    Unscanned,  \* those in a category whose name has no '-', such as virtual
    Versions,   \* their versions, numbers in the order of the versions
    NameRank(_),\* the place of a version in the order of the file names
    Keep,       \* versions of a package that cleanup keeps
    Scenarios   \* orders and what earlier builds left, taken together

ASSUME MaintenanceAssumption ==
    /\ Keep \in Nat \ {0}
    /\ Versions \subseteq Nat
    /\ \A v, w \in Versions : NameRank(v) = NameRank(w) => v = w
\* An order is queued, under way or over. A scenario has the packages that are or
\* come to be in the repository; a scan always reads some directory, the top level.
ASSUME ScenarioAssumption ==
    \A s \in Scenarios :
        /\ s.orders \in [Tasks -> [at : {"check", "running", "done"}, tag : Tags, base : s.bases,
                                  ver : Versions]]
        /\ s.image \in [Tags -> {"absent", "stale", "current"}]
        /\ \A f \in s.files : f.base \in s.bases
        /\ s.bases \ Unscanned # {}
\* The last uses have an order, and the last use of a CHOST and profile was of an
\* image that was there.
ASSUME UsedAssumption ==
    IsFiniteSet(Tags) /\ \A s \in Scenarios :
        LET tags == DOMAIN s.used IN
        /\ tags \subseteq Tags
        /\ \A u \in tags : s.used[u] \subseteq tags \ {u}
        /\ \A u \in tags : \A v \in s.used[u] : s.used[v] \subseteq s.used[u]
        /\ \A u \in tags : (\A v \in s.used[u] : Tuple(v) # Tuple(u)) => s.image[u] # "absent"

VARIABLES
    scenario,  \* the scenario of this behaviour
    image,     \* tag -> the image Docker has under it
    used,      \* image_last_used: tag -> the tags last used after it
    idle,      \* those of them that were last used too long ago
    task,      \* where each build task is
    results,   \* the packages in the result of each task
    files,     \* package files in the repository
    index,     \* the packages in its Packages file
    reaper,    \* the expired tags the reaper has yet to remove
    cleaner,   \* where the hourly cleanup is
    faults,    \* failures so far
    marked,    \* tasks whose image the reaper chose before they recorded its use
    lagging    \* regenerations overlapped, or one did not take in what there is

imageVars == <<image, used, idle, reaper, marked>>
repoVars == <<results, files, index, cleaner, lagging>>
vars == <<scenario, image, used, idle, task, results, files, index, reaper, cleaner, faults,
          marked, lagging>>

NoTag == "none"
NotRead == "unknown"   \* the size and digest of a package that was not read

Order(t) == scenario.orders[t]

\* The files that a scan can find.
Listed == {f \in files : f.base \notin Unscanned}

Idle == [pc |-> "idle", left |-> {}, seen |-> {}]

Init ==
    /\ scenario \in Scenarios
    /\ image = scenario.image
    /\ used = scenario.used
    /\ idle = {}
    /\ task = [t \in Tasks |-> [Idle EXCEPT !.pc = Order(t).at]]
    /\ results = [t \in Tasks |-> {}]
    /\ files = scenario.files
    /\ index = Listed
    /\ reaper = [list |-> {}, at |-> NoTag]
    /\ cleaner = [Idle EXCEPT !.pc = "wait"]
    /\ faults = 0
    /\ marked = {}
    /\ lagging = FALSE

Fault == faults < scenario.faults /\ faults' = faults + 1

-----------------------------------------------------------------------------
(* The image of a worker.                                                  *)

Goto(t, pc) == task' = [task EXCEPT ![t] = [Idle EXCEPT !.pc = pc]]
image_needs_rebuild(tag) == image[tag] # "current"

Check(t) ==
    /\ task[t].pc = "check"
    /\ Goto(t, IF image_needs_rebuild(Order(t).tag) THEN "build" ELSE "record")
    /\ marked' = IF Order(t).tag \in reaper.list THEN marked \cup {t} ELSE marked
    /\ UNCHANGED <<scenario, image, used, idle, reaper, repoVars, faults>>

\* build_worker_image: the cached base image, where it has to be built, and the
\* image of the worker on top of it.
BuildImage(t) ==
    /\ task[t].pc = "build"
    /\ image' = [image EXCEPT ![Order(t).tag] = "current"]
    /\ Goto(t, "record")
    /\ UNCHANGED <<scenario, used, idle, reaper, marked, repoVars, faults>>

BuildImageFails(t) ==
    /\ task[t].pc = "build"
    /\ Fault
    /\ Goto(t, "failed")
    /\ UNCHANGED <<scenario, imageVars, repoVars>>

Record(t) ==
    LET tag == Order(t).tag IN
    /\ task[t].pc = "record"
    /\ used' = [u \in DOMAIN used \cup {tag} |-> IF u = tag THEN {} ELSE used[u] \cup {tag}]
    /\ idle' = idle \ {tag}
    /\ Goto(t, "create")
    /\ UNCHANGED <<scenario, image, reaper, marked, repoVars, faults>>

\* start_worker, after the runtime is staged: Docker has no container for an
\* image that is gone.
Create(t) ==
    /\ task[t].pc = "create"
    /\ Goto(t, IF image[Order(t).tag] = "absent" THEN "no_image" ELSE "running")
    /\ UNCHANGED <<scenario, imageVars, repoVars, faults>>

-----------------------------------------------------------------------------
(* The package repository.                                                 *)

OfBase(set, base) == {f \in set : f.base = base}

\* scan_packages reads one category after another, those with a '-' in their name.
scanned == scenario.bases \ Unscanned
Start(actor, pc) == [actor EXCEPT !.pc = pc, !.left = scanned, !.seen = {}]

\* A directory that cannot be opened and a file that cannot be read are passed
\* over, and the scan goes on without them.
scan_directory(actor, base, missed) ==
    [actor EXCEPT !.left = @ \ {base}, !.seen = @ \cup (OfBase(files, base) \ missed)]
Misses(base, missed) ==
    \/ missed = {} /\ UNCHANGED faults
    \/ missed # {} /\ missed \subseteq OfBase(files, base) /\ Fault

\* Between the first read of a regeneration and its rename of the new index.
Regenerating(actor) ==
    \/ actor.pc = "rescan" /\ actor.left # scanned
    \/ actor.pc = "publish"
Overlap(tasks, clean) ==
    \/ \E t, u \in Tasks : t # u /\ Regenerating(tasks[t]) /\ Regenerating(tasks[u])
    \/ Regenerating(clean) /\ \E t \in Tasks : Regenerating(tasks[t])

\* The worker leaves the package, over a file of the same name.
Emerged(t) ==
    {f \in files : f.base # Order(t).base \/ f.ver # Order(t).ver}
    \cup {[base |-> Order(t).base, ver |-> Order(t).ver, by |-> t]}

Emerge(t) ==
    /\ task[t].pc = "running"
    /\ files' = Emerged(t)
    /\ task' = [task EXCEPT ![t] = Start(@, "scan")]
    /\ UNCHANGED <<scenario, imageVars, results, index, cleaner, faults, lagging>>

\* The worker fails before it has built the package or after: a failed build
\* does not look at the repository.
EmergeFails(t) ==
    /\ task[t].pc = "running"
    /\ Fault
    /\ files' \in {files, Emerged(t)}
    /\ lagging' = (lagging \/ files' # files)
    /\ Goto(t, "failed")
    /\ UNCHANGED <<scenario, imageVars, results, index, cleaner>>

\* The files of the package that was asked for, every version of it; the order
\* itself, unread, if the scan fails or finds none.
Unread(t) == {[base |-> Order(t).base, ver |-> Order(t).ver, by |-> NotRead]}
Found(t, seen) ==
    LET own == {f \in seen : f.base = Order(t).base} IN IF own = {} THEN Unread(t) ELSE own

Scan(t) ==
    /\ task[t].pc = "scan"
    /\ \E base \in task[t].left, missed \in SUBSET files :
        LET next == scan_directory(task[t], base, missed) IN
        /\ Misses(base, missed)
        /\ task' = [task EXCEPT ![t] = IF next.left = {} THEN Start(next, "rescan") ELSE next]
        /\ results' = IF next.left = {} THEN [results EXCEPT ![t] = Found(t, next.seen)] ELSE results
    /\ UNCHANGED <<scenario, imageVars, files, index, cleaner, lagging>>

ScanFails(t) ==
    /\ task[t].pc = "scan"
    /\ Fault
    /\ task' = [task EXCEPT ![t] = Start(@, "rescan")]
    /\ results' = [results EXCEPT ![t] = Unread(t)]
    /\ UNCHANGED <<scenario, imageVars, files, index, cleaner, lagging>>

Rescan_skipped(t) ==
    /\ task[t].pc = "rescan"
    /\ task' = [task EXCEPT ![t] = [@ EXCEPT !.pc = "publish", !.seen = index \cup results[t]]]
    /\ lagging' = (lagging \/ Overlap(task', cleaner))
    /\ UNCHANGED <<scenario, imageVars, results, files, index, cleaner, faults>>

\* regenerate_index reads the repository again.
Rescan(t) ==
    /\ task[t].pc = "rescan"
    /\ \E base \in task[t].left, missed \in SUBSET files :
        LET next == scan_directory(task[t], base, missed) IN
        /\ Misses(base, missed)
        /\ task' = [task EXCEPT ![t] = IF next.left = {} THEN [next EXCEPT !.pc = "publish"] ELSE next]
        /\ lagging' = (lagging \/ missed # {} \/ Overlap(task', cleaner))
    /\ UNCHANGED <<scenario, imageVars, results, files, index, cleaner>>

\* write_bytes_with_atomic_replace, and the result is stored.
Publish(t) ==
    /\ task[t].pc = "publish"
    /\ index' = task[t].seen
    /\ Goto(t, "done")
    /\ UNCHANGED <<scenario, imageVars, results, files, cleaner, faults, lagging>>

\* An index that cannot be regenerated is only logged.
PublishFails(t) ==
    /\ task[t].pc \in {"rescan", "publish"}
    /\ Fault
    /\ Goto(t, "done")
    /\ lagging' = TRUE
    /\ UNCHANGED <<scenario, imageVars, results, files, index, cleaner>>

TaskStep(t) ==
    \/ Check(t) \/ BuildImage(t) \/ Record(t) \/ Create(t) \/ Emerge(t)
    \/ Scan(t) \/ Rescan(t) \/ Publish(t)
TaskFault(t) == BuildImageFails(t) \/ EmergeFails(t) \/ ScanFails(t) \/ PublishFails(t)

-----------------------------------------------------------------------------
(* The image reaper.                                                       *)

\* One protection slot for each CHOST and profile: the GCC versions share it, as
\* the comment in run_image_reaper says. config/server.example.toml and
\* CHANGELOG.md promise one for each (CHOST, profile, GCC), which is not what it does.
newest_per_tuple(tag) == \A other \in used[tag] : Tuple(other) # Tuple(tag)

Expired_unprotected == {tag \in DOMAIN used : tag \in idle}

Expired_anyAge == {tag \in DOMAIN used : Cardinality(DOMAIN used) > 1}

Expired == {tag \in DOMAIN used : tag \in idle /\ ~newest_per_tuple(tag)}

\* Time passes.  A task stages its runtime in less than worker_idle_timeout.
Tick ==
    /\ \E tag \in DOMAIN used \ idle :
        /\ \A t \in Tasks : task[t].pc = "create" => Order(t).tag # tag
        /\ idle' = idle \cup {tag}
    /\ UNCHANGED <<scenario, image, used, task, reaper, marked, repoVars, faults>>

ReaperPass ==
    /\ reaper.list = {}
    /\ Expired # {}
    /\ reaper' = [list |-> Expired, at |-> NoTag]
    /\ marked' = marked \cup {t \in Tasks : task[t].pc \in {"build", "record"} /\ Order(t).tag \in Expired}
    /\ UNCHANGED <<scenario, image, used, idle, task, repoVars, faults>>

\* The removal is forced: Docker takes the tag off an image in use, or refuses
\* while a container of it runs, which is only logged.
ReaperRemove ==
    /\ reaper.at = NoTag
    /\ \E tag \in reaper.list :
        /\ reaper' = [reaper EXCEPT !.at = tag]
        /\ \/ image' = [image EXCEPT ![tag] = "absent"]
           \/ /\ \E t \in Tasks : task[t].pc = "running" /\ Order(t).tag = tag
              /\ UNCHANGED image
    /\ UNCHANGED <<scenario, used, idle, task, marked, repoVars, faults>>

ReaperRemoveFails ==
    /\ reaper.at = NoTag
    /\ Fault
    /\ \E tag \in reaper.list : reaper' = [reaper EXCEPT !.at = tag]
    /\ UNCHANGED <<scenario, image, used, idle, task, marked, repoVars>>

ReaperForget_keepsEntry ==
    /\ reaper.at # NoTag
    /\ reaper' = [list |-> reaper.list \ {reaper.at}, at |-> NoTag]
    /\ UNCHANGED <<scenario, image, used, idle, task, marked, repoVars, faults>>

\* The tag is forgotten whether its image is gone or not.
ReaperForget ==
    /\ reaper.at # NoTag
    /\ used' = [u \in DOMAIN used \ {reaper.at} |-> used[u] \ {reaper.at}]
    /\ idle' = idle \ {reaper.at}
    /\ reaper' = [list |-> reaper.list \ {reaper.at}, at |-> NoTag]
    /\ UNCHANGED <<scenario, image, task, marked, repoVars, faults>>

ReaperStep == ReaperPass \/ ReaperRemove \/ ReaperForget

-----------------------------------------------------------------------------
(* The hourly cleanup.                                                     *)

\* The files of a package but the last Keep in the order of their names.
ToRemove(seen) ==
    {f \in seen : Cardinality({g \in OfBase(seen, f.base) : NameRank(g.ver) > NameRank(f.ver)}) >= Keep}

\* The hour comes round.
CleanStart ==
    /\ cleaner.pc = "wait"
    /\ cleaner' = Start(cleaner, "scan")
    /\ UNCHANGED <<scenario, imageVars, task, results, files, index, faults, lagging>>

\* The scan ends with the files to remove, or with nothing to do.
CleanScan ==
    /\ cleaner.pc = "scan"
    /\ \E base \in cleaner.left, missed \in SUBSET files :
        LET next == scan_directory(cleaner, base, missed)
            doomed == ToRemove(next.seen)
        IN /\ Misses(base, missed)
           /\ cleaner' = IF next.left # {} THEN next
                         ELSE IF doomed = {} THEN [Idle EXCEPT !.pc = "wait"]
                         ELSE [pc |-> "remove", left |-> {}, seen |-> doomed]
    /\ UNCHANGED <<scenario, imageVars, task, results, files, index, lagging>>

\* A file is removed by its name: what a build has put there since goes too.  A
\* file that cannot be removed is only logged; left holds the packages of which
\* some file was removed.
AfterRemove(f, left) ==
    LET rest == cleaner.seen \ {f} IN
    IF rest # {} THEN [cleaner EXCEPT !.seen = rest, !.left = left]
    ELSE IF left # {} THEN Start(cleaner, "rescan")
    ELSE [Idle EXCEPT !.pc = "wait"]

CleanRemove ==
    /\ cleaner.pc = "remove"
    /\ \E f \in cleaner.seen :
        /\ files' = {g \in files : g.base # f.base \/ g.ver # f.ver}
        /\ cleaner' = AfterRemove(f, cleaner.left \cup {f.base})
    /\ UNCHANGED <<scenario, imageVars, task, results, index, faults, lagging>>

CleanRemoveFails ==
    /\ cleaner.pc = "remove"
    /\ Fault
    /\ \E f \in cleaner.seen : cleaner' = AfterRemove(f, cleaner.left)
    /\ UNCHANGED <<scenario, imageVars, task, results, files, index, lagging>>

CleanRescan ==
    /\ cleaner.pc = "rescan"
    /\ \E base \in cleaner.left, missed \in SUBSET files :
        LET next == scan_directory(cleaner, base, missed) IN
        /\ Misses(base, missed)
        /\ cleaner' = IF next.left = {} THEN [next EXCEPT !.pc = "publish"] ELSE next
        /\ lagging' = (lagging \/ missed # {} \/ Overlap(task, cleaner'))
    /\ UNCHANGED <<scenario, imageVars, task, results, files, index>>

CleanPublish ==
    /\ cleaner.pc = "publish"
    /\ index' = cleaner.seen
    /\ cleaner' = [Idle EXCEPT !.pc = "wait"]
    /\ UNCHANGED <<scenario, imageVars, task, results, files, faults, lagging>>

\* A scan that fails ends the pass; the removals before it are not undone.
CleanFails ==
    /\ cleaner.pc \in {"scan", "rescan", "publish"}
    /\ Fault
    /\ cleaner' = [Idle EXCEPT !.pc = "wait"]
    /\ lagging' = (lagging \/ cleaner.pc # "scan")
    /\ UNCHANGED <<scenario, imageVars, task, results, files, index>>

CleanStep ==
    CleanStart \/ CleanScan \/ CleanRemove \/ CleanRescan \/ CleanPublish

-----------------------------------------------------------------------------
Next ==
    \/ \E t \in Tasks : TaskStep(t) \/ TaskFault(t)
    \/ Tick
    \/ ReaperStep \/ ReaperRemoveFails
    \/ CleanStep \/ CleanRemoveFails \/ CleanFails

Spec == Init /\ [][Next]_vars

\* The reaper, a task of its own, runs on.
FairSpec == Spec /\ WF_vars(ReaperStep)

-----------------------------------------------------------------------------
Packages == [base : Bases, ver : Versions, by : Tasks \cup {"earlier", NotRead}]

TypeOK ==
    /\ image \in [Tags -> {"absent", "stale", "current"}]
    /\ DOMAIN used \subseteq Tags /\ \A tag \in DOMAIN used : used[tag] \subseteq DOMAIN used \ {tag}
    /\ idle \subseteq DOMAIN used
    /\ \A t \in Tasks :
        /\ task[t].pc \in {"check", "build", "record", "create", "running", "scan", "rescan",
                           "publish", "done", "failed", "no_image"}
        /\ task[t].left \subseteq Bases /\ task[t].seen \subseteq Packages
        /\ results[t] \subseteq Packages
    /\ files \subseteq Packages /\ index \subseteq Packages
    /\ reaper.list \subseteq Tags /\ reaper.at \in reaper.list \cup {NoTag}
    /\ cleaner.pc \in {"wait", "scan", "remove", "rescan", "publish"}
    /\ cleaner.left \subseteq Bases /\ cleaner.seen \subseteq Packages
    /\ faults \in 0..scenario.faults
    /\ marked \subseteq Tasks

\* A build finds no image for its container only if the reaper had chosen the
\* image before the build recorded its use: a recorded use protects the image
\* from every pass that starts after it.
MissingImageExcused == \A t \in Tasks : task[t].pc = "no_image" => t \in marked

\* run_image_reaper leaves every CHOST and profile in use an image to build with,
\* as long as it never chose one that a build was about to use.  (After such a
\* race the newest entry can stand for an image that is gone, and protects it.)
TupleKept ==
    marked = {} => \A tag \in DOMAIN used : \E other \in DOMAIN used :
        Tuple(other) = Tuple(tag) /\ image[other] # "absent"

\* When no build or cleanup is at work, the Packages index has exactly the files
\* of the categories that scan_packages reads, unless two regenerations overlapped
\* (the older scan may be published last), one failed or passed over a directory or
\* file it could not read, or a worker failed after it had left a package.
IndexExact ==
    /\ \A t \in Tasks : task[t].pc \notin {"scan", "rescan", "publish"}
    /\ cleaner.pc \in {"wait", "scan"}
    /\ ~lagging
    => index = Listed

\* An image that is idle and not the newest of its CHOST and profile is forgotten
\* by the reaper, or used again. The slot is that of the code: an image of another
\* GCC version goes too, although config/server.example.toml and CHANGELOG.md say
\* that the newest of every (CHOST, profile, GCC) stays.
DuplicatesReaped ==
    \A tag \in Tags :
        (tag \in idle /\ ~newest_per_tuple(tag)) ~> (tag \notin idle \/ newest_per_tuple(tag))

\* cleanup_old_versions, "keeping the `keep` most recent per CPV base": a file it
\* removes has Keep newer versions beside it.
NewestKept ==
    [][ \A f \in files : (cleaner.pc = "remove" /\ f \notin files' /\ cleaner' # cleaner)
            => Cardinality({g \in OfBase(files, f.base) : g.ver > f.ver}) >= Keep ]_vars

=============================================================================
