------------------------- MODULE MaintenanceProofs -------------------------
(***************************************************************************)
(* A recorded use protects an image from the reaper, and the index of the  *)
(* package repository follows its files, for every set of tasks, tags and  *)
(* packages, any orders and any failures.                                  *)
(***************************************************************************)
EXTENDS Maintenance, FiniteSetTheorems, WellFoundedInduction, TLAPS

Pcs == {"idle", "check", "build", "record", "create", "running", "scan", "rescan", "publish",
        "done", "failed", "no_image"}
CleanPcs == {"wait", "scan", "remove", "rescan", "publish"}
Fields == {"pc", "left", "seen"}
ImageStates == {"absent", "stale", "current"}

RangeInv ==
    /\ scenario \in Scenarios
    /\ image \in [Tags -> ImageStates]
    /\ DOMAIN task = Tasks
    /\ \A t \in Tasks : DOMAIN task[t] = Fields /\ task[t].pc \in Pcs
    /\ DOMAIN cleaner = Fields /\ cleaner.pc \in CleanPcs
    /\ DOMAIN reaper = {"list", "at"}

(***************************************************************************)
(* A build between its check of the image and its container, that the      *)
(* reaper has not overtaken.                                               *)
(***************************************************************************)
Protected(t) ==
    LET tag == Order(t).tag IN
    /\ task[t].pc \in {"build", "record", "create"} => tag \notin reaper.list
    /\ task[t].pc \in {"record", "create"} => image[tag] # "absent"
    /\ task[t].pc = "create" => tag \notin idle
    /\ task[t].pc # "no_image"
ImageInv == \A t \in Tasks \ marked : Protected(t)

(***************************************************************************)
(* The last uses are ordered, and while the reaper has overtaken no build, *)
(* the image last used of every CHOST and profile is there and not chosen. *)
(***************************************************************************)
UsedInv ==
    /\ DOMAIN used \subseteq Tags
    /\ \A tag \in DOMAIN used :
        /\ used[tag] \subseteq DOMAIN used \ {tag}
        /\ \A later \in used[tag] : used[later] \subseteq used[tag]
    /\ reaper.at # NoTag => reaper.at \in reaper.list
Standing(tag) == newest_per_tuple(tag) => image[tag] # "absent" /\ tag \notin reaper.list
NewestInv == marked = {} => \A tag \in DOMAIN used : Standing(tag)

(***************************************************************************)
(* A build or the cleanup that still has to read the whole repository, and *)
(* what one that is regenerating the index has read so far.                *)
(***************************************************************************)
Unstarted(actor) == actor.pc = "rescan" /\ actor.left = scanned
FreshTask(t) == task[t].pc = "scan" \/ Unstarted(task[t])
FreshCleaner == (cleaner.pc = "remove" /\ cleaner.left # {}) \/ Unstarted(cleaner)
NoneFresh == ~FreshCleaner /\ \A t \in Tasks : ~FreshTask(t)

HasRead(actor) == actor.seen = {f \in files : f.base \in scanned \ actor.left}

ScanShape(actor) ==
    /\ actor.pc = "rescan" => actor.left \subseteq scanned
    /\ Unstarted(actor) => actor.seen = {}
    /\ actor.pc = "publish" => actor.left = {}

IndexInv ==
    /\ \A f \in files : f.base \in scenario.bases
    /\ ScanShape(cleaner) /\ \A t \in Tasks : ScanShape(task[t])
    /\ ~lagging =>
        /\ ~Overlap(task, cleaner)
        /\ NoneFresh =>
            /\ \A t \in Tasks : Regenerating(task[t]) => HasRead(task[t])
            /\ Regenerating(cleaner) => HasRead(cleaner)
            /\ (~Regenerating(cleaner) /\ \A t \in Tasks : ~Regenerating(task[t])) => index = Listed

IInv == RangeInv /\ ImageInv /\ UsedInv /\ NewestInv /\ IndexInv

(***************************************************************************)
(* Records.                                                                *)
(***************************************************************************)
\* What the orders of a scenario name.
LEMMA OrderTyped ==
  ASSUME RangeInv, NEW t \in Tasks
  PROVE  /\ Order(t).tag \in Tags /\ Order(t).base \in scenario.bases
         /\ Order(t).at \in {"check", "running", "done"}
<1>1. Order(t) \in [at : {"check", "running", "done"}, tag : Tags, base : scenario.bases,
                    ver : Versions]
  BY ScenarioAssumption, Zenon DEF RangeInv, Order
<1> QED
  BY <1>1, Zenon

\* A task that goes elsewhere takes nothing along.
LEMMA GotoMove ==
  ASSUME RangeInv, NEW t \in Tasks, NEW pc, Goto(t, pc)
  PROVE  /\ task'[t].pc = pc /\ DOMAIN task' = Tasks /\ DOMAIN task'[t] = Fields
         /\ \A u \in Tasks \ {t} : task'[u] = task[u]
<1> DEFINE rec == [Idle EXCEPT !.pc = pc]
<1>1. rec.pc = pc /\ DOMAIN rec = Fields
  BY SMT DEF Idle, Fields
<1>2. task' = [task EXCEPT ![t] = rec] /\ DOMAIN task = Tasks
  BY Zenon DEF Goto, RangeInv
<1> HIDE DEF rec
<1>3. task'[t] = rec /\ DOMAIN task' = Tasks /\ \A u \in Tasks \ {t} : task'[u] = task[u]
  BY <1>2, Zenon
<1> QED
  BY <1>1, <1>3, Zenon

\* A task that goes on with its scans.
LEMMA TaskMove ==
  ASSUME RangeInv, NEW t \in Tasks, NEW rec, task' = [task EXCEPT ![t] = rec]
  PROVE  /\ task'[t] = rec /\ DOMAIN task' = Tasks
         /\ \A u \in Tasks \ {t} : task'[u] = task[u]
<1>1. DOMAIN task = Tasks
  BY Zenon DEF RangeInv
<1> QED
  BY <1>1, Zenon

LEMMA StartRecord ==
  ASSUME NEW actor, DOMAIN actor = Fields, NEW pc \in {"scan", "rescan"}
  PROVE  LET rec == Start(actor, pc) IN
         /\ rec.pc = pc /\ rec.left = scanned /\ rec.seen = {} /\ DOMAIN rec = Fields
<1> DEFINE bases == scanned
           rec == [actor EXCEPT !.pc = pc, !.left = bases, !.seen = {}]
<1>1. rec = Start(actor, pc)
  BY Zenon DEF Start
<1> HIDE DEF bases
<1>2. rec.pc = pc /\ rec.left = bases /\ rec.seen = {} /\ DOMAIN rec = Fields
  BY SMT DEF Fields
<1> HIDE DEF rec
<1> QED
  BY <1>1, <1>2, Zenon DEF bases

LEMMA ScanRecord ==
  ASSUME NEW actor, DOMAIN actor = Fields, NEW base, NEW missed
  PROVE  LET rec == scan_directory(actor, base, missed) IN
         /\ rec.pc = actor.pc /\ rec.left = actor.left \ {base}
         /\ rec.seen = actor.seen \cup (OfBase(files, base) \ missed) /\ DOMAIN rec = Fields
<1> DEFINE found == OfBase(files, base) \ missed
           rec == [actor EXCEPT !.left = @ \ {base}, !.seen = @ \cup found]
<1>1. rec = scan_directory(actor, base, missed)
  BY Zenon DEF scan_directory
<1> HIDE DEF found
<1>2. rec.pc = actor.pc /\ rec.left = actor.left \ {base} /\ rec.seen = actor.seen \cup found
      /\ DOMAIN rec = Fields
  BY SMT DEF Fields
<1> HIDE DEF rec
<1> QED
  BY <1>1, <1>2, Zenon DEF found

\* The last read of a regeneration is followed by its rename.
LEMMA PublishRecord ==
  ASSUME NEW rec, DOMAIN rec = Fields
  PROVE  LET next == [rec EXCEPT !.pc = "publish"] IN
         /\ next.pc = "publish" /\ next.left = rec.left /\ next.seen = rec.seen
         /\ DOMAIN next = Fields
  BY SMT DEF Fields

LEMMA WaitRecord ==
  LET rec == [Idle EXCEPT !.pc = "wait"] IN
  rec.pc = "wait" /\ rec.left = {} /\ DOMAIN rec = Fields
  BY SMT DEF Idle, Fields

(***************************************************************************)
(* Ranges.                                                                 *)
(***************************************************************************)
\* The steps of a build up to its container, and those with the repository.
ImageStep(t) == Check(t) \/ BuildImage(t) \/ Record(t) \/ Create(t) \/ BuildImageFails(t)
Early == {"check", "build", "record", "create", "running", "done", "failed", "no_image"}

\* Up to its container a build has nothing to do with the repository.
LEMMA ImageEffects ==
  ASSUME RangeInv, NEW t \in Tasks, ImageStep(t)
  PROVE  /\ UNCHANGED <<scenario, reaper, files, index, cleaner, lagging>>
         /\ \E pc \in Early : Goto(t, pc)
         /\ task[t].pc \in Early
         /\ image' = image \/ image' = [image EXCEPT ![Order(t).tag] = "current"]
<1> USE DEF repoVars, imageVars, Early
<1>1. CASE Check(t)
  BY <1>1, Zenon DEF Check
<1>2. CASE BuildImage(t)
  BY <1>2, Zenon DEF BuildImage
<1>3. CASE Record(t)
  BY <1>3, Zenon DEF Record
<1>4. CASE Create(t)
  BY <1>4, Zenon DEF Create
<1>5. CASE BuildImageFails(t)
  BY <1>5, Zenon DEF BuildImageFails
<1> QED
  BY <1>1, <1>2, <1>3, <1>4, <1>5, Zenon DEF ImageStep

\* The steps of a build from its container on.
RepoStep(t) ==
    \/ Emerge(t) \/ EmergeFails(t) \/ Scan(t) \/ ScanFails(t) \/ Rescan(t) \/ Publish(t)
    \/ PublishFails(t)
Late == {"running", "scan", "rescan", "publish"}

LEMMA RepoEffects ==
  ASSUME RangeInv, NEW t \in Tasks, RepoStep(t)
  PROVE  /\ UNCHANGED <<scenario, image, used, idle, reaper, marked, cleaner>>
         /\ task[t].pc \in Late /\ task'[t].pc \in {"scan", "rescan", "publish", "done", "failed"}
         /\ DOMAIN task' = Tasks /\ DOMAIN task'[t] = Fields
         /\ \A u \in Tasks \ {t} : task'[u] = task[u]
<1> USE DEF imageVars, Late
<1>1. UNCHANGED <<scenario, image, used, idle, reaper, marked, cleaner>>
  BY Zenon DEF RepoStep, Emerge, EmergeFails, Scan, ScanFails, Rescan, Publish, PublishFails
<1>2. DOMAIN task[t] = Fields
  BY Zenon DEF RangeInv
<1>3. ASSUME NEW pc \in {"done", "failed"}, Goto(t, pc), task[t].pc \in Late
      PROVE  /\ task[t].pc \in Late /\ task'[t].pc \in {"scan", "rescan", "publish", "done", "failed"}
             /\ DOMAIN task' = Tasks /\ DOMAIN task'[t] = Fields
             /\ \A u \in Tasks \ {t} : task'[u] = task[u]
  BY <1>3, GotoMove, Zenon
<1>4. ASSUME NEW rec, task' = [task EXCEPT ![t] = rec], DOMAIN rec = Fields,
             rec.pc \in {"scan", "rescan", "publish"}, task[t].pc \in Late
      PROVE  /\ task[t].pc \in Late /\ task'[t].pc \in {"scan", "rescan", "publish", "done", "failed"}
             /\ DOMAIN task' = Tasks /\ DOMAIN task'[t] = Fields
             /\ \A u \in Tasks \ {t} : task'[u] = task[u]
  BY <1>4, TaskMove, Zenon
<1>5. CASE EmergeFails(t) \/ Publish(t) \/ PublishFails(t)
  <2>1. task[t].pc \in Late /\ \E pc \in {"done", "failed"} : Goto(t, pc)
    BY <1>5, Zenon DEF EmergeFails, Publish, PublishFails
  <2> QED
    BY <1>1, <1>3, <2>1, Zenon
<1>6. CASE Emerge(t) \/ ScanFails(t)
  <2>1. PICK pc \in {"scan", "rescan"} : task' = [task EXCEPT ![t] = Start(task[t], pc)]
    BY <1>6, Zenon DEF Emerge, ScanFails
  <2>2. task[t].pc \in Late
    BY <1>6, Zenon DEF Emerge, ScanFails
  <2> DEFINE rec == Start(task[t], pc)
  <2>3. DOMAIN rec = Fields /\ rec.pc = pc
    BY <1>2, StartRecord, Zenon
  <2> HIDE DEF rec
  <2>4. task' = [task EXCEPT ![t] = rec]
    BY <2>1, Zenon DEF rec
  <2> QED
    BY <1>1, <1>4, <2>2, <2>3, <2>4, Zenon
<1>7. CASE Scan(t)
  <2>1. PICK base \in task[t].left, missed \in SUBSET files :
          LET next == scan_directory(task[t], base, missed) IN
          task' = [task EXCEPT ![t] = IF next.left = {} THEN Start(next, "rescan") ELSE next]
    BY <1>7, Zenon DEF Scan
  <2> DEFINE next == scan_directory(task[t], base, missed)
             rec == IF next.left = {} THEN Start(next, "rescan") ELSE next
  <2>2. task[t].pc = "scan" /\ DOMAIN next = Fields /\ next.pc = "scan"
    BY <1>2, <1>7, ScanRecord, SMT DEF Scan
  <2>3. DOMAIN rec = Fields /\ rec.pc \in {"scan", "rescan", "publish"}
    <3> HIDE DEF next
    <3>1. DOMAIN Start(next, "rescan") = Fields /\ Start(next, "rescan").pc = "rescan"
      BY <2>2, StartRecord, Zenon
    <3> QED
      BY <2>2, <3>1, Zenon
  <2> QED
    BY <1>1, <1>4, <2>1, <2>2, <2>3, Zenon
<1>8. CASE Rescan(t)
  <2>1. PICK base \in task[t].left, missed \in SUBSET files :
          LET next == scan_directory(task[t], base, missed) IN
          task' = [task EXCEPT ![t] = IF next.left = {} THEN [next EXCEPT !.pc = "publish"] ELSE next]
    BY <1>8, Zenon DEF Rescan
  <2> DEFINE next == scan_directory(task[t], base, missed)
             rec == IF next.left = {} THEN [next EXCEPT !.pc = "publish"] ELSE next
  <2>2. task[t].pc = "rescan" /\ DOMAIN next = Fields /\ next.pc = "rescan"
    BY <1>2, <1>8, ScanRecord, SMT DEF Rescan
  <2>3. DOMAIN rec = Fields /\ rec.pc \in {"scan", "rescan", "publish"}
    BY <2>2, PublishRecord, Zenon
  <2> QED
    BY <1>1, <1>4, <2>1, <2>2, <2>3, Zenon
<1> QED
  BY <1>5, <1>6, <1>7, <1>8, Zenon DEF RepoStep

CleanerStep == CleanStep \/ CleanRemoveFails \/ CleanFails
ReapingStep == ReaperStep \/ ReaperRemoveFails \/ Tick

\* What the cleanup has to do after it removed a file, or could not: with some
\* package removed, it will read the repository again.
LEMMA AfterRemoveRecord ==
  ASSUME DOMAIN cleaner = Fields, cleaner.pc = "remove", NEW f, NEW left
  PROVE  LET rec == AfterRemove(f, left) IN
         /\ DOMAIN rec = Fields
         /\ left # {} => \/ rec.pc = "remove" /\ rec.left = left
                         \/ rec.pc = "rescan" /\ rec.left = scanned /\ rec.seen = {}
         /\ left = {} => rec.pc = "wait" \/ (rec.pc = "remove" /\ rec.left = {})
<1> DEFINE rest == cleaner.seen \ {f}
           more == [cleaner EXCEPT !.seen = rest, !.left = left]
           again == Start(cleaner, "rescan")
           over == [Idle EXCEPT !.pc = "wait"]
           rec == AfterRemove(f, left)
<1>1. rec = IF rest # {} THEN more ELSE IF left # {} THEN again ELSE over
  BY Zenon DEF AfterRemove
<1> HIDE DEF rest
<1>2. DOMAIN more = Fields /\ more.pc = "remove" /\ more.left = left
  BY SMT DEF Fields
<1>3. /\ DOMAIN again = Fields /\ again.pc = "rescan" /\ again.left = scanned
      /\ again.seen = {}
  BY StartRecord, Zenon
<1>4. DOMAIN over = Fields /\ over.pc = "wait"
  BY WaitRecord, Zenon
<1> HIDE DEF more, again, over, rec
<1>5. /\ DOMAIN rec = Fields
      /\ left # {} => \/ rec.pc = "remove" /\ rec.left = left
                      \/ rec.pc = "rescan" /\ rec.left = scanned /\ rec.seen = {}
      /\ left = {} => rec.pc = "wait" \/ (rec.pc = "remove" /\ rec.left = {})
  <2>1. CASE rest # {}
    BY <1>1, <1>2, <2>1, Zenon
  <2>2. CASE rest = {} /\ left # {}
    BY <1>1, <1>3, <2>2, Zenon
  <2>3. CASE rest = {} /\ left = {}
    BY <1>1, <1>4, <2>3, Zenon
  <2> QED
    BY <2>1, <2>2, <2>3, Zenon
<1> QED
  BY <1>5, Zenon DEF rec

\* The record a scan of the cleanup ends with.
LEMMA CleanScanRecord ==
  ASSUME RangeInv, CleanScan
  PROVE  DOMAIN cleaner' = Fields /\
         \/ cleaner'.pc \in {"scan", "wait"}
         \/ cleaner'.pc = "remove" /\ cleaner'.left = {}
<1>1. PICK base \in cleaner.left, missed \in SUBSET files :
        LET next == scan_directory(cleaner, base, missed)
            doomed == ToRemove(next.seen)
        IN cleaner' = IF next.left # {} THEN next
                      ELSE IF doomed = {} THEN [Idle EXCEPT !.pc = "wait"]
                      ELSE [pc |-> "remove", left |-> {}, seen |-> doomed]
  BY Zenon DEF CleanScan
<1> DEFINE next == scan_directory(cleaner, base, missed)
           doomed == ToRemove(next.seen)
           over == [Idle EXCEPT !.pc = "wait"]
           on == [pc |-> "remove", left |-> {}, seen |-> doomed]
<1>2. DOMAIN next = Fields /\ next.pc = "scan"
  <2>1. DOMAIN cleaner = Fields /\ cleaner.pc = "scan"
    BY Zenon DEF RangeInv, CleanScan
  <2> QED
    BY <2>1, ScanRecord, SMT
<1>3. DOMAIN over = Fields /\ over.pc = "wait"
  BY WaitRecord, Zenon
<1> HIDE DEF next, doomed
<1>4. DOMAIN on = Fields /\ on.pc = "remove" /\ on.left = {}
  BY SMT DEF Fields
<1>5. cleaner' \in {next, over, on}
  BY <1>1, Zenon DEF next, doomed
<1> HIDE DEF over, on
<1> QED
  BY <1>2, <1>3, <1>4, <1>5, Zenon

AfterRead(actor, base, missed) ==
    LET next == scan_directory(actor, base, missed) IN
    IF next.left = {} THEN [next EXCEPT !.pc = "publish"] ELSE next

\* The record of a regeneration after a read: what it has read is what it had
\* and the files of one more package, but those it passed over.
LEMMA RescanRecord ==
  ASSUME NEW actor, DOMAIN actor = Fields, actor.pc = "rescan", NEW base, NEW missed
  PROVE  LET rec == AfterRead(actor, base, missed) IN
         /\ DOMAIN rec = Fields /\ rec.left = actor.left \ {base}
         /\ rec.seen = actor.seen \cup (OfBase(files, base) \ missed)
         /\ \/ rec.pc = "publish" /\ rec.left = {}
            \/ rec.pc = "rescan"
<1> DEFINE next == scan_directory(actor, base, missed)
           found == OfBase(files, base) \ missed
           last == [next EXCEPT !.pc = "publish"]
           rec == AfterRead(actor, base, missed)
<1>1. /\ DOMAIN next = Fields /\ next.pc = "rescan" /\ next.left = actor.left \ {base}
      /\ next.seen = actor.seen \cup found
  BY ScanRecord, SMT
<1>2. rec = IF next.left = {} THEN last ELSE next
  BY Zenon DEF AfterRead
<1> HIDE DEF next, found, rec
<1>3. /\ DOMAIN last = Fields /\ last.pc = "publish" /\ last.left = next.left
      /\ last.seen = next.seen
  BY <1>1, PublishRecord, Zenon
<1> HIDE DEF last
<1>4. /\ DOMAIN rec = Fields /\ rec.left = actor.left \ {base}
      /\ rec.seen = actor.seen \cup found
      /\ \/ rec.pc = "publish" /\ rec.left = {}
         \/ rec.pc = "rescan"
  <2>1. CASE next.left = {}
    BY <1>1, <1>2, <1>3, <2>1, Zenon
  <2>2. CASE next.left # {}
    BY <1>1, <1>2, <2>2, Zenon
  <2> QED
    BY <2>1, <2>2, Zenon
<1> QED
  BY <1>4, Zenon DEF found, rec

\* The cleanup leaves the builds and their images alone.
LEMMA CleanerEffects ==
  ASSUME RangeInv, CleanerStep
  PROVE  /\ UNCHANGED <<scenario, image, used, idle, reaper, marked, task>>
         /\ DOMAIN cleaner' = Fields /\ cleaner'.pc \in CleanPcs
<1>0. DOMAIN cleaner = Fields
  BY Zenon DEF RangeInv
<1>1. UNCHANGED <<scenario, image, used, idle, reaper, marked, task>>
  BY Zenon DEF CleanerStep, CleanStep, CleanStart, CleanScan, CleanRemove, CleanRescan, CleanPublish,
               CleanRemoveFails, CleanFails, imageVars
<1>2. CASE CleanStart
  <2>1. cleaner' = Start(cleaner, "scan")
    BY <1>2, Zenon DEF CleanStart
  <2> QED
    BY <1>0, <1>1, <2>1, StartRecord, Zenon DEF CleanPcs
<1>3. CASE CleanScan
  BY <1>1, <1>3, CleanScanRecord, Zenon DEF CleanPcs
<1>4. CASE CleanRemove \/ CleanRemoveFails
  <2>1. PICK f, left : cleaner' = AfterRemove(f, left)
    BY <1>4, Zenon DEF CleanRemove, CleanRemoveFails
  <2>2. cleaner.pc = "remove"
    BY <1>4, Zenon DEF CleanRemove, CleanRemoveFails
  <2> DEFINE rec == AfterRemove(f, left)
  <2>3. DOMAIN rec = Fields /\ rec.pc \in {"remove", "rescan", "wait"}
    <3>1. /\ DOMAIN rec = Fields
          /\ left # {} => \/ rec.pc = "remove" /\ rec.left = left
                          \/ rec.pc = "rescan" /\ rec.left = scanned /\ rec.seen = {}
          /\ left = {} => rec.pc = "wait" \/ (rec.pc = "remove" /\ rec.left = {})
      BY <1>0, <2>2, AfterRemoveRecord, Zenon
    <3> HIDE DEF rec
    <3> QED
      BY <3>1, Zenon
  <2> QED
    BY <1>1, <2>1, <2>3, Zenon DEF CleanPcs
<1>5. CASE CleanRescan
  <2>1. PICK base \in cleaner.left, missed \in SUBSET files : cleaner' = AfterRead(cleaner, base, missed)
    BY <1>5, Zenon DEF CleanRescan, AfterRead
  <2>2. cleaner.pc = "rescan"
    BY <1>5, Zenon DEF CleanRescan
  <2> DEFINE rec == AfterRead(cleaner, base, missed)
  <2>3. /\ DOMAIN rec = Fields /\ rec.left = cleaner.left \ {base}
        /\ rec.seen = cleaner.seen \cup (OfBase(files, base) \ missed)
        /\ \/ rec.pc = "publish" /\ rec.left = {}
           \/ rec.pc = "rescan"
    BY <1>0, <2>2, RescanRecord, SMT
  <2>4. DOMAIN rec = Fields /\ rec.pc \in CleanPcs
    BY <2>3, Zenon DEF CleanPcs
  <2> QED
    BY <1>1, <2>1, <2>4, Zenon
<1>6. CASE CleanPublish \/ CleanFails
  <2>1. cleaner' = [Idle EXCEPT !.pc = "wait"]
    BY <1>6, Zenon DEF CleanPublish, CleanFails
  <2> QED
    BY <1>1, <2>1, WaitRecord, Zenon DEF CleanPcs
<1> QED
  BY <1>2, <1>3, <1>4, <1>5, <1>6, Zenon DEF CleanerStep, CleanStep

\* The reaper leaves the repository alone, and removes only images on its list.
LEMMA ReapingEffects ==
  ASSUME RangeInv, ReapingStep
  PROVE  /\ UNCHANGED <<scenario, task, files, index, cleaner, lagging>>
         /\ DOMAIN reaper' = {"list", "at"}
         /\ \/ image' = image
            \/ \E tag \in reaper.list : image' = [image EXCEPT ![tag] = "absent"]
         /\ \/ reaper'.list \subseteq reaper.list /\ marked' = marked
            \/ ReaperPass /\ reaper'.list = Expired /\ image' = image
         /\ \/ idle' \subseteq idle
            \/ Tick /\ reaper' = reaper /\ image' = image
<1> USE DEF repoVars
<1>0. DOMAIN reaper = {"list", "at"}
  BY Zenon DEF RangeInv
<1>1. CASE Tick
  <2>1. UNCHANGED <<scenario, image, task, reaper, marked, files, index, cleaner, lagging>>
    BY <1>1, Zenon DEF Tick
  <2> QED
    BY <1>0, <1>1, <2>1, Zenon
<1>2. CASE ReaperPass
  <2> DEFINE rec == [list |-> Expired, at |-> NoTag]
             expired == Expired
  <2>1. UNCHANGED <<scenario, image, idle, task, files, index, cleaner, lagging>> /\ reaper' = rec
    BY <1>2, Zenon DEF ReaperPass
  <2>2. rec.list = Expired
    BY Zenon
  <2>3. DOMAIN rec = {"list", "at"}
    <3> HIDE DEF expired
    <3>1. DOMAIN [list |-> expired, at |-> NoTag] = {"list", "at"}
      BY SMT
    <3> QED
      BY <3>1, Zenon DEF expired
  <2> HIDE DEF rec
  <2> QED
    BY <1>2, <2>1, <2>2, <2>3, Zenon
<1>3. CASE ReaperRemove \/ ReaperRemoveFails
  <2>1. PICK tag \in reaper.list : reaper' = [reaper EXCEPT !.at = tag]
          /\ (image' = image \/ image' = [image EXCEPT ![tag] = "absent"])
    BY <1>3, Zenon DEF ReaperRemove, ReaperRemoveFails
  <2>2. UNCHANGED <<scenario, idle, task, marked, files, index, cleaner, lagging>>
    BY <1>3, Zenon DEF ReaperRemove, ReaperRemoveFails
  <2>3. DOMAIN reaper' = {"list", "at"} /\ reaper'.list = reaper.list
    BY <1>0, <2>1, SMT
  <2> QED
    BY <2>1, <2>2, <2>3, Zenon
<1>4. CASE ReaperForget
  <2> DEFINE left == reaper.list \ {reaper.at}
  <2>1. UNCHANGED <<scenario, image, task, marked, files, index, cleaner, lagging>>
        /\ reaper' = [list |-> left, at |-> NoTag] /\ idle' \subseteq idle
    BY <1>4, Zenon DEF ReaperForget
  <2>2. left \subseteq reaper.list
    BY Zenon
  <2> HIDE DEF left
  <2>3. DOMAIN reaper' = {"list", "at"} /\ reaper'.list = left
    BY <2>1, SMT
  <2> QED
    BY <2>1, <2>2, <2>3, Zenon
<1> QED
  BY <1>1, <1>2, <1>3, <1>4, Zenon DEF ReapingStep, ReaperStep

\* What can happen next, by who does it.
LEMMA Kinds ==
  ASSUME [Next]_vars
  PROVE  \/ \E t \in Tasks : ImageStep(t)
         \/ \E t \in Tasks : RepoStep(t)
         \/ ReapingStep
         \/ CleanerStep
         \/ UNCHANGED vars
  BY Zenon DEF Next, TaskStep, TaskFault, ImageStep, RepoStep, ReapingStep, CleanerStep

LEMMA RangeStep == ASSUME RangeInv, [Next]_vars PROVE RangeInv'
<1>0. image \in [Tags -> ImageStates]
  BY Zenon DEF RangeInv
<1>1. ASSUME NEW t \in Tasks, ImageStep(t) PROVE RangeInv'
  <2>1. /\ UNCHANGED <<scenario, reaper, cleaner>>
        /\ \E pc \in Early : Goto(t, pc)
        /\ image' = image \/ image' = [image EXCEPT ![Order(t).tag] = "current"]
    BY <1>1, ImageEffects, Zenon
  <2>2. /\ DOMAIN task' = Tasks /\ DOMAIN task'[t] = Fields /\ task'[t].pc \in Early
        /\ \A u \in Tasks \ {t} : task'[u] = task[u]
    BY <2>1, GotoMove, Zenon
  <2>3. task'[t].pc \in Pcs
    BY <2>2, Zenon DEF Early, Pcs
  <2>4. image' \in [Tags -> ImageStates]
    BY <1>0, <2>1, Zenon DEF ImageStates
  <2> QED
    BY <2>1, <2>2, <2>3, <2>4, Zenon DEF RangeInv
<1>2. ASSUME NEW t \in Tasks, RepoStep(t) PROVE RangeInv'
  <2>1. /\ UNCHANGED <<scenario, image, reaper, cleaner>>
        /\ task'[t].pc \in {"scan", "rescan", "publish", "done", "failed"}
        /\ DOMAIN task' = Tasks /\ DOMAIN task'[t] = Fields
        /\ \A u \in Tasks \ {t} : task'[u] = task[u]
    BY <1>2, RepoEffects, Zenon
  <2>2. task'[t].pc \in Pcs
    BY <2>1, Zenon DEF Pcs
  <2> QED
    BY <2>1, <2>2, Zenon DEF RangeInv
<1>3. CASE ReapingStep
  <2>1. /\ UNCHANGED <<scenario, task, cleaner>> /\ DOMAIN reaper' = {"list", "at"}
        /\ \/ image' = image
           \/ \E tag \in reaper.list : image' = [image EXCEPT ![tag] = "absent"]
    BY <1>3, ReapingEffects, Zenon
  <2>2. image' \in [Tags -> ImageStates]
    BY <1>0, <2>1, Zenon DEF ImageStates
  <2> QED
    BY <2>1, <2>2, Zenon DEF RangeInv
<1>4. CASE CleanerStep
  BY <1>4, CleanerEffects, Zenon DEF RangeInv
<1>5. CASE UNCHANGED vars
  BY <1>5, Zenon DEF RangeInv, vars
<1> QED
  BY <1>1, <1>2, <1>3, <1>4, <1>5, Kinds, Zenon

(***************************************************************************)
(* Images.                                                                 *)
(***************************************************************************)
\* A build keeps its image when it stays where it is, its image stays and
\* neither the list of the reaper nor the set of idle tags gets longer.
LEMMA ProtectedKept ==
  ASSUME NEW t \in Tasks, Protected(t), task'[t] = task[t], UNCHANGED scenario,
         reaper'.list \subseteq reaper.list, idle' \subseteq idle,
         Order(t).tag \notin reaper.list /\ image[Order(t).tag] # "absent" =>
            image'[Order(t).tag] # "absent"
  PROVE  Protected(t)'
<1>1. Order(t)' = Order(t)
  BY Zenon DEF Order
<1> QED
  BY <1>1, Zenon DEF Protected

LEMMA ImageInvStep == ASSUME RangeInv, ImageInv, [Next]_vars PROVE ImageInv'
<1>0. image \in [Tags -> ImageStates] /\ \A t \in Tasks : Order(t).tag \in Tags
  BY OrderTyped, Zenon DEF RangeInv
<1>1. ASSUME NEW t \in Tasks, ImageStep(t) PROVE ImageInv'
  <2> DEFINE tag == Order(t).tag
  <2>1. /\ UNCHANGED <<scenario, reaper>>
        /\ image' = image \/ image' = [image EXCEPT ![tag] = "current"]
        /\ \E pc \in Early : Goto(t, pc)
    BY <1>1, ImageEffects, Zenon
  <2>2. \A u \in Tasks \ {t} : task'[u] = task[u]
    BY <2>1, GotoMove, Zenon
  <2>3. marked \subseteq marked' /\ idle' \subseteq idle
    BY <1>1, Zenon DEF ImageStep, Check, BuildImage, Record, Create, BuildImageFails, imageVars
  <2>4. \A other \in Tags : image[other] # "absent" => image'[other] # "absent"
    BY <1>0, <2>1, Zenon
  <2>5. ASSUME NEW u \in Tasks \ marked', u # t PROVE Protected(u)'
    <3>1. Protected(u) /\ task'[u] = task[u] /\ reaper'.list \subseteq reaper.list
      BY <2>1, <2>2, <2>3, <2>5, Zenon DEF ImageInv
    <3>2. image[Order(u).tag] # "absent" => image'[Order(u).tag] # "absent"
      BY <1>0, <2>4, Zenon
    <3> QED
      BY <2>1, <2>3, <3>1, <3>2, ProtectedKept, Zenon
  <2>6. Order(t)' = Order(t)
    BY <2>1, Zenon DEF Order
  <2>7. ASSUME t \notin marked' PROVE Protected(t)'
    <3>1. t \notin marked /\ Protected(t)
      BY <2>3, <2>7, Zenon DEF ImageInv
    <3>2. CASE Check(t)
      <4>1. /\ Goto(t, IF image_needs_rebuild(tag) THEN "build" ELSE "record")
            /\ UNCHANGED image /\ tag \notin reaper.list
        BY <2>7, <3>2, Zenon DEF Check
      <4>2. task'[t].pc = IF image_needs_rebuild(tag) THEN "build" ELSE "record"
        BY <4>1, GotoMove, Zenon
      <4> HIDE DEF tag
      <4>3. task'[t].pc = "build" \/ (task'[t].pc = "record" /\ image[tag] = "current")
        BY <4>2, Zenon DEF image_needs_rebuild
      <4>4. image'[tag] # "absent" \/ task'[t].pc = "build"
        BY <4>1, <4>3, Zenon
      <4> QED
        BY <2>1, <2>6, <4>1, <4>3, <4>4, Zenon DEF Protected, tag
    <3>3. CASE BuildImage(t)
      <4>1. task[t].pc = "build" /\ Goto(t, "record") /\ image' = [image EXCEPT ![tag] = "current"]
        BY <3>3, Zenon DEF BuildImage
      <4>2. task'[t].pc = "record" /\ image'[tag] = "current"
        BY <1>0, <4>1, GotoMove, Zenon
      <4>3. tag \notin reaper.list
        BY <3>1, <4>1, Zenon DEF Protected
      <4> QED
        BY <2>1, <2>6, <4>2, <4>3, Zenon DEF Protected
    <3>4. CASE Record(t)
      <4>1. /\ task[t].pc = "record" /\ Goto(t, "create") /\ UNCHANGED image
            /\ idle' = idle \ {tag}
        BY <3>4, Zenon DEF Record
      <4>2. task'[t].pc = "create"
        BY <4>1, GotoMove, Zenon
      <4>3. tag \notin reaper.list /\ image[tag] # "absent"
        BY <3>1, <4>1, Zenon DEF Protected
      <4> QED
        BY <2>1, <2>6, <4>1, <4>2, <4>3, Zenon DEF Protected
    <3>5. CASE Create(t)
      <4>1. /\ task[t].pc = "create"
            /\ Goto(t, IF image[tag] = "absent" THEN "no_image" ELSE "running")
        BY <3>5, Zenon DEF Create
      <4>2. Goto(t, "running")
        BY <3>1, <4>1, Zenon DEF Protected
      <4>3. task'[t].pc = "running"
        BY <4>2, GotoMove, Zenon
      <4> QED
        BY <4>3, Zenon DEF Protected
    <3>6. CASE BuildImageFails(t)
      <4>1. task'[t].pc = "failed"
        BY <3>6, GotoMove, Zenon DEF BuildImageFails
      <4> QED
        BY <4>1, Zenon DEF Protected
    <3> QED
      BY <1>1, <3>2, <3>3, <3>4, <3>5, <3>6, Zenon DEF ImageStep
  <2> QED
    BY <2>5, <2>7, Zenon DEF ImageInv
<1>2. ASSUME NEW t \in Tasks, RepoStep(t) PROVE ImageInv'
  <2>1. /\ UNCHANGED <<scenario, image, idle, reaper, marked>>
        /\ task'[t].pc \in {"scan", "rescan", "publish", "done", "failed"}
        /\ \A u \in Tasks \ {t} : task'[u] = task[u]
    BY <1>2, RepoEffects, Zenon
  <2>2. Protected(t)'
    BY <2>1, Zenon DEF Protected
  <2>3. ASSUME NEW u \in Tasks \ marked, u # t PROVE Protected(u)'
    BY <2>1, <2>3, ProtectedKept, Zenon DEF ImageInv
  <2> QED
    BY <2>1, <2>2, <2>3, Zenon DEF ImageInv
<1>3. CASE ReapingStep
  <2>1. /\ UNCHANGED <<scenario, task>>
        /\ \/ image' = image
           \/ \E tag \in reaper.list : image' = [image EXCEPT ![tag] = "absent"]
        /\ \/ reaper'.list \subseteq reaper.list /\ marked' = marked
           \/ ReaperPass /\ reaper'.list = Expired /\ image' = image
        /\ \/ idle' \subseteq idle
           \/ Tick /\ reaper' = reaper /\ image' = image
    BY <1>3, ReapingEffects, Zenon
  <2>2. CASE Tick
    <3>1. /\ UNCHANGED <<scenario, image, task, reaper, marked>>
          /\ \E tag : /\ \A t \in Tasks : task[t].pc = "create" => Order(t).tag # tag
                      /\ idle' = idle \cup {tag}
      BY <2>2, Zenon DEF Tick
    <3>2. ASSUME NEW t \in Tasks \ marked PROVE Protected(t)'
      <4>1. Protected(t) /\ Order(t)' = Order(t)
        BY <3>1, Zenon DEF ImageInv, Order
      <4>2. task[t].pc = "create" => Order(t).tag \notin idle'
        BY <3>1, <4>1, Zenon DEF Protected
      <4> QED
        BY <3>1, <4>1, <4>2, Zenon DEF Protected
    <3> QED
      BY <3>1, <3>2, Zenon DEF ImageInv
  <2>3. CASE ReaperPass
    <3>1. /\ UNCHANGED <<image, idle>> /\ reaper'.list = Expired
          /\ marked' = marked \cup {t \in Tasks : /\ task[t].pc \in {"build", "record"}
                                                  /\ Order(t).tag \in Expired}
      BY <2>3, Zenon DEF ReaperPass
    <3>2. Expired \subseteq idle
      BY Zenon DEF Expired
    <3>3. ASSUME NEW t \in Tasks \ marked' PROVE Protected(t)'
      <4>1. Protected(t) /\ Order(t)' = Order(t) /\ task'[t] = task[t]
        BY <2>1, <3>1, Zenon DEF ImageInv, Order
      <4>2. task[t].pc \in {"build", "record", "create"} => Order(t).tag \notin Expired
        BY <3>1, <3>2, <3>3, <4>1, Zenon DEF Protected
      <4> QED
        BY <3>1, <4>1, <4>2, Zenon DEF Protected
    <3> QED
      BY <3>3, Zenon DEF ImageInv
  <2>4. CASE ~Tick /\ ~ReaperPass
    <3>1. /\ reaper'.list \subseteq reaper.list /\ marked' = marked /\ idle' \subseteq idle
      BY <2>1, <2>4, Zenon
    <3>2. \A other \in Tags \ reaper.list : image'[other] = image[other]
      BY <1>0, <2>1, Zenon
    <3>3. ASSUME NEW t \in Tasks \ marked PROVE Protected(t)'
      <4>1. Protected(t)
        BY Zenon DEF ImageInv
      <4>2. Order(t).tag \notin reaper.list => image'[Order(t).tag] = image[Order(t).tag]
        BY <1>0, <3>2, Zenon
      <4> QED
        BY <2>1, <3>1, <4>1, <4>2, ProtectedKept, Zenon
    <3> QED
      BY <3>1, <3>3, Zenon DEF ImageInv
  <2> QED
    BY <2>2, <2>3, <2>4, Zenon
<1>4. ASSUME UNCHANGED <<scenario, image, idle, reaper, marked, task>> PROVE ImageInv'
  BY <1>4, Zenon DEF ImageInv, Protected, Order
<1>5. CASE CleanerStep
  BY <1>4, <1>5, CleanerEffects, Zenon
<1>6. CASE UNCHANGED vars
  BY <1>4, <1>6, Zenon DEF vars
<1> QED
  BY <1>1, <1>2, <1>3, <1>5, <1>6, Kinds, Zenon

(***************************************************************************)
(* The index.                                                              *)
(***************************************************************************)
\* An actor that does nothing stays as far in its scans as it was.
LEMMA TaskStays ==
  ASSUME NEW u, UNCHANGED scenario, task'[u] = task[u]
  PROVE  /\ Regenerating(task[u])' <=> Regenerating(task[u])
         /\ FreshTask(u)' <=> FreshTask(u)
         /\ ScanShape(task[u])' <=> ScanShape(task[u])
         /\ UNCHANGED files => (HasRead(task[u])' <=> HasRead(task[u]))
  BY Zenon DEF Regenerating, FreshTask, Unstarted, ScanShape, HasRead, scanned

LEMMA CleanerStays ==
  ASSUME UNCHANGED <<scenario, cleaner>>
  PROVE  /\ Regenerating(cleaner)' <=> Regenerating(cleaner)
         /\ FreshCleaner' <=> FreshCleaner
         /\ ScanShape(cleaner)' <=> ScanShape(cleaner)
         /\ UNCHANGED files => (HasRead(cleaner)' <=> HasRead(cleaner))
  BY Zenon DEF Regenerating, FreshCleaner, Unstarted, ScanShape, HasRead, scanned

\* An actor that is not at its scans.
LEMMA NotScanning ==
  ASSUME NEW actor, actor.pc \notin {"scan", "rescan", "publish"}
  PROVE  ~Regenerating(actor) /\ ~Unstarted(actor) /\ ScanShape(actor)
  BY Zenon DEF Regenerating, Unstarted, ScanShape, scanned

\* No regenerations overlap that did not before.
LEMMA OverlapLess ==
  ASSUME \A u \in Tasks : Regenerating(task[u])' => Regenerating(task[u]),
         Regenerating(cleaner)' => Regenerating(cleaner),
         ~Overlap(task, cleaner)
  PROVE  ~Overlap(task, cleaner)'
  BY Zenon DEF Overlap

\* As long as somebody has yet to read everything, nothing is promised.
LEMMA SomeoneFresh ==
  ASSUME IndexInv, ~NoneFresh', lagging \/ ~Overlap(task, cleaner)', lagging => lagging',
         (\A f \in files : f.base \in scenario.bases)',
         ScanShape(cleaner)', \A u \in Tasks : ScanShape(task[u])'
  PROVE  IndexInv'
  BY Zenon DEF IndexInv

\* A step of a task that was not at its scans and is not now.
LEMMA QuietTask ==
  ASSUME IndexInv, NEW t \in Tasks, UNCHANGED <<scenario, files, index, cleaner>>,
         lagging => lagging',
         task[t].pc \notin {"scan", "rescan", "publish"},
         task'[t].pc \notin {"scan", "rescan", "publish"},
         \A u \in Tasks \ {t} : task'[u] = task[u]
  PROVE  IndexInv'
<1>1. /\ ~Regenerating(task[t]) /\ ~FreshTask(t)
      /\ ~Regenerating(task[t])' /\ ~FreshTask(t)' /\ ScanShape(task[t])'
  BY Zenon DEF Regenerating, FreshTask, Unstarted, ScanShape, scanned
<1>2. \A u \in Tasks : /\ Regenerating(task[u])' <=> Regenerating(task[u])
                       /\ FreshTask(u)' <=> FreshTask(u)
                       /\ u # t => (HasRead(task[u])' <=> HasRead(task[u]))
  BY <1>1, TaskStays, Zenon
<1>3. \A u \in Tasks : ScanShape(task[u])'
  BY <1>1, TaskStays, Zenon DEF IndexInv
<1>4. /\ Regenerating(cleaner)' <=> Regenerating(cleaner)
      /\ FreshCleaner' <=> FreshCleaner
      /\ HasRead(cleaner)' <=> HasRead(cleaner)
      /\ ScanShape(cleaner)'
  BY CleanerStays, Zenon DEF IndexInv
<1>5. NoneFresh' <=> NoneFresh
  BY <1>2, <1>4, Zenon DEF NoneFresh
<1>6. ~lagging => ~Overlap(task, cleaner)'
  BY <1>2, <1>4, OverlapLess, Zenon DEF IndexInv
<1>7. (\A f \in files : f.base \in scenario.bases)'
  BY Zenon DEF IndexInv
<1>8. ASSUME ~lagging, NoneFresh
      PROVE  /\ \A u \in Tasks : Regenerating(task[u])' => HasRead(task[u])'
             /\ Regenerating(cleaner)' => HasRead(cleaner)'
             /\ (~Regenerating(cleaner)' /\ \A u \in Tasks : ~Regenerating(task[u])')
                   => index' = Listed'
  <2>1. /\ \A u \in Tasks : Regenerating(task[u]) => HasRead(task[u])
        /\ Regenerating(cleaner) => HasRead(cleaner)
        /\ (~Regenerating(cleaner) /\ \A u \in Tasks : ~Regenerating(task[u])) => index = Listed
    BY <1>8, Zenon DEF IndexInv
  <2>2. \A u \in Tasks : Regenerating(task[u])' => HasRead(task[u])'
    BY <1>1, <1>2, <2>1, Zenon
  <2> QED
    BY <1>2, <1>4, <2>1, <2>2, Zenon DEF Listed
<1> QED
  BY <1>3, <1>4, <1>5, <1>6, <1>7, <1>8, Zenon DEF IndexInv

\* A step of a task after which it has yet to read the whole repository.
LEMMA FreshStep ==
  ASSUME IndexInv, NEW t \in Tasks, UNCHANGED <<scenario, cleaner>>, lagging => lagging',
         \A f \in files' : f.base \in scenario.bases,
         \/ task'[t].pc = "scan"
         \/ task'[t].pc = "rescan" /\ task'[t].left = scanned /\ task'[t].seen = {},
         \A u \in Tasks \ {t} : task'[u] = task[u]
  PROVE  IndexInv'
<1>1. ~Regenerating(task[t])' /\ FreshTask(t)' /\ ScanShape(task[t])'
  BY Zenon DEF Regenerating, FreshTask, Unstarted, ScanShape, scanned
<1>2. \A u \in Tasks : Regenerating(task[u])' => Regenerating(task[u])
  BY <1>1, TaskStays, Zenon
<1>3. \A u \in Tasks : ScanShape(task[u])'
  BY <1>1, TaskStays, Zenon DEF IndexInv
<1>4. (Regenerating(cleaner)' => Regenerating(cleaner)) /\ ScanShape(cleaner)'
  BY CleanerStays, Zenon DEF IndexInv
<1>5. lagging \/ ~Overlap(task, cleaner)'
  BY <1>2, <1>4, OverlapLess, Zenon DEF IndexInv
<1>6. ~NoneFresh' /\ (\A f \in files : f.base \in scenario.bases)'
  BY <1>1, Zenon DEF NoneFresh
<1> QED
  BY <1>3, <1>4, <1>5, <1>6, SomeoneFresh, Zenon

\* A read of a regeneration, of any actor: what it has read by then is there, if
\* it starts with this read or had read what was there before.
LEMMA ReadMore ==
  ASSUME NEW actor, NEW base \in actor.left, NEW missed, NEW rec, actor.pc = "rescan",
         ScanShape(actor), UNCHANGED <<scenario, files>>,
         rec.left = actor.left \ {base},
         rec.seen = actor.seen \cup (OfBase(files, base) \ missed),
         (rec.pc = "publish" /\ rec.left = {}) \/ rec.pc = "rescan"
  PROVE  /\ Regenerating(rec) /\ ~Unstarted(rec) /\ ScanShape(rec)
         /\ missed = {} /\ (Unstarted(actor) \/ HasRead(actor)) => HasRead(rec)
<1>0. missed = {} => rec.seen = actor.seen \cup {f \in files : f.base = base}
  BY Zenon DEF OfBase
<1>1. actor.left \subseteq scanned /\ base \in scanned
  BY Zenon DEF ScanShape, scanned
<1>2. rec.left # scanned /\ rec.left \subseteq scanned
  BY <1>1, Zenon
<1>3. Regenerating(rec) /\ ~Unstarted(rec) /\ ScanShape(rec)
  BY <1>2, Zenon DEF Regenerating, Unstarted, ScanShape, scanned
<1>4. CASE missed = {} /\ Unstarted(actor)
  <2>1. actor.seen = {} /\ actor.left = scanned
    BY <1>4, Zenon DEF ScanShape, Unstarted, scanned
  <2>2. \A f \in files : f.base = base <=> f.base \in scanned \ rec.left
    BY <1>1, <2>1, Zenon
  <2>3. rec.seen = {f \in files : f.base \in scanned \ rec.left}
    BY <1>0, <1>4, <2>1, <2>2, Zenon
  <2> QED
    BY <1>3, <2>3, Zenon DEF HasRead, scanned
<1>5. CASE missed = {} /\ HasRead(actor)
  <2>1. actor.seen = {f \in files : f.base \in scanned \ actor.left}
    BY <1>5, Zenon DEF HasRead, scanned
  <2>2. \A f \in files : f.base \in scanned \ rec.left
                            <=> f.base \in scanned \ actor.left \/ f.base = base
    BY <1>1, Zenon
  <2>3. rec.seen = {f \in files : f.base \in scanned \ rec.left}
    BY <1>0, <1>5, <2>1, <2>2, Zenon
  <2> QED
    BY <1>3, <2>3, Zenon DEF HasRead, scanned
<1> QED
  BY <1>3, <1>4, <1>5, Zenon

\* A read of a regeneration by a build: it is the only one at it, and has read
\* what is there, unless somebody else has yet to read it all.
LEMMA RescanStep ==
  ASSUME RangeInv, IndexInv, NEW t \in Tasks, Rescan(t)
  PROVE  IndexInv'
<1>1. PICK base \in task[t].left, missed \in SUBSET files :
        /\ task' = [task EXCEPT ![t] = AfterRead(task[t], base, missed)]
        /\ lagging' = (lagging \/ missed # {} \/ Overlap(task', cleaner))
  BY Zenon DEF Rescan, AfterRead
<1>2. /\ task[t].pc = "rescan" /\ DOMAIN task[t] = Fields
      /\ UNCHANGED <<scenario, files, index, cleaner>>
  BY Zenon DEF Rescan, RangeInv
<1> DEFINE rec == AfterRead(task[t], base, missed)
<1>3. /\ DOMAIN rec = Fields /\ rec.left = task[t].left \ {base}
      /\ rec.seen = task[t].seen \cup (OfBase(files, base) \ missed)
      /\ \/ rec.pc = "publish" /\ rec.left = {}
         \/ rec.pc = "rescan"
  BY <1>2, RescanRecord, SMT
<1>4. task'[t] = rec /\ \A u \in Tasks \ {t} : task'[u] = task[u]
  BY <1>1, TaskMove, Zenon
<1> HIDE DEF rec
<1>5. ScanShape(task[t])
  BY Zenon DEF IndexInv
<1>6. /\ Regenerating(rec) /\ ~Unstarted(rec) /\ ScanShape(rec)
      /\ missed = {} /\ (Unstarted(task[t]) \/ HasRead(task[t])) => HasRead(rec)
  BY <1>2, <1>3, <1>5, ReadMore, Zenon
<1>7. rec.pc # "scan"
  BY <1>3, Zenon
<1>8. /\ Regenerating(task[t])' /\ ScanShape(task[t])' /\ ~FreshTask(t)'
      /\ missed = {} /\ (Unstarted(task[t]) \/ HasRead(task[t])) => HasRead(task[t])'
  BY <1>2, <1>4, <1>6, <1>7, Zenon DEF Regenerating, Unstarted, ScanShape, HasRead, FreshTask, scanned
<1>9. \A u \in Tasks : ScanShape(task[u])'
  BY <1>2, <1>4, <1>8, TaskStays, Zenon DEF IndexInv
<1>10. ScanShape(cleaner)' /\ (FreshCleaner' <=> FreshCleaner)
  BY <1>2, CleanerStays, Zenon DEF IndexInv
<1>11. (\A f \in files : f.base \in scenario.bases)'
  BY <1>2, Zenon DEF IndexInv
<1>12. Overlap(task', cleaner) <=> Overlap(task, cleaner)'
  BY <1>2, Zenon DEF Overlap, Regenerating, scanned
<1>13. ASSUME ~lagging' PROVE ~lagging /\ missed = {} /\ ~Overlap(task, cleaner)'
  BY <1>1, <1>12, <1>13, Zenon
<1>14. ASSUME ~lagging', NoneFresh'
       PROVE  /\ \A u \in Tasks : Regenerating(task[u])' => HasRead(task[u])'
              /\ ~Regenerating(cleaner)'
  <2>1. ~Regenerating(cleaner)' /\ \A u \in Tasks \ {t} : ~Regenerating(task[u])'
    BY <1>8, <1>13, <1>14, Zenon DEF Overlap
  <2>2. CASE Unstarted(task[t])
    BY <1>8, <1>13, <1>14, <2>1, <2>2, Zenon
  <2>3. CASE ~Unstarted(task[t])
    <3>1. Regenerating(task[t]) /\ ~FreshTask(t)
      BY <1>2, <2>3, Zenon DEF Regenerating, Unstarted, FreshTask, scanned
    <3>2. \A u \in Tasks \ {t} : ~FreshTask(u)
      BY <1>2, <1>4, <1>14, TaskStays, Zenon DEF NoneFresh
    <3>3. NoneFresh
      BY <1>10, <1>14, <3>1, <3>2, Zenon DEF NoneFresh
    <3>4. HasRead(task[t])
      BY <1>13, <1>14, <3>1, <3>3, Zenon DEF IndexInv
    <3> QED
      BY <1>8, <1>13, <1>14, <2>1, <3>4, Zenon
  <2> QED
    BY <2>2, <2>3, Zenon
<1> QED
  BY <1>8, <1>9, <1>10, <1>11, <1>13, <1>14, Zenon DEF IndexInv

\* The same by the cleanup.
LEMMA CleanRescanStep ==
  ASSUME RangeInv, IndexInv, CleanRescan
  PROVE  IndexInv'
<1>1. PICK base \in cleaner.left, missed \in SUBSET files :
        /\ cleaner' = AfterRead(cleaner, base, missed)
        /\ lagging' = (lagging \/ missed # {} \/ Overlap(task, cleaner'))
  BY Zenon DEF CleanRescan, AfterRead
<1>2. /\ cleaner.pc = "rescan" /\ DOMAIN cleaner = Fields
      /\ UNCHANGED <<scenario, files, index, task>>
  BY Zenon DEF CleanRescan, RangeInv
<1> DEFINE rec == AfterRead(cleaner, base, missed)
<1>3. /\ DOMAIN rec = Fields /\ rec.left = cleaner.left \ {base}
      /\ rec.seen = cleaner.seen \cup (OfBase(files, base) \ missed)
      /\ \/ rec.pc = "publish" /\ rec.left = {}
         \/ rec.pc = "rescan"
  BY <1>2, RescanRecord, SMT
<1>4. cleaner' = rec
  BY <1>1, Zenon
<1> HIDE DEF rec
<1>5. ScanShape(cleaner)
  BY Zenon DEF IndexInv
<1>6. /\ Regenerating(rec) /\ ~Unstarted(rec) /\ ScanShape(rec)
      /\ missed = {} /\ (Unstarted(cleaner) \/ HasRead(cleaner)) => HasRead(rec)
  BY <1>2, <1>3, <1>5, ReadMore, Zenon
<1>7. rec.pc # "remove"
  BY <1>3, Zenon
<1>8. /\ Regenerating(cleaner)' /\ ScanShape(cleaner)' /\ ~FreshCleaner'
      /\ missed = {} /\ (Unstarted(cleaner) \/ HasRead(cleaner)) => HasRead(cleaner)'
  BY <1>2, <1>4, <1>6, <1>7, Zenon DEF Regenerating, Unstarted, ScanShape, HasRead, FreshCleaner, scanned
<1>9. \A u \in Tasks : ScanShape(task[u])' /\ (FreshTask(u)' <=> FreshTask(u))
  BY <1>2, TaskStays, Zenon DEF IndexInv
<1>10. (\A f \in files : f.base \in scenario.bases)'
  BY <1>2, Zenon DEF IndexInv
<1>11. Overlap(task, cleaner') <=> Overlap(task, cleaner)'
  BY <1>2, Zenon DEF Overlap, Regenerating, scanned
<1>12. ASSUME ~lagging' PROVE ~lagging /\ missed = {} /\ ~Overlap(task, cleaner)'
  BY <1>1, <1>11, <1>12, Zenon
<1>13. ASSUME ~lagging', NoneFresh'
       PROVE  HasRead(cleaner)' /\ \A u \in Tasks : ~Regenerating(task[u])'
  <2>1. \A u \in Tasks : ~Regenerating(task[u])'
    BY <1>8, <1>12, <1>13, Zenon DEF Overlap
  <2>2. CASE Unstarted(cleaner)
    BY <1>8, <1>12, <1>13, <2>1, <2>2, Zenon
  <2>3. CASE ~Unstarted(cleaner)
    <3>1. Regenerating(cleaner) /\ ~FreshCleaner
      BY <1>2, <2>3, Zenon DEF Regenerating, Unstarted, FreshCleaner, scanned
    <3>2. NoneFresh
      BY <1>9, <1>13, <3>1, Zenon DEF NoneFresh
    <3>3. HasRead(cleaner)
      BY <1>12, <1>13, <3>1, <3>2, Zenon DEF IndexInv
    <3> QED
      BY <1>8, <1>12, <1>13, <2>1, <3>3, Zenon
  <2> QED
    BY <2>2, <2>3, Zenon
<1> QED
  BY <1>8, <1>9, <1>10, <1>12, <1>13, Zenon DEF IndexInv

\* An index that is renamed into place is the repository, unless somebody has yet
\* to read it again.
LEMMA ReadAll ==
  ASSUME NEW actor, actor.pc = "publish", ScanShape(actor), HasRead(actor),
         \A f \in files : f.base \in scenario.bases
  PROVE  actor.seen = Listed
<1>1. actor.left = {} /\ actor.seen = {f \in files : f.base \in scanned \ actor.left}
  BY Zenon DEF ScanShape, HasRead
<1>2. \A f \in files : f.base \in scanned \ actor.left <=> f.base \notin Unscanned
  BY <1>1, Zenon DEF scanned
<1> QED
  BY <1>1, <1>2, Zenon DEF Listed

LEMMA PublishStep ==
  ASSUME RangeInv, IndexInv, NEW t \in Tasks, Publish(t)
  PROVE  IndexInv'
<1>1. /\ task[t].pc = "publish" /\ index' = task[t].seen /\ Goto(t, "done")
      /\ UNCHANGED <<scenario, files, cleaner, lagging>>
  BY Zenon DEF Publish
<1>2. task'[t].pc = "done" /\ \A u \in Tasks \ {t} : task'[u] = task[u]
  BY <1>1, GotoMove, Zenon
<1>3. ~Regenerating(task[t])' /\ ~FreshTask(t)' /\ ScanShape(task[t])'
  BY <1>2, Zenon DEF Regenerating, FreshTask, Unstarted, ScanShape, scanned
<1>4. Regenerating(task[t]) /\ ~FreshTask(t)
  BY <1>1, Zenon DEF Regenerating, FreshTask, Unstarted, scanned
<1>5. \A u \in Tasks : (Regenerating(task[u])' => Regenerating(task[u])) /\ ScanShape(task[u])'
  BY <1>1, <1>2, <1>3, TaskStays, Zenon DEF IndexInv
<1>6. /\ Regenerating(cleaner)' <=> Regenerating(cleaner)
      /\ FreshCleaner' <=> FreshCleaner
      /\ ScanShape(cleaner)'
  BY <1>1, CleanerStays, Zenon DEF IndexInv
<1>7. ~lagging => ~Overlap(task, cleaner)'
  BY <1>5, <1>6, OverlapLess, Zenon DEF IndexInv
<1>8. (\A f \in files : f.base \in scenario.bases)'
  BY <1>1, Zenon DEF IndexInv
<1>9. ASSUME ~lagging, NoneFresh'
      PROVE  /\ ~Regenerating(cleaner)' /\ \A u \in Tasks : ~Regenerating(task[u])'
             /\ index' = Listed'
  <2>1. ~Regenerating(cleaner) /\ \A u \in Tasks \ {t} : ~Regenerating(task[u])
    BY <1>4, <1>9, Zenon DEF IndexInv, Overlap
  <2>2. \A u \in Tasks : ~Regenerating(task[u])'
    BY <1>3, <1>5, <2>1, Zenon
  <2>3. NoneFresh
    BY <1>1, <1>2, <1>4, <1>6, <1>9, TaskStays, Zenon DEF NoneFresh
  <2>4. HasRead(task[t]) /\ ScanShape(task[t]) /\ \A f \in files : f.base \in scenario.bases
    BY <1>4, <1>9, <2>3, Zenon DEF IndexInv
  <2>5. task[t].seen = Listed
    BY <1>1, <2>4, ReadAll, Zenon
  <2> QED
    BY <1>1, <1>6, <2>1, <2>2, <2>5, Zenon DEF Listed
<1> QED
  BY <1>1, <1>5, <1>6, <1>7, <1>8, <1>9, Zenon DEF IndexInv

LEMMA CleanPublishStep ==
  ASSUME RangeInv, IndexInv, CleanPublish
  PROVE  IndexInv'
<1>1. /\ cleaner.pc = "publish" /\ index' = cleaner.seen /\ cleaner' = [Idle EXCEPT !.pc = "wait"]
      /\ UNCHANGED <<scenario, files, task, lagging>>
  BY Zenon DEF CleanPublish
<1>2. cleaner'.pc = "wait"
  BY <1>1, WaitRecord, Zenon
<1>3. ~Regenerating(cleaner)' /\ ScanShape(cleaner)'
  BY <1>2, Zenon DEF Regenerating, ScanShape, Unstarted, scanned
<1>4. Regenerating(cleaner) /\ ~FreshCleaner
  BY <1>1, Zenon DEF Regenerating, FreshCleaner, Unstarted, scanned
<1>5. \A u \in Tasks : /\ Regenerating(task[u])' <=> Regenerating(task[u])
                       /\ FreshTask(u)' <=> FreshTask(u)
                       /\ ScanShape(task[u])'
  BY <1>1, TaskStays, Zenon DEF IndexInv
<1>6. ~lagging => ~Overlap(task, cleaner)'
  BY <1>3, <1>5, OverlapLess, Zenon DEF IndexInv
<1>7. (\A f \in files : f.base \in scenario.bases)'
  BY <1>1, Zenon DEF IndexInv
<1>8. ASSUME ~lagging, NoneFresh'
      PROVE  index' = Listed' /\ \A u \in Tasks : ~Regenerating(task[u])'
  <2>1. \A u \in Tasks : ~Regenerating(task[u])
    BY <1>4, <1>8, Zenon DEF IndexInv, Overlap
  <2>2. NoneFresh
    BY <1>4, <1>5, <1>8, Zenon DEF NoneFresh
  <2>3. HasRead(cleaner) /\ ScanShape(cleaner) /\ \A f \in files : f.base \in scenario.bases
    BY <1>4, <1>8, <2>2, Zenon DEF IndexInv
  <2>4. cleaner.seen = Listed
    BY <1>1, <2>3, ReadAll, Zenon
  <2> QED
    BY <1>1, <1>5, <2>1, <2>4, Zenon DEF Listed
<1> QED
  BY <1>1, <1>3, <1>5, <1>6, <1>7, <1>8, Zenon DEF IndexInv

\* What a worker leaves belongs to a package of the repository.
LEMMA EmergedBases ==
  ASSUME RangeInv, IndexInv, NEW t \in Tasks
  PROVE  \A f \in Emerged(t) : f.base \in scenario.bases
<1> DEFINE new == [base |-> Order(t).base, ver |-> Order(t).ver, by |-> t]
<1>1. new.base \in scenario.bases
  BY OrderTyped, Zenon
<1> HIDE DEF new
<1>2. \A f \in Emerged(t) : f \in files \/ f = new
  BY Zenon DEF Emerged, new
<1> QED
  BY <1>1, <1>2, Zenon DEF IndexInv

\* Once a change was never followed by a regeneration, only shapes are promised.
LEMMA TaskGivesUp ==
  ASSUME RangeInv, IndexInv, NEW t \in Tasks, NEW pc \in {"done", "failed"}, Goto(t, pc), lagging',
         UNCHANGED <<scenario, cleaner>>, \A f \in files' : f.base \in scenario.bases
  PROVE  IndexInv'
<1>1. task'[t].pc = pc /\ \A u \in Tasks \ {t} : task'[u] = task[u]
  BY GotoMove, Zenon
<1>2. ScanShape(task[t])'
  BY <1>1, Zenon DEF ScanShape, Unstarted, scanned
<1>3. \A u \in Tasks : ScanShape(task[u])'
  BY <1>1, <1>2, TaskStays, Zenon DEF IndexInv
<1>4. ScanShape(cleaner)'
  BY CleanerStays, Zenon DEF IndexInv
<1> QED
  BY <1>3, <1>4, Zenon DEF IndexInv

LEMMA ImageIndexStep ==
  ASSUME RangeInv, IndexInv, NEW t \in Tasks, ImageStep(t)
  PROVE  IndexInv'
<1>1. PICK pc \in Early : Goto(t, pc)
  BY ImageEffects, Zenon
<1>2. UNCHANGED <<scenario, files, index, cleaner, lagging>> /\ task[t].pc \in Early
  BY ImageEffects, Zenon
<1>3. task'[t].pc = pc /\ \A u \in Tasks \ {t} : task'[u] = task[u]
  BY <1>1, GotoMove, Zenon
<1>4. /\ task[t].pc \notin {"scan", "rescan", "publish"}
      /\ task'[t].pc \notin {"scan", "rescan", "publish"}
  BY <1>2, <1>3, Zenon DEF Early
<1> QED
  BY <1>2, <1>3, <1>4, QuietTask, Zenon

LEMMA RepoIndexStep ==
  ASSUME RangeInv, IndexInv, NEW t \in Tasks, RepoStep(t)
  PROVE  IndexInv'
<1>0. DOMAIN task[t] = Fields
  BY Zenon DEF RangeInv
<1>1. CASE Emerge(t)
  <2> DEFINE rec == Start(task[t], "scan")
  <2>1. /\ files' = Emerged(t) /\ task' = [task EXCEPT ![t] = rec]
        /\ UNCHANGED <<scenario, cleaner, lagging>>
    BY <1>1, Zenon DEF Emerge
  <2>2. rec.pc = "scan"
    BY <1>0, StartRecord, Zenon
  <2> HIDE DEF rec
  <2>3. task'[t] = rec /\ \A u \in Tasks \ {t} : task'[u] = task[u]
    BY <2>1, TaskMove, Zenon
  <2>4. \A f \in files' : f.base \in scenario.bases
    BY <2>1, EmergedBases, Zenon
  <2>5. task'[t].pc = "scan"
    BY <2>2, <2>3, Zenon
  <2> QED
    BY <2>1, <2>3, <2>4, <2>5, FreshStep, Zenon
<1>2. CASE EmergeFails(t)
  <2>1. /\ task[t].pc = "running" /\ files' \in {files, Emerged(t)}
        /\ lagging' = (lagging \/ files' # files) /\ Goto(t, "failed")
        /\ UNCHANGED <<scenario, index, cleaner>>
    BY <1>2, Zenon DEF EmergeFails
  <2>2. CASE files' = files
    <3>1. task'[t].pc = "failed" /\ \A u \in Tasks \ {t} : task'[u] = task[u]
      BY <2>1, GotoMove, Zenon
    <3>2. /\ task[t].pc \notin {"scan", "rescan", "publish"}
          /\ task'[t].pc \notin {"scan", "rescan", "publish"}
      BY <2>1, <3>1, Zenon
    <3> QED
      BY <2>1, <2>2, <3>1, <3>2, QuietTask, Zenon
  <2>3. CASE files' # files
    <3>1. lagging' /\ files' = Emerged(t)
      BY <2>1, <2>3, Zenon
    <3>2. \A f \in files' : f.base \in scenario.bases
      BY <3>1, EmergedBases, Zenon
    <3> QED
      BY <2>1, <3>1, <3>2, TaskGivesUp, Zenon
  <2> QED
    BY <2>2, <2>3, Zenon
<1>3. CASE Scan(t)
  <2>1. PICK base \in task[t].left, missed \in SUBSET files :
          LET next == scan_directory(task[t], base, missed) IN
          task' = [task EXCEPT ![t] = IF next.left = {} THEN Start(next, "rescan") ELSE next]
    BY <1>3, Zenon DEF Scan
  <2> DEFINE next == scan_directory(task[t], base, missed)
             rec == IF next.left = {} THEN Start(next, "rescan") ELSE next
  <2>2. task[t].pc = "scan" /\ UNCHANGED <<scenario, files, cleaner, lagging>>
    BY <1>3, Zenon DEF Scan
  <2>3. DOMAIN next = Fields /\ next.pc = "scan"
    BY <1>0, <2>2, ScanRecord, SMT
  <2>4. \/ rec.pc = "scan"
        \/ rec.pc = "rescan" /\ rec.left = scanned /\ rec.seen = {}
    <3> HIDE DEF next
    <3>1. Start(next, "rescan").pc = "rescan" /\ Start(next, "rescan").left = scanned
          /\ Start(next, "rescan").seen = {}
      BY <2>3, StartRecord, Zenon
    <3> QED
      BY <2>3, <3>1, Zenon
  <2>5. task' = [task EXCEPT ![t] = rec]
    BY <2>1, Zenon
  <2> HIDE DEF rec
  <2>6. task'[t] = rec /\ \A u \in Tasks \ {t} : task'[u] = task[u]
    BY <2>5, TaskMove, Zenon
  <2>7. \/ task'[t].pc = "scan"
        \/ task'[t].pc = "rescan" /\ task'[t].left = scanned /\ task'[t].seen = {}
    BY <2>4, <2>6, Zenon
  <2>8. \A f \in files' : f.base \in scenario.bases
    BY <2>2, Zenon DEF IndexInv
  <2> QED
    BY <2>2, <2>6, <2>7, <2>8, FreshStep, Zenon
<1>4. CASE ScanFails(t)
  <2> DEFINE rec == Start(task[t], "rescan")
  <2>1. task' = [task EXCEPT ![t] = rec] /\ UNCHANGED <<scenario, files, cleaner, lagging>>
    BY <1>4, Zenon DEF ScanFails
  <2>2. rec.pc = "rescan" /\ rec.left = scanned /\ rec.seen = {}
    BY <1>0, StartRecord, Zenon
  <2> HIDE DEF rec
  <2>3. task'[t] = rec /\ \A u \in Tasks \ {t} : task'[u] = task[u]
    BY <2>1, TaskMove, Zenon
  <2>4. task'[t].pc = "rescan" /\ task'[t].left = scanned /\ task'[t].seen = {}
    BY <2>2, <2>3, Zenon
  <2>5. \A f \in files' : f.base \in scenario.bases
    BY <2>1, Zenon DEF IndexInv
  <2> QED
    BY <2>1, <2>3, <2>4, <2>5, FreshStep, Zenon
<1>5. CASE PublishFails(t)
  <2>1. Goto(t, "done") /\ lagging' /\ UNCHANGED <<scenario, files, cleaner>>
    BY <1>5, Zenon DEF PublishFails
  <2>2. \A f \in files' : f.base \in scenario.bases
    BY <2>1, Zenon DEF IndexInv
  <2> QED
    BY <2>1, <2>2, TaskGivesUp, Zenon
<1> QED
  BY <1>1, <1>2, <1>3, <1>4, <1>5, RescanStep, PublishStep, Zenon DEF RepoStep

\* A step of the cleanup after which it still has to read the whole repository.
LEMMA FreshClean ==
  ASSUME IndexInv, UNCHANGED <<scenario, task, lagging>>, files' \subseteq files,
         \/ cleaner'.pc = "remove" /\ cleaner'.left # {}
         \/ cleaner'.pc = "rescan" /\ cleaner'.left = scanned /\ cleaner'.seen = {}
  PROVE  IndexInv'
<1>1. ~Regenerating(cleaner)' /\ FreshCleaner' /\ ScanShape(cleaner)'
  BY Zenon DEF Regenerating, FreshCleaner, Unstarted, ScanShape, scanned
<1>2. \A u \in Tasks : (Regenerating(task[u])' => Regenerating(task[u])) /\ ScanShape(task[u])'
  BY TaskStays, Zenon DEF IndexInv
<1>3. lagging \/ ~Overlap(task, cleaner)'
  BY <1>1, <1>2, OverlapLess, Zenon DEF IndexInv
<1>4. ~NoneFresh' /\ (\A f \in files : f.base \in scenario.bases)'
  BY <1>1, Zenon DEF NoneFresh, IndexInv
<1> QED
  BY <1>1, <1>2, <1>3, <1>4, SomeoneFresh, Zenon

\* A step of the cleanup that had removed nothing so far and has not now.
LEMMA QuietClean ==
  ASSUME IndexInv, UNCHANGED <<scenario, files, index, task>>, lagging => lagging',
         cleaner.pc \in {"wait", "scan"} \/ (cleaner.pc = "remove" /\ cleaner.left = {}),
         cleaner'.pc \in {"wait", "scan"} \/ (cleaner'.pc = "remove" /\ cleaner'.left = {})
  PROVE  IndexInv'
<1>1. /\ ~Regenerating(cleaner) /\ ~FreshCleaner
      /\ ~Regenerating(cleaner)' /\ ~FreshCleaner' /\ ScanShape(cleaner)'
  BY Zenon DEF Regenerating, FreshCleaner, Unstarted, ScanShape, scanned
<1>2. \A u \in Tasks : /\ Regenerating(task[u])' <=> Regenerating(task[u])
                       /\ FreshTask(u)' <=> FreshTask(u)
                       /\ HasRead(task[u])' <=> HasRead(task[u])
                       /\ ScanShape(task[u])'
  BY TaskStays, Zenon DEF IndexInv
<1>3. NoneFresh' <=> NoneFresh
  BY <1>1, <1>2, Zenon DEF NoneFresh
<1>4. ~lagging => ~Overlap(task, cleaner)'
  BY <1>1, <1>2, OverlapLess, Zenon DEF IndexInv
<1>5. (\A f \in files : f.base \in scenario.bases)'
  BY Zenon DEF IndexInv
<1>6. ASSUME ~lagging, NoneFresh
      PROVE  /\ \A u \in Tasks : Regenerating(task[u])' => HasRead(task[u])'
             /\ (\A u \in Tasks : ~Regenerating(task[u])') => index' = Listed'
  BY <1>1, <1>2, <1>6, Zenon DEF IndexInv, Listed
<1> QED
  BY <1>1, <1>2, <1>3, <1>4, <1>5, <1>6, Zenon DEF IndexInv

LEMMA CleanerIndexStep ==
  ASSUME RangeInv, IndexInv, CleanerStep
  PROVE  IndexInv'
<1>0. DOMAIN cleaner = Fields
  BY Zenon DEF RangeInv
<1>1. CASE CleanStart
  <2>1. /\ cleaner.pc = "wait" /\ cleaner' = Start(cleaner, "scan")
        /\ UNCHANGED <<scenario, files, index, task, lagging>>
    BY <1>1, Zenon DEF CleanStart
  <2>2. cleaner'.pc = "scan"
    BY <1>0, <2>1, StartRecord, Zenon
  <2> QED
    BY <2>1, <2>2, QuietClean, Zenon
<1>2. CASE CleanScan
  <2>1. cleaner.pc = "scan" /\ UNCHANGED <<scenario, files, index, task, lagging>>
    BY <1>2, Zenon DEF CleanScan
  <2> QED
    BY <1>2, <2>1, CleanScanRecord, QuietClean, Zenon
<1>3. CASE CleanRemove
  <2>1. PICK f \in cleaner.seen :
          /\ files' = {g \in files : g.base # f.base \/ g.ver # f.ver}
          /\ cleaner' = AfterRemove(f, cleaner.left \cup {f.base})
    BY <1>3, Zenon DEF CleanRemove
  <2>2. cleaner.pc = "remove" /\ UNCHANGED <<scenario, task, lagging>> /\ files' \subseteq files
    BY <1>3, <2>1, Zenon DEF CleanRemove
  <2> DEFINE left == cleaner.left \cup {f.base}
             rec == AfterRemove(f, left)
  <2>3. left # {} /\ cleaner' = rec
    BY <2>1, Zenon
  <2> HIDE DEF left
  <2>4. \/ rec.pc = "remove" /\ rec.left = left
        \/ rec.pc = "rescan" /\ rec.left = scanned /\ rec.seen = {}
    BY <1>0, <2>2, <2>3, AfterRemoveRecord, Zenon
  <2> HIDE DEF rec
  <2>5. \/ cleaner'.pc = "remove" /\ cleaner'.left # {}
        \/ cleaner'.pc = "rescan" /\ cleaner'.left = scanned /\ cleaner'.seen = {}
    BY <2>3, <2>4, Zenon
  <2> QED
    BY <2>2, <2>5, FreshClean, Zenon
<1>4. CASE CleanRemoveFails
  <2>1. PICK f \in cleaner.seen : cleaner' = AfterRemove(f, cleaner.left)
    BY <1>4, Zenon DEF CleanRemoveFails
  <2>2. cleaner.pc = "remove" /\ UNCHANGED <<scenario, files, index, task, lagging>>
    BY <1>4, Zenon DEF CleanRemoveFails
  <2> DEFINE left == cleaner.left
             rec == AfterRemove(f, left)
  <2>3. /\ left # {} => \/ rec.pc = "remove" /\ rec.left = left
                        \/ rec.pc = "rescan" /\ rec.left = scanned /\ rec.seen = {}
        /\ left = {} => rec.pc = "wait" \/ (rec.pc = "remove" /\ rec.left = {})
    BY <1>0, <2>2, AfterRemoveRecord, ZenonT(60)
  <2>4. cleaner' = rec
    BY <2>1, Zenon
  <2> HIDE DEF rec
  <2>5. CASE left = {}
    BY <2>2, <2>3, <2>4, <2>5, QuietClean, Zenon
  <2>6. CASE left # {}
    <3>1. \/ cleaner'.pc = "remove" /\ cleaner'.left # {}
          \/ cleaner'.pc = "rescan" /\ cleaner'.left = scanned /\ cleaner'.seen = {}
      BY <2>3, <2>4, <2>6, Zenon
    <3> QED
      BY <2>2, <3>1, FreshClean, Zenon
  <2> QED
    BY <2>5, <2>6, Zenon
<1>5. CASE CleanFails
  <2>1. /\ cleaner' = [Idle EXCEPT !.pc = "wait"] /\ lagging' = (lagging \/ cleaner.pc # "scan")
        /\ UNCHANGED <<scenario, files, index, task>>
    BY <1>5, Zenon DEF CleanFails
  <2>2. cleaner'.pc = "wait"
    BY <2>1, WaitRecord, Zenon
  <2>3. CASE cleaner.pc = "scan"
    BY <2>1, <2>2, <2>3, QuietClean, Zenon
  <2>4. CASE cleaner.pc # "scan"
    <3>1. lagging'
      BY <2>1, <2>4, Zenon
    <3>2. ScanShape(cleaner)'
      BY <2>2, Zenon DEF ScanShape, Unstarted, scanned
    <3>3. \A u \in Tasks : ScanShape(task[u])'
      BY <2>1, TaskStays, Zenon DEF IndexInv
    <3> QED
      BY <2>1, <3>1, <3>2, <3>3, Zenon DEF IndexInv
  <2> QED
    BY <2>3, <2>4, Zenon
<1> QED
  BY <1>1, <1>2, <1>3, <1>4, <1>5, CleanRescanStep, CleanPublishStep, Zenon
     DEF CleanerStep, CleanStep

\* Who has nothing to do with the repository leaves the index as exact as it was.
LEMMA IndexStep == ASSUME RangeInv, IndexInv, [Next]_vars PROVE IndexInv'
<1>1. CASE ReapingStep \/ UNCHANGED vars
  <2>1. UNCHANGED <<scenario, files, index, cleaner, task, lagging>>
    BY <1>1, ReapingEffects, Zenon DEF vars
  <2>2. IndexInv' <=> IndexInv
    BY <2>1, ZenonT(60) DEF IndexInv, NoneFresh, FreshTask, FreshCleaner, Unstarted, HasRead, ScanShape,
                       Overlap, Regenerating, scanned, Listed
  <2> QED
    BY <2>2, Zenon
<1> QED
  BY <1>1, ImageIndexStep, RepoIndexStep, CleanerIndexStep, Kinds, Zenon

(***************************************************************************)
(* The newest image of a CHOST and profile.                                *)
(***************************************************************************)
\* A step that records no use and forgets none, and removes at most an image the
\* reaper had chosen.
LEMMA SameUses ==
  ASSUME UsedInv, NewestInv, UNCHANGED used, marked \subseteq marked',
         reaper'.list \subseteq reaper.list,
         reaper'.at # NoTag => reaper'.at \in reaper'.list,
         \A tag \in Tags \ reaper.list : image[tag] # "absent" => image'[tag] # "absent"
  PROVE  UsedInv' /\ NewestInv'
<1>1. UsedInv'
  BY Zenon DEF UsedInv
<1>2. ASSUME NEW tag \in DOMAIN used, marked' = {}, newest_per_tuple(tag)'
      PROVE  image'[tag] # "absent" /\ tag \notin reaper'.list
  <2>1. newest_per_tuple(tag) /\ marked = {}
    BY <1>2, Zenon DEF newest_per_tuple
  <2>2. image[tag] # "absent" /\ tag \notin reaper.list
    BY <2>1, Zenon DEF NewestInv, Standing
  <2> QED
    BY <2>2, Zenon DEF UsedInv
<1> QED
  BY <1>1, <1>2, Zenon DEF NewestInv, Standing

\* A use that is recorded is the last of all, of an image that is there.
LEMMA RecordStep ==
  ASSUME RangeInv, ImageInv, UsedInv, NewestInv, NEW t \in Tasks, Record(t)
  PROVE  UsedInv' /\ NewestInv'
<1> DEFINE tag == Order(t).tag
           after(u) == IF u = tag THEN {} ELSE used[u] \cup {tag}
           tags == DOMAIN used \cup {tag}
<1>1. /\ task[t].pc = "record" /\ used' = [u \in tags |-> after(u)]
      /\ UNCHANGED <<image, reaper, marked>>
  BY Zenon DEF Record
<1>2. tag \in Tags
  BY OrderTyped, Zenon
<1>3. t \notin marked => image[tag] # "absent" /\ tag \notin reaper.list
  BY <1>1, Zenon DEF ImageInv, Protected
<1> HIDE DEF tag
<1>4. /\ DOMAIN used' = tags /\ used'[tag] = {}
      /\ \A u \in DOMAIN used : u # tag => used'[u] = used[u] \cup {tag}
  BY <1>1, Zenon
<1>5. \A u \in DOMAIN used : /\ used[u] \subseteq DOMAIN used \ {u}
                             /\ \A later \in used[u] : used[later] \subseteq used[u]
  BY Zenon DEF UsedInv
<1>6. ASSUME NEW u \in tags
      PROVE  /\ used'[u] \subseteq tags \ {u}
             /\ \A later \in used'[u] : used'[later] \subseteq used'[u]
  <2>1. CASE u = tag
    BY <1>4, <2>1, Zenon
  <2>2. CASE u # tag
    <3>1. u \in DOMAIN used /\ used'[u] = used[u] \cup {tag}
      BY <1>4, <2>2, Zenon
    <3>2. used'[u] \subseteq tags \ {u}
      BY <1>5, <2>2, <3>1, Zenon
    <3>3. ASSUME NEW later \in used'[u] PROVE used'[later] \subseteq used'[u]
      <4>1. CASE later = tag
        BY <1>4, <4>1, Zenon
      <4>2. CASE later # tag
        <5>1. later \in used[u] /\ later \in DOMAIN used
          BY <1>5, <3>1, <3>3, <4>2, Zenon
        <5>2. used[later] \subseteq used[u] /\ used'[later] = used[later] \cup {tag}
          BY <1>4, <1>5, <3>1, <4>2, <5>1, Zenon
        <5> QED
          BY <3>1, <5>2, Zenon
      <4> QED
        BY <4>1, <4>2, Zenon
    <3> QED
      BY <3>2, <3>3, Zenon
  <2> QED
    BY <2>1, <2>2, Zenon
<1>7. UsedInv'
  BY <1>1, <1>2, <1>4, <1>6, ZenonT(60) DEF UsedInv
<1>8. ASSUME NEW u \in tags, marked' = {}, newest_per_tuple(u)'
      PROVE  image'[u] # "absent" /\ u \notin reaper'.list
  <2>1. CASE u = tag
    BY <1>1, <1>3, <1>8, <2>1, Zenon
  <2>2. CASE u # tag
    <3>1. u \in DOMAIN used /\ used[u] \subseteq used'[u]
      BY <1>4, <2>2, Zenon
    <3>2. newest_per_tuple(u)
      BY <1>8, <3>1, Zenon DEF newest_per_tuple
    <3>3. image[u] # "absent" /\ u \notin reaper.list
      BY <1>1, <1>8, <3>1, <3>2, Zenon DEF NewestInv, Standing
    <3> QED
      BY <1>1, <3>3, Zenon
  <2> QED
    BY <2>1, <2>2, Zenon
<1> QED
  BY <1>4, <1>7, <1>8, Zenon DEF NewestInv, Standing

\* The reaper chooses no newest image.
LEMMA ReaperPassStep ==
  ASSUME UsedInv, NewestInv, ReaperPass
  PROVE  UsedInv' /\ NewestInv'
<1>1. /\ reaper' = [list |-> Expired, at |-> NoTag]
      /\ marked \subseteq marked' /\ UNCHANGED <<image, used>>
  BY Zenon DEF ReaperPass
<1>2. reaper'.list = Expired /\ reaper'.at = NoTag
  BY <1>1, Zenon
<1>3. UsedInv'
  BY <1>1, <1>2, Zenon DEF UsedInv
<1>4. ASSUME NEW tag \in DOMAIN used, marked' = {}, newest_per_tuple(tag)'
      PROVE  image'[tag] # "absent" /\ tag \notin reaper'.list
  <2>1. newest_per_tuple(tag) /\ marked = {}
    BY <1>1, <1>4, Zenon DEF newest_per_tuple
  <2>2. image[tag] # "absent" /\ tag \notin Expired
    BY <2>1, Zenon DEF NewestInv, Standing, Expired
  <2> QED
    BY <1>1, <1>2, <2>2, Zenon
<1> QED
  BY <1>1, <1>3, <1>4, Zenon DEF NewestInv, Standing

\* Forgetting a tag makes no other one the newest: the one it forgets is not the
\* newest, and whatever was used after it is still there.
LEMMA ReaperForgetStep ==
  ASSUME UsedInv, NewestInv, ReaperForget
  PROVE  UsedInv' /\ NewestInv'
<1> DEFINE gone == reaper.at
           left == reaper.list \ {gone}
<1>1. /\ gone # NoTag /\ used' = [u \in DOMAIN used \ {gone} |-> used[u] \ {gone}]
      /\ reaper' = [list |-> left, at |-> NoTag]
      /\ UNCHANGED <<image, marked>>
  BY Zenon DEF ReaperForget
<1>2. reaper'.list \subseteq reaper.list /\ reaper'.at = NoTag
  BY <1>1, Zenon
<1>3. gone \in reaper.list
  BY <1>1, Zenon DEF UsedInv
<1> HIDE DEF gone
<1>4. /\ DOMAIN used' = DOMAIN used \ {gone}
      /\ \A u \in DOMAIN used \ {gone} : used'[u] = used[u] \ {gone}
  BY <1>1, Zenon
<1>5. \A u \in DOMAIN used : /\ used[u] \subseteq DOMAIN used \ {u}
                             /\ \A later \in used[u] : used[later] \subseteq used[u]
  BY Zenon DEF UsedInv
<1>6. ASSUME NEW u \in DOMAIN used \ {gone}
      PROVE  /\ used'[u] \subseteq (DOMAIN used \ {gone}) \ {u}
             /\ \A later \in used'[u] : used'[later] \subseteq used'[u]
  <2>1. used'[u] = used[u] \ {gone} /\ used[u] \subseteq DOMAIN used \ {u}
    BY <1>4, <1>5, Zenon
  <2>2. ASSUME NEW later \in used'[u] PROVE used'[later] \subseteq used'[u]
    <3>1. later \in used[u] /\ later \in DOMAIN used \ {gone}
      BY <2>1, <2>2, Zenon
    <3>2. used[later] \subseteq used[u] /\ used'[later] = used[later] \ {gone}
      BY <1>4, <1>5, <3>1, Zenon
    <3> QED
      BY <2>1, <3>2, Zenon
  <2> QED
    BY <2>1, <2>2, Zenon
<1>7. UsedInv'
  <2>1. DOMAIN used \ {gone} \subseteq Tags
    BY Zenon DEF UsedInv
  <2> QED
    BY <1>2, <1>4, <1>6, <2>1, Zenon DEF UsedInv
<1>8. ASSUME NEW u \in DOMAIN used \ {gone}, marked' = {}, newest_per_tuple(u)'
      PROVE  image'[u] # "absent" /\ u \notin reaper'.list
  <2>1. \A other \in used[u] \ {gone} : Tuple(other) # Tuple(u)
    BY <1>4, <1>8, Zenon DEF newest_per_tuple
  <2>2. ASSUME gone \in used[u], Tuple(gone) = Tuple(u) PROVE FALSE
    <3>1. gone \in DOMAIN used /\ used[gone] \subseteq used[u] /\ gone \notin used[gone]
      BY <1>5, <2>2, Zenon
    <3>2. ~newest_per_tuple(gone)
      BY <1>1, <1>3, <1>8, <3>1, Zenon DEF NewestInv, Standing
    <3>3. PICK later \in used[gone] : Tuple(later) = Tuple(gone)
      BY <3>2, Zenon DEF newest_per_tuple
    <3> QED
      BY <2>1, <2>2, <3>1, <3>3, Zenon
  <2>3. newest_per_tuple(u)
    BY <2>1, <2>2, Zenon DEF newest_per_tuple
  <2>4. image[u] # "absent" /\ u \notin reaper.list
    BY <1>1, <1>8, <2>3, Zenon DEF NewestInv, Standing
  <2> QED
    BY <1>1, <1>2, <2>4, Zenon
<1> QED
  BY <1>4, <1>7, <1>8, Zenon DEF NewestInv, Standing

LEMMA NewestStep ==
  ASSUME RangeInv, ImageInv, UsedInv, NewestInv, [Next]_vars
  PROVE  UsedInv' /\ NewestInv'
<1>1. ASSUME UNCHANGED <<image, used, reaper>>, marked \subseteq marked'
      PROVE  UsedInv' /\ NewestInv'
  <2>1. /\ reaper'.list \subseteq reaper.list
        /\ reaper'.at # NoTag => reaper'.at \in reaper'.list
    BY <1>1, Zenon DEF UsedInv
  <2> QED
    BY <1>1, <2>1, SameUses, Zenon
<1>2. ASSUME NEW t \in Tasks, BuildImage(t) PROVE UsedInv' /\ NewestInv'
  <2>1. UNCHANGED <<used, reaper, marked>> /\ image' = [image EXCEPT ![Order(t).tag] = "current"]
    BY <1>2, Zenon DEF BuildImage
  <2>2. \A tag \in Tags : image[tag] # "absent" => image'[tag] # "absent"
    BY <2>1, Zenon DEF RangeInv
  <2>3. reaper'.at # NoTag => reaper'.at \in reaper'.list
    BY <2>1, Zenon DEF UsedInv
  <2> QED
    BY <2>1, <2>2, <2>3, SameUses, Zenon
<1>3. ASSUME NEW t \in Tasks, ImageStep(t) PROVE UsedInv' /\ NewestInv'
  <2>1. CASE Check(t) \/ Create(t) \/ BuildImageFails(t)
    <3>1. UNCHANGED <<image, used, reaper>> /\ marked \subseteq marked'
      BY <2>1, Zenon DEF Check, Create, BuildImageFails, imageVars
    <3> QED
      BY <1>1, <3>1, Zenon
  <2> QED
    BY <1>2, <1>3, <2>1, RecordStep, Zenon DEF ImageStep
<1>4. CASE ReaperRemove \/ ReaperRemoveFails
  <2>1. PICK tag \in reaper.list : reaper' = [reaper EXCEPT !.at = tag]
          /\ (image' = image \/ image' = [image EXCEPT ![tag] = "absent"])
    BY <1>4, Zenon DEF ReaperRemove, ReaperRemoveFails
  <2>2. UNCHANGED <<used, marked>> /\ DOMAIN reaper = {"list", "at"}
    BY <1>4, Zenon DEF ReaperRemove, ReaperRemoveFails, RangeInv
  <2>3. reaper'.list = reaper.list /\ reaper'.at = tag
    BY <2>1, <2>2, SMT
  <2>4. \A other \in Tags \ reaper.list : image'[other] = image[other]
    BY <2>1, Zenon DEF RangeInv
  <2> QED
    BY <2>1, <2>2, <2>3, <2>4, SameUses, Zenon
<1>5. CASE Tick
  BY <1>1, <1>5, Zenon DEF Tick
<1>6. CASE ReapingStep
  BY <1>4, <1>5, <1>6, ReaperPassStep, ReaperForgetStep, Zenon DEF ReapingStep, ReaperStep
<1>7. ASSUME NEW t \in Tasks, RepoStep(t) PROVE UsedInv' /\ NewestInv'
  BY <1>1, <1>7, RepoEffects, Zenon
<1>8. CASE CleanerStep
  BY <1>1, <1>8, CleanerEffects, Zenon
<1>9. CASE UNCHANGED vars
  BY <1>1, <1>9, Zenon DEF vars
<1> QED
  BY <1>3, <1>6, <1>7, <1>8, <1>9, Kinds, Zenon

\* Of the tags of a CHOST and profile there is a newest one.
LEMMA NewestExists ==
  ASSUME UsedInv, NEW tag \in DOMAIN used
  PROVE  \E other \in DOMAIN used : Tuple(other) = Tuple(tag) /\ newest_per_tuple(other)
<1> DEFINE group == {other \in DOMAIN used : Tuple(other) = Tuple(tag)}
           Ages == {Cardinality(used[other]) : other \in group}
           R == OpToRel(<, Nat)
<1>1. \A u \in DOMAIN used : /\ used[u] \subseteq DOMAIN used \ {u}
                             /\ \A later \in used[u] : used[later] \subseteq used[u]
  BY Zenon DEF UsedInv
<1>2. ASSUME NEW u \in DOMAIN used PROVE IsFiniteSet(used[u]) /\ Cardinality(used[u]) \in Nat
  <2>1. used[u] \in SUBSET Tags /\ IsFiniteSet(Tags)
    BY <1>1, UsedAssumption, Zenon DEF UsedInv
  <2>2. IsFiniteSet(used[u])
    BY <2>1, FS_Subset, Zenon
  <2> QED
    BY <2>2, FS_CardinalityType, Zenon
<1>3. Ages \subseteq Nat /\ Ages # {}
  BY <1>2, Zenon
<1>4. \E x \in Ages : \A y \in Ages : ~(<<y, x>> \in R)
  <2>1. IsWellFoundedOn(R, Nat)
    BY NatLessThanWellFounded, Zenon
  <2> HIDE DEF R, Ages
  <2> QED
    BY <1>3, <2>1, WFMin, Zenon
<1>5. \A x, y \in Nat : (<<y, x>> \in R) <=> y < x
  BY DEF OpToRel
<1> HIDE DEF R
<1>6. PICK other \in group : \A y \in Ages : ~(<<y, Cardinality(used[other])>> \in R)
  BY <1>4, Zenon
<1>7. ASSUME NEW later \in used[other], Tuple(later) = Tuple(other) PROVE FALSE
  <2>1. /\ later \in group /\ later \in DOMAIN used /\ other \in DOMAIN used
        /\ used[later] \subseteq used[other] /\ later \notin used[later]
    BY <1>1, <1>7, Zenon
  <2>2. IsFiniteSet(used[other]) /\ Cardinality(used[other]) \in Nat /\ Cardinality(used[later]) \in Nat
    BY <1>2, <2>1, Zenon
  <2>3. /\ Cardinality(used[later]) <= Cardinality(used[other])
        /\ Cardinality(used[other]) = Cardinality(used[later]) => used[other] = used[later]
    BY <2>1, <2>2, FS_Subset, Zenon
  <2>4. used[other] # used[later]
    BY <1>7, <2>1, Zenon
  <2>5. Cardinality(used[later]) < Cardinality(used[other])
    BY <2>2, <2>3, <2>4, SMT
  <2>6. Cardinality(used[later]) \in Ages
    BY <2>1, Zenon
  <2> QED
    BY <1>5, <1>6, <2>2, <2>5, <2>6, Zenon
<1> QED
  BY <1>7, Zenon DEF newest_per_tuple

(***************************************************************************)
(* The theorems.                                                           *)
(***************************************************************************)
LEMMA InitIInv == Init => IInv
<1> SUFFICES ASSUME Init PROVE IInv
  OBVIOUS
<1>1. \A t \in Tasks : Order(t).at \in {"check", "running", "done"}
  BY ScenarioAssumption, Zenon DEF Init, Order
<1>2. ASSUME NEW pc
      PROVE  DOMAIN [Idle EXCEPT !.pc = pc] = Fields /\ [Idle EXCEPT !.pc = pc].pc = pc
  BY SMT DEF Idle, Fields
<1>3. \A t \in Tasks : task[t] = [Idle EXCEPT !.pc = Order(t).at]
  BY Zenon DEF Init
<1>4. \A t \in Tasks : DOMAIN task[t] = Fields /\ task[t].pc = Order(t).at
  BY <1>2, <1>3, Zenon
<1>5. DOMAIN cleaner = Fields /\ cleaner.pc = "wait"
  BY <1>2, Zenon DEF Init
<1>6. \A t \in Tasks : task[t].pc \in {"check", "running", "done"}
  BY <1>1, <1>4, Zenon
<1>7. RangeInv
  <2>1. scenario \in Scenarios /\ DOMAIN task = Tasks
    BY Zenon DEF Init
  <2>2. image \in [Tags -> ImageStates]
    BY ScenarioAssumption, Zenon DEF Init, ImageStates
  <2>3. DOMAIN reaper = {"list", "at"}
    BY SMT DEF Init
  <2>4. \A t \in Tasks : task[t].pc \in Pcs
    BY <1>6, Zenon DEF Pcs
  <2>5. cleaner.pc \in CleanPcs
    BY <1>5, Zenon DEF CleanPcs
  <2> QED
    BY <1>4, <1>5, <2>1, <2>2, <2>3, <2>4, <2>5, Zenon DEF RangeInv
<1>8. ImageInv
  BY <1>6, Zenon DEF ImageInv, Protected
<1>9. IndexInv
  <2>1. \A f \in files : f.base \in scenario.bases
    BY ScenarioAssumption, Zenon DEF Init
  <2>2. ~Regenerating(cleaner) /\ ScanShape(cleaner)
    BY <1>5, Zenon DEF Regenerating, ScanShape, Unstarted, scanned
  <2>3. \A t \in Tasks : ~Regenerating(task[t]) /\ ScanShape(task[t])
    BY <1>6, Zenon DEF Regenerating, ScanShape, Unstarted, scanned
  <2>4. index = Listed
    BY Zenon DEF Init
  <2> QED
    BY <2>1, <2>2, <2>3, <2>4, Zenon DEF IndexInv, Overlap
<1>10. UsedInv /\ NewestInv
  <2>1. /\ DOMAIN used \subseteq Tags
        /\ \A u \in DOMAIN used : used[u] \subseteq DOMAIN used \ {u}
        /\ \A u \in DOMAIN used : \A v \in used[u] : used[v] \subseteq used[u]
        /\ \A u \in DOMAIN used : newest_per_tuple(u) => image[u] # "absent"
    BY UsedAssumption, Zenon DEF Init, newest_per_tuple
  <2>2. reaper.list = {} /\ reaper.at = NoTag
    BY Zenon DEF Init
  <2> QED
    BY <2>1, <2>2, Zenon DEF UsedInv, NewestInv, Standing
<1> QED
  BY <1>7, <1>8, <1>9, <1>10, Zenon DEF IInv

\* In every reachable state a build that recorded the use of its image before the
\* reaper chose it keeps the image until its container exists, and whoever is
\* regenerating the index alone has read what the repository holds.
THEOREM MaintenanceInvariance == Spec => []IInv
<1>1. IInv /\ [Next]_vars => IInv'
  BY RangeStep, ImageInvStep, NewestStep, IndexStep, Zenon DEF IInv
<1> QED
  BY <1>1, InitIInv, PTL DEF Spec

\* start_worker finds no image only where run_image_reaper had chosen the image
\* before the build wrote it to image_last_used.
THEOREM MissingImageExcusedHolds == Spec => []MissingImageExcused
<1>1. IInv => MissingImageExcused
  BY Zenon DEF IInv, ImageInv, Protected, MissingImageExcused
<1> QED
  BY <1>1, MaintenanceInvariance, PTL

\* run_image_reaper leaves every CHOST and profile in use an image, as long as it
\* never chose one that a build was about to use.
THEOREM TupleKeptHolds == Spec => []TupleKept
<1>1. ASSUME IInv, marked = {}, NEW tag \in DOMAIN used
      PROVE  \E other \in DOMAIN used : Tuple(other) = Tuple(tag) /\ image[other] # "absent"
  <2>1. PICK other \in DOMAIN used : Tuple(other) = Tuple(tag) /\ newest_per_tuple(other)
    BY <1>1, NewestExists, Zenon DEF IInv
  <2> QED
    BY <1>1, <2>1, Zenon DEF IInv, NewestInv, Standing
<1>2. IInv => TupleKept
  BY <1>1, Zenon DEF TupleKept
<1> QED
  BY <1>2, MaintenanceInvariance, PTL

\* With no build and no cleanup at work, the Packages index that regenerate_index
\* wrote last has exactly the files of the categories that scan_packages reads, unless
\* regenerations overlapped, one failed or passed over a directory or file it could
\* not read, or a worker failed after it had left a package.
THEOREM IndexExactHolds == Spec => []IndexExact
<1>1. ASSUME IInv PROVE IndexExact
  <2> SUFFICES ASSUME \A t \in Tasks : task[t].pc \notin {"scan", "rescan", "publish"},
                      cleaner.pc \in {"wait", "scan"}, ~lagging
               PROVE  index = Listed
    BY Zenon DEF IndexExact
  <2>1. ~Regenerating(cleaner) /\ ~FreshCleaner
    BY Zenon DEF Regenerating, FreshCleaner, Unstarted, scanned
  <2>2. \A t \in Tasks : ~Regenerating(task[t]) /\ ~FreshTask(t)
    BY Zenon DEF Regenerating, FreshTask, Unstarted, scanned
  <2> QED
    BY <1>1, <2>1, <2>2, Zenon DEF IInv, IndexInv, NoneFresh
<1>2. IInv => IndexExact
  BY <1>1, Zenon
<1> QED
  BY <1>2, MaintenanceInvariance, PTL

=============================================================================
