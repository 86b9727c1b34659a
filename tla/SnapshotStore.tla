--------------------------- MODULE SnapshotStore ----------------------------
(***************************************************************************)
(* The content-addressed snapshot cache: the blob store and the tree       *)
(* store, the workorders that fill it and link their inputs out of it, and *)
(* the cleanup pass that every finished workorder spawns. None of them     *)
(* takes a lock: they meet in the file system.                             *)
(*                                                                         *)
(* An entry is a blob or a tree. On disk it is a raw file, a metadata file *)
(* that says when it was last referenced, and perhaps a compressed         *)
(* sidecar. A step is one access to those files. Loops that only stat      *)
(* files are one step.                                                     *)
(*                                                                         *)
(* A definition whose name ends in _<what> is a faulty variant of the one  *)
(* it precedes; no specification here uses it.                             *)
(***************************************************************************)
EXTENDS Integers, FiniteSets, FiniteSetsExt

CONSTANTS
    Orders,    \* workorders, each with the client that submits it
    Blobs,     \* blob digests
    Trees,     \* tree digests
    Needs,     \* the blobs in the manifest of each order
    TreeOf,    \* the tree of its repository snapshot
    Outputs,   \* the blobs its build hands back: parity files, fetched distfiles
    Size,      \* raw_size_bytes of each entry
    ZstSize,   \* size of its sidecar, 0 when compression is not worthwhile
    Configured,   \* configurations: snapshot_cache_grace_period_hours and _hard_delete_hours
    DefaultGrace, \* their defaults in config.rs
    DefaultHard,
    Floor,     \* snapshot_min_retained_bytes
    Stock,     \* what the cache holds at first: entry -> last_referenced_at
    MaxClock   \* bound: the last hour of the model

Entries == Blobs \cup Trees

ASSUME EntryAssumption == Entries \subseteq Nat \ {0} /\ Blobs \cap Trees = {}
ASSUME OrderAssumption ==
    \A o \in Orders : /\ Needs[o] \subseteq Blobs /\ Outputs[o] \subseteq Blobs
                      /\ TreeOf[o] \in Trees
ASSUME StockAssumption == \A e \in DOMAIN Stock : e \in Entries /\ Stock[e] \in Int
ASSUME AgeAssumption ==
    /\ DefaultGrace \in Nat \ {0} /\ DefaultHard \in Nat \ {0}
    /\ Configured \subseteq [grace : Nat, hard : Nat]

VARIABLES
    limits,   \* the validated configuration
    clock,    \* the hour
    raw,      \* the entries whose raw file exists
    zst,      \* the entries whose sidecar exists
    meta,     \* <digest>.meta.json
    order,    \* the task that works for an order, client and server in turn
    links,    \* the blobs linked into the order's runtime directory
    tracked,  \* staged_workorder_references
    pass,     \* the cleanup pass the order spawned
    safe,     \* history: entries touched while nobody else could interfere
    touchedAt,\* history: the time of the last touch that completed
    sheltered \* history: orders tracked while no cleanup pass was running

vars == <<limits, clock, raw, zst, meta, order, links, tracked, pass, safe, touchedAt, sheltered>>
storeVars == <<raw, zst, meta>>
historyVars == <<safe, touchedAt, sheltered>>

-----------------------------------------------------------------------------
NoMeta == [at |-> -99, zst |-> FALSE, known |-> FALSE]
MetaAt(time) == [at |-> time, zst |-> FALSE, known |-> TRUE]

\* What list_blob_metadata and list_tree_metadata see.
Listed == {e \in Entries : meta[e].known}

\* raw_size_bytes and the sizes of the recorded variants.
Bytes(e, m) == Size[e] + IF m.zst THEN ZstSize[e] ELSE 0
Retained(es, ms) == MapThenSumSet(LAMBDA e : Bytes(e, ms[e]), es)

IdleOrder == [at |-> "new", todo |-> {}, e |-> 0, step |-> "none", got |-> NoMeta, stamp |-> -99]
IdlePass == [at |-> "idle", active |-> {}, now |-> 0, old |-> {}, total |-> 0,
             e |-> 0, was |-> [e \in Entries |-> NoMeta], calm |-> TRUE]

\* ServerConfig's validation: no limit is 0, and a hard limit below the grace period
\* gives way to the default, which may be below it as well.
validate(c) ==
    LET grace == IF c.grace = 0 THEN DefaultGrace ELSE c.grace
        hard == IF c.hard = 0 THEN DefaultHard ELSE c.hard
    IN  [grace |-> grace, hard |-> IF hard < grace THEN DefaultHard ELSE hard]

Init ==
    /\ limits \in {validate(c) : c \in Configured}
    /\ clock = 0
    /\ raw = DOMAIN Stock /\ zst = {}
    /\ meta = [e \in Entries |-> IF e \in DOMAIN Stock THEN MetaAt(Stock[e]) ELSE NoMeta]
    /\ order = [o \in Orders |-> IdleOrder]
    /\ links = [o \in Orders |-> {}]
    /\ tracked = [o \in Orders |-> {}]
    /\ pass = [o \in Orders |-> IdlePass]
    /\ safe = {} /\ touchedAt = [e \in Entries |-> -99] /\ sheltered = {}

Running(p) == pass[p].at # "idle"
NoPassRuns == \A p \in Orders : ~Running(p)

\* A change of the store by an order is a disturbance to every running pass.
Disturb == pass' = [p \in Orders |-> [pass[p] EXCEPT !.calm = @ /\ ~Running(p)]]

-----------------------------------------------------------------------------
\* store_blob_for_digest and store_tree, one access to the files at a time. The
\* phases below that store something run it for each digest in todo.

StorePhases == {"upload", "normalize", "stage", "link_tree", "collect", "ingest"}

\* Where an order goes when a step of it fails: the client gives up before the
\* order was accepted; afterwards the order fails and is cleaned up.
Failed(at) == IF at \in {"upload", "submit", "normalize"} THEN "refused" ELSE "cleanup"

StoreBegin(o) ==
    /\ order[o].at \in StorePhases
    /\ order[o].e = 0 /\ order[o].todo # {}
    /\ order' = [order EXCEPT ![o].e = Min(order[o].todo), ![o].step = "link"]
    /\ UNCHANGED <<clock, storeVars, links, tracked, pass, historyVars>>

\* write_bytes_atomically, or nothing when the file is there.
StoreLink(o) ==
    /\ order[o].step = "link"
    /\ raw' = raw \cup {order[o].e}
    /\ order' = [order EXCEPT ![o].step = "ensure"]
    /\ Disturb
    /\ UNCHANGED <<clock, zst, meta, links, tracked, historyVars>>

\* ensure_blob_metadata: the metadata on disk, created when there is none.
Ensured(e) == IF meta[e].known THEN meta[e] ELSE MetaAt(clock)

\* ensure_blob_metadata, and the test of maybe_store_zstd_variant. The time that
\* touch_blob is to write is taken before touch_blob is called.
StoreEnsure(o) ==
    /\ order[o].step = "ensure"
    /\ LET e == order[o].e
           got == Ensured(e)
           variant == ZstSize[e] > 0 /\ ~(got.zst /\ e \in zst)
       IN  /\ meta' = [meta EXCEPT ![e] = got]
           /\ order' = [order EXCEPT ![o].step = IF variant THEN "variant" ELSE "touch",
                                     ![o].got = got, ![o].stamp = clock]
    /\ Disturb
    /\ UNCHANGED <<clock, raw, zst, links, tracked, historyVars>>

\* store_encoded_blob_variant writes the sidecar ...
StoreVariant(o) ==
    /\ order[o].step = "variant"
    /\ zst' = zst \cup {order[o].e}
    /\ order' = [order EXCEPT ![o].step = "record"]
    /\ Disturb
    /\ UNCHANGED <<clock, raw, meta, links, tracked, historyVars>>

\* ... and saves the metadata it loaded before, with the variant added.
StoreRecord(o) ==
    /\ order[o].step = "record"
    /\ meta' = [meta EXCEPT ![order[o].e] = [order[o].got EXCEPT !.zst = TRUE]]
    /\ order' = [order EXCEPT ![o].step = "touch", ![o].stamp = clock]
    /\ Disturb
    /\ UNCHANGED <<clock, raw, zst, links, tracked, historyVars>>

\* touch_blob and touch_tree: stat the raw file, load the metadata ...
TouchLoad(o) ==
    /\ order[o].step = "touch"
    /\ LET e == order[o].e
       IN  \/ /\ e \in raw
              /\ meta' = [meta EXCEPT ![e] = Ensured(e)]
              /\ order' = [order EXCEPT ![o].step = "save", ![o].got = Ensured(e)]
           \/ /\ e \notin raw
              /\ order' = [order EXCEPT ![o] = [IdleOrder EXCEPT !.at = Failed(order[o].at)]]
              /\ UNCHANGED meta
    /\ Disturb
    /\ UNCHANGED <<clock, raw, zst, links, tracked, historyVars>>

\* The entry is there and nobody else is at work on it.
Alone(o, e) == e \in raw /\ NoPassRuns /\ \A q \in Orders \ {o} : order[q].e # e

\* ... and save it with the time taken earlier.
TouchSave(o) ==
    /\ order[o].step = "save"
    /\ LET e == order[o].e
       IN  /\ meta' = [meta EXCEPT ![e] = [order[o].got EXCEPT !.at = order[o].stamp]]
           /\ order' = [order EXCEPT ![o].todo = @ \ {e}, ![o].e = 0, ![o].step = "none",
                                     ![o].got = NoMeta]
           /\ safe' = IF Alone(o, e) THEN safe \cup {e} ELSE safe \ {e}
           /\ touchedAt' = [touchedAt EXCEPT ![e] = order[o].stamp]
    /\ Disturb
    /\ UNCHANGED <<clock, raw, zst, links, tracked, sheltered>>

StoreNext(o) ==
    \/ StoreBegin(o) \/ StoreLink(o) \/ StoreEnsure(o) \/ StoreVariant(o)
    \/ StoreRecord(o) \/ TouchLoad(o) \/ TouchSave(o)

-----------------------------------------------------------------------------
\* An order

\* A phase whose digests are all stored hands over to the next.
Enter(o, phase, digests) ==
    order' = [order EXCEPT ![o] = [IdleOrder EXCEPT !.at = phase, !.todo = digests]]
Stored(o, phase) == order[o].at = phase /\ order[o].todo = {}

\* find_missing_blobs; the client uploads what is missing.
Query(o) ==
    /\ order[o].at = "new"
    /\ Enter(o, "upload", Needs[o] \ raw)
    /\ UNCHANGED <<clock, storeVars, links, tracked, pass, historyVars>>

\* submit_workorder: effective_snapshot_manifest finds every blob, or refuses.
Submit(o) ==
    /\ Stored(o, "upload")
    /\ IF Needs[o] \subseteq raw
       THEN Enter(o, "normalize", {TreeOf[o]})
       ELSE Enter(o, "refused", {})
    /\ UNCHANGED <<clock, storeVars, links, tracked, pass, historyVars>>

Accept(o) ==
    /\ Stored(o, "normalize")
    /\ Enter(o, "pending", {})
    /\ UNCHANGED <<clock, storeVars, links, tracked, pass, historyVars>>

\* stage_workorder_runtime clears the runtime directory and looks again.
Stage(o) ==
    /\ order[o].at = "pending"
    /\ links' = [links EXCEPT ![o] = {}]
    /\ IF Needs[o] \subseteq raw
       THEN Enter(o, "stage", {TreeOf[o]})
       ELSE Enter(o, "cleanup", {})
    /\ UNCHANGED <<clock, storeVars, tracked, pass, historyVars>>

References(o) == Needs[o] \cup {TreeOf[o]}

\* materialize_blob_for_digest: reflink, hard link or copy of the raw file.
Materialize(o) ==
    /\ Stored(o, "stage")
    /\ LET left == Needs[o] \ links[o]
           b == Min(left)
       IN  IF left = {} THEN Enter(o, "link_tree", {TreeOf[o]}) /\ UNCHANGED links
           ELSE IF b \in raw THEN /\ links' = [links EXCEPT ![o] = @ \cup {b}]
                                  /\ UNCHANGED order
           ELSE Enter(o, "cleanup", {}) /\ UNCHANGED links
    /\ UNCHANGED <<clock, storeVars, tracked, pass, historyVars>>

\* collect_snapshot_references goes through the manifest once more.
CollectBegin(o) ==
    /\ Stored(o, "link_tree")
    /\ IF Needs[o] \subseteq raw
       THEN Enter(o, "collect", {TreeOf[o]})
       ELSE Enter(o, "cleanup", {})
    /\ UNCHANGED <<clock, storeVars, links, tracked, pass, historyVars>>

\* It stats what it collected and takes the time that touch_snapshot_references will
\* write for every reference.
Collect(o) ==
    /\ Stored(o, "collect")
    /\ IF References(o) \subseteq raw
       THEN order' = [order EXCEPT ![o] = [IdleOrder EXCEPT !.at = "touch",
                                               !.todo = References(o), !.stamp = clock]]
       ELSE Enter(o, "cleanup", {})
    /\ UNCHANGED <<clock, storeVars, links, tracked, pass, historyVars>>

TouchBegin(o) ==
    /\ order[o].at = "touch" /\ order[o].e = 0 /\ order[o].todo # {}
    /\ order' = [order EXCEPT ![o].e = Min(order[o].todo), ![o].step = "touch"]
    /\ UNCHANGED <<clock, storeVars, links, tracked, pass, historyVars>>

\* track_staged_workorder_references; the worker starts.
Track(o) ==
    /\ Stored(o, "touch")
    /\ tracked' = [tracked EXCEPT ![o] = References(o)]
    /\ sheltered' = IF NoPassRuns /\ References(o) \subseteq raw
                    THEN sheltered \cup {o} ELSE sheltered
    /\ Enter(o, "build", {})
    /\ Disturb
    /\ UNCHANGED <<clock, storeVars, links, safe, touchedAt>>

\* The worker is done: ingest_final_state_parity and ingest_fetched_distfiles.
Ingest(o) ==
    /\ order[o].at = "build"
    /\ Enter(o, "ingest", Outputs[o])
    /\ UNCHANGED <<clock, storeVars, links, tracked, pass, historyVars>>

Cleanup_wholeRuntime(o) ==
    /\ order[o].at = "cleanup" \/ Stored(o, "ingest")
    /\ tracked' = [tracked EXCEPT ![o] = {}]
    /\ links' = [q \in Orders |-> {}]
    /\ sheltered' = sheltered \ {o}
    /\ Enter(o, IF order[o].at = "cleanup" THEN "failed" ELSE "done", {})
    /\ pass' = [pass EXCEPT ![o].at = "refs"]
    /\ UNCHANGED <<clock, storeVars, safe, touchedAt>>

\* cleanup_workorder_runtime clears the references, removes the runtime
\* directory and spawns a cleanup pass.
Cleanup(o) ==
    /\ order[o].at = "cleanup" \/ Stored(o, "ingest")
    /\ tracked' = [tracked EXCEPT ![o] = {}]
    /\ links' = [links EXCEPT ![o] = {}]
    /\ sheltered' = sheltered \ {o}
    /\ Enter(o, IF order[o].at = "cleanup" THEN "failed" ELSE "done", {})
    /\ pass' = [pass EXCEPT ![o].at = "refs"]
    /\ UNCHANGED <<clock, storeVars, safe, touchedAt>>

OrderNext(o) ==
    \/ StoreNext(o) \/ Query(o) \/ Submit(o) \/ Accept(o) \/ Stage(o)
    \/ Materialize(o) \/ CollectBegin(o) \/ Collect(o) \/ TouchBegin(o)
    \/ Track(o) \/ Ingest(o) \/ Cleanup(o)

-----------------------------------------------------------------------------
\* cleanup_snapshot_storage_at

Active == UNION {tracked[o] : o \in Orders}

PassRefs_noReferences(p) ==
    /\ pass[p].at = "refs"
    /\ pass' = [pass EXCEPT ![p] = [@ EXCEPT !.at = "blobs", !.now = clock,
                                             !.was = meta, !.calm = TRUE]]
    /\ UNCHANGED <<clock, storeVars, order, links, tracked, historyVars>>

\* A pass copies the tracked references and the time.
PassRefs(p) ==
    /\ pass[p].at = "refs"
    /\ pass' = [pass EXCEPT ![p] = [@ EXCEPT !.at = "blobs", !.active = Active,
                                             !.now = clock, !.was = meta, !.calm = TRUE]]
    /\ UNCHANGED <<clock, storeVars, order, links, tracked, historyVars>>

Expired_graceOffByOne(at, now) == at <= now - limits.hard \/ at <= now - limits.grace + 1

\* Old enough to go: past the hard limit or past the grace period.
Expired(at, now) == at <= now - limits.hard \/ at <= now - limits.grace

\* The entries old enough to go, with what the listing said of them.
Evictable(es, active, now) ==
    {[e |-> e, at |-> meta[e].at, bytes |-> Bytes(e, meta[e])] :
        e \in {x \in (es \cap Listed) \ active : Expired(meta[x].at, now)}}

ListInto(p, es, next) ==
    pass' = [pass EXCEPT ![p] = [pass[p] EXCEPT
                !.at = next,
                !.total = @ + Retained(es \cap Listed, meta),
                !.old = @ \cup Evictable(es, pass[p].active, pass[p].now)]]

PassBlobs(p) ==
    /\ pass[p].at = "blobs"
    /\ ListInto(p, Blobs, "trees")
    /\ UNCHANGED <<clock, storeVars, order, links, tracked, historyVars>>

PassTrees(p) ==
    /\ pass[p].at = "trees"
    /\ ListInto(p, Trees, "loop")
    /\ UNCHANGED <<clock, storeVars, order, links, tracked, historyVars>>

\* A metadata file that another pass removes after read_dir saw it is an error
\* that ends this pass.
PassListFails(p) ==
    /\ pass[p].at \in {"blobs", "trees"}
    /\ \E q \in Orders \ {p} : pass[q].at \in {"raw", "zst", "meta"}
    /\ pass' = [pass EXCEPT ![p] = IdlePass]
    /\ UNCHANGED <<clock, storeVars, order, links, tracked, historyVars>>

\* The next entry to delete: the hard-delete tier first, then the grace tier,
\* each from the oldest entry on.
Tier(p, x) == IF x.at <= pass[p].now - limits.hard THEN 0 ELSE 1
Before(p, x, y) ==
    \/ Tier(p, x) < Tier(p, y)
    \/ Tier(p, x) = Tier(p, y) /\ x.at < y.at
NextVictims_unsorted(p) == pass[p].old

NextVictims(p) ==
    {x \in pass[p].old : \A y \in pass[p].old : ~Before(p, y, x)}

\* delete_blob and delete_tree begin by loading the metadata.
PassPick(p) ==
    /\ pass[p].at = "loop" /\ pass[p].total > Floor
    /\ \E x \in NextVictims(p) :
         pass' = [pass EXCEPT ![p] = [pass[p] EXCEPT
                    !.at = IF meta[x.e].zst THEN "raw_zst" ELSE "raw",
                    !.e = x.e, !.old = @ \ {x}, !.total = @ - x.bytes]]
    /\ UNCHANGED <<clock, storeVars, order, links, tracked, historyVars>>

\* The other passes see a store that changes under them.
DisturbOthers(p, mine) ==
    pass' = [q \in Orders |-> IF q = p THEN mine
                              ELSE [pass[q] EXCEPT !.calm = @ /\ ~Running(q)]]

DeleteRaw(p) ==
    /\ pass[p].at \in {"raw", "raw_zst"}
    /\ raw' = raw \ {pass[p].e}
    /\ DisturbOthers(p, [pass[p] EXCEPT !.at = IF @ = "raw" THEN "meta" ELSE "zst"])
    /\ UNCHANGED <<clock, zst, meta, order, links, tracked, historyVars>>

DeleteZst(p) ==
    /\ pass[p].at = "zst"
    /\ zst' = zst \ {pass[p].e}
    /\ DisturbOthers(p, [pass[p] EXCEPT !.at = "meta"])
    /\ UNCHANGED <<clock, raw, meta, order, links, tracked, historyVars>>

DeleteMeta(p) ==
    /\ pass[p].at = "meta"
    /\ meta' = [meta EXCEPT ![pass[p].e] = NoMeta]
    /\ DisturbOthers(p, [pass[p] EXCEPT !.at = "loop", !.e = 0])
    /\ UNCHANGED <<clock, raw, zst, order, links, tracked, historyVars>>

PassStop(p) ==
    /\ pass[p].at = "loop"
    /\ pass[p].total <= Floor \/ pass[p].old = {}
    /\ pass' = [pass EXCEPT ![p].at = "end"]
    /\ UNCHANGED <<clock, storeVars, order, links, tracked, historyVars>>

PassEnd(p) ==
    /\ pass[p].at = "end"
    /\ pass' = [pass EXCEPT ![p] = IdlePass]
    /\ UNCHANGED <<clock, storeVars, order, links, tracked, historyVars>>

PassNext(p) ==
    \/ PassRefs(p) \/ PassBlobs(p) \/ PassTrees(p) \/ PassListFails(p)
    \/ PassPick(p) \/ DeleteRaw(p) \/ DeleteZst(p) \/ DeleteMeta(p)
    \/ PassStop(p) \/ PassEnd(p)

-----------------------------------------------------------------------------
Tick ==
    /\ clock < MaxClock
    /\ clock' = clock + 1
    /\ UNCHANGED <<storeVars, order, links, tracked, pass, historyVars>>

Terminated ==
    /\ \A o \in Orders : order[o].at \in {"done", "failed", "refused"} /\ pass[o].at = "idle"
    /\ UNCHANGED vars

Next ==
    /\ \/ \E o \in Orders : OrderNext(o) \/ PassNext(o)
       \/ Tick \/ Terminated
    /\ UNCHANGED limits

Spec == Init /\ [][Next]_vars

-----------------------------------------------------------------------------
\* Properties

MetaType == [at : Int, zst : BOOLEAN, known : BOOLEAN]

\* Every variable holds a value of its type.
TypeOK ==
    /\ limits \in [grace : Nat \ {0}, hard : Nat \ {0}]
    /\ clock \in 0 .. MaxClock
    /\ raw \subseteq Entries /\ zst \subseteq Entries
    /\ meta \in [Entries -> MetaType]
    /\ links \in [Orders -> SUBSET Blobs]
    /\ tracked \in [Orders -> SUBSET Entries]
    /\ \A o \in Orders :
         /\ order[o].at \in StorePhases \cup
              {"new", "submit", "pending", "touch", "build", "cleanup", "done", "failed", "refused"}
         /\ order[o].todo \subseteq Entries /\ order[o].e \in Entries \cup {0}
         /\ order[o].got \in MetaType /\ order[o].stamp \in Int
         /\ pass[o].at \in {"idle", "refs", "blobs", "trees", "loop", "raw", "raw_zst", "zst",
                            "meta", "end"}
         /\ pass[o].total \in Int /\ pass[o].active \subseteq Entries
    /\ safe \subseteq Entries /\ sheltered \subseteq Orders

\* A worker never starts without its inputs: whatever cleanup passes delete while
\* an order is staged, a build has every blob of its manifest in its own runtime
\* directory, where deleting the cached file does not reach it.
BuildHasInputs ==
    \A o \in Orders : order[o].at \in {"build", "ingest"} => links[o] = Needs[o]

\* The grace period, or the hard limit where validation left one that is shorter.
Retention == IF limits.hard < limits.grace THEN limits.hard ELSE limits.grace

\* Data that was touched stays in the cache for the grace period or the hard limit,
\* whichever is shorter, counted from the time the touch wrote, if no cleanup pass
\* and no other task was at work on it while it was touched.
GraceKept ==
    \A e \in safe : clock - touchedAt[e] < Retention => e \in raw /\ meta[e].known

\* What a running build refers to stays in the cache, however old it gets, if no
\* cleanup pass was running when its references were tracked.
TrackedKept ==
    \A o \in sheltered : tracked[o] \subseteq raw

\* A pass that nothing disturbs removes what the retention rules say, for every
\* configuration that passes validation: only entries past their grace period or
\* the hard limit that no staged order refers to, the oldest first, never more than
\* it takes to get down to the floor, and everything eligible when the floor is not
\* reached.
QuietPassExact ==
    \A p \in Orders : pass[p].at = "end" /\ pass[p].calm =>
      LET was == pass[p].was
          had == {e \in Entries : was[e].known}
          gone == {e \in had : ~meta[e].known}
          kept == had \ gone
          eligible == {e \in had \ pass[p].active : Expired(was[e].at, pass[p].now)}
      IN  /\ gone \subseteq eligible
          /\ gone = eligible \/ Retained(kept, was) <= Floor
          /\ gone # {} => \E e \in gone : Retained(kept \cup {e}, was) > Floor
          /\ \A e \in gone, k \in eligible \ gone : was[e].at <= was[k].at
          /\ \A e \in gone : e \notin raw /\ (was[e].zst => e \notin zst)

=============================================================================
