----------------------- MODULE SnapshotStoreProofs ------------------------
(***************************************************************************)
(* The snapshot cache keeps what builds need and what was touched, for     *)
(* every set of orders, blobs and trees, any sizes and any ages.           *)
(***************************************************************************)
EXTENDS SnapshotStore, TLAPS, WellFoundedInduction

\* Every set of numbers has its least element: Min is one of them.
LEMMA MinMember ==
  ASSUME NEW T, T \subseteq Nat, T # {}
  PROVE  Min(T) \in T
<1> DEFINE R == OpToRel(<, Nat)
<1>1. \E x \in T : \A y \in T : ~(<<y, x>> \in R)
  <2>1. IsWellFoundedOn(R, Nat)
    BY NatLessThanWellFounded, Zenon
  <2> HIDE DEF R
  <2> QED
    BY <2>1, WFMin, Zenon
<1>2. \A x, y \in T : (<<y, x>> \in R) <=> y < x
  BY DEF OpToRel
<1> HIDE DEF R
<1>3. PICK x \in T : \A y \in T : ~(<<y, x>> \in R)
  BY <1>1, Zenon
<1>4. \A y \in T : ~(y < x)
  BY <1>2, <1>3, Zenon
<1>5. \A y \in T : x =< y
  BY <1>4
<1> QED
  BY <1>5, Zenon DEF Min

(***************************************************************************)
(* Ranges. What a pass has added up is left out: it is a sum over a set.   *)
(***************************************************************************)
Steps == {"none", "link", "ensure", "variant", "record", "touch", "save"}
Phases == StorePhases \cup {"new", "submit", "pending", "touch", "build", "cleanup", "done",
                            "failed", "refused"}
OrderRecords == [at : Phases, todo : SUBSET Entries, e : Entries \cup {0}, step : Steps,
                 got : MetaType, stamp : Int]
\* The steps at which an order holds metadata it has loaded.
Loaded == {"variant", "record", "save"}
PassFields == {"at", "active", "now", "old", "total", "e", "was", "calm"}

OrderInv ==
    /\ order \in [Orders -> OrderRecords]
    /\ \A o \in Orders :
          /\ order[o].step # "none" =>
                order[o].e \in Entries /\ order[o].at \in StorePhases \cup {"touch"}
          /\ order[o].step \in Loaded => order[o].got.known

RangeInv ==
    /\ OrderInv
    /\ clock \in Nat
    /\ raw \subseteq Entries
    /\ meta \in [Entries -> MetaType]
    /\ links \in [Orders -> SUBSET Entries]
    /\ tracked \in [Orders -> SUBSET Entries]
    /\ safe \subseteq Entries
    /\ touchedAt \in [Entries -> Int]
    /\ sheltered \subseteq Orders
    /\ DOMAIN pass = Orders
    /\ \A p \in Orders : DOMAIN pass[p] = PassFields /\ pass[p].now \in Nat /\ pass[p].now <= clock

(***************************************************************************)
(* The record of an order.                                                 *)
(***************************************************************************)
\* Metadata that was never loaded, and metadata made for a new entry.
LEMMA MetaTyped ==
  /\ NoMeta \in MetaType
  /\ \A time \in Int : MetaAt(time) \in MetaType /\ MetaAt(time).known /\ MetaAt(time).at = time
  BY DEF NoMeta, MetaAt, MetaType

\* An order before its first step.
LEMMA IdleTyped ==
  IdleOrder \in OrderRecords /\ IdleOrder.step = "none" /\ IdleOrder.e = 0
<1>1. -99 \in Int
  OBVIOUS
<1> QED
  BY <1>1, MetaTyped, Zenon DEF IdleOrder, OrderRecords, Steps, Phases

\* ensure_blob_metadata leaves metadata that says when it was last referenced.
LEMMA EnsuredTyped ==
  ASSUME RangeInv, NEW e \in Entries
  PROVE  /\ Ensured(e) \in MetaType /\ Ensured(e).known
         /\ meta[e].known => Ensured(e) = meta[e]
<1>1. clock \in Int /\ meta[e] \in MetaType
  BY DEF RangeInv
<1> QED
  BY <1>1, MetaTyped, Zenon DEF Ensured

\* A step of an order that keeps its record in range.
LEMMA OrderMove ==
  ASSUME OrderInv, NEW o \in Orders, NEW rec \in OrderRecords,
         order' = [order EXCEPT ![o] = rec],
         rec.step # "none" => rec.e \in Entries /\ rec.at \in StorePhases \cup {"touch"},
         rec.step \in Loaded => rec.got.known
  PROVE  /\ OrderInv' /\ order'[o] = rec
         /\ \A q \in Orders \ {o} : order'[q] = order[q]
<1>1. order' \in [Orders -> OrderRecords]
  BY Zenon DEF OrderInv
<1>2. \A q \in Orders : order'[q] = IF q = o THEN rec ELSE order[q]
  BY Zenon DEF OrderInv
<1> QED
  BY <1>1, <1>2, Zenon DEF OrderInv

\* A phase begins with its digests and nothing loaded.
LEMMA EnterMove ==
  ASSUME OrderInv, NEW o \in Orders, NEW phase \in Phases, NEW digests \in SUBSET Entries,
         Enter(o, phase, digests)
  PROVE  /\ OrderInv' /\ \A q \in Orders \ {o} : order'[q] = order[q]
         /\ order'[o].at = phase /\ order'[o].step = "none" /\ order'[o].e = 0
<1> DEFINE rec == [IdleOrder EXCEPT !.at = phase, !.todo = digests]
<1>1. IdleOrder \in OrderRecords /\ IdleOrder.step = "none" /\ IdleOrder.e = 0
  BY IdleTyped
<1>2. rec \in OrderRecords /\ rec.at = phase /\ rec.step = "none" /\ rec.e = 0
  BY <1>1, Zenon DEF OrderRecords
<1>3. order' = [order EXCEPT ![o] = rec]
  BY Zenon DEF Enter
<1> HIDE DEF rec
<1> QED
  BY <1>2, <1>3, OrderMove, Zenon DEF Loaded

\* collect_snapshot_references hands its time over to the touches.
LEMMA StampedMove ==
  ASSUME OrderInv, NEW o \in Orders, NEW digests \in SUBSET Entries, NEW time \in Int,
         order' = [order EXCEPT ![o] = [IdleOrder EXCEPT !.at = "touch", !.todo = digests,
                                                         !.stamp = time]]
  PROVE  /\ OrderInv' /\ \A q \in Orders \ {o} : order'[q] = order[q]
         /\ order'[o].at = "touch" /\ order'[o].step = "none"
<1> DEFINE rec == [IdleOrder EXCEPT !.at = "touch", !.todo = digests, !.stamp = time]
<1>1. rec \in OrderRecords /\ rec.at = "touch" /\ rec.step = "none"
  BY IdleTyped, Zenon DEF OrderRecords, Phases
<1>2. order' = [order EXCEPT ![o] = rec]
  OBVIOUS
<1> HIDE DEF rec
<1> QED
  BY <1>1, <1>2, OrderMove, Zenon DEF Loaded

\* A step of store_blob_for_digest, store_tree or a touch works on one entry, and
\* holds the metadata it found or made there.
LEMMA StoreMove ==
  ASSUME RangeInv, NEW o \in Orders, StoreNext(o) \/ TouchBegin(o)
  PROVE  /\ OrderInv' /\ \A q \in Orders \ {o} : order'[q] = order[q]
         /\ order[o].at \in StorePhases \cup {"touch"}
         /\ order'[o].at \in {order[o].at, Failed(order[o].at)}
         /\ order'[o].step \in Loaded =>
               /\ order'[o].e = order[o].e /\ order[o].e \in Entries
               /\ \/ order'[o].got = Ensured(order[o].e)
                  \/ order[o].step \in Loaded /\ order'[o].got = order[o].got
<1>1. /\ OrderInv /\ order[o] \in OrderRecords
      /\ order[o].step # "none" =>
            order[o].e \in Entries /\ order[o].at \in StorePhases \cup {"touch"}
      /\ order[o].step \in Loaded => order[o].got.known
  BY Zenon DEF RangeInv, OrderInv
<1> DEFINE cur == order[o]
<1>2. ASSUME NEW rec \in OrderRecords, order' = [order EXCEPT ![o] = rec],
             cur.at \in StorePhases \cup {"touch"}, rec.at = cur.at,
             rec.step # "none" => rec.e \in Entries,
             rec.step \in Loaded => /\ rec.e = cur.e /\ rec.got.known
                                    /\ \/ rec.got = Ensured(cur.e)
                                       \/ cur.step \in Loaded /\ rec.got = cur.got
      PROVE  /\ OrderInv' /\ \A q \in Orders \ {o} : order'[q] = order[q]
             /\ order'[o].at = cur.at
             /\ order'[o].step \in Loaded =>
                   /\ order'[o].e = cur.e /\ cur.e \in Entries
                   /\ \/ order'[o].got = Ensured(cur.e)
                      \/ cur.step \in Loaded /\ order'[o].got = cur.got
  <2>1. /\ OrderInv' /\ order'[o] = rec
        /\ \A q \in Orders \ {o} : order'[q] = order[q]
    BY <1>1, <1>2, OrderMove, Zenon
  <2> QED
    BY <1>2, <2>1, Zenon DEF Loaded
<1>3. CASE StoreBegin(o) \/ TouchBegin(o)
  <2>1. PICK step \in {"link", "touch"} :
           order' = [order EXCEPT ![o].e = Min(order[o].todo), ![o].step = step]
    BY <1>3, Zenon DEF StoreBegin, TouchBegin
  <2>2. cur.todo # {} /\ cur.todo \subseteq Entries /\ cur.at \in StorePhases \cup {"touch"}
    BY <1>1, <1>3, Zenon DEF StoreBegin, TouchBegin, OrderRecords
  <2>3. Min(cur.todo) \in Entries
    <3>1. cur.todo \subseteq Nat
      BY <2>2, EntryAssumption, Zenon
    <3> QED
      BY <2>2, <3>1, MinMember, Zenon
  <2> DEFINE first == Min(cur.todo)
             rec == [cur EXCEPT !.e = first, !.step = step]
  <2>4. order' = [order EXCEPT ![o] = rec]
    BY <2>1, Zenon
  <2> HIDE DEF first
  <2>5. rec \in OrderRecords /\ rec.at = cur.at /\ rec.step = step /\ rec.e = first
    BY <1>1, <2>3, Zenon DEF OrderRecords, Steps, first
  <2> HIDE DEF rec
  <2> QED
    BY <1>2, <2>2, <2>3, <2>4, <2>5, Zenon DEF Loaded, first
<1>4. CASE StoreLink(o)
  <2> DEFINE rec == [cur EXCEPT !.step = "ensure"]
  <2>1. cur.step = "link" /\ order' = [order EXCEPT ![o] = rec]
    BY <1>4, Zenon DEF StoreLink
  <2>2. rec \in OrderRecords /\ rec.at = cur.at /\ rec.step = "ensure" /\ rec.e = cur.e
    BY <1>1, Zenon DEF OrderRecords, Steps
  <2> HIDE DEF rec
  <2> QED
    BY <1>1, <1>2, <2>1, <2>2, Zenon DEF Loaded
<1>5. CASE StoreEnsure(o)
  <2>1. PICK step \in {"variant", "touch"} :
           order' = [order EXCEPT ![o].step = step, ![o].got = Ensured(order[o].e),
                                  ![o].stamp = clock]
    BY <1>5, Zenon DEF StoreEnsure
  <2>2. cur.step = "ensure" /\ cur.e \in Entries
    BY <1>1, <1>5, Zenon DEF StoreEnsure
  <2> DEFINE got == Ensured(cur.e)
             rec == [cur EXCEPT !.step = step, !.got = got, !.stamp = clock]
  <2>3. got \in MetaType /\ got.known
    BY <2>2, EnsuredTyped, Zenon
  <2>6. clock \in Int
    BY DEF RangeInv
  <2>4. order' = [order EXCEPT ![o] = rec]
    BY <2>1, Zenon
  <2> HIDE DEF got
  <2>5. rec \in OrderRecords /\ rec.at = cur.at /\ rec.step = step /\ rec.e = cur.e
        /\ rec.got = got
    BY <1>1, <2>3, <2>6, Zenon DEF OrderRecords, Steps
  <2> HIDE DEF rec
  <2> QED
    BY <1>1, <1>2, <2>2, <2>3, <2>4, <2>5, Zenon DEF got
<1>6. CASE StoreVariant(o) \/ StoreRecord(o)
  <2>1. PICK step \in {"record", "touch"}, time \in {cur.stamp, clock} :
           order' = [order EXCEPT ![o].step = step, ![o].stamp = time]
    <3>1. CASE StoreVariant(o)
      <4>1. order' = [order EXCEPT ![o] = [cur EXCEPT !.step = "record"]]
        BY <3>1, Zenon DEF StoreVariant
      <4>2. [cur EXCEPT !.step = "record"] = [cur EXCEPT !.step = "record", !.stamp = cur.stamp]
        BY <1>1, Zenon DEF OrderRecords
      <4>3. order' = [order EXCEPT ![o] = [cur EXCEPT !.step = "record", !.stamp = cur.stamp]]
        BY <4>1, <4>2, Zenon
      <4> QED
        BY <4>3, Zenon
    <3>2. CASE StoreRecord(o)
      BY <3>2, Zenon DEF StoreRecord
    <3> QED
      BY <1>6, <3>1, <3>2, Zenon
  <2> DEFINE rec == [cur EXCEPT !.step = step, !.stamp = time]
  <2>2. cur.step \in Loaded /\ cur.step # "none" /\ order' = [order EXCEPT ![o] = rec]
    BY <1>6, <2>1, Zenon DEF StoreVariant, StoreRecord, Loaded
  <2>4. time \in Int
    <3>1. clock \in Int
      BY DEF RangeInv
    <3> QED
      BY <1>1, <3>1, Zenon DEF OrderRecords
  <2>3. rec \in OrderRecords /\ rec.at = cur.at /\ rec.step = step /\ rec.e = cur.e
        /\ rec.got = cur.got
    BY <1>1, <2>4, Zenon DEF OrderRecords, Steps
  <2> HIDE DEF rec
  <2> QED
    BY <1>1, <1>2, <2>2, <2>3, Zenon
<1>7. CASE TouchLoad(o)
  <2>1. cur.step = "touch" /\ cur.e \in Entries /\ cur.at \in StorePhases \cup {"touch"}
    BY <1>1, <1>7, Zenon DEF TouchLoad
  <2>2. CASE order' = [order EXCEPT ![o].step = "save", ![o].got = Ensured(order[o].e)]
    <3> DEFINE got == Ensured(cur.e)
               rec == [cur EXCEPT !.step = "save", !.got = got]
    <3>1. got \in MetaType /\ got.known
      BY <2>1, EnsuredTyped, Zenon
    <3>2. order' = [order EXCEPT ![o] = rec]
      BY <2>2, Zenon
    <3> HIDE DEF got
    <3>3. rec \in OrderRecords /\ rec.at = cur.at /\ rec.step = "save" /\ rec.e = cur.e
          /\ rec.got = got
      BY <1>1, <3>1, Zenon DEF OrderRecords, Steps
    <3> HIDE DEF rec
    <3> QED
      BY <1>1, <1>2, <2>1, <3>1, <3>2, <3>3, Zenon DEF got
  <2>3. CASE order' = [order EXCEPT ![o] = [IdleOrder EXCEPT !.at = Failed(order[o].at)]]
    <3> DEFINE at == Failed(cur.at)
               rec == [IdleOrder EXCEPT !.at = at]
    <3>1. at \in Phases
      BY Zenon DEF Failed, Phases
    <3>2. order' = [order EXCEPT ![o] = rec]
      BY <2>3, Zenon
    <3>3. IdleOrder \in OrderRecords /\ IdleOrder.step = "none"
      BY IdleTyped
    <3> HIDE DEF at
    <3>4. rec \in OrderRecords /\ rec.at = at /\ rec.step = "none"
      BY <3>1, <3>3, Zenon DEF OrderRecords
    <3> HIDE DEF rec
    <3>5. /\ OrderInv' /\ order'[o] = rec
          /\ \A q \in Orders \ {o} : order'[q] = order[q]
      BY <1>1, <3>2, <3>4, OrderMove, Zenon DEF Loaded
    <3> QED
      BY <2>1, <3>4, <3>5, Zenon DEF Loaded, at
  <2> QED
    BY <1>7, <2>2, <2>3, Zenon DEF TouchLoad
<1>8. CASE TouchSave(o)
  <2> DEFINE todo == cur.todo \ {cur.e}
             rec == [cur EXCEPT !.todo = todo, !.e = 0, !.step = "none", !.got = NoMeta]
  <2>1. order' = [order EXCEPT ![o] = rec] /\ cur.step = "save"
    BY <1>8, Zenon DEF TouchSave
  <2>2. todo \in SUBSET Entries
    BY <1>1, Zenon DEF OrderRecords
  <2> HIDE DEF todo
  <2>3. rec \in OrderRecords /\ rec.at = cur.at /\ rec.step = "none"
    BY <1>1, <2>2, MetaTyped, Zenon DEF OrderRecords, Steps
  <2> HIDE DEF rec
  <2> QED
    BY <1>1, <1>2, <2>1, <2>3, Zenon DEF Loaded
<1> QED
  BY <1>3, <1>4, <1>5, <1>6, <1>7, <1>8, Zenon DEF StoreNext

(***************************************************************************)
(* What the steps of an order do to the passes, the links and the          *)
(* references.                                                             *)
(***************************************************************************)
SameView(p) ==
    /\ pass'[p].at = pass[p].at /\ pass'[p].active = pass[p].active
    /\ pass'[p].old = pass[p].old /\ pass'[p].e = pass[p].e /\ pass'[p].now = pass[p].now
SameViews == DOMAIN pass' = Orders
             /\ \A p \in Orders : SameView(p) /\ DOMAIN pass'[p] = PassFields

\* A disturbance is all that a change of the store does to a pass.
LEMMA DisturbViews == ASSUME RangeInv, Disturb PROVE SameViews
<1> SUFFICES ASSUME NEW p \in Orders PROVE SameView(p) /\ DOMAIN pass'[p] = PassFields
  BY Zenon DEF Disturb, SameViews
<1> DEFINE calm == pass[p].calm /\ ~Running(p)
<1>1. pass'[p] = [pass[p] EXCEPT !.calm = calm]
  BY Zenon DEF Disturb
<1>2. DOMAIN pass[p] = PassFields
  BY Zenon DEF RangeInv
<1> HIDE DEF calm
<1> QED
  BY <1>1, <1>2 DEF SameView, PassFields

\* A step of the store leaves what is linked and what is referenced alone.
LEMMA StoreEffects ==
  ASSUME RangeInv, NEW o \in Orders, StoreNext(o) \/ TouchBegin(o)
  PROVE  /\ SameViews /\ UNCHANGED <<clock, links, tracked, sheltered>>
         /\ raw \subseteq raw' /\ raw' \subseteq Entries
         /\ meta' \in [Entries -> MetaType]
         /\ TouchSave(o) \/ UNCHANGED <<safe, touchedAt>>
<1>1. /\ order[o].step # "none" => order[o].e \in Entries
      /\ order[o].step \in Loaded => order[o].got.known
      /\ order[o].got \in MetaType /\ raw \subseteq Entries /\ meta \in [Entries -> MetaType]
      /\ order[o].stamp \in Int
  BY Zenon DEF RangeInv, OrderInv, OrderRecords
<1>2. CASE StoreBegin(o) \/ TouchBegin(o)
  <2>1. UNCHANGED <<clock, raw, meta, links, tracked, pass, safe, touchedAt, sheltered>>
    BY <1>2, Zenon DEF StoreBegin, TouchBegin, storeVars, historyVars
  <2> QED
    BY <1>1, <2>1, Zenon DEF SameViews, SameView, RangeInv
<1>3. CASE StoreLink(o)
  <2>1. Disturb /\ UNCHANGED <<clock, meta, links, tracked, safe, touchedAt, sheltered>>
        /\ raw' = raw \cup {order[o].e} /\ order[o].step = "link"
    BY <1>3, Zenon DEF StoreLink, historyVars
  <2> QED
    BY <1>1, <2>1, DisturbViews, Zenon
<1>4. CASE StoreEnsure(o) \/ TouchLoad(o)
  <2>1. Disturb /\ UNCHANGED <<clock, raw, links, tracked, safe, touchedAt, sheltered>>
        /\ order[o].step \in {"ensure", "touch"}
    BY <1>4, Zenon DEF StoreEnsure, TouchLoad, historyVars
  <2>2. meta' = meta \/ meta' = [meta EXCEPT ![order[o].e] = Ensured(order[o].e)]
    BY <1>4, Zenon DEF StoreEnsure, TouchLoad
  <2>3. order[o].e \in Entries /\ Ensured(order[o].e) \in MetaType
    BY <1>1, <2>1, EnsuredTyped, Zenon
  <2>4. meta' \in [Entries -> MetaType]
    BY <1>1, <2>2, <2>3, Zenon
  <2> QED
    BY <1>1, <2>1, <2>4, DisturbViews, Zenon
<1>5. CASE StoreVariant(o)
  <2>1. Disturb /\ UNCHANGED <<clock, raw, meta, links, tracked, safe, touchedAt, sheltered>>
    BY <1>5, Zenon DEF StoreVariant, historyVars
  <2> QED
    BY <1>1, <2>1, DisturbViews, Zenon
<1>6. CASE StoreRecord(o)
  <2> DEFINE got == [order[o].got EXCEPT !.zst = TRUE]
  <2>1. Disturb /\ UNCHANGED <<clock, raw, links, tracked, safe, touchedAt, sheltered>>
        /\ meta' = [meta EXCEPT ![order[o].e] = got]
    BY <1>6, Zenon DEF StoreRecord, historyVars
  <2>2. got \in MetaType
    BY <1>1, Zenon DEF MetaType
  <2> HIDE DEF got
  <2>3. meta' \in [Entries -> MetaType]
    BY <1>1, <2>1, <2>2, Zenon
  <2> QED
    BY <1>1, <2>1, <2>3, DisturbViews, Zenon
<1>7. CASE TouchSave(o)
  <2> DEFINE got == [order[o].got EXCEPT !.at = order[o].stamp]
  <2>1. Disturb /\ UNCHANGED <<clock, raw, links, tracked, sheltered>>
        /\ meta' = [meta EXCEPT ![order[o].e] = got]
    BY <1>7, Zenon DEF TouchSave
  <2>3. got \in MetaType
    BY <1>1, Zenon DEF MetaType
  <2> HIDE DEF got
  <2>4. meta' \in [Entries -> MetaType]
    BY <1>1, <2>1, <2>3, Zenon
  <2> QED
    BY <1>1, <1>7, <2>1, <2>4, DisturbViews, Zenon
<1> QED
  BY <1>2, <1>3, <1>4, <1>5, <1>6, <1>7, Zenon DEF StoreNext

\* The phases from the tree on, in which an order has linked all its blobs.
Linked == {"link_tree", "collect", "touch", "build", "ingest"}
PhaseNext(o) ==
    \/ Query(o) \/ Submit(o) \/ Accept(o) \/ Stage(o) \/ Materialize(o) \/ CollectBegin(o)
    \/ Collect(o) \/ Track(o) \/ Ingest(o)

\* materialize_blob_for_digest links one blob of the manifest, or finds that all
\* are linked, or fails.
LEMMA MaterializeEffects ==
  ASSUME RangeInv, NEW o \in Orders, Materialize(o)
  PROVE  /\ OrderInv' /\ \A q \in Orders \ {o} : order'[q] = order[q]
         /\ order[o].at = "stage" /\ order'[o].at \in {"stage", "link_tree", "cleanup"}
         /\ order'[o].step \in Loaded => order'[o] = order[o]
         /\ \/ UNCHANGED links /\ (order'[o].at = "link_tree" => Needs[o] \subseteq links[o])
            \/ /\ order'[o].at = "stage"
               /\ \E b \in Needs[o] : links' = [links EXCEPT ![o] = @ \cup {b}]
<1> DEFINE left == Needs[o] \ links[o]
           b == Min(left)
<1>1. OrderInv /\ order[o].at = "stage" /\ {TreeOf[o]} \in SUBSET Entries
  BY OrderAssumption, Zenon DEF Materialize, Stored, RangeInv, Entries
<1>2. CASE left = {} /\ Enter(o, "link_tree", {TreeOf[o]}) /\ UNCHANGED links
  BY <1>1, <1>2, EnterMove, Zenon DEF Phases, StorePhases, Loaded
<1>3. CASE left # {} /\ links' = [links EXCEPT ![o] = @ \cup {b}] /\ UNCHANGED order
  <2>1. left \subseteq Nat
    BY OrderAssumption, EntryAssumption, Zenon DEF Entries
  <2>2. b \in Needs[o]
    BY <1>3, <2>1, MinMember, Zenon
  <2> QED
    BY <1>1, <1>3, <2>2, Zenon DEF OrderInv
<1>4. CASE Enter(o, "cleanup", {}) /\ UNCHANGED links
  <2>1. "cleanup" \in Phases /\ {} \in SUBSET Entries
    BY Zenon DEF Phases
  <2>2. /\ OrderInv' /\ \A q \in Orders \ {o} : order'[q] = order[q]
        /\ order'[o].at = "cleanup" /\ order'[o].step = "none"
    BY <1>1, <1>4, <2>1, EnterMove, Zenon
  <2> QED
    BY <1>1, <1>4, <2>2, Zenon DEF Loaded
<1> QED
  BY <1>2, <1>3, <1>4, Zenon DEF Materialize

\* The other phases of an order follow each other, and only those that link a
\* blob, clear the directory or track the references change either.
LEMMA PhaseEffects ==
  ASSUME RangeInv, NEW o \in Orders, PhaseNext(o), ~Materialize(o)
  PROVE  /\ OrderInv' /\ \A q \in Orders \ {o} : order'[q] = order[q]
         /\ order[o].at \notin {"ingest", "cleanup", "done", "failed"}
         /\ order'[o].at \notin {"done", "failed"} /\ order'[o].step = "none"
         /\ \/ UNCHANGED links /\ (order'[o].at \in Linked => order[o].at \in Linked)
            \/ links' = [links EXCEPT ![o] = {}] /\ order'[o].at \notin Linked
         /\ \/ Track(o) /\ order'[o].at = "build"
            \/ UNCHANGED <<tracked, sheltered>> /\ (order[o].at = "build" => order'[o].at = "ingest")
<1>1. /\ OrderInv
      /\ Needs[o] \in SUBSET Entries /\ Outputs[o] \in SUBSET Entries
      /\ {TreeOf[o]} \in SUBSET Entries /\ References(o) \in SUBSET Entries
  BY OrderAssumption, Zenon DEF RangeInv, Entries, References
<1>2. PICK phase \in Phases, digests \in SUBSET Entries :
           /\ \/ Enter(o, phase, digests)
              \/ /\ phase = "touch"
                 /\ order' = [order EXCEPT ![o] = [IdleOrder EXCEPT !.at = "touch",
                                                       !.todo = digests, !.stamp = clock]]
           /\ <<order[o].at, phase>> \in
                {<<"new", "upload">>, <<"upload", "normalize">>, <<"upload", "refused">>,
                 <<"normalize", "pending">>, <<"pending", "stage">>, <<"pending", "cleanup">>,
                 <<"link_tree", "collect">>, <<"link_tree", "cleanup">>, <<"collect", "touch">>,
                 <<"collect", "cleanup">>, <<"touch", "build">>, <<"build", "ingest">>}
  <2> USE <1>1 DEF Phases, StorePhases, Stored
  <2>1. CASE Query(o)
    BY <2>1, ZenonT(60) DEF Query
  <2>2. CASE Submit(o)
    BY <2>2, Zenon DEF Submit
  <2>3. CASE Accept(o)
    BY <2>3, Zenon DEF Accept
  <2>4. CASE Stage(o)
    <3>1. /\ order[o].at = "pending"
          /\ Enter(o, "stage", {TreeOf[o]}) \/ Enter(o, "cleanup", {})
      BY <2>4, Zenon DEF Stage
    <3>2. CASE Enter(o, "stage", {TreeOf[o]})
      BY <3>1, <3>2, Zenon
    <3>3. CASE Enter(o, "cleanup", {})
      BY <3>1, <3>3, SMT
    <3> QED
      BY <3>1, <3>2, <3>3, Zenon
  <2>5. CASE CollectBegin(o)
    BY <2>5, Zenon DEF CollectBegin
  <2>6. CASE Collect(o)
    BY <2>6, Zenon DEF Collect
  <2>7. CASE Track(o)
    BY <2>7, Zenon DEF Track
  <2>8. CASE Ingest(o)
    BY <2>8, Zenon DEF Ingest
  <2> QED
    BY <2>1, <2>2, <2>3, <2>4, <2>5, <2>6, <2>7, <2>8, Zenon DEF PhaseNext
<1>3. /\ OrderInv' /\ \A q \in Orders \ {o} : order'[q] = order[q]
      /\ order'[o].at = phase /\ order'[o].step = "none"
  <2>1. CASE Enter(o, phase, digests)
    BY <1>1, <2>1, EnterMove, Zenon
  <2>2. CASE ~Enter(o, phase, digests)
    <3>1. clock \in Int
      BY DEF RangeInv
    <3> QED
      BY <1>1, <1>2, <2>2, <3>1, StampedMove, Zenon
  <2> QED
    BY <2>1, <2>2, Zenon
<1>4. /\ order[o].at \notin {"ingest", "cleanup", "done", "failed"}
      /\ phase \notin {"done", "failed"}
      /\ order[o].at = "build" => phase = "ingest"
      /\ phase \in Linked => order[o].at \in Linked
      /\ order[o].at = "pending" => phase \notin Linked
      /\ order[o].at = "touch" => phase = "build"
  BY <1>2, SMT DEF Linked
<1>5. \/ UNCHANGED links
      \/ links' = [links EXCEPT ![o] = {}] /\ order[o].at = "pending"
  BY Zenon DEF PhaseNext, Query, Submit, Accept, Stage, CollectBegin, Collect, Track, Ingest
<1>6. Track(o) \/ UNCHANGED <<tracked, sheltered>>
  BY Zenon DEF PhaseNext, Query, Submit, Accept, Stage, CollectBegin, Collect, Ingest, historyVars
<1>7. Track(o) => order[o].at = "touch"
  BY Zenon DEF Track, Stored
<1> QED
  BY <1>3, <1>4, <1>5, <1>6, <1>7, Zenon

\* And nothing of the store.
LEMMA PhaseFrame ==
  ASSUME RangeInv, NEW o \in Orders, PhaseNext(o)
  PROVE  SameViews /\ UNCHANGED <<clock, raw, meta, safe, touchedAt>>
<1>1. UNCHANGED <<clock, raw, meta, safe, touchedAt>> /\ (UNCHANGED pass \/ Disturb)
  <2> USE DEF storeVars, historyVars
  <2>1. CASE Query(o) \/ Submit(o) \/ Accept(o) \/ Stage(o)
    BY <2>1, Zenon DEF Query, Submit, Accept, Stage
  <2>2. CASE Materialize(o)
    BY <2>2, Zenon DEF Materialize
  <2>3. CASE CollectBegin(o) \/ Collect(o) \/ Track(o) \/ Ingest(o)
    BY <2>3, Zenon DEF CollectBegin, Collect, Track, Ingest
  <2> QED
    BY <2>1, <2>2, <2>3, Zenon DEF PhaseNext
<1>2. SameViews
  <2>1. CASE UNCHANGED pass
    BY <2>1, Zenon DEF SameViews, SameView, RangeInv
  <2> QED
    BY <1>1, <2>1, DisturbViews, Zenon
<1> QED
  BY <1>1, <1>2, Zenon

\* cleanup_workorder_runtime ends an order and starts a pass in its name.
LEMMA CleanupEffects ==
  ASSUME RangeInv, NEW o \in Orders, Cleanup(o)
  PROVE  /\ OrderInv' /\ \A q \in Orders \ {o} : order'[q] = order[q]
         /\ order[o].at \in {"ingest", "cleanup"}
         /\ order'[o].at \in {"done", "failed"} /\ order'[o].step = "none"
         /\ links' = [links EXCEPT ![o] = {}] /\ tracked' = [tracked EXCEPT ![o] = {}]
         /\ sheltered' = sheltered \ {o}
         /\ UNCHANGED <<clock, raw, meta, safe, touchedAt>>
         /\ DOMAIN pass' = Orders /\ \A p \in Orders : DOMAIN pass'[p] = PassFields
         /\ \A p \in Orders \ {o} : SameView(p)
         /\ pass'[o].at = "refs" /\ pass'[o].active = pass[o].active
         /\ pass'[o].old = pass[o].old /\ pass'[o].now = pass[o].now
<1>1. PICK phase \in {"done", "failed"} : Enter(o, phase, {})
  BY Zenon DEF Cleanup
<1>2. OrderInv /\ phase \in Phases /\ {} \in SUBSET Entries
  BY Zenon DEF RangeInv, Phases
<1>3. /\ OrderInv' /\ \A q \in Orders \ {o} : order'[q] = order[q]
      /\ order'[o].at = phase /\ order'[o].step = "none"
  BY <1>1, <1>2, EnterMove, Zenon
<1>4. /\ order[o].at \in {"ingest", "cleanup"}
      /\ links' = [links EXCEPT ![o] = {}] /\ tracked' = [tracked EXCEPT ![o] = {}]
      /\ sheltered' = sheltered \ {o}
      /\ UNCHANGED <<clock, raw, meta, safe, touchedAt>>
      /\ pass' = [pass EXCEPT ![o].at = "refs"]
  BY Zenon DEF Cleanup, Stored, storeVars
<1>5. DOMAIN pass = Orders /\ \A p \in Orders : DOMAIN pass[p] = PassFields
  BY Zenon DEF RangeInv
<1>6. DOMAIN pass' = Orders /\ pass'[o] = [pass[o] EXCEPT !.at = "refs"]
      /\ \A p \in Orders \ {o} : pass'[p] = pass[p]
  BY <1>4, <1>5, Zenon
<1>7. /\ pass'[o].at = "refs" /\ pass'[o].active = pass[o].active
      /\ pass'[o].old = pass[o].old /\ pass'[o].now = pass[o].now
      /\ DOMAIN pass'[o] = PassFields
  BY <1>5, <1>6, SMT DEF PassFields
<1> QED
  BY <1>1, <1>3, <1>4, <1>5, <1>6, <1>7, Zenon DEF SameView

(***************************************************************************)
(* What the steps of a pass do.                                            *)
(***************************************************************************)
Begun(p) == pass[p].at \notin {"idle", "refs"}
Deleting == {"raw", "raw_zst", "zst", "meta"}

\* The view a pass has of its work, after a step of it.
Became(p, rec) ==
    /\ DOMAIN pass' = Orders /\ pass'[p] = rec /\ DOMAIN rec = PassFields
    /\ \A q \in Orders \ {p} : SameView(q) /\ DOMAIN pass'[q] = PassFields

\* A pass that only moves itself.
LEMMA PassMove ==
  ASSUME RangeInv, NEW p \in Orders, NEW rec, DOMAIN rec = PassFields,
         pass' = [pass EXCEPT ![p] = rec]
  PROVE  Became(p, rec)
<1>1. DOMAIN pass = Orders /\ \A q \in Orders : DOMAIN pass[q] = PassFields
  BY Zenon DEF RangeInv
<1>2. DOMAIN pass' = Orders /\ pass'[p] = rec /\ \A q \in Orders \ {p} : pass'[q] = pass[q]
  BY <1>1, Zenon
<1> QED
  BY <1>1, <1>2, Zenon DEF Became, SameView

\* A pass that deletes a file disturbs the others.
LEMMA PassDisturbs ==
  ASSUME RangeInv, NEW p \in Orders, NEW rec, DOMAIN rec = PassFields, DisturbOthers(p, rec)
  PROVE  Became(p, rec)
<1>1. DOMAIN pass' = Orders /\ pass'[p] = rec
  BY Zenon DEF DisturbOthers
<1>2. ASSUME NEW q \in Orders \ {p} PROVE SameView(q) /\ DOMAIN pass'[q] = PassFields
  <2> DEFINE calm == pass[q].calm /\ ~Running(q)
  <2>1. pass'[q] = [pass[q] EXCEPT !.calm = calm]
    BY Zenon DEF DisturbOthers
  <2>2. DOMAIN pass[q] = PassFields
    BY Zenon DEF RangeInv
  <2> HIDE DEF calm
  <2> QED
    BY <2>1, <2>2 DEF SameView, PassFields
<1> QED
  BY <1>1, <1>2, Zenon DEF Became

\* The entries on the list of a pass were listed, unreferenced and past their
\* grace period, and only an entry on the list is deleted.
LEMMA PassEffects ==
  ASSUME RangeInv, NEW p \in Orders, PassNext(p)
  PROVE  /\ UNCHANGED <<clock, order, links, tracked, safe, touchedAt, sheltered>>
         /\ Became(p, pass'[p]) /\ pass[p].at # "idle"
         /\ pass'[p].now \in {pass[p].now, clock, 0}
         /\ \/ UNCHANGED raw
            \/ pass[p].at \in Deleting /\ raw' = raw \ {pass[p].e}
         /\ \/ UNCHANGED meta
            \/ pass[p].at \in Deleting /\ meta' = [meta EXCEPT ![pass[p].e] = NoMeta]
         /\ pass'[p].at # "refs"
         /\ pass'[p].at = "idle" => pass'[p].old = {}
         /\ Begun(p)' => \/ pass[p].at # "refs" /\ pass'[p].active = pass[p].active
                         \/ /\ pass[p].at = "refs" /\ pass'[p].active = Active
                            /\ pass'[p].old = pass[p].old
         /\ \A x \in pass'[p].old :
               \/ x \in pass[p].old
               \/ /\ pass[p].at # "refs"
                  /\ x.e \in Entries \ pass[p].active /\ Expired(meta[x.e].at, pass[p].now)
         /\ pass'[p].at \in Deleting =>
               \/ pass[p].at \in Deleting /\ pass'[p].e = pass[p].e
               \/ pass[p].at # "refs" /\ \E x \in pass[p].old : pass'[p].e = x.e
<1> DEFINE cur == pass[p]
<1>1. DOMAIN cur = PassFields /\ DOMAIN pass = Orders
  BY Zenon DEF RangeInv
<1> USE DEF storeVars, historyVars
<1>2. CASE PassRefs(p)
  <2> DEFINE now == clock
             active == Active
             was == meta
             rec == [cur EXCEPT !.at = "blobs", !.active = active, !.now = now,
                                !.was = was, !.calm = TRUE]
  <2>1. pass' = [pass EXCEPT ![p] = rec] /\ cur.at = "refs"
        /\ UNCHANGED <<clock, raw, meta, order, links, tracked, safe, touchedAt, sheltered>>
    BY <1>2, Zenon DEF PassRefs
  <2> HIDE DEF now, active, was
  <2>2. /\ DOMAIN rec = PassFields /\ rec.at = "blobs" /\ rec.active = active /\ rec.now = now
        /\ rec.old = cur.old
    BY <1>1, SMT DEF PassFields
  <2> HIDE DEF rec
  <2>3. Became(p, rec)
    BY <2>1, <2>2, PassMove, Zenon
  <2>4. pass'[p] = rec
    BY <2>3, Zenon DEF Became
  <2> QED
    BY <2>1, <2>2, <2>3, <2>4, Zenon DEF Deleting, active, now
<1>3. CASE PassBlobs(p) \/ PassTrees(p)
  <2>1. PICK es \in SUBSET Entries, next \in {"trees", "loop"} : ListInto(p, es, next)
    BY <1>3, Zenon DEF PassBlobs, PassTrees, Entries
  <2>2. cur.at \in {"blobs", "trees"}
        /\ UNCHANGED <<clock, raw, meta, order, links, tracked, safe, touchedAt, sheltered>>
    BY <1>3, Zenon DEF PassBlobs, PassTrees
  <2> DEFINE more == Retained(es \cap Listed, meta)
             found == Evictable(es, cur.active, cur.now)
             rec == [cur EXCEPT !.at = next, !.total = @ + more, !.old = @ \cup found]
  <2>3. pass' = [pass EXCEPT ![p] = rec]
    BY <2>1, Zenon DEF ListInto
  <2>4. \A x \in found : /\ x.e \in Entries \ cur.active
                         /\ Expired(meta[x.e].at, cur.now)
    BY SMT DEF Evictable, Listed
  <2> HIDE DEF more, found
  <2>5. /\ DOMAIN rec = PassFields /\ rec.at = next /\ rec.active = cur.active
        /\ rec.now = cur.now /\ rec.old = cur.old \cup found
    BY <1>1, SMT DEF PassFields
  <2> HIDE DEF rec
  <2>6. Became(p, rec)
    BY <2>3, <2>5, PassMove, Zenon
  <2>7. pass'[p] = rec
    BY <2>6, Zenon DEF Became
  <2> QED
    BY <2>2, <2>4, <2>5, <2>6, <2>7, Zenon DEF Deleting
<1>4. CASE PassListFails(p) \/ PassEnd(p)
  <2>1. pass' = [pass EXCEPT ![p] = IdlePass] /\ cur.at # "idle"
        /\ UNCHANGED <<clock, raw, meta, order, links, tracked, safe, touchedAt, sheltered>>
    BY <1>4, Zenon DEF PassListFails, PassEnd
  <2>2. DOMAIN IdlePass = PassFields
    BY SMT DEF IdlePass, PassFields
  <2>3. IdlePass.at = "idle" /\ IdlePass.old = {} /\ IdlePass.now = 0
    BY Zenon DEF IdlePass
  <2>4. Became(p, IdlePass) /\ pass'[p] = IdlePass
    BY <2>1, <2>2, PassMove, Zenon DEF Became
  <2> QED
    BY <2>1, <2>3, <2>4, Zenon DEF Deleting, Begun
<1>5. CASE PassPick(p)
  <2>1. PICK x \in NextVictims(p) :
         pass' = [pass EXCEPT ![p] = [pass[p] EXCEPT
                    !.at = IF meta[x.e].zst THEN "raw_zst" ELSE "raw",
                    !.e = x.e, !.old = @ \ {x}, !.total = @ - x.bytes]]
    BY <1>5, Zenon DEF PassPick
  <2>2. cur.at = "loop" /\ x \in cur.old
        /\ UNCHANGED <<clock, raw, meta, order, links, tracked, safe, touchedAt, sheltered>>
    BY <1>5, <2>1, Zenon DEF PassPick, NextVictims
  <2> DEFINE at == IF meta[x.e].zst THEN "raw_zst" ELSE "raw"
             rec == [cur EXCEPT !.at = at, !.e = x.e, !.old = @ \ {x}, !.total = @ - x.bytes]
  <2>3. pass' = [pass EXCEPT ![p] = rec]
    BY <2>1, Zenon
  <2>4. at \in {"raw", "raw_zst"}
    BY Zenon
  <2> HIDE DEF at
  <2>5. /\ DOMAIN rec = PassFields /\ rec.at = at /\ rec.active = cur.active
        /\ rec.now = cur.now /\ rec.old = cur.old \ {x} /\ rec.e = x.e
    BY <1>1, SMT DEF PassFields
  <2> HIDE DEF rec
  <2>6. Became(p, rec)
    BY <2>3, <2>5, PassMove, Zenon
  <2>7. pass'[p] = rec
    BY <2>6, Zenon DEF Became
  <2> QED
    BY <2>2, <2>4, <2>5, <2>6, <2>7, Zenon DEF Deleting
<1>6. CASE DeleteRaw(p) \/ DeleteZst(p) \/ DeleteMeta(p)
  <2>1. PICK rec : /\ DisturbOthers(p, rec) /\ DOMAIN rec = PassFields
                   /\ rec.at \in {"zst", "meta", "loop"}
                   /\ rec.at # "loop" => rec.e = cur.e
                   /\ rec.active = cur.active /\ rec.now = cur.now /\ rec.old = cur.old
    <3>1. CASE DeleteRaw(p)
      <4> DEFINE at == IF cur.at = "raw" THEN "meta" ELSE "zst"
                 rec == [cur EXCEPT !.at = at]
      <4>1. DisturbOthers(p, rec) /\ at \in {"zst", "meta"}
        BY <3>1, Zenon DEF DeleteRaw
      <4> HIDE DEF at
      <4>2. /\ DOMAIN rec = PassFields /\ rec.at = at /\ rec.e = cur.e
            /\ rec.active = cur.active /\ rec.now = cur.now /\ rec.old = cur.old
        BY <1>1, SMT DEF PassFields
      <4> QED
        BY <4>1, <4>2, Zenon
    <3>2. CASE DeleteZst(p)
      <4> DEFINE rec == [cur EXCEPT !.at = "meta"]
      <4>1. DisturbOthers(p, rec)
        BY <3>2, Zenon DEF DeleteZst
      <4>2. /\ DOMAIN rec = PassFields /\ rec.at = "meta" /\ rec.e = cur.e
            /\ rec.active = cur.active /\ rec.now = cur.now /\ rec.old = cur.old
        BY <1>1, SMT DEF PassFields
      <4> QED
        BY <4>1, <4>2, Zenon
    <3>3. CASE DeleteMeta(p)
      <4> DEFINE rec == [cur EXCEPT !.at = "loop", !.e = 0]
      <4>1. DisturbOthers(p, rec)
        BY <3>3, Zenon DEF DeleteMeta
      <4>2. /\ DOMAIN rec = PassFields /\ rec.at = "loop"
            /\ rec.active = cur.active /\ rec.now = cur.now /\ rec.old = cur.old
        BY <1>1, SMT DEF PassFields
      <4> QED
        BY <4>1, <4>2, Zenon
    <3> QED
      BY <1>6, <3>1, <3>2, <3>3, Zenon
  <2>2. Became(p, rec) /\ pass'[p] = rec
    BY <2>1, PassDisturbs, Zenon DEF Became
  <2>3. cur.at \in Deleting /\ UNCHANGED <<clock, order, links, tracked, safe, touchedAt, sheltered>>
    BY <1>6, Zenon DEF DeleteRaw, DeleteZst, DeleteMeta, Deleting
  <2>4. UNCHANGED raw \/ raw' = raw \ {cur.e}
    BY <1>6, Zenon DEF DeleteRaw, DeleteZst, DeleteMeta
  <2>5. UNCHANGED meta \/ meta' = [meta EXCEPT ![cur.e] = NoMeta]
    BY <1>6, Zenon DEF DeleteRaw, DeleteZst, DeleteMeta
  <2> QED
    BY <2>1, <2>2, <2>3, <2>4, <2>5, Zenon DEF Deleting
<1>7. CASE PassStop(p)
  <2> DEFINE rec == [cur EXCEPT !.at = "end"]
  <2>1. pass' = [pass EXCEPT ![p] = rec] /\ cur.at = "loop"
        /\ UNCHANGED <<clock, raw, meta, order, links, tracked, safe, touchedAt, sheltered>>
    BY <1>7, Zenon DEF PassStop
  <2>2. /\ DOMAIN rec = PassFields /\ rec.at = "end" /\ rec.active = cur.active
        /\ rec.now = cur.now /\ rec.old = cur.old
    BY <1>1, SMT DEF PassFields
  <2> HIDE DEF rec
  <2>3. Became(p, rec)
    BY <2>1, <2>2, PassMove, Zenon
  <2>4. pass'[p] = rec
    BY <2>3, Zenon DEF Became
  <2> QED
    BY <2>1, <2>2, <2>3, <2>4, Zenon DEF Deleting
<1> QED
  BY <1>2, <1>3, <1>4, <1>5, <1>6, <1>7, Zenon DEF PassNext

(***************************************************************************)
(* The invariants.                                                         *)
(***************************************************************************)
\* The blobs an order has linked are blobs of its manifest, and all of them once
\* it has gone on to its tree.
LinkInv ==
    \A o \in Orders :
        /\ links[o] \subseteq Needs[o]
        /\ order[o].at \in Linked => links[o] = Needs[o]

\* A pass is spawned by an order that is over, starts with nothing to delete, and
\* never deletes what it found referenced.
PassSound(p) ==
    /\ order[p].at \notin {"done", "failed"} => pass[p].at = "idle"
    /\ ~Begun(p) => pass[p].old = {}
    /\ \A x \in pass[p].old : x.e \notin pass[p].active
    /\ pass[p].at \in Deleting => pass[p].e \notin pass[p].active
PassInv == \A p \in Orders : PassSound(p)

\* Every pass that runs beside a sheltered order has seen its references.
ShelterInv ==
    \A o \in sheltered :
        /\ order[o].at \in {"build", "ingest", "cleanup"}
        /\ tracked[o] \subseteq raw
        /\ \A p \in Orders : Begun(p) => tracked[o] \subseteq pass[p].active

Young(e) == clock - touchedAt[e] < Retention

\* No metadata that says less than the last touch is anywhere on its way to the
\* file of an entry that was touched undisturbed, and no pass is after the entry.
Guarded(e) ==
    /\ e \in raw /\ meta[e].known /\ meta[e].at >= touchedAt[e]
    /\ \A o \in Orders : order[o].e = e /\ order[o].step \in Loaded =>
          order[o].got.at >= touchedAt[e]
    /\ \A p \in Orders :
          /\ \A x \in pass[p].old : x.e # e
          /\ pass[p].at \in Deleting => pass[p].e # e
GraceInv == \A e \in safe : Young(e) => Guarded(e)

\* The limits are numbers of hours.
ConfigInv == limits \in [grace : Nat, hard : Nat]

IInv == ConfigInv /\ RangeInv /\ LinkInv /\ PassInv /\ ShelterInv /\ GraceInv

\* What can happen next, by who does it.
LEMMA Kinds ==
  ASSUME [Next]_vars
  PROVE  \/ \E o \in Orders : StoreNext(o) \/ TouchBegin(o)
         \/ \E o \in Orders : PhaseNext(o)
         \/ \E o \in Orders : Cleanup(o)
         \/ \E p \in Orders : PassNext(p)
         \/ Tick
         \/ UNCHANGED vars
  BY Zenon DEF Next, OrderNext, PhaseNext, Terminated

\* The configuration does not change.
LEMMA LimitsKept == ASSUME [Next]_vars PROVE UNCHANGED limits
  BY Zenon DEF Next, vars

(***************************************************************************)
(* Ranges.                                                                 *)
(***************************************************************************)
LEMMA RangeInit == Init => RangeInv
<1> SUFFICES ASSUME Init PROVE RangeInv
  OBVIOUS
<1>1. IdleOrder \in OrderRecords /\ IdleOrder.step = "none"
  BY IdleTyped
<1>2. order \in [Orders -> OrderRecords] /\ \A o \in Orders : order[o].step = "none"
  BY <1>1, Zenon DEF Init
<1>3. OrderInv
  BY <1>2, Zenon DEF OrderInv, Loaded
<1>4. meta \in [Entries -> MetaType]
  <2> SUFFICES ASSUME NEW e \in Entries
               PROVE  (IF e \in DOMAIN Stock THEN MetaAt(Stock[e]) ELSE NoMeta) \in MetaType
    BY Zenon DEF Init
  <2> QED
    BY MetaTyped, StockAssumption, Zenon
<1>5. clock \in Nat /\ touchedAt \in [Entries -> Int] /\ clock = 0
  BY DEF Init
<1>6. raw \subseteq Entries /\ safe \subseteq Entries /\ sheltered \subseteq Orders
  BY StockAssumption, Zenon DEF Init
<1>7. links \in [Orders -> SUBSET Entries] /\ tracked \in [Orders -> SUBSET Entries]
  BY Zenon DEF Init
<1>8. DOMAIN pass = Orders /\ \A p \in Orders : pass[p] = IdlePass
  BY Zenon DEF Init
<1>9. DOMAIN IdlePass = PassFields /\ IdlePass.now = 0
  BY SMT DEF IdlePass, PassFields
<1>10. \A p \in Orders : DOMAIN pass[p] = PassFields /\ pass[p].now \in Nat /\ pass[p].now <= clock
  <2>1. 0 \in Nat /\ 0 <= 0
    OBVIOUS
  <2> QED
    BY <1>5, <1>8, <1>9, <2>1, Zenon
<1> QED
  BY <1>3, <1>4, <1>5, <1>6, <1>7, <1>8, <1>10, Zenon DEF RangeInv

\* Steps that leave the time and the passes as they were.
LEMMA ViewsKept ==
  ASSUME RangeInv, SameViews, UNCHANGED clock
  PROVE  /\ clock' \in Nat /\ DOMAIN pass' = Orders
         /\ \A p \in Orders :
               DOMAIN pass'[p] = PassFields /\ pass'[p].now \in Nat /\ pass'[p].now <= clock'
  BY Zenon DEF RangeInv, SameViews, SameView

LEMMA RangeStep == ASSUME RangeInv, [Next]_vars PROVE RangeInv'
<1>0. /\ OrderInv /\ clock \in Nat /\ raw \subseteq Entries /\ meta \in [Entries -> MetaType]
      /\ links \in [Orders -> SUBSET Entries] /\ tracked \in [Orders -> SUBSET Entries]
      /\ safe \subseteq Entries /\ touchedAt \in [Entries -> Int] /\ sheltered \subseteq Orders
  BY Zenon DEF RangeInv
<1>1. ASSUME NEW o \in Orders, StoreNext(o) \/ TouchBegin(o) PROVE RangeInv'
  <2>1. OrderInv'
    BY <1>1, StoreMove, Zenon
  <2>2. /\ SameViews /\ UNCHANGED <<clock, links, tracked, sheltered>>
        /\ raw' \subseteq Entries /\ meta' \in [Entries -> MetaType]
        /\ TouchSave(o) \/ UNCHANGED <<safe, touchedAt>>
    BY <1>1, StoreEffects, Zenon
  <2>3. safe' \subseteq Entries /\ touchedAt' \in [Entries -> Int]
    <3>1. CASE TouchSave(o)
      <4>1. order[o].step = "save" /\ safe' \subseteq safe \cup {order[o].e}
            /\ touchedAt' = [touchedAt EXCEPT ![order[o].e] = order[o].stamp]
        BY <3>1, Zenon DEF TouchSave
      <4>2. order[o].e \in Entries
        BY <1>0, <4>1, Zenon DEF OrderInv
      <4>3. order[o].stamp \in Int
        BY <1>0, Zenon DEF OrderInv, OrderRecords
      <4> QED
        BY <1>0, <4>1, <4>2, <4>3, Zenon
    <3> QED
      BY <1>0, <2>2, <3>1, Zenon
  <2> QED
    BY <1>0, <2>1, <2>2, <2>3, ViewsKept, Zenon DEF RangeInv
<1>2. ASSUME NEW o \in Orders, PhaseNext(o) PROVE RangeInv'
  <2>1. SameViews /\ UNCHANGED <<clock, raw, meta, safe, touchedAt>>
    BY <1>2, PhaseFrame, Zenon
  <2>2. Needs[o] \subseteq Entries /\ References(o) \subseteq Entries
    BY OrderAssumption, Zenon DEF Entries, References
  <2>3. CASE Materialize(o)
    <3>1. OrderInv' /\ (UNCHANGED links \/ \E b \in Needs[o] : links' = [links EXCEPT ![o] = @ \cup {b}])
      BY <2>3, MaterializeEffects, Zenon
    <3>2. UNCHANGED <<tracked, sheltered>>
      BY <2>3, Zenon DEF Materialize, historyVars
    <3>3. links' \in [Orders -> SUBSET Entries]
      <4>1. CASE UNCHANGED links
        BY <1>0, <4>1, Zenon
      <4>2. ASSUME NEW b \in Needs[o], links' = [links EXCEPT ![o] = @ \cup {b}]
            PROVE  links' \in [Orders -> SUBSET Entries]
        <5>1. links[o] \cup {b} \in SUBSET Entries
          BY <1>0, <2>2, Zenon
        <5> QED
          BY <1>0, <4>2, <5>1, Zenon
      <4> QED
        BY <3>1, <4>1, <4>2, Zenon
    <3> QED
      BY <1>0, <2>1, <3>1, <3>2, <3>3, ViewsKept, Zenon DEF RangeInv
  <2>4. CASE ~Materialize(o)
    <3>1. OrderInv' /\ (UNCHANGED links \/ links' = [links EXCEPT ![o] = {}])
          /\ (Track(o) \/ UNCHANGED <<tracked, sheltered>>)
      BY <1>2, <2>4, PhaseEffects, Zenon
    <3>2. links' \in [Orders -> SUBSET Entries]
      BY <1>0, <3>1, Zenon
    <3>3. Track(o) => /\ tracked' = [tracked EXCEPT ![o] = References(o)]
                      /\ sheltered' \subseteq sheltered \cup {o}
      BY Zenon DEF Track
    <3>4. tracked' \in [Orders -> SUBSET Entries] /\ sheltered' \subseteq Orders
      <4>1. CASE Track(o)
        BY <1>0, <2>2, <3>3, <4>1, Zenon
      <4> QED
        BY <1>0, <3>1, <4>1, Zenon
    <3> QED
      BY <1>0, <2>1, <3>1, <3>2, <3>4, ViewsKept, Zenon DEF RangeInv
  <2> QED
    BY <2>3, <2>4, Zenon
<1>3. ASSUME NEW o \in Orders, Cleanup(o) PROVE RangeInv'
  <2>1. /\ OrderInv' /\ links' = [links EXCEPT ![o] = {}] /\ tracked' = [tracked EXCEPT ![o] = {}]
        /\ sheltered' = sheltered \ {o} /\ UNCHANGED <<clock, raw, meta, safe, touchedAt>>
        /\ DOMAIN pass' = Orders /\ \A p \in Orders : DOMAIN pass'[p] = PassFields
        /\ (\A p \in Orders \ {o} : SameView(p)) /\ pass'[o].now = pass[o].now
    BY <1>3, CleanupEffects, Zenon
  <2>2. \A p \in Orders : pass'[p].now = pass[p].now
    BY <2>1, Zenon DEF SameView
  <2>3. links' \in [Orders -> SUBSET Entries] /\ tracked' \in [Orders -> SUBSET Entries]
    BY <1>0, <2>1, Zenon
  <2> QED
    BY <1>0, <2>1, <2>2, <2>3, Zenon DEF RangeInv
<1>4. ASSUME NEW p \in Orders, PassNext(p) PROVE RangeInv'
  <2>1. /\ UNCHANGED <<clock, order, links, tracked, safe, touchedAt, sheltered>>
        /\ Became(p, pass'[p]) /\ pass'[p].now \in {pass[p].now, clock, 0}
        /\ UNCHANGED raw \/ raw' = raw \ {pass[p].e}
        /\ UNCHANGED meta \/ meta' = [meta EXCEPT ![pass[p].e] = NoMeta]
    BY <1>4, PassEffects, Zenon
  <2>2. raw' \subseteq Entries /\ meta' \in [Entries -> MetaType]
    BY <1>0, <2>1, MetaTyped, ZenonT(60)
  <2>3. pass'[p].now \in Nat /\ pass'[p].now <= clock
    <3>1. pass[p].now \in Nat /\ pass[p].now <= clock /\ clock \in Nat
      BY Zenon DEF RangeInv
    <3> DEFINE new == pass'[p].now
               now == pass[p].now
    <3>2. new \in {now, clock, 0}
      BY <2>1, Zenon
    <3> HIDE DEF new, now
    <3>3. new \in Nat /\ new <= clock
      BY <3>1, <3>2, SMT DEF now
    <3> QED
      BY <3>3, Zenon DEF new
  <2>4. /\ DOMAIN pass' = Orders
        /\ \A q \in Orders :
              DOMAIN pass'[q] = PassFields /\ pass'[q].now \in Nat /\ pass'[q].now <= clock
    BY <2>1, <2>3, Zenon DEF Became, SameView, RangeInv
  <2>5. OrderInv'
    BY <1>0, <2>1, Zenon DEF OrderInv
  <2> QED
    BY <1>0, <2>1, <2>2, <2>4, <2>5, Zenon DEF RangeInv
<1>5. CASE Tick
  <2>1. clock' = clock + 1
        /\ UNCHANGED <<raw, meta, order, links, tracked, pass, safe, touchedAt, sheltered>>
    BY <1>5, Zenon DEF Tick, storeVars, historyVars
  <2>2. \A n \in Nat : n <= clock => n <= clock'
    BY <1>0, <2>1, SMT
  <2>3. clock' \in Nat
    BY <1>0, <2>1, SMT
  <2>4. OrderInv'
    BY <1>0, <2>1, Zenon DEF OrderInv
  <2> QED
    BY <1>0, <2>1, <2>2, <2>3, <2>4, Zenon DEF RangeInv
<1>6. CASE UNCHANGED vars
  <2>1. UNCHANGED <<clock, raw, meta, order, links, tracked, pass, safe, touchedAt, sheltered>>
    BY <1>6, Zenon DEF vars
  <2>2. OrderInv'
    BY <1>0, <2>1, Zenon DEF OrderInv
  <2> QED
    BY <1>0, <2>1, <2>2, Zenon DEF RangeInv
<1> QED
  BY <1>1, <1>2, <1>3, <1>4, <1>5, <1>6, Kinds, Zenon

(***************************************************************************)
(* Links.                                                                  *)
(***************************************************************************)
LEMMA LinkStep == ASSUME RangeInv, LinkInv, [Next]_vars PROVE LinkInv'
<1>0. links \in [Orders -> SUBSET Entries]
  BY Zenon DEF RangeInv
<1>1. ASSUME NEW o \in Orders, StoreNext(o) \/ TouchBegin(o) PROVE LinkInv'
  <2>1. /\ \A q \in Orders \ {o} : order'[q] = order[q]
        /\ order'[o].at \in {order[o].at, Failed(order[o].at)}
    BY <1>1, StoreMove, Zenon
  <2>2. UNCHANGED links
    BY <1>1, StoreEffects, Zenon
  <2>3. Failed(order[o].at) \notin Linked
    BY Zenon DEF Failed, Linked
  <2> QED
    BY <2>1, <2>2, <2>3, Zenon DEF LinkInv
<1>2. ASSUME NEW o \in Orders, PhaseNext(o) PROVE LinkInv'
  <2>1. CASE Materialize(o)
    <3>1. /\ \A q \in Orders \ {o} : order'[q] = order[q]
          /\ order'[o].at \in {"stage", "link_tree", "cleanup"}
          /\ \/ UNCHANGED links /\ (order'[o].at = "link_tree" => Needs[o] \subseteq links[o])
             \/ /\ order'[o].at = "stage"
                /\ \E b \in Needs[o] : links' = [links EXCEPT ![o] = @ \cup {b}]
      BY <2>1, MaterializeEffects, Zenon
    <3>2. CASE UNCHANGED links /\ (order'[o].at = "link_tree" => Needs[o] \subseteq links[o])
      <4>1. order'[o].at \in Linked => order'[o].at = "link_tree"
        BY <3>1, Zenon DEF Linked
      <4> QED
        BY <3>1, <3>2, <4>1, Zenon DEF LinkInv
    <3>3. ASSUME order'[o].at = "stage", NEW b \in Needs[o],
                 links' = [links EXCEPT ![o] = @ \cup {b}]
          PROVE  LinkInv'
      <4>1. links'[o] = links[o] \cup {b} /\ \A q \in Orders \ {o} : links'[q] = links[q]
        BY <1>0, <3>3, Zenon
      <4> QED
        BY <3>1, <3>3, <4>1, Zenon DEF LinkInv, Linked
    <3> QED
      BY <3>1, <3>2, <3>3, Zenon
  <2>2. CASE ~Materialize(o)
    <3>1. /\ \A q \in Orders \ {o} : order'[q] = order[q]
          /\ \/ UNCHANGED links /\ (order'[o].at \in Linked => order[o].at \in Linked)
             \/ links' = [links EXCEPT ![o] = {}] /\ order'[o].at \notin Linked
      BY <1>2, <2>2, PhaseEffects, Zenon
    <3>2. CASE UNCHANGED links /\ (order'[o].at \in Linked => order[o].at \in Linked)
      BY <3>1, <3>2, Zenon DEF LinkInv
    <3>3. CASE links' = [links EXCEPT ![o] = {}] /\ order'[o].at \notin Linked
      <4>1. links'[o] = {} /\ \A q \in Orders \ {o} : links'[q] = links[q]
        BY <1>0, <3>3, Zenon
      <4> QED
        BY <3>1, <3>3, <4>1, Zenon DEF LinkInv
    <3> QED
      BY <3>1, <3>2, <3>3, Zenon
  <2> QED
    BY <2>1, <2>2, Zenon
<1>3. ASSUME NEW o \in Orders, Cleanup(o) PROVE LinkInv'
  <2>1. /\ \A q \in Orders \ {o} : order'[q] = order[q]
        /\ order'[o].at \in {"done", "failed"} /\ links' = [links EXCEPT ![o] = {}]
    BY <1>3, CleanupEffects, Zenon
  <2>2. links'[o] = {} /\ \A q \in Orders \ {o} : links'[q] = links[q]
    BY <1>0, <2>1, Zenon
  <2>3. order'[o].at \notin Linked
    BY <2>1, Zenon DEF Linked
  <2> QED
    BY <2>1, <2>2, <2>3, Zenon DEF LinkInv
<1>4. ASSUME UNCHANGED <<order, links>> PROVE LinkInv'
  BY <1>4, Zenon DEF LinkInv
<1>5. ASSUME NEW p \in Orders, PassNext(p) PROVE LinkInv'
  BY <1>4, <1>5, PassEffects, Zenon
<1>6. CASE Tick
  BY <1>4, <1>6, Zenon DEF Tick
<1>7. CASE UNCHANGED vars
  BY <1>4, <1>7, Zenon DEF vars
<1> QED
  BY <1>1, <1>2, <1>3, <1>5, <1>6, <1>7, Kinds, Zenon

(***************************************************************************)
(* Passes.                                                                 *)
(***************************************************************************)
\* A step of an order that is not over changes nothing for the passes.
LEMMA PassKept ==
  ASSUME PassInv, NEW o \in Orders, order[o].at \notin {"done", "failed"}, SameViews,
         \A q \in Orders \ {o} : order'[q] = order[q]
  PROVE  PassInv'
<1> SUFFICES ASSUME NEW p \in Orders PROVE PassSound(p)'
  BY Zenon DEF PassInv
<1>1. PassSound(p) /\ SameView(p)
  BY Zenon DEF PassInv, SameViews
<1>2. order'[p].at = order[p].at \/ (p = o /\ pass[p].at = "idle")
  BY <1>1, Zenon DEF PassSound
<1> QED
  BY <1>1, <1>2, Zenon DEF PassSound, SameView, Begun

\* Nor does a step leave a mark on a pass whose view and order it leaves alone.
LEMMA OtherPass ==
  ASSUME PassInv, NEW p \in Orders, order'[p] = order[p], SameView(p)
  PROVE  PassSound(p)'
<1>1. PassSound(p)
  BY Zenon DEF PassInv
<1> QED
  BY <1>1, Zenon DEF PassSound, SameView, Begun

LEMMA PassStep == ASSUME RangeInv, PassInv, [Next]_vars PROVE PassInv'
<1>1. ASSUME NEW o \in Orders, StoreNext(o) \/ TouchBegin(o) PROVE PassInv'
  <2>1. /\ \A q \in Orders \ {o} : order'[q] = order[q]
        /\ order[o].at \in StorePhases \cup {"touch"}
    BY <1>1, StoreMove, Zenon
  <2>2. order[o].at \notin {"done", "failed"}
    BY <2>1, Zenon DEF StorePhases
  <2>3. SameViews
    BY <1>1, StoreEffects, Zenon
  <2> QED
    BY <2>1, <2>2, <2>3, PassKept, Zenon
<1>2. ASSUME NEW o \in Orders, PhaseNext(o) PROVE PassInv'
  <2>1. SameViews
    BY <1>2, PhaseFrame, Zenon
  <2>2. CASE Materialize(o)
    <3>1. order[o].at = "stage" /\ \A q \in Orders \ {o} : order'[q] = order[q]
      BY <2>2, MaterializeEffects, Zenon
    <3>2. order[o].at \notin {"done", "failed"}
      BY <3>1, Zenon
    <3> QED
      BY <2>1, <3>1, <3>2, PassKept, Zenon
  <2>3. CASE ~Materialize(o)
    <3>1. /\ order[o].at \notin {"done", "failed"}
          /\ \A q \in Orders \ {o} : order'[q] = order[q]
      BY <1>2, <2>3, PhaseEffects, Zenon
    <3> QED
      BY <2>1, <3>1, PassKept, Zenon
  <2> QED
    BY <2>2, <2>3, Zenon
<1>3. ASSUME NEW o \in Orders, Cleanup(o) PROVE PassInv'
  <2>1. /\ \A q \in Orders \ {o} : order'[q] = order[q] /\ SameView(q)
        /\ order[o].at \in {"ingest", "cleanup"} /\ order'[o].at \in {"done", "failed"}
        /\ pass'[o].at = "refs" /\ pass'[o].old = pass[o].old
    BY <1>3, CleanupEffects, Zenon
  <2>2. pass[o].at = "idle"
    BY <2>1, Zenon DEF PassInv, PassSound
  <2>3. pass'[o].old = {}
    BY <2>1, <2>2, Zenon DEF PassInv, PassSound, Begun
  <2>4. PassSound(o)'
    BY <2>1, <2>3, Zenon DEF PassSound, Deleting
  <2> QED
    BY <2>1, <2>4, OtherPass, Zenon DEF PassInv
<1>4. ASSUME NEW p \in Orders, PassNext(p) PROVE PassInv'
  <2>1. /\ UNCHANGED order /\ Became(p, pass'[p]) /\ pass[p].at # "idle" /\ pass'[p].at # "refs"
        /\ pass'[p].at = "idle" => pass'[p].old = {}
        /\ Begun(p)' => \/ pass[p].at # "refs" /\ pass'[p].active = pass[p].active
                        \/ pass[p].at = "refs" /\ pass'[p].old = pass[p].old
        /\ \A x \in pass'[p].old :
              \/ x \in pass[p].old
              \/ pass[p].at # "refs" /\ x.e \in Entries \ pass[p].active
        /\ pass'[p].at \in Deleting =>
              \/ pass[p].at \in Deleting /\ pass'[p].e = pass[p].e
              \/ pass[p].at # "refs" /\ \E x \in pass[p].old : pass'[p].e = x.e
    BY <1>4, PassEffects, Zenon
  <2>2. \A q \in Orders \ {p} : SameView(q)
    BY <2>1, Zenon DEF Became
  <2>3. order[p].at \in {"done", "failed"}
    BY <2>1, Zenon DEF PassInv, PassSound
  <2>4. ~Begun(p)' => pass'[p].old = {}
    BY <2>1, Zenon DEF Begun
  <2>5. \A x \in pass'[p].old : x.e \notin pass'[p].active
    <3>1. CASE pass[p].at = "refs"
      <4>1. pass[p].old = {}
        BY <3>1, Zenon DEF PassInv, PassSound, Begun
      <4> QED
        BY <2>1, <3>1, <4>1, Zenon
    <3>2. CASE pass[p].at # "refs"
      BY <2>1, <2>4, <3>2, Zenon DEF PassInv, PassSound
    <3> QED
      BY <3>1, <3>2, Zenon
  <2>6. pass'[p].at \in Deleting => pass'[p].e \notin pass'[p].active
    <3> SUFFICES ASSUME pass'[p].at \in Deleting PROVE pass'[p].e \notin pass'[p].active
      OBVIOUS
    <3>1. pass[p].at # "refs" /\ Begun(p)'
      BY <2>1, Zenon DEF Deleting, Begun
    <3> QED
      BY <2>1, <3>1, Zenon DEF PassInv, PassSound
  <2>7. PassSound(p)'
    BY <2>1, <2>3, <2>4, <2>5, <2>6, Zenon DEF PassSound
  <2> QED
    BY <2>1, <2>2, <2>7, OtherPass, Zenon DEF PassInv
<1>5. ASSUME UNCHANGED <<order, pass>> PROVE PassInv'
  BY <1>5, Zenon DEF PassInv, PassSound, Begun
<1>6. CASE Tick
  BY <1>5, <1>6, Zenon DEF Tick
<1>7. CASE UNCHANGED vars
  BY <1>5, <1>7, Zenon DEF vars
<1> QED
  BY <1>1, <1>2, <1>3, <1>4, <1>6, <1>7, Kinds, Zenon

(***************************************************************************)
(* Shelter.                                                                *)
(***************************************************************************)
\* Of a pass that is only disturbed, an order sees what it saw before.
LEMMA ActiveKept ==
  ASSUME SameViews
  PROVE  \A p \in Orders : (Begun(p)' <=> Begun(p)) /\ pass'[p].active = pass[p].active
  BY Zenon DEF SameViews, SameView, Begun

LEMMA ShelterStep == ASSUME RangeInv, PassInv, ShelterInv, [Next]_vars PROVE ShelterInv'
<1>0. sheltered \subseteq Orders /\ tracked \in [Orders -> SUBSET Entries]
  BY Zenon DEF RangeInv
<1>1. ASSUME NEW o \in Orders, StoreNext(o) \/ TouchBegin(o) PROVE ShelterInv'
  <2>1. /\ \A q \in Orders \ {o} : order'[q] = order[q]
        /\ order[o].at \in StorePhases \cup {"touch"}
        /\ order'[o].at \in {order[o].at, Failed(order[o].at)}
    BY <1>1, StoreMove, Zenon
  <2>2. SameViews /\ UNCHANGED <<tracked, sheltered>> /\ raw \subseteq raw'
    BY <1>1, StoreEffects, Zenon
  <2>3. o \in sheltered => order'[o].at \in {"ingest", "cleanup"}
    <3>1. o \in sheltered => order[o].at = "ingest"
      BY <2>1, Zenon DEF ShelterInv, StorePhases
    <3>2. Failed("ingest") = "cleanup"
      BY Zenon DEF Failed
    <3> QED
      BY <2>1, <3>1, <3>2, Zenon
  <2>4. \A q \in sheltered : order'[q].at \in {"build", "ingest", "cleanup"}
    BY <1>0, <2>1, <2>3, Zenon DEF ShelterInv
  <2>5. \A p \in Orders : (Begun(p)' <=> Begun(p)) /\ pass'[p].active = pass[p].active
    BY <2>2, ActiveKept, Zenon
  <2> QED
    BY <2>2, <2>4, <2>5, Zenon DEF ShelterInv
<1>2. ASSUME NEW o \in Orders, PhaseNext(o) PROVE ShelterInv'
  <2>1. SameViews /\ UNCHANGED raw
    BY <1>2, PhaseFrame, Zenon
  <2>0. \A p \in Orders : (Begun(p)' <=> Begun(p)) /\ pass'[p].active = pass[p].active
    BY <2>1, ActiveKept, Zenon
  <2>2. CASE Materialize(o)
    <3>1. order[o].at = "stage" /\ \A q \in Orders \ {o} : order'[q] = order[q]
      BY <2>2, MaterializeEffects, Zenon
    <3>2. UNCHANGED <<tracked, sheltered>>
      BY <2>2, Zenon DEF Materialize, historyVars
    <3>3. o \notin sheltered
      BY <3>1, Zenon DEF ShelterInv
    <3>4. \A q \in sheltered : order'[q].at \in {"build", "ingest", "cleanup"}
      BY <1>0, <3>1, <3>3, Zenon DEF ShelterInv
    <3> QED
      BY <2>0, <2>1, <3>2, <3>4, Zenon DEF ShelterInv
  <2>3. CASE ~Materialize(o)
    <3>1. /\ \A q \in Orders \ {o} : order'[q] = order[q]
          /\ order[o].at \notin {"ingest", "cleanup"}
          /\ \/ Track(o) /\ order'[o].at = "build"
             \/ UNCHANGED <<tracked, sheltered>> /\ (order[o].at = "build" => order'[o].at = "ingest")
      BY <1>2, <2>3, PhaseEffects, Zenon
    <3>2. CASE Track(o) /\ order'[o].at = "build"
      <4>1. /\ order[o].at = "touch" /\ tracked' = [tracked EXCEPT ![o] = References(o)]
            /\ sheltered' = IF NoPassRuns /\ References(o) \subseteq raw
                            THEN sheltered \cup {o} ELSE sheltered
        BY <3>2, Zenon DEF Track, Stored
      <4>2. o \notin sheltered
        BY <4>1, Zenon DEF ShelterInv
      <4>3. tracked'[o] = References(o) /\ \A q \in Orders \ {o} : tracked'[q] = tracked[q]
        BY <1>0, <4>1, Zenon
      <4>4. o \in sheltered' => /\ References(o) \subseteq raw
                                /\ \A p \in Orders : pass'[p].at = "idle"
        BY <2>1, <4>1, <4>2, Zenon DEF NoPassRuns, Running, SameViews, SameView
      <4>5. ASSUME NEW q \in sheltered, q # o
            PROVE  /\ order'[q].at \in {"build", "ingest", "cleanup"}
                   /\ tracked'[q] \subseteq raw'
                   /\ \A p \in Orders : Begun(p)' => tracked'[q] \subseteq pass'[p].active
        <5>1. q \in Orders \ {o}
          BY <1>0, <4>5, Zenon
        <5>2. order'[q] = order[q] /\ tracked'[q] = tracked[q]
          BY <3>1, <4>3, <5>1, Zenon
        <5> QED
          BY <2>0, <2>1, <5>2, Zenon DEF ShelterInv
      <4>6. sheltered' \subseteq sheltered \cup {o}
        BY <4>1, Zenon
      <4>7. o \in sheltered' =>
               /\ order'[o].at \in {"build", "ingest", "cleanup"}
               /\ tracked'[o] \subseteq raw'
               /\ \A p \in Orders : Begun(p)' => tracked'[o] \subseteq pass'[p].active
        BY <2>1, <3>2, <4>3, <4>4, Zenon DEF Begun
      <4> QED
        BY <4>5, <4>6, <4>7, Zenon DEF ShelterInv
    <3>3. CASE UNCHANGED <<tracked, sheltered>> /\ (order[o].at = "build" => order'[o].at = "ingest")
      <4>1. o \in sheltered => order'[o].at = "ingest"
        BY <3>1, <3>3, Zenon DEF ShelterInv
      <4>2. \A q \in sheltered : order'[q].at \in {"build", "ingest", "cleanup"}
        BY <1>0, <3>1, <4>1, Zenon DEF ShelterInv
      <4> QED
        BY <2>0, <2>1, <3>3, <4>2, Zenon DEF ShelterInv
    <3> QED
      BY <3>1, <3>2, <3>3, Zenon
  <2> QED
    BY <2>2, <2>3, Zenon
<1>3. ASSUME NEW o \in Orders, Cleanup(o) PROVE ShelterInv'
  <2>1. /\ \A q \in Orders \ {o} : order'[q] = order[q] /\ SameView(q)
        /\ tracked' = [tracked EXCEPT ![o] = {}] /\ sheltered' = sheltered \ {o}
        /\ UNCHANGED raw /\ pass'[o].at = "refs"
    BY <1>3, CleanupEffects, Zenon
  <2>2. \A q \in Orders \ {o} : tracked'[q] = tracked[q]
    BY <1>0, <2>1, Zenon
  <2>3. ~Begun(o)'
    BY <2>1, Zenon DEF Begun
  <2> QED
    BY <1>0, <2>1, <2>2, <2>3, ZenonT(60) DEF ShelterInv, SameView, Begun
<1>4. ASSUME NEW p \in Orders, PassNext(p) PROVE ShelterInv'
  <2>1. /\ UNCHANGED <<order, tracked, sheltered>> /\ Became(p, pass'[p]) /\ pass[p].at # "idle"
        /\ \/ UNCHANGED raw
           \/ pass[p].at \in Deleting /\ raw' = raw \ {pass[p].e}
        /\ Begun(p)' => \/ pass[p].at # "refs" /\ pass'[p].active = pass[p].active
                        \/ pass[p].at = "refs" /\ pass'[p].active = Active
    BY <1>4, PassEffects, Zenon
  <2>2. \A q \in Orders \ {p} : SameView(q)
    BY <2>1, Zenon DEF Became
  <2> SUFFICES ASSUME NEW o \in sheltered
               PROVE  /\ tracked[o] \subseteq raw'
                      /\ \A q \in Orders : Begun(q)' => tracked[o] \subseteq pass'[q].active
    BY <2>1, Zenon DEF ShelterInv
  <2>3. tracked[o] \subseteq raw'
    <3>1. CASE UNCHANGED raw
      BY <3>1, Zenon DEF ShelterInv
    <3>2. CASE pass[p].at \in Deleting /\ raw' = raw \ {pass[p].e}
      <4>1. Begun(p) /\ pass[p].e \notin pass[p].active
        BY <3>2, Zenon DEF PassInv, PassSound, Begun, Deleting
      <4>2. pass[p].e \notin tracked[o]
        BY <4>1, Zenon DEF ShelterInv
      <4> QED
        BY <3>2, <4>2, Zenon DEF ShelterInv
    <3> QED
      BY <2>1, <3>1, <3>2, Zenon
  <2>4. Begun(p)' => tracked[o] \subseteq pass'[p].active
    <3>1. tracked[o] \subseteq Active
      BY <1>0, Zenon DEF Active
    <3>2. pass[p].at # "refs" => Begun(p)
      BY <2>1, Zenon DEF Begun
    <3> QED
      BY <2>1, <3>1, <3>2, Zenon DEF ShelterInv
  <2> QED
    BY <2>2, <2>3, <2>4, Zenon DEF ShelterInv, SameView, Begun
<1>5. ASSUME UNCHANGED <<order, tracked, sheltered, raw, pass>> PROVE ShelterInv'
  BY <1>5, Zenon DEF ShelterInv, Begun
<1>6. CASE Tick
  BY <1>5, <1>6, Zenon DEF Tick, storeVars, historyVars
<1>7. CASE UNCHANGED vars
  BY <1>5, <1>7, Zenon DEF vars
<1> QED
  BY <1>1, <1>2, <1>3, <1>4, <1>6, <1>7, Kinds, Zenon

(***************************************************************************)
(* The grace period.                                                       *)
(***************************************************************************)
\* Metadata of an order that has loaded it is metadata, with a time.
LEMMA GotTyped ==
  ASSUME RangeInv, NEW o \in Orders
  PROVE  /\ order[o].got \in MetaType /\ order[o].got.at \in Int
         /\ order[o].step \in Loaded => order[o].got.known
<1>1. order[o].got \in MetaType
  BY Zenon DEF RangeInv, OrderInv, OrderRecords
<1> QED
  BY <1>1, Zenon DEF RangeInv, OrderInv, MetaType

\* What a step of the store leaves in the metadata file of a guarded entry is no
\* older than the last touch.
LEMMA StoreMeta ==
  ASSUME RangeInv, NEW o \in Orders, StoreNext(o) \/ TouchBegin(o), ~TouchSave(o),
         NEW e \in Entries, Guarded(e)
  PROVE  meta'[e].known /\ meta'[e].at >= touchedAt[e]
<1> DEFINE d == order[o].e
<1>1. meta \in [Entries -> MetaType] /\ meta[e].known /\ meta[e].at >= touchedAt[e]
  BY Zenon DEF RangeInv, Guarded
<1>2. CASE StoreRecord(o)
  <2> DEFINE got == order[o].got
             new == [got EXCEPT !.zst = TRUE]
  <2>1. order[o].step = "record" /\ meta' = [meta EXCEPT ![d] = new]
    BY <1>2, Zenon DEF StoreRecord
  <2>2. order[o].step \in Loaded
    BY <2>1, Zenon DEF Loaded
  <2>3. got \in MetaType /\ got.known /\ (d = e => got.at >= touchedAt[e])
    BY <2>2, GotTyped, Zenon DEF Guarded
  <2>4. new.known = got.known /\ new.at = got.at
    BY <2>3, Zenon DEF MetaType
  <2> HIDE DEF new, got
  <2>5. meta'[e] = IF d = e THEN new ELSE meta[e]
    BY <1>1, <2>1, Zenon
  <2> QED
    BY <1>1, <2>3, <2>4, <2>5, Zenon
<1>3. CASE StoreEnsure(o) \/ TouchLoad(o)
  <2>1. UNCHANGED meta \/ meta' = [meta EXCEPT ![d] = Ensured(d)]
    BY <1>3, Zenon DEF StoreEnsure, TouchLoad
  <2>2. Ensured(e) = meta[e]
    BY <1>1, EnsuredTyped, Zenon
  <2>3. meta'[e] = meta[e]
    BY <1>1, <2>1, <2>2, Zenon
  <2> QED
    BY <1>1, <2>3, Zenon
<1>4. CASE StoreBegin(o) \/ TouchBegin(o) \/ StoreLink(o) \/ StoreVariant(o)
  <2>1. UNCHANGED meta
    BY <1>4, Zenon DEF StoreBegin, TouchBegin, StoreLink, StoreVariant, storeVars
  <2> QED
    BY <1>1, <2>1, Zenon
<1> QED
  BY <1>2, <1>3, <1>4, Zenon DEF StoreNext

\* A step of the store that completes no touch keeps a guarded entry guarded.
LEMMA StoreGuarded ==
  ASSUME RangeInv, NEW o \in Orders, StoreNext(o) \/ TouchBegin(o), ~TouchSave(o),
         NEW e \in Entries, Guarded(e)
  PROVE  Guarded(e)'
<1>1. SameViews /\ raw \subseteq raw' /\ UNCHANGED touchedAt
  BY StoreEffects, Zenon
<1>2. meta'[e].known /\ meta'[e].at >= touchedAt[e]
  BY StoreMeta, Zenon
<1>3. /\ \A q \in Orders \ {o} : order'[q] = order[q]
      /\ order'[o].step \in Loaded =>
            /\ order'[o].e = order[o].e
            /\ \/ order'[o].got = Ensured(order[o].e)
               \/ order[o].step \in Loaded /\ order'[o].got = order[o].got
  BY StoreMove, Zenon
<1>4. Ensured(e) = meta[e]
  BY EnsuredTyped, Zenon DEF Guarded
<1>5. order'[o].e = e /\ order'[o].step \in Loaded => order'[o].got.at >= touchedAt[e]
  BY <1>3, <1>4, Zenon DEF Guarded
<1>6. \A q \in Orders : order'[q].e = e /\ order'[q].step \in Loaded =>
         order'[q].got.at >= touchedAt[e]
  BY <1>3, <1>5, Zenon DEF Guarded
<1>7. \A p \in Orders : /\ \A x \in pass'[p].old : x.e # e
                        /\ pass'[p].at \in Deleting => pass'[p].e # e
  BY <1>1, ZenonT(60) DEF Guarded, SameViews, SameView
<1> QED
  BY <1>1, <1>2, <1>6, <1>7, Zenon DEF Guarded

\* A touch that nobody interferes with leaves its entry guarded, and the other
\* entries as they were.
LEMMA TouchGuarded ==
  ASSUME RangeInv, PassInv, GraceInv, NEW o \in Orders, TouchSave(o), UNCHANGED limits
  PROVE  GraceInv'
<1>0. PICK d : d = order[o].e
  OBVIOUS
<1>r. UNCHANGED Retention
  BY Zenon DEF Retention
<1> DEFINE got == order[o].got
           time == order[o].stamp
           new == [got EXCEPT !.at = time]
<1>1. /\ order[o].step = "save" /\ meta' = [meta EXCEPT ![d] = new]
      /\ safe' = IF Alone(o, d) THEN safe \cup {d} ELSE safe \ {d}
      /\ touchedAt' = [touchedAt EXCEPT ![d] = time] /\ UNCHANGED <<clock, raw>> /\ Disturb
  BY <1>0, Zenon DEF TouchSave
<1>2. /\ d \in Entries /\ meta \in [Entries -> MetaType] /\ safe \subseteq Entries
      /\ touchedAt \in [Entries -> Int] /\ clock \in Nat /\ order \in [Orders -> OrderRecords]
  BY <1>0, <1>1, Zenon DEF RangeInv, OrderInv
<1>3. SameViews
  BY <1>1, DisturbViews, Zenon
<1>4. \A q \in Orders \ {o} : order'[q] = order[q]
  BY StoreMove, Zenon DEF StoreNext
<1>5. order'[o].step = "none"
  <2> DEFINE todo == order[o].todo \ {d}
             cur == order[o]
             rec == [cur EXCEPT !.todo = todo, !.e = 0, !.step = "none", !.got = NoMeta]
  <2>1. order' = [order EXCEPT ![o] = rec]
    BY <1>0, Zenon DEF TouchSave
  <2>2. cur \in OrderRecords
    BY <1>2, Zenon
  <2> HIDE DEF todo
  <2>3. rec.step = "none"
    BY <2>2, Zenon DEF OrderRecords
  <2> HIDE DEF rec
  <2> QED
    BY <1>2, <2>1, <2>3, Zenon
<1>6. order'[o].step \notin Loaded
  BY <1>5, Zenon DEF Loaded
<1>7. got \in MetaType /\ got.known
  BY <1>1, GotTyped, Zenon DEF Loaded
<1>8. new.known /\ new.at = time /\ time \in Int
  BY <1>2, <1>7, Zenon DEF MetaType, OrderRecords
<1> HIDE DEF new, got, time
<1>9. ASSUME NEW e \in safe', Young(e)', e # d PROVE Guarded(e)'
  <2>1. e \in safe /\ e \in Entries
    BY <1>1, <1>2, <1>9, Zenon
  <2>2. touchedAt'[e] = touchedAt[e] /\ meta'[e] = meta[e]
    BY <1>1, <1>2, <1>9, <2>1, Zenon
  <2>3. Young(e)
    BY <1>r, <1>1, <1>9, <2>2, Zenon DEF Young
  <2>4. Guarded(e)
    BY <2>1, <2>3, Zenon DEF GraceInv
  <2>5. \A q \in Orders : order'[q].e = e /\ order'[q].step \in Loaded =>
           order'[q].got.at >= touchedAt'[e]
    BY <1>4, <1>6, <2>2, <2>4, Zenon DEF Guarded
  <2>6. \A p \in Orders : /\ \A x \in pass'[p].old : x.e # e
                          /\ pass'[p].at \in Deleting => pass'[p].e # e
    BY <1>3, <2>4, Zenon DEF Guarded, SameViews, SameView
  <2>7. e \in raw' /\ meta'[e].known /\ meta'[e].at >= touchedAt'[e]
    BY <1>1, <2>2, <2>4, Zenon DEF Guarded
  <2> QED
    BY <2>5, <2>6, <2>7, Zenon DEF Guarded
<1>10. ASSUME d \in safe' PROVE Guarded(d)'
  <2>1. Alone(o, d)
    BY <1>1, <1>10, Zenon
  <2>2. d \in raw /\ (\A q \in Orders \ {o} : order[q].e # d) /\ \A p \in Orders : pass[p].at = "idle"
    BY <2>1, Zenon DEF Alone, NoPassRuns, Running
  <2>3. meta'[d] = new /\ touchedAt'[d] = time
    BY <1>1, <1>2, Zenon
  <2>4. time >= time
    BY <1>8
  <2>5. d \in raw' /\ meta'[d].known /\ meta'[d].at >= touchedAt'[d]
    BY <1>1, <1>8, <2>2, <2>3, <2>4, Zenon
  <2>6. \A q \in Orders : order'[q].e = d => order'[q].step \notin Loaded
    BY <1>4, <1>6, <2>2, Zenon
  <2>7. \A p \in Orders : pass'[p].old = {} /\ pass'[p].at = "idle"
    BY <1>3, <2>2, Zenon DEF PassInv, PassSound, Begun, SameViews, SameView
  <2>8. \A p \in Orders : pass'[p].at \notin Deleting
    BY <2>7, Zenon DEF Deleting
  <2>9. \A q \in Orders : order'[q].e = d /\ order'[q].step \in Loaded =>
           order'[q].got.at >= touchedAt'[d]
    BY <2>6, Zenon
  <2>10. \A p \in Orders : /\ \A x \in pass'[p].old : x.e # d
                           /\ pass'[p].at \in Deleting => pass'[p].e # d
    BY <2>7, <2>8, Zenon
  <2> QED
    BY <2>5, <2>9, <2>10, Zenon DEF Guarded
<1> QED
  BY <1>9, <1>10, Zenon DEF GraceInv

\* The retention is one of the limits, and neither is below it.
LEMMA RetentionLeast ==
  ASSUME ConfigInv
  PROVE  /\ Retention \in Nat /\ limits.grace \in Nat /\ limits.hard \in Nat
         /\ Retention <= limits.grace /\ Retention <= limits.hard
<1>1. limits.grace \in Nat /\ limits.hard \in Nat
  BY Zenon DEF ConfigInv
<1> QED
  BY <1>1, SMT DEF Retention

\* A pass never gets to list an entry whose touch is younger than both limits.
LEMMA YoungUnlisted ==
  ASSUME ConfigInv, RangeInv, NEW e \in Entries, Young(e), Guarded(e), NEW p \in Orders
  PROVE  ~Expired(meta[e].at, pass[p].now)
<1> DEFINE at == meta[e].at
           now == pass[p].now
           touched == touchedAt[e]
           grace == limits.grace
           hard == limits.hard
<1>1. meta[e] \in MetaType /\ touched \in Int /\ now \in Nat /\ now <= clock /\ clock \in Nat
  BY Zenon DEF RangeInv
<1>2. at \in Int
  BY <1>1, Zenon DEF MetaType
<1>3. at >= touched /\ clock - touched < Retention
  BY Zenon DEF Guarded, Young
<1>4. Retention \in Nat /\ grace \in Nat /\ hard \in Nat /\ Retention <= grace /\ Retention <= hard
  BY RetentionLeast, Zenon
<1> HIDE DEF at, now, touched, grace, hard
<1>5. ~(at <= now - hard) /\ ~(at <= now - grace)
  BY <1>1, <1>2, <1>3, <1>4, SMTT(40)
<1> QED
  BY <1>5, Zenon DEF at, now, grace, hard, Expired

LEMMA GraceStep == ASSUME ConfigInv, RangeInv, PassInv, GraceInv, [Next]_vars PROVE GraceInv'
<1>l. UNCHANGED limits
  BY LimitsKept
<1>r. UNCHANGED Retention
  BY <1>l, Zenon DEF Retention
<1>0. safe \subseteq Entries /\ meta \in [Entries -> MetaType]
  BY Zenon DEF RangeInv
<1>1. ASSUME NEW o \in Orders, StoreNext(o) \/ TouchBegin(o) PROVE GraceInv'
  <2>1. CASE TouchSave(o)
    BY <1>l, <2>1, TouchGuarded, Zenon
  <2>2. CASE ~TouchSave(o)
    <3>1. UNCHANGED <<clock, safe, touchedAt>>
      BY <1>1, <2>2, StoreEffects, Zenon
    <3>2. ASSUME NEW e \in safe', Young(e)' PROVE Guarded(e)'
      <4>1. e \in safe /\ e \in Entries /\ Young(e)
        BY <1>r, <1>0, <3>1, <3>2, Zenon DEF Young
      <4>2. Guarded(e)
        BY <4>1, Zenon DEF GraceInv
      <4> QED
        BY <1>1, <2>2, <4>1, <4>2, StoreGuarded, Zenon
    <3> QED
      BY <3>2, Zenon DEF GraceInv
  <2> QED
    BY <2>1, <2>2, Zenon
<1>2. ASSUME NEW o \in Orders, UNCHANGED <<clock, raw, meta, safe, touchedAt>>,
             \A q \in Orders \ {o} : order'[q] = order[q],
             order'[o].step \in Loaded => order'[o] = order[o],
             \A p \in Orders : /\ pass'[p].old = pass[p].old
                               /\ pass'[p].at \in Deleting =>
                                     pass[p].at \in Deleting /\ pass'[p].e = pass[p].e
      PROVE  GraceInv'
  <2> SUFFICES ASSUME NEW e \in safe, Young(e) PROVE Guarded(e)'
    BY <1>r, <1>2, Zenon DEF GraceInv, Young
  <2>1. Guarded(e)
    BY Zenon DEF GraceInv
  <2>2. e \in raw' /\ meta'[e].known /\ meta'[e].at >= touchedAt'[e]
    BY <1>2, <2>1, Zenon DEF Guarded
  <2>3. \A q \in Orders : order'[q].e = e /\ order'[q].step \in Loaded =>
           order'[q].got.at >= touchedAt'[e]
    BY <1>2, <2>1, Zenon DEF Guarded
  <2>4. \A p \in Orders : /\ \A x \in pass'[p].old : x.e # e
                          /\ pass'[p].at \in Deleting => pass'[p].e # e
    BY <1>2, <2>1, Zenon DEF Guarded
  <2> QED
    BY <2>2, <2>3, <2>4, Zenon DEF Guarded
<1>3. ASSUME NEW o \in Orders, PhaseNext(o) PROVE GraceInv'
  <2>1. SameViews /\ UNCHANGED <<clock, raw, meta, safe, touchedAt>>
    BY <1>3, PhaseFrame, Zenon
  <2>2. \A p \in Orders : /\ pass'[p].old = pass[p].old
                          /\ pass'[p].at \in Deleting =>
                                pass[p].at \in Deleting /\ pass'[p].e = pass[p].e
    BY <2>1, Zenon DEF SameViews, SameView
  <2>3. /\ \A q \in Orders \ {o} : order'[q] = order[q]
        /\ order'[o].step \in Loaded => order'[o] = order[o]
    <3>1. CASE Materialize(o)
      BY <3>1, MaterializeEffects, Zenon
    <3>2. CASE ~Materialize(o)
      <4>1. (\A q \in Orders \ {o} : order'[q] = order[q]) /\ order'[o].step = "none"
        BY <1>3, <3>2, PhaseEffects, Zenon
      <4> QED
        BY <4>1, Zenon DEF Loaded
    <3> QED
      BY <3>1, <3>2, Zenon
  <2> QED
    BY <1>2, <2>1, <2>2, <2>3, Zenon
<1>4. ASSUME NEW o \in Orders, Cleanup(o) PROVE GraceInv'
  <2>1. /\ \A q \in Orders \ {o} : order'[q] = order[q] /\ SameView(q)
        /\ order'[o].step = "none" /\ UNCHANGED <<clock, raw, meta, safe, touchedAt>>
        /\ pass'[o].at = "refs" /\ pass'[o].old = pass[o].old
    BY <1>4, CleanupEffects, Zenon
  <2>2. order'[o].step \notin Loaded /\ pass'[o].at \notin Deleting
    BY <2>1, Zenon DEF Loaded, Deleting
  <2>3. \A p \in Orders : /\ pass'[p].old = pass[p].old
                          /\ pass'[p].at \in Deleting =>
                                pass[p].at \in Deleting /\ pass'[p].e = pass[p].e
    BY <2>1, <2>2, Zenon DEF SameView
  <2> QED
    BY <1>2, <2>1, <2>2, <2>3, Zenon
<1>5. ASSUME NEW p \in Orders, PassNext(p) PROVE GraceInv'
  <2>1. /\ UNCHANGED <<clock, order, safe, touchedAt>> /\ Became(p, pass'[p])
        /\ \/ UNCHANGED raw
           \/ pass[p].at \in Deleting /\ raw' = raw \ {pass[p].e}
        /\ \/ UNCHANGED meta
           \/ pass[p].at \in Deleting /\ meta' = [meta EXCEPT ![pass[p].e] = NoMeta]
        /\ \A x \in pass'[p].old :
              x \in pass[p].old \/ Expired(meta[x.e].at, pass[p].now)
        /\ pass'[p].at \in Deleting =>
              \/ pass[p].at \in Deleting /\ pass'[p].e = pass[p].e
              \/ \E x \in pass[p].old : pass'[p].e = x.e
    BY <1>5, PassEffects, Zenon
  <2> SUFFICES ASSUME NEW e \in safe, Young(e) PROVE Guarded(e)'
    BY <1>r, <2>1, Zenon DEF GraceInv, Young
  <2>2. Guarded(e) /\ e \in Entries
    BY <1>0, Zenon DEF GraceInv
  <2>3. pass[p].at \in Deleting => pass[p].e # e
    BY <2>2, Zenon DEF Guarded
  <2>4. e \in raw' /\ meta'[e] = meta[e]
    BY <1>0, <2>1, <2>2, <2>3, Zenon DEF Guarded
  <2>5. ~Expired(meta[e].at, pass[p].now)
    BY <2>2, YoungUnlisted, Zenon
  <2>6. \A x \in pass'[p].old : x.e # e
    BY <2>1, <2>2, <2>5, Zenon DEF Guarded
  <2>7. pass'[p].at \in Deleting => pass'[p].e # e
    BY <2>1, <2>2, <2>3, Zenon DEF Guarded
  <2>8. \A q \in Orders : /\ \A x \in pass'[q].old : x.e # e
                          /\ pass'[q].at \in Deleting => pass'[q].e # e
    BY <2>1, <2>2, <2>6, <2>7, ZenonT(60) DEF Guarded, Became, SameView
  <2>9. meta'[e].known /\ meta'[e].at >= touchedAt'[e]
    BY <2>1, <2>2, <2>4, Zenon DEF Guarded
  <2>10. \A q \in Orders : order'[q].e = e /\ order'[q].step \in Loaded =>
            order'[q].got.at >= touchedAt'[e]
    BY <2>1, <2>2, Zenon DEF Guarded
  <2> QED
    BY <2>4, <2>8, <2>9, <2>10, Zenon DEF Guarded
<1>6. CASE Tick
  <2>1. clock' = clock + 1 /\ UNCHANGED <<raw, meta, order, pass, safe, touchedAt>>
    BY <1>6, Zenon DEF Tick, storeVars, historyVars
  <2>2. ASSUME NEW e \in safe, Young(e)' PROVE Young(e)
    <3> DEFINE touched == touchedAt[e]
    <3>1. touched \in Int /\ clock \in Nat /\ Retention \in Nat
      BY <1>0, RetentionLeast, Zenon DEF RangeInv
    <3>2. (clock + 1) - touched < Retention
      BY <1>r, <2>1, <2>2, Zenon DEF Young
    <3> HIDE DEF touched
    <3>3. clock - touched < Retention
      BY <3>1, <3>2, SMT
    <3> QED
      BY <3>3, Zenon DEF Young, touched
  <2> QED
    BY <2>1, <2>2, Zenon DEF GraceInv, Guarded
<1>7. CASE UNCHANGED vars
  <2>1. UNCHANGED <<clock, raw, meta, order, pass, safe, touchedAt>>
    BY <1>7, Zenon DEF vars
  <2> QED
    BY <1>r, <2>1, Zenon DEF GraceInv, Guarded, Young
<1> QED
  BY <1>1, <1>3, <1>4, <1>5, <1>6, <1>7, Kinds, Zenon

(***************************************************************************)
(* The theorems.                                                           *)
(***************************************************************************)
\* The invariant holds in every reachable state: the links of an order, what a
\* pass may still delete, and the metadata in flight all stay as they should,
\* whatever the orders and the passes do between each other's file accesses.
THEOREM StoreInvariance == Spec => []IInv
<1>1. Init => IInv
  <2> SUFFICES ASSUME Init PROVE IInv
    OBVIOUS
  <2>1. RangeInv
    BY RangeInit
  <2>7. ConfigInv
    <3>1. PICK c \in Configured : limits = validate(c)
      BY Zenon DEF Init
    <3>2. c.grace \in Nat /\ c.hard \in Nat
      BY AgeAssumption, Zenon
    <3> QED
      BY <3>1, <3>2, AgeAssumption, SMT DEF validate, ConfigInv
  <2>2. \A o \in Orders : order[o] = IdleOrder /\ links[o] = {} /\ pass[o] = IdlePass
    BY Zenon DEF Init
  <2>3. IdleOrder.at = "new" /\ IdlePass.at = "idle" /\ IdlePass.old = {}
    BY Zenon DEF IdleOrder, IdlePass
  <2>4. LinkInv
    BY <2>2, <2>3, Zenon DEF LinkInv, Linked
  <2>5. PassInv
    BY <2>2, <2>3, Zenon DEF PassInv, PassSound, Deleting
  <2>6. ShelterInv /\ GraceInv
    BY Zenon DEF ShelterInv, GraceInv, Init
  <2> QED
    BY <2>1, <2>4, <2>5, <2>6, <2>7, Zenon DEF IInv
<1>2. IInv /\ [Next]_vars => IInv'
  BY LimitsKept, RangeStep, LinkStep, PassStep, ShelterStep, GraceStep, Zenon DEF IInv, ConfigInv
<1> QED
  BY <1>1, <1>2, PTL DEF Spec

\* A worker never starts without its inputs: every blob of its manifest is in its
\* runtime directory, whatever the cleanup passes deleted while it was staged.
THEOREM BuildHasInputsHolds == Spec => []BuildHasInputs
<1>1. IInv => BuildHasInputs
  BY Zenon DEF IInv, LinkInv, Linked, BuildHasInputs
<1> QED
  BY <1>1, StoreInvariance, PTL

\* What a running build refers to stays in the cache, however old it gets, if no
\* cleanup pass was running when track_staged_workorder_references recorded it.
THEOREM TrackedKeptHolds == Spec => []TrackedKept
<1>1. IInv => TrackedKept
  BY Zenon DEF IInv, ShelterInv, TrackedKept
<1> QED
  BY <1>1, StoreInvariance, PTL

\* Data that touch_blob or touch_tree touched stays in the cache for the grace
\* period or the hard limit, whichever is shorter, counted from the time the touch
\* wrote, if no cleanup pass and no other task was at work on it. It holds for
\* every configuration that ServerConfig's validation lets through.
THEOREM GraceKeptHolds == Spec => []GraceKept
<1>1. IInv => GraceKept
  BY Zenon DEF IInv, GraceInv, Guarded, Young, GraceKept
<1> QED
  BY <1>1, StoreInvariance, PTL

=============================================================================
