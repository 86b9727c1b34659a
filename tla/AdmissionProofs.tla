------------------------- MODULE AdmissionProofs --------------------------
(***************************************************************************)
(* The configuration of a client and the order in its slot, for every set  *)
(* of submissions, clients, configurations and certificates.               *)
(***************************************************************************)
EXTENDS Admission, TLAPS

(***************************************************************************)
(* Ranges. A copy of the registry is one while it waits to be written.     *)
(***************************************************************************)
HandlerStates == {"negotiate", "received", "admit", "insert", "activate", "snapshot",
                  "write", "answered", "refused", "dropped"}
HandlerRecords == [pc : HandlerStates, client : Clients \cup {Unknown},
                   role : Roles \cup {Unknown}, snap : Registries \cup {<<>>}]

\* The submission has been given an identity and is about to take the slot.
Identified == {"admit", "insert", "activate"}

RangeInv ==
    /\ scenario \in Scenarios
    /\ handler \in [Handlers -> HandlerRecords]
    /\ saver \in [pc : {"wait", "write"}, snap : Registries \cup {<<>>}]
    /\ saver.pc = "write" => saver.snap \in Registries
    /\ orders \in [Handlers -> {"none", "active", "ended"}]
    /\ task \in [Handlers -> {"none", "runs", "cleanup", "done"}]
    /\ cancel \in [Handlers -> {"none", "clear", "done"}]
    /\ canceller \in [Handlers -> Certs \cup {NoCert, Unknown}]
    /\ clients \in Registries /\ disk \in Registries
    /\ crashes \in Nat
    /\ \A h \in Handlers :
          /\ handler[h].pc \in Identified => handler[h].client \in Clients /\ handler[h].role \in Roles
          /\ handler[h].pc = "write" => handler[h].snap \in Registries

\* A request carries a client, a role and a configuration.
LEMMA RequestTyped ==
  ASSUME RangeInv, NEW h \in Handlers
  PROVE  Req(h).client \in Clients /\ Req(h).role \in Roles /\ Req(h).config \in Configs
<1>1. scenario.request \in [Handlers -> Requests]
  BY AdmissionAssumption, Zenon DEF RangeInv
<1> QED
  BY <1>1, Zenon DEF Req, Requests

\* CertRegistry::resolve accepts a request with a client and a role.
LEMMA ResolveTyped ==
  ASSUME NEW mode \in Modes, NEW cert, NEW client \in Clients, NEW role \in Roles
  PROVE  LET who == resolve(mode, cert, client, role) IN
         /\ who.client \in Clients \cup {Unknown} /\ who.role \in Roles \cup {Unknown}
         /\ who.ok => who.client \in Clients /\ who.role \in Roles
<1>1. /\ Declared(client, role).client = client /\ Declared(client, role).role = role
      /\ Declared(client, "follower").client = client
      /\ Declared(client, "follower").role = "follower"
      /\ Refused.client = Unknown /\ Refused.role = Unknown /\ ~Refused.ok
  BY Zenon DEF Declared, Refused
<1>2. cert \in Certs => /\ ByCertificate(cert).client \in Clients
                        /\ ByCertificate(cert).role \in Roles
  BY AdmissionAssumption, Zenon DEF ByCertificate, Declared
<1>3. cert \notin Certs => ByCertificate(cert) = Refused
  BY Zenon DEF ByCertificate
<1>4. resolve(mode, cert, client, role) \in
        {Declared(client, role), Declared(client, "follower"), Refused, ByCertificate(cert)}
  BY Zenon DEF resolve, Modes
<1> QED
  BY <1>1, <1>2, <1>3, <1>4, Zenon DEF Roles

\* The registry is empty when the server first starts.
LEMMA RangeInit == Init => RangeInv
<1> SUFFICES ASSUME Init PROVE RangeInv
  OBVIOUS
<1>1. NoClient \in [config : Configs \cup {NoConfig}, active : Handlers \cup {NoOrder}]
  BY Zenon DEF NoClient
<1>2. clients \in Registries /\ disk \in Registries
  BY <1>1, Zenon DEF Init, Registries
<1>3. \A h \in Handlers : handler[h] \in HandlerRecords
                          /\ handler[h].pc \in {"refused", "negotiate", "received"}
  BY Zenon DEF Init, HandlerRecords, HandlerStates
<1>4. handler \in [Handlers -> HandlerRecords]
  BY <1>3, Zenon DEF Init
<1> QED
  BY <1>2, <1>3, <1>4, Zenon DEF Init, RangeInv, Identified

\* A step of a handler that moves on, with what it holds in range.
LEMMA RangeMove ==
  ASSUME RangeInv, NEW h \in Handlers, NEW rec \in HandlerRecords,
         handler' = [handler EXCEPT ![h] = rec],
         rec.pc \in Identified => rec.client \in Clients /\ rec.role \in Roles,
         rec.pc = "write" => rec.snap \in Registries,
         UNCHANGED <<scenario, task, canceller, cancel, saver, crashes>>,
         orders' \in [Handlers -> {"none", "active", "ended"}],
         clients' \in Registries, disk' \in Registries
  PROVE  RangeInv'
<1>1. handler' \in [Handlers -> HandlerRecords]
  BY Zenon DEF RangeInv
<1>2. \A g \in Handlers : handler'[g] = IF g = h THEN rec ELSE handler[g]
  BY Zenon DEF RangeInv
<1> QED
  BY <1>1, <1>2, Zenon DEF RangeInv

\* The record of a handler that only moves on.
LEMMA GotoRecord ==
  ASSUME RangeInv, NEW h \in Handlers, NEW pc \in HandlerStates, Goto(h, pc)
  PROVE  \E rec \in HandlerRecords :
            /\ handler' = [handler EXCEPT ![h] = rec]
            /\ rec.pc = pc /\ rec.client = handler[h].client /\ rec.role = handler[h].role
            /\ rec.snap = handler[h].snap
<1> DEFINE rec == [handler[h] EXCEPT !.pc = pc]
<1>1. handler[h] \in HandlerRecords
  BY Zenon DEF RangeInv
<1>2. rec \in HandlerRecords /\ rec.pc = pc /\ rec.client = handler[h].client
      /\ rec.role = handler[h].role /\ rec.snap = handler[h].snap
  BY <1>1, Zenon DEF HandlerRecords
<1>3. handler' = [handler EXCEPT ![h] = rec]
  BY Zenon DEF Goto
<1> QED
  BY <1>2, <1>3, Zenon

Entry == [config : Configs \cup {NoConfig}, active : Handlers \cup {NoOrder}]

\* The registry after ClientRegistry::update.
LEMMA UpdatedTyped ==
  ASSUME RangeInv, NEW c \in Clients, NEW role, NEW config \in Configs
  PROVE  Updated(c, role, config) \in Registries
<1> DEFINE entry == [clients[c] EXCEPT !.config = config]
<1>1. clients \in [Clients -> Entry]
  BY Zenon DEF RangeInv, Registries, Entry
<1>2. entry \in Entry
  BY <1>1, Zenon DEF Entry
<1>3. Updated(c, role, config) \in {[clients EXCEPT ![c] = entry], clients}
  BY Zenon DEF Updated
<1> HIDE DEF entry
<1> QED
  BY <1>1, <1>2, <1>3, Zenon DEF Registries, Entry

\* The registry after a slot is taken or cleared.
LEMMA SlotTyped ==
  ASSUME RangeInv, NEW c \in Clients \cup {Unknown}, NEW slot \in Handlers \cup {NoOrder}
  PROVE  [clients EXCEPT ![c].active = slot] \in Registries
<1> DEFINE entry == [clients[c] EXCEPT !.active = slot]
<1>1. clients \in [Clients -> Entry]
  BY Zenon DEF RangeInv, Registries, Entry
<1>2. c \in Clients => entry \in Entry
  BY <1>1, Zenon DEF Entry
<1>3. [clients EXCEPT ![c].active = slot] = [clients EXCEPT ![c] = entry]
  OBVIOUS
<1> HIDE DEF entry
<1> QED
  BY <1>1, <1>2, <1>3, NameAssumption, Zenon DEF Registries, Entry

\* The steps of a submission keep every range.
LEMMA RangeHandler ==
  ASSUME RangeInv, NEW h \in Handlers, HandlerStep(h) \/ SaveFails(h) \/ HangUp(h)
  PROVE  RangeInv'
<1>1. handler[h] \in HandlerRecords /\ clients \in Registries /\ disk \in Registries
  BY Zenon DEF RangeInv
<1>2. CASE Negotiate(h)
  <2>1. PICK pc \in {"received", "refused"} : Goto(h, pc)
    BY <1>2, Zenon DEF Negotiate
  <2> QED
    BY <1>1, <1>2, <2>1, GotoRecord, RangeMove
    DEF Negotiate, HandlerStates, Identified, orderVars, RangeInv
<1>3. CASE Authenticate(h)
  <2> DEFINE r == Req(h)
             who == resolve(scenario.mode, r.cert, r.client, r.role)
             rec == [handler[h] EXCEPT !.pc = IF r.valid /\ who.ok THEN "admit" ELSE "refused",
                                       !.client = who.client, !.role = who.role]
  <2>1. scenario.mode \in Modes
    BY AdmissionAssumption, Zenon DEF RangeInv
  <2>2. /\ who.client \in Clients \cup {Unknown} /\ who.role \in Roles \cup {Unknown}
        /\ who.ok => who.client \in Clients /\ who.role \in Roles
    BY <2>1, RequestTyped, ResolveTyped, Zenon
  <2>3. handler' = [handler EXCEPT ![h] = rec]
    BY <1>3, Zenon DEF Authenticate
  <2> HIDE DEF who, r
  <2>4. /\ rec \in HandlerRecords
        /\ rec.pc \in {"admit", "refused"}
        /\ rec.pc = "admit" => rec.client \in Clients /\ rec.role \in Roles
    BY <1>1, <2>2, Zenon DEF HandlerRecords, HandlerStates
  <2>5. /\ UNCHANGED <<scenario, task, canceller, cancel, saver, crashes>>
        /\ orders' \in [Handlers -> {"none", "active", "ended"}]
        /\ clients' \in Registries /\ disk' \in Registries
    BY <1>1, <1>3, Zenon DEF Authenticate, orderVars, RangeInv
  <2> HIDE DEF rec
  <2> QED
    BY <2>3, <2>4, <2>5, RangeMove, Zenon DEF Identified
<1>4. CASE Admit(h)
  <2>1. /\ \E pc \in {"refused", "insert"} : Goto(h, pc)
        /\ clients' = clients \/ clients' = Updated(handler[h].client, handler[h].role, Req(h).config)
        /\ handler[h].pc = "admit"
        /\ UNCHANGED <<scenario, orderVars, disk, saver, crashes>>
    BY <1>4, Zenon DEF Admit
  <2>2. handler[h].client \in Clients /\ handler[h].role \in Roles
    BY <2>1, Zenon DEF RangeInv, Identified
  <2>3. clients' \in Registries
    BY <1>1, <2>1, <2>2, RequestTyped, UpdatedTyped, Zenon
  <2>4. PICK pc \in {"refused", "insert"} : Goto(h, pc)
    BY <2>1, Zenon
  <2>5. PICK rec \in HandlerRecords :
           /\ handler' = [handler EXCEPT ![h] = rec]
           /\ rec.pc = pc /\ rec.client = handler[h].client /\ rec.role = handler[h].role
    BY <2>4, GotoRecord DEF HandlerStates
  <2>6. orders' \in [Handlers -> {"none", "active", "ended"}] /\ disk' \in Registries
    BY <1>1, <2>1, Zenon DEF orderVars, RangeInv
  <2> QED
    BY <2>1, <2>2, <2>3, <2>5, <2>6, RangeMove, Zenon DEF orderVars
<1>5. CASE Insert(h)
  <2>1. PICK rec \in HandlerRecords :
           /\ handler' = [handler EXCEPT ![h] = rec]
           /\ rec.pc = "activate" /\ rec.client = handler[h].client /\ rec.role = handler[h].role
    BY <1>5, GotoRecord DEF Insert, HandlerStates
  <2>2. orders' \in [Handlers -> {"none", "active", "ended"}]
    BY <1>5, Zenon DEF Insert, RangeInv
  <2>3. rec.client \in Clients /\ rec.role \in Roles
    BY <1>5, <2>1, Zenon DEF Insert, RangeInv, Identified
  <2> QED
    BY <1>1, <1>5, <2>1, <2>2, <2>3, RangeMove, Zenon DEF Insert
<1>6. CASE set_active_workorder(h)
  <2>1. PICK rec \in HandlerRecords : handler' = [handler EXCEPT ![h] = rec] /\ rec.pc = "snapshot"
    BY <1>6, GotoRecord DEF set_active_workorder, HandlerStates
  <2>2. handler[h].client \in Clients
    BY <1>6, Zenon DEF set_active_workorder, RangeInv, Identified
  <2>3. clients' \in Registries
    BY <1>6, <2>2, SlotTyped, Zenon DEF set_active_workorder
  <2>4. orders' \in [Handlers -> {"none", "active", "ended"}] /\ disk' \in Registries
        /\ UNCHANGED <<scenario, task, canceller, cancel, saver, crashes>>
    BY <1>1, <1>6, Zenon DEF set_active_workorder, orderVars, RangeInv
  <2> QED
    BY <2>1, <2>3, <2>4, RangeMove, Zenon DEF Identified
<1>7. CASE SnapshotClients(h)
  <2> DEFINE rec == [handler[h] EXCEPT !.pc = "write", !.snap = clients]
  <2>1. handler' = [handler EXCEPT ![h] = rec]
    BY <1>7, Zenon DEF SnapshotClients
  <2>2. rec \in HandlerRecords /\ rec.pc = "write" /\ rec.snap \in Registries
    BY <1>1, Zenon DEF HandlerRecords, HandlerStates
  <2> HIDE DEF rec
  <2> QED
    BY <1>1, <1>7, <2>1, <2>2, RangeMove, ZenonT(60) DEF SnapshotClients, orderVars, Identified, RangeInv
<1>8. CASE WriteClients(h) \/ SaveFails(h) \/ HangUp(h)
  <2>1. PICK pc \in {"answered", "dropped"} :
           handler' = [handler EXCEPT ![h] = [@ EXCEPT !.pc = pc, !.snap = <<>>]]
    BY <1>8, Zenon DEF WriteClients, SaveFails, HangUp
  <2> DEFINE rec == [handler[h] EXCEPT !.pc = pc, !.snap = <<>>]
  <2>2. rec \in HandlerRecords /\ rec.pc = pc
    BY <1>1, Zenon DEF HandlerRecords, HandlerStates
  <2>3. handler' = [handler EXCEPT ![h] = rec]
    BY <2>1, Zenon
  <2>4. disk' \in Registries /\ clients' \in Registries
    BY <1>1, <1>8, Zenon DEF WriteClients, SaveFails, HangUp, RangeInv
  <2> HIDE DEF rec
  <2>5. UNCHANGED <<scenario, orders, task, canceller, cancel, saver, crashes>>
    BY <1>8, Zenon DEF WriteClients, SaveFails, HangUp, orderVars
  <2> QED
    BY <2>2, <2>3, <2>4, <2>5, RangeMove, Zenon DEF Identified, RangeInv
<1> QED
  BY <1>2, <1>3, <1>4, <1>5, <1>6, <1>7, <1>8, Zenon DEF HandlerStep

\* So does every other step.
LEMMA RangeStep == RangeInv /\ [Next]_vars => RangeInv'
<1> SUFFICES ASSUME RangeInv, [Next]_vars PROVE RangeInv'
  OBVIOUS
<1>1. ASSUME NEW h \in Handlers,
             Claim(h) \/ SetStatus(h) \/ \E cert \in scenario.cancels : Cancel(h, cert)
      PROVE  RangeInv'
  <2>1. scenario.cancels \subseteq Certs \cup {NoCert}
    BY AdmissionAssumption, Zenon DEF RangeInv
  <2>2. canceller' \in [Handlers -> Certs \cup {NoCert, Unknown}]
    BY <1>1, <2>1, ZenonT(60) DEF RangeInv, Claim, SetStatus, Cancel
  <2> QED
    BY <1>1, <2>2, ZenonT(60) DEF RangeInv, Claim, SetStatus, Cancel
<1>2. ASSUME NEW h \in Handlers, Cleanup(h) \/ CancelClears(h) PROVE RangeInv'
  <2>1. handler[h].client \in Clients \cup {Unknown}
    BY Zenon DEF RangeInv, HandlerRecords
  <2>2. clients' \in Registries
    BY <1>2, <2>1, SlotTyped DEF Cleanup, CancelClears, clear_active_workorder
  <2>3. /\ task' \in [Handlers -> {"none", "runs", "cleanup", "done"}]
        /\ cancel' \in [Handlers -> {"none", "clear", "done"}]
        /\ UNCHANGED <<scenario, handler, orders, canceller, disk, saver, crashes>>
    BY <1>2, Zenon DEF Cleanup, CancelClears, RangeInv
  <2> QED
    BY <2>2, <2>3, Zenon DEF RangeInv
<1>3. ASSUME SaverStep \/ SaverFails PROVE RangeInv'
  BY <1>3 DEF SaverStep, SaverFails, SaverSnapshot, SaverWrite, RangeInv, orderVars
<1>4. CASE Restart
  <2>1. load_clients(disk) \in Registries
    BY ZenonT(60) DEF RangeInv, Registries, load_clients
  <2>2. \A h \in Handlers : \/ handler'[h] = handler[h]
                            \/ handler'[h] \in HandlerRecords /\ handler'[h].pc = "dropped"
    <3> TAKE h \in Handlers
    <3> DEFINE rec == [handler[h] EXCEPT !.pc = "dropped", !.snap = <<>>]
    <3>1. handler'[h] = handler[h] \/ handler'[h] = rec
      BY <1>4, Zenon DEF Restart
    <3>2. handler[h] \in HandlerRecords
      BY Zenon DEF RangeInv
    <3>3. rec \in HandlerRecords /\ rec.pc = "dropped"
      BY <3>2, Zenon DEF HandlerRecords, HandlerStates
    <3> HIDE DEF rec
    <3> QED
      BY <3>1, <3>3, Zenon
  <2>3. handler' \in [Handlers -> HandlerRecords]
    BY <1>4, <2>2, Zenon DEF Restart, RangeInv
  <2>4. /\ orders' \in [Handlers -> {"none", "active", "ended"}]
        /\ task' \in [Handlers -> {"none", "runs", "cleanup", "done"}]
        /\ cancel' \in [Handlers -> {"none", "clear", "done"}]
        /\ crashes' \in Nat /\ UNCHANGED <<scenario, canceller, disk>>
        /\ clients' = load_clients(disk) /\ saver' = [pc |-> "wait", snap |-> <<>>]
    <3>1. orders' \in [Handlers -> {"none", "active", "ended"}]
      BY <1>4, Zenon DEF Restart, RangeInv
    <3>2. task' \in [Handlers -> {"none", "runs", "cleanup", "done"}]
      BY <1>4, Zenon DEF Restart
    <3>3. cancel' \in [Handlers -> {"none", "clear", "done"}]
      BY <1>4, Zenon DEF Restart, RangeInv
    <3>4. crashes' = crashes + 1 /\ UNCHANGED <<scenario, canceller, disk>>
      BY <1>4, Zenon DEF Restart
    <3>5. clients' = load_clients(disk) /\ saver' = [pc |-> "wait", snap |-> <<>>]
      BY <1>4, Zenon DEF Restart
    <3>6. crashes' \in Nat
      BY <3>4 DEF RangeInv
    <3> QED
      BY <3>1, <3>2, <3>3, <3>4, <3>5, <3>6, Zenon
  <2> QED
    BY <2>1, <2>2, <2>3, <2>4, Zenon DEF RangeInv, Identified
<1>5. CASE UNCHANGED vars
  BY <1>5, Zenon DEF vars, orderVars, RangeInv
<1> QED
  BY <1>1, <1>2, <1>3, <1>4, <1>5, RangeHandler, Zenon DEF Next, OrderStep

(***************************************************************************)
(* What the steps of a submission do to the registry.                      *)
(***************************************************************************)
\* The handler goes from one step to another and the registry, the map and
\* the identity stay as they are.
Passes(h, from, to) ==
    /\ handler[h].pc \in from /\ handler'[h].pc \in to
    /\ handler'[h].client = handler[h].client \/ handler[h].pc = "received"
    /\ UNCHANGED <<clients, orders>>

\* update registers the configuration of the request, or finds it registered.
Registers(h) ==
    LET c == handler[h].client IN
    /\ handler[h].pc = "admit" /\ SubmissionLockFree /\ handler'[h].pc = "insert"
    /\ handler'[h].client = c /\ c \in Clients
    /\ clients[c].active = NoOrder
    /\ handler[h].role = "follower" => clients[c].config = Req(h).config
    /\ clients'[c].config = Req(h).config
    /\ \A d \in Clients : clients'[d].active = clients[d].active
    /\ \A d \in Clients \ {c} : clients'[d].config = clients[d].config
    /\ UNCHANGED orders

Activates(h) ==
    LET c == handler[h].client IN
    /\ handler[h].pc = "activate" /\ handler'[h].pc = "snapshot"
    /\ handler'[h].client = c /\ c \in Clients
    /\ \A d \in Clients : /\ clients'[d].config = clients[d].config
                          /\ clients'[d].active = IF d = c THEN h ELSE clients[d].active
    /\ UNCHANGED orders

Inserts(h) ==
    /\ handler[h].pc = "insert" /\ handler'[h].pc = "activate"
    /\ handler'[h].client = handler[h].client /\ handler[h].client \in Clients
    /\ orders' = [orders EXCEPT ![h] = "active"]
    /\ UNCHANGED clients

\* A follower passes update only with the configuration that is registered.
LEMMA AdmitRegisters ==
  ASSUME RangeInv, NEW h \in Handlers, Admit(h)
  PROVE  Registers(h) \/ Passes(h, {"admit"}, {"refused"})
<1> DEFINE c == handler[h].client
           role == handler[h].role
           config == Req(h).config
<1>1. /\ handler[h].pc = "admit" /\ SubmissionLockFree /\ UNCHANGED orders
      /\ c \in Clients /\ role \in Roles /\ config \in Configs
  BY RequestTyped, Zenon DEF Admit, RangeInv, Identified, orderVars
<1>2. handler[h] \in HandlerRecords /\ clients \in [Clients -> Entry]
  BY Zenon DEF RangeInv, Registries, Entry
<1>3. CASE Goto(h, "refused") /\ clients' = clients
  BY <1>1, <1>3, GotoRecord DEF Passes, HandlerStates, RangeInv
<1>4. CASE /\ ~UpdateRefuses(c, role, config)
           /\ Goto(h, "insert") /\ clients' = Updated(c, role, config)
  <2>1. handler'[h].pc = "insert" /\ handler'[h].client = c
    BY <1>4, GotoRecord DEF HandlerStates, RangeInv
  <2>2. clients[c].active = NoOrder
    BY <1>4, Zenon DEF UpdateRefuses, ActiveWorkorder
  <2>3. role = "follower" => clients[c].config = config
    <3> SUFFICES ASSUME role = "follower" PROVE clients[c].config = config
      OBVIOUS
    <3>1. clients[c].config # NoConfig /\ ~Changed(clients[c].config, config)
      BY <1>4, Zenon DEF UpdateRefuses, Registered
    <3>2. clients[c].config \in Configs
      BY <1>1, <1>2, <3>1, Zenon DEF Entry
    <3> QED
      BY <1>1, <3>1, <3>2, ConfigAssumption, Zenon DEF Changed
  <2>4. /\ clients'[c].config = config
        /\ \A d \in Clients : clients'[d].active = clients[d].active
        /\ \A d \in Clients \ {c} : clients'[d].config = clients[d].config
    <3>1. CASE role = "main"
      <4>1. clients' = [clients EXCEPT ![c].config = config]
        BY <1>4, <3>1, Zenon DEF Updated
      <4>2. clients[c] \in Entry
        BY <1>1, <1>2, Zenon
      <4> QED
        BY <1>1, <1>2, <4>1, <4>2, Zenon DEF Entry
    <3>2. CASE role = "follower"
      BY <1>4, <2>3, <3>2, Zenon DEF Updated
    <3> QED
      BY <1>1, <3>1, <3>2, Zenon DEF Roles
  <2> QED
    BY <1>1, <2>1, <2>2, <2>3, <2>4, Zenon DEF Registers
<1> QED
  BY <1>3, <1>4, Zenon DEF Admit

\* Every step of a submission is of one of five kinds.
LEMMA HandlerKinds ==
  ASSUME RangeInv, NEW h \in Handlers, HandlerStep(h) \/ SaveFails(h) \/ HangUp(h)
  PROVE  /\ UNCHANGED <<scenario, task, cancel, crashes>>
         /\ \A g \in Handlers \ {h} : handler'[g] = handler[g]
         /\ \/ Passes(h, {"negotiate", "received"}, {"received", "admit", "refused"})
            \/ Passes(h, {"admit"}, {"refused"})
            \/ Passes(h, {"snapshot", "write"}, {"write", "answered"})
            \/ Passes(h, {"admit", "insert", "activate", "snapshot", "write"}, {"dropped"})
            \/ Registers(h) \/ Inserts(h) \/ Activates(h)
<1>1. handler[h] \in HandlerRecords /\ clients \in [Clients -> Entry]
  BY Zenon DEF RangeInv, Registries, Entry
<1>2. UNCHANGED <<scenario, task, cancel, crashes>>
  BY Zenon DEF HandlerStep, Negotiate, Authenticate, Admit, Insert, set_active_workorder,
     SnapshotClients, WriteClients, SaveFails, HangUp, orderVars
<1>3. \A g \in Handlers \ {h} : handler'[g] = handler[g]
  BY Zenon DEF RangeInv, HandlerStep, Negotiate, Authenticate, Admit, Insert,
     set_active_workorder, SnapshotClients, WriteClients, SaveFails, HangUp, Goto
<1>4. CASE Negotiate(h)
  <2>1. PICK pc \in {"received", "refused"} : Goto(h, pc)
    BY <1>4, Zenon DEF Negotiate
  <2>2. handler'[h].pc = pc /\ handler'[h].client = handler[h].client
    BY <2>1, GotoRecord DEF HandlerStates, RangeInv
  <2>3. Passes(h, {"negotiate", "received"}, {"received", "admit", "refused"})
    BY <1>4, <2>2, Zenon DEF Negotiate, Passes, orderVars
  <2> QED
    BY <1>2, <1>3, <2>3, Zenon
<1>5. CASE Authenticate(h)
  <2>1. handler'[h].pc \in {"admit", "refused"}
    BY <1>1, <1>5, Zenon DEF Authenticate, RangeInv, HandlerRecords
  <2>2. Passes(h, {"negotiate", "received"}, {"received", "admit", "refused"})
    BY <1>5, <2>1, Zenon DEF Authenticate, Passes, orderVars
  <2> QED
    BY <1>2, <1>3, <2>2, Zenon
<1>6. CASE Admit(h)
  BY <1>2, <1>3, <1>6, AdmitRegisters, Zenon
<1>7. CASE Insert(h)
  <2>1. handler'[h].pc = "activate" /\ handler'[h].client = handler[h].client
    BY <1>7, GotoRecord DEF Insert, HandlerStates, RangeInv
  <2>2. Inserts(h)
    BY <1>7, <2>1, Zenon DEF Insert, Inserts, RangeInv, Identified
  <2> QED
    BY <1>2, <1>3, <2>2, Zenon
<1>8. CASE set_active_workorder(h)
  <2>1. handler'[h].pc = "snapshot" /\ handler'[h].client = handler[h].client
    BY <1>8, GotoRecord DEF set_active_workorder, HandlerStates, RangeInv
  <2>2. handler[h].client \in Clients /\ handler[h].pc = "activate" /\ UNCHANGED orders
    BY <1>8, Zenon DEF set_active_workorder, RangeInv, Identified, orderVars
  <2>3. \A d \in Clients :
           /\ clients'[d].config = clients[d].config
           /\ clients'[d].active = IF d = handler[h].client THEN h ELSE clients[d].active
    BY <1>1, <1>8, Zenon DEF set_active_workorder, Entry
  <2>4. Activates(h)
    BY <2>1, <2>2, <2>3, Zenon DEF Activates
  <2> QED
    BY <1>2, <1>3, <2>4, Zenon
<1>9. CASE SnapshotClients(h)
  <2>1. handler'[h].pc = "write" /\ handler'[h].client = handler[h].client
    BY <1>1, <1>9, Zenon DEF SnapshotClients, RangeInv, HandlerRecords
  <2>2. Passes(h, {"snapshot", "write"}, {"write", "answered"})
    BY <1>9, <2>1, Zenon DEF SnapshotClients, Passes, orderVars
  <2> QED
    BY <1>2, <1>3, <2>2, Zenon
<1>10. CASE WriteClients(h) \/ SaveFails(h)
  <2>1. handler'[h].pc = "answered" /\ handler'[h].client = handler[h].client
    <3>1. handler' = [handler EXCEPT ![h] = [@ EXCEPT !.pc = "answered", !.snap = <<>>]]
      BY <1>10, Zenon DEF WriteClients, SaveFails
    <3> QED
      BY <1>1, <3>1, Zenon DEF RangeInv, HandlerRecords
  <2>2. Passes(h, {"snapshot", "write"}, {"write", "answered"})
    BY <1>10, <2>1, Zenon DEF WriteClients, SaveFails, Passes, orderVars
  <2> QED
    BY <1>2, <1>3, <2>2, Zenon
<1>11. CASE HangUp(h)
  <2>1. handler'[h].pc = "dropped" /\ handler'[h].client = handler[h].client
    BY <1>1, <1>11, Zenon DEF HangUp, RangeInv, HandlerRecords
  <2>2. Passes(h, {"admit", "insert", "activate", "snapshot", "write"}, {"dropped"})
    BY <1>11, <2>1, Zenon DEF HangUp, Passes, orderVars
  <2> QED
    BY <1>2, <1>3, <2>2, Zenon
<1> QED
  BY <1>4, <1>5, <1>6, <1>7, <1>8, <1>9, <1>10, <1>11, Zenon DEF HandlerStep

(***************************************************************************)
(* The slot. From update to set_active_workorder a submission holds the    *)
(* lock, so the configuration it registered is still there and the slot    *)
(* still free when it takes it.                                            *)
(***************************************************************************)
Locked == {"insert", "activate"}
Waiting == {"negotiate", "received", "admit", "insert"}

SlotInv ==
    /\ \A g, h \in Handlers : handler[g].pc \in Locked /\ handler[h].pc \in Locked => g = h
    /\ \A h \in Handlers : handler[h].pc \in Locked =>
          /\ clients[handler[h].client].active = NoOrder
          /\ clients[handler[h].client].config = Req(h).config
    /\ \A h \in Handlers : handler[h].pc \in Waiting =>
          /\ orders[h] = "none" /\ task[h] = "none" /\ cancel[h] = "none"
          /\ \A c \in Clients : clients[c].active # h
    /\ \A h \in Handlers : orders[h] = "none" => task[h] = "none"
    /\ \A h \in Handlers : orders[h] # "none" => handler[h].client \in Clients
    /\ \A h \in Handlers : task[h] \in {"cleanup", "done"} => orders[h] # "active"
    /\ SlotConfig

\* Every slot is free when the server first starts.
LEMMA SlotInit == Init => SlotInv
<1> SUFFICES ASSUME Init PROVE SlotInv
  OBVIOUS
<1>1. /\ \A h \in Handlers : handler[h].pc \in {"refused", "negotiate", "received"}
      /\ \A h \in Handlers : orders[h] = "none" /\ task[h] = "none" /\ cancel[h] = "none"
      /\ \A c \in Clients : clients[c].active = NoOrder
  BY Zenon DEF Init, NoClient
<1> QED
  BY <1>1, NameAssumption, Zenon DEF SlotInv, SlotConfig, Locked

\* The steps of a submission.
LEMMA SlotHandler ==
  ASSUME RangeInv, SlotInv, NEW h \in Handlers, HandlerStep(h) \/ SaveFails(h) \/ HangUp(h)
  PROVE  SlotInv'
<1>1. /\ UNCHANGED <<scenario, task, cancel, crashes>>
      /\ \A g \in Handlers \ {h} : handler'[g] = handler[g]
  BY HandlerKinds, Zenon
<1>2. \A g \in Handlers : Req(g)' = Req(g)
  BY <1>1, Zenon DEF Req
<1>3. \A g \in Handlers : handler[g].pc \in Locked => handler[g].client \in Clients
  BY Zenon DEF RangeInv, Locked, Identified
<1>4. /\ orders \in [Handlers -> {"none", "active", "ended"}]
      /\ \A c \in Clients : clients[c].active \in Handlers \cup {NoOrder}
  BY Zenon DEF RangeInv, Registries
<1> USE DEF Locked, Waiting
<1>5. CASE \/ Passes(h, {"negotiate", "received"}, {"received", "admit", "refused"})
           \/ Passes(h, {"admit"}, {"refused"})
           \/ Passes(h, {"snapshot", "write"}, {"write", "answered"})
           \/ Passes(h, {"admit", "insert", "activate", "snapshot", "write"}, {"dropped"})
  <2>1. /\ handler'[h].pc \notin Locked
        /\ handler'[h].pc \in Waiting => handler[h].pc \in Waiting
        /\ handler'[h].client = handler[h].client \/ handler[h].pc = "received"
        /\ UNCHANGED <<clients, orders>>
    BY <1>5, Zenon DEF Passes
  <2>2. handler[h].pc = "received" => orders[h] = "none" /\ \A c \in Clients : clients[c].active # h
    BY Zenon DEF SlotInv
  <2>3. SlotConfig'
    BY <1>1, <1>2, <1>4, <2>1, <2>2 DEF SlotInv, SlotConfig
  <2>4. \A g \in Handlers : orders'[g] # "none" => handler'[g].client \in Clients
    BY <1>1, <2>1, <2>2, Zenon DEF SlotInv
  <2> QED
    BY <1>1, <1>2, <2>1, <2>3, <2>4 DEF SlotInv
<1>6. CASE Registers(h)
  <2>1. \A g \in Handlers : handler[g].pc \notin Locked
    BY <1>6, Zenon DEF Registers, SubmissionLockFree
  <2>2. \A c \in Clients : clients[c].active = clients'[c].active
    BY <1>6, Zenon DEF Registers
  <2>3. SlotConfig'
    BY <1>1, <1>2, <1>4, <1>6, <2>2 DEF Registers, SlotInv, SlotConfig
  <2> QED
    BY <1>1, <1>2, <1>6, <2>1, <2>2, <2>3 DEF Registers, SlotInv
<1>7. CASE Inserts(h)
  <2>1. SlotConfig'
    BY <1>1, <1>2, <1>4, <1>7 DEF Inserts, SlotInv, SlotConfig
  <2> QED
    BY <1>1, <1>2, <1>4, <1>7, <2>1 DEF Inserts, SlotInv
<1>8. CASE Activates(h)
  <2>1. \A g \in Handlers : handler'[g].pc \notin Locked
    BY <1>1, <1>8 DEF Activates, SlotInv
  <2>2. SlotConfig'
    BY <1>1, <1>2, <1>4, <1>8 DEF Activates, SlotInv, SlotConfig
  <2> QED
    BY <1>1, <1>2, <1>4, <1>8, <2>1, <2>2 DEF Activates, SlotInv
<1> QED
  BY <1>5, <1>6, <1>7, <1>8, HandlerKinds, Zenon

\* A cleared slot and a status change disturb nothing that was registered, and
\* a restart clears every slot and drops every handler that held the lock.
LEMMA SlotStep == RangeInv /\ SlotInv /\ [Next]_vars => SlotInv'
<1> SUFFICES ASSUME RangeInv, SlotInv, [Next]_vars PROVE SlotInv'
  OBVIOUS
<1>1. /\ orders \in [Handlers -> {"none", "active", "ended"}]
      /\ task \in [Handlers -> {"none", "runs", "cleanup", "done"}]
      /\ cancel \in [Handlers -> {"none", "clear", "done"}]
      /\ clients \in [Clients -> Entry]
      /\ disk \in [Clients -> Entry]
  BY Zenon DEF RangeInv, Registries, Entry
<1>2. ASSUME NEW h \in Handlers, OrderStep(h) PROVE SlotInv'
  <2>1. UNCHANGED <<scenario, handler>>
    BY <1>2, Zenon DEF OrderStep, Claim, SetStatus, Cleanup, CancelClears, Cancel
  <2>2. /\ \A c \in Clients : /\ clients'[c].config = clients[c].config
                              /\ clients'[c].active \in {clients[c].active, NoOrder}
    <3>1. CASE Claim(h) \/ SetStatus(h) \/ \E cert \in scenario.cancels : Cancel(h, cert)
      BY <3>1, Zenon DEF Claim, SetStatus, Cancel
    <3>2. CASE Cleanup(h) \/ CancelClears(h)
      <4>1. clients' = [clients EXCEPT ![handler[h].client].active = NoOrder]
        BY <3>2, Zenon DEF Cleanup, CancelClears, clear_active_workorder
      <4> QED
        BY <1>1, <4>1, Zenon DEF Entry
    <3> QED
      BY <1>2, <3>1, <3>2, Zenon DEF OrderStep
  <2>3. /\ orders[h] # "none" \/ cancel[h] = "clear"
        /\ \A g \in Handlers : (orders'[g] = "none") <=> (orders[g] = "none")
        /\ \A g \in Handlers \ {h} : task'[g] = task[g] /\ orders'[g] = orders[g] /\ cancel'[g] = cancel[g]
        /\ orders[h] = "none" => task'[h] = "none"
        /\ task'[h] \in {"cleanup", "done"} => orders'[h] # "active"
    <3> USE <1>1 DEF SlotInv
    <3>1. CASE Claim(h)
      BY <3>1, Zenon DEF Claim
    <3>2. CASE SetStatus(h)
      BY <3>2 DEF SetStatus
    <3>3. CASE Cleanup(h)
      BY <3>3, ZenonT(60) DEF Cleanup
    <3>4. CASE CancelClears(h)
      BY <3>4, ZenonT(60) DEF CancelClears
    <3>5. CASE \E cert \in scenario.cancels : Cancel(h, cert)
      BY <3>5, SMTT(30) DEF Cancel
    <3> QED
      BY <1>2, <3>1, <3>2, <3>3, <3>4, <3>5, Zenon DEF OrderStep
  <2>4. handler[h].pc \notin Waiting
    BY <2>3, Zenon DEF SlotInv
  <2>5. \A g \in Handlers : Req(g)' = Req(g)
    BY <2>1, Zenon DEF Req
  <2>6. SlotConfig'
    <3>1. \A c \in Clients : clients[c].active \in Handlers \cup {NoOrder}
      BY <1>1, Zenon DEF Entry
    <3> QED
      BY <2>1, <2>2, <2>5, <3>1 DEF SlotInv, SlotConfig
  <2>7. \A g \in Handlers : handler[g].pc \in Locked => handler[g].client \in Clients
    BY Zenon DEF RangeInv, Locked, Identified
  <2>8. \A g \in Handlers : \A c \in Clients : clients'[c].active = g => clients[c].active = g
    BY <2>2, NameAssumption, Zenon
  <2> QED
    BY <2>1, <2>2, <2>3, <2>4, <2>5, <2>6, <2>7, <2>8, SMTT(30) DEF SlotInv
<1>3. CASE Restart
  <2>1. \A c \in Clients : clients'[c].active = NoOrder
    BY <1>1, <1>3, Zenon DEF Restart, load_clients, Entry
  <2>2. \A h \in Handlers : /\ handler'[h].pc \notin Locked
                            /\ handler'[h].pc \in Waiting => handler[h].pc \in Waiting
                            /\ handler'[h].client = handler[h].client
    <3> TAKE h \in Handlers
    <3>1. handler[h] \in HandlerRecords
      BY Zenon DEF RangeInv
    <3> QED
      BY <1>3, <3>1, Zenon DEF Restart, HandlerRecords, Locked, Waiting
  <2>3. \A h \in Handlers : /\ task'[h] = "none"
                            /\ orders'[h] # "none" => orders[h] # "none"
                            /\ cancel[h] = "none" => cancel'[h] = "none"
    BY <1>3, Zenon DEF Restart
  <2> QED
    BY <2>1, <2>2, <2>3, NameAssumption DEF SlotInv, SlotConfig
<1>4. CASE SaverStep \/ SaverFails \/ UNCHANGED vars
  <2>1. UNCHANGED <<scenario, handler, orders, task, cancel, clients>>
    BY <1>4, Zenon DEF SaverStep, SaverSnapshot, SaverWrite, SaverFails, vars, orderVars
  <2> QED
    BY <2>1, Zenon DEF SlotInv, SlotConfig, Req
<1> QED
  BY <1>2, <1>3, <1>4, SlotHandler, Zenon DEF Next

(***************************************************************************)
(* The order of a quiet client keeps its slot, or is about to take it,     *)
(* until its task has cleaned up.                                          *)
(***************************************************************************)
Busy(h) == orders[h] = "active" \/ task[h] \in {"runs", "cleanup"}
Holds(h) == handler[h].pc = "activate" \/ clients[handler[h].client].active = h

HoldInv == \A h \in Handlers : Quiet(handler[h].client) /\ Busy(h) => Holds(h)

\* Two submissions of a client cannot both hold its slot.
LEMMA OneHolder ==
  ASSUME RangeInv, SlotInv, NEW g \in Handlers, NEW h \in Handlers,
         handler[g].client = handler[h].client, Holds(g), Holds(h)
  PROVE  g = h
  BY NameAssumption DEF Holds, SlotInv, Locked

\* A busy submission has a client and has left the steps before its insertion.
LEMMA BusyInserted ==
  ASSUME RangeInv, SlotInv, NEW h \in Handlers, Busy(h)
  PROVE  orders[h] # "none" /\ handler[h].client \in Clients /\ handler[h].pc \notin Waiting
  BY Zenon DEF Busy, SlotInv

\* Only the cleanup of the order in the slot clears the slot of a quiet client.
LEMMA HoldStep == RangeInv /\ SlotInv /\ HoldInv /\ [Next]_vars => HoldInv'
<1> SUFFICES ASSUME RangeInv, SlotInv, HoldInv, [Next]_vars PROVE HoldInv'
  OBVIOUS
<1>1. ASSUME NEW h \in Handlers, HandlerStep(h) \/ SaveFails(h) \/ HangUp(h) PROVE HoldInv'
  <2>1. /\ UNCHANGED <<scenario, task, cancel, crashes>>
        /\ \A g \in Handlers \ {h} : handler'[g] = handler[g]
    BY <1>1, HandlerKinds, Zenon
  <2>2. /\ handler'[h].client = handler[h].client \/ handler[h].pc = "received"
        /\ handler[h].pc # "dropped"
    BY <1>1, HandlerKinds, Zenon DEF Passes, Registers, Inserts, Activates
  <2>3. handler[h].pc = "received" => cancel[h] = "none"
    BY Zenon DEF SlotInv, Waiting
  <2>4. \A c : Quiet(c)' => Quiet(c)
    BY <2>1, <2>2, <2>3, Zenon DEF Quiet
  <2> SUFFICES ASSUME NEW g \in Handlers, Quiet(handler[g].client)', Busy(g)'
               PROVE  Holds(g)'
    BY Zenon DEF HoldInv
  <2>5. CASE \/ Passes(h, {"negotiate", "received"}, {"received", "admit", "refused"})
             \/ Passes(h, {"admit"}, {"refused"})
             \/ Passes(h, {"snapshot", "write"}, {"write", "answered"})
    <3>1. Busy(g) /\ UNCHANGED clients /\ handler[h].pc # "activate"
      BY <2>1, <2>5, Zenon DEF Passes, Busy
    <3>2. handler'[g].client = handler[g].client
      BY <2>1, <2>2, <3>1, BusyInserted, Zenon DEF Waiting
    <3>3. Holds(g)
      BY <2>4, <3>1, <3>2, Zenon DEF HoldInv
    <3> QED
      BY <2>1, <3>1, <3>2, <3>3, Zenon DEF Holds
  <2>6. CASE Passes(h, {"admit", "insert", "activate", "snapshot", "write"}, {"dropped"})
    <3>1. /\ Busy(g) /\ UNCHANGED clients /\ handler'[h].pc = "dropped"
          /\ handler'[h].client = handler[h].client
      BY <2>1, <2>6, Zenon DEF Passes, Busy
    <3>2. handler'[h].client # handler'[g].client /\ g # h
      BY <3>1, Zenon DEF Quiet
    <3>3. Holds(g)
      BY <2>1, <2>4, <3>1, <3>2, Zenon DEF HoldInv
    <3> QED
      BY <2>1, <3>1, <3>2, <3>3, Zenon DEF Holds
  <2>7. CASE Registers(h)
    <3>1. Busy(g) /\ handler[g].pc # "activate"
      BY <2>1, <2>7, Zenon DEF Registers, Busy, SubmissionLockFree
    <3>2. handler'[g].client = handler[g].client /\ handler[g].client \in Clients
      BY <2>1, <2>7, <3>1, BusyInserted, Zenon DEF Registers
    <3>3. Holds(g)
      BY <2>4, <3>1, <3>2, Zenon DEF HoldInv
    <3> QED
      BY <2>7, <3>1, <3>2, <3>3, Zenon DEF Registers, Holds
  <2>8. CASE Inserts(h)
    <3>1. CASE g = h
      BY <2>8, <3>1, Zenon DEF Inserts, Holds
    <3>2. CASE g # h
      <4>1. Busy(g) /\ UNCHANGED clients /\ handler'[g] = handler[g]
        BY <2>1, <2>8, <3>2, Zenon DEF Inserts, Busy, RangeInv
      <4>2. Holds(g)
        BY <2>4, <4>1, Zenon DEF HoldInv
      <4> QED
        BY <4>1, <4>2, Zenon DEF Holds
    <3> QED
      BY <3>1, <3>2, Zenon
  <2>9. CASE Activates(h)
    <3>1. CASE g = h
      BY <2>9, <3>1, Zenon DEF Activates, Holds
    <3>2. CASE g # h
      <4>1. Busy(g) /\ handler'[g] = handler[g] /\ Holds(h)
        BY <2>1, <2>9, <3>2, Zenon DEF Activates, Busy, Holds
      <4>2. Holds(g)
        BY <2>4, <4>1, Zenon DEF HoldInv
      <4>3. handler[g].client # handler[h].client
        BY <3>2, <4>1, <4>2, OneHolder, Zenon
      <4>4. handler[g].client \in Clients
        BY <4>1, BusyInserted, Zenon
      <4> QED
        BY <2>9, <4>1, <4>2, <4>3, <4>4, Zenon DEF Activates, Holds
    <3> QED
      BY <3>1, <3>2, Zenon
  <2> QED
    BY <1>1, <2>5, <2>6, <2>7, <2>8, <2>9, HandlerKinds, Zenon
<1>2. ASSUME NEW h \in Handlers, Claim(h) \/ SetStatus(h) PROVE HoldInv'
  <2>1. /\ UNCHANGED <<handler, clients, cancel, crashes>>
        /\ \A g \in Handlers : Busy(g)' => Busy(g)
    BY <1>2, Zenon DEF Claim, SetStatus, Busy, RangeInv
  <2> QED
    BY <2>1, Zenon DEF HoldInv, Holds, Quiet
<1>3. ASSUME NEW h \in Handlers, Cleanup(h) PROVE HoldInv'
  <2>1. /\ UNCHANGED <<handler, orders, cancel, crashes>>
        /\ task[h] = "cleanup" /\ task' = [task EXCEPT ![h] = "done"]
        /\ clients' = [clients EXCEPT ![handler[h].client].active = NoOrder]
    BY <1>3, Zenon DEF Cleanup, clear_active_workorder
  <2>2. \A g \in Handlers : Busy(g)' => Busy(g) /\ g # h
    BY <2>1 DEF Busy, SlotInv, RangeInv
  <2>3. Busy(h)
    BY <2>1, Zenon DEF Busy
  <2> SUFFICES ASSUME NEW g \in Handlers, Quiet(handler[g].client)', Busy(g)'
               PROVE  Holds(g)'
    BY Zenon DEF HoldInv
  <2>4. Quiet(handler[g].client) /\ Busy(g) /\ g # h
    BY <2>1, <2>2, Zenon DEF Quiet
  <2>5. Holds(g) /\ handler[g].client \in Clients
    BY <2>4, BusyInserted, Zenon DEF HoldInv
  <2>6. handler[g].client # handler[h].client
    BY <2>3, <2>4, <2>5, OneHolder, Zenon DEF HoldInv
  <2>7. clients'[handler[g].client] = clients[handler[g].client]
    BY <2>1, <2>5, <2>6, Zenon DEF RangeInv, Registries
  <2> QED
    BY <2>1, <2>5, <2>7, Zenon DEF Holds
<1>4. ASSUME NEW h \in Handlers,
             CancelClears(h) \/ \E cert \in scenario.cancels : Cancel(h, cert)
      PROVE  HoldInv'
  <2>1. /\ UNCHANGED <<handler, task, crashes>>
        /\ cancel'[h] # "none" /\ \A g \in Handlers \ {h} : cancel'[g] = cancel[g]
        /\ \A g \in Handlers \ {h} : orders'[g] = orders[g]
        /\ clients' = clients \/ clients' = [clients EXCEPT ![handler[h].client].active = NoOrder]
    BY <1>4, Zenon DEF CancelClears, Cancel, clear_active_workorder, RangeInv
  <2> SUFFICES ASSUME NEW g \in Handlers, Quiet(handler[g].client)', Busy(g)'
               PROVE  Holds(g)'
    BY Zenon DEF HoldInv
  <2>2. handler[g].client # handler[h].client /\ g # h
    BY <2>1, Zenon DEF Quiet
  <2>3. \A c : c # handler[h].client /\ Quiet(c)' => Quiet(c)
    BY <2>1, Zenon DEF Quiet
  <2>4. Quiet(handler[g].client) /\ Busy(g)
    BY <2>1, <2>2, <2>3, Zenon DEF Busy
  <2>5. Holds(g) /\ handler[g].client \in Clients
    BY <2>4, BusyInserted, Zenon DEF HoldInv
  <2>6. clients'[handler[g].client] = clients[handler[g].client]
    BY <2>1, <2>2, <2>5, Zenon DEF RangeInv, Registries
  <2> QED
    BY <2>1, <2>5, <2>6, Zenon DEF Holds
<1>5. CASE Restart
  <2>1. crashes' # 0
    <3>1. crashes' = crashes + 1 /\ crashes \in Nat
      BY <1>5, Zenon DEF Restart, RangeInv
    <3> QED
      BY <3>1
  <2> QED
    BY <2>1, Zenon DEF HoldInv, Quiet
<1>6. CASE SaverStep \/ SaverFails \/ UNCHANGED vars
  <2>1. UNCHANGED <<handler, orders, task, cancel, clients, crashes>>
    BY <1>6, Zenon DEF SaverStep, SaverSnapshot, SaverWrite, SaverFails, vars, orderVars
  <2> QED
    BY <2>1, Zenon DEF HoldInv, Busy, Holds, Quiet
<1> QED
  BY <1>1, <1>2, <1>3, <1>4, <1>5, <1>6, Zenon DEF Next, OrderStep

(***************************************************************************)
(* Where a configuration comes from. Until a submission is authenticated   *)
(* it has no role; afterwards its identity never changes. Every copy of    *)
(* the registry holds only what some main client of the ID registered.     *)
(***************************************************************************)
Unidentified == {"negotiate", "received"}

\* The registry, clients.json and the copies on their way to it.
Copies == {clients, disk} \cup {handler[h].snap : h \in Saving}
          \cup (IF saver.pc = "write" THEN {saver.snap} ELSE {})

SetByMain(c, config) ==
    \E g \in Handlers : /\ handler[g].role = "main"
                        /\ handler[g].client = c
                        /\ Req(g).config = config

FromMain(registry) ==
    \A c \in Clients : registry[c].config # NoConfig => SetByMain(c, registry[c].config)

OriginInv ==
    /\ \A h \in Handlers : handler[h].pc \in Unidentified => handler[h].role = Unknown
    /\ \A registry \in Copies : FromMain(registry)
    /\ \A h \in Handlers :
          handler[h].role = "follower" /\ (handler[h].pc = "insert" \/ orders[h] # "none") =>
              SetByMain(handler[h].client, Req(h).config)

\* With authentication on, a main client has the certificate of one, and who
\* cancels an order has a certificate of its client.
IdentityInv ==
    scenario.mode # "none" =>
        /\ \A h \in Handlers : handler[h].role = "main" =>
              /\ Req(h).cert \in Certs
              /\ Entries[Req(h).cert] = [client |-> handler[h].client, role |-> "main"]
        /\ \A h \in Handlers : canceller[h] # Unknown =>
              /\ handler[h].pc \notin Unidentified
              /\ canceller[h] \in Certs
              /\ Entries[canceller[h]].client = handler[h].client

\* What the steps of a submission do to its identity and to the copies.
LEMMA HandlerEffects ==
  ASSUME RangeInv, NEW h \in Handlers, HandlerStep(h) \/ SaveFails(h) \/ HangUp(h)
  PROVE  /\ UNCHANGED <<saver, canceller>>
         /\ handler[h].pc # "received" =>
               handler'[h].client = handler[h].client /\ handler'[h].role = handler[h].role
         /\ handler'[h].pc \in Unidentified => handler[h].pc = "negotiate"
         /\ handler[h].pc = "received" => Authenticate(h)
         /\ handler'[h].pc = "insert" => Admit(h)
         /\ handler'[h].pc = "write" => SnapshotClients(h) /\ handler'[h].snap = clients
         /\ handler'[h].pc = "answered" => WriteClients(h) \/ SaveFails(h)
         /\ \/ UNCHANGED disk
            \/ handler[h].pc = "write" /\ disk' = handler[h].snap
<1>1. handler[h] \in HandlerRecords /\ handler \in [Handlers -> HandlerRecords]
  BY Zenon DEF RangeInv
<1>2. CASE Negotiate(h)
  <2>1. PICK pc \in {"received", "refused"} : Goto(h, pc)
    BY <1>2, Zenon DEF Negotiate
  <2> QED
    BY <1>1, <1>2, <2>1, ZenonT(60) DEF Negotiate, Goto, orderVars, HandlerRecords, Unidentified
<1>3. CASE Authenticate(h)
  <2>1. handler'[h].pc \in {"admit", "refused"}
    BY <1>1, <1>3, Zenon DEF Authenticate, HandlerRecords
  <2>2. UNCHANGED <<saver, canceller, disk>> /\ handler[h].pc = "received"
    BY <1>3, Zenon DEF Authenticate, orderVars
  <2> QED
    BY <1>3, <2>1, <2>2, Zenon DEF Unidentified
<1>4. CASE Admit(h)
  <2>1. PICK pc \in {"insert", "refused"} : Goto(h, pc)
    BY <1>4, Zenon DEF Admit
  <2> QED
    BY <1>1, <1>4, <2>1, Zenon DEF Admit, Goto, orderVars, HandlerRecords, Unidentified
<1>5. CASE Insert(h) \/ set_active_workorder(h)
  <2>1. PICK pc \in {"activate", "snapshot"} : Goto(h, pc)
    BY <1>5, Zenon DEF Insert, set_active_workorder
  <2>2. UNCHANGED <<saver, canceller, disk>> /\ handler[h].pc \in {"insert", "activate"}
    BY <1>5, Zenon DEF Insert, set_active_workorder, orderVars
  <2> QED
    BY <1>1, <2>1, <2>2, Zenon DEF Goto, HandlerRecords, Unidentified
<1>6. CASE SnapshotClients(h)
  <2>1. handler' = [handler EXCEPT ![h] = [@ EXCEPT !.pc = "write", !.snap = clients]]
    BY <1>6, Zenon DEF SnapshotClients
  <2>2. UNCHANGED <<saver, canceller, disk>> /\ handler[h].pc = "snapshot"
    BY <1>6, Zenon DEF SnapshotClients, orderVars
  <2> QED
    BY <1>1, <1>6, <2>1, <2>2, Zenon DEF HandlerRecords, Unidentified
<1>7. CASE WriteClients(h) \/ SaveFails(h) \/ HangUp(h)
  <2>1. PICK pc \in {"answered", "dropped"} :
           handler' = [handler EXCEPT ![h] = [@ EXCEPT !.pc = pc, !.snap = <<>>]]
    BY <1>7, Zenon DEF WriteClients, SaveFails, HangUp
  <2>2. handler'[h].pc = pc /\ handler'[h].client = handler[h].client
        /\ handler'[h].role = handler[h].role
    BY <1>1, <2>1, Zenon DEF HandlerRecords
  <2>3. HangUp(h) => handler'[h].pc = "dropped"
    BY <1>1, ZenonT(60) DEF HangUp, HandlerRecords
  <2>4. UNCHANGED <<saver, canceller>> /\ handler[h].pc # "received"
    BY <1>7, Zenon DEF WriteClients, SaveFails, HangUp, orderVars
  <2>5. UNCHANGED disk \/ (handler[h].pc = "write" /\ disk' = handler[h].snap)
    BY <1>7, Zenon DEF WriteClients, SaveFails, HangUp
  <2> QED
    BY <1>7, <2>2, <2>3, <2>4, <2>5, Zenon DEF Unidentified
<1> QED
  BY <1>2, <1>3, <1>4, <1>5, <1>6, <1>7, Zenon DEF HandlerStep

\* A restart keeps every identity and drops what was being saved.
LEMMA RestartEffects ==
  ASSUME RangeInv, Restart
  PROVE  /\ UNCHANGED <<scenario, canceller, disk, stale>>
         /\ saver'.pc = "wait"
         /\ \A h \in Handlers :
               /\ handler'[h].client = handler[h].client /\ handler'[h].role = handler[h].role
               /\ \/ handler'[h] = handler[h]
                     /\ handler[h].pc \in {"negotiate", "received", "answered", "refused"}
                  \/ handler'[h].pc = "dropped"
                     /\ handler[h].pc \notin {"negotiate", "received", "answered", "refused"}
               /\ orders'[h] # "none" => orders[h] # "none"
         /\ \A c \in Clients : clients'[c].config = disk[c].config
<1>1. UNCHANGED <<scenario, canceller, disk, stale>> /\ saver'.pc = "wait"
  BY Zenon DEF Restart
<1>2. ASSUME NEW h \in Handlers
      PROVE  /\ handler'[h].client = handler[h].client /\ handler'[h].role = handler[h].role
             /\ \/ handler'[h] = handler[h]
                   /\ handler[h].pc \in {"negotiate", "received", "answered", "refused"}
                \/ handler'[h].pc = "dropped"
                   /\ handler[h].pc \notin {"negotiate", "received", "answered", "refused"}
  <2>1. handler[h] \in HandlerRecords
    BY Zenon DEF RangeInv
  <2> QED
    BY <2>1, Zenon DEF Restart, HandlerRecords
<1>3. \A h \in Handlers : orders'[h] # "none" => orders[h] # "none"
  BY Zenon DEF Restart
<1>4. \A c \in Clients : clients'[c].config = disk[c].config
  BY ZenonT(60) DEF Restart, load_clients, RangeInv, Registries
<1> QED
  BY <1>1, <1>2, <1>3, <1>4, Zenon

\* What happens to an order leaves every identity, every configuration and
\* every save alone.
LEMMA OrderEffects ==
  ASSUME RangeInv, SlotInv, NEW h \in Handlers, OrderStep(h)
  PROVE  /\ UNCHANGED <<scenario, handler, disk, saver, stale>>
         /\ \A c \in Clients : clients'[c].config = clients[c].config
         /\ \A g \in Handlers : orders'[g] # "none" => orders[g] # "none"
<1>1. UNCHANGED <<scenario, handler, disk, saver, stale>>
  BY Zenon DEF OrderStep, Claim, SetStatus, Cleanup, CancelClears, Cancel
<1>2. \A c \in Clients : clients'[c].config = clients[c].config
  <2>1. clients' = clients \/ clients' = [clients EXCEPT ![handler[h].client].active = NoOrder]
    BY Zenon DEF OrderStep, Claim, SetStatus, Cleanup, CancelClears, Cancel, clear_active_workorder
  <2>2. clients \in [Clients -> Entry]
    BY Zenon DEF RangeInv, Registries, Entry
  <2>3. CASE clients' = [clients EXCEPT ![handler[h].client].active = NoOrder]
    BY <2>2, <2>3, Zenon DEF Entry
  <2> QED
    BY <2>1, <2>3, Zenon
<1>3. \A g \in Handlers : orders'[g] # "none" => orders[g] # "none"
  <2>1. orders \in [Handlers -> {"none", "active", "ended"}]
    BY Zenon DEF RangeInv
  <2>2. orders' = orders \/ (orders[h] # "none" /\ \A g \in Handlers \ {h} : orders'[g] = orders[g])
    BY <2>1, ZenonT(60) DEF OrderStep, Claim, SetStatus, Cleanup, CancelClears, Cancel, SlotInv
  <2> QED
    BY <2>2, Zenon
<1> QED
  BY <1>1, <1>2, <1>3, Zenon

\* A registered configuration is not the empty one.
LEMMA ConfigsReal == \A config \in Configs : config # NoConfig
<1> SUFFICES ASSUME NEW config \in Configs PROVE config # NoConfig
  OBVIOUS
<1>1. config = <<config[1], config[2]>>
  BY ConfigAssumption, Zenon
<1> QED
  BY <1>1, SMT DEF NoConfig

\* The identity of a submission is settled once.
IdentityKept ==
    /\ scenario' = scenario
    /\ \A h \in Handlers : handler[h].pc \notin Unidentified =>
          /\ handler'[h].client = handler[h].client /\ handler'[h].role = handler[h].role
          /\ handler'[h].pc \notin Unidentified

LEMMA IdentityStable == RangeInv /\ SlotInv /\ [Next]_vars => IdentityKept
<1> SUFFICES ASSUME RangeInv, SlotInv, [Next]_vars PROVE IdentityKept
  OBVIOUS
<1>1. ASSUME NEW h \in Handlers, HandlerStep(h) \/ SaveFails(h) \/ HangUp(h) PROVE IdentityKept
  <2>1. UNCHANGED scenario /\ \A g \in Handlers \ {h} : handler'[g] = handler[g]
    BY <1>1, HandlerKinds, Zenon
  <2>2. /\ handler[h].pc # "received" =>
              handler'[h].client = handler[h].client /\ handler'[h].role = handler[h].role
        /\ handler'[h].pc \in Unidentified => handler[h].pc = "negotiate"
    BY <1>1, HandlerEffects, Zenon
  <2> QED
    BY <2>1, <2>2, Zenon DEF IdentityKept, Unidentified
<1>2. ASSUME NEW h \in Handlers, OrderStep(h) PROVE IdentityKept
  BY <1>2, OrderEffects, Zenon DEF IdentityKept
<1>3. CASE Restart
  BY <1>3, RestartEffects, Zenon DEF IdentityKept, Unidentified
<1>4. CASE SaverStep \/ SaverFails \/ UNCHANGED vars
  <2>1. UNCHANGED <<scenario, handler>>
    BY <1>4, Zenon DEF SaverStep, SaverSnapshot, SaverWrite, SaverFails, vars
  <2> QED
    BY <2>1, Zenon DEF IdentityKept
<1> QED
  BY <1>1, <1>2, <1>3, <1>4, Zenon DEF Next

\* So a configuration some main client registered stays one.
LEMMA SetKept ==
  ASSUME OriginInv, IdentityKept, NEW c, NEW config, SetByMain(c, config)
  PROVE  SetByMain(c, config)'
<1>1. PICK g \in Handlers : /\ handler[g].role = "main" /\ handler[g].client = c
                            /\ Req(g).config = config
  BY Zenon DEF SetByMain
<1>2. handler[g].pc \notin Unidentified
  BY <1>1, Zenon DEF OriginInv, Unknown
<1>3. handler'[g].role = "main" /\ handler'[g].client = c /\ Req(g)' = Req(g)
  BY <1>1, <1>2, Zenon DEF IdentityKept, Req
<1> QED
  BY <1>1, <1>3, Zenon DEF SetByMain

\* A save writes a copy that was taken before, and takes a copy of the registry.
LEMMA CopiesStep ==
  ASSUME RangeInv, SlotInv, [Next]_vars
  PROVE  \A registry \in Copies' : registry \in {clients, clients'} \cup Copies
<1> USE DEF Copies, Saving
<1>1. ASSUME NEW h \in Handlers, HandlerStep(h) \/ SaveFails(h) \/ HangUp(h)
      PROVE  \A registry \in Copies' : registry \in {clients, clients'} \cup Copies
  <2>1. /\ \A g \in Handlers \ {h} : handler'[g] = handler[g]
        /\ UNCHANGED saver
        /\ handler'[h].pc = "write" => handler'[h].snap = clients
        /\ UNCHANGED disk \/ (handler[h].pc = "write" /\ disk' = handler[h].snap)
    BY <1>1, HandlerKinds, HandlerEffects, Zenon
  <2>2. disk' \in Copies
    BY <2>1, Zenon
  <2>3. \A g \in Handlers : handler'[g].pc = "write" => handler'[g].snap \in {clients} \cup Copies
    BY <2>1, Zenon
  <2>4. saver'.pc = "write" => saver'.snap \in Copies
    BY <2>1, Zenon
  <2> QED
    BY <2>2, <2>3, <2>4, Zenon
<1>2. ASSUME NEW h \in Handlers, OrderStep(h)
      PROVE  \A registry \in Copies' : registry \in {clients, clients'} \cup Copies
  <2>1. UNCHANGED <<handler, disk, saver>>
    BY <1>2, OrderEffects, Zenon
  <2> QED
    BY <2>1, Zenon
<1>3. CASE Restart
  <2>1. /\ UNCHANGED disk /\ saver'.pc # "write"
        /\ \A h \in Handlers : handler'[h].pc # "write"
    BY <1>3, RestartEffects, Zenon
  <2> QED
    BY <2>1, Zenon
<1>4. CASE SaverStep \/ SaverFails \/ UNCHANGED vars
  <2>1. /\ UNCHANGED <<handler, clients>>
        /\ UNCHANGED disk \/ (saver.pc = "write" /\ disk' = saver.snap)
    BY <1>4, Zenon DEF SaverStep, SaverSnapshot, SaverWrite, SaverFails, vars
  <2>2. saver' \in {saver, [pc |-> "wait", snap |-> <<>>], [pc |-> "write", snap |-> clients]}
    BY <1>4, Zenon DEF SaverStep, SaverSnapshot, SaverWrite, SaverFails, vars
  <2>3. disk' \in Copies
    BY <2>1, Zenon
  <2>4. saver'.pc = "write" => saver'.snap \in {clients} \cup Copies
    BY <2>2, SMT
  <2> QED
    BY <2>1, <2>3, <2>4, Zenon
<1> QED
  BY <1>1, <1>2, <1>3, <1>4, Zenon DEF Next

\* Only the update of a main client, and a restart, change a configuration.
LEMMA ConfigStep ==
  ASSUME RangeInv, SlotInv, [Next]_vars, NEW c \in Clients
  PROVE  \/ clients'[c].config \in {clients[c].config, disk[c].config}
         \/ \E h \in Handlers : /\ handler[h].pc = "admit" /\ handler[h].role = "main"
                                /\ handler[h].client = c /\ clients'[c].config = Req(h).config
<1>1. ASSUME NEW h \in Handlers, HandlerStep(h) \/ SaveFails(h) \/ HangUp(h),
             ~(clients'[c].config = clients[c].config)
      PROVE  /\ handler[h].pc = "admit" /\ handler[h].role = "main"
             /\ handler[h].client = c /\ clients'[c].config = Req(h).config
  <2>1. Registers(h)
    BY <1>1, HandlerKinds, Zenon DEF Passes, Inserts, Activates
  <2>2. handler[h].role \in Roles
    BY <2>1, Zenon DEF Registers, RangeInv, Identified
  <2> QED
    BY <1>1, <2>1, <2>2, Zenon DEF Registers, Roles
<1>2. ASSUME NEW h \in Handlers, OrderStep(h) PROVE clients'[c].config = clients[c].config
  BY <1>2, OrderEffects, Zenon
<1>3. CASE Restart
  BY <1>3, RestartEffects, Zenon
<1>4. CASE SaverStep \/ SaverFails \/ UNCHANGED vars
  BY <1>4, Zenon DEF SaverStep, SaverSnapshot, SaverWrite, SaverFails, vars
<1> QED
  BY <1>1, <1>2, <1>3, <1>4, Zenon DEF Next

\* No configuration appears that no main client of the ID has sent, and a
\* follower passes update only with the one registered.
LEMMA OriginStep == RangeInv /\ SlotInv /\ OriginInv /\ [Next]_vars => OriginInv'
<1> SUFFICES ASSUME RangeInv, SlotInv, OriginInv, [Next]_vars PROVE OriginInv'
  OBVIOUS
<1>1. IdentityKept
  BY IdentityStable, Zenon
<1>2. ASSUME NEW registry \in Copies' PROVE FromMain(registry)'
  <2> SUFFICES ASSUME NEW c \in Clients, registry[c].config # NoConfig
               PROVE  SetByMain(c, registry[c].config)'
    BY Zenon DEF FromMain
  <2>1. clients \in Copies /\ disk \in Copies
    BY Zenon DEF Copies
  <2>2. CASE registry \in Copies
    BY <1>1, <2>2, SetKept, Zenon DEF OriginInv, FromMain
  <2>3. CASE registry = clients'
    <3>1. CASE clients'[c].config \in {clients[c].config, disk[c].config}
      BY <1>1, <2>1, <2>3, <3>1, SetKept, Zenon DEF OriginInv, FromMain
    <3>2. ASSUME NEW h \in Handlers, handler[h].pc = "admit", handler[h].role = "main",
                 handler[h].client = c, clients'[c].config = Req(h).config
          PROVE  SetByMain(c, registry[c].config)'
      <4>1. SetByMain(c, registry[c].config)
        BY <2>3, <3>2, Zenon DEF SetByMain
      <4> QED
        BY <1>1, <4>1, SetKept, Zenon
    <3> QED
      BY <3>1, <3>2, ConfigStep, Zenon
  <2> QED
    BY <2>1, <2>2, <2>3, CopiesStep, Zenon
<1>3. \A h \in Handlers : handler'[h].pc \in Unidentified => handler'[h].role = Unknown
  <2>1. ASSUME NEW h \in Handlers, HandlerStep(h) \/ SaveFails(h) \/ HangUp(h)
        PROVE  \A g \in Handlers : handler'[g].pc \in Unidentified => handler'[g].role = Unknown
    <3>1. \A g \in Handlers \ {h} : handler'[g] = handler[g]
      BY <2>1, HandlerKinds, Zenon
    <3>2. handler'[h].pc \in Unidentified =>
             handler[h].pc = "negotiate" /\ handler'[h].role = handler[h].role
      BY <2>1, HandlerEffects, Zenon
    <3> QED
      BY <3>1, <3>2, Zenon DEF OriginInv, Unidentified
  <2>2. ASSUME NEW h \in Handlers, OrderStep(h) PROVE UNCHANGED handler
    BY <2>2, OrderEffects, Zenon
  <2>3. CASE Restart
    BY <2>3, RestartEffects, Zenon DEF OriginInv, Unidentified
  <2>4. CASE SaverStep \/ SaverFails \/ UNCHANGED vars
    <3>1. UNCHANGED handler
      BY <2>4, Zenon DEF SaverStep, SaverSnapshot, SaverWrite, SaverFails, vars
    <3> QED
      BY <3>1, Zenon DEF OriginInv
  <2> QED
    BY <2>1, <2>2, <2>3, <2>4, Zenon DEF Next, OriginInv
<1>4. ASSUME NEW h \in Handlers, handler'[h].role = "follower",
             handler'[h].pc = "insert" \/ orders'[h] # "none"
      PROVE  SetByMain(handler[h].client, Req(h).config) /\ handler[h].pc \notin Unidentified
  <2>1. handler[h].pc = "insert" \/ orders[h] # "none" => handler[h].pc \notin Unidentified
    BY Zenon DEF SlotInv, Waiting, Unidentified
  <2>2. handler[h].pc \notin Unidentified => handler[h].role = "follower"
    BY <1>1, <1>4, Zenon DEF IdentityKept
  <2>3. CASE handler[h].pc = "insert" \/ orders[h] # "none"
    BY <2>1, <2>2, <2>3, Zenon DEF OriginInv
  <2>4. CASE ~(handler[h].pc = "insert" \/ orders[h] # "none")
    <3>1. ASSUME NEW g \in Handlers, HandlerStep(g) \/ SaveFails(g) \/ HangUp(g)
          PROVE  Registers(h)
      <4>1. \A k \in Handlers \ {g} : handler'[k] = handler[k]
        BY <3>1, HandlerKinds, Zenon
      <4>2. orders' = orders \/ orders' = [orders EXCEPT ![g] = "active"]
        BY <3>1, HandlerKinds, Zenon DEF Passes, Registers, Inserts, Activates
      <4>3. g = h
        BY <1>4, <2>4, <4>1, <4>2, Zenon DEF RangeInv
      <4> QED
        BY <1>4, <2>4, <3>1, <4>3, HandlerKinds, Zenon DEF Passes, Inserts, Activates
    <3>2. ASSUME NEW g \in Handlers, OrderStep(g) PROVE FALSE
      BY <1>4, <2>4, <3>2, OrderEffects, Zenon
    <3>3. ASSUME Restart PROVE FALSE
      BY <1>4, <2>4, <3>3, RestartEffects, Zenon
    <3>4. ASSUME SaverStep \/ SaverFails \/ UNCHANGED vars PROVE FALSE
      <4>1. UNCHANGED <<handler, orders>>
        BY <3>4, Zenon DEF SaverStep, SaverSnapshot, SaverWrite, SaverFails, vars, orderVars
      <4> QED
        BY <1>4, <2>4, <4>1, Zenon
    <3>5. Registers(h)
      BY <3>1, <3>2, <3>3, <3>4, Zenon DEF Next
    <3>6. handler[h].pc \notin Unidentified
      BY <3>5, Zenon DEF Registers, Unidentified
    <3>7. clients[handler[h].client].config = Req(h).config /\ handler[h].client \in Clients
      BY <2>2, <3>5, <3>6, Zenon DEF Registers
    <3>8. Req(h).config # NoConfig
      BY RequestTyped, ConfigsReal, Zenon
    <3>9. FromMain(clients)
      BY Zenon DEF OriginInv, Copies
    <3> QED
      BY <3>6, <3>7, <3>8, <3>9, Zenon DEF FromMain
  <2> QED
    BY <2>3, <2>4, Zenon
<1>5. ASSUME NEW h \in Handlers, handler'[h].role = "follower",
             handler'[h].pc = "insert" \/ orders'[h] # "none"
      PROVE  SetByMain(handler[h].client, Req(h).config)'
  <2>1. SetByMain(handler[h].client, Req(h).config) /\ handler[h].pc \notin Unidentified
    BY <1>4, <1>5, Zenon
  <2>2. handler'[h].client = handler[h].client /\ Req(h)' = Req(h)
    BY <1>1, <2>1, Zenon DEF IdentityKept, Req
  <2>3. SetByMain(handler[h].client, Req(h).config)' <=>
           \E g \in Handlers : /\ handler'[g].role = "main"
                               /\ handler'[g].client = handler'[h].client
                               /\ Req(g)'.config = Req(h)'.config
    BY Zenon DEF SetByMain
  <2>4. PICK g \in Handlers : /\ handler[g].role = "main"
                              /\ handler[g].client = handler[h].client
                              /\ Req(g).config = Req(h).config
    BY <2>1, Zenon DEF SetByMain
  <2>5. handler[g].pc \notin Unidentified
    BY <2>4, Zenon DEF OriginInv, Unknown
  <2>6. /\ handler'[g].role = "main" /\ handler'[g].client = handler'[h].client
        /\ Req(g)'.config = Req(h)'.config
    BY <1>1, <2>2, <2>4, <2>5, Zenon DEF IdentityKept, Req
  <2> QED
    BY <2>3, <2>6, Zenon
<1> QED
  BY <1>2, <1>3, <1>5, Zenon DEF OriginInv

\* With authentication on, only the certificate of a main client resolves to one.
LEMMA ResolveMain ==
  ASSUME NEW mode \in Modes \ {"none"}, NEW cert, NEW client, NEW role,
         resolve(mode, cert, client, role).role = "main"
  PROVE  /\ cert \in Certs
         /\ Entries[cert] = [client |-> resolve(mode, cert, client, role).client, role |-> "main"]
<1> DEFINE who == resolve(mode, cert, client, role)
<1>1. Declared(client, "follower").role # "main" /\ Refused.role # "main"
  BY Zenon DEF Declared, Refused, Unknown
<1>2. who \in {ByCertificate(cert), Refused, Declared(client, "follower")}
  BY Zenon DEF resolve, Modes
<1>3. who = ByCertificate(cert) /\ cert \in Certs
  BY <1>1, <1>2, Zenon DEF ByCertificate
<1> HIDE DEF who
<1>4. who.client = Entries[cert].client /\ who.role = Entries[cert].role
  BY <1>3, Zenon DEF ByCertificate, Declared
<1>5. Entries[cert] \in [client : Clients, role : Roles]
  BY <1>3, AdmissionAssumption, Zenon
<1>6. Entries[cert] = [client |-> Entries[cert].client, role |-> Entries[cert].role]
  BY <1>5, Zenon
<1> QED
  BY <1>3, <1>4, <1>6, Zenon DEF who

\* Authenticate takes the identity from resolve, and cancel_workorder lets only a
\* certificate of the client through.
LEMMA IdentityStep ==
  RangeInv /\ SlotInv /\ OriginInv /\ IdentityInv /\ [Next]_vars => IdentityInv'
<1> SUFFICES ASSUME RangeInv, SlotInv, OriginInv, IdentityInv, [Next]_vars,
                    scenario.mode # "none", IdentityKept
             PROVE  /\ \A h \in Handlers : handler'[h].role = "main" =>
                          /\ Req(h).cert \in Certs
                          /\ Entries[Req(h).cert] = [client |-> handler'[h].client, role |-> "main"]
                    /\ \A h \in Handlers : canceller'[h] # Unknown =>
                          /\ handler'[h].pc \notin Unidentified
                          /\ canceller'[h] \in Certs
                          /\ Entries[canceller'[h]].client = handler'[h].client
  <2>1. RangeInv /\ SlotInv /\ [Next]_vars => IdentityKept
    BY IdentityStable, Zenon
  <2>2. IdentityKept => \A h \in Handlers : Req(h)' = Req(h)
    BY Zenon DEF IdentityKept, Req
  <2> QED
    BY <2>1, <2>2, ZenonT(60) DEF IdentityInv, IdentityKept
<1>1. ASSUME NEW h \in Handlers, handler'[h].role = "main"
      PROVE  /\ Req(h).cert \in Certs
             /\ Entries[Req(h).cert] = [client |-> handler'[h].client, role |-> "main"]
  <2>1. CASE handler[h].pc \notin Unidentified
    BY <1>1, <2>1, Zenon DEF IdentityKept, IdentityInv
  <2>2. CASE handler[h].pc \in Unidentified
    <3>1. handler[h].role = Unknown /\ handler'[h].role # handler[h].role
      BY <1>1, <2>2, Zenon DEF OriginInv, Unknown
    <3>2. Authenticate(h)
      <4>1. ASSUME NEW g \in Handlers, HandlerStep(g) \/ SaveFails(g) \/ HangUp(g)
            PROVE  Authenticate(h)
        <5>1. g = h
          BY <3>1, <4>1, HandlerKinds, Zenon
        <5> QED
          BY <3>1, <4>1, <5>1, HandlerEffects, Zenon
      <4>2. ASSUME NEW g \in Handlers, OrderStep(g) PROVE FALSE
        BY <3>1, <4>2, OrderEffects, Zenon
      <4>3. ASSUME Restart PROVE FALSE
        BY <3>1, <4>3, RestartEffects, Zenon
      <4>4. ASSUME SaverStep \/ SaverFails \/ UNCHANGED vars PROVE FALSE
        BY <3>1, <4>4, Zenon DEF SaverStep, SaverSnapshot, SaverWrite, SaverFails, vars
      <4> QED
        BY <4>1, <4>2, <4>3, <4>4, Zenon DEF Next
    <3> DEFINE r == Req(h)
               who == resolve(scenario.mode, r.cert, r.client, r.role)
    <3>3. handler[h] \in HandlerRecords /\ handler \in [Handlers -> HandlerRecords]
      BY Zenon DEF RangeInv
    <3>4. handler'[h].client = who.client /\ handler'[h].role = who.role
      BY <3>2, <3>3, Zenon DEF Authenticate, HandlerRecords
    <3>5. scenario.mode \in Modes \ {"none"}
      BY AdmissionAssumption, Zenon DEF RangeInv
    <3> HIDE DEF r
    <3>6. r.cert \in Certs /\ Entries[r.cert] = [client |-> who.client, role |-> "main"]
      BY <1>1, <3>4, <3>5, ResolveMain, SMT
    <3> QED
      BY <3>4, <3>6, Zenon DEF r
  <2> QED
    BY <2>1, <2>2, Zenon
<1>2. ASSUME NEW h \in Handlers, canceller'[h] # Unknown
      PROVE  /\ handler[h].pc \notin Unidentified
             /\ canceller'[h] \in Certs
             /\ Entries[canceller'[h]].client = handler[h].client
  <2>1. CASE canceller'[h] = canceller[h]
    BY <1>2, <2>1, Zenon DEF IdentityInv
  <2>2. ASSUME NEW cert, Cancel(h, cert), canceller'[h] = cert
        PROVE  /\ handler[h].pc \notin Unidentified
               /\ canceller'[h] \in Certs
               /\ Entries[canceller'[h]].client = handler[h].client
    <3>1. orders[h] # "none" /\ resolve_header_only(cert) = handler[h].client
      BY <2>2, Zenon DEF Cancel, MayCancel
    <3>2. handler[h].client \in Clients /\ handler[h].pc \notin Unidentified
      BY <3>1, Zenon DEF SlotInv, Waiting, Unidentified
    <3>3. resolve_header_only(cert) # Unknown
      BY <3>1, <3>2, NameAssumption, Zenon
    <3> QED
      BY <2>2, <3>1, <3>2, <3>3, Zenon DEF resolve_header_only
  <2>3. canceller'[h] = canceller[h] \/ \E cert : Cancel(h, cert) /\ canceller'[h] = cert
    <3>1. ASSUME NEW g \in Handlers, HandlerStep(g) \/ SaveFails(g) \/ HangUp(g)
          PROVE  UNCHANGED canceller
      BY <3>1, HandlerEffects, Zenon
    <3>2. ASSUME NEW g \in Handlers, OrderStep(g)
          PROVE  canceller'[h] = canceller[h] \/ \E cert : Cancel(h, cert) /\ canceller'[h] = cert
      <4>1. UNCHANGED canceller \/ \E cert : Cancel(g, cert)
        BY <3>2, Zenon DEF OrderStep, Claim, SetStatus, Cleanup, CancelClears
      <4>2. ASSUME NEW cert, Cancel(g, cert)
            PROVE  canceller'[h] = canceller[h] \/ (g = h /\ canceller'[h] = cert)
        BY <4>2, Zenon DEF Cancel, RangeInv
      <4> QED
        BY <4>1, <4>2, Zenon
    <3>3. ASSUME Restart PROVE UNCHANGED canceller
      BY <3>3, Zenon DEF Restart
    <3>4. ASSUME SaverStep \/ SaverFails \/ UNCHANGED vars PROVE UNCHANGED canceller
      BY <3>4, Zenon DEF SaverStep, SaverSnapshot, SaverWrite, SaverFails, vars, orderVars
    <3> QED
      BY <3>1, <3>2, <3>3, <3>4, Zenon DEF Next
  <2> QED
    BY <2>1, <2>2, <2>3, Zenon
<1> QED
  BY <1>1, <1>2, Zenon DEF IdentityKept

(***************************************************************************)
(* What outlives the process. As long as no save failed and no two saves   *)
(* overlapped, at most one copy is on its way to clients.json, and it has  *)
(* every client whose submission was answered.                             *)
(***************************************************************************)
Updating == {"insert", "activate", "snapshot", "write", "answered"}
Known(registry, h) == registry[handler[h].client].config # NoConfig

KnownInv ==
    ~stale =>
        /\ \A h \in Handlers : handler[h].pc \in Updating =>
              handler[h].client \in Clients /\ Known(clients, h)
        /\ \A h \in Handlers : handler[h].pc = "answered" => Known(disk, h)
        /\ \A g \in Handlers : handler[g].pc = "write" =>
              /\ saver.pc # "write" /\ Known(handler[g].snap, g)
              /\ \A h \in Handlers : /\ handler[h].pc = "write" => h = g
                                     /\ handler[h].pc = "answered" => Known(handler[g].snap, h)
        /\ saver.pc = "write" =>
              \A h \in Handlers : handler[h].pc = "answered" => Known(saver.snap, h)

\* The steps of a submission: it is known to the registry once it passes update,
\* and its copy of the registry, taken later, has it too.
LEMMA KnownHandler ==
  ASSUME RangeInv, SlotInv, KnownInv, NEW h \in Handlers,
         HandlerStep(h) \/ SaveFails(h) \/ HangUp(h)
  PROVE  KnownInv'
<1> SUFFICES ASSUME ~stale' PROVE KnownInv'
  BY Zenon DEF KnownInv
<1>1. ~stale
  BY Zenon DEF HandlerStep, Negotiate, Authenticate, Admit, Insert, set_active_workorder,
     SnapshotClients, WriteClients, SaveFails, HangUp
<1>2. /\ \A g \in Handlers \ {h} : handler'[g] = handler[g]
      /\ UNCHANGED saver
      /\ handler[h].pc # "received" => handler'[h].client = handler[h].client
      /\ handler'[h].pc = "write" => SnapshotClients(h) /\ handler'[h].snap = clients
      /\ handler'[h].pc = "answered" => WriteClients(h) \/ SaveFails(h)
      /\ UNCHANGED disk \/ (handler[h].pc = "write" /\ disk' = handler[h].snap)
  BY HandlerKinds, HandlerEffects, Zenon
<1>3. handler'[h].pc \in Updating => handler[h].pc \in Updating \/ Registers(h)
  BY HandlerKinds, Zenon DEF Passes, Inserts, Activates, Updating
<1>4. \A c \in Clients : clients[c].config # NoConfig => clients'[c].config # NoConfig
  <2>1. \A c \in Clients : clients'[c].config = clients[c].config
                           \/ clients'[c].config = Req(h).config
    BY HandlerKinds, Zenon DEF Passes, Registers, Inserts, Activates
  <2> QED
    BY <2>1, RequestTyped, ConfigsReal, Zenon
<1>5. Registers(h) => /\ handler[h].client \in Clients
                      /\ clients'[handler[h].client].config # NoConfig
  BY RequestTyped, ConfigsReal, Zenon DEF Registers
<1>6. handler[h].pc \in Updating \/ Registers(h) => handler'[h].client = handler[h].client
  BY <1>2, Zenon DEF Registers, Updating
<1>7. \A g \in Handlers : handler'[g].pc \in Updating =>
         handler'[g].client \in Clients /\ Known(clients, g)'
  BY <1>1, <1>2, <1>3, <1>4, <1>5, <1>6, ZenonT(60) DEF KnownInv, Known
<1>8. handler'[h].pc = "answered" => handler[h].pc = "write" /\ disk' = handler[h].snap
  <2>1. ~SaveFails(h)
    BY Zenon DEF SaveFails
  <2> QED
    BY <1>2, <2>1, Zenon DEF WriteClients
<1>9. handler'[h].pc = "write" => /\ handler[h].pc = "snapshot" /\ saver.pc # "write"
                                  /\ \A g \in Handlers : handler[g].pc # "write"
  <2>1. SnapshotClients(h) => handler[h].pc = "snapshot" /\ Saving = {} /\ saver.pc # "write"
    BY Zenon DEF SnapshotClients
  <2> QED
    BY <1>2, <2>1, Zenon DEF Saving
<1>10. \A g \in Handlers : handler'[g].pc = "answered" => Known(disk, g)'
  <2> SUFFICES ASSUME NEW g \in Handlers, handler'[g].pc = "answered" PROVE Known(disk, g)'
    OBVIOUS
  <2>1. CASE g = h
    BY <1>1, <1>6, <1>8, <2>1, Zenon DEF KnownInv, Known, Updating
  <2>2. CASE g # h
    BY <1>1, <1>2, <2>2, ZenonT(60) DEF KnownInv, Known
  <2> QED
    BY <2>1, <2>2, Zenon
<1>11. ASSUME NEW g \in Handlers, handler'[g].pc = "write"
       PROVE  /\ saver'.pc # "write" /\ Known(handler[g].snap, g)'
              /\ \A k \in Handlers : /\ handler'[k].pc = "write" => k = g
                                     /\ handler'[k].pc = "answered" => Known(handler[g].snap, k)'
  <2>1. CASE g = h
    <3>1. /\ handler'[h].snap = clients /\ handler'[h].client = handler[h].client
          /\ handler[h].pc = "snapshot" /\ saver'.pc # "write"
          /\ \A k \in Handlers : handler[k].pc # "write"
      BY <1>2, <1>9, <1>11, <2>1, Zenon
    <3>2. Known(clients, h)
      BY <1>1, <3>1, Zenon DEF KnownInv, Updating
    <3>3. \A k \in Handlers : handler'[k].pc = "answered" =>
             Known(clients, k) /\ handler'[k] = handler[k]
      BY <1>1, <1>2, <1>11, <2>1, Zenon DEF KnownInv, Updating
    <3> QED
      BY <1>2, <2>1, <3>1, <3>2, <3>3, Zenon DEF Known
  <2>2. CASE g # h
    <3>1. /\ handler'[g] = handler[g] /\ handler[g].pc = "write"
          /\ handler[h].pc # "write" /\ handler'[h].pc # "write" /\ handler'[h].pc # "answered"
      BY <1>1, <1>2, <1>8, <1>9, <1>11, <2>2, Zenon DEF KnownInv
    <3> QED
      BY <1>1, <1>2, <3>1, ZenonT(60) DEF KnownInv, Known
  <2> QED
    BY <2>1, <2>2, Zenon
<1>12. ASSUME saver'.pc = "write", NEW g \in Handlers, handler'[g].pc = "answered"
       PROVE  Known(saver.snap, g)'
  <2>1. g # h
    BY <1>1, <1>2, <1>8, <1>12, Zenon DEF KnownInv
  <2> QED
    BY <1>1, <1>2, <1>12, <2>1, Zenon DEF KnownInv, Known
<1> QED
  BY <1>7, <1>10, <1>11, <1>12, Zenon DEF KnownInv

\* The periodic save overlaps no other one, and a restart loads a clients.json
\* that has every client it must have.
LEMMA KnownStep == RangeInv /\ SlotInv /\ KnownInv /\ [Next]_vars => KnownInv'
<1> SUFFICES ASSUME RangeInv, SlotInv, KnownInv, [Next]_vars PROVE KnownInv'
  OBVIOUS
<1>1. ASSUME NEW h \in Handlers, OrderStep(h) PROVE KnownInv'
  <2>1. /\ UNCHANGED <<handler, disk, saver, stale>>
        /\ \A c \in Clients : clients'[c].config = clients[c].config
    BY <1>1, OrderEffects, Zenon
  <2> QED
    BY <2>1, Zenon DEF KnownInv, Known
<1>2. CASE SaverSnapshot
  <2>1. /\ UNCHANGED <<handler, clients, disk>> /\ saver'.snap = clients
        /\ stale' = (stale \/ Saving # {})
    BY <1>2, SMT DEF SaverSnapshot
  <2>2. ~stale' => ~stale /\ \A g \in Handlers : handler[g].pc # "write"
    BY <2>1, Zenon DEF Saving
  <2> QED
    BY <2>1, <2>2, Zenon DEF KnownInv, Known, Updating
<1>3. CASE SaverWrite
  <2>1. /\ UNCHANGED <<handler, clients, stale>> /\ saver'.pc # "write"
        /\ saver.pc = "write" /\ disk' = saver.snap
    BY <1>3, SMT DEF SaverWrite
  <2> QED
    BY <2>1, Zenon DEF KnownInv, Known
<1>4. CASE SaverFails
  <2>1. UNCHANGED <<handler, clients, disk, stale>> /\ saver'.pc # "write"
    BY <1>4, SMT DEF SaverFails
  <2> QED
    BY <2>1, Zenon DEF KnownInv, Known
<1>5. CASE Restart
  <2>1. /\ UNCHANGED <<disk, stale>> /\ saver'.pc # "write"
        /\ \A c \in Clients : clients'[c].config = disk[c].config
        /\ \A h \in Handlers : handler'[h].pc \in Updating =>
              handler[h].pc = "answered" /\ handler'[h] = handler[h]
    BY <1>5, RestartEffects, Zenon DEF Updating
  <2>2. \A h \in Handlers : handler'[h].pc # "write"
    BY <2>1, Zenon DEF Updating
  <2>3. \A h \in Handlers : handler'[h].pc = "answered" => handler'[h] = handler[h]
    BY <2>1, Zenon DEF Updating
  <2>4. ~stale => \A h \in Handlers : handler[h].pc = "answered" =>
                     handler[h].client \in Clients /\ Known(disk, h)
    BY Zenon DEF KnownInv, Updating
  <2> QED
    BY <2>1, <2>2, <2>3, <2>4, Zenon DEF KnownInv, Known
<1>6. CASE UNCHANGED vars
  BY <1>6, Zenon DEF vars, KnownInv, Known
<1> QED
  BY <1>1, <1>2, <1>3, <1>4, <1>5, <1>6, KnownHandler, Zenon DEF Next, SaverStep

(***************************************************************************)
(* The theorems.                                                           *)
(***************************************************************************)
IInv == RangeInv /\ SlotInv /\ HoldInv /\ OriginInv /\ IdentityInv /\ KnownInv

\* The inductive invariant of the registry holds in every reachable state.
THEOREM RegistryInvariance == Spec => []IInv
<1>1. Init => IInv
  <2>1. Init => HoldInv
    BY Zenon DEF Init, HoldInv, Busy
  <2>2. ASSUME Init PROVE OriginInv /\ IdentityInv /\ KnownInv
    <3>1. \A h \in Handlers : /\ handler[h].pc \in {"refused", "negotiate", "received"}
                              /\ handler[h].role = Unknown
                              /\ orders[h] = "none" /\ canceller[h] = Unknown
      BY <2>2, Zenon DEF Init
    <3>2. clients = [c \in Clients |-> NoClient] /\ disk = clients /\ saver.pc = "wait"
      BY <2>2, Zenon DEF Init
    <3>3. \A registry \in Copies : registry = clients
      BY <3>1, <3>2, Zenon DEF Copies, Saving
    <3>4. \A c \in Clients : clients[c].config = NoConfig
      BY <3>2, Zenon DEF NoClient
    <3>5. OriginInv
      BY <3>1, <3>3, <3>4, Zenon DEF OriginInv, FromMain, Unknown
    <3>6. IdentityInv
      BY <3>1, Zenon DEF IdentityInv, Unknown
    <3>7. KnownInv
      BY <3>1, <3>2, Zenon DEF KnownInv, Updating
    <3> QED
      BY <3>5, <3>6, <3>7, Zenon
  <2> QED
    BY <2>1, <2>2, RangeInit, SlotInit, Zenon DEF IInv
<1>2. IInv /\ [Next]_vars => IInv'
  BY RangeStep, SlotStep, HoldStep, OriginStep, IdentityStep, KnownStep, Zenon DEF IInv
<1> QED
  BY <1>1, <1>2, PTL DEF Spec

\* The order in the slot of a client ID was admitted with the configuration
\* the registry has for the ID: no submission comes between
\* ClientRegistry::update and set_active_workorder of another.
THEOREM SlotConfigHolds == Spec => []SlotConfig
<1>1. IInv => SlotConfig
  BY Zenon DEF IInv, SlotInv
<1> QED
  BY <1>1, RegistryInvariance, PTL

\* Until the server restarts, the configuration of a client that has cancelled
\* nothing and lost no request stays what its order in flight was admitted
\* with, whoever else submits for the same ID.
THEOREM ConfigKeptForBuildHolds == Spec => []ConfigKeptForBuild
<1>1. IInv => ConfigKeptForBuild
  <2> SUFFICES ASSUME IInv, NEW h \in Handlers, orders[h] = "active", Quiet(handler[h].client)
               PROVE  clients[handler[h].client].config = Req(h).config
    BY Zenon DEF ConfigKeptForBuild
  <2>1. Busy(h) /\ Holds(h)
    BY Zenon DEF IInv, HoldInv, Busy
  <2>2. handler[h].client \in Clients
    BY <2>1, BusyInserted, Zenon DEF IInv
  <2>3. h # NoOrder
    BY NameAssumption, Zenon
  <2> QED
    BY <2>1, <2>2, <2>3 DEF IInv, SlotInv, SlotConfig, Holds, Locked
<1> QED
  BY <1>1, RegistryInvariance, PTL

\* A follower's order is built with a configuration that a main client of the
\* same ID submitted: ClientRegistry::update compares it with what is
\* registered, and no save, restart or lost connection puts anything else there.
THEOREM FollowerFollowsHolds == Spec => []FollowerFollows
<1>1. IInv => FollowerFollows
  BY Zenon DEF IInv, OriginInv, SetByMain, FollowerFollows
<1> QED
  BY <1>1, RegistryInvariance, PTL

\* With authentication on, what is registered for a client ID was sent with the
\* certificate of a main client of that ID, whatever client and role the body
\* declares, and an order is cancelled only with a certificate of its client.
THEOREM IdentityHonouredHolds == Spec => []IdentityHonoured
<1>1. IInv => IdentityHonoured
  <2> SUFFICES ASSUME IInv, scenario.mode # "none" PROVE
          /\ \A c \in Clients : Registered(c) =>
              \E h \in Handlers : /\ Req(h).config = clients[c].config
                                  /\ Req(h).cert \in Certs
                                  /\ Entries[Req(h).cert] = [client |-> c, role |-> "main"]
          /\ \A h \in Handlers : canceller[h] # Unknown =>
              canceller[h] \in Certs /\ Entries[canceller[h]].client = handler[h].client
    BY Zenon DEF IdentityHonoured
  <2>1. \A c \in Clients : Registered(c) => SetByMain(c, clients[c].config)
    BY Zenon DEF IInv, OriginInv, FromMain, Copies, Registered
  <2>2. \A h \in Handlers : handler[h].role = "main" =>
           /\ Req(h).cert \in Certs
           /\ Entries[Req(h).cert] = [client |-> handler[h].client, role |-> "main"]
    BY Zenon DEF IInv, IdentityInv
  <2>3. \A h \in Handlers : canceller[h] # Unknown =>
           canceller[h] \in Certs /\ Entries[canceller[h]].client = handler[h].client
    BY Zenon DEF IInv, IdentityInv
  <2>4. ASSUME NEW c \in Clients, Registered(c)
        PROVE  \E h \in Handlers : /\ Req(h).config = clients[c].config
                                   /\ Req(h).cert \in Certs
                                   /\ Entries[Req(h).cert] = [client |-> c, role |-> "main"]
    <3>1. PICK h \in Handlers : /\ handler[h].role = "main" /\ handler[h].client = c
                               /\ Req(h).config = clients[c].config
      BY <2>1, <2>4, Zenon DEF SetByMain
    <3> QED
      BY <2>2, <3>1, Zenon
  <2> QED
    BY <2>3, <2>4, Zenon
<1> QED
  BY <1>1, RegistryInvariance, PTL

\* The client of an answered submission is in the registry and in clients.json,
\* and a restart finds it there, as long as no save of the registry failed and
\* no two of them overlapped.
THEOREM AnsweredStaysKnownHolds == Spec => []AnsweredStaysKnown
<1>1. IInv => AnsweredStaysKnown
  BY Zenon DEF IInv, KnownInv, Known, Updating, AnsweredStaysKnown, Registered
<1> QED
  BY <1>1, RegistryInvariance, PTL

=============================================================================
