----------------------------- MODULE Admission -----------------------------
(***************************************************************************)
(* How the server admits workorders: who a request speaks for              *)
(* (CertRegistry), which configuration a client ID has and who may change  *)
(* it (ClientRegistry), how many orders may be active, and how the         *)
(* registry outlives the process (clients.json).  What becomes of an order *)
(* once it is admitted is modelled in Workorders; here it is active or     *)
(* not, its task and its cancellation clear the client's slot, and a       *)
(* restart brings the saved ones back.                                     *)
(*                                                                         *)
(* A configuration is a pair: what stands for the portage configuration    *)
(* and what stands for the system identity.  Equal values have equal       *)
(* hashes.  A fingerprint is a model value, in its normal form.            *)
(*                                                                         *)
(* A definition whose name ends in _<what> is a faulty variant of the one  *)
(* it precedes; no specification here uses it.                             *)
(***************************************************************************)
EXTENDS Integers, FiniteSets

CONSTANTS
    Handlers,   \* submissions, each with the handler that serves it
    Clients,    \* client IDs
    Configs,    \* pairs of portage configuration and system identity
    Entries,    \* registered fingerprint -> client ID and role
    Scenarios   \* auth mode, requests and bounds, taken together

Modes == {"none", "mtls", "mixed"}
Roles == {"main", "follower"}
NoCert == "no certificate"
Unknown == "unknown"
NoConfig == <<>>       \* the configuration of a client ID the registry has not seen
NoOrder == "no order"

Certs == DOMAIN Entries
Requests == [client : Clients, role : Roles, cert : Certs \cup {NoCert, "unregistered"},
             config : Configs, snapshots : BOOLEAN, valid : BOOLEAN]

ASSUME ConfigAssumption == \A config \in Configs : config = <<config[1], config[2]>>
ASSUME NameAssumption == NoOrder \notin Handlers /\ Unknown \notin Clients
ASSUME AdmissionAssumption ==
    /\ \A cert \in Certs : Entries[cert] \in [client : Clients, role : Roles]
    /\ \A s \in Scenarios :
        /\ s.mode \in Modes
        /\ s.request \in [Handlers -> Requests]
        /\ s.who \subseteq Handlers /\ s.cancels \subseteq Certs \cup {NoCert}
        /\ {s.limit, s.crashes, s.faults} \subseteq Nat

VARIABLES
    scenario,  \* the scenario of this behaviour
    handler,   \* where the handler of each submission is
    orders,    \* submission -> its workorder: none, active or ended
    task,      \* submission -> the build task of its workorder
    canceller, \* submission -> the certificate that cancels its order
    cancel,    \* submission -> where the DELETE handler of its order is
    clients,   \* the registry: client ID -> configuration and active order
    disk,      \* what clients.json holds
    saver,     \* the periodic save of the registry
    crashes,   \* crashes so far
    faults,    \* failed writes and lost connections so far
    stale      \* history: a save of the registry failed, or two of them overlapped

orderVars == <<orders, task, canceller, cancel>>
vars == <<scenario, handler, orderVars, clients, disk, saver, crashes, faults, stale>>

Req(h) == scenario.request[h]
NoClient == [config |-> NoConfig, active |-> NoOrder]
Registered(c) == clients[c].config # NoConfig

Init ==
    /\ scenario \in Scenarios
    /\ handler = [h \in Handlers |-> [pc |-> CASE h \notin scenario.who -> "refused"
                                               [] Req(h).snapshots -> "negotiate"
                                               [] OTHER -> "received",
                                      client |-> Unknown, role |-> Unknown, snap |-> <<>>]]
    /\ orders = [h \in Handlers |-> "none"]
    /\ clients = [c \in Clients |-> NoClient]
    /\ disk = clients
    /\ saver = [pc |-> "wait", snap |-> <<>>]
    /\ task = [h \in Handlers |-> "none"]
    /\ canceller = [h \in Handlers |-> Unknown]
    /\ cancel = [h \in Handlers |-> "none"]
    /\ crashes = 0
    /\ faults = 0
    /\ stale = FALSE

-----------------------------------------------------------------------------
(* Who a request speaks for.                                               *)

\* The identity of the certificate alone.
resolve_header_only(cert) == IF cert \in Certs THEN Entries[cert].client ELSE Unknown

Refused == [ok |-> FALSE, client |-> Unknown, role |-> Unknown]
Declared(client, role) == [ok |-> TRUE, client |-> client, role |-> role]
ByCertificate(cert) ==
    IF cert \in Certs THEN Declared(Entries[cert].client, Entries[cert].role) ELSE Refused

resolve_trustsBody(mode, cert, client, role) ==
    CASE mode = "none" -> Declared(client, role)
      [] mode = "mtls" -> ByCertificate(cert)
      [] mode = "mixed" /\ cert # NoCert -> ByCertificate(cert)
      [] mode = "mixed" /\ cert = NoCert -> Declared(client, role)

resolve(mode, cert, client, role) ==
    CASE mode = "none" -> Declared(client, role)
      [] mode = "mtls" -> ByCertificate(cert)
      [] mode = "mixed" /\ cert # NoCert -> ByCertificate(cert)
      [] mode = "mixed" /\ cert = NoCert ->
            IF role = "main" THEN Refused ELSE Declared(client, "follower")

require_snapshot_auth(cert) == scenario.mode # "none" => resolve_header_only(cert) # Unknown

Goto(h, pc) == handler' = [handler EXCEPT ![h].pc = pc]

\* A CLI with snapshots asks for missing blobs first.
Negotiate(h) ==
    /\ handler[h].pc = "negotiate"
    /\ Goto(h, IF require_snapshot_auth(Req(h).cert) THEN "received" ELSE "refused")
    /\ UNCHANGED <<scenario, orderVars, clients, disk, saver, crashes, faults, stale>>

\* Atoms, identity and snapshots are checked before the lock is taken.
Authenticate(h) ==
    LET r == Req(h)
        who == resolve(scenario.mode, r.cert, r.client, r.role)
    IN /\ handler[h].pc = "received"
       /\ handler' = [handler EXCEPT ![h] =
              [@ EXCEPT !.pc = IF r.valid /\ who.ok THEN "admit" ELSE "refused",
                        !.client = who.client, !.role = who.role]]
       /\ UNCHANGED <<scenario, orderVars, clients, disk, saver, crashes, faults, stale>>

-----------------------------------------------------------------------------
(* The registry.                                                           *)

\* A configuration differs if either of its hashes does.
Changed_systemIgnored(old, new) == old[1] # new[1]
Changed(old, new) == old[1] # new[1] \/ old[2] # new[2]

ActiveWorkorder_unchecked(c) == FALSE
ActiveWorkorder(c) == clients[c].active # NoOrder

\* ClientRegistry::update refuses a client with an active order, and a follower
\* that has nothing to follow or another configuration.
UpdateRefuses(c, role, config) ==
    \/ ActiveWorkorder(c)
    \/ role = "follower" /\ (Registered(c) => Changed(clients[c].config, config))

\* A main client sets the configuration.
Updated(c, role, config) ==
    IF role = "main" THEN [clients EXCEPT ![c].config = config] ELSE clients

AtCapacity ==
    /\ scenario.limit > 0
    /\ Cardinality({h \in Handlers : orders[h] = "active"}) >= scenario.limit

SubmissionLockFree_shortScope == TRUE

SubmissionLockFree == \A h \in Handlers : handler[h].pc \notin {"insert", "activate"}

\* With submission_lock taken, the capacity is checked and the registry updated.
Admit(h) ==
    LET who == handler[h] IN
    /\ who.pc = "admit"
    /\ SubmissionLockFree
    /\ IF AtCapacity \/ UpdateRefuses(who.client, who.role, Req(h).config)
       THEN Goto(h, "refused") /\ clients' = clients
       ELSE Goto(h, "insert") /\ clients' = Updated(who.client, who.role, Req(h).config)
    /\ UNCHANGED <<scenario, orderVars, disk, saver, crashes, faults, stale>>

\* Still under the lock, the order is put in the map ...
Insert(h) ==
    /\ handler[h].pc = "insert"
    /\ Goto(h, "activate")
    /\ orders' = [orders EXCEPT ![h] = "active"]
    /\ UNCHANGED <<scenario, task, canceller, cancel, clients, disk, saver, crashes, faults, stale>>

\* ... and then in the slot of its client.
set_active_workorder(h) ==
    /\ handler[h].pc = "activate"
    /\ Goto(h, "snapshot")
    /\ clients' = [clients EXCEPT ![handler[h].client].active = h]
    /\ UNCHANGED <<scenario, orderVars, disk, saver, crashes, faults, stale>>

-----------------------------------------------------------------------------
(* What is written to disk.                                                *)

\* Saves of the registry that have their copy of it and have yet to write it.
Saving == {h \in Handlers : handler[h].pc = "write"}

SnapshotClients(h) ==
    /\ handler[h].pc = "snapshot"
    /\ handler' = [handler EXCEPT ![h] = [@ EXCEPT !.pc = "write", !.snap = clients]]
    /\ stale' = (stale \/ Saving # {} \/ saver.pc = "write")
    /\ UNCHANGED <<scenario, orderVars, clients, disk, saver, crashes, faults>>

WriteClients_never(h) ==
    /\ handler[h].pc = "write"
    /\ handler' = [handler EXCEPT ![h] = [@ EXCEPT !.pc = "answered", !.snap = <<>>]]
    /\ UNCHANGED <<scenario, orderVars, clients, disk, saver, crashes, faults, stale>>

\* save_clients, and the submission is answered.
WriteClients(h) ==
    /\ handler[h].pc = "write"
    /\ disk' = handler[h].snap
    /\ handler' = [handler EXCEPT ![h] = [@ EXCEPT !.pc = "answered", !.snap = <<>>]]
    /\ UNCHANGED <<scenario, orderVars, clients, saver, crashes, faults, stale>>

\* A write that fails is only logged.
Fault == faults < scenario.faults /\ faults' = faults + 1

SaveFails(h) ==
    /\ handler[h].pc = "write"
    /\ Fault
    /\ handler' = [handler EXCEPT ![h] = [@ EXCEPT !.pc = "answered", !.snap = <<>>]]
    /\ stale' = TRUE
    /\ UNCHANGED <<scenario, orderVars, clients, disk, saver, crashes>>

\* The client hangs up and the handler is dropped at an await.
HangUp(h) ==
    /\ handler[h].pc \in {"admit", "insert", "activate", "snapshot", "write"}
    /\ Fault
    /\ handler' = [handler EXCEPT ![h] = [@ EXCEPT !.pc = "dropped", !.snap = <<>>]]
    /\ UNCHANGED <<scenario, orderVars, clients, disk, saver, crashes, stale>>

\* run_periodic_save, of the registry.
SaverSnapshot ==
    /\ saver.pc = "wait"
    /\ saver' = [pc |-> "write", snap |-> clients]
    /\ stale' = (stale \/ Saving # {})
    /\ UNCHANGED <<scenario, handler, orderVars, clients, disk, crashes, faults>>

SaverWrite ==
    /\ saver.pc = "write"
    /\ disk' = saver.snap
    /\ saver' = [pc |-> "wait", snap |-> <<>>]
    /\ UNCHANGED <<scenario, handler, orderVars, clients, crashes, faults, stale>>

SaverFails ==
    /\ saver.pc = "write"
    /\ Fault
    /\ saver' = [pc |-> "wait", snap |-> <<>>]
    /\ UNCHANGED <<scenario, handler, orderVars, clients, disk, crashes, stale>>

-----------------------------------------------------------------------------
(* The end of an order, and of the server.                                 *)

clear_active_workorder(c) == clients' = [clients EXCEPT ![c].active = NoOrder]

\* The queue hands the order to a task ...
Claim(h) ==
    /\ orders[h] = "active" /\ task[h] = "none"
    /\ task' = [task EXCEPT ![h] = "runs"]
    /\ UNCHANGED <<scenario, handler, orders, canceller, cancel, clients, disk, saver, crashes, faults, stale>>

\* ... which sets the status, also of an order cancelled meanwhile: it is being
\* built, or it is completed or failed ...
SetStatus(h) ==
    /\ task[h] = "runs"
    /\ \/ orders' = [orders EXCEPT ![h] = "active"] /\ task' = task
       \/ /\ orders' = [orders EXCEPT ![h] = "ended"]
          /\ task' = [task EXCEPT ![h] = "cleanup"]
    /\ UNCHANGED <<scenario, handler, canceller, cancel, clients, disk, saver, crashes, faults, stale>>

\* ... and clears the slot of the client, whichever order is in it.
Cleanup(h) ==
    /\ task[h] = "cleanup"
    /\ task' = [task EXCEPT ![h] = "done"]
    /\ clear_active_workorder(handler[h].client)
    /\ UNCHANGED <<scenario, handler, orders, canceller, cancel, disk, saver, crashes, faults, stale>>

\* cancel_workorder: with authentication on, only by a certificate of the client
\* whose order it is.
MayCancel_anyCert(h, cert) == scenario.mode # "none" => cert \in Certs
MayCancel(h, cert) == scenario.mode # "none" => resolve_header_only(cert) = handler[h].client

Cancel(h, cert) ==
    /\ orders[h] = "active" /\ cancel[h] = "none"
    /\ MayCancel(h, cert)
    /\ orders' = [orders EXCEPT ![h] = "ended"]
    /\ canceller' = [canceller EXCEPT ![h] = cert]
    /\ cancel' = [cancel EXCEPT ![h] = "clear"]
    /\ UNCHANGED <<scenario, handler, task, clients, disk, saver, crashes, faults, stale>>

CancelClears(h) ==
    /\ cancel[h] = "clear"
    /\ cancel' = [cancel EXCEPT ![h] = "done"]
    /\ clear_active_workorder(handler[h].client)
    /\ UNCHANGED <<scenario, handler, orders, task, canceller, disk, saver, crashes, faults, stale>>

load_clients(saved) == [c \in Clients |-> [saved[c] EXCEPT !.active = NoOrder]]

\* The server goes down and comes back with what it saved.  Which orders it finds
\* in workorders.json is a matter of Workorders: those it finds are pending again
\* or ended, and none has a slot.
Restart ==
    /\ crashes < scenario.crashes
    /\ crashes' = crashes + 1
    /\ clients' = load_clients(disk)
    /\ \E found \in SUBSET {h \in Handlers : orders[h] # "none"} : \E again \in SUBSET found :
        orders' = [h \in Handlers |-> IF h \notin found THEN "none"
                                     ELSE IF h \in again THEN "active" ELSE orders[h]]
    /\ handler' = [h \in Handlers |->
           IF handler[h].pc \in {"negotiate", "received", "answered", "refused"} THEN handler[h]
           ELSE [handler[h] EXCEPT !.pc = "dropped", !.snap = <<>>]]
    /\ saver' = [pc |-> "wait", snap |-> <<>>]
    /\ task' = [h \in Handlers |-> "none"]
    /\ cancel' = [h \in Handlers |-> IF cancel[h] = "clear" THEN "done" ELSE cancel[h]]
    /\ UNCHANGED <<scenario, canceller, disk, faults, stale>>

HandlerStep(h) ==
    \/ Negotiate(h) \/ Authenticate(h) \/ Admit(h) \/ Insert(h) \/ set_active_workorder(h)
    \/ SnapshotClients(h) \/ WriteClients(h)
OrderStep(h) ==
    \/ Claim(h) \/ SetStatus(h) \/ Cleanup(h) \/ CancelClears(h)
    \/ \E cert \in scenario.cancels : Cancel(h, cert)
SaverStep == SaverSnapshot \/ SaverWrite

Next ==
    \/ \E h \in Handlers : HandlerStep(h) \/ SaveFails(h) \/ HangUp(h) \/ OrderStep(h)
    \/ SaverStep \/ SaverFails
    \/ Restart

Spec == Init /\ [][Next]_vars

-----------------------------------------------------------------------------
Registries == [Clients -> [config : Configs \cup {NoConfig}, active : Handlers \cup {NoOrder}]]

TypeOK ==
    /\ \A h \in Handlers :
        /\ handler[h].pc \in {"negotiate", "received", "admit", "insert", "activate",
                              "snapshot", "write", "answered", "refused", "dropped"}
        /\ handler[h].client \in Clients \cup {Unknown}
        /\ handler[h].role \in Roles \cup {Unknown}
        /\ handler[h].snap = <<>> \/ handler[h].snap \in Registries
    /\ orders \in [Handlers -> {"none", "active", "ended"}]
    /\ task \in [Handlers -> {"none", "runs", "cleanup", "done"}]
    /\ cancel \in [Handlers -> {"none", "clear", "done"}]
    /\ canceller \in [Handlers -> Certs \cup {NoCert, Unknown}]
    /\ clients \in Registries /\ disk \in Registries
    /\ saver.snap = <<>> \/ saver.snap \in Registries
    /\ crashes \in 0..scenario.crashes
    /\ faults \in 0..scenario.faults

\* The order in the slot of a client ID was admitted with the configuration the
\* registry has for that ID: registering a configuration and taking the slot are
\* one step to other submissions, since submission_lock is held from one to the
\* other.
SlotConfig ==
    \A c \in Clients : clients[c].active # NoOrder =>
        LET h == clients[c].active IN
        handler[h].client = c /\ clients[c].config = Req(h).config

\* No order of the client was cancelled, no request of it lost its connection,
\* and the server has not restarted.
Quiet(c) ==
    /\ crashes = 0
    /\ \A h \in Handlers : handler[h].client = c =>
          cancel[h] = "none" /\ handler[h].pc # "dropped"

\* While an order of a quiet client is in flight nobody, a main client included,
\* changes the configuration registered for its ID.
ConfigKeptForBuild ==
    \A h \in Handlers : orders[h] = "active" /\ Quiet(handler[h].client) =>
        clients[handler[h].client].config = Req(h).config

\* A follower builds with a configuration that a main client of its ID has
\* registered, in this life of the server or in an earlier one.
FollowerFollows ==
    \A h \in Handlers : orders[h] # "none" /\ handler[h].role = "follower" =>
        \E g \in Handlers : /\ handler[g].role = "main"
                            /\ handler[g].client = handler[h].client
                            /\ Req(g).config = Req(h).config

\* With authentication on, the configuration of a client ID comes from a request
\* with the certificate of a main client of that ID, and an order is cancelled
\* only with a certificate of its client ID.
IdentityHonoured ==
    scenario.mode # "none" =>
        /\ \A c \in Clients : Registered(c) =>
            \E h \in Handlers : /\ Req(h).config = clients[c].config
                                /\ Req(h).cert \in Certs
                                /\ Entries[Req(h).cert] = [client |-> c, role |-> "main"]
        /\ \A h \in Handlers : canceller[h] # Unknown =>
            /\ canceller[h] \in Certs
            /\ Entries[canceller[h]].client = handler[h].client

\* Once a submission is answered, its client ID stays known across restarts,
\* unless a save of the registry failed or two of them overlapped: the handler
\* saves the registry before it answers, and the copy it saves has the client.
AnsweredStaysKnown ==
    \A h \in Handlers : handler[h].pc = "answered" /\ ~stale =>
        /\ Registered(handler[h].client)
        /\ disk[handler[h].client].config # NoConfig

=============================================================================
