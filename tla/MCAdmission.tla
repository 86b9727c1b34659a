---------------------------- MODULE MCAdmission ----------------------------
(* A small instance of Admission for TLC. *)
EXTENDS Admission

ThreeHandlers == {"h1", "h2", "h3"}
TwoClients == {"c1", "c2"}

\* Configurations that differ in one of their halves.
Plain == <<"use", "gcc13">>
OtherUse == <<"use2", "gcc13">>
OtherGcc == <<"use", "gcc14">>
ThreeConfigs == {Plain, OtherUse, OtherGcc}

\* A main client and a follower of c1, and a main client of c2.
ThreeEntries ==
    [main1 |-> [client |-> "c1", role |-> "main"],
     follower1 |-> [client |-> "c1", role |-> "follower"],
     main2 |-> [client |-> "c2", role |-> "main"]]

R(client, role, cert, config) ==
    [client |-> client, role |-> role, cert |-> cert, config |-> config, snapshots |-> FALSE, valid |-> TRUE]
Three(x, y, z) == [h \in Handlers |-> CASE h = "h1" -> x [] h = "h2" -> y [] h = "h3" -> z]

\* Without authentication: two submissions with the failures, and a follower that
\* meets two main clients.
OpenPairs ==
    { Three(R("c1", "main", NoCert, Plain), y, y) :
        y \in {R("c1", "main", NoCert, OtherUse), R("c2", "main", NoCert, Plain),
               R("c1", "follower", NoCert, Plain), R("c1", "follower", NoCert, OtherGcc)} }
OpenTriple ==
    Three(R("c1", "main", NoCert, Plain), R("c1", "main", NoCert, OtherUse), R("c1", "follower", NoCert, Plain))

\* With certificates, right, missing or of somebody else.
CertPairs ==
    { Three(R("c1", "main", "main1", Plain), y, y) :
        y \in {R("c1", "main", NoCert, OtherUse), R("c1", "main", "main2", OtherUse),
               R("c1", "follower", NoCert, Plain), R("c2", "main", "follower1", OtherGcc),
               [R("c1", "follower", NoCert, Plain) EXCEPT !.snapshots = TRUE],
               [R("c1", "main", "unregistered", OtherGcc) EXCEPT !.valid = FALSE]} }

S(mode, request, who, n) ==
    [mode |-> mode, request |-> request, who |-> who, limit |-> 0, crashes |-> n, faults |-> n, cancels |-> {}]
MCScenarios ==
    { [S("none", r, {"h1", "h2"}, 1) EXCEPT !.faults = IF r["h2"].role = "main" THEN 1 ELSE 0] :
        r \in OpenPairs }
    \cup { [S("none", r, {"h1", "h2"}, 0) EXCEPT !.limit = 1,
                !.cancels = IF r["h2"].config = OtherUse THEN {NoCert} ELSE {}] : r \in OpenPairs }
    \cup { S("none", OpenTriple, Handlers, 0) }
    \cup { [S(m, r, {"h1", "h2"}, 0) EXCEPT
                !.cancels = IF r["h2"].cert # "main2" THEN {}
                            ELSE IF m = "mtls" THEN {"main2"} ELSE {NoCert, "main1"}] :
            m \in {"mtls", "mixed"}, r \in CertPairs }

=============================================================================
