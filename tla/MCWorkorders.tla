--------------------------- MODULE MCWorkorders ---------------------------
(* Small instances of Workorders for TLC. *)
EXTENDS Workorders

MCClients == {"alice", "bob"}

\* Which client submits the first and the second order.
One == <<"alice">>
SameTwice == <<"alice", "alice">>
OneEach == <<"alice", "bob">>

=============================================================================
