----------------------------- MODULE MCProgress -----------------------------
(* A small instance of Progress for TLC. *)
EXTENDS Progress

OneFollower == {"first"}
Scenario(l, k, n, c) == [lines |-> l, keys |-> k, faults |-> n, cancel |-> c]

\* The first one fills the event channel, the relay and the attach stream, and
\* has a line left.
MCScenarios ==
    { Scenario(<<"built", "built", "failed", "built", "built">>, 0, 0, FALSE),
      Scenario(<<"long", "failed">>, 0, 1, FALSE),
      Scenario(<<"failed">>, 0, 0, TRUE),
      Scenario(<<>>, 2, 0, FALSE) }

=============================================================================
