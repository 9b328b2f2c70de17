------------------------------- MODULE MCPosture -------------------------------
(***************************************************************************)
(* One call at a time, with failing RPCs, a dying moshi and restarts, and  *)
(* then with Signals alone failing; two calls at once, with a failing      *)
(* moshi, and with a missing key and slow starts.                          *)
(***************************************************************************)
EXTENDS InteractivePosture, TLC

MCScenes == {[calls |-> 1, faults |-> {"signals", "moshi", "restart"}],
             [calls |-> 1, faults |-> {"signals"}],
             [calls |-> 2, faults |-> {"moshi"}],
             [calls |-> 2, faults |-> {"key", "slow"}]}

Symmetry == Permutations(Session) \cup Permutations(Act)
=============================================================================
