-------------------------------- MODULE MCHub --------------------------------
(***************************************************************************)
(* Two sessions whose calls do not overlap: with refused RPCs and answers  *)
(* that are never sent, with a moshi that dies, and with restarts between  *)
(* any two steps.                                                          *)
(***************************************************************************)
EXTENDS WebRtcHub

MCScenes == {[calls |-> 1, faults |-> {"signals", "sdp"}],
             [calls |-> 1, faults |-> {"moshi"}],
             [calls |-> 1, faults |-> {"restart"}]}

MCTwoScenes == {[calls |-> 1, faults |-> {}]}
=============================================================================
