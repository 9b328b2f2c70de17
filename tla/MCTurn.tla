-------------------------------- MODULE MCTurn --------------------------------
(***************************************************************************)
(* Two turns at a time and two lines: what the user says or types with the *)
(* silence director, the opening with a user who interrupts it, and each   *)
(* with a fault.                                                           *)
(***************************************************************************)
EXTENDS VoiceTurn, TLC

CONSTANTS t1, t2, l1, l2

MCScenes ==
  {[kinds |-> {"voice", "cue"}, asks |-> {"answer"}, faults |-> {}],
   [kinds |-> {"voice"}, asks |-> {"mediation"}, faults |-> {}],
   [kinds |-> {"voice"}, asks |-> {}, faults |-> {"stt"}],
   [kinds |-> {"typed", "open"}, asks |-> {"mediation"}, faults |-> {"model"}],
   [kinds |-> {"typed", "cue"}, asks |-> {"answer", "mediation", "tools"},
    faults |-> {"model", "tts"}]}
MCTyped == {[kinds |-> {"typed"}, asks |-> {"answer"}, faults |-> {}]}
MCSymmetry == Permutations(Line)
=============================================================================
