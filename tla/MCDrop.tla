-------------------------------- MODULE MCDrop --------------------------------
(***************************************************************************)
(* Two calls and three threads: a preprint with a PDF that needs approval, *)
(* and each of them with a database that fails and with restarts.          *)
(***************************************************************************)
EXTENDS SourceDrop, TLC

CONSTANTS k1, k2

MCScenes ==
  {[keys |-> {k1, k2}, faults |-> {}],
   [keys |-> {k1}, faults |-> {"board", "restart"}],
   [keys |-> {k2}, faults |-> {"board", "restart"}]}
MCPapers == {[keys |-> {k1, k2}, faults |-> {}]}
MCSymmetry == Permutations(Caller) \cup Permutations(Slot)
=============================================================================
