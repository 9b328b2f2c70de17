-------------------------------- MODULE MCViz --------------------------------
(***************************************************************************)
(* Up to four shows: one after the other with each fault, and two at a     *)
(* time, while calls come and go.  MCStill and MCClear are for what does   *)
(* not hold.                                                               *)
(***************************************************************************)
EXTENDS VizStage, ScreenChecks

CONSTANTS s1, s2, f1, f2

Serial(asks, faults) == [asks |-> asks, overlap |-> FALSE, faults |-> faults]
MCScenes ==
  {Serial({f1, f2, "clear"}, {"server"}),
   Serial({f1, Kanban}, {}),
   Serial({f1, Kanban}, {"chromium"}),
   Serial({f1, f2, Kanban, "clear"}, {"paint"}),
   [asks |-> {f1, Kanban}, overlap |-> TRUE, faults |-> {}]}
MCStill == {Serial({f1, Kanban}, {"chromium"})}
MCClear == {Serial({f1, Kanban, "clear"}, {})}
=============================================================================
