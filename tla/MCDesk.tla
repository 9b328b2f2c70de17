-------------------------------- MODULE MCDesk --------------------------------
(***************************************************************************)
(* Three cards and two jobs: the tools with the gateway, and with links;   *)
(* two filers with the tools; the cue with turns; two partners with turns; *)
(* one with a tool, and with what takes the steer's place; the bots and    *)
(* the user.                                                               *)
(* MCPartner, MCUser, MCLateLinks and MCBishops are for what does not      *)
(* hold.                                                                   *)
(***************************************************************************)
EXTENDS Desk, DeskChecks, TLC

CONSTANTS c1, c2, c3, j1, j2

Nobody == [actors |-> {}, moves |-> {}, serial |-> {}, profiles |-> {}, steers |-> FALSE,
           faults |-> {}]

Linked(moves) == [Nobody EXCEPT !.actors = {"tools", "link"}, !.moves = moves, !.serial = {"link"}]

MCScenes ==
  {[Nobody EXCEPT !.actors = {"tools", "suggest"}, !.moves = {"block", "triage"},
                  !.serial = {"suggest"}],
   Linked({"todo", "ready"}), Linked({"review", "complete"}),
   [Nobody EXCEPT !.actors = {"tools", "filers"}, !.moves = {"done", "blocked"},
                  !.serial = {"file"}, !.faults = {"db"}],
   [Nobody EXCEPT !.actors = {"filers", "glances", "cue", "turn", "tools"},
                  !.moves = {"unblock"}, !.serial = {"file"}],
   [Nobody EXCEPT !.actors = {"glances", "cue", "suggest", "tools"},
                  !.serial = {"suggest"}, !.faults = {"model"}],
   [Nobody EXCEPT !.actors = {"partner", "turn"}],
   [Nobody EXCEPT !.actors = {"partner", "turn", "tools"}, !.moves = {"unblock"},
                  !.serial = {"partner"}],
   [Nobody EXCEPT !.actors = {"partner", "turn", "extract"}, !.serial = {"partner"},
                  !.steers = TRUE, !.faults = {"model", "taker"}],
   [Nobody EXCEPT !.actors = {"bots", "user"}, !.profiles = {"ripley"}, !.faults = {"disk"}],
   [Nobody EXCEPT !.actors = {"bots", "user"}, !.profiles = {"hicks"}]}
MCPartner == {[Nobody EXCEPT !.actors = {"partner", "turn"}, !.steers = TRUE,
                             !.serial = {"partner"}]}
MCUser == {[Nobody EXCEPT !.actors = {"bots", "user"}, !.profiles = {"ripley"}]}
MCLateLinks == {[Nobody EXCEPT !.actors = {"tools", "link"}, !.moves = {"ready"}]}
MCBishops == {[Nobody EXCEPT !.actors = {"partner", "suggest"}]}
MCSymmetry == Permutations(Card) \cup Permutations(Job)
=============================================================================
