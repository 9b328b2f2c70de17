------------------------------ MODULE WebRtcHub ------------------------------
(***************************************************************************)
(* webrtc_session.WebRtcHub: the RTC sessions of the engine and the two    *)
(* calls they make on the interactive posture.  The hub runs on one event  *)
(* loop, so what lies between two awaits is one step; enter and leave are  *)
(* awaited in worker threads and are the steps of InteractivePosture.      *)
(***************************************************************************)
EXTENDS InteractivePosture

CONSTANT MaxUp     \* sessions between their offer and the end of their hangup

VARIABLES stage,   \* how far offer and _drop have come for each session
          pcs,     \* WebRtcHub._pcs
          board,   \* webrtc_activity._board: whose activity chips are painted
          again    \* sessions with a further _drop coroutine under way

hubVars == <<stage, pcs, board, again>>
allVars == <<vars, hubVars>>

(* "new" and "gone": before its offer and after its hangup; "failed": the
   offer raised without _drop; "offer" .. "answer": inside offer; "up": the
   browser has its answer; "drop" .. "leaving": inside _drop. *)
Stage == {"new", "offer", "enter", "answer", "up", "failed",
          "drop", "closing", "leave", "leaving", "gone"}
Over == {s \in Session : stage[s] \in {"new", "gone", "failed"}}

(* A connection is recorded from its offer until _drop pops it; an offer
   that raises leaves it recorded. *)
Recorded == {"offer", "enter", "answer", "up", "failed", "drop"}

HubTypeOK ==
  /\ stage \in [Session -> Stage]
  /\ pcs = {s \in Session : stage[s] \in Recorded}
  /\ board \in Session \cup {None}
  /\ again \subseteq Session

HubInit ==
  /\ Init
  /\ stage = [s \in Session |-> "new"]
  /\ pcs = {}
  /\ board = None
  /\ again = {}

Stage_(s, x) == stage' = [stage EXCEPT ![s] = x]

-----------------------------------------------------------------------------
(* offer: the connection is recorded before the posture is asked for. *)
Offer(s) ==
  /\ phase = "serve"
  /\ stage[s] = "new"
  /\ Cardinality(Session \ Over) < MaxUp
  /\ pcs' = pcs \cup {s}
  /\ Stage_(s, "offer")
  /\ UNCHANGED <<vars, board, again>>

CallEnter(s) ==
  /\ stage[s] = "offer"
  /\ EnterCount(s)
  /\ Stage_(s, "enter")
  /\ UNCHANGED <<pcs, board, again>>

(* Mutant: a denied enter is cleaned up by _drop. *)
EnterReturnsDropped(s) ==
  /\ stage[s] = "enter"
  /\ pc[s] = "idle"
  /\ board' = IF s \in holders THEN s ELSE board
  /\ Stage_(s, IF s \in holders /\ moshi = "on" THEN "answer" ELSE "drop")
  /\ UNCHANGED <<vars, pcs, again>>

(* A denied enter raises out of offer; otherwise the session's activity
   board is bound, and without STT the session is dropped again. *)
EnterReturns(s) ==
  /\ stage[s] = "enter"
  /\ pc[s] = "idle"
  /\ \/ /\ s \notin holders
        /\ Stage_(s, "failed")
        /\ UNCHANGED board
     \/ /\ s \in holders
        /\ board' = s
        /\ Stage_(s, IF moshi = "on" THEN "answer" ELSE "drop")
  /\ UNCHANGED <<vars, pcs, again>>

Answer(s) ==
  /\ stage[s] = "answer"
  /\ \/ Stage_(s, "up")
     \/ "sdp" \in Faults /\ Stage_(s, "failed")
  /\ UNCHANGED <<vars, pcs, board, again>>

-----------------------------------------------------------------------------
(* _drop: on hangup, or when the connection fails or closes. *)
Hangup(s) ==
  /\ stage[s] = "up"
  /\ Stage_(s, "drop")
  /\ UNCHANGED <<vars, pcs, board, again>>

(* A second hangup, or a connection event, while _drop awaits the camera. *)
HangupAgain(s) ==
  /\ stage[s] = "drop"
  /\ again' = again \cup {s}
  /\ UNCHANGED <<vars, stage, pcs, board>>

(* Mutant: the connection is looked up, not popped. *)
UnbindKeepsConnection(s) ==
  /\ stage[s] = "drop"
  /\ board' = None
  /\ Stage_(s, "closing")
  /\ UNCHANGED <<vars, pcs, again>>

(* After the camera: unbind() clears whichever board is bound. *)
Unbind(s) ==
  /\ stage[s] = "drop"
  /\ board' = None
  /\ pcs' = pcs \ {s}
  /\ Stage_(s, "closing")
  /\ UNCHANGED <<vars, again>>

(* Mutant: _drop waits for the "closed" event, which may be over. *)
ClosedAfterEvent(s) ==
  /\ stage[s] = "closing"
  /\ s \in again
  /\ Stage_(s, IF pcs = {} THEN "leave" ELSE "gone")
  /\ UNCHANGED <<vars, pcs, board, again>>

(* pc.close() is awaited and raises a "closed" event: one more _drop.  The
   posture is left only when no connection is recorded any more. *)
Closed(s) ==
  /\ stage[s] = "closing"
  /\ again' \in {again, again \cup {s}}
  /\ Stage_(s, IF pcs = {} THEN "leave" ELSE "gone")
  /\ UNCHANGED <<vars, pcs, board>>

CallLeave(s) ==
  /\ stage[s] = "leave"
  /\ LeaveCount(s)
  /\ Stage_(s, "leaving")
  /\ UNCHANGED <<pcs, board, again>>

LeaveReturns(s) ==
  /\ stage[s] = "leaving"
  /\ pc[s] = "idle"
  /\ Stage_(s, "gone")
  /\ UNCHANGED <<vars, pcs, board, again>>

(* The other coroutine finds the connection popped, after its own unbind(). *)
DropAgain(s) ==
  /\ s \in again \ pcs
  /\ again' = again \ {s}
  /\ board' = None
  /\ UNCHANGED <<vars, stage, pcs>>

-----------------------------------------------------------------------------
HubRestart ==
  /\ Restart
  /\ stage' = [s \in Session |-> IF stage[s] = "new" THEN "new" ELSE "gone"]
  /\ pcs' = {}
  /\ board' = None
  /\ again' = {}

HubStep(s) ==
  \/ CallEnter(s) \/ EnterReturns(s) \/ Answer(s)
  \/ Unbind(s) \/ Closed(s) \/ CallLeave(s) \/ LeaveReturns(s) \/ DropAgain(s)

PostureStep ==
  \/ \E s \in Session : EnterStep(s)
  \/ \E t \in Thread : CallStep(t)
  \/ Serve \/ EngineStop \/ Environment

HubNext ==
  \/ \E s \in Session : Offer(s) \/ Hangup(s) \/ HangupAgain(s) \/ HubStep(s)
  \/ PostureStep /\ UNCHANGED hubVars
  \/ HubRestart

(* The event loop and the worker threads run on. *)
HubFairness ==
  /\ \A s \in Session : /\ WF_allVars(HubStep(s))
                        /\ WF_allVars(EnterStep(s) /\ UNCHANGED hubVars)
  /\ \A t \in Thread : WF_allVars(CallStep(t) /\ UNCHANGED hubVars)
  /\ WF_allVars(Serve /\ UNCHANGED hubVars)
  /\ WF_allVars(Lapse /\ Unrenewed /\ UNCHANGED hubVars)
  /\ WF_allVars(WindowLapse /\ WinUnrenewed /\ UNCHANGED <<postureVars, hubVars>>)
  /\ WF_allVars(MoshiBooted /\ UNCHANGED hubVars)
  /\ WF_allVars(phase = "stop" /\ HubRestart)

HubSpec == HubInit /\ [][HubNext]_allVars
FairHubSpec == HubSpec /\ HubFairness

-----------------------------------------------------------------------------
(* Properties *)

Between == Quiescent /\ again = {}

(* Enter on the first session, leave on the last hangup: with no session
   under way and none up, the posture is off. *)
LastHangupLeaves == Between /\ Over = Session => ~active

(* A hangup never ends the posture under another session that is up. *)
UpKeepsPosture ==
  Quiescent /\ (\E s \in Session : stage[s] = "up") => active

(* The hub leaves only for a session whose enter succeeded, so one denied
   or repeated hangup can never take away somebody else's count. *)
LeaveIsPaired == \A s \in Session : stage[s] = "leave" => s \in holders

(* A hangup completes, also when it has to wait for other calls. *)
HangupCompletes == \A s \in Session : stage[s] = "drop" ~> stage[s] = "gone"
=============================================================================
