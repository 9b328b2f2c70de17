--------------------------- MODULE PostureContract ---------------------------
(***************************************************************************)
(* What the interactive posture promises the federation, without threads,  *)
(* locks or RPCs: it is on from the first session to the last hangup, at   *)
(* most one claim of it is kept alive at Signals, a new one starts only    *)
(* when the previous one has ended, and while the engine serves the        *)
(* preprints worker starts only in a posture.                              *)
(***************************************************************************)
CONSTANT Session

VARIABLES up,       \* the engine serves
          holders,  \* the sessions in the posture
          on,       \* the posture
          beats,    \* a claim is kept alive at Signals
          worker    \* the preprints worker runs

vars == <<up, holders, on, beats, worker>>

Init == ~up /\ holders = {} /\ ~on /\ ~beats /\ ~worker

First(s) ==
  /\ holders = {} /\ ~on /\ ~beats
  /\ holders' = {s}
  /\ on' = TRUE
  /\ beats' \in BOOLEAN      \* the claim may have lapsed already
  /\ UNCHANGED <<up, worker>>

Join(s) ==
  /\ on
  /\ holders' = holders \cup {s}
  /\ UNCHANGED <<up, on, beats, worker>>

HangUp(s) ==
  /\ up
  /\ s \in holders
  /\ holders' = holders \ {s}
  /\ on' = (holders' # {})
  /\ UNCHANGED <<up, beats, worker>>

(* Signals no longer sees a heartbeat: released, or its renewals refused. *)
ClaimEnds == beats /\ beats' = FALSE /\ UNCHANGED <<up, holders, on, worker>>

WorkerStarts == (on \/ ~up) /\ worker' = TRUE /\ UNCHANGED <<up, holders, on, beats>>
WorkerStops == (~on \/ ~up) /\ worker /\ worker' = FALSE /\ UNCHANGED <<up, holders, on, beats>>

Serve == ~up /\ up' = TRUE /\ UNCHANGED <<holders, on, beats, worker>>

(* The engine gives up its last count, whoever it stands for. *)
Stop == up /\ up' = FALSE /\ on' \in {on, FALSE} /\ UNCHANGED <<holders, beats, worker>>

(* Only the worker outlives the process. *)
Restart ==
  /\ up' = FALSE
  /\ holders' = {}
  /\ on' = FALSE
  /\ beats' = FALSE
  /\ UNCHANGED worker

Next ==
  \/ \E s \in Session : First(s) \/ Join(s) \/ HangUp(s)
  \/ ClaimEnds \/ WorkerStarts \/ WorkerStops
  \/ Serve \/ Stop \/ Restart

Spec == Init /\ [][Next]_vars

(* After the last hangup the claim ends, and the worker stops. *)
ClaimFairness == WF_vars(~on /\ ClaimEnds)
WorkerFairness == WF_vars(~on /\ WorkerStops)
=============================================================================
