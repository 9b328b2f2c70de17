------------------------------ MODULE GpuHandover ------------------------------
(***************************************************************************)
(* coordination.ActivityWatcher: the engine's view of every peer's         *)
(* activities, and the GPU handover it drives.  While a foreign activity   *)
(* that asks for every GPU is running, moshi is stopped; afterwards it is  *)
(* brought back if it was serving when the handover began.                 *)
(*                                                                         *)
(* The event loop applies an event and then decides (Apply, Sync); one     *)
(* worker thread carries the decision out, and takes _handover_lock around *)
(* its reads and writes but not around its view or its requests.           *)
(* Each peer declares at most one activity here: a foreign one asks for    *)
(* the GPUs, ours is the interactive session.                              *)
(***************************************************************************)
EXTENDS Naturals

CONSTANTS Peer,      \* the projects of the federation
          Me,        \* this one (coordination.PEER)
          MaxFail    \* requests to the supervisor that may fail

ASSUME PeerAssumption == Me \in Peer
ASSUME BoundAssumption == MaxFail \in Nat

VARIABLES calm,       \* fixed at the start: peers, sessions and the stream change
                      \* only between handovers
          acts,       \* Signals: the state of each peer's activity
          view,       \* _view
          connected,  \* connected
          loop,       \* the event loop: "wait" for an event, or about to "sync"
          want,       \* _handover_want
          on,         \* _handover_on
          restore,    \* _restore_moshi
          sampled,    \* _restore_sampled
          thread,     \* the worker thread: "none" when it is not alive
          seen,       \* its local `activities`: our session is running in them
          moshi,      \* the moshi server is serving
          began,      \* history: moshi was serving when the handover began
          told,       \* history: the last request the supervisor carried out
          fails       \* supervisor requests that have failed

sample == <<restore, sampled>>
history == <<began, told, fails>>
handoverVars == <<calm, acts, view, connected, loop, want, on, sample, thread, seen, moshi, history>>

State == {"none", "queued", "running"}

HandoverTypeOK ==
  /\ acts \in [Peer -> State] /\ view \in [Peer -> State]
  /\ calm \in BOOLEAN
  /\ {connected, want, on, restore, sampled, seen, moshi, began} \subseteq BOOLEAN
  /\ loop \in {"wait", "sync"}
  /\ thread \in {"none", "top", "decide", "off", "on", "offDone", "onDone", "exit"}
  /\ told \in {"nothing", "off", "on"}
  /\ fails \in 0..MaxFail
  /\ restore => sampled

(* gpu_handover_active: queued is not yet a handover, and our own is none. *)
HandoverActive(v) == \E p \in Peer \ {Me} : v[p] = "running"

(* interactive_session_running *)
SessionRunning(v) == v[Me] = "running"

HandoverInit ==
  /\ calm \in BOOLEAN
  /\ acts = [p \in Peer |-> "none"] /\ view = acts
  /\ connected = FALSE /\ loop = "wait"
  /\ want = FALSE /\ on = FALSE /\ restore = FALSE /\ sampled = FALSE
  /\ thread = "none" /\ seen = FALSE
  /\ moshi = FALSE /\ began = FALSE /\ told = "nothing" /\ fails = 0

(* Nothing left to do for the view the engine has. *)
Settled == loop = "wait" /\ thread = "none" /\ want = on

Undisturbed == calm => Settled /\ HandoverActive(view) = want

-----------------------------------------------------------------------------
(* Signals, and the calls of InteractivePosture that move our session *)

ForeignChanges ==
  /\ Undisturbed
  /\ \E p \in Peer \ {Me}, st \in State :
        acts[p] # st /\ acts' = [acts EXCEPT ![p] = st]
  /\ UNCHANGED <<calm, view, connected, loop, want, on, sample, thread, seen, moshi, history>>

(* enter starts moshi with the session, leave stops both. *)
SessionChanges ==
  /\ Undisturbed
  /\ moshi' = (acts[Me] # "running")
  /\ acts' = [acts EXCEPT ![Me] = IF moshi' THEN "running" ELSE "none"]
  /\ UNCHANGED <<calm, view, connected, loop, want, on, sample, thread, seen, history>>

(* The stream ends, fails, or is silent for WATCH_SILENCE_S. *)
Disconnect ==
  /\ Undisturbed
  /\ loop = "wait"
  /\ connected' = FALSE
  /\ UNCHANGED <<calm, acts, view, loop, want, on, sample, thread, seen, moshi, history>>

-----------------------------------------------------------------------------
(* The event loop *)

(* _watch_once, apply: an event carries every activity and replaces the view. *)
Apply ==
  /\ loop = "wait"
  /\ connected' = TRUE
  /\ view' = acts
  /\ loop' = "sync"
  /\ UNCHANGED <<calm, acts, want, on, sample, thread, seen, moshi, history>>

(* Mutants: the sample is an assumption; it is taken again with each event;
   a worker is started only when the wish changes. *)
SyncAssumesServing ==
  /\ loop = "sync"
  /\ loop' = "wait"
  /\ want' = HandoverActive(view)
  /\ IF want' /\ ~sampled THEN restore' = TRUE /\ sampled' = TRUE
                          ELSE UNCHANGED sample
  /\ thread' = IF thread = "none" /\ want' # on THEN "top" ELSE thread
  /\ began' = IF want' /\ ~want /\ ~on /\ thread = "none" THEN moshi ELSE began
  /\ UNCHANGED <<calm, acts, view, connected, on, seen, moshi, told, fails>>

SyncResamples ==
  /\ loop = "sync"
  /\ loop' = "wait"
  /\ want' = HandoverActive(view)
  /\ IF want' THEN restore' = moshi /\ sampled' = TRUE ELSE UNCHANGED sample
  /\ thread' = IF thread = "none" /\ want' # on THEN "top" ELSE thread
  /\ began' = IF want' /\ ~want /\ ~on /\ thread = "none" THEN moshi ELSE began
  /\ UNCHANGED <<calm, acts, view, connected, on, seen, moshi, told, fails>>

SyncOnChange ==
  /\ loop = "sync"
  /\ loop' = "wait"
  /\ want' = HandoverActive(view)
  /\ IF want' /\ ~sampled THEN restore' = moshi /\ sampled' = TRUE
                          ELSE UNCHANGED sample
  /\ thread' = IF thread = "none" /\ want' # want THEN "top" ELSE thread
  /\ began' = IF want' /\ ~want /\ ~on /\ thread = "none" THEN moshi ELSE began
  /\ UNCHANGED <<calm, acts, view, connected, on, seen, moshi, told, fails>>

(* _sync_gpu_handover: moshi is sampled once per handover, and the worker is
   started unless it is alive or there is nothing to do. *)
Sync ==
  /\ loop = "sync"
  /\ loop' = "wait"
  /\ want' = HandoverActive(view)
  /\ IF want' /\ ~sampled THEN restore' = moshi /\ sampled' = TRUE
                          ELSE UNCHANGED sample
  /\ thread' = IF thread = "none" /\ want' # on THEN "top" ELSE thread
  /\ began' = IF want' /\ ~want /\ ~on /\ thread = "none" THEN moshi ELSE began
  /\ UNCHANGED <<calm, acts, view, connected, on, seen, moshi, told, fails>>

-----------------------------------------------------------------------------
(* The worker thread, _handover_worker *)

(* The first locked check, and the view read after it.  Without a connection
   view() leaves out what has passed its horizon. *)
FirstCheck ==
  /\ thread = "top"
  /\ IF want = on
     THEN thread' = "exit" /\ UNCHANGED seen
     ELSE thread' = "decide" /\ seen' \in {SessionRunning(view), connected /\ SessionRunning(view)}
  /\ UNCHANGED <<calm, acts, view, connected, loop, want, on, sample, moshi, history>>

(* The second locked check: stop moshi, bring it back, or just finish. *)
Decide ==
  /\ thread = "decide"
  /\ \/ /\ want = on
        /\ thread' = "exit"
        /\ UNCHANGED <<on, sample>>
     \/ /\ want /\ ~on
        /\ thread' = "off"
        /\ UNCHANGED <<on, sample>>
     \/ /\ ~want /\ on
        /\ restore /\ seen
        /\ thread' = "on"
        /\ UNCHANGED <<on, sample>>
     \/ /\ ~want /\ on
        /\ ~(restore /\ seen)
        /\ on' = FALSE /\ restore' = FALSE /\ sampled' = FALSE
        /\ thread' = "exit"
  /\ UNCHANGED <<calm, acts, view, connected, loop, want, seen, moshi, history>>

(* _post_supervisor, carried out, or failed: the next event retries. *)
Post ==
  /\ thread \in {"off", "on"}
  /\ moshi' = (thread = "on")
  /\ told' = thread
  /\ thread' = IF thread = "on" THEN "onDone" ELSE "offDone"
  /\ UNCHANGED <<calm, acts, view, connected, loop, want, on, sample, seen, began, fails>>

(* Mutant: a request that failed is recorded as done. *)
PostFailsRecorded ==
  /\ thread \in {"off", "on"}
  /\ fails < MaxFail
  /\ fails' = fails + 1
  /\ thread' = IF thread = "on" THEN "onDone" ELSE "offDone"
  /\ UNCHANGED <<calm, acts, view, connected, loop, want, on, sample, seen, moshi, began, told>>

PostFails ==
  /\ thread \in {"off", "on"}
  /\ fails < MaxFail
  /\ fails' = fails + 1
  /\ thread' = "exit"
  /\ UNCHANGED <<calm, acts, view, connected, loop, want, on, sample, seen, moshi, began, told>>

(* Mutants: the wish is not looked at again; only the flag is cleared. *)
RecordBlindly ==
  /\ thread \in {"offDone", "onDone"}
  /\ on' = (thread = "offDone")
  /\ IF on' THEN UNCHANGED sample ELSE restore' = FALSE /\ sampled' = FALSE
  /\ thread' = "top"
  /\ UNCHANGED <<calm, acts, view, connected, loop, want, seen, moshi, history>>

RecordKeepsRestore ==
  /\ thread \in {"offDone", "onDone"}
  /\ LET did == thread = "offDone"
     IN  IF want # did
         THEN UNCHANGED <<on, sampled>>
         ELSE on' = did /\ sampled' = (did /\ sampled)
  /\ thread' = "top"
  /\ UNCHANGED <<calm, acts, view, connected, loop, want, restore, seen, moshi, history>>

(* Record what was done, unless the wish changed during the request. *)
Record ==
  /\ thread \in {"offDone", "onDone"}
  /\ LET did == thread = "offDone"
     IN  IF want # did
         THEN UNCHANGED <<on, sample>>
         ELSE /\ on' = did
              /\ IF did THEN UNCHANGED sample ELSE restore' = FALSE /\ sampled' = FALSE
  /\ thread' = "top"
  /\ UNCHANGED <<calm, acts, view, connected, loop, want, seen, moshi, history>>

(* The function has returned; is_alive() is true until the thread is gone. *)
Exit ==
  /\ thread = "exit"
  /\ thread' = "none"
  /\ UNCHANGED <<calm, acts, view, connected, loop, want, on, sample, seen, moshi, history>>

Worker == FirstCheck \/ Decide \/ Post \/ PostFails \/ Record \/ Exit

HandoverNext == ForeignChanges \/ SessionChanges \/ Disconnect \/ Apply \/ Sync \/ Worker

(* Signals sends an event at least every 60 s, so Apply recurs; the event
   loop and the worker run on.  Peers and sessions owe nothing. *)
HandoverFairness == WF_handoverVars(Apply) /\ WF_handoverVars(Sync) /\ WF_handoverVars(Worker)

HandoverSpec == HandoverInit /\ [][HandoverNext]_handoverVars
HandoverFairSpec == HandoverSpec /\ HandoverFairness

-----------------------------------------------------------------------------
(* Properties *)

(* A handover that is wanted, or carried out, has its sample of moshi: the
   decision to bring moshi back never reads a sample nobody took. *)
SampleTaken == want \/ on => sampled

(* When nothing is left to do, a wanted handover has stopped moshi: the last
   request of this engine was /interactive/off.  Guaranteed while nothing
   changes during a handover, as often as its requests fail. *)
HandoverYields == calm /\ Settled /\ want => told = "off"

(* The same whatever changes during a handover: a claim that comes while moshi
   is being brought back is not yielded to. *)
HandoverAlwaysYields == Settled /\ want => told = "off"

(* "Restore only if moshi was serving when the handover began": /interactive/on
   is requested only then.  A handover that follows another closely may use
   the sample of the first. *)
RestoreOnlyIfServing == calm /\ thread = "on" => began

(* When nothing is left to do and no handover is wanted, a moshi that was
   serving when the last one began serves again, if our session still runs.
   A session that is seen late may lose it. *)
MoshiRestored ==
  calm /\ Settled /\ ~want /\ view = acts /\ began /\ SessionRunning(acts) => moshi

(* A foreign claim that lasts is answered by a handover, whatever requests
   fail meanwhile, and one that is over is undone. *)
HandoverFollows ==
  /\ <>[]HandoverActive(acts) => <>[](on /\ thread = "none")
  /\ <>[]~HandoverActive(acts) => <>[](~on /\ thread = "none")
=============================================================================
