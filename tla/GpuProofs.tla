----------------------------- MODULE GpuProofs -----------------------------
(***************************************************************************)
(* Theorems about those who move moshi on and off the GPUs: the            *)
(* coordination watcher (GpuHandover) and the supervisor that carries its  *)
(* requests out (MoshiSupervisor).                                         *)
(*                                                                         *)
(* The handover, for any peers: the sample of moshi is always there when it *)
(* is needed, and, if nothing changes during a handover (calm), the handover *)
(* yields moshi, asks for it again only if it was serving, and has brought *)
(* it back when everything is settled.                                     *)
(*                                                                         *)
(* The supervisor, for any number of requests, processes and GPUs: under all *)
(* the faults the worker it knows runs on a GPU it has leased, and with no *)
(* fault but a missing configuration no GPU is shared and nothing of moshi *)
(* outlives its /interactive/off.  What makes this inductive is the lock:  *)
(* between the lease and the start of a worker nobody else releases, and a *)
(* release finds no worker.                                                *)
(***************************************************************************)
EXTENDS GpuHandover, MoshiSupervisor, TLAPS

-----------------------------------------------------------------------------
(* The handover *)

LEMMA HandoverInitTyped == HandoverInit => HandoverTypeOK
<1> SUFFICES ASSUME HandoverInit PROVE HandoverTypeOK
  OBVIOUS
<1>1. acts \in [Peer -> State] /\ view \in [Peer -> State]
  BY DEF HandoverInit, State
<1>2. {connected, want, on, restore, sampled, seen, moshi, began} \subseteq BOOLEAN
  BY DEF HandoverInit
<1>3. fails \in 0..MaxFail
  BY BoundAssumption DEF HandoverInit
<1> QED
  BY <1>1, <1>2, <1>3 DEF HandoverInit, HandoverTypeOK

LEMMA HandoverStepTyped == ASSUME HandoverTypeOK, [HandoverNext]_handoverVars PROVE HandoverTypeOK'
<1> USE DEF HandoverTypeOK, State, sample, history, HandoverActive, SessionRunning
<1>1. CASE ForeignChanges
  BY <1>1 DEF ForeignChanges
<1>2. CASE SessionChanges
  BY <1>2 DEF SessionChanges
<1>3. CASE Disconnect
  BY <1>3 DEF Disconnect
<1>7. CASE Apply
  BY <1>7 DEF Apply
<1>4. CASE Sync
  BY <1>4 DEF Sync
<1>5. CASE Worker
  <2>1. CASE FirstCheck
    BY <2>1 DEF FirstCheck
  <2>2. CASE Decide
    <3>1. UNCHANGED <<calm, acts, view, connected, loop, want, seen, moshi, history>>
      BY <2>2 DEF Decide
    <3>2. /\ thread' \in {"exit", "off", "on"}
          /\ UNCHANGED <<on, restore, sampled>> \/ (~on' /\ ~restore' /\ ~sampled')
          /\ {on', restore', sampled'} \subseteq BOOLEAN
      BY <2>2 DEF Decide
    <3> QED
      BY <3>1, <3>2
  <2>3. CASE Post
    BY <2>3 DEF Post
  <2>4. CASE PostFails
    BY <2>4, BoundAssumption DEF PostFails
  <2>5. CASE Record
    BY <2>5 DEF Record
  <2>6. CASE Exit
    BY <2>6 DEF Exit
  <2> QED
    BY <1>5, <2>1, <2>2, <2>3, <2>4, <2>5, <2>6 DEF Worker
<1>6. CASE UNCHANGED handoverVars
  BY <1>6 DEF handoverVars
<1> QED
  BY <1>1, <1>2, <1>3, <1>4, <1>5, <1>6, <1>7 DEF HandoverNext

(* The sample is taken before moshi is stopped and kept until the handover
   is undone, whatever overtakes whatever. *)
THEOREM SampleIsTaken == HandoverSpec => []SampleTaken
<1>1. HandoverInit => SampleTaken
  BY DEF HandoverInit, SampleTaken
<1>2. HandoverTypeOK /\ SampleTaken /\ [HandoverNext]_handoverVars => SampleTaken'
  <2> SUFFICES ASSUME HandoverTypeOK, SampleTaken, [HandoverNext]_handoverVars PROVE SampleTaken'
    OBVIOUS
  <2> USE DEF SampleTaken, sample, history
  <2>1. CASE ForeignChanges \/ SessionChanges \/ Disconnect \/ Apply
    BY <2>1 DEF ForeignChanges, SessionChanges, Disconnect, Apply
  <2>2. CASE Sync
    BY <2>2 DEF Sync
  <2>3. CASE Worker
    BY <2>3 DEF Worker, FirstCheck, Decide, Post, PostFails, Record, Exit, HandoverTypeOK
  <2>4. CASE UNCHANGED handoverVars
    BY <2>4 DEF handoverVars
  <2> QED
    BY <2>1, <2>2, <2>3, <2>4 DEF HandoverNext
<1>3. HandoverInit /\ [][HandoverNext]_handoverVars => []HandoverTypeOK
  BY HandoverInitTyped, HandoverStepTyped, PTL
<1> QED
  BY <1>1, <1>2, <1>3, PTL DEF HandoverSpec

-----------------------------------------------------------------------------
(* calm: a view under decision is the truth, what the worker was started for
   is still wanted, and what it has done is on record or about to be. *)
ViewCurrent == loop = "sync" => view = acts
StillWanted == want # on \/ thread # "none" => HandoverActive(acts) = want
OnItsWay == /\ thread \in {"off", "offDone"} => want /\ ~on
            /\ thread \in {"on", "onDone"} => ~want /\ on
            /\ thread = "on" => restore
Done == /\ thread = "offDone" => told = "off"
        /\ on /\ thread # "onDone" => told = "off"
SampleIsBegin == /\ sampled <=> want \/ on
                 /\ sampled => restore = began

Undisturbing == ViewCurrent /\ StillWanted /\ OnItsWay /\ Done /\ SampleIsBegin
CalmInv == HandoverTypeOK /\ (calm => Undisturbing)

LEMMA CalmKept == ASSUME [HandoverNext]_handoverVars PROVE calm' = calm
BY DEF HandoverNext, handoverVars, ForeignChanges, SessionChanges, Disconnect, Apply, Sync,
       Worker, FirstCheck, Decide, Post, PostFails, Record, Exit

LEMMA CalmStep == ASSUME calm, HandoverTypeOK, Undisturbing, [HandoverNext]_handoverVars PROVE Undisturbing'
<1>0. HandoverTypeOK'
  BY HandoverStepTyped
<1> USE DEF Undisturbing, ViewCurrent, StillWanted, OnItsWay, Done, SampleIsBegin, sample, history
<1>1. CASE ForeignChanges \/ SessionChanges
  <2>1. Settled /\ UNCHANGED <<view, loop, want, on, sample, thread, history>>
    BY <1>1 DEF ForeignChanges, SessionChanges, Undisturbed
  <2> QED
    BY <1>0, <2>1 DEF Settled
<1>2. CASE Disconnect
  BY <1>0, <1>2 DEF Disconnect
<1>3. CASE Apply
  BY <1>0, <1>3 DEF Apply
<1>4. CASE Sync
  <2>1. view = acts /\ acts' = acts /\ loop' = "wait" /\ want' = HandoverActive(acts)
    BY <1>4 DEF Sync
  <2>2. want' # want => want = on /\ thread = "none"
    BY <2>1
  <2>3. UNCHANGED <<on, told>> /\ thread' \in {thread, "top"} /\ (thread' # thread => thread = "none")
    BY <1>4 DEF Sync
  <2>4. SampleIsBegin'
    BY <1>4, <2>1, <2>2, <2>3 DEF Sync, HandoverTypeOK
  <2>5. OnItsWay'
    BY <1>4, <2>2, <2>3, <2>4 DEF Sync, HandoverTypeOK
  <2>6. HandoverActive(acts)' = HandoverActive(acts)
    BY <2>1 DEF HandoverActive
  <2> QED
    BY <1>0, <2>1, <2>3, <2>4, <2>5, <2>6
<1>5. CASE Worker
  <2>1. acts' = acts /\ view' = view /\ loop' = loop /\ HandoverActive(acts)' = HandoverActive(acts)
    BY <1>5 DEF Worker, FirstCheck, Decide, Post, PostFails, Record, Exit, HandoverActive
  <2>2. want' = want /\ began' = began
    BY <1>5 DEF Worker, FirstCheck, Decide, Post, PostFails, Record, Exit
  <2>3. CASE FirstCheck
    BY <1>0, <2>1, <2>2, <2>3 DEF FirstCheck
  <2>8. CASE Exit
    BY <1>0, <2>1, <2>2, <2>8 DEF Exit
  <2>4. CASE Decide
    BY <1>0, <2>1, <2>2, <2>4 DEF Decide, HandoverTypeOK
  <2>5. CASE Post
    BY <1>0, <2>1, <2>2, <2>5 DEF Post
  <2>6. CASE PostFails
    BY <1>0, <2>1, <2>2, <2>6 DEF PostFails
  <2>7. CASE Record
    BY <1>0, <2>1, <2>2, <2>7 DEF Record, HandoverTypeOK
  <2> QED
    BY <1>5, <2>3, <2>4, <2>5, <2>6, <2>7, <2>8 DEF Worker
<1>6. CASE UNCHANGED handoverVars
  BY <1>0, <1>6 DEF handoverVars, HandoverActive
<1> QED
  BY <1>1, <1>2, <1>3, <1>4, <1>5, <1>6 DEF HandoverNext

LEMMA CalmAlways == HandoverSpec => []CalmInv
<1>1. HandoverInit => CalmInv
  <2> SUFFICES ASSUME HandoverInit PROVE CalmInv
    OBVIOUS
  <2> QED
    BY HandoverInitTyped
       DEF HandoverInit, CalmInv, Undisturbing, ViewCurrent, StillWanted, OnItsWay, Done, SampleIsBegin
<1>2. CalmInv /\ [HandoverNext]_handoverVars => CalmInv'
  BY HandoverStepTyped, CalmKept, CalmStep DEF CalmInv
<1> QED
  BY <1>1, <1>2, PTL DEF HandoverSpec

(* An undisturbed handover stops moshi, however often its requests fail. *)
THEOREM CalmHandoverYields == HandoverSpec => []HandoverYields
<1>1. CalmInv => HandoverYields
  BY DEF CalmInv, Undisturbing, Done, HandoverYields, Settled
<1> QED
  BY <1>1, CalmAlways, PTL

(* An undisturbed handover asks for moshi only if it was serving before. *)
THEOREM CalmRestore == HandoverSpec => []RestoreOnlyIfServing
<1>1. CalmInv => RestoreOnlyIfServing
  BY DEF CalmInv, Undisturbing, OnItsWay, SampleIsBegin, RestoreOnlyIfServing
<1> QED
  BY <1>1, CalmAlways, PTL

-----------------------------------------------------------------------------
(* calm, and moshi comes back: until everything is settled the engine is
   connected and its view is the truth, so the worker sees whether our session
   runs; and moshi is down under a session it served only while the handover
   has it stopped. *)
Informed == Settled \/ (connected /\ view = acts)
SeenIsTrue == thread = "decide" => seen = SessionRunning(acts)
ServesAgain == /\ thread = "onDone" => moshi
               /\ began /\ SessionRunning(acts) => moshi \/ on \/ thread = "offDone"

Restoring == Informed /\ SeenIsTrue /\ ServesAgain
RestoreInv == calm => Restoring

LEMMA RestoreStep ==
  ASSUME calm, HandoverTypeOK, Undisturbing, Restoring, [HandoverNext]_handoverVars
  PROVE  Restoring'
<1> USE DEF Restoring, Informed, SeenIsTrue, ServesAgain, Settled, sample, history
<1>1. CASE ForeignChanges
  <2>1. Settled /\ UNCHANGED <<loop, want, on, thread, seen, moshi, history>>
    BY <1>1 DEF ForeignChanges, Undisturbed
  <2>2. SessionRunning(acts)' = SessionRunning(acts)
    BY <1>1, PeerAssumption DEF ForeignChanges, SessionRunning, HandoverTypeOK
  <2> QED
    BY <2>1, <2>2
<1>2. CASE SessionChanges
  <2>1. Settled /\ UNCHANGED <<loop, want, on, thread, seen, history>>
    BY <1>2 DEF SessionChanges, Undisturbed
  <2>2. moshi' <=> SessionRunning(acts)'
    BY <1>2, PeerAssumption DEF SessionChanges, SessionRunning, HandoverTypeOK
  <2> QED
    BY <2>1, <2>2
<1>3. CASE Disconnect
  <2>1. Settled /\ UNCHANGED <<acts, loop, want, on, thread, seen, moshi, history>>
    BY <1>3 DEF Disconnect, Undisturbed
  <2> QED
    BY <2>1 DEF SessionRunning
<1>4. CASE Apply
  BY <1>4 DEF Apply, SessionRunning
<1>5. CASE Sync
  <2>1. /\ connected /\ view = acts
        /\ UNCHANGED <<acts, view, connected, on, seen, moshi>>
        /\ thread' \in {thread, "top"} /\ (thread' # thread => thread = "none")
        /\ began' \in {began, moshi}
    BY <1>5 DEF Sync
  <2>2. Informed' /\ SeenIsTrue'
    BY <2>1 DEF SessionRunning
  <2>3. ServesAgain'
    BY <2>1 DEF SessionRunning
  <2> QED
    BY <2>2, <2>3
<1>6. CASE Worker
  <2>1. /\ UNCHANGED <<acts, view, connected, loop, want, began>>
        /\ thread # "none" /\ connected /\ view = acts
    BY <1>6 DEF Worker, FirstCheck, Decide, Post, PostFails, Record, Exit
  <2>2. SessionRunning(acts)' = SessionRunning(acts) /\ Informed'
    BY <2>1 DEF SessionRunning
  <2>3. CASE FirstCheck
    <3>1. UNCHANGED <<on, moshi>> /\ thread = "top" /\ thread' \in {"exit", "decide"}
      BY <2>3 DEF FirstCheck
    <3>2. thread' = "decide" => seen' \in {SessionRunning(view), connected /\ SessionRunning(view)}
      BY <2>3 DEF FirstCheck
    <3>3. (connected /\ SessionRunning(view)) = SessionRunning(view) /\ view = acts
      BY <2>1 DEF SessionRunning
    <3>4. thread' = "decide" => seen' = SessionRunning(acts)
      BY <3>2, <3>3
    <3>5. SeenIsTrue'
      BY <2>2, <3>4
    <3>6. ServesAgain'
      BY <2>1, <2>2, <3>1
    <3> QED
      BY <2>2, <3>5, <3>6
  <2>4. CASE Decide
    <3>1. UNCHANGED <<seen, moshi>> /\ thread' \in {"exit", "off", "on"}
      BY <2>4 DEF Decide
    <3>2. on /\ ~on' => ~(restore /\ SessionRunning(acts)) /\ restore = began
      BY <2>4 DEF Decide, Undisturbing, SampleIsBegin
    <3> QED
      BY <2>1, <2>2, <2>4, <3>1, <3>2 DEF Decide
  <2>5. CASE Post
    BY <2>1, <2>2, <2>5 DEF Post, Undisturbing, OnItsWay
  <2>6. CASE PostFails
    BY <2>1, <2>2, <2>6 DEF PostFails
  <2>7. CASE Record
    BY <2>1, <2>2, <2>7 DEF Record, Undisturbing, OnItsWay
  <2>8. CASE Exit
    BY <2>1, <2>2, <2>8 DEF Exit
  <2> QED
    BY <1>6, <2>3, <2>4, <2>5, <2>6, <2>7, <2>8 DEF Worker
<1>7. CASE UNCHANGED handoverVars
  BY <1>7 DEF handoverVars, SessionRunning
<1> QED
  BY <1>1, <1>2, <1>3, <1>4, <1>5, <1>6, <1>7 DEF HandoverNext

(* Nobody changes anything during a handover: when it is over, a moshi that
   was serving when it began serves again, if our session still runs. *)
THEOREM CalmHandoverRestores == HandoverSpec => []MoshiRestored
<1>1. HandoverInit => RestoreInv
  BY DEF HandoverInit, RestoreInv, Restoring, Informed, SeenIsTrue, ServesAgain, Settled
<1>2. CalmInv /\ RestoreInv /\ [HandoverNext]_handoverVars => RestoreInv'
  BY CalmKept, RestoreStep DEF CalmInv, RestoreInv
<1>3. RestoreInv => MoshiRestored
  BY DEF RestoreInv, Restoring, ServesAgain, Settled, MoshiRestored
<1> QED
  BY <1>1, <1>2, <1>3, CalmAlways, PTL DEF HandoverSpec

-----------------------------------------------------------------------------
(* The supervisor *)

Labels == {"idle", "onWait", "offWait"} \cup OnPc \cup OffPc

Types ==
  /\ pc \in [Req -> Labels]
  /\ proc \in [Proc -> {"none", "boot", "up", "dying"}]
  /\ pin \in [Proc -> Gpu \cup {None}]
  /\ worker \in Proc \cup {None}
  /\ file \in [Gpu -> {"free", "ours", "stale", "peer", "dead"}]

Inside == \A r \in Req : pc[r] \in OnPc \cup OffPc => mu = r
PickedLeased == \A r \in Req : pc[r] = "configure" => picked \in Gpu /\ file[picked] = "ours"
ReleaseAlone == \A r \in Req : pc[r] = "release" => worker = None
WorkerPinned == worker # None /\ Alive(worker) => pin[worker] \in Gpu /\ file[pin[worker]] = "ours"

LeaseInv == Types /\ Inside /\ PickedLeased /\ ReleaseAlone /\ WorkerPinned

LEMMA InitInv == Init => LeaseInv
<1> SUFFICES ASSUME Init PROVE LeaseInv
  OBVIOUS
<1>1. Types
  BY DEF Init, Types, Labels
<1> QED
  BY <1>1 DEF Init, LeaseInv, Inside, PickedLeased, ReleaseAlone, WorkerPinned, OnPc, OffPc

(* Inside the lock: the calls, each by the thread that holds it. *)
LEMMA CallStepInv ==
  ASSUME LeaseInv, NEW r \in Req, Arrive(r) \/ Lock(r) \/ Activate(r) \/ Deactivate(r)
  PROVE  LeaseInv'
<1> USE DEF LeaseInv, Types, Inside, PickedLeased, ReleaseAlone, WorkerPinned,
            Labels, OnPc, OffPc, Goto, Return, Alive, lease, worked
<1>1. CASE Arrive(r)
  BY <1>1 DEF Arrive
<1>2. CASE Lock(r)
  BY <1>2, NoneAssumption DEF Lock
<1>3. CASE AlreadyServing(r)
  BY <1>3 DEF AlreadyServing
<1>4. CASE Prepare(r)
  <2>1. \A g \in Gpu : Unleased[g] \in {"free", "ours", "stale", "peer", "dead"}
    BY DEF Unleased, OurFiles
  <2>2. Unleased \in [Gpu -> {"free", "ours", "stale", "peer", "dead"}]
    BY <2>1 DEF Unleased
  <2>3. worker' \in {worker, None} /\ (worker' # None => file' = file)
    BY <1>4 DEF Prepare
  <2>4. file' \in [Gpu -> {"free", "ours", "stale", "peer", "dead"}]
    BY <1>4, <2>2 DEF Prepare
  <2>5. UNCHANGED <<proc, pin>> /\ pc' \in [Req -> Labels]
        /\ pc'[r] \in {"idle", "look"} /\ (pc'[r] # "idle" => mu' = mu)
        /\ \A q \in Req \ {r} : pc'[q] = pc[q]
    BY <1>4 DEF Prepare
  <2>6. mu = r /\ \A q \in Req \ {r} : pc[q] \notin OnPc \cup OffPc
    BY <1>4 DEF Prepare
  <2>7. Types'
    BY <2>3, <2>4, <2>5
  <2>8. Inside' /\ PickedLeased' /\ ReleaseAlone'
    BY <2>5, <2>6
  <2>9. WorkerPinned'
    BY <2>3, <2>5
  <2> QED
    BY <2>7, <2>8, <2>9
<1>5. CASE Look(r) \/ Deny(r)
  BY <1>5 DEF Look, Deny
<1>6. CASE Pin(r)
  <2>1. mu = r /\ \A q \in Req \ {r} : pc[q] \notin OnPc \cup OffPc
    BY <1>6 DEF Pin
  <2>2. PICK g \in Gpu :
          \/ /\ file[g] = "free" /\ file' = [file EXCEPT ![g] = "ours"]
             /\ picked' = g /\ Goto(r, "configure")
          \/ UNCHANGED <<pc, file, picked>>
    BY <1>6 DEF Pin
  <2>3. UNCHANGED <<mu, worker, proc, pin>>
    BY <1>6 DEF Pin
  <2> QED
    BY <2>1, <2>2, <2>3
<1>7. CASE Configure(r)
  <2>1. mu = r /\ picked \in Gpu /\ file[picked] = "ours" /\ \A q \in Req \ {r} : pc[q] \notin OnPc \cup OffPc
    BY <1>7 DEF Configure
  <2>2. UNCHANGED <<picked, file>>
    BY <1>7 DEF Configure
  <2>3. CASE Goto(r, "poll") /\ mu' = mu
    <3>1. PICK p \in Proc :
            /\ worker' = p
            /\ proc' = [proc EXCEPT ![p] = "boot"]
            /\ pin' = [pin EXCEPT ![p] = picked]
      BY <1>7, <2>3 DEF Configure
    <3> QED
      BY <2>1, <2>2, <2>3, <3>1
  <2>4. CASE Return(r, "on") /\ UNCHANGED worked
    BY <2>1, <2>2, <2>4
  <2> QED
    BY <1>7, <2>3, <2>4 DEF Configure
<1>8. CASE Poll(r)
  BY <1>8 DEF Poll
<1>9. CASE Stop(r)
  BY <1>9 DEF Stop
<1>10. CASE Release(r)
  <2>1. Unleased \in [Gpu -> {"free", "ours", "stale", "peer", "dead"}]
    BY DEF Unleased, OurFiles
  <2> QED
    BY <1>10, <2>1 DEF Release
<1> QED
  BY <1>1, <1>2, <1>3, <1>4, <1>5, <1>6, <1>7, <1>8, <1>9, <1>10 DEF Activate, Deactivate

LEMMA AroundInv ==
  ASSUME LeaseInv, (\E p \in Proc : Listens(p) \/ Dies(p)) \/ Peers \/ Crash
  PROVE  LeaseInv'
<1> USE DEF LeaseInv, Types, Inside, PickedLeased, ReleaseAlone, WorkerPinned,
            Labels, OnPc, OffPc, Alive, lease, worked
<1>1. CASE \E p \in Proc : Listens(p) \/ Dies(p)
  <2>1. PICK p \in Proc : Listens(p) \/ Dies(p)
    BY <1>1
  <2>2. proc[p] # "none" /\ \E st \in {"none", "up"} : proc' = [proc EXCEPT ![p] = st]
    BY <2>1 DEF Listens, Dies
  <2>3. UNCHANGED <<mu, pc, lease, worker, pin, file>>
    BY <2>1 DEF Listens, Dies
  <2> QED
    BY <2>2, <2>3
<1>2. CASE Peers
  <2>1. PICK g \in Gpu : /\ file[g] \in {"free", "peer"}
                         /\ \E st \in {"free", "peer", "dead"} : file' = [file EXCEPT ![g] = st]
    BY <1>2 DEF Peers, PeerPins, PeerReleases, PeerDies
  <2>2. UNCHANGED <<mu, pc, lease, worked>>
    BY <1>2 DEF Peers
  <2> QED
    BY <2>1, <2>2
<1>3. CASE Crash
  BY <1>3 DEF Crash
<1> QED
  BY <1>1, <1>2, <1>3

LEMMA LeaseAlways == Spec => []LeaseInv
<1>1. LeaseInv /\ [Next]_vars => LeaseInv'
  <2> SUFFICES ASSUME LeaseInv, [Next]_vars PROVE LeaseInv'
    OBVIOUS
  <2>1. CASE UNCHANGED vars
    BY <2>1 DEF vars, lease, worked, LeaseInv, Types, Inside, PickedLeased, ReleaseAlone,
                WorkerPinned, Alive
  <2> QED
    BY <2>1, CallStepInv, AroundInv DEF Next
<1> QED
  BY <1>1, InitInv, PTL DEF Spec

(* Whatever fails and whatever the peers do meanwhile, a worker the
   supervisor knows is never without its lease. *)
THEOREM WorkerIsLeased == Spec => []WorkerLeased
<1>1. LeaseInv => WorkerLeased
  BY DEF LeaseInv, WorkerPinned, WorkerLeased
<1> QED
  BY <1>1, LeaseAlways, PTL

-----------------------------------------------------------------------------
(* Without a slow start, a stubborn worker or a crash there is one worker at
   a time, and the supervisor knows it.  A worker that boots keeps its
   activate inside the lock, so no other call finds it booting; and what the
   last /interactive/off left stays as it is until the next call. *)
Calm == faults \subseteq {"config"}

NoneDying == \A p \in Proc : proc[p] # "dying"
SoleWorker == \A p \in Proc : Alive(p) => p = worker
StartsAlone == \A r \in Req : pc[r] \in {"look", "pin", "configure"} => worker = None
BootIsAwaited == worker # None /\ proc[worker] = "boot" => \E r \in Req : pc[r] = "poll"
NoneStale == \A g \in Gpu : file[g] # "stale"
OffIsOff == mu = None /\ ended = "off" => worker = None /\ \A g \in Gpu : file[g] # "ours"

Sole == NoneDying /\ SoleWorker /\ StartsAlone /\ BootIsAwaited /\ NoneStale /\ OffIsOff

LEMMA InitSole == Init => Sole
BY DEF Init, Sole, NoneDying, SoleWorker, StartsAlone, BootIsAwaited, NoneStale, OffIsOff, Alive

(* A calm call that looks for its worker finds it serving, or finds none. *)
LEMMA CheckedWorker ==
  ASSUME LeaseInv, Sole, NEW r \in Req, pc[r] = "check", worker # None, Alive(worker)
  PROVE  Serving
<1>1. worker \in Proc /\ \A q \in Req : pc[q] # "poll"
  BY DEF LeaseInv, Types, Inside, OnPc, OffPc
<1>2. proc[worker] = "up"
  BY <1>1 DEF LeaseInv, Types, Sole, NoneDying, BootIsAwaited, Alive
<1> QED
  BY <1>1, <1>2 DEF Serving

LEMMA UnleasedIs ==
  ASSUME file \in [Gpu -> {"free", "ours", "stale", "peer", "dead"}], NEW g \in Gpu
  PROVE  /\ Unleased[g] \notin {"ours", "stale"}
         /\ Unleased[g] \in {file[g], "free"}
BY DEF Unleased, OurFiles

LEMMA SoleCall ==
  ASSUME LeaseInv, Calm, Sole, NEW r \in Req, Arrive(r) \/ Lock(r) \/ Activate(r) \/ Deactivate(r)
  PROVE  Sole'
<1> USE DEF LeaseInv, Types, Inside, Sole, NoneDying, SoleWorker, StartsAlone, BootIsAwaited,
            NoneStale, OffIsOff, Labels, OnPc, OffPc, Goto, Return, Alive, lease, worked
<1>0. pc[r] \in OnPc \cup OffPc => mu = r /\ \A q \in Req \ {r} : pc[q] \notin OnPc \cup OffPc
  OBVIOUS
<1>1. CASE Arrive(r)
  BY <1>1 DEF Arrive
<1>2. CASE Lock(r)
  BY <1>2, NoneAssumption DEF Lock
<1>3. CASE AlreadyServing(r)
  BY <1>0, <1>3 DEF AlreadyServing
<1>4. CASE Prepare(r)
  <2>1. pc[r] = "check" /\ UNCHANGED <<proc, pin>>
    BY <1>4 DEF Prepare
  <2>2. ~(worker # None /\ Alive(worker) /\ ~Serving)
    BY <2>1, CheckedWorker
  <2>3. worker' = None /\ \A p \in Proc : ~Alive(p)
    BY <1>4, <2>2, NoneAssumption DEF Prepare
  <2>4. file' \in {file, Unleased}
    BY <1>4 DEF Prepare
  <2>5. NoneStale'
    BY <2>4, UnleasedIs
  <2>6. OffIsOff'
    BY <1>4 DEF Prepare, Return, Goto
  <2> QED
    BY <2>1, <2>3, <2>5, <2>6
<1>5. CASE Look(r) \/ Deny(r)
  BY <1>0, <1>5 DEF Look, Deny
<1>6. CASE Pin(r)
  <2>1. mu = r /\ mu' = r /\ pc[r] = "pin" /\ worker = None
    BY <1>6 DEF Pin
  <2>2. UNCHANGED <<worker, proc, pin, ended>> /\ \A q \in Req : pc[q] # "poll"
    BY <1>0, <1>6 DEF Pin
  <2>3. \/ \E g \in Gpu : file' = [file EXCEPT ![g] = "ours"]
        \/ file' = file
    BY <1>6 DEF Pin
  <2>4. NoneStale'
    BY <2>3
  <2> QED
    BY <2>1, <2>2, <2>4, NoneAssumption
<1>7. CASE Configure(r)
  <2>1. mu = r /\ pc[r] = "configure" /\ worker = None /\ \A p \in Proc : ~Alive(p)
    BY <1>7, NoneAssumption DEF Configure
  <2>2. UNCHANGED file /\ \A q \in Req \ {r} : pc[q] \notin OnPc \cup OffPc
    BY <1>0, <2>1, <1>7 DEF Configure
  <2>3. CASE Goto(r, "poll") /\ mu' = mu
    <3>1. PICK p \in Proc :
            /\ worker' = p
            /\ proc' = [proc EXCEPT ![p] = "boot"]
      BY <1>7, <2>3 DEF Configure
    <3> QED
      BY <2>1, <2>2, <2>3, <3>1, NoneAssumption
  <2>4. CASE Return(r, "on") /\ UNCHANGED worked
    BY <2>1, <2>2, <2>4
  <2> QED
    BY <1>7, <2>3, <2>4 DEF Configure
<1>8. CASE Poll(r)
  <2>1. worker # None => proc[worker] # "boot"
    BY <1>8 DEF Poll, Calm, Serving
  <2> QED
    BY <1>0, <1>8, <2>1 DEF Poll
<1>9. CASE Stop(r)
  <2>1. pc[r] = "stop" /\ mu = r /\ mu' = r /\ worker' = None /\ UNCHANGED <<file, ended>>
    BY <1>9 DEF Stop
  <2>2. proc' = proc \/ (worker # None /\ proc' = [proc EXCEPT ![worker] = "none"])
    BY <1>9 DEF Stop, Calm
  <2>3. worker = None => proc' = proc
    BY <1>9 DEF Stop
  <2>4. worker # None => proc' = [proc EXCEPT ![worker] = "none"]
    BY <1>9 DEF Stop, Calm
  <2>5. \A p \in Proc : proc'[p] = "none"
    BY <2>3, <2>4, NoneAssumption
  <2> QED
    BY <1>9, <2>1, <2>5, NoneAssumption DEF Stop
<1>10. CASE Release(r)
  <2>1. pc[r] = "release" /\ worker = None /\ file' = Unleased /\ UNCHANGED <<worker, proc>>
    BY <1>10 DEF Release, ReleaseAlone
  <2>2. \A g \in Gpu : file'[g] \notin {"ours", "stale"}
    BY <2>1, UnleasedIs
  <2> QED
    BY <1>10, <2>1, <2>2 DEF Release
<1> QED
  BY <1>1, <1>2, <1>3, <1>4, <1>5, <1>6, <1>7, <1>8, <1>9, <1>10 DEF Activate, Deactivate

LEMMA SoleAround ==
  ASSUME LeaseInv, Calm, Sole, (\E p \in Proc : Listens(p) \/ Dies(p)) \/ Peers \/ Crash
  PROVE  Sole'
<1> USE DEF LeaseInv, Types, Sole, NoneDying, SoleWorker, StartsAlone, BootIsAwaited,
            NoneStale, OffIsOff, Alive, lease, worked
<1>1. CASE \E p \in Proc : Listens(p) \/ Dies(p)
  <2>1. PICK p \in Proc : Listens(p) \/ Dies(p)
    BY <1>1
  <2>2. proc[p] # "none" /\ \E st \in {"none", "up"} : proc' = [proc EXCEPT ![p] = st]
    BY <2>1 DEF Listens, Dies
  <2>3. UNCHANGED <<mu, pc, worker, file, ended>>
    BY <2>1 DEF Listens, Dies
  <2> QED
    BY <2>2, <2>3
<1>2. CASE Peers
  <2>1. PICK g \in Gpu : \E st \in {"free", "peer", "dead"} : file' = [file EXCEPT ![g] = st]
    BY <1>2 DEF Peers, PeerPins, PeerReleases, PeerDies
  <2>2. UNCHANGED <<mu, pc, worker, proc, ended>>
    BY <1>2 DEF Peers
  <2> QED
    BY <2>1, <2>2
<1>3. CASE Crash
  BY <1>3 DEF Crash, Calm
<1> QED
  BY <1>1, <1>2, <1>3

LEMMA FaultsKept == ASSUME [Next]_vars PROVE faults' = faults
BY DEF Next, vars, Arrive, Lock, Activate, Deactivate, AlreadyServing, Prepare, Look, Pin, Deny,
       Configure, Poll, Stop, Release, Listens, Dies, Peers, Crash

LEMMA SoleAlways == Spec => [](Calm => Sole)
<1>1. LeaseInv /\ (Calm => Sole) /\ [Next]_vars => (Calm => Sole)'
  <2> SUFFICES ASSUME LeaseInv, Calm => Sole, [Next]_vars, Calm' PROVE Sole'
    OBVIOUS
  <2>1. Calm
    BY FaultsKept DEF Calm
  <2>2. CASE UNCHANGED vars
    BY <2>1, <2>2 DEF vars, lease, worked, Sole, NoneDying, SoleWorker, StartsAlone, BootIsAwaited,
                      NoneStale, OffIsOff, Alive
  <2> QED
    BY <2>1, <2>2, SoleCall, SoleAround DEF Next
<1> QED
  BY <1>1, InitSole, LeaseAlways, PTL DEF Spec

(* No two processes share a GPU, neither two workers nor a worker and a peer,
   for any number of requests, processes and GPUs: the one worker that lives
   is the one whose lease is held. *)
THEOREM GpuIsNotShared == Spec => []GpuNotShared
<1>1. LeaseInv /\ (Calm => Sole) => GpuNotShared
  BY NoneAssumption DEF LeaseInv, WorkerPinned, Types, Calm, Sole, SoleWorker, GpuNotShared, Alive
<1> QED
  BY <1>1, LeaseAlways, SoleAlways, PTL

(* After /interactive/off, until the next call, no worker lives and no lease
   of this workload is left, however the requests before it interleaved. *)
THEOREM OffLeavesNothingBehind == Spec => []OffLeavesNothing
<1>1. LeaseInv /\ (Calm => Sole) => OffLeavesNothing
  BY NoneAssumption DEF LeaseInv, Types, Calm, Sole, SoleWorker, NoneStale, OffIsOff, OffLeavesNothing, OurFiles
<1> QED
  BY <1>1, LeaseAlways, SoleAlways, PTL
=============================================================================
