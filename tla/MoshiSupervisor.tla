---------------------------- MODULE MoshiSupervisor ----------------------------
(***************************************************************************)
(* moshi_supervisor: the resident process that starts and stops the CUDA   *)
(* moshi-server on POST /interactive/on and /interactive/off, and the      *)
(* lease files of yk_sentinel by which the local projects keep off each    *)
(* other's GPUs.                                                           *)
(*                                                                         *)
(* Each request has a handler thread; activate and deactivate hold _mu     *)
(* from beginning to end, so what interleaves with them is the worker      *)
(* process and the peers, who create and remove lease files meanwhile.     *)
(* A lease file is "free" (absent), "ours", "stale" (ours, of a dead       *)
(* supervisor), a "peer"'s, or "dead" (of a peer that has died).           *)
(***************************************************************************)
EXTENDS FiniteSets, Integers

CONSTANTS Req,     \* the handler threads
          Proc,    \* the moshi-server processes
          N,       \* total_gpus
          None,
          Scenes   \* the sets of faults that may come together

ASSUME GpuAssumption == N \in Nat
ASSUME NoneAssumption == None \notin Req \cup Proc
ASSUME FaultsAssumption == Scenes \subseteq SUBSET {"config", "slow", "stubborn", "crash"}

Gpu == 0..(N - 1)

VARIABLES faults,  \* fixed at the start: the faults of the environment
          mu,      \* the thread inside _mu, or None
          pc,      \* where each handler thread is
          held,    \* lease_one_gpu's local set of GPUs to avoid
          picked,  \* the GPU activate has leased
          worker,  \* _worker
          proc,    \* each process: "none", "boot", "up" (port 5080) or "dying"
          pin,     \* CUDA_VISIBLE_DEVICES of each process
          file,    \* the lease file of each GPU
          ended    \* history: the call that ended last, "on" or "off"

lease == <<held, picked>>
worked == <<worker, proc, pin>>
vars == <<faults, mu, pc, lease, worked, file, ended>>

OnPc == {"check", "look", "pin", "configure", "poll"}
OffPc == {"stop", "release"}

TypeOK ==
  /\ faults \in Scenes
  /\ mu \in Req \cup {None}
  /\ pc \in [Req -> {"idle", "onWait", "offWait"} \cup OnPc \cup OffPc]
  /\ held \subseteq Gpu
  /\ picked \in Gpu \cup {None}
  /\ worker \in Proc \cup {None}
  /\ proc \in [Proc -> {"none", "boot", "up", "dying"}]
  /\ pin \in [Proc -> Gpu \cup {None}]
  /\ file \in [Gpu -> {"free", "ours", "stale", "peer", "dead"}]
  /\ ended \in {"off", "on"}

Init ==
  /\ faults \in Scenes
  /\ mu = None
  /\ pc = [r \in Req |-> "idle"]
  /\ held = {} /\ picked = None
  /\ worker = None
  /\ proc = [p \in Proc |-> "none"]
  /\ pin = [p \in Proc |-> None]
  /\ file = [g \in Gpu |-> "free"]
  /\ ended = "off"

Alive(p) == proc[p] # "none"
Serving == \E p \in Proc : proc[p] = "up"          \* moshi_serving
OurFiles == {g \in Gpu : file[g] \in {"ours", "stale"}}
Goto(r, label) == pc' = [pc EXCEPT ![r] = label]

(* release_gpu_lease: every file of this workload, whatever its pid. *)
Unleased == [g \in Gpu |-> IF g \in OurFiles THEN "free" ELSE file[g]]

Return(r, call) ==
  /\ Goto(r, "idle")
  /\ mu' = None
  /\ ended' = call

-----------------------------------------------------------------------------
(* The handler: a request arrives and waits for _mu, in no order. *)
Arrive(r) ==
  /\ pc[r] = "idle"
  /\ \E w \in {"onWait", "offWait"} : Goto(r, w)
  /\ UNCHANGED <<faults, mu, lease, worked, file, ended>>

(* The bound on processes: an activate begins only if it can start one. *)
Spare == \E p \in Proc : ~Alive(p)

Lock(r) ==
  /\ pc[r] \in {"onWait", "offWait"}
  /\ mu = None
  /\ pc[r] = "onWait" => Spare
  /\ mu' = r
  /\ Goto(r, IF pc[r] = "onWait" THEN "check" ELSE "stop")
  /\ UNCHANGED <<faults, lease, worked, file, ended>>

-----------------------------------------------------------------------------
(* activate *)

AlreadyServing(r) ==
  /\ pc[r] = "check"
  /\ worker # None /\ Alive(worker) /\ Serving
  /\ Return(r, "on")
  /\ UNCHANGED <<faults, lease, worked, file>>

(* Mutant: the lease of a worker that has exited is kept. *)
PrepareKeepsLease(r) ==
  /\ pc[r] = "check"
  /\ \/ worker # None /\ ~Alive(worker) /\ worker' = None
     \/ worker = None /\ UNCHANGED worker
     \/ worker # None /\ Alive(worker) /\ ~Serving /\ UNCHANGED worker
  /\ Goto(r, "look")
  /\ UNCHANGED <<faults, mu, ended, file, lease, proc, pin>>

(* Mutant: the lease is released without looking whether the worker lives. *)
PrepareReleases(r) ==
  /\ pc[r] = "check"
  /\ ~(worker # None /\ Alive(worker) /\ Serving)
  /\ worker' = IF worker # None /\ Alive(worker) THEN worker ELSE None
  /\ file' = Unleased
  /\ Goto(r, "look")
  /\ UNCHANGED <<faults, mu, ended, lease, proc, pin>>

(* A worker that has exited is forgotten, and its lease with it.  The binary
   or its interpreter may be missing. *)
Prepare(r) ==
  /\ pc[r] = "check"
  /\ \/ worker # None /\ ~Alive(worker) /\ worker' = None /\ file' = Unleased
     \/ worker = None /\ UNCHANGED <<worker, file>>
     \/ worker # None /\ Alive(worker) /\ ~Serving /\ UNCHANGED <<worker, file>>
  /\ \/ Goto(r, "look") /\ UNCHANGED <<mu, ended>>
     \/ "config" \in faults /\ Return(r, "on")
  /\ UNCHANGED <<faults, lease, proc, pin>>

(* lease_one_gpu: what peers say they hold and live leases say, except ours. *)
Look(r) ==
  /\ pc[r] = "look"
  /\ held' = {g \in Gpu : file[g] = "peer"}
  /\ picked' = None
  /\ Goto(r, "pin")
  /\ UNCHANGED <<faults, mu, worked, file, ended>>

(* Mutant: GPUs are counted from 1. *)
PinFromOne(r) ==
  /\ pc[r] = "pin"
  /\ \E g \in Gpu \ held :
       /\ \A h \in Gpu \ held : h <= g
       /\ file[g] = "free"
       /\ file' = [file EXCEPT ![g] = "ours"]
       /\ picked' = g + 1
  /\ Goto(r, "configure")
  /\ UNCHANGED <<faults, mu, worked, ended, held>>

(* pick_agent_rtc_gpu takes the last free index; an existing file, whoever
   left it, makes the exclusive create fail and the next index be tried. *)
Pin(r) ==
  /\ pc[r] = "pin"
  /\ \E g \in Gpu \ held :
       /\ \A h \in Gpu \ held : h <= g
       /\ \/ /\ file[g] = "free"
             /\ file' = [file EXCEPT ![g] = "ours"]
             /\ picked' = g
             /\ Goto(r, "configure")
             /\ UNCHANGED held
          \/ /\ file[g] # "free"
             /\ held' = held \cup {g}
             /\ UNCHANGED <<pc, file, picked>>
  /\ UNCHANGED <<faults, mu, worked, ended>>

Deny(r) ==
  /\ pc[r] = "pin"
  /\ Gpu \subseteq held
  /\ Return(r, "on")
  /\ UNCHANGED <<faults, lease, worked, file>>

(* The config file and libpython are looked for once the GPU is leased. *)
Configure(r) ==
  /\ pc[r] = "configure"
  /\ \/ /\ \E p \in Proc :
             /\ ~Alive(p)
             /\ worker' = p
             /\ proc' = [proc EXCEPT ![p] = "boot"]
             /\ pin' = [pin EXCEPT ![p] = picked]
        /\ Goto(r, "poll")
        /\ UNCHANGED <<mu, ended>>
     \/ /\ "config" \in faults
        /\ Return(r, "on")
        /\ UNCHANGED worked
  /\ UNCHANGED <<faults, lease, file>>

(* Mutant: only a listening port ends the wait. *)
PollUntilServing(r) ==
  /\ pc[r] = "poll"
  /\ Serving
  /\ Return(r, "on")
  /\ UNCHANGED <<faults, lease, worked, file>>

(* The worker exits, or something listens, or, after 300 s, neither. *)
Poll(r) ==
  /\ pc[r] = "poll"
  /\ ~Alive(worker) \/ Serving \/ "slow" \in faults
  /\ Return(r, "on")
  /\ UNCHANGED <<faults, lease, worked, file>>

-----------------------------------------------------------------------------
(* Mutant: the worker is forgotten without being terminated. *)
StopForgets(r) ==
  /\ pc[r] = "stop"
  /\ worker' = None
  /\ Goto(r, "release")
  /\ UNCHANGED <<faults, mu, lease, proc, pin, file, ended>>

(* Mutant: the worker is terminated and never waited for. *)
StopDoesNotWait(r) ==
  /\ pc[r] = "stop"
  /\ worker' = None
  /\ IF worker # None /\ Alive(worker)
       THEN proc' = [proc EXCEPT ![worker] = "dying"]
       ELSE UNCHANGED proc
  /\ Goto(r, "release")
  /\ UNCHANGED <<faults, mu, lease, pin, file, ended>>

(* deactivate: terminate and wait 10 s, or kill without waiting. *)
Stop(r) ==
  /\ pc[r] = "stop"
  /\ worker' = None
  /\ \/ worker = None /\ UNCHANGED proc
     \/ worker # None /\ proc' = [proc EXCEPT ![worker] = "none"]
     \/ worker # None /\ Alive(worker) /\ "stubborn" \in faults
        /\ proc' = [proc EXCEPT ![worker] = "dying"]
  /\ Goto(r, "release")
  /\ UNCHANGED <<faults, mu, lease, pin, file, ended>>

Release(r) ==
  /\ pc[r] = "release"
  /\ file' = Unleased
  /\ Return(r, "off")
  /\ UNCHANGED <<faults, lease, worked>>

-----------------------------------------------------------------------------
(* The moshi-server processes *)

(* One process at a time can listen on the port; another one exits. *)
Listens(p) ==
  /\ proc[p] = "boot"
  /\ proc' = [proc EXCEPT ![p] = IF Serving THEN "none" ELSE "up"]
  /\ UNCHANGED <<faults, mu, pc, lease, worker, pin, file, ended>>

Dies(p) ==
  /\ Alive(p)
  /\ proc' = [proc EXCEPT ![p] = "none"]
  /\ UNCHANGED <<faults, mu, pc, lease, worker, pin, file, ended>>

-----------------------------------------------------------------------------
(* The peers, who create lease files exclusively too, and die. *)
PeerPins(g) == file[g] = "free" /\ file' = [file EXCEPT ![g] = "peer"]
PeerReleases(g) == file[g] = "peer" /\ file' = [file EXCEPT ![g] = "free"]
PeerDies(g) == file[g] = "peer" /\ file' = [file EXCEPT ![g] = "dead"]

Peers ==
  /\ \E g \in Gpu : PeerPins(g) \/ PeerReleases(g) \/ PeerDies(g)
  /\ UNCHANGED <<faults, mu, pc, lease, worked, ended>>

(* The supervisor is killed and started again; its worker lives on. *)
Crash ==
  /\ "crash" \in faults
  /\ mu' = None
  /\ pc' = [r \in Req |-> "idle"]
  /\ worker' = None
  /\ file' = [g \in Gpu |-> IF file[g] = "ours" THEN "stale" ELSE file[g]]
  /\ UNCHANGED <<faults, lease, proc, pin, ended>>

-----------------------------------------------------------------------------
Activate(r) ==
  \/ AlreadyServing(r) \/ Prepare(r) \/ Look(r) \/ Pin(r) \/ Deny(r)
  \/ Configure(r) \/ Poll(r)
Deactivate(r) == Stop(r) \/ Release(r)

Next ==
  \/ \E r \in Req : Arrive(r) \/ Lock(r) \/ Activate(r) \/ Deactivate(r)
  \/ \E p \in Proc : Listens(p) \/ Dies(p)
  \/ Peers \/ Crash

(* A thread inside _mu runs on, a booting worker listens or exits, and a killed
   one dies.  No request is obliged to come, and the unordered lock need not be fair. *)
Fairness ==
  /\ \A r \in Req : WF_vars(Activate(r) \/ Deactivate(r))
  /\ \A p \in Proc : WF_vars(Listens(p)) /\ WF_vars(proc[p] = "dying" /\ Dies(p))

Spec == Init /\ [][Next]_vars
FairSpec == Spec /\ Fairness

-----------------------------------------------------------------------------
(* Properties *)

(* The worker the supervisor knows runs on a GPU it has leased, from before
   it is started until it is stopped or found dead. *)
WorkerLeased == worker # None /\ Alive(worker) => file[pin[worker]] = "ours"

(* No two processes share a GPU: neither two workers nor a worker and a peer.
   A worker that a slow start or a crash of the supervisor left behind keeps
   its GPU when the lease is released, and so does a killed one while it dies. *)
GpuNotShared ==
  faults \subseteq {"config"} =>
    /\ \A p \in Proc : Alive(p) => file[pin[p]] \notin {"peer", "dead"}
    /\ \A p, q \in Proc : Alive(p) /\ Alive(q) /\ pin[p] = pin[q] => p = q

(* Between calls this workload holds at most its one GPU token.  A missing
   configuration, a slow start or a crash leaves a token behind. *)
OneToken == faults \subseteq {"stubborn"} /\ mu = None => Cardinality(OurFiles) <= 1

(* /interactive/off stops moshi: after it, until the next call, no worker
   lives and no lease is left. *)
OffLeavesNothing ==
  faults \subseteq {"config"} /\ mu = None /\ ended = "off" =>
    OurFiles = {} /\ \A p \in Proc : ~Alive(p)

(* The same however slow a start is: a worker whose start timed out is
   forgotten by the next activate and outlives /interactive/off. *)
OffAlwaysLeavesNothing ==
  mu = None /\ ended = "off" => OurFiles = {} /\ \A p \in Proc : ~Alive(p)

(* A request that has got its turn is answered and gives _mu back, whatever
   becomes of the worker it waits for. *)
RequestsReturn == \A r \in Req : mu = r ~> pc[r] = "idle"
=============================================================================
