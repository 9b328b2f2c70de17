-------------------------- MODULE InteractivePosture --------------------------
(***************************************************************************)
(* interactive.enter and interactive.leave: the interactive posture of the *)
(* engine.  A call runs in a worker thread of its own (asyncio.to_thread)  *)
(* and holds the lock _mu only around its reads and writes of _refcount,   *)
(* _active and _lease, so each locked region, RPC and supervisor request   *)
(* is one step and calls interleave between them.                          *)
(*                                                                         *)
(* Here every session that entered leaves once; WebRtcHub replaces that    *)
(* caller by the hub.                                                      *)
(***************************************************************************)
EXTENDS PreprintsWindow, Integers

CONSTANT MaxCount    \* a key goes missing only while _refcount is at most this

ASSUME SessionAssumption == IsFiniteSet(Session)
ASSUME BoundsAssumption == MaxCount \in Nat

VARIABLES refcount,  \* interactive._refcount
          lease,     \* interactive._lease
          sig,       \* the interactive_session activities, as Signals sees them
          moshi,     \* the moshi worker: "off", "booting" or "on" (port 5080 open)
          phase,     \* the engine process: "boot", "serve" or "stop"
          holders    \* sessions whose enter took the posture and who have not left

postureVars == <<refcount, lease, sig, moshi, phase, holders>>
vars == <<scene, pc, held, active, winVars, postureVars>>

EnterPc == {"reuse", "reuseOn", "reuseCheck", "key", "stale", "declare",
            "moshi", "moshiCheck", "undo", "undoTimeout"}
AfterPc == {"commit", "undoOff", "undoRelease", "off", "release"}

(* Sessions counted in _refcount: holders, and enters not yet undone. *)
Entering == {s \in Session : pc[s] \in EnterPc \cup {"commit"}}
Counted == holders \cup Entering

InFlight == {s \in Session : pc[s] # "idle"}
Quiescent == phase = "serve" /\ \A t \in Thread : pc[t] = "idle"

Minus1(n) == n - 1    \* Mutant: not clamped.

NatMinus1(n) == IF n > 0 THEN n - 1 ELSE 0    \* max(0, n - 1)

TypeOK ==
  /\ scene \in Scenes
  /\ pc \in [Thread -> {"idle"} \cup EnterPc \cup AfterPc \cup WinPc]
  /\ held \in [Thread -> Act \cup {None}]
  /\ active \in BOOLEAN
  /\ WinTypeOK
  /\ refcount \in Nat
  /\ lease \in Act \cup {None}
  /\ sig \in [Act -> Sig]
  /\ moshi \in {"off", "booting", "on"}
  /\ phase \in {"boot", "serve", "stop"}
  /\ holders \in SUBSET Session

(* serve() reconciles the window before it accepts a session. *)
Init ==
  /\ scene \in Scenes
  /\ pc = [t \in Thread |-> IF t = Main THEN "urgent" ELSE "idle"]
  /\ held = [t \in Thread |-> None]
  /\ active = FALSE
  /\ WinInit
  /\ refcount = 0
  /\ lease = None
  /\ sig = [a \in Act |-> "none"]
  /\ moshi = "off"
  /\ phase = "boot"
  /\ holders = {}

-----------------------------------------------------------------------------
(* enter *)

MayCall(s) == phase = "serve" /\ pc[s] = "idle" /\ Cardinality(InFlight) < MaxCalls

EnterCount(s) ==
  /\ MayCall(s)
  /\ s \notin holders
  /\ refcount' = refcount + 1
  /\ Goto(s, IF refcount' > 1 /\ active THEN "reuse" ELSE "key")
  /\ UNCHANGED <<scene, held, active, winVars, lease, sig, moshi, phase, holders>>

(* The posture is on: a serving moshi is enough. *)
Reuse(s) ==
  /\ pc[s] = "reuse"
  /\ \/ /\ moshi = "on"
        /\ holders' = holders \cup {s}
        /\ Goto(s, "idle")
     \/ /\ moshi # "on"
        /\ Goto(s, "reuseOn")
        /\ UNCHANGED holders
  /\ UNCHANGED <<scene, held, active, winVars, refcount, lease, sig, moshi, phase>>

(* _moshi_on: the supervisor answers with a serving moshi, and the caller
   looks again, because a leave may have stopped it in between. *)
MoshiOn(s) ==
  /\ pc[s] \in {"reuseOn", "moshi"}
  /\ moshi' = "on"
  /\ Goto(s, IF pc[s] = "moshi" THEN "moshiCheck" ELSE "reuseCheck")
  /\ UNCHANGED <<scene, held, active, winVars, refcount, lease, sig, phase, holders>>

(* The supervisor refuses, or the client gives up on a worker that boots. *)
MoshiGivesUp ==
  \/ UNCHANGED moshi
  \/ moshi' = IF moshi = "off" THEN "booting" ELSE moshi

ReuseCheck(s) ==
  /\ pc[s] = "reuseCheck"
  /\ moshi = "on"
  /\ holders' = holders \cup {s}
  /\ Goto(s, "idle")
  /\ UNCHANGED <<scene, held, active, winVars, refcount, lease, sig, moshi, phase>>

(* A reuse that fails takes only its count back. *)
ReuseFails(s) ==
  /\ \/ pc[s] = "reuseOn" /\ "moshi" \in Faults /\ MoshiGivesUp
     \/ pc[s] = "reuseCheck" /\ moshi # "on" /\ UNCHANGED moshi
  /\ refcount' = NatMinus1(refcount)
  /\ Goto(s, "idle")
  /\ UNCHANGED <<scene, held, active, winVars, lease, sig, phase, holders>>

(* _cerebras_key raises before the try: nothing is taken back. *)
CheckKey(s) ==
  /\ pc[s] = "key"
  /\ \/ Goto(s, "stale")
     \/ "key" \in Faults /\ refcount <= MaxCount /\ Goto(s, "idle")
  /\ UNCHANGED <<scene, held, active, winVars, postureVars>>

(* release_stale_interactive: end every activity of ours that Signals lists. *)
ReleaseStale(s) ==
  /\ pc[s] = "stale"
  /\ \E failed \in MayFail(InForce(sig)) :
       sig' = Released(sig, InForce(sig), {}, failed)
  /\ Goto(s, "declare")
  /\ UNCHANGED <<scene, held, active, winVars, refcount, lease, moshi, phase, holders>>

Declare(s) ==
  /\ pc[s] = "declare"
  /\ \E a \in Act \ (InForce(sig) \cup {lease} \cup {held[t] : t \in Thread}) :
       /\ sig' = [sig EXCEPT ![a] = "silent"]
       /\ held' = [held EXCEPT ![s] = a]
  /\ \/ Goto(s, "moshi")
     \/ "signals" \in Faults /\ Goto(s, "undo")   \* _require_declared_workload: DENY
  /\ UNCHANGED <<scene, active, winVars, refcount, lease, moshi, phase, holders>>

DeclareRefused(s) ==
  /\ pc[s] = "declare"
  /\ "signals" \in Faults
  /\ Goto(s, "undo")
  /\ UNCHANGED <<scene, held, active, winVars, postureVars>>

MoshiCheck(s) ==
  /\ pc[s] = "moshiCheck"
  /\ Goto(s, IF moshi = "on" THEN "commit" ELSE "undo")
  /\ UNCHANGED <<scene, held, active, winVars, postureVars>>

MoshiFails(s) ==
  /\ pc[s] = "moshi"
  /\ "moshi" \in Faults
  /\ MoshiGivesUp
  /\ Goto(s, IF moshi' = "booting" THEN "undoTimeout" ELSE "undo")
  /\ UNCHANGED <<scene, held, active, winVars, refcount, lease, sig, phase, holders>>

(* Mutant: the failed enter keeps its count. *)
UndoKeepsCount(s) ==
  /\ pc[s] \in {"undo", "undoTimeout"}
  /\ active' = FALSE
  /\ lease' = None
  /\ Goto(s, IF pc[s] = "undo" THEN "undoOff" ELSE "undoRelease")
  /\ UNCHANGED <<scene, held, winVars, refcount, sig, moshi, phase, holders>>

(* except, under _mu: the posture is cleared whoever set it. *)
UndoCount(s) ==
  /\ pc[s] \in {"undo", "undoTimeout"}
  /\ refcount' = NatMinus1(refcount)
  /\ active' = FALSE
  /\ lease' = None
  /\ Goto(s, IF pc[s] = "undo" THEN "undoOff" ELSE "undoRelease")
  /\ UNCHANGED <<scene, held, winVars, sig, moshi, phase, holders>>

(* Mutant: moshi is left to its supervisor. *)
MoshiOffSkipped(s) ==
  /\ pc[s] \in {"undoOff", "off"}
  /\ Goto(s, IF pc[s] = "undoOff" THEN "undoRelease" ELSE "release")
  /\ UNCHANGED <<scene, held, active, winVars, refcount, lease, sig, moshi, phase, holders>>

(* _moshi_off: a failed request is logged. *)
MoshiOff(s) ==
  /\ pc[s] \in {"undoOff", "off"}
  /\ \/ moshi' = "off"
     \/ "moshi" \in Faults /\ UNCHANGED moshi
  /\ Goto(s, IF pc[s] = "undoOff" THEN "undoRelease" ELSE "release")
  /\ UNCHANGED <<scene, held, active, winVars, refcount, lease, sig, phase, holders>>

(* Mutant: the heartbeat is stopped only after a release that succeeds. *)
ReleaseBeforeStop(s) ==
  /\ pc[s] \in {"undoRelease", "release"}
  /\ LET S == {held[s]} \ {None}
     IN  \E failed \in MayFail(S) : sig' = Released(sig, S, {}, failed)
  /\ held' = [held EXCEPT ![s] = None]
  /\ Goto(s, IF pc[s] = "undoRelease" THEN "idle" ELSE "urgent")
  /\ UNCHANGED <<scene, active, winVars, refcount, lease, moshi, phase, holders>>

(* lease.release; a failed enter then raises, a leave goes on to reconcile. *)
ReleaseHeld(s) ==
  /\ pc[s] \in {"undoRelease", "release"}
  /\ LET S == {held[s]} \ {None}
     IN  \E failed \in MayFail(S) : sig' = Released(sig, S, S, failed)
  /\ held' = [held EXCEPT ![s] = None]
  /\ Goto(s, IF pc[s] = "undoRelease" THEN "idle" ELSE "urgent")
  /\ UNCHANGED <<scene, active, winVars, refcount, lease, moshi, phase, holders>>

(* Mutant: the session is published without its heartbeat. *)
CommitWithoutRenewing(s) ==
  /\ pc[s] = "commit"
  /\ active' = TRUE
  /\ lease' = held[s]
  /\ held' = [held EXCEPT ![s] = None]
  /\ holders' = holders \cup {s}
  /\ Goto(s, "urgent")
  /\ UNCHANGED <<scene, winVars, refcount, sig, moshi, phase>>

(* start_renewing, then, under _mu, the posture; an activity that another
   enter ended meanwhile stays ended, its renewals refused. *)
Commit(s) ==
  /\ pc[s] = "commit"
  /\ sig' = [sig EXCEPT ![held[s]] = IF @ = "silent" THEN "live" ELSE @]
  /\ active' = TRUE
  /\ lease' = held[s]
  /\ held' = [held EXCEPT ![s] = None]
  /\ holders' = holders \cup {s}
  /\ Goto(s, "urgent")
  /\ UNCHANGED <<scene, winVars, refcount, moshi, phase>>

-----------------------------------------------------------------------------
(* leave *)

(* Mutant: the first hangup ends the posture, whoever else is counted. *)
LeaveFirstOut(t) ==
  /\ refcount' = NatMinus1(refcount)
  /\ active' = FALSE
  /\ held' = [held EXCEPT ![t] = lease]
  /\ lease' = None
  /\ Goto(t, "off")
  /\ holders' = holders \ {t}
  /\ UNCHANGED <<scene, winVars, sig, moshi>>

(* Mutant: the lease is read but not taken out of _lease. *)
LeaveKeepsLease(t) ==
  /\ refcount' = NatMinus1(refcount)
  /\ IF refcount' > 0
     THEN Goto(t, "idle") /\ UNCHANGED <<held, active>>
     ELSE /\ active' = FALSE
          /\ held' = [held EXCEPT ![t] = lease]
          /\ Goto(t, "off")
  /\ holders' = holders \ {t}
  /\ UNCHANGED <<scene, winVars, sig, lease, moshi>>

LeaveCounted(t) ==
  /\ refcount' = NatMinus1(refcount)
  /\ \/ /\ refcount' > 0
        /\ Goto(t, "idle")
        /\ UNCHANGED <<held, active, lease>>
     \/ /\ refcount' = 0
        /\ active' = FALSE
        /\ held' = [held EXCEPT ![t] = lease]
        /\ lease' = None
        /\ Goto(t, "off")
  /\ holders' = holders \ {t}
  /\ UNCHANGED <<scene, winVars, sig, moshi>>

LeaveCount(s) ==
  /\ MayCall(s)
  /\ s \in holders
  /\ LeaveCounted(s)
  /\ UNCHANGED phase

-----------------------------------------------------------------------------
(* The engine process *)

Serve ==
  /\ phase = "boot"
  /\ pc[Main] = "idle"
  /\ phase' = "serve"
  /\ UNCHANGED <<scene, pc, held, active, winVars, refcount, lease, sig, moshi, holders>>

(* serve() ends: one leave("engine-stop"), however many sessions are up. *)
EngineStop ==
  /\ "restart" \in Faults
  /\ phase = "serve"
  /\ phase' = "stop"
  /\ LeaveCounted(Main)

(* The process ends, after its stop or by a crash, and starts again.  Its
   threads and globals go; Signals, the moshi supervisor and the worker stay. *)
Restart ==
  /\ "restart" \in Faults
  /\ pc' = [t \in Thread |-> IF t = Main THEN "urgent" ELSE "idle"]
  /\ held' = [t \in Thread |-> None]
  /\ active' = FALSE
  /\ refcount' = 0
  /\ lease' = None
  /\ winLease' = None
  /\ holders' = {}
  /\ phase' = "boot"
  /\ sig' = [a \in Act |-> IF sig[a] = "live" THEN "silent" ELSE sig[a]]
  /\ winSig' = [a \in Act |-> IF winSig[a] = "live" THEN "silent" ELSE winSig[a]]
  /\ UNCHANGED <<scene, worker, moshi>>

-----------------------------------------------------------------------------
(* Signals and the supervisor *)

(* A silent activity lapses.  One whose enter is still waiting for moshi is
   silent too, and lapses when that takes longer than the TTL of 180 s. *)
Awaited == {held[s] : s \in {t \in Session : pc[t] \in {"moshi", "moshiCheck", "commit"}}}

Lapse ==
  /\ \E a \in Act :
       /\ \/ sig[a] = "silent" /\ (a \in Awaited => "slow" \in Faults)
          \/ sig[a] = "live" /\ "signals" \in Faults
       /\ sig' = [sig EXCEPT ![a] = "none"]
  /\ UNCHANGED <<scene, pc, held, active, winVars, refcount, lease, moshi, phase, holders>>

MoshiBooted ==
  /\ moshi = "booting"
  /\ moshi' \in {"on", "off"}
  /\ UNCHANGED <<scene, pc, held, active, winVars, refcount, lease, sig, phase, holders>>

MoshiDies ==
  /\ "moshi" \in Faults
  /\ moshi = "on"
  /\ moshi' = "off"
  /\ UNCHANGED <<scene, pc, held, active, winVars, refcount, lease, sig, phase, holders>>

-----------------------------------------------------------------------------
(* Without a heartbeat an activity is sure to lapse. *)
Unrenewed == \E a \in Act : sig[a] = "silent" /\ sig'[a] = "none"
WinUnrenewed == \E a \in Act : winSig[a] = "silent" /\ winSig'[a] = "none"

EnterStep(s) ==
  \/ Reuse(s) \/ MoshiOn(s) \/ ReuseCheck(s) \/ ReuseFails(s)
  \/ CheckKey(s) \/ ReleaseStale(s) \/ Declare(s) \/ DeclareRefused(s)
  \/ MoshiCheck(s) \/ MoshiFails(s) \/ UndoCount(s) \/ Commit(s)

CallStep(t) ==
  \/ MoshiOff(t) \/ ReleaseHeld(t)
  \/ Reconcile(t) /\ UNCHANGED postureVars

Environment ==
  \/ Lapse \/ MoshiBooted \/ MoshiDies
  \/ WindowLapse /\ UNCHANGED postureVars

Next ==
  \/ \E s \in Session : EnterCount(s) \/ EnterStep(s) \/ LeaveCount(s)
  \/ \E t \in Thread : CallStep(t)
  \/ Serve \/ EngineStop \/ Restart
  \/ Environment

(* A call that has started runs on; the clock of Signals does not stop; an
   engine that stops exits and is started again by its service.  No session is obliged to enter or to leave, and no fault to happen. *)
Fairness ==
  /\ \A s \in Session : WF_vars(EnterStep(s))
  /\ \A t \in Thread : WF_vars(CallStep(t))
  /\ WF_vars(Serve)
  /\ WF_vars(Lapse /\ Unrenewed)
  /\ WF_vars(WindowLapse /\ WinUnrenewed /\ UNCHANGED postureVars)
  /\ WF_vars(MoshiBooted)
  /\ WF_vars(phase = "stop" /\ Restart)

Spec == Init /\ [][Next]_vars
FairSpec == Spec /\ Fairness
-----------------------------------------------------------------------------
(* Properties *)

(* _refcount is exactly the number of sessions that hold the posture or are
   taking it, however their calls overlap: no path of enter or leave counts
   twice or forgets, and max(0, n - 1) never hides a miscount.  The missing
   Cerebras key is the one path that forgets. *)
RefcountExact ==
  "key" \notin Faults /\ phase # "stop" => refcount = Cardinality(Counted)

(* Threads that own the interactive lease in their local variable. *)
Owners == {t \in Thread : pc[t] \in {"moshi", "moshiCheck", "commit", "undo", "undoTimeout",
                                    "undoOff", "undoRelease", "off", "release"}
                        /\ held[t] # None}

(* Each declared activity has at most one owner, _lease or one thread, so
   none is released by two hangups or published under two sessions; and the
   posture flag and the lease change together. *)
LeaseOwnedOnce ==
  /\ active <=> lease # None
  /\ \A t \in Owners : held[t] # lease
  /\ \A t, u \in Owners : held[t] = held[u] => t = u

(* Calls that do not overlap.  What overlapping ones may leave behind is said
   at each property. *)
Serial == scene.calls = 1

(* Between calls the posture is on exactly while some session holds it.  A
   key that goes missing leaves a count that no hangup takes back, and an
   enter that fails ends the posture under one that overlapped it. *)
PostureFollowsHolders ==
  Quiescent /\ Serial /\ "key" \notin Faults => (active <=> holders # {})

(* Between calls the only heartbeats are those of the recorded leases: an
   activity nobody owns is never kept in force, so peers get their GPUs back;
   and while Signals answers, a session that is up is declared.  Of two first
   enters that overlap, one leaves a heartbeat that nobody stops; a start of
   moshi longer than the TTL loses the activity before its first heartbeat. *)
HeartbeatsOwned ==
  Quiescent /\ Serial =>
    /\ {a \in Act : sig[a] = "live"} \subseteq {lease}
    /\ {a \in Act : winSig[a] = "live"} \subseteq {winLease}
    /\ active /\ {"signals", "slow"} \cap Faults = {} => sig[lease] = "live"

(* Between calls the preprints worker runs only in a session whose Mistral
   window was declared, and no window outlives the last hangup.  When two
   reconciles overlap, the one that saw the older posture may act last. *)
WorkerFollowsPosture ==
  Quiescent /\ Serial =>
    /\ worker => active /\ winLease # None
    /\ winLease # None => active

(* Between calls, while the supervisor answers and the engine is not
   restarted, moshi serves exactly the sessions that hold the posture. *)
MoshiFollowsHolders ==
  Quiescent /\ Serial /\ {"moshi", "key", "restart"} \cap Faults = {} =>
    (moshi = "on" <=> holders # {})

(* The three together: what is declared, what runs and what serves between
   calls is what the sessions that are up ask for. *)
FollowsHolders == PostureFollowsHolders /\ WorkerFollowsPosture /\ MoshiFollowsHolders

(* Once nobody holds or takes the posture, everything declared for it ends:
   a release that failed is replaced by the lapse of its lease. *)
AbandonedPostureEnds ==
  <>[](holders = {} /\ InFlight = {})
    => <>[](InForce(sig) = {} /\ InForce(winSig) = {})

(* What peers may rely on: the whole protocol of locks, RPCs and supervisor
   requests implements the posture of PostureContract, for calls that do not
   overlap; an engine that keeps restarting need not get to stop the worker. *)
Contract == INSTANCE PostureContract WITH
              up <- phase = "serve",
              on <- active,
              beats <- (\E a \in Act : sig[a] = "live"),
              worker <- worker
ImplementsContract ==
  /\ Contract!Spec
  /\ Contract!ClaimFairness
  /\ "restart" \notin Faults => Contract!WorkerFairness
=============================================================================
