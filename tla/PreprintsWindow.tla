--------------------------- MODULE PreprintsWindow ---------------------------
(***************************************************************************)
(* The tail of every posture change: signals_preprints_session.reconcile   *)
(* matches the Mistral window (a Signals activity of kind mistral_preprint *)
(* and a worker process) to the posture flag.  It runs in the thread of    *)
(* the enter or leave that called it and takes no lock, so two threads may *)
(* be inside it at once; every read, RPC and write below is a step.        *)
(*                                                                         *)
(* A Signals activity of this process is one of three things:              *)
(*   "none"    not in force (never declared, released, or lapsed)          *)
(*   "silent"  in force, no heartbeat thread: lapses after its TTL         *)
(*   "live"    in force and renewed by a heartbeat thread of this process  *)
(***************************************************************************)
EXTENDS FiniteSets, Naturals

CONSTANTS Session,   \* the RTC sessions, each with a thread for its calls
          Main,      \* the engine's own thread: server.serve
          Act,       \* activity identities (UUIDv7 in the code)
          None,      \* Python's None
          Scenes     \* what a behaviour may meet, see scene

ASSUME NamesAssumption == Main \notin Session /\ None \notin Act
ASSUME ScenesAssumption ==
  Scenes \subseteq [calls  : Nat \ {0},
                   faults : SUBSET {"key", "signals", "moshi", "slow", "sdp", "restart"}]

VARIABLES scene,     \* fixed at the start: how many calls of enter and leave may be in
                     \* flight at once, and the faults of the environment
          pc,        \* where each thread is; "idle" outside a call
          held,      \* the activity each thread has in a local variable
          active,    \* interactive._active
          winLease,  \* signals_preprints_session._LEASE
          winSig,    \* the mistral_preprint activities, as Signals sees them
          worker     \* a signals-preprints worker process is running

Thread == Session \cup {Main}

winVars == <<winLease, winSig, worker>>

Sig == {"none", "silent", "live"}
WinPc == {"urgent", "winEnsure", "winDeclare", "winStart",
          "winDrop", "winRelease", "winStop"}

MaxCalls == scene.calls
Faults == scene.faults

Goto(s, label) == pc' = [pc EXCEPT ![s] = label]

InForce(sig) == {a \in Act : sig[a] # "none"}

(* ReleaseActivity for the activities of S: Signals ends each, or fails the
   RPC, which is logged; an activity in `stopped` has lost its heartbeat
   (ActivityLease.release sets _stop before the RPC), so it is left silent. *)
Released(sig, S, stopped, failed) ==
  [a \in Act |-> IF a \notin S THEN sig[a]
                 ELSE IF a \notin failed THEN "none"
                 ELSE IF a \in stopped /\ sig[a] = "live" THEN "silent"
                 ELSE sig[a]]

MayFail(S) == IF "signals" \in Faults THEN SUBSET S ELSE {{}}

WinTypeOK ==
  /\ winLease \in Act \cup {None}
  /\ winSig \in [Act -> Sig]
  /\ worker \in BOOLEAN

WinInit ==
  /\ winLease = None
  /\ winSig = [a \in Act |-> "none"]
  /\ worker = FALSE

-----------------------------------------------------------------------------
(* reconcile: urgent() reads the posture flag once. *)
ReadUrgent(s) ==
  /\ pc[s] = "urgent"
  /\ Goto(s, IF active THEN "winEnsure" ELSE "winDrop")
  /\ UNCHANGED <<scene, held, active, winVars>>

(* _ensure_declared: a lease already recorded is kept; otherwise
   release_stale_kind ends what Signals still lists of this kind. *)
EnsureDeclared(s) ==
  /\ pc[s] = "winEnsure"
  /\ \/ /\ winLease # None
        /\ Goto(s, "winStart")
        /\ UNCHANGED winSig
     \/ /\ winLease = None
        /\ \E failed \in MayFail(InForce(winSig)) :
              winSig' = Released(winSig, InForce(winSig), {}, failed)
        /\ Goto(s, "winDeclare")
  /\ UNCHANGED <<scene, held, active, winLease, worker>>

(* declare_mistral_preprint and start_renewing; the lease replaces whatever
   _LEASE holds by now. *)
DeclareWindow(s) ==
  /\ pc[s] = "winDeclare"
  /\ \E a \in Act \ (InForce(winSig) \cup {winLease}) :
       /\ winSig' = [winSig EXCEPT ![a] = "live"]
       /\ winLease' = a
  /\ Goto(s, "winStart")
  /\ UNCHANGED <<scene, held, active, worker>>

(* The declare is refused: reconcile returns without a worker. *)
DeclareWindowRefused(s) ==
  /\ pc[s] = "winDeclare"
  /\ "signals" \in Faults
  /\ Goto(s, "idle")
  /\ UNCHANGED <<scene, held, active, winVars>>

(* start: a worker whose pidfile is alive is kept, or one is spawned. *)
StartWorker(s) ==
  /\ pc[s] = "winStart"
  /\ worker' = TRUE
  /\ Goto(s, "idle")
  /\ UNCHANGED <<scene, held, active, winLease, winSig>>

(* _release_declared: the module's lease moves to a local. *)
DropWindow(s) ==
  /\ pc[s] = "winDrop"
  /\ held' = [held EXCEPT ![s] = winLease]
  /\ winLease' = None
  /\ Goto(s, "winRelease")
  /\ UNCHANGED <<scene, active, winSig, worker>>

(* Release that lease, or, when there was none, every stale activity. *)
ReleaseWindow(s) ==
  /\ pc[s] = "winRelease"
  /\ LET S == IF held[s] # None THEN {held[s]} ELSE InForce(winSig)
     IN  \E failed \in MayFail(S) :
           winSig' = Released(winSig, S, {held[s]}, failed)
  /\ held' = [held EXCEPT ![s] = None]
  /\ Goto(s, "winStop")
  /\ UNCHANGED <<scene, active, winLease, worker>>

(* Mutant: a worker whose pidfile is missing is not found. *)
StopWorkerByPidfile(s) ==
  /\ pc[s] = "winStop"
  /\ worker' \in {worker, FALSE}
  /\ Goto(s, "idle")
  /\ UNCHANGED <<scene, held, active, winLease, winSig>>

(* stop: every worker process is terminated, by pidfile and by command. *)
StopWorker(s) ==
  /\ pc[s] = "winStop"
  /\ worker' = FALSE
  /\ Goto(s, "idle")
  /\ UNCHANGED <<scene, held, active, winLease, winSig>>

(* Signals: an activity nobody renews lapses after its TTL; renewals that
   keep failing lapse a live one. *)
WindowLapse ==
  /\ \E a \in Act :
       /\ winSig[a] = "silent" \/ (winSig[a] = "live" /\ "signals" \in Faults)
       /\ winSig' = [winSig EXCEPT ![a] = "none"]
  /\ UNCHANGED <<scene, pc, held, active, winLease, worker>>

Reconcile(s) ==
  \/ ReadUrgent(s)
  \/ EnsureDeclared(s) \/ DeclareWindow(s) \/ DeclareWindowRefused(s)
  \/ StartWorker(s)
  \/ DropWindow(s) \/ ReleaseWindow(s) \/ StopWorker(s)
=============================================================================
