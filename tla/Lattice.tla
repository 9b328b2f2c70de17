------------------------------- MODULE Lattice -------------------------------
(***************************************************************************)
(* Completions that this engine passes on to its peers (complete,          *)
(* oip_client, oip_servicer, federation), the agent runs it hosts          *)
(* (agents), the catalogue it keeps submitting to Signals                  *)
(* (workload_catalog) and the platform calls that hold its event loop      *)
(* meanwhile (mistral_platform).                                           *)
(*                                                                         *)
(* A completion runs in a thread of its own.  It asks the peers for their  *)
(* Status one by one, through a cache that all threads share, orders the   *)
(* routes and tries one after the other.  What the peers answer, and which *)
(* route comes first, is computed by LatticeRules.                         *)
(***************************************************************************)
EXTENDS LatticeRules

CONSTANTS
  Peer,         \* engines that may be configured as peers
  PeerStates,   \* what a Status may say: sets of endpoints, or Nothing
  Call,         \* completions
  Cap,          \* capabilities that are asked for
  Task,         \* threads that drive an agent run
  RunId,        \* names of runs, which the caller chooses
  Ttl,          \* status_ttl_s, in ticks
  Scene         \* which parts act, with which peers, faults and ticks of the clock

ASSUME LatticeAssumption ==
  /\ Ttl \in Nat \ {0}
  /\ \A s \in Scene : s.peers \in Seq(Peer) /\ s.oip \in Seq(Peer) /\ s.ticks \in Nat
                   /\ s.faults \subseteq {"halfway", "send"}

VARIABLES
  scene,    \* the member of Scene, fixed at the start
  clock,
  peer,     \* peer[p]: what p's Status says now
  cache,    \* _status_cache[p]: the stamp, what was answered and (ghost) when
  call,     \* the thread of each completion
  rec,      \* _runs[r]: state of the run's record
  task,     \* the run that each thread drives
  loop,     \* the event loop: free, or held by a platform call
  signals,  \* what Signals does with a catalogue
  sync      \* WorkloadSync

completions == <<clock, peer, cache, call>>
hosted == <<rec, task>>
catalogue == <<signals, sync>>
latticeVars == <<scene, completions, hosted, loop, catalogue>>

Resting == [at |-> "idle", cap |-> "", stream |-> FALSE, todo |-> <<>>, now |-> 0,
            snap |-> Nothing, known |-> <<>>, age |-> 0, routes |-> <<>>, tried |-> {},
            buffer |-> {}, out |-> {}, answered |-> FALSE]
Signals == {"up", "old", "dark", "refuses"}

LatticeInit ==
  /\ scene \in Scene
  /\ clock = 0
  /\ peer \in [Peer -> PeerStates]
  /\ cache = [p \in Peer |-> Nothing]
  /\ call = [c \in Call |-> Resting]
  /\ rec = [r \in RunId |-> Nothing]
  /\ task = [k \in Task |-> Nothing]
  /\ loop = "free"
  /\ signals = "dark"
  /\ sync = [at |-> IF "sync" \in scene.does THEN "step" ELSE "off", error |-> "", synced |-> FALSE]

Does(x) == x \in scene.does
Step(c, at) == call' = [call EXCEPT ![c].at = at]
UncalledExcept == UNCHANGED <<scene, hosted, loop, catalogue>>

-----------------------------------------------------------------------------
(* The world *)

Tick ==
  /\ Does("calls") /\ clock < scene.ticks
  /\ clock' = clock + 1
  /\ UNCHANGED <<peer, cache, call>> /\ UncalledExcept

PeerChanges(p) ==
  /\ Does("calls") /\ p \in scene.moves
  /\ peer' \in {[peer EXCEPT ![p] = s] : s \in PeerStates}
  /\ UNCHANGED <<clock, cache, call>> /\ UncalledExcept

SignalsChanges ==
  /\ Does("sync")
  /\ signals' \in Signals
  /\ UNCHANGED <<scene, completions, hosted, loop, sync>>

-----------------------------------------------------------------------------
(* A completion *)

\* model_stream_infer goes to the first OIP peer, or to the preferred route.
Begin(c) ==
  /\ Does("calls") /\ loop = "free"
  /\ call[c].at = "idle" /\ c \in scene.calls
  /\ \E cap \in Cap, stream \in scene.streams :
       call' = [call EXCEPT
         ![c].cap = cap, ![c].stream = stream,
         ![c].at = IF ~stream THEN "enter" ELSE IF scene.oip # <<>> THEN "stream" ELSE "plan",
         ![c].todo = IF stream /\ scene.oip = <<>> THEN scene.peers ELSE <<>>,
         ![c].routes = IF stream /\ scene.oip # <<>>
                       THEN <<[peer |-> Head(scene.oip), cap |-> cap, healthy |-> FALSE]>>
                       ELSE <<>>]
  /\ UNCHANGED <<clock, peer, cache>> /\ UncalledExcept

\* complete_routes
Routing(c) ==
  call' = [call EXCEPT ![c].at = IF scene.peers = <<>> THEN "done" ELSE "plan", ![c].stream = FALSE,
                       ![c].todo = scene.peers, ![c].known = <<>>, ![c].routes = <<>>]

(* complete: Cerebras answers in a call, OIP peers where there are some. *)
Enter(c) ==
  /\ call[c].at = "enter"
  /\ IF scene.voice /\ call[c].cap \in {"agent", "instruct"} THEN call' = [call EXCEPT ![c].at = "cerebras", ![c].known = <<>>, ![c].routes = <<>>]
     ELSE IF scene.oip # <<>>
     THEN call' = [call EXCEPT ![c].at = "oip", ![c].known = <<>>,
                     ![c].routes = [i \in 1..Len(scene.oip) |->
                        [peer |-> scene.oip[i], cap |-> call[c].cap, healthy |-> FALSE]]]
     ELSE Routing(c)
  /\ UNCHANGED <<clock, peer, cache>> /\ UncalledExcept

Answered1(c, by) ==
  call' = [call EXCEPT ![c].at = "done", ![c].answered = TRUE, ![c].out = @ \cup {by}]

CerebrasAnswers(c) ==
  /\ call[c].at = "cerebras"
  /\ Answered1(c, "cerebras") \/ Step(c, "done")
  /\ UNCHANGED <<clock, peer, cache>> /\ UncalledExcept

-----------------------------------------------------------------------------
(* peer_status, for each peer in turn: it reads the clock, and then the cache. *)

Fresh(c) ==
  LET hit == cache[Head(call[c].todo)]
  IN  hit # Nothing /\ call[c].now - hit.at < Ttl
Learned(c, status) ==
  [call EXCEPT ![c].known = Append(@, [peer |-> Head(call[c].todo), status |-> status]),
               ![c].todo = Tail(@), ![c].at = "plan", ![c].now = 0, ![c].snap = Nothing]

PlanBegins(c) ==
  /\ call[c].at = "plan" /\ call[c].todo # <<>>
  /\ call' = [call EXCEPT ![c].at = "look", ![c].now = clock]
  /\ UNCHANGED <<clock, peer, cache>> /\ UncalledExcept

PlanFromCache(c) ==
  /\ call[c].at = "look"
  /\ LET hit == cache[Head(call[c].todo)]
         age == call[c].now - hit.read
     IN  /\ Fresh(c)
         /\ call' = [Learned(c, hit.status) EXCEPT ![c].age = IF age > @ THEN age ELSE @]
  /\ UNCHANGED <<clock, peer, cache>> /\ UncalledExcept

PlanAsks(c) ==
  /\ call[c].at = "look"
  /\ ~Fresh(c)
  /\ Step(c, "fetch")
  /\ UNCHANGED <<clock, peer, cache>> /\ UncalledExcept

\* A peer that does not answer in time is as one that is down.
StatusRead(c) ==
  /\ call[c].at = "fetch"
  /\ \E status \in {peer[Head(call[c].todo)], Nothing} :
       call' = [call EXCEPT ![c].at = "store", ![c].snap = [status |-> status, read |-> clock]]
  /\ UNCHANGED <<clock, peer, cache>> /\ UncalledExcept

(* Mutant: stamped when it is stored. *)
StampLate(c) == clock
(* The stamp of an entry is the time before it was asked for. *)
Stamp(c) == call[c].now

StatusStored(c) ==
  /\ call[c].at = "store"
  /\ cache' = [cache EXCEPT ![Head(call[c].todo)] =
       [at |-> Stamp(c), status |-> call[c].snap.status, read |-> call[c].snap.read]]
  /\ call' = Learned(c, call[c].snap.status)
  /\ UNCHANGED <<clock, peer>> /\ UncalledExcept

Planned(c) ==
  /\ call[c].at = "plan" /\ call[c].todo = <<>>
  /\ LET routes == PlanRoutes(call[c].cap, scene.peers, call[c].known)
     IN  call' = [call EXCEPT ![c].routes = routes,
                    ![c].at = IF routes # <<>> THEN "ready"
                              ELSE IF call[c].stream THEN "enter" ELSE "done"]
  /\ UNCHANGED <<clock, peer, cache>> /\ UncalledExcept

-----------------------------------------------------------------------------
(* The routes, one after the other *)

Route(c) == Head(call[c].routes)
Up(c) == peer[Route(c).peer] # Nothing

\* model_ready: a stream that has no ready route is completed instead.
RouteReady(c) ==
  /\ call[c].at = "ready"
  /\ \/ Up(c) /\ Step(c, IF call[c].stream THEN "stream" ELSE "infer")
     \/ Step(c, IF call[c].stream THEN "enter" ELSE "complete")
  /\ UNCHANGED <<clock, peer, cache>> /\ UncalledExcept

RouteInfers(c) ==
  /\ call[c].at = "infer"
  /\ \/ Up(c) /\ Answered1(c, Route(c).peer)
     \/ Step(c, "complete")
  /\ UNCHANGED <<clock, peer, cache>> /\ UncalledExcept

(* Mutant: a route that fails is the last one. *)
NextRouteNever(c) ==
  call' = [call EXCEPT ![c].tried = @ \cup {Route(c).peer}, ![c].routes = Tail(@), ![c].at = "done"]
(* The next route, or none is left. *)
NextRoute(c) ==
  call' = [call EXCEPT ![c].tried = @ \cup {Route(c).peer}, ![c].routes = Tail(@),
                       ![c].at = IF Len(call[c].routes) > 1 THEN "ready" ELSE "done"]

RouteCompletes(c) ==
  /\ call[c].at = "complete"
  /\ \/ Up(c) /\ Answered1(c, Route(c).peer)
     \/ NextRoute(c)
  /\ UNCHANGED <<clock, peer, cache>> /\ UncalledExcept

\* model_infer_federated; when all fail, the routes of the federation follow.
OipInfers(c) ==
  /\ call[c].at = "oip"
  /\ \/ Up(c) /\ Answered1(c, Route(c).peer)
     \/ IF Len(call[c].routes) > 1 THEN call' = [call EXCEPT ![c].routes = Tail(@)] ELSE Routing(c)
  /\ UNCHANGED <<clock, peer, cache>> /\ UncalledExcept

(* Mutant: what has come is passed on at once. *)
StreamChunkSent(c) ==
  call' = [call EXCEPT ![c].buffer = @ \cup {"stream"}, ![c].out = @ \cup {"stream"}]
(* What has come is kept until the stream ends. *)
StreamChunk(c) == call' = [call EXCEPT ![c].buffer = @ \cup {"stream"}]

StreamComes(c) ==
  /\ call[c].at = "stream"
  /\ Up(c) /\ "stream" \notin call[c].buffer
  /\ StreamChunk(c)
  /\ UNCHANGED <<clock, peer, cache>> /\ UncalledExcept

StreamEnds(c) ==
  /\ call[c].at = "stream"
  /\ Up(c) /\ Step(c, "send")
  /\ UNCHANGED <<clock, peer, cache>> /\ UncalledExcept

\* The unary fallback: a peer that answers UNIMPLEMENTED is asked for the whole
\* answer.  Nothing in the code says that it has sent no chunk before.
StreamRefused(c) ==
  /\ call[c].at = "stream"
  /\ Up(c)
  /\ call[c].buffer = {} \/ "halfway" \in scene.faults
  /\ call' = [call EXCEPT ![c].at = "send", ![c].buffer = @ \cup {"whole"}]
  /\ UNCHANGED <<clock, peer, cache>> /\ UncalledExcept

\* What is kept is sent.  A stream without a chunk says nothing.
StreamSends(c) ==
  /\ call[c].at = "send"
  /\ \/ \E x \in call[c].buffer :
          call' = [call EXCEPT ![c].buffer = @ \ {x}, ![c].out = @ \cup {x}]
     \/ /\ call[c].buffer = {}
        /\ call' = [call EXCEPT ![c].at = "done", ![c].answered = TRUE]
  /\ UNCHANGED <<clock, peer, cache>> /\ UncalledExcept

\* A stream that fails, or whose sending does, is completed by complete.
StreamFails(c) ==
  /\ call[c].at = "stream" \/ (call[c].at = "send" /\ "send" \in scene.faults)
  /\ call' = [call EXCEPT ![c].at = "enter", ![c].buffer = {}, ![c].routes = <<>>]
  /\ UNCHANGED <<clock, peer, cache>> /\ UncalledExcept

-----------------------------------------------------------------------------
(* Agent runs *)

\* Run, of an agent this engine hosts.  The record of an earlier run of this
\* name is overwritten.
RunBegins(k, r) ==
  /\ Does("runs") /\ loop = "free"
  /\ task[k] = Nothing
  /\ ResolveAgent("hermes", FALSE).agent # ""
  /\ task' = [task EXCEPT ![k] = r]
  /\ rec' = [rec EXCEPT ![r] = "running"]
  /\ UNCHANGED <<scene, completions, loop, catalogue>>

(* Mutant: a run that fails is not recorded. *)
RecordedIfDone(r, state) == rec' = IF state = "failed" THEN rec ELSE [rec EXCEPT ![r] = state]
(* The end of a run is recorded, whatever the record says by then. *)
Recorded(r, state) == rec' = [rec EXCEPT ![r] = state]

RunEnds(k) ==
  /\ task[k] # Nothing
  /\ \E state \in {"completed", "failed"} : Recorded(task[k], state)
  /\ task' = [task EXCEPT ![k] = Nothing]
  /\ UNCHANGED <<scene, completions, loop, catalogue>>

\* Cancel changes the record and nothing else.
Cancel(r) ==
  /\ Does("runs") /\ loop = "free"
  /\ rec[r] # Nothing
  /\ rec' = [rec EXCEPT ![r] = "cancelled"]
  /\ UNCHANGED <<scene, completions, task, loop, catalogue>>

-----------------------------------------------------------------------------
(* Platform calls hold the event loop until Mistral, or Gaius, answers *)

Paper == [json |-> TRUE, url |-> "u", kind |-> "arxiv", name |-> "w", wait |-> "yes",
          input |-> "absent", id |-> "x"]

PlatformBegins ==
  /\ Does("platform") /\ loop = "free"
  /\ \E ask \in {<<"document", "analyze">>, <<"workflow", "execute">>, <<"workflow", "get">>} :
       PlatformAsk(ask[1], ask[2], Paper, TRUE, scene.voice) \in {"gaius", "workflow", "await"}
  /\ loop' = "held"
  /\ UNCHANGED <<scene, completions, hosted, catalogue>>

PlatformEnds ==
  /\ loop = "held"
  /\ loop' = "free"
  /\ UNCHANGED <<scene, completions, hosted, catalogue>>

-----------------------------------------------------------------------------
(* WorkloadSync *)

SyncSends ==
  /\ sync.at = "step" /\ loop = "free"
  /\ sync' = [sync EXCEPT !.at = "rpc"]
  /\ UNCHANGED <<scene, completions, hosted, loop, signals>>

(* Mutant: a refusal ends the loop. *)
SyncFailsOnce == sync' = [sync EXCEPT !.at = IF signals = "refuses" THEN "off" ELSE "sleep",
                                      !.error = signals]
(* An old Signals, a dark one and a refusal are tried again later. *)
SyncFails == sync' = [sync EXCEPT !.at = "sleep", !.error = signals]

SyncReturns ==
  /\ sync.at = "rpc" /\ loop = "free"
  /\ IF signals = "up"
     THEN sync' = [sync EXCEPT !.at = "sleep", !.error = "", !.synced = TRUE]
     ELSE SyncFails
  /\ UNCHANGED <<scene, completions, hosted, loop, signals>>

SyncWakes ==
  /\ sync.at = "sleep" /\ loop = "free"
  /\ sync' = [sync EXCEPT !.at = "step"]
  /\ UNCHANGED <<scene, completions, hosted, loop, signals>>

-----------------------------------------------------------------------------
Completes(c) ==
  \/ Begin(c) \/ Enter(c) \/ CerebrasAnswers(c)
  \/ PlanBegins(c) \/ PlanFromCache(c) \/ PlanAsks(c) \/ StatusRead(c) \/ StatusStored(c) \/ Planned(c)
  \/ RouteReady(c) \/ RouteInfers(c) \/ RouteCompletes(c) \/ OipInfers(c)
  \/ StreamComes(c) \/ StreamEnds(c) \/ StreamRefused(c) \/ StreamSends(c) \/ StreamFails(c)

LatticeNext ==
  \/ Tick \/ SignalsChanges
  \/ \E p \in Peer : PeerChanges(p)
  \/ \E c \in Call : Completes(c)
  \/ \E k \in Task : RunEnds(k) \/ \E r \in RunId : RunBegins(k, r)
  \/ \E r \in RunId : Cancel(r)
  \/ PlatformBegins \/ PlatformEnds
  \/ SyncSends \/ SyncReturns \/ SyncWakes

LatticeSpec == LatticeInit /\ [][LatticeNext]_latticeVars

(* Mistral and Gaius answer or time out; the loop runs what is ready in
   order, so a platform call between two others does not starve the sync. *)
LatticeFairSpec ==
  /\ LatticeSpec
  /\ WF_latticeVars(PlatformEnds)
  /\ SF_latticeVars(SyncSends) /\ SF_latticeVars(SyncReturns) /\ SF_latticeVars(SyncWakes)

-----------------------------------------------------------------------------
(* A Status that comes from the cache was given less than its time to live
   before the completion began to ask for it, whichever thread stored it and
   however long the peer took to answer (federation.peer_status). *)
CachedFresh == \A c \in Call : call[c].age < Ttl

(* Whoever asks has at most one answer: a stream that failed half way, whatever
   had come of it, is answered again from the start, by its peer as a whole or
   by complete, and nothing of it was sent (oip_servicer.ModelStreamInfer).
   Needs that no peer says UNIMPLEMENTED after a chunk, which then is sent
   before the whole answer (oip_client.py:206-219), and that sending does not
   fail, after which complete answers too (oip_servicer.py:159-172). *)
OneAnswer == scene.faults = {} => \A c \in Call : Cardinality(call[c].out) <= 1

(* A completion is denied only when every route has failed: each peer that
   answered with a capability that will do has been tried
   (complete.complete_routes). *)
Suits(c, k) == k.status # Nothing /\ \E ep \in k.status : ep.cap \in Range(Accepted(call[c].cap))
DeniedTriedAll ==
  \A c \in Call : call[c].at = "done" /\ ~call[c].answered =>
    \A k \in Range(call[c].known) : Suits(c, k) => k.peer \in call[c].tried

(* A record says that a run is running only while a thread drives one of
   that name (agents.iter_run). *)
RunningIsReal == \A r \in RunId : rec[r] = "running" => \E k \in Task : task[k] = r

(* Once Signals stays up it has the catalogue, whatever it did before and
   whatever holds the loop meanwhile (workload_catalog.WorkloadSync). *)
SyncSurvives == <>[](signals = "up" /\ Does("sync")) => <>[](sync.synced /\ sync.error = "")

(* Does not hold: a run that was cancelled stays cancelled.  Its thread goes
   on, and records its end over it (agents.py:236-241). *)
CancelHolds == [][\A r \in RunId : rec[r] = "cancelled" => rec'[r] \in {"cancelled", "running"}]_rec
=============================================================================
