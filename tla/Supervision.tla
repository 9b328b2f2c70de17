------------------------------ MODULE Supervision ------------------------------
(***************************************************************************)
(* supervision_bus.SupervisionBus and EngineSupervisionServicer.Supervise: *)
(* the supervisor's stream of engine events.  The bus numbers each event,  *)
(* keeps the last ones in a ring, and offers it to the queue of every      *)
(* stream; a supervisor that comes back resumes from the ring.             *)
(*                                                                         *)
(* All of it runs on one event loop: what lies between two yields or       *)
(* awaits of a stream is one step, and other streams and publishers run    *)
(* between them.                                                           *)
(***************************************************************************)
EXTENDS Sequences, Integers, FiniteSets

CONSTANTS Stream,      \* calls of Supervise
          Supervisor,  \* supervisor ids
          None,
          QMax,        \* QUEUE_MAXSIZE
          RMax,        \* RING_MAXLEN
          MaxSeq       \* events published in a run, but for the serving status of each stream

ASSUME BoundsAssumption == {QMax, RMax} \subseteq Nat \ {0} /\ MaxSeq \in Nat
ASSUME NoneAssumption == None \notin Stream

VARIABLES seq,       \* _seq
          ring,      \* _ring, oldest first
          q,         \* the queue of each stream
          subs,      \* _subs
          sessions,  \* the servicer's _sessions
          stage,     \* how far each stream is
          owner,     \* supervisor_id of each stream
          resume,    \* resume_seq, None without a valid resume_session
          start,     \* history: the stream owes what was published after this
          replayed,  \* history: what the stream sent from the ring
          sent,      \* history: what it sent from its queue, in order
          dropped,   \* history: an event was dropped from its queue
          public     \* history: the events published for everybody

bus == <<seq, ring, q, subs>>
history == <<start, replayed, sent, dropped, public>>
vars == <<bus, sessions, stage, owner, resume, history>>

Kind == {"event", "serving", "goodbye", "result"}
SeqNo == 0..(MaxSeq + Cardinality(Stream))
Event == [seq : SeqNo, kind : Kind, to : Stream \cup {None}]  \* to None: everybody

TypeOK ==
  /\ seq \in SeqNo
  /\ ring \in Seq(Event) /\ Len(ring) <= RMax
  /\ \A s \in Stream : q[s] \in Seq(Event) /\ Len(q[s]) <= QMax
  /\ subs \subseteq Stream
  /\ sessions \in [Supervisor -> Stream \cup {None}]
  /\ stage \in [Stream -> {"new", "hello", "replay", "complete", "live", "closed"}]
  /\ owner \in [Stream -> Supervisor \cup {None}]
  /\ resume \in [Stream -> SeqNo \cup {None}]

Init ==
  /\ seq = 0 /\ ring = <<>>
  /\ q = [s \in Stream |-> <<>>] /\ subs = {}
  /\ sessions = [v \in Supervisor |-> None]
  /\ stage = [s \in Stream |-> "new"]
  /\ owner = [s \in Stream |-> None]
  /\ resume = [s \in Stream |-> None]
  /\ start = [s \in Stream |-> 0]
  /\ replayed = [s \in Stream |-> {}]
  /\ sent = [s \in Stream |-> <<>>]
  /\ dropped = [s \in Stream |-> FALSE]
  /\ public = {}

Stage(s, x) == stage' = [stage EXCEPT ![s] = x]
Open(s) == stage[s] \notin {"new", "closed"}

All(events, n) == events    \* Mutant: nothing is dropped.

Newest(events, n) ==
  IF Len(events) <= n THEN events
                      ELSE SubSeq(events, Len(events) - n + 1, Len(events))

-----------------------------------------------------------------------------
(* publish and publish_to: into the ring, and into the queues of `to`; a
   full queue drops its oldest event (_offer). *)
Publish(kind, addressee, to) ==
  LET e == [seq |-> seq + 1, kind |-> kind, to |-> addressee]
  IN  /\ seq' = seq + 1
      /\ ring' = Newest(Append(ring, e), RMax)
      /\ q' = [s \in Stream |-> IF s \in to THEN Newest(Append(q[s], e), QMax) ELSE q[s]]
      /\ dropped' = [s \in Stream |-> dropped[s] \/ (s \in to /\ Len(q[s]) = QMax)]
      /\ public' = IF addressee = None THEN public \cup {seq'} ELSE public

(* Any part of the engine publishes. *)
EngineEvent ==
  /\ seq < MaxSeq
  /\ Publish("event", None, subs)
  /\ UNCHANGED <<subs, sessions, stage, owner, resume, start, replayed, sent>>

-----------------------------------------------------------------------------
(* Supervise *)

Seen(v) == {0} \cup UNION {{e.seq : e \in replayed[s]} \cup {sent[s][i].seq : i \in DOMAIN sent[s]}
                           : s \in {t \in Stream : owner[t] = v}}
LastSeen(v) == CHOOSE n \in Seen(v) : \A m \in Seen(v) : m <= n

(* The first message: the queue is subscribed, an older stream of the same
   supervisor gets a Goodbye, and Hello is sent.  The supervisor resumes
   after the last event it has seen, or not at all. *)
Subscribe(s, v) ==
  /\ stage[s] = "new"
  /\ seq < MaxSeq
  /\ Stage(s, "hello")
  /\ owner' = [owner EXCEPT ![s] = v]
  /\ \E n \in {None, LastSeen(v)} : resume' = [resume EXCEPT ![s] = n]
  /\ subs' = subs \cup {s}
  /\ IF sessions[v] # None
     THEN Publish("goodbye", sessions[v], {sessions[v]})
     ELSE UNCHANGED <<seq, ring, q, dropped, public>>
  /\ sessions' = [sessions EXCEPT ![v] = s]
  /\ start' = [start EXCEPT ![s] = seq']
  /\ UNCHANGED <<replayed, sent>>

(* ring_since: nothing when the ring has lost what comes next; 0 asks for
   whatever the ring has. *)
Covered(n) == n # None /\ (ring = <<>> \/ n = 0 \/ n >= ring[1].seq)
After(n) == {ring[i] : i \in {j \in DOMAIN ring : ring[j].seq > n + 1}}    \* Mutant

Since(n) == {ring[i] : i \in {j \in DOMAIN ring : ring[j].seq > n}}

Replay(s) ==
  /\ stage[s] = "hello"
  /\ Stage(s, "complete")
  /\ IF Covered(resume[s])
     THEN /\ replayed' = [replayed EXCEPT ![s] = Since(resume[s])]
          /\ start' = [start EXCEPT ![s] = IF resume[s] = 0 /\ ring # <<>> THEN ring[1].seq - 1
                                           ELSE resume[s]]
     ELSE UNCHANGED <<replayed, start>>
  /\ UNCHANGED <<bus, sessions, owner, resume, sent, dropped, public>>

(* ReplayComplete is sent, then the serving status is published to all. *)
ReplayComplete(s) ==
  /\ stage[s] = "complete"
  /\ Publish("serving", None, subs)
  /\ Stage(s, "live")
  /\ UNCHANGED <<subs, sessions, owner, resume, start, replayed, sent>>

(* Mutant: the session of the supervisor is popped, whoever's it is. *)
ClosingPops(s) ==
  /\ Stage(s, "closed")
  /\ subs' = subs \ {s}
  /\ sessions' = [sessions EXCEPT ![owner[s]] = None]

Closing(s) ==
  /\ Stage(s, "closed")
  /\ subs' = subs \ {s}
  /\ sessions' = [v \in Supervisor |-> IF sessions[v] = s THEN None ELSE sessions[v]]

(* Mutants: the newest event is taken first; a Goodbye does not end it. *)
DeliverNewest(s) ==
  /\ stage[s] = "live"
  /\ q[s] # <<>>
  /\ LET n == Len(q[s])
     IN  /\ sent' = [sent EXCEPT ![s] = Append(@, q[s][n])]
         /\ q' = [q EXCEPT ![s] = SubSeq(@, 1, n - 1)]
         /\ IF q[s][n].kind = "goodbye" THEN Closing(s) ELSE UNCHANGED <<stage, subs, sessions>>
  /\ UNCHANGED <<seq, ring, owner, resume, start, replayed, dropped, public>>

DeliverGoodbyeToo(s) ==
  /\ stage[s] = "live"
  /\ q[s] # <<>>
  /\ sent' = [sent EXCEPT ![s] = Append(@, Head(q[s]))]
  /\ q' = [q EXCEPT ![s] = Tail(@)]
  /\ UNCHANGED <<stage, subs, sessions, seq, ring, owner, resume, start, replayed, dropped, public>>

(* The loop of a live stream; it ends after a Goodbye. *)
Deliver(s) ==
  /\ stage[s] = "live"
  /\ q[s] # <<>>
  /\ sent' = [sent EXCEPT ![s] = Append(@, Head(q[s]))]
  /\ q' = [q EXCEPT ![s] = Tail(@)]
  /\ IF Head(q[s]).kind = "goodbye" THEN Closing(s) ELSE UNCHANGED <<stage, subs, sessions>>
  /\ UNCHANGED <<seq, ring, owner, resume, start, replayed, dropped, public>>

(* The client goes away at any yield: cancelled, or its requests ended. *)
Close(s) ==
  /\ Open(s)
  /\ Closing(s)
  /\ UNCHANGED <<seq, ring, q, owner, resume, history>>

(* _pump answers a directive on the stream that asked. *)
Directive(s) ==
  /\ stage[s] = "live"
  /\ seq < MaxSeq
  /\ Publish("result", s, {s})
  /\ UNCHANGED <<subs, sessions, stage, owner, resume, start, replayed, sent>>

Next ==
  \/ EngineEvent
  \/ \E s \in Stream :
       \/ \E v \in Supervisor : Subscribe(s, v)
       \/ Replay(s) \/ ReplayComplete(s) \/ Deliver(s) \/ Close(s) \/ Directive(s)

(* An open stream whose client reads runs on. *)
Fairness ==
  \A s \in Stream : WF_vars(Replay(s)) /\ WF_vars(ReplayComplete(s)) /\ WF_vars(Deliver(s))

Spec == Init /\ [][Next]_vars
FairSpec == Spec /\ Fairness

-----------------------------------------------------------------------------
(* Properties *)

SentSeqs(s) == {sent[s][i].seq : i \in DOMAIN sent[s]}
ReplayedSeqs(s) == {e.seq : e \in replayed[s]}

(* A stream that has caught up has sent every event for everybody since its
   start: the ring and the queue overlap, they never leave a gap.  The
   exception is a queue that overflowed. *)
NoGap ==
  \A s \in Stream :
    stage[s] = "live" /\ q[s] = <<>> /\ ~dropped[s] =>
      \A n \in public : n > start[s] => n \in SentSeqs(s) \cup ReplayedSeqs(s)

(* Each stream's own queue is sent in order and nothing in it twice. *)
SentInOrder ==
  \A s \in Stream : \A i, j \in DOMAIN sent[s] : i < j => sent[s][i].seq < sent[s][j].seq

(* Backlog's supervisor_connected: an open stream is registered, or its
   Goodbye is under way, whichever stream of the supervisor closes first. *)
ConnectedIsOpen ==
  /\ \A v \in Supervisor : sessions[v] # None => Open(sessions[v]) /\ owner[sessions[v]] = v
  /\ \A s \in Stream : Open(s) /\ sessions[owner[s]] # s =>
       dropped[s] \/ \E i \in DOMAIN q[s] : q[s][i].kind = "goodbye"

(* A Goodbye reaches only the stream it is meant for. *)
GoodbyeToSuperseded ==
  \A s \in Stream : \A e \in replayed[s] : e.kind = "goodbye" => e.to = s

(* A superseded stream ends, unless its Goodbye was dropped. *)
SupersededEnds ==
  \A s \in Stream :
    Open(s) /\ sessions[owner[s]] # s ~> stage[s] = "closed" \/ dropped[s]
=============================================================================
