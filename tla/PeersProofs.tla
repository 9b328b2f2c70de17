---------------------------- MODULE PeersProofs ----------------------------
(***************************************************************************)
(* Theorems about what this engine says to its supervisors (Supervision) and *)
(* asks of its peers (Lattice).                                            *)
(*                                                                         *)
(* For any streams, supervisors and sizes of the queues and the ring: a    *)
(* stream that catches up has no gap, and the stream a supervisor is       *)
(* registered with is open.                                                *)
(*                                                                         *)
(* For any peers, completions, scenes and time to live: how old a Status   *)
(* that is taken from the shared cache may be, and how often a completion is *)
(* answered.                                                               *)
(***************************************************************************)
EXTENDS Supervision, Lattice, FiniteSetTheorems, SequenceTheorems, WellFoundedInduction, TLAPS

-----------------------------------------------------------------------------
(* Lemmas about the data *)

(* A bounded set of naturals that is not empty has a greatest member. *)
Less == {ss \in Nat \X Nat : ss[1] < ss[2]}

LEMMA GreatestOf ==
  ASSUME NEW S \in SUBSET Nat, S # {}, NEW n \in Nat, \A x \in S : x <= n
  PROVE  \E m \in S : \A x \in S : x <= m
<1>. DEFINE T == {n - x : x \in S}
<1>1. T \subseteq Nat
  <2>. SUFFICES ASSUME NEW x \in S PROVE n - x \in Nat
    OBVIOUS
  <2>. QED
    OBVIOUS
<1>2. PICK z \in S : TRUE
  OBVIOUS
<1>3. n - z \in T
  OBVIOUS
<1>4. IsWellFoundedOn(Less, Nat)
  BY NatLessThanWellFounded DEF OpToRel, Less
<1>5. PICK k \in T : \A y \in T : ~(<<y, k>> \in Less)
  <2>. HIDE DEF T
  <2>. QED
    BY <1>1, <1>3, <1>4, WFMin
<1>6. \A y \in T : k <= y
  <2>. HIDE DEF T
  <2>. SUFFICES ASSUME NEW y \in T PROVE k <= y
    OBVIOUS
  <2>1. k \in Nat /\ y \in Nat
    BY <1>1
  <2>2. y < k => <<y, k>> \in Less
    BY <2>1 DEF Less
  <2>3. <<y, k>> \notin Less
    BY <1>5, Zenon
  <2>. QED
    BY <2>1, <2>2, <2>3
<1>7. PICK m \in S : k = n - m
  OBVIOUS
<1>8. \A x \in S : n - m <= n - x
  BY <1>6, <1>7
<1>. QED
  BY <1>8

Evt == [seq : Nat, kind : Kind, to : Stream \cup {None}]

(* A bounded buffer takes one event: it grows, or it loses its oldest. *)
LEMMA LastOfAppend ==
  ASSUME NEW w \in Seq(Evt), NEW e \in Evt, NEW n \in Nat \ {0}, Len(w) <= n
  PROVE  /\ Newest(Append(w, e), n) \in Seq(Evt)
         /\ Len(w) < n => Newest(Append(w, e), n) = Append(w, e)
         /\ Len(w) = n => /\ Len(Newest(Append(w, e), n)) = n
                          /\ \A i \in 1..n : Newest(Append(w, e), n)[i] = Append(w, e)[i + 1]
<1>. DEFINE a == Append(w, e)
<1>1. a \in Seq(Evt) /\ Len(a) = Len(w) + 1 /\ Len(w) \in Nat
  BY AppendProperties, LenProperties
<1>2. CASE Len(w) < n
  BY <1>1, <1>2 DEF Newest
<1>3. CASE Len(w) = n
  <2>. HIDE DEF a
  <2>1. Newest(a, n) = SubSeq(a, 2, n + 1)
    BY <1>1, <1>3 DEF Newest
  <2>2. \A i \in 2..(n + 1) : a[i] \in Evt
    BY <1>1, <1>3, ElementOfSeq
  <2>3. /\ SubSeq(a, 2, n + 1) \in Seq(Evt)
        /\ Len(SubSeq(a, 2, n + 1)) = n
        /\ \A i \in 1..n : SubSeq(a, 2, n + 1)[i] = a[i + 1]
    BY <2>2, SubSeqProperties
  <2>. QED
    BY <1>3, <2>1, <2>3 DEF a
<1>. QED
  BY <1>1, <1>2, <1>3

-----------------------------------------------------------------------------
(* The inductive invariant *)

Types ==
  /\ seq \in Nat
  /\ ring \in Seq(Evt) /\ Len(ring) <= RMax
  /\ q \in [Stream -> Seq(Evt)] /\ \A s \in Stream : Len(q[s]) <= QMax
  /\ subs \in SUBSET Stream
  /\ sessions \in [Supervisor -> Stream \cup {None}]
  /\ stage \in [Stream -> {"new", "hello", "replay", "complete", "live", "closed"}]
  /\ owner \in [Stream -> Supervisor \cup {None}]
  /\ resume \in [Stream -> Nat \cup {None}]
  /\ start \in [Stream -> Int]
  /\ replayed \in [Stream -> SUBSET Evt]
  /\ sent \in [Stream -> Seq(Evt)]
  /\ dropped \in [Stream -> BOOLEAN]

(* What was published, replayed, sent or queued has been numbered. *)
Past ==
  /\ public \subseteq 1..seq
  /\ \A s \in Stream :
       /\ \A e \in replayed[s] : e.seq <= seq
       /\ \A i \in 1..Len(sent[s]) : sent[s][i].seq <= seq
       /\ \A i \in 1..Len(q[s]) : q[s][i].seq <= seq

(* The ring is the end of the sequence of events, without a gap. *)
RingInv ==
  /\ \A i \in 1..Len(ring) : ring[i].seq = seq - Len(ring) + i
  /\ seq > 0 => Len(ring) > 0

QueuedSeqs(s) == {q[s][i].seq : i \in 1..Len(q[s])}

(* What an open stream owes is sent, replayed or in its queue. *)
Owed ==
  \A s \in Stream :
    Open(s) /\ ~dropped[s] =>
      \A n \in public : n > start[s] => n \in SentSeqs(s) \cup ReplayedSeqs(s) \cup QueuedSeqs(s)

Subscribed == \A s \in Stream : Open(s) => s \in subs /\ owner[s] \in Supervisor

Goodbye(s) == \E i \in 1..Len(q[s]) : q[s][i].kind = "goodbye"

Registered ==
  /\ \A v \in Supervisor : sessions[v] # None => Open(sessions[v]) /\ owner[sessions[v]] = v
  /\ \A s \in Stream : Open(s) /\ sessions[owner[s]] # s => dropped[s] \/ Goodbye(s)

StreamInv == Types /\ Past /\ RingInv /\ Owed /\ Subscribed /\ Registered

-----------------------------------------------------------------------------
(* What publish does to the bus: the ring goes on without a gap, and the queue
   of an addressee has the event as well, unless one was dropped from it. *)
LEMMA PublishKeeps ==
  ASSUME Types, Past, RingInv, NEW kind \in Kind, NEW addressee \in Stream \cup {None},
         NEW to \in SUBSET Stream, Publish(kind, addressee, to)
  PROVE  /\ seq' = seq + 1
         /\ ring' \in Seq(Evt) /\ Len(ring') <= RMax /\ RingInv'
         /\ q' \in [Stream -> Seq(Evt)] /\ \A s \in Stream : Len(q'[s]) <= QMax
         /\ dropped' \in [Stream -> BOOLEAN]
         /\ \A s \in Stream : dropped[s] => dropped'[s]
         /\ \A s \in Stream : s \notin to => q'[s] = q[s]
         /\ \A s \in to : ~dropped'[s] =>
              q'[s] = Append(q[s], [seq |-> seq + 1, kind |-> kind, to |-> addressee])
         /\ \A s \in Stream : \A i \in 1..Len(q'[s]) : q'[s][i].seq <= seq + 1
<1>. DEFINE e == [seq |-> seq + 1, kind |-> kind, to |-> addressee]
<1>1. e \in Evt /\ e.seq = seq + 1 /\ seq \in Nat
  BY DEF Types, Evt
<1>2. /\ seq' = seq + 1
      /\ ring' = Newest(Append(ring, e), RMax)
      /\ q' = [s \in Stream |-> IF s \in to THEN Newest(Append(q[s], e), QMax) ELSE q[s]]
      /\ dropped' = [s \in Stream |-> dropped[s] \/ (s \in to /\ Len(q[s]) = QMax)]
  BY DEF Publish
<1>3. RMax \in Nat \ {0} /\ QMax \in Nat \ {0}
  BY BoundsAssumption
<1>. HIDE DEF e
<1>4. /\ ring' \in Seq(Evt) /\ Len(ring') <= RMax
      /\ RingInv'
  <2>1. ring \in Seq(Evt) /\ Len(ring) \in Nat /\ Len(ring) <= RMax
    BY LenProperties DEF Types
  <2>2. /\ Append(ring, e) \in Seq(Evt) /\ Len(Append(ring, e)) = Len(ring) + 1
        /\ \A i \in 1..Len(ring) : Append(ring, e)[i] = ring[i]
        /\ Append(ring, e)[Len(ring) + 1] = e
    BY <1>1, <2>1, AppendProperties
  <2>3. \A i \in 1..(Len(ring) + 1) : Append(ring, e)[i].seq = seq - Len(ring) + i
    BY <1>1, <2>1, <2>2 DEF RingInv
  <2>4. ring' \in Seq(Evt)
    BY <1>1, <1>2, <1>3, <2>1, LastOfAppend
  <2>5. CASE Len(ring) < RMax
    <3>1. ring' = Append(ring, e)
      BY <1>1, <1>2, <1>3, <2>1, <2>5, LastOfAppend
    <3>2. Len(ring') = Len(ring) + 1 /\ Len(ring') <= RMax
      BY <1>3, <2>1, <2>2, <2>5, <3>1
    <3>3. \A i \in 1..Len(ring') : ring'[i].seq = seq' - Len(ring') + i
      <4>. SUFFICES ASSUME NEW i \in 1..(Len(ring) + 1)
                    PROVE  ring'[i].seq = seq' - Len(ring') + i
        BY <3>2
      <4>1. ring'[i].seq = seq - Len(ring) + i
        BY <2>3, <3>1
      <4>. QED
        BY <1>1, <1>2, <2>1, <3>2, <4>1
    <3>. QED
      BY <2>1, <2>4, <3>2, <3>3 DEF RingInv
  <2>6. CASE Len(ring) = RMax
    <3>1. Len(ring') = RMax /\ \A i \in 1..RMax : ring'[i] = Append(ring, e)[i + 1]
      BY <1>1, <1>2, <1>3, <2>1, <2>6, LastOfAppend
    <3>2. \A i \in 1..RMax : ring'[i].seq = seq' - RMax + i
      <4>. SUFFICES ASSUME NEW i \in 1..RMax PROVE ring'[i].seq = seq' - RMax + i
        OBVIOUS
      <4>1. i + 1 \in 1..(Len(ring) + 1)
        BY <1>3, <2>6
      <4>2. ring'[i].seq = seq - Len(ring) + (i + 1)
        BY <2>3, <3>1, <4>1
      <4>. QED
        BY <1>1, <1>2, <1>3, <2>6, <4>2
    <3>. QED
      BY <1>3, <2>4, <3>1, <3>2 DEF RingInv
  <2>. QED
    BY <1>3, <2>1, <2>5, <2>6
<1>5. ASSUME NEW s \in Stream
      PROVE  /\ q'[s] \in Seq(Evt) /\ Len(q'[s]) <= QMax
             /\ s \notin to => q'[s] = q[s]
             /\ s \in to /\ ~dropped'[s] => q'[s] = Append(q[s], e)
             /\ \A i \in 1..Len(q'[s]) : q'[s][i].seq <= seq + 1
  <2>1. q[s] \in Seq(Evt) /\ Len(q[s]) \in Nat /\ Len(q[s]) <= QMax
    BY LenProperties DEF Types
  <2>2. \A i \in 1..Len(q[s]) : q[s][i].seq <= seq /\ q[s][i].seq \in Nat
    <3>1. \A i \in 1..Len(q[s]) : q[s][i] \in Evt
      BY <2>1, ElementOfSeq
    <3>. QED
      BY <3>1 DEF Past, Evt
  <2>3. CASE s \notin to
    <3>1. q'[s] = q[s]
      BY <1>2, <2>3
    <3>. QED
      BY <1>1, <2>1, <2>2, <2>3, <3>1
  <2>4. CASE s \in to
    <3>1. q'[s] = Newest(Append(q[s], e), QMax)
      BY <1>2, <2>4
    <3>2. /\ Append(q[s], e) \in Seq(Evt) /\ Len(Append(q[s], e)) = Len(q[s]) + 1
          /\ \A i \in 1..Len(q[s]) : Append(q[s], e)[i] = q[s][i]
          /\ Append(q[s], e)[Len(q[s]) + 1] = e
      BY <1>1, <2>1, AppendProperties
    <3>3. \A i \in 1..(Len(q[s]) + 1) : Append(q[s], e)[i].seq <= seq + 1
      BY <1>1, <2>1, <2>2, <3>2
    <3>4. CASE Len(q[s]) < QMax
      <4>1. q'[s] = Append(q[s], e)
        BY <1>1, <1>3, <2>1, <3>1, <3>4, LastOfAppend
      <4>2. q'[s] \in Seq(Evt) /\ Len(q'[s]) = Len(q[s]) + 1 /\ Len(q'[s]) <= QMax
        BY <1>3, <2>1, <3>2, <3>4, <4>1
      <4>3. \A i \in 1..Len(q'[s]) : q'[s][i].seq <= seq + 1
        BY <3>3, <4>1, <4>2
      <4>. QED
        BY <2>4, <4>1, <4>2, <4>3
    <3>5. CASE Len(q[s]) = QMax
      <4>1. /\ q'[s] \in Seq(Evt) /\ Len(q'[s]) = QMax
            /\ \A i \in 1..QMax : q'[s][i] = Append(q[s], e)[i + 1]
        <5>1. /\ Newest(Append(q[s], e), QMax) \in Seq(Evt)
              /\ Len(Newest(Append(q[s], e), QMax)) = QMax
              /\ \A i \in 1..QMax : Newest(Append(q[s], e), QMax)[i] = Append(q[s], e)[i + 1]
          BY <1>1, <1>3, <2>1, <3>5, LastOfAppend
        <5>. QED
          BY <3>1, <5>1
      <4>2. dropped'[s]
        BY <1>2, <2>4, <3>5
      <4>3. \A i \in 1..QMax : q'[s][i].seq <= seq + 1
        BY <1>3, <2>1, <3>3, <3>5, <4>1
      <4>. QED
        BY <2>4, <4>1, <4>2, <4>3
    <3>. QED
      BY <1>3, <2>1, <3>4, <3>5
  <2>. QED
    BY <2>3, <2>4
<1>6. /\ q' \in [Stream -> Seq(Evt)] /\ dropped' \in [Stream -> BOOLEAN]
      /\ \A s \in Stream : dropped[s] => dropped'[s]
  <2>1. \A s \in Stream : q'[s] \in Seq(Evt)
    BY <1>5
  <2>2. DOMAIN q' = Stream /\ q' = [s \in Stream |-> q'[s]]
    BY <1>2
  <2>3. dropped \in [Stream -> BOOLEAN]
    BY DEF Types
  <2>. QED
    BY <1>2, <2>1, <2>2, <2>3
<1>. QED
  BY <1>2, <1>4, <1>5, <1>6 DEF e

(* A queue from which nothing is dropped keeps what it has, and gets the event
   if it is meant for its stream. *)
LEMMA Offered ==
  ASSUME Types, Past, RingInv, NEW kind \in Kind, NEW addressee \in Stream \cup {None},
         NEW to \in SUBSET Stream, Publish(kind, addressee, to),
         NEW s \in Stream, ~dropped'[s]
  PROVE  /\ QueuedSeqs(s) \subseteq QueuedSeqs(s)'
         /\ Goodbye(s) => Goodbye(s)'
         /\ s \in to => seq' \in QueuedSeqs(s)'
         /\ s \in to /\ kind = "goodbye" => Goodbye(s)'
<1>. DEFINE e == [seq |-> seq + 1, kind |-> kind, to |-> addressee]
<1>1. seq' = seq + 1 /\ (s \notin to => q'[s] = q[s]) /\ (s \in to => q'[s] = Append(q[s], e))
  BY PublishKeeps
<1>2. CASE s \notin to
  BY <1>1, <1>2 DEF QueuedSeqs, Goodbye
<1>3. CASE s \in to
  <2>0. q[s] \in Seq(Evt)
    BY DEF Types
  <2>1. e \in Evt /\ e.seq = seq + 1 /\ e.kind = kind
    BY DEF Types, Evt
  <2>. HIDE DEF e
  <2>2. /\ q'[s] = Append(q[s], e) /\ Len(q'[s]) = Len(q[s]) + 1 /\ Len(q[s]) \in Nat
        /\ \A i \in 1..Len(q[s]) : q'[s][i] = q[s][i]
        /\ q'[s][Len(q[s]) + 1] = e
    BY <1>1, <1>3, <2>0, <2>1, AppendProperties, LenProperties
  <2>3. \A i \in 1..Len(q[s]) : i \in 1..Len(q'[s])
    BY <2>2
  <2>4. Len(q[s]) + 1 \in 1..Len(q'[s])
    BY <2>2
  <2>5. QueuedSeqs(s) \subseteq QueuedSeqs(s)'
    <3>. SUFFICES ASSUME NEW i \in 1..Len(q[s]) PROVE q[s][i].seq \in QueuedSeqs(s)'
      BY DEF QueuedSeqs
    <3>1. i \in 1..Len(q'[s]) /\ q'[s][i] = q[s][i]
      BY <2>2, <2>3
    <3>. QED
      BY <3>1 DEF QueuedSeqs
  <2>6. Goodbye(s) \/ kind = "goodbye" => Goodbye(s)'
    BY <2>1, <2>2, <2>3, <2>4 DEF Goodbye
  <2>7. seq' \in QueuedSeqs(s)'
    BY <1>1, <2>1, <2>2, <2>4 DEF QueuedSeqs
  <2>. QED
    BY <2>5, <2>6, <2>7
<1>. QED
  BY <1>2, <1>3

LEMMA PastGrows ==
  ASSUME Types, Past, seq' = seq + 1, public' \subseteq public \cup {seq'},
         UNCHANGED <<replayed, sent>>,
         \A s \in Stream : \A i \in 1..Len(q'[s]) : q'[s][i].seq <= seq + 1
  PROVE  Past'
<1>1. ASSUME NEW s \in Stream, NEW i \in 1..Len(sent[s]) PROVE sent[s][i].seq <= seq'
  <2>1. sent[s][i] \in Evt
    BY ElementOfSeq DEF Types
  <2>. QED
    BY <2>1 DEF Types, Past, Evt
<1>2. ASSUME NEW s \in Stream, NEW e \in replayed[s] PROVE e.seq <= seq'
  BY DEF Types, Past, Evt
<1>3. public' \subseteq 1..seq'
  BY DEF Types, Past
<1>. QED
  BY <1>1, <1>2, <1>3 DEF Past

(* An announcement to every stream, or to one: nobody comes or goes. *)
LEMMA NewIsOffered ==
  ASSUME StreamInv, NEW kind \in Kind, NEW addressee \in Stream \cup {None},
         NEW to \in SUBSET Stream, Publish(kind, addressee, to), addressee = None => to = subs,
         UNCHANGED <<subs, sessions, owner, resume, start, replayed, sent>>,
         stage' \in [Stream -> {"new", "hello", "replay", "complete", "live", "closed"}],
         \A s \in Stream : Open(s)' <=> Open(s)
  PROVE  StreamInv'
<1>. USE DEF StreamInv
<1>1. Types' /\ RingInv'
  <2>1. /\ ring' \in Seq(Evt) /\ Len(ring') <= RMax /\ RingInv'
        /\ q' \in [Stream -> Seq(Evt)] /\ \A s \in Stream : Len(q'[s]) <= QMax
        /\ dropped' \in [Stream -> BOOLEAN]
    BY PublishKeeps
  <2>2. seq' \in Nat
    BY DEF Types, Publish
  <2>. QED
    BY <2>1, <2>2 DEF Types
<1>2. public' = (IF addressee = None THEN public \cup {seq'} ELSE public) /\ seq' = seq + 1
  BY DEF Publish
<1>3. Past'
  BY <1>2, PublishKeeps, PastGrows
<1>4. \A s \in Stream : dropped[s] => dropped'[s]
  BY PublishKeeps
<1>5. Owed'
  <2>. SUFFICES ASSUME NEW s \in Stream, Open(s), ~dropped'[s], NEW n \in public', n > start[s]
                PROVE  n \in SentSeqs(s) \cup ReplayedSeqs(s) \cup QueuedSeqs(s)'
    BY DEF Owed, SentSeqs, ReplayedSeqs
  <2>1. QueuedSeqs(s) \subseteq QueuedSeqs(s)' /\ (s \in to => seq' \in QueuedSeqs(s)')
    BY Offered
  <2>2. CASE n \in public
    BY <1>4, <2>1, <2>2 DEF Owed
  <2>3. CASE n = seq' /\ addressee = None
    BY <2>1, <2>3 DEF Subscribed
  <2>. QED
    BY <1>2, <2>2, <2>3
<1>6. Subscribed'
  BY DEF Subscribed
<1>7. Registered'
  <2>1. \A v \in Supervisor : sessions[v] # None => Open(sessions[v])' /\ owner[sessions[v]] = v
    BY DEF Registered, Types
  <2>2. ASSUME NEW s \in Stream, Open(s), sessions[owner[s]] # s, ~dropped'[s]
        PROVE  Goodbye(s)'
    BY <1>4, <2>2, Offered DEF Registered
  <2>. QED
    BY <2>1, <2>2 DEF Registered
<1>. QED
  BY <1>1, <1>3, <1>5, <1>6, <1>7

(* The number a supervisor resumes after is one it has seen. *)
LEMMA LastSeenIsNumber ==
  ASSUME Types, Past, NEW v \in Supervisor
  PROVE  LastSeen(v) \in Nat
<1>1. ASSUME NEW n \in Seen(v) PROVE n \in Nat /\ n <= seq
  <2>1. seq \in Nat /\ 0 <= seq
    BY DEF Types
  <2>2. ASSUME NEW s \in Stream, NEW e \in replayed[s] PROVE e.seq \in Nat /\ e.seq <= seq
    BY DEF Types, Past, Evt
  <2>3. ASSUME NEW s \in Stream, NEW i \in DOMAIN sent[s]
        PROVE  sent[s][i].seq \in Nat /\ sent[s][i].seq <= seq
    <3>1. sent[s] \in Seq(Evt) /\ i \in 1..Len(sent[s])
      BY <2>3, LenProperties DEF Types
    <3>2. sent[s][i] \in Evt
      BY <3>1, ElementOfSeq
    <3>. QED
      BY <3>1, <3>2 DEF Past, Evt
  <2>. QED
    BY <1>1, <2>1, <2>2, <2>3 DEF Seen
<1>2. Seen(v) \in SUBSET Nat /\ seq \in Nat /\ 0 \in Seen(v)
  BY <1>1 DEF Types, Seen
<1>3. \E m \in Seen(v) : \A n \in Seen(v) : n <= m
  BY <1>1, <1>2, GreatestOf
<1>. QED
  BY <1>2, <1>3 DEF LastSeen

LEMMA SubscribeKeeps ==
  ASSUME StreamInv, NEW s \in Stream, NEW v \in Supervisor, Subscribe(s, v)
  PROVE  StreamInv'
<1>. USE DEF StreamInv
<1>. DEFINE t == sessions[v]
<1>1. /\ stage[s] = "new" /\ stage' = [stage EXCEPT ![s] = "hello"]
      /\ owner' = [owner EXCEPT ![s] = v] /\ subs' = subs \cup {s}
      /\ sessions' = [sessions EXCEPT ![v] = s] /\ start' = [start EXCEPT ![s] = seq']
      /\ UNCHANGED <<replayed, sent>>
  BY DEF Subscribe, Stage
<1>2. resume' \in [Stream -> Nat \cup {None}]
  <2>1. PICK n \in {None, LastSeen(v)} : resume' = [resume EXCEPT ![s] = n]
    BY DEF Subscribe
  <2>. QED
    BY <2>1, LastSeenIsNumber DEF Types
<1>3. \A u \in Stream : /\ stage'[u] = IF u = s THEN "hello" ELSE stage[u]
                        /\ owner'[u] = IF u = s THEN v ELSE owner[u]
                        /\ start'[u] = IF u = s THEN seq' ELSE start[u]
      /\ \A w \in Supervisor : sessions'[w] = IF w = v THEN s ELSE sessions[w]
  BY <1>1 DEF Types
<1>4. \A u \in Stream : u # s => (Open(u)' <=> Open(u))
  BY <1>3 DEF Open
<1>5. ~Open(s) /\ Open(s)'
  BY <1>1, <1>3 DEF Open
(* The bus: nothing is published, or the Goodbye. *)
<1>6. /\ seq' \in Nat /\ public' = public /\ Past' /\ RingInv'
      /\ ring' \in Seq(Evt) /\ Len(ring') <= RMax
      /\ q' \in [Stream -> Seq(Evt)] /\ \A u \in Stream : Len(q'[u]) <= QMax
      /\ dropped' \in [Stream -> BOOLEAN]
      /\ \A u \in Stream : ~dropped'[u] =>
           /\ ~dropped[u] /\ QueuedSeqs(u) \subseteq QueuedSeqs(u)'
           /\ Goodbye(u) \/ u = t => Goodbye(u)'
  <2>1. CASE t # None
    <3>1. Publish("goodbye", t, {t}) /\ t \in Stream /\ "goodbye" \in Kind
      BY <2>1 DEF Subscribe, Types, Kind
    <3>. HIDE DEF t
    <3>2. public' = public /\ seq' = seq + 1
      BY <3>1, NoneAssumption DEF Publish
    <3>3. /\ ring' \in Seq(Evt) /\ Len(ring') <= RMax /\ RingInv'
          /\ q' \in [Stream -> Seq(Evt)] /\ \A u \in Stream : Len(q'[u]) <= QMax
          /\ dropped' \in [Stream -> BOOLEAN]
          /\ \A u \in Stream : dropped[u] => dropped'[u]
          /\ \A u \in Stream : \A i \in 1..Len(q'[u]) : q'[u][i].seq <= seq + 1
      BY <3>1, PublishKeeps
    <3>4. seq' \in Nat /\ public \subseteq 1..seq'
      BY <3>2 DEF Types, Past
    <3>5. Past'
      BY <1>1, <3>2, <3>3, PastGrows
    <3>6. ASSUME NEW u \in Stream, ~dropped'[u]
          PROVE  /\ QueuedSeqs(u) \subseteq QueuedSeqs(u)'
                 /\ Goodbye(u) \/ u = t => Goodbye(u)'
      BY <3>1, <3>6, Offered
    <3>. QED
      BY <3>2, <3>3, <3>4, <3>5, <3>6
  <2>2. CASE t = None
    <3>1. UNCHANGED <<seq, ring, q, dropped, public>>
      BY <2>2 DEF Subscribe
    <3>. QED
      BY <1>1, <2>2, <3>1, NoneAssumption DEF Types, Past, RingInv, QueuedSeqs, Goodbye
  <2>. QED
    BY <2>1, <2>2
<1>7. Types'
  <2>1. start' \in [Stream -> Int]
    BY <1>1, <1>6 DEF Types
  <2>2. stage' \in [Stream -> {"new", "hello", "replay", "complete", "live", "closed"}]
    BY <1>1 DEF Types
  <2>. QED
    BY <1>1, <1>2, <1>6, <2>1, <2>2 DEF Types
<1>8. Owed'
  <2>. SUFFICES ASSUME NEW u \in Stream, Open(u)', ~dropped'[u], NEW n \in public', n > start'[u]
                PROVE  n \in SentSeqs(u) \cup ReplayedSeqs(u) \cup QueuedSeqs(u)'
    BY <1>1 DEF Owed, SentSeqs, ReplayedSeqs
  <2>1. u # s
    <3>1. public' \subseteq 1..seq' /\ seq' \in Nat
      BY <1>6 DEF Past
    <3>2. n \in 1..seq' /\ n > start'[u]
      BY <3>1
    <3>3. start'[s] = seq'
      BY <1>3
    <3>. QED
      BY <3>1, <3>2, <3>3
  <2>. QED
    BY <1>3, <1>4, <1>6, <2>1 DEF Owed
<1>9. Subscribed'
  BY <1>1, <1>3, <1>4 DEF Subscribed
<1>10. Registered'
  <2>1. ASSUME NEW w \in Supervisor, sessions'[w] # None
        PROVE  Open(sessions[w])' /\ owner'[sessions'[w]] = w
    <3>1. CASE w = v
      BY <1>3, <1>5, <3>1
    <3>2. CASE w # v
      <4>1. sessions'[w] = sessions[w] /\ Open(sessions[w]) /\ owner[sessions[w]] = w
            /\ sessions[w] \in Stream
        BY <1>3, <2>1, <3>2 DEF Registered, Types
      <4>2. sessions[w] # s
        BY <1>5, <4>1
      <4>3. stage'[sessions'[w]] = stage[sessions[w]] /\ owner'[sessions'[w]] = w
        BY <1>3, <4>1, <4>2
      <4>. QED
        BY <4>1, <4>3 DEF Open
    <3>. QED
      BY <3>1, <3>2
  <2>2. ASSUME NEW u \in Stream, Open(u)', sessions'[owner'[u]] # u, ~dropped'[u]
        PROVE  Goodbye(u)'
    <3>1. u # s
      BY <1>3, <2>2
    <3>2. Open(u) /\ owner'[u] = owner[u] /\ owner[u] \in Supervisor
      BY <1>3, <1>4, <2>2, <3>1 DEF Subscribed
    <3>3. CASE u = t
      BY <1>6, <2>2, <3>3
    <3>4. CASE u # t
      <4>1. sessions[owner[u]] # u
        BY <1>3, <2>2, <3>2, <3>4
      <4>. QED
        BY <1>6, <2>2, <3>2, <4>1 DEF Registered
    <3>. QED
      BY <3>3, <3>4
  <2>. QED
    BY <2>1, <2>2 DEF Registered
<1>. QED
  BY <1>6, <1>7, <1>8, <1>9, <1>10

(* What is numbered after n and is still in the ring's reach is replayed. *)
LEMMA ReplayCovers ==
  ASSUME Types, Past, RingInv, NEW s \in Stream, Covered(resume[s]), Replay(s),
         NEW n \in public, n > start'[s]
  PROVE  n \in {e.seq : e \in Since(resume[s])}
<1>1. /\ ring \in Seq(Evt) /\ Len(ring) \in Nat /\ DOMAIN ring = 1..Len(ring)
      /\ seq \in Nat /\ n \in 1..seq /\ resume[s] \in Nat
  <2>1. ring \in Seq(Evt)
    BY DEF Types
  <2>2. resume[s] \in Nat
    BY DEF Types, Covered
  <2>. QED
    BY <2>1, <2>2, LenProperties DEF Types, Past
<1>2. Len(ring) > 0 /\ ring # <<>>
  BY <1>1 DEF RingInv
<1>3. ring[1].seq = seq - Len(ring) + 1
  BY <1>1, <1>2 DEF RingInv
<1>4. start'[s] = IF resume[s] = 0 THEN ring[1].seq - 1 ELSE resume[s]
  BY <1>2 DEF Replay, Types
<1>5. n > seq - Len(ring) /\ n > resume[s]
  BY <1>1, <1>2, <1>3, <1>4 DEF Covered
<1>. DEFINE i == n - (seq - Len(ring))
<1>6. i \in 1..Len(ring)
  BY <1>1, <1>5
<1>7. ring[i].seq = n
  BY <1>1, <1>6 DEF RingInv
<1>8. ring[i] \in Since(resume[s])
  BY <1>1, <1>5, <1>6, <1>7 DEF Since
<1>. QED
  BY <1>7, <1>8

LEMMA ReplayKeeps == ASSUME StreamInv, NEW s \in Stream, Replay(s) PROVE StreamInv'
<1>. USE DEF StreamInv
<1>1. /\ stage[s] = "hello" /\ stage' = [stage EXCEPT ![s] = "complete"]
      /\ UNCHANGED <<seq, ring, q, subs, sessions, owner, resume, sent, dropped, public>>
  BY DEF Replay, Stage, bus
<1>2. \A u \in Stream : Open(u)' <=> Open(u)
  BY <1>1 DEF Open, Types
<1>3. Since(resume[s]) \in SUBSET Evt /\ \A e \in Since(resume[s]) : e.seq <= seq
  <2>1. ring \in Seq(Evt) /\ Len(ring) \in Nat /\ DOMAIN ring = 1..Len(ring) /\ seq \in Nat
    BY LenProperties DEF Types
  <2>2. ASSUME NEW i \in 1..Len(ring) PROVE ring[i] \in Evt /\ ring[i].seq <= seq
    <3>1. ring[i] \in Evt
      BY <2>1, ElementOfSeq
    <3>. QED
      BY <2>1, <3>1 DEF RingInv
  <2>. QED
    BY <2>1, <2>2 DEF Since
<1>4. /\ start' \in [Stream -> Int] /\ replayed' \in [Stream -> SUBSET Evt]
      /\ \A u \in Stream : u # s => start'[u] = start[u] /\ replayed'[u] = replayed[u]
      /\ replayed'[s] = IF Covered(resume[s]) THEN Since(resume[s]) ELSE replayed[s]
      /\ ~Covered(resume[s]) => start'[s] = start[s]
  <2>1. CASE Covered(resume[s])
    <3>1. resume[s] \in Nat
      BY <2>1 DEF Covered, Types
    <3>2. ring # <<>> => ring[1].seq \in Int
      <4>1. ring # <<>> => 1 \in 1..Len(ring)
        BY EmptySeq DEF Types
      <4>2. ring # <<>> => ring[1] \in Evt
        BY <4>1, ElementOfSeq DEF Types
      <4>. QED
        BY <4>2 DEF Evt
    <3>3. /\ replayed' = [replayed EXCEPT ![s] = Since(resume[s])]
          /\ \/ start' = [start EXCEPT ![s] = ring[1].seq - 1] /\ ring # <<>>
             \/ start' = [start EXCEPT ![s] = resume[s]]
      BY <2>1 DEF Replay
    <3>4. start' \in [Stream -> Int] /\ \A u \in Stream : u # s => start'[u] = start[u]
      BY <3>1, <3>2, <3>3 DEF Types
    <3>5. /\ replayed' \in [Stream -> SUBSET Evt] /\ replayed'[s] = Since(resume[s])
          /\ \A u \in Stream : u # s => replayed'[u] = replayed[u]
      BY <1>3, <3>3 DEF Types
    <3>. QED
      BY <2>1, <3>4, <3>5
  <2>2. CASE ~Covered(resume[s])
    BY <2>2 DEF Replay, Types
  <2>. QED
    BY <2>1, <2>2
<1>5. Types'
  BY <1>1, <1>4 DEF Types
<1>6. Past' /\ RingInv'
  BY <1>1, <1>3, <1>4 DEF Past, RingInv
<1>7. Owed'
  <2>. SUFFICES ASSUME NEW u \in Stream, Open(u), ~dropped[u], NEW n \in public, n > start'[u]
                PROVE  n \in SentSeqs(u) \cup ReplayedSeqs(u)' \cup QueuedSeqs(u)
    BY <1>1, <1>2 DEF Owed, SentSeqs, QueuedSeqs
  <2>1. CASE u = s /\ Covered(resume[s])
    BY <1>4, <2>1, ReplayCovers DEF ReplayedSeqs
  <2>2. CASE ~(u = s /\ Covered(resume[s]))
    <3>1. start'[u] = start[u] /\ replayed'[u] = replayed[u]
      BY <1>4, <2>2
    <3>. QED
      BY <3>1 DEF Owed, ReplayedSeqs
  <2>. QED
    BY <2>1, <2>2
<1>8. Subscribed' /\ Registered'
  <2>1. \A v \in Supervisor : sessions[v] # None => Open(sessions[v])'
    BY <1>1, <1>2 DEF Registered, Types
  <2>. QED
    BY <1>1, <1>2, <2>1 DEF Subscribed, Registered, Goodbye
<1>. QED
  BY <1>5, <1>6, <1>7, <1>8

(* A stream that closes owes nothing, and only its own session ends. *)
LEMMA ClosingKeeps ==
  ASSUME StreamInv, NEW s \in Stream, Closing(s), Past',
         q' \in [Stream -> Seq(Evt)], sent' \in [Stream -> Seq(Evt)],
         \A u \in Stream : Len(q'[u]) <= QMax /\ (u # s => q'[u] = q[u] /\ sent'[u] = sent[u]),
         UNCHANGED <<seq, ring, owner, resume, start, replayed, dropped, public>>
  PROVE  StreamInv'
<1>. USE DEF StreamInv
<1>1. /\ stage' = [stage EXCEPT ![s] = "closed"] /\ subs' = subs \ {s}
      /\ sessions' = [v \in Supervisor |-> IF sessions[v] = s THEN None ELSE sessions[v]]
  BY DEF Closing, Stage
<1>2. ~Open(s)' /\ \A u \in Stream : u # s => (Open(u)' <=> Open(u))
  BY <1>1 DEF Open, Types
<1>3. Types' /\ RingInv'
  BY <1>1 DEF Types, RingInv
<1>4. Owed'
  <2>. SUFFICES ASSUME NEW u \in Stream, Open(u)', ~dropped[u], NEW n \in public, n > start[u]
                PROVE  n \in SentSeqs(u)' \cup ReplayedSeqs(u) \cup QueuedSeqs(u)'
    BY DEF Owed, ReplayedSeqs
  <2>1. u # s /\ Open(u) /\ q'[u] = q[u] /\ sent'[u] = sent[u]
    BY <1>2
  <2>2. SentSeqs(u)' = SentSeqs(u) /\ QueuedSeqs(u)' = QueuedSeqs(u)
    BY <2>1 DEF SentSeqs, QueuedSeqs
  <2>. QED
    BY <2>1, <2>2 DEF Owed
<1>5. Subscribed'
  BY <1>1, <1>2 DEF Subscribed
<1>6. Registered'
  <2>1. ASSUME NEW v \in Supervisor, sessions'[v] # None
        PROVE  Open(sessions[v])' /\ owner'[sessions'[v]] = v
    <3>1. /\ sessions'[v] = sessions[v] /\ sessions[v] # s /\ sessions[v] \in Stream
          /\ Open(sessions[v]) /\ owner[sessions[v]] = v
      BY <1>1, <2>1 DEF Registered, Types
    <3>2. stage'[sessions'[v]] = stage[sessions[v]]
      BY <1>1, <3>1 DEF Types
    <3>. QED
      BY <3>1, <3>2 DEF Open
  <2>2. ASSUME NEW u \in Stream, Open(u)', sessions'[owner[u]] # u
        PROVE  dropped[u] \/ Goodbye(u)'
    <3>1. u # s /\ Open(u) /\ owner[u] \in Supervisor
      BY <1>2, <2>2 DEF Subscribed
    <3>2. sessions[owner[u]] # u
      BY <1>1, <2>2, <3>1
    <3>3. (dropped[u] \/ Goodbye(u)) /\ q'[u] = q[u]
      BY <3>1, <3>2 DEF Registered
    <3>. QED
      BY <3>3 DEF Goodbye
  <2>. QED
    BY <2>1, <2>2 DEF Registered
<1>. QED
  BY <1>3, <1>4, <1>5, <1>6

LEMMA DeliverKeeps == ASSUME StreamInv, NEW s \in Stream, Deliver(s) PROVE StreamInv'
<1>. USE DEF StreamInv
<1>. DEFINE e == Head(q[s])
<1>1. /\ q[s] # <<>> /\ sent' = [sent EXCEPT ![s] = Append(@, e)]
      /\ q' = [q EXCEPT ![s] = Tail(@)]
      /\ UNCHANGED <<seq, ring, owner, resume, start, replayed, dropped, public>>
  BY DEF Deliver
<1>2. /\ q[s] \in Seq(Evt) /\ Len(q[s]) \in Nat /\ Len(q[s]) > 0 /\ e = q[s][1] /\ e \in Evt
      /\ sent[s] \in Seq(Evt) /\ Len(sent[s]) \in Nat
  <2>1. q[s] \in Seq(Evt) /\ sent[s] \in Seq(Evt)
    BY DEF Types
  <2>2. Len(q[s]) \in Nat \ {0} /\ Len(sent[s]) \in Nat
    BY <1>1, <2>1, EmptySeq, LenProperties
  <2>3. e = q[s][1] /\ e \in Evt
    BY <1>1, <2>1, HeadTailProperties
  <2>. QED
    BY <2>1, <2>2, <2>3
<1>3. /\ q'[s] = Tail(q[s]) /\ q'[s] \in Seq(Evt) /\ Len(q'[s]) = Len(q[s]) - 1
      /\ \A i \in 1..Len(q'[s]) : q'[s][i] = q[s][i + 1]
  <2>1. q'[s] = Tail(q[s])
    BY <1>1 DEF Types
  <2>. QED
    BY <1>1, <1>2, <2>1, HeadTailProperties
<1>. HIDE DEF e
<1>4. /\ sent'[s] \in Seq(Evt) /\ Len(sent'[s]) = Len(sent[s]) + 1
      /\ \A i \in 1..Len(sent[s]) : sent'[s][i] = sent[s][i]
      /\ sent'[s][Len(sent[s]) + 1] = e
  <2>1. sent'[s] = Append(sent[s], e)
    BY <1>1 DEF Types
  <2>. QED
    BY <1>2, <2>1, AppendProperties
<1>5. /\ q' \in [Stream -> Seq(Evt)] /\ sent' \in [Stream -> Seq(Evt)]
      /\ \A u \in Stream : u # s => q'[u] = q[u] /\ sent'[u] = sent[u]
  BY <1>1, <1>3, <1>4 DEF Types
<1>6. \A u \in Stream : Len(q'[u]) <= QMax
  <2>1. Len(q[s]) <= QMax /\ QMax \in Nat
    BY BoundsAssumption DEF Types
  <2>2. Len(q'[s]) <= QMax
    BY <1>2, <1>3, <2>1
  <2>3. \A u \in Stream : u # s => Len(q'[u]) <= QMax
    BY <1>5 DEF Types
  <2>. QED
    BY <2>2, <2>3
<1>7. Past'
  <2>1. \A i \in 1..Len(q'[s]) : q'[s][i].seq <= seq
    BY <1>2, <1>3 DEF Past
  <2>2. e.seq <= seq
    BY <1>2 DEF Past
  <2>3. \A i \in 1..Len(sent'[s]) : sent'[s][i].seq <= seq
    <3>1. \A i \in 1..Len(sent[s]) : sent'[s][i].seq <= seq
      BY <1>4 DEF Past
    <3>2. \A i \in 1..Len(sent'[s]) : i \in 1..Len(sent[s]) \/ i = Len(sent[s]) + 1
      BY <1>2, <1>4
    <3>. QED
      BY <1>4, <2>2, <3>1, <3>2
  <2>4. \A u \in Stream : u # s =>
           /\ \A i \in 1..Len(sent'[u]) : sent'[u][i].seq <= seq
           /\ \A i \in 1..Len(q'[u]) : q'[u][i].seq <= seq
    BY <1>5 DEF Past
  <2>. QED
    BY <1>1, <2>1, <2>3, <2>4 DEF Past
<1>8. CASE e.kind = "goodbye"
  <2>1. Closing(s)
    BY <1>8 DEF Deliver, e
  <2>. QED
    BY <1>1, <1>5, <1>6, <1>7, <2>1, ClosingKeeps
<1>9. CASE e.kind # "goodbye"
  <2>1. UNCHANGED <<stage, subs, sessions>>
    BY <1>9 DEF Deliver, e
  <2>2. Types' /\ RingInv' /\ Subscribed'
    BY <1>1, <1>5, <1>6, <2>1 DEF Types, RingInv, Subscribed, Open
  <2>3. QueuedSeqs(s) \subseteq {e.seq} \cup QueuedSeqs(s)'
    <3>. SUFFICES ASSUME NEW i \in 1..Len(q[s]), i # 1 PROVE q[s][i].seq \in QueuedSeqs(s)'
      BY <1>2 DEF QueuedSeqs
    <3>1. i - 1 \in 1..Len(q'[s]) /\ q'[s][i - 1] = q[s][i]
      BY <1>2, <1>3
    <3>. QED
      BY <3>1 DEF QueuedSeqs
  <2>4. SentSeqs(s) \cup {e.seq} \subseteq SentSeqs(s)'
    <3>1. DOMAIN sent[s] = 1..Len(sent[s]) /\ DOMAIN sent'[s] = 1..Len(sent'[s])
      BY <1>2, <1>4, LenProperties
    <3>2. ASSUME NEW i \in 1..Len(sent[s])
          PROVE  i \in DOMAIN sent'[s] /\ sent'[s][i] = sent[s][i]
      BY <1>2, <1>4, <3>1
    <3>3. Len(sent[s]) + 1 \in DOMAIN sent'[s]
      BY <1>2, <1>4, <3>1
    <3>4. SentSeqs(s) \subseteq SentSeqs(s)'
      BY <3>1, <3>2 DEF SentSeqs
    <3>5. e.seq \in SentSeqs(s)'
      BY <1>4, <3>3 DEF SentSeqs
    <3>. QED
      BY <3>4, <3>5
  <2>5. Owed'
    <3>. SUFFICES ASSUME NEW u \in Stream, Open(u), ~dropped[u], NEW n \in public, n > start[u]
                  PROVE  n \in SentSeqs(u)' \cup ReplayedSeqs(u) \cup QueuedSeqs(u)'
      BY <1>1, <2>1 DEF Owed, ReplayedSeqs, Open
    <3>1. n \in SentSeqs(u) \cup ReplayedSeqs(u) \cup QueuedSeqs(u)
      BY DEF Owed
    <3>2. CASE u = s
      BY <2>3, <2>4, <3>1, <3>2
    <3>3. CASE u # s
      BY <1>5, <3>1, <3>3 DEF SentSeqs, QueuedSeqs
    <3>. QED
      BY <3>2, <3>3
  <2>6. Registered'
    <3>1. \A u \in Stream : Goodbye(u) => Goodbye(u)'
      <4>1. ASSUME NEW i \in 1..Len(q[s]), q[s][i].kind = "goodbye"
            PROVE  i - 1 \in 1..Len(q'[s]) /\ q'[s][i - 1].kind = "goodbye"
        <5>1. i # 1
          BY <1>2, <1>9, <4>1
        <5>. QED
          BY <1>2, <1>3, <4>1, <5>1
      <4>2. Goodbye(s) => Goodbye(s)'
        BY <4>1 DEF Goodbye
      <4>. QED
        BY <1>5, <4>2 DEF Goodbye
    <3>. QED
      BY <1>1, <2>1, <3>1 DEF Registered, Open
  <2>. QED
    BY <1>7, <2>2, <2>5, <2>6
<1>. QED
  BY <1>8, <1>9

-----------------------------------------------------------------------------
(* The specification *)

LEMMA StreamStart == Init => StreamInv
<1>. SUFFICES ASSUME Init PROVE StreamInv
  OBVIOUS
<1>1. <<>> \in Seq(Evt) /\ Len(<<>>) = 0
  BY EmptySeq
<1>2. Types
  <2>1. /\ q \in [Stream -> Seq(Evt)] /\ sent \in [Stream -> Seq(Evt)]
        /\ \A s \in Stream : Len(q[s]) <= QMax
    BY <1>1, BoundsAssumption DEF Init
  <2>2. ring \in Seq(Evt) /\ Len(ring) <= RMax
    BY <1>1, BoundsAssumption DEF Init
  <2>. QED
    BY <2>1, <2>2 DEF Init, Types
<1>3. \A s \in Stream : ~Open(s)
  BY DEF Init, Open
<1>4. Past /\ RingInv
  BY <1>1 DEF Init, Past, RingInv
<1>5. Owed /\ Subscribed /\ Registered
  BY <1>3 DEF Init, Owed, Subscribed, Registered
<1>. QED
  BY <1>2, <1>4, <1>5 DEF StreamInv

LEMMA EngineEventKeeps == ASSUME StreamInv, EngineEvent PROVE StreamInv'
<1>1. Publish("event", None, subs) /\ "event" \in Kind /\ subs \in SUBSET Stream
  BY DEF EngineEvent, StreamInv, Types, Kind
<1>2. UNCHANGED <<subs, sessions, stage, owner, resume, start, replayed, sent>>
  BY DEF EngineEvent
<1>3. \A s \in Stream : Open(s)' <=> Open(s)
  BY <1>2 DEF Open
<1>4. stage' \in [Stream -> {"new", "hello", "replay", "complete", "live", "closed"}]
  BY <1>2 DEF StreamInv, Types
<1>. QED
  BY <1>1, <1>2, <1>3, <1>4, NewIsOffered

LEMMA ReplayCompleteKeeps ==
  ASSUME StreamInv, NEW s \in Stream, ReplayComplete(s) PROVE StreamInv'
<1>1. Publish("serving", None, subs) /\ "serving" \in Kind /\ subs \in SUBSET Stream
  BY DEF ReplayComplete, StreamInv, Types, Kind
<1>2. /\ stage[s] = "complete" /\ stage' = [stage EXCEPT ![s] = "live"]
      /\ UNCHANGED <<subs, sessions, owner, resume, start, replayed, sent>>
  BY DEF ReplayComplete, Stage
<1>3. /\ stage' \in [Stream -> {"new", "hello", "replay", "complete", "live", "closed"}]
      /\ \A u \in Stream : stage'[u] = IF u = s THEN "live" ELSE stage[u]
  BY <1>2 DEF StreamInv, Types
<1>4. \A u \in Stream : Open(u)' <=> Open(u)
  BY <1>2, <1>3 DEF Open
<1>. QED
  BY <1>1, <1>2, <1>3, <1>4, NewIsOffered

LEMMA DirectiveKeeps ==
  ASSUME StreamInv, NEW s \in Stream, Directive(s) PROVE StreamInv'
<1>1. Publish("result", s, {s}) /\ "result" \in Kind /\ {s} \in SUBSET Stream /\ s # None
  BY NoneAssumption DEF Directive, Kind
<1>2. UNCHANGED <<subs, sessions, stage, owner, resume, start, replayed, sent>>
  BY DEF Directive
<1>3. \A u \in Stream : Open(u)' <=> Open(u)
  BY <1>2 DEF Open
<1>4. stage' \in [Stream -> {"new", "hello", "replay", "complete", "live", "closed"}]
  BY <1>2 DEF StreamInv, Types
<1>. QED
  BY <1>1, <1>2, <1>3, <1>4, NewIsOffered

LEMMA CloseKeeps == ASSUME StreamInv, NEW s \in Stream, Close(s) PROVE StreamInv'
<1>1. Closing(s) /\ UNCHANGED <<seq, ring, q, owner, resume, history>>
  BY DEF Close
<1>2. Past' /\ q' \in [Stream -> Seq(Evt)] /\ sent' \in [Stream -> Seq(Evt)]
      /\ \A u \in Stream : Len(q'[u]) <= QMax
  BY <1>1 DEF StreamInv, Types, Past, history
<1>. QED
  BY <1>1, <1>2, ClosingKeeps DEF history

LEMMA StreamStep == StreamInv /\ [Next]_vars => StreamInv'
<1>. SUFFICES ASSUME StreamInv, [Next]_vars PROVE StreamInv'
  OBVIOUS
<1>1. CASE EngineEvent
  BY <1>1, EngineEventKeeps
<1>2. CASE \E s \in Stream : \E v \in Supervisor : Subscribe(s, v)
  BY <1>2, SubscribeKeeps
<1>3. CASE \E s \in Stream : Replay(s)
  BY <1>3, ReplayKeeps
<1>4. CASE \E s \in Stream : ReplayComplete(s)
  BY <1>4, ReplayCompleteKeeps
<1>5. CASE \E s \in Stream : Deliver(s)
  BY <1>5, DeliverKeeps
<1>6. CASE \E s \in Stream : Close(s)
  BY <1>6, CloseKeeps
<1>7. CASE \E s \in Stream : Directive(s)
  BY <1>7, DirectiveKeeps
<1>8. CASE UNCHANGED vars
  <2>1. UNCHANGED <<seq, ring, q, subs, sessions, stage, owner, resume>>
        /\ UNCHANGED <<start, replayed, sent, dropped, public>>
    BY <1>8 DEF vars, bus, history
  <2>2. Types' /\ Past' /\ RingInv' /\ Subscribed'
    BY <2>1 DEF StreamInv, Types, Past, RingInv, Subscribed, Open
  <2>3. Owed'
    BY <2>1 DEF StreamInv, Owed, Open, SentSeqs, ReplayedSeqs, QueuedSeqs
  <2>4. Registered'
    BY <2>1 DEF StreamInv, Registered, Open, Goodbye
  <2>. QED
    BY <2>2, <2>3, <2>4 DEF StreamInv
<1>. QED
  BY <1>1, <1>2, <1>3, <1>4, <1>5, <1>6, <1>7, <1>8 DEF Next

LEMMA StreamAlways == Spec => []StreamInv
BY StreamStart, StreamStep, PTL DEF Spec

(* A stream that has caught up has sent, from the ring or from its queue, every
   event for everybody since its start, unless its queue overflowed. *)
THEOREM NoGapIsLeft == Spec => []NoGap
<1>1. StreamInv => NoGap
  <2>. SUFFICES ASSUME StreamInv, NEW s \in Stream, stage[s] = "live", q[s] = <<>>, ~dropped[s],
                       NEW n \in public, n > start[s]
                PROVE  n \in SentSeqs(s) \cup ReplayedSeqs(s)
    BY DEF NoGap
  <2>1. n \in SentSeqs(s) \cup ReplayedSeqs(s) \cup QueuedSeqs(s)
    BY DEF StreamInv, Owed, Open
  <2>2. QueuedSeqs(s) = {}
    BY EmptySeq DEF QueuedSeqs
  <2>. QED
    BY <2>1, <2>2
<1>. QED
  BY <1>1, StreamAlways, PTL

(* The stream registered for a supervisor is open and its own, and any other
   open stream of it has its Goodbye in its queue, unless that was dropped. *)
THEOREM ConnectedStreamIsOpen == Spec => []ConnectedIsOpen
<1>1. StreamInv => ConnectedIsOpen
  <2>. SUFFICES ASSUME StreamInv PROVE ConnectedIsOpen
    OBVIOUS
  <2>1. \A s \in Stream : DOMAIN q[s] = 1..Len(q[s])
    BY LenProperties DEF StreamInv, Types
  <2>. QED
    BY <2>1 DEF StreamInv, Registered, Goodbye, ConnectedIsOpen
<1>. QED
  BY <1>1, StreamAlways, PTL

-----------------------------------------------------------------------------
(* A completion: its clock readings are in order and in the past, and nothing
   but what a stream has left is sent before it is done. *)

CallOk(r) ==
  /\ DOMAIN r = DOMAIN Resting
  /\ r.todo \in Seq(Peer)
  /\ r.at \in {"look", "fetch", "store"} => r.todo # <<>>
  /\ r.at \in {"look", "fetch"} => r.now \in Nat /\ r.now <= clock
  /\ r.at = "store" => /\ r.now \in Nat /\ r.snap.read \in Nat
                       /\ r.now <= r.snap.read /\ r.snap.read <= clock
  /\ r.age \in Nat /\ r.age < Ttl
  /\ r.at \notin {"stream", "send"} => r.buffer = {}
  /\ scene.faults = {} =>
       /\ r.at \notin {"send", "done"} => r.out = {}
       /\ r.at = "stream" => r.buffer \subseteq {"stream"}
       /\ \E x : r.out \cup r.buffer \subseteq {x}

(* An entry of the cache is stamped no later than its Status was given. *)
EntryOk(e) == e.at \in Nat /\ e.read \in Nat /\ e.at <= e.read /\ e.read <= clock

LatticeInv ==
  /\ scene \in Scene /\ clock \in Nat
  /\ DOMAIN call = Call /\ \A c \in Call : CallOk(call[c])
  /\ DOMAIN cache = Peer /\ \A p \in Peer : cache[p] # Nothing => EntryOk(cache[p])

(* A step of one completion, with what is left to show of it. *)
LEMMA CallSteps ==
  ASSUME LatticeInv, NEW c \in Call, NEW r, call' = [call EXCEPT ![c] = r], CallOk(r),
         UNCHANGED <<scene, clock, cache>>
  PROVE  LatticeInv'
<1>1. /\ DOMAIN call' = Call /\ call'[c] = r
      /\ \A d \in Call : d # c => call'[d] = call[d]
  BY DEF LatticeInv
<1>2. CallOk(call[c])'
  BY <1>1 DEF CallOk
<1>3. ASSUME NEW d \in Call, d # c PROVE CallOk(call[d])'
  BY <1>1, <1>3 DEF LatticeInv, CallOk
<1>4. \A p \in Peer : cache[p] # Nothing => EntryOk(cache[p])'
  BY DEF LatticeInv, EntryOk
<1>. QED
  BY <1>1, <1>2, <1>3, <1>4 DEF LatticeInv

LEMMA RoutesKeep ==
  ASSUME LatticeInv, NEW c \in Call,
         \/ Begin(c) \/ Enter(c) \/ CerebrasAnswers(c) \/ Planned(c)
         \/ RouteReady(c) \/ RouteInfers(c) \/ RouteCompletes(c) \/ OipInfers(c)
  PROVE  LatticeInv'
<1>. DEFINE r == call[c]
<1>1. /\ CallOk(r) /\ DOMAIN call = Call /\ scene \in Scene /\ scene.peers \in Seq(Peer)
      /\ <<>> \in Seq(Peer)
  BY LatticeAssumption DEF LatticeInv
<1>2. UNCHANGED <<scene, clock, cache>>
  BY DEF Begin, Enter, CerebrasAnswers, Planned, RouteReady, RouteInfers, RouteCompletes,
         OipInfers, UncalledExcept
(* Nothing of these asks a peer for its Status, and only the last answers. *)
<1>3. ASSUME call' = [call EXCEPT ![c] = call'[c]], DOMAIN call'[c] = DOMAIN r,
             call'[c].todo \in {r.todo, scene.peers, <<>>}, call'[c].age = r.age,
             call'[c].at \notin {"look", "fetch", "store", "send"},
             r.at \notin {"stream", "send", "done"}, call'[c].buffer = r.buffer,
             \/ call'[c].out = r.out
             \/ call'[c].at = "done" /\ \E x : call'[c].out = r.out \cup {x}
      PROVE  LatticeInv'
  <2>1. r.buffer = {} /\ (scene.faults = {} => r.out = {})
    BY <1>1, <1>3 DEF CallOk
  <2>2. CallOk(call'[c])
    BY <1>1, <1>3, <2>1 DEF CallOk
  <2>. QED
    BY <1>2, <1>3, <2>2, CallSteps
<1>4. DOMAIN r = {"at", "cap", "stream", "todo", "now", "snap", "known", "age", "routes", "tried",
                  "buffer", "out", "answered"}
  BY <1>1 DEF CallOk, Resting
<1>5. CASE Begin(c)
  <2>. DEFINE At(stream) == IF ~stream THEN "enter" ELSE IF scene.oip # <<>> THEN "stream"
                            ELSE "plan"
              Todo(stream) == IF stream /\ scene.oip = <<>> THEN scene.peers ELSE <<>>
              Routes(cap, stream) == IF stream /\ scene.oip # <<>>
                       THEN <<[peer |-> Head(scene.oip), cap |-> cap, healthy |-> FALSE]>>
                       ELSE <<>>
  <2>1. PICK cap \in Cap, stream \in scene.streams :
          call' = [call EXCEPT ![c].cap = cap, ![c].stream = stream, ![c].at = At(stream),
                               ![c].todo = Todo(stream), ![c].routes = Routes(cap, stream)]
    BY <1>5, Zenon DEF Begin
  <2>2. At(stream) \notin {"look", "fetch", "store", "send"} /\ Todo(stream) \in {scene.peers, <<>>}
    OBVIOUS
  <2>3. r.at \notin {"stream", "send", "done"}
    BY <1>5 DEF Begin
  <2>. HIDE DEF At, Todo, Routes
  <2>4. /\ DOMAIN call'[c] = DOMAIN r /\ call' = [call EXCEPT ![c] = call'[c]]
        /\ call'[c].todo = Todo(stream) /\ call'[c].at = At(stream) /\ call'[c].age = r.age
        /\ call'[c].out = r.out /\ call'[c].buffer = r.buffer
    BY <1>1, <1>4, <2>1
  <2>. QED
    BY <1>3, <2>2, <2>3, <2>4
<1>6. CASE Enter(c)
  BY <1>1, <1>3, <1>4, <1>6 DEF Enter, Routing
<1>7. CASE CerebrasAnswers(c)
  BY <1>1, <1>3, <1>4, <1>7 DEF CerebrasAnswers, Answered1, Step
<1>8. CASE Planned(c)
  BY <1>1, <1>3, <1>4, <1>8 DEF Planned
<1>9. CASE RouteReady(c)
  BY <1>1, <1>3, <1>4, <1>9 DEF RouteReady, Step
<1>10. CASE RouteInfers(c)
  BY <1>1, <1>3, <1>4, <1>10 DEF RouteInfers, Step, Answered1
<1>11. CASE RouteCompletes(c)
  BY <1>1, <1>3, <1>4, <1>11 DEF RouteCompletes, NextRoute, Answered1
<1>12. CASE OipInfers(c)
  BY <1>1, <1>3, <1>4, <1>12 DEF OipInfers, Routing, Answered1
<1>. QED
  BY <1>5, <1>6, <1>7, <1>8, <1>9, <1>10, <1>11, <1>12

(* A stream: what it leaves to send is its chunks or, without a chunk, the whole
   answer of its peer. *)
LEMMA StreamKeeps ==
  ASSUME LatticeInv, NEW c \in Call,
         \/ StreamComes(c) \/ StreamEnds(c) \/ StreamRefused(c) \/ StreamSends(c)
         \/ StreamFails(c)
  PROVE  LatticeInv'
<1>. DEFINE r == call[c]
<1>1. CallOk(r) /\ DOMAIN call = Call /\ <<>> \in Seq(Peer)
  BY DEF LatticeInv
<1>2. UNCHANGED <<scene, clock, cache>>
  BY DEF StreamComes, StreamEnds, StreamRefused, StreamSends, StreamFails, UncalledExcept
<1>4. DOMAIN r = {"at", "cap", "stream", "todo", "now", "snap", "known", "age", "routes", "tried",
                  "buffer", "out", "answered"}
  BY <1>1 DEF CallOk, Resting
<1>5. CASE StreamComes(c)
  <2>. DEFINE s == [r EXCEPT !.buffer = r.buffer \cup {"stream"}]
  <2>1. call' = [call EXCEPT ![c] = s] /\ r.at = "stream"
    BY <1>1, <1>5 DEF StreamComes, StreamChunk
  <2>2. CallOk(s)
    BY <1>1, <1>4, <2>1 DEF CallOk
  <2>. QED
    BY <1>2, <2>1, <2>2, CallSteps
<1>6. CASE StreamEnds(c)
  <2>. DEFINE s == [r EXCEPT !.at = "send"]
  <2>1. call' = [call EXCEPT ![c] = s] /\ r.at = "stream"
    BY <1>1, <1>6 DEF StreamEnds, Step
  <2>2. CallOk(s)
    BY <1>1, <1>4, <2>1 DEF CallOk
  <2>. QED
    BY <1>2, <2>1, <2>2, CallSteps
<1>7. CASE StreamRefused(c)
  <2>. DEFINE s == [r EXCEPT !.at = "send", !.buffer = r.buffer \cup {"whole"}]
  <2>1. /\ call' = [call EXCEPT ![c] = s] /\ r.at = "stream"
        /\ scene.faults = {} => r.buffer = {}
    BY <1>1, <1>7 DEF StreamRefused
  <2>2. CallOk(s)
    BY <1>1, <1>4, <2>1 DEF CallOk
  <2>. QED
    BY <1>2, <2>1, <2>2, CallSteps
<1>8. CASE StreamSends(c)
  <2>1. CASE r.buffer = {}
    <3>. DEFINE s == [r EXCEPT !.at = "done", !.answered = TRUE]
    <3>1. call' = [call EXCEPT ![c] = s] /\ r.at = "send"
      BY <1>1, <1>8, <2>1 DEF StreamSends
    <3>2. CallOk(s)
      BY <1>1, <1>4, <2>1, <3>1 DEF CallOk
    <3>. QED
      BY <1>2, <3>1, <3>2, CallSteps
  <2>2. ASSUME NEW x \in r.buffer,
               call' = [call EXCEPT ![c] = [r EXCEPT !.buffer = r.buffer \ {x},
                                                     !.out = r.out \cup {x}]]
        PROVE  LatticeInv'
    <3>. DEFINE s == [r EXCEPT !.buffer = r.buffer \ {x}, !.out = r.out \cup {x}]
    <3>1. r.at = "send"
      BY <1>8 DEF StreamSends
    <3>2. s.out \cup s.buffer = r.out \cup r.buffer
      BY <1>4
    <3>3. CallOk(s)
      BY <1>1, <1>4, <3>1, <3>2 DEF CallOk
    <3>. QED
      BY <1>2, <2>2, <3>3, CallSteps
  <2>. QED
    BY <1>1, <1>8, <2>1, <2>2 DEF StreamSends
<1>9. CASE StreamFails(c)
  <2>. DEFINE s == [r EXCEPT !.at = "enter", !.buffer = {}, !.routes = <<>>]
  <2>1. /\ call' = [call EXCEPT ![c] = s] /\ r.at \in {"stream", "send"}
        /\ scene.faults = {} => r.at = "stream"
    BY <1>1, <1>9 DEF StreamFails
  <2>2. CallOk(s)
    BY <1>1, <1>4, <2>1 DEF CallOk
  <2>. QED
    BY <1>2, <2>1, <2>2, CallSteps
<1>. QED
  BY <1>5, <1>6, <1>7, <1>8, <1>9

-----------------------------------------------------------------------------
(* The Status of a peer: from the cache, or asked for and then stored *)

LEMMA PlanKeeps ==
  ASSUME LatticeInv, NEW c \in Call,
         PlanBegins(c) \/ PlanFromCache(c) \/ PlanAsks(c) \/ StatusRead(c)
  PROVE  LatticeInv'
<1>. DEFINE r == call[c]
<1>1. /\ CallOk(r) /\ DOMAIN call = Call /\ clock \in Nat /\ Ttl \in Nat \ {0}
  BY LatticeAssumption DEF LatticeInv
<1>2. UNCHANGED <<scene, clock, cache>>
  BY DEF PlanBegins, PlanFromCache, PlanAsks, StatusRead, UncalledExcept
<1>3. DOMAIN r = {"at", "cap", "stream", "todo", "now", "snap", "known", "age", "routes", "tried",
                  "buffer", "out", "answered"}
  BY <1>1 DEF CallOk, Resting
<1>4. CASE PlanBegins(c)
  <2>1. call' = [call EXCEPT ![c] = [r EXCEPT !.at = "look", !.now = clock]]
    BY <1>1, <1>4 DEF PlanBegins
  <2>2. CallOk([r EXCEPT !.at = "look", !.now = clock])
    BY <1>1, <1>3, <1>4 DEF CallOk, PlanBegins
  <2>. QED
    BY <1>2, <2>1, <2>2, CallSteps
<1>5. CASE PlanAsks(c)
  <2>1. call' = [call EXCEPT ![c] = [r EXCEPT !.at = "fetch"]]
    BY <1>1, <1>5 DEF PlanAsks, Step
  <2>2. CallOk([r EXCEPT !.at = "fetch"])
    BY <1>1, <1>3, <1>5 DEF CallOk, PlanAsks
  <2>. QED
    BY <1>2, <2>1, <2>2, CallSteps
<1>6. CASE StatusRead(c)
  <2>1. PICK status : call' = [call EXCEPT ![c] =
                         [r EXCEPT !.at = "store", !.snap = [status |-> status, read |-> clock]]]
    BY <1>1, <1>6 DEF StatusRead
  <2>2. CallOk([r EXCEPT !.at = "store", !.snap = [status |-> status, read |-> clock]])
    BY <1>1, <1>3, <1>6 DEF CallOk, StatusRead
  <2>. QED
    BY <1>2, <2>1, <2>2, CallSteps
<1>7. CASE PlanFromCache(c)
  <2>. DEFINE p == Head(r.todo)
              age == r.now - cache[p].read
              new == IF age > r.age THEN age ELSE r.age
              known == Append(r.known, [peer |-> p, status |-> cache[p].status])
              s == [r EXCEPT !.known = known, !.todo = Tail(r.todo), !.at = "plan", !.now = 0,
                             !.snap = Nothing, !.age = new]
  <2>1. /\ r.at = "look" /\ r.todo # <<>> /\ r.todo \in Seq(Peer) /\ r.now \in Nat
        /\ Fresh(c)
    BY <1>1, <1>7 DEF PlanFromCache, CallOk
  <2>2. p \in Peer /\ Tail(r.todo) \in Seq(Peer)
    BY <2>1, HeadTailProperties
  <2>3. EntryOk(cache[p]) /\ r.now - cache[p].at < Ttl
    BY <2>1, <2>2 DEF LatticeInv, Fresh
  <2>4. new \in Nat /\ new < Ttl
    <3>1. age \in Int /\ age < Ttl
      BY <1>1, <2>1, <2>3 DEF EntryOk
    <3>. QED
      BY <1>1, <3>1 DEF CallOk
  <2>5. call' = [call EXCEPT ![c] = s]
    BY <1>1, <1>3, <1>7 DEF PlanFromCache, Learned
  <2>6. CallOk(s)
    <3>. HIDE DEF known, new
    <3>. QED
      BY <1>1, <1>3, <2>1, <2>2, <2>4 DEF CallOk
  <2>. QED
    BY <1>2, <2>5, <2>6, CallSteps
<1>. QED
  BY <1>4, <1>5, <1>6, <1>7

(* What was read is stored with the stamp from before it was asked for. *)
LEMMA StoreKeeps ==
  ASSUME LatticeInv, NEW c \in Call, StatusStored(c)
  PROVE  LatticeInv'
<1>. DEFINE r == call[c]
            p == Head(r.todo)
            e == [at |-> r.now, status |-> r.snap.status, read |-> r.snap.read]
            known == Append(r.known, [peer |-> p, status |-> r.snap.status])
            s == [r EXCEPT !.known = known, !.todo = Tail(r.todo), !.at = "plan", !.now = 0,
                           !.snap = Nothing]
<1>1. /\ CallOk(r) /\ DOMAIN call = Call /\ clock \in Nat /\ r.at = "store"
  BY DEF LatticeInv, StatusStored
<1>2. DOMAIN r = {"at", "cap", "stream", "todo", "now", "snap", "known", "age", "routes", "tried",
                  "buffer", "out", "answered"}
  BY <1>1 DEF CallOk, Resting
<1>3. r.todo \in Seq(Peer) /\ Tail(r.todo) \in Seq(Peer)
  BY <1>1, HeadTailProperties DEF CallOk
<1>4. call' = [call EXCEPT ![c] = s] /\ cache' = [cache EXCEPT ![p] = e]
      /\ UNCHANGED <<scene, clock>>
  BY <1>1, <1>2 DEF StatusStored, Learned, Stamp, UncalledExcept
<1>5. CallOk(s)
  <2>. HIDE DEF known
  <2>. QED
    BY <1>1, <1>2, <1>3 DEF CallOk
<1>6. EntryOk(e)
  BY <1>1 DEF EntryOk, CallOk
<1>. HIDE DEF e, s
<1>7. DOMAIN call' = Call /\ call'[c] = s /\ \A d \in Call : d # c => call'[d] = call[d]
  BY <1>1, <1>4
<1>8. ASSUME NEW d \in Call PROVE CallOk(call[d])'
  <2>1. CallOk(call'[d])
    BY <1>5, <1>7 DEF LatticeInv
  <2>. QED
    BY <1>4, <2>1 DEF CallOk
<1>9. DOMAIN cache' = Peer /\ \A other \in Peer : cache'[other] = e \/ cache'[other] = cache[other]
  BY <1>4 DEF LatticeInv
<1>10. \A other \in Peer : cache'[other] # Nothing => EntryOk(cache[other])'
  BY <1>4, <1>6, <1>9 DEF LatticeInv, EntryOk
<1>. QED
  BY <1>4, <1>7, <1>8, <1>9, <1>10 DEF LatticeInv

-----------------------------------------------------------------------------
(* The specification *)

LEMMA TickKeeps == ASSUME LatticeInv, Tick PROVE LatticeInv'
<1>1. clock' = clock + 1 /\ UNCHANGED <<scene, cache, call>> /\ clock \in Nat
  BY DEF Tick, UncalledExcept, LatticeInv
<1>2. ASSUME NEW r, CallOk(r) PROVE CallOk(r)'
  <2>1. r.at \in {"look", "fetch"} => r.now <= clock'
    BY <1>1, <1>2 DEF CallOk
  <2>2. r.at = "store" => r.snap.read <= clock'
    BY <1>1, <1>2 DEF CallOk
  <2>. QED
    BY <1>1, <1>2, <2>1, <2>2 DEF CallOk
<1>3. \A e : EntryOk(e) => EntryOk(e)'
  BY <1>1 DEF EntryOk
<1>4. \A c \in Call : CallOk(call[c])'
  BY <1>1, <1>2 DEF LatticeInv
<1>. QED
  BY <1>1, <1>3, <1>4 DEF LatticeInv

LEMMA LatticeStep == LatticeInv /\ [LatticeNext]_latticeVars => LatticeInv'
<1>. SUFFICES ASSUME LatticeInv, [LatticeNext]_latticeVars PROVE LatticeInv'
  OBVIOUS
<1>1. CASE Tick
  BY <1>1, TickKeeps
<1>2. CASE UNCHANGED <<scene, clock, cache, call>>
  BY <1>2 DEF LatticeInv, CallOk, EntryOk
<1>3. CASE \E p \in Peer : PeerChanges(p)
  BY <1>2, <1>3 DEF PeerChanges, UncalledExcept
<1>4. CASE \E c \in Call : Completes(c)
  BY <1>4, RoutesKeep, StreamKeeps, PlanKeeps, StoreKeeps DEF Completes
<1>5. CASE \/ SignalsChanges \/ (\E k \in Task : RunEnds(k) \/ \E r \in RunId : RunBegins(k, r))
           \/ (\E r \in RunId : Cancel(r)) \/ PlatformBegins \/ PlatformEnds
           \/ SyncSends \/ SyncReturns \/ SyncWakes \/ UNCHANGED latticeVars
  BY <1>2, <1>5 DEF SignalsChanges, RunEnds, RunBegins, Cancel, PlatformBegins, PlatformEnds,
     SyncSends, SyncReturns, SyncWakes, latticeVars, completions
<1>. QED
  BY <1>1, <1>3, <1>4, <1>5 DEF LatticeNext

LEMMA LatticeStart == LatticeInit => LatticeInv
<1>. SUFFICES ASSUME LatticeInit PROVE LatticeInv
  OBVIOUS
<1>1. \A c \in Call : call[c] = Resting
  BY DEF LatticeInit
<1>2. CallOk(Resting)
  <2>1. <<>> \in Seq(Peer) /\ Ttl \in Nat \ {0}
    BY LatticeAssumption
  <2>. QED
    BY <2>1 DEF CallOk, Resting
<1>. QED
  BY <1>1, <1>2 DEF LatticeInit, LatticeInv

LEMMA LatticeAlways == LatticeSpec => []LatticeInv
BY LatticeStart, LatticeStep, PTL DEF LatticeSpec

(* A Status that is taken from the cache was given less than its time to live
   before the completion began to ask, whichever thread stored it, in whichever
   order the threads store, and however long the peer took to answer. *)
THEOREM CacheIsFresh == LatticeSpec => []CachedFresh
<1>1. LatticeInv => CachedFresh
  BY DEF LatticeInv, CallOk, CachedFresh
<1>. QED
  BY <1>1, LatticeAlways, PTL

(* Whoever asks has at most one answer, through every fallback from a stream to
   the whole answer of its peer, to a completion and from one route to the
   next.  OneAnswer names what it needs: a peer that does not take a stream says
   so before the first chunk, and what was kept is sent. *)
THEOREM AnsweredOnce == LatticeSpec => []OneAnswer
<1>1. LatticeInv => OneAnswer
  <2>. SUFFICES ASSUME LatticeInv, scene.faults = {}, NEW c \in Call
                PROVE  Cardinality(call[c].out) <= 1
    BY DEF OneAnswer
  <2>1. PICK x : call[c].out \subseteq {x}
    BY DEF LatticeInv, CallOk
  <2>2. call[c].out = {} \/ call[c].out = {x}
    BY <2>1
  <2>3. Cardinality({}) = 0 /\ Cardinality({x}) = 1
    BY FS_EmptySet, FS_Singleton
  <2>. QED
    BY <2>2, <2>3
<1>. QED
  BY <1>1, LatticeAlways, PTL
=============================================================================
