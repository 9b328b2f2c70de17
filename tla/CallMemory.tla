------------------------------ MODULE CallMemory ------------------------------
(***************************************************************************)
(* What one call remembers.  Every turn is a row of the session database;  *)
(* its characters are also a frame of the stream to the Aegir engine,      *)
(* which answers with ranges of the concatenated text; a thread for each   *)
(* answer asks the system-one workflow and writes links onto the spans,    *)
(* and onto the rows that hold their text.  Before the model is asked, a   *)
(* thread reads the rows back.                                             *)
(*                                                                         *)
(* Rows are recorded, and the stream is ended, on the engine's loop: those *)
(* steps are atomic.  Reads for a prompt, the stream's reader and the      *)
(* answers run in threads.                                                 *)
(***************************************************************************)
EXTENDS Integers, Sequences, FiniteSets

CONSTANTS Text,      \* what is said
          Width,     \* its characters
          Turn,      \* slots for turns that wait for the model
          Apply,     \* slots for the threads of answers
          Sid,       \* sessions of the memory manager
          Sync,      \* slots for its callers
          None,
          Window,    \* VOICE_WINDOW: the rows of a prompt
          MaxRows,   \* bound: the rows
          MaxAdmit,  \* bound: the answers
          Scenes     \* who speaks, and the faults

ASSUME WidthAssumption == Width \in [Text -> Nat \ {0}]
ASSUME BoundsAssumption == Window \in Nat \ {0} /\ MaxRows \in Nat /\ MaxAdmit \in Nat
ASSUME NoneAssumption == None \notin Sid
ASSUME ScenesAssumption ==
  Scenes \subseteq [speaks : SUBSET {"turn", "cancel", "opening", "answers", "memory"},
                    faults : SUBSET {"db", "rpc"}]

VARIABLES scene,
          session,   \* the row of the call in the database
          rows,
          stream,    \* _LIVE
          seq, spans, queue, dead,      \* _Stream
          rpc,       \* AdmitSession
          reader,    \* the thread that takes the frames for it
          got,       \* what Aegir has
          admits,    \* bound: its answers
          apply,     \* the thread of each answer
          turn,      \* each turn: where it is, its row, its prompt
          mgr, memSid,                  \* the memory manager, and _mem_sid
          sync       \* its callers

store == <<session, rows>>
aperture == <<stream, seq, spans, queue, dead, rpc, reader, got>>
answers == <<admits, apply>>
memory == <<mgr, memSid, sync>>
vars == <<scene, store, aperture, answers, turn, memory>>

Role == {"user", "assistant"}
Link == [from : Nat, to : Nat]
Frame == [seq : Nat, text : Text \cup {None}, end : BOOLEAN]
Stop == [seq |-> 0, text |-> None, end |-> FALSE]   \* None in the queue

Resting == [at |-> "idle", start |-> 0, end |-> 0, todo |-> <<>>, old |-> {}, new |-> {}]
NoTurn == [at |-> "idle", row |-> 0, prior |-> {}]
NoSync == [at |-> "idle", sid |-> None, seen |-> None]

TypeOK ==
  /\ scene \in Scenes
  /\ session \in {"none", "open", "ended"}
  /\ rows \in Seq([role : Role, text : Text, links : SUBSET Link])
  /\ stream \in {"none", "live", "popped"}
  /\ seq \in Nat
  /\ spans \in Seq([start : Nat, end : Nat, role : Role, text : Text, links : SUBSET Link])
  /\ queue \in Seq(Frame)
  /\ dead \in BOOLEAN
  /\ rpc \in {"none", "dial", "up", "over"}
  /\ reader \in {"none", "reading", "done"}
  /\ got \in Seq(Frame)
  /\ admits \in Nat
  /\ apply \in [Apply -> [at : {"idle", "pick", "run", "merge", "stamp"},
                          start : Nat, end : Nat, todo : Seq(Nat),
                          old : SUBSET Link, new : SUBSET Link]]
  /\ turn \in [Turn -> [at : {"idle", "asked", "model"}, row : Nat, prior : SUBSET Nat]]
  /\ mgr \in Sid \cup {None} /\ memSid \in Sid \cup {None}
  /\ sync \in [Sync -> [at : {"idle", "switch", "note", "sync"}, sid : Sid \cup {None},
                        seen : Sid \cup {None}]]

Init ==
  /\ scene \in Scenes
  /\ session = "none" /\ rows = <<>>
  /\ stream = "none" /\ seq = 0 /\ spans = <<>> /\ queue = <<>> /\ dead = FALSE
  /\ rpc = "none" /\ reader = "none" /\ got = <<>>
  /\ admits = 0
  /\ apply = [a \in Apply |-> Resting]
  /\ turn = [t \in Turn |-> NoTurn]
  /\ mgr = None /\ memSid = None
  /\ sync = [s \in Sync |-> NoSync]

Fault(f) == f \in scene.faults
Speaks(w) == w \in scene.speaks

-----------------------------------------------------------------------------
(* The call *)

(* open_session and begin, in offer.  A store that fails denies no call. *)
Connect ==
  /\ stream = "none"
  /\ session' \in IF Fault("db") THEN {"none", "open"} ELSE {"open"}
  /\ stream' = "live"
  /\ rpc' = "dial"
  /\ UNCHANGED <<scene, rows, seq, spans, queue, dead, reader, got, answers, turn, memory>>

Cursor == IF spans = <<>> THEN 0 ELSE spans[Len(spans)].end

(* note and append *)
Note(role, text) ==
  IF stream = "live" /\ ~dead
  THEN /\ seq' = seq + 1
       /\ spans' = Append(spans, [start |-> Cursor, end |-> Cursor + Width[text],
                                  role |-> role, text |-> text, links |-> {}])
       /\ queue' = Append(queue, [seq |-> seq', text |-> text, end |-> FALSE])
  ELSE UNCHANGED <<seq, spans, queue>>

(* Mutant: a row is noted before it is stored. *)
RecordTurnNotesFirst(role, text) ==
  /\ Len(rows) < MaxRows
  /\ Note(role, text)
  /\ \/ rows' = Append(rows, [role |-> role, text |-> text, links |-> {}])
     \/ Fault("db") /\ UNCHANGED rows
  /\ UNCHANGED <<session, stream, dead, rpc, reader, got>>

(* record_turn: its callers give it one role at a time.  A row that is not
   stored is not noted.  The session may have ended by then. *)
RecordTurn(role, text) ==
  /\ Len(rows) < MaxRows
  /\ \/ /\ rows' = Append(rows, [role |-> role, text |-> text, links |-> {}])
        /\ Note(role, text)
     \/ /\ Fault("db")
        /\ UNCHANGED <<rows, seq, spans, queue>>
  /\ UNCHANGED <<session, stream, dead, rpc, reader, got>>

(* Mutants: a dead stream needs no end; the end has no number of its own. *)
FinishSameSeq ==
  IF dead
  THEN queue' = Append(queue, Stop) /\ UNCHANGED <<seq, dead>>
  ELSE /\ dead' = TRUE
       /\ queue' = queue \o <<[seq |-> seq, text |-> None, end |-> TRUE], Stop>>
       /\ UNCHANGED seq

FinishLive ==
  IF dead
  THEN UNCHANGED <<seq, queue, dead>>
  ELSE /\ seq' = seq + 1
       /\ dead' = TRUE
       /\ queue' = queue \o <<[seq |-> seq', text |-> None, end |-> TRUE], Stop>>

(* finish *)
Finish ==
  IF dead
  THEN queue' = Append(queue, Stop) /\ UNCHANGED <<seq, dead>>
  ELSE /\ seq' = seq + 1
       /\ dead' = TRUE
       /\ queue' = queue \o <<[seq |-> seq', text |-> None, end |-> TRUE], Stop>>

(* end, at the start of _drop *)
End ==
  /\ stream = "live"
  /\ stream' = "popped"
  /\ Finish
  /\ UNCHANGED <<scene, store, spans, rpc, reader, got, answers, turn, memory>>

(* close_session, at the end of _drop *)
CloseSession ==
  /\ stream = "popped"
  /\ session = "open"
  /\ session' = "ended"
  /\ UNCHANGED <<scene, rows, aperture, answers, turn, memory>>

-----------------------------------------------------------------------------
(* The stream to Aegir *)

(* The thread of start dials, and its call takes frames from then on. *)
Dial ==
  /\ rpc = "dial"
  /\ rpc' = "up"
  /\ reader' = "reading"
  /\ UNCHANGED <<scene, store, stream, seq, spans, queue, dead, got, answers, turn, memory>>

(* frames: a call that is over takes one more and leaves it. *)
TakeFrame ==
  /\ reader = "reading"
  /\ queue # <<>>
  /\ queue' = Tail(queue)
  /\ IF Head(queue) = Stop \/ rpc = "over"
     THEN reader' = "done" /\ UNCHANGED got
     ELSE got' = Append(got, Head(queue)) /\ UNCHANGED reader
  /\ UNCHANGED <<scene, store, stream, seq, spans, dead, rpc, answers, turn, memory>>

(* The call ends: Aegir has the end frame, does not serve it, or is gone. *)
RpcEnds ==
  /\ \/ rpc = "up" /\ reader = "done"
     \/ rpc \in {"dial", "up"} /\ Fault("rpc")
  /\ rpc' = "over"
  /\ dead' = TRUE
  /\ reader' = IF reader = "none" THEN "done" ELSE reader
  /\ UNCHANGED <<scene, store, stream, seq, spans, queue, got, answers, turn, memory>>

-----------------------------------------------------------------------------
(* Answers *)

Received == {i \in 1..Len(spans) : \E k \in 1..Len(got) : got[k].seq = i}

(* Aegir may answer about any text it has: a range of it in the session. *)
Admit(a) ==
  /\ Speaks("answers")
  /\ rpc = "up"
  /\ admits < MaxAdmit
  /\ apply[a].at = "idle"
  /\ \E i, j \in Received :
       /\ i <= j
       /\ apply' = [apply EXCEPT ![a] = [Resting EXCEPT !.at = "pick", !.start = spans[i].start,
                                                        !.end = spans[j].end]]
  /\ admits' = admits + 1
  /\ UNCHANGED <<scene, store, aperture, turn, memory>>

(* overlapping *)
Overlaps(i, start, end) == ~(end <= spans[i].start \/ start >= spans[i].end)

(* links_in_message: the part of the answer that is inside one span. *)
LinkRange(i, start, end) ==
  [from |-> (IF start > spans[i].start THEN start ELSE spans[i].start) - spans[i].start,
   to |-> (IF end < spans[i].end THEN end ELSE spans[i].end) - spans[i].start]

(* _apply: the spans of the moment. *)
ApplyPicks(a) ==
  /\ apply[a].at = "pick"
  /\ apply' = [apply EXCEPT
       ![a].todo = SelectSeq([i \in 1..Len(spans) |-> i],
                             LAMBDA i : Overlaps(i, apply[a].start, apply[a].end)),
       ![a].at = "run"]
  /\ UNCHANGED <<scene, store, aperture, admits, turn, memory>>

(* apply_span: the workflow answers or fails, and then the links that the
   span has are read.  What a link says is in ApertureRules. *)
ApplyRuns(a) ==
  /\ apply[a].at = "run"
  /\ apply[a].todo # <<>>
  /\ LET i == Head(apply[a].todo)
     IN  apply' = [apply EXCEPT ![a].at = "merge", ![a].old = spans[i].links,
                                ![a].new = {LinkRange(i, apply[a].start, apply[a].end)}]
  /\ UNCHANGED <<scene, store, aperture, admits, turn, memory>>

(* The part of a span, or of a row, that the answers write. *)
Linked(s, i, links) == [s EXCEPT ![i].links = links]

ApplyMerges(a) ==
  LET i == Head(apply[a].todo)
      links == apply[a].old \cup apply[a].new
  IN  /\ apply[a].at = "merge"
      /\ spans' = Linked(spans, i, links)
      /\ apply' = [apply EXCEPT ![a].at = "stamp", ![a].new = links]
      /\ UNCHANGED <<scene, store, stream, seq, queue, dead, rpc, reader, got, admits, turn,
                     memory>>

(* The rows a stamp may be for: the latest of this role and text is it. *)
RowsOf(role, text) == {k \in 1..Len(rows) : rows[k].role = role /\ rows[k].text = text}
Latest(ks) == CHOOSE k \in ks : \A m \in ks : m <= k

(* stamp_message *)
ApplyStamps(a) ==
  LET span == spans[Head(apply[a].todo)]
      ks == RowsOf(span.role, span.text)
  IN  /\ apply[a].at = "stamp"
      /\ rows' = IF ks = {} THEN rows
                 ELSE Linked(rows, Latest(ks), apply[a].new)
      /\ apply' = [apply EXCEPT ![a].at = "run", ![a].todo = Tail(@), ![a].old = {},
                                ![a].new = {}]
      /\ UNCHANGED <<scene, session, aperture, admits, turn, memory>>

ApplyEnds(a) ==
  /\ apply[a].at = "run"
  /\ apply[a].todo = <<>>
  /\ apply' = [apply EXCEPT ![a] = Resting]
  /\ UNCHANGED <<scene, store, aperture, admits, turn, memory>>

-----------------------------------------------------------------------------
(* Turns, and the rows they read back *)

Quiet == \A t \in Turn : turn[t].at = "idle"

(* The row of the turn is stored before its thread starts.  A turn that was
   cancelled leaves its thread behind. *)
TurnAsks(t) ==
  /\ Speaks("turn")
  /\ stream # "none"
  /\ turn[t].at = "idle"
  /\ Quiet \/ Speaks("cancel")
  /\ \E text \in Text : RecordTurn("user", text)
  /\ turn' = [turn EXCEPT ![t] = [NoTurn EXCEPT !.at = "asked", !.row = Len(rows')]]
  /\ UNCHANGED <<scene, answers, memory>>

Newest(ks, n) == {k \in ks : Cardinality({m \in ks : m >= k}) <= n}

(* prompt_history: the newest rows, without the utterance that is asked now
   if it is the last of them. *)
PromptHistory(k) ==
  LET fetched == Newest(1..Len(rows), Window + 4)
      last == Len(rows)
      current == last > 0 /\ k > 0 /\ rows[last] = [rows[k] EXCEPT !.links = rows[last].links]
  IN  Newest(IF current THEN fetched \ {last} ELSE fetched, Window)

(* _spoken_context: nor does a prompt follow another user's row. *)
SpokenContext(ks) ==
  IF ks # {} /\ rows[Latest(ks)].role = "user" THEN ks \ {Latest(ks)} ELSE ks

TurnReads(t) ==
  /\ turn[t].at = "asked"
  /\ \/ turn' = [turn EXCEPT ![t].at = "model",
                             ![t].prior = SpokenContext(PromptHistory(turn[t].row))]
     \/ Fault("db") /\ turn' = [turn EXCEPT ![t].at = "model"]
  /\ UNCHANGED <<scene, store, aperture, answers, memory>>

(* The answer is recorded by the turn's task, if it still waits. *)
TurnEnds(t) ==
  /\ turn[t].at = "model"
  /\ \/ \E text \in Text : RecordTurn("assistant", text)
     \/ UNCHANGED <<store, aperture>>
  /\ turn' = [turn EXCEPT ![t] = NoTurn]
  /\ UNCHANGED <<scene, answers, memory>>

(* Mutant: a monologue claims nothing. *)
SpeaksUnclaimed ==
  /\ stream # "none"
  /\ \E text \in Text : RecordTurn("assistant", text)
  /\ UNCHANGED <<scene, answers, turn, memory>>

(* A monologue of the silence director claims the turn; an opening does
   not. *)
SpeaksUnasked ==
  /\ stream # "none"
  /\ Quiet \/ Speaks("opening")
  /\ \E text \in Text : RecordTurn("assistant", text)
  /\ UNCHANGED <<scene, answers, turn, memory>>

-----------------------------------------------------------------------------
(* _memory_manager: one for the process, switched to the session that asks *)

SyncStarts(y, s) ==
  /\ Speaks("memory")
  /\ sync[y].at = "idle"
  /\ IF memSid = None
     THEN /\ mgr' = s /\ memSid' = s
          /\ sync' = [sync EXCEPT ![y] = [at |-> "sync", sid |-> s, seen |-> s]]
     ELSE /\ sync' = [sync EXCEPT ![y] = [at |-> IF memSid = s THEN "sync" ELSE "switch",
                                          sid |-> s, seen |-> memSid]]
          /\ UNCHANGED <<mgr, memSid>>
  /\ UNCHANGED <<scene, store, aperture, answers, turn>>

SyncSwitches(y) ==
  /\ sync[y].at = "switch"
  /\ mgr' = sync[y].sid
  /\ sync' = [sync EXCEPT ![y].at = "note"]
  /\ UNCHANGED <<scene, store, aperture, answers, turn, memSid>>

SyncNotes(y) ==
  /\ sync[y].at = "note"
  /\ memSid' = sync[y].sid
  /\ sync' = [sync EXCEPT ![y].at = "sync"]
  /\ UNCHANGED <<scene, store, aperture, answers, turn, mgr>>

(* remember_turn, or the prefetch of recalled_memory. *)
SyncEnds(y) ==
  /\ sync[y].at = "sync"
  /\ sync' = [sync EXCEPT ![y] = NoSync]
  /\ UNCHANGED <<scene, store, aperture, answers, turn, mgr, memSid>>

-----------------------------------------------------------------------------
ApplySteps(a) ==
  ApplyPicks(a) \/ ApplyRuns(a) \/ ApplyMerges(a) \/ ApplyStamps(a) \/ ApplyEnds(a)

Next ==
  \/ Connect \/ End \/ CloseSession
  \/ Dial \/ TakeFrame \/ RpcEnds
  \/ \E a \in Apply : Admit(a) \/ ApplySteps(a)
  \/ \E t \in Turn : TurnAsks(t) \/ TurnReads(t) \/ TurnEnds(t)
  \/ SpeaksUnasked
  \/ \E y \in Sync : \/ \E s \in Sid : SyncStarts(y, s)
                     \/ SyncSwitches(y) \/ SyncNotes(y) \/ SyncEnds(y)

Spec == Init /\ [][Next]_vars

(* Threads are scheduled; Aegir ends a call that has ended. *)
FairSpec ==
  /\ Spec
  /\ WF_vars(Dial) /\ WF_vars(TakeFrame) /\ WF_vars(RpcEnds)

-----------------------------------------------------------------------------
(* Aegir has a prefix of what was said, in order and in full: the frames it
   has, and those it will get, are numbered as they come, each has the text of
   its span, the end frame follows the last one, and until the call is over
   nothing that was said is missing.  Its offsets are ours. *)
FramesFaithful ==
  LET all == IF rpc = "over" THEN got ELSE got \o queue
  IN  /\ \A k \in 1..Len(all) :
           \/ all[k] = Stop /\ k = Len(all)
           \/ /\ all[k].seq = k
              /\ IF all[k].end THEN k = Len(spans) + 1
                 ELSE k <= Len(spans) /\ all[k].text = spans[k].text
      /\ rpc # "over" => \A i \in 1..Len(spans) : i <= Len(all) /\ all[i] # Stop

(* A stamp always finds a row: what is on the stream is in the database,
   in the order in which it was said. *)
StampFindsRow ==
  \E f \in [1..Len(spans) -> 1..Len(rows)] :
    /\ \A i \in 1..Len(spans) : rows[f[i]].role = spans[i].role /\ rows[f[i]].text = spans[i].text
    /\ \A i, j \in 1..Len(spans) : i < j => f[i] < f[j]

(* A prompt never has the utterance it asks about in its history too, if
   turns come one at a time and nothing else is recorded meanwhile. *)
NotTwice == \A t \in Turn : turn[t].at = "model" => turn[t].row \notin turn[t].prior

(* A prompt has the newest rows before the turn's own, all of them. *)
PriorWhole ==
  \A t \in Turn : turn[t].at = "model" /\ turn[t].row > 0 =>
    turn[t].prior = Newest(1..(turn[t].row - 1), Window)

(* The thread that waits for frames is let go once the call is over,
   whether or not the stream had died before. *)
ReaderEnds == (stream = "popped") ~> (reader = "done")

(* The links of a span keep every answer about it. *)
LinksKept == [][\A i \in 1..Len(spans) : spans[i].links \subseteq spans'[i].links]_spans

(* With nobody at it, the memory manager is on the session that _mem_sid
   says. *)
MemoryFollows == (\A y \in Sync : sync[y].at \in {"idle", "sync"}) => mgr = memSid
=============================================================================
