------------------------------ MODULE SourceDrop ------------------------------
(***************************************************************************)
(* source_drop: a URL dropped on a call becomes two cards of the board, a  *)
(* preview and a full one, and a worker thread for each that extracts it.  *)
(*                                                                         *)
(* Callers of enqueue file the cards under _LOCK; workers take _LOCK only  *)
(* to leave.  Cards live in the board's database, which outlives the       *)
(* process; _INFLIGHT, the threads and the two chips of webrtc_activity do *)
(* not.  A thread takes a slot when its job is filed; an activity board is *)
(* bound throughout.                                                       *)
(***************************************************************************)
EXTENDS FiniteSets, Integers

CONSTANTS Key,      \* drop_key: one value per preprint, page or file
          Curated,  \* the arXiv, bioRxiv and medRxiv preprints
          Pdf,      \* the other URLs that end in .pdf
          Caller,   \* the threads that call enqueue
          Slot,     \* the worker threads
          None,
          MaxFailures,  \* bound: the calls of the database that fail
          Scenes    \* the keys that are dropped and the faults that come with them

ASSUME KeyAssumption == Curated \subseteq Key /\ Pdf \subseteq Key \ Curated
ASSUME ScenesAssumption ==
  Scenes \subseteq [keys : SUBSET Key, faults : SUBSET {"board", "restart"}]

Scope == {"preview", "full"}
Card == Key \X Scope       \* the idempotency key of a card, and of _INFLIGHT

ASSUME FailuresAssumption == MaxFailures \in Nat
ASSUME SlotAssumption == IsFiniteSet(Slot)
ASSUME NoneAssumption == None \notin Caller \cup Card \cup [key : Key, approve : BOOLEAN]

VARIABLES scene,     \* fixed at the start: the scene
          failures,  \* the calls of the database that have failed
          lock,      \* the caller inside _LOCK, or None
          pc, ask,   \* where each caller is, and its key and approval
          card,      \* the board: the status of each card
          inflight,  \* _INFLIGHT
          at, job,   \* where each worker is, and its card
          owner,     \* the caller that starts it
          chip,      \* _CHIP
          flows,     \* _mistral_workflows
          paint,     \* where each worker is in _mistral_paint
          shown,     \* the chips on the video
          approved,  \* history: keys the user has approved
          notes      \* history: the notes written per key and scope

calls == <<lock, pc, ask>>
work == <<at, job, owner>>
mistral == <<flows, paint>>
history == <<approved, notes>>
board == <<scene, failures>>
vars == <<board, calls, card, inflight, work, chip, mistral, shown, history>>

At == {"free", "due", "run", "summary", "await", "ocr", "stopped", "write",
       "complete", "discard", "leave", "off"}

TypeOK ==
  /\ scene \in Scenes
  /\ failures \in 0..MaxFailures
  /\ lock \in Caller \cup {None}
  /\ pc \in [Caller -> {"idle", "preview", "full", "hold", "pulse", "spawn"}]
  /\ ask \in [Caller -> [key : Key, approve : BOOLEAN] \cup {None}]
  /\ card \in [Card -> {"none", "blocked", "running", "done"}]
  /\ inflight \subseteq Card
  /\ at \in [Slot -> At]
  /\ job \in [Slot -> Card \cup {None}]
  /\ owner \in [Slot -> Caller \cup {None}]
  /\ chip \in 0..Cardinality(Slot)
  /\ flows \in 0..Cardinality(Slot)
  /\ paint \in [Slot -> {"none", "look", "begin", "end"}]
  /\ shown \subseteq {"hicks", "mistral"}
  /\ approved \subseteq Key
  /\ notes \in [Card -> 0..2]

Init ==
  /\ scene \in Scenes
  /\ failures = 0
  /\ lock = None
  /\ pc = [c \in Caller |-> "idle"]
  /\ ask = [c \in Caller |-> None]
  /\ card = [c \in Card |-> "none"]
  /\ inflight = {}
  /\ at = [s \in Slot |-> "free"]
  /\ job = [s \in Slot |-> None]
  /\ owner = [s \in Slot |-> None]
  /\ chip = 0 /\ flows = 0
  /\ paint = [s \in Slot |-> "none"]
  /\ shown = {}
  /\ approved = {}
  /\ notes = [c \in Card |-> 0]

-----------------------------------------------------------------------------
NeedsApproval(k) == k \in Pdf

BoardFails ==
  /\ "board" \in scene.faults
  /\ failures < MaxFailures
  /\ failures' = failures + 1
  /\ UNCHANGED scene

(* _find_card *)
Found(d) == card[d] # "none"

Free == {s \in Slot : at[s] = "free"}
DueTo(c) == {s \in Slot : owner[s] = c}

Goto(c, label) == pc' = [pc EXCEPT ![c] = label]
Go(s, label) == at' = [at EXCEPT ![s] = label]

-----------------------------------------------------------------------------
(* enqueue *)

(* file_source_drops, or the source_drop tool, with approve or without, gets
   _LOCK.  Every URL of a preprint has the same key.  The bound on threads:
   there is a slot for each job the call may file. *)
Enter(c) ==
  /\ pc[c] = "idle"
  /\ lock = None
  /\ lock' = c
  /\ Goto(c, "preview")
  /\ \E k \in scene.keys, ok \in BOOLEAN :
       /\ LET due == {d \in {k} \X Scope : card[d] \in {"none", "blocked"}}
          IN  Cardinality(Free) >= Cardinality(due \ inflight)
       /\ ask' = [ask EXCEPT ![c] = [key |-> k, approve |-> ok]]
       /\ approved' = IF ok THEN approved \cup {k} ELSE approved
  /\ UNCHANGED <<board, card, inflight, work, chip, mistral, shown, notes>>

(* The loop goes on with the other scope, or leaves _LOCK. *)
NextScope(c) ==
  IF pc[c] = "preview"
    THEN Goto(c, "full") /\ UNCHANGED <<lock, ask>>
    ELSE /\ lock' = None
         /\ ask' = [ask EXCEPT ![c] = None]
         /\ Goto(c, IF \E s \in Slot : owner'[s] = c THEN "hold" ELSE "idle")

Gated(c) == NeedsApproval(ask[c].key) /\ ~ask[c].approve

(* The card is reused: it is gated, it is not blocked, or its thread has not left. *)
Reuse(c, d) ==
  /\ Found(d)
  /\ Gated(c) \/ card[d] # "blocked" \/ d \in inflight
  /\ UNCHANGED <<card, inflight, work>>

CreateBlocked(c, d) ==
  /\ Gated(c) /\ ~Found(d)
  /\ card' = [card EXCEPT ![d] = "blocked"]
  /\ UNCHANGED <<inflight, work>>

(* A job: the key is in flight and a thread is due. *)
Job(c, d) ==
  /\ inflight' = inflight \cup {d}
  /\ \E s \in Free :
       /\ Go(s, "due")
       /\ job' = [job EXCEPT ![s] = d]
       /\ owner' = [owner EXCEPT ![s] = c]

(* Mutants: the thread of a blocked card may still be leaving; a card that is
   done runs again; approval is not asked for. *)
StartInFlight(c, d) ==
  /\ ~Gated(c)
  /\ card[d] \in {"none", "blocked"}
  /\ card' = [card EXCEPT ![d] = "running"]
  /\ Job(c, d)

StartDone(c, d) ==
  /\ ~Gated(c) /\ d \notin inflight
  /\ card[d] # "running"
  /\ card' = [card EXCEPT ![d] = "running"]
  /\ Job(c, d)

StartUngated(c, d) ==
  /\ ~Found(d) \/ (card[d] = "blocked" /\ d \notin inflight)
  /\ card' = [card EXCEPT ![d] = "running"]
  /\ Job(c, d)

(* A new card, or the blocked card of a thread that has left, runs. *)
Start(c, d) ==
  /\ ~Gated(c)
  /\ ~Found(d) \/ (card[d] = "blocked" /\ d \notin inflight)
  /\ card' = [card EXCEPT ![d] = "running"]
  /\ Job(c, d)

(* The lookup fails and finds nothing; create_task, which has the key, returns
   the card that is there, as it is. *)
Overlook(c, d) ==
  /\ Found(d)
  /\ IF Gated(c) THEN UNCHANGED <<inflight, work>> ELSE Job(c, d)
  /\ UNCHANGED card

(* One turn of the loop.  The lookup and what it leads to are one step: cards
   are filed under _LOCK only. *)
File(c) ==
  /\ pc[c] \in Scope
  /\ LET d == <<ask[c].key, pc[c]>>
     IN  \/ (Reuse(c, d) \/ CreateBlocked(c, d) \/ Start(c, d)) /\ UNCHANGED board
         \/ Overlook(c, d) /\ BoardFails
  /\ NextScope(c)
  /\ UNCHANGED <<chip, mistral, shown, history>>

(* The database fails in the loop: the jobs filed so far are lost. *)
FileFails(c) ==
  /\ BoardFails
  /\ pc[c] \in Scope
  /\ at' = [s \in Slot |-> IF s \in DueTo(c) THEN "free" ELSE at[s]]
  /\ job' = [s \in Slot |-> IF s \in DueTo(c) THEN None ELSE job[s]]
  /\ owner' = [s \in Slot |-> IF s \in DueTo(c) THEN None ELSE owner[s]]
  /\ lock' = None
  /\ ask' = [ask EXCEPT ![c] = None]
  /\ Goto(c, "idle")
  /\ UNCHANGED <<card, inflight, chip, mistral, shown, history>>

(* _chip_hold counts under _LOCK and paints outside it. *)
Hold(c) ==
  /\ pc[c] = "hold"
  /\ lock = None
  /\ chip' = chip + Cardinality(DueTo(c))
  /\ Goto(c, IF chip = 0 THEN "pulse" ELSE "spawn")
  /\ UNCHANGED <<board, lock, ask, card, inflight, work, mistral, shown, history>>

Pulse(c) ==
  /\ pc[c] = "pulse"
  /\ shown' = shown \cup {"hicks"}
  /\ Goto(c, "spawn")
  /\ UNCHANGED <<board, lock, ask, card, inflight, work, chip, mistral, history>>

Spawn(c) ==
  /\ pc[c] = "spawn"
  /\ at' = [s \in Slot |-> IF s \in DueTo(c) THEN "run" ELSE at[s]]
  /\ owner' = [s \in Slot |-> IF s \in DueTo(c) THEN None ELSE owner[s]]
  /\ Goto(c, "idle")
  /\ UNCHANGED <<board, lock, ask, card, inflight, job, chip, mistral, shown, history>>

-----------------------------------------------------------------------------
(* _mistral_paint: the count is read, without _mu, and then acted on. *)

PaintLook(s) ==
  /\ paint[s] = "look"
  /\ paint' = [paint EXCEPT ![s] = IF flows > 0 THEN "begin" ELSE "end"]
  /\ UNCHANGED <<board, calls, card, inflight, work, chip, flows, shown, history>>

PaintBegin(s) ==
  /\ paint[s] = "begin"
  /\ shown' = shown \cup {"mistral"}
  /\ paint' = [paint EXCEPT ![s] = "none"]
  /\ UNCHANGED <<board, calls, card, inflight, work, chip, flows, history>>

PaintEnd(s) ==
  /\ paint[s] = "end"
  /\ shown' = shown \ {"mistral"}
  /\ paint' = [paint EXCEPT ![s] = "none"]
  /\ UNCHANGED <<board, calls, card, inflight, work, chip, flows, history>>

Paint(s) == PaintLook(s) \/ PaintBegin(s) \/ PaintEnd(s)

-----------------------------------------------------------------------------
(* _run, in a thread of its own *)

Works(s, label) == at[s] = label /\ paint[s] = "none"
Full(s) == job[s][2] = "full"
Paper(s) == job[s][1] \in Curated

Settle(s, status) == card' = [card EXCEPT ![job[s]] = status]

(* Mutant: a failure leaves the card as it is. *)
RaisesSilently(s) == Go(s, "discard") /\ UNCHANGED <<card, board>>

(* What fails blocks the card, unless the database fails, and the thread leaves. *)
Raises(s) ==
  /\ Go(s, "discard")
  /\ \/ Settle(s, "blocked") /\ UNCHANGED board
     \/ BoardFails /\ UNCHANGED card

Advance(s, label) == Go(s, label) /\ UNCHANGED <<card, board>>
Local == UNCHANGED <<calls, inflight, job, owner, chip, mistral, shown, history>>

(* A preview: the metadata of a preprint must come, its text may be missing. *)
FetchPaper(s) ==
  /\ Works(s, "run") /\ Paper(s) /\ ~Full(s)
  /\ Advance(s, "write") \/ Raises(s)
  /\ Local

FetchWeb(s) ==
  /\ Works(s, "run") /\ ~Paper(s)
  /\ Advance(s, IF Full(s) THEN "summary" ELSE "write") \/ Raises(s)
  /\ Local

(* Nothing to summarize, or an empty summary, raises. *)
Summarize(s) ==
  /\ Works(s, "summary")
  /\ Advance(s, "write") \/ Raises(s)
  /\ Local

(* _curated_source with no call up, whatever the note on the card has said: the
   preprint is Gaius's and no note is written. *)
GaiusPreprint(s) ==
  /\ Works(s, "run") /\ Paper(s) /\ Full(s)
  /\ Advance(s, "complete") \/ Raises(s)
  /\ Local

(* mistral_workflow counts the workflow; the painting is done before anything else. *)
MistralWorkflow(s, count) ==
  /\ flows' = count
  /\ paint' = [paint EXCEPT ![s] = "look"]
  /\ UNCHANGED <<board, calls, card, inflight, job, owner, chip, shown, history>>

(* _curated_source in a call: a workflow is started; if none is named, or it is
   not registered, OCR runs in this process.  Either may raise before it is counted. *)
StartWorkflow(s) ==
  /\ Works(s, "run") /\ Paper(s) /\ Full(s)
  /\ \/ Go(s, "await") /\ MistralWorkflow(s, flows + 1)
     \/ Raises(s) /\ Local

StartOcr(s) ==
  /\ Works(s, "run") /\ Paper(s) /\ Full(s)
  /\ Go(s, "ocr")
  /\ MistralWorkflow(s, flows + 1)

(* mistral_note: the workflow has reached a stage, and the chip is painted. *)
MistralNote(s) ==
  /\ Works(s, "await")
  /\ paint' = [paint EXCEPT ![s] = "look"]
  /\ UNCHANGED <<board, calls, card, inflight, work, chip, flows, shown, history>>

(* The workflow has a result, fails, or has not ended after 900 s. *)
AwaitEnds(s) ==
  /\ Works(s, "await")
  /\ Go(s, "write") \/ Go(s, "stopped")
  /\ MistralWorkflow(s, flows - 1)

OcrEnds(s) ==
  /\ Works(s, "ocr")
  /\ Go(s, "write") \/ Go(s, "stopped")
  /\ MistralWorkflow(s, flows - 1)

MistralStops(s) == Works(s, "stopped") /\ Raises(s) /\ Local

(* write_kb or write_zettel; a file of the same name raises. *)
Write(s) ==
  /\ Works(s, "write")
  /\ \/ /\ Advance(s, "complete")
        /\ notes' = [notes EXCEPT ![job[s]] = IF @ = 2 THEN 2 ELSE @ + 1]
     \/ Raises(s) /\ UNCHANGED notes
  /\ UNCHANGED <<calls, inflight, job, owner, chip, mistral, shown, approved>>

(* When the card cannot be completed it is blocked, if that can be done. *)
Complete(s) ==
  /\ Works(s, "complete")
  /\ Go(s, "discard")
  /\ \/ Settle(s, "done") /\ UNCHANGED board
     \/ BoardFails /\ (Settle(s, "blocked") \/ UNCHANGED card)
  /\ Local

(* finally: the key leaves _INFLIGHT, then the chip is counted down, each
   under _LOCK, and the last one ends the chip outside it. *)
Discard(s) ==
  /\ Works(s, "discard")
  /\ lock = None
  /\ inflight' = inflight \ {job[s]}
  /\ Go(s, "leave")
  /\ UNCHANGED <<board, calls, card, job, owner, chip, mistral, shown, history>>

(* Mutants: the thread is not counted down; the last one is told by the count
   before its own leave. *)
LeaveUncounted(s) ==
  /\ Works(s, "leave")
  /\ lock = None
  /\ Go(s, IF chip <= 1 THEN "off" ELSE "free")
  /\ job' = [job EXCEPT ![s] = None]
  /\ UNCHANGED <<board, calls, card, inflight, owner, chip, mistral, shown, history>>

LeaveLate(s) ==
  /\ Works(s, "leave")
  /\ lock = None
  /\ chip' = IF chip = 0 THEN 0 ELSE chip - 1
  /\ Go(s, IF chip = 0 THEN "off" ELSE "free")
  /\ job' = [job EXCEPT ![s] = None]
  /\ UNCHANGED <<board, calls, card, inflight, owner, mistral, shown, history>>

Leave(s) ==
  /\ Works(s, "leave")
  /\ lock = None
  /\ chip' = IF chip = 0 THEN 0 ELSE chip - 1
  /\ Go(s, IF chip <= 1 THEN "off" ELSE "free")
  /\ job' = [job EXCEPT ![s] = None]
  /\ UNCHANGED <<board, calls, card, inflight, owner, mistral, shown, history>>

EndChip(s) ==
  /\ Works(s, "off")
  /\ shown' = shown \ {"hicks"}
  /\ Go(s, "free")
  /\ UNCHANGED <<board, calls, card, inflight, job, owner, chip, mistral, history>>

-----------------------------------------------------------------------------
(* The engine is started again: only the database is left. *)
Restart ==
  /\ "restart" \in scene.faults
  /\ lock' = None
  /\ pc' = [c \in Caller |-> "idle"]
  /\ inflight' = {}
  /\ at' = [s \in Slot |-> "free"]
  /\ chip' = 0 /\ flows' = 0
  /\ paint' = [s \in Slot |-> "none"]
  /\ shown' = {}
  /\ ask' = [c \in Caller |-> None]
  /\ job' = [s \in Slot |-> None]
  /\ owner' = [s \in Slot |-> None]
  /\ UNCHANGED <<board, card, history>>

-----------------------------------------------------------------------------
Call(c) == Enter(c) \/ File(c) \/ FileFails(c) \/ Hold(c) \/ Pulse(c) \/ Spawn(c)

Extract(s) ==
  \/ FetchPaper(s) \/ FetchWeb(s) \/ Summarize(s) \/ GaiusPreprint(s)
  \/ StartWorkflow(s) \/ StartOcr(s)
  \/ MistralNote(s) \/ AwaitEnds(s) \/ OcrEnds(s) \/ MistralStops(s)
  \/ Write(s) \/ Complete(s)
Finish(s) == Discard(s) \/ Leave(s) \/ EndChip(s)

Next ==
  \/ \E c \in Caller : Call(c)
  \/ \E s \in Slot : Paint(s) \/ Extract(s) \/ Finish(s)
  \/ Restart

Spec == Init /\ [][Next]_vars

-----------------------------------------------------------------------------
(* Properties *)

Working == {s \in Slot : at[s] \notin {"free", "leave", "off"}}

(* A key and scope has one thread at a time, however the calls for its URLs
   overlap the threads that end.  A lookup that fails finds no card to reuse. *)
OneExtract ==
  failures = 0 =>
    \A s, t \in Working : job[s] = job[t] => s = t

(* "The analysis does not run again": while the database answers one note is
   written, by whatever URLs, calls, threads that fail and restarts it is asked
   for.  A database that fails after the note is written, source_drop.py:363-370,
   blocks the card, and the same source dropped again gets a second note. *)
NotesOnce ==
  failures = 0 => \A i \in DOMAIN notes : notes[i] <= 1

(* A PDF that is not curated has no thread before the user approves it. *)
ApprovedFirst ==
  \A s \in Working : NeedsApproval(job[s][1]) => job[s][1] \in approved

(* The Hicks chip is not left on the video: with no job held and none just
   ending it is off, however holds and leaves overlap. *)
HicksEnds ==
  chip = 0 /\ (\A s \in Slot : at[s] # "off") => "hicks" \notin shown

(* A card that runs has a thread that will complete or block it.  A restart, or
   a database that fails, may leave it running for good. *)
RunningOwned ==
  failures = 0 /\ "restart" \notin scene.faults =>
    \A d \in Card : card[d] = "running" => \E s \in Working : job[s] = d /\ at[s] # "discard"

(* The Mistral chip is the workflow in flight: with none in flight and no thread
   painting it is off. *)
MistralChipEnds ==
  flows = 0 /\ (\A s \in Slot : paint[s] = "none") => "mistral" \notin shown
=============================================================================
