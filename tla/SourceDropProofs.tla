--------------------------- MODULE SourceDropProofs ---------------------------
(***************************************************************************)
(* Theorems about SourceDrop, for any keys, calls, threads and scenes: a   *)
(* key and scope has one thread at a time, nothing that needs approval is  *)
(* read without it, one note is written, a running card has its thread,    *)
(* and the Hicks chip ends with the last job.                              *)
(***************************************************************************)
EXTENDS SourceDrop, FiniteSetTheorems, TLAPS

Status == {"none", "blocked", "running", "done"}
Asked == [key : Key, approve : BOOLEAN]
Away == {"free", "leave", "off"}

Types ==
  /\ scene \in Scenes
  /\ failures \in Nat
  /\ pc \in [Caller -> {"idle", "preview", "full", "hold", "pulse", "spawn"}]
  /\ ask \in [Caller -> Asked \cup {None}]
  /\ card \in [Card -> Status]
  /\ at \in [Slot -> At]
  /\ job \in [Slot -> Card \cup {None}]
  /\ owner \in [Slot -> Caller \cup {None}]

(* A call in its loop has a key, and an approval it carries is on record. *)
AskInv ==
  \A c \in Caller :
    /\ pc[c] \in Scope => ask[c] # None
    /\ ask[c] # None /\ ask[c].approve => ask[c].key \in approved

(* A thread that has an owner is not started; a working one has a filed card. *)
JobInv ==
  \A s \in Slot :
    /\ owner[s] # None => at[s] = "due"
    /\ at[s] \notin Away => job[s] \in Card /\ card[job[s]] # "none"

(* The working threads are those in flight, each of them once. *)
FlightInv ==
  failures = 0 =>
    /\ \A s \in Slot : at[s] \notin Away => job[s] \in inflight
    /\ \A s, t \in Slot : at[s] \notin Away /\ at[t] \notin Away /\ job[s] = job[t] => s = t

ApprovalInv ==
  \A s \in Slot :
    at[s] \notin Away /\ NeedsApproval(job[s][1]) => job[s][1] \in approved

DropInv == Types /\ AskInv /\ JobInv /\ FlightInv /\ ApprovalInv

(* A thread that goes on keeps its card, and settles it at most. *)
LEMMA ThreadGoesOn ==
  ASSUME DropInv,
         NEW s \in Slot, at[s] \notin Away \cup {"due"},
         NEW label \in At \ {"free", "leave", "off"}, Go(s, label),
         card' = card \/ \E status \in Status \ {"none"} : Settle(s, status),
         UNCHANGED board \/ BoardFails,
         UNCHANGED <<calls, inflight, job, owner, approved>>
  PROVE  DropInv'
<1>. USE DEF Away
<1>1. /\ at' = [at EXCEPT ![s] = label] /\ at' \in [Slot -> At]
      /\ \A t \in Slot : at'[t] \notin Away => at[t] \notin Away
      /\ at[s] # "due"
  BY DEF DropInv, Types, Go
<1>2. job[s] \in Card
  BY DEF DropInv, JobInv
<1>3. card' \in [Card -> Status] /\ \A d \in Card : card[d] # "none" => card'[d] # "none"
  BY <1>2 DEF DropInv, Types, Settle, Status
<1>4. scene' = scene /\ failures' \in Nat /\ (failures' = 0 => failures = 0)
  BY DEF DropInv, Types, board, BoardFails
<1>5. Types' /\ AskInv'
  BY <1>1, <1>3, <1>4 DEF DropInv, Types, AskInv, calls
<1>6. JobInv'
  BY <1>1, <1>3 DEF DropInv, JobInv, Types
<1>7. FlightInv' /\ ApprovalInv'
  BY <1>1, <1>4 DEF DropInv, FlightInv, ApprovalInv, NeedsApproval
<1>. QED
  BY <1>5, <1>6, <1>7 DEF DropInv

LEMMA InitInv == Init => DropInv
<1>. SUFFICES ASSUME Init PROVE DropInv
  OBVIOUS
<1>1. Types
  BY FailuresAssumption DEF Init, Types, Status, At
<1>2. AskInv /\ JobInv
  BY DEF Init, AskInv, JobInv, Away, Scope
<1>3. FlightInv /\ ApprovalInv
  BY DEF Init, FlightInv, ApprovalInv, Away
<1>. QED
  BY <1>1, <1>2, <1>3 DEF DropInv

(* Steps that touch none of this. *)
LEMMA Untouched ==
  ASSUME DropInv, UNCHANGED <<board, pc, ask, card, inflight, at, job, owner, approved>>
  PROVE  DropInv'
BY DEF DropInv, Types, AskInv, JobInv, FlightInv, ApprovalInv, NeedsApproval, board

LEMMA ExtractInv == ASSUME DropInv, NEW s \in Slot, Extract(s) PROVE DropInv'
<1>. USE DEF Works, Local, Away, At
<1>1. CASE FetchPaper(s)
  BY <1>1, ThreadGoesOn DEF FetchPaper, Advance, Raises, history, Status
<1>2. CASE FetchWeb(s)
  BY <1>2, ThreadGoesOn DEF FetchWeb, Advance, Raises, history, Status
<1>3. CASE Summarize(s)
  BY <1>3, ThreadGoesOn DEF Summarize, Advance, Raises, history, Status
<1>4. CASE GaiusPreprint(s)
  BY <1>4, ThreadGoesOn DEF GaiusPreprint, Advance, Raises, history, Status
<1>5. CASE StartWorkflow(s)
  BY <1>5, ThreadGoesOn DEF StartWorkflow, MistralWorkflow, Raises, history, Status
<1>6. CASE StartOcr(s)
  BY <1>6, ThreadGoesOn DEF StartOcr, MistralWorkflow, history
<1>7. CASE MistralNote(s)
  BY <1>7, Untouched DEF MistralNote, calls, work, history
<1>8. CASE AwaitEnds(s)
  BY <1>8, ThreadGoesOn DEF AwaitEnds, MistralWorkflow, history
<1>9. CASE OcrEnds(s)
  BY <1>9, ThreadGoesOn DEF OcrEnds, MistralWorkflow, history
<1>10. CASE MistralStops(s)
  BY <1>10, ThreadGoesOn DEF MistralStops, Raises, history, Status
<1>11. CASE Write(s)
  BY <1>11, ThreadGoesOn DEF Write, Advance, Raises, Status
<1>12. CASE Complete(s)
  BY <1>12, ThreadGoesOn DEF Complete, history, Status
<1>. QED
  BY <1>1, <1>2, <1>3, <1>4, <1>5, <1>6, <1>7, <1>8, <1>9, <1>10, <1>11, <1>12 DEF Extract

(* A thread that leaves takes its own card out of flight and no other's. *)
LEMMA FinishInv == ASSUME DropInv, NEW s \in Slot, Paint(s) \/ Finish(s) PROVE DropInv'
<1>. USE DEF Works, Away, calls, history
<1>1. CASE Paint(s)
  BY <1>1, Untouched DEF Paint, PaintLook, PaintBegin, PaintEnd, work
<1>2. CASE Discard(s)
  <2>1. at' = [at EXCEPT ![s] = "leave"] /\ at[s] = "discard"
    BY <1>2 DEF Discard, Go
  <2>2. Types' /\ AskInv' /\ JobInv' /\ ApprovalInv'
    BY <1>2, <2>1 DEF Discard, DropInv, Types, AskInv, JobInv, ApprovalInv, NeedsApproval, board, At
  <2>3. FlightInv'
    BY <1>2, <2>1 DEF Discard, DropInv, Types, FlightInv, board
  <2>. QED
    BY <2>2, <2>3 DEF DropInv
<1>3. CASE Leave(s) \/ EndChip(s)
  <2>1. PICK label \in {"off", "free"} : at' = [at EXCEPT ![s] = label]
    BY <1>3 DEF Leave, EndChip, Go
  <2>2. at[s] \in Away /\ at[s] # "due"
    BY <1>3 DEF Leave, EndChip
  <2>3. UNCHANGED <<board, pc, ask, card, inflight, owner, approved>>
        /\ (job' = job \/ job' = [job EXCEPT ![s] = None])
    BY <1>3 DEF Leave, EndChip
  <2>4. Types' /\ AskInv'
    BY <2>1, <2>3 DEF DropInv, Types, AskInv, board, At
  <2>5. JobInv' /\ FlightInv' /\ ApprovalInv'
    BY <2>1, <2>2, <2>3 DEF DropInv, Types, JobInv, FlightInv, ApprovalInv, NeedsApproval, board
  <2>. QED
    BY <2>4, <2>5 DEF DropInv
<1>. QED
  BY <1>1, <1>2, <1>3 DEF Finish

(* A job is filed for a card that no working thread has: it is new, or it is
   blocked and nothing of it is in flight. *)
LEMMA JobFiled ==
  ASSUME DropInv, NEW c \in Caller, pc[c] \in Scope, ~Gated(c),
         NEW d, d = <<ask[c].key, pc[c]>>, Job(c, d),
         \/ /\ ~Found(d) \/ (card[d] = "blocked" /\ d \notin inflight)
            /\ card' = [card EXCEPT ![d] = "running"]
            /\ UNCHANGED board
         \/ Found(d) /\ UNCHANGED card /\ BoardFails,
         NextScope(c),
         UNCHANGED approved
  PROVE  DropInv'
<1>. USE DEF Away
<1>1. PICK s \in Slot : /\ at[s] = "free"
                        /\ at' = [at EXCEPT ![s] = "due"]
                        /\ job' = [job EXCEPT ![s] = d]
                        /\ owner' = [owner EXCEPT ![s] = c]
                        /\ inflight' = inflight \cup {d}
  BY DEF Job, Free, Go
<1>2. ask[c] \in Asked /\ d \in Card /\ ask[c] # None
  BY DEF DropInv, Types, AskInv, Card, Scope, Asked
<1>3. NeedsApproval(d[1]) => d[1] \in approved
  BY <1>2 DEF DropInv, AskInv, Gated
<1>4. card' \in [Card -> Status] /\ card'[d] # "none"
      /\ \A e \in Card : card[e] # "none" => card'[e] # "none"
  BY <1>2 DEF DropInv, Types, Found, Status
<1>5. scene' = scene /\ failures' \in Nat /\ (failures' = 0 => UNCHANGED board)
  BY DEF DropInv, Types, board, BoardFails
<1>6. /\ pc' \in [Caller -> {"idle", "preview", "full", "hold", "pulse", "spawn"}]
      /\ ask' \in [Caller -> Asked \cup {None}]
      /\ \A b \in Caller : ask'[b] = ask[b] \/ (ask'[b] = None /\ pc'[b] \notin Scope)
      /\ \A b \in Caller : pc'[b] \in Scope => pc[b] \in Scope
  BY DEF NextScope, Goto, DropInv, Types, Scope
<1>7. Types'
  BY <1>1, <1>2, <1>4, <1>5, <1>6 DEF DropInv, Types, At
<1>8. AskInv'
  BY <1>6 DEF DropInv, AskInv
<1>9. JobInv'
  BY <1>1, <1>2, <1>4 DEF DropInv, Types, JobInv
<1>10. ApprovalInv'
  BY <1>1, <1>3 DEF DropInv, Types, ApprovalInv, NeedsApproval
<1>11. FlightInv'
  <2>. SUFFICES ASSUME failures' = 0 PROVE FlightInv'
    BY DEF FlightInv
  <2>1. failures = 0 /\ (~Found(d) \/ (card[d] = "blocked" /\ d \notin inflight))
    BY <1>5 DEF board, BoardFails, DropInv, Types
  <2>2. \A t \in Slot : at[t] \notin Away => job[t] # d
    BY <2>1 DEF Found, DropInv, JobInv, FlightInv
  <2>. QED
    BY <1>1, <2>1, <2>2 DEF DropInv, Types, FlightInv
<1>. QED
  BY <1>7, <1>8, <1>9, <1>10, <1>11 DEF DropInv

LEMMA CallInv == ASSUME DropInv, NEW c \in Caller, Call(c) PROVE DropInv'
<1>. USE DEF Away, Goto, Go, DueTo, work, calls, history
<1>1. CASE Enter(c)
  <2>1. PICK k \in scene.keys, ok \in BOOLEAN :
          /\ ask' = [ask EXCEPT ![c] = [key |-> k, approve |-> ok]]
          /\ approved' = IF ok THEN approved \cup {k} ELSE approved
    BY <1>1 DEF Enter
  <2>2. k \in Key
    BY ScenesAssumption DEF DropInv, Types
  <2>3. [key |-> k, approve |-> ok] \in Asked /\ [key |-> k, approve |-> ok] # None
    BY <2>2, NoneAssumption DEF Asked
  <2>4. pc' = [pc EXCEPT ![c] = "preview"]
        /\ UNCHANGED <<board, card, inflight, at, job, owner>>
    BY <1>1 DEF Enter
  <2>5. Types'
    BY <2>1, <2>3, <2>4 DEF DropInv, Types, board
  <2>6. AskInv'
    BY <2>1, <2>3, <2>4 DEF DropInv, Types, AskInv, Scope
  <2>7. JobInv' /\ FlightInv' /\ ApprovalInv'
    BY <2>1, <2>4 DEF DropInv, JobInv, FlightInv, ApprovalInv, NeedsApproval, board
  <2>. QED
    BY <2>5, <2>6, <2>7 DEF DropInv
<1>2. CASE File(c)
  <2>. DEFINE d == <<ask[c].key, pc[c]>>
  <2>1. pc[c] \in Scope /\ NextScope(c) /\ UNCHANGED approved
    BY <1>2 DEF File
  <2>2. CASE Start(c, d) /\ UNCHANGED board
    BY <2>1, <2>2, JobFiled DEF Start
  <2>3. CASE Overlook(c, d) /\ BoardFails /\ ~Gated(c)
    BY <2>1, <2>3, JobFiled DEF Overlook
  <2>4. CASE \/ (Reuse(c, d) \/ CreateBlocked(c, d)) /\ UNCHANGED board
             \/ Overlook(c, d) /\ BoardFails /\ Gated(c)
    <3>1. UNCHANGED <<inflight, at, job, owner>>
          /\ (card' = card \/ card' = [card EXCEPT ![d] = "blocked"])
      BY <2>4 DEF Reuse, CreateBlocked, Overlook
    <3>2. card' \in [Card -> Status] /\ \A e \in Card : card[e] # "none" => card'[e] # "none"
      BY <3>1 DEF DropInv, Types, Status
    <3>3. scene' = scene /\ failures' \in Nat /\ (failures' = 0 => failures = 0)
      BY <2>4 DEF DropInv, Types, board, BoardFails
    <3>4. /\ pc' \in [Caller -> {"idle", "preview", "full", "hold", "pulse", "spawn"}]
          /\ ask' \in [Caller -> Asked \cup {None}]
          /\ \A b \in Caller : ask'[b] = ask[b] \/ (ask'[b] = None /\ pc'[b] \notin Scope)
          /\ \A b \in Caller : pc'[b] \in Scope => pc[b] \in Scope
      BY <2>1 DEF NextScope, DropInv, Types, Scope
    <3>5. Types' /\ AskInv'
      BY <2>1, <3>1, <3>2, <3>3, <3>4 DEF DropInv, Types, AskInv
    <3>6. JobInv' /\ FlightInv' /\ ApprovalInv'
      BY <2>1, <3>1, <3>2, <3>3 DEF DropInv, JobInv, FlightInv, ApprovalInv, NeedsApproval
    <3>. QED
      BY <3>5, <3>6 DEF DropInv
  <2>. QED
    BY <1>2, <2>2, <2>3, <2>4 DEF File
<1>3. CASE FileFails(c)
  <2>1. /\ at' = [s \in Slot |-> IF owner[s] = c THEN "free" ELSE at[s]]
        /\ job' = [s \in Slot |-> IF owner[s] = c THEN None ELSE job[s]]
        /\ owner' = [s \in Slot |-> IF owner[s] = c THEN None ELSE owner[s]]
    BY <1>3 DEF FileFails
  <2>2. /\ pc' = [pc EXCEPT ![c] = "idle"] /\ ask' = [ask EXCEPT ![c] = None]
        /\ scene' = scene /\ failures' \in Nat \ {0}
        /\ UNCHANGED <<card, inflight, approved>>
    BY <1>3 DEF FileFails, BoardFails, DropInv, Types
  <2>3. Types' /\ AskInv'
    BY <2>1, <2>2 DEF DropInv, Types, AskInv, At, Scope
  <2>4. JobInv' /\ FlightInv' /\ ApprovalInv'
    BY <2>1, <2>2 DEF DropInv, Types, JobInv, FlightInv, ApprovalInv, NeedsApproval
  <2>. QED
    BY <2>3, <2>4 DEF DropInv
<1>4. CASE Hold(c) \/ Pulse(c)
  <2>1. PICK label \in {"pulse", "spawn"} : pc' = [pc EXCEPT ![c] = label]
    BY <1>4 DEF Hold, Pulse
  <2>2. UNCHANGED <<board, ask, card, inflight, at, job, owner, approved>>
    BY <1>4 DEF Hold, Pulse
  <2>3. Types' /\ AskInv'
    BY <2>1, <2>2 DEF DropInv, Types, AskInv, board, Scope
  <2>4. JobInv' /\ FlightInv' /\ ApprovalInv'
    BY <2>2 DEF DropInv, JobInv, FlightInv, ApprovalInv, NeedsApproval, board
  <2>. QED
    BY <2>3, <2>4 DEF DropInv
<1>5. CASE Spawn(c)
  <2>1. /\ at' = [s \in Slot |-> IF owner[s] = c THEN "run" ELSE at[s]]
        /\ owner' = [s \in Slot |-> IF owner[s] = c THEN None ELSE owner[s]]
        /\ pc' = [pc EXCEPT ![c] = "idle"]
        /\ UNCHANGED <<board, ask, card, inflight, job, approved>>
    BY <1>5 DEF Spawn
  <2>2. \A s \in Slot : (at'[s] \notin Away) = (at[s] \notin Away)
    BY <2>1, NoneAssumption DEF DropInv, Types, JobInv
  <2>3. Types' /\ AskInv'
    BY <2>1 DEF DropInv, Types, AskInv, board, At, Scope
  <2>4. JobInv'
    BY <2>1, <2>2 DEF DropInv, Types, JobInv
  <2>5. FlightInv' /\ ApprovalInv'
    BY <2>1, <2>2 DEF DropInv, FlightInv, ApprovalInv, NeedsApproval, board
  <2>. QED
    BY <2>3, <2>4, <2>5 DEF DropInv
<1>. QED
  BY <1>1, <1>2, <1>3, <1>4, <1>5 DEF Call

LEMMA NextInv == DropInv /\ [Next]_vars => DropInv'
<1>. SUFFICES ASSUME DropInv, [Next]_vars PROVE DropInv'
  OBVIOUS
<1>1. CASE UNCHANGED vars
  BY <1>1, Untouched DEF vars, calls, work, history
<1>2. CASE Restart
  <2>1. Types' /\ AskInv' /\ JobInv'
    BY <1>2 DEF Restart, DropInv, Types, AskInv, JobInv, Away, board, At, Scope
  <2>2. FlightInv' /\ ApprovalInv'
    BY <1>2 DEF Restart, DropInv, FlightInv, ApprovalInv, Away
  <2>. QED
    BY <2>1, <2>2 DEF DropInv
<1>. QED
  BY <1>1, <1>2, CallInv, ExtractInv, FinishInv DEF Next

LEMMA Invariant == Spec => []DropInv
BY InitInv, NextInv, PTL DEF Spec

(* A key and scope has one thread at a time, however the calls for its URLs
   overlap the threads that end: enqueue and _run's finally agree through _INFLIGHT. *)
THEOREM OneExtractAtATime == Spec => []OneExtract
<1>1. DropInv => OneExtract
  BY DEF DropInv, FlightInv, OneExtract, Working, Away
<1>. QED
  BY <1>1, Invariant, PTL

(* A PDF that is not curated has no thread before the user approves it, under
   every fault of the database and across restarts. *)
THEOREM NothingUnapproved == Spec => []ApprovedFirst
<1>1. DropInv => ApprovedFirst
  BY DEF DropInv, ApprovalInv, ApprovedFirst, Working, Away
<1>. QED
  BY <1>1, Invariant, PTL

-----------------------------------------------------------------------------
(* One note: while the database answers, the card of a thread that has not
   settled it is running. *)
RunsInv ==
  failures = 0 =>
    \A s \in Slot : at[s] \notin Away \cup {"discard"} => card[job[s]] = "running"

(* A note is written once, by a thread that then only completes its card; the
   card that has one is not run again. *)
NoteInv ==
  failures = 0 =>
    \A d \in Card :
      /\ notes[d] \in {0, 1}
      /\ notes[d] = 1 =>
           /\ card[d] \in {"running", "done"}
           /\ \A s \in Slot : at[s] \notin Away \cup {"complete", "discard"} => job[s] # d

NoteTypes == notes \in [Card -> 0..2]

RunInv == RunsInv /\ NoteInv /\ RunningOwned

LEMMA FailuresGrow ==
  ASSUME DropInv, [Next]_vars, failures' = 0
  PROVE  failures = 0 /\ UNCHANGED board
<1>1. UNCHANGED board \/ BoardFails
  <2>. USE DEF Raises, Advance, MistralWorkflow
  <2>1. ASSUME NEW c \in Caller, Call(c) PROVE UNCHANGED board \/ BoardFails
    BY <2>1 DEF Call, Enter, File, FileFails, Hold, Pulse, Spawn
  <2>2. ASSUME NEW s \in Slot, Extract(s) PROVE UNCHANGED board \/ BoardFails
    <3>1. CASE FetchPaper(s) \/ FetchWeb(s) \/ Summarize(s) \/ GaiusPreprint(s) \/ MistralStops(s)
      BY <3>1 DEF FetchPaper, FetchWeb, Summarize, GaiusPreprint, MistralStops, board
    <3>2. CASE StartWorkflow(s) \/ StartOcr(s) \/ MistralNote(s) \/ AwaitEnds(s) \/ OcrEnds(s)
      BY <3>2 DEF StartWorkflow, StartOcr, MistralNote, AwaitEnds, OcrEnds
    <3>3. CASE Write(s) \/ Complete(s)
      BY <3>3 DEF Write, Complete, board
    <3>. QED
      BY <2>2, <3>1, <3>2, <3>3 DEF Extract
  <2>3. ASSUME NEW s \in Slot, Paint(s) \/ Finish(s) PROVE UNCHANGED board
    BY <2>3 DEF Paint, PaintLook, PaintBegin, PaintEnd, Finish, Discard, Leave, EndChip
  <2>. QED
    BY <2>1, <2>2, <2>3 DEF Next, Restart, vars
<1>. QED
  BY <1>1 DEF BoardFails, board, DropInv, Types

(* A thread goes on, settles its card, or writes its note. *)
LEMMA ThreadSettles ==
  ASSUME DropInv, RunInv, failures = 0, scene' = scene,
         NEW s \in Slot, at[s] \notin Away \cup {"due", "discard"},
         NEW label \in At \ (Away \cup {"due"}), Go(s, label), job' = job,
         \/ at[s] # "complete" /\ label # "discard" /\ UNCHANGED <<card, notes>>
         \/ at[s] # "complete" /\ label = "discard" /\ Settle(s, "blocked") /\ UNCHANGED notes
         \/ at[s] = "complete" /\ label = "discard" /\ Settle(s, "done") /\ UNCHANGED notes
         \/ /\ at[s] # "complete" /\ label = "complete" /\ UNCHANGED card
            /\ notes' = [notes EXCEPT ![job[s]] = IF @ = 2 THEN 2 ELSE @ + 1],
         NoteTypes
  PROVE  RunInv'
<1>. USE DEF Away
<1>1. /\ at' = [at EXCEPT ![s] = label] /\ at \in [Slot -> At]
      /\ \A t \in Slot : at'[t] \notin Away => at[t] \notin Away
      /\ at[s] \notin Away /\ label \notin Away
  BY DEF DropInv, Types, Go
<1>2. job[s] \in Card /\ card \in [Card -> Status] /\ card[job[s]] = "running"
  BY DEF DropInv, JobInv, Types, RunInv, RunsInv
<1>3. \A t \in Slot : at[t] \notin Away /\ job[t] = job[s] => t = s
  BY <1>1 DEF DropInv, FlightInv
<1>4. at[s] # "complete" => notes[job[s]] = 0
  BY <1>2 DEF RunInv, NoteInv
<1>5. /\ \A d \in Card : d # job[s] => card'[d] = card[d] /\ notes'[d] = notes[d]
      /\ \/ label # "discard" /\ card' = card
         \/ label = "discard" /\ card'[job[s]] \in {"blocked", "done"}
  BY <1>2 DEF Settle, NoteTypes
<1>6. \A t \in Slot : at[t] \notin Away => job[t] \in Card
  BY DEF DropInv, JobInv
<1>7. RunsInv'
  BY <1>1, <1>2, <1>3, <1>5, <1>6 DEF RunInv, RunsInv
<1>8. NoteInv'
  <2>. SUFFICES ASSUME NEW d \in Card
                PROVE  /\ notes'[d] \in {0, 1}
                       /\ notes'[d] = 1 =>
                            /\ card'[d] \in {"running", "done"}
                            /\ \A t \in Slot : at'[t] \notin Away \cup {"complete", "discard"} => job'[t] # d
    BY DEF NoteInv
  <2>1. CASE d # job[s]
    BY <1>1, <1>5, <2>1 DEF RunInv, NoteInv
  <2>2. CASE d = job[s]
    <3>1. \A t \in Slot : at'[t] \notin Away /\ job'[t] = d => t = s
      BY <1>1, <1>3, <2>2
    <3>2. notes[d] \in {0, 1}
      BY DEF RunInv, NoteInv
    <3>3. CASE UNCHANGED <<card, notes>> /\ label # "discard" /\ at[s] # "complete"
      BY <1>2, <1>4, <2>2, <3>2, <3>3
    <3>4. CASE Settle(s, "blocked") /\ UNCHANGED notes /\ at[s] # "complete"
      BY <1>4, <2>2, <3>2, <3>4
    <3>5. CASE Settle(s, "done") /\ UNCHANGED notes /\ label = "discard"
      BY <1>1, <1>2, <2>2, <3>1, <3>2, <3>5 DEF Settle
    <3>6. CASE /\ at[s] # "complete" /\ label = "complete" /\ UNCHANGED card
               /\ notes' = [notes EXCEPT ![job[s]] = IF @ = 2 THEN 2 ELSE @ + 1]
      <4>1. notes'[d] = 1
        BY <1>2, <1>4, <2>2, <3>6 DEF NoteTypes
      <4>. QED
        BY <1>1, <1>2, <2>2, <3>1, <3>6, <4>1
    <3>. QED
      BY <3>3, <3>4, <3>5, <3>6
  <2>. QED
    BY <2>1, <2>2
<1>9. RunningOwned'
  <2>. SUFFICES ASSUME "restart" \notin scene.faults, NEW d \in Card, card'[d] = "running"
                PROVE  \E t \in Slot : at'[t] \notin Away /\ job'[t] = d /\ at'[t] # "discard"
    BY DEF RunningOwned, Working
  <2>1. CASE d = job[s]
    BY <1>1, <1>5, <2>1
  <2>2. CASE d # job[s]
    <3>1. PICK t \in Slot : at[t] \notin Away /\ job[t] = d /\ at[t] # "discard"
      BY <1>5, <2>2 DEF RunInv, RunningOwned, Working
    <3>. QED
      BY <1>1, <2>2, <3>1
  <2>. QED
    BY <2>1, <2>2
<1>. QED
  BY <1>7, <1>8, <1>9 DEF RunInv

LEMMA NotesTyped == DropInv /\ NoteTypes /\ [Next]_vars => NoteTypes'
<1>. SUFFICES ASSUME DropInv, NoteTypes, [Next]_vars PROVE NoteTypes'
  OBVIOUS
<1>. USE DEF history, Local, MistralWorkflow
<1>1. ASSUME NEW c \in Caller, Call(c) PROVE notes' = notes
  BY <1>1 DEF Call, Enter, File, FileFails, Hold, Pulse, Spawn
<1>2. ASSUME NEW s \in Slot, Extract(s) PROVE NoteTypes'
  <2>1. CASE Write(s)
    BY <2>1 DEF Write, NoteTypes
  <2>2. CASE Extract(s) /\ ~Write(s)
    <3>1. CASE FetchPaper(s) \/ FetchWeb(s) \/ Summarize(s) \/ GaiusPreprint(s) \/ MistralStops(s)
      BY <3>1 DEF FetchPaper, FetchWeb, Summarize, GaiusPreprint, MistralStops, NoteTypes
    <3>2. CASE StartWorkflow(s) \/ StartOcr(s) \/ MistralNote(s) \/ AwaitEnds(s) \/ OcrEnds(s)
      BY <3>2 DEF StartWorkflow, StartOcr, MistralNote, AwaitEnds, OcrEnds, NoteTypes
    <3>3. CASE Complete(s)
      BY <3>3 DEF Complete, NoteTypes
    <3>. QED
      BY <2>2, <3>1, <3>2, <3>3 DEF Extract
  <2>. QED
    BY <1>2, <2>1, <2>2
<1>3. ASSUME NEW s \in Slot, Paint(s) \/ Finish(s) PROVE notes' = notes
  BY <1>3 DEF Paint, PaintLook, PaintBegin, PaintEnd, Finish, Discard, Leave, EndChip
<1>4. CASE Restart \/ UNCHANGED vars
  BY <1>4 DEF Restart, vars, NoteTypes
<1>. QED
  BY <1>1, <1>2, <1>3, <1>4 DEF Next, NoteTypes

(* Steps that leave the cards, the notes and the threads' work alone: a thread
   that is gone may be freed or on its way out. *)
LEMMA ThreadsKeep ==
  ASSUME DropInv, RunInv, failures' = 0 => failures = 0, UNCHANGED <<scene, card, notes>>,
         \A s \in Slot : \/ at'[s] \notin Away \cup {"due", "discard"} /\ at[s] = "due" /\ job'[s] = job[s]
                         \/ at'[s] = at[s] /\ job'[s] = job[s]
                         \/ at'[s] \in Away /\ at[s] \in Away \cup {"discard"}
  PROVE  RunInv'
<1>. USE DEF Away
<1>1. RunsInv'
  BY DEF RunInv, RunsInv
<1>2. NoteInv'
  BY DEF RunInv, NoteInv
<1>3. RunningOwned'
  BY DEF RunInv, RunningOwned, Working
<1>. QED
  BY <1>1, <1>2, <1>3 DEF RunInv

LEMMA RunStep ==
  DropInv /\ NoteTypes /\ RunInv /\ [Next]_vars => RunInv'
<1>. SUFFICES ASSUME DropInv, NoteTypes, RunInv, [Next]_vars, failures' = 0 PROVE RunInv'
  BY DEF RunInv, RunsInv, NoteInv, RunningOwned
<1>1. failures = 0 /\ failures' = failures /\ scene' = scene
  BY FailuresGrow DEF board
<1>2. ~BoardFails
  BY <1>1 DEF BoardFails, DropInv, Types
<1>. USE DEF Works, Local, MistralWorkflow, history, calls, work
<1>3. ASSUME NEW s \in Slot, Extract(s) PROVE RunInv'
  <2>. USE DEF Away, At
  <2>1. CASE FetchPaper(s) \/ FetchWeb(s) \/ Summarize(s) \/ GaiusPreprint(s) \/ MistralStops(s)
    BY <1>1, <1>2, <2>1, ThreadSettles
       DEF FetchPaper, FetchWeb, Summarize, GaiusPreprint, MistralStops, Advance, Raises
  <2>2. CASE StartWorkflow(s) \/ StartOcr(s) \/ AwaitEnds(s) \/ OcrEnds(s)
    BY <1>1, <1>2, <2>2, ThreadSettles DEF StartWorkflow, StartOcr, AwaitEnds, OcrEnds, Raises
  <2>3. CASE MistralNote(s)
    BY <1>1, <2>3, ThreadsKeep DEF MistralNote
  <2>4. CASE Write(s)
    BY <1>1, <1>2, <2>4, ThreadSettles DEF Write, Advance, Raises
  <2>5. CASE Complete(s)
    BY <1>1, <1>2, <2>5, ThreadSettles DEF Complete
  <2>. QED
    BY <1>3, <2>1, <2>2, <2>3, <2>4, <2>5 DEF Extract
<1>4. ASSUME NEW s \in Slot, Paint(s) \/ Finish(s) PROVE RunInv'
  <2>1. CASE Paint(s)
    BY <1>1, <2>1, ThreadsKeep DEF Paint, PaintLook, PaintBegin, PaintEnd
  <2>2. CASE Discard(s)
    <3>1. at' = [at EXCEPT ![s] = "leave"] /\ at[s] = "discard"
      BY <2>2 DEF Discard, Go
    <3>. QED
      BY <1>1, <2>2, <3>1, ThreadsKeep DEF Discard, DropInv, Types, Away
  <2>3. CASE Leave(s) \/ EndChip(s)
    <3>1. PICK label \in {"off", "free"} : at' = [at EXCEPT ![s] = label]
      BY <2>3 DEF Leave, EndChip, Go
    <3>2. /\ UNCHANGED <<card, notes>> /\ at[s] \in Away
          /\ job' = job \/ job' = [job EXCEPT ![s] = None]
      BY <2>3 DEF Leave, EndChip, Away
    <3>. QED
      BY <1>1, <3>1, <3>2, ThreadsKeep DEF DropInv, Types, Away
  <2>. QED
    BY <1>4, <2>1, <2>2, <2>3 DEF Finish
<1>5. ASSUME NEW c \in Caller, Call(c) PROVE RunInv'
  <2>1. CASE Enter(c) \/ Hold(c) \/ Pulse(c)
    BY <1>1, <2>1, ThreadsKeep DEF Enter, Hold, Pulse
  <2>2. CASE Spawn(c)
    <3>1. at' = [s \in Slot |-> IF owner[s] = c THEN "run" ELSE at[s]] /\ UNCHANGED <<job, card, notes>>
      BY <2>2 DEF Spawn, DueTo
    <3>2. \A s \in Slot : owner[s] = c => at[s] = "due"
      BY NoneAssumption DEF DropInv, JobInv
    <3>. QED
      BY <1>1, <3>1, <3>2, ThreadsKeep DEF Away
  <2>3. CASE FileFails(c)
    BY <1>2, <2>3 DEF FileFails
  <2>4. CASE File(c)
    <3>. DEFINE d == <<ask[c].key, pc[c]>>
    <3>1. pc[c] \in Scope /\ UNCHANGED notes
          /\ (Reuse(c, d) \/ CreateBlocked(c, d) \/ Start(c, d))
      BY <1>2, <2>4 DEF File
    <3>2. ask[c] \in Asked /\ d \in Card
      BY <3>1 DEF DropInv, Types, AskInv, Card, Scope, Asked
    <3>3. CASE Reuse(c, d)
      BY <1>1, <3>1, <3>3, ThreadsKeep DEF Reuse
    <3>4. CASE CreateBlocked(c, d)
      <4>1. UNCHANGED <<at, job>> /\ card' = [card EXCEPT ![d] = "blocked"] /\ card[d] = "none"
        BY <3>4 DEF CreateBlocked, Found
      <4>2. \A s \in Slot : at[s] \notin Away => job[s] \in Card /\ job[s] # d
        BY <4>1 DEF DropInv, JobInv
      <4>3. \A e \in Card : e # d => card'[e] = card[e]
        BY <4>1 DEF DropInv, Types
      <4>4. card'[d] = "blocked" /\ notes[d] = 0
        BY <1>1, <3>2, <4>1 DEF DropInv, Types, RunInv, NoteInv
      <4>5. RunsInv'
        BY <1>1, <4>1, <4>2, <4>3 DEF RunInv, RunsInv, Away
      <4>6. NoteInv'
        BY <1>1, <3>1, <4>1, <4>3, <4>4 DEF RunInv, NoteInv, Away
      <4>7. RunningOwned'
        BY <1>1, <4>1, <4>3, <4>4 DEF RunInv, RunningOwned, Working
      <4>. QED
        BY <4>5, <4>6, <4>7 DEF RunInv
    <3>5. CASE Start(c, d)
      <4>1. PICK s \in Slot : /\ at[s] = "free"
                              /\ at' = [at EXCEPT ![s] = "due"]
                              /\ job' = [job EXCEPT ![s] = d]
        BY <3>5 DEF Start, Job, Free, Go
      <4>2. card' = [card EXCEPT ![d] = "running"] /\ card[d] \in {"none", "blocked"}
            /\ (card[d] = "none" \/ d \notin inflight)
        BY <3>5 DEF Start, Found
      <4>3. notes[d] = 0
        BY <1>1, <3>2, <4>2 DEF RunInv, NoteInv
      <4>4. \A t \in Slot : at[t] \notin Away => job[t] \in Card /\ job[t] # d
        BY <1>1, <4>2 DEF DropInv, JobInv, FlightInv
      <4>5. /\ at'[s] = "due" /\ job'[s] = d
            /\ \A t \in Slot : t # s => at'[t] = at[t] /\ job'[t] = job[t]
        BY <4>1 DEF DropInv, Types
      <4>6. card'[d] = "running" /\ \A e \in Card : e # d => card'[e] = card[e]
        BY <3>2, <4>2 DEF DropInv, Types
      <4>7. RunsInv'
        BY <1>1, <4>4, <4>5, <4>6 DEF RunInv, RunsInv, Away
      <4>8. NoteInv'
        BY <1>1, <3>1, <4>3, <4>5, <4>6 DEF RunInv, NoteInv, Away
      <4>9. RunningOwned'
        BY <1>1, <4>1, <4>5, <4>6 DEF RunInv, RunningOwned, Working
      <4>. QED
        BY <4>7, <4>8, <4>9 DEF RunInv
    <3>. QED
      BY <3>1, <3>3, <3>4, <3>5
  <2>. QED
    BY <1>5, <2>1, <2>2, <2>3, <2>4 DEF Call
<1>6. CASE Restart
  <2>1. UNCHANGED <<card, notes>> /\ \A s \in Slot : at'[s] = "free"
    BY <1>6 DEF Restart
  <2>2. "restart" \in scene.faults
    BY <1>6 DEF Restart
  <2>3. RunsInv' /\ NoteInv' /\ RunningOwned'
    BY <1>1, <2>1, <2>2 DEF RunInv, RunsInv, NoteInv, RunningOwned, Away
  <2>. QED
    BY <2>3 DEF RunInv
<1>7. CASE UNCHANGED vars
  BY <1>1, <1>7, ThreadsKeep DEF vars
<1>. QED
  BY <1>3, <1>4, <1>5, <1>6, <1>7 DEF Next

LEMMA RunAlways == Spec => [](NoteTypes /\ RunInv)
<1>1. Init => NoteTypes /\ RunInv
  BY DEF Init, NoteTypes, RunInv, RunsInv, NoteInv, RunningOwned, Away
<1>. QED
  BY <1>1, NotesTyped, RunStep, Invariant, PTL DEF Spec

(* "The analysis does not run again": while the database answers, one note is
   written for a key and scope, whatever calls, failures of a thread and
   restarts it meets. *)
THEOREM OneNoteIsWritten == Spec => []NotesOnce
<1>1. NoteTypes /\ RunInv => NotesOnce
  BY DEF NoteTypes, RunInv, NoteInv, NotesOnce
<1>. QED
  BY <1>1, RunAlways, PTL

(* While the database answers and the engine stays up, a card that runs has a
   thread that will complete it or block it. *)
THEOREM RunningIsOwned == Spec => []RunningOwned
BY RunAlways, PTL DEF RunInv

-----------------------------------------------------------------------------
(* The chip: _CHIP is the number of jobs held, each from the hold of its call
   to its own leave; the chip is shown only over a job held or a thread that is
   about to end it. *)
Unheld == {"free", "due", "off"}
Counted == {"pulse", "spawn"}
Held == {s \in Slot : at[s] \notin Unheld \/ (at[s] = "due" /\ pc[owner[s]] \in Counted)}

ChipInv ==
  /\ chip = Cardinality(Held)
  /\ \A s \in Slot : at[s] = "due" => owner[s] # None
  /\ \A c \in Caller : pc[c] \in {"hold"} \cup Counted => \E s \in Slot : owner[s] = c
  /\ "hicks" \in shown => chip > 0 \/ \E s \in Slot : at[s] = "off"

LEMMA HeldFinite == IsFiniteSet(Held) /\ Cardinality(Held) \in Nat
BY SlotAssumption, FS_Subset, FS_CardinalityType DEF Held

(* Steps of threads that neither take a job nor give one up. *)
LEMMA ChipKept ==
  ASSUME ChipInv, UNCHANGED <<pc, owner, chip>>,
         "hicks" \in shown' => "hicks" \in shown,
         \A s \in Slot : at'[s] = at[s] \/ (at[s] \notin Unheld /\ at'[s] \notin Unheld)
  PROVE  ChipInv'
<1>1. Held' = Held
  BY DEF Held
<1>2. \A s \in Slot : /\ at'[s] = "due" => at[s] = "due"
                      /\ at[s] = "off" => at'[s] = "off"
  BY DEF Unheld
<1>. QED
  BY <1>1, <1>2 DEF ChipInv

LEMMA ChipOfCalls == ASSUME DropInv, ChipInv, NEW c \in Caller, Call(c) PROVE ChipInv'
<1>. USE DEF Goto, work, Counted, Unheld
<1>0. /\ pc \in [Caller -> {"idle", "preview", "full", "hold", "pulse", "spawn"}]
      /\ at \in [Slot -> At] /\ owner \in [Slot -> Caller \cup {None}]
      /\ None \notin Caller
      /\ \A s \in Slot : owner[s] # None => at[s] = "due"
  BY NoneAssumption DEF DropInv, Types, JobInv
<1>1. CASE Enter(c)
  <2>1. /\ pc' = [pc EXCEPT ![c] = "preview"] /\ pc[c] = "idle"
        /\ UNCHANGED <<at, owner, chip, shown>>
    BY <1>1 DEF Enter
  <2>2. Held' = Held
    BY <1>0, <2>1 DEF Held
  <2>. QED
    BY <1>0, <2>1, <2>2 DEF ChipInv
<1>2. CASE File(c)
  <2>1. pc[c] \in Scope /\ NextScope(c) /\ UNCHANGED <<chip, shown>>
    BY <1>2 DEF File
  <2>2. \/ UNCHANGED <<at, owner>>
        \/ \E s \in Slot : /\ at[s] = "free"
                           /\ at' = [at EXCEPT ![s] = "due"]
                           /\ owner' = [owner EXCEPT ![s] = c]
    BY <1>2 DEF File, Reuse, CreateBlocked, Start, Overlook, Job, Free, Go
  <2>3. /\ pc[c] \notin Counted /\ pc'[c] \in {"full", "hold", "idle"}
        /\ \A b \in Caller : b # c => pc'[b] = pc[b]
        /\ pc'[c] = "hold" => \E s \in Slot : owner'[s] = c
    BY <1>0, <2>1 DEF NextScope, Scope
  <2>4. \A s \in Slot : /\ at'[s] = at[s] \/ (at[s] = "free" /\ at'[s] = "due")
                        /\ owner'[s] = owner[s] \/ (at[s] = "free" /\ owner'[s] = c)
                        /\ at'[s] = "due" /\ at[s] = "free" => owner'[s] = c
    BY <1>0, <2>2
  <2>5. Held' = Held
    BY <1>0, <2>3, <2>4 DEF Held, ChipInv
  <2>6. \A b \in Caller : pc'[b] \in {"hold"} \cup Counted => \E s \in Slot : owner'[s] = b
    BY <1>0, <2>3, <2>4 DEF ChipInv
  <2>. QED
    BY <1>0, <2>1, <2>4, <2>5, <2>6 DEF ChipInv
<1>3. CASE FileFails(c)
  <2>1. /\ at' = [s \in Slot |-> IF owner[s] = c THEN "free" ELSE at[s]]
        /\ owner' = [s \in Slot |-> IF owner[s] = c THEN None ELSE owner[s]]
        /\ pc' = [pc EXCEPT ![c] = "idle"] /\ pc[c] \in Scope
        /\ UNCHANGED <<chip, shown>>
    BY <1>3 DEF FileFails, DueTo
  <2>2. Held' = Held
    BY <1>0, <2>1 DEF Held, Scope, ChipInv
  <2>. QED
    BY <1>0, <2>1, <2>2 DEF ChipInv
<1>4. CASE Hold(c)
  <2>1. /\ pc[c] = "hold" /\ chip' = chip + Cardinality(DueTo(c))
        /\ \E label \in Counted : pc' = [pc EXCEPT ![c] = label]
        /\ UNCHANGED <<at, owner, shown>>
    BY <1>4 DEF Hold
  <2>2. Held' = Held \cup DueTo(c) /\ Held \cap DueTo(c) = {}
    BY <1>0, <2>1 DEF Held, DueTo, ChipInv
  <2>3. IsFiniteSet(DueTo(c)) /\ Cardinality(DueTo(c)) \in Nat
    BY SlotAssumption, FS_Subset, FS_CardinalityType DEF DueTo
  <2>4. DueTo(c) # {}
    BY <2>1 DEF DueTo, ChipInv
  <2>5. Cardinality(DueTo(c)) > 0
    BY <2>3, <2>4, FS_EmptySet
  <2>6. chip' = Cardinality(Held')
    <3>1. Cardinality(Held \cap DueTo(c)) = 0
      BY <2>2, FS_EmptySet
    <3>2. Cardinality(Held \cup DueTo(c)) = Cardinality(Held) + Cardinality(DueTo(c))
      <4>1. Cardinality(Held \cup DueTo(c)) =
              Cardinality(Held) + Cardinality(DueTo(c)) - Cardinality(Held \cap DueTo(c))
        BY <2>3, HeldFinite, FS_Union, Zenon
      <4>. QED
        BY <2>3, <3>1, <4>1, HeldFinite
    <3>. QED
      BY <2>1, <2>2, <3>2 DEF ChipInv
  <2>7. chip' > 0
    BY <2>1, <2>3, <2>5, HeldFinite DEF ChipInv
  <2>. QED
    BY <1>0, <2>1, <2>4, <2>6, <2>7 DEF ChipInv, DueTo
<1>5. CASE Pulse(c)
  <2>1. /\ pc[c] = "pulse" /\ pc' = [pc EXCEPT ![c] = "spawn"]
        /\ UNCHANGED <<at, owner, chip>>
    BY <1>5 DEF Pulse
  <2>2. Held' = Held
    BY <1>0, <2>1 DEF Held, ChipInv
  <2>3. Held # {}
    BY <1>0, <2>1 DEF Held, ChipInv
  <2>4. chip > 0
    BY <2>3, HeldFinite, FS_EmptySet DEF ChipInv
  <2>. QED
    BY <1>0, <2>1, <2>2, <2>4 DEF ChipInv
<1>6. CASE Spawn(c)
  <2>1. /\ at' = [s \in Slot |-> IF owner[s] = c THEN "run" ELSE at[s]]
        /\ owner' = [s \in Slot |-> IF owner[s] = c THEN None ELSE owner[s]]
        /\ pc' = [pc EXCEPT ![c] = "idle"] /\ pc[c] = "spawn"
        /\ UNCHANGED <<chip, shown>>
    BY <1>6 DEF Spawn, DueTo
  <2>2. Held' = Held
    BY <1>0, <2>1 DEF Held, ChipInv
  <2>. QED
    BY <1>0, <2>1, <2>2 DEF ChipInv
<1>. QED
  BY <1>1, <1>2, <1>3, <1>4, <1>5, <1>6 DEF Call

LEMMA ChipStep == DropInv /\ ChipInv /\ [Next]_vars => ChipInv'
<1>. SUFFICES ASSUME DropInv, ChipInv, [Next]_vars PROVE ChipInv'
  OBVIOUS
<1>. USE DEF Works, Local, MistralWorkflow, calls, work, mistral, Unheld
<1>1. at \in [Slot -> At] /\ owner \in [Slot -> Caller \cup {None}]
  BY DEF DropInv, Types
<1>2. ASSUME NEW s \in Slot, Extract(s) PROVE ChipInv'
  <2>. USE <1>1, ChipKept DEF Go
  <2>1. CASE FetchPaper(s) \/ FetchWeb(s) \/ Summarize(s) \/ GaiusPreprint(s) \/ MistralStops(s)
    BY <2>1 DEF FetchPaper, FetchWeb, Summarize, GaiusPreprint, MistralStops, Advance, Raises
  <2>2. CASE StartWorkflow(s) \/ StartOcr(s) \/ MistralNote(s) \/ AwaitEnds(s) \/ OcrEnds(s)
    BY <2>2 DEF StartWorkflow, StartOcr, MistralNote, AwaitEnds, OcrEnds, Raises
  <2>3. CASE Write(s) \/ Complete(s)
    BY <2>3 DEF Write, Complete, Advance, Raises
  <2>. QED
    BY <1>2, <2>1, <2>2, <2>3 DEF Extract
<1>3. ASSUME NEW s \in Slot, Paint(s) \/ Discard(s) PROVE ChipInv'
  BY <1>1, <1>3, ChipKept DEF Paint, PaintLook, PaintBegin, PaintEnd, Discard, Go
<1>4. ASSUME NEW s \in Slot, Leave(s) PROVE ChipInv'
  <2>1. /\ at[s] = "leave" /\ UNCHANGED <<pc, owner, shown>>
        /\ at' = [at EXCEPT ![s] = IF chip <= 1 THEN "off" ELSE "free"]
        /\ chip' = IF chip = 0 THEN 0 ELSE chip - 1
    BY <1>4 DEF Leave, Go
  <2>2. s \in Held /\ Held' = Held \ {s}
    BY <1>1, <2>1 DEF Held
  <2>3. chip \in Nat /\ chip > 0 /\ Cardinality(Held') = chip - 1
    BY <2>2, HeldFinite, FS_RemoveElement, FS_EmptySet DEF ChipInv
  <2>4. chip' = Cardinality(Held') /\ (chip' > 0 \/ at'[s] = "off")
    BY <1>1, <2>1, <2>3
  <2>. QED
    BY <1>1, <2>1, <2>4 DEF ChipInv
<1>5. ASSUME NEW s \in Slot, EndChip(s) PROVE ChipInv'
  <2>1. /\ at[s] = "off" /\ at' = [at EXCEPT ![s] = "free"]
        /\ "hicks" \notin shown' /\ UNCHANGED <<pc, owner, chip>>
    BY <1>5 DEF EndChip, Go
  <2>2. Held' = Held
    BY <1>1, <2>1 DEF Held
  <2>. QED
    BY <1>1, <2>1, <2>2 DEF ChipInv
<1>6. CASE Restart
  <2>1. Held' = {} /\ chip' = 0
    BY <1>6 DEF Restart, Held
  <2>. QED
    BY <1>6, <2>1, FS_EmptySet DEF Restart, ChipInv, Counted
<1>7. CASE UNCHANGED vars
  BY <1>7, ChipKept DEF vars
<1>. QED
  BY <1>2, <1>3, <1>4, <1>5, <1>6, <1>7, ChipOfCalls DEF Next, Finish

(* The Hicks chip is not left on the video: with no job held and no thread just
   ending it, it is off, however holds, paints and leaves overlap. *)
THEOREM HicksIsEnded == Spec => []HicksEnds
<1>1. Init => ChipInv
  BY FS_EmptySet DEF Init, ChipInv, Held, Unheld, Counted
<1>2. ChipInv => HicksEnds
  BY DEF ChipInv, HicksEnds
<1>. QED
  BY <1>1, <1>2, ChipStep, Invariant, PTL DEF Spec
=============================================================================
