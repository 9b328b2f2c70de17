------------------------------- MODULE DeskProofs -------------------------------
(***************************************************************************)
(* Theorems about Desk, for any cards, jobs, titles and scenes: its types, *)
(* that a worker's card has had its parent done, that one card is open for *)
(* a title, and that blocked cards are told.  The last three need that the *)
(* tools and the actors of a scene leave it possible; each theorem names   *)
(* what they need as its hypothesis.                                       *)
(***************************************************************************)
EXTENDS Desk, TLAPS

-----------------------------------------------------------------------------
(* Types *)

JobRec ==
  [op : Tool \cup {"none", "file", "glance", "cue", "suggest", "partner", "ensure"},
   at : Steps, card : Card \cup {None}, for : Title \cup {None},
   seen : SUBSET (Card \X (Err \cup {None})), saved : BOOLEAN, bot : 1..Len(Bots)]

LEMMA BotsAre == Len(Bots) = 4 /\ Bot = {"ripley", "bishop", "vasquez", "hicks"}
                 /\ \A i \in 1..4 : Bots[i] \in Bot
BY DEF Bots, Bot

LEMMA IdleIsJob == Idle \in JobRec
BY BotsAre DEF Idle, JobRec, Steps

LEMMA WrittenTyped ==
  ASSUME TypeOK, NEW c, NEW s \in Column, Put(c, s) \/ PutAndRecompute(c, s)
  PROVE  st' \in [Card -> Column \cup {"none"}] /\ met' \subseteq Card
BY DEF TypeOK, Put, PutAndRecompute, Write, MetIn, Recomputed, Column

LEMMA GotoTyped ==
  ASSUME TypeOK, NEW j \in Job, NEW label \in Steps, Goto(j, label)
  PROVE  job' \in [Job -> JobRec]
<1>1. job \in [Job -> JobRec]
  BY DEF TypeOK, JobRec
<1>2. [job[j] EXCEPT !.at = label] \in JobRec
  BY <1>1 DEF JobRec
<1>. QED
  BY <1>1, <1>2 DEF Goto

LEMMA ReturnTyped ==
  ASSUME TypeOK, NEW j \in Job, Return(j) PROVE job' \in [Job -> JobRec]
BY IdleIsJob DEF TypeOK, JobRec, Return

LEMMA StartTyped ==
  ASSUME TypeOK, NEW j \in Job, NEW r \in JobRec, Start(j, r) PROVE job' \in [Job -> JobRec]
BY DEF TypeOK, JobRec, Start

LEMMA SetTyped ==
  ASSUME TypeOK, NEW c, NEW s \in Column, SetStatus(c, s)
  PROVE  st' \in [Card -> Column \cup {"none"}] /\ met' \subseteq Card
BY WrittenTyped DEF SetStatus

LEMMA BoardTypes ==
  ASSUME TypeOK, NEW c \in Card, Dispatcher \/ CardTools(c)
  PROVE  TypeOK'
<1>. USE WrittenTyped DEF Exists, Asked
<1>1. CASE Dispatcher
  <2>. PICK d \in Card :
         \/ Orchestrate(d) \/ Claim(d)
         \/ \E s \in {"done", "review"} : WorkerEnds(d, s)
         \/ \E e \in Err : Park(d, e)
    BY <1>1 DEF Dispatcher
  <2>1. st' \in [Card -> Column \cup {"none"}] /\ met' \subseteq Card
    BY DEF Orchestrate, Claim, WorkerEnds, Park, Queue, Column
  <2>2. why' \in [Card -> Err \cup {None}]
    BY DEF Orchestrate, Claim, WorkerEnds, Park, TypeOK
  <2>. QED
    BY <1>1, <2>1, <2>2 DEF Dispatcher, TypeOK, bots, glances
<1>2. CASE CreateTask(c)
  <2>1. st' \in [Card -> Column \cup {"none"}] /\ met' \subseteq Card
    BY <1>2 DEF CreateTask, NewCard, Column
  <2>. QED
    BY <1>2, <2>1 DEF CreateTask, NewCard, TypeOK, bots, glances
<1>3. CASE UnblockTask(c)
  <2>1. st' \in [Card -> Column \cup {"none"}] /\ met' \subseteq Card
    BY <1>3 DEF UnblockTask, Queue, Column
  <2>. QED
    BY <1>3, <2>1 DEF UnblockTask, TypeOK, bots, glances
<1>4. CASE \E p \in Card : LinkTasks(p, c)
  <2>1. met' \subseteq Card
    BY <1>4 DEF LinkTasks, TypeOK
  <2>. QED
    BY <1>4, <2>1 DEF LinkTasks, TypeOK, bots, glances
<1>. QED
  BY <1>1, <1>2, <1>3, <1>4 DEF CardTools

(* What the tools' steps read, and where they go on. *)
LEMMA LooksAre ==
  ASSUME NEW j \in Job, Looks(j)
  PROVE  /\ UNCHANGED <<scene, board, glances, steer, busy, drawing, over, bots>>
         /\ job[j].at \in {"land", "specified", "check", "landed", "act"}
         /\ \/ Return(j)
            \/ Goto(j, "over") /\ job[j].op = "block"
            \/ Goto(j, "check") /\ st[job[j].card] = "todo"
            \/ Goto(j, "set") /\ At(j, "check")
            \/ Goto(j, "specify") /\ At(j, "land")
            \/ Goto(j, "act") /\ ~At(j, "act") /\ ~At(j, "check")
            \/ Goto(j, "park") /\ At(j, "act") /\ job[j].op \in {"block", "blocked"}
BY DEF Looks, Land, LandSpecified, SetStatusChecks, LandChecks, BlockLooks, Refused, At

LEMMA WritesAre ==
  ASSUME NEW j \in Job, Writes(j)
  PROVE  /\ UNCHANGED <<scene, title, ours, parent, glances, steer, busy, drawing, over, bots>>
         /\ why' = why \/ \E e \in Err : why' = [why EXCEPT ![job[j].card] = e]
         /\ job[j].at \in {"specify", "unblock", "set", "act", "park", "over"}
         /\ \/ Return(j)
            \/ Goto(j, "over") /\ job[j].op = "block"
            \/ Goto(j, "specified") /\ At(j, "specify")
            \/ Goto(j, "landed") /\ At(j, "set")
         /\ \/ UNCHANGED <<st, met>>
            \/ \E s \in Column : Put(job[j].card, s) \/ PutAndRecompute(job[j].card, s)
<1>1. CASE Specify(j)
  BY <1>1 DEF Specify, Refused, Queue, Column, At
<1>2. CASE MoveUnblocks(j)
  BY <1>2 DEF MoveUnblocks, Queue, Column, At
<1>3. CASE SetStatusWrites(j)
  BY <1>3 DEF SetStatusWrites, SetStatus, Target, Column, At
<1>4. CASE CompleteLanded(j)
  BY <1>4 DEF CompleteLanded, Column, At
<1>5. CASE BlockParks(j)
  BY <1>5 DEF BlockParks, Park, Column, At
<1>6. CASE BlockOverwrites(j)
  BY <1>6 DEF BlockOverwrites, SetStatus, Column, At
<1>. QED
  BY <1>1, <1>2, <1>3, <1>4, <1>5, <1>6 DEF Writes

LEMMA LandTypes ==
  ASSUME TypeOK, NEW j \in Job, LandSteps(j)
  PROVE  TypeOK'
<1>1. job' \in [Job -> JobRec]
  <2>1. \/ Return(j)
        \/ \E label \in {"act", "specify", "specified", "check", "set", "landed", "park", "over"} :
               Goto(j, label)
    BY LooksAre, WritesAre DEF LandSteps
  <2>. QED
    BY <2>1, GotoTyped, ReturnTyped DEF Steps
<1>2. st' \in [Card -> Column \cup {"none"}] /\ met' \subseteq Card
  <2>1. UNCHANGED <<st, met>> => st' \in [Card -> Column \cup {"none"}] /\ met' \subseteq Card
    BY DEF TypeOK
  <2>. QED
    BY <2>1, LooksAre, WritesAre, WrittenTyped DEF LandSteps, board
<1>3. /\ UNCHANGED <<scene, title, ours, parent, glances, steer, busy, drawing, over, bots>>
      /\ why' = why \/ \E e \in Err : why' = [why EXCEPT ![job[j].card] = e]
  BY LooksAre, WritesAre DEF LandSteps, board
<1>. QED
  BY <1>1, <1>2, <1>3 DEF TypeOK, JobRec, glances, bots

LEMMA GlanceTypes ==
  ASSUME TypeOK, NEW j \in Job, GlanceSteps(j)
  PROVE  TypeOK'
<1>1. job' \in [Job -> JobRec]
  BY GotoTyped, ReturnTyped DEF GlanceSteps, FindCard, FileCard, FilingFails, OfferBriefing,
     Vasquez, VasquezEnds, Steps
<1>2. UNCHANGED <<scene, why, parent, glances, busy, over, bots>>
  BY DEF GlanceSteps, FindCard, FileCard, FilingFails, OfferBriefing, Vasquez, VasquezEnds,
         NewCard, board
<1>3. steer' \in {steer, "briefing"} /\ drawing' \in {drawing, TRUE, FALSE}
  BY DEF GlanceSteps, FindCard, FileCard, FilingFails, OfferBriefing, Vasquez, VasquezEnds,
         OfferSteer
<1>4. CASE FileCard(j)
  <2>1. job[j].for \in Title \cup {None}
    BY DEF TypeOK
  <2>2. st' \in [Card -> Column \cup {"none"}] /\ met' \subseteq Card
    BY <1>4, WrittenTyped DEF FileCard, NewCard, Column
  <2>. QED
    BY <1>1, <1>2, <1>3, <1>4, <2>1, <2>2 DEF FileCard, NewCard, TypeOK, JobRec, glances, bots
<1>5. CASE ~FileCard(j)
  <2>1. UNCHANGED board
    BY <1>5 DEF GlanceSteps, FindCard, FilingFails, OfferBriefing, Vasquez, VasquezEnds
  <2>. QED
    BY <1>1, <1>2, <1>3, <2>1 DEF TypeOK, JobRec, board, glances, bots
<1>. QED
  BY <1>4, <1>5

LEMMA BlockedTyped ==
  ASSUME TypeOK PROVE BlockedForSession \in SUBSET (Card \X (Err \cup {None})) /\ Glance \in SUBSET (Card \X (Err \cup {None}))
BY DEF TypeOK, BlockedForSession, Glance

LEMMA ModelTypes ==
  ASSUME TypeOK, NEW j \in Job, ModelSteps(j)
  PROVE  TypeOK'
<1>1. job' \in [Job -> JobRec]
  <2>1. CASE BishopStarts(j) \/ PartnerStarts(j)
    <3>1. job \in [Job -> JobRec] /\ over \in [Setting -> BOOLEAN]
      BY DEF TypeOK, JobRec
    <3>2. PICK o \in Setting, next \in Steps :
            job' = [job EXCEPT ![j].saved = over[o], ![j].at = next]
      BY <2>1 DEF BishopStarts, PartnerStarts, Override, Setting, Steps
    <3>3. [job[j] EXCEPT !.saved = over[o], !.at = next] \in JobRec
      BY <3>1 DEF JobRec
    <3>. QED
      BY <3>1, <3>2, <3>3
  <2>2. CASE PartnerFiles(j)
    BY <2>2 DEF PartnerFiles, TypeOK, JobRec
  <2>3. CASE \/ BishopAnswers(j) \/ BishopFails(j) \/ PartnerAnswers(j)
             \/ OfferBlocked(j) \/ PartnerSteers(j)
    BY <2>3, GotoTyped, ReturnTyped DEF BishopAnswers, BishopFails, PartnerAnswers,
       OfferBlocked, PartnerSteers, Steps
  <2>4. CASE SurfaceBlocked(j)
    <3>1. job \in [Job -> JobRec]
      BY DEF TypeOK, JobRec
    <3>2. PICK label \in {"offer", "tell"} :
            job' = [job EXCEPT ![j].seen = Glance, ![j].at = label]
      BY <2>4 DEF SurfaceBlocked
    <3>3. [job[j] EXCEPT !.seen = Glance, !.at = label] \in JobRec
      <4>1. job[j] \in JobRec /\ Glance \in SUBSET (Card \X (Err \cup {None}))
        BY <3>1, BlockedTyped
      <4>. QED
        BY <4>1 DEF JobRec, Steps
    <3>. QED
      BY <3>1, <3>2, <3>3
  <2>. QED
    BY <2>1, <2>2, <2>3, <2>4 DEF ModelSteps
<1>2. over' \in [Setting -> BOOLEAN]
  <2>1. job[j].saved \in BOOLEAN /\ over \in [Setting -> BOOLEAN]
    BY DEF TypeOK
  <2>2. \/ over' = over
        \/ \E o \in Setting : over' = [over EXCEPT ![o] = TRUE] \/ over' = [over EXCEPT ![o] = job[j].saved]
    BY DEF ModelSteps, BishopStarts, BishopAnswers, BishopFails, PartnerStarts, PartnerFiles,
       PartnerAnswers, SurfaceBlocked, OfferBlocked, PartnerSteers, Override, PutBack, Setting
  <2>. QED
    BY <2>1, <2>2
<1>3. UNCHANGED <<scene, why, parent, drawing, bots>>
  BY DEF ModelSteps, BishopStarts, BishopAnswers, BishopFails, PartnerStarts, PartnerFiles,
         PartnerAnswers, SurfaceBlocked, OfferBlocked, PartnerSteers, NewCard, board
<1>4. steer' \in {steer, "bishop", "blocked", "partner"}
  BY DEF ModelSteps, BishopStarts, BishopAnswers, BishopFails, PartnerStarts, PartnerFiles,
         PartnerAnswers, SurfaceBlocked, OfferBlocked, PartnerSteers, OfferSteer
<1>5. busy' \in BOOLEAN
  BY DEF ModelSteps, BishopStarts, BishopAnswers, BishopFails, PartnerStarts, PartnerFiles,
         PartnerAnswers, SurfaceBlocked, OfferBlocked, PartnerSteers, Released, TypeOK
<1>6. sig' \in SUBSET (Card \X (Err \cup {None})) /\ told' \in BOOLEAN
  BY BlockedTyped DEF ModelSteps, BishopStarts, BishopAnswers, BishopFails, PartnerStarts,
     PartnerFiles, PartnerAnswers, SurfaceBlocked, OfferBlocked, PartnerSteers, Look, Tell, TypeOK, glances
<1>7. /\ st' \in [Card -> Column \cup {"none"}] /\ met' \subseteq Card
      /\ title' \in [Card -> Title \cup {None}]
      /\ ours' \in [Card -> BOOLEAN]
  <2>1. CASE PartnerFiles(j)
    BY <2>1, WrittenTyped DEF PartnerFiles, NewCard, Column, TypeOK
  <2>2. CASE ~PartnerFiles(j)
    BY <2>2 DEF ModelSteps, BishopStarts, BishopAnswers, BishopFails, PartnerStarts,
       PartnerAnswers, SurfaceBlocked, OfferBlocked, PartnerSteers, board, TypeOK
  <2>. QED
    BY <2>1, <2>2
<1>. QED
  BY <1>1, <1>2, <1>3, <1>4, <1>5, <1>6, <1>7 DEF TypeOK, JobRec, bots

FirstSteps == {"land", "specify", "unblock", "check", "set", "park"}

(* A tool that promotes a card looks at the parents first. *)
LEMMA ToolStarts ==
  ASSUME NEW j \in Job, NEW c \in Card, NEW m \in scene.moves, StartTool(j, m, c)
  PROVE  /\ UNCHANGED <<scene, board, glances, steer, busy, drawing, over, bots>>
         /\ m \in Tool
         /\ \E label \in FirstSteps :
              /\ Start(j, [Idle EXCEPT !.op = m, !.card = c, !.at = label])
              /\ label = "park" => m = "block"
              /\ label \in {"set", "check", "unblock"} => m \in Column \ {"done", "blocked"}
              /\ label = "set" => m \in {"triage", "todo", "review"}
BY DEF StartTool, FirstSteps, Tool, Moveable, Column

LEMMA OthersStart ==
  ASSUME NEW j \in Job,
         ScheduleGlance(j) \/ Cue(j) \/ Suggest(j) \/ Partner(j) \/ EnsureBots(j)
  PROVE  \E r : Start(j, r) /\ r.at \in {"find", "vasquez", "bishop", "enter", "read"}
<1>1. CASE ScheduleGlance(j)
  <2>1. CASE Start(j, [Idle EXCEPT !.op = "glance", !.at = "vasquez"])
    <3>1. [Idle EXCEPT !.op = "glance", !.at = "vasquez"].at = "vasquez"
      BY DEF Idle
    <3>. QED
      BY <2>1, <3>1
  <2>2. ASSUME NEW t, Start(j, [Idle EXCEPT !.op = "file", !.for = t, !.at = "find"])
        PROVE  \E r : Start(j, r) /\ r.at = "find"
    <3>1. [Idle EXCEPT !.op = "file", !.for = t, !.at = "find"].at = "find"
      BY DEF Idle
    <3>. QED
      BY <2>2, <3>1
  <2>. QED
    BY <1>1, <2>1, <2>2 DEF ScheduleGlance
<1>2. CASE Cue(j)
  <2>1. [Idle EXCEPT !.op = "cue", !.at = "bishop", !.seen = Glance].at = "bishop"
    BY DEF Idle
  <2>. QED
    BY <1>2, <2>1 DEF Cue
<1>3. CASE Suggest(j)
  <2>1. [Idle EXCEPT !.op = "suggest", !.at = "bishop"].at = "bishop"
    BY DEF Idle
  <2>. QED
    BY <1>3, <2>1 DEF Suggest
<1>4. CASE Partner(j)
  <2>1. [Idle EXCEPT !.op = "partner", !.at = "enter"].at = "enter"
    BY DEF Idle
  <2>. QED
    BY <1>4, <2>1 DEF Partner
<1>5. CASE EnsureBots(j)
  <2>1. [Idle EXCEPT !.op = "ensure", !.at = "read"].at = "read"
    BY DEF Idle
  <2>. QED
    BY <1>5, <2>1 DEF EnsureBots
<1>. QED
  BY <1>1, <1>2, <1>3, <1>4, <1>5

LEMMA BeginTypes ==
  ASSUME TypeOK, NEW j \in Job, Begin(j)
  PROVE  TypeOK'
<1>. DEFINE begun == Tool \cup {"file", "glance", "cue", "suggest", "partner", "ensure"}
<1>1. \E r \in JobRec : Start(j, r)
  <2>1. ASSUME NEW op \in begun, NEW at \in Steps
        PROVE  [Idle EXCEPT !.op = op, !.at = at] \in JobRec
    BY IdleIsJob DEF JobRec
  <2>2. CASE \E c \in Card, m \in scene.moves : StartTool(j, m, c)
    <3>0. PICK c \in Card, m \in scene.moves : StartTool(j, m, c)
      BY <2>2
    <3>1. m \in Tool /\ \E label \in FirstSteps :
            Start(j, [Idle EXCEPT !.op = m, !.card = c, !.at = label])
      BY <3>0, ToolStarts
    <3>2. \A label \in FirstSteps : [Idle EXCEPT !.op = m, !.card = c, !.at = label] \in JobRec
      BY <3>1, IdleIsJob DEF JobRec, Steps, FirstSteps
    <3>. QED
      BY <3>1, <3>2
  <2>3. CASE ScheduleGlance(j)
    <3>1. CASE Start(j, [Idle EXCEPT !.op = "glance", !.at = "vasquez"])
      BY <2>1, <3>1 DEF Steps
    <3>2. ASSUME NEW f \in Title, Start(j, [Idle EXCEPT !.op = "file", !.for = f, !.at = "find"])
          PROVE  \E r \in JobRec : Start(j, r)
      <4>1. [Idle EXCEPT !.op = "file", !.for = f, !.at = "find"] \in JobRec
        BY IdleIsJob DEF JobRec, Steps
      <4>. QED
        BY <3>2, <4>1
    <3>. QED
      BY <2>3, <3>1, <3>2 DEF ScheduleGlance
  <2>4. CASE Cue(j)
    <3>1. [Idle EXCEPT !.op = "cue", !.at = "bishop", !.seen = Glance] \in JobRec
      BY IdleIsJob, BlockedTyped DEF JobRec, Steps
    <3>. QED
      BY <2>4, <3>1 DEF Cue
  <2>5. CASE Suggest(j) \/ Partner(j) \/ EnsureBots(j)
    BY <2>1, <2>5 DEF Suggest, Partner, EnsureBots, Steps
  <2>. QED
    BY <2>2, <2>3, <2>4, <2>5 DEF Begin
<1>2. job' \in [Job -> JobRec]
  BY <1>1, StartTyped
<1>3. UNCHANGED <<scene, board, steer, drawing, over, bots>>
  BY DEF Begin, StartTool, ScheduleGlance, Cue, Suggest, Partner, EnsureBots
<1>4. sig' \in SUBSET (Card \X (Err \cup {None})) /\ told' \in BOOLEAN /\ busy' \in BOOLEAN
  BY BlockedTyped DEF Begin, StartTool, ScheduleGlance, Cue, Suggest, Partner, EnsureBots, Look,
     glances, TypeOK
<1>. QED
  BY <1>2, <1>3, <1>4 DEF TypeOK, JobRec, board, bots

Souls == {"missing", "stock", "old", "marked", "own", "current"}
Configs == {"unset", "own", "grok", "unreadable", "seeded"}

LEMMA EnsureTypes ==
  ASSUME TypeOK, NEW j \in Job, EnsureSteps(j)
  PROVE  TypeOK'
<1>. DEFINE b == Bots[job[j].bot]
<1>1. job[j].bot \in 1..4 /\ b \in Bot /\ job \in [Job -> JobRec] /\ job[j] \in JobRec
  BY BotsAre DEF TypeOK, JobRec
<1>2. UNCHANGED <<scene, board, glances, steer, busy, drawing, over>>
  BY DEF EnsureSteps, EnsureReads, EnsureWrites, EnsureSeeds, EnsureFails
<1>3. soul' \in [Bot -> Souls]
  <2>1. soul \in [Bot -> Souls]
    BY DEF TypeOK, Souls
  <2>2. \/ soul' = soul
        \/ \E s \in Souls : soul' = [soul EXCEPT ![b] = s]
    BY <1>1, <2>1 DEF EnsureSteps, EnsureReads, EnsureWrites, EnsureSeeds, EnsureFails, Souls, bots
  <2>. QED
    BY <2>1, <2>2
<1>4. config' \in [Config -> Configs]
  <2>1. \A f \in [Config -> Configs] :
           SeedBishopConfig(f) \in [Config -> Configs] /\ SeedHicksConfig(f) \in [Config -> Configs]
           /\ PinOrchestrator(f) \in [Config -> Configs]
    BY DEF SeedBishopConfig, SeedHicksConfig, PinOrchestrator, Configs
  <2>2. config \in [Config -> Configs]
    BY DEF TypeOK, Configs
  <2>3. CASE EnsureSeeds(j)
    BY <2>1, <2>2, <2>3 DEF EnsureSeeds
  <2>4. CASE ~EnsureSeeds(j)
    BY <2>2, <2>4 DEF EnsureSteps, EnsureReads, EnsureWrites, EnsureFails, bots
  <2>. QED
    BY <2>3, <2>4
<1>5. job' \in [Job -> JobRec]
  <2>1. CASE Return(j) \/ Goto(j, "seed")
    BY <2>1, ReturnTyped, GotoTyped DEF Steps
  <2>2. CASE EnsureReads(j)
    <3>1. [job[j] EXCEPT !.at = "write", !.saved = Stale(soul[b])] \in JobRec
      <4>1. Stale(soul[b]) \in BOOLEAN
        BY DEF Stale
      <4>. QED
        BY <1>1, <4>1 DEF JobRec, Steps
    <3>. QED
      BY <1>1, <2>2, <3>1 DEF EnsureReads
  <2>3. CASE EnsureSeeds(j) /\ job[j].bot # 4
    <3>1. job[j].bot + 1 \in 1..4
      BY <1>1, <2>3
    <3>2. [job[j] EXCEPT !.at = "read", !.bot = @ + 1] \in JobRec
      BY <1>1, <3>1, BotsAre DEF JobRec, Steps
    <3>. QED
      BY <1>1, <2>3, <3>2, BotsAre DEF EnsureSeeds
  <2>. QED
    BY <2>1, <2>2, <2>3, BotsAre DEF EnsureSteps, EnsureWrites, EnsureSeeds, EnsureFails
<1>. QED
  BY <1>2, <1>3, <1>4, <1>5 DEF TypeOK, JobRec, board, glances, Souls, Configs

LEMMA TypeStep == TypeOK /\ [Next]_vars => TypeOK'
<1>. SUFFICES ASSUME TypeOK, [Next]_vars PROVE TypeOK'
  OBVIOUS
<1>1. CASE Dispatcher
  <2>1. PICK c \in Card : TRUE
    BY <1>1 DEF Dispatcher
  <2>. QED
    BY <1>1, BoardTypes
<1>2. CASE \E c \in Card : CardTools(c)
  BY <1>2, BoardTypes
<1>3. CASE \E j \in Job : \/ Begin(j) \/ LandSteps(j) \/ GlanceSteps(j)
                          \/ ModelSteps(j) \/ EnsureSteps(j)
  BY <1>3, BeginTypes, LandTypes, GlanceTypes, ModelTypes, EnsureTypes
<1>4. CASE TurnStarts \/ TurnEnds \/ TellCall \/ \E b \in Bot : WriteSoul(b)
  <2>1. CASE TurnStarts \/ TurnEnds \/ TellCall
    BY <2>1 DEF TurnStarts, TurnEnds, TellCall, OfferSteer, TypeOK, board, bots, glances
  <2>2. CASE \E b \in Bot : WriteSoul(b)
    <3>1. soul \in [Bot -> Souls]
      BY DEF TypeOK, Souls
    <3>2. PICK b \in Bot, s \in Souls : soul' = [soul EXCEPT ![b] = s]
      BY <2>2 DEF WriteSoul, Souls
    <3>3. soul' \in [Bot -> Souls]
      BY <3>1, <3>2
    <3>. QED
      BY <2>2, <3>3 DEF WriteSoul, TypeOK, Souls, board, glances
  <2>. QED
    BY <1>4, <2>1, <2>2
<1>5. CASE UNCHANGED vars
  BY <1>5 DEF vars, board, glances, bots, TypeOK
<1>. QED
  BY <1>1, <1>2, <1>3, <1>4, <1>5 DEF Next

LEMMA InitTyped == Init => TypeOK
<1>. SUFFICES ASSUME Init PROVE TypeOK
  OBVIOUS
<1>1. job \in [Job -> JobRec]
  BY IdleIsJob DEF Init
<1>2. /\ soul \in [Bot -> {"missing", "stock", "old", "marked", "own", "current"}]
      /\ config \in [Config -> {"unset", "own", "grok", "unreadable", "seeded"}]
  <2>1. CASE "bots" \in scene.actors
    BY <2>1 DEF Init
  <2>2. CASE "bots" \notin scene.actors
    BY <2>2 DEF Init
  <2>. QED
    BY <2>1, <2>2
<1>. QED
  BY <1>1, <1>2 DEF Init, TypeOK, JobRec

(* Every variable of the desk keeps its type, whatever the scenes are. *)
THEOREM DeskTypeCorrect == Spec => []TypeOK
BY InitTyped, TypeStep, PTL DEF Spec

-----------------------------------------------------------------------------
(* What a job at a step is known to be *)

Landing == {"land", "specify", "specified", "unblock", "check", "set", "landed", "act", "park",
            "over"}
Filing == {"find", "create", "briefing"}
Partnering == {"enter", "tools", "after", "tell", "offer"}

Known(r) ==
  /\ r.at \in Filing => r.op = "file"
  /\ r.op = "file" => r.for \in Title /\ Actor("filers")
  /\ r.at \in Partnering => r.op = "partner"
  /\ r.op = "partner" => Actor("partner")
  /\ r.op = "cue" => Actor("cue")
  /\ r.seen # {} => r.op \in {"cue", "partner"}
  /\ r.at \in {"bishop", "model"} => r.op \in {"cue", "suggest"}
  /\ r.at \in Landing => r.op \in Tool /\ r.op \in scene.moves /\ r.card \in Card
  /\ r.at = "over" => r.op = "block"

JobsKnown == \A j \in Job : Known(job[j])
JobsInv == TypeOK /\ JobsKnown

(* Where a job goes on to is a step of its operation, or it ends. *)
Onward(r, label) ==
  /\ label \in Filing => r.op = "file"
  /\ label \in Partnering => r.op = "partner"
  /\ label \notin {"bishop", "model"}
  /\ label \in Landing => r.op \in Tool /\ r.op \in scene.moves /\ r.card \in Card
  /\ label = "over" => r.op = "block"

LEMMA GotoKnown ==
  ASSUME JobsInv, scene' = scene, NEW j \in Job, NEW label \in Steps, Goto(j, label),
         Onward(job[j], label)
  PROVE  JobsKnown'
<1>. DEFINE r == job[j]
<1>1. r \in JobRec /\ job \in [Job -> JobRec]
  BY DEF JobsInv, TypeOK, JobRec
<1>2. job'[j] = [r EXCEPT !.at = label] /\ \A k \in Job : k # j => job'[k] = job[k]
  BY <1>1 DEF Goto
<1>3. Known(r)
  BY DEF JobsInv, JobsKnown
<1>4. Known(job[j])'
  BY <1>1, <1>2, <1>3 DEF Known, Onward, JobRec, Actor
<1>5. \A k \in Job : k # j => Known(job[k])'
  BY <1>2 DEF JobsInv, JobsKnown, Known, Actor
<1>. QED
  BY <1>4, <1>5 DEF JobsKnown

LEMMA IdleIsKnown == Known(Idle)
BY DEF Known, Idle, Filing, Partnering, Landing

LEMMA ReturnKnown ==
  ASSUME JobsInv, scene' = scene, NEW j \in Job, Return(j) PROVE JobsKnown'
<1>1. job'[j] = Idle /\ \A k \in Job : k # j => job'[k] = job[k]
  BY DEF JobsInv, TypeOK, Return
<1>2. Known(Idle)' /\ \A k \in Job : Known(job[k])
  BY DEF JobsInv, JobsKnown, Known, Idle, Filing, Partnering, Landing
<1>3. \A k \in Job : k # j => Known(job[k])'
  BY <1>1, <1>2 DEF Known, Actor
<1>. QED
  BY <1>1, <1>2, <1>3 DEF JobsKnown

LEMMA StartKnown ==
  ASSUME JobsInv, scene' = scene, NEW j \in Job, NEW r, Known(r), Start(j, r)
  PROVE  JobsKnown'
<1>1. job'[j] = r /\ \A k \in Job : k # j => job'[k] = job[k]
  BY DEF JobsInv, TypeOK, Start
<1>2. Known(r)'
  BY DEF Known, Actor
<1>3. \A k \in Job : k # j => Known(job[k])'
  BY <1>1 DEF JobsInv, JobsKnown, Known, Actor
<1>. QED
  BY <1>1, <1>2, <1>3 DEF JobsKnown

(* A job begins at the first step of its operation. *)
Fresh(r) ==
  Known(r) /\ r.at \in FirstSteps \cup {"find", "vasquez", "bishop", "enter", "read"}

LEMMA BeginsFresh ==
  ASSUME JobsInv, NEW j \in Job, Begin(j)
  PROVE  scene' = scene /\ \E r : Fresh(r) /\ Start(j, r)
<1>1. scene' = scene
  BY DEF Begin, StartTool, ScheduleGlance, Cue, Suggest, Partner, EnsureBots
<1>2. \E r : Fresh(r) /\ Start(j, r)
  <2>1. CASE \E c \in Card, m \in scene.moves : StartTool(j, m, c)
    <3>1. PICK c \in Card, m \in scene.moves : StartTool(j, m, c)
      BY <2>1
    <3>2. PICK label \in FirstSteps : Start(j, [Idle EXCEPT !.op = m, !.card = c, !.at = label])
      BY <3>1, ToolStarts
    <3>3. Fresh([Idle EXCEPT !.op = m, !.card = c, !.at = label])
      BY <3>1, ToolStarts DEF Fresh, Known, Idle, Filing, Partnering, Landing, Tool, Moveable, Column,
         FirstSteps
    <3>. QED
      BY <3>2, <3>3
  <2>2. CASE ScheduleGlance(j)
    <3>1. CASE Start(j, [Idle EXCEPT !.op = "glance", !.at = "vasquez"])
      <4>1. Fresh([Idle EXCEPT !.op = "glance", !.at = "vasquez"])
        BY DEF Fresh, Known, Idle, Filing, Partnering, Landing
      <4>. QED
        BY <3>1, <4>1
    <3>2. ASSUME NEW f \in Title, Actor("filers"),
                 Start(j, [Idle EXCEPT !.op = "file", !.for = f, !.at = "find"])
          PROVE  \E r : Fresh(r) /\ Start(j, r)
      <4>1. Fresh([Idle EXCEPT !.op = "file", !.for = f, !.at = "find"])
        BY <3>2 DEF Fresh, Known, Idle, Filing, Partnering, Landing
      <4>. QED
        BY <3>2, <4>1
    <3>. QED
      BY <2>2, <3>1, <3>2 DEF ScheduleGlance
  <2>3. CASE Cue(j)
    <3>1. Fresh([Idle EXCEPT !.op = "cue", !.at = "bishop", !.seen = Glance])
      BY <2>3 DEF Cue, Fresh, Known, Idle, Filing, Partnering, Landing
    <3>. QED
      BY <2>3, <3>1 DEF Cue
  <2>4. CASE Suggest(j)
    <3>1. Fresh([Idle EXCEPT !.op = "suggest", !.at = "bishop"])
      BY DEF Fresh, Known, Idle, Filing, Partnering, Landing
    <3>. QED
      BY <2>4, <3>1 DEF Suggest
  <2>5. CASE Partner(j)
    <3>1. Fresh([Idle EXCEPT !.op = "partner", !.at = "enter"])
      BY <2>5 DEF Partner, Fresh, Known, Idle, Filing, Partnering, Landing
    <3>. QED
      BY <2>5, <3>1 DEF Partner
  <2>6. CASE EnsureBots(j)
    <3>1. Fresh([Idle EXCEPT !.op = "ensure", !.at = "read"])
      BY DEF Fresh, Known, Idle, Filing, Partnering, Landing
    <3>. QED
      BY <2>6, <3>1 DEF EnsureBots
  <2>. QED
    BY <2>1, <2>2, <2>3, <2>4, <2>5, <2>6 DEF Begin
<1>. QED
  BY <1>1, <1>2

LEMMA BeginKnown == ASSUME JobsInv, NEW j \in Job, Begin(j) PROVE JobsKnown' /\ scene' = scene
BY BeginsFresh, StartKnown DEF Fresh

(* The steps of a job that has begun: it goes on, ends, or stays. *)
Proceeds(j) ==
  \/ UNCHANGED job
  \/ Return(j)
  \/ \E label \in Steps : Goto(j, label) /\ Onward(job[j], label)
  \/ BishopStarts(j) \/ PartnerStarts(j) \/ SurfaceBlocked(j)

LEMMA StepsProceed ==
  ASSUME JobsInv, NEW j \in Job, LandSteps(j) \/ GlanceSteps(j) \/ ModelSteps(j)
  PROVE  Proceeds(j) /\ scene' = scene /\ UNCHANGED bots
<1>1. Known(job[j])
  BY DEF JobsInv, JobsKnown
<1>2. scene' = scene /\ UNCHANGED bots
  BY LooksAre, WritesAre DEF LandSteps,
         GlanceSteps, FindCard, FileCard, FilingFails, OfferBriefing, Vasquez, VasquezEnds,
         ModelSteps, BishopStarts, BishopAnswers, BishopFails, PartnerStarts, PartnerFiles,
         PartnerAnswers, SurfaceBlocked, OfferBlocked, PartnerSteers
<1>3. CASE LandSteps(j)
  <2>1. job[j].at \in Landing
    BY <1>3, LooksAre, WritesAre DEF LandSteps, Landing
  <2>2. job[j].op \in Tool /\ job[j].op \in scene.moves /\ job[j].card \in Card
    BY <1>1, <2>1 DEF Known
  <2>3. \A label \in Landing : label \in Steps /\ (label = "over" => job[j].op = "block")
                                => label \in Steps /\ Onward(job[j], label)
    BY <2>2 DEF Onward, Filing, Partnering, Landing
  <2>4. Landing \subseteq Steps
    BY DEF Landing, Steps
  <2>5. \/ Return(j)
        \/ \E label \in Landing : Goto(j, label) /\ (label = "over" => job[j].op = "block")
    BY <1>3, LooksAre, WritesAre DEF LandSteps, Landing
  <2>. QED
    BY <1>2, <2>3, <2>4, <2>5 DEF Proceeds
<1>4. CASE GlanceSteps(j)
  <2>1. \/ Goto(j, "vasquez") \/ Goto(j, "drawing") \/ Return(j)
        \/ (At(j, "find") /\ Goto(j, "create")) \/ (At(j, "create") /\ Goto(j, "briefing"))
    BY <1>4 DEF GlanceSteps, FindCard, FileCard, FilingFails, OfferBriefing, Vasquez, VasquezEnds
  <2>2. (At(j, "find") \/ At(j, "create")) => job[j].op = "file"
    BY <1>1 DEF Known, At, Filing
  <2>. QED
    BY <1>2, <2>1, <2>2 DEF Proceeds, Onward, Filing, Partnering, Landing, Steps
<1>5. CASE ModelSteps(j)
  <2>1. \/ UNCHANGED job \/ Return(j) \/ BishopStarts(j) \/ PartnerStarts(j) \/ SurfaceBlocked(j)
        \/ (At(j, "tools") /\ Goto(j, "after")) \/ (At(j, "tell") /\ Goto(j, "offer"))
    BY <1>5 DEF ModelSteps, BishopAnswers, BishopFails, PartnerFiles, PartnerAnswers,
                OfferBlocked, PartnerSteers
  <2>2. (At(j, "tools") \/ At(j, "tell")) => job[j].op = "partner"
    BY <1>1 DEF Known, At, Partnering
  <2>. QED
    BY <1>2, <2>1, <2>2 DEF Proceeds, Onward, Filing, Partnering, Landing, Steps
<1>. QED
  BY <1>3, <1>4, <1>5

LEMMA ProceedsKnown ==
  ASSUME JobsInv, scene' = scene, NEW j \in Job, Proceeds(j) PROVE JobsKnown'
<1>1. CASE UNCHANGED job
  BY <1>1 DEF JobsInv, JobsKnown, Known, Actor
<1>2. CASE Return(j)
  BY <1>2, ReturnKnown
<1>3. CASE \E label \in Steps : Goto(j, label) /\ Onward(job[j], label)
  BY <1>3, GotoKnown
<1>4. CASE BishopStarts(j) \/ PartnerStarts(j)
  <2>1. job[j] \in JobRec /\ job \in [Job -> JobRec]
    BY DEF JobsInv, TypeOK, JobRec
  <2>2. /\ \/ job[j].at = "bishop" /\ job'[j].at = "model"
           \/ job[j].at = "enter" /\ job'[j].at = "tools"
        /\ job'[j].op = job[j].op /\ job'[j].card = job[j].card /\ job'[j].for = job[j].for
        /\ job'[j].seen = job[j].seen
        /\ \A k \in Job : k # j => job'[k] = job[k]
    BY <1>4, <2>1 DEF BishopStarts, PartnerStarts, Override, At, JobRec
  <2>3. Known(job[j])
    BY DEF JobsInv, JobsKnown
  <2>4. Known(job[j])'
    BY <2>1, <2>2, <2>3 DEF Known, JobRec, Actor, Filing, Partnering, Landing
  <2>5. \A k \in Job : k # j => Known(job[k])'
    BY <2>2 DEF JobsInv, JobsKnown, Known, Actor
  <2>. QED
    BY <2>4, <2>5 DEF JobsKnown
<1>5. CASE SurfaceBlocked(j)
  <2>1. job[j] \in JobRec /\ job \in [Job -> JobRec]
    BY DEF JobsInv, TypeOK, JobRec
  <2>2. PICK label \in {"offer", "tell"} :
          /\ job'[j] = [job[j] EXCEPT !.seen = Glance, !.at = label]
          /\ job[j].at = "after"
          /\ \A k \in Job : k # j => job'[k] = job[k]
    BY <1>5, <2>1 DEF SurfaceBlocked, At
  <2>3. Known(job[j])
    BY DEF JobsInv, JobsKnown
  <2>4. Known(job[j])'
    BY <2>1, <2>2, <2>3 DEF Known, JobRec, Actor, Filing, Partnering, Landing
  <2>5. \A k \in Job : k # j => Known(job[k])'
    BY <2>2 DEF JobsInv, JobsKnown, Known, Actor
  <2>. QED
    BY <2>4, <2>5 DEF JobsKnown
<1>. QED
  BY <1>1, <1>2, <1>3, <1>4, <1>5 DEF Proceeds

LEMMA EnsureKnown ==
  ASSUME JobsInv, NEW j \in Job, EnsureSteps(j) PROVE JobsKnown' /\ scene' = scene
<1>1. scene' = scene
  BY DEF EnsureSteps, EnsureReads, EnsureWrites, EnsureSeeds, EnsureFails
<1>2. job[j] \in JobRec /\ job \in [Job -> JobRec]
  BY DEF JobsInv, TypeOK, JobRec
<1>3. CASE Return(j)
  BY <1>1, <1>3, ReturnKnown
<1>4. CASE ~Return(j)
  <2>1. /\ job'[j].at \in {"read", "write", "seed"}
        /\ job'[j].op = job[j].op /\ job'[j].card = job[j].card /\ job'[j].for = job[j].for
        /\ job'[j].seen = job[j].seen
        /\ \A k \in Job : k # j => job'[k] = job[k]
    BY <1>2, <1>4 DEF EnsureSteps, EnsureReads, EnsureWrites, EnsureSeeds, EnsureFails, Goto, JobRec
  <2>2. Known(job[j])
    BY DEF JobsInv, JobsKnown
  <2>3. Known(job[j])'
    BY <1>1, <2>1, <2>2 DEF Known, Actor, Filing, Partnering, Landing
  <2>4. \A k \in Job : k # j => Known(job[k])'
    BY <1>1, <2>1 DEF JobsInv, JobsKnown, Known, Actor
  <2>. QED
    BY <1>1, <2>3, <2>4 DEF JobsKnown
<1>. QED
  BY <1>3, <1>4

(* Everything else leaves the jobs alone. *)
Elsewhere ==
  \/ Dispatcher \/ (\E c \in Card : CardTools(c))
  \/ TurnStarts \/ TurnEnds \/ TellCall \/ (\E b \in Bot : WriteSoul(b))

LEMMA ElsewhereNoJob == Elsewhere => UNCHANGED <<scene, job>>
BY DEF Elsewhere, Dispatcher, CardTools, CreateTask, UnblockTask, LinkTasks, TurnStarts,
       TurnEnds, TellCall, WriteSoul

LEMMA NextIs ==
  [Next]_vars <=> \/ Elsewhere
                  \/ \E j \in Job : Begin(j)
                  \/ \E j \in Job : LandSteps(j) \/ GlanceSteps(j) \/ ModelSteps(j)
                  \/ \E j \in Job : EnsureSteps(j)
                  \/ UNCHANGED vars
BY DEF Next, Elsewhere

LEMMA JobsStep == JobsInv /\ [Next]_vars => JobsInv' /\ scene' = scene
<1>. SUFFICES ASSUME JobsInv, [Next]_vars PROVE JobsInv' /\ scene' = scene
  OBVIOUS
<1>1. TypeOK'
  BY TypeStep DEF JobsInv
<1>2. CASE Elsewhere \/ UNCHANGED vars
  BY <1>1, <1>2, ElsewhereNoJob DEF vars, JobsInv, JobsKnown, Known, Actor
<1>3. CASE \E j \in Job : Begin(j)
  BY <1>1, <1>3, BeginKnown DEF JobsInv
<1>4. CASE \E j \in Job : LandSteps(j) \/ GlanceSteps(j) \/ ModelSteps(j)
  BY <1>1, <1>4, StepsProceed, ProceedsKnown DEF JobsInv
<1>5. CASE \E j \in Job : EnsureSteps(j)
  BY <1>1, <1>5, EnsureKnown DEF JobsInv
<1>. QED
  BY <1>2, <1>3, <1>4, <1>5, NextIs

LEMMA JobsStart == Init => JobsInv
<1>1. Init => TypeOK
  BY InitTyped
<1>. QED
  BY <1>1, IdleIsKnown DEF Init, JobsInv, JobsKnown

LEMMA JobsAlways == Spec => []JobsInv
BY JobsStart, JobsStep, PTL DEF Spec

-----------------------------------------------------------------------------
(* The cards that wait for another *)

(* No card is linked while a tool has one in hand. *)
LinksApart == \A s \in Scenes : "link" \in s.actors => "link" \in s.serial

Met(c) == parent[c] = None \/ c \in met

(* Every way to ready goes by the parents: what is ready or running has met
   them, and so has a card that a tool is about to write to ready. *)
MetInv ==
  /\ \A c \in Card : ParentDone(st, c) => Met(c)
  /\ \A c \in Card : st[c] \in {"ready", "running"} => Met(c)
  /\ \A j \in Job : At(j, "set") /\ Target(j) = "ready" => Met(job[j].card)

(* What a step does to the board: nothing, one transaction, or a link. *)
Written(c, s) ==
  /\ UNCHANGED parent
  /\ s \in {"ready", "running"} => Met(c)
  /\ Put(c, s) \/ PutAndRecompute(c, s)

Linked(p, c) ==
  /\ \A j \in Job : job[j].op \notin Tool
  /\ UNCHANGED <<st, job>>
  /\ st[c] \in {"triage", "todo"} /\ parent[c] = None
  /\ parent' = [parent EXCEPT ![c] = p]
  /\ met' = IF st[p] = "done" THEN met \cup {c} ELSE met

BoardStep ==
  \/ UNCHANGED <<st, parent, met>>
  \/ \E c \in Card, s \in Column : Written(c, s)
  \/ \E p, c \in Card : p # c /\ Linked(p, c)

LEMMA StepsOnBoard ==
  ASSUME JobsInv, MetInv, LinksApart, [Next]_vars PROVE BoardStep
<1>1. scene \in Scenes /\ JobsKnown
  BY DEF JobsInv, TypeOK
<1>2. CASE Dispatcher
  <2>1. PICK c \in Card :
         \/ Orchestrate(c) \/ Claim(c)
         \/ \E s \in {"done", "review"} : WorkerEnds(c, s)
         \/ \E e \in Err : Park(c, e)
    BY <1>2 DEF Dispatcher
  <2>2. UNCHANGED parent
    BY <1>2 DEF Dispatcher
  <2>3. \E s \in Column : Written(c, s)
    BY <2>1, <2>2 DEF Orchestrate, Claim, WorkerEnds, Park, Queue, Written, Column, MetInv
  <2>. QED
    BY <2>3 DEF BoardStep
<1>3. ASSUME NEW c \in Card, CardTools(c) PROVE BoardStep
  <2>1. CASE CreateTask(c) \/ UnblockTask(c)
    <3>1. Written(c, "triage") \/ Written(c, "todo")
      BY <2>1 DEF CreateTask, UnblockTask, NewCard, Queue, Written
    <3>. QED
      BY <3>1 DEF BoardStep, Column
  <2>2. ASSUME NEW p \in Card, LinkTasks(p, c) PROVE BoardStep
    <3>1. "link" \in scene.serial
      BY <1>1, <2>2 DEF LinkTasks, LinksApart, Actor
    <3>2. p # c /\ Linked(p, c)
      BY <2>2, <3>1 DEF LinkTasks, Linked
    <3>. QED
      BY <3>2 DEF BoardStep
  <2>. QED
    BY <1>3, <2>1, <2>2 DEF CardTools
<1>4. CASE TurnStarts \/ TurnEnds \/ TellCall \/ (\E b \in Bot : WriteSoul(b)) \/ UNCHANGED vars
  BY <1>4 DEF TurnStarts, TurnEnds, TellCall, WriteSoul, vars, board, BoardStep
<1>5. ASSUME NEW j \in Job, Begin(j) PROVE BoardStep
  BY <1>5 DEF Begin, StartTool, ScheduleGlance, Cue, Suggest, Partner, EnsureBots, board, BoardStep
<1>6. ASSUME NEW j \in Job, LandSteps(j) PROVE BoardStep
  <2>. DEFINE c == job[j].card
  <2>1. c \in Card
    BY <1>1, <1>6, LooksAre, WritesAre DEF LandSteps, JobsKnown, Known, Landing
  <2>2. CASE Looks(j)
    BY <2>2, LooksAre DEF board, BoardStep
  <2>3. CASE Writes(j) /\ ~SetStatusWrites(j)
    <3>1. \/ UNCHANGED <<st, met>>
          \/ \E s \in Column \ {"ready", "running"} : Put(c, s) \/ PutAndRecompute(c, s)
      BY <2>3 DEF Writes, Specify, MoveUnblocks, CompleteLanded, BlockParks, Park, BlockOverwrites,
         Queue, SetStatus, Column
    <3>2. UNCHANGED parent
      BY <2>3, WritesAre
    <3>. QED
      BY <2>1, <3>1, <3>2 DEF BoardStep, Written
  <2>4. CASE SetStatusWrites(j)
    <3>1. Written(c, Target(j)) /\ Target(j) \in Column
      BY <2>4 DEF SetStatusWrites, SetStatus, Written, Target, Column, MetInv
    <3>. QED
      BY <2>1, <3>1 DEF BoardStep
  <2>. QED
    BY <1>6, <2>2, <2>3, <2>4 DEF LandSteps
<1>7. ASSUME NEW j \in Job, GlanceSteps(j) \/ ModelSteps(j) \/ EnsureSteps(j) PROVE BoardStep
  <2>1. CASE FileCard(j) \/ PartnerFiles(j)
    <3>1. PICK c \in Card : \E f : NewCard(c, f, TRUE)
      BY <2>1 DEF FileCard, PartnerFiles
    <3>2. Written(c, "triage")
      BY <3>1 DEF NewCard, Written
    <3>. QED
      BY <3>2 DEF BoardStep, Column
  <2>2. CASE ~(FileCard(j) \/ PartnerFiles(j))
    BY <1>7, <2>2 DEF GlanceSteps, FindCard, FilingFails, OfferBriefing, Vasquez, VasquezEnds,
       ModelSteps, BishopStarts, BishopAnswers, BishopFails, PartnerStarts, PartnerAnswers,
       SurfaceBlocked, OfferBlocked, PartnerSteers, EnsureSteps, EnsureReads, EnsureWrites,
       EnsureSeeds, EnsureFails, board, BoardStep
  <2>. QED
    BY <2>1, <2>2
<1>. QED
  BY <1>2, <1>3, <1>4, <1>5, <1>6, <1>7, NextIs DEF Elsewhere

LEMMA WriteMet ==
  ASSUME TypeOK, MetInv, NEW c \in Card, NEW s \in Column, Written(c, s)
  PROVE  /\ \A d \in Card : Met(d) => Met(d)'
         /\ \A d \in Card : ParentDone(st, d)' => Met(d)'
         /\ \A d \in Card : st'[d] \in {"ready", "running"} => Met(d)'
<1>. DEFINE m == [st EXCEPT ![c] = s]
<1>1. /\ st \in [Card -> Column \cup {"none"}]
      /\ \A d \in Card : m[d] = IF d = c THEN s ELSE st[d]
  BY DEF TypeOK
<1>2. parent' = parent /\ \A d \in Card : Met(d) => Met(d)'
  BY DEF Written, Put, PutAndRecompute, Write, MetIn, Met
<1>3. met' = MetIn(st')
  BY DEF Written, Put, PutAndRecompute, Write
<1>4. \A d \in Card : ParentDone(st, d)' => Met(d)'
  BY <1>2, <1>3 DEF MetIn, Met, ParentDone
<1>5. \A d \in Card : m[d] \in {"ready", "running"} => Met(d)
  BY <1>1 DEF MetInv, Written
<1>6. ASSUME st' = m PROVE \A d \in Card : st'[d] \in {"ready", "running"} => Met(d)'
  <2>. HIDE DEF m
  <2>. QED
    BY <1>2, <1>5, <1>6
<1>7. CASE st' = Recomputed(m)
  <2>1. \A d \in Card : st'[d] = IF m[d] = "todo" /\ ParentDone(m, d) THEN "ready" ELSE m[d]
    BY <1>1, <1>7 DEF Recomputed
  <2>. HIDE DEF m
  <2>2. \A d \in Card : ParentDone(m, d) => ParentDone(st, d)'
    BY <1>2, <2>1 DEF ParentDone
  <2>. QED
    BY <1>2, <1>4, <1>5, <2>1, <2>2
<1>. QED
  BY <1>2, <1>4, <1>6, <1>7 DEF Written, Put, PutAndRecompute, Write

(* A job is about to write to ready since it looked at the parents. *)
LEMMA SetFrom ==
  ASSUME JobsInv, [Next]_vars, NEW k \in Job, At(k, "set")', Target(k)' = "ready"
  PROVE  job'[k] = job[k] \/ (SetStatusChecks(k) /\ ParentDone(st, job[k].card)
                               /\ job'[k].card = job[k].card)
<1>. SUFFICES ASSUME job'[k] # job[k]
              PROVE  SetStatusChecks(k) /\ ParentDone(st, job[k].card)
                     /\ job'[k].card = job[k].card
  OBVIOUS
<1>1. job \in [Job -> JobRec] /\ job'[k].at = "set" /\ job'[k].op \notin {"triage", "todo", "review"}
  BY DEF JobsInv, TypeOK, JobRec, At, Target
<1>2. ~(Elsewhere \/ UNCHANGED vars)
  BY ElsewhereNoJob DEF vars
<1>3. ASSUME NEW j \in Job, Begin(j) PROVE FALSE
  <2>1. CASE \E c \in Card, m \in scene.moves : StartTool(j, m, c)
    <3>1. PICK c \in Card, m \in scene.moves : StartTool(j, m, c)
      BY <2>1
    <3>2. PICK label \in FirstSteps :
            /\ Start(j, [Idle EXCEPT !.op = m, !.card = c, !.at = label])
            /\ label = "set" => m \in {"triage", "todo", "review"}
      BY <3>1, ToolStarts
    <3>. QED
      BY <1>1, <3>2 DEF Start, Idle
  <2>2. CASE ScheduleGlance(j) \/ Cue(j) \/ Suggest(j) \/ Partner(j) \/ EnsureBots(j)
    BY <1>1, <2>2, OthersStart DEF Start
  <2>. QED
    BY <1>3, <2>1, <2>2 DEF Begin
<1>4. ASSUME NEW j \in Job, Writes(j) PROVE FALSE
  <2>1. Return(j) \/ \E label \in {"over", "specified", "landed"} : Goto(j, label)
    BY <1>4, WritesAre
  <2>. QED
    BY <1>1, <2>1 DEF Return, Goto, Idle, JobRec
<1>5. ASSUME NEW j \in Job, Looks(j)
      PROVE  SetStatusChecks(k) /\ ParentDone(st, job[k].card) /\ job'[k].card = job[k].card
  <2>1. CASE SetStatusChecks(j)
    <3>1. Goto(j, "set") \/ Goto(j, "over") \/ Return(j)
      BY <2>1 DEF SetStatusChecks, Refused
    <3>2. j = k /\ ~Goto(k, "over") /\ ~Return(k)
      BY <1>1, <3>1 DEF Goto, Return, Idle, JobRec
    <3>3. ParentDone(st, job[k].card) /\ Goto(k, "set")
      BY <2>1, <3>2 DEF SetStatusChecks, Refused
    <3>. QED
      BY <1>1, <2>1, <3>2, <3>3 DEF Goto, JobRec
  <2>2. CASE ~SetStatusChecks(j)
    <3>1. Return(j) \/ \E label \in {"over", "check", "specify", "act", "park"} : Goto(j, label)
      BY <1>5, <2>2 DEF Looks, Land, LandSpecified, LandChecks, BlockLooks, Refused
    <3>. QED
      BY <1>1, <3>1 DEF Return, Goto, Idle, JobRec
  <2>. QED
    BY <2>1, <2>2
<1>6. ASSUME NEW j \in Job, GlanceSteps(j) PROVE FALSE
  <2>1. Return(j) \/ \E label \in {"create", "vasquez", "briefing", "drawing"} : Goto(j, label)
    BY <1>6 DEF GlanceSteps, FindCard, FileCard, FilingFails, OfferBriefing, Vasquez, VasquezEnds
  <2>. QED
    BY <1>1, <2>1 DEF Return, Goto, Idle, JobRec
<1>7. ASSUME NEW j \in Job, ModelSteps(j) PROVE FALSE
  <2>1. \/ UNCHANGED job \/ Return(j) \/ \E label \in {"after", "offer"} : Goto(j, label)
        \/ BishopStarts(j) \/ PartnerStarts(j) \/ SurfaceBlocked(j)
    BY <1>7 DEF ModelSteps, BishopAnswers, BishopFails, PartnerFiles, PartnerAnswers,
                OfferBlocked, PartnerSteers
  <2>. QED
    BY <1>1, <2>1 DEF Return, Goto, Idle, JobRec, BishopStarts, PartnerStarts, SurfaceBlocked, Override
<1>8. ASSUME NEW j \in Job, EnsureSteps(j) PROVE FALSE
  BY <1>1, <1>8 DEF EnsureSteps, EnsureReads, EnsureWrites, EnsureSeeds, EnsureFails, Return, Goto,
     Idle, JobRec
<1>. QED
  BY <1>2, <1>3, <1>4, <1>5, <1>6, <1>7, <1>8, NextIs DEF LandSteps

LEMMA MetStep == ASSUME JobsInv, MetInv, LinksApart, [Next]_vars PROVE MetInv'
<1>1. /\ JobsInv' /\ TypeOK /\ JobsKnown /\ job \in [Job -> JobRec]
      /\ parent \in [Card -> Card \cup {None}]
  BY JobsStep DEF JobsInv, TypeOK, JobRec
<1>2. \A j \in Job : At(j, "set") => job[j].card \in Card /\ job[j].op \in Tool
  BY <1>1 DEF JobsKnown, Known, At, Landing
<1>3. CASE UNCHANGED <<st, parent, met>> \/ \E c \in Card, s \in Column : Written(c, s)
  <2>1. /\ \A d \in Card : Met(d) => Met(d)'
        /\ \A d \in Card : ParentDone(st, d)' => Met(d)'
        /\ \A d \in Card : st'[d] \in {"ready", "running"} => Met(d)'
    <3>1. CASE UNCHANGED <<st, parent, met>>
      BY <3>1 DEF MetInv, Met, ParentDone
    <3>. QED
      BY <1>1, <1>3, <3>1, WriteMet
  <2>2. ASSUME NEW k \in Job, At(k, "set")', Target(k)' = "ready" PROVE Met(job[k].card)'
    <3>1. CASE job'[k] = job[k]
      <4>1. At(k, "set") /\ Target(k) = "ready"
        BY <2>2, <3>1 DEF At, Target
      <4>2. Met(job[k].card)
        BY <4>1 DEF MetInv
      <4>. QED
        BY <1>2, <2>1, <3>1, <4>1, <4>2 DEF Met
    <3>2. CASE SetStatusChecks(k) /\ ParentDone(st, job[k].card) /\ job'[k].card = job[k].card
      <4>1. job[k].card \in Card
        BY <1>1, <3>2 DEF SetStatusChecks, JobsKnown, Known, At, Landing
      <4>2. Met(job[k].card)
        BY <3>2, <4>1 DEF MetInv
      <4>. QED
        BY <2>1, <3>2, <4>1, <4>2 DEF Met
    <3>. QED
      BY <2>2, <3>1, <3>2, SetFrom
  <2>. QED
    BY <2>1, <2>2 DEF MetInv
<1>4. ASSUME NEW p \in Card, NEW c \in Card, p # c, Linked(p, c) PROVE MetInv'
  <2>1. \A d \in Card : parent'[d] = IF d = c THEN p ELSE parent[d]
    BY <1>1, <1>4 DEF Linked
  <2>2. st' = st /\ job' = job /\ met \subseteq met' /\ (st[p] = "done" => c \in met')
    BY <1>4 DEF Linked
  <2>3. \A d \in Card : d # c => (Met(d) => Met(d)')
    BY <2>1, <2>2 DEF Met
  <2>4. p # None
    BY NoneAssumption
  <2>5. \A d \in Card : ParentDone(st, d)' => Met(d)'
    BY <2>1, <2>2, <2>3, <2>4 DEF ParentDone, Met, MetInv
  <2>6. \A d \in Card : st'[d] \in {"ready", "running"} => Met(d)'
    BY <1>4, <2>2, <2>3 DEF MetInv, Linked
  <2>7. \A j \in Job : ~At(j, "set")'
    BY <1>2, <1>4, <2>2 DEF Linked, At
  <2>. QED
    BY <2>5, <2>6, <2>7 DEF MetInv
<1>. QED
  BY <1>3, <1>4, StepsOnBoard DEF BoardStep

(* A worker runs a card only when the one it waits for has been done since the
   link, in whatever order the tools, their late writes and the dispatcher
   move and reopen both, as long as no link comes while a tool has a card in
   hand. *)
THEOREM ParentsGoFirst == LinksApart => (Spec => []ParentsFirst)
<1>. SUFFICES ASSUME LinksApart PROVE Spec => []ParentsFirst
  OBVIOUS
<1>1. Init => MetInv
  BY DEF Init, MetInv, Met, At, Idle
<1>2. JobsInv /\ MetInv /\ [Next]_vars => MetInv'
  BY MetStep
<1>3. MetInv => ParentsFirst
  BY DEF MetInv, Met, ParentsFirst
<1>. QED
  BY <1>1, <1>2, <1>3, JobsAlways, PTL DEF Spec

-----------------------------------------------------------------------------
(* The board, where nothing reopens a done card *)

Reopening == {"triage", "todo", "ready", "review", "block"}
InOrder(s) == s.moves \cap Reopening = {} /\ "link" \notin s.actors

(* Without links no card has a parent, none is seen in todo, and no tool has
   a column to write that it read. *)
Settled ==
  InOrder(scene) =>
    /\ \A c \in Card : parent[c] = None
    /\ \A c \in Card : st[c] # "todo"
    /\ \A j \in Job : job[j].at \notin {"unblock", "check", "set", "over"}

BoardInv == JobsInv /\ Settled

(* One transaction on a card that is not done. *)
Forward(c, s) ==
  /\ st[c] # "done" /\ (st[c] = "none" => s = "triage")
  /\ \/ Put(c, s) /\ s \notin {"todo", "done"}
     \/ PutAndRecompute(c, s)

LEMMA WriteGrows ==
  ASSUME TypeOK, NEW c \in Card, NEW s \in Column, Forward(c, s)
  PROVE  \A d \in Card : st'[d] \in Open => st[d] \in Open \/ (d = c /\ st[c] = "none")
<1>. DEFINE m == [st EXCEPT ![c] = s]
<1>1. st \in [Card -> Column \cup {"none"}] /\ st[c] # "done"
  BY DEF TypeOK, Forward
<1>2. ASSUME NEW d \in Card PROVE m[d] = IF d = c THEN s ELSE st[d]
  BY <1>1
<1>3. ASSUME NEW d \in Card PROVE \/ st'[d] = m[d]
                                  \/ m[d] = "todo" /\ st'[d] = "ready"
  BY <1>1 DEF Forward, Put, PutAndRecompute, Write, Recomputed
<1>. HIDE DEF m
<1>5. ASSUME NEW d \in Card, st'[d] \in Open PROVE st[d] \in Open \/ (d = c /\ st[c] = "none")
  <2>1. CASE d = c
    BY <1>1, <2>1 DEF Open
  <2>2. CASE d # c
    BY <1>2, <1>3, <1>5, <2>2 DEF Open, Column
  <2>. QED
    BY <2>1, <2>2
<1>. QED
  BY <1>5

LEMMA WriteSettles ==
  ASSUME TypeOK, NEW c \in Card, NEW s \in Column, Forward(c, s),
         \A d \in Card : parent[d] = None, \A d \in Card : st[d] # "todo"
  PROVE  \A d \in Card : st'[d] # "todo"
<1>. DEFINE m == [st EXCEPT ![c] = s]
<1>1. /\ st \in [Card -> Column \cup {"none"}]
      /\ \A d \in Card : m[d] = IF d = c THEN s ELSE st[d]
  BY DEF TypeOK
<1>2. \A d \in Card : \/ st'[d] = m[d] /\ (d = c => s # "todo")
                      \/ st'[d] = IF m[d] = "todo" THEN "ready" ELSE m[d]
  BY <1>1 DEF Forward, Put, PutAndRecompute, Write, Recomputed, ParentDone
<1>. HIDE DEF m
<1>. QED
  BY <1>1, <1>2

LEMMA StepsForward ==
  ASSUME BoardInv, [Next]_vars, InOrder(scene)
  PROVE  /\ UNCHANGED parent
         /\ UNCHANGED st \/ \E c \in Card, s \in Column : Forward(c, s)
<1>. USE DEF BoardInv
<1>1. /\ scene \in Scenes /\ JobsKnown /\ ~Actor("link")
      /\ scene.moves \subseteq {"complete", "unblock", "done", "blocked"}
  BY ScenesAssumption DEF JobsInv, TypeOK, InOrder, Reopening, Actor, Tool, Moveable, Column
<1>2. CASE Dispatcher
  <2>1. PICK c \in Card :
         \/ Orchestrate(c) \/ Claim(c)
         \/ \E s \in {"done", "review"} : WorkerEnds(c, s)
         \/ \E e \in Err : Park(c, e)
    BY <1>2 DEF Dispatcher
  <2>2. \E s \in Column : Forward(c, s)
    BY <2>1 DEF Orchestrate, Claim, WorkerEnds, Park, Queue, Forward, Column
  <2>. QED
    BY <1>2, <2>2 DEF Dispatcher
<1>3. ASSUME NEW c \in Card, CardTools(c)
      PROVE  UNCHANGED parent /\ \E s \in Column : Forward(c, s)
  <2>1. ~\E p \in Card : LinkTasks(p, c)
    BY <1>1 DEF LinkTasks
  <2>2. Forward(c, "triage") \/ Forward(c, "todo")
    BY <1>3, <2>1 DEF CardTools, CreateTask, UnblockTask, NewCard, Queue, Forward
  <2>. QED
    BY <1>3, <2>1, <2>2 DEF CardTools, CreateTask, UnblockTask, NewCard, Column
<1>4. CASE TurnStarts \/ TurnEnds \/ TellCall \/ (\E b \in Bot : WriteSoul(b)) \/ UNCHANGED vars
  BY <1>4 DEF TurnStarts, TurnEnds, TellCall, WriteSoul, vars, board
<1>5. CASE \E j \in Job : Begin(j)
  BY <1>5 DEF Begin, StartTool, ScheduleGlance, Cue, Suggest, Partner, EnsureBots, board
<1>6. ASSUME NEW j \in Job, LandSteps(j)
      PROVE  /\ UNCHANGED parent
             /\ UNCHANGED st \/ \E c \in Card, s \in Column : Forward(c, s)
  <2>. DEFINE c == job[j].card
  <2>1. c \in Card /\ UNCHANGED parent
    BY <1>1, <1>6, LooksAre, WritesAre DEF LandSteps, JobsKnown, Known, Landing, board
  <2>2. CASE Looks(j)
    BY <2>1, <2>2, LooksAre DEF board
  <2>3. CASE Writes(j)
    <3>1. ~MoveUnblocks(j) /\ ~SetStatusWrites(j) /\ ~BlockOverwrites(j)
      BY DEF Settled, MoveUnblocks, SetStatusWrites, BlockOverwrites, At
    <3>2. UNCHANGED st \/ Forward(c, "todo") \/ Forward(c, "done") \/ Forward(c, "blocked")
      BY <2>3, <3>1 DEF Writes, Specify, CompleteLanded, BlockParks, Park, Queue, Forward, Landed
    <3>. QED
      BY <2>1, <3>2 DEF Column
  <2>. QED
    BY <1>6, <2>2, <2>3 DEF LandSteps
<1>7. ASSUME NEW j \in Job, GlanceSteps(j) \/ ModelSteps(j) \/ EnsureSteps(j)
      PROVE  /\ UNCHANGED parent
             /\ UNCHANGED st \/ \E c \in Card, s \in Column : Forward(c, s)
  <2>1. CASE FileCard(j) \/ PartnerFiles(j)
    <3>1. PICK c \in Card : \E f : NewCard(c, f, TRUE)
      BY <2>1 DEF FileCard, PartnerFiles
    <3>2. Forward(c, "triage")
      BY <3>1 DEF NewCard, Forward
    <3>. QED
      BY <3>1, <3>2 DEF NewCard, Column
  <2>2. CASE ~(FileCard(j) \/ PartnerFiles(j))
    BY <1>7, <2>2 DEF GlanceSteps, FindCard, FilingFails, OfferBriefing, Vasquez, VasquezEnds,
       ModelSteps, BishopStarts, BishopAnswers, BishopFails, PartnerStarts, PartnerAnswers,
       SurfaceBlocked, OfferBlocked, PartnerSteers, EnsureSteps, EnsureReads, EnsureWrites,
       EnsureSeeds, EnsureFails, board
  <2>. QED
    BY <2>1, <2>2
<1>. QED
  BY <1>2, <1>3, <1>4, <1>5, <1>6, <1>7, NextIs DEF Elsewhere

LEMMA NothingLate ==
  ASSUME BoardInv, [Next]_vars, InOrder(scene)
  PROVE  \A k \in Job : job'[k].at \notin {"unblock", "check", "set", "over"}
<1>. SUFFICES ASSUME NEW k \in Job PROVE job'[k].at \notin {"unblock", "check", "set", "over"}
  OBVIOUS
<1>1. /\ job \in [Job -> JobRec] /\ JobsKnown
      /\ job[k].at \notin {"unblock", "check", "set", "over"}
      /\ \A c \in Card : st[c] # "todo"
  BY DEF BoardInv, JobsInv, TypeOK, JobRec, Settled
<1>2. CASE Elsewhere \/ UNCHANGED vars
  BY <1>1, <1>2, ElsewhereNoJob DEF vars
<1>3. ASSUME NEW j \in Job, Begin(j) PROVE job'[k].at \notin {"unblock", "check", "set", "over"}
  <2>1. CASE \E c \in Card, m \in scene.moves : StartTool(j, m, c)
    <3>1. PICK c \in Card, m \in scene.moves : StartTool(j, m, c)
      BY <2>1
    <3>2. PICK label \in FirstSteps :
            /\ Start(j, [Idle EXCEPT !.op = m, !.card = c, !.at = label])
            /\ label \in {"set", "check", "unblock"} => m \in Column \ {"done", "blocked"}
            /\ m \in Tool
      BY <3>1, ToolStarts
    <3>3. label \notin {"unblock", "check", "set", "over"}
      BY <3>1, <3>2 DEF InOrder, Reopening, FirstSteps, Tool, Moveable, Column
    <3>. QED
      BY <1>1, <3>2, <3>3 DEF Start, Idle
  <2>2. CASE ScheduleGlance(j) \/ Cue(j) \/ Suggest(j) \/ Partner(j) \/ EnsureBots(j)
    BY <1>1, <2>2, OthersStart DEF Start
  <2>. QED
    BY <1>3, <2>1, <2>2 DEF Begin
<1>4. ASSUME NEW j \in Job, LandSteps(j) PROVE job'[k].at \notin {"unblock", "check", "set", "over"}
  <2>1. job[j].card \in Card /\ job[j].op \in scene.moves /\ ~At(j, "check")
    BY <1>1, <1>4, LooksAre, WritesAre DEF LandSteps, JobsKnown, Known, Landing, BoardInv, Settled, At
  <2>2. job[j].op # "block"
    BY <2>1 DEF InOrder, Reopening
  <2>3. \/ Return(j)
        \/ \E label \in {"specify", "specified", "act", "park", "landed"} : Goto(j, label)
    BY <1>1, <1>4, <2>1, <2>2, LooksAre, WritesAre DEF LandSteps
  <2>. QED
    BY <1>1, <2>3 DEF Return, Goto, Idle, JobRec
<1>5. ASSUME NEW j \in Job, GlanceSteps(j) PROVE job'[k].at \notin {"unblock", "check", "set", "over"}
  <2>1. Return(j) \/ \E label \in {"create", "vasquez", "briefing", "drawing"} : Goto(j, label)
    BY <1>5 DEF GlanceSteps, FindCard, FileCard, FilingFails, OfferBriefing, Vasquez, VasquezEnds
  <2>. QED
    BY <1>1, <2>1 DEF Return, Goto, Idle, JobRec
<1>6. ASSUME NEW j \in Job, ModelSteps(j) PROVE job'[k].at \notin {"unblock", "check", "set", "over"}
  <2>1. \/ UNCHANGED job \/ Return(j) \/ \E label \in {"after", "offer"} : Goto(j, label)
        \/ BishopStarts(j) \/ PartnerStarts(j) \/ SurfaceBlocked(j)
    BY <1>6 DEF ModelSteps, BishopAnswers, BishopFails, PartnerFiles, PartnerAnswers,
                OfferBlocked, PartnerSteers
  <2>2. CASE UNCHANGED job \/ Return(j) \/ \E label \in {"after", "offer"} : Goto(j, label)
    BY <1>1, <2>2 DEF Return, Goto, Idle, JobRec
  <2>3. CASE BishopStarts(j) \/ PartnerStarts(j) \/ SurfaceBlocked(j)
    <3>1. \/ job'[k].at \in {"model", "tools", "offer", "tell"}
          \/ job'[k] = job[k]
      BY <1>1, <2>3 DEF BishopStarts, PartnerStarts, SurfaceBlocked, Override, JobRec
    <3>. QED
      BY <1>1, <3>1
  <2>. QED
    BY <2>1, <2>2, <2>3
<1>7. ASSUME NEW j \in Job, EnsureSteps(j) PROVE job'[k].at \notin {"unblock", "check", "set", "over"}
  BY <1>1, <1>7 DEF EnsureSteps, EnsureReads, EnsureWrites, EnsureSeeds, EnsureFails, Return, Goto,
     Idle, JobRec
<1>. QED
  BY <1>2, <1>3, <1>4, <1>5, <1>6, <1>7, NextIs

LEMMA BoardInvStep == BoardInv /\ [Next]_vars => BoardInv'
<1>. SUFFICES ASSUME BoardInv, [Next]_vars PROVE BoardInv'
  OBVIOUS
<1>1. JobsInv' /\ scene' = scene /\ TypeOK
  BY JobsStep DEF BoardInv, JobsInv
<1>2. CASE ~InOrder(scene)
  BY <1>1, <1>2 DEF BoardInv, Settled
<1>3. CASE InOrder(scene)
  <2>1. (\A c \in Card : parent[c] = None) /\ (\A c \in Card : st[c] # "todo")
    BY <1>3 DEF BoardInv, Settled
  <2>2. UNCHANGED parent /\ \A c \in Card : st'[c] # "todo"
    BY <1>1, <1>3, <2>1, StepsForward, WriteSettles
  <2>. QED
    BY <1>1, <1>3, <2>1, <2>2, NothingLate DEF BoardInv, Settled
<1>. QED
  BY <1>2, <1>3

LEMMA BoardStart == Init => BoardInv
BY JobsStart DEF Init, BoardInv, Settled, Idle

LEMMA BoardAlways == Spec => []BoardInv
BY BoardStart, BoardInvStep, PTL DEF Spec

-----------------------------------------------------------------------------
(* The cards that Hicks files *)

(* Threads that file come one after the other; nothing reopens a card, and none
   waits for another. *)
FiledInTurn ==
  \A s \in Scenes : "filers" \in s.actors => "file" \in s.serial /\ InOrder(s)

Files(j) == job[j].op = "file"

(* One thread files; while it is about to, no card is open for its title. *)
FiledInv ==
  /\ \A c \in Card : title[c] # None => Actor("filers")
  /\ \A c \in Card : st[c] = "none" => title[c] = None
  /\ \A j, k \in Job : Files(j) /\ Files(k) => j = k
  /\ \A j \in Job : At(j, "create") => FindOpen(job[j].for) = {}
  /\ OneOpenCard

LEMMA FilersAlone ==
  ASSUME BoardInv, FiledInTurn, [Next]_vars, \A j, k \in Job : Files(j) /\ Files(k) => j = k
  PROVE  \A j, k \in Job : Files(j)' /\ Files(k)' => j = k
<1>1. job \in [Job -> JobRec] /\ scene \in Scenes /\ JobsKnown
  BY DEF BoardInv, JobsInv, TypeOK, JobRec
<1>2. CASE \A k \in Job : job'[k].op \in {job[k].op, "none"}
  BY <1>2 DEF Files
<1>3. CASE Elsewhere \/ UNCHANGED vars
  BY <1>2, <1>3, ElsewhereNoJob DEF vars
<1>4. ASSUME NEW j \in Job, Begin(j) PROVE \A i, k \in Job : Files(i)' /\ Files(k)' => i = k
  <2>1. PICK r : Known(r) /\ Start(j, r)
    BY <1>4, BeginsFresh DEF Fresh, BoardInv
  <2>2. job'[j] = r /\ \A k \in Job : k # j => job'[k] = job[k]
    BY <1>1, <2>1 DEF Start
  <2>3. CASE r.op = "file"
    <3>1. "file" \in scene.serial
      BY <1>1, <2>1, <2>3 DEF Known, Actor, FiledInTurn
    <3>2. \A k \in Job : ~Files(k)
      BY <2>1, <2>3, <3>1 DEF Start, Files
    <3>. QED
      BY <2>2, <3>2 DEF Files
  <2>4. CASE r.op # "file"
    BY <2>2, <2>4 DEF Files
  <2>. QED
    BY <2>3, <2>4
<1>5. CASE \E j \in Job : LandSteps(j) \/ GlanceSteps(j) \/ ModelSteps(j)
  <2>1. PICK j \in Job : Proceeds(j)
    BY <1>5, StepsProceed DEF BoardInv
  <2>2. CASE Return(j)
    BY <1>1, <1>2, <2>2 DEF Return, Idle
  <2>3. CASE \E label \in Steps : Goto(j, label)
    BY <1>1, <1>2, <2>3 DEF Goto, JobRec
  <2>4. CASE BishopStarts(j) \/ PartnerStarts(j) \/ SurfaceBlocked(j)
    BY <1>1, <1>2, <2>4 DEF BishopStarts, PartnerStarts, SurfaceBlocked, Override, JobRec
  <2>. QED
    BY <1>2, <2>1, <2>2, <2>3, <2>4 DEF Proceeds
<1>6. CASE \E j \in Job : EnsureSteps(j)
  <2>1. PICK j \in Job : EnsureSteps(j)
    BY <1>6
  <2>2. CASE Return(j)
    BY <1>1, <1>2, <2>2 DEF Return, Idle
  <2>3. CASE EnsureReads(j)
    BY <1>1, <1>2, <2>3 DEF EnsureReads, JobRec
  <2>4. CASE (EnsureWrites(j) \/ EnsureSeeds(j)) /\ ~Return(j)
    <3>1. \A k \in Job : job'[k].op = job[k].op
      BY <1>1, <2>4 DEF EnsureWrites, EnsureSeeds, Goto, JobRec
    <3>. QED
      BY <1>2, <3>1
  <2>. QED
    BY <2>1, <2>2, <2>3, <2>4 DEF EnsureSteps, EnsureFails
<1>. QED
  BY <1>3, <1>4, <1>5, <1>6, NextIs

(* What a step does to the titles. *)
Titled ==
  \/ UNCHANGED <<st, title>>
  \/ UNCHANGED title /\ \E c \in Card, s \in Column : Put(c, s) \/ PutAndRecompute(c, s)
  \/ \E c \in Card, mine \in BOOLEAN : NewCard(c, None, mine)
  \/ \E j \in Job, c \in Card : FileCard(j) /\ NewCard(c, job[j].for, TRUE)

LEMMA StepsTitle == ASSUME JobsInv, [Next]_vars PROVE Titled
<1>1. CASE Elsewhere \/ UNCHANGED vars
  <2>1. CASE Dispatcher
    BY <2>1 DEF Dispatcher, Orchestrate, Claim, WorkerEnds, Park, Queue, Titled, Column
  <2>2. ASSUME NEW c \in Card, CardTools(c) PROVE Titled
    BY <2>2 DEF CardTools, CreateTask, UnblockTask, LinkTasks, Queue, Titled, Column
  <2>3. CASE TurnStarts \/ TurnEnds \/ TellCall \/ (\E b \in Bot : WriteSoul(b)) \/ UNCHANGED vars
    BY <2>3 DEF TurnStarts, TurnEnds, TellCall, WriteSoul, vars, board, Titled
  <2>. QED
    BY <1>1, <2>1, <2>2, <2>3 DEF Elsewhere
<1>2. CASE \E j \in Job : Begin(j)
  <2>1. ASSUME NEW j \in Job, NEW c \in Card, NEW m \in scene.moves, StartTool(j, m, c)
        PROVE  UNCHANGED board
    BY <2>1 DEF StartTool
  <2>2. ASSUME NEW j \in Job,
               ScheduleGlance(j) \/ Cue(j) \/ Suggest(j) \/ Partner(j) \/ EnsureBots(j)
        PROVE  UNCHANGED board
    BY <2>2 DEF ScheduleGlance, Cue, Suggest, Partner, EnsureBots
  <2>. QED
    BY <1>2, <2>1, <2>2 DEF Begin, board, Titled
<1>3. ASSUME NEW j \in Job, LandSteps(j) PROVE Titled
  <2>1. job[j].card \in Card
    BY <1>3, LooksAre, WritesAre DEF LandSteps, JobsInv, JobsKnown, Known, Landing
  <2>2. UNCHANGED title
    BY <1>3, LooksAre, WritesAre DEF LandSteps, board
  <2>. QED
    BY <1>3, <2>1, <2>2, LooksAre, WritesAre DEF LandSteps, board, Titled
<1>4. ASSUME NEW j \in Job, GlanceSteps(j) \/ ModelSteps(j) \/ EnsureSteps(j) PROVE Titled
  <2>1. CASE FileCard(j)
    BY <2>1 DEF FileCard, Titled
  <2>2. CASE PartnerFiles(j)
    BY <2>2 DEF PartnerFiles, Titled
  <2>3. CASE ~(FileCard(j) \/ PartnerFiles(j))
    BY <1>4, <2>3 DEF GlanceSteps, FindCard, FilingFails, OfferBriefing, Vasquez, VasquezEnds,
       ModelSteps, BishopStarts, BishopAnswers, BishopFails, PartnerStarts, PartnerAnswers,
       SurfaceBlocked, OfferBlocked, PartnerSteers, EnsureSteps, EnsureReads, EnsureWrites, EnsureSeeds,
       EnsureFails, board, Titled
  <2>. QED
    BY <2>1, <2>2, <2>3
<1>. QED
  BY <1>1, <1>2, <1>3, <1>4, NextIs

(* A card comes with a title from the thread that files, and keeps it. *)
LEMMA TitlesStay ==
  ASSUME JobsInv, [Next]_vars, \A c \in Card : st[c] = "none" => title[c] = None
  PROVE  /\ \A c \in Card : st[c] # "none" => title'[c] = title[c] /\ st'[c] # "none"
         /\ \A c \in Card : st[c] = "none" =>
              \/ title'[c] = None
              \/ \E j \in Job : FileCard(j) /\ NewCard(c, job[j].for, TRUE)
<1>. USE DEF JobsInv
<1>0. /\ st \in [Card -> Column \cup {"none"}] /\ title \in [Card -> Title \cup {None}]
  BY DEF TypeOK
<1>1. ASSUME NEW c \in Card, NEW s \in Column, Put(c, s) \/ PutAndRecompute(c, s)
      PROVE  \A d \in Card : st[d] # "none" => st'[d] # "none"
  <2>. DEFINE m == [st EXCEPT ![c] = s]
  <2>1. \A d \in Card : m[d] = IF d = c THEN s ELSE st[d]
    BY <1>0
  <2>2. \A d \in Card : st'[d] = m[d] \/ st'[d] = "ready"
    BY <1>0, <1>1 DEF Put, PutAndRecompute, Write, Recomputed
  <2>. HIDE DEF m
  <2>. QED
    BY <2>1, <2>2 DEF Column
<1>2. ASSUME NEW c \in Card, NEW f, NEW mine \in BOOLEAN, NewCard(c, f, mine)
      PROVE  /\ \A d \in Card : st[d] # "none" => title'[d] = title[d] /\ st'[d] # "none"
             /\ \A d \in Card : d # c => title'[d] = title[d]
             /\ title'[c] = f
  <2>1. \A d \in Card : st[d] # "none" => st'[d] # "none"
    BY <1>1, <1>2 DEF NewCard, Column
  <2>. QED
    BY <1>0, <1>2, <2>1 DEF NewCard
<1>. QED
  BY <1>1, <1>2, StepsTitle DEF Titled

LEMMA CreateFrom ==
  ASSUME JobsInv, [Next]_vars, NEW k \in Job, At(k, "create")'
  PROVE  job'[k] = job[k] \/ FindCard(k)
<1>. SUFFICES ASSUME job'[k] # job[k] PROVE FindCard(k)
  OBVIOUS
<1>1. job \in [Job -> JobRec] /\ job'[k].at = "create"
  BY DEF JobsInv, TypeOK, JobRec, At
<1>2. ~(Elsewhere \/ UNCHANGED vars)
  BY ElsewhereNoJob DEF vars
<1>3. ASSUME NEW j \in Job, Begin(j) PROVE FALSE
  <2>1. PICK r : Start(j, r) /\ r.at # "create"
    BY <1>3, BeginsFresh DEF Fresh, FirstSteps
  <2>. QED
    BY <1>1, <2>1 DEF Start
<1>4. ASSUME NEW j \in Job, LandSteps(j) PROVE FALSE
  <2>1. Return(j) \/ \E label \in Landing : Goto(j, label)
    BY <1>4, LooksAre, WritesAre DEF LandSteps, Landing
  <2>. QED
    BY <1>1, <2>1 DEF Return, Goto, Idle, JobRec, Landing
<1>5. ASSUME NEW j \in Job, GlanceSteps(j) PROVE FindCard(k)
  <2>1. FindCard(j) \/ Return(j) \/ \E label \in {"vasquez", "briefing", "drawing"} : Goto(j, label)
    BY <1>5 DEF GlanceSteps, FileCard, FilingFails, OfferBriefing, Vasquez, VasquezEnds
  <2>2. FindCard(j) => j = k
    BY <1>1 DEF FindCard, Goto
  <2>. QED
    BY <1>1, <2>1, <2>2 DEF Return, Goto, Idle, JobRec
<1>6. ASSUME NEW j \in Job, ModelSteps(j) PROVE FALSE
  <2>1. \/ UNCHANGED job \/ Return(j) \/ \E label \in {"after", "offer"} : Goto(j, label)
        \/ BishopStarts(j) \/ PartnerStarts(j) \/ SurfaceBlocked(j)
    BY <1>6 DEF ModelSteps, BishopAnswers, BishopFails, PartnerFiles, PartnerAnswers,
                OfferBlocked, PartnerSteers
  <2>. QED
    BY <1>1, <2>1 DEF Return, Goto, Idle, JobRec, BishopStarts, PartnerStarts, SurfaceBlocked, Override
<1>7. ASSUME NEW j \in Job, EnsureSteps(j) PROVE FALSE
  BY <1>1, <1>7 DEF EnsureSteps, EnsureReads, EnsureWrites, EnsureSeeds, EnsureFails, Return, Goto, Idle, JobRec
<1>. QED
  BY <1>2, <1>3, <1>4, <1>5, <1>6, <1>7, NextIs

LEMMA FiledStep ==
  ASSUME BoardInv, FiledInTurn, FiledInv, [Next]_vars PROVE FiledInv'
<1>. USE DEF BoardInv
<1>1. /\ scene' = scene /\ JobsInv' /\ JobsInv /\ scene \in Scenes
      /\ st \in [Card -> Column \cup {"none"}] /\ job \in [Job -> JobRec]
      /\ job' \in [Job -> JobRec]
  BY JobsStep DEF JobsInv, TypeOK, JobRec
<1>2. /\ \A c \in Card : st[c] # "none" => title'[c] = title[c] /\ st'[c] # "none"
      /\ \A c \in Card : st[c] = "none" =>
           title'[c] = None \/ \E j \in Job : FileCard(j) /\ NewCard(c, job[j].for, TRUE)
  BY <1>1, TitlesStay DEF FiledInv
<1>3. \A j \in Job : At(j, "create") \/ At(j, "find") => Files(j) /\ Actor("filers")
  BY DEF JobsInv, JobsKnown, Known, At, Filing, Files
<1>4. ASSUME NEW c \in Card, title'[c] # None PROVE Actor("filers")'
  BY <1>1, <1>2, <1>3, <1>4 DEF FiledInv, Actor, FileCard
<1>5. \A j, k \in Job : Files(j)' /\ Files(k)' => j = k
  BY FilersAlone DEF FiledInv
<1>6. ASSUME NEW c \in Card, st'[c] = "none" PROVE title'[c] = None
  <2>1. st[c] = "none"
    BY <1>2, <1>6
  <2>2. \A f : NewCard(c, f, TRUE) => st'[c] = "triage"
    BY <1>1 DEF NewCard, Put, Write
  <2>. QED
    BY <1>2, <1>6, <2>1, <2>2
(* A card that is open and has a title was open, or has just been filed. *)
<1>7. ASSUME NEW c \in Card, st'[c] \in Open, title'[c] # None
      PROVE  \/ st[c] \in Open /\ title'[c] = title[c]
             \/ \E j \in Job : FileCard(j) /\ title'[c] = job[j].for /\ st[c] = "none"
                              /\ NewCard(c, job[j].for, TRUE)
  <2>1. InOrder(scene)
    BY <1>1, <1>4, <1>7 DEF FiledInTurn, Actor
  <2>2. st[c] \in Open \/ st[c] = "none"
    <3>1. CASE UNCHANGED st
      BY <1>7, <3>1
    <3>2. CASE \E d \in Card, s \in Column : Forward(d, s)
      BY <1>1, <1>7, <3>2, WriteGrows DEF JobsInv
    <3>. QED
      BY <2>1, <3>1, <3>2, StepsForward
  <2>3. \A f : NewCard(c, f, TRUE) => title'[c] = f
    BY DEF NewCard, JobsInv, TypeOK
  <2>4. CASE st[c] # "none"
    BY <1>2, <2>2, <2>4
  <2>5. CASE st[c] = "none"
    BY <1>2, <1>7, <2>3, <2>5
  <2>. QED
    BY <2>4, <2>5
<1>8. \A j, k \in Job : FileCard(j) /\ FileCard(k) => j = k
  BY <1>3 DEF FiledInv, FileCard
<1>9. OneOpenCard'
  <2>. SUFFICES ASSUME NEW c \in Card, NEW d \in Card, title'[c] # None, title'[c] = title'[d],
                       st'[c] \in Open, st'[d] \in Open, c # d
                PROVE  FALSE
    BY DEF OneOpenCard
  <2>1. ASSUME NEW j \in Job, NEW a \in Card, NEW b \in Card, FileCard(j), title'[a] = job[j].for,
               st[b] \in Open, title[b] = job[j].for
        PROVE  FALSE
    BY <2>1 DEF FiledInv, FileCard, FindOpen
  <2>2. ASSUME NEW j \in Job, NewCard(c, job[j].for, TRUE), NewCard(d, job[j].for, TRUE),
               st[d] = "none"
        PROVE  FALSE
    <3>1. title' = [title EXCEPT ![c] = job[j].for] /\ st' = [st EXCEPT ![c] = "triage"]
      BY <2>2 DEF NewCard, Put, Write
    <3>2. st'[d] = "none"
      BY <1>1, <2>2, <3>1
    <3>. QED
      BY <3>2 DEF Open, Column
  <2>3. \/ st[c] \in Open /\ title'[c] = title[c]
        \/ \E j \in Job : FileCard(j) /\ title'[c] = job[j].for /\ NewCard(c, job[j].for, TRUE)
    BY <1>7
  <2>4. \/ st[d] \in Open /\ title'[d] = title[d]
        \/ \E j \in Job : FileCard(j) /\ title'[d] = job[j].for /\ st[d] = "none"
                         /\ NewCard(d, job[j].for, TRUE)
    BY <1>7
  <2>5. CASE st[c] \in Open /\ title'[c] = title[c]
    BY <2>1, <2>4, <2>5 DEF FiledInv, OneOpenCard
  <2>6. ASSUME NEW j \in Job, FileCard(j), title'[c] = job[j].for, NewCard(c, job[j].for, TRUE)
        PROVE  FALSE
    BY <1>8, <2>1, <2>2, <2>4, <2>6
  <2>. QED
    BY <2>3, <2>5, <2>6
(* Nobody but the thread itself opens a card for its title. *)
<1>10. ASSUME NEW k \in Job, At(k, "create")' PROVE FindOpen(job[k].for)' = {}
  <2>1. CASE FindCard(k)
    <3>1. job'[k].for = job[k].for /\ UNCHANGED board
      BY <1>1, <2>1 DEF FindCard, Goto, JobRec
    <3>2. FindOpen(job[k].for) = {}
      BY <1>1, <1>10, <2>1 DEF FindCard, Goto, At, JobRec
    <3>. QED
      BY <3>1, <3>2 DEF FindOpen, board
  <2>2. CASE job'[k] = job[k]
    <3>1. At(k, "create")
      BY <1>10, <2>2 DEF At
    <3>2. FindOpen(job[k].for) = {} /\ Files(k) /\ job[k].for \in Title
      BY <1>3, <3>1 DEF FiledInv, JobsInv, JobsKnown, Known, Files
    <3>3. ASSUME NEW j \in Job, FileCard(j) PROVE FALSE
      <4>1. j = k
        BY <1>3, <3>2, <3>3 DEF FileCard, FiledInv
      <4>2. job'[k].at = "briefing"
        BY <1>1, <3>3, <4>1 DEF FileCard, Goto, JobRec
      <4>. QED
        BY <1>10, <4>2 DEF At
    <3>. QED
      BY <1>7, <2>2, <3>2, <3>3, NoneAssumption DEF FindOpen
  <2>. QED
    BY <1>10, <2>1, <2>2, CreateFrom
<1>. QED
  BY <1>4, <1>5, <1>6, <1>9, <1>10 DEF FiledInv

(* Threads that file one after the other leave at most one open card for a
   title, whatever the other tools and the dispatcher do to it, as long as
   nothing reopens a done card and no card waits for another. *)
THEOREM OneCardIsOpen == FiledInTurn => (Spec => []OneOpenCard)
<1>. SUFFICES ASSUME FiledInTurn PROVE Spec => []OneOpenCard
  OBVIOUS
<1>1. Init => FiledInv
  BY DEF Init, FiledInv, OneOpenCard, Files, At, Idle
<1>2. BoardInv /\ FiledInv /\ [Next]_vars => FiledInv'
  BY FiledStep
<1>3. FiledInv => OneOpenCard
  BY DEF FiledInv
<1>. QED
  BY <1>1, <1>2, <1>3, BoardAlways, PTL DEF Spec

-----------------------------------------------------------------------------
(* The blocked cards of the call *)

ToldInv ==
  /\ \A c \in Card : ours[c] => Actor("filers") \/ Actor("partner")
  /\ ~Actor("filers") /\ ~Actor("partner") => sig = {}
  /\ steer = "blocked" => Actor("partner")
  /\ OfferIsTold

(* Bishop is asked with the cards of the signature, or they are being offered. *)
Telling == {"bishop", "model", "tell"}
Pending(j) == job[j].at \in Telling /\ job[j].seen = sig

(* The signature stays; a steer that is taken is told, and so is a Bishop who
   is done. *)
Relayed ==
  /\ sig' = sig /\ (told => told')
  /\ sig # {} => /\ steer = "blocked" => steer' = "blocked" \/ told'
                 /\ \A j \in Job : Pending(j) => told' \/ (job'[j].at \in Telling
                                                          /\ job'[j].seen = job[j].seen)

LEMMA RelayedTold == ASSUME OfferIsTold, Relayed PROVE OfferIsTold'
BY DEF OfferIsTold, Relayed, Pending, Telling

LEMMA Undisturbed ==
  ASSUME JobsInv, UNCHANGED <<sig, told, steer>>, NEW j \in Job,
         job[j].at \notin Telling, \A k \in Job : k # j => job'[k] = job[k]
  PROVE  Relayed
BY DEF Relayed, Pending

(* The look at the blocked cards: the signature is as it was, or the glance has
   the cards of the new one. *)
LEMMA Looked ==
  ASSUME JobsInv, Look, sig' # {}
  PROVE  \/ Glance = {} /\ sig' = sig /\ told' = told
         \/ Glance = sig' /\ Glance # {}
<1>1. told \in BOOLEAN /\ sig' = BlockedForSession /\ told' = (told /\ sig' = sig)
  BY DEF JobsInv, TypeOK, Look
<1>2. CASE BlockedForSession = sig
  BY <1>1, <1>2 DEF Glance
<1>3. CASE BlockedForSession # sig
  BY <1>1, <1>3 DEF Glance
<1>. QED
  BY <1>2, <1>3

(* Only a cue looks at the blocked cards as it begins. *)
LEMMA BeginsQuietly ==
  ASSUME NEW j \in Job, Begin(j)
  PROVE  UNCHANGED <<board, steer>> /\ (Cue(j) \/ UNCHANGED <<sig, told>>)
<1>1. ASSUME NEW c \in Card, NEW m \in scene.moves, StartTool(j, m, c)
      PROVE  UNCHANGED <<board, sig, told, steer>>
  BY <1>1 DEF StartTool, glances
<1>2. CASE ScheduleGlance(j) \/ Cue(j) \/ Suggest(j) \/ Partner(j) \/ EnsureBots(j)
  BY <1>2 DEF ScheduleGlance, Cue, Suggest, Partner, EnsureBots, glances
<1>. QED
  BY <1>1, <1>2 DEF Begin

LEMMA OursComeFrom ==
  ASSUME BoardInv, [Next]_vars, \A c \in Card : ours[c] => Actor("filers") \/ Actor("partner")
  PROVE  \A c \in Card : ours'[c] => Actor("filers") \/ Actor("partner")
<1>1. CASE UNCHANGED ours
  BY <1>1
<1>2. ASSUME NEW c \in Card, NEW f, NEW mine \in BOOLEAN, NewCard(c, f, mine),
             mine => Actor("filers") \/ Actor("partner")
      PROVE  \A d \in Card : ours'[d] => Actor("filers") \/ Actor("partner")
  BY <1>2 DEF NewCard, BoardInv, JobsInv, TypeOK
<1>3. \A j \in Job : (At(j, "create") => Actor("filers")) /\ (At(j, "tools") => Actor("partner"))
  BY DEF BoardInv, JobsInv, JobsKnown, Known, At, Filing, Partnering
<1>4. CASE Elsewhere \/ UNCHANGED vars
  <2>1. CASE Dispatcher \/ TurnStarts \/ TurnEnds \/ TellCall \/ UNCHANGED vars
    BY <1>1, <2>1 DEF Dispatcher, TurnStarts, TurnEnds, TellCall, vars, board
  <2>2. ASSUME NEW c \in Card, CreateTask(c)
        PROVE  \A d \in Card : ours'[d] => Actor("filers") \/ Actor("partner")
    BY <1>2, <2>2 DEF CreateTask
  <2>3. ASSUME NEW c \in Card, CardTools(c), ~CreateTask(c) PROVE UNCHANGED ours
    BY <2>3 DEF CardTools, UnblockTask, LinkTasks
  <2>4. CASE \E b \in Bot : WriteSoul(b)
    BY <1>1, <2>4 DEF WriteSoul, board
  <2>. QED
    BY <1>1, <1>4, <2>1, <2>2, <2>3, <2>4 DEF Elsewhere
<1>5. ASSUME NEW j \in Job, Begin(j) \/ LandSteps(j) PROVE UNCHANGED ours
  BY <1>5, BeginsQuietly, LooksAre, WritesAre DEF LandSteps, board
<1>6. ASSUME NEW j \in Job, GlanceSteps(j) \/ ModelSteps(j) \/ EnsureSteps(j)
      PROVE  \A d \in Card : ours'[d] => Actor("filers") \/ Actor("partner")
  <2>1. CASE FileCard(j)
    BY <1>2, <1>3, <2>1 DEF FileCard
  <2>2. CASE PartnerFiles(j)
    BY <1>2, <1>3, <2>2 DEF PartnerFiles
  <2>3. CASE ~(FileCard(j) \/ PartnerFiles(j))
    BY <1>1, <1>6, <2>3 DEF GlanceSteps, FindCard, FilingFails, OfferBriefing, Vasquez,
       VasquezEnds, ModelSteps, BishopStarts, BishopAnswers, BishopFails, PartnerStarts,
       PartnerAnswers, SurfaceBlocked, OfferBlocked, PartnerSteers, EnsureSteps, EnsureReads, EnsureWrites,
       EnsureSeeds, EnsureFails, board
  <2>. QED
    BY <2>1, <2>2, <2>3
<1>. QED
  BY <1>1, <1>4, <1>5, <1>6, NextIs

LEMMA ToldStep ==
  ASSUME BoardInv, Heard, ToldInv, [Next]_vars PROVE ToldInv'
<1>. USE DEF BoardInv
<1>1. /\ JobsInv /\ JobsInv' /\ scene' = scene /\ scene \in Scenes /\ job \in [Job -> JobRec]
      /\ (Actor("filers")' <=> Actor("filers")) /\ (Actor("partner")' <=> Actor("partner"))
  BY JobsStep DEF JobsInv, TypeOK, JobRec, Actor
<1>2. \A c \in Card : ours'[c] => Actor("filers") \/ Actor("partner")
  BY OursComeFrom DEF ToldInv
<1>3. Look /\ ~Actor("filers") /\ ~Actor("partner") => sig' = {}
  BY DEF ToldInv, Look, BlockedForSession
<1>4. CASE Relayed /\ (steer' = "blocked" => steer = "blocked")
  BY <1>1, <1>2, <1>4, RelayedTold DEF ToldInv, Relayed
<1>5. CASE Elsewhere \/ UNCHANGED vars
  <2>1. CASE TurnStarts
    <3>1. Fault("model") /\ sig # {} => steer # "blocked"
      BY <1>1 DEF ToldInv, Heard, Actor, Fault
    <3>2. UNCHANGED <<sig, job>> /\ steer' = "none"
      BY <2>1 DEF TurnStarts
    <3>3. (told => told') /\ (sig # {} /\ steer = "blocked" => told')
      <4>1. told \in BOOLEAN /\ told' \in BOOLEAN
        BY <1>1 DEF JobsInv, TypeOK
      <4>2. \/ told' = (told \/ (steer = "blocked" /\ sig # {}))
            \/ Fault("model") /\ told' = told
        BY <2>1 DEF TurnStarts
      <4>. QED
        BY <3>1, <4>1, <4>2
    <3>. QED
      BY <1>4, <3>2, <3>3 DEF Relayed, Pending
  <2>2. CASE TellCall
    <3>1. sig # {} => steer # "blocked"
      BY <1>1, <2>2 DEF TellCall, ToldInv, Heard, Actor
    <3>2. UNCHANGED <<sig, told, job>> /\ (steer' = steer \/ steer' = "extract")
      BY <2>2 DEF TellCall, OfferSteer, glances
    <3>. QED
      BY <1>4, <3>1, <3>2 DEF Relayed, Pending
  <2>3. CASE ~TurnStarts /\ ~TellCall
    <3>1. UNCHANGED <<sig, told, steer, job>>
      BY <1>5, <2>3 DEF Elsewhere, Dispatcher, CardTools, CreateTask, UnblockTask, LinkTasks,
         TurnEnds, WriteSoul, vars, glances
    <3>. QED
      BY <1>4, <3>1 DEF Relayed, Pending
  <2>. QED
    BY <2>1, <2>2, <2>3
<1>6. ASSUME NEW j \in Job, Begin(j) PROVE ToldInv'
  <2>1. job[j].at = "idle" /\ \A k \in Job : k # j => job'[k] = job[k]
    <3>1. PICK r : Start(j, r)
      BY <1>6, BeginsFresh
    <3>. QED
      BY <1>1, <3>1 DEF Start, At
  <2>2. CASE ~Cue(j)
    <3>1. UNCHANGED <<sig, told, steer>>
      BY <1>6, <2>2, BeginsQuietly
    <3>. QED
      BY <1>1, <1>4, <2>1, <3>1, Undisturbed DEF Telling
  <2>3. CASE Cue(j)
    <3>1. /\ Look /\ steer' = steer
          /\ job'[j] = [Idle EXCEPT !.op = "cue", !.at = "bishop", !.seen = Glance]
      BY <1>1, <2>3 DEF Cue, Start
    <3>2. OfferIsTold'
      <4>1. CASE sig' = {}
        BY <4>1 DEF OfferIsTold
      <4>2. CASE sig' = sig /\ told' = told
        BY <1>1, <2>1, <3>1, <4>2, Undisturbed, RelayedTold DEF ToldInv, Telling
      <4>3. CASE Glance = sig' /\ Glance # {}
        <5>1. job'[j].at = "bishop" /\ job'[j].seen = sig'
          BY <3>1, <4>3 DEF Idle
        <5>. QED
          BY <5>1 DEF OfferIsTold
      <4>. QED
        BY <1>1, <3>1, <4>1, <4>2, <4>3, Looked
    <3>. QED
      BY <1>1, <1>2, <1>3, <3>1, <3>2 DEF ToldInv
  <2>. QED
    BY <2>2, <2>3
<1>7. ASSUME NEW j \in Job, LandSteps(j) \/ EnsureSteps(j) PROVE ToldInv'
  <2>1. CASE LandSteps(j)
    <3>1. /\ UNCHANGED <<sig, told, steer>>
          /\ job[j].at \notin Telling
          /\ Return(j) \/ \E label \in Steps : Goto(j, label)
      BY <2>1, LooksAre, WritesAre DEF LandSteps, glances, Telling, Steps
    <3>2. \A k \in Job : k # j => job'[k] = job[k]
      BY <1>1, <3>1 DEF Return, Goto
    <3>. QED
      BY <1>1, <1>4, <3>1, <3>2, Undisturbed
  <2>2. CASE EnsureSteps(j)
    <3>1. /\ UNCHANGED <<sig, told, steer>>
          /\ job[j].at \notin Telling
          /\ \A k \in Job : k # j => job'[k] = job[k]
      BY <1>1, <2>2 DEF EnsureSteps, EnsureReads, EnsureWrites, EnsureSeeds, EnsureFails, At, Goto,
         Return, glances, Telling
    <3>. QED
      BY <1>1, <1>4, <3>1, Undisturbed
  <2>. QED
    BY <1>7, <2>1, <2>2
<1>8. ASSUME NEW j \in Job, GlanceSteps(j) PROVE ToldInv'
  <2>1. /\ job[j].at \notin Telling
        /\ \A k \in Job : k # j => job'[k] = job[k]
        /\ UNCHANGED <<sig, told>>
    BY <1>1, <1>8 DEF GlanceSteps, FindCard, FileCard, FilingFails, OfferBriefing, Vasquez,
       VasquezEnds, At, Goto, Return, glances, Telling
  <2>2. steer' = steer \/ (At(j, "briefing") /\ steer' = "briefing")
    BY <1>8 DEF GlanceSteps, FindCard, FileCard, FilingFails, OfferBriefing, Vasquez, VasquezEnds,
       OfferSteer
  <2>3. CASE steer' = steer
    BY <1>1, <1>4, <2>1, <2>3, Undisturbed
  <2>4. CASE At(j, "briefing") /\ steer' = "briefing"
    <3>1. Actor("filers")
      BY <2>4 DEF JobsInv, JobsKnown, Known, At, Filing
    <3>2. sig # {} => steer # "blocked"
      BY <1>1, <3>1 DEF ToldInv, Heard, Actor
    <3>. QED
      BY <1>4, <2>1, <2>4, <3>2 DEF Relayed, Pending
  <2>. QED
    BY <2>2, <2>3, <2>4
<1>9. ASSUME NEW j \in Job, ModelSteps(j) PROVE ToldInv'
  <2>0. Known(job[j])
    BY DEF JobsInv, JobsKnown
  <2>1. CASE BishopStarts(j)
    <3>1. /\ UNCHANGED <<sig, told, steer>> /\ \A k \in Job : k # j => job'[k] = job[k]
          /\ job'[j].at = "model" /\ job'[j].seen = job[j].seen
      BY <1>1, <2>1 DEF BishopStarts, Override, glances, JobRec
    <3>. QED
      BY <1>4, <3>1 DEF Relayed, Pending, Telling
  <2>2. CASE BishopAnswers(j)
    <3>1. /\ sig' = sig /\ Tell(job[j].seen) /\ \A k \in Job : k # j => job'[k] = job[k]
      BY <1>1, <2>2 DEF BishopAnswers, Return
    <3>2. steer' = steer \/ (job[j].op = "cue" /\ steer' = "bishop")
      BY <2>2 DEF BishopAnswers
    <3>3. job[j].op = "cue" /\ sig # {} => steer # "blocked"
      BY <1>1, <2>0 DEF Known, ToldInv, Heard, Actor
    <3>. QED
      BY <1>4, <3>1, <3>2, <3>3 DEF Relayed, Pending, Tell
  <2>3. CASE BishopFails(j)
    <3>1. /\ UNCHANGED <<sig, told, steer>> /\ Fault("model")
          /\ \A k \in Job : k # j => job'[k] = job[k]
      BY <1>1, <2>3 DEF BishopFails, Return, glances
    <3>2. job[j].seen = {} \/ sig = {}
      BY <1>1, <2>0, <3>1 DEF Known, ToldInv, Heard, Actor, Fault
    <3>. QED
      BY <1>4, <3>1, <3>2 DEF Relayed, Pending
  <2>4. CASE PartnerStarts(j) \/ PartnerFiles(j) \/ PartnerAnswers(j)
    <3>1. /\ UNCHANGED <<sig, told, steer>> /\ job[j].at \notin Telling
          /\ \A k \in Job : k # j => job'[k] = job[k]
      BY <1>1, <2>4 DEF PartnerStarts, PartnerFiles, PartnerAnswers, Override, Return, Goto, At,
         glances, Telling
    <3>. QED
      BY <1>1, <1>4, <3>1, Undisturbed
  <2>5. CASE SurfaceBlocked(j)
    <3>1. /\ Look /\ job[j].at = "after" /\ \A k \in Job : k # j => job'[k] = job[k]
          /\ steer' = steer
          /\ Glance # {} => job'[j].at = "tell" /\ job'[j].seen = Glance
      BY <1>1, <2>5 DEF SurfaceBlocked, At, JobRec
    <3>2. Actor("partner")
      BY <2>0, <3>1 DEF Known, Partnering
    <3>3. OfferIsTold'
      <4>1. CASE sig' = {}
        BY <4>1 DEF OfferIsTold
      <4>2. CASE Glance = {} /\ sig' = sig /\ told' = told
        BY <1>1, <3>1, <4>2, Undisturbed, RelayedTold DEF ToldInv, Telling
      <4>3. CASE Glance = sig' /\ Glance # {}
        BY <3>1, <4>3 DEF OfferIsTold
      <4>. QED
        BY <1>1, <3>1, <4>1, <4>2, <4>3, Looked
    <3>. QED
      BY <1>1, <1>2, <3>1, <3>2, <3>3 DEF ToldInv
  <2>6. CASE OfferBlocked(j)
    <3>1. Actor("partner") /\ UNCHANGED sig
      BY <2>0, <2>6 DEF OfferBlocked, At, Known, Partnering, glances
    <3>2. steer' = "blocked"
      BY <1>1, <2>6, <3>1 DEF OfferBlocked, OfferSteer, Heard, Actor, Fault
    <3>. QED
      BY <1>1, <1>2, <3>1, <3>2 DEF ToldInv, OfferIsTold
  <2>7. CASE PartnerSteers(j)
    <3>1. /\ UNCHANGED <<sig, told>> /\ job[j].at = "offer"
          /\ \A k \in Job : k # j => job'[k] = job[k]
          /\ scene.steers \/ steer' = steer
      BY <1>1, <2>7 DEF PartnerSteers, OfferSteer, At, Return, glances
    <3>2. Actor("partner")
      BY <2>0, <3>1 DEF Known, Partnering
    <3>3. steer' = steer
      BY <1>1, <3>1, <3>2 DEF Heard, Actor
    <3>. QED
      BY <1>1, <1>4, <3>1, <3>3, Undisturbed DEF Telling
  <2>. QED
    BY <1>9, <2>1, <2>2, <2>3, <2>4, <2>5, <2>6, <2>7 DEF ModelSteps
<1>. QED
  BY <1>5, <1>6, <1>7, <1>8, <1>9, NextIs

(* The blocked cards of a call are offered once: the signature that silences the
   next glance was told, waits as the steer, or is on its way to Bishop or to
   Ripley, in every scene in which nothing takes the steer's place and no call to
   a model fails with what it was told. *)
THEOREM BlockedCardsAreTold == Spec => []BlockedIsTold
<1>. DEFINE IInv == Heard => ToldInv
<1>1. Init => IInv
  BY DEF Init, ToldInv, OfferIsTold
<1>2. BoardInv /\ IInv /\ [Next]_vars => IInv'
  <2>1. BoardInv /\ [Next]_vars => (Heard' <=> Heard)
    BY JobsStep DEF BoardInv, Heard, Actor, Fault
  <2>. QED
    BY <2>1, ToldStep
<1>3. IInv => BlockedIsTold
  BY DEF ToldInv, BlockedIsTold
<1>. QED
  BY <1>1, <1>2, <1>3, BoardAlways, PTL DEF Spec
=============================================================================
