--------------------------------- MODULE Desk ---------------------------------
(***************************************************************************)
(* What works beside the spoken turn: the kanban board and the tools that  *)
(* move its cards, the threads that file a card and draw a figure after a  *)
(* turn, the Hermes partner, the silence director's Bishop, and the        *)
(* profiles of the named bots.                                             *)
(*                                                                         *)
(* The board is a database; hermes_cli reads and writes it in transactions *)
(* of its own, and its dispatcher moves cards at any time.  A tool makes   *)
(* several transactions, and reads the card in one and writes it in        *)
(* another.  The other actors share one pending steer, the signature of    *)
(* the blocked cards last offered, and settings that a run overrides and   *)
(* puts back.  The profiles of the bots are files that the user edits.     *)
(***************************************************************************)
EXTENDS Integers, FiniteSets, Sequences

CONSTANTS Card,      \* slots for cards
          Job,       \* slots for tool calls and threads
          Title,     \* the titles Hicks files
          Err,       \* why a card is blocked
          None,
          Scenes     \* who is at work, and the faults

ASSUME NoneAssumption == None \notin Card \cup Title \cup Err

Column == {"triage", "todo", "ready", "running", "blocked", "review", "done"}
Open == Column \ {"done"}
Moveable == Column \ {"running"}
Landed == {"ready", "running", "blocked", "review"}

(* The tools that take a card somewhere: move_task by its column. *)
Tool == {"complete", "block"} \cup Moveable

(* ensure_bots goes through them in this order. *)
Bots == <<"ripley", "bishop", "vasquez", "hicks">>
Bot == {Bots[i] : i \in 1..Len(Bots)}

ASSUME ScenesAssumption ==
  Scenes \subseteq [actors : SUBSET {"tools", "link", "filers", "glances", "cue", "turn",
                                     "suggest", "partner", "extract", "bots", "user"},
                    moves : SUBSET (Tool \cup {"unblock"}),
                    serial : SUBSET {"link", "file", "suggest", "partner"},
                    profiles : SUBSET Bot,
                    steers : BOOLEAN,
                    faults : SUBSET {"db", "model", "disk", "taker"}]

VARIABLES scene,
          st,        \* the column of each card
          title,     \* what Hicks filed it for
          ours,      \* its session is this call's
          why, parent,
          met,       \* history: the cards whose parent has been done since the link
          sig,       \* _BLOCKED_SIG of the call
          told,      \* history: whether sig has reached Bishop or Ripley
          steer,     \* TurnTaker.pending_steer, by who wrote it
          busy,      \* TurnTaker.busy
          job,
          drawing,   \* _VASQUEZ_RUNNING
          over,      \* the settings that runs override
          soul,      \* SOUL.md of each profile
          config     \* what is seeded beside it

board == <<st, title, ours, why, parent, met>>
glances == <<sig, told>>
bots == <<soul, config>>
vars == <<scene, board, glances, steer, busy, job, drawing, over, bots>>

Config == {"bishop", "hicks", "home"}
Setting == {"cap", "surface"}

Idle == [op |-> "none", at |-> "idle", card |-> None, for |-> None, seen |-> {},
         saved |-> FALSE, bot |-> 1]

Steps == {"idle", "land", "specify", "specified", "unblock", "check", "set", "landed", "act",
          "park", "over", "find", "create", "briefing", "vasquez", "drawing",
          "bishop", "model", "enter", "tools", "after", "tell", "offer",
          "read", "write", "seed"}

TypeOK ==
  /\ scene \in Scenes
  /\ st \in [Card -> Column \cup {"none"}]
  /\ title \in [Card -> Title \cup {None}]
  /\ ours \in [Card -> BOOLEAN]
  /\ why \in [Card -> Err \cup {None}]
  /\ parent \in [Card -> Card \cup {None}]
  /\ met \subseteq Card
  /\ sig \in SUBSET (Card \X (Err \cup {None}))
  /\ told \in BOOLEAN
  /\ steer \in {"none", "bishop", "partner", "briefing", "extract", "blocked"}
  /\ busy \in BOOLEAN
  /\ job \in [Job -> [op : Tool \cup {"none", "file", "glance", "cue", "suggest", "partner",
                                     "ensure"},
                      at : Steps, card : Card \cup {None}, for : Title \cup {None},
                      seen : SUBSET (Card \X (Err \cup {None})), saved : BOOLEAN,
                      bot : 1..Len(Bots)]]
  /\ drawing \in BOOLEAN
  /\ over \in [Setting -> BOOLEAN]
  /\ soul \in [Bot -> {"missing", "stock", "old", "marked", "own", "current"}]
  /\ config \in [Config -> {"unset", "own", "grok", "unreadable", "seeded"}]

Fault(f) == f \in scene.faults
Actor(a) == a \in scene.actors
At(j, label) == job[j].at = label
Goto(j, label) == job' = [job EXCEPT ![j].at = label]
Return(j) == job' = [job EXCEPT ![j] = Idle]

(* A run of a kind in scene.serial waits for the last one of its kind; a link
   waits for the tools. *)
Start(j, r) ==
  /\ At(j, "idle")
  /\ r.op \in scene.serial => \A k \in Job : job[k].op # r.op
  /\ job' = [job EXCEPT ![j] = r]

(* A user may have profiles of any age and settings of any kind, in the home an
   orchestrator that is empty, grok or hicks (unset, grok) or another (own). *)
Init ==
  /\ scene \in Scenes
  /\ st = [c \in Card |-> "none"]
  /\ title = [c \in Card |-> None]
  /\ ours = [c \in Card |-> FALSE]
  /\ why = [c \in Card |-> None]
  /\ parent = [c \in Card |-> None]
  /\ met = {}
  /\ sig = {} /\ told = FALSE
  /\ steer = "none" /\ busy = FALSE
  /\ job = [j \in Job |-> Idle]
  /\ drawing = FALSE
  /\ over = [o \in Setting |-> FALSE]
  /\ IF "bots" \in scene.actors
     THEN /\ soul \in [Bot -> {"missing", "old", "marked", "own", "current"}]
          /\ \A b \in Bot \ scene.profiles : soul[b] = "current"
          /\ config \in [Config -> {"unset", "own", "grok", "unreadable"}]
     ELSE /\ soul = [b \in Bot |-> "current"]
          /\ config = [c \in Config |-> "seeded"]

-----------------------------------------------------------------------------
(* hermes_cli.kanban_db, as its callers use it *)

ParentDone(s, c) == parent[c] \in {None} \cup {p \in Card : s[p] = "done"}

(* recompute_ready *)
Recomputed(s) == [c \in Card |-> IF s[c] = "todo" /\ ParentDone(s, c) THEN "ready" ELSE s[c]]

MetIn(s) == met \cup {c \in Card : parent[c] # None /\ ParentDone(s, c)}

Write(s) == st' = s /\ met' = MetIn(s)
Put(c, s) == Write([st EXCEPT ![c] = s])
PutAndRecompute(c, s) == Write(Recomputed([st EXCEPT ![c] = s]))

(* specify_triage_task and unblock_task *)
Queue(c) == PutAndRecompute(c, "todo")

NewCard(c, t, mine) ==
  /\ st[c] = "none"
  /\ Put(c, "triage")
  /\ title' = [title EXCEPT ![c] = t]
  /\ ours' = [ours EXCEPT ![c] = mine]
  /\ UNCHANGED <<why, parent>>

(* The orchestrator and the dispatcher of the gateway. *)
Orchestrate(c) == st[c] = "triage" /\ Queue(c) /\ UNCHANGED why
Claim(c) == st[c] = "ready" /\ Put(c, "running") /\ UNCHANGED why
WorkerEnds(c, s) == st[c] = "running" /\ PutAndRecompute(c, s) /\ UNCHANGED why
Park(c, e) ==
  /\ st[c] \in {"ready", "running"}
  /\ Put(c, "blocked")
  /\ why' = [why EXCEPT ![c] = e]

Dispatcher ==
  /\ \E c \in Card :
       \/ Orchestrate(c)
       \/ Claim(c)
       \/ \E s \in {"done", "review"} : WorkerEnds(c, s)
       \/ \E e \in Err : Park(c, e)
  /\ UNCHANGED <<scene, title, ours, parent, glances, steer, busy, job, drawing, over, bots>>

-----------------------------------------------------------------------------
(* The tools of webrtc_kanban *)

Exists(c) == st[c] # "none"
Asked(m) == Actor("tools") /\ m \in scene.moves

CreateTask(c) ==
  /\ Actor("tools")
  /\ NewCard(c, None, FALSE)
  /\ UNCHANGED <<scene, glances, steer, busy, job, drawing, over, bots>>

(* A parent is not linked below its own child. *)
LinkTasks(p, c) ==
  /\ Actor("link")
  /\ "link" \in scene.serial => \A j \in Job : job[j].op \notin Tool
  /\ p # c /\ Exists(p) /\ Exists(c) /\ st[c] \in {"triage", "todo"}
  /\ parent[c] = None /\ parent[p] = None
  /\ parent' = [parent EXCEPT ![c] = p]
  /\ met' = IF st[p] = "done" THEN met \cup {c} ELSE met
  /\ UNCHANGED <<scene, st, title, ours, why, glances, steer, busy, job, drawing, over, bots>>

UnblockTask(c) ==
  /\ Asked("unblock")
  /\ st[c] = "blocked"
  /\ Queue(c)
  /\ UNCHANGED <<scene, title, ours, why, parent, glances, steer, busy, job, drawing, over,
                 bots>>

(* complete_task, block_task and move_task: what the first look at the card,
   get_task, leads to. *)
StartTool(j, m, c) ==
  LET Begins(label) == Start(j, [Idle EXCEPT !.op = m, !.card = c, !.at = label])
  IN  /\ Asked(m)
      /\ Exists(c) /\ st[c] # m
      /\ \/ m \in {"complete", "done", "blocked"} /\ Begins("land")
         \/ /\ m = "block" /\ st[c] # "blocked"
            /\ Begins(IF st[c] \in {"ready", "running"} THEN "park" ELSE "land")
         \/ m = "todo" /\ Begins(IF st[c] = "triage" THEN "specify" ELSE "set")
         \/ m = "ready" /\ Begins(IF st[c] = "blocked" THEN "unblock" ELSE "check")
         \/ m \in {"triage", "review"} /\ Begins("set")
      /\ UNCHANGED <<scene, board, glances, steer, busy, drawing, over, bots>>

(* block_task then writes the column over; the other tools give up. *)
Refused(j) ==
  IF job[j].op = "block" THEN Goto(j, "over") ELSE Return(j)

(* _land_ready: a card of the inbox goes through todo to ready, a look and a
   transaction at a time. *)
Land(j) ==
  LET s == st[job[j].card]
  IN  /\ At(j, "land")
      /\ \/ s \in Landed /\ Goto(j, "act")
         \/ s = "triage" /\ Goto(j, "specify")
         \/ s = "todo" /\ Goto(j, "check")
         \/ s = "done" /\ Refused(j)
      /\ UNCHANGED <<scene, board, glances, steer, busy, drawing, over, bots>>

(* specify_triage_task takes what still is in triage. *)
Specify(j) ==
  LET c == job[j].card
  IN  /\ At(j, "specify")
      /\ IF st[c] = "triage"
         THEN Queue(c) /\ IF job[j].op = "todo" THEN Return(j) ELSE Goto(j, "specified")
         ELSE Refused(j) /\ UNCHANGED <<st, met>>
      /\ UNCHANGED <<scene, title, ours, why, parent, glances, steer, busy, drawing, over,
                     bots>>

LandSpecified(j) ==
  LET s == st[job[j].card]
  IN  /\ At(j, "specified")
      /\ \/ s = "todo" /\ Goto(j, "check")
         \/ s \in Landed /\ Goto(j, "act")
         \/ s \in {"triage", "done"} /\ Refused(j)
      /\ UNCHANGED <<scene, board, glances, steer, busy, drawing, over, bots>>

(* move_task to ready, of a card that was blocked *)
MoveUnblocks(j) ==
  LET c == job[j].card
  IN  /\ At(j, "unblock")
      /\ IF st[c] = "blocked" THEN Queue(c) ELSE UNCHANGED <<st, met>>
      /\ Return(j)
      /\ UNCHANGED <<scene, title, ours, why, parent, glances, steer, busy, drawing, over,
                     bots>>

(* Mutant: the parents are not looked at. *)
SetStatusUnchecked(j) ==
  /\ At(j, "check")
  /\ Goto(j, "set")
  /\ UNCHANGED <<scene, board, glances, steer, busy, drawing, over, bots>>

(* _set_status to ready looks at the parents first. *)
SetStatusChecks(j) ==
  /\ At(j, "check")
  /\ IF ParentDone(st, job[j].card) THEN Goto(j, "set") ELSE Refused(j)
  /\ UNCHANGED <<scene, board, glances, steer, busy, drawing, over, bots>>

(* Its write does not look at the column it leaves. *)
SetStatus(c, s) == IF s \in {"done", "ready", "review"} THEN PutAndRecompute(c, s) ELSE Put(c, s)

Target(j) == IF job[j].op \in {"triage", "todo", "review"} THEN job[j].op ELSE "ready"

SetStatusWrites(j) ==
  /\ At(j, "set")
  /\ SetStatus(job[j].card, Target(j))
  /\ IF job[j].op \in Column \ {"done", "blocked"} THEN Return(j) ELSE Goto(j, "landed")
  /\ UNCHANGED <<scene, title, ours, why, parent, glances, steer, busy, drawing, over, bots>>

LandChecks(j) ==
  /\ At(j, "landed")
  /\ IF st[job[j].card] \in Landed THEN Goto(j, "act") ELSE Refused(j)
  /\ UNCHANGED <<scene, board, glances, steer, busy, drawing, over, bots>>

CompleteLanded(j) ==
  LET c == job[j].card
  IN  /\ At(j, "act")
      /\ job[j].op \in {"complete", "done"}
      /\ IF st[c] \in Landed THEN PutAndRecompute(c, "done") ELSE UNCHANGED <<st, met>>
      /\ Return(j)
      /\ UNCHANGED <<scene, title, ours, why, parent, glances, steer, busy, drawing, over,
                     bots>>

(* The tool block looks again where the card has landed; the move does not. *)
BlockLooks(j) ==
  /\ At(j, "act")
  /\ job[j].op \in {"block", "blocked"}
  /\ Goto(j, IF job[j].op = "blocked" \/ st[job[j].card] \in {"ready", "running"}
             THEN "park" ELSE "over")
  /\ UNCHANGED <<scene, board, glances, steer, busy, drawing, over, bots>>

(* kanban_db.block_task takes what is ready or running. *)
BlockParks(j) ==
  LET c == job[j].card
  IN  /\ At(j, "park")
      /\ \/ \E e \in Err : Park(c, e)
         \/ st[c] \notin {"ready", "running"} /\ UNCHANGED <<st, met, why>>
      /\ Return(j)
      /\ UNCHANGED <<scene, title, ours, parent, glances, steer, busy, drawing, over, bots>>

BlockOverwrites(j) ==
  /\ At(j, "over")
  /\ SetStatus(job[j].card, "blocked")
  /\ Return(j)
  /\ UNCHANGED <<scene, title, ours, why, parent, glances, steer, busy, drawing, over, bots>>

-----------------------------------------------------------------------------
(* The threads of schedule_vasquez_glance: after a turn that promised work   *)
(* they file a card, and every one of them tries for a figure.               *)

(* Mutant: a blocked card is not in flight. *)
FindOpenUnblocked(t) == {c \in Card : title[c] = t /\ st[c] \in Open \ {"blocked"}}

(* _find_open *)
FindOpen(t) == {c \in Card : title[c] = t /\ st[c] \in Open}

(* An opening has no glance; a cue has one that files nothing. *)
ScheduleGlance(j) ==
  /\ \/ /\ Actor("filers")
        /\ \E t \in Title : Start(j, [Idle EXCEPT !.op = "file", !.for = t, !.at = "find"])
     \/ /\ Actor("glances")
        /\ Start(j, [Idle EXCEPT !.op = "glance", !.at = "vasquez"])
  /\ UNCHANGED <<scene, board, glances, steer, busy, drawing, over, bots>>

(* file_implied: the look for an open card, and then the card. *)
FindCard(j) ==
  /\ At(j, "find")
  /\ Goto(j, IF FindOpen(job[j].for) = {} THEN "create" ELSE "vasquez")
  /\ UNCHANGED <<scene, board, glances, steer, busy, drawing, over, bots>>

FileCard(j) ==
  /\ At(j, "create")
  /\ \E c \in Card : NewCard(c, job[j].for, TRUE)
  /\ Goto(j, "briefing")
  /\ UNCHANGED <<scene, glances, steer, busy, drawing, over, bots>>

FilingFails(j) ==
  /\ Fault("db")
  /\ At(j, "find") \/ At(j, "create")
  /\ Goto(j, "vasquez")
  /\ UNCHANGED <<scene, board, glances, steer, busy, drawing, over, bots>>

(* offer_steer: the taker has one, and the newest is it.  Without a taker the
   offer is lost. *)
OfferSteer(s) == steer' = s \/ (Fault("taker") /\ UNCHANGED steer)

OfferBriefing(j) ==
  /\ At(j, "briefing")
  /\ OfferSteer("briefing")
  /\ Goto(j, "vasquez")
  /\ UNCHANGED <<scene, board, glances, busy, drawing, over, bots>>

(* vasquez_run: one at a time, and not right after another. *)
Vasquez(j) ==
  /\ At(j, "vasquez")
  /\ \/ /\ ~drawing
        /\ drawing' = TRUE
        /\ Goto(j, "drawing")
     \/ Return(j) /\ UNCHANGED drawing
  /\ UNCHANGED <<scene, board, glances, steer, busy, over, bots>>

(* The model has answered or failed. *)
VasquezEnds(j) ==
  /\ At(j, "drawing")
  /\ Return(j)
  /\ drawing' = FALSE
  /\ UNCHANGED <<scene, board, glances, steer, busy, over, bots>>

-----------------------------------------------------------------------------
(* Blocked cards of this call: blocked_for_session and blocked_glance *)

BlockedForSession == {<<c, why[c]>> : c \in {d \in Card : st[d] = "blocked" /\ ours[d]}}

(* What the glance says: nothing, or every blocked card. *)
Glance == IF BlockedForSession = sig THEN {} ELSE BlockedForSession

(* No card is no signature, {}. *)
Look ==
  /\ sig' = BlockedForSession
  /\ told' = (told /\ sig' = sig)

Tell(seen) == told' = (told \/ (seen # {} /\ seen = sig))

(* bishop_delegation_cap and _primary_surface: what was there is put back. *)
Override(j, o, next) ==
  /\ over' = [over EXCEPT ![o] = TRUE]
  /\ job' = [job EXCEPT ![j].saved = over[o], ![j].at = next]

PutBack(j, o) == over' = [over EXCEPT ![o] = job[j].saved]

(* Mutant: the glance is taken and not handed to Bishop. *)
CueUnread(j) ==
  /\ Actor("cue")
  /\ ~busy
  /\ busy' = TRUE
  /\ Look
  /\ Start(j, [Idle EXCEPT !.op = "cue", !.at = "bishop"])
  /\ UNCHANGED <<scene, board, steer, drawing, over, bots>>

(* _cue: with the turn's claim, and the glance of the moment. *)
Cue(j) ==
  /\ Actor("cue")
  /\ ~busy
  /\ busy' = TRUE
  /\ Look
  /\ Start(j, [Idle EXCEPT !.op = "cue", !.at = "bishop", !.seen = Glance])
  /\ UNCHANGED <<scene, board, steer, drawing, over, bots>>

(* _load_active *)
Active == {c \in Card : st[c] \in Open}

(* bishop_suggest: only with two open cards. *)
Suggest(j) ==
  /\ Actor("suggest")
  /\ Cardinality(Active) >= 2
  /\ Start(j, [Idle EXCEPT !.op = "suggest", !.at = "bishop"])
  /\ UNCHANGED <<scene, board, glances, steer, busy, drawing, over, bots>>

BishopStarts(j) ==
  /\ At(j, "bishop")
  /\ Override(j, "cap", "model")
  /\ UNCHANGED <<scene, board, glances, steer, busy, drawing, bots>>

Released(j) == busy' = (busy /\ job[j].op # "cue")

(* Bishop has read the glance.  A cue keeps what he steers. *)
BishopAnswers(j) ==
  /\ At(j, "model")
  /\ PutBack(j, "cap")
  /\ Tell(job[j].seen)
  /\ IF job[j].op = "cue" THEN steer' \in {steer, "bishop"} ELSE UNCHANGED steer
  /\ Released(j)
  /\ Return(j)
  /\ UNCHANGED <<scene, board, sig, drawing, bots>>

BishopFails(j) ==
  /\ Fault("model")
  /\ At(j, "model")
  /\ PutBack(j, "cap")
  /\ Released(j)
  /\ Return(j)
  /\ UNCHANGED <<scene, board, glances, steer, drawing, bots>>

(* A spoken turn takes the steer as it starts, and may fail with it. *)
TurnStarts ==
  /\ Actor("turn")
  /\ ~busy
  /\ busy' = TRUE
  /\ \/ told' = (told \/ (steer = "blocked" /\ sig # {}))
     \/ Fault("model") /\ UNCHANGED told
  /\ steer' = "none"
  /\ UNCHANGED <<scene, board, sig, job, drawing, over, bots>>

TurnEnds ==
  /\ Actor("turn")
  /\ busy /\ \A j \in Job : job[j].op # "cue"
  /\ busy' = FALSE
  /\ UNCHANGED <<scene, board, glances, steer, job, drawing, over, bots>>

(* _tell_call: an extract that stopped or is stuck. *)
TellCall ==
  /\ Actor("extract")
  /\ OfferSteer("extract")
  /\ UNCHANGED <<scene, board, glances, busy, job, drawing, over, bots>>

-----------------------------------------------------------------------------
(* primary_hermes.run: the partner has the tools of the command line *)

Partner(j) ==
  /\ Actor("partner")
  /\ Start(j, [Idle EXCEPT !.op = "partner", !.at = "enter"])
  /\ UNCHANGED <<scene, board, glances, steer, busy, drawing, over, bots>>

PartnerStarts(j) ==
  /\ At(j, "enter")
  /\ Override(j, "surface", "tools")
  /\ UNCHANGED <<scene, board, glances, steer, busy, drawing, bots>>

(* Its own kanban tools are Hermes'. *)
PartnerFiles(j) ==
  /\ At(j, "tools")
  /\ \E c \in Card : NewCard(c, None, TRUE)
  /\ UNCHANGED <<scene, glances, steer, busy, job, drawing, over, bots>>

PartnerAnswers(j) ==
  /\ At(j, "tools")
  /\ PutBack(j, "surface")
  /\ IF Fault("model") THEN Return(j) \/ Goto(j, "after") ELSE Goto(j, "after")
  /\ UNCHANGED <<scene, board, glances, steer, busy, drawing, bots>>

(* surface_blocked_to_call: the glance, which takes the signature, and then
   the offer of what it says. *)
SurfaceBlocked(j) ==
  /\ At(j, "after")
  /\ Look
  /\ job' = [job EXCEPT ![j].seen = Glance, ![j].at = IF Glance = {} THEN "offer" ELSE "tell"]
  /\ UNCHANGED <<scene, board, steer, busy, drawing, over, bots>>

OfferBlocked(j) ==
  /\ At(j, "tell")
  /\ OfferSteer("blocked")
  /\ Goto(j, "offer")
  /\ UNCHANGED <<scene, board, glances, busy, drawing, over, bots>>

(* parse_partner_reply: a steer, or NONE. *)
PartnerSteers(j) ==
  /\ At(j, "offer")
  /\ IF scene.steers THEN OfferSteer("partner") \/ UNCHANGED steer ELSE UNCHANGED steer
  /\ Return(j)
  /\ UNCHANGED <<scene, board, glances, busy, drawing, over, bots>>

-----------------------------------------------------------------------------
(* ensure_bots, as the engine starts and before each opening *)

EnsureBots(j) ==
  /\ Actor("bots")
  /\ Start(j, [Idle EXCEPT !.op = "ensure", !.at = "read"])
  /\ UNCHANGED <<scene, board, glances, steer, busy, drawing, over, bots>>

(* A profile that is missing gets its stock soul.  The template replaces a
   stock one, a managed one that lacks a rule of the template, and a soul the
   user wrote that is marked: it names the tools of an old template, or
   Vasquez, and lacks a rule of the new one. *)
Stale(s) == s \in {"missing", "stock", "old", "marked"}

(* The user edits a soul at any time. *)
WriteSoul(b) ==
  /\ Actor("user")
  /\ b \in scene.profiles
  /\ \E s \in {"own", "old", "marked"} : soul' = [soul EXCEPT ![b] = s]
  /\ UNCHANGED <<scene, board, glances, steer, busy, job, drawing, over, config>>

(* _ensure_one: what it finds, what it then writes, and what it seeds. *)
EnsureReads(j) ==
  LET b == Bots[job[j].bot]
  IN  /\ At(j, "read")
      /\ soul' = [soul EXCEPT ![b] = IF @ = "missing" THEN "stock" ELSE @]
      /\ job' = [job EXCEPT ![j].at = "write", ![j].saved = Stale(soul[b])]
      /\ UNCHANGED <<scene, board, glances, steer, busy, drawing, over, config>>

EnsureWrites(j) ==
  LET b == Bots[job[j].bot]
  IN  /\ At(j, "write")
      /\ soul' = [soul EXCEPT ![b] = IF job[j].saved THEN "current" ELSE @]
      /\ Goto(j, "seed")
      /\ UNCHANGED <<scene, board, glances, steer, busy, drawing, over, config>>

(* A limit that the user set for Bishop stays. *)
SeedBishopConfig(f) == [f EXCEPT !["bishop"] = IF @ = "unset" THEN "seeded" ELSE @]

(* Hicks is moved to his model and tools, unless he has a grok of xai-oauth
   with them, or a file that cannot be read. *)
SeedHicksConfig(f) == [f EXCEPT !["hicks"] = IF @ \in {"unset", "own"} THEN "seeded" ELSE @]

(* _pin_hicks_orchestrator: in the home the gateway reads Hicks becomes the
   orchestrator, unless another was set by hand. *)
PinOrchestrator(f) == [f EXCEPT !["home"] = IF @ \in {"unset", "grok"} THEN "seeded" ELSE @]

EnsureSeeds(j) ==
  LET b == Bots[job[j].bot]
  IN  /\ At(j, "seed")
      /\ config' = CASE b = "bishop" -> SeedBishopConfig(config)
                     [] b = "hicks" -> PinOrchestrator(SeedHicksConfig(config))
                     [] OTHER -> config
      /\ IF job[j].bot = Len(Bots)
         THEN Return(j)
         ELSE job' = [job EXCEPT ![j].at = "read", ![j].bot = @ + 1]
      /\ UNCHANGED <<scene, board, glances, steer, busy, drawing, over, soul>>

(* The first failure ends the whole. *)
EnsureFails(j) ==
  /\ Fault("disk")
  /\ job[j].at \in {"read", "write", "seed"}
  /\ Return(j)
  /\ UNCHANGED <<scene, board, glances, steer, busy, drawing, over, bots>>

-----------------------------------------------------------------------------
CardTools(c) ==
  \/ CreateTask(c)
  \/ UnblockTask(c)
  \/ \E p \in Card : LinkTasks(p, c)

Looks(j) ==
  \/ Land(j) \/ LandSpecified(j) \/ SetStatusChecks(j) \/ LandChecks(j) \/ BlockLooks(j)

Writes(j) ==
  \/ Specify(j) \/ MoveUnblocks(j) \/ SetStatusWrites(j)
  \/ CompleteLanded(j) \/ BlockParks(j) \/ BlockOverwrites(j)

LandSteps(j) == Looks(j) \/ Writes(j)

GlanceSteps(j) ==
  \/ FindCard(j) \/ FileCard(j) \/ FilingFails(j) \/ OfferBriefing(j)
  \/ Vasquez(j) \/ VasquezEnds(j)

ModelSteps(j) ==
  \/ BishopStarts(j) \/ BishopAnswers(j) \/ BishopFails(j)
  \/ PartnerStarts(j) \/ PartnerFiles(j) \/ PartnerAnswers(j)
  \/ SurfaceBlocked(j) \/ OfferBlocked(j) \/ PartnerSteers(j)

EnsureSteps(j) == EnsureReads(j) \/ EnsureWrites(j) \/ EnsureSeeds(j) \/ EnsureFails(j)

Begin(j) ==
  \/ \E c \in Card, m \in scene.moves : StartTool(j, m, c)
  \/ ScheduleGlance(j) \/ Cue(j) \/ Suggest(j) \/ Partner(j) \/ EnsureBots(j)

Next ==
  \/ Dispatcher
  \/ \E c \in Card : CardTools(c)
  \/ \E j \in Job : \/ Begin(j)
                    \/ LandSteps(j) \/ GlanceSteps(j)
                    \/ ModelSteps(j) \/ EnsureSteps(j)
  \/ TurnStarts \/ TurnEnds \/ TellCall
  \/ \E b \in Bot : WriteSoul(b)

Spec == Init /\ [][Next]_vars

-----------------------------------------------------------------------------
(* Threads that file one after the other leave one open card for a title,
   whatever tools and dispatcher do to it: file_implied finds a card in any
   column but done.  Needs that nothing reopens a done card. *)
OneOpenCard ==
  \A c, d \in Card :
    title[c] # None /\ title[c] = title[d] /\ st[c] \in Open /\ st[d] \in Open => c = d

(* "Blocked lanes need dialog, not a silent park" (webrtc_kanban.py:384).  The
   signature that silences the next glance has reached Bishop or Ripley, or is
   on its way to one of them.  It does not hold: the newer of two steers takes
   the older one's place (OfferSteer), and a model that fails has lost what it
   was told. *)
OfferIsTold ==
  sig # {} => \/ told
              \/ steer = "blocked"
              \/ \E j \in Job : job[j].at \in {"bishop", "model", "tell"} /\ job[j].seen = sig

(* Nothing is lost: Bishop alone is offered the cards and no model fails; or
   Ripley alone, she answers, the call has a taker, and neither the partner, a
   briefing nor an extract has a steer that takes the place of the offer. *)
Heard ==
  \/ ~Actor("partner") /\ ~Fault("model")
  \/ /\ scene.actors \cap {"cue", "filers", "extract"} = {} /\ ~scene.steers
     /\ scene.faults \cap {"model", "taker"} = {}

(* Where nothing is lost, what the signature silences is told: cards are blocked
   and unblocked between the glance, the offer and the turn that takes it, and
   the glance of the cue and that of the partner share the signature. *)
BlockedIsTold == Heard => OfferIsTold

(* One figure is drawn at a time, and a figure that fails lets the next one
   start: the flag is up exactly while a thread is at the model. *)
VasquezAlone ==
  /\ Cardinality({j \in Job : At(j, "drawing")}) <= 1
  /\ drawing <=> \E j \in Job : At(j, "drawing")

(* A worker has a card only when the one it waits for has been done since they
   were linked, in whatever order tools and gateway move and finish both, and
   however late a tool writes what it read: the parents are looked at on every
   way to ready.  Needs that no card is linked below another while a tool has
   one in hand: _set_status reads the parents and then writes (webrtc_kanban
   .py:267, 269), and a link in between is passed over. *)
ParentsFirst ==
  \A c \in Card : st[c] = "running" /\ parent[c] # None => c \in met

(* ensure_bots does not replace a soul that the user wrote and that bears no
   mark of a template.  It does not hold for one that is written between the
   read (named_bots.py:226) and the write (339) of a soul that was stale. *)
OwnStays ==
  [][\A b \in Bot : soul[b] = "own" => soul'[b] # "current"]_vars

(* Between the runs that override a setting it is the configured one. *)
SettingsPutBack ==
  (\A j \in Job : job[j].at \notin {"model", "tools"}) => \A o \in Setting : ~over[o]
=============================================================================
