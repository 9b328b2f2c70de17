# Verification of the Hermes engine

TLA+ models of the Hermes engine (`src/hsengine/engine`), TLC runs over small
instances of them, and TLAPS proofs of what holds for every instance. Line
numbers below are those of the files in `src/`; `PROJECT.json` maps every
definition that models code to its lines.

## The system

The engine is one Python process: an asyncio event loop that serves gRPC and
WebRTC, and threads for whatever blocks (`asyncio.to_thread`, heartbeat threads,
the handover worker, a thread for each spoken line). Around it run other
processes that keep state of their own and outlive it:

- **Signals**, the engine of the workspace: activities and their leases (an
  activity nobody renews lapses after its TTL, 180 s), read by every peer;
- the **moshi supervisor**, an HTTP server that starts and stops the CUDA worker
  of the voice model on one leased GPU;
- the **preprints worker**, which uses the Mistral window while a session is up;
- the **viz server** and one **Chromium** for each session's picture;
- the **gateway** of the kanban board, whose dispatcher moves cards at any time;
- **Aegir**, which admits stretches of a call's text to the ontology;
- the **peers**: other projects that declare activities, claim GPUs, answer
  completions, and supervise this engine.

### Components

| Component | State | Modelled in | Status |
|---|---|---|---|
| Interactive posture (`interactive.py`) | `_refcount`, `_active`, `_lease`, the declared activity | `InteractivePosture` | modelled, proved in part |
| Preprints window (`signals_preprints_session.py`) | `_LEASE`, the activity, the worker | `PreprintsWindow` | modelled |
| WebRTC hub (`webrtc_session.py`) | `_pcs`, boards, takers, cameras | `WebRtcHub`, and its parts in `VoiceTurn`, `VizStage` | modelled; its tracks are not |
| Coordination watcher (`coordination.py`) | `_view`, `_handover_want`, `_handover_on`, `_restore_moshi` | `GpuHandover` | modelled, proved in part |
| Moshi supervisor (`moshi_supervisor.py`, `yk_sentinel.py`) | `_mu`, `_worker`, processes, lease files | `MoshiSupervisor` | partly, proved in part |
| Supervision stream (`supervision_bus.py`, `supervision_servicer.py`) | `_seq`, `_ring`, `_subs`, `_sessions` | `Supervision` | modelled, proved in part |
| Source drops (`source_drop.py`) | cards, `_INFLIGHT`, `_CHIP`, threads | `SourceDrop` | modelled, proved in part |
| Voice turn (`webrtc_moshi.py`, `webrtc_tts.py`, `webrtc_mix.py`, `webrtc_silence.py`) | `TurnTaker._words`, `_task`, `_busy`; `SpeechBoard._buf`, `_epoch`; `_TTS_GATE` | `VoiceTurn` | modelled, proved in part |
| Program picture (`webrtc_program.py`, `webrtc_viz.py`, `webrtc_cdp.py`, `webrtc_bokeh.py`) | `PROGRAM`, `_cameras`, scenes and panes of the viz server | `VizStage` | partly: not what the figures draw; proved in part |
| Captions, chips, consent (`webrtc_captions.py`, `webrtc_activity.py`, `webrtc_consent.py`) | boards of one frame | `ScreenRules`, `SourceDrop` | partly |
| Named bots and kanban (`named_bots.py`, `webrtc_kanban.py`, `hicks.py`, `primary_hermes.py`) | cards, pending steer, signature of the blocked, overrides, profiles | `Desk`, `DeskRules` | modelled, proved in part |
| Call memory (`session_history.py`, `sdg_session.py`) | rows, spans, frames, the memory manager | `CallMemory`, `ApertureRules` | modelled, proved in part |
| Lattice (`federation.py`, `complete.py`, `oip_*.py`, `agents.py`, `workload_catalog.py`, `mistral_platform.py`) | the status cache, runs, the sync | `Lattice`, `LatticeRules` | modelled, proved in part |
| Opening, agenda, recall (`opening.py`, `context_pack.py`, `agenda_*.py`, `recall.py`) | none: functions of the workspace | `OpeningRules` | modelled; the wording is not |
| Acknowledgements, diarization, ops table, plugins, scripts | little or none | | not modelled; reasons below and in `PROJECT.json` |

### How they interact

The hub calls `interactive.enter` when a session offers and `interactive.leave`
when its last connection is gone. `enter` counts the session, declares an
activity at Signals, has the supervisor start moshi, publishes the posture and
its lease, and reconciles the preprints window; `leave` undoes all of it when the
count reaches 0. The watcher sees every peer's activities (this engine's own
too) and stops moshi through the same supervisor while a peer claims the GPUs.
The supervisor's worker runs on a GPU that a lease file keeps for it.
A source drop touches none of these: a call, or a tool, files cards in the
board's database and starts a thread for each; the thread shows a chip on the
video through the board the hub has bound.

In a session, words reach the turn taker, which starts a turn; the turn records
what was said (call memory), asks the model over a route of the lattice, and
leaves lines to threads that share the session's speech board. The silence
director claims the same taker and asks Bishop; Bishop, the partner and the
vasquez glance leave steers and figures. A figure becomes a picture through the
viz server and the session's camera.

### What is hard here

- `enter` and `leave` run in threads and hold `_mu` only around their reads and
  writes: between these regions they wait for RPCs and for moshi, and other calls
  run. Both must leave a count, a flag, a lease and two remote states consistent
  whatever fails in between. `reconcile` takes no lock at all.
- The process may be restarted between any two steps; Signals, moshi and the
  worker remain.
- The handover worker decides with what it read earlier, while events arrive.
- A start of moshi that times out is still under way.
- A card is in the database, the thread that works on it is not: a restart or a
  failing database parts them, and the gateway moves cards by itself.
- The ring and the queues of the supervision stream overlap while a stream opens,
  and both are bounded.
- Cancelling a turn cancels a task, never the thread it waits for: what the thread
  answers is still spoken, unless the epoch it read is over.
- A show decides, awaits, and sets what the video is said to show afterwards.
- A status is cached by a thread that may have asked long ago.

`PROJECT.json` lists these and the others as hazards, each at its line with the
properties that would catch it.

### What makes each component correct

- *Posture*: the count is the number of sessions it stands for; each declared
  activity has one owner; posture, heartbeats, worker and moshi follow the
  sessions; an abandoned posture ends.
- *Hub*: enters and leaves are paired; hangups complete.
- *Handover*: a claim that lasts gets the GPUs; moshi comes back exactly if it
  served before.
- *Supervisor*: no GPU is shared, off means off, and a request never keeps the
  lock.
- *Source drops*: one extraction of a card at a time, one note of it ever,
  nothing unapproved read, a running card has a worker, a chip ends with its work.
- *Supervision*: a stream misses nothing between ring and queue, and the newest
  stream of a supervisor is the registered one.
- *Voice turn*: one owner of the taker's flag, which is always released; one line
  heard at a time; silence is silence, but for one chunk.
- *Picture*: no Chromium without an owner; the title is that of the picture; the
  picture catches up with the page.
- *Desk*: one open card for a title; parents first; the blocked are told, where the
  offer is not lost. That no offer is lost, and that what the user wrote into a
  profile stays, are promises it does not keep.
- *Call memory*: the frames are the rows; a span is stamped on what was heard; the
  reader ends.
- *Lattice*: no status is used after its time; one answer; the sync goes on.

## The modules

**PreprintsWindow** is the tail of every posture change. Its threads are the
sessions' and the engine's own (`Main`); `pc` says where each is. Every read, RPC
and write of `reconcile` is an action, because nothing is locked. An activity at
Signals is abstracted to `"none"`, `"silent"` (in force, nobody renews it) or
`"live"` (renewed by a heartbeat thread).

**InteractivePosture** extends it with `enter`, `leave`, `server.serve` and
restarts. Each region under `_mu`, RPC and supervisor request is one action:
`EnterCount`, `Reuse`, `CheckKey`, `ReleaseStale`, `Declare`, `MoshiOn`,
`MoshiCheck`, `Commit` are `enter` from top to bottom, with `MoshiFails`,
`DeclareRefused` and `UndoCount` its failures; `LeaveCounted`, `MoshiOff`,
`ReleaseHeld` and the window are `leave`. `holders` is the one history variable:
the sessions whose `enter` returned. Signals lets activities lapse (`Lapse`,
`WindowLapse`), and moshi boots or dies on its own.

**PostureContract** is what a peer may rely on, without threads, locks or RPCs:
sessions, the posture, a claim kept alive, the worker, and whether the engine
serves. `ImplementsContract` in `InteractivePosture` is the refinement.

**WebRtcHub** extends `InteractivePosture` and becomes the caller of `enter` and
`leave`. What lies between two awaits is one action; `_drop` has its three awaits
(camera, `pc.close()`, `leave`) and may run twice for one session.

**GpuHandover** is the `ActivityWatcher`: the event loop (`Apply`, `Sync`) and
the worker thread, with one action for each side of its lock and each request.

**MoshiSupervisor** has handler threads that hold `_mu` for a whole call, so what
interleaves are processes and peers: `Look` and `Pin` are the two halves of
`lease_one_gpu`, between which a peer may pin.

**Supervision** is the bus and the servicer, one action for each stretch between
two yields; the histories `start`, `sent`, `replayed`, `public`, `dropped` are
there to state the properties.

**SourceDrop** has callers of `enqueue` and worker threads. A caller has `_LOCK`
from `Enter` to its last `File`, one `File` for each scope of the URL's key
(lookup, gate, create or reuse, job); `Hold`, `Pulse` and `Spawn` start the
threads outside it. `FileFails` and `Overlook` are what a failing database does
to the loop. `create_task` with an idempotency key that exists returns the card
that is there: the one thing taken from the board's library. A worker goes from
`run` to `discard` (`Extract`), with a step wherever another thread could see it
or it could fail, then leaves `_INFLIGHT` and the chip (`Discard`, `Leave`,
`EndChip`). What an extraction does in between (fetching, summarizing) touches
nothing shared. `_mistral_paint` is three actions, because it reads its count
without a lock. A thread takes a slot when its job is filed; an activity board is
bound throughout. `approved` and `notes` are histories.

**VoiceTurn** is one session's taker, its turns and its lines. A turn is a slot
with the calls it has left (`todo`: `"speak"` is a completion that speaks its
answer, `"bishop"` one that plans what is said); its first call is in a thread.
`CancelTask` leaves the thread and forgets the rest; `Return` is the end of a
call for a task that still waits and for one that does not. `lat` says where each
line's thread is (shown, at the gate, before, in and after the synthesis), `lep`
which epoch it carries; a line of the director takes the board's epoch only when
its synthesis starts (`Late`). `Check` and `Push` are two steps, as in
`_live_boards` and `push`. The board's audio is whole frames by line, and `tail`,
whether less than a frame is left. How loud the user is, what the recogniser
hears and how many words are enough are free choices (`BargeIn`, `Heard`).

**VizStage** is the picture: shows (`job`) from the precedence check to the last
frame, one action between two awaits, the viz server (`server`, `scenes`, `pane`),
the cameras with their Chromium (`proc`, `ws`, `cast`, `page`), the decoding of
frames, and `PROGRAM` (`pic`, `live`, `kind`). `overlap` in the scene lets two
shows or a hangup come between the steps of a show. A frame is of the screencast or
of the pump (`Capture`) and may be dropped (webrtc_cdp.py:336-339), which is no
step; `pump` says whether the camera's `_frame_pump` runs. It is started with the
screencast and ends for good with the first screenshot that fails (`PumpEnds`),
while the screencast counts as on.

**Desk** is what works beside the spoken turn. `st` is the column of each card, and
the gateway's moves (`Orchestrate`, `Claim`, `WorkerEnds`, `Park`) are external.
Each call of the board's library that a tool makes is an action of its own: it
reads the card in one (`StartTool`, `Land`, `LandSpecified`, `SetStatusChecks`,
`LandChecks`, `BlockLooks`) and writes in another what it decided (`Specify`,
`MoveUnblocks`, `SetStatusWrites`, `CompleteLanded`, `BlockParks`,
`BlockOverwrites`), whatever others have done to the card in between. `met` is a
history: the cards whose parent has been done since they were linked. `sig`,
`steer` and `told` are the way of a blocked card to somebody who hears of it, the
look (`SurfaceBlocked`) and the offer (`OfferBlocked`) two actions; `over` the
global settings that a run overrides; `soul` and `config` the profiles of the bots.
A soul is `missing`, `stock` (Hermes' own), `old` (managed by the engine and
without a rule of the template), `marked` (the user's, with a mark of an old
template), `own` (the user's) or `current`; the user edits souls at any time
(`WriteSoul`), between the read and the write of `_ensure_one` too. A scene names
who is at work and whose calls come one at a time (`serial`; a link in it comes
while no tool has a card in hand).

**CallMemory** is what a call remembers: rows of the history, frames to Aegir,
its answers as spans, the stamps, and the memory manager's threads. Recording
happens on the event loop, so it is one action; every thread has its steps.

**Lattice** is completions over peers with the shared status cache, the hosted
runs, the catalogue sync and the platform calls that hold the event loop. Ages
are counted in ticks of a clock, which is read (`PlanBegins`) before the cache is;
`snap` and `age` are there to state `CachedFresh`. A stream is kept (`buffer`) until
it ends (`StreamEnds`), or until its peer says UNIMPLEMENTED and is asked for the
whole answer (`StreamRefused`), and is then sent, one result at a time
(`StreamSends`); a failure of either is completed by `complete` (`StreamFails`).
`out` is what whoever asked has got.

**LatticeRules**, **ApertureRules**, **OpeningRules**, **ScreenRules** and
**DeskRules** are the pure algorithms, as operators over small data: routes and
targets, tensors, announces; the choice of an IRI, the cut of a text into
questions; the workspace's freshness, the plan of an opening, the agenda and its
slides, recall; captions, chips, frames of sound; replies of the bots, figures
for an utterance. `OpeningChecks`, `ScreenChecks` and `DeskChecks` (and the end of
`MCMemory` and `MCLattice`) state what they compute, against definitions of what
they are for, as named assumptions over bounded arguments; TLC evaluates each with
the run whose MC module extends them. Where an assumption says that something can
go wrong (`FrameShips`, `BenchmarkIsCut`, `EmptyLabelTakesTheNext`,
`FourthIsHidden`, `AgentsAnyTime` and others), it records a divergence of the code.

The theorems are in a module beside each component's own:
**InteractivePostureProofs** (which extends `WebRtcHub`, so it speaks of the hub
too), **GpuProofs** (of `GpuHandover` and `MoshiSupervisor`, the two sides of the
GPUs), **PeersProofs** (of `Supervision` and `Lattice`, what peers are sent and
asked), **SourceDropProofs**, **VoiceTurnProofs**, **VizStageProofs**,
**DeskProofs** and **CallMemoryProofs**. Where one proofs module extends two
components, one of the two has its name before `Init`, `Next` and `Spec`
(`HandoverSpec`, `LatticeSpec`). The `MC*` modules
give the constants of the runs. Operators marked *Mutant* are plausible bugs; a
property is kept in a run only if TLC finds it violated when the mutant takes the
place of the definition it follows.

### Scenes

What may go wrong in a behaviour is chosen once, at its start, and never
changes: `scene` says who acts and which faults there are (`faults` of the
supervisor and `calm` of the handover are the same). A run so covers several
circumstances, and each property says for itself which ones it needs. A fault is
something that *may* happen:

| Fault | Meaning |
|---|---|
| `key` | the Cerebras key is missing |
| `signals` | RPCs to Signals fail, a claim is denied, renewals are refused |
| `moshi` | the supervisor refuses or times out, moshi dies |
| `slow` | moshi takes longer to start than the lease lives |
| `sdp` | the offer fails after `enter` |
| `restart` | the engine stops, or crashes and starts again |
| `board`, `restart` (drops) | a call of the board's database fails; the engine starts again with its cards |
| `config`, `slow`, `stubborn`, `crash` (supervisor) | no configuration; start over 300 s; worker killed without waiting; supervisor killed |
| `model`, `tts`, `stt` (voice) | a model call raises; the speech server breaks off; the recogniser's socket closes |
| `server`, `chromium`, `paint` (picture) | the viz server dies; Chromium or its socket fails; a page has no frame |
| `db`, `model`, `disk`, `taker` (desk) | the board, a model or the profiles' disk fails; no call is there to take a steer |
| `halfway`, `send` (lattice) | a peer says UNIMPLEMENTED after a chunk; sending the answer fails |
| `db`, `rpc` (memory) | the history's database or the stream to Aegir fails |

## The runs

| Run | Instance | Shows |
|---|---|---|
| `posture` | 3 sessions, 3 activities, 4 scenes, symmetric | `RefcountExact` and `LeaseOwnedOnce` at every step, also of overlapping calls; between serial calls posture, worker and moshi (`FollowsHolders`) and the heartbeats (`HeartbeatsOwned`) follow the sessions |
| `hub` | 2 sessions, 2 activities, 3 scenes, fair | liveness: `HangupCompletes`, `AbandonedPostureEnds`; the refinement `ImplementsContract` |
| `handover` | 2 claiming peers, 1 failing request, calm and not, fair | `HandoverYields`, `RestoreOnlyIfServing`, `MoshiRestored` when calm; `HandoverFollows` always |
| `moshi` | 2 requests, 2 workers, 2 GPUs, 3 scenes, fair | `GpuNotShared`, `OffLeavesNothing` in the scenes they name; `WorkerLeased`, `RequestsReturn` in all |
| `supervise` | 2 streams, 2 supervisors, ring and queues of 2, 3 events beside the serving status, fair | `NoGap`, `ConnectedIsOpen`, `SupersededEnds` |
| `drop` | a preprint and a PDF that needs approval, 2 callers, 3 threads, 3 scenes, symmetric | `OneExtract`, `NotesOnce`, `ApprovedFirst`, `HicksEnds`, `RunningOwned` |
| `turn` | 2 turns, 2 lines, a board of 2 frames, 1 interrupt, 5 scenes, fair | `BusyExact`, `StaleIsBounded`, `OneVoice`; liveness: `BusyReleased` |
| `viz` | 1 session, 3 cameras, 2 shows at a time of 3 in all, 2 figures, 5 scenes, fair | `ChromiumOwned`, `TitleMatches` in the scenes they name; liveness: `PictureCatchesUp`, of cameras whose pump runs; `ScreenChecks` |
| `desk` | 3 cards, 2 jobs, 11 scenes, symmetric | `OneOpenCard`, filings one after the other; `BlockedIsTold` in the scenes where nothing is lost (`Heard`); `ParentsFirst`, links between the tools; `DeskChecks` |
| `memory` | 3 rows of 2 texts, a window of 2, 1 answer, 2 sessions of the memory, 4 scenes, fair | `FramesFaithful`, `StampFindsRow`; liveness: `ReaderEnds`; `OpeningChecks` and the checks of the aperture |
| `lattice` | 2 peers, 2 completions, 2 runs, 3 ticks, a time to live of 2, 8 scenes, fair | `CachedFresh`; `OneAnswer` in the scenes without `halfway` and `send`; liveness: `SyncSurvives`; the checks of the rules |
| `hub_two` | violation | `LastHangupLeaves`: two sessions, one leave |

Each module has a type invariant (`TypeOK`, `HubTypeOK`) and some properties that
no run has; they held when last checked and serve the proofs and whoever changes a
module: `UpKeepsPosture`, `LeaveIsPaired`, `SampleTaken` (proved), `OneToken`,
`SentInOrder`, `PriorWhole`, `LinksKept`, `VasquezAlone`,
`DeniedTriedAll`, `RunningIsReal`. Others do not hold and document a divergence
(below, with how to see it).

### Bounds

- *Sessions and activities.* Three sessions let one enter, one join and one leave
  at once; three activities are the recorded lease, one in a thread and one not
  yet lapsed. The hub has two of each, because its properties are temporal: two
  sessions are the fewest in which one hangs up under the other.
- `MaxCalls` (`scene.calls`) bounds calls in flight; 2 is the smallest overlap,
  and every known divergence of overlapping calls needs only 2.
- `MaxCount` bounds the count a missing key can leak; `MaxUp` the sessions
  between offer and hangup; `MaxFail` the failed requests of the handover.
- Supervisor: `Proc` bounds workers that exist at once. `Spare` lets an activate
  begin only while a worker can be started. With two GPUs a peer and the worker
  can hold everything.
- Supervision: `MaxSeq` bounds events; queue and ring of 2 overflow within it.
  The code's bounds are larger, but nothing in it depends on their size.
- Drops: two callers are an overlap of `enqueue` with itself. Three threads are
  both scopes of one key and one of the other, or one that is leaving while its
  card is asked for again. A caller waits (in the model) until there is a slot for
  its jobs. A preprint and an unapproved PDF take every branch of `enqueue` and of
  `_run`; a page that is no PDF is a PDF that was approved. `MaxFailures` is 1: one
  failure is enough for each divergence below.
- Voice: two turns are one that was cancelled and the one after it, or a spoken
  and a typed one; two lines are one heard and one at the gate, and slots are used
  again as soon as nothing of the line is on the board. `MaxEpoch` 1 is one
  interrupt, after which everything may go on; the theorems are for any number. A
  board of two frames overflows. A turn waits (in the model) for a free slot.
- Picture: three cameras are one failed, one replaced and one new; three shows
  reach every order of a figure, a board and another figure. One Connect and the
  anonymous session are the two owners a camera can have.
- Desk: three cards are two of one title and a parent; two jobs are an overlap of
  any two actors. There is one title and one reason to block, because only their
  equality is compared. The two scenes with links have two moves each: one that goes
  by the parents (`ready`, `complete`) and one that takes a card back or round them
  (`todo`, `review`); one tool's late write meets the other's and the gateway's.
- Memory: three rows are a turn, its answer and the next turn, one more than the
  window. One answer to the text is enough for a stamp; two callers of the manager
  are an overlap.
- Lattice: two completions share the cache; three ticks pass a time to live of 2;
  two peers make the walk go on after a failure. A stream has one chunk, which is
  as many as tell a part from the whole.
- The checks of the rules name their own small arguments.

`hub`, `hub_two`, `supervise`, `turn`, `viz`, `desk`, `memory` and `lattice`
disable the deadlock check: what they are given to do is bounded, so those
instances stop.

### Fairness

A call that has started runs on (its thread is scheduled, and every RPC has a
timeout), the event loop runs on, Signals lets a silent activity lapse, a booting
moshi serves or exits, an engine that stops exits and is started by its service,
Signals sends an event at least every 60 s (`Apply`), a killed process dies.
A model call ends, because its client has a timeout of 120 s (`turn`); a show goes
on, because every wait in it has a timeout, and a camera whose pump runs delivers
frames, because the pump takes screenshots of a page that does not change, several
a second, until one is not dropped; a pump that has ended gives nothing (`viz`);
Aegir ends the RPC of a call that has ended (`memory`); Mistral and Gaius answer or
time out (`lattice`).
Nobody is obliged to call, to hang up, to speak, to send an event or to suffer a
fault. Weak fairness is enough everywhere but for the sync of the catalogue: it is
a task of an event loop that platform calls take again and again, so it is
runnable infinitely often and not for good. The loop runs what is ready in order,
which is strong fairness for its steps. The supervisor's lock is not assumed fair:
`RequestsReturn` speaks of requests that have got it. The contract's worker
fairness is claimed only without restarts: an engine that restarts for ever need
never reach its reconcile.

## The proofs

Each theorem is about all constants: any sessions, activities, peers, GPUs, cards,
bounds and scenes that satisfy the named assumptions of the component (identities
are distinct, the sets that are counted are finite, bounds are natural numbers).
A safety proof has the same shape everywhere: an inductive invariant, a lemma that
`Init` implies it, one lemma or step for each action, and the property from it.
What an invariant has to say beyond the property is where the argument is.

### The posture and the hub

- `TypeCorrect`: the types of the posture are invariant.
- `RefcountCorrect`: `RefcountExact`. The count alone is not inductive: undoing
  an enter must remove exactly one session from those counted, which fails if an
  entering session is also a holder. `CountInv` adds `EntersAreNew`, that it is
  not. Each action then adds one element to the counted set, removes one, or
  keeps it (`CountUp`, `CountDown`), and the cardinality theorems do the rest.
- `LeaseOwned`: `LeaseOwnedOnce`. `LeaseInv` adds `HeldInv`, at which places a
  thread's local lease is empty and at which it is not, and `MainIdle`, that the
  engine's own thread is outside any call while it serves, so the leave of the
  engine stop starts with an empty local. `OwnStep` settles every step that takes
  no activity over; `Declare`, `UndoCount`, `Commit` and the leave are the rest.
- `PostureIsFollowed`, `HeartbeatsAreOwned`: what is true between calls that do
  not overlap (`Serial`, a hypothesis inside the properties). Nothing can be said
  between calls without saying what is true inside them: `CallInv` says that one
  thread is inside a call (`Alone`), and `At`, for each label of that thread, what
  the flag, the heartbeats, the window, the count and moshi are when it is there.
  Each action leads from its label's assertion to the next one's; a call begins
  where `BetweenCalls` holds and ends where it holds again. An engine that stops
  is excepted: its last leave overlaps whatever is in flight.
- `PostureImplementsContract`: `Spec /\ Serial /\ Keyed => Contract!Spec`, the
  initial states and, for each action, the step of `PostureContract` it is or the
  stutter. `Serial` (no two calls overlap) and `Keyed` (the Cerebras key is there)
  are the two conditions under which the code keeps the contract: the properties
  of the findings fail without them. What an engine that stops still needs is in
  `SessionInv`: from the look at the key to its commit no heartbeat runs and, with
  the key there, nobody holds.
- `HubImplementsPosture`: `HubSpec => Spec`. Each action of the hub is an action of
  the posture or changes nothing of it, and it takes the posture's actions only
  where they are enabled; so every theorem above holds of the hub's behaviours, and
  `HubImplementsContract` follows. `HubLeavesItsOwn`: `LeaveIsPaired`, from the
  stages at which a session has the posture, since the drop of a session may run
  twice and only one of the two leaves.

### Handovers, the supervisor and the supervision stream

- `SampleIsTaken`: `SampleTaken`, with the types as its strengthening.
- `CalmHandoverYields`, `CalmRestore`, `CalmHandoverRestores`: from `CalmInv`, which
  says of an undisturbed handover that a view under decision is the truth, what the
  worker was started for is still wanted, what it has done is on record or about to
  be, and the sample is the state at the beginning. The restart of moshi needs
  `RestoreInv` too: until all is settled the engine is connected and its view is the
  truth, so the worker sees that our session runs, and a moshi that served is down
  only while the handover has it stopped.
- `WorkerIsLeased`: `WorkerLeased` under every fault. Inductive with `Inside`
  (whoever is in a call holds the lock), `PickedLeased` (the GPU picked is
  leased until the worker starts) and `ReleaseAlone` (a release finds no worker).
- `GpuIsNotShared`, `OffLeavesNothingBehind`: with no fault but a missing
  configuration, as the properties say. `Sole` adds that no process lives but the
  worker (`SoleWorker`), none while a GPU is looked for (`StartsAlone`), that a
  booting worker has a call that waits for it (`BootIsAwaited`, which is what a slow
  start breaks) and that no lease is stale.
- `NoGapIsLeft`: `NoGap`. `StreamInv` has the ring's numbers (`RingInv`: the last
  ones, without a gap) and `Owed`: what an open stream owes is sent, replayed or in
  its queue, unless an event was dropped from that. `PublishKeeps` is what a publication does to both.
- `ConnectedStreamIsOpen`: `ConnectedIsOpen`, with `Subscribed`, that an open stream
  is on the bus, so that the Goodbye of its replacement reaches its queue.

### Drops and turns

- `OneExtractAtATime`, `NothingUnapproved`: `OneExtract` and `ApprovedFirst` of
  the drops, for any keys, callers, threads and failures. `DropInv` adds what
  binds a thread to its job: a caller in the loop has its key, and the
  approval it carries is on record (`AskInv`), a thread with an owner has not
  started and a working one has a filed card (`JobInv`), a working thread's card is
  in flight and, while the database has not failed, unshared (`FlightInv`), and a
  thread on a gated key has an approval on record (`ApprovalInv`). A job is filed
  only for a card that is new or no longer in flight, and only the last thread of a
  card takes it out of flight.
- `OneNoteIsWritten`, `RunningIsOwned`: `NotesOnce` and `RunningOwned`. `NoteInv`
  says that a card with its note is running or done and that no thread of it is
  before its completion; `RunsInv` that, while the database answers, the card of a
  thread that has not settled it is running.
- `HicksIsEnded`: `HicksEnds`. The count of the chip is the cardinality of the slots
  held (`ChipInv`), each from the hold of its call to its own leave; the chip is
  shown only over a slot held or a thread that is about to end it.
- `FlagIsExact`: `BusyExact` of the voice turn. `TurnInv` adds `FlushOwns`, that
  the task the taker knows is a spoken turn that is awaited (so clearing the flag
  with its cancellation clears its own flag), and `AwaitedCalls`, that a turn that
  is awaited has a call (so no slot is given away under it). One lemma for each
  way a turn changes: it returns, it claims, it is cancelled, it is typed.
- `OneVoiceIsHeard`, `StaleChunkIsOne`: `OneVoice` and `StaleIsBounded`, for any
  number of turns, lines, interrupts and any size of the board. `LineInv` adds
  `OneHolder` (the gate is exclusive), `Unqueued` (a line has nothing on the board
  before its synthesis answers) and `Drained`: with a stale chunk on the board, a
  line that is about to push carries the epoch that is. `PushedShape` is what a
  push makes of the board, `GoKeepsLines` settles every step of one line.
### The picture

- `VizTypeCorrect`: the types, and of each show what it knows at its step.
- `ChromiumsAreOwned`: `ChromiumOwned` under every fault, as long as no call ends
  under its shows. `Owners` says that a camera belongs to one session for good, that
  a show has the camera of its session from its registration on, and that a process
  that runs is a registered camera: the code registers a camera before it starts it,
  so no failure in between loses the process.
- `TitleIsShown`: `TitleMatches`, for any figures, sessions and number of shows, in the
  scenes the property names: shows one after the other, no fault but of the viz server,
  no `viz_clear` where boards are asked for. It speaks of the moments without a show; a restart of the viz server, a
  figure drawn on a page that is not shown any more, or a board between two figures
  would show only later. `TitleInv` has five parts, each of which needs the ones
  before. `Serial`: a show is alone, of the oldest call, and no other session has a
  camera. `Panes`: the viz server's pane of a session is on the page of its camera,
  though neither a hangup nor a board takes it away. `Cams`: a camera at rest delivers
  frames or was never loaded, so a show that comes to its end has a frame and does set
  the title. `Boards`: no pane is on the board, because as long as nothing clears the
  video a pane means a figure on the video or on its way, for which the board stands
  back (`kanban_would_cover_figure`). `Title`: from step to step, what the page has is
  the old title or the new one. With boards and a `viz_clear`, `Boards` fails, and with
  it the title (`FigureTakesVideo`, below).

### The desk

- `DeskTypeCorrect`: the types of the desk.
- `ParentsGoFirst`: `LinksApart => (Spec => []ParentsFirst)`. The hypothesis is about
  the scenes: where cards are linked, no tool has one in hand meanwhile. `MetInv` says
  that a card whose parent is done has met it, that one that is ready or running has,
  and that one has which a tool has checked and is about to write to ready. The last
  is what makes late writes harmless: however the card, its parent and other tools
  move between the check and the write, what was met stays met. A card that is linked
  in between has met nothing, hence the hypothesis. What is claimed is that the
  parent *has been* done; a tool that reopens it leaves its child ready.
- `OneCardIsOpen`: `FiledInTurn => (Spec => []OneOpenCard)`. `FiledInv` says that a
  thread that is about to create a card has found none open. The hypothesis: threads
  that file come one after the other, and where they file nothing reopens a card
  (moves to triage, todo, ready or review, and the tool block, whose write looks at no
  column) and no card waits for another. The code has a thread for each utterance,
  and only the pace of a conversation keeps them apart.
- `BlockedCardsAreTold`: `BlockedIsTold`. `ToldInv` says where the cards of the call
  come from and that only the partner offers them as a steer. `Heard`, in the
  property, names the scenes in which the code makes sure that an offer arrives: only
  Bishop is offered it and his model answers; or only Ripley is, she answers, the call
  has a taker, and no other steer takes the place of hers. In all others
  `OfferIsTold`, without the condition, fails; the table below has the ways.

The two hypotheses hold of every scene of the run `desk`, so `ParentsGoFirst` and
`OneCardIsOpen` speak of what is checked there.

### The memory

- `AegirHearsAll`: `FramesFaithful`, for any rows, texts and failures of the database
  and of the stream. `FrameInv` says that what Aegir has is numbered from the first
  span, and that until the call is over the queue goes on exactly there, with one
  frame for each span that is left: then what is sent next has the next number. Once
  the stream is popped no span is added, so the end frame comes after the last one
  and a Stop after all that was said (`InPlace`). The stamps write spans while the
  frames are under way; `Linked` changes neither their number nor their text.
- `StampsFindTheirRow`: `StampFindsRow`. `RowInv` is the property with the shape of
  rows and spans: an order-preserving map from the spans to the rows with the same
  role and text. A row that the database refuses adds nothing, a row on a dead stream
  adds no span, every other adds both and extends the map; a stamp keeps it.

### The peers

- `CacheIsFresh`, `AnsweredOnce`: `CachedFresh` and `OneAnswer` of the completions.
  `LatticeInv` orders the clocks: a Status is stamped before it is asked for, given
  before it is stored, and read from the cache within its time to live of the stamp;
  so however long a peer takes, the age counts from the earlier of the two. In the
  scenes without `halfway` and `send`, nothing is sent before a completion is done or
  its stream is over, and what is sent and what is kept of a stream are together one
  thing, the chunks or the whole answer; a stream that fails sends nothing of what it
  kept.

`SlotAssumption` (the slots of the drops are a finite set, as threads are) is the one
assumption that only a proof needs.

Every invariant and action property of a passing run is stated by a theorem. Only
model-checked:

- everything temporal beyond safety: `HangupCompletes`, `AbandonedPostureEnds`,
  `HandoverFollows`, `RequestsReturn`, `SupersededEnds`, `BusyReleased`,
  `PictureCatchesUp`, `ReaderEnds`, `SyncSurvives`, and the fairness of
  `ImplementsContract` as the run checks it: liveness is out of the prover's reach;
- the rules, evaluated over bounded arguments: what a recursive function computes
  for every argument is an induction over data, which the prover cannot do.

## Where code and documentation disagree

`hub_two` shows the first. The others were found when a property was stated
without the exception it has now, or by a property that does not hold, or read
in the code while it was modelled. The last column says how to see it: the run to
start from, what to change in its configuration, and the property that takes the
place of the run's (*scenes* names the definition for `Scenes <-`); or the
definition that models it, or the assumption that records it. Where the column is
empty, the sentence is a reading of the code that the model follows, or that its
module's comment names as left out.

| Where | What happens | Against | To see it |
|---|---|---|---|
| `webrtc_session.py:582` | enter per session, leave once for all | `interactive.py:3` | `hub_two` |
| `coordination.py:764` | a wish that changes during a request is not recorded, and equals the old record again | `coordination.py:703` | `handover`, one peer, `MaxFail = 0`: `HandoverAlwaysYields` |
| `moshi_supervisor.py:240` | a booting worker is overwritten | `moshi_supervisor.py:3-4` | `moshi`, `N = 3`, scenes `MCSlow`: `OffAlwaysLeavesNothing` |
| `supervision_bus.py:90` | private events enter the shared ring | `supervision_servicer.py:164` | `supervise`, one supervisor, `QMax = 3`, `RMax = 4`, `MaxSeq = 4`: `GoodbyeToSuperseded` |
| `webrtc_activity.py:204` | the chip is painted by a count read earlier: a begin may come after the last end | `tests/hsengine/test_webrtc_activity.py:34` | `drop`, `Curated = {k1, k2}`, `Pdf = {}`, four slots, scenes `MCPapers`: `MistralChipEnds` |
| `webrtc_mix.py:252` | a chunk pushed after an interrupt leaves a tail that nobody closes; the director stays quiet | `webrtc_mix.py:250-251` | `turn`, `MaxEpoch = 2`, scenes `MCTyped`: `TailIsPlayed` |
| `webrtc_viz.py:219` | after `viz_clear` a figure is drawn in place while the camera is on the board | `hicks.py:104` | `viz`, `MaxShow = 4`, scenes `MCClear`: `FigureTakesVideo` |
| `primary_hermes.py:108` | the offer of the blocked cards is lost, and their signature silences the next: the partner's own steer takes its place (`primary_hermes.py:186`), or Bishop's (`webrtc_silence.py:305`), a briefing's (`market_session.py:203`) or an extract's (`source_drop.py:1467`); the call has no taker (`primary_hermes.py:104`); Bishop's model fails with it (`webrtc_silence.py:336`), or the turn that took it does (`webrtc_moshi.py:511`) | `webrtc_kanban.py:384` | `desk`, scenes `MCPartner`: `OfferIsTold`; the others: `desk`, `OfferIsTold` |
| `named_bots.py:339` | a soul that the user writes between the read and the write is lost | `tests/hsengine/test_named_bots.py:191` | `desk`, scenes `MCUser`: `OwnStays` |
| `webrtc_kanban.py:269` | a card linked below an open one after the check of its parents goes to ready all the same | `webrtc_kanban.py:267` | `desk`, scenes `MCLateLinks`: `ParentsFirst` |
| `webrtc_cdp.py:461` | the first screenshot that fails ends the pump for good; a last frame that is dropped (336-339) then leaves the video on an older page | `webrtc_cdp.py:444` | `viz`, `Show = {t1}`, `MaxShow = 2`, scenes `MCStill`: `PictureAlwaysCatchesUp` |
| `oip_client.py:207`, `oip_servicer.py:171` | UNIMPLEMENTED after chunks, or a send that fails, gives whoever asks two answers | `oip_client.py:208` | `lattice`: `OneAnswer` without its condition |
| `source_drop.py:363` | the database fails after the note is written: the card is blocked, and the source dropped again gets a second note | `source_drop.py:14-15` | `drop`: `NotesOnce` without its condition |
| `named_bots.py:437` | of two overlapping overrides the second restores the first one's | `named_bots.py:434`, `primary_hermes.py:27` | `desk`, scenes `MCBishops`: `SettingsPutBack` |
| `session_history.py:250` | a line of the opening that is recorded meanwhile leaves the utterance in its own history | `session_history.py:232-233` | `memory`, scenes `MCOpening`: `NotTwice` |
| `session_history.py:355` | two calls' threads switch the manager and note the session in different orders | | `memory`, scenes `MCSessions`: `MemoryFollows` |
| `agents.py:236` | the end of a run overwrites its cancellation | | `lattice`: `CancelHolds` |
| `interactive.py:722` | a missing key raises after the count and before the `try` | `interactive.py:3`, `705-706` | |
| `interactive.py:727` | the first heartbeat may come after 330 s, the TTL is 180 s | `coordination.py:333-334` | |
| `interactive.py:740` | of two first enters, the second overwrites the lease of the first, whose heartbeat never stops | `interactive.py:12-13` | |
| `interactive.py:730` | a failed enter clears the posture another one has set | `interactive.py:3` | |
| `signals_preprints_session.py:153` | the reconcile of an enter may start the worker after that of the last hangup stopped it | `signals_preprints_session.py:3-5` | |
| `webrtc_session.py:193` | a denied offer leaves its connection recorded: no later hangup is the last | `interactive.py:3` | |
| `webrtc_session.py:562` | a hangup unbinds the board of another session | `webrtc_activity.py:3` | |
| `coordination.py:707`, `714` | a sample is reused by the next handover, or given up when the session is seen late | `coordination.py:707-708` | |
| `moshi_supervisor.py:231` | a configuration error after the lease leaks the token | `yk_sentinel.py:131` | |
| `moshi_supervisor.py:279` | releasing the leases frees the GPU of an orphan | `yk_sentinel.py:9-10` | |
| `supervision_bus.py:115` | a full queue drops answers to directives too | `supervision_servicer.py:7` | |
| `source_drop.py:1447-1459` | the last thread ends the Hicks chip outside the lock, after another call has held it: the chip is off while an extraction runs | `source_drop.py:1430` | |
| `source_drop.py:254` | the database fails in the loop of `enqueue`: the card filed before stays running, in flight, without a thread | `source_drop.py:192` | |
| `source_drop.py:247` | after a restart a running card is reused as it is: nothing works on it again | `source_drop.py:192` | |
| `source_drop.py:172-177` | a PDF whose URL has no `.pdf` path is read without approval | `source_drop.py:17-18` | |
| `webrtc_moshi.py:417` | the task that is cancelled may be running the turn | its docstring | `CancelTask` of `VoiceTurn` |
| `webrtc_viz.py:229`, `113` | a camera whose start failed stays registered, and every later show fails | | `UseCamera` of `VizStage` |
| `hicks.py:162` | two filings at once make two cards | `hicks.py:137` | `desk`, a scene with `filers` whose `serial` is empty: `OneOpenCard` |
| `named_bots.py:629` | a retry with a stock phrase is taken | `opening_tropes.py:3-5` | `FrameShips` |
| `named_bots.py:411` | an empty label takes the next line | | `EmptyLabelTakesTheNext` |
| `mistral_agents.py:151` | an agent runs the workflow outside a call | `mistral_platform.py:147` | `AgentsAnyTime` |
| `sdg_iris.py:78` | where nothing was offered, everything is | `sdg_iris.py:73` | `OfferedOnly` |
| `agenda_deck.py:57` | a heading inside the deck ends it, the rest is public | `agenda_deck.py:3-5` | `PartsOfABody` |
| `opening.py:264` | a pinned headline is a gesture too many | `opening.py:56-57` | `HeadlineIsPinned` |
| `system_one.py:120` | answers are paired with stretches by their order | | `AnswersInOrder` |

Smaller ones, seen while modelling: the answer of a cancelled turn is spoken and
not recorded; the beats of one turn read a fresh epoch each, so a stop in the
middle does not silence the rest; a turn that finds the taker busy keeps its words
until the next word; shows that overlap, and shows whose session hangs up, leave a
wrong title and an orphan Chromium; `PROGRAM` outlives the call; `ensure_bots`
stops at the first bot that fails, replaces a soul of the user's that bears a mark of
an old template (`named_bots.py:241-251`, `289-302`) or a managed one he edited, and
overwrites Hicks' model and toolsets unless they are his own (162-169); of rows with
the same role and text a stamp takes the latest; the functions of `webrtc_kanban.py` that move
cards, `desk_for_turn` and `surface_for_turn` have no caller but each other and the
tests; a benchmark over six companies or more loses SPY; announces with a time to
live of 1 to 15 s lapse between heartbeats; platform calls run on the event loop;
`_runs` is never pruned; a heartbeat after the end of a chip begins it again; only
three chips are drawn; the age of inbound media is one number for all sessions;
a workspace with an agenda alone is always stale.

## Not modelled

Texts, wording and logging, `webrtc_ack.py` among them; the contents of activities
beyond owner and kind; the tracks of a session; heartbeats of an idle supervision
stream; the transitions the watcher publishes; the signal handler and
`kill_moshi` of the supervisor; archived cards, and drops filed by another
process, which has an `_INFLIGHT` of its own; what figures draw
(`webrtc_viz_apps.py`) and the pages of the board; the timeout of a show, after
which its coroutine runs on; diarization, whose labels nothing but a caption
reads, though its worker keeps its GPU when the lease is gone (a hazard in
`PROJECT.json`); the table of tools in `ops.py` beside the two that change the
desk: each is one call of a component above or of an external service; plugins and
scripts, which run in other processes; generated code. What hermes_cli does to a
card, what Cerebras, Aegir, Mistral and Chromium answer is external: modelled from
how the engine uses it, marked so in `PROJECT.json`, and free where the engine
does not rely on it.

## What could follow

1. The hub's boards and cameras composed with `VoiceTurn` and `VizStage` for two
   sessions at once.
2. A divergence whose code is corrected turns its property, or the case that was
   excepted from one, into a property of the passing run.
