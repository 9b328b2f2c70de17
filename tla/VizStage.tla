------------------------------- MODULE VizStage -------------------------------
(***************************************************************************)
(* The picture of a call: a show puts a HoloViews figure or the kanban     *)
(* board on the video.  It is a coroutine of the engine's loop; between    *)
(* its awaits run other shows, the frames of the cameras, viz_clear, and   *)
(* the end of the call.  One viz server draws for all sessions, each       *)
(* session has a camera (a Chromium), and all cameras push their frames    *)
(* into the one ProgramBoard.                                              *)
(*                                                                         *)
(* A figure names a scene: its kind, title and data.                       *)
(***************************************************************************)
EXTENDS Integers, Sequences, FiniteSets

CONSTANTS Session,   \* Connects
          Anon,      \* the session of a show when nobody is connected
          Cam,       \* slots for camera objects
          Show,      \* slots for shows under way
          Figure, Kanban, None,
          MaxShow,   \* bound: the shows
          Scenes     \* what is asked for, and the faults

Picture == Figure \cup {Kanban}
Sid == Session \cup {Anon}

ASSUME NamesAssumption ==
  /\ Anon \notin Session
  /\ Kanban \notin Figure
  /\ None \notin Picture \cup Cam \cup Sid
ASSUME BoundAssumption == MaxShow \in Nat
ASSUME ScenesAssumption ==
  Scenes \subseteq [asks : SUBSET (Picture \cup {"clear"}),
                    overlap : BOOLEAN,
                    faults : SUBSET {"server", "chromium", "paint"}]

VARIABLES scene,
          pcs,       \* HUB._pcs, in the order of their offers
          call,      \* where each session is
          shows,     \* bound: the shows so far
          job,       \* each show: its step and its locals
          server,    \* the viz server, under _mu
          scenes,    \* SCENES of the viz server
          pane,      \* PANES of the viz server: the camera whose page has it
          cameras,   \* _cameras
          owner, proc, ws, cast,           \* CdpCamera
          pump,      \* _pump_task runs
          page,      \* what its Chromium shows
          blob,      \* the frame being decoded; None: not _decode_busy
          image,     \* latest_image
          pic, live, kind                  \* PROGRAM

calls == <<pcs, call>>
tasks == <<shows, job>>
viz == <<server, scenes, pane>>
camera == <<cameras, owner, proc, ws, cast, pump, page, blob, image>>
program == <<pic, live, kind>>
vars == <<scene, calls, tasks, viz, camera, program>>

Steps == {"idle", "check", "server", "boot", "publish", "camera", "spawn",
          "connect", "navigate", "cast", "frame", "settle"}

Idle == [step |-> "idle", sid |-> Anon, want |-> None, mine |-> None, inPlace |-> FALSE]

TypeOK ==
  /\ scene \in Scenes
  /\ pcs \in Seq(Session)
  /\ call \in [Session -> {"new", "up", "closing", "gone"}]
  /\ shows \in Nat
  /\ job \in [Show -> [step : Steps, sid : Sid, want : Picture \cup {None},
                      mine : Cam \cup {None}, inPlace : BOOLEAN]]
  /\ server \in {"down", "boot", "up"}
  /\ scenes \in [Sid -> Figure \cup {None}]
  /\ pane \in [Sid -> Cam \cup {None}]
  /\ cameras \in [Sid -> Cam \cup {None}]
  /\ owner \in [Cam -> Sid \cup {None}]
  /\ {proc, ws, cast, pump} \subseteq [Cam -> BOOLEAN]
  /\ {page, blob, image} \subseteq [Cam -> Picture \cup {None}]
  /\ pic \in Picture \cup {None}
  /\ live \in BOOLEAN
  /\ kind \in Picture \cup {None}

Init ==
  /\ scene \in Scenes
  /\ pcs = <<>> /\ shows = 0
  /\ call = [s \in Session |-> "new"]
  /\ job = [t \in Show |-> Idle]
  /\ server = "down"
  /\ scenes = [s \in Sid |-> None]
  /\ pane = [s \in Sid |-> None]
  /\ cameras = [s \in Sid |-> None]
  /\ owner = [c \in Cam |-> None]
  /\ proc = [c \in Cam |-> FALSE]
  /\ ws = [c \in Cam |-> FALSE]
  /\ cast = [c \in Cam |-> FALSE]
  /\ pump = [c \in Cam |-> FALSE]
  /\ page = [c \in Cam |-> None]
  /\ blob = [c \in Cam |-> None]
  /\ image = [c \in Cam |-> None]
  /\ pic = None /\ live = FALSE /\ kind = None

Fault(f) == f \in scene.faults
UnderWay(t) == job[t].step # "idle"
At(t, label) == job[t].step = label
Goto(t, label) == job' = [job EXCEPT ![t].step = label]
Return(t) == job' = [job EXCEPT ![t] = Idle]

-----------------------------------------------------------------------------
(* ProgramBoard.  The fade only delays what live says. *)

SetProgram(p, k) == pic' = p /\ live' = TRUE /\ kind' = k

(* The kind stays. *)
ClearProgram == pic' = None /\ live' = FALSE /\ UNCHANGED kind

ReplaceImage(p) == pic' = p /\ UNCHANGED <<live, kind>>

ProgramLive == pic # None /\ live

(* mix_frame: without a live picture the clip is shown. *)
OnVideo == IF ProgramLive THEN pic ELSE None

-----------------------------------------------------------------------------
(* The calls *)

(* _session_id: the oldest call that is left. *)
SessionId == IF pcs = <<>> THEN Anon ELSE Head(pcs)

Call(s, was, is) == call[s] = was /\ call' = [call EXCEPT ![s] = is]

(* The calls' own locks and messages are in WebRtcHub. *)
Offer(s) ==
  /\ Call(s, "new", "up")
  /\ pcs' = Append(pcs, s)
  /\ UNCHANGED <<scene, tasks, viz, camera, program>>

(* stop_screencast: the pump is cancelled. *)
StopScreencast(c) ==
  /\ cast' = [cast EXCEPT ![c] = FALSE]
  /\ pump' = [pump EXCEPT ![c] = FALSE]

(* Mutant: a camera that sends no frames is taken for one that was never
   started. *)
CloseCast(c) ==
  /\ StopScreencast(c)
  /\ ws' = [ws EXCEPT ![c] = @ /\ ~cast[c]]
  /\ proc' = [proc EXCEPT ![c] = @ /\ ~cast[c]]

(* close: the screencast ends, then the socket, then the process. *)
CloseCamera(c) ==
  /\ StopScreencast(c)
  /\ ws' = [ws EXCEPT ![c] = FALSE]
  /\ proc' = [proc EXCEPT ![c] = FALSE]

(* close_session: drop_session clears the engine's own PANES and SCENES, not
   the viz server's. *)
CloseSession(s) ==
  /\ Call(s, "up", "closing")
  /\ scene.overlap \/ \A t \in Show : UnderWay(t) => job[t].sid # s
  /\ cameras' = [cameras EXCEPT ![s] = None]
  /\ IF cameras[s] = None THEN UNCHANGED <<cast, pump, ws, proc>>
     ELSE CloseCamera(cameras[s])
  /\ UNCHANGED <<scene, pcs, tasks, viz, owner, page, blob, image, program>>

(* _drop after close_session: the session leaves _pcs; PROGRAM stays as it
   is. *)
Dropped(s) ==
  /\ Call(s, "closing", "gone")
  /\ \E k \in 1..Len(pcs) :
       /\ pcs[k] = s
       /\ pcs' = SubSeq(pcs, 1, k - 1) \o SubSeq(pcs, k + 1, Len(pcs))
  /\ UNCHANGED <<scene, tasks, viz, camera, program>>

-----------------------------------------------------------------------------
(* A show *)

(* show and select *)
Asked == scene.asks \cap Picture

(* try_live, in the thread of the tool: show, select, or a board that is
   refreshed. *)
Request(t) ==
  /\ ~UnderWay(t)
  /\ t = CHOOSE r \in Show : ~UnderWay(r)
  /\ shows < MaxShow
  /\ scene.overlap
     \/ /\ \A r \in Show : ~UnderWay(r)
        /\ SessionId \in Session => call[SessionId] = "up"
  /\ shows' = shows + 1
  /\ \E w \in Asked :
       job' = [job EXCEPT ![t] = [Idle EXCEPT !.step = "check", !.sid = SessionId,
                                              !.want = w]]
  /\ UNCHANGED <<scene, calls, viz, camera, program>>

(* kanban_would_cover_figure *)
KanbanWouldCoverFigure(w) ==
  /\ w = Kanban
  /\ ProgramLive
  /\ kind \notin {None, Kanban}

(* _show_live begins: a figure on the video keeps it. *)
Check(t) ==
  /\ At(t, "check")
  /\ IF KanbanWouldCoverFigure(job[t].want) THEN Return(t) ELSE Goto(t, "server")
  /\ UNCHANGED <<scene, calls, shows, viz, camera, program>>

AfterServer(t) == Goto(t, IF job[t].want = Kanban THEN "camera" ELSE "publish")

(* ensure_server: the server is there. *)
ServerThere(t) ==
  /\ At(t, "server")
  /\ server = "up"
  /\ AfterServer(t)
  /\ UNCHANGED <<scene, calls, shows, viz, camera, program>>

(* ensure_server: it is started under _mu, which the others wait for. *)
StartServer(t) ==
  /\ job[t].step \in {"server", "publish"}
  /\ server = "down"
  /\ server' = "boot"
  /\ Goto(t, "boot")
  /\ UNCHANGED <<scene, calls, shows, scenes, pane, camera, program>>

Booted(t) ==
  /\ At(t, "boot")
  /\ server' = "up"
  /\ AfterServer(t)
  /\ UNCHANGED <<scene, calls, shows, scenes, pane, camera, program>>

BootFails(t) ==
  /\ Fault("server")
  /\ At(t, "boot")
  /\ server' = "down"
  /\ Return(t)
  /\ UNCHANGED <<scene, calls, shows, scenes, pane, camera, program>>

(* The viz server's process ends, with all it knew. *)
ServerDies ==
  /\ Fault("server")
  /\ server = "up"
  /\ server' = "down"
  /\ scenes' = [s \in Sid |-> None]
  /\ pane' = [s \in Sid |-> None]
  /\ UNCHANGED <<scene, calls, tasks, camera, program>>

(* Mutant: the server draws again only what it has not drawn yet. *)
PublishOnce(t) ==
  LET s == job[t].sid
  IN  /\ At(t, "publish")
      /\ server = "up"
      /\ scenes' = [scenes EXCEPT ![s] = IF @ = None THEN job[t].want ELSE @]
      /\ job' = [job EXCEPT ![t].step = "camera", ![t].inPlace = pane[s] # None]
      /\ UNCHANGED <<scene, calls, shows, server, pane, camera,
                     program>>

(* replace_object: on the session's last pane, whether its page is still
   shown or not. *)
HasPane(s) == pane[s] # None
ReplaceObject(s, f) ==
  page' = IF HasPane(s) /\ page[pane[s]] \in Figure
          THEN [page EXCEPT ![pane[s]] = f] ELSE page

(* SceneHandler of the viz server *)
SceneHandler(s, f) ==
  /\ scenes' = [scenes EXCEPT ![s] = f]
  /\ ReplaceObject(s, f)

(* _publish_scene *)
Publish(t) ==
  LET s == job[t].sid
  IN  /\ At(t, "publish")
      /\ server = "up"
      /\ SceneHandler(s, job[t].want)
      /\ job' = [job EXCEPT ![t].step = "camera", ![t].inPlace = HasPane(s)]
      /\ UNCHANGED <<scene, calls, shows, server, pane, cameras,
                     owner, proc, ws, cast, pump, blob, image, program>>

(* _show_live: the session's camera, as it is now. *)
UseCamera(t) ==
  LET c == cameras[job[t].sid]
  IN  /\ At(t, "camera")
      /\ c # None
      /\ LET next == IF ~job[t].inPlace THEN "navigate"
                     ELSE IF image[c] = None /\ ~cast[c] THEN "cast" ELSE "settle"
         IN  job' = [job EXCEPT ![t].step = next, ![t].mine = c]
      /\ UNCHANGED <<scene, calls, shows, viz, camera, program>>

(* A new camera is registered before it is started. *)
NewCamera(t) ==
  /\ At(t, "camera")
  /\ cameras[job[t].sid] = None
  /\ \E d \in Cam : owner[d] = None
  /\ LET c == CHOOSE d \in Cam : owner[d] = None
     IN  /\ owner' = [owner EXCEPT ![c] = job[t].sid]
         /\ cameras' = [cameras EXCEPT ![job[t].sid] = c]
         /\ job' = [job EXCEPT ![t].step = "spawn", ![t].mine = c]
  /\ UNCHANGED <<scene, calls, shows, viz, proc, ws, cast, pump, page,
                 blob, image, program>>

(* refuse_chromium_156: a held or unreadable milestone is never started. *)
Refused(t) ==
  /\ Fault("chromium")
  /\ At(t, "spawn")
  /\ Return(t)
  /\ UNCHANGED <<scene, calls, shows, viz, camera, program>>

(* start: the process *)
Spawn(t) ==
  /\ At(t, "spawn")
  /\ proc' = [proc EXCEPT ![job[t].mine] = TRUE]
  /\ Goto(t, "connect")
  /\ UNCHANGED <<scene, calls, shows, viz, cameras, owner, ws, cast, pump, page, blob,
                 image, program>>

(* The page is loaded from the viz server; modify_doc draws the session's
   scene and its pane replaces the last one's. *)
Load(t) ==
  LET s == job[t].sid
      served == server = "up" /\ (job[t].want = Kanban \/ scenes[s] # None)
  IN  /\ served
      /\ page' = [page EXCEPT ![job[t].mine] = IF job[t].want = Kanban THEN Kanban
                                           ELSE scenes[s]]
      /\ pane' = IF job[t].want = Kanban THEN pane ELSE [pane EXCEPT ![s] = job[t].mine]

(* start: its page and socket. *)
Connect(t) ==
  /\ At(t, "connect")
  /\ proc[job[t].mine]
  /\ Load(t)
  /\ ws' = [ws EXCEPT ![job[t].mine] = TRUE]
  /\ \/ Goto(t, "cast")
     \/ /\ Fault("paint")
        /\ Return(t)
  /\ UNCHANGED <<scene, calls, shows, server, scenes, cameras, owner, proc, cast, pump,
                 blob, image, program>>

(* _wait_ws_url, or the handshake: the process stays. *)
ConnectFails(t) ==
  /\ At(t, "connect")
  /\ Fault("chromium") \/ ~proc[job[t].mine] \/ server # "up"
  /\ Return(t)
  /\ UNCHANGED <<scene, calls, shows, viz, camera, program>>

(* navigate *)
Navigate(t) ==
  LET c == job[t].mine
  IN  /\ At(t, "navigate")
      /\ ws[c]
      /\ Load(t)
      /\ \/ Goto(t, IF cast[c] THEN "settle" ELSE "cast")
         \/ /\ Fault("paint")
            /\ Return(t)
      /\ UNCHANGED <<scene, calls, shows, server, scenes, cameras, owner, proc, ws,
                     cast, pump, blob, image, program>>

(* A socket that is closed, or a page that nobody serves. *)
NavigateFails(t) ==
  /\ At(t, "navigate")
  /\ \/ /\ ~ws[job[t].mine]
        /\ UNCHANGED page
     \/ /\ ws[job[t].mine]
        /\ server # "up"
        /\ page' = [page EXCEPT ![job[t].mine] = None]
  /\ Return(t)
  /\ UNCHANGED <<scene, calls, shows, viz, cameras, owner, proc, ws, cast, pump, blob,
                 image, program>>

(* start_screencast: the one place that starts the pump. *)
StartScreencast(t) ==
  LET c == job[t].mine
  IN  /\ At(t, "cast")
      /\ cast' = [cast EXCEPT ![c] = @ \/ ws[c]]
      /\ pump' = [pump EXCEPT ![c] = @ \/ ws[c]]
      /\ Goto(t, IF ws[c] THEN "frame" ELSE "idle")
      /\ UNCHANGED <<scene, calls, shows, viz, cameras, owner, proc, ws, page, blob,
                     image, program>>

(* _wait_first_frame: a screenshot, if the camera never had a frame. *)
FirstFrame(c) == IF image[c] = None /\ ws[c] THEN page[c] ELSE image[c]

(* The last frame goes to PROGRAM.  It may be a frame of the page before. *)
Finish(t) ==
  LET c == job[t].mine
      f == IF At(t, "frame") THEN FirstFrame(c) ELSE image[c]
  IN  /\ job[t].step \in {"frame", "settle"}
      /\ image' = [image EXCEPT ![c] = f]
      /\ IF f = None THEN UNCHANGED program ELSE SetProgram(f, job[t].want)
      /\ Return(t)
      /\ UNCHANGED <<scene, calls, shows, viz, cameras, owner, proc, ws, cast, pump, page,
                     blob>>

-----------------------------------------------------------------------------
(* Frames *)

(* A screencast frame or the pump's screenshot, one at a time.  A screencast
   frame may also be dropped (_decode_busy, _PUSH_GAP_S), or never come from a
   page that does not change: no step. *)
Capture(c) ==
  /\ ws[c] /\ cast[c]
  /\ blob[c] = None
  /\ page[c] # None
  /\ blob' = [blob EXCEPT ![c] = page[c]]
  /\ UNCHANGED <<scene, calls, tasks, viz, cameras, owner, proc, ws, cast, pump, page, image,
                 program>>

(* _accept_image *)
Accept(c, f) ==
  /\ image' = [image EXCEPT ![c] = f]
  /\ ReplaceImage(f)

(* _frame_pump: the first screenshot that fails ends it, and the screencast
   counts as on. *)
PumpEnds(c) ==
  /\ Fault("chromium")
  /\ pump[c]
  /\ pump' = [pump EXCEPT ![c] = FALSE]
  /\ UNCHANGED <<scene, calls, tasks, viz, cameras, owner, proc, ws, cast, page, blob,
                 image, program>>

(* Mutant: the flag stays if the picture has not changed. *)
DecodedKeepsBusy(c) ==
  /\ blob[c] # None
  /\ blob' = [blob EXCEPT ![c] = IF @ = image[c] THEN @ ELSE None]
  /\ Accept(c, blob[c])
  /\ UNCHANGED <<scene, calls, tasks, viz, cameras, owner, proc, ws, cast, pump, page>>

(* The decoded frame is accepted and pushed, whether the camera is still
   there or not. *)
Decoded(c) ==
  /\ blob[c] # None
  /\ blob' = [blob EXCEPT ![c] = None]
  /\ Accept(c, blob[c])
  /\ UNCHANGED <<scene, calls, tasks, viz, cameras, owner, proc, ws, cast, pump, page>>

(* viz_clear *)
Clear ==
  /\ "clear" \in scene.asks
  /\ shows < MaxShow
  /\ live
  /\ shows' = shows + 1
  /\ ClearProgram
  /\ UNCHANGED <<scene, calls, job, viz, camera>>

-----------------------------------------------------------------------------
CallStep(s) == Offer(s) \/ CloseSession(s) \/ Dropped(s)

ShowStep(t) ==
  \/ Check(t) \/ ServerThere(t) \/ StartServer(t) \/ Booted(t) \/ BootFails(t)
  \/ Publish(t) \/ UseCamera(t) \/ NewCamera(t) \/ Refused(t) \/ Spawn(t)
  \/ Connect(t) \/ ConnectFails(t) \/ Navigate(t) \/ NavigateFails(t)
  \/ StartScreencast(t) \/ Finish(t)

Next ==
  \/ \E s \in Session : CallStep(s)
  \/ \E t \in Show : Request(t) \/ ShowStep(t)
  \/ \E c \in Cam : Capture(c) \/ PumpEnds(c) \/ Decoded(c)
  \/ Clear
  \/ ServerDies

Spec == Init /\ [][Next]_vars

(* A coroutine goes on, every wait in it has a timeout, and a pump that runs
   takes screenshots of a page that sends no frames, until one is not
   dropped. *)
FairSpec ==
  /\ Spec
  /\ \A t \in Show : WF_vars(ShowStep(t))
  /\ \A c \in Cam : WF_vars(pump[c] /\ Capture(c)) /\ WF_vars(Decoded(c))
  /\ \A s \in Session : WF_vars(Dropped(s))

-----------------------------------------------------------------------------
Quiet == \A t \in Show : ~UnderWay(t)

(* A Chromium that runs belongs to the camera of a session, or to a show that
   is starting it: whatever fails in a show, the end of the call finds the
   process and ends it, as long as no call ends under its shows. *)
ChromiumOwned ==
  ~scene.overlap =>
    \A c \in Cam : proc[c] => \/ \E s \in Sid : cameras[s] = c
                              \/ \E t \in Show : UnderWay(t) /\ job[t].mine = c

(* What PROGRAM says is on the video is what the camera of the call shows, in
   place or after a navigation, and after a restart of the viz server: for
   shows one after the other that do not fail at the page, and figures or the
   board but not both after a viz_clear. *)
TitleMatches ==
  LET c == cameras[SessionId]
  IN  (/\ ~scene.overlap
       /\ scene.faults \subseteq {"server"}
       /\ {Kanban, "clear"} \ scene.asks # {}
       /\ Quiet
       /\ ProgramLive
       /\ SessionId \in Session
       /\ c # None)
      => page[c] \in {kind, None}

(* The video has come to be what the page of c is, if no other camera pushes
   its frames. *)
CaughtUp(c) ==
  (/\ ProgramLive
   /\ ws[c] /\ cast[c] /\ page[c] # None
   /\ \A d \in Cam : cast[d] => d = c)
  => OnVideo = page[c]

(* However old the frame was that a show put on the video, and whatever frames
   were dropped, the video comes to be what the page is, as long as the pump of
   the camera runs. *)
PictureCatchesUp == \A c \in Cam : []<>(pump[c] => CaughtUp(c))

(* webrtc_cdp.py: "Screenshot the live page when screencast goes idle - still
   video, not a still."  After one screenshot that failed nothing does: the
   screencast counts as on, no show starts the pump again, and a last frame
   that was dropped is not made up for. *)
PictureAlwaysCatchesUp == \A c \in Cam : []<>CaughtUp(c)

(* hicks.py: "A HoloViews figure takes the video over the kanban view."  It
   does not after a viz_clear: the server still has the figure's pane, draws
   on it in place, and the camera stays on the board. *)
FigureTakesVideo ==
  LET c == cameras[SessionId]
  IN  (Quiet /\ ProgramLive /\ kind \in Figure /\ SessionId \in Session /\ c # None)
      => page[c] # Kanban
=============================================================================
