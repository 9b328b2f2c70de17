---------------------------- MODULE VizStageProofs ----------------------------
(***************************************************************************)
(* Theorems about VizStage, for any sessions, cameras, figures and bounds: *)
(* its types, that a Chromium that runs is owned, and that the title of    *)
(* the video is what the camera shows.                                     *)
(*                                                                         *)
(* Chromiums: OwnInv.  A show has the camera of its session from the       *)
(* registration on, so the process is registered before it runs.           *)
(*                                                                         *)
(* The title: TitleInv, for the calm scenes of TitleMatches.  What a page  *)
(* has follows a show step by step (Title), which needs that a show is     *)
(* alone with the one camera there is (Serial), that the viz server's pane *)
(* is on that camera's page (Panes), that a camera at rest delivers frames *)
(* or was never loaded (Cams), and that the board never comes over a page  *)
(* with a pane, on which the next figure is drawn in place (Boards).       *)
(***************************************************************************)
EXTENDS VizStage, SequenceTheorems, TLAPS

ShowRec == [step : Steps, sid : Sid, want : Picture \cup {None}, mine : Cam \cup {None},
            inPlace : BOOLEAN]

(* The steps of a show before it has its camera. *)
Early == {"idle", "check", "server", "boot", "publish", "camera"}

(* What a show under way knows: the picture it was asked for, and its camera
   once it has one; the board is not published. *)
Sound(r) ==
  /\ r.step # "idle" => r.want \in Picture
  /\ r.step = "publish" => r.want # Kanban
  /\ r.step \notin Early => r.mine \in Cam
AllSound == \A t \in Show : Sound(job[t])

LEMMA InitTyped == Init => TypeOK
<1>. SUFFICES ASSUME Init PROVE TypeOK
  OBVIOUS
<1>1. Idle \in ShowRec
  BY DEF Idle, ShowRec, Steps, Sid
<1>2. job \in [Show -> ShowRec]
  BY <1>1 DEF Init
<1>3. pcs \in Seq(Session)
  BY DEF Init
<1>. QED
  BY <1>2, <1>3 DEF Init, TypeOK, ShowRec

LEMMA CallTyped == ASSUME TypeOK, NEW s \in Session, CallStep(s) PROVE TypeOK'
<1>1. /\ scene \in Scenes /\ pcs \in Seq(Session)
      /\ call \in [Session -> {"new", "up", "closing", "gone"}]
      /\ cameras \in [Sid -> Cam \cup {None}]
      /\ proc \in [Cam -> BOOLEAN] /\ ws \in [Cam -> BOOLEAN] /\ cast \in [Cam -> BOOLEAN]
      /\ pump \in [Cam -> BOOLEAN]
      /\ s \in Sid /\ cameras[s] \in Cam \cup {None}
  BY DEF TypeOK, Sid
<1>2. CASE Offer(s)
  <2>1. pcs' \in Seq(Session)
    BY <1>1, <1>2 DEF Offer
  <2>. QED
    BY <1>1, <1>2, <2>1 DEF TypeOK, Offer, Call, tasks, viz, camera, program
<1>3. CASE CloseSession(s)
  <2>1. /\ proc' \in [Cam -> BOOLEAN] /\ ws' \in [Cam -> BOOLEAN] /\ cast' \in [Cam -> BOOLEAN]
        /\ pump' \in [Cam -> BOOLEAN]
    <3>1. CASE cameras[s] = None
      BY <1>1, <1>3, <3>1 DEF CloseSession
    <3>2. CASE cameras[s] # None
      BY <1>1, <1>3, <3>2 DEF CloseSession, CloseCamera, StopScreencast
    <3>. QED
      BY <3>1, <3>2
  <2>2. cameras' \in [Sid -> Cam \cup {None}] /\ call' \in [Session -> {"new", "up", "closing", "gone"}]
    BY <1>1, <1>3 DEF CloseSession, Call
  <2>. QED
    BY <1>3, <2>1, <2>2 DEF TypeOK, CloseSession, tasks, viz, program
<1>4. CASE Dropped(s)
  <2>1. pcs' \in Seq(Session)
    <3>1. PICK k \in 1..Len(pcs) : pcs' = SubSeq(pcs, 1, k - 1) \o SubSeq(pcs, k + 1, Len(pcs))
      BY <1>4 DEF Dropped
    <3>2. SubSeq(pcs, 1, k - 1) \in Seq(Session) /\ SubSeq(pcs, k + 1, Len(pcs)) \in Seq(Session)
      BY <1>1, SubSeqProperties
    <3>. QED
      BY <3>1, <3>2, ConcatProperties
  <2>. QED
    BY <1>1, <1>4, <2>1 DEF TypeOK, Dropped, Call, tasks, viz, camera, program
<1>. QED
  BY <1>2, <1>3, <1>4 DEF CallStep

(* What a step of a show does to its record. *)
Moves(t, label, mine, inPlace) ==
  /\ job' \in [Show -> ShowRec]
  /\ \A r \in Show : r # t => job'[r] = job[r]
  /\ job'[t].step = label
  /\ job'[t].sid = job[t].sid
  /\ job'[t].want = job[t].want
  /\ job'[t].mine = mine
  /\ job'[t].inPlace = inPlace

Rests(t) ==
  /\ job' \in [Show -> ShowRec]
  /\ \A r \in Show : r # t => job'[r] = job[r]
  /\ job'[t] = Idle

LEMMA JobTyped ==
  ASSUME TypeOK
  PROVE  job \in [Show -> ShowRec] /\ \A t \in Show : job[t] \in ShowRec
BY DEF TypeOK, ShowRec

LEMMA GotoMoves ==
  ASSUME TypeOK, NEW t \in Show, NEW label \in Steps, Goto(t, label)
  PROVE  Moves(t, label, job[t].mine, job[t].inPlace)
<1>. DEFINE r == [job[t] EXCEPT !.step = label]
<1>1. job \in [Show -> ShowRec] /\ job[t] \in ShowRec
  BY JobTyped
<1>2. r \in ShowRec /\ r.step = label /\ r.sid = job[t].sid /\ r.want = job[t].want
      /\ r.mine = job[t].mine /\ r.inPlace = job[t].inPlace
  BY <1>1 DEF ShowRec
<1>3. job' = [job EXCEPT ![t] = r]
  BY <1>1 DEF Goto
<1>. HIDE DEF r
<1>. QED
  BY <1>1, <1>2, <1>3 DEF Moves

LEMMA ReturnRests ==
  ASSUME TypeOK, NEW t \in Show, Return(t)
  PROVE  Rests(t)
<1>1. Idle \in ShowRec
  BY DEF Idle, ShowRec, Steps, Sid
<1>. QED
  BY <1>1, JobTyped DEF Return, Rests

LEMMA PublishMoves ==
  ASSUME TypeOK, NEW t \in Show, NEW b \in BOOLEAN,
         job' = [job EXCEPT ![t].step = "camera", ![t].inPlace = b]
  PROVE  Moves(t, "camera", job[t].mine, b)
<1>. DEFINE r == [job[t] EXCEPT !.step = "camera", !.inPlace = b]
<1>1. job \in [Show -> ShowRec] /\ job[t] \in ShowRec /\ "camera" \in Steps
  BY JobTyped DEF Steps
<1>2. r \in ShowRec /\ r.step = "camera" /\ r.sid = job[t].sid /\ r.want = job[t].want
      /\ r.mine = job[t].mine /\ r.inPlace = b
  BY <1>1 DEF ShowRec
<1>3. job' = [job EXCEPT ![t] = r]
  BY <1>1
<1>. HIDE DEF r
<1>. QED
  BY <1>1, <1>2, <1>3 DEF Moves

LEMMA CameraMoves ==
  ASSUME TypeOK, NEW t \in Show, NEW label \in Steps, NEW c \in Cam,
         job' = [job EXCEPT ![t].step = label, ![t].mine = c]
  PROVE  Moves(t, label, c, job[t].inPlace)
<1>. DEFINE r == [job[t] EXCEPT !.step = label, !.mine = c]
<1>1. job \in [Show -> ShowRec] /\ job[t] \in ShowRec
  BY JobTyped
<1>2. r \in ShowRec /\ r.step = label /\ r.sid = job[t].sid /\ r.want = job[t].want
      /\ r.mine = c /\ r.inPlace = job[t].inPlace
  BY <1>1 DEF ShowRec
<1>3. job' = [job EXCEPT ![t] = r]
  BY <1>1
<1>. HIDE DEF r
<1>. QED
  BY <1>1, <1>2, <1>3 DEF Moves

(* Where each step of a show leads. *)
LEMMA ShowMoves ==
  ASSUME TypeOK, NEW t \in Show
  PROVE  /\ Check(t) => Rests(t) \/ Moves(t, "server", job[t].mine, job[t].inPlace)
         /\ AfterServer(t) => Moves(t, IF job[t].want = Kanban THEN "camera" ELSE "publish",
                                    job[t].mine, job[t].inPlace)
         /\ StartServer(t) => Moves(t, "boot", job[t].mine, job[t].inPlace)
         /\ BootFails(t) \/ Refused(t) \/ ConnectFails(t) \/ NavigateFails(t) \/ Finish(t)
              => Rests(t)
         /\ Publish(t) => Moves(t, "camera", job[t].mine, HasPane(job[t].sid))
         /\ UseCamera(t) =>
              LET c == cameras[job[t].sid]
              IN  Moves(t, IF ~job[t].inPlace THEN "navigate"
                           ELSE IF image[c] = None /\ ~cast[c] THEN "cast" ELSE "settle",
                        c, job[t].inPlace)
         /\ Spawn(t) => Moves(t, "connect", job[t].mine, job[t].inPlace)
         /\ Connect(t) => \/ Moves(t, "cast", job[t].mine, job[t].inPlace)
                          \/ Rests(t) /\ Fault("paint")
         /\ Navigate(t) => \/ Moves(t, IF cast[job[t].mine] THEN "settle" ELSE "cast",
                                    job[t].mine, job[t].inPlace)
                           \/ Rests(t) /\ Fault("paint")
         /\ StartScreencast(t) => Moves(t, IF ws[job[t].mine] THEN "frame" ELSE "idle",
                                        job[t].mine, job[t].inPlace)
<1>1. {"idle", "server", "boot", "camera", "publish", "connect", "cast", "frame", "settle",
       "navigate"} \subseteq Steps
  BY DEF Steps
<1>2. job[t].sid \in Sid /\ cameras[job[t].sid] \in Cam \cup {None}
  BY JobTyped DEF ShowRec, TypeOK
<1>3. UseCamera(t) =>
        LET c == cameras[job[t].sid]
        IN  Moves(t, IF ~job[t].inPlace THEN "navigate"
                     ELSE IF image[c] = None /\ ~cast[c] THEN "cast" ELSE "settle",
                  c, job[t].inPlace)
  BY <1>1, <1>2, CameraMoves DEF UseCamera
<1>4. Publish(t) => Moves(t, "camera", job[t].mine, HasPane(job[t].sid))
  BY PublishMoves DEF Publish, HasPane
<1>5. Check(t) => Rests(t) \/ Moves(t, "server", job[t].mine, job[t].inPlace)
  BY <1>1, GotoMoves, ReturnRests DEF Check
<1>6. AfterServer(t) => Moves(t, IF job[t].want = Kanban THEN "camera" ELSE "publish",
                              job[t].mine, job[t].inPlace)
  BY <1>1, GotoMoves DEF AfterServer
<1>7. BootFails(t) \/ Refused(t) \/ ConnectFails(t) \/ NavigateFails(t) \/ Finish(t) => Rests(t)
  BY ReturnRests DEF BootFails, Refused, ConnectFails, NavigateFails, Finish
<1>8. /\ StartServer(t) => Moves(t, "boot", job[t].mine, job[t].inPlace)
      /\ Spawn(t) => Moves(t, "connect", job[t].mine, job[t].inPlace)
      /\ StartScreencast(t) => Moves(t, IF ws[job[t].mine] THEN "frame" ELSE "idle",
                                     job[t].mine, job[t].inPlace)
  BY <1>1, GotoMoves DEF StartServer, Spawn, StartScreencast
<1>9. Connect(t) => \/ Moves(t, "cast", job[t].mine, job[t].inPlace)
                    \/ Rests(t) /\ Fault("paint")
  BY <1>1, GotoMoves, ReturnRests DEF Connect
<1>10. Navigate(t) => \/ Moves(t, IF cast[job[t].mine] THEN "settle" ELSE "cast",
                               job[t].mine, job[t].inPlace)
                      \/ Rests(t) /\ Fault("paint")
  BY <1>1, GotoMoves, ReturnRests DEF Navigate
<1>. QED
  BY <1>3, <1>4, <1>5, <1>6, <1>7, <1>8, <1>9, <1>10

(* A new camera is one that nobody has had. *)
Taken(t, c) ==
  /\ c \in Cam /\ owner[c] = None
  /\ cameras[job[t].sid] = None
  /\ owner' = [owner EXCEPT ![c] = job[t].sid]
  /\ cameras' = [cameras EXCEPT ![job[t].sid] = c]
  /\ Moves(t, "spawn", c, job[t].inPlace)

LEMMA NewCameraTakes ==
  ASSUME TypeOK, NEW t \in Show, NewCamera(t)
  PROVE  \E c \in Cam : Taken(t, c)
<1>. DEFINE c == CHOOSE d \in Cam : owner[d] = None
<1>1. c \in Cam /\ owner[c] = None
  BY DEF NewCamera
<1>2. /\ job' = [job EXCEPT ![t].step = "spawn", ![t].mine = c]
      /\ owner' = [owner EXCEPT ![c] = job[t].sid]
      /\ cameras' = [cameras EXCEPT ![job[t].sid] = c]
      /\ cameras[job[t].sid] = None
  BY DEF NewCamera
<1>. HIDE DEF c
<1>3. Moves(t, "spawn", c, job[t].inPlace)
  BY <1>1, <1>2, CameraMoves DEF Steps
<1>. QED
  BY <1>1, <1>2, <1>3 DEF Taken

(* A show that is under way stays sound. *)
LEMMA StaysSound ==
  ASSUME TypeOK, AllSound, NEW t \in Show,
         \/ Rests(t)
         \/ \E label, mine, inPlace :
              /\ Moves(t, label, mine, inPlace)
              /\ job[t].step # "idle"
              /\ label = "publish" => job[t].want # Kanban
              /\ label \notin Early => mine \in Cam
  PROVE  AllSound'
<1>1. ASSUME NEW r \in Show PROVE Sound(job'[r])
  <2>1. Sound(job[r]) /\ Sound(job[t])
    BY DEF AllSound
  <2>2. CASE r # t
    BY <2>1, <2>2 DEF Rests, Moves
  <2>3. CASE r = t /\ Rests(t)
    BY <2>3 DEF Rests, Idle, Sound, Early
  <2>4. CASE r = t /\ ~Rests(t)
    <3>1. PICK label, mine, inPlace :
              /\ Moves(t, label, mine, inPlace)
              /\ job[t].step # "idle"
              /\ label = "publish" => job[t].want # Kanban
              /\ label \notin Early => mine \in Cam
      BY <2>4
    <3>2. job'[t].step = label /\ job'[t].want = job[t].want /\ job'[t].mine = mine
      BY <3>1 DEF Moves
    <3>. QED
      BY <2>1, <2>4, <3>1, <3>2 DEF Sound
  <2>. QED
    BY <2>2, <2>3, <2>4
<1>. QED
  BY <1>1 DEF AllSound

LEMMA ShowSound == ASSUME TypeOK, AllSound, NEW t \in Show, ShowStep(t) PROVE AllSound'
<1>1. Sound(job[t]) /\ cameras[job[t].sid] \in Cam \cup {None}
  BY JobTyped DEF AllSound, TypeOK, ShowRec
<1>2. CASE Check(t) \/ BootFails(t) \/ Refused(t) \/ ConnectFails(t) \/ NavigateFails(t) \/ Finish(t)
  <2>1. \/ Rests(t)
        \/ Moves(t, "server", job[t].mine, job[t].inPlace) /\ job[t].step # "idle"
    BY <1>2, ShowMoves DEF Check, At
  <2>. QED
    BY <2>1, StaysSound DEF Early
<1>3. CASE ServerThere(t) \/ Booted(t)
  <2>1. /\ Moves(t, IF job[t].want = Kanban THEN "camera" ELSE "publish", job[t].mine, job[t].inPlace)
        /\ job[t].step # "idle"
    BY <1>3, ShowMoves DEF ServerThere, Booted, At
  <2>. QED
    BY <2>1, StaysSound DEF Early
<1>4. CASE StartServer(t)
  <2>1. Moves(t, "boot", job[t].mine, job[t].inPlace) /\ job[t].step # "idle"
    BY <1>4, ShowMoves DEF StartServer
  <2>. QED
    BY <2>1, StaysSound DEF Early
<1>5. CASE Publish(t)
  <2>1. Moves(t, "camera", job[t].mine, HasPane(job[t].sid)) /\ job[t].step # "idle"
    BY <1>5, ShowMoves DEF Publish, At
  <2>. QED
    BY <2>1, StaysSound DEF Early
<1>6. CASE UseCamera(t)
  <2>1. /\ cameras[job[t].sid] \in Cam /\ job[t].step # "idle"
        /\ \E label \in {"navigate", "cast", "settle"} :
             Moves(t, label, cameras[job[t].sid], job[t].inPlace)
    BY <1>1, <1>6, ShowMoves DEF UseCamera, At
  <2>. QED
    BY <2>1, StaysSound
<1>7. CASE NewCamera(t)
  <2>1. job[t].step # "idle"
    BY <1>7 DEF NewCamera, At
  <2>2. PICK c \in Cam : Moves(t, "spawn", c, job[t].inPlace)
    BY <1>7, NewCameraTakes DEF Taken
  <2>. QED
    BY <2>1, <2>2, StaysSound
<1>8. CASE Spawn(t) \/ Connect(t) \/ Navigate(t) \/ StartScreencast(t)
  <2>1. /\ job[t].step \notin Early
        /\ \/ Rests(t)
           \/ \E label \in {"connect", "cast", "settle", "frame", "idle"} :
                Moves(t, label, job[t].mine, job[t].inPlace)
    BY <1>8, ShowMoves DEF Spawn, Connect, Navigate, StartScreencast, At, Early
  <2>2. job[t].mine \in Cam /\ job[t].step # "idle"
    BY <1>1, <2>1 DEF Sound, Early
  <2>. QED
    BY <2>1, <2>2, StaysSound
<1>. QED
  BY <1>2, <1>3, <1>4, <1>5, <1>6, <1>7, <1>8 DEF ShowStep

LEMMA ShowTyped == ASSUME TypeOK, AllSound, NEW t \in Show, ShowStep(t) PROVE TypeOK'
<1>1. /\ job[t] \in ShowRec /\ Sound(job[t])
      /\ scenes \in [Sid -> Figure \cup {None}] /\ pane \in [Sid -> Cam \cup {None}]
      /\ cameras \in [Sid -> Cam \cup {None}] /\ owner \in [Cam -> Sid \cup {None}]
      /\ proc \in [Cam -> BOOLEAN] /\ ws \in [Cam -> BOOLEAN] /\ cast \in [Cam -> BOOLEAN]
      /\ pump \in [Cam -> BOOLEAN]
      /\ page \in [Cam -> Picture \cup {None}] /\ image \in [Cam -> Picture \cup {None}]
  BY JobTyped DEF TypeOK, AllSound
<1>2. (\E label, mine, inPlace : Moves(t, label, mine, inPlace)) \/ Rests(t) =>
        job' \in [Show -> [step : Steps, sid : Sid, want : Picture \cup {None},
                          mine : Cam \cup {None}, inPlace : BOOLEAN]]
  BY DEF Moves, Rests, ShowRec
<1>3. job[t].sid \in Sid /\ job[t].want \in Picture \cup {None} /\ job[t].mine \in Cam \cup {None}
  BY <1>1 DEF ShowRec
<1>4. CASE Check(t) \/ ServerThere(t) \/ StartServer(t) \/ Booted(t) \/ BootFails(t)
           \/ Refused(t) \/ ConnectFails(t) \/ UseCamera(t)
  <2>1. server' \in {"down", "boot", "up"}
    BY <1>4 DEF TypeOK, Check, ServerThere, StartServer, Booted, BootFails, Refused, ConnectFails,
                UseCamera, viz
  <2>2. /\ (\E label, mine, inPlace : Moves(t, label, mine, inPlace)) \/ Rests(t)
        /\ UNCHANGED <<scene, calls, shows, scenes, pane, camera, program>>
    BY <1>4, ShowMoves DEF Check, ServerThere, StartServer, Booted, BootFails, Refused,
                           ConnectFails, UseCamera, viz
  <2>. QED
    BY <1>2, <2>1, <2>2 DEF TypeOK, calls, camera, program
<1>5. CASE Publish(t)
  <2>1. /\ At(t, "publish") /\ SceneHandler(job[t].sid, job[t].want)
        /\ UNCHANGED <<scene, calls, shows, server, pane, cameras,
                       owner, proc, ws, cast, pump, blob, image, program>>
        /\ Moves(t, "camera", job[t].mine, HasPane(job[t].sid))
    BY <1>5, ShowMoves DEF Publish
  <2>2. job[t].want \in Figure
    BY <1>1, <2>1 DEF Sound, At, Picture
  <2>3. scenes' \in [Sid -> Figure \cup {None}] /\ page' \in [Cam -> Picture \cup {None}]
    BY <1>1, <1>3, <2>1, <2>2 DEF SceneHandler, ReplaceObject, Picture
  <2>. QED
    BY <1>2, <2>1, <2>3 DEF TypeOK, calls, program
<1>6. CASE NewCamera(t)
  <2>1. PICK c \in Cam : Taken(t, c)
    BY <1>6, NewCameraTakes
  <2>2. owner' \in [Cam -> Sid \cup {None}] /\ cameras' \in [Sid -> Cam \cup {None}]
    BY <1>1, <1>3, <2>1 DEF Taken
  <2>3. UNCHANGED <<scene, calls, shows, viz, proc, ws, cast, pump, page, blob, image, program>>
    BY <1>6 DEF NewCamera
  <2>4. Moves(t, "spawn", c, job[t].inPlace)
    BY <2>1 DEF Taken
  <2>. QED
    BY <1>2, <2>2, <2>3, <2>4 DEF TypeOK, calls, viz, program
<1>7. CASE Spawn(t)
  <2>1. /\ proc' = [proc EXCEPT ![job[t].mine] = TRUE]
        /\ UNCHANGED <<scene, calls, shows, viz, cameras, owner, ws, cast, pump, page, blob, image, program>>
        /\ Moves(t, "connect", job[t].mine, job[t].inPlace)
    BY <1>7, ShowMoves DEF Spawn
  <2>2. proc' \in [Cam -> BOOLEAN]
    BY <1>1, <2>1
  <2>. QED
    BY <1>2, <2>1, <2>2 DEF TypeOK, calls, viz, program
<1>8. CASE Connect(t) \/ Navigate(t)
  <2>1. /\ Load(t)
        /\ (\E label, mine, inPlace : Moves(t, label, mine, inPlace)) \/ Rests(t)
        /\ ws' = ws \/ ws' = [ws EXCEPT ![job[t].mine] = TRUE]
        /\ UNCHANGED <<scene, calls, shows, server, scenes, cameras, owner, proc, cast, pump, blob, image,
                       program>>
    BY <1>8, ShowMoves DEF Connect, Navigate
  <2>2. pane' \in [Sid -> Cam \cup {None}] /\ page' \in [Cam -> Picture \cup {None}]
        /\ ws' \in [Cam -> BOOLEAN]
    BY <1>1, <1>3, <2>1 DEF Load, Picture
  <2>. QED
    BY <1>2, <2>1, <2>2 DEF TypeOK, calls, program
<1>9. CASE NavigateFails(t)
  <2>1. /\ page' = page \/ page' = [page EXCEPT ![job[t].mine] = None]
        /\ Rests(t)
        /\ UNCHANGED <<scene, calls, shows, viz, cameras, owner, proc, ws, cast, pump, blob, image, program>>
    BY <1>9, ShowMoves DEF NavigateFails
  <2>2. page' \in [Cam -> Picture \cup {None}]
    BY <1>1, <2>1
  <2>. QED
    BY <1>2, <2>1, <2>2 DEF TypeOK, calls, viz, program
<1>10. CASE StartScreencast(t)
  <2>1. /\ cast' = [cast EXCEPT ![job[t].mine] = @ \/ ws[job[t].mine]]
        /\ pump' = [pump EXCEPT ![job[t].mine] = @ \/ ws[job[t].mine]]
        /\ \E label, mine, inPlace : Moves(t, label, mine, inPlace)
        /\ UNCHANGED <<scene, calls, shows, viz, cameras, owner, proc, ws, page, blob, image, program>>
    BY <1>10, ShowMoves DEF StartScreencast
  <2>2. cast' \in [Cam -> BOOLEAN] /\ pump' \in [Cam -> BOOLEAN]
    BY <1>1, <2>1
  <2>. QED
    BY <1>2, <2>1, <2>2 DEF TypeOK, calls, viz, program
<1>11. CASE Finish(t)
  <2>. DEFINE c == job[t].mine
              f == IF At(t, "frame") THEN FirstFrame(c) ELSE image[c]
  <2>1. /\ job[t].step \in {"frame", "settle"}
        /\ image' = [image EXCEPT ![c] = f]
        /\ IF f = None THEN UNCHANGED program ELSE SetProgram(f, job[t].want)
        /\ Rests(t)
        /\ UNCHANGED <<scene, calls, shows, viz, cameras, owner, proc, ws, cast, pump, page, blob>>
    BY <1>11, ShowMoves DEF Finish
  <2>2. c \in Cam
    BY <1>1, <2>1 DEF Sound, Early
  <2>3. f \in Picture \cup {None}
    BY <1>1, <2>2 DEF FirstFrame
  <2>. HIDE DEF c, f
  <2>4. image' \in [Cam -> Picture \cup {None}]
    BY <1>1, <2>1, <2>3
  <2>5. pic' \in Picture \cup {None} /\ live' \in BOOLEAN /\ kind' \in Picture \cup {None}
    BY <1>3, <2>1, <2>3 DEF SetProgram, program, TypeOK
  <2>. QED
    BY <1>2, <2>1, <2>4, <2>5 DEF TypeOK, calls, viz
<1>. QED
  BY <1>4, <1>5, <1>6, <1>7, <1>8, <1>9, <1>10, <1>11 DEF ShowStep

(* What a request does to the record of its show. *)
Starts(t) ==
  /\ job' \in [Show -> ShowRec]
  /\ \A r \in Show : r # t => job'[r] = job[r]
  /\ job'[t].step = "check"
  /\ job'[t].sid = SessionId
  /\ job'[t].want \in Asked
  /\ job'[t].inPlace = FALSE

LEMMA RequestStarts ==
  ASSUME TypeOK, NEW t \in Show, Request(t)
  PROVE  /\ Starts(t)
         /\ ~UnderWay(t)
         /\ ~scene.overlap => (\A r \in Show : ~UnderWay(r))
         /\ ~scene.overlap => (SessionId \in Session => call[SessionId] = "up")
         /\ shows' = shows + 1
         /\ UNCHANGED <<scene, calls, viz, camera, program>>
<1>1. PICK w \in Asked : job' = [job EXCEPT ![t] = [Idle EXCEPT !.step = "check", !.sid = SessionId,
                                                           !.want = w]]
  BY DEF Request
<1>. DEFINE r == [Idle EXCEPT !.step = "check", !.sid = SessionId, !.want = w]
<1>2. SessionId \in Sid
  BY DEF TypeOK, SessionId, Sid
<1>3. r \in ShowRec /\ r.step = "check" /\ r.sid = SessionId /\ r.want = w /\ r.inPlace = FALSE
  BY <1>2 DEF Idle, ShowRec, Steps, Asked
<1>4. job' = [job EXCEPT ![t] = r]
  BY <1>1
<1>5. /\ ~UnderWay(t)
      /\ ~scene.overlap => (\A u \in Show : ~UnderWay(u))
      /\ ~scene.overlap => (SessionId \in Session => call[SessionId] = "up")
      /\ shows' = shows + 1
      /\ UNCHANGED <<scene, calls, viz, camera, program>>
  BY DEF Request
<1>. HIDE DEF r
<1>6. Starts(t)
  BY <1>3, <1>4, JobTyped DEF Starts
<1>. QED
  BY <1>5, <1>6

Types == TypeOK /\ AllSound

LEMMA RestTyped ==
  ASSUME Types,
         \/ \E s \in Session : CallStep(s)
         \/ \E t \in Show : Request(t)
         \/ \E c \in Cam : Capture(c) \/ PumpEnds(c) \/ Decoded(c)
         \/ Clear \/ ServerDies \/ UNCHANGED vars
  PROVE  Types'
<1>0. TypeOK /\ AllSound
  BY DEF Types
<1>1. CASE \E s \in Session : CallStep(s)
  <2>1. UNCHANGED job
    BY <1>1 DEF CallStep, Offer, CloseSession, Dropped, tasks
  <2>. QED
    BY <1>0, <1>1, <2>1, CallTyped DEF Types, AllSound
<1>2. CASE \E t \in Show : Request(t)
  <2>1. PICK t \in Show : Request(t)
    BY <1>2
  <2>2. /\ Starts(t) /\ shows' = shows + 1
        /\ UNCHANGED <<scene, calls, viz, camera, program>>
    BY <1>0, <2>1, RequestStarts
  <2>3. TypeOK'
    BY <1>0, <2>2 DEF TypeOK, Starts, ShowRec, calls, viz, camera, program
  <2>4. Sound(job'[t])
    BY <2>2 DEF Starts, Sound, Asked, Early
  <2>5. AllSound'
    BY <1>0, <2>2, <2>4 DEF AllSound, Starts
  <2>. QED
    BY <2>3, <2>5 DEF Types
<1>3. CASE \E c \in Cam : Capture(c) \/ PumpEnds(c) \/ Decoded(c)
  <2>1. PICK c \in Cam : Capture(c) \/ PumpEnds(c) \/ Decoded(c)
    BY <1>3
  <2>2. /\ pump' \in [Cam -> BOOLEAN]
        /\ blob' \in [Cam -> Picture \cup {None}] /\ image' \in [Cam -> Picture \cup {None}]
        /\ pic' \in Picture \cup {None} /\ live' = live /\ kind' = kind
        /\ UNCHANGED <<scene, calls, tasks, viz, cameras, owner, proc, ws, cast, page>>
    <3>1. CASE Capture(c) \/ Decoded(c)
      BY <1>0, <3>1 DEF TypeOK, Capture, Decoded, Accept, ReplaceImage, program
    <3>2. CASE PumpEnds(c)
      BY <1>0, <3>2 DEF TypeOK, PumpEnds, program
    <3>. QED
      BY <2>1, <3>1, <3>2
  <2>3. TypeOK'
    BY <1>0, <2>2 DEF TypeOK, calls, tasks, viz
  <2>. QED
    BY <1>0, <2>2, <2>3 DEF Types, AllSound, tasks
<1>4. CASE Clear
  <2>1. /\ pic' = None /\ live' = FALSE /\ kind' = kind /\ shows' = shows + 1
        /\ UNCHANGED <<scene, calls, job, viz, camera>>
    BY <1>4 DEF Clear, ClearProgram
  <2>0. live' \in BOOLEAN
    BY <2>1
  <2>2. pic' \in Picture \cup {None} /\ kind' \in Picture \cup {None} /\ shows' \in Nat
    BY <1>0, <2>1 DEF TypeOK
  <2>3. UNCHANGED <<scene, pcs, call, job, server, scenes, pane, camera>>
    BY <2>1 DEF calls, viz
  <2>4. TypeOK'
    BY <1>0, <2>0, <2>2, <2>3 DEF TypeOK, camera
  <2>. QED
    BY <1>0, <2>1, <2>4 DEF Types, AllSound
<1>5. CASE ServerDies
  <2>1. TypeOK'
    BY <1>0, <1>5 DEF TypeOK, ServerDies, calls, tasks, camera, program
  <2>. QED
    BY <1>0, <1>5, <2>1 DEF Types, AllSound, ServerDies, tasks
<1>6. CASE UNCHANGED vars
  <2>1. TypeOK'
    BY <1>0, <1>6 DEF TypeOK, vars, calls, tasks, viz, camera, program
  <2>. QED
    BY <1>0, <1>6, <2>1 DEF Types, AllSound, vars, tasks
<1>. QED
  BY <1>1, <1>2, <1>3, <1>4, <1>5, <1>6

LEMMA TypesStep == Types /\ [Next]_vars => Types'
<1>. SUFFICES ASSUME Types, [Next]_vars PROVE Types'
  OBVIOUS
<1>1. CASE \E t \in Show : ShowStep(t)
  BY <1>1, ShowTyped, ShowSound DEF Types
<1>. QED
  BY <1>1, RestTyped DEF Next

(* The scene is fixed at the start. *)
LEMMA SceneKept == [Next]_vars => scene' = scene
BY DEF Next, CallStep, ShowStep, Offer, CloseSession, Dropped, Request, Check, ServerThere, StartServer,
       Booted, BootFails, Publish, UseCamera, NewCamera, Refused, Spawn, Connect, ConnectFails,
       Navigate, NavigateFails, StartScreencast, Finish, Capture, PumpEnds, Decoded, Clear, ServerDies, vars

LEMMA TypesAlways == Spec => []Types
<1>1. Init => AllSound
  <2>. SUFFICES ASSUME Init, NEW t \in Show PROVE Sound(job[t])
    BY DEF AllSound
  <2>1. job[t] = Idle
    BY DEF Init
  <2>. QED
    BY <2>1 DEF Sound, Idle, Early
<1>2. Init => Types
  BY <1>1, InitTyped DEF Types
<1>. QED
  BY <1>2, TypesStep, PTL DEF Spec

(* Every variable keeps its type. *)
THEOREM VizTypeCorrect == Spec => []TypeOK
<1>1. Types => TypeOK
  BY DEF Types
<1>. QED
  BY <1>1, TypesAlways, PTL

-----------------------------------------------------------------------------
(* The Chromiums *)

HasCamera(t) == job[t].step \notin Early

(* A camera belongs to one session for good; a show has the camera of its
   session, which is not closed under it; a Chromium that runs is the camera
   of a session. *)
Owners ==
  /\ \A s \in Sid : cameras[s] # None => owner[cameras[s]] = s
  /\ \A t \in Show : HasCamera(t) => cameras[job[t].sid] = job[t].mine
  /\ \A c \in Cam : proc[c] => \E s \in Sid : cameras[s] = c

OwnInv == scene.overlap \/ Owners

(* A step of a show that neither has a new camera nor starts its Chromium. *)
LEMMA OwnersMove ==
  ASSUME Types, Owners, NEW t \in Show, UNCHANGED <<cameras, owner, proc>>,
         \/ Rests(t)
         \/ \E label, mine, inPlace :
              Moves(t, label, mine, inPlace) /\ (label \notin Early => cameras[job[t].sid] = mine)
  PROVE  Owners'
<1>1. ASSUME NEW r \in Show, HasCamera(r)' PROVE cameras'[job'[r].sid] = job'[r].mine
  <2>1. CASE r # t
    <3>1. job'[r] = job[r]
      BY <2>1 DEF Rests, Moves
    <3>. QED
      BY <1>1, <3>1 DEF Owners, HasCamera
  <2>2. CASE r = t /\ Rests(t)
    BY <1>1, <2>2 DEF Rests, Idle, HasCamera, Early
  <2>3. CASE r = t /\ ~Rests(t)
    <3>1. PICK label, mine, inPlace :
            Moves(t, label, mine, inPlace) /\ (label \notin Early => cameras[job[t].sid] = mine)
      BY <2>3
    <3>2. job'[t].step = label /\ job'[t].sid = job[t].sid /\ job'[t].mine = mine
      BY <3>1 DEF Moves
    <3>. QED
      BY <1>1, <2>3, <3>1, <3>2 DEF HasCamera
  <2>. QED
    BY <2>1, <2>2, <2>3
<1>. QED
  BY <1>1 DEF Owners

(* No call ends under its shows: a show keeps its camera. *)
LEMMA OwnersStep ==
  ASSUME Types, Owners, ~scene.overlap, [Next]_vars
  PROVE  Owners'
<1>0. /\ TypeOK /\ AllSound /\ Types'
      /\ cameras \in [Sid -> Cam \cup {None}] /\ owner \in [Cam -> Sid \cup {None}]
      /\ proc \in [Cam -> BOOLEAN]
  BY TypesStep DEF Types, TypeOK
<1>1. CASE UNCHANGED <<job, cameras, owner, proc>>
  BY <1>1 DEF Owners, HasCamera
<1>2. ASSUME NEW s \in Session, CloseSession(s) PROVE Owners'
  <2>1. /\ \A t \in Show : UnderWay(t) => job[t].sid # s
        /\ cameras' = [cameras EXCEPT ![s] = None]
        /\ UNCHANGED <<job, owner>>
        /\ IF cameras[s] = None THEN proc' = proc ELSE proc' = [proc EXCEPT ![cameras[s]] = FALSE]
    BY <1>2 DEF CloseSession, CloseCamera, tasks
  <2>2. \A r \in Sid : cameras'[r] = IF r = s THEN None ELSE cameras[r]
    BY <1>0, <2>1 DEF Sid
  <2>3. ASSUME NEW t \in Show, HasCamera(t)' PROVE cameras'[job'[t].sid] = job'[t].mine
    <3>1. job[t].step \notin Early /\ job'[t] = job[t] /\ job[t].sid \in Sid
      BY <1>0, <2>1, <2>3, JobTyped DEF HasCamera, ShowRec
    <3>2. job[t].sid # s
      BY <2>1, <3>1 DEF UnderWay, Early
    <3>. QED
      BY <2>2, <3>1, <3>2 DEF Owners, HasCamera
  <2>4. ASSUME NEW c \in Cam, proc'[c] PROVE \E r \in Sid : cameras'[r] = c
    <3>1. proc[c] /\ cameras[s] # c
      BY <1>0, <2>1, <2>4, NamesAssumption
    <3>2. PICK r \in Sid : cameras[r] = c
      BY <3>1 DEF Owners
    <3>. QED
      BY <2>2, <3>1, <3>2
  <2>. QED
    BY <2>1, <2>2, <2>3, <2>4 DEF Owners
<1>3. ASSUME NEW t \in Show, ShowStep(t) PROVE Owners'
  <2>0. /\ job[t] \in ShowRec /\ job[t].sid \in Sid
        /\ HasCamera(t) => cameras[job[t].sid] = job[t].mine /\ job[t].mine \in Cam
    BY <1>0, JobTyped DEF ShowRec, Owners, HasCamera, AllSound, Sound
  <2>1. CASE \/ Check(t) \/ ServerThere(t) \/ StartServer(t) \/ Booted(t) \/ BootFails(t)
             \/ Publish(t) \/ Refused(t) \/ ConnectFails(t) \/ NavigateFails(t) \/ Finish(t)
    <3>1. /\ UNCHANGED <<cameras, owner, proc>>
          /\ \/ Rests(t)
             \/ \E label \in Early : \E mine, inPlace : Moves(t, label, mine, inPlace)
      BY <1>0, <2>1, ShowMoves
         DEF Check, ServerThere, StartServer, Booted, BootFails, Publish, Refused, ConnectFails,
             NavigateFails, Finish, camera, Early
    <3>. QED
      BY <3>1, OwnersMove
  <2>2. CASE UseCamera(t)
    <3>1. /\ UNCHANGED <<cameras, owner, proc>>
          /\ \E label, inPlace : Moves(t, label, cameras[job[t].sid], inPlace)
      BY <1>0, <2>2, ShowMoves DEF UseCamera, camera
    <3>. QED
      BY <3>1, OwnersMove
  <2>3. CASE Connect(t) \/ Navigate(t) \/ StartScreencast(t)
    <3>1. /\ UNCHANGED <<cameras, owner, proc>> /\ HasCamera(t)
          /\ \/ Rests(t)
             \/ \E label, inPlace : Moves(t, label, job[t].mine, inPlace)
      BY <1>0, <2>3, ShowMoves
         DEF Connect, Navigate, StartScreencast, camera, HasCamera, At, Early
    <3>. QED
      BY <2>0, <3>1, OwnersMove
  <2>4. CASE Spawn(t)
    <3>1. /\ UNCHANGED <<cameras, owner>> /\ HasCamera(t)
          /\ proc' = [proc EXCEPT ![job[t].mine] = TRUE]
          /\ Moves(t, "connect", job[t].mine, job[t].inPlace)
      BY <1>0, <2>4, ShowMoves DEF Spawn, HasCamera, At, Early
    <3>2. ASSUME NEW r \in Show, HasCamera(r)' PROVE cameras'[job'[r].sid] = job'[r].mine
      BY <2>0, <3>1, <3>2 DEF Moves, Owners, HasCamera
    <3>3. ASSUME NEW c \in Cam, proc'[c] PROVE \E s \in Sid : cameras'[s] = c
      BY <1>0, <2>0, <3>1, <3>3 DEF Owners
    <3>. QED
      BY <3>1, <3>2, <3>3 DEF Owners
  <2>5. CASE NewCamera(t)
    <3>1. PICK c \in Cam : Taken(t, c)
      BY <1>0, <2>5, NewCameraTakes
    <3>2. proc' = proc /\ owner[c] = None /\ cameras[job[t].sid] = None
      BY <2>5, <3>1 DEF NewCamera, Taken
    <3>3. /\ \A s \in Sid : cameras'[s] = IF s = job[t].sid THEN c ELSE cameras[s]
          /\ \A d \in Cam : owner'[d] = IF d = c THEN job[t].sid ELSE owner[d]
      BY <1>0, <2>0, <3>1 DEF Taken
    <3>4. Moves(t, "spawn", c, job[t].inPlace)
      BY <3>1 DEF Taken
    <3>5. ASSUME NEW s \in Sid, cameras'[s] # None PROVE owner'[cameras'[s]] = s
      BY <1>0, <3>2, <3>3, <3>5, NamesAssumption DEF Owners
    <3>6. ASSUME NEW r \in Show, HasCamera(r)' PROVE cameras'[job'[r].sid] = job'[r].mine
      <4>1. CASE r = t
        BY <2>0, <3>3, <3>4, <4>1 DEF Moves
      <4>2. CASE r # t
        <5>1. job'[r] = job[r] /\ HasCamera(r)
          BY <3>4, <3>6, <4>2 DEF Moves, HasCamera
        <5>2. job[r].mine \in Cam /\ job[r].sid \in Sid /\ cameras[job[r].sid] = job[r].mine
          BY <1>0, <5>1, JobTyped DEF AllSound, Sound, HasCamera, ShowRec, Owners
        <5>. QED
          BY <3>2, <3>3, <5>1, <5>2, NamesAssumption
      <4>. QED
        BY <4>1, <4>2
    <3>7. ASSUME NEW d \in Cam, proc'[d] PROVE \E s \in Sid : cameras'[s] = d
      <4>1. PICK s \in Sid : cameras[s] = d
        BY <3>2, <3>7 DEF Owners
      <4>. QED
        BY <3>2, <3>3, <4>1, NamesAssumption
    <3>. QED
      BY <3>5, <3>6, <3>7 DEF Owners
  <2>. QED
    BY <1>3, <2>1, <2>2, <2>3, <2>4, <2>5 DEF ShowStep
<1>4. ASSUME NEW t \in Show, Request(t) PROVE Owners'
  <2>1. Starts(t) /\ UNCHANGED <<cameras, owner, proc>>
    BY <1>0, <1>4, RequestStarts DEF camera
  <2>2. ASSUME NEW r \in Show, HasCamera(r)' PROVE cameras'[job'[r].sid] = job'[r].mine
    BY <2>1, <2>2 DEF Starts, HasCamera, Early, Owners
  <2>. QED
    BY <2>1, <2>2 DEF Owners
<1>5. CASE \/ \E s \in Session : Offer(s) \/ Dropped(s)
           \/ \E c \in Cam : Capture(c) \/ PumpEnds(c) \/ Decoded(c)
           \/ Clear \/ ServerDies \/ UNCHANGED vars
  BY <1>1, <1>5 DEF Offer, Dropped, Capture, PumpEnds, Decoded, Clear, ServerDies, vars, tasks, camera
<1>. QED
  BY <1>2, <1>3, <1>4, <1>5 DEF Next, CallStep

LEMMA OwnAlways == Spec => [](Types /\ OwnInv)
<1>1. Init => OwnInv
  <2>. SUFFICES ASSUME Init PROVE Owners
    BY DEF OwnInv
  <2>1. /\ \A s \in Sid : cameras[s] = None
        /\ \A c \in Cam : proc[c] = FALSE
        /\ \A t \in Show : ~HasCamera(t)
    BY DEF Init, Idle, HasCamera, Early
  <2>. QED
    BY <2>1 DEF Owners
<1>2. Types /\ OwnInv /\ [Next]_vars => OwnInv'
  <2>. SUFFICES ASSUME Types, OwnInv, [Next]_vars PROVE OwnInv'
    OBVIOUS
  <2>1. scene' = scene
    BY SceneKept
  <2>. QED
    BY <2>1, OwnersStep DEF OwnInv
<1>. QED
  BY <1>1, <1>2, TypesAlways, PTL DEF Spec

(* A Chromium that runs is found by the end of its call, if no call ends under
   its shows: whatever fails between the registration of the camera and the
   process, the page and the socket. *)
THEOREM ChromiumsAreOwned == Spec => []ChromiumOwned
<1>1. OwnInv => ChromiumOwned
  BY DEF OwnInv, Owners, ChromiumOwned
<1>. QED
  BY <1>1, OwnAlways, PTL

-----------------------------------------------------------------------------
(* The title.  In a calm scene the shows are one after the other, for the
   oldest call, and only that call has a camera. *)

Calm ==
  /\ ~scene.overlap
  /\ scene.faults \subseteq {"server"}
  /\ {Kanban, "clear"} \ scene.asks # {}

OfHead(s) == s = Anon \/ (pcs # <<>> /\ Head(pcs) = s /\ call[s] = "up")

Serial ==
  /\ \A t, r \in Show : UnderWay(t) /\ UnderWay(r) => t = r
  /\ \A t \in Show : UnderWay(t) => OfHead(job[t].sid) /\ job[t].want \in Asked
  /\ \A s \in Sid : cameras[s] # None => OfHead(s)
  /\ \A t \in Show : UnderWay(t) => \A s \in Session : cameras[s] # None => s = job[t].sid

(* What every step of a show does. *)
LEMMA ShowSteps ==
  ASSUME Types, NEW t \in Show, ShowStep(t)
  PROVE  /\ UnderWay(t)
         /\ UNCHANGED <<scene, pcs, call>>
         /\ Rests(t) \/ \E label, mine, inPlace : Moves(t, label, mine, inPlace)
         /\ cameras' = cameras \/ \E c \in Cam : Taken(t, c)
<1>0. TypeOK
  BY DEF Types
<1>1. UnderWay(t) /\ UNCHANGED <<scene, pcs, call>>
  BY DEF ShowStep, Check, ServerThere, StartServer, Booted, BootFails, Publish, UseCamera, NewCamera,
         Refused, Spawn, Connect, ConnectFails, Navigate, NavigateFails, StartScreencast, Finish,
         UnderWay, At, calls
<1>2. CASE NewCamera(t)
  BY <1>0, <1>1, <1>2, NewCameraTakes DEF Taken
<1>3. CASE ~NewCamera(t)
  <2>1. cameras' = cameras
    BY <1>3 DEF ShowStep, Check, ServerThere, StartServer, Booted, BootFails, Publish, UseCamera,
         Refused, Spawn, Connect, ConnectFails, Navigate, NavigateFails, StartScreencast, Finish, camera
  <2>2. Rests(t) \/ \E label, mine, inPlace : Moves(t, label, mine, inPlace)
    BY <1>0, <1>3, ShowMoves DEF ShowStep, ServerThere, Booted
  <2>. QED
    BY <1>1, <2>1, <2>2
<1>. QED
  BY <1>2, <1>3

(* A step of a show, seen from the others. *)
LEMMA OthersRest ==
  ASSUME Types, Serial, NEW t \in Show, UnderWay(t),
         Rests(t) \/ \E label, mine, inPlace : Moves(t, label, mine, inPlace)
  PROVE  /\ \A r \in Show : r # t => job[r].step = "idle" /\ job'[r] = job[r]
         /\ job'[t].step # "idle" => job'[t].sid = job[t].sid /\ job'[t].want = job[t].want
BY DEF Serial, UnderWay, Rests, Moves, Idle

(* The oldest call stays the oldest until it is closed. *)
LEMMA HeadStays ==
  ASSUME Types, NEW s \in Session, CallStep(s), NEW r \in Sid, OfHead(r),
         CloseSession(s) => r # s
  PROVE  OfHead(r)'
<1>0. pcs \in Seq(Session) /\ call \in [Session -> {"new", "up", "closing", "gone"}]
  BY DEF Types, TypeOK
<1>. SUFFICES ASSUME r # Anon PROVE pcs' # <<>> /\ Head(pcs') = r /\ call'[r] = "up"
  BY DEF OfHead
<1>1. pcs # <<>> /\ Head(pcs) = r /\ call[r] = "up" /\ r \in Session /\ Len(pcs) \in Nat \ {0}
  BY <1>0, EmptySeq DEF OfHead, Sid
<1>2. CASE Offer(s)
  BY <1>0, <1>1, <1>2 DEF Offer, Call
<1>3. CASE CloseSession(s)
  BY <1>0, <1>1, <1>3 DEF CloseSession, Call
<1>4. CASE Dropped(s)
  <2>1. call[s] = "closing" /\ call' = [call EXCEPT ![s] = "gone"]
    BY <1>4 DEF Dropped, Call
  <2>2. PICK k \in 1..Len(pcs) :
          pcs[k] = s /\ pcs' = SubSeq(pcs, 1, k - 1) \o SubSeq(pcs, k + 1, Len(pcs))
    BY <1>4 DEF Dropped
  <2>3. r # s /\ call'[r] = "up"
    BY <1>0, <1>1, <2>1
  <2>4. k - 1 \in 1..Len(pcs)
    BY <1>0, <1>1, <2>2, <2>3
  <2>5. /\ SubSeq(pcs, 1, k - 1) \in Seq(Session) /\ Len(SubSeq(pcs, 1, k - 1)) = k - 1
        /\ SubSeq(pcs, 1, k - 1)[1] = pcs[1]
        /\ SubSeq(pcs, k + 1, Len(pcs)) \in Seq(Session)
    BY <1>0, <1>1, <2>4, SubSeqProperties
  <2>6. Len(pcs') \in Nat \ {0} /\ pcs'[1] = pcs[1] /\ pcs' \in Seq(Session)
    BY <2>2, <2>4, <2>5, ConcatProperties, LenProperties
  <2>. QED
    BY <1>0, <1>1, <2>3, <2>6
<1>. QED
  BY <1>2, <1>3, <1>4 DEF CallStep

(* Shows are one after the other, for the oldest call. *)
LEMMA SerialStep ==
  ASSUME Types, Serial, ~scene.overlap, [Next]_vars
  PROVE  Serial'
<1>0. /\ TypeOK /\ scene' = scene /\ \A t \in Show : job[t].sid \in Sid
      /\ cameras \in [Sid -> Cam \cup {None}]
  BY SceneKept, JobTyped DEF Types, TypeOK, ShowRec
<1>1. CASE UNCHANGED <<pcs, call, job, cameras>>
  BY <1>0, <1>1 DEF Serial, UnderWay, OfHead, Asked
<1>2. ASSUME NEW s \in Session, CallStep(s) PROVE Serial'
  <2>1. /\ job' = job
        /\ \A r \in Sid : cameras'[r] # None => cameras[r] # None /\ (CloseSession(s) => r # s)
        /\ \A t \in Show : UnderWay(t) /\ CloseSession(s) => job[t].sid # s
    BY <1>0, <1>2 DEF CallStep, Offer, CloseSession, Dropped, tasks, camera
  <2>2. \A t \in Show : UnderWay(t) => OfHead(job[t].sid)'
    BY <1>0, <1>2, <2>1, HeadStays DEF Serial
  <2>3. \A r \in Sid : cameras'[r] # None => OfHead(r)'
    BY <1>2, <2>1, HeadStays DEF Serial
  <2>. QED
    BY <1>0, <2>1, <2>2, <2>3 DEF Serial, UnderWay, Asked, Sid
<1>3. ASSUME NEW t \in Show, ShowStep(t) PROVE Serial'
  <2>1. /\ UnderWay(t) /\ UNCHANGED <<scene, pcs, call>>
        /\ Rests(t) \/ \E label, mine, inPlace : Moves(t, label, mine, inPlace)
        /\ cameras' = cameras \/ \E c \in Cam : Taken(t, c)
    BY <1>3, ShowSteps
  <2>2. /\ \A r \in Show : r # t => job[r].step = "idle" /\ job'[r] = job[r]
        /\ job'[t].step # "idle" => job'[t].sid = job[t].sid /\ job'[t].want = job[t].want
    BY <2>1, OthersRest
  <2>3. \A s \in Sid : cameras'[s] # None => cameras[s] # None \/ s = job[t].sid
    BY <1>0, <2>1 DEF Taken
  <2>4. \A s \in Sid : OfHead(s)' <=> OfHead(s)
    BY <2>1 DEF OfHead
  <2>. QED
    BY <1>0, <2>1, <2>2, <2>3, <2>4 DEF Serial, UnderWay, Asked, Sid
<1>4. ASSUME NEW t \in Show, Request(t) PROVE Serial'
  <2>1. /\ Starts(t) /\ \A r \in Show : ~UnderWay(r)
        /\ SessionId \in Session => call[SessionId] = "up"
        /\ UNCHANGED <<pcs, call, cameras>>
    BY <1>0, <1>4, RequestStarts DEF calls, camera
  <2>2. \A r \in Show : UnderWay(r)' => r = t
    BY <2>1 DEF Starts, UnderWay
  <2>3. SessionId \in Sid /\ OfHead(SessionId)
    BY <1>0, <2>1 DEF TypeOK, SessionId, Sid, OfHead
  <2>4. ASSUME NEW s \in Session, cameras[s] # None PROVE s = SessionId
    BY <2>4, NamesAssumption DEF Serial, OfHead, SessionId, Sid
  <2>. QED
    BY <1>0, <2>1, <2>2, <2>3, <2>4 DEF Serial, Starts, OfHead, Asked
<1>5. CASE \/ \E c \in Cam : Capture(c) \/ PumpEnds(c) \/ Decoded(c)
           \/ Clear \/ ServerDies \/ UNCHANGED vars
  BY <1>1, <1>5 DEF Capture, PumpEnds, Decoded, Clear, ServerDies, vars, calls, tasks, camera
<1>. QED
  BY <1>2, <1>3, <1>4, <1>5 DEF Next

(* The viz server's pane of a session, until the session is closed, is on the
   page of its camera. *)
Active(s) == s = Anon \/ call[s] \in {"new", "up"}
Panes ==
  /\ \A s \in Sid : pane[s] # None => owner[pane[s]] = s
  /\ \A s \in Sid : Active(s) /\ pane[s] # None => pane[s] = cameras[s]

LEMMA PanesStep ==
  ASSUME Types, Owners, Serial, Panes, ~scene.overlap, [Next]_vars
  PROVE  Panes'
<1>0. /\ TypeOK /\ AllSound
      /\ cameras \in [Sid -> Cam \cup {None}] /\ owner \in [Cam -> Sid \cup {None}]
      /\ pane \in [Sid -> Cam \cup {None}]
      /\ call \in [Session -> {"new", "up", "closing", "gone"}]
  BY DEF Types, TypeOK
<1>1. CASE UNCHANGED <<call, pane, cameras, owner>>
  BY <1>1 DEF Panes, Active
<1>2. ASSUME NEW s \in Session, CallStep(s) PROVE Panes'
  <2>1. /\ UNCHANGED <<pane, owner>>
        /\ \A r \in Sid : Active(r)' => Active(r)
        /\ cameras' = cameras \/ (cameras' = [cameras EXCEPT ![s] = None] /\ ~Active(s)')
    BY <1>0, <1>2, NamesAssumption
       DEF CallStep, Offer, CloseSession, Dropped, Call, viz, camera, Active, Sid
  <2>. QED
    BY <1>0, <2>1 DEF Panes, Sid
<1>3. ASSUME NEW t \in Show, NewCamera(t) PROVE Panes'
  <2>1. PICK c \in Cam : Taken(t, c)
    BY <1>0, <1>3, NewCameraTakes
  <2>2. /\ owner[c] = None /\ cameras[job[t].sid] = None /\ job[t].sid \in Sid
        /\ \A s \in Sid : cameras'[s] = IF s = job[t].sid THEN c ELSE cameras[s]
        /\ \A d \in Cam : owner'[d] = IF d = c THEN job[t].sid ELSE owner[d]
        /\ UNCHANGED <<call, pane>>
    BY <1>0, <1>3, <2>1, JobTyped DEF Taken, NewCamera, ShowRec, calls, viz
  <2>3. Active(job[t].sid)
    BY <1>3 DEF Serial, NewCamera, At, UnderWay, OfHead, Active
  <2>. QED
    BY <1>0, <2>2, <2>3, NamesAssumption DEF Panes, Active
<1>4. ASSUME NEW t \in Show, Connect(t) \/ Navigate(t) PROVE Panes'
  <2>1. /\ Load(t) /\ UNCHANGED <<call, cameras, owner>> /\ HasCamera(t)
    BY <1>4 DEF Connect, Navigate, calls, HasCamera, At, Early
  <2>2. /\ job[t].sid \in Sid /\ job[t].mine \in Cam
        /\ cameras[job[t].sid] = job[t].mine /\ owner[job[t].mine] = job[t].sid
    BY <1>0, <2>1, JobTyped, NamesAssumption DEF AllSound, Sound, Owners, ShowRec, HasCamera
  <2>3. pane' = pane \/ pane' = [pane EXCEPT ![job[t].sid] = job[t].mine]
    BY <2>1 DEF Load
  <2>. QED
    BY <1>0, <2>1, <2>2, <2>3 DEF Panes, Active
<1>5. CASE ServerDies
  <2>1. \A s \in Sid : pane'[s] = None
    BY <1>5 DEF ServerDies
  <2>. QED
    BY <2>1 DEF Panes
<1>6. ASSUME NEW t \in Show, Request(t) PROVE Panes'
  BY <1>0, <1>1, <1>6, RequestStarts DEF calls, viz, camera
<1>7. CASE \/ \E t \in Show : ShowStep(t) /\ ~NewCamera(t) /\ ~Connect(t) /\ ~Navigate(t)
           \/ \E c \in Cam : Capture(c) \/ PumpEnds(c) \/ Decoded(c)
           \/ Clear \/ UNCHANGED vars
  <2>1. UNCHANGED <<call, pane, cameras, owner>>
    BY <1>7 DEF ShowStep, Check, ServerThere, StartServer, Booted, BootFails, Publish, UseCamera, Refused,
         Spawn, ConnectFails, NavigateFails, StartScreencast, Finish, Capture, PumpEnds, Decoded, Clear, vars,
         calls, viz, camera
  <2>. QED
    BY <1>1, <2>1
<1>. QED
  BY <1>2, <1>3, <1>4, <1>5, <1>6, <1>7 DEF Next

(* A camera that was never loaded, and one that delivers frames. *)
New(c) == /\ page[c] = None /\ image[c] = None /\ blob[c] = None
          /\ ws[c] = FALSE /\ cast[c] = FALSE
Casting(c) == ws[c] = TRUE /\ cast[c] = TRUE /\ image[c] # None
Idling(c) == \A t \in Show : HasCamera(t) => job[t].mine # c

(* How far a show is with the camera of its session. *)
Busy(t, c) ==
  /\ job[t].step = "camera" /\ job[t].inPlace = TRUE => Casting(c)
  /\ job[t].step \in {"spawn", "connect"} => New(c)
  /\ job[t].step = "navigate" => New(c) \/ Casting(c)
  /\ job[t].step = "cast" => ws[c] = TRUE /\ page[c] # None
  /\ job[t].step = "frame" => ws[c] = TRUE /\ cast[c] = TRUE /\ page[c] # None
  /\ job[t].step = "settle" => Casting(c)

CamAt(t) ==
  /\ job[t].step \in {"check", "server", "boot", "publish"} => job[t].inPlace = FALSE
  /\ job[t].step = "camera" /\ job[t].inPlace = TRUE => cameras[job[t].sid] # None
  /\ \A c \in Cam : cameras[job[t].sid] = c => Busy(t, c)

(* A camera that no show is busy with delivers frames, or was never loaded;
   one with a pane was. *)
Cams ==
  /\ \A c \in Cam : owner[c] = None => New(c)
  /\ \A s \in Sid, c \in Cam : cameras[s] = c /\ pane[s] # None => ws[c] = TRUE
  /\ \A s \in Sid, c \in Cam : cameras[s] = c /\ Idling(c) => New(c) \/ Casting(c)
  /\ \A t \in Show : CamAt(t)

(* The one show under way, and the cameras it is not busy with. *)
LEMMA Lone ==
  ASSUME Types, Owners, Serial, NEW t \in Show, UnderWay(t)
  PROVE  /\ \A r \in Show : r # t => job[r].step = "idle"
         /\ job[t].sid \in Sid /\ job[t].want \in Picture /\ Active(job[t].sid)
         /\ job[t].want \in Asked /\ job[t].inPlace \in BOOLEAN
         /\ cameras[job[t].sid] \in Cam \cup {None}
         /\ ~HasCamera(t) => \A c \in Cam : Idling(c)
         /\ HasCamera(t) => /\ job[t].mine \in Cam /\ cameras[job[t].sid] = job[t].mine
                            /\ owner[job[t].mine] = job[t].sid
                            /\ \A c \in Cam : c # job[t].mine => Idling(c)
<1>1. /\ job[t] \in ShowRec /\ Sound(job[t]) /\ cameras \in [Sid -> Cam \cup {None}]
  BY JobTyped DEF Types, TypeOK, AllSound
<1>2. \A r \in Show : r # t => job[r].step = "idle" /\ ~HasCamera(r)
  BY DEF Serial, UnderWay, HasCamera, Early
<1>3. /\ job[t].sid \in Sid /\ job[t].want \in Picture /\ Active(job[t].sid)
      /\ job[t].want \in Asked /\ job[t].inPlace \in BOOLEAN
      /\ cameras[job[t].sid] \in Cam \cup {None}
  BY <1>1 DEF ShowRec, Sound, Serial, UnderWay, OfHead, Active
<1>4. ~HasCamera(t) => \A c \in Cam : Idling(c)
  BY <1>2 DEF Idling
<1>5. HasCamera(t) => /\ job[t].mine \in Cam /\ cameras[job[t].sid] = job[t].mine
                      /\ owner[job[t].mine] = job[t].sid
                      /\ \A c \in Cam : c # job[t].mine => Idling(c)
  BY <1>1, <1>2, <1>3, NamesAssumption DEF HasCamera, Sound, Owners, Idling
<1>. QED
  BY <1>2, <1>3, <1>4, <1>5

(* The same after its step. *)
LEMMA LoneNext ==
  ASSUME Types, Serial, NEW t \in Show, UnderWay(t)
  PROVE  /\ Rests(t) => /\ \A r \in Show : job'[r].step = "idle"
                        /\ \A c : Idling(c)'
         /\ \A label, mine, inPlace : Moves(t, label, mine, inPlace) =>
              /\ \A r \in Show : r # t => job'[r].step = "idle"
              /\ label \notin Early => \A c : Idling(c)' => c # mine
<1>1. Rests(t) => \A r \in Show : job'[r].step = "idle"
  BY DEF Serial, UnderWay, Rests, Idle
<1>2. (\A r \in Show : job'[r].step = "idle") => \A c : Idling(c)'
  BY DEF Idling, HasCamera, Early
<1>3. ASSUME NEW label, NEW mine, NEW inPlace, Moves(t, label, mine, inPlace)
      PROVE  /\ \A r \in Show : r # t => job'[r].step = "idle"
             /\ label \notin Early => \A c : Idling(c)' => c # mine
  BY <1>3 DEF Serial, UnderWay, Moves, Idling, HasCamera
<1>. QED
  BY <1>1, <1>2, <1>3

CamTyped ==
  /\ cameras \in [Sid -> Cam \cup {None}] /\ owner \in [Cam -> Sid \cup {None}]
  /\ pane \in [Sid -> Cam \cup {None}]
  /\ ws \in [Cam -> BOOLEAN] /\ cast \in [Cam -> BOOLEAN]
  /\ page \in [Cam -> Picture \cup {None}] /\ image \in [Cam -> Picture \cup {None}]
  /\ blob \in [Cam -> Picture \cup {None}]
  /\ scenes \in [Sid -> Figure \cup {None}]

LEMMA CamTypes == Types => CamTyped
BY DEF Types, TypeOK, CamTyped

(* The end of a call takes its camera away. *)
LEMMA CamsClose ==
  ASSUME Types, Owners, Cams, ~scene.overlap, NEW s \in Session, CloseSession(s)
  PROVE  Cams'
<1>0. /\ cameras \in [Sid -> Cam \cup {None}] /\ owner \in [Cam -> Sid \cup {None}]
      /\ ws \in [Cam -> BOOLEAN] /\ cast \in [Cam -> BOOLEAN]
  BY CamTypes DEF CamTyped
<1>1. /\ \A t \in Show : UnderWay(t) => job[t].sid # s
      /\ cameras' = [cameras EXCEPT ![s] = None] /\ s \in Sid
      /\ UNCHANGED <<job, pane, owner, page, blob, image>>
      /\ \/ UNCHANGED <<ws, cast>>
         \/ /\ ws' = [ws EXCEPT ![cameras[s]] = FALSE]
            /\ cast' = [cast EXCEPT ![cameras[s]] = FALSE]
  BY DEF CloseSession, CloseCamera, StopScreencast, tasks, viz, Sid
<1>2. \A r \in Sid : cameras'[r] = IF r = s THEN None ELSE cameras[r]
  BY <1>0, <1>1
<1>3. \A c \in Cam : /\ ws'[c] = ws[c] \/ ws'[c] = FALSE
                     /\ cast'[c] = cast[c] \/ cast'[c] = FALSE
                     /\ c # cameras[s] => ws'[c] = ws[c] /\ cast'[c] = cast[c]
  BY <1>0, <1>1
<1>4. \A c \in Cam : New(c) => New(c)'
  BY <1>1, <1>3 DEF New
<1>5. \A c \in Cam : c # cameras[s] /\ Casting(c) => Casting(c)'
  BY <1>1, <1>3 DEF Casting
<1>6. \A r \in Sid, c \in Cam : cameras'[r] = c => cameras[r] = c /\ c # cameras[s] /\ r # s
  BY <1>0, <1>1, <1>2, NamesAssumption DEF Owners
<1>7. \A c \in Cam : Idling(c)' <=> Idling(c)
  BY <1>1 DEF Idling, HasCamera
<1>8. \A r \in Sid, c \in Cam : cameras'[r] = c /\ pane'[r] # None => ws'[c] = TRUE
  BY <1>1, <1>3, <1>6 DEF Cams
<1>9. \A r \in Sid, c \in Cam : cameras'[r] = c /\ Idling(c)' => New(c)' \/ Casting(c)'
  BY <1>4, <1>5, <1>6, <1>7 DEF Cams
<1>10. ASSUME NEW t \in Show PROVE CamAt(t)'
  <2>1. CASE ~UnderWay(t)
    BY <1>1, <2>1 DEF CamAt, Busy, UnderWay
  <2>2. CASE UnderWay(t)
    <3>1. job[t].sid \in Sid /\ job[t].sid # s /\ CamAt(t) /\ job' = job
      BY <1>1, <2>2, JobTyped DEF Types, ShowRec, Cams
    <3>2. ASSUME NEW c \in Cam, cameras'[job[t].sid] = c PROVE Busy(t, c)'
      <4>1. Busy(t, c) /\ c # cameras[s]
        BY <1>6, <3>1, <3>2 DEF CamAt
      <4>. QED
        BY <1>1, <1>3, <1>4, <1>5, <4>1 DEF Busy
    <3>. QED
      BY <1>2, <3>1, <3>2 DEF CamAt
  <2>. QED
    BY <2>1, <2>2
<1>. QED
  BY <1>1, <1>4, <1>8, <1>9, <1>10 DEF Cams

(* A step of a show is about the camera of its session and no other. *)
Same(c) == /\ page'[c] = page[c] /\ image'[c] = image[c] /\ blob'[c] = blob[c]
           /\ ws'[c] = ws[c] /\ cast'[c] = cast[c]

(* A step of a show keeps the cameras if it leaves those of the other
   sessions alone and its own, once it is done, delivers frames or is new. *)
LEMMA CamsShow ==
  ASSUME Types, Owners, Serial, Cams, NEW t \in Show, UnderWay(t),
         UNCHANGED <<cameras, owner>>,
         \A c \in Cam : c # cameras[job[t].sid] => Same(c),
         \A r \in Sid : r # job[t].sid => pane'[r] = pane[r],
         \A c \in Cam : cameras[job[t].sid] = c /\ pane'[job[t].sid] # None => ws'[c] = TRUE,
         \/ /\ Rests(t)
            /\ \A c \in Cam : cameras[job[t].sid] = c => New(c)' \/ Casting(c)'
         \/ \E label, mine, inPlace :
              /\ Moves(t, label, mine, inPlace)
              /\ CamAt(t)'
              /\ IF label \in Early
                 THEN \A c \in Cam : cameras[job[t].sid] = c => New(c)' \/ Casting(c)'
                 ELSE mine = cameras[job[t].sid]
  PROVE  Cams'
<1>0. /\ cameras \in [Sid -> Cam \cup {None}] /\ owner \in [Cam -> Sid \cup {None}]
      /\ job[t].sid \in Sid
      /\ \A c \in Cam : c # cameras[job[t].sid] => Idling(c)
  BY CamTypes, Lone DEF CamTyped
<1>1. \A c \in Cam : c # cameras[job[t].sid] =>
        (New(c)' <=> New(c)) /\ (Casting(c)' <=> Casting(c)) /\ ws'[c] = ws[c]
  BY DEF Same, New, Casting
<1>2. \A c \in Cam : owner'[c] = None => New(c)'
  <2>1. \A c \in Cam : owner[c] = None => c # cameras[job[t].sid]
    BY <1>0, NamesAssumption DEF Owners
  <2>. QED
    BY <1>1, <2>1 DEF Cams
<1>3. ASSUME NEW s \in Sid, NEW c \in Cam, cameras'[s] = c, pane'[s] # None PROVE ws'[c] = TRUE
  <2>1. CASE s = job[t].sid
    BY <1>3, <2>1
  <2>2. CASE s # job[t].sid
    <3>1. c # cameras[job[t].sid]
      BY <1>0, <1>3, <2>2, NamesAssumption DEF Owners
    <3>2. cameras[s] = c /\ pane[s] # None
      BY <1>3, <2>2
    <3>3. ws[c] = TRUE
      BY <3>2 DEF Cams
    <3>. QED
      BY <1>1, <3>1, <3>3
  <2>. QED
    BY <2>1, <2>2
<1>4. ASSUME NEW s \in Sid, NEW c \in Cam, cameras'[s] = c, Idling(c)'
      PROVE  New(c)' \/ Casting(c)'
  <2>1. CASE c # cameras[job[t].sid]
    <3>1. Idling(c) /\ cameras[s] = c
      BY <1>0, <1>4, <2>1
    <3>. QED
      BY <1>1, <2>1, <3>1 DEF Cams
  <2>2. CASE c = cameras[job[t].sid]
    BY <1>4, <2>2, LoneNext
  <2>. QED
    BY <2>1, <2>2
<1>5. \A r \in Show : CamAt(r)'
  <2>1. \A r \in Show : job'[r].step = "idle" => CamAt(r)'
    BY DEF CamAt, Busy
  <2>. QED
    BY <2>1, LoneNext
<1>. QED
  BY <1>2, <1>3, <1>4, <1>5 DEF Cams

(* Before it has its camera. *)
LEMMA CamsBefore ==
  ASSUME Types, Owners, Serial, Panes, Cams, NEW t \in Show,
         \/ Check(t) \/ ServerThere(t) \/ StartServer(t) \/ Booted(t) \/ BootFails(t) \/ Publish(t)
  PROVE  Cams'
<1>0. /\ cameras \in [Sid -> Cam \cup {None}] /\ pane \in [Sid -> Cam \cup {None}]
      /\ page \in [Cam -> Picture \cup {None}] /\ TypeOK
  BY CamTypes DEF CamTyped, Types
<1>1. job[t].step \in {"check", "server", "boot", "publish"}
  BY DEF Check, ServerThere, StartServer, Booted, BootFails, Publish, At
<1>2. UnderWay(t) /\ ~HasCamera(t) /\ job[t].inPlace = FALSE
  BY <1>1 DEF UnderWay, HasCamera, Early, Cams, CamAt
<1>3. /\ job[t].sid \in Sid /\ Active(job[t].sid) /\ job[t].want \in Picture
      /\ \A c \in Cam : Idling(c)
  BY <1>2, Lone
<1>4. /\ \A c \in Cam : cameras[job[t].sid] = c => New(c) \/ Casting(c)
      /\ \A c \in Cam : cameras[job[t].sid] = c /\ pane[job[t].sid] # None => ws[c] = TRUE
  BY <1>3 DEF Cams
<1>5. CASE ~Publish(t)
  <2>1. UNCHANGED <<pane, cameras, owner, ws, cast, page, image, blob>>
    BY <1>5 DEF Check, ServerThere, StartServer, Booted, BootFails, viz, camera
  <2>2. \/ Rests(t)
        \/ \E label \in {"server", "boot", "camera", "publish"} : Moves(t, label, job[t].mine, FALSE)
    BY <1>0, <1>2, <1>5, ShowMoves DEF ServerThere, Booted
  <2>3. \A label \in {"server", "boot", "camera", "publish"} :
          Moves(t, label, job[t].mine, FALSE) => CamAt(t)'
    BY DEF Moves, CamAt, Busy
  <2>4. /\ \A c \in Cam : Same(c)
        /\ \A c \in Cam : cameras[job[t].sid] = c => New(c)' \/ Casting(c)'
        /\ \A c \in Cam : cameras[job[t].sid] = c /\ pane'[job[t].sid] # None => ws'[c] = TRUE
    BY <1>4, <2>1 DEF Same, New, Casting
  <2>. QED
    BY <1>2, <2>1, <2>2, <2>3, <2>4, CamsShow DEF Early
<1>6. CASE Publish(t)
  <2>1. /\ UNCHANGED <<pane, cameras, owner, ws, cast, image, blob>>
        /\ ReplaceObject(job[t].sid, job[t].want)
        /\ Moves(t, "camera", job[t].mine, HasPane(job[t].sid))
    BY <1>0, <1>6, ShowMoves DEF Publish, SceneHandler
  <2>2. /\ HasPane(job[t].sid) => pane[job[t].sid] = cameras[job[t].sid]
        /\ HasPane(job[t].sid) => cameras[job[t].sid] # None
    BY <1>3 DEF HasPane, Panes
  <2>3. \A c \in Cam : /\ c # cameras[job[t].sid] => page'[c] = page[c]
                       /\ page'[c] = None <=> page[c] = None
    BY <1>0, <1>3, <2>1, <2>2, NamesAssumption DEF ReplaceObject, Picture
  <2>4. /\ \A c \in Cam : c # cameras[job[t].sid] => Same(c)
        /\ \A c \in Cam : (New(c) => New(c)') /\ (Casting(c) => Casting(c)')
    BY <2>1, <2>3 DEF Same, New, Casting
  <2>5. /\ \A c \in Cam : cameras[job[t].sid] = c => New(c)' \/ Casting(c)'
        /\ \A c \in Cam : cameras[job[t].sid] = c /\ pane'[job[t].sid] # None => ws'[c] = TRUE
    BY <1>4, <2>1, <2>4
  <2>6. ASSUME NEW c \in Cam, cameras[job[t].sid] = c, HasPane(job[t].sid) PROVE Casting(c)'
    <3>1. ws[c] = TRUE
      BY <1>4, <2>6 DEF HasPane
    <3>. QED
      BY <1>4, <2>4, <2>6, <3>1 DEF New
  <2>7. job'[t].step = "camera" /\ job'[t].sid = job[t].sid /\ (job'[t].inPlace = HasPane(job[t].sid))
    BY <2>1 DEF Moves
  <2>8. CamAt(t)'
    BY <2>1, <2>2, <2>6, <2>7 DEF CamAt, Busy
  <2>. QED
    BY <1>2, <2>1, <2>4, <2>5, <2>8, CamsShow DEF Early
<1>. QED
  BY <1>5, <1>6

(* A new camera is as new as its slot. *)
LEMMA CamsNew ==
  ASSUME Types, Owners, Serial, Panes, Cams, NEW t \in Show, NewCamera(t)
  PROVE  Cams'
<1>0. /\ cameras \in [Sid -> Cam \cup {None}] /\ owner \in [Cam -> Sid \cup {None}] /\ TypeOK
  BY CamTypes DEF CamTyped, Types
<1>1. UnderWay(t) /\ ~HasCamera(t)
  BY DEF NewCamera, At, UnderWay, HasCamera, Early
<1>2. /\ job[t].sid \in Sid /\ Active(job[t].sid)
      /\ \A c \in Cam : Idling(c)
  BY <1>1, Lone
<1>3. PICK c \in Cam : Taken(t, c)
  BY <1>0, NewCameraTakes
<1>4. /\ owner[c] = None /\ cameras[job[t].sid] = None
      /\ \A s \in Sid : cameras'[s] = IF s = job[t].sid THEN c ELSE cameras[s]
      /\ \A d \in Cam : owner'[d] = IF d = c THEN job[t].sid ELSE owner[d]
      /\ Moves(t, "spawn", c, job[t].inPlace)
      /\ UNCHANGED <<pane, ws, cast, page, image, blob>>
  BY <1>0, <1>2, <1>3 DEF Taken, NewCamera, viz
<1>5. \A d \in Cam : Same(d)
  BY <1>4 DEF Same
<1>6. \A d \in Cam : (New(d)' <=> New(d)) /\ (Casting(d)' <=> Casting(d))
  BY <1>5 DEF Same, New, Casting
<1>7. \A d \in Cam : owner'[d] = None => New(d)'
  BY <1>2, <1>4, <1>6, NamesAssumption DEF Cams
<1>8. ASSUME NEW s \in Sid, NEW d \in Cam, cameras'[s] = d, pane'[s] # None PROVE ws'[d] = TRUE
  <2>1. s # job[t].sid
    BY <1>2, <1>4, <1>8 DEF Panes
  <2>. QED
    BY <1>4, <1>8, <2>1 DEF Cams
<1>9. ASSUME NEW s \in Sid, NEW d \in Cam, cameras'[s] = d, Idling(d)'
      PROVE  New(d)' \/ Casting(d)'
  <2>1. d # c
    BY <1>1, <1>4, <1>9, LoneNext DEF Early
  <2>2. cameras[s] = d /\ Idling(d)
    BY <1>2, <1>4, <1>9, <2>1
  <2>. QED
    BY <1>6, <2>2 DEF Cams
<1>10. New(c)' /\ job'[t].step = "spawn" /\ job'[t].sid = job[t].sid
  BY <1>4, <1>6 DEF Cams, Moves
<1>11. CamAt(t)'
  BY <1>2, <1>4, <1>10 DEF CamAt, Busy
<1>12. \A r \in Show : CamAt(r)'
  <2>1. \A r \in Show : job'[r].step = "idle" => CamAt(r)'
    BY DEF CamAt, Busy
  <2>. QED
    BY <1>1, <1>4, <1>11, <2>1, LoneNext
<1>. QED
  BY <1>7, <1>8, <1>9, <1>12 DEF Cams

(* With its camera, in a calm scene. *)
LEMMA CamsWith ==
  ASSUME Types, Owners, Serial, Panes, Cams, Calm, NEW t \in Show,
         \/ UseCamera(t) \/ Refused(t) \/ Spawn(t) \/ Connect(t) \/ ConnectFails(t)
         \/ Navigate(t) \/ NavigateFails(t) \/ StartScreencast(t) \/ Finish(t)
  PROVE  Cams'
<1>. DEFINE s == job[t].sid
            c == cameras[s]
<1>0. /\ cameras \in [Sid -> Cam \cup {None}] /\ pane \in [Sid -> Cam \cup {None}]
      /\ page \in [Cam -> Picture \cup {None}] /\ image \in [Cam -> Picture \cup {None}]
      /\ ws \in [Cam -> BOOLEAN] /\ cast \in [Cam -> BOOLEAN]
      /\ scenes \in [Sid -> Figure \cup {None}]
      /\ TypeOK /\ ~Fault("paint") /\ ~Fault("chromium")
  BY CamTypes DEF CamTyped, Types, Calm, Fault
<1>1. UnderWay(t) /\ CamAt(t)
  BY DEF UseCamera, Refused, Spawn, Connect, ConnectFails, Navigate, NavigateFails, StartScreencast,
         Finish, UnderWay, At, Cams
<1>2. s \in Sid /\ Active(s) /\ job[t].want \in Picture /\ job[t].inPlace \in BOOLEAN
  BY <1>1, Lone
<1>3. CASE UseCamera(t)
  <2>1. c \in Cam /\ At(t, "camera") /\ UNCHANGED <<pane, cameras, owner, ws, cast, page, image, blob>>
    BY <1>0, <1>2, <1>3 DEF UseCamera, viz, camera
  <2>2. Moves(t, IF ~job[t].inPlace THEN "navigate"
                 ELSE IF image[c] = None /\ ~cast[c] THEN "cast" ELSE "settle", c, job[t].inPlace)
    BY <1>0, <1>3, ShowMoves
  <2>3. ~HasCamera(t)
    BY <2>1 DEF HasCamera, At, Early
  <2>4. New(c) \/ Casting(c)
    BY <1>1, <1>2, <2>1, <2>3, Lone DEF Cams
  <2>5. job[t].inPlace = TRUE => Casting(c)
    BY <1>1, <2>1 DEF CamAt, Busy, At
  <2>. HIDE DEF c
  <2>6. \/ Moves(t, "navigate", c, job[t].inPlace)
        \/ Moves(t, "settle", c, job[t].inPlace) /\ Casting(c)
    BY <1>2, <2>2, <2>5 DEF Casting
  <2>7. \A d \in Cam : Same(d) /\ (New(d) <=> New(d)') /\ (Casting(d) <=> Casting(d)')
    BY <2>1 DEF Same, New, Casting
  <2>8. cameras'[s] = c
    BY <2>1 DEF c
  <2>9. CamAt(t)'
    BY <2>1, <2>4, <2>6, <2>7, <2>8 DEF CamAt, Busy, Moves
  <2>10. \A d \in Cam : cameras[s] = d /\ pane'[s] # None => ws'[d] = TRUE
    BY <1>2, <2>1 DEF Cams
  <2>. QED
    BY <1>1, <2>1, <2>6, <2>7, <2>8, <2>9, <2>10, CamsShow DEF Early
<1>4. CASE ~UseCamera(t)
  <2>1. HasCamera(t) /\ UNCHANGED <<cameras, owner>>
    BY <1>4 DEF Refused, Spawn, Connect, ConnectFails, Navigate, NavigateFails, StartScreencast,
         Finish, HasCamera, At, Early, camera
  <2>2. c \in Cam /\ job[t].mine = c
    BY <1>1, <2>1, Lone
  <2>3. Busy(t, c)
    BY <1>1, <2>2 DEF CamAt
  <2>4. pane[s] # None => ws[c] = TRUE
    BY <1>2, <2>2 DEF Cams
  <2>. HIDE DEF s, c
  <2>5. job[t].sid = s /\ cameras[s] = c /\ cameras'[s] = c
    BY <2>1 DEF s, c
  <2>6. CASE Refused(t) \/ Spawn(t) \/ ConnectFails(t)
    <3>1. /\ Rests(t) \/ Moves(t, "connect", c, job[t].inPlace)
          /\ New(c) /\ UNCHANGED <<pane, ws, cast, page, image, blob>>
      BY <1>0, <2>2, <2>3, <2>6, ShowMoves DEF Refused, Spawn, ConnectFails, Busy, At, viz, camera
    <3>2. \A d \in Cam : Same(d) /\ (New(d) <=> New(d)')
      BY <3>1 DEF Same, New
    <3>3. Moves(t, "connect", c, job[t].inPlace) => CamAt(t)'
      BY <2>5, <3>1, <3>2 DEF CamAt, Busy, Moves
    <3>. QED
      BY <1>1, <2>1, <2>2, <2>4, <2>5, <3>1, <3>2, <3>3, CamsShow DEF Early
  <2>7. CASE Connect(t) \/ Navigate(t)
    <3>1. Load(t)
      BY <2>7 DEF Connect, Navigate
    <3>2. /\ page' = [page EXCEPT ![c] = IF job[t].want = Kanban THEN Kanban ELSE scenes[s]]
          /\ job[t].want = Kanban \/ scenes[s] # None
          /\ pane' = pane \/ pane' = [pane EXCEPT ![s] = c]
      BY <2>2, <2>5, <3>1 DEF Load
    <3>3. /\ page'[c] # None
          /\ \A d \in Cam : d # c => page'[d] = page[d]
          /\ \A r \in Sid : r # s => pane'[r] = pane[r]
      BY <1>0, <1>2, <2>2, <3>2, NamesAssumption DEF Picture
    <3>4. CASE Connect(t)
      <4>1. /\ ws' = [ws EXCEPT ![c] = TRUE] /\ UNCHANGED <<cast, image, blob>>
            /\ Moves(t, "cast", c, job[t].inPlace)
        BY <1>0, <2>2, <3>4, ShowMoves DEF Connect
      <4>2. /\ \A d \in Cam : d # c => Same(d)
            /\ ws'[c] = TRUE
        BY <1>0, <2>2, <3>3, <4>1 DEF Same
      <4>3. CamAt(t)'
        BY <2>5, <3>3, <4>1, <4>2 DEF CamAt, Busy, Moves
      <4>. QED
        BY <1>1, <2>1, <2>2, <2>5, <3>3, <4>1, <4>2, <4>3, CamsShow DEF Early
    <3>5. CASE Navigate(t)
      <4>1. /\ Casting(c) /\ UNCHANGED <<ws, cast, image, blob>>
        BY <2>2, <2>3, <3>5 DEF Navigate, Busy, New, At
      <4>2. Moves(t, "settle", c, job[t].inPlace)
        BY <1>0, <2>2, <3>5, <4>1, ShowMoves DEF Casting
      <4>3. \A d \in Cam : (d # c => Same(d)) /\ (Casting(d) => Casting(d)')
        BY <3>3, <4>1 DEF Same, Casting
      <4>4. CamAt(t)'
        BY <2>2, <2>5, <4>1, <4>2, <4>3 DEF CamAt, Busy, Moves
      <4>5. ws'[c] = TRUE
        BY <4>1 DEF Casting
      <4>. QED
        BY <1>1, <2>1, <2>2, <2>5, <3>3, <4>2, <4>3, <4>4, <4>5, CamsShow DEF Early
    <3>. QED
      BY <2>7, <3>4, <3>5
  <2>8. CASE NavigateFails(t)
    <3>1. /\ Rests(t) /\ UNCHANGED <<pane, ws, cast, image, blob>>
          /\ New(c) \/ Casting(c)
          /\ (page' = page) \/ (ws[c] /\ page' = [page EXCEPT ![c] = None])
      BY <1>0, <2>2, <2>3, <2>8, ShowMoves DEF NavigateFails, Busy, At, viz
    <3>2. \A d \in Cam : d # c => Same(d)
      BY <1>0, <2>2, <3>1 DEF Same
    <3>3. \A d \in Cam : d = c => New(d)' \/ Casting(d)'
      <4>1. CASE page' = page
        BY <3>1, <4>1 DEF New, Casting
      <4>2. CASE ws[c] /\ page' = [page EXCEPT ![c] = None]
        <5>1. Casting(c)
          BY <3>1, <4>2 DEF New
        <5>. QED
          BY <3>1, <5>1 DEF Casting
      <4>. QED
        BY <3>1, <4>1, <4>2
    <3>. QED
      BY <1>1, <2>1, <2>2, <2>4, <2>5, <3>1, <3>2, <3>3, CamsShow
  <2>9. CASE StartScreencast(t)
    <3>1. ws[c] = TRUE /\ page[c] # None
      BY <2>2, <2>3, <2>9 DEF StartScreencast, Busy, At
    <3>2. /\ cast' = [cast EXCEPT ![c] = TRUE] /\ UNCHANGED <<pane, ws, page, image, blob>>
          /\ Moves(t, "frame", c, job[t].inPlace)
      BY <1>0, <2>2, <2>9, <3>1, ShowMoves DEF StartScreencast, viz
    <3>3. /\ \A d \in Cam : d # c => Same(d)
          /\ cast'[c] = TRUE
      BY <1>0, <2>2, <3>2 DEF Same
    <3>4. CamAt(t)'
      BY <2>5, <3>1, <3>2, <3>3 DEF CamAt, Busy, Moves
    <3>. QED
      BY <1>1, <2>1, <2>2, <2>4, <2>5, <3>2, <3>3, <3>4, CamsShow DEF Early
  <2>10. CASE Finish(t)
    <3>. DEFINE f == IF At(t, "frame") THEN FirstFrame(c) ELSE image[c]
    <3>1. /\ image' = [image EXCEPT ![c] = f] /\ UNCHANGED <<pane, ws, cast, page, blob>> /\ Rests(t)
      BY <1>0, <2>2, <2>10, ShowMoves DEF Finish, viz
    <3>2. ws[c] = TRUE /\ cast[c] = TRUE /\ f # None
      BY <2>2, <2>3, <2>10 DEF Finish, Busy, At, Casting, FirstFrame
    <3>. HIDE DEF f
    <3>3. /\ \A d \in Cam : d # c => Same(d)
          /\ \A d \in Cam : d = c => Casting(d)'
      BY <1>0, <2>2, <3>1, <3>2 DEF Same, Casting
    <3>. QED
      BY <1>1, <2>1, <2>2, <2>4, <2>5, <3>1, <3>2, <3>3, CamsShow
  <2>. QED
    BY <1>4, <2>6, <2>7, <2>8, <2>9, <2>10
<1>. QED
  BY <1>3, <1>4

(* The cameras between the steps of the shows. *)
LEMMA CamsRest ==
  ASSUME Types, Cams, UNCHANGED <<job, cameras, owner, ws, cast, page>>,
         \A s \in Sid : pane'[s] = pane[s] \/ pane'[s] = None,
         \A c \in Cam : New(c) => image'[c] = image[c] /\ blob'[c] = blob[c],
         \A c \in Cam : Casting(c) => image'[c] # None
  PROVE  Cams'
<1>1. \A c \in Cam : (New(c) => New(c)') /\ (Casting(c) => Casting(c)')
  BY DEF New, Casting
<1>2. \A c \in Cam : Idling(c)' <=> Idling(c)
  BY DEF Idling, HasCamera
<1>3. ASSUME NEW t \in Show PROVE CamAt(t)'
  <2>1. CamAt(t)
    BY DEF Cams
  <2>2. ASSUME NEW c \in Cam, Busy(t, c) PROVE Busy(t, c)'
    BY <1>1, <2>2 DEF Busy
  <2>. QED
    BY <2>1, <2>2 DEF CamAt
<1>. QED
  BY <1>1, <1>2, <1>3 DEF Cams

LEMMA CamsStep ==
  ASSUME Types, Owners, Serial, Panes, Cams, Calm, [Next]_vars
  PROVE  Cams'
<1>0. /\ image \in [Cam -> Picture \cup {None}] /\ blob \in [Cam -> Picture \cup {None}]
      /\ pane \in [Sid -> Cam \cup {None}]
  BY CamTypes DEF CamTyped
<1>1. CASE \/ \E s \in Session : Offer(s) \/ Dropped(s)
           \/ Clear \/ ServerDies \/ UNCHANGED vars
  <2>1. /\ UNCHANGED <<job, cameras, owner, ws, cast, page, image, blob>>
        /\ \A s \in Sid : pane'[s] = pane[s] \/ pane'[s] = None
    BY <1>1 DEF Offer, Dropped, Clear, ServerDies, vars, calls, tasks, viz, camera
  <2>. QED
    BY <2>1, CamsRest DEF Casting
<1>2. CASE \E s \in Session : CloseSession(s)
  BY <1>2, CamsClose DEF Calm
<1>3. CASE \E t \in Show : ShowStep(t)
  BY <1>3, CamsBefore, CamsNew, CamsWith DEF ShowStep
<1>4. ASSUME NEW t \in Show, Request(t) PROVE Cams'
  <2>1. /\ Starts(t) /\ \A r \in Show : ~UnderWay(r)
        /\ UNCHANGED <<pane, cameras, owner, ws, cast, page, image, blob>>
    BY <1>4, RequestStarts DEF Types, viz, camera, Request, Calm
  <2>2. \A r \in Show : CamAt(r)'
    BY <2>1 DEF Starts, UnderWay, CamAt, Busy
  <2>3. \A c \in Cam : Idling(c)
    BY <2>1 DEF Idling, HasCamera, Early, UnderWay
  <2>4. \A c \in Cam : (New(c)' <=> New(c)) /\ (Casting(c)' <=> Casting(c))
    BY <2>1 DEF New, Casting
  <2>. QED
    BY <2>1, <2>2, <2>3, <2>4 DEF Cams
<1>5. ASSUME NEW c \in Cam, Capture(c) PROVE Cams'
  <2>1. /\ UNCHANGED <<job, pane, cameras, owner, ws, cast, page, image>>
        /\ ws[c] /\ blob' = [blob EXCEPT ![c] = page[c]]
    BY <1>5 DEF Capture, tasks, viz
  <2>2. \A d \in Cam : New(d) => blob'[d] = blob[d]
    BY <1>0, <2>1 DEF New
  <2>. QED
    BY <2>1, <2>2, CamsRest DEF Casting
<1>6. ASSUME NEW c \in Cam, Decoded(c) PROVE Cams'
  <2>1. /\ UNCHANGED <<job, pane, cameras, owner, ws, cast, page>>
        /\ blob[c] # None /\ blob' = [blob EXCEPT ![c] = None]
        /\ image' = [image EXCEPT ![c] = blob[c]]
    BY <1>6 DEF Decoded, Accept, tasks, viz
  <2>2. /\ \A d \in Cam : New(d) => d # c
        /\ \A d \in Cam : d # c => image'[d] = image[d] /\ blob'[d] = blob[d]
        /\ \A d \in Cam : Casting(d) => image'[d] # None
    BY <1>0, <2>1 DEF New, Casting
  <2>. QED
    BY <2>1, <2>2, CamsRest
<1>7. ASSUME NEW c \in Cam, PumpEnds(c) PROVE Cams'
  <2>1. UNCHANGED <<job, pane, cameras, owner, ws, cast, page, image, blob>>
    BY <1>7 DEF PumpEnds, tasks, viz
  <2>. QED
    BY <2>1, CamsRest DEF Casting
<1>. QED
  BY <1>1, <1>2, <1>3, <1>4, <1>5, <1>6, <1>7 DEF Next, CallStep

(* The page of a session's camera has what the title says, or nothing. *)
Titled(c) == page[c] \in {kind, None}

(* A show whose figure or board is not on the page yet, and one whose is,
   unless a navigation that failed left the page empty. *)
Undrawn(t) ==
  \/ job[t].step \in {"check", "server", "boot", "publish", "navigate"}
  \/ job[t].step = "camera" /\ job[t].inPlace = FALSE
Drawn(t) ==
  \/ job[t].step = "settle"
  \/ job[t].step = "camera" /\ job[t].inPlace = TRUE

TitleAt(t) ==
  /\ job[t].step \in {"camera", "spawn", "connect", "navigate"} =>
       job[t].want = Kanban \/ scenes[job[t].sid] \in {job[t].want, None}
  /\ \A c \in Cam : cameras[job[t].sid] = c =>
       /\ Undrawn(t) /\ job[t].sid \in Session => Titled(c)
       /\ Drawn(t) => page[c] \in {job[t].want, None}
       /\ job[t].step \in {"cast", "frame"} => page[c] = job[t].want

Title ==
  /\ \A t \in Show : TitleAt(t)
  /\ Quiet => \A s \in Session, c \in Cam : cameras[s] = c => Titled(c)

(* The viz server has no pane on the board, and as long as nothing clears the
   video it has a pane only once a figure is on the video or on its way; then
   the board waits. *)
OnItsWay ==
  \E t \in Show : job[t].step \in {"cast", "frame", "settle"} /\ job[t].want \in Figure

Boards ==
  /\ \A s \in Sid, c \in Cam : pane[s] = c => page[c] # Kanban
  /\ "clear" \notin scene.asks =>
       \A s \in Sid : pane[s] # None => (ProgramLive /\ kind \in Figure) \/ OnItsWay
  /\ \A t \in Show : job[t].step \notin {"idle", "check"} /\ job[t].want = Kanban =>
       \A s \in Sid : pane[s] = None

(* The viz server's panes and the program, between the steps of the shows. *)
LEMMA BoardsRest ==
  ASSUME Types, Boards, UNCHANGED <<scene, job, page, kind>>,
         \A s \in Sid : pane'[s] = pane[s] \/ pane'[s] = None,
         "clear" \notin scene.asks => (ProgramLive => ProgramLive')
  PROVE  Boards'
<1>1. OnItsWay' <=> OnItsWay
  BY DEF OnItsWay
<1>2. \A s \in Sid, c \in Cam : pane'[s] = c => page'[c] # Kanban
  BY NamesAssumption DEF Boards
<1>3. \A s \in Sid : pane'[s] # None => pane[s] # None
  OBVIOUS
<1>. QED
  BY <1>1, <1>2, <1>3 DEF Boards

(* A step of a show that leaves the panes and the program alone. *)
LEMMA BoardsMove ==
  ASSUME Types, Serial, Boards, NEW t \in Show,
         job[t].step \notin {"idle", "check", "cast", "frame", "settle"},
         UNCHANGED <<scene, pane, program>>,
         \A c \in Cam : page'[c] = page[c] \/ page'[c] # Kanban,
         Rests(t) \/ \E label, mine, inPlace : Moves(t, label, mine, inPlace)
  PROVE  Boards'
<1>1. /\ \A r \in Show : r # t => job[r].step = "idle" /\ job'[r] = job[r]
      /\ job'[t].step # "idle" => job'[t].want = job[t].want
  BY OthersRest DEF UnderWay
<1>2. ~OnItsWay
  BY <1>1 DEF OnItsWay
<1>3. ProgramLive' <=> ProgramLive
  BY DEF program, ProgramLive
<1>4. kind' = kind
  BY DEF program
<1>5. \A s \in Sid, c \in Cam : pane'[s] = c => page'[c] # Kanban
  BY DEF Boards
<1>6. \A r \in Show : job'[r].step \notin {"idle", "check"} /\ job'[r].want = Kanban =>
        \A s \in Sid : pane'[s] = None
  BY <1>1 DEF Boards
<1>. QED
  BY <1>2, <1>3, <1>4, <1>5, <1>6 DEF Boards

(* The board begins only when no figure is on the video, and then no pane is
   left. *)
LEMMA BoardsCheck ==
  ASSUME Types, Serial, Boards, Calm, NEW t \in Show, Check(t)
  PROVE  Boards'
<1>0. TypeOK /\ UnderWay(t) /\ At(t, "check")
  BY DEF Types, Check, UnderWay, At
<1>1. Rests(t) \/ Moves(t, "server", job[t].mine, job[t].inPlace)
  BY <1>0, ShowMoves
<1>2. /\ \A r \in Show : r # t => job[r].step = "idle" /\ job'[r] = job[r]
      /\ job'[t].step # "idle" => job'[t].want = job[t].want
  BY <1>0, <1>1, OthersRest
<1>3. ~OnItsWay
  BY <1>0, <1>2 DEF OnItsWay, At
<1>4. UNCHANGED <<scene, pane, page, pic, live, kind>>
  BY DEF Check, viz, camera, program
<1>5. ASSUME job'[t].step \notin {"idle", "check"}, job'[t].want = Kanban, NEW s \in Sid
      PROVE  pane[s] = None
  <2>1. job[t].want = Kanban /\ Kanban \in Asked /\ ~Rests(t)
    BY <1>0, <1>2, <1>5 DEF Serial, Rests, Idle
  <2>2. "clear" \notin scene.asks
    BY <2>1 DEF Calm, Asked
  <2>3. ~KanbanWouldCoverFigure(Kanban)
    BY <1>0, <2>1, ReturnRests DEF Check
  <2>4. ~(ProgramLive /\ kind \in Figure)
    BY <2>3, NamesAssumption DEF KanbanWouldCoverFigure, Picture
  <2>. QED
    BY <1>3, <2>2, <2>4 DEF Boards
<1>6. \A r \in Show : job'[r].step \notin {"idle", "check"} /\ job'[r].want = Kanban =>
        \A s \in Sid : pane'[s] = None
  BY <1>2, <1>4, <1>5
<1>7. ProgramLive' <=> ProgramLive
  BY <1>4 DEF ProgramLive
<1>. QED
  BY <1>3, <1>4, <1>6, <1>7 DEF Boards

(* A page that is loaded. *)
LEMMA Loads ==
  ASSUME Types, Owners, Serial, Cams, Calm, NEW t \in Show, Connect(t) \/ Navigate(t)
  PROVE  /\ job[t].mine \in Cam /\ cameras[job[t].sid] = job[t].mine /\ HasCamera(t)
         /\ UNCHANGED <<scene, cameras, scenes, program>>
         /\ IF job[t].want = Kanban
            THEN page'[job[t].mine] = Kanban /\ pane' = pane
            ELSE /\ page'[job[t].mine] = scenes[job[t].sid] /\ scenes[job[t].sid] \in Figure
                 /\ \A s \in Sid : pane'[s] = IF s = job[t].sid THEN job[t].mine ELSE pane[s]
         /\ \A c \in Cam : c # job[t].mine => page'[c] = page[c]
         /\ \E label \in {"cast", "settle"} : Moves(t, label, job[t].mine, job[t].inPlace)
<1>0. /\ TypeOK /\ ~Fault("paint")
      /\ page \in [Cam -> Picture \cup {None}] /\ pane \in [Sid -> Cam \cup {None}]
      /\ scenes \in [Sid -> Figure \cup {None}]
  BY CamTypes DEF CamTyped, Types, Calm, Fault
<1>1. UnderWay(t) /\ HasCamera(t) /\ Load(t) /\ UNCHANGED <<scene, cameras, scenes, program>>
  BY DEF Connect, Navigate, UnderWay, HasCamera, At, Early
<1>2. job[t].mine \in Cam /\ cameras[job[t].sid] = job[t].mine /\ job[t].sid \in Sid
  BY <1>1, Lone
<1>3. \E label \in {"cast", "settle"} : Moves(t, label, job[t].mine, job[t].inPlace)
  BY <1>0, ShowMoves
<1>4. /\ page' = [page EXCEPT ![job[t].mine] = IF job[t].want = Kanban THEN Kanban
                                               ELSE scenes[job[t].sid]]
      /\ pane' = IF job[t].want = Kanban THEN pane ELSE [pane EXCEPT ![job[t].sid] = job[t].mine]
      /\ job[t].want = Kanban \/ scenes[job[t].sid] # None
  BY <1>1 DEF Load
<1>. QED
  BY <1>0, <1>1, <1>2, <1>3, <1>4

(* A figure that is loaded is on its way; the board makes no pane. *)
LEMMA BoardsLoad ==
  ASSUME Types, Owners, Serial, Cams, Boards, Calm, NEW t \in Show, Connect(t) \/ Navigate(t)
  PROVE  Boards'
<1>0. /\ UnderWay(t) /\ job[t].step \notin {"idle", "check"} /\ job[t].want \in Picture
      /\ job[t].sid \in Sid
  BY Lone DEF Connect, Navigate, UnderWay, At
<1>1. PICK label \in {"cast", "settle"} : Moves(t, label, job[t].mine, job[t].inPlace)
  BY Loads
<1>2. /\ \A r \in Show : r # t => job'[r].step = "idle"
      /\ job'[t].step = label /\ job'[t].want = job[t].want
  BY <1>0, <1>1, LoneNext DEF Moves
<1>3. scene' = scene /\ job[t].mine \in Cam
  BY Loads
<1>4. CASE job[t].want = Kanban
  <2>1. \A s \in Sid : pane'[s] = None
    BY <1>0, <1>4, Loads DEF Boards
  <2>. QED
    BY <2>1, NamesAssumption DEF Boards
<1>5. CASE job[t].want # Kanban
  <2>1. OnItsWay'
    BY <1>0, <1>1, <1>2, <1>5 DEF OnItsWay, Picture
  <2>2. ASSUME NEW s \in Sid, NEW c \in Cam, pane'[s] = c PROVE page'[c] # Kanban
    <3>1. CASE c = job[t].mine
      BY <1>5, <3>1, Loads, NamesAssumption
    <3>2. CASE c # job[t].mine
      BY <1>5, <2>2, <3>2, Loads DEF Boards
    <3>. QED
      BY <3>1, <3>2
  <2>3. \A r \in Show : job'[r].step \notin {"idle", "check"} /\ job'[r].want = Kanban =>
          \A s \in Sid : pane'[s] = None
    BY <1>2, <1>5
  <2>. QED
    BY <2>1, <2>2, <2>3 DEF Boards
<1>. QED
  BY <1>4, <1>5

(* A figure on its way comes to the video. *)
LEMMA BoardsCast ==
  ASSUME Types, Owners, Serial, Cams, Boards, NEW t \in Show, StartScreencast(t)
  PROVE  Boards'
<1>0. /\ TypeOK /\ UnderWay(t) /\ HasCamera(t) /\ At(t, "cast")
      /\ UNCHANGED <<scene, pane, page, pic, live, kind>>
  BY DEF Types, StartScreencast, UnderWay, HasCamera, At, Early, viz, program
<1>1. job[t].mine \in Cam /\ cameras[job[t].sid] = job[t].mine
  BY <1>0, Lone
<1>2. ws[job[t].mine]
  BY <1>0, <1>1 DEF Cams, CamAt, Busy, At
<1>3. Moves(t, "frame", job[t].mine, job[t].inPlace)
  BY <1>0, <1>2, ShowMoves
<1>4. /\ \A r \in Show : r # t => job[r].step = "idle" /\ job'[r] = job[r]
      /\ job'[t].step = "frame" /\ job'[t].want = job[t].want
  BY <1>0, <1>3, OthersRest DEF Moves
<1>5. OnItsWay => OnItsWay'
  BY <1>4 DEF OnItsWay
<1>6. \A r \in Show : job'[r].step \notin {"idle", "check"} /\ job'[r].want = Kanban =>
        \A s \in Sid : pane'[s] = None
  BY <1>0, <1>4 DEF Boards, At
<1>7. ProgramLive' <=> ProgramLive
  BY <1>0 DEF ProgramLive
<1>. QED
  BY <1>0, <1>5, <1>6, <1>7 DEF Boards

(* A show that ends has a frame for the video. *)
LEMMA Finishes ==
  ASSUME Types, Owners, Serial, Cams, NEW t \in Show, Finish(t)
  PROVE  /\ UnderWay(t) /\ Rests(t)
         /\ job[t].mine \in Cam /\ cameras[job[t].sid] = job[t].mine
         /\ pic' # None /\ live' = TRUE /\ kind' = job[t].want
         /\ UNCHANGED <<scene, cameras, pane, page>>
<1>0. /\ TypeOK /\ UnderWay(t) /\ HasCamera(t) /\ Rests(t)
      /\ UNCHANGED <<scene, cameras, pane, page>>
  BY ShowMoves DEF Types, Finish, UnderWay, HasCamera, At, Early, viz
<1>1. job[t].mine \in Cam /\ cameras[job[t].sid] = job[t].mine
  BY <1>0, Lone
<1>2. Busy(t, job[t].mine)
  BY <1>1 DEF Cams, CamAt
<1>3. CASE At(t, "frame")
  BY <1>0, <1>1, <1>2, <1>3 DEF Finish, Busy, At, FirstFrame, SetProgram
<1>4. CASE ~At(t, "frame")
  BY <1>0, <1>1, <1>2, <1>4 DEF Finish, Busy, At, Casting, SetProgram
<1>. QED
  BY <1>0, <1>1, <1>3, <1>4

(* A show that ends is on the video. *)
LEMMA BoardsFinish ==
  ASSUME Types, Owners, Serial, Cams, Boards, NEW t \in Show, Finish(t)
  PROVE  Boards'
<1>0. /\ UnderWay(t) /\ job[t].want \in Picture /\ job[t].step \notin {"idle", "check"}
  BY Finishes, Lone DEF Finish
<1>1. \A r \in Show : job'[r].step = "idle"
  BY <1>0, Finishes, LoneNext
<1>2. UNCHANGED <<scene, pane, page>>
  BY Finishes
<1>3. CASE job[t].want = Kanban
  BY <1>0, <1>1, <1>2, <1>3 DEF Boards
<1>4. CASE job[t].want # Kanban
  <2>1. ProgramLive' /\ kind' \in Figure
    BY <1>0, <1>4, Finishes DEF ProgramLive, Picture
  <2>. QED
    BY <1>1, <1>2, <2>1 DEF Boards
<1>. QED
  BY <1>3, <1>4

LEMMA BoardsStep ==
  ASSUME Types, Owners, Serial, Panes, Cams, Boards, Calm, [Next]_vars
  PROVE  Boards'
<1>0. /\ TypeOK /\ scene' = scene
      /\ page \in [Cam -> Picture \cup {None}] /\ pane \in [Sid -> Cam \cup {None}]
  BY SceneKept, CamTypes DEF Types, CamTyped
<1>1. CASE \/ \E s \in Session : CallStep(s)
           \/ Clear \/ UNCHANGED vars
  <2>1. /\ UNCHANGED <<job, page, kind, pane>>
        /\ "clear" \notin scene.asks => UNCHANGED <<pic, live>>
    BY <1>1 DEF CallStep, Offer, CloseSession, Dropped, Clear, ClearProgram, vars, tasks, viz, camera,
         program
  <2>. QED
    BY <1>0, <2>1, BoardsRest DEF ProgramLive
<1>2. CASE ServerDies
  <2>1. UNCHANGED <<job, page, pic, live, kind>> /\ \A s \in Sid : pane'[s] = None
    BY <1>2 DEF ServerDies, tasks, camera, program
  <2>. QED
    BY <1>0, <2>1, BoardsRest DEF ProgramLive
<1>3. CASE \E c \in Cam : Capture(c) \/ PumpEnds(c) \/ Decoded(c)
  <2>1. /\ UNCHANGED <<job, page, kind, live, pane>>
        /\ pic' = pic \/ pic' # None
    BY <1>3 DEF Capture, PumpEnds, Decoded, Accept, ReplaceImage, tasks, viz, program
  <2>. QED
    BY <1>0, <2>1, BoardsRest DEF ProgramLive
<1>4. ASSUME NEW t \in Show, Request(t) PROVE Boards'
  <2>1. /\ Starts(t) /\ \A r \in Show : ~UnderWay(r)
        /\ UNCHANGED <<pane, page, pic, live, kind>>
    BY <1>0, <1>4, RequestStarts DEF viz, camera, program, Calm
  <2>2. ~OnItsWay
    BY <2>1 DEF OnItsWay, UnderWay
  <2>3. \A r \in Show : job'[r].step \in {"idle", "check"}
    BY <2>1 DEF Starts, UnderWay
  <2>4. ProgramLive' <=> ProgramLive
    BY <2>1 DEF ProgramLive
  <2>. QED
    BY <1>0, <2>1, <2>2, <2>3, <2>4 DEF Boards
<1>5. ASSUME NEW t \in Show,
             \/ ServerThere(t) \/ StartServer(t) \/ Booted(t) \/ BootFails(t) \/ Publish(t)
             \/ UseCamera(t) \/ NewCamera(t) \/ Refused(t) \/ Spawn(t) \/ ConnectFails(t)
             \/ NavigateFails(t)
      PROVE Boards'
  <2>1. /\ job[t].step \notin {"idle", "check", "cast", "frame", "settle"}
        /\ UNCHANGED <<pane, program>>
    BY <1>5 DEF ServerThere, StartServer, Booted, BootFails, Publish, UseCamera, NewCamera, Refused,
         Spawn, ConnectFails, NavigateFails, At, viz
  <2>2. Rests(t) \/ \E label, mine, inPlace : Moves(t, label, mine, inPlace)
    BY <1>5, ShowSteps DEF ShowStep
  <2>3. \A c \in Cam : page'[c] = page[c] \/ page'[c] # Kanban
    <3>1. CASE Publish(t)
      <4>1. /\ job[t].want # Kanban /\ ReplaceObject(job[t].sid, job[t].want)
        BY <3>1 DEF Publish, SceneHandler, Types, AllSound, Sound, At
      <4>. QED
        BY <1>0, <4>1 DEF ReplaceObject
    <3>2. CASE NavigateFails(t)
      BY <1>0, <3>2, NamesAssumption DEF NavigateFails, Picture
    <3>3. CASE ~Publish(t) /\ ~NavigateFails(t)
      BY <1>5, <3>3 DEF ServerThere, StartServer, Booted, BootFails, UseCamera, NewCamera, Refused,
         Spawn, ConnectFails, camera
    <3>. QED
      BY <3>1, <3>2, <3>3
  <2>. QED
    BY <1>0, <2>1, <2>2, <2>3, BoardsMove
<1>6. CASE \E t \in Show : Check(t) \/ Connect(t) \/ Navigate(t) \/ StartScreencast(t) \/ Finish(t)
  BY <1>6, BoardsCheck, BoardsLoad, BoardsCast, BoardsFinish
<1>. QED
  BY <1>1, <1>2, <1>3, <1>4, <1>5, <1>6 DEF Next, ShowStep

(* The title between the steps of the shows. *)
LEMMA TitleRest ==
  ASSUME Title, UNCHANGED <<job, page, kind>>,
         \A s \in Sid : scenes'[s] = scenes[s] \/ scenes'[s] = None,
         \A s \in Sid, c \in Cam : cameras'[s] = c => cameras[s] = c,
         Types
  PROVE  Title'
<1>1. ASSUME NEW t \in Show PROVE TitleAt(t)'
  BY JobTyped DEF Title, TitleAt, Titled, Undrawn, Drawn, Types, ShowRec
<1>2. ASSUME Quiet', NEW s \in Session, NEW c \in Cam, cameras'[s] = c PROVE Titled(c)'
  <2>1. Quiet /\ cameras[s] = c
    BY <1>2 DEF Quiet, UnderWay, Sid
  <2>. QED
    BY <2>1 DEF Title, Titled
<1>. QED
  BY <1>1, <1>2 DEF Title

(* A step of a show is about the title of its own session: no other session
   has a camera. *)
LEMMA TitleShow ==
  ASSUME Types, Serial, Title, NEW t \in Show, UnderWay(t),
         \/ /\ Rests(t) /\ cameras' = cameras
            /\ \A c \in Cam : cameras[job[t].sid] = c /\ job[t].sid \in Session => Titled(c)'
         \/ /\ \E label, mine, inPlace : Moves(t, label, mine, inPlace) /\ label # "idle"
            /\ TitleAt(t)'
  PROVE  Title'
<1>1. \A r \in Show : job'[r].step = "idle" => TitleAt(r)'
  BY DEF TitleAt, Undrawn, Drawn
<1>2. CASE Rests(t) /\ cameras' = cameras
              /\ \A c \in Cam : cameras[job[t].sid] = c /\ job[t].sid \in Session => Titled(c)'
  <2>1. \A s \in Session, c \in Cam : cameras'[s] = c => Titled(c)'
    BY <1>2, NamesAssumption DEF Serial
  <2>2. \A r \in Show : job'[r].step = "idle"
    BY <1>2, LoneNext
  <2>. QED
    BY <1>1, <2>1, <2>2 DEF Title
<1>3. CASE /\ \E label, mine, inPlace : Moves(t, label, mine, inPlace) /\ label # "idle"
           /\ TitleAt(t)'
  <2>1. /\ \A r \in Show : r # t => job'[r].step = "idle"
        /\ job'[t].step # "idle"
    BY <1>3, LoneNext DEF Moves
  <2>2. ~Quiet'
    BY <2>1 DEF Quiet, UnderWay
  <2>. QED
    BY <1>1, <1>3, <2>1, <2>2 DEF Title
<1>. QED
  BY <1>2, <1>3

(* Up to the page, nothing changes on it. *)
LEMMA TitleBefore ==
  ASSUME Types, Owners, Serial, Cams, Title, NEW t \in Show,
         \/ Check(t) \/ ServerThere(t) \/ StartServer(t) \/ Booted(t) \/ BootFails(t)
  PROVE  Title'
<1>0. /\ TypeOK /\ UNCHANGED <<cameras, scenes, page, kind>>
      /\ job[t].step \in {"check", "server", "boot", "publish"}
  BY DEF Types, Check, ServerThere, StartServer, Booted, BootFails, viz, camera, program, At
<1>1. UnderWay(t) /\ job[t].inPlace = FALSE /\ TitleAt(t)
  BY <1>0 DEF UnderWay, Cams, CamAt, Title
<1>2. \A c \in Cam : cameras[job[t].sid] = c /\ job[t].sid \in Session => Titled(c) /\ Titled(c)'
  BY <1>0, <1>1 DEF TitleAt, Undrawn, Titled
<1>3. \/ Rests(t)
      \/ \E label \in {"server", "boot", "camera", "publish"} :
           /\ Moves(t, label, job[t].mine, FALSE)
           /\ label = "camera" => job[t].want = Kanban
  BY <1>0, <1>1, ShowMoves DEF ServerThere, Booted
<1>4. ASSUME NEW label \in {"server", "boot", "camera", "publish"},
             Moves(t, label, job[t].mine, FALSE), label = "camera" => job[t].want = Kanban
      PROVE  TitleAt(t)'
  <2>1. /\ job'[t].step = label /\ job'[t].sid = job[t].sid /\ job'[t].want = job[t].want
        /\ job'[t].inPlace = FALSE
    BY <1>4 DEF Moves
  <2>. QED
    BY <1>0, <1>2, <1>4, <2>1 DEF TitleAt, Undrawn, Drawn, Titled
<1>. QED
  BY <1>0, <1>1, <1>2, <1>3, <1>4, TitleShow

(* A figure is drawn in place if the page of the camera has a pane. *)
LEMMA TitlePublish ==
  ASSUME Types, Owners, Serial, Panes, Cams, Title, Boards, NEW t \in Show, Publish(t)
  PROVE  Title'
<1>0. /\ TypeOK /\ UNCHANGED <<cameras, pane, kind>> /\ At(t, "publish") /\ UnderWay(t)
      /\ scenes' = [scenes EXCEPT ![job[t].sid] = job[t].want]
      /\ ReplaceObject(job[t].sid, job[t].want)
      /\ scenes \in [Sid -> Figure \cup {None}] /\ pane \in [Sid -> Cam \cup {None}]
      /\ page \in [Cam -> Picture \cup {None}]
  BY CamTypes DEF Types, CamTyped, Publish, SceneHandler, At, UnderWay, program
<1>1. /\ job[t].sid \in Sid /\ Active(job[t].sid) /\ TitleAt(t)
  BY <1>0, Lone DEF Title
<1>2. /\ job'[t].step = "camera" /\ job'[t].sid = job[t].sid /\ job'[t].want = job[t].want
      /\ job'[t].inPlace = HasPane(job[t].sid)
      /\ Moves(t, "camera", job[t].mine, HasPane(job[t].sid))
  BY <1>0, ShowMoves DEF Moves
<1>3. scenes'[job[t].sid] = job[t].want
  BY <1>0, <1>1
<1>4. ASSUME NEW c \in Cam, cameras[job[t].sid] = c
      PROVE  IF HasPane(job[t].sid) THEN page'[c] \in {job[t].want, None}
             ELSE job[t].sid \in Session => Titled(c)'
  <2>1. CASE HasPane(job[t].sid)
    <3>1. pane[job[t].sid] = c /\ page[c] # Kanban
      BY <1>0, <1>1, <1>4, <2>1 DEF HasPane, Panes, Boards
    <3>. QED
      BY <1>0, <2>1, <3>1 DEF ReplaceObject, Picture
  <2>2. CASE ~HasPane(job[t].sid)
    BY <1>0, <1>1, <1>4, <2>2 DEF ReplaceObject, TitleAt, Undrawn, Titled, At
  <2>. QED
    BY <2>1, <2>2
<1>5. TitleAt(t)'
  BY <1>0, <1>2, <1>3, <1>4 DEF TitleAt, Undrawn, Drawn
<1>. QED
  BY <1>0, <1>2, <1>5, TitleShow

(* A new camera shows nothing yet. *)
LEMMA TitleNew ==
  ASSUME Types, Owners, Serial, Cams, Title, NEW t \in Show, NewCamera(t)
  PROVE  Title'
<1>0. /\ TypeOK /\ UNCHANGED <<scenes, page, kind>> /\ At(t, "camera") /\ UnderWay(t)
  BY DEF Types, NewCamera, At, UnderWay, viz, program
<1>1. PICK c \in Cam : Taken(t, c)
  BY <1>0, NewCameraTakes
<1>2. /\ Moves(t, "spawn", c, job[t].inPlace)
      /\ job'[t].step = "spawn" /\ job'[t].sid = job[t].sid /\ job'[t].want = job[t].want
  BY <1>1 DEF Taken, Moves
<1>3. TitleAt(t)'
  BY <1>0, <1>2 DEF Title, TitleAt, Undrawn, Drawn, At
<1>. QED
  BY <1>0, <1>2, <1>3, TitleShow

(* Until its page is loaded, a camera shows what the title says, or nothing. *)
LEMMA TitleWith ==
  ASSUME Types, Owners, Serial, Cams, Calm, Title, NEW t \in Show,
         UseCamera(t) \/ Refused(t) \/ Spawn(t) \/ ConnectFails(t) \/ NavigateFails(t)
  PROVE  Title'
<1>0. /\ TypeOK /\ UNCHANGED <<cameras, scenes, kind>> /\ UnderWay(t)
      /\ page \in [Cam -> Picture \cup {None}]
  BY CamTypes DEF Types, CamTyped, UseCamera, Refused, Spawn, ConnectFails, NavigateFails, At, UnderWay,
       viz, camera, program
<1>1. CamAt(t) /\ TitleAt(t) /\ job[t].inPlace \in BOOLEAN
  BY <1>0, Lone DEF Cams, Title
<1>2. CASE UseCamera(t)
  <2>1. /\ At(t, "camera") /\ page' = page
        /\ cameras[job[t].sid] \in Cam
    BY <1>0, <1>2, Lone DEF UseCamera, camera
  <2>2. job[t].inPlace = TRUE => Casting(cameras[job[t].sid])
    BY <1>1, <2>1 DEF CamAt, Busy, At
  <2>3. \E label \in {"navigate", "settle"} :
          /\ Moves(t, label, cameras[job[t].sid], job[t].inPlace)
          /\ job[t].inPlace = TRUE <=> label = "settle"
    BY <1>0, <1>1, <1>2, <2>2, ShowMoves DEF Casting
  <2>4. ASSUME NEW label \in {"navigate", "settle"},
               Moves(t, label, cameras[job[t].sid], job[t].inPlace),
               job[t].inPlace = TRUE <=> label = "settle"
        PROVE  TitleAt(t)'
    <3>1. job'[t].step = label /\ job'[t].sid = job[t].sid /\ job'[t].want = job[t].want
      BY <2>4 DEF Moves
    <3>. QED
      BY <1>0, <1>1, <2>1, <2>4, <3>1 DEF TitleAt, Undrawn, Drawn, Titled, At
  <2>. QED
    BY <1>0, <2>3, <2>4, TitleShow
<1>3. CASE Spawn(t)
  <2>1. /\ Moves(t, "connect", job[t].mine, job[t].inPlace)
        /\ job'[t].step = "connect" /\ job'[t].sid = job[t].sid /\ job'[t].want = job[t].want
        /\ At(t, "spawn")
    BY <1>0, <1>3, ShowMoves DEF Moves, Spawn
  <2>2. TitleAt(t)'
    BY <1>0, <1>1, <2>1 DEF TitleAt, Undrawn, Drawn, At
  <2>. QED
    BY <1>0, <2>1, <2>2, TitleShow
<1>4. CASE Refused(t) \/ ConnectFails(t)
  <2>1. Rests(t) /\ page' = page /\ job[t].step \in {"spawn", "connect"}
    BY <1>0, <1>4, ShowMoves DEF Refused, ConnectFails, At, camera
  <2>2. \A c \in Cam : cameras[job[t].sid] = c => Titled(c)'
    BY <1>1, <2>1 DEF CamAt, Busy, New, Titled
  <2>. QED
    BY <1>0, <2>1, <2>2, TitleShow
<1>5. CASE NavigateFails(t)
  <2>1. /\ Rests(t) /\ At(t, "navigate")
        /\ page' = page \/ page' = [page EXCEPT ![job[t].mine] = None]
    BY <1>0, <1>5, ShowMoves DEF NavigateFails
  <2>2. \A c \in Cam : page'[c] = page[c] \/ page'[c] = None
    BY <1>0, <2>1
  <2>3. \A c \in Cam : cameras[job[t].sid] = c /\ job[t].sid \in Session => Titled(c)'
    BY <1>0, <1>1, <2>1, <2>2 DEF TitleAt, Undrawn, Titled, At
  <2>. QED
    BY <1>0, <2>1, <2>3, TitleShow
<1>. QED
  BY <1>2, <1>3, <1>4, <1>5

(* A page is loaded with what was asked for, and ends on the video. *)
LEMMA TitleLoad ==
  ASSUME Types, Owners, Serial, Cams, Calm, Title, NEW t \in Show,
         Connect(t) \/ Navigate(t) \/ StartScreencast(t) \/ Finish(t)
  PROVE  Title'
<1>0. TypeOK /\ UnderWay(t)
  BY DEF Types, Connect, Navigate, StartScreencast, Finish, At, UnderWay
<1>1. CamAt(t) /\ TitleAt(t)
  BY DEF Cams, Title
<1>2. CASE Connect(t) \/ Navigate(t)
  <2>1. PICK label \in {"cast", "settle"} : Moves(t, label, job[t].mine, job[t].inPlace)
    BY <1>2, Loads
  <2>2. /\ job'[t].step = label /\ job'[t].sid = job[t].sid /\ job'[t].want = job[t].want
    BY <2>1 DEF Moves
  <2>3. cameras' = cameras /\ cameras[job[t].sid] = job[t].mine
    BY <1>2, Loads
  <2>4. page'[job[t].mine] = job[t].want
    <3>1. job[t].want = Kanban \/ scenes[job[t].sid] \in {job[t].want, None}
      BY <1>1, <1>2 DEF TitleAt, Connect, Navigate, At
    <3>. QED
      BY <1>2, <3>1, Loads, NamesAssumption DEF Picture
  <2>5. TitleAt(t)'
    BY <2>2, <2>3, <2>4 DEF TitleAt, Undrawn, Drawn
  <2>. QED
    BY <1>0, <2>1, <2>5, TitleShow
<1>3. CASE StartScreencast(t)
  <2>1. /\ UNCHANGED <<cameras, page>> /\ HasCamera(t) /\ At(t, "cast")
    BY <1>3 DEF StartScreencast, HasCamera, At, Early
  <2>2. job[t].mine \in Cam /\ cameras[job[t].sid] = job[t].mine
    BY <1>0, <2>1, Lone
  <2>3. ws[job[t].mine] /\ page[job[t].mine] = job[t].want
    BY <1>1, <2>1, <2>2 DEF CamAt, Busy, TitleAt, At
  <2>4. Moves(t, "frame", job[t].mine, job[t].inPlace)
    BY <1>0, <1>3, <2>3, ShowMoves
  <2>5. job'[t].step = "frame" /\ job'[t].sid = job[t].sid /\ job'[t].want = job[t].want
    BY <2>4 DEF Moves
  <2>6. TitleAt(t)'
    BY <2>1, <2>2, <2>3, <2>5 DEF TitleAt, Undrawn, Drawn
  <2>. QED
    BY <1>0, <2>4, <2>6, TitleShow
<1>4. CASE Finish(t)
  <2>1. \A c \in Cam : cameras[job[t].sid] = c => page[c] \in {job[t].want, None}
    BY <1>1, <1>4 DEF Finish, TitleAt, Drawn
  <2>2. \A c \in Cam : cameras[job[t].sid] = c => Titled(c)'
    BY <1>4, <2>1, Finishes DEF Titled
  <2>. QED
    BY <1>0, <1>4, <2>2, Finishes, TitleShow
<1>. QED
  BY <1>2, <1>3, <1>4

LEMMA TitleStep ==
  ASSUME Types, Owners, Serial, Panes, Cams, Boards, Title, Calm, [Next]_vars
  PROVE  Title'
<1>0. TypeOK /\ cameras \in [Sid -> Cam \cup {None}]
  BY DEF Types, TypeOK
<1>1. ASSUME NEW s \in Session, CallStep(s) PROVE Title'
  <2>1. /\ UNCHANGED <<job, page, kind, scenes>>
        /\ cameras' = cameras \/ cameras' = [cameras EXCEPT ![s] = None]
    BY <1>1 DEF CallStep, Offer, CloseSession, Dropped, tasks, viz, camera, program
  <2>2. \A r \in Sid, c \in Cam : cameras'[r] = c => cameras[r] = c
    BY <1>0, <2>1, NamesAssumption
  <2>. QED
    BY <2>1, <2>2, TitleRest
<1>2. CASE Clear \/ ServerDies \/ UNCHANGED vars \/ \E c \in Cam : Capture(c) \/ PumpEnds(c) \/ Decoded(c)
  <2>1. /\ UNCHANGED <<job, page, kind, cameras>>
        /\ \A s \in Sid : scenes'[s] = scenes[s] \/ scenes'[s] = None
    BY <1>2 DEF Clear, ClearProgram, ServerDies, vars, Capture, PumpEnds, Decoded, Accept, ReplaceImage, tasks, viz,
         camera, program
  <2>. QED
    BY <2>1, TitleRest
<1>3. ASSUME NEW t \in Show, Request(t) PROVE Title'
  <2>1. /\ Starts(t) /\ Quiet /\ UNCHANGED <<page, kind, cameras>>
    BY <1>0, <1>3, RequestStarts DEF Quiet, camera, program, Calm
  <2>2. \A r \in Show : r # t => job'[r].step = "idle"
    BY <2>1 DEF Starts, Quiet, UnderWay
  <2>3. /\ \A r \in Show : r # t => TitleAt(r)'
    BY <2>2 DEF TitleAt, Undrawn, Drawn
  <2>4. TitleAt(t)'
    BY <2>1 DEF Starts, Title, TitleAt, Undrawn, Drawn, Titled
  <2>5. ~Quiet'
    BY <2>1 DEF Starts, Quiet, UnderWay
  <2>. QED
    BY <2>3, <2>4, <2>5 DEF Title
<1>4. CASE \E t \in Show : ShowStep(t)
  BY <1>4, TitleBefore, TitlePublish, TitleNew, TitleWith, TitleLoad DEF ShowStep
<1>. QED
  BY <1>1, <1>2, <1>3, <1>4 DEF Next

TitleInv == Calm => Serial /\ Panes /\ Cams /\ Title /\ Boards

LEMMA TitleInit == Init => TitleInv
<1>. SUFFICES ASSUME Init PROVE TitleInv
  OBVIOUS
<1>1. /\ \A t \in Show : job[t].step = "idle"
      /\ \A s \in Sid : cameras[s] = None /\ pane[s] = None
      /\ \A c \in Cam : New(c) /\ owner[c] = None
  BY DEF Init, Idle, New
<1>2. Serial /\ Panes
  BY <1>1, NamesAssumption DEF Serial, Panes, UnderWay, Sid
<1>3. Cams
  BY <1>1, NamesAssumption DEF Cams, CamAt, Busy
<1>4. Title
  BY <1>1, NamesAssumption DEF Title, TitleAt, Undrawn, Drawn, Sid
<1>5. Boards
  BY <1>1, NamesAssumption DEF Boards
<1>. QED
  BY <1>2, <1>3, <1>4, <1>5 DEF TitleInv

LEMMA TitleAlways == Spec => [](Types /\ TitleInv)
<1>1. Types /\ OwnInv /\ TitleInv /\ [Next]_vars => TitleInv'
  <2>. SUFFICES ASSUME Types, OwnInv, TitleInv, [Next]_vars, Calm' PROVE TitleInv'
    BY DEF TitleInv
  <2>1. Calm /\ ~scene.overlap /\ Owners
    BY SceneKept DEF Calm, OwnInv
  <2>. QED
    BY <2>1, SerialStep, PanesStep, CamsStep, TitleStep, BoardsStep DEF TitleInv
<1>. QED
  BY <1>1, TitleInit, TypesAlways, OwnAlways, PTL DEF Spec

(* What PROGRAM says is on the video is what the camera of the call shows, or
   the camera shows nothing: drawn in place on the viz server's pane or after
   a navigation, with the viz server restarted at any point, for any figures
   and any number of shows and calls. *)
THEOREM TitleIsShown == Spec => []TitleMatches
<1>1. Types /\ TitleInv => TitleMatches
  <2>. SUFFICES ASSUME Types, TitleInv, Calm, Quiet, SessionId \in Session, cameras[SessionId] # None
       PROVE  page[cameras[SessionId]] \in {kind, None}
    BY DEF TitleMatches, Calm
  <2>1. cameras[SessionId] \in Cam
    BY CamTypes DEF CamTyped, Sid
  <2>. QED
    BY <2>1 DEF TitleInv, Title, Titled
<1>. QED
  BY <1>1, TitleAlways, PTL
=============================================================================
