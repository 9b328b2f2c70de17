------------------------------- MODULE VoiceTurn -------------------------------
(***************************************************************************)
(* The spoken turn of one session: words from the speech recogniser become *)
(* a turn after a quiet gap, a typed line becomes one at once, the opening *)
(* and the silence director speak unasked.  A turn is an asyncio task that *)
(* waits for model calls made in threads; a call that is answered leaves a *)
(* line to a thread of its own, and the lines share one SpeechBoard.       *)
(*                                                                         *)
(* Cancelling a task never stops the thread it waits for.  Silence is an   *)
(* epoch: interrupt empties the board and raises it, and a line carries    *)
(* the epoch it read when its completion started.                          *)
(***************************************************************************)
EXTENDS Integers, Sequences

CONSTANTS Turn,      \* slots for turn tasks and the thread each waits for
          Line,      \* slots for spoken lines; free again once played
          None, Late,
          MaxEpoch,  \* bound: the interrupts
          MaxBoard,  \* max_samples: the chunks the board holds
          Scenes     \* the kinds of turn, what users ask for, and the faults

Kind == {"voice", "typed", "cue", "open"}
ASSUME BoundsAssumption == MaxEpoch \in Nat /\ MaxBoard \in Nat \ {0}
ASSUME ScenesAssumption ==
  Scenes \subseteq [kinds : SUBSET Kind,
                     asks : SUBSET {"answer", "mediation", "tools"},
                     faults : SUBSET {"model", "tts", "stt"}]
ASSUME NoneAssumption ==
  /\ None \notin Nat \cup Line \cup Kind \cup {Late}
  /\ Late \notin Nat
  /\ {"none", "sleep"} \cap Turn = {}

VARIABLES scene,     \* fixed at the start
          link,      \* the websocket to the recogniser
          words,     \* TurnTaker._words: too few, or enough for a turn
          flush,     \* TurnTaker._task: none, in its quiet gap, or a turn
          busy,      \* TurnTaker._busy
          kind,      \* what each turn is, or None
          todo,      \* its calls that are left; the first is in its thread
          awaited,   \* whether its task still waits for the thread
          since,     \* the epoch the running completion read, or None
          aside,     \* heard: the completion has spoken its aside
          lat, lep,  \* where each line is, and the epoch it carries
          epoch,     \* SpeechBoard._epoch
          buf,       \* SpeechBoard._buf: whole frames, by line
          tail,      \* less than a frame is left behind them
          closed     \* SpeechBoard._line_closed

taker == <<link, words, flush, busy>>
turns == <<kind, todo, awaited, since, aside>>
lines == <<lat, lep>>
speech == <<epoch, buf, tail, closed>>
vars == <<scene, taker, turns, lines, speech>>

Stage == {"bishop", "speak"}
Holding == {"open", "connect", "stream", "push", "ended"}

TypeOK ==
  /\ scene \in Scenes
  /\ link \in {"up", "down"}
  /\ words \in {"none", "short", "ready"}
  /\ flush \in {"none", "sleep"} \cup Turn
  /\ busy \in BOOLEAN
  /\ kind \in [Turn -> Kind \cup {None}]
  /\ todo \in [Turn -> Seq(Stage)]
  /\ awaited \in [Turn -> BOOLEAN]
  /\ since \in [Turn -> Nat \cup {None}]
  /\ aside \in [Turn -> BOOLEAN]
  /\ lat \in [Line -> {"free", "start", "gate"} \cup Holding]
  /\ lep \in [Line -> Nat \cup {Late}]
  /\ epoch \in Nat
  /\ buf \in Seq(Line)
  /\ tail \in BOOLEAN
  /\ closed \in BOOLEAN

(* _opening: a greeting, then the bishop, whose beats come after.  It starts
   with the call, and nothing cancels it. *)
OpeningPlan == <<"speak", "bishop">>

InitTurns ==
  LET opening == IF "open" \in scene.kinds THEN {CHOOSE t \in Turn : TRUE} ELSE {}
  IN  /\ kind = [t \in Turn |-> IF t \in opening THEN "open" ELSE None]
      /\ todo = [t \in Turn |-> IF t \in opening THEN OpeningPlan ELSE <<>>]
      /\ awaited = [t \in Turn |-> t \in opening]
      /\ since = [t \in Turn |-> None]
      /\ aside = [t \in Turn |-> FALSE]

InitSpeech ==
  /\ epoch = 0 /\ buf = <<>>
  /\ tail = FALSE /\ closed = FALSE

Init ==
  /\ scene \in Scenes
  /\ link = "up"
  /\ words = "none" /\ flush = "none" /\ busy = FALSE
  /\ InitTurns
  /\ lat = [l \in Line |-> "free"]
  /\ lep = [l \in Line |-> 0]
  /\ InitSpeech

-----------------------------------------------------------------------------
(* SpeechBoard *)

(* speaking *)
Speaking == buf # <<>> \/ tail

(* interrupt: the queued audio goes, and the epoch rises. *)
Interrupt ==
  /\ epoch < MaxEpoch
  /\ epoch' = epoch + 1
  /\ buf' = <<>>
  /\ tail' = FALSE
  /\ UNCHANGED closed

(* pull: the mixer takes whole frames; what is less than a frame is played
   only once the line is closed. *)
Pull ==
  /\ \/ /\ buf # <<>>
        /\ buf' = Tail(buf)
        /\ UNCHANGED tail
     \/ /\ buf = <<>>
        /\ tail
        /\ closed
        /\ tail' = FALSE
        /\ UNCHANGED buf
  /\ UNCHANGED <<scene, taker, turns, lines, epoch, closed>>

(* push: a chunk ends anywhere in a frame; the oldest audio makes room. *)
Pushed(l) == LET b == Append(buf, l)
             IN  IF Len(b) > MaxBoard THEN Tail(b) ELSE b

-----------------------------------------------------------------------------
(* Lines *)

Queued(l) == \E i \in 1..Len(buf) : buf[i] = l
FreeLine(l) == lat[l] = "free" /\ ~Queued(l)

(* A thread for _speak_cerebras, with the epoch e. *)
Speak(e) ==
  \E l \in Line : /\ FreeLine(l)
                  /\ lat' = [lat EXCEPT ![l] = "start"]
                  /\ lep' = [lep EXCEPT ![l] = e]

Go(l, label) == lat' = [lat EXCEPT ![l] = label]
Holds(l) == lat[l] \in Holding

(* show_agent_line comes before the gate: the board's line starts again,
   whatever is being played. *)
ShowLine(l) ==
  /\ lat[l] = "start"
  /\ Go(l, "gate")
  /\ closed' = FALSE
  /\ UNCHANGED <<scene, taker, turns, lep, epoch, buf, tail>>

(* Mutants: the gate is not exclusive; a line is played after its wait for
   the gate, which another holds. *)
GetGateShared(l) ==
  /\ lat[l] = "gate"
  /\ Go(l, "open")
  /\ UNCHANGED <<scene, taker, turns, lep, speech>>

GateTimeoutSpeaks(l) ==
  /\ lat[l] = "gate"
  /\ \E m \in Line : Holds(m)
  /\ Go(l, "open")
  /\ UNCHANGED <<scene, taker, turns, lep, speech>>

(* _TTS_GATE.acquire *)
GetGate(l) ==
  /\ lat[l] = "gate"
  /\ \A m \in Line : ~Holds(m)
  /\ Go(l, "open")
  /\ UNCHANGED <<scene, taker, turns, lep, speech>>

(* Twelve seconds behind another line: this one is skipped. *)
GateTimeout(l) ==
  /\ lat[l] = "gate"
  /\ \E m \in Line : Holds(m)
  /\ Go(l, "free")
  /\ UNCHANGED <<scene, taker, turns, lep, speech>>

(* _stream_onto starts: a line without an epoch takes the board's now; one
   whose epoch is over ends here. *)
Snapshot(l) ==
  /\ lat[l] = "open"
  /\ LET e == IF lep[l] = Late THEN epoch ELSE lep[l]
     IN  /\ lep' = [lep EXCEPT ![l] = e]
         /\ Go(l, IF e = epoch THEN "connect" ELSE "free")
  /\ UNCHANGED <<scene, taker, turns, speech>>

(* Mutant: the epoch is looked at when the line starts, and not again. *)
CheckNever(l) ==
  /\ lat[l] \in {"connect", "stream"}
  /\ Go(l, "push")
  /\ UNCHANGED <<scene, taker, turns, lep, speech>>

(* _live_boards, for a chunk that has arrived: the check, and not yet the
   push. *)
Check(l) ==
  /\ lat[l] \in {"connect", "stream"}
  /\ Go(l, IF lep[l] = epoch THEN "push" ELSE "free")
  /\ UNCHANGED <<scene, taker, turns, lep, speech>>

Push(l) ==
  /\ lat[l] = "push"
  /\ buf' = Pushed(l)
  /\ tail' \in BOOLEAN
  /\ Go(l, "stream")
  /\ UNCHANGED <<scene, taker, turns, lep, epoch, closed>>

(* The synthesis is over: finish_line, if the epoch is not. *)
Finish(l) ==
  /\ lat[l] \in {"connect", "stream"}
  /\ closed' = (closed \/ lep[l] = epoch)
  /\ Go(l, IF lat[l] = "stream" THEN "ended" ELSE "free")
  /\ UNCHANGED <<scene, taker, turns, lep, epoch, buf, tail>>

(* speak_on_session_boards calls finish_line again, without a look at the
   epoch; _TTS_GATE.release *)
EndLine(l) ==
  /\ lat[l] = "ended"
  /\ closed' = TRUE
  /\ Go(l, "free")
  /\ UNCHANGED <<scene, taker, turns, lep, epoch, buf, tail>>

(* The speech server refuses or breaks off: no finish_line. *)
LineFails(l) ==
  /\ "tts" \in scene.faults
  /\ lat[l] \in {"connect", "stream"}
  /\ Go(l, "free")
  /\ UNCHANGED <<scene, taker, turns, lep, speech>>

-----------------------------------------------------------------------------
(* Turns *)

FreeTurn(t) == todo[t] = <<>>

(* A task for the turn: it starts the thread of its first call. *)
Begin(t, k, plan) ==
  /\ FreeTurn(t)
  /\ k \in scene.kinds
  /\ kind' = [kind EXCEPT ![t] = k]
  /\ todo' = [todo EXCEPT ![t] = plan]
  /\ awaited' = [awaited EXCEPT ![t] = TRUE]
  /\ since' = [since EXCEPT ![t] = None]
  /\ aside' = [aside EXCEPT ![t] = FALSE]

(* _run_user_utterance: Ripley answers, or the bishop plans what she says. *)
UserPlan ==
  {plan \in {<<"speak">>, <<"bishop">>} :
     (IF Head(plan) = "speak" THEN "answer" ELSE "mediation") \in scene.asks}

(* split_spoken_beats: what the bishop's outcome is spoken in. *)
Beats == {<<"speak">>, <<"speak", "speak">>}

OwnsBusy(t) == kind[t] \in {"voice", "cue"} /\ awaited[t]

(* Mutant: the cue has no finally. *)
ReturnKeepsCue(t, rest) ==
  /\ todo' = [todo EXCEPT ![t] = IF awaited[t] THEN rest ELSE <<>>]
  /\ since' = [since EXCEPT ![t] = None]
  /\ aside' = [aside EXCEPT ![t] = FALSE]
  /\ IF awaited[t] /\ rest # <<>>
     THEN UNCHANGED <<kind, awaited, busy, flush>>
     ELSE /\ kind' = [kind EXCEPT ![t] = None]
          /\ awaited' = [awaited EXCEPT ![t] = FALSE]
          /\ busy' = (busy /\ kind[t] # "voice")
          /\ flush' = IF flush = t THEN "none" ELSE flush
  /\ UNCHANGED <<scene, link, words>>

(* The thread of a call returns; the turn goes on with rest, or ends, and a
   turn that claimed the taker releases it.  An abandoned thread only ends. *)
Return(t, rest) ==
  /\ todo' = [todo EXCEPT ![t] = IF awaited[t] THEN rest ELSE <<>>]
  /\ since' = [since EXCEPT ![t] = None]
  /\ aside' = [aside EXCEPT ![t] = FALSE]
  /\ IF awaited[t] /\ rest # <<>>
     THEN UNCHANGED <<kind, awaited, busy, flush>>
     ELSE /\ kind' = [kind EXCEPT ![t] = None]
          /\ awaited' = [awaited EXCEPT ![t] = FALSE]
          /\ busy' = (busy /\ ~OwnsBusy(t))
          /\ flush' = IF flush = t THEN "none" ELSE flush
  /\ UNCHANGED <<scene, link, words>>

Calls(t, stage) == todo[t] # <<>> /\ Head(todo[t]) = stage
Answering(t) == Calls(t, "speak") /\ since[t] # None

(* complete_cerebras reads the epoch first, in its thread. *)
ReadEpoch(t) ==
  /\ Calls(t, "speak")
  /\ since[t] = None
  /\ since' = [since EXCEPT ![t] = epoch]
  /\ UNCHANGED <<scene, taker, kind, todo, awaited, aside, lines, speech>>

(* _heard_aside: one sentence, unless two attempts are both stale phrases. *)
HeardAside(e) == Speak(e) \/ UNCHANGED lines

(* The first round that calls tools leaves one sentence to a thread. *)
UseTools(t) ==
  /\ "tools" \in scene.asks
  /\ Answering(t)
  /\ kind[t] \in {"voice", "typed"}
  /\ ~aside[t]
  /\ aside' = [aside EXCEPT ![t] = TRUE]
  /\ HeardAside(since[t])
  /\ UNCHANGED <<scene, taker, kind, todo, awaited, since, speech>>

(* The answer: spoken by a thread of its own, unless it is empty or repeats
   the previous one. *)
Answer(t) ==
  /\ Answering(t)
  /\ Speak(since[t])
  /\ Return(t, Tail(todo[t]))
  /\ UNCHANGED <<speech>>

SaysNothing(t) ==
  /\ Answering(t)
  /\ Return(t, Tail(todo[t]))
  /\ UNCHANGED <<lines, speech>>

(* The bishop's outcome, for a turn that speaks it. *)
BishopPlans(t) ==
  /\ Calls(t, "bishop")
  /\ kind[t] # "cue"
  /\ \E beats \in Beats \cup {<<>>} : Return(t, beats)
  /\ UNCHANGED <<lines, speech>>

(* _cue: a monologue is spoken without an epoch, if nobody speaks by now. *)
Monologue(t) ==
  /\ Calls(t, "bishop")
  /\ kind[t] = "cue"
  /\ ~Speaking
  /\ Speak(Late)
  /\ Return(t, <<>>)
  /\ UNCHANGED <<speech>>

SteerOnly(t) ==
  /\ Calls(t, "bishop")
  /\ kind[t] = "cue"
  /\ Return(t, <<>>)
  /\ UNCHANGED <<lines, speech>>

(* A greeting that fails is survived: the bishop goes on. *)
GreetingFails(t) ==
  /\ "model" \in scene.faults
  /\ kind[t] = "open"
  /\ todo[t] = OpeningPlan
  /\ Return(t, Tail(todo[t]))
  /\ UNCHANGED <<lines, speech>>

(* Any other call that raises ends its turn: run_user_utterance, _cue and
   _opening log it. *)
CallFails(t) ==
  /\ "model" \in scene.faults
  /\ todo[t] \notin {<<>>, OpeningPlan}
  /\ Return(t, <<>>)
  /\ UNCHANGED <<lines, speech>>

-----------------------------------------------------------------------------
(* TurnTaker, the hub and the silence director *)

(* Mutant: the cancelled turn does not release the taker. *)
CancelTaskOnly ==
  /\ UNCHANGED busy
  /\ IF flush \in Turn
     THEN /\ awaited' = [awaited EXCEPT ![flush] = FALSE]
          /\ todo' = [todo EXCEPT ![flush] = <<Head(@)>>]
     ELSE UNCHANGED <<awaited, todo>>

(* A task that is cancelled leaves its thread; the rest of its turn is gone,
   and busy with it. *)
CancelTask ==
  IF flush \in Turn
  THEN /\ awaited' = [awaited EXCEPT ![flush] = FALSE]
       /\ todo' = [todo EXCEPT ![flush] = <<Head(@)>>]
       /\ busy' = FALSE
  ELSE UNCHANGED <<awaited, todo, busy>>

(* _barge_in interrupts or not: the level of the mic, how much was heard, a
   stop word and the echo holdoff decide. *)
BargeIn == Interrupt \/ UNCHANGED speech

(* What has been heard by now is enough for a turn, or too little. *)
Heard == /\ words' \in {"short", "ready"}
         /\ words = "ready" => words' = "ready"

(* on_word, fed by the track through the recogniser: a new quiet gap starts
   and the task before it is cancelled, in its gap or in its turn. *)
Word ==
  /\ "voice" \in scene.kinds
  /\ link = "up"
  /\ Heard
  /\ BargeIn
  /\ CancelTask
  /\ flush' = "sleep"
  /\ UNCHANGED <<scene, link, kind, since, aside, lines>>

(* _flush after its gap: the words stay while the taker is busy, too few of
   them are dropped, enough of them are a turn. *)
FlushBusy ==
  /\ flush = "sleep"
  /\ busy
  /\ flush' = "none"
  /\ UNCHANGED <<scene, link, words, busy, turns, lines, speech>>

FlushShort ==
  /\ flush = "sleep"
  /\ ~busy
  /\ words # "ready"
  /\ flush' = "none"
  /\ words' = "none"
  /\ UNCHANGED <<scene, link, busy, turns, lines, speech>>

FlushTurn(t) ==
  /\ flush = "sleep"
  /\ ~busy
  /\ words = "ready"
  /\ \E plan \in UserPlan : Begin(t, "voice", plan)
  /\ flush' = t
  /\ words' = "none"
  /\ busy' = TRUE
  /\ UNCHANGED <<scene, link, lines, speech>>

(* hub.interrupt: the board first, then cancel_pending. *)
Silence ==
  /\ Interrupt
  /\ words' = "none"
  /\ flush' = "none"

Stop ==
  /\ Silence
  /\ CancelTask
  /\ UNCHANGED <<scene, link, kind, since, aside, lines>>

(* user_text: the same, and a turn that does not claim the taker. *)
UserText(t) ==
  /\ Silence
  /\ LET cancelled == IF flush \in Turn THEN {flush} ELSE {}
     IN  /\ FreeTurn(t)
         /\ "typed" \in scene.kinds
         /\ busy' = (busy /\ cancelled = {})
         /\ kind' = [kind EXCEPT ![t] = "typed"]
         /\ \E plan \in UserPlan :
              todo' = [u \in Turn |-> IF u = t THEN plan
                                      ELSE IF u \in cancelled THEN <<Head(todo[u])>>
                                      ELSE todo[u]]
         /\ awaited' = [u \in Turn |-> u = t \/ (awaited[u] /\ u \notin cancelled)]
         /\ since' = [since EXCEPT ![t] = None]
         /\ aside' = [aside EXCEPT ![t] = FALSE]
  /\ UNCHANGED <<scene, link, lines, closed>>

(* should_fire and _cue: nobody speaks, and the taker is claimed. *)
Cue(t) ==
  /\ ~Speaking
  /\ ~busy
  /\ Begin(t, "cue", <<"bishop">>)
  /\ busy' = TRUE
  /\ UNCHANGED <<scene, link, words, flush, lines, speech>>

(* follow_audio: the recogniser's socket closes, and pump opens another. *)
LinkLost ==
  /\ "stt" \in scene.faults
  /\ link = "up"
  /\ link' = "down"
  /\ UNCHANGED <<scene, words, flush, busy, turns, lines, speech>>

LinkBack ==
  /\ link = "down"
  /\ link' = "up"
  /\ UNCHANGED <<scene, words, flush, busy, turns, lines, speech>>

Returns(t) == Answer(t) \/ SaysNothing(t) \/ BishopPlans(t) \/ SteerOnly(t)

Next ==
  \/ Word \/ FlushBusy \/ FlushShort \/ Stop
  \/ Pull \/ LinkLost \/ LinkBack
  \/ \E t \in Turn :
       \/ FlushTurn(t) \/ UserText(t) \/ Cue(t)
       \/ ReadEpoch(t) \/ UseTools(t) \/ Returns(t) \/ Monologue(t)
       \/ GreetingFails(t) \/ CallFails(t)
  \/ \E l \in Line :
       \/ ShowLine(l) \/ GetGate(l) \/ GateTimeout(l) \/ Snapshot(l)
       \/ Check(l) \/ Push(l) \/ Finish(l) \/ EndLine(l) \/ LineFails(l)

(* Model calls end: their client has a timeout of 120 s. *)
Fairness == \A t \in Turn : WF_vars(ReadEpoch(t)) /\ WF_vars(Returns(t))

Spec == Init /\ [][Next]_vars
FairSpec == Spec /\ Fairness

-----------------------------------------------------------------------------
(* Properties *)

(* TurnTaker's flag is set exactly while one spoken turn or one cue of the
   director is awaited, and never two: try_claim, _flush and the cancellation
   of a task that is running a turn keep it so, though the thread of a
   cancelled turn goes on. *)
BusyExact ==
  /\ busy <=> \E t \in Turn : OwnsBusy(t)
  /\ \A t, u \in Turn : OwnsBusy(t) /\ OwnsBusy(u) => t = u

Stale(i) == lep[buf[i]] # epoch

(* webrtc_tts looks at the epoch and then pushes: after an interrupt, at most
   one chunk of what was silenced gets onto the board, whoever was speaking. *)
StaleIsBounded ==
  \A i, j \in 1..Len(buf) : Stale(i) /\ Stale(j) => i = j

(* The lines of asides, answers, beats and monologues come from threads of
   their own: once another line's audio follows a line's on the board, that
   line is over, so no line is ever cut by another and goes on behind it. *)
OneVoice ==
  \A i, j \in 1..Len(buf) : i < j /\ buf[i] # buf[j] => ~Holds(buf[i])

(* A taker that is claimed is released: a turn, cancelled or not, and a cue,
   whatever fails, do not keep the session deaf. *)
BusyReleased == busy ~> ~busy

(* webrtc_mix: "Once the line is finished, that tail is the end of the last
   word. Play it."  With every line finished, whatever is left on the board
   can be played. *)
TailIsPlayed ==
  (\A l \in Line : lat[l] = "free") /\ tail => closed
=============================================================================
