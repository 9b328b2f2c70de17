--------------------------- MODULE VoiceTurnProofs ---------------------------
(***************************************************************************)
(* The taker's flag is exact, one voice is heard at a time, and at most    *)
(* one chunk of what was silenced is heard after all: for any turns,       *)
(* lines, faults and bounds.                                               *)
(*                                                                         *)
(* The two halves of the module are apart in the proof as they are in the  *)
(* code.  The flag depends on the turns and the taker only, the audio on   *)
(* the lines and the board only.                                           *)
(***************************************************************************)
EXTENDS VoiceTurn, TLAPS

TurnVars == <<flush, busy, kind, todo, awaited>>

TurnType ==
  /\ flush \in {"none", "sleep"} \cup Turn
  /\ busy \in BOOLEAN
  /\ kind \in [Turn -> Kind \cup {None}]
  /\ todo \in [Turn -> Seq(Stage)]
  /\ awaited \in [Turn -> BOOLEAN]

(* The task that the taker knows runs a spoken turn and is awaited: this is
   what makes it right to clear the flag when that task is cancelled. *)
FlushOwns == flush \in Turn => kind[flush] = "voice" /\ awaited[flush]

(* A slot that is free for a new turn is nobody's. *)
AwaitedCalls == \A t \in Turn : awaited[t] => todo[t] # <<>>

TurnInv == TurnType /\ FlushOwns /\ AwaitedCalls /\ BusyExact

-----------------------------------------------------------------------------
(* A call that returns, with whatever is left of its turn. *)
LEMMA ReturnKeepsTurns ==
  ASSUME TurnInv, NEW t \in Turn, NEW rest \in Seq(Stage), Return(t, rest)
  PROVE  TurnInv'
<1> USE DEF TurnInv, TurnType
<1>1. CASE awaited[t] /\ rest # <<>>
  <2>1. todo' = [todo EXCEPT ![t] = rest] /\ UNCHANGED <<kind, awaited, busy, flush>>
    BY <1>1 DEF Return
  <2>2. TurnType' BY <2>1
  <2>3. FlushOwns' BY <2>1 DEF FlushOwns
  <2>4. AwaitedCalls' BY <1>1, <2>1 DEF AwaitedCalls
  <2>5. BusyExact' BY <2>1 DEF BusyExact, OwnsBusy
  <2> QED BY <2>2, <2>3, <2>4, <2>5
<1>2. CASE ~(awaited[t] /\ rest # <<>>)
  <2>1. /\ todo' = [todo EXCEPT ![t] = IF awaited[t] THEN rest ELSE <<>>]
        /\ kind' = [kind EXCEPT ![t] = None]
        /\ awaited' = [awaited EXCEPT ![t] = FALSE]
        /\ busy' = (busy /\ ~OwnsBusy(t))
        /\ flush' = IF flush = t THEN "none" ELSE flush
    BY <1>2 DEF Return
  <2>2. TurnType' BY <2>1
  <2>3. FlushOwns' BY <2>1, NoneAssumption DEF FlushOwns
  <2>4. AwaitedCalls' BY <2>1 DEF AwaitedCalls
  <2>5. \A u \in Turn : OwnsBusy(u)' <=> u # t /\ OwnsBusy(u) BY <2>1 DEF OwnsBusy
  <2>6. BusyExact' BY <2>1, <2>5 DEF BusyExact
  <2> QED BY <2>2, <2>3, <2>4, <2>6
<1> QED BY <1>1, <1>2

(* A turn that begins in a free slot while nobody has the flag. *)
LEMMA ClaimKeepsTurns ==
  ASSUME TurnInv, ~busy, flush \notin Turn,
         NEW t \in Turn, NEW k \in {"voice", "cue"}, NEW plan \in Seq(Stage) \ {<<>>},
         Begin(t, k, plan), busy' = TRUE,
         flush' = flush \/ (flush' = t /\ k = "voice")
  PROVE  TurnInv'
<1> USE DEF TurnInv, TurnType
<1>1. /\ kind' = [kind EXCEPT ![t] = k]
      /\ todo' = [todo EXCEPT ![t] = plan]
      /\ awaited' = [awaited EXCEPT ![t] = TRUE]
  BY DEF Begin
<1>2. TurnType' BY <1>1 DEF Kind
<1>3. FlushOwns' BY <1>1 DEF FlushOwns
<1>4. AwaitedCalls' BY <1>1 DEF AwaitedCalls
<1>5. \A u \in Turn : OwnsBusy(u)' <=> u = t BY <1>1 DEF OwnsBusy, BusyExact
<1>6. BusyExact' BY <1>5 DEF BusyExact
<1> QED BY <1>2, <1>3, <1>4, <1>6

(* What the users can ask for is one call. *)
LEMMA PlanIsOneCall == \A plan \in UserPlan : plan \in Seq(Stage) \ {<<>>}
<1> SUFFICES ASSUME NEW plan \in UserPlan PROVE plan \in Seq(Stage) \ {<<>>}
  OBVIOUS
<1>1. plan \in {<<"speak">>, <<"bishop">>} BY DEF UserPlan
<1>2. \A s \in Stage : <<s>> \in Seq(Stage) \ {<<>>} OBVIOUS
<1> QED BY <1>1, <1>2 DEF Stage

(* Cancelling the taker's task leaves its thread, and nobody has the flag. *)
LEMMA CancelKeepsTurns ==
  ASSUME TurnInv, CancelTask, UNCHANGED kind, flush' \in {"none", "sleep"}
  PROVE  TurnInv'
<1> USE DEF TurnInv, TurnType
<1>1. CASE flush \in Turn
  <2>1. /\ awaited' = [awaited EXCEPT ![flush] = FALSE]
        /\ todo' = [todo EXCEPT ![flush] = <<Head(todo[flush])>>]
        /\ busy' = FALSE
    BY <1>1 DEF CancelTask
  <2>2. todo[flush] # <<>> BY <1>1 DEF FlushOwns, AwaitedCalls
  <2>3. <<Head(todo[flush])>> \in Seq(Stage) BY <1>1, <2>2
  <2>4. TurnType' BY <1>1, <2>1, <2>3
  <2>5. FlushOwns' BY NoneAssumption DEF FlushOwns
  <2>6. AwaitedCalls' BY <1>1, <2>1 DEF AwaitedCalls
  <2>7. OwnsBusy(flush) BY <1>1 DEF FlushOwns, OwnsBusy
  <2>8. \A u \in Turn : ~OwnsBusy(u)' BY <1>1, <2>1, <2>7 DEF OwnsBusy, BusyExact
  <2>9. BusyExact' BY <2>1, <2>8 DEF BusyExact
  <2> QED BY <2>4, <2>5, <2>6, <2>9
<1>2. CASE flush \notin Turn
  <2>1. UNCHANGED <<awaited, todo, busy>> BY <1>2 DEF CancelTask
  <2>2. TurnType' BY <2>1
  <2>3. FlushOwns' BY NoneAssumption DEF FlushOwns
  <2>4. AwaitedCalls' BY <2>1 DEF AwaitedCalls
  <2>5. BusyExact' BY <2>1 DEF BusyExact, OwnsBusy
  <2> QED BY <2>2, <2>3, <2>4, <2>5
<1> QED BY <1>1, <1>2

(* A typed turn cancels the taker's task too, and has no flag of its own. *)
LEMMA UserTextKeepsTurns ==
  ASSUME TurnInv, NEW t \in Turn, UserText(t)
  PROVE  TurnInv'
<1> USE DEF TurnInv, TurnType
<1> DEFINE cancelled == IF flush \in Turn THEN {flush} ELSE {}
<1>1. /\ flush' = "none"
      /\ FreeTurn(t)
      /\ busy' = (busy /\ cancelled = {})
      /\ kind' = [kind EXCEPT ![t] = "typed"]
      /\ awaited' = [u \in Turn |-> u = t \/ (awaited[u] /\ u \notin cancelled)]
  BY DEF UserText, Silence
<1>2. PICK plan \in UserPlan :
        todo' = [u \in Turn |-> IF u = t THEN plan
                                ELSE IF u \in cancelled THEN <<Head(todo[u])>> ELSE todo[u]]
  BY DEF UserText
<1>3. plan \in Seq(Stage) \ {<<>>} BY PlanIsOneCall
<1>4. \A u \in Turn : todo[u] # <<>> => <<Head(todo[u])>> \in Seq(Stage) OBVIOUS
<1>5. \A u \in cancelled : todo[u] # <<>> BY DEF FlushOwns, AwaitedCalls
<1>6. TurnType'
  <2>1. todo' \in [Turn -> Seq(Stage)] BY <1>2, <1>3, <1>4, <1>5
  <2> QED BY <1>1, <2>1 DEF Kind
<1>7. FlushOwns' BY <1>1, NoneAssumption DEF FlushOwns
<1>8. AwaitedCalls' BY <1>1, <1>2, <1>3 DEF AwaitedCalls
<1>9. \A u \in Turn : OwnsBusy(u)' <=> OwnsBusy(u) /\ u \notin cancelled
  BY <1>1 DEF OwnsBusy, AwaitedCalls, FreeTurn
<1>10. BusyExact'
  <2>1. CASE flush \in Turn
    <3>1. OwnsBusy(flush) BY <2>1 DEF FlushOwns, OwnsBusy
    <3>2. \A u \in Turn : ~OwnsBusy(u)' BY <2>1, <3>1, <1>9 DEF BusyExact
    <3> QED BY <2>1, <3>2, <1>1 DEF BusyExact
  <2>2. CASE flush \notin Turn BY <2>2, <1>1, <1>9 DEF BusyExact
  <2> QED BY <2>1, <2>2
<1> QED BY <1>6, <1>7, <1>8, <1>10

(* What is left of a turn after a call. *)
LEMMA RestIsCalls ==
  ASSUME TurnType, NEW t \in Turn, todo[t] # <<>>
  PROVE  Tail(todo[t]) \in Seq(Stage)
BY DEF TurnType

LEMMA TurnStep == TurnInv /\ [Next]_vars => TurnInv'
<1> SUFFICES ASSUME TurnInv, [Next]_vars PROVE TurnInv'
  OBVIOUS
<1> USE DEF TurnInv
<1>1. ASSUME UNCHANGED TurnVars PROVE TurnInv'
  BY <1>1 DEF TurnVars, TurnType, FlushOwns, AwaitedCalls, BusyExact, OwnsBusy
<1>2. ASSUME flush' = "none", flush = "sleep", UNCHANGED <<busy, kind, todo, awaited>>
      PROVE  TurnInv'
  BY <1>2, NoneAssumption DEF TurnType, FlushOwns, AwaitedCalls, BusyExact, OwnsBusy
<1>3. ASSUME ~busy PROVE flush \notin Turn
  BY <1>3 DEF FlushOwns, BusyExact, OwnsBusy
<1>4. CASE UNCHANGED vars BY <1>1, <1>4 DEF vars, taker, turns, TurnVars
<1>5. CASE Word
  <2>1. CancelTask /\ UNCHANGED kind /\ flush' = "sleep" BY <1>5 DEF Word
  <2> QED BY <2>1, CancelKeepsTurns
<1>6. CASE FlushBusy BY <1>2, <1>6 DEF FlushBusy, turns
<1>7. CASE FlushShort BY <1>2, <1>7 DEF FlushShort, turns
<1>8. CASE Stop
  <2>1. CancelTask /\ UNCHANGED kind /\ flush' = "none" BY <1>8 DEF Stop, Silence
  <2> QED BY <2>1, CancelKeepsTurns
<1>9. CASE Pull \/ LinkLost \/ LinkBack
  BY <1>1, <1>9 DEF Pull, LinkLost, LinkBack, taker, turns, TurnVars
<1>10. ASSUME NEW t \in Turn, FlushTurn(t) PROVE TurnInv'
  <2>1. PICK plan \in UserPlan : Begin(t, "voice", plan) BY <1>10 DEF FlushTurn
  <2>2. ~busy /\ busy' = TRUE /\ flush' = t BY <1>10 DEF FlushTurn
  <2> QED BY <2>1, <2>2, <1>3, PlanIsOneCall, ClaimKeepsTurns
<1>11. ASSUME NEW t \in Turn, UserText(t) PROVE TurnInv'
  BY <1>11, UserTextKeepsTurns
<1>12. ASSUME NEW t \in Turn, Cue(t) PROVE TurnInv'
  <2>1. Begin(t, "cue", <<"bishop">>) /\ ~busy /\ busy' = TRUE /\ flush' = flush
    BY <1>12 DEF Cue
  <2>2. \A s \in Stage : <<s>> \in Seq(Stage) \ {<<>>} OBVIOUS
  <2>3. <<"bishop">> \in Seq(Stage) \ {<<>>} BY <2>2 DEF Stage
  <2> QED BY <2>1, <2>3, <1>3, ClaimKeepsTurns
<1>13. ASSUME NEW t \in Turn, ReadEpoch(t) \/ UseTools(t) PROVE TurnInv'
  BY <1>1, <1>13 DEF ReadEpoch, UseTools, taker, TurnVars
<1>14. ASSUME NEW t \in Turn, Answer(t) \/ SaysNothing(t) \/ GreetingFails(t) PROVE TurnInv'
  <2>1. Return(t, Tail(todo[t])) BY <1>14 DEF Answer, SaysNothing, GreetingFails
  <2>2. todo[t] # <<>>
    BY <1>14 DEF Answer, SaysNothing, GreetingFails, Answering, Calls, OpeningPlan
  <2>3. Tail(todo[t]) \in Seq(Stage) BY <2>2, RestIsCalls
  <2> QED BY <2>1, <2>3, ReturnKeepsTurns
<1>15. ASSUME NEW t \in Turn, BishopPlans(t) PROVE TurnInv'
  <2>1. PICK beats \in Beats \cup {<<>>} : Return(t, beats) BY <1>15 DEF BishopPlans
  <2>2. beats \in Seq(Stage)
    <3>1. \A s \in Stage : {<<>>, <<s>>, <<s, s>>} \subseteq Seq(Stage) OBVIOUS
    <3>2. beats \in {<<>>, <<"speak">>, <<"speak", "speak">>} BY DEF Beats
    <3> QED BY <3>1, <3>2 DEF Stage
  <2> QED BY <2>1, <2>2, ReturnKeepsTurns
<1>16. ASSUME NEW t \in Turn, SteerOnly(t) \/ Monologue(t) \/ CallFails(t) PROVE TurnInv'
  <2>1. Return(t, <<>>) BY <1>16 DEF SteerOnly, Monologue, CallFails
  <2>2. <<>> \in Seq(Stage) OBVIOUS
  <2> QED BY <2>1, <2>2, ReturnKeepsTurns
<1>17. ASSUME NEW l \in Line,
              \/ ShowLine(l) \/ GetGate(l) \/ GateTimeout(l) \/ Snapshot(l)
              \/ Check(l) \/ Push(l) \/ Finish(l) \/ EndLine(l) \/ LineFails(l)
       PROVE TurnInv'
  BY <1>1, <1>17 DEF ShowLine, GetGate, GateTimeout, Snapshot, Check, Push, Finish, EndLine,
     LineFails, taker, turns, TurnVars
<1> QED
  BY <1>4, <1>5, <1>6, <1>7, <1>8, <1>9, <1>10, <1>11, <1>12, <1>13, <1>14, <1>15, <1>16, <1>17
  DEF Next, Returns

LEMMA TurnStart == Init => TurnInv
<1> SUFFICES ASSUME Init PROVE TurnInv
  OBVIOUS
<1>1. OpeningPlan \in Seq(Stage) \ {<<>>} /\ <<>> \in Seq(Stage)
  <2>1. \A a, b \in Stage : <<a, b>> \in Seq(Stage) \ {<<>>} OBVIOUS
  <2>2. OpeningPlan \in Seq(Stage) \ {<<>>} BY <2>1 DEF OpeningPlan, Stage
  <2> QED BY <2>2
<1> DEFINE opening == IF "open" \in scene.kinds THEN {CHOOSE t \in Turn : TRUE} ELSE {}
<1>2. /\ kind = [t \in Turn |-> IF t \in opening THEN "open" ELSE None]
      /\ todo = [t \in Turn |-> IF t \in opening THEN OpeningPlan ELSE <<>>]
      /\ awaited = [t \in Turn |-> t \in opening]
      /\ flush = "none" /\ busy = FALSE
  BY DEF Init, InitTurns
<1> HIDE DEF opening
<1>3. TurnType
  <2>1. \A t \in Turn : (t \in opening) \in BOOLEAN OBVIOUS
  <2>2. awaited \in [Turn -> BOOLEAN] BY <2>1, <1>2
  <2>3. todo \in [Turn -> Seq(Stage)] BY <1>1, <1>2
  <2>4. kind \in [Turn -> Kind \cup {None}] BY <1>2 DEF Kind
  <2> QED BY <1>2, <2>2, <2>3, <2>4 DEF TurnType
<1>4. FlushOwns BY <1>2, NoneAssumption DEF FlushOwns
<1>5. AwaitedCalls BY <1>1, <1>2 DEF AwaitedCalls
<1>6. \A t \in Turn : ~OwnsBusy(t) BY <1>2, NoneAssumption DEF OwnsBusy, Kind
<1>7. BusyExact BY <1>2, <1>6 DEF BusyExact
<1> QED BY <1>3, <1>4, <1>5, <1>7 DEF TurnInv

(* The taker's flag says exactly whether one spoken turn or one cue is
   awaited (webrtc_moshi.TurnTaker). *)
THEOREM FlagIsExact == Spec => []BusyExact
<1>1. TurnInv => BusyExact BY DEF TurnInv
<1> QED BY TurnStart, TurnStep, <1>1, PTL DEF Spec

-----------------------------------------------------------------------------
(* The audio *)

LineVars == <<lat, lep, epoch, buf>>

LineType ==
  /\ lat \in [Line -> {"free", "start", "gate"} \cup Holding]
  /\ DOMAIN lep = Line
  /\ buf \in Seq(Line)

(* _TTS_GATE *)
OneHolder == \A l, m \in Line : Holds(l) /\ Holds(m) => l = m

(* A line has nothing on the board before its synthesis answers: a chunk of
   the line that had the slot before would be taken for its own. *)
Unheard == {"start", "gate", "open", "connect"}
Unqueued == \A l \in Line : lat[l] \in Unheard => ~Queued(l)

(* The chunk that was checked before an interrupt and pushed after it is the
   only one: with it on the board, whoever is about to push may. *)
Drained == \A i \in 1..Len(buf) : Stale(i) =>
             \A l \in Line : lat[l] = "push" => lep[l] = epoch

LineInv ==
  /\ LineType /\ OneHolder /\ Unqueued
  /\ OneVoice /\ StaleIsBounded /\ Drained

(* The board after the mixer has taken a frame. *)
LEMMA TailShape ==
  ASSUME NEW s \in Seq(Line), s # <<>>
  PROVE  /\ Tail(s) \in Seq(Line)
         /\ Len(Tail(s)) = Len(s) - 1
         /\ \A i \in 1..Len(Tail(s)) : i + 1 \in 1..Len(s) /\ Tail(s)[i] = s[i + 1]
OBVIOUS

(* The board after a push: the same chunks, the first perhaps gone, and the
   new one. *)
LEMMA PushedShape ==
  ASSUME buf \in Seq(Line), NEW l \in Line
  PROVE  /\ Pushed(l) \in Seq(Line)
         /\ \E d \in {0, 1} : \A i \in 1..Len(Pushed(l)) :
              \/ Pushed(l)[i] = l /\ i = Len(Pushed(l))
              \/ i < Len(Pushed(l)) /\ i + d \in 1..Len(buf) /\ Pushed(l)[i] = buf[i + d]
<1> DEFINE b == Append(buf, l)
<1>1. /\ b \in Seq(Line) /\ b # <<>> /\ Len(b) = Len(buf) + 1
      /\ \A i \in 1..Len(b) : b[i] = IF i = Len(b) THEN l ELSE buf[i]
  <2>1. b \in Seq(Line) /\ Len(b) = Len(buf) + 1 OBVIOUS
  <2>2. b # <<>>
    <3>1. Len(b) > 0 BY <2>1
    <3>2. Len(<<>>) = 0 OBVIOUS
    <3> HIDE DEF b
    <3> QED BY <3>1, <3>2
  <2>3. \A i \in 1..Len(b) : b[i] = IF i = Len(b) THEN l ELSE buf[i] OBVIOUS
  <2> QED BY <2>1, <2>2, <2>3
<1>2. Pushed(l) = IF Len(b) > MaxBoard THEN Tail(b) ELSE b BY DEF Pushed
<1> HIDE DEF b
<1>3. CASE Pushed(l) = b
  <2>1. \A i \in 1..Len(b) :
          \/ b[i] = l /\ i = Len(b)
          \/ i < Len(b) /\ i + 0 \in 1..Len(buf) /\ b[i] = buf[i + 0]
    BY <1>1
  <2> QED BY <1>1, <1>3, <2>1
<1>4. CASE Pushed(l) = Tail(b)
  <2>1. /\ Tail(b) \in Seq(Line)
        /\ Len(Tail(b)) = Len(b) - 1
        /\ \A i \in 1..Len(Tail(b)) : i + 1 \in 1..Len(b) /\ Tail(b)[i] = b[i + 1]
    BY <1>1, TailShape
  <2>2. \A i \in 1..Len(Tail(b)) :
          \/ Tail(b)[i] = l /\ i = Len(Tail(b))
          \/ i < Len(Tail(b)) /\ i + 1 \in 1..Len(buf) /\ Tail(b)[i] = buf[i + 1]
    BY <1>1, <2>1
  <2> QED BY <1>4, <2>1, <2>2
<1> QED BY <1>2, <1>3, <1>4

(* A line that goes on, and what it must have to go there. *)
LEMMA GoKeepsLines ==
  ASSUME LineInv, NEW l \in Line, NEW label, Go(l, label),
         UNCHANGED <<lep, epoch, buf>>,
         label \in {"free", "start", "gate"} \cup Holding,
         label \in Holding => \A m \in Line : Holds(m) => m = l,
         label \in Holding => Holds(l) \/ ~Queued(l),
         label \in Unheard => ~Queued(l),
         label = "push" => lep[l] = epoch
  PROVE  LineInv'
<1> USE DEF LineInv, LineType
<1>1. lat' = [lat EXCEPT ![l] = label] BY DEF Go
<1>2. LineType' BY <1>1
<1>3. OneHolder' BY <1>1 DEF OneHolder, Holds
<1>4. Unqueued' BY <1>1 DEF Unqueued, Queued
<1>5. OneVoice'
  <2> SUFFICES ASSUME NEW i \in 1..Len(buf), NEW j \in 1..Len(buf),
                      i < j, buf[i] # buf[j], Holds(buf[i])'
               PROVE  FALSE
    BY DEF OneVoice, Holds
  <2>1. buf[i] \in Line /\ Queued(buf[i]) BY DEF Queued
  <2>2. ~Holds(buf[i]) BY DEF OneVoice
  <2> QED BY <1>1, <2>1, <2>2 DEF Holds
<1>6. StaleIsBounded' BY DEF StaleIsBounded, Stale
<1>7. Drained' BY <1>1 DEF Drained, Stale
<1> QED BY <1>2, <1>3, <1>4, <1>5, <1>6, <1>7

(* A line of its own for what is to be said: it has nothing on the board, so
   its epoch silences nothing. *)
LEMMA SpeakKeepsLines ==
  ASSUME LineInv, NEW e, Speak(e), UNCHANGED <<epoch, buf>>
  PROVE  LineInv'
<1> USE DEF LineInv, LineType
<1>1. PICK l \in Line : /\ FreeLine(l)
                        /\ lat' = [lat EXCEPT ![l] = "start"]
                        /\ lep' = [lep EXCEPT ![l] = e]
  BY DEF Speak
<1>2. LineType' BY <1>1
<1>3. \A m \in Line : Holds(m)' <=> Holds(m) BY <1>1 DEF Holds, Holding, FreeLine
<1>4. \A i \in 1..Len(buf) : buf[i] \in Line /\ buf[i] # l BY <1>1 DEF FreeLine, Queued
<1>5. \A i \in 1..Len(buf) : Stale(i)' <=> Stale(i) BY <1>1, <1>4 DEF Stale
<1>6. OneHolder' BY <1>3 DEF OneHolder
<1>7. Unqueued' BY <1>1 DEF Unqueued, Queued, FreeLine
<1>8. OneVoice' BY <1>3, <1>4 DEF OneVoice
<1>9. StaleIsBounded' BY <1>5 DEF StaleIsBounded
<1>10. Drained' BY <1>1, <1>5 DEF Drained
<1> QED BY <1>2, <1>6, <1>7, <1>8, <1>9, <1>10

(* The same of the line whose synthesis starts. *)
LEMMA SnapshotKeepsLines ==
  ASSUME LineInv, NEW l \in Line, Snapshot(l)
  PROVE  LineInv'
<1> USE DEF LineInv, LineType
<1> DEFINE e == IF lep[l] = Late THEN epoch ELSE lep[l]
<1> DEFINE label == IF e = epoch THEN "connect" ELSE "free"
<1>1. /\ label \in {"connect", "free"}
      /\ lat' = [lat EXCEPT ![l] = label]
      /\ lep' = [lep EXCEPT ![l] = e]
  BY DEF Snapshot, Go
<1> HIDE DEF e, label
<1>2. lat[l] = "open" /\ UNCHANGED <<epoch, buf>> BY DEF Snapshot, speech
<1>3. LineType' BY <1>1, <1>2 DEF Holding
<1>4. ~Queued(l) BY <1>2 DEF Unqueued, Unheard
<1>5. \A m \in Line : Holds(m)' => Holds(m) BY <1>1, <1>2 DEF Holds, Holding
<1>6. \A i \in 1..Len(buf) : buf[i] \in Line /\ buf[i] # l BY <1>4 DEF Queued
<1>7. \A i \in 1..Len(buf) : Stale(i)' <=> Stale(i) BY <1>1, <1>2, <1>6 DEF Stale
<1>8. OneHolder' BY <1>5 DEF OneHolder
<1>9. Unqueued' BY <1>1, <1>2, <1>4 DEF Unqueued, Queued
<1>10. OneVoice' BY <1>2, <1>5, <1>6 DEF OneVoice
<1>11. StaleIsBounded' BY <1>2, <1>7 DEF StaleIsBounded
<1>12. Drained' BY <1>1, <1>2, <1>7 DEF Drained
<1> QED BY <1>3, <1>8, <1>9, <1>10, <1>11, <1>12

(* The mixer takes a frame: every other chunk moves up. *)
LEMMA PullKeepsLines ==
  ASSUME LineInv, buf # <<>>, buf' = Tail(buf), UNCHANGED <<lat, lep, epoch>>
  PROVE  LineInv'
<1> USE DEF LineInv, LineType
<1>1. /\ buf' \in Seq(Line)
      /\ \A i \in 1..Len(buf') : i + 1 \in 1..Len(buf) /\ buf'[i] = buf[i + 1]
  BY TailShape
<1> HIDE DEF LineInv
<1>2. LineType' BY <1>1 DEF LineInv
<1>3. OneHolder' BY DEF LineInv, OneHolder, Holds
<1>4. Unqueued' BY <1>1 DEF LineInv, Unqueued, Queued
<1>5. OneVoice'
  <2> SUFFICES ASSUME NEW i \in 1..Len(buf'), NEW j \in 1..Len(buf'),
                      i < j, buf'[i] # buf'[j]
               PROVE  ~Holds(buf[i + 1])
    BY <1>1 DEF OneVoice, Holds
  <2>1. i + 1 < j + 1 /\ buf[i + 1] # buf[j + 1] BY <1>1
  <2> QED BY <1>1, <2>1 DEF LineInv, OneVoice
<1>6. \A i \in 1..Len(buf') : Stale(i)' <=> Stale(i + 1) BY <1>1 DEF Stale
<1>7. StaleIsBounded'
  <2> SUFFICES ASSUME NEW i \in 1..Len(buf'), NEW j \in 1..Len(buf'), Stale(i)', Stale(j)'
               PROVE  i = j
    BY DEF StaleIsBounded
  <2>1. i + 1 = j + 1 BY <1>1, <1>6 DEF LineInv, StaleIsBounded
  <2> QED BY <2>1, <1>1
<1>8. Drained' BY <1>1, <1>6 DEF LineInv, Drained
<1> QED BY <1>2, <1>3, <1>4, <1>5, <1>7, <1>8 DEF LineInv

(* A chunk gets onto the board: whoever pushes is the only one who can, and
   if what it pushes is stale nothing else there is. *)
LEMMA PushKeepsLines ==
  ASSUME LineInv, NEW l \in Line, Push(l)
  PROVE  LineInv'
<1>1. /\ lat[l] = "push" /\ lat' = [lat EXCEPT ![l] = "stream"]
      /\ buf' = Pushed(l) /\ UNCHANGED <<lep, epoch>>
  BY DEF Push, Go
<1>2. LineType BY DEF LineInv
<1>3. /\ buf' \in Seq(Line)
      /\ \E d \in {0, 1} : \A i \in 1..Len(buf') :
           \/ buf'[i] = l /\ i = Len(buf')
           \/ i < Len(buf') /\ i + d \in 1..Len(buf) /\ buf'[i] = buf[i + d]
  BY <1>1, <1>2, PushedShape DEF LineType
<1>4. PICK d \in {0, 1} : \A i \in 1..Len(buf') :
        \/ buf'[i] = l /\ i = Len(buf')
        \/ i < Len(buf') /\ i + d \in 1..Len(buf) /\ buf'[i] = buf[i + d]
  BY <1>3
<1>5. LineType' BY <1>1, <1>2, <1>3 DEF LineType, Holding
<1>6. \A m \in Line : Holds(m)' <=> m = l
  BY <1>1, <1>2 DEF LineInv, OneHolder, Holds, Holding, LineType
<1>7. OneHolder' BY <1>6 DEF OneHolder
<1>8. Unqueued'
  <2> SUFFICES ASSUME NEW m \in Line, lat'[m] \in Unheard, NEW i \in 1..Len(buf'), buf'[i] = m
               PROVE  FALSE
    BY DEF Unqueued, Queued
  <2>1. m # l BY <1>1, <1>2 DEF LineType, Unheard
  <2>2. i + d \in 1..Len(buf) /\ buf[i + d] = m BY <1>4, <2>1
  <2>3. lat[m] \in Unheard BY <1>1, <1>2, <2>1 DEF LineType
  <2> QED BY <2>2, <2>3 DEF LineInv, Unqueued, Queued
<1>9. OneVoice'
  <2> SUFFICES ASSUME NEW i \in 1..Len(buf'), NEW j \in 1..Len(buf'),
                      i < j, buf'[i] # buf'[j], Holds(buf[i])'
               PROVE  FALSE
    BY DEF OneVoice, Holds
  <2>1. i < Len(buf') BY <1>3
  <2>2. i + d \in 1..Len(buf) /\ buf'[i] = buf[i + d] BY <1>4, <2>1
  <2>3. buf'[i] \in Line BY <1>3
  <2>4. buf[i + d] = l BY <1>6, <2>2, <2>3 DEF Holds
  <2>5. buf'[j] # l BY <2>2, <2>4
  <2>6. j + d \in 1..Len(buf) /\ buf'[j] = buf[j + d] BY <1>4, <2>5
  <2>7. i + d < j + d BY <1>4
  <2>8. ~Holds(buf[i + d]) BY <2>2, <2>4, <2>5, <2>6, <2>7 DEF LineInv, OneVoice
  <2> QED BY <1>1, <2>4, <2>8 DEF Holds, Holding
<1>10. \A i \in 1..Len(buf') : Stale(i)' =>
         \/ lep[l] # epoch /\ i = Len(buf')
         \/ i + d \in 1..Len(buf) /\ Stale(i + d)
  BY <1>1, <1>4 DEF Stale
<1>11. lep[l] # epoch => \A i \in 1..Len(buf) : ~Stale(i)
  BY <1>1 DEF LineInv, Drained
<1>12. StaleIsBounded'
  <2> SUFFICES ASSUME NEW i \in 1..Len(buf'), NEW j \in 1..Len(buf'), Stale(i)', Stale(j)'
               PROVE  i = j
    BY DEF StaleIsBounded
  <2>1. CASE lep[l] # epoch BY <1>10, <1>11, <2>1
  <2>2. CASE lep[l] = epoch
    <3>1. /\ i + d \in 1..Len(buf) /\ Stale(i + d)
          /\ j + d \in 1..Len(buf) /\ Stale(j + d)
      BY <1>10, <2>2
    <3>2. i + d = j + d BY <3>1 DEF LineInv, StaleIsBounded
    <3> QED BY <3>2, <1>4
  <2> QED BY <2>1, <2>2
<1>13. \A m \in Line : lat'[m] # "push"
  BY <1>1, <1>2, <1>6 DEF Holds, Holding, LineType
<1>14. Drained' BY <1>13 DEF Drained
<1> QED BY <1>5, <1>7, <1>8, <1>9, <1>12, <1>14 DEF LineInv

(* Silence: the board is empty, whoever speaks. *)
LEMMA InterruptKeepsLines ==
  ASSUME LineInv, buf' = <<>>, UNCHANGED <<lat, lep>>
  PROVE  LineInv'
<1>1. Len(buf') = 0 /\ buf' \in Seq(Line) OBVIOUS
<1>2. LineType' BY <1>1 DEF LineInv, LineType
<1>3. OneHolder' BY DEF LineInv, OneHolder, Holds
<1>4. Unqueued' BY <1>1 DEF Unqueued, Queued
<1>5. OneVoice' /\ StaleIsBounded' /\ Drained' BY <1>1 DEF OneVoice, StaleIsBounded, Drained
<1> QED BY <1>2, <1>3, <1>4, <1>5 DEF LineInv

LEMMA LineStep == LineInv /\ [Next]_vars => LineInv'
<1> SUFFICES ASSUME LineInv, [Next]_vars PROVE LineInv'
  OBVIOUS
<1>1. ASSUME UNCHANGED LineVars PROVE LineInv'
  BY <1>1 DEF LineVars, LineInv, LineType, OneHolder, Unqueued, Queued, OneVoice,
     StaleIsBounded, Drained, Stale, Holds
<1>2. CASE UNCHANGED vars BY <1>1, <1>2 DEF vars, lines, speech, LineVars
<1>3. CASE Word
  <2>1. CASE Interrupt BY <1>3, <2>1, InterruptKeepsLines DEF Word, Interrupt, lines
  <2>2. CASE UNCHANGED speech BY <1>1, <1>3, <2>2 DEF Word, lines, speech, LineVars
  <2> QED BY <1>3, <2>1, <2>2 DEF Word, BargeIn
<1>4. CASE FlushBusy \/ FlushShort \/ LinkLost \/ LinkBack
  BY <1>1, <1>4 DEF FlushBusy, FlushShort, LinkLost, LinkBack, lines, speech, LineVars
<1>5. CASE Stop
  BY <1>5, InterruptKeepsLines DEF Stop, Silence, Interrupt, lines
<1>6. CASE Pull
  BY <1>1, <1>6, PullKeepsLines DEF Pull, lines, LineVars
<1>7. ASSUME NEW t \in Turn, UserText(t) PROVE LineInv'
  BY <1>7, InterruptKeepsLines DEF UserText, Silence, Interrupt, lines
<1>8. ASSUME NEW t \in Turn, FlushTurn(t) \/ Cue(t) \/ ReadEpoch(t) PROVE LineInv'
  BY <1>1, <1>8 DEF FlushTurn, Cue, ReadEpoch, lines, speech, LineVars
<1>9. ASSUME NEW t \in Turn,
             \/ SaysNothing(t) \/ BishopPlans(t) \/ SteerOnly(t)
             \/ GreetingFails(t) \/ CallFails(t)
      PROVE LineInv'
  BY <1>1, <1>9 DEF SaysNothing, BishopPlans, SteerOnly, GreetingFails, CallFails, lines,
     speech, LineVars
<1>10. ASSUME NEW t \in Turn, UseTools(t) \/ Answer(t) \/ Monologue(t) PROVE LineInv'
  <2>1. UNCHANGED <<epoch, buf>> BY <1>10 DEF UseTools, Answer, Monologue, speech
  <2>2. CASE \E e : Speak(e) BY <2>1, <2>2, SpeakKeepsLines
  <2>3. CASE UNCHANGED lines BY <1>1, <2>1, <2>3 DEF lines, LineVars
  <2> QED BY <1>10, <2>2, <2>3 DEF UseTools, HeardAside, Answer, Monologue
<1>11. ASSUME NEW l \in Line, ShowLine(l) PROVE LineInv'
  <2>1. Go(l, "gate") /\ UNCHANGED <<lep, epoch, buf>> BY <1>11 DEF ShowLine
  <2>2. ~Queued(l) BY <1>11 DEF ShowLine, LineInv, Unqueued, Unheard
  <2> QED BY <2>1, <2>2, GoKeepsLines DEF Holding
<1>12. ASSUME NEW l \in Line, GetGate(l) PROVE LineInv'
  <2>1. Go(l, "open") /\ UNCHANGED <<lep, epoch, buf>> BY <1>12 DEF GetGate, speech
  <2>2. ~Queued(l) BY <1>12 DEF GetGate, LineInv, Unqueued, Unheard
  <2>3. \A m \in Line : ~Holds(m) BY <1>12 DEF GetGate
  <2> QED BY <2>1, <2>2, <2>3, GoKeepsLines DEF Holding
<1>13. ASSUME NEW l \in Line, GateTimeout(l) PROVE LineInv'
  <2>1. Go(l, "free") /\ UNCHANGED <<lep, epoch, buf>> BY <1>13 DEF GateTimeout, speech
  <2> QED BY <2>1, GoKeepsLines DEF Holding, Unheard
<1>14. ASSUME NEW l \in Line, Snapshot(l) PROVE LineInv'
  BY <1>14, SnapshotKeepsLines
<1>15. ASSUME NEW l \in Line, Check(l) \/ Finish(l) \/ LineFails(l) PROVE LineInv'
  <2>1. Holds(l) BY <1>15 DEF Check, Finish, LineFails, Holds, Holding
  <2>2. \A m \in Line : Holds(m) => m = l BY <2>1 DEF LineInv, OneHolder
  <2>3. PICK label \in {"free", "push", "ended"} :
          /\ Go(l, label) /\ UNCHANGED <<lep, epoch, buf>>
          /\ label = "push" => lep[l] = epoch
    BY <1>15 DEF Check, Finish, LineFails, speech
  <2> QED BY <2>1, <2>2, <2>3, GoKeepsLines DEF Holding, Unheard
<1>16. ASSUME NEW l \in Line, Push(l) PROVE LineInv'
  BY <1>16, PushKeepsLines
<1>17. ASSUME NEW l \in Line, EndLine(l) PROVE LineInv'
  <2>1. Go(l, "free") /\ UNCHANGED <<lep, epoch, buf>> BY <1>17 DEF EndLine
  <2> QED BY <2>1, GoKeepsLines DEF Holding, Unheard
<1> QED
  BY <1>2, <1>3, <1>4, <1>5, <1>6, <1>7, <1>8, <1>9, <1>10, <1>11, <1>12, <1>13, <1>14,
     <1>15, <1>16, <1>17
  DEF Next, Returns

LEMMA LineStart == Init => LineInv
<1> SUFFICES ASSUME Init PROVE LineInv
  OBVIOUS
<1>1. /\ lat = [l \in Line |-> "free"] /\ lep = [l \in Line |-> 0] /\ buf = <<>>
  BY DEF Init, InitSpeech
<1>2. Len(buf) = 0 /\ buf \in Seq(Line) BY <1>1
<1>3. LineType BY <1>1, <1>2 DEF LineType
<1>4. OneHolder BY <1>1 DEF OneHolder, Holds, Holding
<1>5. Unqueued BY <1>2 DEF Unqueued, Queued
<1>6. OneVoice /\ StaleIsBounded /\ Drained BY <1>2 DEF OneVoice, StaleIsBounded, Drained
<1> QED BY <1>3, <1>4, <1>5, <1>6 DEF LineInv

(* Whoever speaks, one line is heard at a time: once another line's audio
   follows a line's, that line is over (webrtc_tts._TTS_GATE). *)
THEOREM OneVoiceIsHeard == Spec => []OneVoice
<1>1. LineInv => OneVoice BY DEF LineInv
<1> QED BY LineStart, LineStep, <1>1, PTL DEF Spec

(* After a barge-in or a stop, at most one chunk of what was silenced gets
   onto the board, though the check of the epoch and the push are two steps
   (webrtc_tts._live_boards, webrtc_mix.SpeechBoard.push). *)
THEOREM StaleChunkIsOne == Spec => []StaleIsBounded
<1>1. LineInv => StaleIsBounded BY DEF LineInv
<1> QED BY LineStart, LineStep, <1>1, PTL DEF Spec
=============================================================================
