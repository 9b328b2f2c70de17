----------------------------- MODULE ScreenRules -----------------------------
(***************************************************************************)
(* What a call shows and sounds like from one frame to the next: the words *)
(* of a spoken line (webrtc_captions), the chips of who is at work         *)
(* (webrtc_activity), the audio frames (webrtc_mix), and when a peer that  *)
(* does not answer is let go (webrtc_consent).                             *)
(*                                                                         *)
(* Times are integers: tenths of a second for chips, milliseconds for      *)
(* audio, seconds for consent.  A line of n words is the number n.         *)
(***************************************************************************)
EXTENDS Integers, Sequences, FiniteSets
LOCAL INSTANCE SequencesExt
LOCAL INSTANCE FiniteSetsExt

-----------------------------------------------------------------------------
(* webrtc_captions *)

\* revealed_words: how many of n words the samples that played have reached.
Revealed(n, progress, estimate) ==
  LET known == progress.closed /\ progress.queued > 0
      whole == IF known THEN progress.queued ELSE Max({progress.queued, estimate, 1})
  IN  IF n = 0 \/ progress.played <= 0 THEN 0
      ELSE IF progress.played >= whole THEN n
      ELSE Min({n, (progress.played * n) \div whole + 1})

\* CaptionBoard, with the line of the agent and that of the room.
LineBegun == [played |-> 0, queued |-> 0, closed |-> FALSE]
NewBoard == [agent |-> 0, shown |-> 0, room |-> "", roomAt |-> 0]
SetRoom(board, text, now) == [board EXCEPT !.room = text, !.roomAt = now]
SetAgent(board, n) == [board EXCEPT !.agent = n, !.shown = 0]
\* _agent_visible: words that were shown stay.
Look(board, progress, estimate) ==
  [board EXCEPT !.shown = Max({@, Revealed(board.agent, progress, estimate)})]
\* get, after the look: the words of the agent, and the room for four seconds.
Dialog(board, now) ==
  (IF board.shown > 0 THEN <<<<"agent", Min({board.shown, board.agent})>>>> ELSE <<>>)
    \o (IF board.room # "" /\ now - board.roomAt <= 40 THEN <<<<"room", board.room>>>> ELSE <<>>)

\* wrap_to_width: words of these widths, a space of 1 between them.
LineWidth(line) == FoldLeft(LAMBDA sum, w : sum + w, 0, line) + Len(line) - 1
Wrapped(widths, budget, most) ==
  LET Place(lines, w) ==
        LET at == Len(lines)
        IN  IF lines # <<>> /\ LineWidth(Append(lines[at], w)) <= budget
            THEN [lines EXCEPT ![at] = Append(@, w)] ELSE Append(lines, <<w>>)
      all == FoldLeft(Place, <<>>, widths)
  IN  IF most > 0 THEN SubSeq(all, Max({1, Len(all) - most + 1}), Len(all)) ELSE all
(* paint_caption: where the plate begins, where the first line is drawn, the
   height of a line, and how many there is room for. *)
Band(width, height) ==
  LET size == Max({18, width \div 36})
      pad == Max({10, size \div 3})
      line == size + pad
      tall == Min({Max({(height * 42) \div 100, line + pad * 2}), Max({line + pad, height - 56})})
  IN  [top |-> height - tall, first |-> height - tall + pad, size |-> size, line |-> line,
       fit |-> Min({14, Max({1, (tall - pad * 2) \div line})})]

(* stamp_frame: the picture is fitted when the program changed or the frame
   has another size, and painted when the words or the chips did.  seen is
   the program's count when it is asked for, image what is fitted after. *)
NoCache == [fit |-> <<>>, base |-> 0, paint |-> <<>>, rgb |-> <<>>]
Stamp(cache, live, seen, image, size, text, chips) ==
  LET fit == <<seen, size>>
      paint == <<fit, text, chips>>
      base == IF cache.fit = fit THEN cache.base ELSE image
  IN  IF ~live THEN cache
      ELSE IF cache.paint = paint THEN cache
      ELSE [fit |-> fit, base |-> base, paint |-> paint, rgb |-> <<base, size, text, chips>>]
\* _stamp_needed
StampNeeded(text, chips, live) == text # "" \/ chips # "" \/ live

-----------------------------------------------------------------------------
(* webrtc_activity: slots are in the order in which they were begun. *)

Persona(kind) ==
  CASE kind \in {"bishop", "delegate_task", "grok_consult"} -> "bishop"
    [] kind \in {"vasquez", "viz_show", "viz_select", "viz_input", "viz_clear", "viz_hover"} -> "vasquez"
    [] kind = "source_drop" -> "hicks"
    [] kind = "mistral" -> "mistral"
    [] OTHER -> "ripley"
SlotsOf(slots, who) == {i \in 1..Len(slots) : slots[i].who = who}
Begin(slots, who, verb, now) ==
  LET old == {slots[i] : i \in SlotsOf(slots, who)}
      slot == [who |-> who, done |-> FALSE, last |-> now,
               verb |-> IF verb # "" THEN verb ELSE IF old = {} THEN "working" ELSE (CHOOSE o \in old : TRUE).verb,
               t0 |-> IF \E o \in old : ~o.done THEN (CHOOSE o \in old : TRUE).t0 ELSE now]
  IN  IF old = {} THEN Append(slots, slot)
      ELSE [i \in 1..Len(slots) |-> IF slots[i].who = who THEN slot ELSE slots[i]]
Heartbeat(slots, who, now) ==
  IF \E i \in SlotsOf(slots, who) : ~slots[i].done
  THEN [i \in 1..Len(slots) |-> IF slots[i].who = who THEN [slots[i] EXCEPT !.last = now] ELSE slots[i]]
  ELSE Begin(slots, who, "thinking", now)
End(slots, who, now) ==
  [i \in 1..Len(slots) |->
     IF slots[i].who = who THEN [slots[i] EXCEPT !.done = TRUE, !.last = now] ELSE slots[i]]
\* pulse
Pulse(slots, kind, now) == Begin(slots, Persona(kind), kind, now)
\* get: what is done stays for 1.4 s, and not after 90 s of work; three are shown.
Held(slots, now) ==
  SelectSeq(slots, LAMBDA s : ~s.done \/ (now - s.last <= 14 /\ now - s.t0 <= 900))
Chips(slots, now) ==
  LET held == Held(slots, now)
  IN  [i \in 1..Min({3, Len(held)}) |->
         [who |-> held[i].who, verb |-> held[i].verb, for |-> (now - held[i].t0) \div 10,
          still |-> ~held[i].done /\ now - held[i].last >= 60]]

-----------------------------------------------------------------------------
(* webrtc_mix *)

\* SoundtrackGate, after the ends of passes in this order.
ClipLive(hasVideo, ended) ==
  ~\E i \in 1..Len(ended) : ended[i] = "video" \/ (ended[i] = "audio" /\ ~hasVideo)
(* apply_mix_frame: what goes out.  A frame of the clip goes out as it is, or
   not at all. *)
OutFrame(samples, speech, clipLive, s16) ==
  IF samples = 0 THEN "as it came"
  ELSE IF speech THEN "speech"
  ELSE IF clipLive /\ s16 THEN "as it came" ELSE "silence"
(* audio_frame_samples: of one channel, from an array of this shape. *)
SamplesOf(declared, channels, shape) ==
  LET size == FoldLeft(LAMBDA product, d : product * d, 1, shape)
  IN  IF declared > 0 THEN declared
      ELSE IF channels > 1 /\ size >= channels /\ size % channels = 0 THEN size \div channels
      ELSE IF Len(shape) = 1 THEN size
      ELSE IF shape[1] <= 8 THEN shape[2]
      ELSE IF shape[2] <= 8 THEN shape[1] ELSE shape[Len(shape)]
(* frame_to_mono: the mean of the channels at another rate. *)
MonoLength(samples, from, to) ==
  IF from = to THEN samples ELSE Max({1, (2 * samples * to + from) \div (2 * from)})
(* The silence track: 20 ms frames by a clock that a stall of more than 40 ms
   sets back.  clock.sent is in milliseconds. *)
Pace(clock, now) ==
  LET wait == clock.t0 + clock.sent - now
      reset == clock.begun /\ wait < -40
  IN  [t0 |-> IF ~clock.begun THEN now ELSE IF reset THEN now - clock.sent ELSE clock.t0,
       sent |-> clock.sent + 20, begun |-> TRUE,
       wait |-> IF ~clock.begun \/ reset THEN 0 ELSE Max({0, wait})]

-----------------------------------------------------------------------------
(* webrtc_consent: a round is [ok, at, heard]: whether the peer answered,
   when, and how long ago there was media, -1 where there never was any. *)

ShouldClose(failures, failedFor, mediaAge) ==
  failures >= 6 /\ failedFor >= 25 /\ (mediaAge = -1 \/ mediaAge > 15)
Round(state, r) ==
  IF state.closed THEN state
  ELSE IF r.ok THEN [failures |-> 0, first |-> -1, closed |-> FALSE]
  ELSE LET first == IF state.first = -1 THEN r.at ELSE state.first
       IN  [failures |-> state.failures + 1, first |-> first,
            closed |-> ShouldClose(state.failures + 1, r.at - first, r.heard)]
Consent(rounds) == FoldLeft(Round, [failures |-> 0, first |-> -1, closed |-> FALSE], rounds)
=============================================================================
