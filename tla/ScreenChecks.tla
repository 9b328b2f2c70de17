---------------------------- MODULE ScreenChecks ----------------------------
(***************************************************************************)
(* What the rules of the screen compute, over small arguments: each        *)
(* assumption is evaluated when a model of the picture is checked.         *)
(***************************************************************************)
EXTENDS ScreenRules
LOCAL INSTANCE SequencesExt
LOCAL INSTANCE FiniteSetsExt

(* While a line plays its words only come, one at least from the first sample
   on, and all are there when the last sample that was queued is played and
   the line is finished, even if the estimate was longer (revealed_words). *)
ASSUME WordsCome ==
  \A n \in 1..5, estimate \in {3, 8}, total \in 1..8 :
    LET During(p) == [played |-> p, queued |-> total, closed |-> FALSE]
        After(p) == [During(p) EXCEPT !.closed = TRUE]
        boards == FoldLeft(LAMBDA b, p : Look(b, During(p), estimate), SetAgent(NewBoard, n),
                           [p \in 1..total |-> p])
    IN  /\ \A p \in 1..total : /\ Revealed(n, During(p - 1), estimate) <= Revealed(n, During(p), estimate)
                               /\ Revealed(n, During(p), estimate) \in 1..n
                               /\ Revealed(n, During(p), estimate) <= Revealed(n, After(p), estimate)
        /\ Dialog(Look(boards, After(total), estimate), 0) = <<<<"agent", n>>>>
        /\ (Revealed(n, After(total - 1), estimate) = n) = (((total - 1) * n) \div total = n - 1 /\ total > 1)

(* A new line shows no word before it is heard, unless a frame is drawn after
   the words are set and before the count of samples is: that frame counts
   the last line as this one, and what it showed stays (webrtc_session.py:437). *)
ASSUME NotBeforeItIsHeard ==
  \A n, played \in 1..4, between \in BOOLEAN :
    LET old == [played |-> played, queued |-> 4, closed |-> TRUE]
        set == SetAgent(SetAgent(NewBoard, 3), n)
        drawn == IF between THEN Look(set, old, 8) ELSE set
        new == Look(drawn, LineBegun, 8)
    IN  /\ (Dialog(new, 0) = <<>>) = ~between
        /\ between /\ played = 4 => new.shown = n

\* The words of the room go after four seconds, those of the agent stay.
ASSUME RoomGoes ==
  \A now \in {0, 40, 41} :
    Dialog([SetRoom(SetAgent(NewBoard, 2), "said", 0) EXCEPT !.shown = 1], now) =
      IF now <= 40 THEN <<<<"agent", 1>>, <<"room", "said">>>> ELSE <<<<"agent", 1>>>>

(* Lines keep the words in their order, cross the budget only with a word that
   is itself too wide, and are filled; with a limit the last ones are kept. *)
ASSUME WrapsAllWords ==
  \A widths \in UNION {[1..n -> {1, 3, 7}] : n \in 0..4}, most \in {0, 2} :
    LET lines == Wrapped(widths, 5, most)
        flat == FoldLeft(LAMBDA all, l : all \o l, <<>>, lines)
    IN  /\ IsSuffix(flat, widths)
        /\ most = 0 => flat = widths
        /\ \A i \in 1..Len(lines) : LineWidth(lines[i]) <= 5 \/ Len(lines[i]) = 1
        /\ \A i \in 1..(Len(lines) - 1) : LineWidth(Append(lines[i], lines[i + 1][1])) > 5
        /\ most > 0 => Len(lines) <= most

(* The dialog stays inside its frame and out of the two bars at the top, in
   every picture of 160 lines or more that is not wider than 3 to 1. *)
ASSUME DialogInFrame ==
  \A width \in {40 * k : k \in 4..48}, height \in {40 * k : k \in 4..27} :
    LET band == Band(width, height)
    IN  width <= 3 * height =>
          /\ band.top >= 56
          /\ band.first + (band.fit - 1) * band.line + band.size <= height

(* A frame never shows an older picture than the program had when the frame
   was asked for, nor other words or chips than those of the frame: whatever
   changed while earlier frames were painted (stamp_frame). *)
Frames == {f \in [seen : 0..2, image : 0..2, size : {"small", "large"}, text : {"", "a"}] : f.seen <= f.image}
ASSUME NeverStale ==
  \A a, b, c \in Frames :
    a.image <= b.seen /\ b.image <= c.seen =>
      LET Take(cache, f) == Stamp(cache, TRUE, f.seen, f.image, f.size, f.text, "")
          last == Take(Take(Take(NoCache, a), b), c)
      IN  /\ last.rgb[1] \in c.seen..c.image
          /\ <<last.rgb[2], last.rgb[3]>> = <<c.size, c.text>>
          /\ b.image = c.seen /\ c.image = c.seen /\ b.size = c.size /\ b.seen = c.seen =>
               last.rgb[1] = Take(Take(NoCache, a), b).rgb[1]
ASSUME NothingToStamp == \A t, c \in {"", "x"} : (t \o c = "") = ~StampNeeded(t, c, FALSE)

-----------------------------------------------------------------------------
Ops == [op : {"begin", "beat", "end"}, who : {"ripley", "bishop"}]
Do(slots, op, now) ==
  CASE op.op = "begin" -> Begin(slots, op.who, "fmp", now)
    [] op.op = "beat" -> Heartbeat(slots, op.who, now)
    [] op.op = "end" -> End(slots, op.who, now)
After(ops, step) == FoldLeft(LAMBDA s, i : Do(Held(s, i * step), ops[i], i * step), <<>>, [i \in 1..Len(ops) |-> i])
(* Who was begun or beat and not ended since has a chip, however long it
   takes; who was ended has none 1.5 s later.  A beat that comes after the end
   gives a chip that nothing takes away (webrtc_activity.py:124). *)
ASSUME ChipsOfThoseAtWork ==
  \A ops \in UNION {[1..n -> Ops] : n \in 1..4}, step \in {1, 20} :
    LET now == Len(ops) * step
        Of(who) == {i \in DOMAIN ops : ops[i].who = who}
        Working(who) == Of(who) # {} /\ ops[Max(Of(who))].op # "end"
        Shown(t) == {Chips(After(ops, step), t)[i].who : i \in DOMAIN Chips(After(ops, step), t)}
    IN  /\ Shown(now + 15 + 20) = {who \in {"ripley", "bishop"} : Working(who)}
        /\ {who \in {"ripley", "bishop"} : Working(who)} \subseteq Shown(now)
(* The clock of a chip counts from when its persona took up the work, through
   what it does next; after 6 s without a sign of life it says so. *)
ASSUME ClockCounts ==
  \A beat \in BOOLEAN :
    LET slots == Pulse(Pulse(<<>>, "kb_search", 0), "fmp", 30)
        alive == IF beat THEN Heartbeat(slots, "ripley", 80) ELSE slots
    IN  Chips(alive, 90) = <<[who |-> "ripley", verb |-> "fmp", for |-> 9, still |-> ~beat]>>
(* Three chips are shown: the fourth at work has none until one before it has
   been away for 1.4 s. *)
ASSUME FourthIsHidden ==
  \A ended \in {"", "bishop"}, now \in {10, 25} :
    LET four == FoldLeft(LAMBDA s, w : Begin(s, w, "w", 0), <<>>, <<"bishop", "vasquez", "hicks", "ripley">>)
        slots == IF ended = "" THEN four ELSE End(four, ended, 10)
        shown == {Chips(slots, now)[i].who : i \in 1..Len(Chips(slots, now))}
    IN  ("ripley" \in shown) = (ended = "bishop" /\ now = 25)

-----------------------------------------------------------------------------
(* A frame that is not the speech is the clip's own only before its first end,
   and never of a format that the encoder refuses. *)
ASSUME ClipUntilFirstEnd ==
  \A speech, s16, video \in BOOLEAN, ended \in UNION {[1..n -> {"audio", "video"}] : n \in 0..2} :
    LET out == OutFrame(960, speech, ClipLive(video, ended), s16)
    IN  /\ out = "as it came" => ~speech /\ s16 /\ (~video => ended = <<>>)
        /\ video /\ "video" \notin Range(ended) /\ s16 /\ ~speech => out = "as it came"
(* A packed frame of two channels is as long as a planar one. *)
ASSUME StereoIsNotTwice ==
  \A n \in {10, 960} :
    /\ SamplesOf(0, 2, <<1, 2 * n>>) = n /\ SamplesOf(0, 2, <<2, n>>) = n /\ SamplesOf(0, 0, <<n, 2>>) = n
    /\ MonoLength(SamplesOf(n, 2, <<1, 2 * n>>), 48000, 16000) = n \div 3 + (IF n % 3 = 2 THEN 1 ELSE 0)
(* A loop that stalled for any time sends at most three frames at once before
   it keeps the beat again: what it owes is not sent as a burst. *)
ASSUME NoBurst ==
  \A stall \in 0..200 :
    LET begun == Pace([t0 |-> 0, sent |-> 0, begun |-> FALSE, wait |-> 0], 0)
        Next(c, now) == Pace(c, now)
        late == Next(begun, 20 + stall)
        then == Next(late, 20 + stall)
        later == Next(then, 20 + stall)
        last == Next(later, 20 + stall)
    IN  /\ late.wait = 0 /\ last.wait > 0
        /\ stall > 40 => then.wait = 20

(* A call is let go only after six rounds in a row without an answer over 25 s,
   and without media in the last 15 s; media that is older does not keep it
   beyond the eighth round. *)
ASSUME LetGoLate ==
  \A lost \in 0..9, heard \in {-1, 3, 15, 16}, every \in 4..6 :
    LET rounds == [i \in 1..(lost + 1) |-> [ok |-> i = 1, at |-> i * every, heard |-> heard]]
        state == Consent(rounds)
    IN  /\ state.closed = (heard \in {-1, 16} /\ lost >= 6 /\ (lost - 1) * every >= 25)
        /\ heard \in {-1, 16} /\ lost >= 8 => state.closed
(* One answer starts the count and its 25 s anew: of eight rounds, one of them
   answered, the call is let go where six without an answer come together. *)
ASSUME AnswerResets ==
  \A k \in 1..8 :
    LET rounds == [i \in 1..8 |-> [ok |-> i = k, at |-> i * 5, heard |-> -1]]
    IN  Consent(rounds).closed = (k - 1 >= 6 \/ 8 - k >= 6)
=============================================================================
