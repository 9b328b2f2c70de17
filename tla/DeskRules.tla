------------------------------- MODULE DeskRules -------------------------------
(***************************************************************************)
(* How the named bots are asked and how their replies are read             *)
(* (named_bots, primary_hermes), which figure a turn supports              *)
(* (market_session), and what a consult answers (grok_consult).            *)
(*                                                                         *)
(* A reply is a sequence of tokens: the two labels, line ends, and pieces  *)
(* of text.  A piece is long enough to be kept, or the word NONE.          *)
(***************************************************************************)
EXTENDS Integers, Sequences, FiniteSets
LOCAL INSTANCE SequencesExt
LOCAL INSTANCE FiniteSetsExt

Steer == "STEER:"
Mono == "MONOLOGUE:"
Nl == "nl"

Blank(raw, i, j) == \A k \in i..j : raw[k] = Nl
(* A label gets a line of its own, and the space around it goes: before it and
   after it. *)
OnLine(raw, label) ==
  LET Beside(i) == \/ \E j \in (i + 1)..Len(raw) : raw[j] = label /\ Blank(raw, i, j - 1)
                   \/ \E j \in 1..(i - 1) : raw[j] = label /\ Blank(raw, j + 1, i)
  IN  FlattenSeq([i \in 1..Len(raw) |->
        IF raw[i] = label THEN <<Nl, label>>
        ELSE IF raw[i] = Nl /\ Beside(i) THEN <<>> ELSE <<raw[i]>>])

\* _STEER_LINE and _MONO_LINE: the first label at the start of a line ...
LineAt(raw, label) == {i \in 1..Len(raw) : raw[i] = label /\ (i = 1 \/ raw[i - 1] = Nl)}
(* ... and the rest of its line; of the next line that is not blank, where
   there is no rest. *)
Body(raw, label) ==
  IF LineAt(raw, label) = {} THEN <<>>
  ELSE LET at == Min(LineAt(raw, label))
           first == {i \in (at + 1)..Len(raw) : raw[i] # Nl}
           from == IF first = {} THEN Len(raw) + 1 ELSE Min(first)
           ends == {i \in from..Len(raw) : raw[i] = Nl}
       IN  SubSeq(raw, from, (IF ends = {} THEN Len(raw) + 1 ELSE Min(ends)) - 1)

\* strip_steer and _clean_field: one label STEER goes, and so does NONE.
Stripped(text) == IF text # <<>> /\ Head(text) = Steer THEN Tail(text) ELSE text
Clean(text) == IF Stripped(text) \in {<<>>, <<"NONE">>} THEN <<>> ELSE Stripped(text)

Outcome(steer, monologue) == [steer |-> steer, monologue |-> monologue]
Nothing == Outcome(<<>>, <<>>)
BishopReply(raw) ==
  LET text == OnLine(OnLine(raw, Mono), Steer)
  IN  IF LineAt(text, Steer) \cup LineAt(text, Mono) # {}
      THEN Outcome(Clean(Body(text, Steer)), Clean(Body(text, Mono)))
      ELSE Outcome(Clean(SelectSeq(raw, LAMBDA token : token # Nl)), <<>>)
(* parse_partner_reply: a label that is not at the start of a line does not
   make a reply of it. *)
PartnerReply(raw) ==
  IF LineAt(raw, Steer) \cup LineAt(raw, Mono) = {} THEN Nothing ELSE BishopReply(raw)

(* bishop_run, for the opening: a monologue with a banned frame is asked for
   once more. *)
Invented(first, retry, banned) ==
  IF first.monologue \notin banned THEN first
  ELSE IF retry.monologue # <<>> THEN retry ELSE first
\* ripley_opening_prompts, for each beat of the monologue; only the first has the steer.
Prompted(outcome, beats) ==
  LET chunks == IF outcome.monologue = <<>> THEN <<<<>>>> ELSE beats
      steer(i) == IF i = 1 THEN outcome.steer ELSE <<>>
  IN  [i \in 1..Len(chunks) |->
         IF chunks[i] # <<>> THEN <<"say", chunks[i], steer(i)>>
         ELSE IF steer(i) # <<>> THEN <<"speak first", steer(i)>> ELSE <<"raises">>]

\* load_soul: what is on disk, else the template, else nothing.
Soul(onDisk, template) == IF onDisk # "" THEN onDisk ELSE template
\* bishop_max_tokens
MaxTokens(set) == IF set >= 4096 THEN set ELSE 32768
\* bishop_prompt: its parts, in their order.
Prompt(move, glance, last, handoff) ==
  LET own == {"next", "open", "thought", "kb", "figure", "board"}
      instruction == IF move \in own THEN <<move>>
                     ELSE IF move = "world" THEN <<"world", IF glance THEN "use the glance" ELSE "search">>
                     ELSE <<"deepen">>
  IN  (IF last THEN <<"previous">> ELSE <<>>) \o (IF glance THEN <<"glance">> ELSE <<>>)
        \o (IF handoff THEN <<"handoff">> ELSE <<>>) \o instruction \o <<"reply">>
(* reference_jpeg: the camera of the live call, else the program's picture
   while it is active.  "" is none. *)
Reference(camera, program, active) ==
  IF camera # "" THEN camera ELSE IF active THEN program ELSE ""

-----------------------------------------------------------------------------
(* market_session.  A text is the set of words it is looked through for;
   names are the symbols its companies stand for, tickers those it spells,
   both in their order. *)

TickersIn(text, names, tickers) ==
  LET Add(found, t) == IF t \in Range(found) THEN found ELSE Append(found, t)
      found == FoldLeft(Add, names, SelectSeq(tickers, LAMBDA t : t \notin {"USD", "SEC", "OK"}))
      all == IF "market" \in text /\ found # <<>> THEN Add(found, "SPY") ELSE found
  IN  SubSeq(all, 1, Min({6, Len(all)}))

Price == {"price", "volume", "returns", "candle", "versus", "market"}
NoPlan == [kind |-> "", tickers |-> <<>>]
\* The first of these words that the text has; two of them need two companies.
KindOf(text, many) ==
  LET ranked == SelectSeq(<<"candle", "volume", "range", "across", "heatmap", "returns", "versus", "market">>,
                          LAMBDA w : w \in text /\ (w \in {"across", "heatmap"} => many))
  IN  IF ranked = <<>> THEN "price_structure"
      ELSE CASE Head(ranked) = "across" -> "return_board"
             [] Head(ranked) \in {"versus", "market"} -> "relative"
             [] OTHER -> Head(ranked)
PlanFigure(text, names, tickers) ==
  LET found == TickersIn(text, names, tickers)
      kind == KindOf(text, Len(found) >= 2)
      alone == kind = "relative" /\ Len(found) < 2 /\ "SPY" \notin Range(found)
  IN  IF "options" \in text \/ found = <<>> THEN NoPlan
      ELSE IF text \cap Price = {}
           THEN IF "filing" \in text THEN [kind |-> "timeline", tickers |-> found] ELSE NoPlan
           ELSE [kind |-> kind, tickers |-> IF alone THEN Append(found, "SPY") ELSE found]
\* desk_for_turn, before the bishop: what is filed is decided from both texts.
Filed(user, assistant, plan) ==
  "workflow" \in user \cup assistant /\ (plan # NoPlan \/ "workflow" \in user)
\* surface_for_turn: not again while a page of the kind is live.
Surfaced(plan, live, liveKind) == plan # NoPlan /\ ~(live /\ liveKind = plan.kind)
\* kanban_would_cover_figure
WouldCover(live, current, requested) ==
  requested = "kanban" /\ live /\ current \notin {"", "kanban"}

-----------------------------------------------------------------------------
(* grok_consult: configured_model, and consult with what the service replied. *)

Model(hermes, ours) == IF hermes # "" THEN hermes ELSE IF ours # "" THEN ours ELSE "grok-4.6"
Consult(question, token, reply) ==
  IF question = "" THEN [ok |-> FALSE, text |-> "question required"]
  ELSE IF token = "" THEN [ok |-> FALSE, text |-> "no bearer"]
  ELSE IF reply.failed THEN [ok |-> FALSE, text |-> "failed"]
  ELSE LET text == IF reply.content # "" THEN reply.content ELSE reply.reasoning
       IN  [ok |-> text # "", text |-> text]
\* overlay_runtime: the spoken model, except for the partner.
Overlay(partner, interactive, key) == IF ~partner /\ interactive /\ key THEN "cerebras" ELSE "configured"
=============================================================================
