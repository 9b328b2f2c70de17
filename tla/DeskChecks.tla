------------------------------ MODULE DeskChecks ------------------------------
(***************************************************************************)
(* What the rules of the desk compute, over small arguments: each          *)
(* assumption is evaluated when a model of the desk is checked.            *)
(***************************************************************************)
EXTENDS DeskRules
LOCAL INSTANCE SequencesExt
LOCAL INSTANCE FiniteSetsExt

(* A reply of a steer and a monologue, each on a line or in the middle of one
   and in any order, is read as what it says; a partner's only where a line
   begins with a label (named_bots.py:395). *)
ASSUME BothAreRead ==
  \A prose, line, monoFirst \in BOOLEAN, steer, mono \in {"s", "m", "NONE"} :
    LET a == <<Steer, steer>>
        b == <<Mono, mono>>
        between == IF line THEN <<Nl>> ELSE <<>>
        reply == (IF prose THEN <<"p">> \o between ELSE <<>>)
                   \o (IF monoFirst THEN b \o between \o a ELSE a \o between \o b)
        read == Outcome(IF steer = "NONE" THEN <<>> ELSE <<steer>>, IF mono = "NONE" THEN <<>> ELSE <<mono>>)
    IN  /\ BishopReply(reply) = read
        /\ PartnerReply(reply) = IF prose /\ ~line THEN Nothing ELSE read

(* A label with nothing behind it takes the next line: an empty monologue
   before the steer speaks the steer, an empty steer before the monologue
   silences it.  At the end of the reply it is empty (named_bots.py:399). *)
ASSUME EmptyLabelTakesTheNext ==
  /\ BishopReply(<<Mono, Nl, Steer, "s">>) = Outcome(<<"s">>, <<"s">>)
  /\ BishopReply(<<Steer, Nl, Mono, "m">>) = Outcome(<<Mono, "m">>, <<>>)
  /\ BishopReply(<<Steer, "s", Nl, Mono>>) = Outcome(<<"s">>, <<>>)
  /\ BishopReply(<<Mono, "m", Nl, Steer>>) = Outcome(<<>>, <<"m">>)

(* A reply is never spoken that has no label; and it is the partner's only
   with one (primary_hermes.py:83). *)
ASSUME ProseIsNotSpoken ==
  \A raw \in UNION {[1..n -> {"p", Nl, Steer, Mono}] : n \in 0..5} :
    /\ BishopReply(raw).monologue # <<>> => \E i \in 1..Len(raw) : raw[i] = Mono
    /\ PartnerReply(raw) # Nothing => \E i \in 1..Len(raw) : raw[i] \in {Steer, Mono}
    /\ Nl \notin Range(BishopReply(raw).monologue)

(* An opening with a banned frame is asked for again once; what comes then is
   taken, and the first one where nothing comes: a frame can ship
   (named_bots.py:628). *)
ASSUME FrameShips ==
  \A first, retry \in {<<>>, <<"good">>, <<"banned">>} :
    LET taken == Invented(Outcome(<<>>, first), Outcome(<<>>, retry), {<<"banned">>})
    IN  /\ taken.monologue = <<"banned">> <=> first = <<"banned">> /\ retry # <<"good">>
        /\ taken.monologue = <<>> <=> first = <<>>

(* Every beat of an opening is spoken, the steer goes with the first only, and
   an outcome of nothing raises instead of a line of its own. *)
ASSUME SteerGoesFirst ==
  \A steer, mono \in {<<>>, <<"x">>} :
    LET said == Prompted(Outcome(steer, mono), <<<<"x">>, <<"y">>>>)
    IN  /\ (<<"raises">> \in Range(said)) = (steer = <<>> /\ mono = <<>>)
        /\ mono # <<>> => said = <<<<"say", <<"x">>, steer>>, <<"say", <<"y">>, <<>>>>>>

(* Every move the director picks and the desk makes is asked for by its name,
   before the form of the reply; a search is asked for only without a glance. *)
ASSUME MovesAreAsked ==
  \A move \in {"deepen", "thought", "kb", "world", "next", "open", "figure", "board"},
     glance, last, handoff \in BOOLEAN :
    LET parts == Prompt(move, glance, last, handoff)
    IN  /\ {"reply", move} \subseteq Range(parts) /\ Last(parts) = "reply"
        /\ ("search" \in Range(parts)) = (move = "world" /\ ~glance)
ASSUME CeilingHolds == \A set \in {-1, 0, 4095, 4096, 9000} : MaxTokens(set) >= 4096
ASSUME PictureOfTheCall ==
  \A camera, program \in {"", "a", "b"}, active \in BOOLEAN :
    Reference(camera, program, active) \in {"", camera} \cup (IF active THEN {program} ELSE {})
ASSUME SoulFromDisk == \A disk, template \in {"", "a", "b"} : (Soul(disk, template) = "") = (disk = "" /\ template = "")

-----------------------------------------------------------------------------
Words == {"options", "filing", "price", "candle", "volume", "range", "across", "heatmap",
          "returns", "versus", "market"}
Companies == {<<>>, <<"XOM">>, <<"XOM", "CVX">>}
(* A figure is planned only for companies that were named, none for options,
   and one that compares has at least two (market_session.py:72). *)
ASSUME PlansWhatWasNamed ==
  \A text \in {t \in SUBSET Words : Cardinality(t) <= 3}, names \in Companies, tickers \in {<<>>, <<"CVX", "SEC">>} :
    LET plan == PlanFigure(text, names, tickers)
    IN  /\ plan # NoPlan => names \o tickers # <<>> /\ "options" \notin text
        /\ Range(plan.tickers) \subseteq Range(names) \cup {"CVX", "SPY"}
        /\ plan.kind \in {"relative", "heatmap", "return_board"} => Len(plan.tickers) >= 2
        /\ plan.kind = "timeline" => "filing" \in text /\ text \cap Price = {}
(* The benchmark is in a comparison with the market, unless six companies are
   before it: the limit cuts it off (market_session.py:69). *)
ASSUME BenchmarkIsCut ==
  \A n \in 1..7 :
    LET names == SubSeq(<<"XOM", "CVX", "SLB", "HAL", "AAPL", "MSFT", "NVDA">>, 1, n)
        plan == PlanFigure({"market", "price"}, names, <<>>)
    IN  plan.kind = "relative" /\ ("SPY" \in Range(plan.tickers)) = (n < 6)
(* A turn that names other companies does not get its figure while a page of
   the same kind is live: only the kind is compared (market_session.py:218). *)
ASSUME OtherCompaniesStay ==
  \A a, b \in {PlanFigure({"price"}, names, <<>>) : names \in Companies} :
    a # NoPlan /\ b # NoPlan => ~Surfaced(b, TRUE, a.kind)
(* Work that only the answer spoke of is filed with a figure, and not without
   one (market_session.py:144). *)
ASSUME AnswersWork ==
  \A user, answer \in SUBSET {"workflow"}, plan \in {NoPlan, PlanFigure({"price"}, <<"XOM">>, <<>>)} :
    Filed(user, answer, plan) = (user # {} \/ (answer # {} /\ plan # NoPlan))
ASSUME FigureIsKept ==
  \A live \in BOOLEAN, current, requested \in {"", "kanban", "price"} :
    WouldCover(live, current, requested) = (live /\ current = "price" /\ requested = "kanban")

(* A consult says ok exactly if there is something to say, and never with a
   text of the service when it was not asked. *)
ASSUME ConsultAnswers ==
  \A question, token, content, reasoning \in {"", "x"}, failed \in BOOLEAN :
    LET out == Consult(question, token, [failed |-> failed, content |-> content, reasoning |-> reasoning])
    IN  /\ out.ok = (question # "" /\ token # "" /\ ~failed /\ (content # "" \/ reasoning # ""))
        /\ out.ok => out.text = "x"
        /\ Model(content, reasoning) # ""
(* The partner is never on the spoken model. *)
ASSUME PartnerIsConfigured == \A active, key \in BOOLEAN : Overlay(TRUE, active, key) = "configured"
=============================================================================
