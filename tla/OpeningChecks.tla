--------------------------- MODULE OpeningChecks ---------------------------
(***************************************************************************)
(* What the rules of an opening compute, over small arguments: each        *)
(* assumption is evaluated when a model of a call is checked.              *)
(***************************************************************************)
EXTENDS OpeningRules
LOCAL INSTANCE SequencesExt
LOCAL INSTANCE FiniteSetsExt

Briefs(ages) ==
  {<<>>} \cup {<<[spoken |-> s, written |-> w, age |-> a]>> :
                 <<s, w, a>> \in Said \X {"", "brief"} \X ages}
Items == {[title |-> "", body |-> "", summary |-> ""], [title |-> "t", body |-> "", summary |-> "s"]}
Failures == {{}, {"theta_cycle"}}
Sessions ==
  {[title |-> "", public |-> p, origin |-> "", prompt |-> q, materials |-> m] :
     <<p, q, m>> \in {"", "x"} \X {"", "x"} \X {"", "x"}}
Thoughts == Briefs({Unknown, 480, 481})
Agendas == Briefs({Unknown, 2161})
NoItem == [title |-> "", body |-> "", summary |-> ""]

(* A workspace is fresh only with a thought of the last eight hours: a brief
   of the agenda alone is stale, however new it is.  An error or a short note
   is never spoken of as a brief (context_pack). *)
ASSUME FreshIsFresh ==
  \A thoughts \in Thoughts, agenda \in Agendas :
    LET pack == Context("", agenda, NoItem, thoughts, {})
        fresh == thoughts # <<>> /\ AgeOf(thoughts) \in 0..480 /\ AgeOf(agenda) <= 2160
        spoken == SpokenOf(thoughts) = "brief" \/ SpokenOf(agenda) = "brief"
    IN  /\ (pack.workspace = "fresh") = (fresh /\ spoken)
        /\ (pack.workspace = "empty") = ~spoken
        /\ {pack.thoughts, pack.agenda} \subseteq {"", "brief"}
        /\ Usable(pack.thoughts) => UsableSpoken(pack.thoughts) # ""

(* Failures are named whatever else there is; a meeting is named before the
   briefs and instead of them; quiet is named exactly where the workspace is
   quiet, and never in a meeting (pipeline_block). *)
ASSUME BlockSaysWhatMatters ==
  \A thoughts \in Thoughts, agenda \in Agendas, id \in {"", "a"}, item \in Items,
     failures \in Failures, session \in Sessions :
    LET spoken == Context(id, agenda, item, thoughts, failures)
        pack == IF id = "" THEN spoken ELSE WithSession(spoken, session)
        parts == Range(Block(pack))
    IN  /\ ("failures" \in parts) = (failures # {})
        /\ ("meeting" \in parts) = (id # "")
        /\ id # "" => parts \cap {"agenda", "thoughts", "freshness"} = {}
        /\ failures = {} /\ id = "" => ("freshness" \in parts) = ("has_fresh" \notin Facts(pack, FALSE))
        /\ failures # {} => Head(Block(pack)) = "failures"

(* The packs an opening, or a turn that asks what is next, can have. *)
Packs ==
  {Context(id, agenda, item, thoughts, failures) :
     <<id, agenda, item, thoughts, failures>> \in
       {"", "a"} \X Agendas \X Items \X Thoughts \X Failures}
OpenFacts == {OpeningFacts(p, r, z) : <<p, r, z>> \in Packs \X BOOLEAN \X BOOLEAN}
NextAsked == {NextFacts(p, r, o) : <<p, r, o>> \in {q \in Packs : q.id = ""} \X BOOLEAN \X BOOLEAN}
Content(sequence) == SelectSeq(sequence, LAMBDA id : id # "pause")

(* What they pasted, or the meeting they joined, is in every opening, first
   or right after the greeting, and its instruction is the meeting's or the
   paste's and not a leftover thread's (_pin_headline). *)
ASSUME HeadlineIsPinned ==
  \A facts \in OpenFacts :
    facts \cap {"has_zettel", "has_meeting"} # {} =>
      /\ \A s \in Samples(facts, "open") :
           \E i \in {1, 2} : /\ Content(s)[i] = "headline"
                             /\ i = 2 => Content(s)[1] = "greet_tod"
      /\ Instruction("headline", facts) = IF "has_meeting" \in facts THEN "meeting" ELSE "zettel"

(* A sequence has one to three gestures, none of them twice, and at most one
   pause, which it does not begin with.  Pinning makes a fourth gesture of
   three that were sampled without it, though max_gestures is three. *)
ASSUME SequencesWellFormed ==
  \A lane \in Both : \A facts \in IF lane = "open" THEN OpenFacts ELSE NextAsked :
    LET pinned == lane = "open" /\ facts \cap {"has_zettel", "has_meeting"} # {}
    IN  /\ \A s \in Samples(facts, lane) :
             /\ IsInjective(s) /\ s[1] # "pause"
             /\ Len(Content(s)) \in 1..(MaxGestures + IF pinned THEN 1 ELSE 0)
        /\ (\E s \in Samples(facts, lane) : Len(Content(s)) > MaxGestures)
             = (pinned /\ Cardinality(Pool(facts, lane)) > MaxGestures)

(* Each gesture is instructed by an entry that may be used now: one of its
   own lane.  That it could be another lane's, and is not, depends on a turn
   that asks what is next never knowing of the meeting or the paste. *)
ASSUME InstructedInLane ==
  /\ \A facts \in OpenFacts : \A id \in Pool(facts, "open") :
       \E g \in Range(Catalog) : g.id = id /\ Eligible(g, facts, "open") /\ g.says = Instruction(id, facts)
  /\ \A facts \in NextAsked : \A id \in Pool(facts, "next") :
       \E g \in Range(Catalog) : g.id = id /\ Eligible(g, facts, "next") /\ g.says = Instruction(id, facts)
  /\ \E p \in Packs : LET facts == NextFacts(p, FALSE, FALSE) \cup {"has_fresh", "has_thoughts"}
                      IN  "headline" \in Pool(facts, "next") /\ Instruction("headline", facts) = "meeting"

(* Bishop is told what to do with every gesture of a sequence, and Ripley's
   greeting, which comes before, knows of a failure and of the meeting. *)
ASSUME HandedOff ==
  /\ \A facts \in OpenFacts : \A s \in Samples(facts, "open") :
       LET handoff == Handoff(s, facts, <<"meeting">>)
       IN  Len(handoff) = 3 /\ \A i \in 1..Len(s) : handoff[2][i] # s[i]
  /\ \A p \in Packs : /\ p.failures # {} => "persistent_failures" \in Range(GreetingFacts(p))
                      /\ p.title # "" => "agenda_title" \in Range(GreetingFacts(p))

\* Quiet is said where it is quiet, and nothing is said of a failure but in the glance.
ASSUME RundownIsForQuiet ==
  \A facts \in OpenFacts : /\ ("rundown" \in Pool(facts, "open")) = (facts \cap {"stale", "empty"} # {})
                           /\ ~\E g \in Range(Catalog) : "failed" \in g.when

(* The hours of a day have one part each, in their order. *)
ASSUME DayInOrder ==
  [h \in 0..23 |-> TimeOfDay((h + 5) % 24)] =
    [h \in 0..23 |-> CASE h < 7 -> "morning" [] h < 12 -> "afternoon" [] h < 17 -> "evening" [] OTHER -> "night"]
\* This call does not make its caller a returning one.
ASSUME OwnCallDoesNotCount ==
  \A a, b \in {0, 100, 2000} : LET rows == <<[id |-> "me", at |-> a], [id |-> "other", at |-> b]>>
                               IN  Returning(rows, "me", 2300) = (b = 2000)

-----------------------------------------------------------------------------
Section(t, x) == [title |-> t, text |-> x]
Bodies == UNION {[1..n -> {Section("deck", "d"), Section("session prompt", "p"),
                           Section("agentrtc", "q"), Section("notes", "n")}] : n \in 0..3}
(* No text of a body is in two parts, and no lede or unknown section is lost.
   A section of the deck that has a level-two heading of its own is not in the
   deck but in what is public, although the deck is said to be everything after
   its heading (agenda_deck.py:3); a second prompt hides the first. *)
ASSUME PartsOfABody ==
  \A sections \in Bodies :
    LET parts == SplitBody("lede", sections)
        Deck(i) == sections[i].title = "deck"
    IN  /\ Len(parts.public) = 1 + Cardinality({i \in DOMAIN sections : sections[i].title = "notes"})
        /\ (parts.deck = "d") = (\E i \in DOMAIN sections : Deck(i))
        /\ \A i, j \in DOMAIN sections : Deck(i) /\ i < j /\ sections[j].title = "notes" =>
             sections[j] \in Range(parts.public)

Object(n) == [name |-> n, text |-> n]
NoMaterial == [prompt |-> "", materials |-> <<>>, origin |-> "hermes"]
Names == {"brief.md", "materials.md", "prompt.md", "sketch.md"}
Listings == {<<Object("brief.md")>>, <<Object("materials.md")>>, <<Object("brief.md"), Object("materials.md")>>,
             <<Object("materials.md"), Object("sketch.md")>>,
             <<Object("brief.md"), Object("materials.md"), Object("prompt.md"), Object("sketch.md")>>}
(* What was stored for a session reaches the call, but for a document whose
   name is before materials.md: the list is in the order of names, and the
   materials replace what was appended (agenda_deck.py:210). *)
ASSUME MaterialsReach ==
  \A objects \in Listings, ok \in BOOLEAN, peer \in {"", "p"} :
    LET got == Merged(NoMaterial, peer, [ok |-> ok, objects |-> objects], objects)
        Kept(n) == n \in Range(got.materials) \/ n = got.prompt
        named == {o.name : o \in Range(objects)}
    IN  \A n \in named : Kept(n) = ~(n = "brief.md" /\ "materials.md" \in named)
\* An item that no peer has is no session, whatever its origin has stored.
ASSUME NothingLoaded ==
  \A ok, has \in BOOLEAN, id \in {"", "row"} :
    LET row == [prompt |-> "", materials |-> <<>>, origin |-> "hermes", size |-> 1]
        got == Loaded(id, <<[ok |-> ok, has |-> has, session |-> row]>>, "", [ok |-> FALSE, objects |-> <<>>],
                      <<Object("prompt.md")>>)
    IN  (got # <<>>) = (ok /\ has /\ id # "") /\ (got # <<>> => got[1].prompt = "prompt.md")
(* Where several peers have the item, one with a prompt is taken over one
   with materials, and that over the longer text. *)
ASSUME PromptFirst ==
  \A a, b \in [prompt : {"", "p"}, materials : {<<>>, <<"m">>}, size : 0..1, by : {"a", "b"}] :
    LET picked == Preferred(<<a, b>>)
    IN  /\ picked \in {a, b}
        /\ \E r \in {a, b} : r.prompt # "" => picked.prompt # ""
        /\ ~Above(Score(a), Score(picked)) /\ ~Above(Score(b), Score(picked))

(* The story moves forward, a slide at a time at least as long as a slide
   takes, and is at the last slide when the meeting ends unless a slide would
   have to be shorter than 45 s: then the rest is never reached in time. *)
ASSUME StoryMoves ==
  \A n \in 1..6, seconds \in {45, 100, 180, 240} :
    /\ SlideAt(n, seconds, 0) = 1
    /\ \A t \in 0..250 : SlideAt(n, seconds, t + 1) - SlideAt(n, seconds, t) \in 0..1
    /\ (SlideAt(n, seconds, seconds - 1) = n) = (45 * (n - 1) < seconds)
ASSUME MeetingsTakeTime == \A a, b \in {0, 10, 30, 100} : MeetingSeconds(a, b) >= 45
ASSUME CheckinAnswers == \A t \in 0..5 : Checkin(<<"s">>, <<"one">>, 1800, t) = 1

Want(n, r) == [name |-> n, role |-> r]
Wants == {<<>>, <<Want("prompt.md", "")>>, <<Want("prompt.md", ""), Want("plan.md", "brief")>>}
(* What is pinned on the row was stored, with a role; a row that the first
   put did not name gets nothing.  The answer is ok even where nothing was
   pinned, and where the store fails half way what it took is pinned to no
   row (agenda_put.py:100). *)
ASSUME PinnedWasStored ==
  \A wanted \in Wants, pin \in {"ok", "refused", "raises"} :
    \A stores \in [1..Len(wanted) -> {"yes", "no", "raises"}] :
      \A ok, fails \in BOOLEAN, id \in {"", "row"} :
        LET out == PutItem("t", "gaius", [ok |-> ok, fails |-> fails, id |-> id], wanted, stores, pin)
            took == {i \in DOMAIN wanted : stores[i] = "yes"}
        IN  /\ \A o \in Range(out.pinned) : \E i \in took : wanted[i].name = o.name /\ o.role # ""
            /\ out.pinned # <<>> => out.id = "row" /\ Len(out.pinned) = Cardinality(took)
            /\ out.ok = (ok /\ ~fails) /\ out.error = ~out.ok
            /\ out.resourcesError => out.pinned = <<>>

-----------------------------------------------------------------------------
Row(s, n, age, source) == [sid |-> s, n |-> n, age |-> age, source |-> source]
Found == {Row("me", 9, 0, "cli"), Row("a", 1, 0, "agent-rtc"), Row("a", 5, 200, "cli"),
          Row("b", 2, 20, "cli"), Row("b", 9, 0, "tool"), Row("c", 3, 0, "cron")}
(* Each earlier session is recalled once, by its best row; this call and the
   hidden sources never are; none that is left out is better than one that is
   recalled. *)
ASSUME RecallRanks ==
  \A rows \in SUBSET Found : \A limit \in 1..3 :
    LET got == SessionHits(rows, "me", limit)
        hits == Hits(rows, "me")
        sids == {h.sid : h \in hits}
    IN  /\ IsInjective([i \in 1..Len(got) |-> got[i].sid])
        /\ {got[i].sid : i \in 1..Len(got)} \subseteq sids \ {"me"}
        /\ Len(got) = Min({limit, Cardinality(sids)})
        /\ \A h \in hits : \A i \in 1..Len(got) :
             Higher(h, got[i]) => \E j \in 1..i : got[j].sid = h.sid
(* A note is fresh for the minutes given; one with a time to come is not. *)
ASSUME FreshIsNew ==
  \A notes \in SUBSET {[name |-> "x", at |-> 90], [name |-> "y", at |-> 95], [name |-> "z", at |-> 101]} :
    \A limit \in {1, 2} :
      LET got == FreshHits(notes, 100, 7, limit)
      IN  got = (IF \E f \in notes : f.name = "y" THEN <<[name |-> "y", at |-> 95]>> ELSE <<>>)
ASSUME PagesWeighed == \A s \in {"log", "page"}, d \in {"entities", "raw", ""} : PageWeight([stem |-> s, dir |-> d]) > 0
\* A question of stop words alone recalls only what was just filed.
ASSUME NoWordsNoRecall ==
  \A words \in {{}, {"ocean"}} :
    Recalled(RecallPack(words, <<1>>, <<1>>, <<1>>)) =
      IF words = {} THEN <<"fresh">> ELSE <<"fresh", "conversations", "citations">>
ASSUME TiersInOrder ==
  \A p \in SUBSET {"fresh", "conversations", "lattice"} :
    "lattice" \in p => LET tiers == Recalled(p) IN tiers[Len(tiers)] = "lattice"

Lines == {<<>>, <<"ok">>, <<"ok", "mail">>, <<"the", "mail">>, <<"some", "day">>}
(* Nothing is said while the lookup runs that any request could have got: not
   at the first try and not at the second. *)
ASSUME AsideIsAboutThem ==
  \A first, second \in Lines, keys \in {{}, {"mail"}} :
    LET said == Aside(keys, {<<"ok">>}, first, second)
    IN  said # <<>> => /\ Head(said) # "ok" /\ (keys # {} => "mail" \in Range(said))
                       /\ said \in {first, second}
(* A reply that goes on after what was compared counts as the one before. *)
ASSUME RepeatsAsPrefix ==
  \A a, b \in UNION {[1..n -> {"x", "y"}] : n \in 0..4} :
    Repeats(a, b, 2, 3) = (Len(a) >= 2 /\ Len(b) >= 2 /\
                             \A i \in 1..Min({3, Len(a), Len(b)}) : a[i] = b[i])
=============================================================================
