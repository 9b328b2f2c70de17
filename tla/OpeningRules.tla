---------------------------- MODULE OpeningRules ----------------------------
(***************************************************************************)
(* What the first words of a call are made from: the briefs of the peers   *)
(* and the session of the agenda (context_pack, agenda_deck, agenda_put),  *)
(* what is recalled of earlier calls (recall), the gestures that are       *)
(* sampled (opening), and which spoken lines are thrown away (heard).      *)
(*                                                                         *)
(* A text is one of Said: absent, too short to use, a note of an error, or *)
(* a brief.  How likely a gesture is, is left out: the set of what may be  *)
(* sampled is modelled.  Ages are in minutes, -1 where unknown.            *)
(***************************************************************************)
EXTENDS Integers, Sequences, FiniteSets
LOCAL INSTANCE SequencesExt
LOCAL INSTANCE FiniteSetsExt

Said == {"", "short", "error", "brief"}
Unknown == -1

-----------------------------------------------------------------------------
(* context_pack *)

\* usable_spoken, and what opening calls usable.
UsableSpoken(text) == IF text = "brief" THEN text ELSE ""
Usable(text) == text \in {"error", "brief"}

StaleThoughts == 8 * 60
StaleAgenda == 36 * 60
Freshness(thoughtsAge, agendaAge, hasSpoken) ==
  IF ~hasSpoken THEN "empty"
  ELSE IF \/ thoughtsAge = Unknown
          \/ thoughtsAge > StaleThoughts
          \/ agendaAge > StaleAgenda
  THEN "stale" ELSE "fresh"

(* The briefs that the peers returned, newest first; a query that failed
   returned none. *)
SpokenOf(briefs) ==
  IF briefs = <<>> THEN ""
  ELSE UsableSpoken(IF briefs[1].spoken # "" THEN briefs[1].spoken ELSE briefs[1].written)
AgeOf(briefs) == IF briefs = <<>> THEN Unknown ELSE briefs[1].age

NoPack == [agenda |-> "", thoughts |-> "", title |-> "", item |-> "", id |-> "", owner |-> "",
           prompt |-> "", materials |-> "", workspace |-> "", note |-> "", failures |-> {}]
(* conversational_context, with the persistent failures. *)
Context(id, agenda, item, thoughts, failures) ==
  LET title == IF id # "" THEN item.title ELSE ""
      body == IF id = "" THEN "" ELSE IF item.body # "" THEN item.body ELSE item.summary
      hasSpoken == SpokenOf(agenda) # "" \/ SpokenOf(thoughts) # ""
      state == IF id # "" THEN "fresh" ELSE Freshness(AgeOf(thoughts), AgeOf(agenda), hasSpoken)
      note == IF id # "" THEN "meeting" ELSE state
  IN  [NoPack EXCEPT
         !.agenda = SpokenOf(agenda), !.thoughts = SpokenOf(thoughts),
         !.title = title, !.item = body, !.id = id, !.failures = failures,
         !.workspace = IF failures # {} THEN "failed" ELSE state,
         !.note = IF failures = {} THEN note
                  ELSE IF note \in {"fresh", "meeting"} THEN "failing" ELSE "stale and failing"]

\* The session that the agenda named, laid over the briefs.
WithSession(pack, session) ==
  LET Or(new, old) == IF new # "" THEN new ELSE old
  IN  [pack EXCEPT !.title = Or(session.title, @), !.item = Or(session.public, @),
                   !.owner = Or(session.origin, @), !.prompt = Or(session.prompt, @),
                   !.materials = Or(session.materials, @)]

\* pipeline_block, as the parts it has and their order.
Block(pack) ==
  LET meeting == \E t \in {pack.title, pack.item, pack.id, pack.prompt, pack.materials} : t # ""
      Part(name, holds) == IF holds THEN <<name>> ELSE <<>>
      failing == pack.failures # {} \/ pack.workspace = "failed"
  IN  Part("failures", failing)
        \o Part("freshness", ~failing /\ pack.workspace \in {"stale", "empty"})
        \o Part("meeting", meeting)
        \o Part("prompt", pack.prompt # "")
        \o Part("materials", pack.materials # "")
        \o Part("agenda", ~meeting /\ UsableSpoken(pack.agenda) # "")
        \o Part("thoughts", ~meeting /\ UsableSpoken(pack.thoughts) # "")

-----------------------------------------------------------------------------
(* opening *)

Facts(pack, returning) ==
  LET meeting == \E t \in {pack.title, pack.item, pack.id, pack.prompt} : t # ""
  IN  {"always"}
        \cup {t \in {"returning"} : returning}
        \cup {t \in {"has_thoughts"} : Usable(pack.thoughts)}
        \cup {t \in {"has_agenda"} : Usable(pack.agenda) \/ meeting}
        \cup {t \in {"has_meeting"} : meeting}
        \cup CASE pack.workspace = "failed" \/ pack.failures # {} -> {"failed"}
               [] pack.workspace = "fresh" -> {"has_fresh"}
               [] pack.workspace \in {"stale", "empty"} -> {pack.workspace}
               [] OTHER -> {}

\* The part of the day, at an hour of the listener's clock.
TimeOfDay(hour) ==
  CASE hour \in 5..11 -> "morning" [] hour \in 12..16 -> "afternoon"
    [] hour \in 17..21 -> "evening" [] OTHER -> "night"

(* Whether there was a call in the last 36 hours: by the first session that
   is not this one and has a time. *)
Returning(sessions, self, now) ==
  LET timed == SelectSeq(sessions, LAMBDA s : s.id # self /\ s.at > 0)
  IN  timed # <<>> /\ now - timed[1].at <= 36 * 60

(* opening_gestures.textproto *)
Gesture(id, lanes, when, says) == [id |-> id, lanes |-> lanes, when |-> when, says |-> says]
Both == {"open", "next"}
Catalog ==
  <<Gesture("greet_tod", {"open"}, {"always"}, "time"),
    Gesture("welcome_back", {"open"}, {"returning"}, "again"),
    Gesture("headline", {"open"}, {"has_meeting"}, "meeting"),
    Gesture("headline", Both, {"has_thoughts", "has_fresh"}, "thread"),
    Gesture("headline", {"open"}, {"has_zettel"}, "zettel"),
    Gesture("rundown", Both, {"stale"}, "stale"),
    Gesture("rundown", Both, {"empty"}, "quiet"),
    Gesture("whats_next", {"next"}, {"always"}, "upcoming"),
    Gesture("posture_if_needed", {"next"}, {"ops_ask"}, "posture"),
    Gesture("offer_floor", Both, {"always"}, "floor")>>
MinGestures == 1
MaxGestures == 3
PauseAfter == 1..3

Eligible(g, facts, lane) == lane \in g.lanes /\ g.when \ {"always"} \subseteq facts
Pool(facts, lane) == {g.id : g \in {h \in Range(Catalog) : Eligible(h, facts, lane)}}
PinHeadline(picked) ==
  LET rest == SelectSeq(picked, LAMBDA id : id # "headline")
  IN  IF rest # <<>> /\ rest[1] = "greet_tod"
      THEN <<"greet_tod", "headline">> \o Tail(rest) ELSE <<"headline">> \o rest
\* sample_sequence: what may be sampled.
Samples(facts, lane) ==
  LET pool == Pool(facts, lane)
      most == Min({MaxGestures, Max({1, Cardinality(pool)})})
      picks == {p \in UNION {[1..n -> pool] : n \in MinGestures..most} : IsInjective(p)}
      pinned == IF lane = "open" /\ facts \cap {"has_zettel", "has_meeting"} # {} /\ "headline" \in pool
                THEN {PinHeadline(p) : p \in picks} ELSE picks
  IN  pinned \cup {InsertAt(pk[1], pk[2] + 1, "pause") :
                     pk \in {q \in pinned \X PauseAfter : q[2] <= Len(q[1])}}
\* _instruction: a meeting before a zettel before what is in the catalogue first.
Instruction(id, facts) ==
  LET named == SelectSeq(Catalog, LAMBDA g : g.id = id)
      fits == SelectSeq(named, LAMBDA g : \E lane \in Both : Eligible(g, facts, lane))
      For(fact) == SelectSeq(fits, LAMBDA g : fact \in g.when)
      first == For("has_meeting") \o For("has_zettel") \o fits \o named
  IN  IF first = <<>> THEN id ELSE first[1].says

\* compose_opening and compose_next: the facts, and the parts of the glance.
OpeningFacts(pack, returning, zettel) ==
  Facts(pack, returning) \cup (IF zettel THEN {"has_zettel", "has_fresh"} ELSE {})
OpeningGlance(pack, zettel) == (IF zettel THEN <<"zettel">> ELSE <<>>) \o Block(pack)
(* bishop_handoff: the sequence, an instruction for each gesture, the glance. *)
Handoff(sequence, facts, glance) ==
  <<sequence, [i \in 1..Len(sequence) |->
                 IF sequence[i] = "pause" THEN "beat" ELSE Instruction(sequence[i], facts)]>>
    \o (IF glance = <<>> THEN <<>> ELSE <<glance>>)
\* greeting_facts: what the greeting knows besides the clock.
GreetingFacts(pack) ==
  LET all == <<<<"workspace_note", pack.workspace>>, <<"agenda_title", pack.title>>,
               <<"agenda_spoken", pack.agenda>>, <<"thoughts_spoken", pack.thoughts>>,
               <<"persistent_failures", IF pack.failures = {} THEN "" ELSE "named">>,
               <<"session_prompt", pack.prompt>>>>
      known == SelectSeq(all, LAMBDA k : k[2] # "")
  IN  [i \in 1..Len(known) |-> known[i][1]] \o <<"no weather">>
NextFacts(pack, returning, asksOps) ==
  Facts(pack, returning) \cup (IF asksOps THEN {"ops_ask"} ELSE {})

-----------------------------------------------------------------------------
(* agenda_deck.  The body of an item is a lede and the sections under its
   level-two headings, each [title, text]. *)

PromptTitles == {"session prompt", "agentrtc", "connect prompt"}
MaterialTitles == {"materials", "supporting materials"}
SplitBody(lede, sections) ==
  LET Latest(titles) == LET of == SelectSeq(sections, LAMBDA s : s.title \in titles)
                      IN  IF of = <<>> THEN "" ELSE of[Len(of)].text
  IN  [prompt |-> Latest(PromptTitles), materials |-> Latest(MaterialTitles), deck |-> Latest({"deck"}),
       public |-> <<[title |-> "", text |-> lede]>> \o SelectSeq(sections, LAMBDA s :
                    s.title \notin PromptTitles \cup MaterialTitles \cup {"deck"})]

\* _prefer_session: the first of those with the best score.
Score(row) == <<(IF row.prompt # "" THEN 4 ELSE 0), (IF row.materials # <<>> THEN 2 ELSE 0), row.size>>
Above(a, b) == \/ a[1] > b[1]
               \/ a[1] = b[1] /\ (a[2] > b[2] \/ (a[2] = b[2] /\ a[3] > b[3]))
Preferred(rows) ==
  rows[Min({i \in 1..Len(rows) : \A j \in 1..Len(rows) : ~Above(Score(rows[j]), Score(rows[i]))})]

(* _apply_resource_objects: a prompt and the materials replace, any other
   text is appended to the materials. *)
ApplyObjects(session, objects) ==
  FoldLeft(LAMBDA s, o :
             CASE o.text = "" -> s
               [] o.name \in {"prompt.md", "session_prompt.md"} -> [s EXCEPT !.prompt = o.text]
               [] o.name \in {"materials.md", "supporting.md"} -> [s EXCEPT !.materials = <<o.text>>]
               [] OTHER -> [s EXCEPT !.materials = Append(@, o.text)],
           session, objects)
(* _merge_origin_resources: the objects are those of the origin, in the order
   of their names; of this engine where the origin is not a peer. *)
Merged(session, peer, answer, here) ==
  IF session.origin = "" THEN session
  ELSE IF peer = "" THEN IF session.origin = "hermes" THEN ApplyObjects(session, here) ELSE session
  ELSE IF answer.ok THEN ApplyObjects(session, answer.objects)
  ELSE IF session.origin = "hermes" THEN ApplyObjects(session, here) ELSE session

(* load_agenda_session: of the peers that answered with the item, the one
   that is preferred, with what its origin has. *)
Loaded(id, answers, peer, answer, here) ==
  LET found == SelectSeq(answers, LAMBDA a : a.ok /\ a.has)
  IN  IF id = "" \/ found = <<>> THEN <<>>
      ELSE <<Merged(Preferred([i \in 1..Len(found) |-> found[i].session]), peer, answer, here)>>

\* narrative_at: the slide of n that the story is at; times are in seconds.
MeetingSeconds(starts, ends) ==
  IF starts # 0 /\ ends > starts THEN Max({45, ends - starts}) ELSE 30 * 60
SlideAt(n, seconds, elapsed) ==
  LET slides == Max({1, n})
  IN  IF 45 * slides >= seconds THEN Min({slides, elapsed \div 45 + 1})
      ELSE Min({slides, (elapsed * slides) \div seconds + 1})
\* narrative_checkin.
Checkin(live, material, seconds, elapsed) ==
  IF live = <<>> THEN "no session"
  ELSE IF material = <<>> THEN "no deck" ELSE SlideAt(Len(material), seconds, elapsed)

-----------------------------------------------------------------------------
(* agenda_put: the row is put, then what goes with it is stored, then the
   row is put again with the names of what was stored. *)

RoleOf(object) ==
  IF object.role # "" THEN object.role
  ELSE CASE object.name \in {"prompt.md", "session_prompt.md"} -> "prompt"
         [] object.name \in {"materials.md", "supporting.md"} -> "materials"
         [] OTHER -> "other"
(* stores is whether the store took each of what was wanted, or raised; pin
   is how the second put ended. *)
PutItem(title, target, first, wanted, stores, pin) ==
  LET out == [ok |-> FALSE, id |-> "", error |-> FALSE, stored |-> <<>>, pinned |-> <<>>,
              resourcesError |-> FALSE]
      raised == \E i \in 1..Len(wanted) : stores[i] = "raises"
      objects == SelectSeq([i \in 1..Len(wanted) |->
                   [name |-> wanted[i].name, role |-> RoleOf(wanted[i]), kept |-> stores[i] = "yes"]],
                   LAMBDA o : o.kept)
      put == [out EXCEPT !.ok = first.ok, !.id = first.id, !.error = ~first.ok]
  IN  IF title = "" \/ target = "" \/ first.fails THEN [out EXCEPT !.error = TRUE]
      ELSE IF first.id = "" \/ wanted = <<>> THEN put
      ELSE IF raised THEN [put EXCEPT !.resourcesError = TRUE]
      ELSE IF objects = <<>> THEN put
      ELSE [put EXCEPT !.stored = objects,
                       !.pinned = IF pin = "ok" THEN objects ELSE <<>>,
                       !.resourcesError = pin = "raises"]

-----------------------------------------------------------------------------
(* recall *)

HiddenSources == {"kanban", "subagent", "tool"}
\* The weight of a source, in hundredths.
SourceWeight(source) == CASE source = "agent-rtc" -> 180 [] source = "cron" -> 25 [] OTHER -> 100
(* A hit of n matches, aged so many hours, of this weight: its score is
   n * weight / (1 + age / 18).  Higher is without division. *)
Higher(a, b) ==
  LET left == a.n * a.weight * (18 + b.age)
      right == b.n * b.weight * (18 + a.age)
  IN  left > right \/ (left = right /\ a.age < b.age)
Hits(rows, self) ==
  {[sid |-> r.sid, n |-> Max({1, r.n}), age |-> r.age, weight |-> SourceWeight(r.source)] :
     r \in {s \in rows : s.sid \notin {"", self} /\ s.source \notin HiddenSources}}
\* _session_hits: the best hit of each session, the best of those first.
SessionHits(rows, self, limit) ==
  LET best == {h \in Hits(rows, self) : \A g \in Hits(rows, self) : g.sid = h.sid => ~Higher(g, h)}
      one == {CHOOSE h \in best : h.sid = s : s \in {h.sid : h \in best}}
      ranked == SetToSortSeq(one, Higher)
  IN  SubSeq(ranked, 1, Min({limit, Len(ranked)}))
\* _fresh_hits: the newest notes of the last minutes; none from the future.
FreshHits(notes, now, minutes, limit) ==
  LET new == {f \in notes : now - f.at \in 0..minutes}
      ranked == SetToSortSeq(new, LAMBDA a, b : a.at > b.at)
  IN  SubSeq(ranked, 1, Min({limit, Len(ranked)}))
\* The weight of a page of the wiki, in hundredths.
PageWeight(page) ==
  CASE page.stem \in {"log", "index", "schema"} -> 35 [] page.dir \in {"entities", "concepts"} -> 180
    [] page.dir = "raw" -> 70 [] OTHER -> 100
\* recall_pack: without a word to look for, only what is fresh.
RecallPack(words, fresh, conversations, citations) ==
  {t \in {"fresh"} : fresh # <<>>}
    \cup (IF words = {} THEN {}
          ELSE {t \in {"conversations"} : conversations # <<>>} \cup {t \in {"citations"} : citations # <<>>})
\* format_recall: the tiers in their order.
Recalled(pack) ==
  SelectSeq(<<"fresh", "conversations", "citations", "turns", "lattice">>, LAMBDA t : t \in pack)

-----------------------------------------------------------------------------
(* heard: a line is a sequence of words. *)

\* A line while the lookup runs: it is short, of no stock phrase, and of their words.
LineIsFresh(keys, line, stock) ==
  /\ line # <<>> /\ Len(line) <= 18
  /\ ~\E s \in stock : IsPrefix(s, line)
  /\ keys = {} \/ keys \cap Range(line) # {}
\* _heard_aside: what is said of two tries.
Aside(keys, stock, first, second) ==
  IF first # <<>> /\ LineIsFresh(keys, first, stock) THEN first
  ELSE IF first # <<>> /\ second # <<>> /\ LineIsFresh(keys, second, stock) THEN second ELSE <<>>
\* A long reply that begins as the one before did.
Repeats(previous, candidate, long, compared) ==
  /\ Len(previous) >= long /\ Len(candidate) >= long
  /\ LET n == Min({compared, Len(previous), Len(candidate)})
     IN  SubSeq(previous, 1, n) = SubSeq(candidate, 1, n)
=============================================================================
