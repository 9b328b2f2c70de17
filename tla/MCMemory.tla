------------------------------- MODULE MCMemory -------------------------------
(***************************************************************************)
(* A call with two things to say: turns with a database or a stream that   *)
(* fails, answers to what was said, and two sessions at the memory manager.*)
(***************************************************************************)
EXTENDS CallMemory, ApertureRules, OpeningChecks, TLC

CONSTANTS x, y, u1, u2

MCWidth == (x :> 1) @@ (y :> 2)
MCScenes ==
  {[speaks |-> {"turn"}, faults |-> {"db"}],
   [speaks |-> {"turn"}, faults |-> {"rpc"}],
   [speaks |-> {"turn", "answers"}, faults |-> {}],
   [speaks |-> {"memory"}, faults |-> {}]}
MCOpening == {[speaks |-> {"turn", "opening"}, faults |-> {}]}
MCAnswers == {[speaks |-> {"turn", "answers"}, faults |-> {}]}
MCSessions == {[speaks |-> {"memory"}, faults |-> {}]}
-----------------------------------------------------------------------------
(* What the rules of an admission compute, over small arguments *)

Pt(i, up, code, label) == [iri |-> i, frag |-> i, code |-> code, label |-> label, broader |-> up]
\* Up to three points, each below one that comes before it, or below none.
Ontologies ==
  {<<>>} \cup {<<Pt("p", "goal", "1", "One")>>} \cup
  {<<Pt("p", "goal", "1", "One"), Pt("q", uq, "2", "Two"), Pt("r", ur, "r3", "One")>> :
     <<uq, ur>> \in {"goal", "p", "absent"} \X {"goal", "p", "q"}}
Raws == {[iri |-> i, frag |-> i] : i \in {"", "p", "q", "r", "1", "One", "unknown"}}

(* A point is of the genus it rolls up to: it is in the subtree of its genus,
   and in that of no other genus (sdg_iris). *)
ASSUME OneGenus ==
  \A points \in Ontologies :
    LET Genus(i) == \A k \in 1..Len(points) : points[k].broader # points[i].iri =>
                      points[i].broader \notin IrisOf(points)
        Raw(p) == [iri |-> p.iri, frag |-> p.frag]
        Roots == {i \in 1..Len(points) : points[i].broader \notin IrisOf(points)}
    IN  \A i \in 1..Len(points) :
          \A g \in Roots :
            (points[i].iri \in IrisOf(Subtree(Raw(points[g]), points)))
              = (GenusOf(Raw(points[i]), points) = <<points[g]>>)

(* What the model says becomes one of the points that were offered, or
   nothing; where none was offered it may become any point, which the comment
   does not say (sdg_iris.py:73). *)
ASSUME OfferedOnly ==
  \A points \in Ontologies, raw \in Raws, g \in Raws :
    LET offered == Subtree(g, points)
        iri == Resolve(raw, offered, points)
    IN  /\ iri # "" => iri \in IrisOf(IF offered = <<>> THEN points ELSE offered)
        /\ raw.iri \in IrisOf(offered) \ {""} => iri = raw.iri

(* The links of the messages of a call, put back at where the messages are,
   are what was admitted, no more and no less: no character of an admission
   is lost at a boundary or linked twice (sdg_aperture). *)
ASSUME LinksCover ==
  \A cuts \in {<<0, a, b, 6>> : <<a, b>> \in (0..6) \X (0..6)}, from, to \in 0..6 :
    cuts[2] <= cuts[3] =>
      LET admitted == [start |-> from, end |-> to, genus |-> "g", label |-> "l"]
          LinkIn(i) == LinkOf(cuts[i], cuts[i + 1] - cuts[i], admitted)
          Placed(i) == IF LinkIn(i) = <<>> THEN {}
                       ELSE {cuts[i] + k : k \in LinkIn(i)[1].start..(LinkIn(i)[1].end - 1)}
      IN  /\ UNION {Placed(i) : i \in 1..3} = from..(to - 1)
          /\ \A i, j \in 1..3 : i # j => Placed(i) \cap Placed(j) = {}
          /\ \A i \in 1..3 : LinkIn(i) # <<>> =>
               Len(Slice([k \in 1..(cuts[i + 1] - cuts[i]) |-> k], LinkIn(i)[1]))
                 = LinkIn(i)[1].end - LinkIn(i)[1].start

Deliveries == [iri : {"", "p", "q"}, offered : SUBSET {"p"},
               assigned : {<<>>, <<[label |-> "L", text |-> "t"]>>, <<[label |-> "", text |-> "t"]>>}]
(* A term reaches the next prompt only of what was offered, or of a genus
   that nobody was asked about; what was declined never does, even where the
   answer assigned sequences inside it (sdg_session). *)
ASSUME DeclinedIsSilent ==
  \A delivered \in Deliveries, answered \in BOOLEAN :
    LET link == [start |-> 0, end |-> 1, genus |-> "g", label |-> "G"]
        row == Applied(<<>>, link, answered, delivered)[1]
        terms == GroundedTerms(<<<<row>>>>)
    IN  /\ terms # <<>> => ~answered \/ delivered.iri # ""
        /\ answered /\ delivered.offered = {"p"} /\ delivered.iri = "q" => terms = <<>>
        /\ WithGrounded("prompt", <<<<row, row, row, row, row, row, row, row, row>>>>)
             \in {<<"prompt">>} \cup {<<"prompt", ts>> : ts \in {[k \in 1..8 |-> term] :
                    term \in [label : {"G", "L"}, text : {"piece", "t"}]}}

(* Every word of a text of up to 42 words is asked about.  From then on the
   limit cuts the long sequences, and with them the last words where they are
   fewer than four; from 73 on the rest of the text (system_one.py:36). *)
ASSUME WordsCovered ==
  \A n \in 0..90 :
    LET asked == WordSequences(n, 12)
        Covered == UNION {asked[i][1]..asked[i][2] : i \in 1..Len(asked)}
    IN  /\ Len(asked) <= 12
        /\ \A i \in 1..Len(asked) : asked[i][1] \in 1..n /\ asked[i][2] <= n
        /\ (1..n \subseteq Covered) = (n <= 42 \/ (n <= 72 /\ n % 6 \notin 1..3))

(* An answer is kept with the sequence it is about when the service answers
   all questions in their order; an answer that is left out moves those that
   follow to the sequences of others (system_one.py:123). *)
ASSUME AnswersInOrder ==
  \A yes \in SUBSET {1, 2, 3}, missing \in {0, 1, 2, 3} :
    LET points == <<Pt("p", "goal", "1", "One")>>
        Answer(i) == [about |-> i, choice |-> IF i \in yes THEN "p" ELSE "none", confidence |-> 60]
        replies == SelectSeq(<<Answer(1), Answer(2), Answer(3)>>, LAMBDA a : a.about # missing)
        kept == Kept(replies, <<1, 2, 3>>, points, 55)
    IN  /\ "p" \in Criteria(points)
        /\ {k \in yes \ {missing} : k < missing \/ missing = 0} \subseteq {kept[i][2] : i \in 1..Len(kept)}
        /\ (\A i \in 1..Len(kept) : kept[i][1].about = kept[i][2])
             = (\A k \in yes : missing = 0 \/ k <= missing)
=============================================================================
