---------------------------- MODULE ApertureRules ----------------------------
(***************************************************************************)
(* What an admission of the SDG engine becomes (sdg_aperture, sdg_session, *)
(* sdg_iris, system_one): the part of a message it links, the points of    *)
(* the ontology that may be assigned to it, the word sequences that are    *)
(* asked about and what is kept of the answers.  The order in which this   *)
(* happens in a call is in CallMemory.                                     *)
(*                                                                         *)
(* A point of the ontology is [iri, frag, code, label, broader]; a point   *)
(* list is a sequence, for the first of several that match counts.  Texts  *)
(* are compared and not taken apart, and "" is what is absent.             *)
(***************************************************************************)
EXTENDS Integers, Sequences, FiniteSets

-----------------------------------------------------------------------------
(* sdg_iris *)

\* The first point of a list that is so, if one is.
Where(points, Is(_)) ==
  LET at == {i \in 1..Len(points) : Is(points[i])}
  IN  IF at = {} THEN <<>> ELSE <<points[CHOOSE i \in at : \A j \in at : i <= j]>>
IrisOf(points) == {points[i].iri : i \in 1..Len(points)}

\* An IRI, or what follows its #.
Hit(raw, points) ==
  LET exact == Where(points, LAMBDA p : p.iri = raw.iri)
  IN  IF exact # <<>> THEN exact ELSE Where(points, LAMBDA p : p.frag = raw.frag)

(* The broader points above a point, up to the first whose broader concept
   is not a point.  above[n] is n steps up. *)
GenusOf(raw, points) ==
  LET hit == Hit(raw, points)
      Broader(p) == Where(points, LAMBDA q : q.iri = p.broader)
      above[n \in 0..Len(points)] ==
        IF n = 0 THEN hit
        ELSE IF above[n - 1] = <<>> \/ Broader(above[n - 1][1]) = <<>> THEN above[n - 1]
        ELSE Broader(above[n - 1][1])
  IN  above[Len(points)]

(* The genus and all that is narrower, in the order of the list. *)
Subtree(raw, points) ==
  LET hit == Hit(raw, points)
      within[n \in 0..Len(points)] ==
        IF n = 0 THEN {hit[1].iri}
        ELSE within[n - 1] \cup {p.iri : p \in {points[i] : i \in
                                   {i \in 1..Len(points) : points[i].broader \in within[n - 1]}}}
  IN  IF hit # <<>> THEN SelectSeq(points, LAMBDA p : p.iri \in within[Len(points)])
      ELSE IF raw.iri = "" THEN <<>>
      ELSE <<[iri |-> raw.iri, frag |-> raw.frag, code |-> "", label |-> "", broader |-> ""]>>

(* What the model said, as one of the points that were offered; where none
   was offered, as any. *)
Resolve(raw, offered, points) ==
  LET pool == IF offered # <<>> THEN offered ELSE points
      Named(p) == \/ p.frag = raw.frag
                  \/ p.code = raw.iri
                  \/ p.label = raw.iri
      near == Where(pool, Named)
  IN  IF raw.iri = "" THEN ""
      ELSE IF raw.iri \in IrisOf(pool) THEN raw.iri
      ELSE IF near # <<>> THEN near[1].iri ELSE ""

-----------------------------------------------------------------------------
(* sdg_aperture: the links of a message *)

Bigger(a, b) == IF a > b THEN a ELSE b
Smaller(a, b) == IF a < b THEN a ELSE b

\* links_in_message, for one admission: none, or the part in the message.
LinkOf(start, length, a) ==
  LET from == Bigger(a.start, start)
      to == Smaller(a.end, start + length)
  IN  IF to <= from \/ a.genus = "" THEN <<>>
      ELSE <<[start |-> from - start, end |-> to - start, genus |-> a.genus, label |-> a.label]>>
Slice(text, link) == SubSeq(text, link.start + 1, link.end)

\* attach: what a workflow delivered is kept if it was offered.
AttachedIri(deliverable) ==
  IF deliverable.iri # "" /\ (deliverable.offered = {} \/ deliverable.iri \in deliverable.offered)
  THEN deliverable.iri ELSE ""

(* apply_span: an answer, none, or an answer that assigns nothing. *)
Applied(old, link, answered, deliverable) ==
  old \o <<[link |-> link,
            iri |-> IF answered THEN AttachedIri(deliverable) ELSE "",
            only |-> ~answered,
            declined |-> answered /\ AttachedIri(deliverable) = "",
            assigned |-> IF answered THEN deliverable.assigned ELSE <<>>]>>

-----------------------------------------------------------------------------
(* sdg_session: the terms that the next prompt considers *)

TermsOf(row) ==
  IF row.declined THEN <<>>
  ELSE IF row.assigned # <<>>
  THEN SelectSeq(row.assigned, LAMBDA item : item.label # "" /\ item.text # "")
  ELSE IF row.link.label = "" \/ (row.iri = "" /\ ~row.only) THEN <<>>
  ELSE <<[label |-> row.link.label, text |-> "piece"]>>
GroundedTerms(spans) ==
  LET all[i \in 0..Len(spans)] ==
        IF i = 0 THEN <<>>
        ELSE LET of[k \in 0..Len(spans[i])] ==
                   IF k = 0 THEN all[i - 1] ELSE of[k - 1] \o TermsOf(spans[i][k])
             IN  of[Len(spans[i])]
  IN  SubSeq(all[Len(spans)], 1, Smaller(8, Len(all[Len(spans)])))
WithGrounded(prompt, spans) ==
  IF GroundedTerms(spans) = <<>> THEN <<prompt>> ELSE <<prompt, GroundedTerms(spans)>>

-----------------------------------------------------------------------------
(* system_one: word sequences of a text of n words, as pairs of the first
   and the last word *)

Chunks(n, size, stride) ==
  SelectSeq([k \in 1..((n + stride - 1) \div stride) |->
               <<(k - 1) * stride + 1, Smaller((k - 1) * stride + size, n)>>],
            LAMBDA c : c[2] - c[1] + 1 >= 4)
WordSequences(n, limit) ==
  LET short == Chunks(n, 6, 6)
      long == SelectSeq(Chunks(n, 12, 6), LAMBDA c : \A i \in 1..Len(short) : short[i] # c)
      found == SubSeq(short \o long, 1, Smaller(limit, Len(short) + Len(long)))
  IN  IF found = <<>> /\ n > 0 THEN <<<<1, n>>>> ELSE found

\* choice_questions: the fragments that may be chosen, and none.
Criteria(points) == {"none"} \cup ({points[i].frag : i \in 1..Len(points)} \ {""})

(* assignments_from: the answers are paired with the sequences in the order
   in which they come, whatever they are named. *)
Kept(answers, sequences, points, floor) ==
  LET pairs == [i \in 1..Smaller(Len(answers), Len(sequences)) |-> <<answers[i], sequences[i]>>]
      Holds(x) == /\ x[1].choice \notin {"", "none"}
                  /\ \E i \in 1..Len(points) : points[i].frag = x[1].choice
                  /\ x[1].confidence >= floor
  IN  SelectSeq(pairs, Holds)
=============================================================================
