--------------------------- MODULE CallMemoryProofs ---------------------------
(***************************************************************************)
(* Theorems about CallMemory, for any texts, widths, bounds and scenes:    *)
(* that Aegir has what was said, in order and in full, and that each span  *)
(* has a row of its own.                                                   *)
(*                                                                         *)
(* The frames: FrameInv.  What Aegir has is numbered from the first span,  *)
(* and until the call is over the queue goes on where Aegir is.            *)
(*                                                                         *)
(* The rows: RowInv.  A map from the spans to the rows keeps their order,  *)
(* roles and texts; what the answers write changes none of these.          *)
(***************************************************************************)
EXTENDS CallMemory, SequenceTheorems, TLAPS

SpanFields == {"start", "end", "role", "text", "links"}
RowFields == {"role", "text", "links"}

(* A sequence of records with these fields. *)
Records(s, fields) ==
  /\ \E S : s \in Seq(S)
  /\ \A k \in 1..Len(s) : DOMAIN s[k] = fields

LEMMA Recorded ==
  ASSUME NEW s, NEW fields, Records(s, fields), NEW e, DOMAIN e = fields
  PROVE  /\ Records(Append(s, e), fields)
         /\ Len(s) \in Nat /\ Len(Append(s, e)) = Len(s) + 1
         /\ \A k \in 1..Len(s) : Append(s, e)[k] = s[k]
         /\ Append(s, e)[Len(s) + 1] = e
<1>1. PICK S : s \in Seq(S)
  BY DEF Records
<1>2. s \in Seq(S \cup {e}) /\ e \in S \cup {e}
  BY <1>1
<1>3. /\ Append(s, e) \in Seq(S \cup {e})
      /\ Len(s) \in Nat /\ Len(Append(s, e)) = Len(s) + 1
      /\ \A k \in 1..Len(s) : Append(s, e)[k] = s[k]
      /\ Append(s, e)[Len(s) + 1] = e
  BY <1>2
<1>4. \A k \in 1..Len(Append(s, e)) : DOMAIN Append(s, e)[k] = fields
  BY <1>3 DEF Records
<1>. QED
  BY <1>3, <1>4 DEF Records

LEMMA IsSequence ==
  ASSUME NEW t, NEW n \in Nat, t = [k \in 1..n |-> t[k]]
  PROVE  t \in Seq({t[k] : k \in 1..n}) /\ Len(t) = n
<1>1. t \in [1..n -> {t[k] : k \in 1..n}]
  OBVIOUS
<1>. QED
  BY <1>1

LEMMA Relinked ==
  ASSUME NEW s, NEW fields, Records(s, fields), NEW i, NEW links
  PROVE  /\ Records(Linked(s, i, links), fields)
         /\ Len(Linked(s, i, links)) = Len(s) /\ Len(s) \in Nat
         /\ \A k \in 1..Len(s), f \in fields :
              f # "links" => Linked(s, i, links)[k][f] = s[k][f]
<1>. DEFINE t == Linked(s, i, links)
<1>1. PICK S : s \in Seq(S)
  BY DEF Records
<1>2. DOMAIN s = 1..Len(s) /\ Len(s) \in Nat
  BY <1>1
<1>3. /\ DOMAIN t = 1..Len(s)
      /\ \A k \in 1..Len(s) : t[k] = IF k = i THEN [s[i] EXCEPT !.links = links] ELSE s[k]
      /\ t = [k \in 1..Len(s) |-> t[k]]
  BY <1>2 DEF Linked
<1>. HIDE DEF t
<1>4. t \in Seq({t[k] : k \in 1..Len(s)}) /\ Len(t) = Len(s)
  BY <1>2, <1>3, IsSequence
<1>5. \A k \in 1..Len(s) : DOMAIN t[k] = fields
  BY <1>3 DEF Records
<1>6. \A k \in 1..Len(s), f \in fields : f # "links" => t[k][f] = s[k][f]
  BY <1>3 DEF Records
<1>7. Records(t, fields)
  BY <1>4, <1>5 DEF Records
<1>. QED
  BY <1>2, <1>4, <1>6, <1>7 DEF t

-----------------------------------------------------------------------------
(* What a step does to the frames and the spans *)

Frames == /\ got \in Seq(Frame) /\ queue \in Seq(Frame)
          /\ seq \in Nat /\ dead \in BOOLEAN
          /\ Records(spans, SpanFields)

(* f is the frame with number k: it has the text of span k, or is the end after
   the last one. *)
Numbered(f, k, sp) ==
  /\ f.seq = k
  /\ IF f.end THEN k = Len(sp) + 1 ELSE k <= Len(sp) /\ f.text = sp[k].text

(* What is in the queue: the frame that comes next at Aegir, or the Stop of a
   stream that is dead, which is the last and comes after all that was said. *)
InPlace(k) ==
  \/ /\ queue[k] = Stop
     /\ k = Len(queue)
     /\ dead = TRUE
     /\ Len(spans) < Len(got) + k
  \/ Numbered(queue[k], Len(got) + k, spans)

(* Until the call is over the queue goes on where Aegir is. *)
Queued ==
  /\ \A k \in 1..Len(queue) : InPlace(k)
  /\ dead = FALSE => Len(got) + Len(queue) = Len(spans) /\ seq = Len(spans)
  /\ dead = TRUE => stream = "popped"
  /\ Len(spans) <= Len(got) + Len(queue)

FrameInv ==
  /\ Frames
  /\ \A k \in 1..Len(got) : Numbered(got[k], k, spans)
  /\ stream = "none" => rpc = "none"
  /\ rpc = "over" => dead = TRUE
  /\ rpc # "over" => Queued

LEMMA Lengths ==
  ASSUME Frames
  PROVE  /\ Len(got) \in Nat /\ Len(queue) \in Nat /\ Len(spans) \in Nat
         /\ dead = TRUE \/ dead = FALSE
BY DEF Frames, Records

LEMMA FramesStart == Init => FrameInv
<1>. SUFFICES ASSUME Init PROVE FrameInv
  OBVIOUS
<1>1. /\ got = <<>> /\ queue = <<>> /\ spans = <<>> /\ seq = 0 /\ dead = FALSE
      /\ stream = "none" /\ rpc = "none"
  BY DEF Init
<1>2. <<>> \in Seq(Frame) /\ Records(<<>>, SpanFields) /\ Len(<<>>) = 0
  BY DEF Records
<1>3. Frames
  BY <1>1, <1>2 DEF Frames
<1>4. Queued
  BY <1>1, <1>2 DEF Queued
<1>. QED
  BY <1>1, <1>2, <1>3, <1>4 DEF FrameInv

(* A step that leaves the frames alone, and the texts of the spans. *)
LEMMA QuietKeeps ==
  ASSUME FrameInv, Records(spans', SpanFields), Len(spans') = Len(spans),
         \A k \in 1..Len(spans) : spans'[k].text = spans[k].text,
         UNCHANGED <<seq, queue, dead, got>>,
         stream' = "none" => rpc' = "none",
         stream = "popped" => stream' = "popped",
         rpc' = "over" <=> rpc = "over"
  PROVE  FrameInv'
<1>1. Frames'
  BY DEF FrameInv, Frames
<1>2. /\ Len(got) \in Nat /\ Len(queue) \in Nat /\ Len(spans) \in Nat
  BY Lengths DEF FrameInv
<1>3. ASSUME NEW f, NEW k \in Nat \ {0}, Numbered(f, k, spans) PROVE Numbered(f, k, spans')
  BY <1>2, <1>3 DEF Numbered
<1>4. \A k \in 1..Len(got') : Numbered(got'[k], k, spans')
  BY <1>2, <1>3 DEF FrameInv
<1>5. rpc' = "over" => dead' = TRUE
  BY DEF FrameInv
<1>6. ASSUME rpc' # "over" PROVE Queued'
  <2>1. ASSUME NEW k \in 1..Len(queue) PROVE InPlace(k)'
    <3>1. InPlace(k) /\ Len(got) + k \in Nat \ {0}
      BY <1>2, <1>6 DEF FrameInv, Queued
    <3>. QED
      BY <1>3, <3>1 DEF InPlace
  <2>. QED
    BY <1>6, <2>1 DEF FrameInv, Queued
<1>. QED
  BY <1>1, <1>4, <1>5, <1>6 DEF FrameInv

LEMMA NoteKeeps ==
  ASSUME FrameInv, NEW role, NEW text \in Text, Note(role, text),
         UNCHANGED <<stream, dead, rpc, got>>
  PROVE  FrameInv'
<1>. DEFINE e == [start |-> Cursor, end |-> Cursor + Width[text], role |-> role, text |-> text,
                  links |-> {}]
            f == [seq |-> seq + 1, text |-> text, end |-> FALSE]
<1>1. CASE ~(stream = "live" /\ ~dead)
  BY <1>1, QuietKeeps DEF Note, FrameInv, Frames
<1>2. CASE stream = "live" /\ ~dead
  <2>1. /\ seq' = seq + 1 /\ spans' = Append(spans, e) /\ queue' = Append(queue, f)
        /\ dead = FALSE /\ rpc # "over" /\ Queued
    BY <1>2, Lengths DEF Note, FrameInv
  <2>2. DOMAIN e = SpanFields /\ e.text = text
    BY DEF SpanFields
  <2>3. f \in Frame /\ f.seq = seq + 1 /\ ~f.end /\ f.text = text
    BY DEF Frame, FrameInv, Frames
  <2>. HIDE DEF e, f
  <2>4. /\ Records(spans', SpanFields) /\ Len(spans) \in Nat /\ Len(spans') = Len(spans) + 1
        /\ \A k \in 1..Len(spans) : spans'[k] = spans[k]
        /\ spans'[Len(spans) + 1] = e
    BY <2>1, <2>2, Recorded DEF FrameInv, Frames
  <2>5. /\ queue' \in Seq(Frame) /\ Len(queue') = Len(queue) + 1 /\ Len(queue) \in Nat
        /\ \A k \in 1..Len(queue) : queue'[k] = queue[k]
        /\ queue'[Len(queue) + 1] = f
    BY <2>1, <2>3 DEF FrameInv, Frames
  <2>6. Frames'
    BY <2>1, <2>4, <2>5 DEF FrameInv, Frames
  <2>7. Len(got) \in Nat /\ Len(got) + Len(queue) = Len(spans) /\ seq = Len(spans)
    BY <2>1, Lengths DEF FrameInv, Queued
  <2>8. ASSUME NEW g, NEW k \in 1..Len(spans), Numbered(g, k, spans) PROVE Numbered(g, k, spans')
    BY <2>4, <2>8 DEF Numbered
  <2>9. ASSUME NEW k \in 1..Len(got') PROVE Numbered(got'[k], k, spans')
    <3>1. k \in 1..Len(spans) /\ Numbered(got[k], k, spans)
      BY <2>5, <2>7 DEF FrameInv
    <3>. QED
      BY <2>8, <3>1
  <2>10. ASSUME NEW k \in 1..Len(queue') PROVE InPlace(k)'
    <3>1. CASE k = Len(queue')
      <4>1. queue'[k] = f /\ Len(got) + k = Len(spans')
        BY <2>4, <2>5, <2>7, <3>1
      <4>. QED
        BY <2>2, <2>3, <2>4, <2>7, <4>1 DEF Numbered, InPlace
    <3>2. CASE k # Len(queue')
      <4>1. k \in 1..Len(queue) /\ InPlace(k) /\ queue'[k] = queue[k] /\ Len(got) + k \in 1..Len(spans)
        BY <2>1, <2>5, <2>7, <3>2 DEF Queued
      <4>2. Numbered(queue'[k], Len(got) + k, spans')
        BY <2>1, <2>8, <4>1 DEF InPlace
      <4>. QED
        BY <4>2 DEF InPlace
    <3>. QED
      BY <3>1, <3>2
  <2>11. Queued'
    <3>1. dead' = FALSE /\ got' = got
      BY <2>1
    <3>2. Len(got') + Len(queue') = Len(spans') /\ seq' = Len(spans') /\ Len(spans') \in Nat
      BY <2>1, <2>4, <2>5, <2>7, <3>1
    <3>. QED
      BY <2>10, <3>1, <3>2 DEF Queued
  <2>. QED
    BY <2>1, <2>6, <2>9, <2>11 DEF FrameInv
<1>. QED
  BY <1>1, <1>2

LEMMA RecordKeeps ==
  ASSUME FrameInv, NEW role, NEW text \in Text, RecordTurn(role, text)
  PROVE  FrameInv'
<1>1. CASE Note(role, text)
  BY <1>1, NoteKeeps DEF RecordTurn
<1>2. CASE UNCHANGED <<seq, spans, queue>>
  BY <1>2, QuietKeeps DEF RecordTurn, FrameInv, Frames
<1>. QED
  BY <1>1, <1>2 DEF RecordTurn

LEMMA FinishKeeps ==
  ASSUME FrameInv, End
  PROVE  FrameInv'
<1>. DEFINE f == [seq |-> seq + 1, text |-> None, end |-> TRUE]
<1>1. /\ stream = "live" /\ stream' = "popped" /\ Finish
      /\ UNCHANGED <<spans, rpc, got>>
  BY DEF End
<1>2. Len(spans) \in Nat /\ Len(queue) \in Nat /\ Len(got) \in Nat /\ seq \in Nat
  BY Lengths DEF FrameInv, Frames
<1>3. Stop \in Frame
  BY DEF Stop, Frame
<1>4. CASE dead
  <2>1. rpc = "over" /\ queue' = Append(queue, Stop) /\ UNCHANGED <<seq, dead>>
    BY <1>1, <1>4, Lengths DEF Finish, FrameInv, Queued
  <2>2. queue' \in Seq(Frame)
    BY <1>3, <2>1 DEF FrameInv, Frames
  <2>. QED
    BY <1>1, <2>1, <2>2 DEF FrameInv, Frames
<1>5. CASE ~dead
  <2>1. /\ seq' = seq + 1 /\ dead' = TRUE /\ queue' = queue \o <<f, Stop>>
        /\ dead = FALSE /\ rpc # "over" /\ Queued
    BY <1>1, <1>5, Lengths DEF Finish, FrameInv
  <2>2. f \in Frame /\ f.seq = seq + 1 /\ f.end
    BY <1>2 DEF Frame
  <2>. HIDE DEF f
  <2>3. /\ <<f, Stop>> \in Seq(Frame) /\ Len(<<f, Stop>>) = 2
        /\ <<f, Stop>>[1] = f /\ <<f, Stop>>[2] = Stop
    BY <1>3, <2>2
  <2>4. /\ queue' \in Seq(Frame) /\ Len(queue') = Len(queue) + 2
        /\ \A k \in 1..Len(queue) + 2 :
             queue'[k] = IF k <= Len(queue) THEN queue[k] ELSE <<f, Stop>>[k - Len(queue)]
    BY <2>1, <2>3, ConcatProperties DEF FrameInv, Frames
  <2>5. Len(got) + Len(queue) = Len(spans) /\ seq = Len(spans)
    BY <2>1 DEF Queued
  <2>6. Frames'
    BY <1>1, <1>2, <2>1, <2>4 DEF FrameInv, Frames
  <2>7. ASSUME NEW k \in 1..Len(queue') PROVE InPlace(k)'
    <3>1. CASE k <= Len(queue)
      <4>1. k \in 1..Len(queue) /\ queue'[k] = queue[k] /\ InPlace(k)
        BY <1>2, <2>1, <2>4, <3>1 DEF Queued
      <4>. QED
        BY <1>1, <2>1, <4>1 DEF InPlace
    <3>2. CASE k = Len(queue) + 1
      <4>1. queue'[k] = f
        BY <1>2, <2>3, <2>4, <3>2
      <4>. QED
        BY <1>1, <1>2, <2>2, <2>5, <3>2, <4>1 DEF InPlace, Numbered
    <3>3. CASE k = Len(queue) + 2
      <4>1. queue'[k] = Stop
        BY <1>2, <2>3, <2>4, <3>3
      <4>. QED
        BY <1>1, <1>2, <2>1, <2>4, <2>5, <3>3, <4>1 DEF InPlace
    <3>. QED
      BY <1>2, <2>4, <3>1, <3>2, <3>3
  <2>8. Queued'
    BY <1>1, <1>2, <2>1, <2>4, <2>5, <2>7 DEF Queued
  <2>. QED
    BY <1>1, <2>1, <2>6, <2>8 DEF FrameInv
<1>. QED
  BY <1>4, <1>5

LEMMA TakeKeeps ==
  ASSUME FrameInv, TakeFrame
  PROVE  FrameInv'
<1>. DEFINE h == Head(queue)
<1>1. /\ queue # <<>> /\ queue' = Tail(queue) /\ queue \in Seq(Frame)
      /\ UNCHANGED <<stream, seq, spans, dead, rpc>>
      /\ IF h = Stop \/ rpc = "over" THEN got' = got ELSE got' = Append(got, h)
  BY DEF TakeFrame, FrameInv, Frames
<1>2. /\ h \in Frame /\ h = queue[1] /\ Len(queue) \in Nat \ {0}
      /\ queue' \in Seq(Frame) /\ Len(queue') = Len(queue) - 1
      /\ \A k \in 1..Len(queue') : queue'[k] = queue[k + 1]
  BY <1>1
<1>. HIDE DEF h
<1>3. Len(got) \in Nat /\ Len(spans) \in Nat /\ got \in Seq(Frame)
  BY Lengths DEF FrameInv, Frames
<1>4. CASE rpc = "over"
  BY <1>1, <1>2, <1>4 DEF FrameInv, Frames
<1>5. CASE rpc # "over" /\ h = Stop
  <2>1. InPlace(1) /\ Queued /\ got' = got
    BY <1>1, <1>2, <1>5 DEF FrameInv, Queued
  <2>2. dead = TRUE /\ Len(queue) = 1 /\ Len(queue') = 0 /\ Len(spans) <= Len(got)
    <3>1. CASE Len(queue) = 1 /\ dead = TRUE /\ Len(spans) < Len(got) + 1
      BY <1>2, <1>3, <3>1
    <3>2. CASE Numbered(Stop, Len(got) + 1, spans)
      BY <1>3, <3>2 DEF Numbered, Stop
    <3>. QED
      BY <1>2, <1>5, <2>1, <3>1, <3>2 DEF InPlace
  <2>3. Queued'
    BY <1>1, <1>3, <2>1, <2>2 DEF Queued
  <2>. QED
    BY <1>1, <1>2, <1>5, <2>1, <2>3 DEF FrameInv, Frames
<1>6. CASE rpc # "over" /\ h # Stop
  <2>a. got' = Append(got, h)
    BY <1>1, <1>6
  <2>1. /\ got' \in Seq(Frame) /\ Len(got') = Len(got) + 1
        /\ \A k \in 1..Len(got) : got'[k] = got[k]
        /\ got'[Len(got) + 1] = h
    BY <1>2, <1>3, <2>a
  <2>2. Queued /\ InPlace(1)
    BY <1>2, <1>6 DEF FrameInv, Queued
  <2>3. Numbered(h, Len(got) + 1, spans)
    BY <1>2, <1>6, <2>2 DEF InPlace
  <2>4. ASSUME NEW k \in 1..Len(got') PROVE Numbered(got'[k], k, spans')
    <3>1. CASE k <= Len(got)
      BY <1>1, <1>3, <2>1, <3>1 DEF FrameInv
    <3>2. CASE k = Len(got) + 1
      BY <1>1, <2>1, <2>3, <3>2
    <3>. QED
      BY <1>3, <2>1, <3>1, <3>2
  <2>5. ASSUME NEW k \in 1..Len(queue') PROVE InPlace(k)'
    <3>1. k + 1 \in 1..Len(queue) /\ queue'[k] = queue[k + 1] /\ Len(got') + k = Len(got) + (k + 1)
      BY <1>2, <1>3, <2>1
    <3>2. InPlace(k + 1)
      BY <2>2, <3>1 DEF Queued
    <3>3. (k + 1 = Len(queue)) <=> (k = Len(queue'))
      BY <1>2
    <3>. QED
      BY <1>1, <3>1, <3>2, <3>3 DEF InPlace
  <2>6. Queued'
    BY <1>1, <1>2, <1>3, <2>1, <2>2, <2>5 DEF Queued
  <2>. QED
    BY <1>1, <1>2, <1>6, <2>1, <2>4, <2>6 DEF FrameInv, Frames
<1>. QED
  BY <1>4, <1>5, <1>6

LEMMA OverKeeps ==
  ASSUME FrameInv, RpcEnds
  PROVE  FrameInv'
<1>1. UNCHANGED <<stream, seq, spans, queue, got>> /\ dead' = TRUE /\ rpc' = "over"
  BY DEF RpcEnds
<1>2. stream # "none"
  BY DEF RpcEnds, FrameInv
<1>. QED
  BY <1>1, <1>2 DEF FrameInv, Frames

(* Links are no part of a frame. *)
LEMMA MergeKeeps ==
  ASSUME FrameInv, NEW a \in Apply, ApplyMerges(a)
  PROVE  FrameInv'
<1>1. PICK i, links : spans' = Linked(spans, i, links)
  BY DEF ApplyMerges
<1>2. UNCHANGED <<stream, seq, queue, dead, rpc, got>>
  BY DEF ApplyMerges
<1>3. Records(spans, SpanFields)
  BY DEF FrameInv, Frames
<1>4. /\ Records(spans', SpanFields) /\ Len(spans') = Len(spans)
      /\ \A k \in 1..Len(spans), f \in SpanFields : f # "links" => spans'[k][f] = spans[k][f]
  BY <1>1, <1>3, Relinked
<1>5. \A k \in 1..Len(spans) : spans'[k].text = spans[k].text
  BY <1>4 DEF SpanFields
<1>. QED
  BY <1>2, <1>4, <1>5, QuietKeeps DEF FrameInv

LEMMA FramesStep == FrameInv /\ [Next]_vars => FrameInv'
<1>. SUFFICES ASSUME FrameInv, [Next]_vars PROVE FrameInv'
  OBVIOUS
<1>1. CASE UNCHANGED <<stream, seq, spans, queue, dead, rpc, got>>
  BY <1>1, QuietKeeps DEF FrameInv, Frames
<1>2. CASE Connect \/ Dial
  <2>1. /\ UNCHANGED <<seq, spans, queue, dead, got>> /\ rpc' # "over" /\ rpc # "over"
        /\ stream' # "none" /\ (stream = "popped" => stream' = "popped")
    BY <1>2 DEF Connect, Dial, FrameInv
  <2>2. /\ Records(spans', SpanFields) /\ Len(spans') = Len(spans)
        /\ \A k \in 1..Len(spans) : spans'[k].text = spans[k].text
    BY <2>1 DEF FrameInv, Frames
  <2>. QED
    BY <2>1, <2>2, QuietKeeps
<1>3. CASE End
  BY <1>3, FinishKeeps
<1>4. CASE TakeFrame
  BY <1>4, TakeKeeps
<1>5. CASE RpcEnds
  BY <1>5, OverKeeps
<1>6. ASSUME NEW a \in Apply, Admit(a) \/ ApplySteps(a) PROVE FrameInv'
  <2>1. CASE ApplyMerges(a)
    BY <2>1, MergeKeeps
  <2>2. CASE ~ApplyMerges(a)
    BY <1>1, <1>6, <2>2 DEF Admit, ApplySteps, ApplyPicks, ApplyRuns, ApplyStamps, ApplyEnds, aperture
  <2>. QED
    BY <2>1, <2>2
<1>7. ASSUME NEW t \in Turn, TurnAsks(t) \/ TurnReads(t) \/ TurnEnds(t) PROVE FrameInv'
  BY <1>1, <1>7, RecordKeeps DEF TurnAsks, TurnReads, TurnEnds, aperture
<1>8. CASE SpeaksUnasked
  BY <1>8, RecordKeeps DEF SpeaksUnasked
<1>9. CASE CloseSession
  BY <1>1, <1>9 DEF CloseSession, aperture
<1>10. ASSUME NEW y \in Sync, (\E s \in Sid : SyncStarts(y, s)) \/ SyncSwitches(y) \/ SyncNotes(y) \/ SyncEnds(y)
       PROVE FrameInv'
  BY <1>1, <1>10 DEF SyncStarts, SyncSwitches, SyncNotes, SyncEnds, aperture
<1>11. CASE UNCHANGED vars
  BY <1>1, <1>11 DEF vars, aperture
<1>. QED
  BY <1>2, <1>3, <1>4, <1>5, <1>6, <1>7, <1>8, <1>9, <1>10, <1>11 DEF Next

LEMMA FramesAlways == Spec => []FrameInv
BY FramesStart, FramesStep, PTL DEF Spec

(* Aegir has what was said, from the beginning, in order and in full. *)
THEOREM AegirHearsAll == Spec => []FramesFaithful
<1>1. FrameInv => FramesFaithful
  <2>. SUFFICES ASSUME FrameInv PROVE FramesFaithful
    OBVIOUS
  <2>1. /\ Len(got) \in Nat /\ Len(queue) \in Nat /\ Len(spans) \in Nat
        /\ got \in Seq(Frame) /\ queue \in Seq(Frame)
    BY DEF FrameInv, Frames, Records
  <2>2. CASE rpc = "over"
    BY <2>1, <2>2 DEF FramesFaithful, FrameInv, Numbered
  <2>3. CASE rpc # "over"
    <3>. DEFINE all == got \o queue
    <3>1. /\ Len(all) = Len(got) + Len(queue)
          /\ \A k \in 1..Len(all) : all[k] = IF k <= Len(got) THEN got[k] ELSE queue[k - Len(got)]
      BY <2>1
    <3>. HIDE DEF all
    <3>2. ASSUME NEW k \in 1..Len(all)
          PROVE  \/ Numbered(all[k], k, spans)
                 \/ all[k] = Stop /\ k = Len(all) /\ Len(spans) < k
      <4>1. CASE k <= Len(got)
        BY <2>1, <3>1, <4>1 DEF FrameInv
      <4>2. CASE k > Len(got)
        <5>1. /\ k - Len(got) \in 1..Len(queue) /\ all[k] = queue[k - Len(got)]
              /\ Len(got) + (k - Len(got)) = k
          BY <2>1, <3>1, <4>2
        <5>2. InPlace(k - Len(got))
          BY <2>3, <5>1 DEF FrameInv, Queued
        <5>. QED
          BY <2>1, <3>1, <5>1, <5>2 DEF InPlace
      <4>. QED
        BY <2>1, <3>1, <4>1, <4>2
    <3>3. Len(spans) <= Len(all)
      BY <2>3, <3>1 DEF FrameInv, Queued
    <3>4. ASSUME NEW i \in 1..Len(spans) PROVE i <= Len(all) /\ all[i] # Stop
      <4>1. i \in 1..Len(all)
        BY <2>1, <3>1, <3>3
      <4>2. Numbered(all[i], i, spans)
        BY <2>1, <3>2, <4>1
      <4>. QED
        BY <4>1, <4>2 DEF Numbered, Stop
    <3>. QED
      BY <2>3, <3>2, <3>4 DEF FramesFaithful, Numbered, all
  <2>. QED
    BY <2>2, <2>3
<1>. QED
  BY <1>1, FramesAlways, PTL
-----------------------------------------------------------------------------
(* The spans and the rows *)

(* f finds the row of each span. *)
Embeds(f, ss, rs) ==
  /\ f \in [1..Len(ss) -> 1..Len(rs)]
  /\ \A i \in 1..Len(ss) : rs[f[i]].role = ss[i].role /\ rs[f[i]].text = ss[i].text
  /\ \A i, j \in 1..Len(ss) : i < j => f[i] < f[j]

RowInv ==
  /\ Records(spans, SpanFields)
  /\ Records(rows, RowFields)
  /\ \E f : Embeds(f, spans, rows)

LEMMA RowsStart == Init => RowInv
<1>. SUFFICES ASSUME Init PROVE RowInv
  OBVIOUS
<1>1. spans = <<>> /\ rows = <<>> /\ Len(<<>>) = 0
  BY DEF Init
<1>2. Records(<<>>, SpanFields) /\ Records(<<>>, RowFields)
  BY DEF Records
<1>3. Embeds(<<>>, spans, rows)
  BY <1>1 DEF Embeds
<1>. QED
  BY <1>1, <1>2, <1>3 DEF RowInv

(* What the spans and the rows say, and where, is the same. *)
LEMMA SameText ==
  ASSUME RowInv, Records(spans', SpanFields), Records(rows', RowFields),
         Len(spans') = Len(spans), Len(rows') = Len(rows),
         \A k \in 1..Len(spans) : spans'[k].role = spans[k].role /\ spans'[k].text = spans[k].text,
         \A k \in 1..Len(rows) : rows'[k].role = rows[k].role /\ rows'[k].text = rows[k].text
  PROVE  RowInv'
<1>1. PICK f : Embeds(f, spans, rows)
  BY DEF RowInv
<1>2. Embeds(f, spans', rows')
  BY <1>1 DEF Embeds
<1>. QED
  BY <1>2 DEF RowInv

(* A row is stored, and then it is on the stream too, or not. *)
LEMMA StoreKeeps ==
  ASSUME RowInv, NEW role, NEW text, Note(role, text),
         rows' = Append(rows, [role |-> role, text |-> text, links |-> {}])
  PROVE  RowInv'
<1>. DEFINE r == [role |-> role, text |-> text, links |-> {}]
            e == [start |-> Cursor, end |-> Cursor + Width[text], role |-> role, text |-> text,
                  links |-> {}]
<1>1. PICK f : Embeds(f, spans, rows)
  BY DEF RowInv
<1>2. DOMAIN r = RowFields /\ r.role = role /\ r.text = text
  BY DEF RowFields
<1>3. DOMAIN e = SpanFields /\ e.role = role /\ e.text = text
  BY DEF SpanFields
<1>4. rows' = Append(rows, r) /\ (spans' = spans \/ spans' = Append(spans, e))
  BY DEF Note
<1>. HIDE DEF r, e
<1>5. /\ Records(rows', RowFields) /\ Len(rows) \in Nat /\ Len(rows') = Len(rows) + 1
      /\ \A k \in 1..Len(rows) : rows'[k] = rows[k]
      /\ rows'[Len(rows) + 1] = r
  BY <1>2, <1>4, Recorded DEF RowInv
<1>6. CASE spans' = spans
  <2>1. Embeds(f, spans', rows')
    BY <1>1, <1>5, <1>6 DEF Embeds
  <2>. QED
    BY <1>5, <1>6, <2>1 DEF RowInv
<1>7. CASE spans' = Append(spans, e)
  <2>. DEFINE n == Len(spans)
              g == [i \in 1..(n + 1) |-> IF i = n + 1 THEN Len(rows) + 1 ELSE f[i]]
  <2>1. /\ Records(spans', SpanFields) /\ n \in Nat /\ Len(spans') = n + 1
        /\ \A k \in 1..n : spans'[k] = spans[k]
        /\ spans'[n + 1] = e
    BY <1>3, <1>7, Recorded DEF RowInv
  <2>. HIDE DEF n
  <2>2. n \in Nat /\ Len(spans') = n + 1 /\ 1..Len(spans') = (1..n) \cup {n + 1}
    BY <2>1
  <2>3. \A i \in 1..n : f[i] \in 1..Len(rows)
    BY <1>1 DEF Embeds, n
  <2>4. \A i \in 1..(n + 1) : g[i] \in 1..(Len(rows) + 1)
    BY <1>5, <2>2, <2>3
  <2>5. /\ g \in [1..(n + 1) -> 1..(Len(rows) + 1)]
        /\ g[n + 1] = Len(rows) + 1
        /\ \A i \in 1..n : g[i] = f[i]
    BY <2>2, <2>4
  <2>. HIDE DEF g
  <2>6. ASSUME NEW i \in 1..Len(spans')
        PROVE  rows'[g[i]].role = spans'[i].role /\ rows'[g[i]].text = spans'[i].text
    <3>1. CASE i = n + 1
      <4>1. g[i] = Len(rows) + 1 /\ spans'[i] = e /\ rows'[g[i]] = r
        BY <1>5, <2>1, <2>5, <3>1
      <4>. QED
        BY <1>2, <1>3, <4>1
    <3>2. CASE i \in 1..n
      <4>1. g[i] = f[i] /\ f[i] \in 1..Len(rows) /\ rows'[f[i]] = rows[f[i]] /\ spans'[i] = spans[i]
        BY <1>5, <2>1, <2>3, <2>5, <3>2
      <4>2. rows[f[i]].role = spans[i].role /\ rows[f[i]].text = spans[i].text
        BY <1>1, <3>2 DEF Embeds, n
      <4>. QED
        BY <4>1, <4>2
    <3>. QED
      BY <2>2, <3>1, <3>2
  <2>7. ASSUME NEW i \in 1..n, NEW j \in 1..n, i < j PROVE g[i] < g[j]
    BY <1>1, <2>5, <2>7 DEF Embeds, n
  <2>8. \A i \in 1..n : g[i] < g[n + 1]
    BY <1>5, <2>3, <2>5
  <2>9. \A i, j \in 1..(n + 1) : i < j => g[i] < g[j]
    BY <2>2, <2>7, <2>8
  <2>10. Embeds(g, spans', rows')
    BY <1>5, <2>2, <2>5, <2>6, <2>9 DEF Embeds
  <2>. QED
    BY <1>5, <2>1, <2>10 DEF RowInv
<1>. QED
  BY <1>4, <1>6, <1>7

LEMMA RecordStores ==
  ASSUME RowInv, NEW role, NEW text, RecordTurn(role, text)
  PROVE  RowInv'
<1>1. CASE UNCHANGED <<rows, spans>>
  BY <1>1, SameText DEF RowInv
<1>. QED
  BY <1>1, StoreKeeps DEF RecordTurn

(* An answer writes links. *)
LEMMA MergeSays ==
  ASSUME RowInv, NEW a \in Apply, ApplyMerges(a)
  PROVE  RowInv'
<1>1. (\E i, links : spans' = Linked(spans, i, links)) /\ rows' = rows
  BY DEF ApplyMerges, store
<1>2. PICK i, links : spans' = Linked(spans, i, links)
  BY <1>1
<1>3. Records(spans, SpanFields) /\ Records(rows, RowFields)
  BY DEF RowInv
<1>4. /\ Records(spans', SpanFields) /\ Len(spans') = Len(spans)
      /\ \A k \in 1..Len(spans), f \in SpanFields : f # "links" => spans'[k][f] = spans[k][f]
  BY <1>2, <1>3, Relinked
<1>5. \A k \in 1..Len(spans) : spans'[k].role = spans[k].role /\ spans'[k].text = spans[k].text
  BY <1>4 DEF SpanFields
<1>. QED
  BY <1>1, <1>3, <1>4, <1>5, SameText

LEMMA StampSays ==
  ASSUME RowInv, NEW a \in Apply, ApplyStamps(a)
  PROVE  RowInv'
<1>1. (rows' = rows \/ \E i, links : rows' = Linked(rows, i, links)) /\ spans' = spans
  BY DEF ApplyStamps, aperture
<1>2. Records(spans, SpanFields) /\ Records(rows, RowFields)
  BY DEF RowInv
<1>3. CASE rows' = rows
  BY <1>1, <1>2, <1>3, SameText
<1>4. ASSUME NEW i, NEW links, rows' = Linked(rows, i, links) PROVE RowInv'
  <2>1. /\ Records(rows', RowFields) /\ Len(rows') = Len(rows)
        /\ \A k \in 1..Len(rows), f \in RowFields : f # "links" => rows'[k][f] = rows[k][f]
    BY <1>2, <1>4, Relinked
  <2>2. \A k \in 1..Len(rows) : rows'[k].role = rows[k].role /\ rows'[k].text = rows[k].text
    BY <2>1 DEF RowFields
  <2>. QED
    BY <1>1, <1>2, <2>1, <2>2, SameText
<1>. QED
  BY <1>1, <1>3, <1>4

LEMMA RowsStep == RowInv /\ [Next]_vars => RowInv'
<1>. SUFFICES ASSUME RowInv, [Next]_vars PROVE RowInv'
  OBVIOUS
<1>1. CASE UNCHANGED <<rows, spans>>
  BY <1>1, SameText DEF RowInv
<1>2. CASE Connect \/ End \/ CloseSession \/ Dial \/ TakeFrame \/ RpcEnds
  BY <1>1, <1>2 DEF Connect, End, CloseSession, Dial, TakeFrame, RpcEnds, store, aperture
<1>3. ASSUME NEW a \in Apply, Admit(a) \/ ApplySteps(a) PROVE RowInv'
  <2>1. CASE ApplyMerges(a)
    BY <2>1, MergeSays
  <2>2. CASE ApplyStamps(a)
    BY <2>2, StampSays
  <2>3. CASE ~ApplyMerges(a) /\ ~ApplyStamps(a)
    BY <1>1, <1>3, <2>3 DEF Admit, ApplySteps, ApplyPicks, ApplyRuns, ApplyEnds, aperture, store
  <2>. QED
    BY <2>1, <2>2, <2>3
<1>4. ASSUME NEW t \in Turn, TurnAsks(t) \/ TurnReads(t) \/ TurnEnds(t) PROVE RowInv'
  BY <1>1, <1>4, RecordStores DEF TurnAsks, TurnReads, TurnEnds, aperture, store
<1>5. CASE SpeaksUnasked
  BY <1>5, RecordStores DEF SpeaksUnasked
<1>6. ASSUME NEW y \in Sync, (\E s \in Sid : SyncStarts(y, s)) \/ SyncSwitches(y) \/ SyncNotes(y) \/ SyncEnds(y)
      PROVE RowInv'
  BY <1>1, <1>6 DEF SyncStarts, SyncSwitches, SyncNotes, SyncEnds, aperture, store
<1>7. CASE UNCHANGED vars
  BY <1>1, <1>7 DEF vars, aperture, store
<1>. QED
  BY <1>2, <1>3, <1>4, <1>5, <1>6, <1>7 DEF Next

(* A stamp always finds its row: what is on the stream is in the database, in
   the order in which it was said, whatever the store and the stream do. *)
THEOREM StampsFindTheirRow == Spec => []StampFindsRow
<1>1. RowInv => StampFindsRow
  BY DEF RowInv, Embeds, StampFindsRow
<1>. QED
  BY <1>1, RowsStart, RowsStep, PTL DEF Spec
=============================================================================
