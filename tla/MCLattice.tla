------------------------------ MODULE MCLattice ------------------------------
EXTENDS Lattice

Ep(cap, healthy) == [cap |-> cap, healthy |-> healthy, gpus |-> {}]
MCPeerStates == {Nothing, {Ep("thinking", TRUE)}, {Ep("ocr", TRUE)}}

(* Two completions that share the cache while one peer comes and goes; one
   completion of every kind, with OIP peers, with their faults and in a call;
   runs; the sync beside platform calls. *)
Rest == [does |-> {}, voice |-> FALSE, peers |-> <<>>, oip |-> <<>>, calls |-> {},
         streams |-> {}, moves |-> {}, ticks |-> 0, faults |-> {}]
One == [Rest EXCEPT !.does = {"calls"}, !.calls = {"c1"}, !.streams = BOOLEAN,
                    !.peers = <<"p1", "p2">>, !.moves = {"p1", "p2"}]
MCScene ==
  {[One EXCEPT !.calls = {"c1", "c2"}, !.streams = {FALSE}, !.peers = <<"p1">>, !.moves = {"p1"},
               !.ticks = 3],
   One, [One EXCEPT !.oip = <<"p1", "p2">>],
   [One EXCEPT !.oip = <<"p1", "p2">>, !.streams = {TRUE}, !.faults = {"halfway", "send"}],
   [One EXCEPT !.voice = TRUE],
   [One EXCEPT !.peers = <<>>],
   [Rest EXCEPT !.does = {"runs", "platform"}],
   [Rest EXCEPT !.does = {"sync", "platform"}, !.voice = TRUE]}

-----------------------------------------------------------------------------
(* What the rules compute, over small arguments *)

Statuses == {Nothing, {}, {Ep("thinking", TRUE)}, {Ep("thinking", FALSE), Ep("instruct", TRUE)},
             {Ep("ocr", TRUE)}}
Known == {<<[peer |-> "p1", status |-> s], [peer |-> "p2", status |-> t]>> :
            <<s, t>> \in Statuses \X Statuses}

(* Each endpoint that will do is a route once, a healthy one before the
   others; a peer that answered is never left without a route. *)
ASSUME RoutesSound ==
  \A cap \in {"", "agent", "ocr"}, known \in Known :
    LET routes == PlanRoutes(cap, <<"p2", "p1">>, known)
        suits == {<<k.peer, ep.cap>> : <<k, ep>> \in
                    {<<k, ep>> \in Range(known) \X UNION (Statuses \ {Nothing}) :
                       k.status # Nothing /\ ep \in k.status /\ ep.cap \in Range(Accepted(cap))}}
        routed == {<<r.peer, r.cap>> : r \in Range(routes)}
    IN  /\ suits # {} => routed = suits /\ Len(routes) = Cardinality(suits)
        /\ suits = {} => {r[1] : r \in routed} = {k.peer : k \in {h \in Range(known) : h.status # Nothing}}
        /\ \A i, j \in 1..Len(routes) : routes[j].healthy /\ ~routes[i].healthy => j < i
        /\ InferenceReady(cap, <<"p2", "p1">>, known).ready = (routes # <<>>)

(* An engine is found where a seed names it, or by an agent that it hosts;
   an engine that only a second hop would name is not. *)
Hint(p, t) == [project |-> p, target |-> t]
Hints == {Nothing, <<>>, <<Hint("a", "t1")>>, <<Hint("", "t2"), Hint("b", "t1")>>, <<Hint("b", "t2")>>,
          <<Hint("a", "t2")>>}
Agents == {Nothing, <<>>, <<[name |-> "b", project |-> "a"]>>}
ASSUME OneHop ==
  \A h1, h2 \in Hints, held \in Agents :
    LET directory == [t \in {"t1", "t2"} |->
                        [peers |-> IF t = "t1" THEN h1 ELSE h2, project |-> "",
                         agents |-> IF t = "t2" THEN held ELSE Nothing]]
        Named(h) == h # Nothing /\ \E x \in Range(h) : x.project = "b"
        Leads(h) == h # Nothing /\ \E x \in Range(h) : x.target = "t2"
        got == PeerTarget("b", <<>>, <<"t1">>, directory)
    IN  /\ (got # "") = (Named(h1) \/ (Leads(h1) /\ held \notin {Nothing, <<>>}))
        /\ got # "" /\ h1 = <<Hint("a", "t2")>> => got = "t2"

Hosts == {"", "localhost", "box", "box.lan"}
(* No surface and no target that is announced is one of this machine only. *)
ASSUME NeverLoopback ==
  \A h1, h2, h3, o \in Hosts :
    LET host == AdvertiseHost(h1, h2, h3)
        surfaces == LocalSurfaces(<<o, 80>>, host, [ui |-> 9119, gateway |-> 8642], TRUE, TRUE)
    IN  /\ \A s \in surfaces : s.url[1] \notin Loopback
        /\ Announced(host, 50651, surfaces, 90) # Nothing => host \notin Loopback

(* This engine does not announce itself to itself, nor to anyone twice. *)
Targets == {<<"box", 50651>>, <<"localhost", 50651>>, <<"hub", 50651>>, <<"box", 50051>>}
ASSUME AnnouncedOnce ==
  \A d \in Targets \cup {NoUrl}, p1, p2 \in Targets :
    LET targets == AnnounceTargets(d, <<p1, p2>>, "box", 50651)
    IN  /\ Range(targets) = ({d, p1, p2} \ {NoUrl}) \ {<<"box", 50651>>, <<"localhost", 50651>>}
        /\ Cardinality(Range(targets)) = Len(targets)

(* The heartbeat is more often than the time to live, from 16 s on.  A
   shorter one, which the setting allows, lapses between two heartbeats. *)
ASSUME AnnouncedOften ==
  \A ttl \in 0..300 : (AnnounceEvery(ttl) < AnnounceTtl(ttl)) = (ttl \notin 1..15)

Papers == {[Paper EXCEPT !.kind = k, !.input = i, !.name = n] :
             k \in {"arxiv", "web"}, i \in {"absent", "object", "text"}, n \in {"", "w"}}
(* The platform starts no workflow of Mistral outside a call, and asks Gaius
   only there.  An agent run starts one whenever it is asked to. *)
ASSUME WorkflowsInCalls ==
  \A product \in {"document", "workflow"}, verb \in {"analyze", "execute", "get", "list"} :
    \A req \in Papers, credential, urgent \in BOOLEAN :
      LET ask == PlatformAsk(product, verb, req, credential, urgent)
      IN  /\ ask = "workflow" => urgent /\ credential
          /\ ask = "gaius" => ~urgent /\ req.kind \in Curated
ASSUME AgentsAnyTime == MistralAgent("mistral-workflow", Paper, TRUE) = "execute"

(* Tensors say what was put into them. *)
Texts == [Names -> {"", "x"}]
ASSUME RequestRoundTrip ==
  \A texts \in Texts, model, cap \in {"", "agent", "m"} :
    LET got == ExtractInputs(BuildRequest(model, texts, [capability |-> cap]))
    IN  got.texts = texts /\ got.cap = IF cap # "" THEN cap ELSE Normalized(model)
ASSUME ResponseRoundTrip ==
  \A d, t, c, r \in {"", "x", "y"} :
    LET got == ResponseText(BuildResponse([delta |-> d, thought |-> t, completion |-> c, reasoning |-> r]))
        Said(whole, delta) == IF whole # "" THEN <<whole>> ELSE IF delta # "" THEN <<delta>> ELSE <<>>
    IN  got = <<Said(c, d), Said(r, t)>>
=============================================================================
