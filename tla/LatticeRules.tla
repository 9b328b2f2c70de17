----------------------------- MODULE LatticeRules -----------------------------
(***************************************************************************)
(* What the engine computes for the other engines of the lattice: which    *)
(* peers may fulfil a capability and in which order, which engine has a    *)
(* project or an agent, what this engine advertises, and what the tensors  *)
(* of an inference say.  These are functions of their arguments; when they *)
(* are called and what happens in between is in Lattice.                   *)
(*                                                                         *)
(* Texts, hosts and targets are strings that are compared and never taken  *)
(* apart; "" is what the code treats as absent.                            *)
(***************************************************************************)
EXTENDS Integers, Sequences, SequencesExt, FiniteSets, TLC

CONSTANT Nothing   \* no answer, no result

-----------------------------------------------------------------------------
(* federation: capabilities and routes *)

\* An empty name is "agent"; a map that is not configured has its default.
Normalized(cap) == IF cap = "" THEN "agent" ELSE cap
Accepted(cap) == IF Normalized(cap) \in {"agent", "instruct"}
                 THEN <<"thinking", "instruct">> ELSE <<Normalized(cap)>>
FederatedNames == UNION {{cap} \cup Range(Accepted(cap)) : cap \in {"agent", "instruct"}}

\* What a peer answered: Nothing, or the endpoints of its Status.
Endpoint == [cap : STRING, healthy : BOOLEAN, gpus : SUBSET Nat]

\* The members of a sequence, each where it is first.
Firsts(s) ==
  LET at == SelectSeq([i \in 1..Len(s) |-> i], LAMBDA i : \A j \in 1..(i - 1) : s[j] # s[i])
  IN  [k \in 1..Len(at) |-> s[at[k]]]
Position(x, s) == IF x \in Range(s) THEN CHOOSE i \in 1..Len(s) : s[i] = x ELSE Len(s) + 1

(* known: the peers that were asked, with their answers.  Healthy routes go
   first, then the better capability, then the preferred peer. *)
PlanRoutes(cap, peers, known) ==
  LET accepted == Accepted(cap)
      answered == {k \in Range(known) : k.status # Nothing}
      listed == UNION {{[peer |-> k.peer, cap |-> ep.cap, healthy |-> ep.healthy] :
                          ep \in {e \in k.status : e.cap \in Range(accepted)}} : k \in answered}
      lazy == {[peer |-> k.peer, cap |-> accepted[1], healthy |-> FALSE] : k \in answered}
      Key(r) == <<IF r.healthy THEN 0 ELSE 1, Position(r.cap, accepted), Position(r.peer, peers)>>
      Before(r, s) == \E i \in 1..3 : /\ Key(r)[i] < Key(s)[i]
                                      /\ \A j \in 1..(i - 1) : Key(r)[j] = Key(s)[j]
  IN  SetToSortSeq(IF listed = {} THEN lazy ELSE listed, Before)

(* Why there is no route, and whether inference is ready: a peer that
   answered is a route, whatever it serves. *)
NoRouteReason(peers) == IF peers = <<>> THEN "no peers configured" ELSE "no peer answered"
InferenceReady(cap, peers, known) ==
  IF peers = <<>> THEN [ready |-> FALSE, detail |-> NoRouteReason(peers)]
  ELSE LET routes == PlanRoutes(cap, peers, known)
       IN  IF routes = <<>> THEN [ready |-> FALSE, detail |-> NoRouteReason(peers)]
           ELSE [ready |-> TRUE,
                 detail |-> IF Head(routes).healthy THEN "healthy" ELSE "unreported"]

\* The pins that peers report, and the largest number of GPUs.
GpuOccupancy(known, total) ==
  LET answered == {k \in Range(known) : k.status # Nothing}
  IN  <<UNION {UNION {ep.gpus : ep \in k.status} : k \in answered},
        IF answered = {} THEN 0
        ELSE CHOOSE n \in {total[k.peer] : k \in answered} :
               \A k \in answered : total[k.peer] <= n>>

(* A configured list of OIP peers, or else those of the federation. *)
OipPeers(configured, peers) == IF configured # <<>> THEN configured ELSE peers

(* ServerMetadata, ModelReady and ServerReady of this engine. *)
ModelReadyHere(name, peers, known, configured) ==
  IF Normalized(name) \in FederatedNames \cup {"agent"}
  THEN PlanRoutes(name, peers, known) # <<>>
  ELSE OipPeers(configured, peers) # <<>>
ServerReadyHere(peers, known, configured) ==
  InferenceReady("agent", peers, known).ready \/ OipPeers(configured, peers) # <<>>

-----------------------------------------------------------------------------
(* federation: the engine that has a project, or hosts an agent *)

(* hints: project and target of each peer; directory: what each target
   answers to PEERS (a sequence of hints) and AGENTS, or Nothing.  The last
   hint of a project counts, but the first that names the project wanted. *)
LastNamed(hints) ==
  [p \in {h.project : h \in Range(hints)} \ {""} |->
     hints[CHOOSE k \in 1..Len(hints) : /\ hints[k].project = p
                                        /\ \A m \in (k + 1)..Len(hints) : hints[m].project # p].target]

\* Only the seeds are asked for PEERS, not the targets they name.
HintsOf(seeds, directory) ==
  FlattenSeq([i \in 1..Len(seeds) |->
                IF directory[seeds[i]].peers = Nothing THEN <<>>
                ELSE SelectSeq(directory[seeds[i]].peers, LAMBDA h : h.target # "")])

\* The host of an agent: by the project it says it has, or as it was asked.
HostOf(want, s, directory, byProject) ==
  LET agents == SelectSeq(directory[s].agents, LAMBDA a : want \in {a.name, a.project})
      named == SelectSeq(<<Head(agents).project, directory[s].project>>,
                         LAMBDA p : p \in DOMAIN byProject)
  IN  IF named = <<>> THEN s ELSE byProject[Head(named)]

PeerTarget(want, hints, seeds, directory) ==
  LET usable == SelectSeq(hints, LAMBDA h : h.target # "")
      told == HintsOf(seeds, directory)
      hits == SelectSeq(usable \o told, LAMBDA h : h.project = want)
      byProject == LastNamed(usable \o told)
      targets == Firsts([k \in 1..Len(told) |-> told[k].target])
      asked == seeds \o SelectSeq(targets, LAMBDA t : t \notin Range(seeds))
      Hosts(s) == directory[s].agents # Nothing
                  /\ \E a \in Range(directory[s].agents) : want \in {a.name, a.project}
      hosts == SelectSeq(asked, Hosts)
  IN  IF want = "" THEN ""
      ELSE IF hits # <<>> THEN Head(hits).target
      ELSE IF hosts = <<>> THEN ""
      ELSE HostOf(want, Head(hosts), directory, byProject)

-----------------------------------------------------------------------------
(* surfaces and announce: what this engine says of itself *)

Loopback == {"", "localhost", "0.0.0.0"}

\* The configured host, the full name, the short name: the first that is public.
AdvertiseHost(configured, fqdn, short) ==
  LET public == SelectSeq(<<configured, fqdn, short>>, LAMBDA h : h \notin Loopback)
  IN  IF public = <<>> THEN "" ELSE Head(public)

\* A URL and a target are a host and a port.
NoUrl == <<"", 0>>
Rewritten(url, host) ==
  IF host # "" /\ url[1] \in Loopback \ {""} THEN <<host, url[2]>> ELSE url
PrimaryUi(override, host, port) ==
  LET candidate == Rewritten(override, host)
  IN  IF candidate[1] \notin Loopback THEN candidate
      ELSE IF host = "" THEN NoUrl ELSE <<host, port>>

LocalSurfaces(override, host, ports, healthy, gateway) ==
  LET url == PrimaryUi(override, host, ports.ui)
  IN  IF url = NoUrl THEN {}
      ELSE {[kind |-> k, url |-> url, healthy |-> healthy] : k \in {"primary", "health"}}
           \cup (IF host = "" THEN {}
                 ELSE {[kind |-> "gateway", url |-> <<host, ports.gateway>>, healthy |-> gateway]})

\* A peer on this machine, as other machines reach it.
CanonicalTarget(target, host) ==
  IF host # "" /\ target # NoUrl /\ target[1] \in Loopback THEN <<host, target[2]>> ELSE target

IsSelf(target, host, port) == target[2] = port /\ target[1] \in Loopback \cup {host}

(* The directory and the peers, each once, without this engine. *)
AnnounceTargets(directory, peers, host, port) ==
  SelectSeq(Firsts(IF directory = NoUrl THEN peers ELSE <<directory>> \o peers),
            LAMBDA t : ~IsSelf(t, host, port))

AnnounceTtl(configured) == IF configured > 0 THEN configured ELSE 90
Announced(host, port, surfaces, ttl) ==
  IF host = "" THEN Nothing
  ELSE [target |-> <<host, port>>, surfaces |-> surfaces, ttl |-> AnnounceTtl(ttl)]
AnnounceEvery(ttl) == LET third == AnnounceTtl(ttl) \div 3 IN IF third < 15 THEN 15 ELSE third

\* What each kind of ServerQuery fills in.
Answered(kind, hosted, materials) ==
  CASE kind \in {"unspecified", "remotes"} -> {"remotes", "head"}
    [] kind = "platforms" -> IF hosted THEN {"platforms"} ELSE {}
    [] kind = "resources" -> IF materials THEN {"objects"} ELSE {"note"}
    [] kind \in {"peers", "surfaces", "posture", "activities", "agents", "schedules"} -> {kind}
    [] OTHER -> {}

\* Names of the remotes, with the first URL that is listed for each.
Remotes(lines) ==
  [n \in {l.name : l \in Range(lines)} |->
     lines[CHOOSE i \in 1..Len(lines) : /\ lines[i].name = n
                                        /\ \A j \in 1..(i - 1) : lines[j].name # n].url]

Capabilities(peers, hosted, stt) ==
  {"agent", "webrtc"} \cup (IF hosted THEN {"mistral"} ELSE {}) \cup (IF stt THEN {"stt"} ELSE {})
  \cup (IF peers = <<>> THEN {} ELSE {"instruct"})

StatusEndpoints(peers, known, gpus) ==
  {[cap |-> "agent", healthy |-> TRUE, gpus |-> gpus]}
  \cup IF peers = <<>> THEN {}
       ELSE {[cap |-> "instruct", healthy |-> InferenceReady("agent", peers, known).ready,
              gpus |-> {}]}

(* The catalogue that is submitted to Signals: no entry has a schedule, and
   the claims are those of the declared activities. *)
Catalog(horizon) ==
  {[id |-> "interactive.agent_rtc", kind |-> "interactive", cron |-> "", horizon |-> horizon,
    claims |-> {<<"agent-rtc", 1>>, <<"token-metered", 0>>, <<"compute", 0>>}],
   [id |-> "mistral.signals_preprints", kind |-> "mistral_preprint", cron |-> "",
    horizon |-> horizon, claims |-> {<<"token-metered", 0>>}]}

\* RecordLineage: the event has a type of its own, and the request may ask for one.
Lineage(event, want, atlas) ==
  IF event.text # "json" THEN event.text
  ELSE IF want # "" /\ event.type # "" /\ want # event.type THEN "type differs"
  ELSE IF atlas = "up" THEN "accepted" ELSE "atlas failed"

-----------------------------------------------------------------------------
(* agents and platform: which request is served, refused or handed on *)

HostedAgents(credential) ==
  {"hermes"} \cup (IF credential THEN {"mistral-document", "mistral-workflow"} ELSE {})
ResolveAgent(name, credential) ==
  IF name \in HostedAgents(credential) THEN [agent |-> name, error |-> ""]
  ELSE [agent |-> "", error |-> IF name = "" THEN "agent is required" ELSE "not hosted"]
Billing(voice) == IF voice THEN "token-metered" ELSE "local"

Curated == {"arxiv", "biorxiv", "medrxiv"}

(* What is refused, and what is asked of whom otherwise.  The input of a
   workflow is an object, or the paper the caller named. *)
PaperRefused(kind) == IF kind \in Curated THEN "" ELSE "not a paper"
WorkflowRefused(req) ==
  IF req.name = "" THEN "no workflow"
  ELSE IF req.wait \notin {"yes", "no"} THEN "wait is not a boolean"
  ELSE CASE req.input = "absent" -> PaperRefused(req.kind)
         [] req.input = "object" -> ""
         [] OTHER -> "not an object"
Or(refused, ask) == IF refused = "" THEN ask ELSE refused

MistralAgent(agent, req, credential) ==
  IF ~credential THEN "no credential"
  ELSE IF ~req.json THEN "not json"
  ELSE IF agent = "mistral-document"
       THEN Or(PaperRefused(req.kind), "analyze")
  ELSE IF agent = "mistral-workflow" THEN Or(WorkflowRefused(req), "execute")
  ELSE "not a Mistral agent"

(* Outside a call a paper goes to Gaius, which needs no credential; within
   one it is a workflow of Mistral, and nothing else starts a workflow. *)
PlatformAsk(product, verb, req, credential, urgent) ==
  LET analyze == product = "document" /\ verb = "analyze"
      refused == IF req.url = "" THEN "no url" ELSE PaperRefused(req.kind)
  IN  IF analyze /\ ~urgent THEN Or(refused, "gaius")
      ELSE IF ~credential THEN "no credential"
      ELSE IF analyze THEN Or(refused, "workflow")
      ELSE IF product # "workflow" THEN "not served"
      ELSE CASE verb = "execute" -> IF urgent THEN Or(WorkflowRefused(req), "workflow")
                                    ELSE "not in a call"
             [] verb = "get" -> IF req.id = "" THEN "no id" ELSE "await"
             [] verb = "list" -> "names"
             [] OTHER -> "not served"

(* The events of a platform call.  An answer that holds the credential is
   withheld, and an error has it struck out. *)
PlatformEvents(answer, credential) ==
  IF answer.ok /\ credential \notin answer.words
  THEN <<"accepted", "deliverable", "completed">> ELSE <<"accepted", "failed">>
Struck(words, credential) == {IF w = credential THEN "***" ELSE w : w \in words}

PlatformDescribed(want, credential) ==
  IF ~credential THEN "FAILED_PRECONDITION"
  ELSE IF want \in {"", "mistral", "hermes/mistral@hermes"} THEN "OK" ELSE "NOT_FOUND"

(* Yield: a process that is attached ends; moshi's workload ends moshi. *)
Yielded(id, table, moshi) ==
  IF id \in DOMAIN table THEN [ended |-> table[id] \in {"term", "kill"}, left |-> DOMAIN table \ {id}]
  ELSE [ended |-> id = "hermes-agent-rtc" /\ moshi, left |-> DOMAIN table]

-----------------------------------------------------------------------------
(* oip_tensors: an inference as tensors *)

Names == {"prompt", "system_prompt", "tools", "messages"}

\* A text that is empty has no tensor.
BuildRequest(model, texts, params) ==
  [model |-> Normalized(model),
   inputs |-> SelectSeq([k \in 1..4 |-> LET n == <<"prompt", "system_prompt", "tools", "messages">>[k]
                                         IN  [name |-> n, text |-> texts[n]]],
                        LAMBDA t : t.text # ""),
   params |-> params]

\* The last tensor of a name counts; a capability is else the model's name.
ExtractInputs(req) ==
  LET at(n) == {i \in 1..Len(req.inputs) : req.inputs[i].name = n}
      text == [n \in Names |-> IF at(n) = {} THEN ""
                               ELSE req.inputs[CHOOSE i \in at(n) : \A j \in at(n) : j <= i].text]
      cap == IF req.params.capability # "" THEN req.params.capability ELSE Normalized(req.model)
  IN  [texts |-> text, cap |-> cap, model |-> IF req.model = "" THEN cap ELSE req.model]

\* An answer without deltas has a completion, if an empty one.
BuildResponse(out) ==
  SelectSeq(<<[name |-> "text_delta", text |-> out.delta],
              [name |-> "reasoning_delta", text |-> out.thought],
              [name |-> "completion", text |-> out.completion],
              [name |-> "reasoning", text |-> out.reasoning]>>,
            LAMBDA t : \/ t.text # ""
                       \/ t.name = "completion" /\ out.delta = "" /\ out.thought = "")

\* Deltas add up; a whole text replaces what there is.  Texts are sequences here.
ResponseText(resp) ==
  LET Read(whole, delta) ==
        FoldLeft(LAMBDA acc, t : IF t.name = delta THEN Append(acc, t.text)
                                 ELSE IF t.name = whole /\ t.text # "" THEN <<t.text>>
                                 ELSE acc, <<>>, resp)
  IN  <<Read("completion", "text_delta"), Read("reasoning", "reasoning_delta")>>
=============================================================================
