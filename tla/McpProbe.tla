------------------------------ MODULE McpProbe ------------------------------
(***************************************************************************)
(* GET /v1/integrations/mcp/{status, tools} and the /v1/agent-jobs routes: *)
(* the MCP service is asked for its health, then for its capabilities, and *)
(* is READY only when both documents say so.  Documents are external.      *)
(***************************************************************************)
EXTENDS ClientRequest

CONSTANTS
  Tools,           \* the tools a catalogue may name
  RequiredTools,   \* vector52_status and vector52_wallet_flow
  McpRequests      \* the requests that can arrive

McpRoutes == {"mcp_status", "mcp_tools", "agent_job"}

ASSUME McpAssumption ==
  /\ RequiredTools \subseteq Tools
  /\ \A g \in McpRequests :
       g.route \in McpRoutes /\ g.url \in {"none", "not_http", "invalid", "ok"}

-----------------------------------------------------------------------------
(* What a GET ends in: no response; an HTTP error or a body that is not    *)
(* JSON, found out when both are in; JSON that is not an object; or one.   *)

NoResponse == [kind |-> "unreachable"]
BadResponse == [kind |-> "bad"]
NotObject == [kind |-> "not_object"]
NotRead == [kind |-> "none"]

\* health: whether its status is ok and its service vector52-mcp, and whether
\* its version is a text, or absent.
HealthReplies ==
  {NoResponse, BadResponse, NotObject} \cup
    [kind : {"object"}, identifies : BOOLEAN, version_is_text : BOOLEAN]

\* capabilities: whether it names the service and lists tools, whether the
\* items are descriptors, whose; its status, and the backend it reports.
CapabilityReplies ==
  {NoResponse, BadResponse, NotObject} \cup
    [kind : {"object"}, complete : BOOLEAN, wellformed : BOOLEAN, tools : SUBSET Tools,
     ready : BOOLEAN, backend : {"ready", "not_ready", "not_object"}]

Mcp == given.route \in McpRoutes

Probe(phase, health, capabilities) ==
  [phase |-> phase, health |-> health, capabilities |-> capabilities]

McpInit ==
  /\ given \in McpRequests
  /\ tasks = IF given.route # "agent_job" /\ given.url = "ok"
             THEN [t \in {"probe"} |-> Probe("health", NotRead, NotRead)]
             ELSE NoTasks
  /\ answer = Unanswered

Status(state, tools, reason) ==
  [status |-> "200", state |-> state, tools |-> tools, reason |-> reason]

\* No URL; one that is not HTTP(S), which _mcp_http_base refuses; one that httpx
\* refuses, with an InvalidURL nobody catches; the agent jobs, which the backend
\* never dispatches.
McpAtOnce ==
  /\ Mcp /\ tasks = NoTasks
  /\ AnswerAtOnce(
       CASE given.route = "agent_job" -> HttpError(IF given.url = "none" THEN "503" ELSE "405")
         [] given.route # "agent_job" ->
              CASE given.url = "none" -> Status("UNAVAILABLE", {}, "not_connected")
                [] given.url = "not_http" -> Status("UNKNOWN", {}, "not_http")
                [] given.url \notin {"none", "not_http"} -> HttpError("500"))

\* GET /health: a response of any kind lets the second request go out.
ReadHealth ==
  /\ Mcp /\ "probe" \in DOMAIN tasks /\ tasks["probe"].phase = "health"
  /\ \E reply \in HealthReplies :
       tasks' = [tasks EXCEPT !["probe"] =
         Probe(IF reply = NoResponse THEN "done" ELSE "capabilities", reply, NotRead)]
  /\ UNCHANGED <<given, answer>>

\* raise_for_status and json, then the checks below: what has no .get raises.
Unread(health, capabilities) == {NoResponse, BadResponse} \cap {health, capabilities} # {}
Crashes(health, capabilities) ==
  /\ ~Unread(health, capabilities)
  /\ health # NotObject =>
       /\ health.identifies
       /\ capabilities # NotObject =>
            capabilities.complete /\ capabilities.wellformed /\ capabilities.backend = "not_object"

\* GET /capabilities; then both documents are judged.
ReadCapabilities ==
  /\ Mcp /\ "probe" \in DOMAIN tasks /\ tasks["probe"].phase = "capabilities"
  /\ \E reply \in CapabilityReplies :
       LET health == tasks["probe"].health IN
       \/ Crashes(health, reply) /\ Raise("probe", "500")
       \/ /\ ~Crashes(health, reply)
          /\ tasks' = [tasks EXCEPT !["probe"] = Probe("done", health, reply)]
          /\ UNCHANGED <<given, answer>>

\* The checks of _probe_mcp in their order, the last one apart.
Reason(health, capabilities) ==
  CASE Unread(health, capabilities) -> "unreachable"
    [] ~Unread(health, capabilities) ->
         CASE ~health.identifies -> "not_vector52"
           [] health.identifies /\ ~capabilities.complete -> "incomplete"
           [] health.identifies /\ capabilities.complete ->
                IF capabilities.wellformed THEN "handshake" ELSE "contract"

\* Mutated form: the backend's own state is not asked for.
ReadyWithoutBackend(health, capabilities) ==
  /\ Reason(health, capabilities) = "handshake"
  /\ capabilities.ready /\ RequiredTools \subseteq capabilities.tools

Ready(health, capabilities) ==
  /\ Reason(health, capabilities) = "handshake"
  /\ capabilities.ready /\ capabilities.backend = "ready"
  /\ RequiredTools \subseteq capabilities.tools

\* The version of a service that identified itself goes into the status as it
\* came: one that is no text is no McpStatusResponse.
VersionRefused(health, capabilities) ==
  /\ given.route = "mcp_status"
  /\ Reason(health, capabilities) \in {"incomplete", "contract", "handshake"}
  /\ ~health.version_is_text

\* The tools are listed by a service that is ready, on the one route.
McpResponse(health, capabilities) ==
  IF VersionRefused(health, capabilities) THEN HttpError("500")
  ELSE IF Ready(health, capabilities)
       THEN Status("READY", IF given.route = "mcp_tools" THEN capabilities.tools ELSE {}, "verified")
       ELSE Status("UNKNOWN", {}, Reason(health, capabilities))

McpAnswer ==
  /\ Mcp /\ "probe" \in DOMAIN tasks
  /\ AnswerGathered(McpResponse(tasks["probe"].health, tasks["probe"].capabilities))

McpNext == McpAtOnce \/ ReadHealth \/ ReadCapabilities \/ McpAnswer

-----------------------------------------------------------------------------
(* Properties.                                                             *)

\* READY, and a tool, are shown only of a service that answered both requests
\* of this very handshake, identified itself, reported its backend ready and
\* has every tool the agents are told to call.
ReadyIsVerified ==
  Mcp /\ answer.status = "200" =>
    /\ answer.tools # {} => answer.state = "READY" /\ RequiredTools \subseteq answer.tools
    /\ answer.state = "READY" =>
         /\ given.url = "ok"
         /\ tasks["probe"].health.kind = "object" /\ tasks["probe"].health.identifies
         /\ tasks["probe"].capabilities.kind = "object"
         /\ tasks["probe"].capabilities.ready /\ tasks["probe"].capabilities.backend = "ready"
         /\ RequiredTools \subseteq tasks["probe"].capabilities.tools
=============================================================================
