------------------------------ MODULE DefiScan ------------------------------
(***************************************************************************)
(* GET /v1/intel/defi/status and POST /v1/agent/intel/defi/{scan, pools,   *)
(* pool-activity}: one coroutine per chain asks the subgraph of the chain, *)
(* the scan twice, for its status and then for its pools.                  *)
(*                                                                         *)
(* Pools and swaps are rows a reply has or has not; a warning is named for *)
(* what it says.                                                           *)
(***************************************************************************)
EXTENDS ClientRequest, Sequences

CONSTANTS DefiRequests   \* the requests that can arrive

DefiRoutes == {"status", "scan", "pools", "activity"}

ASSUME DefiAssumption ==
  \A g \in DefiRequests :
    /\ g.route \in DefiRoutes
    /\ g.route \in {"pools", "activity"} => Len(g.chains) = 1

-----------------------------------------------------------------------------
(* What TheGraphProvider.query can end in.                                 *)

GraphReply(errors, meta, rows) ==
  [kind |-> "payload", errors |-> errors, meta |-> meta, rows |-> rows]
GraphFailed == [kind |-> "error"]     \* a ProviderError
NotAsked == [kind |-> "none"]

MetaStates == {"absent", "clean", "indexing_errors"}

\* A _meta query asks for no rows; one with errors may still have some.
MetaReplies == {GraphReply(e, m, FALSE) : e \in BOOLEAN, m \in MetaStates}
RowReplies == {GraphReply(e, m, r) : e, r \in BOOLEAN, m \in MetaStates}

\* The warnings the provider puts beside a payload.
QueryWarnings(reply) ==
  {w \in {"graph_error", "no_meta", "indexing_errors"} :
     \/ w = "graph_error" /\ reply.errors
     \/ w = "no_meta" /\ reply.meta = "absent"
     \/ w = "indexing_errors" /\ reply.meta = "indexing_errors"}

-----------------------------------------------------------------------------
Defi == given.route \in DefiRoutes

\* _dedupe_chains; an empty list is a 422.
Requested == {given.chains[i] : i \in 1..Len(given.chains)}

\* The status is free, the other routes need the x402 channel.
DefiRefusal ==
  CASE Len(given.chains) = 0 -> "422"
    [] Len(given.chains) > 0 /\ given.route # "status" /\ ~given.x402 -> "503"
    [] Len(given.chains) > 0 /\ (given.route = "status" \/ given.x402) -> "none"

FirstPhase == IF given.route \in {"status", "scan"} THEN "status" ELSE "query"

DefiInit ==
  /\ given \in DefiRequests
  /\ tasks = IF DefiRefusal = "none"
             THEN [c \in Requested |-> [phase |-> FirstPhase, status |-> NotAsked,
                                        query |-> NotAsked]]
             ELSE NoTasks
  /\ answer = Unanswered

DefiRefuse ==
  /\ Defi /\ DefiRefusal # "none"
  /\ AnswerAtOnce(HttpError(DefiRefusal))

AfterStatus == IF given.route = "scan" THEN "query" ELSE "done"

\* get_chain_status: a chain that is not configured is not asked, and a
\* ProviderError is a warning; anything else, a body that is not JSON say, is
\* raised.
AskStatus(c) ==
  /\ Defi /\ tasks[c].phase = "status"
  /\ \/ /\ c \notin given.configured
        /\ tasks' = [tasks EXCEPT ![c].phase = "done"]
        /\ UNCHANGED <<given, answer>>
     \/ c \in given.configured /\ Raise(c, "500")
     \/ /\ c \in given.configured
        /\ \E reply \in MetaReplies \cup {GraphFailed} :
             tasks' = [tasks EXCEPT ![c].phase = AfterStatus, ![c].status = reply]
        /\ UNCHANGED <<given, answer>>

\* run_pools_scan and run_pool_activity: 503 without a subgraph, 502 for a
\* ProviderError; the scan catches these two and nothing else.
AskRows(c) ==
  /\ Defi /\ tasks[c].phase = "query"
  /\ \/ c \notin given.configured /\ Raise(c, "503")
     \/ c \in given.configured /\ Raise(c, "500")
     \/ c \in given.configured /\ given.route # "scan" /\ Raise(c, "502")
     \/ /\ c \in given.configured
        /\ \E reply \in RowReplies \cup {GraphFailed} :
             /\ reply = GraphFailed => given.route = "scan"
             /\ tasks' = [tasks EXCEPT ![c].phase = "done", ![c].query = reply]
        /\ UNCHANGED <<given, answer>>

ReplyWarnings(reply) ==
  CASE reply.kind = "payload" -> QueryWarnings(reply)
    [] reply.kind = "error" -> {"failed"}
    [] reply.kind = "none" -> {}

StatusWarnings(c) ==
  IF c \notin given.configured THEN {"unconfigured"} ELSE ReplyWarnings(tasks[c].status)

\* Rows never come without the caveat of their route.
Caveat == IF given.route = "activity" THEN "absence_no_proof" ELSE "index_may_lag"

\* Mutated form: the scan keeps the rows and drops what was said of them.
RowWarningsDropped(c) ==
  IF tasks[c].query.kind = "payload" THEN {Caveat} ELSE ReplyWarnings(tasks[c].query)

RowWarnings(c) ==
  ReplyWarnings(tasks[c].query) \cup
    (IF tasks[c].query.kind = "payload" THEN {Caveat} ELSE {})

MetaOf(reply) == IF reply.kind = "payload" THEN reply.meta ELSE "absent"

\* A status and a scan report the meta of the status query, the other routes
\* that of the rows.
ChainResult(c) ==
  [rows |-> tasks[c].query.kind = "payload" /\ tasks[c].query.rows,
   meta |-> MetaOf(IF FirstPhase = "status" THEN tasks[c].status ELSE tasks[c].query),
   warnings |-> (IF FirstPhase = "status" THEN StatusWarnings(c) ELSE {})
                  \cup (IF given.route = "status" THEN {} ELSE RowWarnings(c))]

DefiAnswer ==
  /\ Defi /\ DefiRefusal = "none"
  /\ AnswerGathered([status |-> "200", results |-> [c \in DOMAIN tasks |-> ChainResult(c)]])

DefiNext ==
  \/ DefiRefuse
  \/ Defi /\ \E c \in DOMAIN tasks : AskStatus(c) \/ AskRows(c)
  \/ DefiAnswer

-----------------------------------------------------------------------------
(* Properties.                                                             *)

Answered(reply) == reply.kind = "payload"

\* A reply nothing has to be said about.
Sound(reply) == Answered(reply) /\ ~reply.errors /\ reply.meta = "clean"

\* Every chain asked for has its result, whatever the others did; a result
\* without rows is not silent about it, and one that warns of nothing but its
\* caveat rests on replies that were all sound, the reply behind the rows
\* included, whose meta the scan does not report.
ScanAccountsForEveryChain ==
  Defi /\ answer.status = "200" =>
    /\ DOMAIN answer.results = Requested
    /\ \A c \in Requested :
         LET result == answer.results[c] IN
         /\ result.rows => c \in given.configured /\ Answered(tasks[c].query)
         /\ ~result.rows /\ given.route # "status" =>
              \/ Caveat \in result.warnings /\ Answered(tasks[c].query)
              \/ {"unconfigured", "failed"} \cap result.warnings # {}
         /\ result.warnings \subseteq {Caveat} =>
              /\ c \in given.configured
              /\ FirstPhase = "status" => Sound(tasks[c].status)
              /\ given.route # "status" => Sound(tasks[c].query)
=============================================================================
