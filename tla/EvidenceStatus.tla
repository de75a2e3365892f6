--------------------------- MODULE EvidenceStatus ---------------------------
(***************************************************************************)
(* The status algebra of an audit: what a provider can answer, the status  *)
(* acquire_l0 and acquire_l1 give the evidence record made from the        *)
(* answer, the case status AuditPipeline.run computes from the records and *)
(* the envelope status _run_job publishes for the case.                    *)
(*                                                                         *)
(* A payload, a message and an identifier are abstracted away: an answer   *)
(* keeps what the code branches on and nothing else.                       *)
(***************************************************************************)

Levels == {"L0", "L1"}              \* ethereum_rpc, the_graph

EvidenceStatuses == {"COMPLETE", "PARTIAL", "WARNING", "FAILED", "UNKNOWN"}

FinalCaseStatuses == {"COMPLETE", "DEGRADED", "FAILED"}

FinalJobStatuses == {"COMPLETE", "PARTIAL", "FAILED"}

-----------------------------------------------------------------------------
(* What a provider call can end in.                                        *)

Payload(provider, errors, indexing) ==
  [kind |-> "payload", provider |-> provider, has_errors |-> errors,
   has_indexing_errors |-> indexing]

\* A ProviderError: its status, and whether its text contains "not found".
Failure(status, missing) ==
  [kind |-> "error", status |-> status, not_found |-> missing]

\* Any other exception: acquire_l0 and acquire_l1 catch ProviderError only.
Escape == [kind |-> "escape"]

\* The ways one JSON-RPC call raises: a timeout; an HTTP, network, circuit or
\* malformed-answer failure; a rate limit; an error object, whose own text
\* ("method not found") may contain the words acquire_l0 looks for.
RpcFailures ==
  {Failure("TIMEOUT", FALSE), Failure("FAILED", FALSE),
   Failure("DEGRADED", FALSE), Failure("FAILED", TRUE)}

\* JsonRpcProvider.acquire: a missing transaction raises a "not found" error,
\* a missing receipt returns early with the provider DEGRADED, everything
\* else, a missing block included, ends in _set_ok; a receipt that is not an
\* object raises AttributeError.
RpcAnswers ==
  {Payload("OK", FALSE, FALSE), Payload("DEGRADED", FALSE, FALSE),
   Failure("FAILED", TRUE), Escape} \cup RpcFailures

\* TheGraphProvider.acquire: errors in the answer, an indexing flag, neither
\* (a missing _meta and an oversized body are warnings only); a timeout; an
\* HTTP or network failure; response.json() on a body that is not JSON.
GraphAnswers ==
  {Payload(IF e THEN "DEGRADED" ELSE "OK", e, i) : e, i \in BOOLEAN}
    \cup {Failure("TIMEOUT", FALSE), Failure("FAILED", FALSE), Escape}

\* A provider that is not configured is None: a FAILED record, no call.
Unconfigured == Failure("FAILED", FALSE)

Answers(l, configured) ==
  CASE l \notin configured -> {Unconfigured}
    [] l \in configured /\ l = "L0" -> RpcAnswers
    [] l \in configured /\ l = "L1" -> GraphAnswers

-----------------------------------------------------------------------------
(* From an answer to the status of the evidence record.                    *)

L0Status(a) ==
  CASE a.kind = "payload" ->
         IF a.provider \in {"DEGRADED", "TIMEOUT"} THEN "PARTIAL" ELSE "COMPLETE"
    [] a.kind = "error" ->
         IF a.status = "FAILED" /\ a.not_found THEN "UNKNOWN" ELSE "FAILED"

L1Status(a) ==
  CASE a.kind = "payload" /\ a.has_errors -> "PARTIAL"
    [] a.kind = "payload" /\ ~a.has_errors ->
         IF a.has_indexing_errors THEN "WARNING" ELSE "COMPLETE"
    [] a.kind = "error" -> IF a.status = "FAILED" THEN "FAILED" ELSE "PARTIAL"

RecordStatus(l, configured, a) ==
  CASE l \notin configured -> "FAILED"
    [] l \in configured /\ l = "L0" -> L0Status(a)
    [] l \in configured /\ l = "L1" -> L1Status(a)

-----------------------------------------------------------------------------
(* From the records to the case, and from the case to the job.             *)

CaseStatusOf(statuses) ==
  CASE "FAILED" \in statuses /\ "COMPLETE" \notin statuses -> "FAILED"
    [] "FAILED" \in statuses /\ "COMPLETE" \in statuses -> "DEGRADED"
    [] "FAILED" \notin statuses ->
         IF statuses \cap {"PARTIAL", "WARNING"} # {} THEN "DEGRADED" ELSE "COMPLETE"

\* Mutated form: the case status is published as it is.
EnvelopeUnmapped(status) == status

EnvelopeOf(status) ==
  CASE status = "DEGRADED" -> "PARTIAL"
    [] status = "PENDING"  -> "RUNNING"
    [] status \notin {"DEGRADED", "PENDING"} -> status
=============================================================================
