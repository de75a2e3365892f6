--------------------------- MODULE JsonRpcProvider ---------------------------
(***************************************************************************)
(* One instance of providers/rpc.py:JsonRpcProvider: the sequence of       *)
(* JSON-RPC calls behind each of its uses, the attempts of a call with     *)
(* their retries, the status of the provider and its circuit breaker.      *)
(*                                                                         *)
(* A use is what a caller awaits: "acquire" (acquire_l0), "transaction"    *)
(* and "receipt" (api/rpc.py: validate_chain_id, then one read) and        *)
(* "status" (api/providers.py: validate_chain_id only).  The application   *)
(* builds an instance per request and uses it once (MaxUses = 1); further  *)
(* uses of an instance, one after the other, are what the circuit is for.  *)
(*                                                                         *)
(* The node on the other side is arbitrary: an attempt ends in any failure *)
(* of AttemptFailures, a call in any result of Results.                    *)
(***************************************************************************)
EXTENDS EvidenceStatus, Naturals

CONSTANTS MaxRetries,   \* max(config.max_retries, 0)
          MaxUses       \* bound on the uses of the instance

ASSUME ProviderAssumption == MaxRetries \in Nat /\ MaxUses \in Nat

CircuitThreshold == 3

VARIABLES
  use,       \* the use that runs or ran last
  pc,        \* "idle", "check" before _check_circuit, "attempt" in the loop
  call,      \* the method of _call_json_rpc
  attempt,   \* attempts of the call that have failed
  got,       \* the results of this use so far, by method
  sent,      \* requests sent in this use
  outcome,   \* what the use returned or raised
  status,    \* self._status
  failures,  \* self._failure_count
  circuit,   \* _circuit_opened_at: None, set, or set and the cooldown is over
  uses

vars == <<use, pc, call, attempt, got, sent, outcome, status, failures, circuit, uses>>

Uses == {"acquire", "transaction", "receipt", "status"}

Methods == {"eth_chainId", "eth_getTransactionByHash", "eth_getTransactionReceipt", "eth_getBlock"}

\* What a method's result is to the code: null, not an object, an object,
\* an object with a blockNumber; a chain id that is expected, another or none.
Results(m) ==
  CASE m = "eth_chainId" -> {"expected", "other", "invalid"}
    [] m = "eth_getTransactionByHash" -> {"null", "scalar", "object"}
    [] m = "eth_getTransactionReceipt" -> {"null", "scalar", "object", "mined"}
    [] m = "eth_getBlock" -> {"null", "object"}

NoResult == "none"

AllResults == {NoResult} \cup UNION {Results(m) : m \in Methods}

\* The errors an attempt raises, whose status the provider takes over.  Every
\* method is in READ_ONLY_METHODS, so all that is transient is retried: a
\* timeout, a rate limit, a 5xx, a network error; not a 4xx, a malformed
\* answer or an error object.  Whether the text says "not found" is kept for
\* FAILED errors only, the ones acquire_l0 asks it of.
TransientErrors == RpcFailures
PermanentErrors == {e \in RpcFailures : e.status = "FAILED"}

Pending == [kind |-> "pending"]
Value(v) == [kind |-> "value", result |-> v]

Outcomes == {Pending} \cup RpcAnswers \cup {Value(v) : v \in AllResults}

Init ==
  /\ use = "status" /\ pc = "idle" /\ call = "eth_chainId" /\ attempt = 0
  /\ got = [m \in Methods |-> NoResult] /\ sent = 0 /\ outcome = Pending
  /\ status = "UNKNOWN" /\ failures = 0 /\ circuit = "closed" /\ uses = 0

-----------------------------------------------------------------------------
(* One use: every one begins with validate_chain_id.                       *)

Use(u) ==
  /\ pc = "idle" /\ uses < MaxUses
  /\ use' = u /\ pc' = "check" /\ call' = "eth_chainId"
  /\ got' = [m \in Methods |-> NoResult] /\ sent' = 0 /\ outcome' = Pending
  /\ uses' = uses + 1
  /\ UNCHANGED <<attempt, status, failures, circuit>>

EndWith(o) == pc' = "idle" /\ outcome' = o /\ call' = call

CallNext(m) == pc' = "check" /\ call' = m /\ outcome' = outcome

\* _check_circuit, once per call and not per attempt.
PassCircuit ==
  /\ pc = "check" /\ circuit # "open"
  /\ failures' = IF circuit = "cooled" THEN 0 ELSE failures
  /\ pc' = "attempt" /\ circuit' = "closed"
  /\ UNCHANGED <<use, call, attempt, got, sent, outcome, status, uses>>

\* Mutated form: a call waits for the cooldown instead of failing.
AwaitCooldown == pc = "check" /\ circuit = "open" /\ UNCHANGED vars

FailAtCircuit ==
  /\ pc = "check" /\ circuit = "open"
  /\ EndWith(Failure("FAILED", FALSE))
  /\ UNCHANGED <<use, attempt, got, sent, status, failures, circuit, uses>>

\* The cooldown has passed.
Cooldown ==
  /\ circuit = "open" /\ circuit' = "cooled"
  /\ UNCHANGED <<use, pc, call, attempt, got, sent, outcome, status, failures, uses>>

-----------------------------------------------------------------------------
(* One attempt of _call_json_rpc.                                          *)

\* Mutated form: the loop has no last attempt.
RetryForever ==
  /\ pc = "attempt"
  /\ \E e \in TransientErrors : status' = e.status
  /\ attempt' = IF attempt < MaxRetries THEN attempt + 1 ELSE 0
  /\ sent' = sent + 1
  /\ UNCHANGED <<use, pc, call, got, outcome, failures, circuit, uses>>

\* A retryable failure with attempts left: backoff, then the next attempt.
Retry ==
  /\ pc = "attempt" /\ attempt < MaxRetries
  /\ \E e \in TransientErrors : status' = e.status
  /\ attempt' = attempt + 1 /\ sent' = sent + 1
  /\ UNCHANGED <<use, pc, call, got, outcome, failures, circuit, uses>>

\* Mutated form: off by one.
RecordFailureLate ==
  /\ failures' = failures + 1
  /\ circuit' = IF failures + 1 > CircuitThreshold THEN "open" ELSE circuit

\* _record_failure.
RecordFailure ==
  /\ failures' = failures + 1
  /\ circuit' = IF failures + 1 >= CircuitThreshold THEN "open" ELSE circuit

\* Mutated form: acquire carries on without the block.
GiveUpOnBlock ==
  /\ pc = "attempt"
  /\ \E e \in PermanentErrors \cup (IF attempt = MaxRetries THEN TransientErrors ELSE {}) :
       /\ status' = e.status
       /\ EndWith(IF call = "eth_getBlock" THEN Payload(e.status, FALSE, FALSE) ELSE e)
  /\ RecordFailure
  /\ attempt' = 0 /\ sent' = sent + 1
  /\ UNCHANGED <<use, got, uses>>

\* Any other failure is counted and raised.
GiveUp ==
  /\ pc = "attempt"
  /\ \E e \in PermanentErrors \cup (IF attempt = MaxRetries THEN TransientErrors ELSE {}) :
       status' = e.status /\ EndWith(e)
  /\ RecordFailure
  /\ attempt' = 0 /\ sent' = sent + 1
  /\ UNCHANGED <<use, got, uses>>

\* A result: _set_ok, _record_success.
Answered(m, v) ==
  /\ pc = "attempt" /\ call = m
  /\ v \in Results(m) /\ got' = [got EXCEPT ![m] = v]
  /\ failures' = 0 /\ circuit' = "closed"
  /\ attempt' = 0 /\ sent' = sent + 1
  /\ UNCHANGED <<use, uses>>

-----------------------------------------------------------------------------
(* The use goes on with the result.                                        *)

\* Mutated form: the chain is only looked at when it answers nonsense.
ChainIdUnchecked ==
  /\ \E v \in {"expected", "other"} : Answered("eth_chainId", v)
  /\ status' = "OK"
  /\ CASE use = "status" -> EndWith(Value("expected"))
       [] use = "receipt" -> CallNext("eth_getTransactionReceipt")
       [] use \in {"acquire", "transaction"} -> CallNext("eth_getTransactionByHash")

\* chain_id and validate_chain_id: an answer that is no number raises with
\* the status OK, another chain with the status FAILED.
ChainIdAnswered ==
  \/ /\ Answered("eth_chainId", "expected") /\ status' = "OK"
     /\ CASE use = "status" -> EndWith(Value("expected"))
          [] use = "receipt" -> CallNext("eth_getTransactionReceipt")
          [] use \in {"acquire", "transaction"} -> CallNext("eth_getTransactionByHash")
  \/ /\ Answered("eth_chainId", "other") /\ status' = "FAILED"
     /\ EndWith(Failure("FAILED", FALSE))
  \/ /\ Answered("eth_chainId", "invalid") /\ status' = "OK"
     /\ EndWith(Failure("FAILED", FALSE))

\* get_transaction, read by acquire or handed to the route.
TransactionAnswered ==
  \E v \in Results("eth_getTransactionByHash") :
    /\ Answered("eth_getTransactionByHash", v) /\ status' = "OK"
    /\ CASE use = "transaction" -> EndWith(Value(v))
         [] use = "acquire" /\ v = "null" -> EndWith(Failure("FAILED", TRUE))
         [] use = "acquire" /\ v # "null" -> CallNext("eth_getTransactionReceipt")

\* Mutated form: a missing receipt is an empty one.
ReceiptMissingIsFine ==
  \E v \in Results("eth_getTransactionReceipt") :
    /\ Answered("eth_getTransactionReceipt", v) /\ status' = "OK"
    /\ IF use = "acquire" /\ v = "mined" THEN CallNext("eth_getBlock")
       ELSE EndWith(IF use = "acquire" THEN Payload("OK", FALSE, FALSE) ELSE Value(v))

\* get_transaction_receipt: in acquire a missing one degrades the provider
\* and ends the use, one that is not an object raises AttributeError.
ReceiptAnswered ==
  \E v \in Results("eth_getTransactionReceipt") :
    /\ Answered("eth_getTransactionReceipt", v)
    /\ status' = IF use = "acquire" /\ v = "null" THEN "DEGRADED" ELSE "OK"
    /\ CASE use = "receipt" -> EndWith(Value(v))
         [] use = "acquire" /\ v = "null" -> EndWith(Payload("DEGRADED", FALSE, FALSE))
         [] use = "acquire" /\ v = "scalar" -> EndWith(Escape)
         [] use = "acquire" /\ v = "object" -> EndWith(Payload("OK", FALSE, FALSE))
         [] use = "acquire" /\ v = "mined" -> CallNext("eth_getBlock")

\* get_block; a missing block is not looked at.
BlockAnswered ==
  \E v \in Results("eth_getBlock") :
    /\ Answered("eth_getBlock", v) /\ status' = "OK"
    /\ EndWith(Payload("OK", FALSE, FALSE))

Step == PassCircuit \/ FailAtCircuit \/ Retry \/ GiveUp
          \/ ChainIdAnswered \/ TransactionAnswered \/ ReceiptAnswered \/ BlockAnswered

Next == (\E u \in Uses : Use(u)) \/ Step \/ Cooldown

Spec == Init /\ [][Next]_vars

\* Every await of a use is an HTTP call or a bounded sleep, under a timeout.
FairSpec == Spec /\ WF_vars(Step)

-----------------------------------------------------------------------------
(* Properties.                                                             *)

\* The types of the variables; the failures stop at the threshold of the
\* circuit, and a use makes at most four calls and sends none of them more
\* than MaxRetries + 1 times.
TypeOK ==
  /\ use \in Uses /\ pc \in {"idle", "check", "attempt"} /\ call \in Methods
  /\ attempt \in 0..MaxRetries
  /\ got \in [Methods -> AllResults]
  /\ sent \in 0..(4 * (MaxRetries + 1))
  /\ outcome \in Outcomes
  /\ status \in {"UNKNOWN", "OK", "DEGRADED", "TIMEOUT", "FAILED"}
  /\ failures \in 0..CircuitThreshold /\ circuit \in {"closed", "open", "cooled"}
  /\ uses \in 0..MaxUses

\* acquire ends in one of the answers acquire_l0 was written for, whatever
\* its calls and their retries ended in: the assumption AuditPipeline makes.
AcquireAnswersAsExpected ==
  use = "acquire" /\ outcome # Pending => outcome \in RpcAnswers

\* acquire degrades a payload, and with it its evidence, exactly when the
\* receipt is missing, whatever failed and was retried on the way.  An OK
\* payload lacks the block at most: that of a transaction which is not mined,
\* or, the one loss nobody is told of, a block the node answered with null.
DegradedMeansNoReceipt ==
  use = "acquire" /\ outcome.kind = "payload" =>
    LET missing == {m \in Methods : got[m] \in {NoResult, "null"}} IN
    /\ outcome.provider = status /\ status \in {"OK", "DEGRADED"}
    /\ status = "DEGRADED" => missing = {"eth_getTransactionReceipt", "eth_getBlock"}
    /\ status = "OK" =>
         /\ missing \subseteq {"eth_getBlock"}
         /\ missing # {} => \/ got["eth_getTransactionReceipt"] = "object"
                            \/ got["eth_getBlock"] = "null"

\* Nothing is read from, and nothing returned of, an endpoint whose chain was
\* not checked in the same use.
NothingFromAnotherChain ==
  \/ \E m \in Methods \ {"eth_chainId"} : got[m] # NoResult
  \/ outcome.kind \in {"payload", "value"}
  => got["eth_chainId"] = "expected"

\* The circuit is open, or about to be tried again, after three failures in a
\* row and not before; a use fails at most once, so an instance that serves
\* one request, as the application builds them, never opens it.
CircuitTakesThreeUses ==
  /\ circuit # "closed" <=> failures = CircuitThreshold
  /\ failures <= uses

\* docs/API.md:199, evidence is UNKNOWN when its transaction does not exist.
\* Violated: acquire_l0 looks for "not found" in the text of any FAILED error,
\* and a node may say it of a method, a header or a host.
UnknownMeansAbsent ==
  use = "acquire" /\ outcome.kind = "error" /\ L0Status(outcome) = "UNKNOWN" =>
    got["eth_getTransactionByHash"] = "null"

\* BaseProvider.acquire must never block indefinitely: every use ends.
EveryUseEnds == pc # "idle" ~> pc = "idle"
=============================================================================
