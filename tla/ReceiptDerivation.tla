-------------------------- MODULE ReceiptDerivation --------------------------
(***************************************************************************)
(* What is derived from the logs of a preserved receipt: whether they      *)
(* corroborate an event The Graph indexed, the ERC-20 transfers in them,   *)
(* and the part of a swap that is the subject's.  Pure functions, called   *)
(* here as the request of a route each.                                    *)
(*                                                                         *)
(* A value a payload does not have is NoValue; hexadecimal and case are    *)
(* normalised by _lower and _to_int and left out.                          *)
(***************************************************************************)
EXTENDS ClientRequest, Sequences

CONSTANTS
  Fields,             \* the fields of a log an event may state
  FromReceipt,        \* those a log without them has from its receipt
  DerivationRequests  \* the calls that can be made

DerivationRoutes == {"reconcile", "decode", "contribution"}

ASSUME DerivationAssumption ==
  /\ FromReceipt \subseteq Fields
  /\ \A g \in DerivationRequests :
       /\ g.route \in DerivationRoutes
       /\ g.route = "reconcile" => Len(g.receipt.logs) \in Nat
       /\ g.route = "decode" =>
            /\ Len(g.logs) \in Nat
            /\ \A i \in 1..Len(g.logs) : g.logs[i].wellformed => g.logs[i].logIndex \in Nat
       /\ g.route = "contribution" =>
            g.action \in [swap : BOOLEAN, proven : BOOLEAN, amount : Nat]

NoValue == "none"

-----------------------------------------------------------------------------
(* reconcile_graph_swaps_with_rpc.  An event has a transaction, a log      *)
(* index, a contract and the fields it states; a receipt has a transaction, *)
(* its own fields and its logs.  The topics of either may be null instead  *)
(* of a list, and a log no object at all, which has no index.              *)

Complete(event) ==
  event.tx # NoValue /\ event.index # NoValue /\ event.fields["contract"] # NoValue

MatchingLogs(event, receipt) ==
  {i \in 1..Len(receipt.logs) : receipt.logs[i].index = event.index}

\* The loop breaks at the first log with the index.
MatchingLog(event, receipt) ==
  receipt.logs[CHOOSE i \in MatchingLogs(event, receipt) :
                 \A j \in MatchingLogs(event, receipt) : i <= j]

\* What the chain says of a field.
OnChain(log, receipt, f) ==
  IF log.fields[f] = NoValue /\ f \in FromReceipt THEN receipt.fields[f] ELSE log.fields[f]

\* Mutated form: a field the log does not have is not compared.
MismatchedLoosely(event, receipt) ==
  LET log == MatchingLog(event, receipt) IN
  {f \in Fields : /\ NoValue \notin {event.fields[f], OnChain(log, receipt, f)}
                  /\ event.fields[f] # OnChain(log, receipt, f)}

\* Every field the event states, the transaction apart.
MismatchedFields(event, receipt) ==
  LET log == MatchingLog(event, receipt) IN
  {f \in Fields : /\ event.fields[f] # NoValue
                  /\ event.fields[f] # OnChain(log, receipt, f)}

\* A log that is no object raises when the loop comes to it, null topics when
\* a log was found.
Breaks(event, receipt) ==
  LET matching == MatchingLogs(event, receipt) IN
  /\ Complete(event)
  /\ \/ \E i \in 1..Len(receipt.logs) :
          receipt.logs[i].form = "no_object" /\ \A j \in matching : i < j
     \/ /\ matching # {}
        /\ ~event.topics \/ MatchingLog(event, receipt).form = "null_topics"

ReconcileEvent(event, receipt) ==
  CASE ~Complete(event) -> "INSUFFICIENT_DATA"
    [] Complete(event) /\ MatchingLogs(event, receipt) = {} -> "MISMATCH"
    [] Complete(event) /\ MatchingLogs(event, receipt) # {} ->
         IF event.tx = receipt.tx /\ MismatchedFields(event, receipt) = {}
         THEN "CORROBORATED" ELSE "MISMATCH"

\* One verdict per event; one for all of them when a side is missing; none of
\* any of them when one of them raises.
Reconcile(events, receipt, rpc_payload) ==
  CASE ~rpc_payload -> <<"RPC_UNAVAILABLE">>
    [] rpc_payload /\ events = <<>> -> <<"INSUFFICIENT_DATA">>
    [] rpc_payload /\ events # <<>> ->
         IF receipt.logs = <<>> THEN <<"RPC_UNAVAILABLE">>
         ELSE IF \E i \in 1..Len(events) : Breaks(events[i], receipt) THEN <<"ERROR">>
         ELSE [i \in 1..Len(events) |-> ReconcileEvent(events[i], receipt)]

-----------------------------------------------------------------------------
(* decode_transfer_logs.  A log claims the Transfer topic or not, is well  *)
(* formed or not, and has a log index.                                     *)

Claims(logs) == {i \in 1..Len(logs) : logs[i].transfer}

\* sorted() is stable: equal indices stay in the order of the logs.
Before(logs, i, j) ==
  logs[i].logIndex < logs[j].logIndex \/ (logs[i].logIndex = logs[j].logIndex /\ i < j)

\* How many transfers come before i.
Rank(logs, i) == Cardinality({j \in Claims(logs) : Before(logs, j, i)})

\* The positions of the transfers in order; the first malformed claim raises
\* ERC20DecodeError and nothing is decoded.
Decode(logs) ==
  IF \E i \in Claims(logs) : ~logs[i].wellformed
  THEN [error |-> TRUE, transfers |-> <<>>]
  ELSE [error |-> FALSE,
        transfers |-> [k \in 1..Cardinality(Claims(logs)) |->
                         CHOOSE i \in Claims(logs) : Rank(logs, i) = k - 1]]

-----------------------------------------------------------------------------
(* DirectFlowAnalysis.analyze.                                             *)

\* _percentage: none of a zero amount.
Percentage(part, whole) == IF whole = 0 THEN NoValue ELSE (part * 100) \div whole

Contribution(action) ==
  IF ~action.swap
  THEN [case_flow |-> NoValue, attributable |-> NoValue, unknown |-> 0,
        percentage |-> NoValue, warnings |-> {"no_swap"}]
  ELSE LET attributable == IF action.proven THEN action.amount ELSE 0 IN
       [case_flow |-> action.amount, attributable |-> attributable,
        unknown |-> IF action.proven THEN 0 ELSE action.amount,
        percentage |-> Percentage(attributable, action.amount),
        warnings |-> IF action.proven THEN {} ELSE {"unproven"}]

-----------------------------------------------------------------------------
Derive(g) ==
  CASE g.route = "reconcile" -> Reconcile(g.events, g.receipt, g.rpc_payload)
    [] g.route = "decode" -> Decode(g.logs)
    [] g.route = "contribution" -> Contribution(g.action)

DerivationInit ==
  given \in DerivationRequests /\ tasks = NoTasks /\ answer = Unanswered

DerivationNext ==
  /\ given.route \in DerivationRoutes
  /\ AnswerAtOnce([status |-> "done", result |-> Derive(given)])

-----------------------------------------------------------------------------
(* Properties.                                                             *)

\* The log says everything the event says, itself or through its receipt.
Agrees(event, log, receipt) ==
  \A f \in Fields : event.fields[f] \in {NoValue, log.fields[f]} \/
    (f \in FromReceipt /\ log.fields[f] = NoValue /\ event.fields[f] = receipt.fields[f])

CorroborationSound(event, receipt, verdict) ==
  LET agreeing == {i \in MatchingLogs(event, receipt) : Agrees(event, receipt.logs[i], receipt)} IN
  /\ verdict = "CORROBORATED" =>
       event.tx = receipt.tx /\ event.index # NoValue /\ agreeing # {}
  /\ Complete(event) /\ event.tx = receipt.tx /\ agreeing # {}
       /\ Cardinality(MatchingLogs(event, receipt)) = 1 => verdict = "CORROBORATED"

\* Null topics, or a log that is no object.
Malformed(events, receipt) ==
  \/ \E i \in 1..Len(events) : ~events[i].topics
  \/ \E i \in 1..Len(receipt.logs) : receipt.logs[i].form # "whole"

\* An event is corroborated only by a log of the receipt of its transaction
\* that agrees with all it says, and is whenever such a log is the only one
\* of its index; nothing is said of an event when there is no receipt, and of
\* none of them only when one of the two sides is malformed.
CorroborationIsExact ==
  given.route = "reconcile" /\ answer # Unanswered =>
    IF ~given.rpc_payload \/ given.events = <<>> \/ given.receipt.logs = <<>>
    THEN answer.result \in {<<"RPC_UNAVAILABLE">>, <<"INSUFFICIENT_DATA">>}
    ELSE IF answer.result = <<"ERROR">> THEN Malformed(given.events, given.receipt)
    ELSE \A i \in 1..Len(given.events) :
           CorroborationSound(given.events[i], given.receipt, answer.result[i])

\* No transfer is dropped, invented or out of the order of the chain, and no
\* part of a receipt is decoded when a log that claims to be one is malformed.
DecodingIsExact ==
  given.route = "decode" /\ answer # Unanswered =>
    LET transfers == answer.result.transfers IN
    IF answer.result.error
    THEN transfers = <<>> /\ \E i \in Claims(given.logs) : ~given.logs[i].wellformed
    ELSE /\ {transfers[k] : k \in 1..Len(transfers)} = Claims(given.logs)
         /\ Len(transfers) = Cardinality(Claims(given.logs))
         /\ \A i \in Claims(given.logs) : given.logs[i].wellformed
         /\ \A k \in 2..Len(transfers) :
              given.logs[transfers[k - 1]].logIndex <= given.logs[transfers[k]].logIndex

\* A swap's amount is the subject's or unknown, never both, not the subject's
\* without proof, and never unknown without a warning.
AttributionIsExact ==
  given.route = "contribution" /\ answer # Unanswered /\ given.action.swap =>
    /\ answer.result.attributable + answer.result.unknown = answer.result.case_flow
    /\ answer.result.attributable > 0 => given.action.proven
    /\ answer.result.warnings = {} => answer.result.unknown = 0

\* What is derived from a receipt says no more than the receipt, and no less.
DerivationIsExact == CorroborationIsExact /\ DecodingIsExact /\ AttributionIsExact
=============================================================================
