---------------------------- MODULE RawRpcEvidence ----------------------------
(***************************************************************************)
(* api/rpc.py: GET /v1/rpc/transactions and /v1/rpc/receipts.  One request *)
(* uses a provider instance of its own (JsonRpcProvider with MaxUses = 1), *)
(* preserves the response in the vault and writes the evidence record next *)
(* to it.  Evidence ids end in a fresh uuid: no two requests share a file. *)
(*                                                                         *)
(* A write may fail with part of its file written, and the process may be  *)
(* killed at any step, inside a write too.                                 *)
(***************************************************************************)
EXTENDS JsonRpcProvider

CONSTANTS MaxFaults,   \* bound on failed writes
          Configured   \* whether the chain has a provider

ASSUME RouteAssumption == MaxFaults \in Nat /\ Configured \in BOOLEAN

VARIABLES
  phase,     \* where the request is; "killed" when the process was
  rawFile, shaFile, recordFile,
  answer,    \* the status of the envelope, or the HTTP error
  faults

routeVars == <<phase, rawFile, shaFile, recordFile, answer, faults>>
allVars == <<vars, routeVars>>

FileStates == {"absent", "torn", "whole"}

RouteInit ==
  /\ Init
  /\ phase = "new" /\ answer = "none" /\ faults = 0
  /\ rawFile = "absent" /\ shaFile = "absent" /\ recordFile = "absent"

-----------------------------------------------------------------------------

Reply(a) == phase' = "done" /\ answer' = a

\* The checks before the provider: the hash, the chain and its endpoint.
Reject ==
  /\ phase = "new"
  /\ \/ Reply("422")
     \/ Reply("FAILED")                \* INVALID_CHAIN; RPC_UNAVAILABLE
  /\ UNCHANGED <<vars, rawFile, shaFile, recordFile, faults>>

Get ==
  /\ phase = "new" /\ Configured
  /\ \E u \in {"transaction", "receipt"} : Use(u)
  /\ phase' = "asking"
  /\ UNCHANGED <<rawFile, shaFile, recordFile, answer, faults>>

Ask == phase = "asking" /\ Step /\ UNCHANGED routeVars

\* Mutated forms: a null response is preserved like any other; the route polls
\* until there is one.
JudgeNull ==
  /\ phase = "asking" /\ pc = "idle"
  /\ IF outcome.kind = "error" THEN Reply("FAILED") ELSE phase' = "raw" /\ answer' = answer
  /\ UNCHANGED <<vars, rawFile, shaFile, recordFile, faults>>

JudgePolls ==
  /\ phase = "asking" /\ pc = "idle" /\ outcome # Value("null")
  /\ IF outcome.kind = "error" THEN Reply("FAILED") ELSE phase' = "raw" /\ answer' = answer
  /\ UNCHANGED <<vars, rawFile, shaFile, recordFile, faults>>

\* What the provider's answer becomes: a ProviderError a FAILED envelope,
\* null an UNKNOWN one, everything else evidence.
Judge ==
  /\ phase = "asking" /\ pc = "idle"
  /\ CASE outcome.kind = "error" -> Reply("FAILED")
       [] outcome = Value("null") -> Reply("UNKNOWN")
       [] outcome.kind = "value" /\ outcome # Value("null") ->
            phase' = "raw" /\ answer' = answer
  /\ UNCHANGED <<vars, rawFile, shaFile, recordFile, faults>>

\* Mutated form: a failed write is logged.
WriteFileLogged(file, next) ==
  /\ phase' = next
  /\ answer' = IF next = "done" THEN "COMPLETE" ELSE answer
  /\ \/ file' = "whole" /\ UNCHANGED faults
     \/ /\ faults < MaxFaults /\ faults' = faults + 1
        /\ file' \in {"absent", "torn"}

\* A write of the whole file, or an OSError that the global handler answers.
WriteFile(file, next) ==
  \/ /\ file' = "whole" /\ phase' = next
     /\ answer' = IF next = "done" THEN "COMPLETE" ELSE answer
     /\ UNCHANGED faults
  \/ /\ faults < MaxFaults /\ faults' = faults + 1
     /\ file' \in {"absent", "torn"} /\ Reply("500")

\* preserve_raw: the payload, then its digest.
PreserveRaw ==
  /\ phase = "raw" /\ WriteFile(rawFile, "sha")
  /\ UNCHANGED <<vars, shaFile, recordFile>>

PreserveDigest ==
  /\ phase = "sha" /\ WriteFile(shaFile, "record")
  /\ UNCHANGED <<vars, rawFile, recordFile>>

\* The record asks the response for its block: one that is not an object has
\* none to give, and one whose blockHash is no string makes no record, with
\* the payload preserved.
SaveRecord ==
  /\ phase = "record"
  /\ \/ outcome # Value("scalar") /\ WriteFile(recordFile, "done")
     \/ Reply("500") /\ UNCHANGED <<recordFile, faults>>
  /\ UNCHANGED <<vars, rawFile, shaFile>>

\* The process is killed, with the write in progress cut short.
Tear(file, writing) == file' \in (IF phase = writing THEN {"absent", "torn"} ELSE {file})

Kill ==
  /\ phase \notin {"done", "killed"} /\ phase' = "killed"
  /\ Tear(rawFile, "raw") /\ Tear(shaFile, "sha") /\ Tear(recordFile, "record")
  /\ UNCHANGED <<vars, answer, faults>>

Handle == Ask \/ Judge \/ PreserveRaw \/ PreserveDigest \/ SaveRecord

RouteNext == Reject \/ Get \/ Handle \/ Kill

RouteSpec == RouteInit /\ [][RouteNext]_allVars

\* The handler runs to its end: its awaits are the provider's.
FairRouteSpec == RouteSpec /\ WF_allVars(Handle)

-----------------------------------------------------------------------------
(* Properties.                                                             *)

RouteTypeOK ==
  /\ TypeOK
  /\ phase \in {"new", "asking", "raw", "sha", "record", "done", "killed"}
  /\ {rawFile, shaFile, recordFile} \subseteq FileStates
  /\ answer \in {"none", "COMPLETE", "UNKNOWN", "FAILED", "422", "500"}
  /\ faults \in 0..MaxFaults

\* A record, whole or torn, is only ever beside a payload and a digest that
\* are whole: writes fail, and the process dies, without leaving one that
\* points at nothing.  A COMPLETE answer has all three.
RecordsPointAtEvidence ==
  /\ recordFile # "absent" => rawFile = "whole" /\ shaFile = "whole"
  /\ shaFile # "absent" => rawFile = "whole"
  /\ answer = "COMPLETE" => recordFile = "whole"

\* What is preserved is a response of the chain the client asked for, and
\* there was one: no error and no missing transaction is ever evidence.
OnlyAnswersArePreserved ==
  rawFile # "absent" => got["eth_chainId"] = "expected" /\ outcome.kind = "value"
                          /\ outcome # Value("null")

\* A request that was not killed is answered.
EveryGetAnswered == phase = "asking" ~> phase \in {"done", "killed"}
=============================================================================
