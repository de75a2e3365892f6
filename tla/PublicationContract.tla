------------------------ MODULE PublicationContract ------------------------
(***************************************************************************)
(* What a client that only reads the published files of an audit may rely  *)
(* on, whatever providers, disk and process do: the order in which the job *)
(* record, the case record and the package appear, that the statuses they  *)
(* carry agree, and that what is published is never changed.               *)
(*                                                                         *)
(* A file left torn by a failed write is an outcome of its own and final.  *)
(***************************************************************************)
EXTENDS EvidenceStatus

CONSTANT Cases

VARIABLES
  job,       \* status in the job record
  case_,     \* status in the case record
  package    \* status in the manifest of the package

view == <<job, case_, package>>

Init ==
  /\ job = [c \in Cases |-> "absent"]
  /\ case_ = [c \in Cases |-> "absent"]
  /\ package = [c \in Cases |-> "absent"]

OpenJob(c) ==
  /\ job[c] = "absent"
  /\ \E s \in {"RUNNING", "torn"} : job' = [job EXCEPT ![c] = s]
  /\ UNCHANGED <<case_, package>>

OpenCase(c) ==
  /\ case_[c] = "absent"
  /\ \E s \in {"RUNNING", "torn"} : case_' = [case_ EXCEPT ![c] = s]
  /\ UNCHANGED <<job, package>>

\* One package, built while the case runs.
SealPackage(c) ==
  /\ case_[c] = "RUNNING"
  /\ package[c] = "absent"
  /\ \E s \in FinalCaseStatuses \cup {"torn"} : package' = [package EXCEPT ![c] = s]
  /\ UNCHANGED <<job, case_>>

\* The case ends with the status its package, if there is one, was sealed with.
CloseCase(c) ==
  /\ case_[c] = "RUNNING"
  /\ \/ \E s \in FinalCaseStatuses :
          /\ package[c] \in {s, "absent", "torn"}
          /\ case_' = [case_ EXCEPT ![c] = s]
     \/ case_' = [case_ EXCEPT ![c] = "torn"]
  /\ UNCHANGED <<job, package>>

\* The job ends as the case did, or FAILED, or cannot be read any more.
SettleJob(c) ==
  /\ job[c] = "RUNNING"
  /\ \/ /\ case_[c] \in FinalCaseStatuses
        /\ job' = [job EXCEPT ![c] = EnvelopeOf(case_[c])]
     \/ \E s \in {"FAILED", "torn"} : job' = [job EXCEPT ![c] = s]
  /\ UNCHANGED <<case_, package>>

Next ==
  \E c \in Cases :
    OpenJob(c) \/ OpenCase(c) \/ SealPackage(c) \/ CloseCase(c) \/ SettleJob(c)

Spec == Init /\ [][Next]_view
=============================================================================
