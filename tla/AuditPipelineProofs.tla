------------------------ MODULE AuditPipelineProofs ------------------------
(***************************************************************************)
(* Proofs about AuditPipeline, for every set of requests and every number  *)
(* of failed writes and restarts.                                          *)
(*                                                                         *)
(* IInv is the inductive invariant behind all of them: it says, for every  *)
(* position of a request's task, which evidence is sealed and which files  *)
(* may be on disk.                                                         *)
(***************************************************************************)
EXTENDS AuditPipeline, TLAPS

\* Level l has not been touched.
Fresh(c, l) ==
  /\ rec[c][l] = NoRecord
  /\ raw[c][l] = "absent"
  /\ sidecar[c][l] = "absent"

\* Level l is finished: it has a record, which is PARTIAL if its files are not
\* both there, or both absent.
Sealed(c, l) ==
  /\ rec[c][l].status \in EvidenceStatuses
  /\ rec[c][l].status # "PARTIAL" =>
       raw[c][l] = sidecar[c][l] /\ raw[c][l] # "torn"

Finished(c) == level[c] = "L1" /\ Sealed(c, "L1")

EvidenceInv(c) ==
  /\ \A l \in Levels :
       rec[c][l].path => raw[c][l] = "whole" /\ sidecar[c][l] = "whole"
  /\ level[c] = "L0" => Fresh(c, "L1")
  /\ level[c] = "L1" => Sealed(c, "L0")
  /\ pc[c] \in {"idle", "queued", "refused"} => level[c] = "L0"
  /\ pc[c] \in {"idle", "queued", "refused", "acquire"} => Fresh(c, level[c])
  /\ pc[c] = "raw" => /\ rec[c][level[c]].status \in EvidenceStatuses
                      /\ ~rec[c][level[c]].path
                      /\ raw[c][level[c]] = "absent"
                      /\ sidecar[c][level[c]] = "absent"
  /\ pc[c] = "sidecar" => /\ rec[c][level[c]].status \in EvidenceStatuses
                          /\ ~rec[c][level[c]].path
                          /\ raw[c][level[c]] = "whole"
                          /\ sidecar[c][level[c]] = "absent"
  /\ pc[c] \in {"package", "save", "finish"} => Finished(c)

PackageInv(c) ==
  /\ pc[c] \in {"idle", "queued", "refused", "acquire", "raw", "sidecar", "package"}
       => pkg[c].file = "absent"
  /\ pkg[c].file = "whole" => /\ Finished(c)
                              /\ pkg[c].status = FinalStatus(c)
                              /\ pkg[c].raw = raw[c]
                              /\ pkg[c].sidecar = sidecar[c]

CaseInv(c) ==
  /\ pc[c] \in {"idle", "queued", "refused"} => caseFile[c] = "absent"
  /\ pc[c] \in {"acquire", "raw", "sidecar", "package", "save"}
       => caseFile[c] = "RUNNING"
  /\ pc[c] = "finish" => caseFile[c] = FinalStatus(c)
  /\ caseFile[c] \in FinalCaseStatuses =>
       /\ Finished(c)
       /\ caseFile[c] = FinalStatus(c)
       /\ pc[c] \in {"finish", "raise", "done", "dead", "lost"}

JobInv(c) ==
  /\ pc[c] = "idle" => jobFile[c] = "absent" /\ route[c] = "none"
  /\ pc[c] \in {"queued", "refused", "dead"} => route[c] = "job"
  /\ pc[c] \notin {"idle", "refused"} => route[c] \in {"job", "claim"}
  /\ route[c] = "claim" => jobFile[c] = "absent"
  /\ route[c] = "job" /\ Active(c) /\ pc[c] # "raise" => jobFile[c] = "RUNNING"
  /\ pc[c] = "raise" /\ route[c] = "job" => jobFile[c] \in {"RUNNING", "torn"}
  /\ pc[c] = "done" /\ route[c] = "job" => jobFile[c] \in FinalJobStatuses
  /\ pc[c] \in {"lost", "refused", "dead"} => jobFile[c] \notin FinalJobStatuses
  /\ pc[c] = "refused" => jobFile[c] \in {"absent", "torn"}
  /\ jobFile[c] \in {"COMPLETE", "PARTIAL"} =>
       caseFile[c] \in FinalCaseStatuses /\ jobFile[c] = EnvelopeOf(caseFile[c])
  /\ reply[c] \in FinalCaseStatuses => caseFile[c] = reply[c] /\ pc[c] = "done"
  /\ pc[c] = "lost" => crashes > 0
  /\ pc[c] = "dead" => faults > 0
  /\ pc[c] = "raise" /\ route[c] = "job" /\ jobFile[c] = "torn" => faults > 0

CInv(c) == EvidenceInv(c) /\ PackageInv(c) /\ CaseInv(c) /\ JobInv(c)

IInv == TypeOK /\ \A c \in Cases : CInv(c)

-----------------------------------------------------------------------------
(* Status algebra.                                                         *)

\* Every set of evidence statuses gives one of the three final case statuses.
LEMMA CaseStatusType == \A S : CaseStatusOf(S) \in FinalCaseStatuses
  BY DEF CaseStatusOf, FinalCaseStatuses

\* A final case status is published as a final job status.
LEMMA EnvelopeType == \A s \in FinalCaseStatuses : EnvelopeOf(s) \in FinalJobStatuses
  BY DEF EnvelopeOf, FinalCaseStatuses, FinalJobStatuses

\* The status of a case depends on its records only.
LEMMA FinalStatusType == ASSUME NEW c PROVE FinalStatus(c) \in FinalCaseStatuses
  BY CaseStatusType DEF FinalStatus

LEMMA FinalStatusKept ==
  ASSUME NEW c, rec'[c] = rec[c]
  PROVE  FinalStatus(c)' = FinalStatus(c)
  BY DEF FinalStatus

\* Every answer the model enumerates for a level gives the record a status.
LEMMA RecordStatusType ==
  ASSUME NEW l \in Levels, NEW a \in Answers(l, configured),
         a.kind \in {"payload", "error"}
  PROVE  RecordStatus(l, configured, a) \in EvidenceStatuses
  <1>1. CASE l \notin configured
    BY <1>1 DEF RecordStatus, EvidenceStatuses
  <1>2. CASE l \in configured /\ l = "L0"
    <2>1. L0Status(a) \in EvidenceStatuses
      BY DEF L0Status, EvidenceStatuses
    <2> QED BY <1>2, <2>1 DEF RecordStatus
  <1>3. CASE l \in configured /\ l = "L1"
    <2>1. a \in GraphAnswers
      BY <1>3 DEF Answers
    <2>2. a.kind = "payload" => a.has_errors \in BOOLEAN
      BY <2>1 DEF GraphAnswers, Payload, Failure, Escape
    <2>3. L1Status(a) \in EvidenceStatuses
      BY <2>2 DEF L1Status, EvidenceStatuses
    <2> QED BY <1>3, <2>3 DEF RecordStatus
  <1> QED BY <1>1, <1>2, <1>3 DEF Levels

-----------------------------------------------------------------------------
(* Type correctness.                                                       *)

\* The files a package variable may hold.
PackageFiles ==
  [Cases -> [file : Contents, status : FinalCaseStatuses \cup {"none"},
             raw : [Levels -> Contents], sidecar : [Levels -> Contents]]]

\* Updating one cell of a table of tables.
LEMMA CellUpdate ==
  ASSUME NEW A, NEW B, NEW S, NEW f \in [A -> [B -> S]],
         NEW a \in A, NEW b \in B, NEW s \in S
  PROVE  [f EXCEPT ![a][b] = s] \in [A -> [B -> S]]
  OBVIOUS

\* A failed write is counted within its bound.
LEMMA FaultType == ASSUME TypeOK, Fault PROVE faults' \in 0..MaxFaults
  BY BoundsAssumption DEF TypeOK, Fault

LEMMA NextLevelType ==
  ASSUME TypeOK, NEW c \in Cases, NextLevel(c)
  PROVE  level' \in [Cases -> Levels] /\ pc' \in [Cases -> Phases]
  BY DEF TypeOK, NextLevel, Goto, Phases, Gone, Levels

LEMMA RecordType ==
  ASSUME TypeOK, NEW c \in Cases, NEW s \in EvidenceStatuses, NEW p \in BOOLEAN,
         SetRecord(c, s, p)
  PROVE  rec' \in [Cases -> [Levels -> [status : EvidenceStatuses \cup {"none"},
                                        path : BOOLEAN]]]
  <1>1. level[c] \in Levels
    BY DEF TypeOK
  <1>2. [status |-> s, path |-> p] \in [status : EvidenceStatuses \cup {"none"},
                                        path : BOOLEAN]
    OBVIOUS
  <1> QED BY <1>1, <1>2 DEF TypeOK, SetRecord

\* Every step of the pipeline keeps every variable in its type.
LEMMA TypeStep == TypeOK /\ [Next]_vars => TypeOK'
  <1> SUFFICES ASSUME TypeOK, [Next]_vars PROVE TypeOK'
    OBVIOUS
  <1>1. ASSUME NEW c \in Cases, SubmitAudit(c) PROVE TypeOK'
    <2>1. jobFile' \in [Cases -> FinalJobStatuses \cup {"absent", "torn", "RUNNING"}]
      BY <1>1 DEF TypeOK, SubmitAudit, Write
    <2>2. pc' \in [Cases -> Phases] /\ faults' \in 0..MaxFaults
      BY <1>1, FaultType DEF TypeOK, SubmitAudit, Write, Goto, Phases, Gone
    <2> QED BY <1>1, <2>1, <2>2 DEF TypeOK, SubmitAudit
  <1>2. ASSUME NEW c \in Cases, ClaimAudit(c) PROVE TypeOK'
    <2>1. caseFile' \in [Cases -> FinalCaseStatuses \cup {"absent", "torn", "RUNNING"}]
      BY <1>2 DEF TypeOK, ClaimAudit, Write
    <2>2. pc' \in [Cases -> Phases] /\ faults' \in 0..MaxFaults
      BY <1>2, FaultType DEF TypeOK, ClaimAudit, Write, Goto, Phases, Gone
    <2> QED BY <1>2, <2>1, <2>2 DEF TypeOK, ClaimAudit
  <1>3. ASSUME NEW c \in Cases, RunJob(c) PROVE TypeOK'
    <2>1. caseFile' \in [Cases -> FinalCaseStatuses \cup {"absent", "torn", "RUNNING"}]
      BY <1>3 DEF TypeOK, RunJob, Write
    <2>2. pc' \in [Cases -> Phases] /\ faults' \in 0..MaxFaults
      BY <1>3, FaultType DEF TypeOK, RunJob, Write, Goto, Phases, Gone
    <2> QED BY <1>3, <2>1, <2>2 DEF TypeOK, RunJob
  <1>4. ASSUME NEW c \in Cases, Acquire(c) PROVE TypeOK'
    <2>1. PICK a \in Answers(level[c], configured) :
            \/ /\ a.kind = "payload"
               /\ SetRecord(c, RecordStatus(level[c], configured, a), FALSE)
               /\ Goto(c, "raw")
               /\ UNCHANGED level
            \/ /\ a.kind = "error"
               /\ SetRecord(c, RecordStatus(level[c], configured, a), FALSE)
               /\ NextLevel(c)
            \/ /\ a.kind = "escape"
               /\ Goto(c, "raise")
               /\ UNCHANGED <<level, rec>>
      BY <1>4 DEF Acquire
    <2>2. level[c] \in Levels
      BY DEF TypeOK
    <2>3. rec' \in [Cases -> [Levels -> [status : EvidenceStatuses \cup {"none"},
                                         path : BOOLEAN]]]
      <3>1. CASE a.kind \in {"payload", "error"}
        BY <2>1, <2>2, <3>1, RecordStatusType, RecordType
      <3>2. CASE a.kind = "escape"
        BY <2>1, <3>2 DEF TypeOK
      <3> QED BY <2>1, <3>1, <3>2
    <2>4. level' \in [Cases -> Levels] /\ pc' \in [Cases -> Phases]
      BY <2>1, NextLevelType DEF TypeOK, Goto, Phases, Gone
    <2> QED BY <1>4, <2>3, <2>4 DEF TypeOK, Acquire, disk
  <1>5. ASSUME NEW c \in Cases, WriteRaw(c) PROVE TypeOK'
    <2>1. level[c] \in Levels
      BY DEF TypeOK
    <2>2. raw' \in [Cases -> [Levels -> Contents]]
      <3>1. \E s \in Contents : raw' = [raw EXCEPT ![c][level[c]] = s]
        BY <1>5 DEF WriteRaw, Contents
      <3> QED BY <2>1, <3>1, CellUpdate DEF TypeOK
    <2>3. rec' \in [Cases -> [Levels -> [status : EvidenceStatuses \cup {"none"},
                                         path : BOOLEAN]]]
      <3>1. CASE UNCHANGED rec
        BY <3>1 DEF TypeOK
      <3>2. CASE PreservationFailed(c)
        BY <3>2, RecordType DEF PreservationFailed, EvidenceStatuses
      <3> QED BY <1>5, <3>1, <3>2 DEF WriteRaw
    <2>4. level' \in [Cases -> Levels] /\ pc' \in [Cases -> Phases]
      BY <1>5, NextLevelType
      DEF TypeOK, WriteRaw, PreservationFailed, Goto, Phases, Gone
    <2> QED BY <1>5, <2>2, <2>3, <2>4, FaultType DEF TypeOK, WriteRaw
  <1>6. ASSUME NEW c \in Cases, WriteSidecar(c) PROVE TypeOK'
    <2>1. level[c] \in Levels /\ rec[c][level[c]].status \in EvidenceStatuses \cup {"none"}
      BY DEF TypeOK
    <2>2. sidecar' \in [Cases -> [Levels -> Contents]]
      <3>1. \E s \in Contents : sidecar' = [sidecar EXCEPT ![c][level[c]] = s]
        BY <1>6 DEF WriteSidecar, Contents
      <3> QED BY <2>1, <3>1, CellUpdate DEF TypeOK
    <2>3. rec' \in [Cases -> [Levels -> [status : EvidenceStatuses \cup {"none"},
                                         path : BOOLEAN]]]
      <3>1. \E s \in EvidenceStatuses \cup {"none"}, p \in BOOLEAN :
              rec' = [rec EXCEPT ![c][level[c]] = [status |-> s, path |-> p]]
        BY <1>6, <2>1 DEF WriteSidecar, PreservationFailed, SetRecord, EvidenceStatuses
      <3> QED BY <2>1, <3>1, CellUpdate DEF TypeOK
    <2>4. level' \in [Cases -> Levels] /\ pc' \in [Cases -> Phases]
      BY <1>6, NextLevelType DEF WriteSidecar, PreservationFailed
    <2> QED BY <1>6, <2>2, <2>3, <2>4, FaultType DEF TypeOK, WriteSidecar
  <1>7. ASSUME NEW c \in Cases, BuildPackage(c) PROVE TypeOK'
    <2>1. FinalStatus(c) \in FinalCaseStatuses
      BY FinalStatusType
    <2>2. pkg' \in PackageFiles
      <3>1. CASE pkg' = [pkg EXCEPT ![c] = [file |-> "whole", status |-> FinalStatus(c),
                                            raw |-> raw[c], sidecar |-> sidecar[c]]]
        <4>1. raw[c] \in [Levels -> Contents] /\ sidecar[c] \in [Levels -> Contents]
          BY DEF TypeOK
        <4> QED BY <2>1, <3>1, <4>1 DEF TypeOK, PackageFiles, Contents
      <3>2. ASSUME NEW left \in {"absent", "torn"}, pkg' = [pkg EXCEPT ![c].file = left]
            PROVE  pkg' \in PackageFiles
        <4>1. left \in Contents
          BY DEF Contents
        <4> QED BY <3>2, <4>1 DEF TypeOK, PackageFiles
      <3> QED BY <1>7, <3>1, <3>2 DEF BuildPackage
    <2>3. pc' \in [Cases -> Phases] /\ faults' \in 0..MaxFaults
      BY <1>7, FaultType DEF TypeOK, BuildPackage, Goto, Phases, Gone
    <2> QED BY <1>7, <2>2, <2>3 DEF TypeOK, PackageFiles, BuildPackage
  <1>8. ASSUME NEW c \in Cases, SaveCase(c) PROVE TypeOK'
    <2>1. caseFile' \in [Cases -> FinalCaseStatuses \cup {"absent", "torn", "RUNNING"}]
      <3>1. FinalStatus(c) \in FinalCaseStatuses
        BY FinalStatusType
      <3> QED BY <1>8, <3>1 DEF TypeOK, SaveCase, Write
    <2>2. pc' \in [Cases -> Phases] /\ faults' \in 0..MaxFaults
      BY <1>8, FaultType DEF TypeOK, SaveCase, Write, Goto, Phases, Gone
    <2> QED BY <1>8, <2>1, <2>2 DEF TypeOK, SaveCase
  <1>9. ASSUME NEW c \in Cases, FinishJob(c) PROVE TypeOK'
    <2>1. jobFile' \in [Cases -> FinalJobStatuses \cup {"absent", "torn", "RUNNING"}]
      <3>1. EnvelopeOf(FinalStatus(c)) \in FinalJobStatuses
        BY FinalStatusType, EnvelopeType
      <3> QED BY <1>9, <3>1 DEF TypeOK, FinishJob, Write
    <2>2. pc' \in [Cases -> Phases] /\ faults' \in 0..MaxFaults
      BY <1>9, FaultType DEF TypeOK, FinishJob, Write, Goto, Phases, Gone
    <2> QED BY <1>9, <2>1, <2>2 DEF TypeOK, FinishJob
  <1>10. ASSUME NEW c \in Cases, AnswerClaim(c) PROVE TypeOK'
    BY <1>10, FinalStatusType DEF TypeOK, AnswerClaim, Goto, Phases, Gone, disk
  <1>11. ASSUME NEW c \in Cases, FailJob(c) PROVE TypeOK'
    <2>1. jobFile' \in [Cases -> FinalJobStatuses \cup {"absent", "torn", "RUNNING"}]
      BY <1>11 DEF TypeOK, FailJob, Write, FinalJobStatuses
    <2>2. pc' \in [Cases -> Phases] /\ faults' \in 0..MaxFaults
      BY <1>11, FaultType DEF TypeOK, FailJob, Write, Goto, Phases, Gone
    <2> QED BY <1>11, <2>1, <2>2 DEF TypeOK, FailJob
  <1>12. ASSUME NEW c \in Cases, FailClaim(c) PROVE TypeOK'
    BY <1>12 DEF TypeOK, FailClaim, Goto, Phases, Gone, disk
  <1>13. CASE Crash
    <2>1. crashes' \in 0..MaxCrashes
      BY <1>13, BoundsAssumption DEF TypeOK, Crash
    <2>2. pc' \in [Cases -> Phases]
      BY <1>13 DEF TypeOK, Crash, Phases, Gone
    <2>3. CASE UNCHANGED <<route, disk>>
      BY <1>13, <2>1, <2>2, <2>3 DEF TypeOK, Crash, disk
    <2>4. ASSUME NEW c \in Cases, TearFile(c)
          PROVE  /\ jobFile' \in [Cases -> FinalJobStatuses \cup {"absent", "torn", "RUNNING"}]
                 /\ caseFile' \in [Cases -> FinalCaseStatuses \cup {"absent", "torn", "RUNNING"}]
                 /\ raw' \in [Cases -> [Levels -> Contents]]
                 /\ sidecar' \in [Cases -> [Levels -> Contents]]
                 /\ pkg' \in PackageFiles
      <3>1. level[c] \in Levels
        BY DEF TypeOK
      <3>2. "torn" \in Contents
        BY DEF Contents
      <3>3. CASE pc[c] \in {"queued", "save"}
        BY <2>4, <3>3 DEF TypeOK, TearFile, PackageFiles
      <3>4. CASE pc[c] = "raw"
        <4>1. /\ raw' = [raw EXCEPT ![c][level[c]] = "torn"]
              /\ UNCHANGED <<jobFile, caseFile, sidecar, pkg>>
          BY <2>4, <3>4 DEF TearFile
        <4>2. raw' \in [Cases -> [Levels -> Contents]]
          BY <3>1, <3>2, <4>1, CellUpdate DEF TypeOK
        <4> QED BY <4>1, <4>2 DEF TypeOK, PackageFiles
      <3>5. CASE pc[c] = "sidecar"
        <4>1. /\ sidecar' = [sidecar EXCEPT ![c][level[c]] = "torn"]
              /\ UNCHANGED <<jobFile, caseFile, raw, pkg>>
          BY <2>4, <3>5 DEF TearFile
        <4>2. sidecar' \in [Cases -> [Levels -> Contents]]
          BY <3>1, <3>2, <4>1, CellUpdate DEF TypeOK
        <4> QED BY <4>1, <4>2 DEF TypeOK, PackageFiles
      <3>6. CASE pc[c] = "package"
        <4>1. /\ pkg' = [pkg EXCEPT ![c].file = "torn"]
              /\ UNCHANGED <<jobFile, caseFile, raw, sidecar>>
          BY <2>4, <3>6 DEF TearFile
        <4>2. pkg' \in PackageFiles
          BY <3>2, <4>1 DEF TypeOK, PackageFiles
        <4> QED BY <4>1, <4>2 DEF TypeOK, PackageFiles
      <3>7. CASE pc[c] \in {"finish", "raise"}
        BY <2>4, <3>7 DEF TypeOK, TearFile, PackageFiles
      <3> QED BY <2>4, <3>3, <3>4, <3>5, <3>6, <3>7 DEF TearFile
    <2>5. ASSUME UNCHANGED route, NEW c \in Cases, TearFile(c)
          PROVE  TypeOK'
      <3>1. UNCHANGED <<configured, reply, level, rec, faults>>
        BY <1>13 DEF Crash
      <3> QED BY <2>1, <2>2, <2>4, <2>5, <3>1 DEF TypeOK, PackageFiles
    <2>6. ASSUME NEW c \in Cases, TearFirstFile(c)
          PROVE  TypeOK'
      <3>1. /\ UNCHANGED <<configured, reply, level, rec, faults>>
            /\ UNCHANGED <<raw, sidecar, pkg>>
        BY <1>13, <2>6 DEF Crash, TearFirstFile
      <3>2. /\ route' \in [Cases -> {"none", "job", "claim"}]
            /\ jobFile' \in [Cases -> FinalJobStatuses \cup {"absent", "torn", "RUNNING"}]
            /\ caseFile' \in [Cases -> FinalCaseStatuses \cup {"absent", "torn", "RUNNING"}]
        BY <2>6 DEF TypeOK, TearFirstFile
      <3> QED BY <2>1, <2>2, <3>1, <3>2 DEF TypeOK
    <2> QED BY <1>13, <2>3, <2>5, <2>6 DEF Crash
  <1>14. CASE UNCHANGED vars
    BY <1>14 DEF TypeOK, vars, memory, disk
  <1> QED
    BY <1>1, <1>2, <1>3, <1>4, <1>5, <1>6, <1>7, <1>8, <1>9, <1>10, <1>11, <1>12,
       <1>13, <1>14 DEF Next, Task

\* Type correctness: every reachable state of the pipeline is well typed.
THEOREM TypeCorrect == Spec => []TypeOK
  <1>1. Init => TypeOK
    BY BoundsAssumption
    DEF Init, TypeOK, Phases, Gone, Levels, NoRecord, NoFiles, NoPackage, Contents
  <1> QED BY <1>1, TypeStep, PTL DEF Spec


-----------------------------------------------------------------------------
(* The inductive invariant.                                                *)

\* A step that touches nothing of request d keeps what IInv says of d.
LEMMA Frame ==
  ASSUME NEW d \in Cases, CInv(d),
         route'[d] = route[d], reply'[d] = reply[d], pc'[d] = pc[d],
         level'[d] = level[d], rec'[d] = rec[d], jobFile'[d] = jobFile[d],
         caseFile'[d] = caseFile[d], raw'[d] = raw[d], sidecar'[d] = sidecar[d],
         pkg'[d] = pkg[d], crashes > 0 => crashes' > 0, faults > 0 => faults' > 0
  PROVE  CInv(d)'
  <1>1. FinalStatus(d)' = FinalStatus(d)
    BY FinalStatusKept
  <1>2. EvidenceInv(d)'
    BY DEF CInv, EvidenceInv, Fresh, Sealed, Finished
  <1>3. PackageInv(d)'
    BY <1>1 DEF CInv, PackageInv, Sealed, Finished
  <1>4. CaseInv(d)'
    BY <1>1 DEF CInv, CaseInv, Sealed, Finished
  <1>5. JobInv(d)'
    BY DEF CInv, JobInv, Active
  <1> QED BY <1>2, <1>3, <1>4, <1>5 DEF CInv

\* The counters only grow.
LEMMA Counters ==
  ASSUME TypeOK, [Next]_vars
  PROVE  (crashes > 0 => crashes' > 0) /\ (faults > 0 => faults' > 0)
  <1>1. crashes' \in {crashes, crashes + 1}
    BY DEF Next, Task, SubmitAudit, ClaimAudit, RunJob, Acquire, WriteRaw,
      WriteSidecar, BuildPackage, SaveCase, FinishJob, AnswerClaim, FailJob,
      FailClaim, Crash, vars
  <1>2. faults' \in {faults, faults + 1}
    BY DEF Next, Task, SubmitAudit, ClaimAudit, RunJob, Acquire, WriteRaw,
      WriteSidecar, BuildPackage, SaveCase, FinishJob, AnswerClaim, FailJob,
      FailClaim, Crash, Write, Fault, vars
  <1> QED BY <1>1, <1>2, BoundsAssumption DEF TypeOK

\* A step of one request's task touches no variable of another request.
LEMMA Others ==
  ASSUME TypeOK, NEW c \in Cases, NEW d \in Cases, d # c,
         SubmitAudit(c) \/ ClaimAudit(c) \/ Task(c)
  PROVE  /\ route'[d] = route[d] /\ reply'[d] = reply[d] /\ pc'[d] = pc[d]
         /\ level'[d] = level[d] /\ rec'[d] = rec[d] /\ jobFile'[d] = jobFile[d]
         /\ caseFile'[d] = caseFile[d] /\ raw'[d] = raw[d]
         /\ sidecar'[d] = sidecar[d] /\ pkg'[d] = pkg[d]
  <1>1. CASE SubmitAudit(c)
    BY <1>1 DEF TypeOK, SubmitAudit, Goto, Write
  <1>2. CASE ClaimAudit(c)
    BY <1>2 DEF TypeOK, ClaimAudit, Goto, Write
  <1>3. CASE RunJob(c)
    BY <1>3 DEF TypeOK, RunJob, Goto, Write
  <1>4. CASE Acquire(c)
    BY <1>4 DEF TypeOK, Acquire, Goto, SetRecord, NextLevel, disk
  <1>5. CASE WriteRaw(c)
    BY <1>5 DEF TypeOK, WriteRaw, Goto, SetRecord, NextLevel, PreservationFailed
  <1>6. CASE WriteSidecar(c)
    BY <1>6 DEF TypeOK, WriteSidecar, Goto, SetRecord, NextLevel, PreservationFailed
  <1>7. CASE BuildPackage(c)
    BY <1>7 DEF TypeOK, BuildPackage, Goto
  <1>8. CASE SaveCase(c)
    BY <1>8 DEF TypeOK, SaveCase, Goto, Write
  <1>9. CASE FinishJob(c)
    BY <1>9 DEF TypeOK, FinishJob, Goto, Write
  <1>10. CASE AnswerClaim(c)
    BY <1>10 DEF TypeOK, AnswerClaim, Goto, disk
  <1>11. CASE FailJob(c)
    BY <1>11 DEF TypeOK, FailJob, Goto, Write
  <1>12. CASE FailClaim(c)
    BY <1>12 DEF TypeOK, FailClaim, Goto, disk
  <1> QED BY <1>1, <1>2, <1>3, <1>4, <1>5, <1>6, <1>7, <1>8, <1>9, <1>10, <1>11, <1>12 DEF Task

-----------------------------------------------------------------------------
(* One lemma per action: a step of c's task keeps what IInv says of c.     *)

\* After a failed write the fault counter is positive.
LEMMA FaultPositive == ASSUME TypeOK, Fault PROVE faults' > 0
  BY BoundsAssumption DEF TypeOK, Fault

\* A submitted job: nothing but its record exists.
LEMMA SubmitAuditStep ==
  ASSUME TypeOK, NEW c \in Cases, CInv(c), SubmitAudit(c)
  PROVE  CInv(c)'
  <1>1. /\ pc[c] = "idle" /\ route'[c] = "job"
        /\ \/ pc'[c] = "queued" /\ jobFile'[c] = "RUNNING" /\ reply'[c] = "accepted"
           \/ pc'[c] = "refused" /\ jobFile'[c] \in {jobFile[c], "torn"} /\ reply'[c] = "500"
        /\ faults > 0 => faults' > 0
        /\ UNCHANGED <<level, rec, caseFile, raw, sidecar, pkg, crashes>>
    BY FaultPositive DEF TypeOK, SubmitAudit, Goto, Write
  <1>2. EvidenceInv(c)'
    BY <1>1 DEF CInv, EvidenceInv, Fresh, Sealed, Finished
  <1>3. PackageInv(c)'
    BY <1>1, FinalStatusKept DEF CInv, PackageInv, Sealed, Finished
  <1>4. CaseInv(c)'
    BY <1>1, FinalStatusKept DEF CInv, CaseInv, Sealed, Finished, FinalCaseStatuses
  <1>5. JobInv(c)'
    BY <1>1 DEF CInv, JobInv, Active, Gone, FinalJobStatuses, FinalCaseStatuses
  <1> QED BY <1>2, <1>3, <1>4, <1>5 DEF CInv

\* The case record is opened before any evidence exists.
LEMMA ClaimAuditStep ==
  ASSUME TypeOK, NEW c \in Cases, CInv(c), ClaimAudit(c)
  PROVE  CInv(c)'
  <1>1. /\ pc[c] = "idle" /\ route'[c] = "claim" /\ jobFile[c] = jobFile'[c] /\ reply'[c] = reply[c]
        /\ \/ pc'[c] = "acquire" /\ caseFile'[c] = "RUNNING"
           \/ pc'[c] = "raise" /\ caseFile'[c] \in {caseFile[c], "torn"}
        /\ faults > 0 => faults' > 0
        /\ UNCHANGED <<level, rec, raw, sidecar, pkg, crashes>>
    BY FaultPositive DEF TypeOK, ClaimAudit, Goto, Write
  <1>2. EvidenceInv(c)'
    BY <1>1 DEF CInv, EvidenceInv, Fresh, Sealed, Finished
  <1>3. PackageInv(c)'
    BY <1>1, FinalStatusKept DEF CInv, PackageInv, Sealed, Finished
  <1>4. CaseInv(c)'
    BY <1>1, FinalStatusKept DEF CInv, CaseInv, Sealed, Finished, FinalCaseStatuses
  <1>5. JobInv(c)'
    BY <1>1 DEF CInv, JobInv, Active, Gone, FinalJobStatuses, FinalCaseStatuses
  <1> QED BY <1>2, <1>3, <1>4, <1>5 DEF CInv

\* The case record is opened before any evidence exists.
LEMMA RunJobStep ==
  ASSUME TypeOK, NEW c \in Cases, CInv(c), RunJob(c)
  PROVE  CInv(c)'
  <1>1. /\ pc[c] = "queued" /\ route'[c] = route[c] /\ jobFile[c] = jobFile'[c] /\ reply'[c] = reply[c]
        /\ \/ pc'[c] = "acquire" /\ caseFile'[c] = "RUNNING"
           \/ pc'[c] = "raise" /\ caseFile'[c] \in {caseFile[c], "torn"}
        /\ faults > 0 => faults' > 0
        /\ UNCHANGED <<level, rec, raw, sidecar, pkg, crashes>>
    BY FaultPositive DEF TypeOK, RunJob, Goto, Write
  <1>2. EvidenceInv(c)'
    BY <1>1 DEF CInv, EvidenceInv, Fresh, Sealed, Finished
  <1>3. PackageInv(c)'
    BY <1>1, FinalStatusKept DEF CInv, PackageInv, Sealed, Finished
  <1>4. CaseInv(c)'
    BY <1>1, FinalStatusKept DEF CInv, CaseInv, Sealed, Finished, FinalCaseStatuses
  <1>5. JobInv(c)'
    BY <1>1 DEF CInv, JobInv, Active, Gone, FinalJobStatuses, FinalCaseStatuses
  <1> QED BY <1>2, <1>3, <1>4, <1>5 DEF CInv

\* The case is closed with the status of its records.
LEMMA SaveCaseStep ==
  ASSUME TypeOK, NEW c \in Cases, CInv(c), SaveCase(c)
  PROVE  CInv(c)'
  <1>1. /\ pc[c] = "save" /\ route'[c] = route[c] /\ reply'[c] = reply[c]
        /\ \/ pc'[c] = "finish" /\ caseFile'[c] = FinalStatus(c)
           \/ pc'[c] = "raise" /\ caseFile'[c] \in {caseFile[c], "torn"}
        /\ faults > 0 => faults' > 0
        /\ UNCHANGED <<level, rec, jobFile, raw, sidecar, pkg, crashes>>
    BY FaultPositive DEF TypeOK, SaveCase, Goto, Write
  <1>2. EvidenceInv(c)'
    BY <1>1 DEF CInv, EvidenceInv, Fresh, Sealed, Finished
  <1>3. PackageInv(c)'
    BY <1>1, FinalStatusKept DEF CInv, PackageInv, Sealed, Finished
  <1>4. CaseInv(c)'
    BY <1>1, FinalStatusKept DEF CInv, CaseInv, EvidenceInv, Sealed, Finished, FinalCaseStatuses
  <1>5. JobInv(c)'
    BY <1>1 DEF CInv, JobInv, Active, Gone, FinalJobStatuses, FinalCaseStatuses
  <1> QED BY <1>2, <1>3, <1>4, <1>5 DEF CInv

\* A finished package is a snapshot of sealed evidence.
LEMMA BuildPackageStep ==
  ASSUME TypeOK, NEW c \in Cases, CInv(c), BuildPackage(c)
  PROVE  CInv(c)'
  <1>1. /\ pc[c] = "package" /\ pc'[c] = "save"
        /\ \/ pkg'[c] = [file |-> "whole", status |-> FinalStatus(c),
                         raw |-> raw[c], sidecar |-> sidecar[c]]
           \/ pkg'[c].file \in {"absent", "torn"}
        /\ faults > 0 => faults' > 0
        /\ UNCHANGED <<route, reply, level, rec, jobFile, caseFile, raw, sidecar, crashes>>
    BY FaultPositive DEF TypeOK, BuildPackage, Goto
  <1>2. EvidenceInv(c)'
    BY <1>1 DEF CInv, EvidenceInv, Fresh, Sealed, Finished
  <1>3. PackageInv(c)'
    BY <1>1, FinalStatusKept DEF CInv, PackageInv, EvidenceInv, Sealed, Finished
  <1>4. CaseInv(c)'
    BY <1>1, FinalStatusKept DEF CInv, CaseInv, Sealed, Finished, FinalCaseStatuses
  <1>5. JobInv(c)'
    BY <1>1 DEF CInv, JobInv, Active, Gone, FinalJobStatuses, FinalCaseStatuses
  <1> QED BY <1>2, <1>3, <1>4, <1>5 DEF CInv

\* A job ends with the status of the case on disk.
LEMMA FinishJobStep ==
  ASSUME TypeOK, NEW c \in Cases, CInv(c), FinishJob(c)
  PROVE  CInv(c)'
  <1>1. /\ pc[c] = "finish" /\ route[c] = "job"
        /\ \/ pc'[c] = "done" /\ jobFile'[c] = EnvelopeOf(FinalStatus(c))
           \/ pc'[c] = "raise" /\ jobFile'[c] \in {jobFile[c], "torn"} /\ faults' > 0
        /\ faults > 0 => faults' > 0
        /\ UNCHANGED <<route, reply, level, rec, caseFile, raw, sidecar, pkg, crashes>>
    BY FaultPositive DEF TypeOK, FinishJob, Goto, Write
  <1>2. EvidenceInv(c)'
    BY <1>1 DEF CInv, EvidenceInv, Fresh, Sealed, Finished
  <1>3. PackageInv(c)'
    BY <1>1, FinalStatusKept DEF CInv, PackageInv, Sealed, Finished
  <1>4. CaseInv(c)'
    BY <1>1, FinalStatusKept DEF CInv, CaseInv, Sealed, Finished, FinalCaseStatuses
  <1>5. JobInv(c)'
    BY <1>1, FinalStatusType, EnvelopeType DEF CInv, JobInv, Active, Gone, CaseInv, FinalCaseStatuses
  <1> QED BY <1>2, <1>3, <1>4, <1>5 DEF CInv

\* A claim is answered with the status of the case on disk.
LEMMA AnswerClaimStep ==
  ASSUME TypeOK, NEW c \in Cases, CInv(c), AnswerClaim(c)
  PROVE  CInv(c)'
  <1>1. /\ pc[c] = "finish" /\ route[c] = "claim" /\ pc'[c] = "done"
        /\ reply'[c] = FinalStatus(c)
        /\ UNCHANGED <<route, level, rec, jobFile, caseFile, raw, sidecar, pkg, crashes, faults>>
    BY FaultPositive DEF TypeOK, AnswerClaim, Goto, disk
  <1>2. EvidenceInv(c)'
    BY <1>1 DEF CInv, EvidenceInv, Fresh, Sealed, Finished
  <1>3. PackageInv(c)'
    BY <1>1, FinalStatusKept DEF CInv, PackageInv, Sealed, Finished
  <1>4. CaseInv(c)'
    BY <1>1, FinalStatusKept DEF CInv, CaseInv, Sealed, Finished, FinalCaseStatuses
  <1>5. JobInv(c)'
    BY <1>1 DEF CInv, JobInv, Active, Gone, CaseInv, FinalJobStatuses, FinalCaseStatuses
  <1> QED BY <1>2, <1>3, <1>4, <1>5 DEF CInv

\* The failure handler settles the job or dies.
LEMMA FailJobStep ==
  ASSUME TypeOK, NEW c \in Cases, CInv(c), FailJob(c)
  PROVE  CInv(c)'
  <1>1. /\ pc[c] = "raise" /\ route[c] = "job"
        /\ \/ pc'[c] = "dead" /\ jobFile'[c] = jobFile[c] /\ jobFile[c] = "torn" /\ UNCHANGED faults
           \/ pc'[c] = "done" /\ jobFile'[c] = "FAILED"
           \/ pc'[c] = "dead" /\ jobFile'[c] \in {jobFile[c], "torn"} /\ faults' > 0
        /\ faults > 0 => faults' > 0
        /\ UNCHANGED <<route, reply, level, rec, caseFile, raw, sidecar, pkg, crashes>>
    BY FaultPositive DEF TypeOK, FailJob, Goto, Write
  <1>2. EvidenceInv(c)'
    BY <1>1 DEF CInv, EvidenceInv, Fresh, Sealed, Finished
  <1>3. PackageInv(c)'
    BY <1>1, FinalStatusKept DEF CInv, PackageInv, Sealed, Finished
  <1>4. CaseInv(c)'
    BY <1>1, FinalStatusKept DEF CInv, CaseInv, Sealed, Finished, FinalCaseStatuses
  <1>5. JobInv(c)'
    BY <1>1 DEF CInv, JobInv, Active, Gone, FinalJobStatuses, FinalCaseStatuses
  <1> QED BY <1>2, <1>3, <1>4, <1>5 DEF CInv

\* A claim that raised is answered with an error.
LEMMA FailClaimStep ==
  ASSUME TypeOK, NEW c \in Cases, CInv(c), FailClaim(c)
  PROVE  CInv(c)'
  <1>1. /\ pc[c] = "raise" /\ route[c] = "claim" /\ pc'[c] = "done" /\ reply'[c] = "500"
        /\ UNCHANGED <<route, level, rec, jobFile, caseFile, raw, sidecar, pkg, crashes, faults>>
    BY FaultPositive DEF TypeOK, FailClaim, Goto, disk
  <1>2. EvidenceInv(c)'
    BY <1>1 DEF CInv, EvidenceInv, Fresh, Sealed, Finished
  <1>3. PackageInv(c)'
    BY <1>1, FinalStatusKept DEF CInv, PackageInv, Sealed, Finished
  <1>4. CaseInv(c)'
    BY <1>1, FinalStatusKept DEF CInv, CaseInv, Sealed, Finished, FinalCaseStatuses
  <1>5. JobInv(c)'
    BY <1>1 DEF CInv, JobInv, Active, Gone, FinalJobStatuses, FinalCaseStatuses
  <1> QED BY <1>2, <1>3, <1>4, <1>5 DEF CInv

\* A task that ends a level, with whatever record, seals it: the files of the
\* other level are as they were.
LEMMA SealStep ==
  ASSUME TypeOK, NEW c \in Cases, EvidenceInv(c),
         pc[c] \in {"acquire", "raw", "sidecar"},
         NEW status \in EvidenceStatuses, NEW path \in BOOLEAN,
         SetRecord(c, status, path), NextLevel(c),
         \A l \in Levels : l # level[c] =>
           raw'[c][l] = raw[c][l] /\ sidecar'[c][l] = sidecar[c][l],
         status # "PARTIAL" => /\ raw'[c][level[c]] = sidecar'[c][level[c]]
                               /\ raw'[c][level[c]] # "torn",
         path => raw'[c][level[c]] = "whole" /\ sidecar'[c][level[c]] = "whole"
  PROVE  EvidenceInv(c)' /\ pc'[c] \in {"acquire", "package"}
  <1>1. /\ level[c] \in Levels
        /\ rec'[c][level[c]] = [status |-> status, path |-> path]
        /\ \A l \in Levels : l # level[c] => rec'[c][l] = rec[c][l]
    BY DEF TypeOK, SetRecord
  <1>2. CASE level[c] = "L0"
    <2>1. level'[c] = "L1" /\ pc'[c] = "acquire"
      BY <1>2 DEF TypeOK, NextLevel, Goto
    <2>2. Fresh(c, "L1")
      BY <1>2 DEF EvidenceInv
    <2>3. Fresh(c, "L1")' /\ Sealed(c, "L0")'
      BY <1>1, <1>2, <2>2 DEF Fresh, Sealed, Levels
    <2>4. \A l \in Levels :
            rec'[c][l].path => raw'[c][l] = "whole" /\ sidecar'[c][l] = "whole"
      BY <1>1 DEF EvidenceInv
    <2> QED BY <2>1, <2>3, <2>4 DEF EvidenceInv
  <1>3. CASE level[c] = "L1"
    <2>1. level'[c] = "L1" /\ pc'[c] = "package"
      BY <1>3 DEF TypeOK, NextLevel, Goto
    <2>2. Sealed(c, "L0")
      BY <1>3 DEF EvidenceInv
    <2>3. Sealed(c, "L0")' /\ Sealed(c, "L1")'
      BY <1>1, <1>3, <2>2 DEF Sealed, Levels
    <2>4. \A l \in Levels :
            rec'[c][l].path => raw'[c][l] = "whole" /\ sidecar'[c][l] = "whole"
      BY <1>1 DEF EvidenceInv
    <2> QED BY <2>1, <2>3, <2>4 DEF EvidenceInv, Finished
  <1> QED BY <1>1, <1>2, <1>3 DEF Levels

\* While the evidence is being acquired there is no package and the case is
\* open, so a step that touches neither keeps the rest of the invariant.
LEMMA AcquiringFrame ==
  ASSUME TypeOK, NEW c \in Cases, CInv(c),
         pc[c] \in {"acquire", "raw", "sidecar"},
         pc'[c] \in {"acquire", "raw", "sidecar", "package", "raise"},
         route'[c] = route[c], reply'[c] = reply[c], jobFile'[c] = jobFile[c],
         caseFile'[c] = caseFile[c], pkg'[c] = pkg[c], faults > 0 => faults' > 0,
         crashes' = crashes
  PROVE  PackageInv(c)' /\ CaseInv(c)' /\ JobInv(c)'
  <1>1. pkg[c].file = "absent" /\ caseFile[c] = "RUNNING"
    BY DEF CInv, PackageInv, CaseInv
  <1>2. PackageInv(c)'
    BY <1>1 DEF PackageInv
  <1>3. CaseInv(c)'
    BY <1>1 DEF CaseInv, FinalCaseStatuses
  <1>4. JobInv(c)'
    BY <1>1 DEF CInv, JobInv, Active, Gone, FinalJobStatuses, FinalCaseStatuses
  <1> QED BY <1>2, <1>3, <1>4

\* An answer gives a record, or the task raises with nothing changed.
LEMMA AcquireStep ==
  ASSUME TypeOK, NEW c \in Cases, CInv(c), Acquire(c)
  PROVE  CInv(c)'
  <1>1. pc[c] = "acquire" /\ UNCHANGED <<route, reply, disk, faults, crashes>>
    BY DEF Acquire
  <1>2. level[c] \in Levels /\ Fresh(c, level[c])
    BY <1>1 DEF TypeOK, CInv, EvidenceInv
  <1>3. PICK a \in Answers(level[c], configured) :
          \/ /\ a.kind = "payload"
             /\ SetRecord(c, RecordStatus(level[c], configured, a), FALSE)
             /\ Goto(c, "raw")
             /\ UNCHANGED level
          \/ /\ a.kind = "error"
             /\ SetRecord(c, RecordStatus(level[c], configured, a), FALSE)
             /\ NextLevel(c)
          \/ /\ a.kind = "escape"
             /\ Goto(c, "raise")
             /\ UNCHANGED <<level, rec>>
    BY DEF Acquire
  <1>4. CASE a.kind = "payload"
    <2> DEFINE s == RecordStatus(level[c], configured, a)
    <2>1. s \in EvidenceStatuses
      BY <1>2, <1>4, RecordStatusType
    <2>2. SetRecord(c, s, FALSE) /\ pc'[c] = "raw" /\ UNCHANGED level
      BY <1>3, <1>4 DEF TypeOK, Goto
    <2> HIDE DEF s
    <2>3. /\ rec'[c][level[c]] = [status |-> s, path |-> FALSE]
          /\ \A l \in Levels : l # level[c] => rec'[c][l] = rec[c][l]
      BY <1>2, <2>2 DEF TypeOK, SetRecord
    <2>4. EvidenceInv(c)'
      <3>1. \A l \in Levels :
              rec'[c][l].path => raw'[c][l] = "whole" /\ sidecar'[c][l] = "whole"
        BY <1>1, <2>3 DEF CInv, EvidenceInv, disk
      <3>2. level'[c] = "L0" => Fresh(c, "L1")'
        BY <1>1, <1>2, <2>2, <2>3 DEF CInv, EvidenceInv, Fresh, disk, Levels
      <3>3. level'[c] = "L1" => Sealed(c, "L0")'
        BY <1>1, <1>2, <2>2, <2>3 DEF CInv, EvidenceInv, Sealed, disk, Levels
      <3>4. raw'[c][level[c]] = "absent" /\ sidecar'[c][level[c]] = "absent"
        BY <1>1, <1>2 DEF Fresh, disk
      <3> QED BY <2>1, <2>2, <2>3, <3>1, <3>2, <3>3, <3>4 DEF EvidenceInv
    <2> QED BY <1>1, <2>2, <2>4, AcquiringFrame DEF CInv, disk
  <1>5. CASE a.kind = "error"
    <2>1. RecordStatus(level[c], configured, a) \in EvidenceStatuses
      BY <1>2, <1>5, RecordStatusType
    <2>2. SetRecord(c, RecordStatus(level[c], configured, a), FALSE) /\ NextLevel(c)
      BY <1>3, <1>5
    <2>3. raw'[c][level[c]] = "absent" /\ sidecar'[c][level[c]] = "absent"
      BY <1>1, <1>2 DEF Fresh, disk
    <2>4. EvidenceInv(c)' /\ pc'[c] \in {"acquire", "package"}
      BY <1>1, <2>1, <2>2, <2>3, SealStep DEF CInv, disk
    <2> QED BY <1>1, <2>4, AcquiringFrame DEF CInv, disk
  <1>6. CASE a.kind = "escape"
    <2>1. pc'[c] = "raise" /\ UNCHANGED <<level, rec>>
      BY <1>3, <1>6 DEF TypeOK, Goto
    <2>2. EvidenceInv(c)'
      BY <1>1, <2>1 DEF CInv, EvidenceInv, Fresh, Sealed, disk
    <2> QED BY <1>1, <2>1, <2>2, AcquiringFrame DEF CInv, disk
  <1> QED BY <1>3, <1>4, <1>5, <1>6

\* The payload is written, or the level is sealed PARTIAL without a path.
LEMMA WriteRawStep ==
  ASSUME TypeOK, NEW c \in Cases, CInv(c), WriteRaw(c)
  PROVE  CInv(c)'
  <1>1. /\ pc[c] = "raw"
        /\ UNCHANGED <<route, reply, jobFile, caseFile, sidecar, pkg, crashes>>
    BY DEF WriteRaw
  <1>2. level[c] \in Levels
    BY DEF TypeOK
  <1>3. CASE /\ raw' = [raw EXCEPT ![c][level[c]] = "whole"]
             /\ Goto(c, "sidecar")
             /\ UNCHANGED <<level, rec, faults>>
    <2>1. /\ pc'[c] = "sidecar" /\ raw'[c][level[c]] = "whole"
          /\ \A l \in Levels : l # level[c] => raw'[c][l] = raw[c][l]
      BY <1>2, <1>3 DEF TypeOK, Goto
    <2>2. EvidenceInv(c)'
      <3>1. \A l \in Levels :
              rec'[c][l].path => raw'[c][l] = "whole" /\ sidecar'[c][l] = "whole"
        BY <1>1, <1>3, <2>1 DEF CInv, EvidenceInv
      <3>2. level'[c] = "L0" => Fresh(c, "L1")'
        BY <1>1, <1>2, <1>3, <2>1 DEF CInv, EvidenceInv, Fresh, Levels
      <3>3. level'[c] = "L1" => Sealed(c, "L0")'
        BY <1>1, <1>2, <1>3, <2>1 DEF CInv, EvidenceInv, Sealed, Levels
      <3> QED BY <1>1, <1>3, <2>1, <3>1, <3>2, <3>3 DEF CInv, EvidenceInv
    <2> QED BY <1>1, <1>3, <2>1, <2>2, AcquiringFrame DEF CInv
  <1>4. ASSUME Fault, PreservationFailed(c), NEW left \in {"absent", "torn"},
               raw' = [raw EXCEPT ![c][level[c]] = left]
        PROVE  CInv(c)'
    <2>1. \A l \in Levels : l # level[c] => raw'[c][l] = raw[c][l]
      BY <1>2, <1>4 DEF TypeOK
    <2>2. EvidenceInv(c)' /\ pc'[c] \in {"acquire", "package"}
      BY <1>1, <1>4, <2>1, SealStep DEF CInv, PreservationFailed, EvidenceStatuses
    <2> QED BY <1>1, <1>4, <2>2, AcquiringFrame, FaultPositive DEF CInv
  <1> QED BY <1>3, <1>4 DEF WriteRaw

\* The digest is written and the record gets its path, or the level is sealed
\* PARTIAL without one.
LEMMA WriteSidecarStep ==
  ASSUME TypeOK, NEW c \in Cases, CInv(c), WriteSidecar(c)
  PROVE  CInv(c)'
  <1>1. /\ pc[c] = "sidecar"
        /\ UNCHANGED <<route, reply, jobFile, caseFile, raw, pkg, crashes>>
    BY DEF WriteSidecar
  <1>2. /\ level[c] \in Levels /\ raw[c][level[c]] = "whole"
        /\ rec[c][level[c]].status \in EvidenceStatuses
    BY <1>1 DEF TypeOK, CInv, EvidenceInv
  <1>3. CASE /\ sidecar' = [sidecar EXCEPT ![c][level[c]] = "whole"]
             /\ SetRecord(c, rec[c][level[c]].status, TRUE)
             /\ NextLevel(c)
             /\ UNCHANGED faults
    <2>1. /\ sidecar'[c][level[c]] = "whole"
          /\ \A l \in Levels : l # level[c] => sidecar'[c][l] = sidecar[c][l]
      BY <1>2, <1>3 DEF TypeOK
    <2>2. EvidenceInv(c)' /\ pc'[c] \in {"acquire", "package"}
      BY <1>1, <1>2, <1>3, <2>1, SealStep DEF CInv
    <2> QED BY <1>1, <1>3, <2>2, AcquiringFrame DEF CInv
  <1>4. ASSUME Fault, PreservationFailed(c), NEW left \in {"absent", "torn"},
               sidecar' = [sidecar EXCEPT ![c][level[c]] = left]
        PROVE  CInv(c)'
    <2>1. \A l \in Levels : l # level[c] => sidecar'[c][l] = sidecar[c][l]
      BY <1>2, <1>4 DEF TypeOK
    <2>2. EvidenceInv(c)' /\ pc'[c] \in {"acquire", "package"}
      BY <1>1, <1>4, <2>1, SealStep DEF CInv, PreservationFailed, EvidenceStatuses
    <2> QED BY <1>1, <1>4, <2>2, AcquiringFrame, FaultPositive DEF CInv
  <1> QED BY <1>3, <1>4 DEF WriteSidecar

\* What a crash does to one request: its task is gone, and its files are as they
\* were, or the one its task was writing is torn, or the request was about to
\* write its first file and ends with that one torn.
LEMMA CrashEffect ==
  ASSUME TypeOK, NEW d \in Cases, CInv(d), Crash
  PROVE  /\ crashes' > 0
         /\ UNCHANGED <<configured, reply, level, rec, faults>>
         /\ \/ /\ pc'[d] = IF Active(d) THEN "lost" ELSE pc[d]
               /\ route'[d] = route[d]
               /\ \/ /\ jobFile'[d] = jobFile[d] /\ caseFile'[d] = caseFile[d]
                     /\ raw'[d] = raw[d] /\ sidecar'[d] = sidecar[d] /\ pkg'[d] = pkg[d]
                  \/ TearFile(d)
            \/ pc'[d] = "lost" /\ TearFirstFile(d)
  <1>1. crashes' > 0 /\ UNCHANGED <<configured, reply, level, rec, faults>>
    BY BoundsAssumption DEF TypeOK, Crash
  <1>2. pc'[d] = IF Active(d) \/ route'[d] # route[d] THEN "lost" ELSE pc[d]
    BY DEF Crash
  <1>3. CASE UNCHANGED <<route, disk>>
    BY <1>1, <1>2, <1>3 DEF disk
  <1>4. ASSUME UNCHANGED route, NEW c \in Cases, TearFile(c)
        PROVE  \/ /\ jobFile'[d] = jobFile[d] /\ caseFile'[d] = caseFile[d]
                  /\ raw'[d] = raw[d] /\ sidecar'[d] = sidecar[d] /\ pkg'[d] = pkg[d]
               \/ TearFile(d)
    BY <1>4 DEF TypeOK, TearFile
  <1>5. ASSUME NEW c \in Cases, TearFirstFile(c), c # d
        PROVE  /\ jobFile'[d] = jobFile[d] /\ caseFile'[d] = caseFile[d]
               /\ raw'[d] = raw[d] /\ sidecar'[d] = sidecar[d] /\ pkg'[d] = pkg[d]
               /\ route'[d] = route[d]
    BY <1>5 DEF TypeOK, TearFirstFile
  <1>6. CASE TearFirstFile(d)
    <2>1. route[d] = "none" /\ route'[d] \in {"job", "claim"}
      BY <1>6 DEF TypeOK, TearFirstFile, CInv, JobInv
    <2> QED BY <1>1, <1>2, <1>6, <2>1
  <1> QED BY <1>1, <1>2, <1>3, <1>4, <1>5, <1>6 DEF Crash

\* A request that dies inside its first write leaves what IInv says.
LEMMA TornFirstStep ==
  ASSUME TypeOK, NEW d \in Cases, CInv(d), TearFirstFile(d), pc'[d] = "lost",
         crashes' > 0, UNCHANGED <<reply, level, rec, faults>>
  PROVE  CInv(d)'
  <1>1. /\ pc[d] = "idle" /\ UNCHANGED <<raw, sidecar, pkg>>
        /\ jobFile'[d] \in {jobFile[d], "torn"} /\ caseFile'[d] \in {caseFile[d], "torn"}
        /\ \/ route'[d] = "job"
           \/ route'[d] = "claim" /\ jobFile'[d] = jobFile[d]
    BY DEF TypeOK, TearFirstFile
  <1>2. FinalStatus(d)' = FinalStatus(d)
    BY FinalStatusKept
  <1>3. /\ level[d] = "L0" /\ pkg[d].file = "absent"
        /\ jobFile[d] = "absent" /\ caseFile[d] = "absent"
        /\ reply[d] \notin FinalCaseStatuses
    BY <1>1 DEF CInv, EvidenceInv, PackageInv, CaseInv, JobInv
  <1>4. EvidenceInv(d)'
    BY <1>1, <1>3 DEF CInv, EvidenceInv, Fresh, Sealed
  <1>5. PackageInv(d)'
    BY <1>1, <1>3 DEF PackageInv
  <1>6. CaseInv(d)'
    BY <1>1, <1>3 DEF CaseInv, FinalCaseStatuses
  <1>7. JobInv(d)'
    BY <1>1, <1>3 DEF JobInv, Active, Gone, FinalJobStatuses, FinalCaseStatuses
  <1> QED BY <1>4, <1>5, <1>6, <1>7 DEF CInv

\* A request whose task dies, with its files kept or one torn, leaves it too.
LEMMA TornStep ==
  ASSUME TypeOK, NEW d \in Cases, CInv(d),
         pc'[d] = IF Active(d) THEN "lost" ELSE pc[d], crashes' > 0,
         route'[d] = route[d], UNCHANGED <<reply, level, rec, faults>>,
         \/ /\ jobFile'[d] = jobFile[d] /\ caseFile'[d] = caseFile[d]
            /\ raw'[d] = raw[d] /\ sidecar'[d] = sidecar[d] /\ pkg'[d] = pkg[d]
         \/ TearFile(d)
  PROVE  CInv(d)'
  <1>1. /\ pc'[d] = IF Active(d) THEN "lost" ELSE pc[d]
        /\ crashes' > 0
        /\ route'[d] = route[d]
        /\ UNCHANGED <<reply, level, rec, faults>>
        /\ \/ /\ jobFile'[d] = jobFile[d] /\ caseFile'[d] = caseFile[d]
              /\ raw'[d] = raw[d] /\ sidecar'[d] = sidecar[d] /\ pkg'[d] = pkg[d]
           \/ TearFile(d)
    OBVIOUS
  <1>2. FinalStatus(d)' = FinalStatus(d)
    BY <1>1, FinalStatusKept
  <1>3. CASE /\ jobFile'[d] = jobFile[d] /\ caseFile'[d] = caseFile[d]
             /\ raw'[d] = raw[d] /\ sidecar'[d] = sidecar[d] /\ pkg'[d] = pkg[d]
    <2>1. EvidenceInv(d)'
      BY <1>1, <1>3 DEF CInv, EvidenceInv, Fresh, Sealed, Finished, Active, Gone
    <2>2. PackageInv(d)'
      BY <1>1, <1>2, <1>3 DEF CInv, PackageInv, Sealed, Finished, Active, Gone
    <2>3. CaseInv(d)'
      BY <1>1, <1>2, <1>3 DEF CInv, CaseInv, Sealed, Finished, Active, Gone
    <2>4. JobInv(d)'
      BY <1>1, <1>3 DEF CInv, JobInv, Active, Gone, FinalJobStatuses, FinalCaseStatuses
    <2> QED BY <2>1, <2>2, <2>3, <2>4 DEF CInv
  <1>4. CASE TearFile(d)
    <2>1. Active(d) /\ pc'[d] = "lost" /\ level[d] \in Levels
      BY <1>1, <1>4 DEF TypeOK, TearFile, Active, Gone
    <2>2. reply[d] \notin FinalCaseStatuses
      BY <2>1 DEF CInv, JobInv, Active, Gone
    <2>3. jobFile[d] \notin FinalJobStatuses
      BY <2>1 DEF CInv, JobInv, Active, Gone, FinalJobStatuses
    <2>4. CASE pc[d] \in {"queued", "save"}
      <3>1. caseFile'[d] = "torn" /\ UNCHANGED <<jobFile, raw, sidecar, pkg>>
        BY <1>4, <2>4 DEF TypeOK, TearFile
      <3>2. EvidenceInv(d)'
        BY <1>1, <2>1, <3>1 DEF CInv, EvidenceInv, Fresh, Sealed
      <3>3. PackageInv(d)'
        BY <1>1, <1>2, <2>1, <3>1 DEF CInv, PackageInv, Sealed, Finished
      <3>4. CaseInv(d)' /\ JobInv(d)'
        BY <1>1, <2>1, <2>2, <2>3, <3>1
        DEF CInv, CaseInv, JobInv, Active, Gone, FinalCaseStatuses, FinalJobStatuses
      <3> QED BY <3>2, <3>3, <3>4 DEF CInv
    <2>5. CASE pc[d] \in {"raw", "sidecar"}
      <3>1. /\ UNCHANGED <<jobFile, caseFile, pkg>>
            /\ pkg[d].file = "absent" /\ caseFile[d] = "RUNNING"
        BY <1>4, <2>5 DEF TearFile, CInv, PackageInv, CaseInv
      <3>2. /\ \A l \in Levels : l # level[d] =>
                 raw'[d][l] = raw[d][l] /\ sidecar'[d][l] = sidecar[d][l]
            /\ ~rec[d][level[d]].path
        BY <1>4, <2>1, <2>5 DEF TypeOK, TearFile, CInv, EvidenceInv
      <3>3. EvidenceInv(d)'
        <4>1. \A l \in Levels :
                rec'[d][l].path => raw'[d][l] = "whole" /\ sidecar'[d][l] = "whole"
          BY <1>1, <3>2 DEF CInv, EvidenceInv
        <4>2. level'[d] = "L0" => Fresh(d, "L1")'
          BY <1>1, <3>2 DEF CInv, EvidenceInv, Fresh, Levels
        <4>3. level'[d] = "L1" => Sealed(d, "L0")'
          BY <1>1, <3>2 DEF CInv, EvidenceInv, Sealed, Levels
        <4> QED BY <2>1, <4>1, <4>2, <4>3 DEF EvidenceInv
      <3>4. PackageInv(d)' /\ CaseInv(d)'
        BY <2>1, <3>1 DEF PackageInv, CaseInv, FinalCaseStatuses
      <3>5. JobInv(d)'
        BY <1>1, <2>1, <2>2, <2>3, <3>1
        DEF CInv, JobInv, Active, Gone, FinalJobStatuses
      <3> QED BY <3>3, <3>4, <3>5 DEF CInv
    <2>6. CASE pc[d] = "package"
      <3>1. pkg'[d].file = "torn" /\ UNCHANGED <<jobFile, caseFile, raw, sidecar>>
        BY <1>4, <2>6 DEF TypeOK, TearFile
      <3>2. EvidenceInv(d)'
        BY <1>1, <2>1, <3>1 DEF CInv, EvidenceInv, Fresh, Sealed
      <3>3. PackageInv(d)'
        BY <2>1, <3>1 DEF PackageInv
      <3>4. CaseInv(d)'
        BY <1>1, <1>2, <2>1, <3>1 DEF CInv, CaseInv, Sealed, Finished
      <3>5. JobInv(d)'
        BY <1>1, <2>1, <2>2, <2>3, <3>1
        DEF CInv, JobInv, Active, Gone, FinalJobStatuses
      <3> QED BY <3>2, <3>3, <3>4, <3>5 DEF CInv
    <2>7. CASE pc[d] \in {"finish", "raise"}
      <3>1. /\ jobFile'[d] = "torn" /\ route[d] = "job"
            /\ UNCHANGED <<caseFile, raw, sidecar, pkg>>
        BY <1>4, <2>7 DEF TypeOK, TearFile
      <3>2. EvidenceInv(d)'
        BY <1>1, <2>1, <3>1 DEF CInv, EvidenceInv, Fresh, Sealed
      <3>3. PackageInv(d)'
        BY <1>1, <1>2, <2>1, <3>1 DEF CInv, PackageInv, Sealed, Finished
      <3>4. CaseInv(d)'
        BY <1>1, <1>2, <2>1, <3>1 DEF CInv, CaseInv, Sealed, Finished
      <3>5. JobInv(d)'
        BY <1>1, <2>1, <2>2, <3>1
        DEF CInv, JobInv, Active, Gone, FinalJobStatuses
      <3> QED BY <3>2, <3>3, <3>4, <3>5 DEF CInv
    <2> QED BY <1>4, <2>4, <2>5, <2>6, <2>7 DEF TearFile
  <1> QED BY <1>1, <1>3, <1>4

\* A restart keeps what IInv says of every request.
LEMMA CrashStep ==
  ASSUME TypeOK, NEW d \in Cases, CInv(d), Crash
  PROVE  CInv(d)'
  BY CrashEffect, TornStep, TornFirstStep

-----------------------------------------------------------------------------
(* The invariant is inductive.                                             *)

LEMMA InitIInv == Init => IInv
  <1> SUFFICES ASSUME Init PROVE IInv
    OBVIOUS
  <1>1. TypeOK
    BY BoundsAssumption
    DEF Init, TypeOK, Phases, Gone, Levels, NoRecord, NoFiles, NoPackage, Contents
  <1>2. ASSUME NEW c \in Cases PROVE CInv(c)
    <2>1. EvidenceInv(c)
      BY DEF Init, EvidenceInv, Fresh, NoRecord, NoFiles, Levels
    <2>2. PackageInv(c) /\ CaseInv(c)
      BY DEF Init, PackageInv, CaseInv, NoPackage, FinalCaseStatuses
    <2>3. JobInv(c)
      BY DEF Init, JobInv, Active, Gone, FinalJobStatuses, FinalCaseStatuses
    <2> QED BY <2>1, <2>2, <2>3 DEF CInv
  <1> QED BY <1>1, <1>2 DEF IInv

\* A step of c's task keeps what IInv says of c.
LEMMA OwnStep ==
  ASSUME TypeOK, NEW c \in Cases, CInv(c), SubmitAudit(c) \/ ClaimAudit(c) \/ Task(c)
  PROVE  CInv(c)'
  BY SubmitAuditStep, ClaimAuditStep, RunJobStep, AcquireStep, WriteRawStep,
     WriteSidecarStep, BuildPackageStep, SaveCaseStep, FinishJobStep, AnswerClaimStep,
     FailJobStep, FailClaimStep DEF Task

LEMMA NextIInv == IInv /\ [Next]_vars => IInv'
  <1> SUFFICES ASSUME IInv, [Next]_vars PROVE IInv'
    OBVIOUS
  <1>1. TypeOK /\ TypeOK'
    BY TypeStep DEF IInv
  <1>2. (crashes > 0 => crashes' > 0) /\ (faults > 0 => faults' > 0)
    BY <1>1, Counters
  <1>3. ASSUME NEW d \in Cases PROVE CInv(d)'
    <2>1. CInv(d)
      BY DEF IInv
    <2>2. ASSUME NEW c \in Cases, SubmitAudit(c) \/ ClaimAudit(c) \/ Task(c)
          PROVE  CInv(d)'
      <3>1. CASE c = d
        BY <1>1, <2>1, <2>2, <3>1, OwnStep
      <3>2. CASE c # d
        BY <1>1, <1>2, <2>1, <2>2, <3>2, Others, Frame
      <3> QED BY <3>1, <3>2
    <2>3. CASE Crash
      BY <1>1, <2>1, <2>3, CrashStep
    <2>4. CASE UNCHANGED vars
      BY <1>2, <2>1, <2>4, Frame DEF vars, memory, disk
    <2> QED BY <2>2, <2>3, <2>4 DEF Next
  <1> QED BY <1>1, <1>3 DEF IInv

\* The inductive invariant holds in every reachable state.
THEOREM InductiveInvariant == Spec => []IInv
  BY InitIInv, NextIInv, PTL DEF Spec

-----------------------------------------------------------------------------
(* Safety.                                                                 *)

\* A record with a raw_path verifies, in every reachable state.
THEOREM RecordsVerify == Spec => []RecordedEvidenceVerifies
  <1>1. IInv => RecordedEvidenceVerifies
    BY DEF IInv, CInv, EvidenceInv, RecordedEvidenceVerifies
  <1> QED BY <1>1, InductiveInvariant, PTL

\* A finished package is, and stays, a snapshot of the case's evidence.
THEOREM PackagesSeal == Spec => []PackageSealsEvidence
  <1>1. IInv => PackageSealsEvidence
    BY DEF IInv, CInv, EvidenceInv, PackageInv, PackageSealsEvidence
  <1> QED BY <1>1, InductiveInvariant, PTL

\* While no write has failed, a pipeline that raised, and a job that ended
\* FAILED, stand over a case that is still open and has no package, or that
\* closed as FAILED.
Unsealed(c) == caseFile[c] = "RUNNING" /\ pkg[c].file = "absent"

BlameInv(c) ==
  /\ pc[c] = "raise" => faults > 0 \/ Unsealed(c)
  /\ jobFile[c] = "FAILED" => faults > 0 \/ Unsealed(c) \/ caseFile[c] = "FAILED"

\* A step of a request's task that raises has failed to write, or the provider
\* made it raise before there was a package.
LEMMA OwnStepBlames ==
  ASSUME TypeOK, NEW c \in Cases, CInv(c), BlameInv(c),
         SubmitAudit(c) \/ ClaimAudit(c) \/ Task(c)
  PROVE  BlameInv(c)'
  <1>1. ASSUME Fault
        PROVE  faults' > 0
    BY <1>1 DEF TypeOK, Fault
  <1>2. CASE SubmitAudit(c)
    BY <1>2 DEF TypeOK, SubmitAudit, Write, Goto, BlameInv, CInv, JobInv
  <1>3. CASE ClaimAudit(c) \/ RunJob(c)
    <2>1. faults' > 0 \/ pc'[c] = "acquire"
      BY <1>1, <1>3 DEF TypeOK, ClaimAudit, RunJob, Write, Goto
    <2>2. jobFile'[c] \in {"absent", "RUNNING"}
      BY <1>3 DEF ClaimAudit, RunJob, CInv, JobInv, Active, Gone
    <2> QED BY <2>1, <2>2 DEF BlameInv
  <1>4. CASE Acquire(c) \/ WriteRaw(c) \/ WriteSidecar(c)
    <2>1. /\ jobFile' = jobFile /\ caseFile' = caseFile /\ pkg' = pkg
          /\ jobFile[c] \in {"absent", "RUNNING"} /\ Unsealed(c)
      BY <1>4 DEF Acquire, WriteRaw, WriteSidecar, disk, CInv, JobInv, CaseInv,
         PackageInv, Active, Gone, Unsealed
    <2> QED BY <2>1 DEF BlameInv, Unsealed
  <1>5. CASE BuildPackage(c) \/ SaveCase(c)
    <2>1. /\ jobFile' = jobFile /\ jobFile[c] \in {"absent", "RUNNING"}
          /\ faults' > 0 \/ pc'[c] \in {"save", "finish"}
      BY <1>1, <1>5 DEF TypeOK, BuildPackage, SaveCase, Write, Goto, CInv, JobInv,
         Active, Gone
    <2> QED BY <2>1 DEF BlameInv
  <1>6. CASE FinishJob(c)
    <2>0. caseFile' = caseFile /\ caseFile[c] = FinalStatus(c)
      BY <1>6 DEF FinishJob, CInv, CaseInv
    <2>1. faults' > 0 \/ (pc'[c] = "done" /\ jobFile'[c] = EnvelopeOf(caseFile[c]))
      <3>1. CASE jobFile' = [jobFile EXCEPT ![c] = EnvelopeOf(FinalStatus(c))] /\ Goto(c, "done")
        BY <2>0, <3>1 DEF TypeOK, Goto
      <3>2. CASE Fault
        BY <1>1, <3>2
      <3> QED BY <1>6, <3>1, <3>2 DEF FinishJob, Write
    <2>2. EnvelopeOf(caseFile[c]) = "FAILED" => caseFile[c] = "FAILED"
      BY DEF EnvelopeOf
    <2> QED BY <2>0, <2>1, <2>2 DEF BlameInv
  <1>7. CASE AnswerClaim(c) \/ FailClaim(c)
    <2>1. pc'[c] = "done" /\ UNCHANGED <<disk, faults>>
      BY <1>7 DEF TypeOK, AnswerClaim, FailClaim, Goto
    <2> QED BY <2>1 DEF BlameInv, Unsealed, disk
  <1>8. CASE FailJob(c)
    <2>1. /\ pc[c] = "raise" /\ pc'[c] \in {"done", "dead"}
          /\ UNCHANGED <<caseFile, pkg>> /\ (faults > 0 => faults' > 0)
      BY <1>8 DEF TypeOK, FailJob, Write, Fault, Goto
    <2> QED BY <2>1 DEF BlameInv, Unsealed
  <1> QED BY <1>2, <1>3, <1>4, <1>5, <1>6, <1>7, <1>8 DEF Task

LEMMA NextBlames ==
  ASSUME IInv, \A c \in Cases : BlameInv(c), [Next]_vars, NEW d \in Cases
  PROVE  BlameInv(d)'
  <1>1. TypeOK /\ CInv(d) /\ BlameInv(d)
    BY DEF IInv
  <1>2. faults > 0 => faults' > 0
    BY <1>1, Counters
  <1>3. ASSUME NEW c \in Cases, SubmitAudit(c) \/ ClaimAudit(c) \/ Task(c)
        PROVE  BlameInv(d)'
    <2>1. CASE c = d
      BY <1>1, <1>3, <2>1, OwnStepBlames
    <2>2. CASE c # d
      BY <1>1, <1>2, <1>3, <2>2, Others DEF BlameInv, Unsealed
    <2> QED BY <2>1, <2>2
  <1>4. CASE Crash
    <2>1. CASE /\ pc'[d] = IF Active(d) THEN "lost" ELSE pc[d]
               /\ jobFile'[d] = jobFile[d] /\ caseFile'[d] = caseFile[d]
               /\ pkg'[d] = pkg[d]
      BY <1>1, <1>2, <2>1 DEF BlameInv, Unsealed
    <2>2. CASE TearFile(d) /\ pc'[d] = IF Active(d) THEN "lost" ELSE pc[d]
      <3>1. Active(d) /\ pc'[d] = "lost"
        BY <2>2 DEF TearFile, Active, Gone
      <3>2. jobFile'[d] # "FAILED"
        BY <1>1, <2>2, <3>1 DEF TypeOK, TearFile, CInv, JobInv, Active, Gone
      <3> QED BY <3>1, <3>2 DEF BlameInv
    <2>3. CASE TearFirstFile(d) /\ pc'[d] = "lost"
      <3>1. jobFile'[d] # "FAILED"
        BY <1>1, <2>3 DEF TypeOK, TearFirstFile, CInv, JobInv
      <3> QED BY <2>3, <3>1 DEF BlameInv
    <2> QED BY <1>1, <1>4, <2>1, <2>2, <2>3, CrashEffect
  <1>5. CASE UNCHANGED vars
    BY <1>1, <1>5 DEF vars, memory, disk, BlameInv, Unsealed
  <1> QED BY <1>3, <1>4, <1>5 DEF Next

\* Job, case, manifest and response of one audit overstate nothing, and job and
\* case, or job and package, come apart only after a write failed.
THEOREM StatusesAgree == Spec => []PublishedStatusesAgree
  <1>1. Init => \A c \in Cases : BlameInv(c)
    BY DEF Init, BlameInv
  <1>2. Spec => [](\A c \in Cases : BlameInv(c))
    <2>1. IInv /\ (\A c \in Cases : BlameInv(c)) /\ [Next]_vars
            => (\A c \in Cases : BlameInv(c))'
      BY NextBlames
    <2> QED BY <1>1, <2>1, InductiveInvariant, PTL DEF Spec
  <1>3. IInv /\ (\A c \in Cases : BlameInv(c)) => PublishedStatusesAgree
    <2> SUFFICES ASSUME IInv, NEW c \in Cases, BlameInv(c)
                 PROVE  /\ jobFile[c] \in {"COMPLETE", "PARTIAL"} =>
                             /\ caseFile[c] \in FinalCaseStatuses
                             /\ jobFile[c] = EnvelopeOf(caseFile[c])
                        /\ pkg[c].file = "whole" /\ caseFile[c] \in FinalCaseStatuses =>
                             pkg[c].status = caseFile[c]
                        /\ reply[c] \in FinalCaseStatuses => caseFile[c] = reply[c]
                        /\ jobFile[c] = "FAILED" /\ faults = 0 =>
                             /\ caseFile[c] \in {"FAILED", "RUNNING"}
                             /\ pkg[c].file = "whole" => caseFile[c] = "FAILED"
      BY DEF PublishedStatusesAgree
    <2>1. CInv(c)
      BY DEF IInv
    <2>2. jobFile[c] = "FAILED" /\ faults = 0 =>
            /\ caseFile[c] \in {"FAILED", "RUNNING"}
            /\ pkg[c].file = "whole" => caseFile[c] = "FAILED"
      BY DEF BlameInv, Unsealed
    <2> QED BY <2>1, <2>2 DEF CInv, PackageInv, CaseInv, JobInv
  <1> QED BY <1>2, <1>3, InductiveInvariant, PTL

\* Without a restart or a failed write every job that says RUNNING has a task.
THEOREM OrphansHaveACause == Spec => []OrphanedJobHasACause
  <1>1. IInv => OrphanedJobHasACause
    <2> SUFFICES ASSUME IInv, NEW c \in Cases, jobFile[c] = "RUNNING", ~Active(c)
                 PROVE  crashes > 0 \/ faults > 0
      BY DEF OrphanedJobHasACause
    <2>1. pc[c] \in {"idle", "refused", "done", "dead", "lost"} /\ JobInv(c)
      BY DEF IInv, CInv, Active, Gone
    <2> QED BY <2>1 DEF JobInv, FinalJobStatuses
  <1> QED BY <1>1, InductiveInvariant, PTL

-----------------------------------------------------------------------------
(* What a status says of the evidence.                                     *)

\* Level l is finished, and its record says what is on disk: a full answer is
\* preserved, an unknown transaction has no file, and a level without a
\* provider has failed.
Backed(c, l) ==
  /\ rec[c][l].status \in {"COMPLETE", "WARNING"} => rec[c][l].path
  /\ rec[c][l].status = "UNKNOWN" =>
       l = "L0" /\ raw[c][l] = "absent" /\ sidecar[c][l] = "absent"
  /\ l \notin configured => rec[c][l].status = "FAILED"

BackingInv(c) ==
  /\ pc[c] \in {"raw", "sidecar"} =>
       /\ level[c] \in configured
       /\ rec[c][level[c]].status \in {"COMPLETE", "PARTIAL", "WARNING"}
  /\ level[c] = "L1" => Backed(c, "L0")
  /\ pc[c] \in {"package", "save", "finish"} \/ caseFile[c] \in FinalCaseStatuses
       => Backed(c, "L1")

\* A payload only comes from a provider that is configured.
LEMMA PayloadStatus ==
  ASSUME NEW l \in Levels, NEW a \in Answers(l, configured), a.kind = "payload"
  PROVE  /\ l \in configured
         /\ RecordStatus(l, configured, a) \in {"COMPLETE", "PARTIAL", "WARNING"}
  <1>1. l \in configured
    BY DEF Answers, Unconfigured, Failure
  <1>2. CASE l = "L0"
    BY <1>1, <1>2 DEF RecordStatus, L0Status
  <1>3. CASE l = "L1"
    <2>1. a.has_errors \in BOOLEAN
      BY <1>1, <1>3 DEF Answers, GraphAnswers, Payload, Failure, Escape
    <2> QED BY <1>1, <1>3, <2>1 DEF RecordStatus, L1Status
  <1> QED BY <1>1, <1>2, <1>3 DEF Levels

\* An error is never recorded as a full answer, and as an unknown transaction
\* only for the level that looks for one.
LEMMA ErrorStatus ==
  ASSUME NEW l \in Levels, NEW a \in Answers(l, configured), a.kind = "error"
  PROVE  /\ RecordStatus(l, configured, a) \in {"FAILED", "PARTIAL", "UNKNOWN"}
         /\ RecordStatus(l, configured, a) = "UNKNOWN" => l = "L0"
         /\ l \notin configured => RecordStatus(l, configured, a) = "FAILED"
  <1>1. CASE l \notin configured
    BY <1>1 DEF RecordStatus
  <1>2. CASE l \in configured /\ l = "L0"
    BY <1>2 DEF RecordStatus, L0Status
  <1>3. CASE l \in configured /\ l = "L1"
    BY <1>3 DEF RecordStatus, L1Status
  <1> QED BY <1>1, <1>2, <1>3 DEF Levels

\* A level is finished: what it is backed by is what its record and its files say.
LEMMA LevelEnds ==
  ASSUME TypeOK, NEW c \in Cases, BackingInv(c), NextLevel(c),
         pc[c] \in {"acquire", "raw", "sidecar"},
         caseFile'[c] \notin FinalCaseStatuses, configured' = configured,
         NEW ended \in Levels, ended = level[c], Backed(c, ended)',
         \A l \in Levels : l # level[c] =>
           rec'[c][l] = rec[c][l] /\ raw'[c][l] = raw[c][l] /\ sidecar'[c][l] = sidecar[c][l]
  PROVE  BackingInv(c)'
  <1>1. CASE level[c] = "L0"
    <2>1. level'[c] = "L1" /\ pc'[c] = "acquire"
      BY <1>1 DEF TypeOK, NextLevel, Goto
    <2>2. Backed(c, "L0")'
      BY <1>1 DEF Backed
    <2> QED BY <2>1, <2>2 DEF BackingInv
  <1>2. CASE level[c] = "L1"
    <2>1. level'[c] = "L1" /\ pc'[c] = "package"
      BY <1>2 DEF TypeOK, NextLevel, Goto
    <2>2. Backed(c, "L0")'
      BY <1>2 DEF BackingInv, Backed, Levels
    <2>3. Backed(c, "L1")'
      BY <1>2 DEF Backed
    <2> QED BY <2>1, <2>2, <2>3 DEF BackingInv
  <1> QED BY <1>1, <1>2 DEF TypeOK, Levels

\* A step that writes no evidence and no record.
LEMMA EvidenceStays ==
  ASSUME NEW c \in Cases, BackingInv(c), configured' = configured,
         level'[c] = level[c], rec'[c] = rec[c], raw'[c] = raw[c], sidecar'[c] = sidecar[c],
         pc'[c] \in {"raw", "sidecar"} => pc'[c] = pc[c],
         pc'[c] \in {"package", "save", "finish"} => pc[c] \in {"package", "save", "finish"},
         caseFile'[c] \in FinalCaseStatuses => pc[c] = "save" \/ caseFile[c] \in FinalCaseStatuses
  PROVE  BackingInv(c)'
  <1>1. \A l \in Levels : Backed(c, l) => Backed(c, l)'
    BY DEF Backed
  <1> QED BY <1>1 DEF BackingInv, Levels

LEMMA AcquireBacks ==
  ASSUME TypeOK, NEW c \in Cases, CInv(c), BackingInv(c), Acquire(c)
  PROVE  BackingInv(c)'
  <1>1. /\ pc[c] = "acquire" /\ UNCHANGED <<configured, disk>>
        /\ level[c] \in Levels /\ Fresh(c, level[c]) /\ caseFile[c] = "RUNNING"
    BY DEF Acquire, TypeOK, CInv, EvidenceInv, CaseInv
  <1>2. PICK a \in Answers(level[c], configured) :
          \/ /\ a.kind = "payload"
             /\ SetRecord(c, RecordStatus(level[c], configured, a), FALSE)
             /\ Goto(c, "raw")
             /\ UNCHANGED level
          \/ /\ a.kind = "error"
             /\ SetRecord(c, RecordStatus(level[c], configured, a), FALSE)
             /\ NextLevel(c)
          \/ /\ a.kind = "escape"
             /\ Goto(c, "raise")
             /\ UNCHANGED <<level, rec>>
    BY DEF Acquire
  <1> DEFINE status == RecordStatus(level[c], configured, a)
  <1>3. ASSUME SetRecord(c, status, FALSE)
        PROVE  /\ rec'[c][level[c]] = [status |-> status, path |-> FALSE]
               /\ \A l \in Levels : l # level[c] => rec'[c][l] = rec[c][l]
    BY <1>1, <1>3 DEF TypeOK, SetRecord
  <1>4. CASE a.kind = "payload"
    <2>1. level[c] \in configured /\ status \in {"COMPLETE", "PARTIAL", "WARNING"}
      BY <1>1, <1>4, PayloadStatus
    <2>2. SetRecord(c, status, FALSE) /\ pc'[c] = "raw" /\ UNCHANGED level
      BY <1>2, <1>4 DEF TypeOK, Goto
    <2> HIDE DEF status
    <2>3. level[c] = "L1" => Backed(c, "L0")'
      BY <1>1, <1>3, <2>2 DEF BackingInv, Backed, Levels, disk
    <2> QED BY <1>1, <1>3, <2>1, <2>2, <2>3 DEF BackingInv, FinalCaseStatuses, disk
  <1>5. CASE a.kind = "error"
    <2>1. /\ status \in {"FAILED", "PARTIAL", "UNKNOWN"} /\ (status = "UNKNOWN" => level[c] = "L0")
          /\ level[c] \notin configured => status = "FAILED"
      BY <1>1, <1>5, ErrorStatus
    <2>2. SetRecord(c, status, FALSE) /\ NextLevel(c)
      BY <1>2, <1>5
    <2> HIDE DEF status
    <2>3. PICK ended \in Levels : ended = level[c]
      BY <1>1
    <2>4. Backed(c, ended)'
      BY <1>1, <1>3, <2>1, <2>2, <2>3 DEF Backed, Fresh, disk
    <2> QED BY <1>1, <1>3, <2>2, <2>3, <2>4, LevelEnds DEF FinalCaseStatuses, disk
  <1>6. CASE a.kind = "escape"
    <2>1. pc'[c] = "raise" /\ UNCHANGED <<level, rec>>
      BY <1>2, <1>6 DEF TypeOK, Goto
    <2> QED BY <1>1, <2>1, EvidenceStays DEF disk
  <1> QED BY <1>2, <1>4, <1>5, <1>6

\* A failed preservation makes the record PARTIAL, which claims nothing.
LEMMA FailedPreservationBacks ==
  ASSUME TypeOK, NEW c \in Cases, BackingInv(c), pc[c] \in {"raw", "sidecar"},
         PreservationFailed(c), caseFile'[c] \notin FinalCaseStatuses,
         configured' = configured,
         \A l \in Levels : l # level[c] =>
           raw'[c][l] = raw[c][l] /\ sidecar'[c][l] = sidecar[c][l]
  PROVE  BackingInv(c)'
  <1>1. /\ NextLevel(c) /\ level[c] \in Levels /\ level[c] \in configured
        /\ rec'[c][level[c]] = [status |-> "PARTIAL", path |-> FALSE]
        /\ \A l \in Levels : l # level[c] => rec'[c][l] = rec[c][l]
    BY DEF TypeOK, PreservationFailed, SetRecord, BackingInv
  <1>2. PICK ended \in Levels : ended = level[c]
    BY <1>1
  <1>3. Backed(c, ended)'
    BY <1>1, <1>2 DEF Backed
  <1> QED BY <1>1, <1>2, <1>3, LevelEnds

LEMMA WriteRawBacks ==
  ASSUME TypeOK, NEW c \in Cases, CInv(c), BackingInv(c), WriteRaw(c)
  PROVE  BackingInv(c)'
  <1>1. /\ pc[c] = "raw" /\ UNCHANGED <<configured, caseFile, sidecar>>
        /\ level[c] \in Levels /\ caseFile[c] = "RUNNING"
    BY DEF WriteRaw, TypeOK, CInv, CaseInv
  <1>2. CASE /\ raw' = [raw EXCEPT ![c][level[c]] = "whole"]
             /\ Goto(c, "sidecar") /\ UNCHANGED <<level, rec, faults>>
    <2>1. /\ pc'[c] = "sidecar"
          /\ \A l \in Levels : l # level[c] => raw'[c][l] = raw[c][l]
      BY <1>1, <1>2 DEF TypeOK, Goto
    <2>2. level[c] = "L1" => Backed(c, "L0")'
      BY <1>1, <1>2, <2>1 DEF BackingInv, Backed, Levels
    <2> QED BY <1>1, <1>2, <2>1, <2>2 DEF BackingInv, FinalCaseStatuses
  <1>3. ASSUME PreservationFailed(c), NEW left \in {"absent", "torn"},
               raw' = [raw EXCEPT ![c][level[c]] = left]
        PROVE  BackingInv(c)'
    <2>1. \A l \in Levels : l # level[c] => raw'[c][l] = raw[c][l]
      BY <1>1, <1>3 DEF TypeOK
    <2> QED BY <1>1, <1>3, <2>1, FailedPreservationBacks DEF FinalCaseStatuses
  <1> QED BY <1>2, <1>3 DEF WriteRaw

LEMMA WriteSidecarBacks ==
  ASSUME TypeOK, NEW c \in Cases, CInv(c), BackingInv(c), WriteSidecar(c)
  PROVE  BackingInv(c)'
  <1>1. /\ pc[c] = "sidecar" /\ UNCHANGED <<configured, caseFile, raw>>
        /\ level[c] \in Levels /\ caseFile[c] = "RUNNING"
        /\ level[c] \in configured
        /\ rec[c][level[c]].status \in {"COMPLETE", "PARTIAL", "WARNING"}
    BY DEF WriteSidecar, TypeOK, CInv, CaseInv, BackingInv
  <1>2. CASE /\ sidecar' = [sidecar EXCEPT ![c][level[c]] = "whole"]
             /\ SetRecord(c, rec[c][level[c]].status, TRUE)
             /\ NextLevel(c) /\ UNCHANGED faults
    <2>1. /\ rec'[c][level[c]] = [status |-> rec[c][level[c]].status, path |-> TRUE]
          /\ \A l \in Levels : l # level[c] =>
               rec'[c][l] = rec[c][l] /\ sidecar'[c][l] = sidecar[c][l]
      BY <1>1, <1>2 DEF TypeOK, SetRecord
    <2>2. PICK ended \in Levels : ended = level[c]
      BY <1>1
    <2>3. Backed(c, ended)'
      BY <1>1, <2>1, <2>2 DEF Backed
    <2> QED BY <1>1, <1>2, <2>1, <2>2, <2>3, LevelEnds DEF FinalCaseStatuses
  <1>3. ASSUME PreservationFailed(c), NEW left \in {"absent", "torn"},
               sidecar' = [sidecar EXCEPT ![c][level[c]] = left]
        PROVE  BackingInv(c)'
    <2>1. \A l \in Levels : l # level[c] => sidecar'[c][l] = sidecar[c][l]
      BY <1>1, <1>3 DEF TypeOK
    <2> QED BY <1>1, <1>3, <2>1, FailedPreservationBacks DEF FinalCaseStatuses
  <1> QED BY <1>2, <1>3 DEF WriteSidecar

\* The steps before and after the acquisition.
LEMMA OtherStepsBack ==
  ASSUME TypeOK, NEW c \in Cases, CInv(c), BackingInv(c),
         \/ SubmitAudit(c) \/ ClaimAudit(c) \/ RunJob(c) \/ BuildPackage(c) \/ SaveCase(c)
         \/ FinishJob(c) \/ AnswerClaim(c) \/ FailJob(c) \/ FailClaim(c)
  PROVE  BackingInv(c)'
  <1>1. UNCHANGED <<configured, level, rec, raw, sidecar>>
    BY DEF SubmitAudit, ClaimAudit, RunJob, BuildPackage, SaveCase, FinishJob, AnswerClaim,
           FailJob, FailClaim, disk
  <1>2. CASE SubmitAudit(c) \/ ClaimAudit(c) \/ RunJob(c)
    <2>1. pc'[c] \in {"queued", "refused", "acquire", "raise"}
      BY <1>2 DEF TypeOK, SubmitAudit, ClaimAudit, RunJob, Write, Goto
    <2>2. caseFile'[c] \in {caseFile[c], "RUNNING", "torn"}
      BY <1>2 DEF TypeOK, SubmitAudit, ClaimAudit, RunJob, Write
    <2> QED BY <1>1, <2>1, <2>2, EvidenceStays DEF FinalCaseStatuses
  <1>3. CASE BuildPackage(c) \/ SaveCase(c)
    <2>1. pc[c] \in {"package", "save"} /\ pc'[c] \in {"save", "finish", "raise"}
      BY <1>3 DEF TypeOK, BuildPackage, SaveCase, Write, Goto
    <2>2. caseFile'[c] = caseFile[c] \/ pc[c] = "save"
      BY <1>3 DEF BuildPackage, SaveCase
    <2> QED BY <1>1, <2>1, <2>2, EvidenceStays
  <1>4. CASE FinishJob(c) \/ AnswerClaim(c) \/ FailJob(c) \/ FailClaim(c)
    <2>1. pc'[c] \in {"done", "raise", "dead"}
      BY <1>4 DEF TypeOK, FinishJob, AnswerClaim, FailJob, FailClaim, Write, Goto
    <2>2. caseFile' = caseFile
      BY <1>4 DEF FinishJob, AnswerClaim, FailJob, FailClaim, disk
    <2> QED BY <1>1, <2>1, <2>2, EvidenceStays
  <1> QED BY <1>2, <1>3, <1>4

\* A restart tears a file of a level that is not finished, or none.
LEMMA CrashBacks ==
  ASSUME TypeOK, NEW d \in Cases, CInv(d), BackingInv(d), Crash
  PROVE  BackingInv(d)'
  <1>1. /\ pc'[d] \in {IF Active(d) THEN "lost" ELSE pc[d], "lost"}
        /\ UNCHANGED <<configured, level, rec>>
        /\ \/ caseFile'[d] = caseFile[d] /\ raw'[d] = raw[d] /\ sidecar'[d] = sidecar[d]
           \/ TearFile(d)
           \/ TearFirstFile(d)
    BY CrashEffect
  <1>2. pc'[d] \notin {"raw", "sidecar", "package", "save", "finish"}
    BY <1>1 DEF Active, Gone
  <1>3. CASE caseFile'[d] = caseFile[d] /\ raw'[d] = raw[d] /\ sidecar'[d] = sidecar[d]
    BY <1>1, <1>2, <1>3, EvidenceStays
  <1>4. CASE TearFile(d) /\ pc[d] \notin {"raw", "sidecar"}
    <2>1. caseFile'[d] \in {caseFile[d], "torn"} /\ raw'[d] = raw[d] /\ sidecar'[d] = sidecar[d]
      BY <1>4 DEF TypeOK, TearFile
    <2> QED BY <1>1, <1>2, <2>1, EvidenceStays DEF FinalCaseStatuses
  <1>5. CASE TearFile(d) /\ pc[d] \in {"raw", "sidecar"}
    <2>1. caseFile'[d] = "RUNNING" /\ level[d] \in Levels
      BY <1>5 DEF TypeOK, TearFile, CInv, CaseInv
    <2>2. \A l \in Levels : l # level[d] =>
            raw'[d][l] = raw[d][l] /\ sidecar'[d][l] = sidecar[d][l]
      BY <1>5, <2>1 DEF TypeOK, TearFile
    <2>3. level[d] = "L1" => Backed(d, "L0")'
      BY <1>1, <2>2 DEF BackingInv, Backed, Levels
    <2> QED BY <1>1, <1>2, <2>1, <2>3 DEF BackingInv, FinalCaseStatuses
  <1>6. CASE TearFirstFile(d)
    <2>1. caseFile'[d] \in {caseFile[d], "torn"} /\ raw'[d] = raw[d] /\ sidecar'[d] = sidecar[d]
      BY <1>6 DEF TypeOK, TearFirstFile
    <2> QED BY <1>1, <1>2, <2>1, EvidenceStays DEF FinalCaseStatuses
  <1> QED BY <1>1, <1>3, <1>4, <1>5, <1>6

LEMMA NextBacks ==
  ASSUME IInv, \A c \in Cases : BackingInv(c), [Next]_vars, NEW d \in Cases
  PROVE  BackingInv(d)'
  <1>1. TypeOK /\ CInv(d) /\ BackingInv(d)
    BY DEF IInv
  <1>2. ASSUME NEW c \in Cases, SubmitAudit(c) \/ ClaimAudit(c) \/ Task(c)
        PROVE  BackingInv(d)'
    <2>1. CASE c = d
      BY <1>1, <1>2, <2>1, AcquireBacks, WriteRawBacks, WriteSidecarBacks, OtherStepsBack
      DEF Task
    <2>2. CASE c # d
      <3>1. configured' = configured
        BY <1>2 DEF Task, SubmitAudit, ClaimAudit, RunJob, Acquire, WriteRaw, WriteSidecar,
                    BuildPackage, SaveCase, FinishJob, AnswerClaim, FailJob, FailClaim
      <3> QED BY <1>1, <1>2, <2>2, <3>1, Others, EvidenceStays
    <2> QED BY <2>1, <2>2
  <1>3. CASE Crash
    BY <1>1, <1>3, CrashBacks
  <1>4. CASE UNCHANGED vars
    BY <1>1, <1>4, EvidenceStays DEF vars, memory, disk
  <1> QED BY <1>2, <1>3, <1>4 DEF Next

\* What the record of a level says, once the audit is past that level, is what
\* the vault holds of it, and a level is only preserved when its provider is
\* configured and answered: acquire_l0 and acquire_l1 leave no status behind
\* that a failed write or a restart makes untrue.
THEOREM StatusesAreBacked == Spec => [](\A c \in Cases : BackingInv(c))
  <1>1. Init => \A c \in Cases : BackingInv(c)
    BY DEF Init, BackingInv, FinalCaseStatuses
  <1>2. IInv /\ (\A c \in Cases : BackingInv(c)) /\ [Next]_vars
          => (\A c \in Cases : BackingInv(c))'
    BY NextBacks
  <1> QED BY <1>1, <1>2, InductiveInvariant, PTL DEF Spec

\* A COMPLETE case rests on whole evidence of both providers, or of the second
\* alone when the first found no transaction: what the code guarantees of the
\* status, whatever write failed and whenever the process restarted.
THEOREM CompleteHasEvidence == Spec => []CompleteRestsOnEvidence
  <1>1. IInv /\ (\A c \in Cases : BackingInv(c)) => CompleteRestsOnEvidence
    <2> SUFFICES ASSUME IInv, \A c \in Cases : BackingInv(c),
                        NEW c \in Cases, caseFile[c] = "COMPLETE"
                 PROVE  /\ configured = Levels
                        /\ \A l \in Levels :
                             IF l = "L0" /\ rec[c][l].status = "UNKNOWN"
                             THEN raw[c][l] = "absent" /\ sidecar[c][l] = "absent"
                             ELSE rec[c][l].path /\ raw[c][l] = "whole" /\ sidecar[c][l] = "whole"
      BY DEF CompleteRestsOnEvidence
    <2>1. Finished(c) /\ FinalStatus(c) = "COMPLETE"
      BY DEF IInv, CInv, CaseInv, FinalCaseStatuses
    <2>2. Backed(c, "L0") /\ Backed(c, "L1") /\ Sealed(c, "L0") /\ Sealed(c, "L1")
      BY <2>1 DEF BackingInv, Finished, FinalCaseStatuses, IInv, CInv, EvidenceInv
    <2>3. \A l \in Levels : rec[c][l].status \in {"COMPLETE", "UNKNOWN"}
      <3>1. {rec[c][l].status : l \in Levels} \cap {"FAILED", "PARTIAL", "WARNING"} = {}
        BY <2>1 DEF FinalStatus, CaseStatusOf
      <3> QED BY <2>2, <3>1 DEF Sealed, EvidenceStatuses, Levels
    <2>4. configured = Levels
      BY <2>2, <2>3 DEF Backed, Levels, IInv, TypeOK
    <2>5. \A l \in Levels : rec[c][l].path => raw[c][l] = "whole" /\ sidecar[c][l] = "whole"
      BY DEF IInv, CInv, EvidenceInv
    <2> QED BY <2>2, <2>3, <2>4, <2>5 DEF Backed, Levels
  <1> QED BY <1>1, InductiveInvariant, StatusesAreBacked, PTL

-----------------------------------------------------------------------------
(* How far a task can go.                                                  *)

\* The steps left to a request at phase p and level l.
StepsFrom(p, l) ==
  CASE p = "idle" -> 12
    [] p = "queued" -> 11
    [] p = "acquire" -> IF l = "L0" THEN 10 ELSE 7
    [] p = "raw" -> IF l = "L0" THEN 9 ELSE 6
    [] p = "sidecar" -> IF l = "L0" THEN 8 ELSE 5
    [] p = "package" -> 4
    [] p = "save" -> 3
    [] p = "finish" -> 2
    [] p = "raise" -> 1
    [] p \in Gone \ {"idle"} -> 0

\* The steps a request can still take.
StepsLeft(c) == StepsFrom(pc[c], level[c])

\* Mid-task, a level ends with the next one or with the package.
LEMMA NextLevelDescends ==
  ASSUME TypeOK, NEW c \in Cases, NextLevel(c), pc[c] \in {"acquire", "raw", "sidecar"}
  PROVE  StepsLeft(c)' < StepsLeft(c)
  <1>1. CASE level[c] = "L0"
    <2>1. pc'[c] = "acquire" /\ level'[c] = "L1"
      BY <1>1 DEF TypeOK, NextLevel, Goto
    <2> QED BY <1>1, <2>1 DEF StepsLeft, StepsFrom, Gone
  <1>2. CASE level[c] = "L1"
    <2>1. pc'[c] = "package" /\ level'[c] = "L1"
      BY <1>2 DEF TypeOK, NextLevel, Goto
    <2> QED BY <1>2, <2>1 DEF StepsLeft, StepsFrom, Gone
  <1> QED BY <1>1, <1>2 DEF TypeOK, Levels

LEMMA OwnStepDescends ==
  ASSUME TypeOK, NEW c \in Cases, SubmitAudit(c) \/ ClaimAudit(c) \/ Task(c)
  PROVE  StepsLeft(c)' < StepsLeft(c)
  <1>1. CASE SubmitAudit(c) \/ ClaimAudit(c) \/ RunJob(c)
    <2>1. \/ pc[c] = "idle" /\ pc'[c] \in {"queued", "refused", "acquire", "raise"}
          \/ pc[c] = "queued" /\ pc'[c] \in {"acquire", "raise"}
      BY <1>1 DEF TypeOK, SubmitAudit, ClaimAudit, RunJob, Write, Goto
    <2> QED BY <2>1 DEF StepsLeft, StepsFrom, Gone
  <1>2. CASE Acquire(c)
    <2>1. CASE NextLevel(c)
      BY <1>2, <2>1, NextLevelDescends DEF Acquire
    <2>2. CASE pc'[c] \in {"raw", "raise"} /\ level' = level
      BY <1>2, <2>2 DEF Acquire, StepsLeft, StepsFrom, Gone
    <2>3. NextLevel(c) \/ (pc'[c] \in {"raw", "raise"} /\ level' = level)
      BY <1>2 DEF TypeOK, Acquire, Goto
    <2> QED BY <2>1, <2>2, <2>3
  <1>3. CASE WriteRaw(c)
    <2>1. NextLevel(c) \/ (pc'[c] = "sidecar" /\ level' = level)
      BY <1>3 DEF TypeOK, WriteRaw, PreservationFailed, Goto
    <2>2. CASE pc'[c] = "sidecar" /\ level' = level
      BY <1>3, <2>2 DEF WriteRaw, StepsLeft, StepsFrom, Gone
    <2> QED BY <1>3, <2>1, <2>2, NextLevelDescends DEF WriteRaw
  <1>4. CASE WriteSidecar(c)
    BY <1>4, NextLevelDescends DEF WriteSidecar, PreservationFailed
  <1>5. CASE BuildPackage(c) \/ SaveCase(c)
    <2>1. \/ pc[c] = "package" /\ pc'[c] = "save"
          \/ pc[c] = "save" /\ pc'[c] \in {"finish", "raise"}
      BY <1>5 DEF TypeOK, BuildPackage, SaveCase, Write, Goto
    <2> QED BY <2>1 DEF StepsLeft, StepsFrom, Gone
  <1>6. CASE FinishJob(c) \/ AnswerClaim(c) \/ FailJob(c) \/ FailClaim(c)
    <2>1. \/ pc[c] = "finish" /\ pc'[c] \in {"done", "raise"}
          \/ pc[c] = "raise" /\ pc'[c] \in {"done", "dead"}
      BY <1>6 DEF TypeOK, FinishJob, AnswerClaim, FailJob, FailClaim, Write, Goto
    <2> QED BY <2>1 DEF StepsLeft, StepsFrom, Gone
  <1> QED BY <1>1, <1>2, <1>3, <1>4, <1>5, <1>6 DEF Task

\* An audit takes twelve steps at most, whatever its providers answer and its
\* writes do, and nothing gives it any back: its own steps use one up, those of
\* other requests none, a restart all of them.
THEOREM AuditIsBounded ==
  Spec => [][\A c \in Cases :
               /\ StepsLeft(c) \in 0..12 /\ StepsLeft(c)' <= StepsLeft(c)
               /\ SubmitAudit(c) \/ ClaimAudit(c) \/ Task(c) => StepsLeft(c)' < StepsLeft(c)]_vars
  <1>1. ASSUME TypeOK, NEW c \in Cases
        PROVE  StepsLeft(c) \in 0..12
    BY <1>1 DEF TypeOK, Phases, StepsLeft, StepsFrom, Gone
  <1>2. ASSUME TypeOK, TypeOK', [Next]_vars, NEW c \in Cases
        PROVE  StepsLeft(c)' <= StepsLeft(c)
    <2>1. StepsLeft(c) \in 0..12 /\ StepsLeft(c)' \in 0..12
      <3>1. StepsLeft(c) \in 0..12
        BY <1>1, <1>2
      <3>2. StepsLeft(c)' \in 0..12
        BY <1>2 DEF TypeOK, Phases, StepsLeft, StepsFrom, Gone
      <3> QED BY <3>1, <3>2
    <2>2. ASSUME NEW d \in Cases, SubmitAudit(d) \/ ClaimAudit(d) \/ Task(d)
          PROVE  StepsLeft(c)' <= StepsLeft(c)
      <3>1. CASE d = c
        BY <1>2, <2>1, <2>2, <3>1, OwnStepDescends
      <3>2. CASE d # c
        <4>1. pc'[c] = pc[c] /\ level'[c] = level[c]
          BY <1>2, <2>2, <3>2, Others
        <4> QED BY <2>1, <4>1 DEF StepsLeft
      <3> QED BY <3>1, <3>2
    <2>3. CASE Crash
      <3>1. (pc'[c] = pc[c] \/ pc'[c] = "lost") /\ level' = level
        BY <1>2, <2>3 DEF TypeOK, Crash
      <3>2. pc'[c] = "lost" => StepsLeft(c)' = 0
        BY DEF StepsLeft, StepsFrom, Gone
      <3> QED BY <2>1, <3>1, <3>2 DEF StepsLeft
    <2>4. CASE UNCHANGED vars
      <3>1. pc' = pc /\ level' = level
        BY <2>4 DEF vars, memory
      <3> QED BY <2>1, <3>1 DEF StepsLeft
    <2> QED BY <1>2, <2>2, <2>3, <2>4 DEF Next
  <1>3. TypeOK /\ TypeOK' /\ [Next]_vars =>
          [\A c \in Cases :
             /\ StepsLeft(c) \in 0..12 /\ StepsLeft(c)' <= StepsLeft(c)
             /\ SubmitAudit(c) \/ ClaimAudit(c) \/ Task(c) => StepsLeft(c)' < StepsLeft(c)]_vars
    BY <1>1, <1>2, OwnStepDescends
  <1> QED BY <1>3, TypeCorrect, PTL DEF Spec

-----------------------------------------------------------------------------
(* What a step may never do.                                               *)

\* A step of c's task writes a file of c only while it is not published.
LEMMA OwnStepKeepsFiles ==
  ASSUME TypeOK, NEW c \in Cases, CInv(c), SubmitAudit(c) \/ ClaimAudit(c) \/ Task(c)
  PROVE  FilesKept(c)
  <1>1. CASE SubmitAudit(c)
    BY <1>1 DEF CInv, JobInv, SubmitAudit, FilesKept, FinalJobStatuses
  <1>2. CASE ClaimAudit(c) \/ RunJob(c)
    BY <1>2 DEF CInv, CaseInv, ClaimAudit, RunJob, FilesKept, FinalCaseStatuses
  <1>3. CASE Acquire(c) \/ AnswerClaim(c) \/ FailClaim(c)
    BY <1>3 DEF Acquire, AnswerClaim, FailClaim, FilesKept, disk
  <1>4. CASE WriteRaw(c)
    <2>1. level[c] \in Levels /\ raw[c][level[c]] = "absent"
      BY <1>4 DEF TypeOK, WriteRaw, CInv, EvidenceInv
    <2>2. \A l \in Levels : l # level[c] => raw'[c][l] = raw[c][l]
      BY <1>4, <2>1 DEF TypeOK, WriteRaw
    <2> QED BY <1>4, <2>1, <2>2 DEF WriteRaw, FilesKept
  <1>5. CASE WriteSidecar(c)
    <2>1. level[c] \in Levels /\ sidecar[c][level[c]] = "absent"
      BY <1>5 DEF TypeOK, WriteSidecar, CInv, EvidenceInv
    <2>2. \E s \in Contents : sidecar' = [sidecar EXCEPT ![c][level[c]] = s]
      BY <1>5 DEF WriteSidecar, Contents
    <2>3. \A l \in Levels : l # level[c] => sidecar'[c][l] = sidecar[c][l]
      BY <2>1, <2>2 DEF TypeOK
    <2> QED BY <1>5, <2>1, <2>3 DEF WriteSidecar, FilesKept
  <1>6. CASE BuildPackage(c)
    BY <1>6 DEF CInv, PackageInv, BuildPackage, FilesKept
  <1>7. CASE SaveCase(c)
    BY <1>7 DEF CInv, CaseInv, SaveCase, FilesKept, FinalCaseStatuses
  <1>8. CASE FinishJob(c) \/ FailJob(c)
    <2>1. jobFile[c] \notin FinalJobStatuses
      BY <1>8 DEF CInv, JobInv, FinishJob, FailJob, Active, Gone, FinalJobStatuses
    <2> QED BY <1>8, <2>1 DEF FinishJob, FailJob, FilesKept
  <1> QED BY <1>1, <1>2, <1>3, <1>4, <1>5, <1>6, <1>7, <1>8 DEF Task

\* A crash tears a file only while its task is still writing it.
LEMMA CrashKeepsFiles ==
  ASSUME TypeOK, NEW d \in Cases, CInv(d), TearFile(d)
  PROVE  FilesKept(d)
  <1>1. level[d] \in Levels
    BY DEF TypeOK
  <1>2. CASE pc[d] \in {"queued", "save"}
    BY <1>2 DEF TearFile, CInv, CaseInv, FilesKept, FinalCaseStatuses
  <1>3. CASE pc[d] = "raw"
    <2>1. /\ UNCHANGED <<jobFile, caseFile, sidecar, pkg>>
          /\ raw[d][level[d]] = "absent"
          /\ \A l \in Levels : l # level[d] => raw'[d][l] = raw[d][l]
      BY <1>1, <1>3 DEF TypeOK, TearFile, CInv, EvidenceInv
    <2> QED BY <2>1 DEF FilesKept
  <1>4. CASE pc[d] = "sidecar"
    <2>1. /\ UNCHANGED <<jobFile, caseFile, raw, pkg>>
          /\ sidecar[d][level[d]] = "absent"
          /\ \A l \in Levels : l # level[d] => sidecar'[d][l] = sidecar[d][l]
      BY <1>1, <1>4 DEF TypeOK, TearFile, CInv, EvidenceInv
    <2> QED BY <2>1 DEF FilesKept
  <1>5. CASE pc[d] = "package"
    BY <1>5 DEF TearFile, CInv, PackageInv, FilesKept
  <1>6. CASE pc[d] \in {"finish", "raise"} /\ route[d] = "job"
    <2>1. jobFile[d] \notin FinalJobStatuses
      BY <1>6 DEF CInv, JobInv, Active, Gone, FinalJobStatuses
    <2> QED BY <1>6, <2>1 DEF TearFile, FilesKept
  <1> QED BY <1>2, <1>3, <1>4, <1>5, <1>6 DEF TearFile

\* What is published stays as it is, through every step and every restart.
THEOREM PublishedFilesStay == Spec => PublishedFilesNeverChange
  <1>1. IInv /\ [Next]_vars => [\A c \in Cases : FilesKept(c)]_vars
    <2> SUFFICES ASSUME IInv, Next, NEW d \in Cases PROVE FilesKept(d)
      OBVIOUS
    <2>1. TypeOK /\ CInv(d)
      BY DEF IInv
    <2>2. ASSUME NEW c \in Cases, SubmitAudit(c) \/ ClaimAudit(c) \/ Task(c)
          PROVE  FilesKept(d)
      <3>1. CASE c = d
        BY <2>1, <2>2, <3>1, OwnStepKeepsFiles
      <3>2. CASE c # d
        BY <2>1, <2>2, <3>2, Others DEF FilesKept
      <3> QED BY <3>1, <3>2
    <2>3. CASE Crash
      <3>1. CASE TearFirstFile(d)
        BY <2>1, <3>1 DEF TypeOK, TearFirstFile, FilesKept, CInv, CaseInv, JobInv,
           FinalCaseStatuses, FinalJobStatuses
      <3> QED BY <2>1, <2>3, <3>1, CrashEffect, CrashKeepsFiles DEF FilesKept
    <2> QED BY <2>2, <2>3 DEF Next
  <1> QED BY <1>1, InductiveInvariant, PTL DEF Spec, PublishedFilesNeverChange

-----------------------------------------------------------------------------
(* Refinement.                                                             *)

\* The contract computes the same envelope status.
LEMMA SameEnvelope == \A s : Contract!EnvelopeOf(s) = EnvelopeOf(s)
  BY DEF EnvelopeOf, Contract!EnvelopeOf

\* What one step may do to the published files of one audit.
ContractCell(c) ==
  \/ UNCHANGED <<jobFile, caseFile, manifest>>
  \/ Contract!OpenJob(c) \/ Contract!OpenCase(c) \/ Contract!SealPackage(c)
  \/ Contract!CloseCase(c) \/ Contract!SettleJob(c)

\* The manifest is part of the package.
LEMMA ManifestKept == ASSUME UNCHANGED pkg PROVE UNCHANGED manifest
  BY DEF manifest

\* Every step of a request's task is a step of the contract or changes nothing
\* that is published.
LEMMA TaskKeepsContract ==
  ASSUME TypeOK, NEW c \in Cases, CInv(c), SubmitAudit(c) \/ ClaimAudit(c) \/ Task(c)
  PROVE  ContractCell(c)
  <1>1. CASE SubmitAudit(c)
    <2>1. UNCHANGED <<caseFile, manifest>> /\ jobFile[c] = "absent"
      BY <1>1, ManifestKept DEF SubmitAudit, CInv, JobInv
    <2>2. UNCHANGED jobFile \/ \E s \in {"RUNNING", "torn"} : jobFile' = [jobFile EXCEPT ![c] = s]
      BY <1>1, <2>1 DEF TypeOK, SubmitAudit, Write
    <2> QED BY <2>1, <2>2 DEF ContractCell, Contract!OpenJob
  <1>2. CASE ClaimAudit(c) \/ RunJob(c)
    <2>1. UNCHANGED <<jobFile, manifest>> /\ caseFile[c] = "absent"
      BY <1>2, ManifestKept DEF ClaimAudit, RunJob, CInv, CaseInv
    <2>2. UNCHANGED caseFile \/ \E s \in {"RUNNING", "torn"} : caseFile' = [caseFile EXCEPT ![c] = s]
      BY <1>2, <2>1 DEF TypeOK, ClaimAudit, RunJob, Write
    <2> QED BY <2>1, <2>2 DEF ContractCell, Contract!OpenCase
  <1>3. CASE Acquire(c) \/ AnswerClaim(c) \/ FailClaim(c)
    BY <1>3, ManifestKept DEF ContractCell, Acquire, AnswerClaim, FailClaim, disk
  <1>4. CASE WriteRaw(c) \/ WriteSidecar(c)
    BY <1>4, ManifestKept DEF ContractCell, WriteRaw, WriteSidecar
  <1>5. CASE BuildPackage(c)
    <2>1. /\ UNCHANGED <<jobFile, caseFile>>
          /\ pkg[c].file = "absent" /\ caseFile[c] = "RUNNING"
      BY <1>5 DEF BuildPackage, CInv, PackageInv, CaseInv
    <2>2. manifest[c] = "absent" /\ manifest = [d \in Cases |-> manifest[d]]
      BY <2>1 DEF manifest
    <2>3. FinalStatus(c) \in FinalCaseStatuses
      BY FinalStatusType
    <2>4. \E s \in FinalCaseStatuses \cup {"absent", "torn"} :
            manifest' = [manifest EXCEPT ![c] = s]
      <3>1. CASE pkg' = [pkg EXCEPT ![c] = [file |-> "whole", status |-> FinalStatus(c),
                                            raw |-> raw[c], sidecar |-> sidecar[c]]]
        <4>1. pkg'[c].file = "whole" /\ pkg'[c].status = FinalStatus(c)
          BY <3>1 DEF TypeOK
        <4>2. \A d \in Cases : d # c => pkg'[d] = pkg[d]
          BY <3>1 DEF TypeOK
        <4>3. manifest' = [manifest EXCEPT ![c] = FinalStatus(c)]
          BY <4>1, <4>2 DEF manifest
        <4> QED BY <2>3, <4>3
      <3>2. ASSUME NEW left \in {"absent", "torn"}, pkg' = [pkg EXCEPT ![c].file = left]
            PROVE  manifest' = [manifest EXCEPT ![c] = left]
        <4>1. pkg'[c].file = left
          BY <3>2 DEF TypeOK
        <4>2. \A d \in Cases : d # c => pkg'[d] = pkg[d]
          BY <3>2 DEF TypeOK
        <4> QED BY <4>1, <4>2 DEF manifest
      <3> QED BY <1>5, <3>1, <3>2 DEF BuildPackage
    <2>5. UNCHANGED manifest \/ \E s \in FinalCaseStatuses \cup {"torn"} :
                                   manifest' = [manifest EXCEPT ![c] = s]
      BY <2>2, <2>4
    <2> QED BY <2>1, <2>2, <2>5
        DEF ContractCell, Contract!SealPackage, Contract!FinalCaseStatuses, FinalCaseStatuses
  <1>6. CASE SaveCase(c)
    <2>1. UNCHANGED <<jobFile, manifest>> /\ caseFile[c] = "RUNNING"
      BY <1>6, ManifestKept DEF SaveCase, CInv, CaseInv
    <2>2. FinalStatus(c) \in FinalCaseStatuses
      BY FinalStatusType
    <2>3. manifest[c] \in {FinalStatus(c), "absent", "torn"}
      BY DEF TypeOK, manifest, CInv, PackageInv, Contents
    <2>4. \/ UNCHANGED caseFile
          \/ caseFile' = [caseFile EXCEPT ![c] = FinalStatus(c)]
          \/ caseFile' = [caseFile EXCEPT ![c] = "torn"]
      BY <1>6 DEF TypeOK, SaveCase, Write
    <2> QED BY <2>1, <2>2, <2>3, <2>4
        DEF ContractCell, Contract!CloseCase, Contract!FinalCaseStatuses, FinalCaseStatuses
  <1>7. CASE FinishJob(c)
    <2>1. /\ UNCHANGED <<caseFile, manifest>> /\ jobFile[c] = "RUNNING"
          /\ caseFile[c] = FinalStatus(c)
      BY <1>7, ManifestKept DEF FinishJob, CInv, CaseInv, JobInv, Active, Gone
    <2>2. caseFile[c] \in FinalCaseStatuses
      BY <2>1, FinalStatusType
    <2>3. \/ UNCHANGED jobFile
          \/ jobFile' = [jobFile EXCEPT ![c] = EnvelopeOf(caseFile[c])]
          \/ jobFile' = [jobFile EXCEPT ![c] = "torn"]
      BY <1>7, <2>1 DEF TypeOK, FinishJob, Write
    <2> QED BY <2>1, <2>2, <2>3, SameEnvelope
        DEF ContractCell, Contract!SettleJob, Contract!FinalCaseStatuses, FinalCaseStatuses
  <1>8. CASE FailJob(c)
    <2>1. UNCHANGED <<caseFile, manifest>>
      BY <1>8, ManifestKept DEF FailJob
    <2>2. CASE UNCHANGED jobFile
      BY <2>1, <2>2 DEF ContractCell
    <2>3. CASE jobFile[c] # "torn" /\ Write(jobFile, c, "FAILED", "done", "dead")
      <3>1. jobFile[c] = "RUNNING"
        BY <1>8, <2>3 DEF FailJob, CInv, JobInv
      <3>2. UNCHANGED jobFile \/ \E s \in {"FAILED", "torn"} : jobFile' = [jobFile EXCEPT ![c] = s]
        BY <2>3 DEF TypeOK, Write
      <3> QED BY <2>1, <3>1, <3>2 DEF ContractCell, Contract!SettleJob
    <2> QED BY <1>8, <2>2, <2>3 DEF FailJob
  <1> QED BY <1>1, <1>2, <1>3, <1>4, <1>5, <1>6, <1>7, <1>8 DEF Task

\* A file torn by a crash is one of the contract's outcomes for its writer.
LEMMA TearKeepsContract ==
  ASSUME TypeOK, NEW c \in Cases, CInv(c), TearFile(c)
  PROVE  ContractCell(c)
  <1>1. CASE pc[c] \in {"queued", "save"}
    <2>1. /\ UNCHANGED <<jobFile, manifest>> /\ caseFile[c] \in {"absent", "RUNNING"}
          /\ caseFile' = [caseFile EXCEPT ![c] = "torn"]
      BY <1>1, ManifestKept DEF TearFile, CInv, CaseInv
    <2> QED BY <2>1 DEF ContractCell, Contract!OpenCase, Contract!CloseCase
  <1>2. CASE pc[c] \in {"raw", "sidecar"}
    BY <1>2, ManifestKept DEF TearFile, ContractCell
  <1>3. CASE pc[c] = "package"
    <2>1. /\ UNCHANGED <<jobFile, caseFile>> /\ caseFile[c] = "RUNNING"
          /\ pkg[c].file = "absent" /\ pkg' = [pkg EXCEPT ![c].file = "torn"]
      BY <1>3 DEF TearFile, CInv, PackageInv, CaseInv
    <2>2. pkg'[c].file = "torn" /\ \A d \in Cases : d # c => pkg'[d] = pkg[d]
      BY <2>1 DEF TypeOK
    <2>3. manifest[c] = "absent"
      BY <2>1 DEF manifest
    <2>4. manifest' = [manifest EXCEPT ![c] = "torn"]
      BY <2>2 DEF manifest
    <2> QED BY <2>1, <2>3, <2>4 DEF ContractCell, Contract!SealPackage
  <1>4. CASE pc[c] \in {"finish", "raise"} /\ route[c] = "job"
    <2>1. /\ UNCHANGED <<caseFile, manifest>>
          /\ jobFile' = [jobFile EXCEPT ![c] = "torn"]
      BY <1>4, ManifestKept DEF TearFile
    <2>2. jobFile[c] \in {"RUNNING", "torn"}
      BY <1>4 DEF CInv, JobInv, Active, Gone
    <2>3. jobFile[c] = "torn" => UNCHANGED jobFile
      BY <2>1 DEF TypeOK
    <2> QED BY <2>1, <2>2, <2>3 DEF ContractCell, Contract!SettleJob
  <1> QED BY <1>1, <1>2, <1>3, <1>4 DEF TearFile

\* ... and a file torn while it was opened, of its opener.
LEMMA TearFirstKeepsContract ==
  ASSUME TypeOK, NEW c \in Cases, CInv(c), TearFirstFile(c)
  PROVE  ContractCell(c)
  <1>1. UNCHANGED manifest /\ jobFile[c] = "absent" /\ caseFile[c] = "absent"
    BY ManifestKept DEF TearFirstFile, CInv, CaseInv, JobInv
  <1> QED BY <1>1 DEF TearFirstFile, ContractCell, Contract!OpenJob, Contract!OpenCase

\* The pipeline implements the publication contract.
THEOREM PipelineKeepsContract == Spec => KeepsPublicationContract
  <1>1. Init => Contract!Init
    BY DEF Init, Contract!Init, manifest, NoPackage
  <1>2. IInv /\ [Next]_vars => [Contract!Next]_(Contract!view)
    <2> SUFFICES ASSUME IInv, [Next]_vars
                 PROVE  Contract!Next \/ UNCHANGED <<jobFile, caseFile, manifest>>
      BY DEF Contract!view
    <2>1. TypeOK /\ \A c \in Cases : CInv(c)
      BY DEF IInv
    <2>2. ASSUME NEW c \in Cases, ContractCell(c)
          PROVE  Contract!Next \/ UNCHANGED <<jobFile, caseFile, manifest>>
      BY <2>2 DEF ContractCell, Contract!Next
    <2>3. CASE \E c \in Cases : SubmitAudit(c) \/ ClaimAudit(c) \/ Task(c)
      BY <2>1, <2>2, <2>3, TaskKeepsContract
    <2>4. CASE Crash
      <3>1. CASE UNCHANGED disk
        BY <3>1, ManifestKept DEF disk
      <3>2. CASE \E c \in Cases : TearFile(c)
        BY <2>1, <2>2, <3>2, TearKeepsContract
      <3>3. CASE \E c \in Cases : TearFirstFile(c)
        BY <2>1, <2>2, <3>3, TearFirstKeepsContract
      <3> QED BY <2>4, <3>1, <3>2, <3>3 DEF Crash
    <2>5. CASE UNCHANGED vars
      BY <2>5, ManifestKept DEF vars, memory, disk
    <2> QED BY <2>3, <2>4, <2>5 DEF Next
  <1> QED BY <1>1, <1>2, InductiveInvariant, PTL
      DEF Spec, Contract!Spec, KeepsPublicationContract

=============================================================================
