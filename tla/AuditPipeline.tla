--------------------------- MODULE AuditPipeline ---------------------------
(***************************************************************************)
(* An audit from the request to its published files: POST /v1/audits and   *)
(* its background task, POST /v1/claim-audit, AuditPipeline.run, evidence  *)
(* acquisition, the append-only evidence vault, the packager and the       *)
(* file-backed case and job records.                                       *)
(*                                                                         *)
(* make_case_id and the job id end in a fresh uuid, so every request works *)
(* on files of its own: an element of Cases is one request with the case   *)
(* and the job it creates.  The handlers run on one event loop and write   *)
(* their files synchronously, one step per write.  A write can fail        *)
(* (Fault) and leave its file as it was or torn, and the process can be    *)
(* killed between two steps or inside a write (Crash); nothing in the code *)
(* picks up the tasks of the previous process.                             *)
(***************************************************************************)
EXTENDS EvidenceStatus, Naturals

CONSTANTS
  Cases,        \* the requests that can arrive
  MaxFaults,    \* bound: failed file writes
  MaxCrashes    \* bound: process restarts

ASSUME BoundsAssumption == MaxFaults \in Nat /\ MaxCrashes \in Nat

VARIABLES
  configured,   \* the providers the settings configure
  route,        \* "none", "job" (POST /v1/audits) or "claim" (POST /v1/claim-audit)
  reply,        \* what the HTTP client was told
  pc, level,    \* where the request's task is; the evidence level it is on
  rec,          \* the EvidenceRecords in memory: status, and raw_path # ""
  jobFile,      \* jobs/<job_id>.json
  caseFile,     \* cases/<case_id>/case.json
  raw, sidecar, \* raw/<case_id>/<evidence_id>.json and .sha256
  pkg,          \* packages/<case_id>.v52.zip
  faults, crashes

memory == <<route, reply, pc, level, rec>>
disk == <<jobFile, caseFile, raw, sidecar, pkg>>
vars == <<configured, memory, disk, faults, crashes>>

Contents == {"absent", "torn", "whole"}

Gone == {"idle", "refused", "done", "dead", "lost"}   \* no task is running
Phases == Gone \cup {"queued", "acquire", "raw", "sidecar", "package", "save",
                     "finish", "raise"}
Active(c) == pc[c] \notin Gone

NoRecord == [status |-> "none", path |-> FALSE]
NoFiles == [l \in Levels |-> "absent"]
NoPackage ==
  [file |-> "absent", status |-> "none", raw |-> NoFiles, sidecar |-> NoFiles]

\* Determine case status: from the statuses of the evidence records.
FinalStatus(c) == CaseStatusOf({rec[c][l].status : l \in Levels})

-----------------------------------------------------------------------------
Init ==
  /\ configured \in SUBSET Levels
  /\ route = [c \in Cases |-> "none"]
  /\ reply = [c \in Cases |-> "none"]
  /\ pc = [c \in Cases |-> "idle"]
  /\ level = [c \in Cases |-> "L0"]
  /\ rec = [c \in Cases |-> [l \in Levels |-> NoRecord]]
  /\ jobFile = [c \in Cases |-> "absent"]
  /\ caseFile = [c \in Cases |-> "absent"]
  /\ raw = [c \in Cases |-> NoFiles]
  /\ sidecar = [c \in Cases |-> NoFiles]
  /\ pkg = [c \in Cases |-> NoPackage]
  /\ faults = 0
  /\ crashes = 0

Goto(c, p) == pc' = [pc EXCEPT ![c] = p]

Fault == faults < MaxFaults /\ faults' = faults + 1

\* path.write_text(...): the file holds new and the task goes on to next, or
\* the write raises, with the file untouched or torn, and it goes on to handler.
Write(file, c, new, next, handler) ==
  \/ /\ file' = [file EXCEPT ![c] = new]
     /\ Goto(c, next)
     /\ UNCHANGED faults
  \/ /\ Fault
     /\ \E left \in {file[c], "torn"} : file' = [file EXCEPT ![c] = left]
     /\ Goto(c, handler)

-----------------------------------------------------------------------------
(* POST /v1/audits: the job is on disk before the task is scheduled.       *)
SubmitAudit(c) ==
  /\ pc[c] = "idle"
  /\ route' = [route EXCEPT ![c] = "job"]
  /\ Write(jobFile, c, "RUNNING", "queued", "refused")
  /\ reply' = [reply EXCEPT ![c] = IF pc'[c] = "queued" THEN "accepted" ELSE "500"]
  /\ UNCHANGED <<configured, level, rec, caseFile, raw, sidecar, pkg, crashes>>

\* Mutated form: the pipeline saves the case only when it ends.
RunJobWithoutSave(c) ==
  /\ pc[c] = "queued"
  /\ Goto(c, "acquire")
  /\ UNCHANGED <<configured, route, reply, level, rec, disk, faults, crashes>>

(* _run_job starts the pipeline, whose first act is to save the case.      *)
RunJob(c) ==
  /\ pc[c] = "queued"
  /\ Write(caseFile, c, "RUNNING", "acquire", "raise")
  /\ UNCHANGED <<configured, route, reply, level, rec, jobFile, raw, sidecar, pkg,
                 crashes>>

(* POST /v1/claim-audit: the same pipeline inside the request, no job.     *)
ClaimAudit(c) ==
  /\ pc[c] = "idle"
  /\ route' = [route EXCEPT ![c] = "claim"]
  /\ Write(caseFile, c, "RUNNING", "acquire", "raise")
  /\ UNCHANGED <<configured, reply, level, rec, jobFile, raw, sidecar, pkg, crashes>>

-----------------------------------------------------------------------------
(* acquire_l0, then acquire_l1, then the pure stages and the packager.     *)
NextLevel(c) ==
  IF level[c] = "L0"
  THEN level' = [level EXCEPT ![c] = "L1"] /\ Goto(c, "acquire")
  ELSE Goto(c, "package") /\ UNCHANGED level

SetRecord(c, status, path) ==
  rec' = [rec EXCEPT ![c][level[c]] = [status |-> status, path |-> path]]

\* The provider call ends: with a payload to preserve, with a ProviderError
\* that becomes a record, or with an exception acquire_l0/l1 do not catch.
Acquire(c) ==
  /\ pc[c] = "acquire"
  /\ \E a \in Answers(level[c], configured) :
       \/ /\ a.kind = "payload"
          /\ SetRecord(c, RecordStatus(level[c], configured, a), FALSE)
          /\ Goto(c, "raw")
          /\ UNCHANGED level
       \/ /\ a.kind = "error"
          /\ SetRecord(c, RecordStatus(level[c], configured, a), FALSE)
          /\ NextLevel(c)
       \/ /\ a.kind = "escape"
          /\ Goto(c, "raise")
          /\ UNCHANGED <<level, rec>>
  /\ UNCHANGED <<configured, route, reply, disk, faults, crashes>>

\* Mutated forms: the record keeps the path, or the status, it would have had.
PreservationKeepsPath(c) == SetRecord(c, "PARTIAL", TRUE) /\ NextLevel(c)

PreservationKeepsStatus(c) ==
  SetRecord(c, rec[c][level[c]].status, FALSE) /\ NextLevel(c)

\* "Vault preservation failed": the record is PARTIAL and has no raw_path.
PreservationFailed(c) == SetRecord(c, "PARTIAL", FALSE) /\ NextLevel(c)

\* preserve_raw, first file.  The evidence id ends in a fresh uuid, so the
\* file does not exist and the append-only check passes.
WriteRaw(c) ==
  /\ pc[c] = "raw"
  /\ \/ /\ raw' = [raw EXCEPT ![c][level[c]] = "whole"]
        /\ Goto(c, "sidecar")
        /\ UNCHANGED <<level, rec, faults>>
     \/ /\ Fault
        /\ \E left \in {"absent", "torn"} : raw' = [raw EXCEPT ![c][level[c]] = left]
        /\ PreservationFailed(c)
  /\ UNCHANGED <<configured, route, reply, jobFile, caseFile, sidecar, pkg, crashes>>

\* preserve_raw, second file: only then does the record get its raw_path.
WriteSidecar(c) ==
  /\ pc[c] = "sidecar"
  /\ \/ /\ sidecar' = [sidecar EXCEPT ![c][level[c]] = "whole"]
        /\ SetRecord(c, rec[c][level[c]].status, TRUE)
        /\ NextLevel(c)
        /\ UNCHANGED faults
     \/ /\ Fault
        /\ \E left \in {"absent", "torn"} :
             sidecar' = [sidecar EXCEPT ![c][level[c]] = left]
        /\ PreservationFailed(c)
  /\ UNCHANGED <<configured, route, reply, jobFile, caseFile, raw, pkg, crashes>>

-----------------------------------------------------------------------------
\* Mutated form: the packager collects the payloads and leaves out the digests.
PackageWithoutDigests(c) ==
  /\ pc[c] = "package"
  /\ pkg' = [pkg EXCEPT ![c] = [file |-> "whole", status |-> FinalStatus(c),
                                raw |-> raw[c], sidecar |-> NoFiles]]
  /\ Goto(c, "save")
  /\ UNCHANGED <<configured, route, reply, level, rec, jobFile, caseFile, raw,
                 sidecar, faults, crashes>>

\* build_v52_zip: the manifest names the case status and hashes every file of
\* the case's raw directory; a failure is a warning and the audit goes on.
BuildPackage(c) ==
  /\ pc[c] = "package"
  /\ \/ /\ pkg' = [pkg EXCEPT ![c] = [file |-> "whole", status |-> FinalStatus(c),
                                      raw |-> raw[c], sidecar |-> sidecar[c]]]
        /\ UNCHANGED faults
     \/ /\ Fault
        /\ \E left \in {"absent", "torn"} : pkg' = [pkg EXCEPT ![c].file = left]
  /\ Goto(c, "save")
  /\ UNCHANGED <<configured, route, reply, level, rec, jobFile, caseFile, raw,
                 sidecar, crashes>>

\* Mutated form: a failed save is a warning too.
SaveCaseSwallowed(c) ==
  /\ pc[c] = "save"
  /\ Write(caseFile, c, FinalStatus(c), "finish", "finish")
  /\ UNCHANGED <<configured, route, reply, level, rec, jobFile, raw, sidecar, pkg,
                 crashes>>

\* Persist final case.
SaveCase(c) ==
  /\ pc[c] = "save"
  /\ Write(caseFile, c, FinalStatus(c), "finish", "raise")
  /\ UNCHANGED <<configured, route, reply, level, rec, jobFile, raw, sidecar, pkg,
                 crashes>>

\* Mutated form: the failure handler also runs after a success.
FinishJobFallsThrough(c) ==
  /\ pc[c] = "finish"
  /\ route[c] = "job"
  /\ Write(jobFile, c, EnvelopeOf(FinalStatus(c)), "raise", "raise")
  /\ UNCHANGED <<configured, route, reply, level, rec, caseFile, raw, sidecar, pkg,
                 crashes>>

\* The pipeline returned: the job gets the envelope status of the case.
FinishJob(c) ==
  /\ pc[c] = "finish"
  /\ route[c] = "job"
  /\ Write(jobFile, c, EnvelopeOf(FinalStatus(c)), "done", "raise")
  /\ UNCHANGED <<configured, route, reply, level, rec, caseFile, raw, sidecar, pkg,
                 crashes>>

\* ... or the client of the legacy endpoint its response.
AnswerClaim(c) ==
  /\ pc[c] = "finish"
  /\ route[c] = "claim"
  /\ reply' = [reply EXCEPT ![c] = FinalStatus(c)]
  /\ Goto(c, "done")
  /\ UNCHANGED <<configured, route, level, rec, disk, faults, crashes>>

-----------------------------------------------------------------------------
\* Mutated forms: the handler only logs, or needs the case to be on disk.
FailJobLogsOnly(c) ==
  /\ pc[c] = "raise"
  /\ route[c] = "job"
  /\ Goto(c, "done")
  /\ UNCHANGED <<configured, route, reply, level, rec, disk, faults, crashes>>

FailJobOfSavedCase(c) ==
  /\ pc[c] = "raise"
  /\ route[c] = "job"
  /\ caseFile[c] # "absent"
  /\ Write(jobFile, c, "FAILED", "done", "dead")
  /\ UNCHANGED <<configured, route, reply, level, rec, caseFile, raw, sidecar, pkg,
                 crashes>>

\* except Exception in _run_job: _created_at parses the job file, so a torn
\* one raises again inside the handler and the task dies.
FailJob(c) ==
  /\ pc[c] = "raise"
  /\ route[c] = "job"
  /\ \/ /\ jobFile[c] = "torn"
        /\ Goto(c, "dead")
        /\ UNCHANGED <<jobFile, faults>>
     \/ /\ jobFile[c] # "torn"
        /\ Write(jobFile, c, "FAILED", "done", "dead")
  /\ UNCHANGED <<configured, route, reply, level, rec, caseFile, raw, sidecar, pkg,
                 crashes>>

\* The legacy endpoint has no handler: 500, and the case stays as it is.
FailClaim(c) ==
  /\ pc[c] = "raise"
  /\ route[c] = "claim"
  /\ reply' = [reply EXCEPT ![c] = "500"]
  /\ Goto(c, "done")
  /\ UNCHANGED <<configured, route, level, rec, disk, faults, crashes>>

-----------------------------------------------------------------------------
\* The process is killed inside c's write: the file being written is torn.
TearFile(c) ==
  \/ /\ pc[c] \in {"queued", "save"}
     /\ caseFile' = [caseFile EXCEPT ![c] = "torn"]
     /\ UNCHANGED <<jobFile, raw, sidecar, pkg>>
  \/ /\ pc[c] = "raw"
     /\ raw' = [raw EXCEPT ![c][level[c]] = "torn"]
     /\ UNCHANGED <<jobFile, caseFile, sidecar, pkg>>
  \/ /\ pc[c] = "sidecar"
     /\ sidecar' = [sidecar EXCEPT ![c][level[c]] = "torn"]
     /\ UNCHANGED <<jobFile, caseFile, raw, pkg>>
  \/ /\ pc[c] = "package"
     /\ pkg' = [pkg EXCEPT ![c].file = "torn"]
     /\ UNCHANGED <<jobFile, caseFile, raw, sidecar>>
  \/ /\ pc[c] \in {"finish", "raise"} /\ route[c] = "job"
     /\ jobFile' = [jobFile EXCEPT ![c] = "torn"]
     /\ UNCHANGED <<caseFile, raw, sidecar, pkg>>

\* The process is killed inside the first write of c's request, which nobody
\* answers: submit_audit opens the job file, the pipeline of the legacy
\* endpoint the case file.
TearFirstFile(c) ==
  /\ pc[c] = "idle"
  /\ \/ /\ route' = [route EXCEPT ![c] = "job"]
        /\ jobFile' = [jobFile EXCEPT ![c] = "torn"]
        /\ UNCHANGED caseFile
     \/ /\ route' = [route EXCEPT ![c] = "claim"]
        /\ caseFile' = [caseFile EXCEPT ![c] = "torn"]
        /\ UNCHANGED jobFile
  /\ UNCHANGED <<raw, sidecar, pkg>>

\* Every task dies with the process and none is resumed.
Crash ==
  /\ crashes < MaxCrashes
  /\ crashes' = crashes + 1
  /\ \/ UNCHANGED <<route, disk>>
     \/ UNCHANGED route /\ \E c \in Cases : TearFile(c)
     \/ \E c \in Cases : TearFirstFile(c)
  /\ pc' = [c \in Cases |-> IF Active(c) \/ route'[c] # route[c] THEN "lost" ELSE pc[c]]
  /\ UNCHANGED <<configured, reply, level, rec, faults>>

-----------------------------------------------------------------------------
\* The steps the event loop owes a request that has started.
Task(c) ==
  \/ RunJob(c) \/ Acquire(c) \/ WriteRaw(c) \/ WriteSidecar(c) \/ BuildPackage(c)
  \/ SaveCase(c) \/ FinishJob(c) \/ AnswerClaim(c) \/ FailJob(c) \/ FailClaim(c)

Next ==
  \/ \E c \in Cases : SubmitAudit(c) \/ ClaimAudit(c) \/ Task(c)
  \/ Crash

Spec == Init /\ [][Next]_vars

\* Every await of a task is a provider call with a timeout, and the event loop
\* runs a ready task: weak fairness on each task, none on clients or crashes.
FairSpec == Spec /\ \A c \in Cases : WF_vars(Task(c))

-----------------------------------------------------------------------------
(* Properties.                                                             *)

TypeOK ==
  /\ configured \in SUBSET Levels
  /\ route \in [Cases -> {"none", "job", "claim"}]
  /\ reply \in [Cases -> FinalCaseStatuses \cup {"none", "accepted", "500"}]
  /\ pc \in [Cases -> Phases]
  /\ level \in [Cases -> Levels]
  /\ rec \in [Cases -> [Levels -> [status : EvidenceStatuses \cup {"none"},
                                   path : BOOLEAN]]]
  /\ jobFile \in [Cases -> FinalJobStatuses \cup {"absent", "torn", "RUNNING"}]
  /\ caseFile \in [Cases -> FinalCaseStatuses \cup {"absent", "torn", "RUNNING"}]
  /\ raw \in [Cases -> [Levels -> Contents]]
  /\ sidecar \in [Cases -> [Levels -> Contents]]
  /\ pkg \in [Cases -> [file : Contents, status : FinalCaseStatuses \cup {"none"},
                        raw : [Levels -> Contents], sidecar : [Levels -> Contents]]]
  /\ faults \in 0..MaxFaults
  /\ crashes \in 0..MaxCrashes

\* An evidence record that gives a raw_path points at a payload and a digest
\* that are both whole on disk, and still are after every later step, fault or
\* restart: verify_raw succeeds on it forever.
RecordedEvidenceVerifies ==
  \A c \in Cases, l \in Levels :
    rec[c][l].path => raw[c][l] = "whole" /\ sidecar[c][l] = "whole"

\* A COMPLETE case rests on evidence: both providers are configured, and every
\* level has a payload and a digest that are whole under a record that points
\* at them, save an L0 whose transaction was not found, of which there is no file.
CompleteRestsOnEvidence ==
  \A c \in Cases : caseFile[c] = "COMPLETE" =>
    /\ configured = Levels
    /\ \A l \in Levels :
         IF l = "L0" /\ rec[c][l].status = "UNKNOWN"
         THEN raw[c][l] = "absent" /\ sidecar[c][l] = "absent"
         ELSE rec[c][l].path /\ raw[c][l] = "whole" /\ sidecar[c][l] = "whole"

\* A finished package holds exactly what the vault holds, now and for good:
\* everything was written before it was built and nothing is added after, and
\* every record with a raw_path is in it with its digest.
PackageSealsEvidence ==
  \A c \in Cases : pkg[c].file = "whole" =>
    /\ pkg[c].raw = raw[c] /\ pkg[c].sidecar = sidecar[c]
    /\ \A l \in Levels :
         rec[c][l].path => pkg[c].raw[l] = "whole" /\ pkg[c].sidecar[l] = "whole"

\* The files published for one audit overstate nothing: a job that ended well
\* has a closed case of that status, a manifest and its closed case carry one
\* status, and a response to /v1/claim-audit was saved before it was sent.  They
\* can understate: a job is FAILED over a case that closed with another status,
\* or over a sealed package that names another one, but only after the disk
\* refused a write.  No answer of a provider and no restart sets them apart.
PublishedStatusesAgree ==
  \A c \in Cases :
    /\ jobFile[c] \in {"COMPLETE", "PARTIAL"} =>
         caseFile[c] \in FinalCaseStatuses /\ jobFile[c] = EnvelopeOf(caseFile[c])
    /\ pkg[c].file = "whole" /\ caseFile[c] \in FinalCaseStatuses =>
         pkg[c].status = caseFile[c]
    /\ reply[c] \in FinalCaseStatuses => caseFile[c] = reply[c]
    /\ jobFile[c] = "FAILED" /\ faults = 0 =>
         /\ caseFile[c] \in {"FAILED", "RUNNING"}
         /\ pkg[c].file = "whole" => caseFile[c] = "FAILED"

\* A job that says RUNNING with no task behind it was orphaned by a restart or
\* a failed write: no answer of a provider, not even one that makes the
\* pipeline raise, leaves a job behind.
OrphanedJobHasACause ==
  \A c \in Cases :
    jobFile[c] = "RUNNING" /\ ~Active(c) => crashes > 0 \/ faults > 0

FilesKept(c) ==
  /\ jobFile[c] \in FinalJobStatuses => jobFile'[c] = jobFile[c]
  /\ caseFile[c] \in FinalCaseStatuses => caseFile'[c] = caseFile[c]
  /\ pkg[c].file = "whole" => pkg'[c] = pkg[c]
  /\ \A l \in Levels :
       /\ raw[c][l] = "whole" => raw'[c][l] = "whole"
       /\ sidecar[c][l] = "whole" => sidecar'[c][l] = "whole"

\* No step, restarts included, changes a file once it is published: a settled
\* job, a closed case, a finished package, a whole payload or digest.
PublishedFilesNeverChange == [][\A c \in Cases : FilesKept(c)]_vars

\* An accepted job reaches a final status, unless the process restarts under
\* its task or the job file itself cannot be written.
JobSettles ==
  \A c \in Cases :
    jobFile[c] = "RUNNING" ~> jobFile[c] \in FinalJobStatuses \/ pc[c] \in {"lost", "dead"}

\* What a reader of the package sees: the status in its manifest, if it has one.
manifest ==
  [c \in Cases |-> IF pkg[c].file = "whole" THEN pkg[c].status ELSE pkg[c].file]

\* Seen through its published files, the pipeline keeps the publication contract.
Contract ==
  INSTANCE PublicationContract WITH
    job <- jobFile, case_ <- caseFile, package <- manifest

KeepsPublicationContract == Contract!Spec

\* FUNCIONAMIENTO.md: a case is COMPLETE "unicamente si todos los proveedores
\* respondieron con exito total" (only if every provider fully succeeded).
CompleteOnlyIfAllProvidersSucceeded ==
  \A c \in Cases :
    caseFile[c] = "COMPLETE" => \A l \in Levels : rec[c][l].status = "COMPLETE"

\* EvidenceAcquisition: "never raise to the pipeline on partial failures": with
\* a working disk no answer of a provider makes the pipeline raise.
AcquisitionNeverRaises == faults = 0 => \A c \in Cases : pc[c] # "raise"
=============================================================================
