CONSTANTS
  Cases = {c1}
  MaxFaults = 3
  MaxCrashes = 1
SPECIFICATION FairSpec
INVARIANTS
  TypeOK
  RecordedEvidenceVerifies
  CompleteRestsOnEvidence
  PackageSealsEvidence
  PublishedStatusesAgree
  OrphanedJobHasACause
PROPERTIES
  PublishedFilesNeverChange
  JobSettles
  KeepsPublicationContract
CHECK_DEADLOCK FALSE
