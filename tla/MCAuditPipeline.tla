-------------------------- MODULE MCAuditPipeline --------------------------
(* One request on either route, over every provider configuration.  *)
EXTENDS AuditPipeline
=============================================================================
