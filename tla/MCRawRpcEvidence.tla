-------------------------- MODULE MCRawRpcEvidence --------------------------
EXTENDS RawRpcEvidence
=============================================================================
