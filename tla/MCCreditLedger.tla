--------------------------- MODULE MCCreditLedger ---------------------------
EXTENDS CreditLedger
CONSTANTS t1, t2, p, q, w, v
=============================================================================
