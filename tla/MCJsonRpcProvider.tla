------------------------- MODULE MCJsonRpcProvider -------------------------
EXTENDS JsonRpcProvider
=============================================================================
