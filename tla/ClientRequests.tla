--------------------------- MODULE ClientRequests ---------------------------
(***************************************************************************)
(* The routes that keep no state, side by side: a behaviour is one request *)
(* of one of them.  They share no variable of the process, so what holds   *)
(* of one request holds of any number of them.                             *)
(***************************************************************************)
EXTENDS WalletFlow, DefiScan, McpProbe, PackageVerification, ReceiptDerivation,
        ProviderSelection

Init ==
  \/ FlowInit \/ DefiInit \/ McpInit
  \/ VerifyInit \/ DerivationInit \/ SelectionInit

Next ==
  \/ FlowNext \/ DefiNext \/ McpNext
  \/ VerifyNext \/ DerivationNext \/ SelectionNext

Spec == Init /\ [][Next]_vars

\* Every await is an HTTP call under a timeout: a request that can take a step
\* takes one.
FairSpec == Spec /\ WF_vars(Next)

-----------------------------------------------------------------------------
\* Every request is answered for good, and no coroutine of it is left running,
\* not even one whose sibling has already made the answer an error.
EveryRequestAnswered ==
  <>[](answer # Unanswered /\ \A t \in DOMAIN tasks : Ended(t))
=============================================================================
