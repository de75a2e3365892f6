---------------------------- MODULE AnchorPromise ----------------------------
(***************************************************************************)
(* What the clients of POST /v1/cases/{case_id}/anchor may rely on: a root *)
(* is anchored once, for good; a request about it is answered with 200     *)
(* only after that, once, and names the transaction that anchored it or    *)
(* none; and the cache of the service holds no other transaction.          *)
(***************************************************************************)
CONSTANTS Requests, Cases, NoCase, NoTx

VARIABLES
  anchor,   \* the transaction that anchored each case, as a set of at most one
  wanted,   \* the case a request is about
  named,    \* the transaction its 200 names, in a set that is empty before it
  cached    \* the transaction in the cache of each case, as a set

promise == <<anchor, wanted, named, cached>>

Init ==
  /\ anchor = [c \in Cases |-> {}]
  /\ wanted = [r \in Requests |-> NoCase]
  /\ named = [r \in Requests |-> {}]
  /\ cached = [c \in Cases |-> {}]

\* The chain is the first to know.
Anchor(c) ==
  /\ anchor[c] = {}
  /\ \E tx \in anchor'[c] : anchor' = [anchor EXCEPT ![c] = {tx}]
  /\ UNCHANGED <<wanted, named, cached>>

Ask(r) ==
  /\ wanted[r] = NoCase
  /\ \E c \in Cases : wanted' = [wanted EXCEPT ![r] = c]
  /\ UNCHANGED <<anchor, named, cached>>

Answered(r) ==
  /\ named[r] = {} /\ wanted[r] \in Cases
  /\ \E tx \in anchor[wanted[r]] : named' = [named EXCEPT ![r] = {tx}]

\* A replay may have lost the hash, and says so.
Unnamed(r) ==
  /\ named[r] = {} /\ wanted[r] \in Cases
  /\ anchor[wanted[r]] # {} /\ named' = [named EXCEPT ![r] = {NoTx}]

\* A cache may be written and lost at any time.
Cached(c) == \E kept \in SUBSET anchor[c] : cached' = [cached EXCEPT ![c] = kept]

Answer(r) ==
  /\ Answered(r) \/ Unnamed(r)
  /\ UNCHANGED cached \/ Cached(wanted[r])
  /\ UNCHANGED <<anchor, wanted>>

Cache(c) == Cached(c) /\ UNCHANGED <<anchor, wanted, named>>

Next ==
  \/ \E c \in Cases : Anchor(c) \/ Cache(c)
  \/ \E r \in Requests : Ask(r) \/ Answer(r)

Spec == Init /\ [][Next]_promise
=============================================================================
