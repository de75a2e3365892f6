----------------------------- MODULE AtomicLedger -----------------------------
(***************************************************************************)
(* What billing/credits.py promises: each call takes effect at once, a     *)
(* payment that is settled adds its pack to one wallet and never does so   *)
(* again, and a credit is only moved between available and consumed.       *)
(***************************************************************************)
EXTENDS Naturals

CONSTANTS Wallets, Payments, Packs

VARIABLES balance, purchased, consumed, settled

ledger == <<balance, purchased, consumed, settled>>

Empty == [w \in Wallets |-> 0]

Init ==
  balance = Empty /\ purchased = Empty /\ consumed = Empty /\ settled = {}

Grant(w, n, p) ==
  /\ p \notin settled /\ settled' = settled \cup {p}
  /\ balance' = [balance EXCEPT ![w] = @ + n]
  /\ purchased' = [purchased EXCEPT ![w] = @ + n]
  /\ UNCHANGED consumed

Consume(w) ==
  /\ balance[w] > 0 /\ balance' = [balance EXCEPT ![w] = @ - 1]
  /\ consumed' = [consumed EXCEPT ![w] = @ + 1]
  /\ UNCHANGED <<purchased, settled>>

Refund(w) ==
  /\ consumed[w] > 0 /\ consumed' = [consumed EXCEPT ![w] = @ - 1]
  /\ balance' = [balance EXCEPT ![w] = @ + 1]
  /\ UNCHANGED <<purchased, settled>>

Clear ==
  balance' = Empty /\ purchased' = Empty /\ consumed' = Empty /\ settled' = {}

Next ==
  \/ \E w \in Wallets : Consume(w) \/ Refund(w) \/ \E n \in Packs, p \in Payments : Grant(w, n, p)
  \/ Clear

Spec == Init /\ [][Next]_ledger
=============================================================================
