----------------------------- MODULE CreditLedger -----------------------------
(***************************************************************************)
(* billing/credits.py:CreditLedger under threads, one step per statement   *)
(* of its critical sections, with the re-entrant lock they run under:      *)
(* every operation but clear ends by calling snapshot, which takes the     *)
(* lock again.  The time of the last change is left out, and so are the    *)
(* calls that raise ValueError before the lock.                            *)
(***************************************************************************)
EXTENDS Integers

CONSTANTS Threads, Wallets, Payments, Packs,
          NoThread,
          MaxOps      \* bound on the calls

ASSUME CreditAssumption ==
  Packs \subseteq Nat \ {0} /\ NoThread \notin Threads /\ MaxOps \in Nat

VARIABLES
  pc, op,             \* per thread: the next statement, the call
  snap,               \* per thread: the CreditSnapshot it builds
  owner, depth,       \* the RLock
  dict,               \* _balances, _purchased and _consumed
  settlements,        \* _settlements
  ops

store == <<dict, settlements>>
vars == <<pc, op, snap, owner, depth, store, ops>>

Dicts == {"balances", "purchased", "consumed"}

Empty == [w \in Wallets |-> 0]

Grants == [kind : {"grant"}, wallet : Wallets, credits : Packs, payment : Payments]
Others == [kind : {"snapshot", "consume", "refund", "clear"}, wallet : Wallets]

Init ==
  /\ pc = [t \in Threads |-> "idle"] /\ op \in [Threads -> Others]
  /\ snap = [t \in Threads |-> [d \in Dicts |-> 0]]
  /\ owner = NoThread /\ depth = 0
  /\ dict = [d \in Dicts |-> Empty] /\ settlements = {}
  /\ ops = 0

Goto(t, next) == pc' = [pc EXCEPT ![t] = next]

-----------------------------------------------------------------------------
(* The call and the lock.                                                  *)

Call(t) ==
  /\ pc[t] = "idle" /\ ops < MaxOps /\ ops' = ops + 1
  /\ \E o \in Grants \cup Others : op' = [op EXCEPT ![t] = o]
  /\ snap' = [snap EXCEPT ![t] = [d \in Dicts |-> 0]]
  /\ Goto(t, "lock")
  /\ UNCHANGED <<owner, depth, store>>

\* Mutated form: a Lock in place of the RLock.
AcquireOnce(t, next) ==
  /\ owner = NoThread /\ owner' = t /\ depth' = depth + 1
  /\ Goto(t, next) /\ UNCHANGED <<op, snap, store, ops>>

\* with self._lock: free, or held by the thread itself.
Acquire(t, next) ==
  /\ owner \in {NoThread, t} /\ owner' = t /\ depth' = depth + 1
  /\ Goto(t, next) /\ UNCHANGED <<op, snap, store, ops>>

Lock(t) ==
  pc[t] = "lock" /\ Acquire(t, IF op[t].kind = "snapshot" THEN "balances" ELSE op[t].kind)

\* Mutated form: the snapshot is taken after the with statement, without it.
SnapshotUnlocked(t) ==
  /\ pc[t] = "relock" /\ owner' = NoThread /\ depth' = 0
  /\ Goto(t, "balances") /\ UNCHANGED <<op, snap, store, ops>>

Relock(t) == pc[t] = "relock" /\ Acquire(t, "balances")

Unlock(t) ==
  /\ pc[t] = "unlock" /\ depth' = depth - 1
  /\ IF depth = 1 THEN owner' = NoThread /\ Goto(t, "idle") ELSE UNCHANGED <<owner, pc>>
  /\ UNCHANGED <<op, snap, store, ops>>

-----------------------------------------------------------------------------
(* The statements, from a label to the next.                               *)

At(t, label) == pc[t] = label /\ UNCHANGED <<op, owner, depth, ops>>

Test(t, label, condition, then, else) ==
  /\ At(t, label) /\ UNCHANGED <<snap, store>>
  /\ Goto(t, IF condition THEN then ELSE else)

\* d[key] = d.get(key, 0) + n
Add(t, label, d, n, next) ==
  /\ At(t, label) /\ Goto(t, next)
  /\ dict' = [dict EXCEPT ![d][op[t].wallet] = @ + n]
  /\ UNCHANGED <<snap, settlements>>

Reset(t, label, d, next) ==
  /\ At(t, label) /\ Goto(t, next)
  /\ dict' = [dict EXCEPT ![d] = Empty] /\ UNCHANGED <<snap, settlements>>

Read(t, d, next) ==
  /\ At(t, d) /\ Goto(t, next)
  /\ snap' = [snap EXCEPT ![t][d] = dict[d][op[t].wallet]] /\ UNCHANGED store

\* Mutated form: the settlement is kept and never looked at.
SettleUnchecked(t) ==
  /\ At(t, "grant") /\ Goto(t, "credit")
  /\ settlements' = settlements \cup {op[t].payment} /\ UNCHANGED <<snap, dict>>

\* A payment is settled once; again, its grant only takes the snapshot.
Settle(t) ==
  \/ Test(t, "grant", op[t].payment \in settlements, "relock", "settle")
  \/ /\ At(t, "settle") /\ Goto(t, "credit")
     /\ settlements' = settlements \cup {op[t].payment} /\ UNCHANGED <<snap, dict>>

Grant(t) ==
  \/ Settle(t)
  \/ Add(t, "credit", "balances", op[t].credits, "purchase")
  \/ Add(t, "purchase", "purchased", op[t].credits, "relock")

\* Mutated form: the credit is taken and not counted as consumed.
ConsumeUncounted(t) ==
  \/ Test(t, "consume", dict["balances"][op[t].wallet] < 1, "unlock", "debit")
  \/ Add(t, "debit", "balances", -1, "relock")

\* InsufficientCreditsError leaves through the lock without a snapshot.
Consume(t) ==
  \/ Test(t, "consume", dict["balances"][op[t].wallet] < 1, "unlock", "debit")
  \/ Add(t, "debit", "balances", -1, "count")
  \/ Add(t, "count", "consumed", 1, "relock")

\* Mutated form: a refund does not ask what was consumed.
RefundUnchecked(t) ==
  \/ Test(t, "refund", TRUE, "return", "relock")
  \/ Add(t, "return", "balances", 1, "uncount")
  \/ Add(t, "uncount", "consumed", -1, "relock")

Refund(t) ==
  \/ Test(t, "refund", dict["consumed"][op[t].wallet] > 0, "return", "relock")
  \/ Add(t, "return", "balances", 1, "uncount")
  \/ Add(t, "uncount", "consumed", -1, "relock")

Clear(t) ==
  \/ Reset(t, "clear", "balances", "clear_purchased")
  \/ Reset(t, "clear_purchased", "purchased", "clear_consumed")
  \/ Reset(t, "clear_consumed", "consumed", "clear_settlements")
  \/ /\ At(t, "clear_settlements") /\ Goto(t, "unlock")
     /\ settlements' = {} /\ UNCHANGED <<snap, dict>>

Snapshot(t) ==
  \/ Read(t, "balances", "purchased")
  \/ Read(t, "purchased", "consumed")
  \/ Read(t, "consumed", "unlock")

Inside(t) ==
  Grant(t) \/ Consume(t) \/ Refund(t) \/ Clear(t) \/ Relock(t) \/ Snapshot(t) \/ Unlock(t)

Next == \E t \in Threads : Call(t) \/ Lock(t) \/ Inside(t)

Spec == Init /\ [][Next]_vars

\* A thread inside the lock runs on; nothing is assumed of who gets it next.
FairSpec == Spec /\ \A t \in Threads : WF_vars(Inside(t))

-----------------------------------------------------------------------------
(* Properties.                                                             *)

\* A thread runs between taking the lock and giving it back.
Outside == {"idle", "lock"}
Clears == {"clear_purchased", "clear_consumed", "clear_settlements"}
Labels ==
  Outside \cup Clears \cup Dicts \cup
  {"grant", "settle", "credit", "purchase", "consume", "debit", "count", "refund", "return",
   "uncount", "clear", "relock", "unlock"}

\* The types of the variables: no balance and no count is ever negative, the
\* lock is taken twice at most.
TypeOK ==
  /\ pc \in [Threads -> Labels] /\ op \in [Threads -> Grants \cup Others]
  /\ snap \in [Threads -> [Dicts -> Nat]]
  /\ owner \in Threads \cup {NoThread} /\ depth \in 0..2
  /\ dict \in [Dicts -> [Wallets -> Nat]] /\ settlements \subseteq Payments
  /\ ops \in 0..MaxOps

\* Whenever nobody holds the lock, what a wallet can spend and what it has
\* spent is what it paid for, whatever calls came before.
CreditsConserved ==
  owner = NoThread =>
    \A w \in Wallets : dict["balances"][w] + dict["consumed"][w] = dict["purchased"][w]

\* The three numbers of a snapshot a call returns add up, as an account does
\* when nobody holds the lock: no read of it saw another thread's call half
\* done while the others did not.
SnapshotsConsistent ==
  \A t \in Threads : pc[t] = "idle" =>
    snap[t]["balances"] + snap[t]["consumed"] = snap[t]["purchased"]

\* The lock is given back by every call, whichever way it ends.
LockIsReleased == owner # NoThread ~> owner = NoThread

\* The ledger seen by whoever could take the lock: a call under way takes
\* effect with its last write, a clear with its first.
Holds(labels) == owner # NoThread /\ pc[owner] \in labels

\* What the call that holds the lock has already added to the balance of w.
Done(w) ==
  CASE Holds({"purchase"}) /\ w = op[owner].wallet -> op[owner].credits
    [] Holds({"count"}) /\ w = op[owner].wallet -> -1
    [] Holds({"uncount"}) /\ w = op[owner].wallet -> 1
    [] OTHER -> 0

seen == [w \in Wallets |-> IF Holds(Clears) THEN 0 ELSE dict["balances"][w] - Done(w)]

settled ==
  CASE Holds(Clears) -> {}
    [] Holds({"credit", "purchase"}) -> settlements \ {op[owner].payment}
    [] OTHER -> settlements

Atomic == INSTANCE AtomicLedger WITH
  balance <- seen,
  purchased <- IF Holds(Clears) THEN Empty ELSE dict["purchased"],
  consumed <- IF Holds(Clears) THEN Empty ELSE dict["consumed"]

\* The statements of concurrent calls add up to calls that happen one at a
\* time: no payment is granted twice, no credit is minted or lost.
KeepsAtomicLedger == Atomic!Spec
=============================================================================
