-------------------------- MODULE CreditLedgerProofs --------------------------
(***************************************************************************)
(* Theorems about CreditLedger, for any threads, wallets, payments and     *)
(* packs.  LedgerInv says who is between the two ends of the lock, what    *)
(* the holder's statement knows of the dictionaries, how far its writes    *)
(* are from the account of each wallet, and what its snapshot has read.    *)
(***************************************************************************)
EXTENDS CreditLedger, TLAPS

USE CreditAssumption

Fetching == {"purchased", "consumed"}

LockInv ==
  /\ \A t \in Threads : pc[t] \in Outside <=> t # owner
  /\ depth = 0 <=> owner = NoThread
  /\ depth = 2 => Holds(Dicts \cup {"unlock"})
  /\ \A t \in Threads : pc[t] \in {"grant", "settle", "credit", "purchase"} => op[t] \in Grants

AccountInv ==
  /\ ~Holds(Clears) => \A w \in Wallets :
       dict["balances"][w] - Done(w) + dict["consumed"][w] = dict["purchased"][w]
  /\ Holds(Clears) => dict["balances"] = Empty
  /\ Holds({"clear_consumed", "clear_settlements"}) => dict["purchased"] = Empty
  /\ Holds({"clear_settlements"}) => dict["consumed"] = Empty
  /\ Holds({"debit"}) => dict["balances"][op[owner].wallet] > 0
  /\ Holds({"return", "uncount"}) => dict["consumed"][op[owner].wallet] > 0
  /\ Holds({"settle"}) => op[owner].payment \notin settlements
  /\ Holds({"credit", "purchase"}) => op[owner].payment \in settlements

SnapInv ==
  \A t \in Threads :
    /\ pc[t] \notin Fetching =>
         snap[t]["balances"] + snap[t]["consumed"] = snap[t]["purchased"]
    /\ pc[t] \in Fetching => snap[t]["balances"] = dict["balances"][op[t].wallet]
    /\ pc[t] = "consumed" => snap[t]["purchased"] = dict["purchased"][op[t].wallet]

LedgerInv == TypeOK /\ LockInv /\ AccountInv /\ SnapInv

-----------------------------------------------------------------------------
(* The lock.                                                               *)

\* Whoever is at a statement holds the lock.
LEMMA OwnerRuns ==
  ASSUME LedgerInv, NEW t \in Threads, pc[t] \notin Outside
  PROVE  owner = t /\ depth \in 1..2
BY DEF LedgerInv, TypeOK, LockInv

\* A call begins outside of the lock: nothing the lock protects is disturbed.
LEMMA CallKeepsInv ==
  ASSUME LedgerInv, NEW t \in Threads, Call(t)
  PROVE  LedgerInv' /\ UNCHANGED <<seen, settled, store>> /\ (Holds(Clears)' <=> Holds(Clears))
<1> USE DEF LedgerInv
<1>1. t # owner /\ UNCHANGED <<owner, depth, dict, settlements>>
  BY DEF Call, LockInv, store, Outside
<1>2. owner # NoThread => pc'[owner] = pc[owner] /\ op'[owner] = op[owner]
  BY <1>1 DEF Call, Goto, TypeOK
<1>3. /\ pc' = [pc EXCEPT ![t] = "lock"] /\ snap' = [snap EXCEPT ![t] = [d \in Dicts |-> 0]]
      /\ ops' = ops + 1 /\ ops < MaxOps /\ pc[t] = "idle"
  BY DEF Call, Goto
<1>4. PICK o \in Grants \cup Others : op' = [op EXCEPT ![t] = o]
  BY DEF Call
<1>5. TypeOK'
  BY <1>1, <1>3, <1>4 DEF TypeOK, Labels, Outside
<1>6. LockInv'
  <2>1. \A u \in Threads : u # t => pc'[u] = pc[u] /\ op'[u] = op[u]
    BY <1>3, <1>4 DEF TypeOK
  <2>2. pc'[t] = "lock"
    BY <1>3 DEF TypeOK
  <2>3. depth = 2 => owner # NoThread
    BY DEF LockInv
  <2> QED BY <1>1, <1>2, <2>1, <2>2, <2>3 DEF LockInv, Holds, Outside
<1>7. AccountInv'
  BY <1>1, <1>2 DEF AccountInv, Holds, Done
<1>8. SnapInv'
  <2>1. ASSUME NEW u \in Threads, u # t
        PROVE  pc'[u] = pc[u] /\ op'[u] = op[u] /\ snap'[u] = snap[u]
    BY <2>1, <1>3, <1>4 DEF TypeOK
  <2>2. pc'[t] = "lock" /\ snap'[t] = [d \in Dicts |-> 0]
    BY <1>3 DEF TypeOK
  <2> QED BY <1>1, <2>1, <2>2 DEF SnapInv, Dicts, Fetching
<1>9. UNCHANGED <<seen, settled, store>> /\ (Holds(Clears)' <=> Holds(Clears))
  BY <1>1, <1>2 DEF seen, settled, Holds, Done, store
<1> QED BY <1>5, <1>6, <1>7, <1>8, <1>9

\* What a step of the thread that holds the lock leaves of the others.
LEMMA HolderFrame ==
  ASSUME LedgerInv, NEW t \in Threads, pc[t] \notin Outside,
         NEW next \in Labels, Goto(t, next)
  PROVE  /\ owner = t /\ pc' \in [Threads -> Labels] /\ pc'[t] = next
         /\ \A u \in Threads : u # t => pc'[u] = pc[u] /\ pc[u] \in Outside
BY DEF LedgerInv, TypeOK, LockInv, Goto

LEMMA LockKeepsInv ==
  ASSUME LedgerInv, NEW t \in Threads, Lock(t)
  PROVE  LedgerInv' /\ UNCHANGED <<seen, settled, store>> /\ ~Holds(Clears) /\ ~Holds(Clears)'
<1> USE DEF LedgerInv
<1> DEFINE next == IF op[t].kind = "snapshot" THEN "balances" ELSE op[t].kind
<1>1. /\ pc[t] = "lock" /\ owner \in {NoThread, t} /\ owner' = t /\ depth' = depth + 1
      /\ pc' = [pc EXCEPT ![t] = next] /\ UNCHANGED <<op, snap, dict, settlements, ops>>
  BY DEF Lock, Acquire, Goto, store
<1>2. owner = NoThread /\ depth = 0
  BY <1>1 DEF LockInv, Outside
<1>3. next \in {"balances", "consume", "refund", "clear", "grant"} /\ (next = "grant" => op[t] \in Grants)
  BY DEF TypeOK, Grants, Others
<1>4. \A u \in Threads : u # t => pc'[u] = pc[u]
  BY <1>1 DEF TypeOK
<1>5. pc'[t] = next /\ pc' \in [Threads -> Labels]
  BY <1>1, <1>3 DEF TypeOK, Labels, Dicts
<1>6. TypeOK'
  BY <1>1, <1>2, <1>5 DEF TypeOK
<1>7. LockInv'
  BY <1>1, <1>2, <1>3, <1>4, <1>5 DEF LockInv, Outside, Holds, Dicts
<1>8. ~Holds(Clears) /\ ~Holds(Clears)' /\ \A w \in Wallets : Done(w) = 0 /\ Done(w)' = 0
  BY <1>1, <1>2, <1>3, <1>5 DEF Holds, Done, Clears
<1>9. AccountInv'
  <2>1. ~Holds({"debit"})' /\ ~Holds({"return", "uncount"})' /\ ~Holds({"settle"})' /\ ~Holds({"credit", "purchase"})'
    BY <1>1, <1>3, <1>5 DEF Holds
  <2>2. ~Holds({"clear_consumed", "clear_settlements"})' /\ ~Holds({"clear_settlements"})'
    BY <1>1, <1>3, <1>5 DEF Holds
  <2>3. \A w \in Wallets :
          dict["balances"][w] - Done(w)' + dict["consumed"][w] = dict["purchased"][w]
    BY <1>8 DEF AccountInv
  <2> QED BY <1>1, <1>8, <2>1, <2>2, <2>3 DEF AccountInv
<1>10. SnapInv'
  BY <1>1, <1>3, <1>4, <1>5 DEF SnapInv, Fetching
<1>11. UNCHANGED <<seen, settled, store>>
  BY <1>1, <1>2, <1>3, <1>5, <1>8 DEF seen, settled, Holds, Clears, store
<1> QED BY <1>6, <1>7, <1>8, <1>9, <1>10, <1>11

LEMMA RelockKeepsInv ==
  ASSUME LedgerInv, NEW t \in Threads, Relock(t)
  PROVE  LedgerInv' /\ UNCHANGED <<seen, settled, store>> /\ ~Holds(Clears) /\ ~Holds(Clears)'
<1> USE DEF LedgerInv
<1>1. /\ pc[t] = "relock" /\ owner' = t /\ depth' = depth + 1 /\ Goto(t, "balances")
      /\ UNCHANGED <<op, snap, dict, settlements, ops>>
  BY DEF Relock, Acquire, store
<1>2. /\ owner = t /\ pc' \in [Threads -> Labels] /\ pc'[t] = "balances"
      /\ \A u \in Threads : u # t => pc'[u] = pc[u] /\ pc[u] \in Outside
  BY <1>1, HolderFrame DEF Outside, Labels, Dicts
<1>3. depth = 1
  BY <1>1, <1>2, OwnerRuns DEF LockInv, Holds, Dicts, Outside
<1>4. TypeOK'
  BY <1>1, <1>2, <1>3 DEF TypeOK
<1>5. LockInv'
  BY <1>1, <1>2, <1>3 DEF LockInv, Outside, Holds, Dicts
<1>6. ~Holds(Clears) /\ ~Holds(Clears)' /\ \A w \in Wallets : Done(w) = 0 /\ Done(w)' = 0
  BY <1>1, <1>2 DEF Holds, Done, Clears
<1>7. AccountInv'
  <2>1. ~Holds({"debit"})' /\ ~Holds({"return", "uncount"})' /\ ~Holds({"settle"})' /\ ~Holds({"credit", "purchase"})'
    BY <1>1, <1>2 DEF Holds
  <2>2. ~Holds({"clear_consumed", "clear_settlements"})' /\ ~Holds({"clear_settlements"})'
    BY <1>1, <1>2 DEF Holds
  <2>3. \A w \in Wallets :
          dict["balances"][w] - Done(w)' + dict["consumed"][w] = dict["purchased"][w]
    BY <1>6 DEF AccountInv
  <2> QED BY <1>1, <1>6, <2>1, <2>2, <2>3 DEF AccountInv
<1>8. SnapInv'
  BY <1>1, <1>2 DEF SnapInv, Fetching
<1>9. UNCHANGED <<seen, settled, store>>
  BY <1>1, <1>2, <1>6 DEF seen, settled, Holds, Clears, store
<1> QED BY <1>4, <1>5, <1>6, <1>7, <1>8, <1>9

LEMMA UnlockKeepsInv ==
  ASSUME LedgerInv, NEW t \in Threads, Unlock(t)
  PROVE  LedgerInv' /\ UNCHANGED <<seen, settled, store>> /\ ~Holds(Clears) /\ ~Holds(Clears)'
<1> USE DEF LedgerInv
<1>1. /\ pc[t] = "unlock" /\ depth' = depth - 1
      /\ UNCHANGED <<op, snap, dict, settlements, ops>>
  BY DEF Unlock, store
<1>2. owner = t /\ depth \in 1..2
  BY <1>1, OwnerRuns DEF Outside
<1>3. \/ depth = 1 /\ owner' = NoThread /\ Goto(t, "idle")
      \/ depth = 2 /\ UNCHANGED <<owner, pc>>
  BY <1>2 DEF Unlock
<1>4. /\ pc' \in [Threads -> Labels]
      /\ \A u \in Threads : u # t => pc'[u] = pc[u] /\ pc[u] \in Outside
      /\ pc'[t] \in {"idle", "unlock"}
  BY <1>1, <1>2, <1>3 DEF TypeOK, Goto, LockInv, Labels, Outside
<1>5. TypeOK'
  BY <1>1, <1>2, <1>3, <1>4 DEF TypeOK
<1>6. LockInv'
  BY <1>1, <1>2, <1>3, <1>4 DEF LockInv, Outside, Holds, Goto, TypeOK
<1>7. ~Holds(Clears) /\ ~Holds(Clears)' /\ \A w \in Wallets : Done(w) = 0 /\ Done(w)' = 0
  BY <1>1, <1>2, <1>3, <1>4 DEF Holds, Done, Clears
<1>8. AccountInv'
  <2>1. ~Holds({"debit"})' /\ ~Holds({"return", "uncount"})' /\ ~Holds({"settle"})' /\ ~Holds({"credit", "purchase"})'
    BY <1>2, <1>3, <1>4 DEF Holds
  <2>2. ~Holds({"clear_consumed", "clear_settlements"})' /\ ~Holds({"clear_settlements"})'
    BY <1>2, <1>3, <1>4 DEF Holds
  <2>3. \A w \in Wallets :
          dict["balances"][w] - Done(w)' + dict["consumed"][w] = dict["purchased"][w]
    BY <1>7 DEF AccountInv
  <2> QED BY <1>1, <1>7, <2>1, <2>2, <2>3 DEF AccountInv
<1>9. SnapInv'
  BY <1>1, <1>4 DEF SnapInv, Fetching
<1>10. UNCHANGED <<seen, settled, store>>
  BY <1>1, <1>2, <1>3, <1>4, <1>7 DEF seen, settled, Holds, Clears, store
<1> QED BY <1>5, <1>6, <1>7, <1>8, <1>9, <1>10

-----------------------------------------------------------------------------
(* The statements.                                                         *)

\* A statement of the thread that holds the lock, whatever it writes.
LEMMA StatementFrame ==
  ASSUME LedgerInv, NEW t \in Threads,
         NEW label \in Labels \ (Outside \cup {"unlock"}), NEW next \in Labels \ Outside,
         At(t, label), Goto(t, next),
         label \in Dicts => next \in Dicts \cup {"unlock"},
         next \in {"grant", "settle", "credit", "purchase"} => op[t] \in Grants
  PROVE  /\ LockInv' /\ owner = t /\ UNCHANGED <<op, owner, depth, ops>>
         /\ pc[t] = label /\ pc'[t] = next /\ pc' \in [Threads -> Labels]
         /\ \A u \in Threads : u # t => pc'[u] = pc[u] /\ pc[u] \in Outside
<1>1. pc[t] = label /\ UNCHANGED <<op, owner, depth, ops>>
  BY DEF At
<1>2. /\ owner = t /\ pc' \in [Threads -> Labels] /\ pc'[t] = next
      /\ \A u \in Threads : u # t => pc'[u] = pc[u] /\ pc[u] \in Outside
  BY <1>1, HolderFrame
<1>3. depth = 2 => label \in Dicts
  BY <1>1, <1>2 DEF LedgerInv, LockInv, Holds
<1>4. LockInv'
  BY <1>1, <1>2, <1>3 DEF LedgerInv, LockInv, Holds, Outside
<1> QED BY <1>1, <1>2, <1>4

\* The three reads of a snapshot.
LEMMA SnapshotKeepsInv ==
  ASSUME LedgerInv, NEW t \in Threads, Snapshot(t)
  PROVE  LedgerInv' /\ UNCHANGED <<seen, settled, store>> /\ ~Holds(Clears) /\ ~Holds(Clears)'
<1> USE DEF LedgerInv
<1>1. PICK d \in Dicts, next \in Labels \ Outside :
        /\ \/ d = "balances" /\ next = "purchased"
           \/ d = "purchased" /\ next = "consumed"
           \/ d = "consumed" /\ next = "unlock"
        /\ At(t, d) /\ Goto(t, next)
        /\ snap' = [snap EXCEPT ![t][d] = dict[d][op[t].wallet]]
        /\ UNCHANGED <<dict, settlements>>
  BY DEF Snapshot, Read, Dicts, Labels, Outside, store
<1>2. /\ LockInv' /\ owner = t /\ UNCHANGED <<op, owner, depth, ops>>
      /\ pc[t] = d /\ pc'[t] = next /\ pc' \in [Threads -> Labels]
      /\ \A u \in Threads : u # t => pc'[u] = pc[u] /\ pc[u] \in Outside
  BY <1>1, StatementFrame DEF Labels, Dicts, Outside
<1>3. op[t].wallet \in Wallets
  BY DEF TypeOK, Grants, Others
<1>4. dict[d][op[t].wallet] \in Nat
  BY <1>3 DEF TypeOK
<1>5. /\ snap' \in [Threads -> [Dicts -> Nat]]
      /\ snap'[t] = [snap[t] EXCEPT ![d] = dict[d][op[t].wallet]]
      /\ \A u \in Threads : u # t => snap'[u] = snap[u]
  BY <1>1, <1>4 DEF TypeOK
<1>6. TypeOK'
  BY <1>1, <1>2, <1>5 DEF TypeOK
<1>7. ~Holds(Clears) /\ ~Holds(Clears)' /\ \A w \in Wallets : Done(w) = 0 /\ Done(w)' = 0
  BY <1>1, <1>2 DEF Holds, Done, Clears
<1>8. \A w \in Wallets :
        dict["balances"][w] + dict["consumed"][w] = dict["purchased"][w]
  <2> SUFFICES ASSUME NEW w \in Wallets
               PROVE  dict["balances"][w] + dict["consumed"][w] = dict["purchased"][w]
    OBVIOUS
  <2>1. dict["balances"][w] - Done(w) + dict["consumed"][w] = dict["purchased"][w]
    BY <1>7 DEF AccountInv
  <2>2. dict["balances"][w] \in Nat
    BY DEF TypeOK, Dicts
  <2> QED BY <1>7, <2>1, <2>2
<1>9. AccountInv'
  <2>1. ~Holds({"debit"})' /\ ~Holds({"return", "uncount"})' /\ ~Holds({"settle"})' /\ ~Holds({"credit", "purchase"})'
    BY <1>1, <1>2 DEF Holds
  <2>2. ~Holds({"clear_consumed", "clear_settlements"})' /\ ~Holds({"clear_settlements"})'
    BY <1>1, <1>2 DEF Holds
  <2>3. \A w \in Wallets :
          dict["balances"][w] - Done(w)' + dict["consumed"][w] = dict["purchased"][w]
    BY <1>7 DEF AccountInv
  <2> QED BY <1>1, <1>7, <2>1, <2>2, <2>3 DEF AccountInv
<1>10. SnapInv'
  <2>1. ASSUME NEW u \in Threads, u # t
        PROVE  /\ pc'[u] \notin Fetching
               /\ snap'[u]["balances"] + snap'[u]["consumed"] = snap'[u]["purchased"]
    BY <2>1, <1>2, <1>5 DEF SnapInv, Outside, Fetching
  <2>2. snap[t] \in [Dicts -> Nat]
    BY DEF TypeOK
  <2>3. CASE d = "balances"
    BY <1>1, <1>2, <1>5, <2>1, <2>2, <2>3 DEF SnapInv, Fetching, Dicts
  <2>4. CASE d = "purchased"
    BY <1>1, <1>2, <1>5, <2>1, <2>2, <2>4 DEF SnapInv, Fetching, Dicts
  <2>5. CASE d = "consumed"
    BY <1>1, <1>2, <1>3, <1>5, <1>8, <2>1, <2>2, <2>5 DEF SnapInv, Fetching, Dicts
  <2> QED BY <1>1, <2>3, <2>4, <2>5
<1>11. UNCHANGED <<seen, settled, store>>
  BY <1>1, <1>2, <1>7 DEF seen, settled, Holds, Clears, store
<1> QED BY <1>2, <1>6, <1>7, <1>9, <1>10, <1>11

\* A statement that does not read a dictionary leaves the snapshots alone.
LEMMA SnapshotsStay ==
  ASSUME LedgerInv, NEW t \in Threads,
         pc[t] \notin Outside \cup Fetching, pc'[t] \notin Fetching,
         UNCHANGED <<op, snap>>,
         \A u \in Threads : u # t => pc'[u] = pc[u] /\ pc[u] \in Outside
  PROVE  SnapInv'
BY DEF LedgerInv, SnapInv, Fetching, Outside

\* The statements that look and decide.
LEMMA TestKeepsInv ==
  ASSUME LedgerInv, NEW t \in Threads,
         \/ Test(t, "grant", op[t].payment \in settlements, "relock", "settle")
         \/ Test(t, "consume", dict["balances"][op[t].wallet] < 1, "unlock", "debit")
         \/ Test(t, "refund", dict["consumed"][op[t].wallet] > 0, "return", "relock")
  PROVE  LedgerInv' /\ UNCHANGED <<seen, settled, store>> /\ ~Holds(Clears) /\ ~Holds(Clears)'
<1> USE DEF LedgerInv
<1>1. PICK label \in {"grant", "consume", "refund"},
           next \in {"unlock", "debit", "return", "relock", "settle"} :
        /\ At(t, label) /\ Goto(t, next) /\ UNCHANGED <<snap, dict, settlements>>
        /\ next = "settle" => label = "grant" /\ op[t].payment \notin settlements
        /\ next = "debit" => ~(dict["balances"][op[t].wallet] < 1)
        /\ next = "return" => dict["consumed"][op[t].wallet] > 0
  <2>1. CASE Test(t, "consume", dict["balances"][op[t].wallet] < 1, "unlock", "debit")
    BY <2>1 DEF Test, store
  <2>2. CASE Test(t, "refund", dict["consumed"][op[t].wallet] > 0, "return", "relock")
    BY <2>2 DEF Test, store
  <2>3. CASE Test(t, "grant", op[t].payment \in settlements, "relock", "settle")
    BY <2>3 DEF Test, store
  <2> QED BY <2>1, <2>2, <2>3
<1>2. /\ LockInv' /\ owner = t /\ UNCHANGED <<op, owner, depth, ops>>
      /\ pc[t] = label /\ pc'[t] = next /\ pc' \in [Threads -> Labels]
      /\ \A u \in Threads : u # t => pc'[u] = pc[u] /\ pc[u] \in Outside
  <2> /\ label \in Labels \ (Outside \cup {"unlock"}) /\ next \in Labels \ Outside
      /\ label \notin Dicts /\ next \notin {"grant", "credit", "purchase"}
    BY DEF Labels, Outside, Dicts
  <2> next \in {"grant", "settle", "credit", "purchase"} => op[t] \in Grants
    BY <1>1 DEF At, LockInv
  <2> QED BY <1>1, StatementFrame
<1>3. op[t].wallet \in Wallets /\ dict["balances"][op[t].wallet] \in Nat
  BY DEF TypeOK, Grants, Others, Dicts
<1>4. TypeOK'
  BY <1>1, <1>2 DEF TypeOK
<1>5. ~Holds(Clears) /\ ~Holds(Clears)' /\ \A w \in Wallets : Done(w) = 0 /\ Done(w)' = 0
  BY <1>1, <1>2 DEF Holds, Done, Clears
<1>6. AccountInv'
  <2>1. Holds({"debit"})' => dict["balances"][op[t].wallet] > 0
    BY <1>1, <1>2, <1>3 DEF Holds
  <2>2. Holds({"return", "uncount"})' => dict["consumed"][op[t].wallet] > 0
    BY <1>1, <1>2 DEF Holds
  <2>3. /\ ~Holds({"clear_consumed", "clear_settlements"})' /\ ~Holds({"clear_settlements"})'
        /\ ~Holds({"credit", "purchase"})' /\ (Holds({"settle"})' => op[t].payment \notin settlements)
    BY <1>1, <1>2 DEF Holds
  <2>4. \A w \in Wallets :
          dict["balances"][w] - Done(w)' + dict["consumed"][w] = dict["purchased"][w]
    BY <1>5 DEF AccountInv
  <2> QED BY <1>1, <1>2, <1>5, <2>1, <2>2, <2>3, <2>4 DEF AccountInv
<1>7. SnapInv'
  BY <1>1, <1>2, SnapshotsStay DEF Outside, Fetching
<1>8. UNCHANGED <<seen, settled, store>>
  BY <1>1, <1>2, <1>5 DEF seen, settled, Holds, Clears, store
<1> QED BY <1>2, <1>4, <1>5, <1>6, <1>7, <1>8

\* The settlement of a payment is on record before its credits are added.
LEMMA SettleKeepsInv ==
  ASSUME LedgerInv, NEW t \in Threads,
         At(t, "settle"), Goto(t, "credit"), settlements' = settlements \cup {op[t].payment},
         UNCHANGED <<snap, dict>>
  PROVE  LedgerInv' /\ UNCHANGED <<seen, settled, dict>> /\ ~Holds(Clears) /\ ~Holds(Clears)'
<1> USE DEF LedgerInv
<1> DEFINE p == op[t].payment
           next == "credit"
<1>1. /\ At(t, "settle") /\ Goto(t, next) /\ UNCHANGED <<snap, dict>>
      /\ settlements' = settlements \cup {p}
  OBVIOUS
<1>2. op[t] \in Grants
  BY <1>1 DEF At, LockInv
<1>3. /\ LockInv' /\ owner = t /\ UNCHANGED <<op, owner, depth, ops>>
      /\ pc[t] = "settle" /\ pc'[t] = next /\ pc' \in [Threads -> Labels]
      /\ \A u \in Threads : u # t => pc'[u] = pc[u] /\ pc[u] \in Outside
  <2> /\ "settle" \in Labels \ (Outside \cup {"unlock"}) /\ next \in Labels \ Outside
      /\ "settle" \notin Dicts
    BY DEF Labels, Outside, Dicts
  <2> QED BY <1>1, <1>2, StatementFrame
<1>4. TypeOK'
  BY <1>1, <1>2, <1>3 DEF TypeOK, Grants
<1>5. ~Holds(Clears) /\ ~Holds(Clears)' /\ \A w \in Wallets : Done(w) = 0 /\ Done(w)' = 0
  BY <1>1, <1>3 DEF Holds, Done, Clears
<1>6. AccountInv'
  <2>1. /\ ~Holds({"settle"})' /\ ~Holds({"debit"})' /\ ~Holds({"return", "uncount"})'
        /\ ~Holds({"clear_consumed", "clear_settlements"})' /\ ~Holds({"clear_settlements"})'
    BY <1>1, <1>3 DEF Holds
  <2>2. \A w \in Wallets :
          dict["balances"][w] - Done(w)' + dict["consumed"][w] = dict["purchased"][w]
    BY <1>5 DEF AccountInv
  <2> QED BY <1>1, <1>3, <1>5, <2>1, <2>2 DEF AccountInv
<1>7. SnapInv'
  BY <1>1, <1>3, SnapshotsStay DEF Outside, Fetching
<1>8. settled' = settled
  <2>1. p \notin settlements
    BY <1>3 DEF AccountInv, Holds
  <2> QED BY <1>1, <1>3, <1>5, <2>1 DEF settled, Holds, Clears
<1>9. seen' = seen
  BY <1>1, <1>3, <1>5 DEF seen, Holds, Clears
<1> QED BY <1>1, <1>3, <1>4, <1>5, <1>6, <1>7, <1>8, <1>9

-----------------------------------------------------------------------------
(* The statements that add to a dictionary.                                *)

\* The lines that change a dictionary, each with its place in its call.
Adds ==
  {[label |-> "credit", dict |-> "balances", next |-> "purchase"],
   [label |-> "purchase", dict |-> "purchased", next |-> "relock"],
   [label |-> "debit", dict |-> "balances", next |-> "count"],
   [label |-> "count", dict |-> "consumed", next |-> "relock"],
   [label |-> "return", dict |-> "balances", next |-> "uncount"],
   [label |-> "uncount", dict |-> "consumed", next |-> "relock"]}

By(a, o) ==
  CASE a.label \in {"credit", "purchase"} -> o.credits
    [] a.label \in {"debit", "uncount"} -> -1
    [] a.label \in {"count", "return"} -> 1

LEMMA AddFrame ==
  ASSUME LedgerInv, NEW t \in Threads, NEW a \in Adds,
         Add(t, a.label, a.dict, By(a, op[t]), a.next)
  PROVE  /\ LockInv' /\ TypeOK' /\ SnapInv' /\ owner = t /\ pc[t] = a.label /\ pc'[t] = a.next
         /\ UNCHANGED <<op, owner, settlements>> /\ owner # NoThread
         /\ op[t].wallet \in Wallets
         /\ a.label \in {"credit", "purchase"} => op[t] \in Grants
         /\ By(a, op[t]) \in Int
         /\ \A w \in Wallets : dict'[a.dict][w] =
              IF w = op[t].wallet THEN dict[a.dict][w] + By(a, op[t]) ELSE dict[a.dict][w]
         /\ \A d \in Dicts \ {a.dict} : dict'[d] = dict[d]
<1> USE DEF LedgerInv
<1> DEFINE n == By(a, op[t])
           w0 == op[t].wallet
<1>1. /\ At(t, a.label) /\ Goto(t, a.next) /\ UNCHANGED <<snap, settlements>>
      /\ dict' = [dict EXCEPT ![a.dict][w0] = @ + n]
  BY DEF Add
<1>2. /\ a.label \in Labels \ (Outside \cup {"unlock"}) /\ a.next \in Labels \ Outside
      /\ a.label \notin Dicts /\ a.dict \in Dicts /\ a.label \notin Fetching /\ a.next \notin Fetching
      /\ a.next \in {"grant", "settle", "credit", "purchase"} => a.label = "credit"
  BY DEF Adds, Labels, Outside, Dicts, Fetching
<1>3. a.label \in {"credit", "purchase"} => op[t] \in Grants
  BY <1>1 DEF At, LockInv
<1>4. /\ LockInv' /\ owner = t /\ UNCHANGED <<op, owner, depth, ops>>
      /\ pc[t] = a.label /\ pc'[t] = a.next /\ pc' \in [Threads -> Labels]
      /\ \A u \in Threads : u # t => pc'[u] = pc[u] /\ pc[u] \in Outside
  BY <1>1, <1>2, <1>3, StatementFrame
<1>5. w0 \in Wallets
  BY DEF TypeOK, Grants, Others
<1>6. n \in Int /\ (a.label \in {"credit", "purchase"} => n \in Nat)
  BY <1>3 DEF By, Adds, Grants
<1>7. dict[a.dict][w0] + n \in Nat
  <2>1. dict[a.dict][w0] \in Nat
    BY <1>2, <1>5 DEF TypeOK
  <2>2. CASE a.label = "debit"
    BY <2>1, <2>2, <1>4 DEF AccountInv, Holds, By, Adds
  <2>3. CASE a.label = "uncount"
    BY <2>1, <2>3, <1>4 DEF AccountInv, Holds, By, Adds
  <2>4. CASE a.label \notin {"debit", "uncount"}
    BY <2>1, <2>4, <1>6 DEF By, Adds
  <2> QED BY <2>2, <2>3, <2>4
<1>8. /\ dict' \in [Dicts -> [Wallets -> Nat]]
      /\ \A w \in Wallets : dict'[a.dict][w] = IF w = w0 THEN dict[a.dict][w] + n ELSE dict[a.dict][w]
      /\ \A d \in Dicts \ {a.dict} : dict'[d] = dict[d]
  BY <1>1, <1>2, <1>5, <1>7 DEF TypeOK
<1>9. TypeOK'
  BY <1>1, <1>4, <1>8 DEF TypeOK
<1>10. SnapInv'
  BY <1>1, <1>2, <1>4, SnapshotsStay
<1> QED BY <1>1, <1>3, <1>4, <1>5, <1>6, <1>8, <1>9, <1>10

\* Between two lines of a call the accounts differ by what Done says, so the
\* balance that is seen changes with the last line of the call only.
LEMMA AddKeepsInv ==
  ASSUME LedgerInv, NEW t \in Threads, NEW a \in Adds,
         Add(t, a.label, a.dict, By(a, op[t]), a.next)
  PROVE  LedgerInv' /\ ~Holds(Clears) /\ ~Holds(Clears)' /\ settlements' = settlements
<1> USE DEF LedgerInv
<1> DEFINE w0 == op[t].wallet
<1>1. /\ LockInv' /\ TypeOK' /\ SnapInv' /\ owner = t /\ pc[t] = a.label /\ pc'[t] = a.next
      /\ UNCHANGED <<op, owner, settlements>> /\ owner # NoThread
      /\ w0 \in Wallets
      /\ a.label \in {"credit", "purchase"} => op[t] \in Grants
      /\ By(a, op[t]) \in Int
      /\ \A w \in Wallets : dict'[a.dict][w] =
           IF w = w0 THEN dict[a.dict][w] + By(a, op[t]) ELSE dict[a.dict][w]
      /\ \A d \in Dicts \ {a.dict} : dict'[d] = dict[d]
  BY AddFrame
<1>2. ~Holds(Clears) /\ ~Holds(Clears)'
  BY <1>1 DEF Holds, Clears, Adds
<1>3. ASSUME NEW w \in Wallets
      PROVE  dict'["balances"][w] - Done(w)' + dict'["consumed"][w] = dict'["purchased"][w]
  <2>1. dict["balances"][w] - Done(w) + dict["consumed"][w] = dict["purchased"][w]
    BY <1>2 DEF AccountInv
  <2>2. dict["balances"][w] \in Nat /\ dict["consumed"][w] \in Nat /\ dict["purchased"][w] \in Nat
    BY DEF TypeOK, Dicts
  <2>3. op[t] \in Grants => op[t].credits \in Nat
    BY DEF Grants
  <2>4. CASE w # w0
    <3>1. Done(w) = 0 /\ Done(w)' = 0
      BY <1>1, <2>4 DEF Done
    <3>2. \A d \in Dicts : dict'[d][w] = dict[d][w]
      BY <1>1, <2>4
    <3> QED BY <2>1, <3>1, <3>2 DEF Dicts
  <2>5. CASE w = w0 /\ a.label \in {"credit", "purchase"}
    <3>1. CASE a.label = "credit"
      BY <1>1, <2>1, <2>2, <2>3, <2>5, <3>1 DEF Adds, By, Done, Holds, Dicts
    <3>2. CASE a.label = "purchase"
      BY <1>1, <2>1, <2>2, <2>3, <2>5, <3>2 DEF Adds, By, Done, Holds, Dicts
    <3> QED BY <2>5, <3>1, <3>2
  <2>6. CASE w = w0 /\ a.label \in {"debit", "count"}
    <3>1. CASE a.label = "debit"
      BY <1>1, <2>1, <2>2, <2>6, <3>1 DEF Adds, By, Done, Holds, Dicts
    <3>2. CASE a.label = "count"
      BY <1>1, <2>1, <2>2, <2>6, <3>2 DEF Adds, By, Done, Holds, Dicts
    <3> QED BY <2>6, <3>1, <3>2
  <2>7. CASE w = w0 /\ a.label \in {"return", "uncount"}
    <3>1. CASE a.label = "return"
      BY <1>1, <2>1, <2>2, <2>7, <3>1 DEF Adds, By, Done, Holds, Dicts
    <3>2. CASE a.label = "uncount"
      BY <1>1, <2>1, <2>2, <2>7, <3>2 DEF Adds, By, Done, Holds, Dicts
    <3> QED BY <2>7, <3>1, <3>2
  <2> QED BY <2>4, <2>5, <2>6, <2>7 DEF Adds
<1>4. AccountInv'
  <2>1. ~Holds({"debit"})' /\ ~Holds({"clear_consumed", "clear_settlements"})'
        /\ ~Holds({"clear_settlements"})' /\ ~Holds({"settle"})'
    BY <1>1 DEF Holds, Adds
  <2>2. Holds({"return", "uncount"})' => dict'["consumed"][w0] > 0
    <3>1. Holds({"return", "uncount"})' => a.label = "return" /\ dict'["consumed"] = dict["consumed"]
      BY <1>1 DEF Holds, Adds, Dicts
    <3> QED BY <1>1, <3>1 DEF AccountInv, Holds
  <2>3. Holds({"credit", "purchase"})' => op[t].payment \in settlements
    <3>1. Holds({"credit", "purchase"})' => a.label = "credit"
      BY <1>1 DEF Holds, Adds
    <3> QED BY <1>1, <3>1 DEF AccountInv, Holds
  <2> QED BY <1>1, <1>2, <1>3, <2>1, <2>2, <2>3 DEF AccountInv
<1> QED BY <1>1, <1>2, <1>4

LEMMA AddIsAtomic ==
  ASSUME LedgerInv, NEW t \in Threads, NEW a \in Adds,
         Add(t, a.label, a.dict, By(a, op[t]), a.next)
  PROVE  [Atomic!Next]_(Atomic!ledger)
<1> USE DEF LedgerInv
<1> DEFINE w0 == op[t].wallet
           paid == dict["purchased"]
           spent == dict["consumed"]
<1>1. /\ owner = t /\ pc[t] = a.label /\ pc'[t] = a.next
      /\ UNCHANGED <<op, owner, settlements>> /\ owner # NoThread
      /\ w0 \in Wallets /\ TypeOK'
      /\ a.label \in {"credit", "purchase"} => op[t] \in Grants
      /\ By(a, op[t]) \in Int
      /\ \A w \in Wallets : dict'[a.dict][w] =
           IF w = w0 THEN dict[a.dict][w] + By(a, op[t]) ELSE dict[a.dict][w]
      /\ \A d \in Dicts \ {a.dict} : dict'[d] = dict[d]
  BY AddFrame
<1>2. ~Holds(Clears) /\ ~Holds(Clears)'
  BY AddKeepsInv
<1>3. /\ \A d \in Dicts : dict[d] \in [Wallets -> Nat] /\ dict'[d] \in [Wallets -> Nat]
      /\ op[t] \in Grants => op[t].credits \in Nat
  BY <1>1 DEF TypeOK, Grants
<1>4. \A w \in Wallets : seen[w] = dict["balances"][w] - Done(w)
  BY <1>2 DEF seen
<1>5. \A w \in Wallets : seen'[w] = dict'["balances"][w] - Done(w)'
  BY <1>2 DEF seen
<1>6. \A w \in Wallets : w # w0 => Done(w) = 0 /\ Done(w)' = 0
  BY <1>1 DEF Done
<1>7. seen = [w \in Wallets |-> seen[w]] /\ seen' = [w \in Wallets |-> seen'[w]]
  BY DEF seen
<1>8. \A w \in Wallets : w # w0 => seen'[w] = seen[w]
  <2>1. \A w \in Wallets : w # w0 => dict'["balances"][w] = dict["balances"][w]
    BY <1>1 DEF Dicts
  <2> QED BY <1>4, <1>5, <1>6, <2>1
<1>9. CASE a.label \in {"credit", "debit", "return"}
  <2>1. dict'["purchased"] = dict["purchased"] /\ dict'["consumed"] = dict["consumed"]
    BY <1>1, <1>9 DEF Adds, Dicts
  <2>2. settled' = settled
    BY <1>1, <1>2, <1>9 DEF settled, Holds, Adds
  <2>3. seen'[w0] = seen[w0]
    <3>1. Done(w0) = 0 /\ Done(w0)' = By(a, op[t])
      <4>1. CASE a.label = "credit"
        BY <1>1, <4>1 DEF Adds, By, Done, Holds
      <4>2. CASE a.label = "debit"
        BY <1>1, <4>2 DEF Adds, By, Done, Holds
      <4>3. CASE a.label = "return"
        BY <1>1, <4>3 DEF Adds, By, Done, Holds
      <4> QED BY <1>9, <4>1, <4>2, <4>3
    <3>2. dict'["balances"][w0] = dict["balances"][w0] + By(a, op[t])
      BY <1>1, <1>9 DEF Adds
    <3>3. dict["balances"][w0] \in Nat
      BY <1>1, <1>3 DEF Dicts
    <3> QED BY <1>1, <1>4, <1>5, <3>1, <3>2, <3>3
  <2>4. seen' = seen
    BY <1>7, <1>8, <2>3
  <2> QED BY <1>2, <2>1, <2>2, <2>4 DEF Atomic!ledger
<1>10. CASE a.label = "purchase"
  <2>1. dict'["balances"] = dict["balances"] /\ dict'["consumed"] = dict["consumed"]
        /\ a.dict = "purchased" /\ a.next = "relock" /\ By(a, op[t]) = op[t].credits
    BY <1>1, <1>10 DEF Adds, By, Dicts
  <2>2. /\ settled = settlements \ {op[t].payment} /\ settled' = settlements
        /\ op[t].payment \in settlements
    BY <1>1, <1>2, <1>10, <2>1 DEF settled, Holds, AccountInv
  <2>3. Done(w0) = op[t].credits /\ Done(w0)' = 0
    BY <1>1, <1>10, <2>1 DEF Done, Holds
  <2>4. seen'[w0] = seen[w0] + op[t].credits
    BY <1>1, <1>3, <1>4, <1>5, <1>10, <2>1, <2>3 DEF Dicts
  <2>5. seen' = [seen EXCEPT ![w0] = @ + op[t].credits]
    BY <1>1, <1>7, <1>8, <2>4
  <2>6. dict'["purchased"] = [paid EXCEPT ![w0] = @ + op[t].credits]
    BY <1>1, <1>3, <2>1 DEF Dicts
  <2>7. op[t].credits \in Packs /\ op[t].payment \in Payments
    BY <1>1, <1>10 DEF Grants
  <2>8. Atomic!Grant(w0, op[t].credits, op[t].payment)
    BY <1>2, <2>1, <2>2, <2>5, <2>6 DEF Atomic!Grant
  <2> QED BY <1>1, <2>7, <2>8 DEF Atomic!Next
<1>11. CASE a.label = "count"
  <2>1. dict'["balances"] = dict["balances"] /\ dict'["purchased"] = dict["purchased"]
        /\ a.dict = "consumed" /\ a.next = "relock" /\ By(a, op[t]) = 1
    BY <1>1, <1>11 DEF Adds, By, Dicts
  <2>2. settled' = settled
    BY <1>1, <1>2, <1>11, <2>1 DEF settled, Holds
  <2>3. Done(w0) = -1 /\ Done(w0)' = 0
    BY <1>1, <1>11, <2>1 DEF Done, Holds
  <2>4. seen[w0] > 0 /\ seen'[w0] = seen[w0] - 1
    BY <1>1, <1>3, <1>4, <1>5, <2>1, <2>3 DEF Dicts
  <2>5. seen' = [seen EXCEPT ![w0] = @ - 1]
    BY <1>1, <1>7, <1>8, <2>4
  <2>6. dict'["consumed"] = [spent EXCEPT ![w0] = @ + 1]
    BY <1>1, <1>3, <2>1 DEF Dicts
  <2>7. Atomic!Consume(w0)
    BY <1>2, <2>1, <2>2, <2>4, <2>5, <2>6 DEF Atomic!Consume
  <2> QED BY <1>1, <2>7 DEF Atomic!Next
<1>12. CASE a.label = "uncount"
  <2>1. dict'["balances"] = dict["balances"] /\ dict'["purchased"] = dict["purchased"]
        /\ a.dict = "consumed" /\ a.next = "relock" /\ By(a, op[t]) = -1
    BY <1>1, <1>12 DEF Adds, By, Dicts
  <2>2. settled' = settled
    BY <1>1, <1>2, <1>12, <2>1 DEF settled, Holds
  <2>3. Done(w0) = 1 /\ Done(w0)' = 0
    BY <1>1, <1>12, <2>1 DEF Done, Holds
  <2>4. seen'[w0] = seen[w0] + 1
    BY <1>1, <1>3, <1>4, <1>5, <2>1, <2>3 DEF Dicts
  <2>5. seen' = [seen EXCEPT ![w0] = @ + 1]
    BY <1>1, <1>7, <1>8, <2>4
  <2>6. dict'["consumed"] = [spent EXCEPT ![w0] = @ - 1]
    BY <1>1, <1>3, <2>1 DEF Dicts
  <2>7. spent[w0] > 0
    BY <1>1, <1>12 DEF AccountInv, Holds
  <2>8. Atomic!Refund(w0)
    BY <1>2, <2>1, <2>2, <2>5, <2>6, <2>7 DEF Atomic!Refund
  <2> QED BY <1>1, <2>8 DEF Atomic!Next
<1> QED BY <1>9, <1>10, <1>11, <1>12 DEF Adds

-----------------------------------------------------------------------------
(* The statements that reset the ledger.                                   *)

Clearings == {"clear"} \cup Clears

LEMMA ClearFrame ==
  ASSUME LedgerInv, NEW t \in Threads, NEW label \in Clearings,
         NEW next \in Clears \cup {"unlock"}, At(t, label), Goto(t, next), UNCHANGED snap
  PROVE  /\ LockInv' /\ SnapInv' /\ owner = t /\ owner # NoThread
         /\ UNCHANGED <<op, owner, depth, ops>>
         /\ pc[t] = label /\ pc'[t] = next /\ pc' \in [Threads -> Labels]
<1>1. /\ label \in Labels \ (Outside \cup {"unlock"}) /\ next \in Labels \ Outside
      /\ label \notin Dicts /\ label \notin Fetching /\ next \notin Fetching
      /\ next \notin {"grant", "settle", "credit", "purchase"}
  BY DEF Clearings, Clears, Labels, Outside, Dicts, Fetching
<1>2. /\ LockInv' /\ owner = t /\ UNCHANGED <<op, owner, depth, ops>>
      /\ pc[t] = label /\ pc'[t] = next /\ pc' \in [Threads -> Labels]
      /\ \A u \in Threads : u # t => pc'[u] = pc[u] /\ pc[u] \in Outside
  BY <1>1, StatementFrame
<1> QED BY <1>1, <1>2, SnapshotsStay

\* The first reset is where a clear takes effect; the others, and the end,
\* show nothing new.
LEMMA ClearKeepsInv ==
  ASSUME LedgerInv, NEW t \in Threads, Clear(t)
  PROVE  LedgerInv' /\ [Atomic!Next]_(Atomic!ledger)
<1> USE DEF LedgerInv
<1>a. Empty \in [Wallets -> Nat] /\ \A w \in Wallets : Empty[w] = 0
  BY DEF Empty
<1>b. dict = [d \in Dicts |-> dict[d]]
  BY DEF TypeOK
<1>1. ASSUME NEW label \in Clearings, NEW next \in Clears, NEW d \in Dicts,
             Reset(t, label, d, next)
      PROVE  /\ LockInv' /\ SnapInv' /\ TypeOK' /\ owner = t /\ owner # NoThread
             /\ UNCHANGED <<op, owner, settlements>> /\ pc[t] = label /\ pc'[t] = next
             /\ dict'[d] = Empty /\ \A e \in Dicts \ {d} : dict'[e] = dict[e]
             /\ Holds(Clears)'
  <2>1. /\ At(t, label) /\ Goto(t, next) /\ dict' = [dict EXCEPT ![d] = Empty]
        /\ UNCHANGED <<snap, settlements>>
    BY <1>1 DEF Reset
  <2>2. /\ LockInv' /\ SnapInv' /\ owner = t /\ owner # NoThread
        /\ UNCHANGED <<op, owner, depth, ops>>
        /\ pc[t] = label /\ pc'[t] = next /\ pc' \in [Threads -> Labels]
    BY <1>1, <2>1, ClearFrame
  <2>3. /\ dict' \in [Dicts -> [Wallets -> Nat]] /\ dict'[d] = Empty
        /\ \A e \in Dicts \ {d} : dict'[e] = dict[e]
    BY <1>a, <2>1 DEF TypeOK
  <2>4. TypeOK'
    BY <2>1, <2>2, <2>3 DEF TypeOK
  <2>5. Holds(Clears)'
    BY <1>1, <2>2 DEF Holds
  <2> QED BY <2>1, <2>2, <2>3, <2>4, <2>5
<1>2. CASE Reset(t, "clear", "balances", "clear_purchased")
  <2>1. /\ LockInv' /\ SnapInv' /\ TypeOK' /\ owner = t /\ owner # NoThread
        /\ UNCHANGED <<op, owner, settlements>> /\ pc[t] = "clear" /\ pc'[t] = "clear_purchased"
        /\ dict'["balances"] = Empty /\ Holds(Clears)'
    BY <1>1, <1>2 DEF Clearings, Clears, Dicts
  <2>2. AccountInv'
    BY <2>1 DEF AccountInv, Holds
  <2>3. seen' = Empty /\ settled' = {}
    <3>1. \A w \in Wallets :
            (IF Holds(Clears)' THEN 0 ELSE dict'["balances"][w] - Done(w)') = 0
      BY <2>1
    <3>2. seen' = Empty
      BY <3>1 DEF seen, Empty
    <3>3. ~Holds({"settle"})' /\ ~Holds({"credit", "purchase"})'
      BY <2>1 DEF Holds
    <3>4. settled' = {}
      BY <2>1, <3>3 DEF settled
    <3> QED BY <3>2, <3>4
  <2>4. Atomic!Clear
    BY <2>1, <2>3 DEF Atomic!Clear, Atomic!Empty, Empty
  <2> QED BY <2>1, <2>2, <2>4 DEF Atomic!Next
<1>3. CASE Reset(t, "clear_purchased", "purchased", "clear_consumed")
  <2>1. /\ LockInv' /\ SnapInv' /\ TypeOK' /\ owner = t /\ owner # NoThread
        /\ UNCHANGED <<op, owner, settlements>>
        /\ pc[t] = "clear_purchased" /\ pc'[t] = "clear_consumed"
        /\ dict'["purchased"] = Empty /\ dict'["balances"] = dict["balances"] /\ Holds(Clears)'
    BY <1>1, <1>3 DEF Clearings, Clears, Dicts
  <2>2. Holds(Clears)
    BY <2>1 DEF Holds, Clears
  <2>3. AccountInv'
    BY <2>1, <2>2 DEF AccountInv, Holds
  <2>4. UNCHANGED <<seen, settled>>
    BY <2>1, <2>2 DEF seen, settled
  <2> QED BY <2>1, <2>2, <2>3, <2>4 DEF Atomic!ledger
<1>4. CASE Reset(t, "clear_consumed", "consumed", "clear_settlements")
  <2>1. /\ LockInv' /\ SnapInv' /\ TypeOK' /\ owner = t /\ owner # NoThread
        /\ UNCHANGED <<op, owner, settlements>>
        /\ pc[t] = "clear_consumed" /\ pc'[t] = "clear_settlements"
        /\ dict'["consumed"] = Empty /\ dict'["balances"] = dict["balances"]
        /\ dict'["purchased"] = dict["purchased"] /\ Holds(Clears)'
    BY <1>1, <1>4 DEF Clearings, Clears, Dicts
  <2>2. Holds(Clears) /\ Holds({"clear_consumed", "clear_settlements"})
    BY <2>1 DEF Holds, Clears
  <2>3. AccountInv'
    BY <2>1, <2>2 DEF AccountInv, Holds
  <2>4. UNCHANGED <<seen, settled>>
    BY <2>1, <2>2 DEF seen, settled
  <2> QED BY <2>1, <2>2, <2>3, <2>4 DEF Atomic!ledger
<1>5. CASE /\ At(t, "clear_settlements") /\ Goto(t, "unlock")
           /\ settlements' = {} /\ UNCHANGED <<snap, dict>>
  <2>1. /\ LockInv' /\ SnapInv' /\ owner = t /\ owner # NoThread
        /\ UNCHANGED <<op, owner, depth, ops>>
        /\ pc[t] = "clear_settlements" /\ pc'[t] = "unlock" /\ pc' \in [Threads -> Labels]
    BY <1>5, ClearFrame DEF Clearings, Clears
  <2>2. Holds(Clears) /\ Holds({"clear_consumed", "clear_settlements"}) /\ Holds({"clear_settlements"})
    BY <2>1 DEF Holds, Clears
  <2>3. dict'["balances"] = Empty /\ dict'["purchased"] = Empty /\ dict'["consumed"] = Empty
    BY <1>5, <2>2 DEF AccountInv
  <2>4. ~Holds(Clears)' /\ \A w \in Wallets : Done(w)' = 0
    BY <2>1 DEF Holds, Done, Clears
  <2>5. /\ ~Holds({"debit"})' /\ ~Holds({"return", "uncount"})'
        /\ ~Holds({"settle"})' /\ ~Holds({"credit", "purchase"})'
        /\ ~Holds({"clear_consumed", "clear_settlements"})' /\ ~Holds({"clear_settlements"})'
    BY <2>1 DEF Holds
  <2>6. AccountInv'
    BY <1>a, <2>3, <2>4, <2>5 DEF AccountInv
  <2>7. TypeOK'
    BY <1>5, <2>1 DEF TypeOK
  <2>8. seen = Empty /\ settled = {}
    <3>1. \A w \in Wallets : (IF Holds(Clears) THEN 0 ELSE dict["balances"][w] - Done(w)) = 0
      BY <2>2
    <3>2. seen = Empty
      BY <3>1 DEF seen, Empty
    <3>3. ~Holds({"settle"}) /\ ~Holds({"credit", "purchase"})
      BY <2>1 DEF Holds
    <3>4. settled = {}
      BY <2>2, <3>3 DEF settled
    <3> QED BY <3>2, <3>4
  <2>9. seen' = Empty /\ settled' = {}
    <3>1. settled' = {}
      BY <1>5, <2>4, <2>5 DEF settled
    <3>2. \A w \in Wallets : dict'["balances"][w] - Done(w)' = 0
      BY <1>a, <2>3, <2>4
    <3>3. seen' = Empty
      BY <2>4, <3>2 DEF seen, Empty
    <3> QED BY <3>1, <3>3
  <2> QED BY <2>1, <2>2, <2>3, <2>4, <2>6, <2>7, <2>8, <2>9 DEF Atomic!ledger
<1> QED BY <1>2, <1>3, <1>4, <1>5 DEF Clear

-----------------------------------------------------------------------------
(* Every step.                                                             *)

LEMMA InitHolds == Init => LedgerInv /\ Atomic!Init
<1> SUFFICES ASSUME Init PROVE LedgerInv /\ Atomic!Init
  OBVIOUS
<1>1. owner = NoThread /\ depth = 0 /\ settlements = {} /\ ops = 0
      /\ pc = [t \in Threads |-> "idle"] /\ op \in [Threads -> Others]
      /\ dict = [d \in Dicts |-> Empty] /\ snap = [t \in Threads |-> [d \in Dicts |-> 0]]
  BY DEF Init
<1>2. Empty \in [Wallets -> Nat] /\ \A w \in Wallets : Empty[w] = 0
  BY DEF Empty
<1>3. TypeOK
  BY <1>1, <1>2 DEF TypeOK, Labels, Outside
<1>4. LockInv
  BY <1>1 DEF LockInv, Outside, Holds
<1>5. AccountInv
  <2>1. \A w \in Wallets : Done(w) = 0
    BY <1>1 DEF Done, Holds
  <2> QED BY <1>1, <1>2, <2>1 DEF AccountInv, Holds, Dicts
<1>6. SnapInv
  <2> SUFFICES ASSUME NEW t \in Threads
               PROVE  /\ pc[t] \notin Fetching
                      /\ snap[t]["balances"] + snap[t]["consumed"] = snap[t]["purchased"]
    BY DEF SnapInv, Fetching
  <2>1. pc[t] = "idle" /\ snap[t] = [d \in Dicts |-> 0]
    BY <1>1
  <2> QED BY <2>1 DEF Dicts, Fetching
<1>7. Atomic!Init
  <2>1. \A w \in Wallets : dict["balances"][w] - Done(w) = 0
    BY <1>1, <1>2 DEF Done, Holds, Dicts
  <2>2. seen = Empty
    BY <1>1, <2>1 DEF seen, Empty, Holds
  <2> QED BY <1>1, <2>2 DEF Atomic!Init, Atomic!Empty, Empty, Holds, settled, Dicts
<1> QED BY <1>3, <1>4, <1>5, <1>6, <1>7 DEF LedgerInv

LEMMA StepHolds ==
  LedgerInv /\ [Next]_vars => LedgerInv' /\ [Atomic!Next]_(Atomic!ledger)
<1> SUFFICES ASSUME LedgerInv, [Next]_vars
             PROVE  LedgerInv' /\ [Atomic!Next]_(Atomic!ledger)
  OBVIOUS
<1>1. ASSUME UNCHANGED <<seen, settled, dict>>, Holds(Clears)' <=> Holds(Clears)
      PROVE  UNCHANGED Atomic!ledger
  BY <1>1 DEF Atomic!ledger
<1>2. CASE UNCHANGED vars
  <2>1. UNCHANGED <<pc, op, snap, owner, depth, dict, settlements, ops>>
    BY <1>2 DEF vars, store
  <2>2. LedgerInv'
    BY <2>1 DEF LedgerInv, TypeOK, LockInv, AccountInv, SnapInv, Holds, Done
  <2>3. UNCHANGED <<seen, settled, dict>> /\ (Holds(Clears)' <=> Holds(Clears))
    BY <2>1 DEF seen, settled, Holds, Done
  <2> QED BY <1>1, <2>2, <2>3
<1>3. CASE Next
  <2>1. PICK t \in Threads : Call(t) \/ Lock(t) \/ Inside(t)
    BY <1>3 DEF Next
  <2>2. CASE Call(t)
    BY <1>1, <2>2, CallKeepsInv DEF store
  <2>3. CASE Lock(t)
    BY <1>1, <2>3, LockKeepsInv DEF store
  <2>4. CASE Relock(t)
    BY <1>1, <2>4, RelockKeepsInv DEF store
  <2>5. CASE Unlock(t)
    BY <1>1, <2>5, UnlockKeepsInv DEF store
  <2>6. CASE Snapshot(t)
    BY <1>1, <2>6, SnapshotKeepsInv DEF store
  <2>7. CASE Clear(t)
    BY <2>7, ClearKeepsInv
  <2>8. CASE At(t, "settle") /\ Goto(t, "credit") /\ UNCHANGED <<snap, dict>>
             /\ settlements' = settlements \cup {op[t].payment}
    BY <1>1, <2>8, SettleKeepsInv
  <2>9. CASE \/ Test(t, "grant", op[t].payment \in settlements, "relock", "settle")
             \/ Test(t, "consume", dict["balances"][op[t].wallet] < 1, "unlock", "debit")
             \/ Test(t, "refund", dict["consumed"][op[t].wallet] > 0, "return", "relock")
    BY <1>1, <2>9, TestKeepsInv DEF store
  <2>10. CASE \E a \in Adds : Add(t, a.label, a.dict, By(a, op[t]), a.next)
    BY <2>10, AddKeepsInv, AddIsAtomic
  <2>11. CASE \/ Add(t, "credit", "balances", op[t].credits, "purchase")
              \/ Add(t, "purchase", "purchased", op[t].credits, "relock")
    BY <2>10, <2>11 DEF Adds, By
  <2>12. CASE \/ Add(t, "debit", "balances", -1, "count") \/ Add(t, "count", "consumed", 1, "relock")
    BY <2>10, <2>12 DEF Adds, By
  <2>13. CASE \/ Add(t, "return", "balances", 1, "uncount")
              \/ Add(t, "uncount", "consumed", -1, "relock")
    BY <2>10, <2>13 DEF Adds, By
  <2> QED BY <2>1, <2>2, <2>3, <2>4, <2>5, <2>6, <2>7, <2>8, <2>9, <2>11, <2>12, <2>13
          DEF Inside, Grant, Settle, Consume, Refund
<1> QED BY <1>2, <1>3

-----------------------------------------------------------------------------
(* Theorems.                                                               *)

\* The inductive invariant, and with it the types: no balance of a wallet and
\* no count is ever negative.
THEOREM LedgerIsInductive == Spec => []LedgerInv
<1>1. Init => LedgerInv
  BY InitHolds
<1>2. LedgerInv /\ [Next]_vars => LedgerInv'
  BY StepHolds
<1> QED BY <1>1, <1>2, PTL DEF Spec

\* Every variable keeps its type: no balance, count or lock depth of
\* CreditLedger is ever negative.
THEOREM LedgerTypes == Spec => []TypeOK
<1>1. LedgerInv => TypeOK
  BY DEF LedgerInv
<1> QED BY <1>1, LedgerIsInductive, PTL

\* grant_settled, consume, refund and clear keep the account of every wallet,
\* in any order and from any number of threads.
THEOREM Conservation == Spec => []CreditsConserved
<1>1. LedgerInv => CreditsConserved
  <2> SUFFICES ASSUME LedgerInv, owner = NoThread, NEW w \in Wallets
               PROVE  dict["balances"][w] + dict["consumed"][w] = dict["purchased"][w]
    BY DEF CreditsConserved
  <2>1. ~Holds(Clears) /\ Done(w) = 0
    BY DEF Holds, Done
  <2>2. dict["balances"][w] - Done(w) + dict["consumed"][w] = dict["purchased"][w]
    BY <2>1 DEF LedgerInv, AccountInv
  <2>3. dict["balances"][w] \in Nat
    BY DEF LedgerInv, TypeOK, Dicts
  <2> QED BY <2>1, <2>2, <2>3
<1> QED BY <1>1, LedgerIsInductive, PTL

\* What a call returns is the account of its wallet at one moment.
THEOREM SnapshotsTrue == Spec => []SnapshotsConsistent
<1>1. LedgerInv => SnapshotsConsistent
  BY DEF LedgerInv, SnapInv, SnapshotsConsistent, Fetching
<1> QED BY <1>1, LedgerIsInductive, PTL

\* Two threads are never inside a critical section at once.
THEOREM MutualExclusion ==
  Spec => [](\A t, u \in Threads : pc[t] \notin Outside /\ pc[u] \notin Outside => t = u)
<1>1. LedgerInv => \A t, u \in Threads : pc[t] \notin Outside /\ pc[u] \notin Outside => t = u
  BY DEF LedgerInv, LockInv
<1> QED BY <1>1, LedgerIsInductive, PTL

\* The ledger implements the atomic one: a payment is granted once, a refund
\* gives back what was consumed, a credit is never spent twice.
THEOREM LedgerIsAtomic == Spec => KeepsAtomicLedger
<1>1. Init => Atomic!Init
  BY InitHolds
<1>2. LedgerInv /\ [Next]_vars => [Atomic!Next]_(Atomic!ledger)
  BY StepHolds
<1> QED BY <1>1, <1>2, LedgerIsInductive, PTL DEF Spec, KeepsAtomicLedger, Atomic!Spec

-----------------------------------------------------------------------------
(* How long a call can hold the lock.                                      *)

\* The statements from a label to the end of the call, when the lock has been
\* taken d times.
StatementsFrom(label, d) ==
  CASE label = "idle" -> 0
    [] label = "lock" -> 11
    [] label = "grant" -> 10
    [] label \in {"settle", "consume", "refund"} -> 9
    [] label \in {"credit", "debit", "return"} -> 8
    [] label \in {"purchase", "count", "uncount"} -> 7
    [] label \in {"clear", "relock"} -> 6
    [] label \in {"clear_purchased", "balances"} -> 5
    [] label \in {"clear_consumed", "purchased"} -> 4
    [] label \in {"clear_settlements", "consumed"} -> 3
    [] label = "unlock" -> d

StatementsLeft(t) == StatementsFrom(pc[t], depth)

\* Where a step of a thread leads.
LEMMA OwnProgress ==
  ASSUME LedgerInv, NEW t \in Threads, Lock(t) \/ Inside(t)
  PROVE  \/ pc[t] = "lock" /\ pc'[t] \in {"grant", "consume", "refund", "clear", "balances"}
         \/ pc[t] = "grant" /\ pc'[t] \in {"settle", "relock"}
         \/ pc[t] = "settle" /\ pc'[t] = "credit"
         \/ pc[t] = "credit" /\ pc'[t] = "purchase"
         \/ pc[t] = "consume" /\ pc'[t] \in {"debit", "unlock"} /\ depth' = depth
         \/ pc[t] = "debit" /\ pc'[t] = "count"
         \/ pc[t] = "refund" /\ pc'[t] \in {"return", "relock"}
         \/ pc[t] = "return" /\ pc'[t] = "uncount"
         \/ pc[t] \in {"purchase", "count", "uncount"} /\ pc'[t] = "relock"
         \/ pc[t] = "relock" /\ pc'[t] = "balances"
         \/ pc[t] = "balances" /\ pc'[t] = "purchased"
         \/ pc[t] = "purchased" /\ pc'[t] = "consumed"
         \/ pc[t] = "consumed" /\ pc'[t] = "unlock" /\ depth' = depth
         \/ pc[t] = "clear" /\ pc'[t] = "clear_purchased"
         \/ pc[t] = "clear_purchased" /\ pc'[t] = "clear_consumed"
         \/ pc[t] = "clear_consumed" /\ pc'[t] = "clear_settlements"
         \/ pc[t] = "clear_settlements" /\ pc'[t] = "unlock" /\ depth' = depth
         \/ pc[t] = "unlock" /\ depth = 1 /\ pc'[t] = "idle"
         \/ pc[t] = "unlock" /\ depth = 2 /\ pc'[t] = "unlock" /\ depth' = 1
<1>1. pc \in [Threads -> Labels] /\ op[t].kind \in {"grant", "snapshot", "consume", "refund", "clear"}
  BY DEF LedgerInv, TypeOK, Grants, Others
<1>2. CASE Lock(t)
  BY <1>1, <1>2 DEF Lock, Acquire, Goto
<1>3. CASE Grant(t)
  BY <1>1, <1>3 DEF Grant, Settle, Test, Add, At, Goto
<1>4. CASE Consume(t) \/ Refund(t)
  BY <1>1, <1>4 DEF Consume, Refund, Test, Add, At, Goto
<1>5. CASE Clear(t)
  BY <1>1, <1>5 DEF Clear, Reset, At, Goto
<1>6. CASE Relock(t) \/ Snapshot(t)
  BY <1>1, <1>6 DEF Relock, Acquire, Snapshot, Read, At, Goto
<1>7. CASE Unlock(t)
  <2>1. depth \in 1..2 /\ pc[t] = "unlock"
    BY <1>7, OwnerRuns DEF Unlock, Outside
  <2> QED BY <1>1, <1>7, <2>1 DEF Unlock, Goto
<1> QED BY <1>2, <1>3, <1>4, <1>5, <1>6, <1>7 DEF Inside

LEMMA OwnStepDescends ==
  ASSUME LedgerInv, NEW t \in Threads, Lock(t) \/ Inside(t)
  PROVE  StatementsLeft(t)' < StatementsLeft(t)
<1>1. depth \in 0..2
  BY DEF LedgerInv, TypeOK
<1> QED BY <1>1, OwnProgress DEF StatementsLeft, StatementsFrom

\* A step of another thread, which does not hold the lock t is inside of.
LEMMA OtherStepWaits ==
  ASSUME LedgerInv, NEW t \in Threads, NEW u \in Threads, u # t,
         Call(u) \/ Lock(u) \/ Inside(u)
  PROVE  StatementsLeft(t)' = StatementsLeft(t)
<1>1. pc'[t] = pc[t]
  <2>1. pc \in [Threads -> Labels]
    BY DEF LedgerInv, TypeOK
  <2>2. CASE Call(u)
    BY <2>1, <2>2 DEF Call, Goto
  <2>3. CASE Lock(u)
    BY <2>1, <2>3 DEF Lock, Acquire, Goto
  <2>4. CASE Inside(u)
    BY <2>1, <2>4 DEF Inside, Grant, Settle, Consume, Refund, Clear, Relock, Acquire, Snapshot,
                      Unlock, Test, Add, Reset, Read, At, Goto
  <2> QED BY <2>2, <2>3, <2>4
<1>2. CASE pc[t] = "unlock"
  <2>1. owner = t
    BY <1>2, OwnerRuns DEF Outside
  <2>2. pc[u] \in Outside /\ pc[u] # "unlock"
    BY <2>1 DEF LedgerInv, LockInv, Outside
  <2>3. ~Lock(u)
    BY <2>1 DEF Lock, Acquire
  <2>4. ~Inside(u)
    BY <2>2 DEF Outside, Inside, Grant, Settle, Consume, Refund, Clear, Relock, Snapshot,
                Unlock, Test, Add, Reset, Read, At
  <2>5. depth' = depth
    BY <2>3, <2>4 DEF Call
  <2> QED BY <1>1, <2>5 DEF StatementsLeft
<1>3. CASE pc[t] # "unlock"
  <2>1. \A d, e : StatementsFrom(pc[t], d) = StatementsFrom(pc[t], e)
    BY <1>3 DEF StatementsFrom
  <2> QED BY <1>1, <2>1 DEF StatementsLeft
<1> QED BY <1>2, <1>3

\* Whichever way a call goes, it holds the lock for ten statements at most:
\* each of its steps uses one up and no other thread gives one back.
THEOREM CallIsBounded ==
  Spec => [][\A t \in Threads :
               /\ StatementsLeft(t) \in 0..11
               /\ Lock(t) \/ Inside(t) => StatementsLeft(t)' < StatementsLeft(t)
               /\ \A u \in Threads \ {t} :
                    Call(u) \/ Lock(u) \/ Inside(u) => StatementsLeft(t)' = StatementsLeft(t)]_vars
<1>1. ASSUME LedgerInv, NEW t \in Threads
      PROVE  StatementsLeft(t) \in 0..11
  <2>1. pc[t] \in Labels /\ depth \in 0..2
    BY <1>1 DEF LedgerInv, TypeOK
  <2> QED BY <2>1 DEF Labels, Outside, Clears, Dicts, StatementsLeft, StatementsFrom
<1>2. LedgerInv /\ [Next]_vars =>
        [\A t \in Threads :
           /\ StatementsLeft(t) \in 0..11
           /\ Lock(t) \/ Inside(t) => StatementsLeft(t)' < StatementsLeft(t)
           /\ \A u \in Threads \ {t} :
                Call(u) \/ Lock(u) \/ Inside(u) => StatementsLeft(t)' = StatementsLeft(t)]_vars
  BY <1>1, OwnStepDescends, OtherStepWaits
<1> QED BY <1>2, LedgerIsInductive, PTL DEF Spec
=============================================================================
