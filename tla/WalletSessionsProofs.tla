------------------------- MODULE WalletSessionsProofs -------------------------
(***************************************************************************)
(* Theorems about WalletSessions, for any threads, wallets, lifetimes and  *)
(* bounds.  StoreInv relates the store to what was issued, taken and       *)
(* opened so far; ThreadInv says what a verification holds between its two *)
(* critical sections; AnswerInv what an answer rests on.                   *)
(***************************************************************************)
EXTENDS WalletSessions, TLAPS

USE SessionAssumption

StoreInv ==
  /\ \A c, d \in issued : c.nonce = d.nonce => c = d
  /\ \A c \in challenges : c.nonce \notin taken
  /\ \A s \in opened : \E c \in issued : c.nonce = s.nonce /\ c.address = s.address
  /\ \A s \in opened : s.nonce \in taken
  /\ \A n \in taken : \E c \in issued : c.nonce = n

ThreadInv ==
  /\ \A t \in Threads : now[t] <= clock
  /\ \A t \in Threads : pc[t] \in {"create", "verify", "resolve"} => call[t].kind = pc[t]
  /\ \A t \in Threads : pc[t] = "open" =>
       /\ call[t].kind = "verify" /\ record[t] \in issued
       /\ record[t].nonce = call[t].nonce /\ Matches(t, record[t])
       /\ record[t].expires > now[t] /\ record[t].nonce \in taken
       /\ \A s \in opened : s.nonce # record[t].nonce
  /\ \A t, u \in Threads : pc[t] = "open" /\ pc[u] = "open" /\ t # u =>
       record[t].nonce # record[u].nonce
  /\ \A t \in Threads : pc[t] # "idle" => answer[t] = "pending"

AnswerInv == SessionsBelongToSigners /\ NothingExpiredAccepted

WInv ==
  TypeOK /\ StoreInv /\ ThreadInv /\ AnswerInv /\ ChallengeSingleUse /\ NothingUnexpiredLost

-----------------------------------------------------------------------------
(* The purge.                                                              *)

\* A purge only drops what has expired by the clock, since no call knows a
\* later time.
LEMMA PurgeDropsExpired ==
  ASSUME WInv, NEW t \in Threads
  PROVE  /\ \A s \in sessions : s \in Live(sessions, t) \/ s.expires <= clock
         /\ \A c \in challenges : c \in Live(challenges, t) \/ c.expires <= clock
<1>1. now[t] \in Nat /\ clock \in Nat /\ now[t] <= clock
  BY DEF WInv, TypeOK, ThreadInv
<1>2. ASSUME NEW x, x.expires \in Nat, ~(x.expires > now[t])
      PROVE  x.expires <= clock
  BY <1>1, <1>2
<1>3. \A s \in sessions : s.expires \in Nat
  BY DEF WInv, TypeOK, Session
<1>4. \A c \in challenges : c.expires \in Nat
  BY DEF WInv, TypeOK, Challenge
<1> QED BY <1>2, <1>3, <1>4 DEF Live

\* What a call that has not ended leaves of the answers of the others, and of
\* its own.
LEMMA AnswersStay ==
  ASSUME WInv, NEW t \in Threads, pc[t] # "idle", UNCHANGED <<call, now>>,
         issued \subseteq issued', opened \subseteq opened',
         \A u \in Threads : u # t => answer'[u] = answer[u],
         answer'[t] # "ok"
  PROVE  AnswerInv'
BY DEF WInv, AnswerInv, SessionsBelongToSigners, NothingExpiredAccepted

-----------------------------------------------------------------------------
(* One step per action.                                                    *)

LEMMA InitWInv == Init => WInv
<1> SUFFICES ASSUME Init PROVE WInv
  OBVIOUS
<1>1. TypeOK
  BY DEF Init, TypeOK, Calls
<1>2. StoreInv /\ ThreadInv /\ ChallengeSingleUse /\ NothingUnexpiredLost
  BY DEF Init, StoreInv, ThreadInv, ChallengeSingleUse, NothingUnexpiredLost
<1>3. AnswerInv
  BY DEF Init, AnswerInv, SessionsBelongToSigners, NothingExpiredAccepted
<1> QED BY <1>1, <1>2, <1>3 DEF WInv

LEMMA TickStep ==
  ASSUME WInv, Tick
  PROVE  WInv'
<1>1. /\ clock \in 0..MaxTime /\ clock < MaxTime /\ clock' = clock + 1
      /\ UNCHANGED <<pc, call, now, record, answer, challenges, sessions, issued, taken, opened, calls>>
  BY DEF WInv, TypeOK, Tick, store
<1>2. TypeOK' /\ StoreInv' /\ ChallengeSingleUse' /\ AnswerInv'
  BY <1>1 DEF WInv, TypeOK, StoreInv, ChallengeSingleUse, AnswerInv, SessionsBelongToSigners,
    NothingExpiredAccepted
<1>3. ThreadInv'
  <2>1. \A t \in Threads : now'[t] <= clock'
    BY <1>1 DEF WInv, TypeOK, ThreadInv
  <2> QED BY <1>1, <2>1 DEF WInv, ThreadInv, Matches
<1>4. NothingUnexpiredLost'
  <2>1. \A s \in opened : s.expires \in Nat
    BY DEF WInv, TypeOK, Session
  <2>2. \A c \in issued : c.expires \in Nat
    BY DEF WInv, TypeOK, Challenge
  <2> QED BY <1>1, <2>1, <2>2 DEF WInv, NothingUnexpiredLost
<1> QED BY <1>2, <1>3, <1>4 DEF WInv

LEMMA CallStep ==
  ASSUME WInv, NEW t \in Threads, Call(t)
  PROVE  WInv'
<1>1. /\ pc[t] = "idle" /\ calls < MaxCalls /\ calls' = calls + 1
      /\ now' = [now EXCEPT ![t] = clock] /\ answer' = [answer EXCEPT ![t] = "pending"]
      /\ UNCHANGED <<clock, record, challenges, sessions, issued, taken, opened>>
  BY DEF Call, store
<1>2. PICK c \in Calls : call' = [call EXCEPT ![t] = c] /\ pc' = [pc EXCEPT ![t] = c.kind]
  BY DEF Call
<1>3. c.kind \in {"create", "verify", "resolve"}
  BY DEF Calls
<1>4. TypeOK'
  BY <1>1, <1>2, <1>3 DEF WInv, TypeOK
<1>5. /\ pc'[t] = c.kind /\ call'[t] = c /\ now'[t] = clock /\ answer'[t] = "pending"
      /\ \A u \in Threads : u # t =>
           pc'[u] = pc[u] /\ call'[u] = call[u] /\ now'[u] = now[u] /\ answer'[u] = answer[u]
  BY <1>1, <1>2 DEF WInv, TypeOK
<1>6. StoreInv' /\ ChallengeSingleUse' /\ NothingUnexpiredLost'
  BY <1>1 DEF WInv, StoreInv, ChallengeSingleUse, NothingUnexpiredLost
<1>7. ThreadInv'
  <2>1. clock \in Nat
    BY DEF WInv, TypeOK
  <2> QED BY <1>1, <1>3, <1>5, <2>1 DEF WInv, ThreadInv, Matches
<1>8. AnswerInv'
  BY <1>1, <1>5 DEF WInv, AnswerInv, SessionsBelongToSigners, NothingExpiredAccepted
<1> QED BY <1>4, <1>6, <1>7, <1>8 DEF WInv

LEMMA CreateStep ==
  ASSUME WInv, NEW t \in Threads, CreateChallenge(t)
  PROVE  WInv'
<1>1. /\ pc[t] = "create" /\ pc' = [pc EXCEPT ![t] = "idle"]
      /\ answer' = [answer EXCEPT ![t] = "ok"] /\ sessions' = Live(sessions, t)
      /\ UNCHANGED <<clock, call, now, calls, record, taken, opened>>
  BY DEF CreateChallenge, Return
<1>2. PICK n \in Nonces \ {d.nonce : d \in issued} :
        \E c : /\ c = [nonce |-> n, address |-> call[t].wallet, expires |-> now[t] + ChallengeTTL]
               /\ challenges' = Live(challenges, t) \cup {c} /\ issued' = issued \cup {c}
  BY DEF CreateChallenge
<1> DEFINE c == [nonce |-> n, address |-> call[t].wallet, expires |-> now[t] + ChallengeTTL]
<1>3. challenges' = Live(challenges, t) \cup {c} /\ issued' = issued \cup {c}
  BY <1>2
<1>4. call[t].kind = "create" /\ call[t] \in Calls
  BY <1>1 DEF WInv, ThreadInv, TypeOK
<1>5. c \in Challenge /\ c.nonce = n
  <2>1. call[t].wallet \in Wallets
    BY <1>4 DEF Calls
  <2>2. now[t] + ChallengeTTL \in Nat
    BY DEF WInv, TypeOK
  <2> QED BY <2>1, <2>2 DEF Challenge
<1>6. \A d \in issued : d.nonce # n
  BY <1>2
<1>7. n \notin taken
  <2> SUFFICES ASSUME n \in taken PROVE FALSE
    OBVIOUS
  <2>1. PICK d \in issued : d.nonce = n
    BY DEF WInv, StoreInv
  <2> QED BY <1>6, <2>1
<1> HIDE DEF c
<1>8. Live(challenges, t) \subseteq challenges /\ Live(sessions, t) \subseteq sessions
  BY DEF Live
<1>9. TypeOK'
  BY <1>1, <1>3, <1>5, <1>8 DEF WInv, TypeOK
<1>10. StoreInv'
  BY <1>1, <1>3, <1>5, <1>6, <1>7, <1>8 DEF WInv, StoreInv
<1>11. /\ pc'[t] = "idle" /\ answer'[t] = "ok"
       /\ \A u \in Threads : u # t => pc'[u] = pc[u] /\ answer'[u] = answer[u]
  BY <1>1 DEF WInv, TypeOK
<1>12. ThreadInv'
  BY <1>1, <1>3, <1>11 DEF WInv, ThreadInv, Matches
<1>13. AnswerInv'
  BY <1>1, <1>3, <1>4, <1>11 DEF WInv, AnswerInv, SessionsBelongToSigners, NothingExpiredAccepted
<1>14. NothingUnexpiredLost'
  BY <1>1, <1>3, PurgeDropsExpired DEF WInv, NothingUnexpiredLost
<1>15. ChallengeSingleUse'
  BY <1>1 DEF WInv, ChallengeSingleUse
<1> QED BY <1>9, <1>10, <1>12, <1>13, <1>14, <1>15 DEF WInv

\* The challenge leaves the store for good, into one thread's hands at most.
LEMMA TakeStep ==
  ASSUME WInv, NEW t \in Threads, TakeChallenge(t)
  PROVE  WInv'
<1>1. /\ pc[t] = "verify" /\ sessions' = Live(sessions, t)
      /\ challenges' = Live(challenges, t) \ Taken(t)
      /\ taken' = taken \cup {c.nonce : c \in Taken(t)}
      /\ UNCHANGED <<clock, call, now, calls, issued, opened>>
  BY DEF TakeChallenge, PopTaken, Return
<1>2. /\ Taken(t) \subseteq challenges /\ \A c \in Taken(t) : c.nonce = call[t].nonce
      /\ \A c \in Live(challenges, t) : c \in Taken(t) <=> c.nonce = call[t].nonce
      /\ \A c \in Taken(t) : c.expires > now[t]
      /\ Live(challenges, t) \subseteq challenges /\ Live(sessions, t) \subseteq sessions
  BY DEF Taken, Live
<1>3. Taken(t) \subseteq issued /\ Taken(t) \subseteq Challenge
  BY <1>2 DEF WInv, TypeOK
<1>4. call[t].kind = "verify" /\ answer[t] = "pending"
  BY <1>1 DEF WInv, ThreadInv
<1>5. \A u \in Threads : pc[u] = "open" => \A c \in Taken(t) : c.nonce # record[u].nonce
  BY <1>2 DEF WInv, ThreadInv, StoreInv
<1>6. \A r \in opened : \A c \in Taken(t) : c.nonce # r.nonce
  BY <1>2 DEF WInv, StoreInv
<1>7. StoreInv'
  <2>1. \A c \in challenges' : c.nonce \notin taken'
    BY <1>1, <1>2 DEF WInv, StoreInv
  <2>2. \A n \in taken' : \E c \in issued : c.nonce = n
    BY <1>1, <1>3 DEF WInv, StoreInv
  <2> QED BY <1>1, <2>1, <2>2 DEF WInv, StoreInv
<1>8. NothingUnexpiredLost'
  <2>1. \A r \in opened : r \in sessions' \/ r.expires <= clock
    BY <1>1, PurgeDropsExpired DEF WInv, NothingUnexpiredLost
  <2>2. \A c \in issued : c \in challenges' \/ c.nonce \in taken' \/ c.expires <= clock
    BY <1>1, PurgeDropsExpired DEF WInv, NothingUnexpiredLost
  <2> QED BY <1>1, <2>1, <2>2 DEF NothingUnexpiredLost
<1>9. ChallengeSingleUse'
  BY <1>1 DEF WInv, ChallengeSingleUse
<1>10. challenges' \subseteq issued /\ sessions' \subseteq opened /\ taken' \subseteq Nonces
  BY <1>1, <1>2, <1>3 DEF WInv, TypeOK, Challenge
<1>11. CASE \E c \in Taken(t) :
              /\ Matches(t, c) /\ record' = [record EXCEPT ![t] = c]
              /\ pc' = [pc EXCEPT ![t] = "open"] /\ UNCHANGED answer
  <2>1. PICK c \in Taken(t) :
          /\ Matches(t, c) /\ record' = [record EXCEPT ![t] = c]
          /\ pc' = [pc EXCEPT ![t] = "open"] /\ UNCHANGED answer
    BY <1>11
  <2>2. /\ record'[t] = c /\ pc'[t] = "open"
        /\ \A u \in Threads : u # t => record'[u] = record[u] /\ pc'[u] = pc[u]
    BY <2>1 DEF WInv, TypeOK
  <2>3. TypeOK'
    BY <1>1, <1>3, <1>10, <2>1, <2>2 DEF WInv, TypeOK
  <2>4. ThreadInv'
    <3>1. ASSUME NEW u \in Threads, pc'[u] = "open"
          PROVE  /\ call'[u].kind = "verify" /\ record'[u] \in issued'
                 /\ record'[u].nonce = call'[u].nonce /\ Matches(u, record[u])'
                 /\ record'[u].expires > now'[u] /\ record'[u].nonce \in taken'
                 /\ \A r \in opened' : r.nonce # record'[u].nonce
      <4>1. CASE u = t
        BY <1>1, <1>2, <1>3, <1>4, <1>6, <2>1, <2>2, <4>1 DEF Matches
      <4>2. CASE u # t
        BY <1>1, <2>2, <3>1, <4>2 DEF WInv, ThreadInv, Matches
      <4> QED BY <4>1, <4>2
    <3>2. \A u, q \in Threads : pc'[u] = "open" /\ pc'[q] = "open" /\ u # q =>
            record'[u].nonce # record'[q].nonce
      BY <1>5, <2>1, <2>2 DEF WInv, ThreadInv
    <3>3. \A u \in Threads : pc'[u] \in {"create", "verify", "resolve"} => call'[u].kind = pc'[u]
      BY <1>1, <2>2 DEF WInv, ThreadInv
    <3>4. \A u \in Threads : pc'[u] # "idle" => answer'[u] = "pending"
      BY <1>4, <2>1, <2>2 DEF WInv, ThreadInv
    <3>5. \A u \in Threads : now'[u] <= clock'
      BY <1>1 DEF WInv, ThreadInv
    <3> QED BY <3>1, <3>2, <3>3, <3>4, <3>5 DEF ThreadInv
  <2>5. AnswerInv'
    BY <1>1, <1>4, <2>1, AnswersStay
  <2> QED BY <1>7, <1>8, <1>9, <2>3, <2>4, <2>5 DEF WInv
<1>12. CASE /\ pc' = [pc EXCEPT ![t] = "idle"] /\ answer' = [answer EXCEPT ![t] = "refused"]
            /\ UNCHANGED record
  <2>1. /\ pc'[t] = "idle" /\ answer'[t] = "refused"
        /\ \A u \in Threads : u # t => answer'[u] = answer[u] /\ pc'[u] = pc[u]
    BY <1>12 DEF WInv, TypeOK
  <2>2. TypeOK'
    BY <1>1, <1>10, <1>12, <2>1 DEF WInv, TypeOK
  <2>3. ThreadInv'
    BY <1>1, <1>12, <2>1 DEF WInv, ThreadInv, Matches
  <2>4. AnswerInv'
    BY <1>1, <2>1, AnswersStay
  <2> QED BY <1>7, <1>8, <1>9, <2>2, <2>3, <2>4 DEF WInv
<1> QED BY <1>11, <1>12 DEF TakeChallenge, Return

LEMMA OpenStep ==
  ASSUME WInv, NEW t \in Threads, OpenSession(t)
  PROVE  WInv'
<1>1. /\ pc[t] = "open" /\ pc' = [pc EXCEPT ![t] = "idle"]
      /\ answer' = [answer EXCEPT ![t] = "ok"]
      /\ UNCHANGED <<clock, call, now, calls, record, challenges, issued, taken>>
  BY DEF OpenSession, Return
<1>2. PICK k \in Tokens \ {r.token : r \in opened} :
        \E s : /\ s = [token |-> k, nonce |-> record[t].nonce, address |-> record[t].address,
                       expires |-> now[t] + SessionTTL]
               /\ sessions' = sessions \cup {s} /\ opened' = opened \cup {s}
  BY DEF OpenSession
<1> DEFINE s == [token |-> k, nonce |-> record[t].nonce, address |-> record[t].address,
                 expires |-> now[t] + SessionTTL]
<1>3. sessions' = sessions \cup {s} /\ opened' = opened \cup {s}
  BY <1>2
<1>4. /\ call[t].kind = "verify" /\ record[t] \in issued
      /\ record[t].nonce = call[t].nonce /\ Matches(t, record[t])
      /\ record[t].expires > now[t] /\ record[t].nonce \in taken
      /\ \A r \in opened : r.nonce # record[t].nonce
      /\ \A u \in Threads : pc[u] = "open" /\ u # t => record[u].nonce # record[t].nonce
  BY <1>1 DEF WInv, ThreadInv
<1>5. s \in Session
  <2>1. record[t] \in Challenge
    BY <1>1 DEF WInv, TypeOK
  <2>2. now[t] + SessionTTL \in Nat
    BY DEF WInv, TypeOK
  <2> QED BY <2>1, <2>2 DEF Challenge, Session
<1>6. s.nonce = record[t].nonce /\ s.address = record[t].address
  OBVIOUS
<1> HIDE DEF s
<1>7. /\ pc'[t] = "idle" /\ answer'[t] = "ok"
      /\ \A u \in Threads : u # t => answer'[u] = answer[u] /\ pc'[u] = pc[u]
  BY <1>1 DEF WInv, TypeOK
<1>8. TypeOK'
  BY <1>1, <1>3, <1>5 DEF WInv, TypeOK
<1>9. StoreInv'
  BY <1>1, <1>3, <1>4, <1>6 DEF WInv, StoreInv
<1>10. ThreadInv'
  BY <1>1, <1>3, <1>4, <1>6, <1>7 DEF WInv, ThreadInv, Matches
<1>11. SessionsBelongToSigners'
  <2>1. ASSUME NEW u \in Threads, call'[u].kind = "verify", answer'[u] = "ok"
        PROVE  \E c \in issued', r \in opened' :
                 /\ c.nonce = call'[u].nonce /\ c.nonce = call'[u].message /\ c.nonce = r.nonce
                 /\ c.address = call'[u].signer /\ c.address = r.address
    <3>1. CASE u = t
      <4>1. record[t] \in issued' /\ s \in opened'
        BY <1>1, <1>3, <1>4
      <4> QED BY <1>1, <1>4, <1>6, <3>1, <4>1 DEF Matches
    <3>2. CASE u # t
      <4>1. call[u].kind = "verify" /\ answer[u] = "ok"
        BY <1>1, <1>7, <2>1, <3>2
      <4>2. PICK c \in issued, r \in opened :
              /\ c.nonce = call[u].nonce /\ c.nonce = call[u].message /\ c.nonce = r.nonce
              /\ c.address = call[u].signer /\ c.address = r.address
        BY <4>1 DEF WInv, AnswerInv, SessionsBelongToSigners
      <4>3. c \in issued' /\ r \in opened'
        BY <1>1, <1>3
      <4> QED BY <1>1, <4>2, <4>3
    <3> QED BY <3>1, <3>2
  <2> QED BY <2>1 DEF SessionsBelongToSigners
<1>12. NothingExpiredAccepted'
  BY <1>1, <1>3, <1>4, <1>7 DEF WInv, AnswerInv, NothingExpiredAccepted
<1>13. NothingUnexpiredLost'
  BY <1>1, <1>3 DEF WInv, NothingUnexpiredLost
<1>14. ChallengeSingleUse'
  BY <1>3, <1>4, <1>6 DEF WInv, ChallengeSingleUse
<1> QED BY <1>8, <1>9, <1>10, <1>11, <1>12, <1>13, <1>14 DEF WInv, AnswerInv

LEMMA ResolveStep ==
  ASSUME WInv, NEW t \in Threads, Resolve(t)
  PROVE  WInv'
<1> DEFINE a == IF \E s \in sessions' : s.token = call[t].token THEN "ok" ELSE "refused"
<1>1. /\ pc[t] = "resolve" /\ pc' = [pc EXCEPT ![t] = "idle"]
      /\ answer' = [answer EXCEPT ![t] = a]
      /\ challenges' = Live(challenges, t) /\ sessions' = Live(sessions, t)
      /\ UNCHANGED <<clock, call, now, calls, record, issued, taken, opened>>
  BY DEF Resolve, Return
<1>2. a \in {"ok", "refused"} /\ (a = "ok" => \E s \in sessions' : s.token = call[t].token)
  OBVIOUS
<1> HIDE DEF a
<1>3. /\ pc'[t] = "idle" /\ answer'[t] = a
      /\ \A u \in Threads : u # t => answer'[u] = answer[u] /\ pc'[u] = pc[u]
  BY <1>1 DEF WInv, TypeOK
<1>4. call[t].kind = "resolve"
  BY <1>1 DEF WInv, ThreadInv
<1>5. challenges' \subseteq challenges /\ sessions' \subseteq opened
  BY <1>1 DEF Live, WInv, TypeOK
<1>6. TypeOK'
  BY <1>1, <1>2, <1>3, <1>5 DEF WInv, TypeOK
<1>7. StoreInv'
  BY <1>1, <1>5 DEF WInv, StoreInv
<1>8. ThreadInv'
  BY <1>1, <1>3 DEF WInv, ThreadInv, Matches
<1>9. SessionsBelongToSigners'
  BY <1>1, <1>3, <1>4 DEF WInv, AnswerInv, SessionsBelongToSigners
<1>10. NothingExpiredAccepted'
  <2>1. a = "ok" => \E s \in opened : s.token = call[t].token /\ s.expires > now[t]
    BY <1>1, <1>2, <1>5 DEF Live
  <2> QED BY <1>1, <1>3, <1>4, <2>1 DEF WInv, AnswerInv, NothingExpiredAccepted
<1>11. NothingUnexpiredLost'
  BY <1>1, PurgeDropsExpired DEF WInv, NothingUnexpiredLost
<1>12. ChallengeSingleUse'
  BY <1>1 DEF WInv, ChallengeSingleUse
<1> QED BY <1>6, <1>7, <1>8, <1>9, <1>10, <1>11, <1>12 DEF WInv, AnswerInv

LEMMA NextStep == WInv /\ [Next]_vars => WInv'
<1> SUFFICES ASSUME WInv, [Next]_vars PROVE WInv'
  OBVIOUS
<1>1. CASE UNCHANGED vars
  BY <1>1 DEF vars, store, WInv, TypeOK, StoreInv, ThreadInv, AnswerInv, Matches,
    SessionsBelongToSigners, NothingExpiredAccepted, NothingUnexpiredLost, ChallengeSingleUse
<1>2. CASE Tick
  BY <1>2, TickStep
<1>3. ASSUME NEW t \in Threads,
             Call(t) \/ CreateChallenge(t) \/ TakeChallenge(t) \/ OpenSession(t) \/ Resolve(t)
      PROVE  WInv'
  BY <1>3, CallStep, CreateStep, TakeStep, OpenStep, ResolveStep
<1> QED BY <1>1, <1>2, <1>3 DEF Next

-----------------------------------------------------------------------------
(* Theorems.                                                               *)

\* The inductive invariant.
THEOREM SessionsAreInductive == Spec => []WInv
  BY InitWInv, NextStep, PTL DEF Spec

\* Every variable of WalletSessionStore and of its calls keeps its type.
THEOREM SessionTypes == Spec => []TypeOK
<1>1. WInv => TypeOK
  BY DEF WInv
<1> QED BY <1>1, SessionsAreInductive, PTL

\* Whatever the order in which threads present one challenge, it opens one
\* session at most.
THEOREM SingleUse == Spec => []ChallengeSingleUse
<1>1. WInv => ChallengeSingleUse
  BY DEF WInv
<1> QED BY <1>1, SessionsAreInductive, PTL

\* Sessions only go to the wallets whose challenges were signed.
THEOREM OnlySigners == Spec => []SessionsBelongToSigners
<1>1. WInv => SessionsBelongToSigners
  BY DEF WInv, AnswerInv
<1> QED BY <1>1, SessionsAreInductive, PTL

\* What has expired when a call starts is refused.
THEOREM ExpiredRefused == Spec => []NothingExpiredAccepted
<1>1. WInv => NothingExpiredAccepted
  BY DEF WInv, AnswerInv
<1> QED BY <1>1, SessionsAreInductive, PTL

\* No purge drops a challenge or a session before its time.
THEOREM NothingLost == Spec => []NothingUnexpiredLost
<1>1. WInv => NothingUnexpiredLost
  BY DEF WInv
<1> QED BY <1>1, SessionsAreInductive, PTL
\* What a call may rely on: a session, and a signed challenge that was not taken
\* yet, have not expired when the call has the lock.
Honoured(t) ==
  /\ Resolve(t) /\ (\E s \in opened : s.token = call[t].token /\ s.expires > clock) =>
       answer'[t] = "ok"
  /\ TakeChallenge(t) /\ (\E c \in issued : /\ c.nonce = call[t].nonce /\ c.nonce \notin taken
                                            /\ c.expires > clock /\ Matches(t, c)) =>
       pc'[t] = "open"

\* Nobody who is entitled to an answer is refused it: resolve accepts every token
\* whose session has not expired, verify_challenge every signed challenge that
\* has neither expired nor been taken, whatever calls came in between and
\* whatever their purges dropped.
THEOREM ValidCallsAccepted == Spec => [][\A t \in Threads : Honoured(t)]_vars
<1>1. ASSUME WInv, NEW t \in Threads PROVE Honoured(t)
  <2>1. /\ now[t] \in Nat /\ clock \in Nat /\ now[t] <= clock
        /\ t \in DOMAIN answer /\ t \in DOMAIN pc
        /\ \A s \in opened : s.expires \in Nat
        /\ \A c \in issued : c.expires \in Nat
    BY <1>1 DEF WInv, TypeOK, ThreadInv, Session, Challenge
  <2>2. ASSUME Resolve(t), NEW s \in opened, s.token = call[t].token, s.expires > clock
        PROVE  answer'[t] = "ok"
    <3>1. s \in sessions
      BY <1>1, <2>1, <2>2 DEF WInv, NothingUnexpiredLost
    <3>2. s \in sessions'
      <4>1. s.expires > now[t]
        BY <2>1, <2>2
      <4> QED BY <2>2, <3>1, <4>1 DEF Resolve, Live
    <3> QED BY <2>1, <2>2, <3>2 DEF Resolve, Return
  <2>3. ASSUME TakeChallenge(t), NEW c \in issued, c.nonce = call[t].nonce, c.nonce \notin taken,
               c.expires > clock, Matches(t, c)
        PROVE  pc'[t] = "open"
    <3>1. c \in challenges
      BY <1>1, <2>1, <2>3 DEF WInv, NothingUnexpiredLost
    <3>2. c \in Taken(t)
      <4>1. c.expires > now[t]
        BY <2>1, <2>3
      <4> QED BY <2>3, <3>1, <4>1 DEF Taken, Live
    <3> QED BY <2>1, <2>3, <3>2 DEF TakeChallenge
  <2> QED BY <2>2, <2>3 DEF Honoured
<1>2. WInv /\ [Next]_vars => [\A t \in Threads : Honoured(t)]_vars
  BY <1>1
<1> QED BY <1>2, SessionsAreInductive, PTL DEF Spec
=============================================================================
