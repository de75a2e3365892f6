---------------------------- MODULE WalletSessions ----------------------------
(***************************************************************************)
(* security/wallet_sessions.py:WalletSessionStore with the calls the       *)
(* routes of api/access.py make of it.  Every call reads the time when it  *)
(* starts and may wait for the lock; a critical section, which purges      *)
(* first, is one step.  verify_challenge has two: between them it checks   *)
(* the message and its signature on what it has taken, which is no one     *)
(* else's any more, so the check is part of the first.                     *)
(*                                                                         *)
(* A nonce stands for its message as well, which quotes it.  A signature   *)
(* is the wallet that is recovered from it; Forged is an address no        *)
(* challenge asks for, or one that cannot be recovered.                    *)
(***************************************************************************)
EXTENDS Naturals

CONSTANTS Threads, Wallets, Forged,
          Nonces, Tokens,             \* fresh secrets: bounds on both
          ChallengeTTL, SessionTTL,
          MaxTime, MaxCalls           \* bounds

ASSUME SessionAssumption ==
  /\ Forged \notin Wallets
  /\ ChallengeTTL \in Nat /\ SessionTTL \in Nat /\ MaxTime \in Nat /\ MaxCalls \in Nat

VARIABLES
  clock,
  pc, call, now,      \* per thread: where its call is, the call, its time
  record,             \* per thread: the challenge verify has taken
  answer,             \* per thread: "pending", "ok", or "refused" for a 401
  challenges, sessions,
  issued, taken, opened,  \* every challenge, taken nonce and session so far
  calls

store == <<challenges, sessions, issued, taken, opened>>
vars == <<clock, pc, call, now, record, answer, store, calls>>

Challenge == [nonce : Nonces, address : Wallets, expires : Nat]

\* A principal with its token; the nonce it was opened with is not kept.
Session == [token : Tokens, nonce : Nonces, address : Wallets, expires : Nat]

NoRecord == [nonce |-> "none", address |-> Forged, expires |-> 0]

Calls ==
  [kind : {"create"}, wallet : Wallets]
    \cup [kind : {"verify"}, nonce : Nonces, message : Nonces, signer : Wallets \cup {Forged}]
    \cup [kind : {"resolve"}, token : Tokens]

Init ==
  /\ clock = 0 /\ pc = [t \in Threads |-> "idle"]
  /\ call \in [Threads -> [kind : {"create"}, wallet : Wallets]]
  /\ now = [t \in Threads |-> 0] /\ record = [t \in Threads |-> NoRecord]
  /\ answer = [t \in Threads |-> "pending"]
  /\ challenges = {} /\ sessions = {} /\ issued = {} /\ taken = {} /\ opened = {}
  /\ calls = 0

Tick ==
  /\ clock < MaxTime /\ clock' = clock + 1
  /\ UNCHANGED <<pc, call, now, record, answer, store, calls>>

\* A call starts with datetime.now, before it asks for the lock.
Call(t) ==
  /\ pc[t] = "idle" /\ calls < MaxCalls /\ calls' = calls + 1
  /\ \E c \in Calls : call' = [call EXCEPT ![t] = c] /\ pc' = [pc EXCEPT ![t] = c.kind]
  /\ now' = [now EXCEPT ![t] = clock] /\ answer' = [answer EXCEPT ![t] = "pending"]
  /\ UNCHANGED <<clock, record, store>>

Return(t, a) ==
  /\ pc' = [pc EXCEPT ![t] = "idle"] /\ answer' = [answer EXCEPT ![t] = a]
  /\ UNCHANGED <<clock, call, now, calls>>

\* Mutated form: off by one.
LiveOrExpiring(S, t) == {x \in S : x.expires >= now[t]}

\* _purge keeps what has not expired at the time of the call.
Live(S, t) == {x \in S : x.expires > now[t]}

CreateChallenge(t) ==
  /\ pc[t] = "create" /\ Return(t, "ok")
  /\ \E n \in Nonces \ {c.nonce : c \in issued} :
       LET c == [nonce |-> n, address |-> call[t].wallet, expires |-> now[t] + ChallengeTTL]
       IN  challenges' = Live(challenges, t) \cup {c} /\ issued' = issued \cup {c}
  /\ sessions' = Live(sessions, t)
  /\ UNCHANGED <<record, taken, opened>>

\* The challenge of the nonce, if it is there and has not expired.
Taken(t) == {c \in Live(challenges, t) : c.nonce = call[t].nonce}

\* Mutated form: get in place of pop.
KeepTaken(t) == Live(challenges, t)

PopTaken(t) == Live(challenges, t) \ Taken(t)

\* Mutated form: the recovered address is not compared.
MessageMatches(t, c) == call[t].message = c.nonce /\ call[t].signer # Forged

Matches(t, c) == call[t].message = c.nonce /\ call[t].signer = c.address

\* Mutated form: the record is not asked whether it is one.
TakeUnguarded(t) ==
  /\ pc[t] = "verify" /\ sessions' = Live(sessions, t) /\ challenges' = PopTaken(t)
  /\ taken' = taken \cup {c.nonce : c \in Taken(t)}
  /\ \E c \in IF Taken(t) = {} THEN {NoRecord} ELSE Taken(t) : record' = [record EXCEPT ![t] = c]
  /\ pc' = [pc EXCEPT ![t] = "open"]
  /\ UNCHANGED <<clock, call, now, answer, calls, issued, opened>>

\* The first half of verify_challenge: whatever it finds is gone, also when
\* the message or the signature is refused.
TakeChallenge(t) ==
  /\ pc[t] = "verify" /\ sessions' = Live(sessions, t) /\ challenges' = PopTaken(t)
  /\ taken' = taken \cup {c.nonce : c \in Taken(t)}
  /\ \/ \E c \in Taken(t) :
          /\ Matches(t, c) /\ record' = [record EXCEPT ![t] = c]
          /\ pc' = [pc EXCEPT ![t] = "open"] /\ UNCHANGED <<clock, call, now, answer, calls>>
     \/ (~ \E c \in Taken(t) : Matches(t, c)) /\ Return(t, "refused") /\ UNCHANGED record
  /\ UNCHANGED <<issued, opened>>

\* The second: no purge here, and the time is still the one of the start.
OpenSession(t) ==
  /\ pc[t] = "open" /\ Return(t, "ok")
  /\ \E k \in Tokens \ {s.token : s \in opened} :
       LET s == [token |-> k, nonce |-> record[t].nonce, address |-> record[t].address,
                 expires |-> now[t] + SessionTTL]
       IN  sessions' = sessions \cup {s} /\ opened' = opened \cup {s}
  /\ UNCHANGED <<record, challenges, issued, taken>>

\* Mutated form: a session is popped as a challenge is.
ResolveOnce(t) ==
  /\ pc[t] = "resolve"
  /\ challenges' = Live(challenges, t)
  /\ sessions' = {s \in Live(sessions, t) : s.token # call[t].token}
  /\ Return(t, IF \E s \in Live(sessions, t) : s.token = call[t].token THEN "ok" ELSE "refused")
  /\ UNCHANGED <<record, issued, taken, opened>>

\* resolve, with the 401 of require_wallet_session.
Resolve(t) ==
  /\ pc[t] = "resolve"
  /\ challenges' = Live(challenges, t) /\ sessions' = Live(sessions, t)
  /\ Return(t, IF \E s \in sessions' : s.token = call[t].token THEN "ok" ELSE "refused")
  /\ UNCHANGED <<record, issued, taken, opened>>

Next ==
  \/ Tick
  \/ \E t \in Threads :
       Call(t) \/ CreateChallenge(t) \/ TakeChallenge(t) \/ OpenSession(t) \/ Resolve(t)

Spec == Init /\ [][Next]_vars

-----------------------------------------------------------------------------
(* Properties.                                                             *)

\* The types of the variables; a challenge that is being verified was there.
TypeOK ==
  /\ clock \in 0..MaxTime
  /\ pc \in [Threads -> {"idle", "create", "verify", "open", "resolve"}]
  /\ call \in [Threads -> Calls] /\ now \in [Threads -> 0..MaxTime]
  /\ record \in [Threads -> Challenge \cup {NoRecord}]
  /\ \A t \in Threads : pc[t] = "open" => record[t] \in Challenge
  /\ answer \in [Threads -> {"pending", "ok", "refused"}]
  /\ issued \subseteq Challenge /\ challenges \subseteq issued
  /\ opened \subseteq Session /\ sessions \subseteq opened
  /\ taken \subseteq Nonces /\ calls \in 0..MaxCalls

\* A challenge opens one session at most, whichever threads present it and
\* however often: what verify_challenge takes is nobody else's.
ChallengeSingleUse ==
  \A r, s \in opened : r.nonce = s.nonce => r = s

\* Whoever gets a session has signed, in this call, the message of a challenge
\* that was issued to the wallet of the session.
SessionsBelongToSigners ==
  \A t \in Threads : call[t].kind = "verify" /\ answer[t] = "ok" =>
    \E c \in issued, s \in opened :
      /\ c.nonce = call[t].nonce /\ c.nonce = call[t].message /\ c.nonce = s.nonce
      /\ c.address = call[t].signer /\ c.address = s.address

\* A call that starts when its challenge or its session has expired is
\* refused, however long ago the last purge was.
NothingExpiredAccepted ==
  \A t \in Threads : answer[t] = "ok" =>
    /\ call[t].kind = "verify" =>
         \E c \in issued : c.nonce = call[t].nonce /\ c.expires > now[t]
    /\ call[t].kind = "resolve" =>
         \E s \in opened : s.token = call[t].token /\ s.expires > now[t]

\* The purges of calls that waited for the lock, in any order, lose nothing:
\* a session lives until it expires, a challenge until then or until it is
\* taken.
NothingUnexpiredLost ==
  /\ \A s \in opened : s \in sessions \/ s.expires <= clock
  /\ \A c \in issued : c \in challenges \/ c.nonce \in taken \/ c.expires <= clock
=============================================================================
