----------------------------- MODULE OperatorAuth -----------------------------
(***************************************************************************)
(* The room's operator sessions (dashboard/worker/session.ts), as          *)
(* operators on a record: challenges and sessions are sets, a nonce and a  *)
(* token (32 random bytes) are fresh numbers, and the roster is a set of   *)
(* keys.  A signature is either the one the roster's key verifies or not.  *)
(***************************************************************************)
EXTENDS Integers

CONSTANTS
    Roster,        \* keys of the operators
    ChallengeTtl,  \* CHALLENGE_TTL_MS
    SessionTtl     \* SESSION_TTL_MS

ASSUME AuthAssumption == {ChallengeTtl, SessionTtl} \subseteq Nat \ {0}

NoToken == 0  \* a request without a cookie; tokens are numbered from 1

NoAuth == [challenges |-> {}, sessions |-> {}]

PurgeExpired(auth, now) ==
    [auth EXCEPT !.challenges = {c \in @ : now < c.expires}]

IssueChallenge(auth, key, nonce, now) ==
    LET kept == PurgeExpired(auth, now)
    IN  [kept EXCEPT !.challenges = @ \cup {[nonce |-> nonce, key |-> key, expires |-> now + ChallengeTtl]}]

\* Mutant: a challenge stays until it has been answered well.
ConsumeLater(auth, nonce) == auth

\* A challenge is gone before its answer is looked at.
Consume(auth, nonce) == [auth EXCEPT !.challenges = {c \in @ : c.nonce # nonce}]

\* The answer is worth verifying.
Answers(auth, nonce, key, now) ==
    \E c \in auth.challenges : c.nonce = nonce /\ c.key = key /\ now < c.expires

\* A new session retires the earlier one of its operator.
Grant(auth, key, token, now) ==
    [auth EXCEPT !.sessions = {s \in @ : s.key # key}
                                \cup {[token |-> token, key |-> key, expires |-> now + SessionTtl]}]

\* Mutant: the expiry instant still counts.
LiveToTheEnd(auth, token, now) ==
    {s \in auth.sessions : s.token = token /\ now <= s.expires}

\* The session a token stands for, if it is known and not expired.
Live(auth, token, now) == {s \in auth.sessions : s.token = token /\ now < s.expires}

\* Reading an expired session drops it.
Validated(auth, token, now) ==
    [auth EXCEPT !.sessions = {s \in @ : s.token = token => now < s.expires}]

Revoke(auth, token) == [auth EXCEPT !.sessions = {s \in @ : s.token # token}]
=============================================================================
