---------------------------- MODULE OperatorProofs ----------------------------
(***************************************************************************)
(* The operators' channel for every roster, set of browsers, capacity and  *)
(* bounds: logins that are verified at the same time exclude one another,  *)
(* no command is taken under a dead session, and a runner obeys the        *)
(* commands.  The first invariant adds to the sign-in's properties where a *)
(* nonce may be (in a challenge, a login or a grant, never in two) and     *)
(* that a session's token is never among the dead; the second, on the      *)
(* commands, is explained where it begins.                                 *)
(***************************************************************************)
EXTENDS OperatorControl, DataLemmas

Browsing == [nonce : Nat, cookie : Nat, sending : Commands \cup {None}]

\* The records keep their fields.
Shape ==
    /\ auth = [challenges |-> auth.challenges, sessions |-> auth.sessions]
    /\ fresh \in [nonce : Nat, token : Nat]
    /\ browser \in [Browsers -> Browsing]
    /\ ghost = [granted |-> ghost.granted, dead |-> ghost.dead, launched |-> ghost.launched,
                applied |-> ghost.applied, flipped |-> ghost.flipped]
    /\ ghost.granted \in Seq(Nat)

\* A nonce is in a challenge, in a login, or granted, and no later nonce is.
NonceInv ==
    /\ \A c \in auth.challenges : c.nonce \in 1..fresh.nonce
    /\ \A l \in logins : l.nonce \in 1..fresh.nonce
    /\ \A i \in 1..Len(ghost.granted) : ghost.granted[i] \in 1..fresh.nonce
    /\ \A c \in auth.challenges, l \in logins : c.nonce # l.nonce
    /\ \A c \in auth.challenges, i \in 1..Len(ghost.granted) : c.nonce # ghost.granted[i]
    /\ \A l \in logins, i \in 1..Len(ghost.granted) : l.nonce # ghost.granted[i]
    /\ \A l, m \in logins : l.nonce = m.nonce => l = m
    /\ NoncesAnswerOnce

\* A live token belongs to one session of one operator, and is not dead.
TokenInv ==
    /\ \A b \in Browsers : browser[b].cookie <= fresh.token
    /\ \A s \in auth.sessions : s.token \in 1..fresh.token /\ s.token \notin ghost.dead
    /\ \A s, t \in auth.sessions : s.token = t.token => s = t
    /\ \A token \in ghost.dead : token \in 0..fresh.token
    /\ OneSessionEach

SignInInv == Shape /\ NonceInv /\ TokenInv

\* A browser that changes one field remains a browser.
LEMMA Asking ==
    ASSUME browser \in [Browsers -> Browsing], NEW b, NEW n \in Nat,
           browser' = [browser EXCEPT ![b].nonce = n]
    PROVE  /\ browser' \in [Browsers -> Browsing]
           /\ \A d \in Browsers : browser'[d].cookie = browser[d].cookie
BY DEF Browsing

LEMMA Sending ==
    ASSUME browser \in [Browsers -> Browsing], NEW b, NEW c \in Commands \cup {None},
           browser' = [browser EXCEPT ![b].sending = c]
    PROVE  /\ browser' \in [Browsers -> Browsing]
           /\ \A d \in Browsers : browser'[d].cookie = browser[d].cookie
BY DEF Browsing

LEMMA Holding ==
    ASSUME browser \in [Browsers -> Browsing], NEW b, NEW n \in Nat,
           browser' = [browser EXCEPT ![b].cookie = n]
    PROVE  /\ browser' \in [Browsers -> Browsing]
           /\ \A d \in Browsers : browser'[d].cookie \in {browser[d].cookie, n}
<1>1. \A d \in Browsers : browser'[d] = IF d = b THEN [browser[d] EXCEPT !.cookie = n] ELSE browser[d]
  OBVIOUS
<1>2. \A r \in Browsing : [r EXCEPT !.cookie = n] \in Browsing /\ [r EXCEPT !.cookie = n].cookie = n
  BY DEF Browsing
<1>3. browser' \in [Browsers -> Browsing]
  BY DEF Browsing
<1> QED BY <1>1, <1>2, <1>3

LEMMA InitSignIn == Init => SignInInv
BY DEF Init, NoAuth, NoToken, SignInInv, Shape, Browsing, NonceInv, TokenInv, NoncesAnswerOnce, OneSessionEach

\* Only challenges, sessions, logins, nonces, tokens, cookies and what was
\* granted or died matter.
LEMMA Framed ==
    ASSUME SignInInv, Shape',
           auth'.challenges \subseteq auth.challenges, auth'.sessions \subseteq auth.sessions,
           logins' \subseteq logins, fresh' = fresh,
           \A b \in Browsers : browser'[b].cookie \in {browser[b].cookie, NoToken},
           ghost'.granted = ghost.granted, ghost'.dead = ghost.dead
    PROVE  SignInInv'
<1>1. NonceInv'
  BY DEF SignInInv, NonceInv, NoncesAnswerOnce
<1>2. \A b \in Browsers : browser'[b].cookie <= fresh'.token
  <2>1. fresh.token \in Nat /\ fresh'.token = fresh.token
    BY DEF SignInInv, Shape
  <2>2. \A b \in Browsers : browser[b].cookie <= fresh.token
    BY DEF SignInInv, TokenInv
  <2> QED BY <2>1, <2>2 DEF NoToken
<1>3. TokenInv'
  BY <1>2 DEF SignInInv, TokenInv, OneSessionEach
<1> QED BY <1>1, <1>3 DEF SignInInv

LEMMA AskKeeps ==
    ASSUME SignInInv, NEW b \in Browsers, NEW key \in Roster, AskChallenge(b, key)
    PROVE  SignInInv'
<1> DEFINE asked == [nonce |-> fresh'.nonce, key |-> key, expires |-> clock + ChallengeTtl]
<1>1. /\ fresh'.nonce = fresh.nonce + 1 /\ fresh'.token = fresh.token
      /\ fresh.nonce \in Nat /\ fresh' \in [nonce : Nat, token : Nat]
      /\ auth'.challenges \subseteq auth.challenges \cup {asked}
      /\ auth'.sessions = auth.sessions
      /\ auth' = [challenges |-> auth'.challenges, sessions |-> auth'.sessions]
      /\ UNCHANGED <<logins, ghost>>
  <2>1. /\ auth' = IssueChallenge(auth, key, fresh'.nonce, clock)
        /\ auth = [challenges |-> auth.challenges, sessions |-> auth.sessions]
    BY DEF SignInInv, Shape, AskChallenge
  <2>2. auth' = [challenges |-> {c \in auth.challenges : clock < c.expires} \cup {asked},
                 sessions |-> auth.sessions]
    BY <2>1 DEF IssueChallenge, PurgeExpired
  <2> QED BY <2>2 DEF SignInInv, Shape, AskChallenge
<1>2. /\ browser' \in [Browsers -> Browsing]
      /\ \A c \in Browsers : browser'[c].cookie = browser[c].cookie
  <2>1. /\ browser' = [browser EXCEPT ![b].nonce = fresh'.nonce]
        /\ browser \in [Browsers -> Browsing] /\ fresh'.nonce \in Nat
    BY <1>1 DEF SignInInv, Shape, AskChallenge
  <2> QED BY <2>1, Asking
<1>3. Shape'
  BY <1>1, <1>2 DEF SignInInv, Shape
<1>4. NonceInv'
  BY <1>1 DEF SignInInv, NonceInv, NoncesAnswerOnce
<1>5. TokenInv'
  BY <1>1, <1>2 DEF SignInInv, TokenInv, OneSessionEach
<1> QED BY <1>3, <1>4, <1>5 DEF SignInInv

LEMMA StartKeeps ==
    ASSUME SignInInv, NEW b \in Browsers, NEW key \in Roster, NEW signed \in BOOLEAN,
           StartLogin(b, key, signed)
    PROVE  SignInInv'
<1> DEFINE nonce == browser[b].nonce
           login == [from |-> b, nonce |-> nonce, key |-> key, at |-> clock,
                     signed |-> signed, slot |-> Cardinality(logins)]
<1>1. /\ auth'.challenges = {c \in auth.challenges : c.nonce # nonce}
      /\ auth'.sessions = auth.sessions
      /\ auth' = [challenges |-> auth'.challenges, sessions |-> auth'.sessions]
      /\ UNCHANGED <<fresh, browser, ghost>>
  BY DEF SignInInv, Shape, StartLogin, Consume
<1>2. Shape'
  BY <1>1 DEF SignInInv, Shape
<1>3. TokenInv'
  BY <1>1 DEF SignInInv, TokenInv, OneSessionEach
<1>4. CASE logins' = logins
  BY <1>1, <1>2, <1>4, Framed
<1>5. CASE /\ logins' = logins \cup {login} /\ login.nonce = nonce
           /\ \E c \in auth.challenges : c.nonce = nonce
  <2>1. \A l \in logins' : l \in logins \/ l = login
    BY <1>5
  <2>2. NonceInv'
    BY <1>1, <1>5, <2>1 DEF SignInInv, NonceInv, NoncesAnswerOnce
  <2> QED BY <1>2, <1>3, <2>2 DEF SignInInv
<1> QED BY <1>4, <1>5 DEF StartLogin, Answers

LEMMA FinishKeeps ==
    ASSUME SignInInv, NEW login \in logins, FinishLogin(login)
    PROVE  SignInInv'
<1>1. CASE ~login.signed
  BY <1>1, Framed DEF FinishLogin, SignInInv, Shape
<1>2. CASE login.signed
  <2> DEFINE token   == fresh.token + 1
             session == [token |-> token, key |-> login.key, expires |-> login.at + SessionTtl]
             retired == {s \in auth.sessions : s.key = login.key}
  <2>1. /\ logins' = logins \ {login}
        /\ fresh' = [fresh EXCEPT !.token = token]
        /\ auth' = [auth EXCEPT !.sessions = {s \in @ : s.key # login.key} \cup {session}]
        /\ \/ browser' = [browser EXCEPT ![login.from].cookie = token]
           \/ browser' = browser
        /\ ghost' = [ghost EXCEPT !.granted = Append(@, login.nonce),
                                  !.dead = @ \cup {s.token : s \in retired}]
    BY <1>2 DEF FinishLogin, Grant
  <2>2. /\ fresh.token \in Nat /\ fresh.nonce \in Nat
        /\ fresh'.token = token /\ fresh'.nonce = fresh.nonce /\ fresh' \in [nonce : Nat, token : Nat]
        /\ auth'.challenges = auth.challenges
        /\ auth'.sessions = {s \in auth.sessions : s.key # login.key} \cup {session}
        /\ auth' = [challenges |-> auth'.challenges, sessions |-> auth'.sessions]
    <3>1. /\ auth = [challenges |-> auth.challenges, sessions |-> auth.sessions]
          /\ fresh \in [nonce : Nat, token : Nat]
      BY DEF SignInInv, Shape
    <3>2. auth' = [challenges |-> auth.challenges,
                   sessions |-> {s \in auth.sessions : s.key # login.key} \cup {session}]
      BY <2>1, <3>1
    <3>3. fresh' = [nonce |-> fresh.nonce, token |-> fresh.token + 1] /\ fresh.token \in Nat
      BY <2>1, <3>1
    <3>4. /\ fresh'.token = token /\ fresh'.nonce = fresh.nonce /\ fresh' \in [nonce : Nat, token : Nat]
          /\ fresh.nonce \in Nat
      BY <3>1, <3>3
    <3>5. /\ auth'.challenges = auth.challenges
          /\ auth'.sessions = {s \in auth.sessions : s.key # login.key} \cup {session}
          /\ auth' = [challenges |-> auth'.challenges, sessions |-> auth'.sessions]
      BY <3>2
    <3> QED BY <3>3, <3>4, <3>5
  <2>3. /\ ghost'.granted = Append(ghost.granted, login.nonce)
        /\ ghost'.dead = ghost.dead \cup {s.token : s \in retired}
        /\ ghost' = [granted |-> ghost'.granted, dead |-> ghost'.dead, launched |-> ghost'.launched,
                     applied |-> ghost'.applied, flipped |-> ghost'.flipped]
    BY <2>1 DEF SignInInv, Shape
  <2>4. /\ browser' \in [Browsers -> Browsing]
        /\ \A b \in Browsers : browser'[b].cookie \in {browser[b].cookie, token}
    <3>1. browser \in [Browsers -> Browsing] /\ token \in Nat
      BY <2>2 DEF SignInInv, Shape
    <3>2. CASE browser' = [browser EXCEPT ![login.from].cookie = token]
      BY <3>1, <3>2, Holding
    <3> QED BY <2>1, <3>1, <3>2
  <2>5. login.nonce \in Nat
    BY <2>2 DEF SignInInv, NonceInv
  <2>6. /\ ghost'.granted \in Seq(Nat) /\ Len(ghost'.granted) = Len(ghost.granted) + 1
        /\ Len(ghost.granted) \in Nat
        /\ \A i \in 1..Len(ghost.granted) : ghost'.granted[i] = ghost.granted[i]
        /\ ghost'.granted[Len(ghost.granted) + 1] = login.nonce
    BY <2>3, <2>5 DEF SignInInv, Shape
  <2>7. Shape'
    BY <2>2, <2>3, <2>4, <2>6 DEF Shape
  <2>8. NonceInv'
    <3>1. \A i \in 1..Len(ghost'.granted) :
              \/ i \in 1..Len(ghost.granted) /\ ghost'.granted[i] = ghost.granted[i]
              \/ i = Len(ghost.granted) + 1 /\ ghost'.granted[i] = login.nonce
      BY <2>6
    <3>2. \A l \in logins' : l \in logins /\ l.nonce # login.nonce
      BY <2>1 DEF SignInInv, NonceInv
    <3>3. NoncesAnswerOnce'
      BY <3>1 DEF SignInInv, NonceInv, NoncesAnswerOnce
    <3> QED BY SMTT(30), <2>2, <3>1, <3>2, <3>3 DEF SignInInv, NonceInv
  <2>9. TokenInv'
    <3>1. \A s \in auth'.sessions :
              \/ s \in auth.sessions /\ s.key # login.key
              \/ s = session /\ s.token = token /\ s.key = login.key
      BY <2>2
    <3>2. \A s \in auth.sessions : s.token <= fresh.token /\ s.token \in Nat
      BY <2>2 DEF SignInInv, TokenInv
    <3>3. \A dead \in ghost'.dead : dead \in ghost.dead \/ \E s \in retired : dead = s.token
      BY <2>3
    <3>4. OneSessionEach'
      BY <3>1 DEF SignInInv, TokenInv, OneSessionEach
    <3>5. \A s, t \in auth'.sessions : s.token = t.token => s = t
      BY <2>2, <3>1, <3>2 DEF SignInInv, TokenInv
    <3>6. \A dead \in ghost'.dead : dead \in 0..fresh'.token
      BY <2>2, <3>2, <3>3 DEF SignInInv, TokenInv
    <3>7. \A s \in auth'.sessions : s.token \in 1..fresh'.token /\ s.token \notin ghost'.dead
      <4>1. TAKE s \in auth'.sessions
      <4>2. CASE s \in auth.sessions /\ s.key # login.key
        <5>1. \A t \in retired : t.token # s.token
          BY <4>2 DEF SignInInv, TokenInv
        <5> QED BY <2>2, <3>3, <4>2, <5>1 DEF SignInInv, TokenInv
      <4>3. CASE s = session /\ s.token = token
        <5>1. \A t \in retired : t.token # token
          BY <2>2, <3>2
        <5>2. token \notin ghost.dead
          BY <2>2 DEF SignInInv, TokenInv
        <5> QED BY <2>2, <3>3, <4>3, <5>1, <5>2
      <4> QED BY <3>1, <4>2, <4>3
    <3>8. \A b \in Browsers : browser'[b].cookie <= fresh'.token
      <4>1. \A b \in Browsers : browser[b].cookie <= fresh.token /\ browser[b].cookie \in Nat
        BY DEF SignInInv, Shape, Browsing, TokenInv
      <4> QED BY <2>2, <2>4, <4>1
    <3> QED BY <3>4, <3>5, <3>6, <3>7, <3>8 DEF TokenInv
  <2> QED BY <2>7, <2>8, <2>9 DEF SignInInv
<1> QED BY <1>1, <1>2

LEMMA LogoutKeeps ==
    ASSUME SignInInv, NEW b \in Browsers, Logout(b)
    PROVE  SignInInv'
<1> DEFINE token == browser[b].cookie
<1>1. /\ auth'.challenges = auth.challenges
      /\ auth'.sessions = {s \in auth.sessions : s.token # token}
      /\ auth' = [challenges |-> auth'.challenges, sessions |-> auth'.sessions]
      /\ ghost'.granted = ghost.granted /\ ghost'.dead = ghost.dead \cup {token}
      /\ ghost' = [granted |-> ghost'.granted, dead |-> ghost'.dead, launched |-> ghost'.launched,
                   applied |-> ghost'.applied, flipped |-> ghost'.flipped]
      /\ UNCHANGED <<fresh, logins>>
  BY DEF SignInInv, Shape, Logout, Revoke
<1>2. /\ token \in Nat /\ token <= fresh.token /\ fresh.token \in Nat
      /\ browser' \in [Browsers -> Browsing]
      /\ \A c \in Browsers : browser'[c].cookie \in {browser[c].cookie, NoToken}
  <2>1. /\ fresh.token \in Nat /\ browser \in [Browsers -> Browsing] /\ token <= fresh.token
        /\ \/ browser' = [browser EXCEPT ![b].cookie = NoToken]
           \/ browser' = browser
    BY DEF SignInInv, Shape, TokenInv, Logout
  <2>2. token \in Nat /\ NoToken \in Nat
    BY <2>1 DEF Browsing, NoToken
  <2>3. CASE browser' = [browser EXCEPT ![b].cookie = NoToken]
    BY <2>1, <2>2, <2>3, Holding
  <2> QED BY <2>1, <2>2, <2>3
<1>3. Shape'
  BY <1>1, <1>2 DEF SignInInv, Shape
<1>4. NonceInv'
  BY <1>1 DEF SignInInv, NonceInv, NoncesAnswerOnce
<1>5. TokenInv'
  BY <1>1, <1>2 DEF SignInInv, TokenInv, OneSessionEach, NoToken
<1> QED BY <1>3, <1>4, <1>5 DEF SignInInv

LEMMA RestartKeeps ==
    ASSUME SignInInv, RoomRestarts
    PROVE  SignInInv'
<1>1. /\ auth'.challenges = {} /\ auth'.sessions = {} /\ logins' = {}
      /\ auth' = [challenges |-> auth'.challenges, sessions |-> auth'.sessions]
      /\ fresh' = fresh /\ fresh.token \in Nat
      /\ ghost'.granted = ghost.granted /\ ghost'.dead = ghost.dead \cup 1..fresh.token
      /\ ghost' = [granted |-> ghost'.granted, dead |-> ghost'.dead, launched |-> ghost'.launched,
                   applied |-> ghost'.applied, flipped |-> ghost'.flipped]
  BY DEF SignInInv, Shape, RoomRestarts, NoAuth
<1>2. /\ browser' \in [Browsers -> Browsing]
      /\ \A c \in Browsers : browser'[c].cookie = browser[c].cookie
  <2>1. /\ browser \in [Browsers -> Browsing]
        /\ browser' = [b \in Browsers |-> [browser[b] EXCEPT !.sending = None]]
    BY DEF SignInInv, Shape, RoomRestarts
  <2> QED BY <2>1 DEF Browsing
<1>3. Shape'
  BY <1>1, <1>2 DEF SignInInv, Shape
<1>4. NonceInv'
  BY <1>1 DEF SignInInv, NonceInv, NoncesAnswerOnce
<1>5. TokenInv'
  BY <1>1, <1>2 DEF SignInInv, TokenInv, OneSessionEach
<1> QED BY <1>3, <1>4, <1>5 DEF SignInInv

\* The commands and the runner leave the sign-in alone, but for the cookies of
\* browsers and the sessions that reading drops.
LEMMA ControlKeeps ==
    ASSUME SignInInv, Control \/ Runner \/ Tick \/ UNCHANGED vars \/ \E b \in Browsers : Whoami(b)
    PROVE  SignInInv'
<1>1. /\ auth'.challenges = auth.challenges /\ auth'.sessions \subseteq auth.sessions
      /\ auth' = [challenges |-> auth'.challenges, sessions |-> auth'.sessions]
  BY DEF SignInInv, Shape, Control, Runner, Tick, vars, Whoami, Validated, Post, Authenticate, PostLost, Enqueue,
         Launch, Poll, AnswerArrives, PollFails, RunnerExits
<1>2. UNCHANGED <<fresh, logins>>
  BY DEF Control, Runner, Tick, vars, Whoami, Post, Authenticate, PostLost, Enqueue,
         Launch, Poll, AnswerArrives, PollFails, RunnerExits
<1>3. /\ ghost'.granted = ghost.granted /\ ghost'.dead = ghost.dead
      /\ ghost' = [granted |-> ghost'.granted, dead |-> ghost'.dead, launched |-> ghost'.launched,
                   applied |-> ghost'.applied, flipped |-> ghost'.flipped]
  BY DEF SignInInv, Shape, Control, Runner, Tick, vars, Whoami, Post, Authenticate, PostLost, Enqueue,
         Launch, Poll, AnswerArrives, PollFails, RunnerExits
<1>4. /\ browser' \in [Browsers -> Browsing]
      /\ \A b \in Browsers : browser'[b].cookie = browser[b].cookie
  <2>1. CASE \E b \in Browsers, command \in Commands \cup {None} :
                 browser' = [browser EXCEPT ![b].sending = command]
    BY <2>1, Sending DEF SignInInv, Shape
  <2>2. CASE \E body \in bodies : browser' = [browser EXCEPT ![body.from].sending = None]
    BY <2>2, Sending DEF SignInInv, Shape
  <2>3. CASE browser' = browser
    BY <2>3 DEF SignInInv, Shape
  <2> QED BY <2>1, <2>2, <2>3
      DEF Control, Runner, Tick, vars, Whoami, Post, Authenticate, PostLost, Enqueue,
          Launch, Poll, AnswerArrives, PollFails, RunnerExits
<1>5. Shape'
  BY <1>1, <1>2, <1>3, <1>4 DEF SignInInv, Shape
<1> QED BY <1>1, <1>2, <1>3, <1>4, <1>5, Framed

LEMMA StepSignIn == SignInInv /\ [Next]_vars => SignInInv'
<1> SUFFICES ASSUME SignInInv, [Next]_vars PROVE SignInInv'
  OBVIOUS
<1>1. CASE \E b \in Browsers, key \in Roster : AskChallenge(b, key)
  BY <1>1, AskKeeps
<1>2. CASE \E b \in Browsers, key \in Roster, signed \in BOOLEAN : StartLogin(b, key, signed)
  BY <1>2, StartKeeps
<1>3. CASE \E login \in logins : FinishLogin(login)
  BY <1>3, FinishKeeps
<1>4. CASE \E b \in Browsers : Logout(b)
  BY <1>4, LogoutKeeps
<1>5. CASE RoomRestarts
  BY <1>5, RestartKeeps
<1>6. CASE Control \/ Runner \/ Tick \/ UNCHANGED vars \/ \E b \in Browsers : Whoami(b)
  BY <1>6, ControlKeeps
<1> QED BY <1>1, <1>2, <1>3, <1>4, <1>5, <1>6 DEF Next, SignIn

LEMMA SignInInvariant == Spec => []SignInInv
BY InitSignIn, StepSignIn, PTL DEF Spec

\* However many logins are verified at a time, an operator has one session and
\* a challenge lets one login in (OperatorAuth.login).
THEOREM Exclusion == Spec => []LoginsAreExclusive
<1>1. SignInInv => LoginsAreExclusive
  BY DEF SignInInv, NonceInv, TokenInv, LoginsAreExclusive
<1> QED BY <1>1, SignInInvariant, PTL

\* No command is taken under a session that is known to be over
\* (OperatorAuth.validate, commandIssuer).
THEOREM DeadStayDead == Spec => DeadTokensStayDead
<1> DEFINE Taken ==
        \A body \in bodies' \ bodies :
            body.issuer # Anonymous =>
                body.token \notin ghost.dead
                /\ \E s \in auth.sessions : s.token = body.token /\ clock < s.expires
<1>1. SignInInv /\ [Next]_vars => [Taken]_vars
  <2> SUFFICES ASSUME SignInInv, [Next]_vars PROVE Taken
    OBVIOUS
  <2>1. CASE \E b \in Browsers : Authenticate(b)
    <3>1. PICK b \in Browsers : Authenticate(b)
      BY <2>1
    <3>2. CASE bodies' = bodies
      BY <3>2
    <3>3. CASE \E issuer \in Issuers(b) :
                   bodies' = bodies \cup {[from |-> b, command |-> browser[b].sending, issuer |-> issuer,
                                           token |-> browser[b].cookie, at |-> clock]}
      <4>1. PICK issuer \in Issuers(b) :
                   bodies' = bodies \cup {[from |-> b, command |-> browser[b].sending, issuer |-> issuer,
                                           token |-> browser[b].cookie, at |-> clock]}
        BY <3>3
      <4>2. issuer # Anonymous => \E s \in auth.sessions : s.token = browser[b].cookie /\ clock < s.expires
        BY DEF Issuers, Live
      <4>3. \A s \in auth.sessions : s.token \notin ghost.dead
        BY DEF SignInInv, TokenInv
      <4> QED BY <4>1, <4>2, <4>3
    <3> QED BY <3>1, <3>2, <3>3 DEF Authenticate
  <2>2. CASE bodies' \subseteq bodies
    BY <2>2
  <2> QED BY <2>1, <2>2
      DEF Next, SignIn, Control, Runner, Tick, vars, AskChallenge, StartLogin, FinishLogin, Logout, Whoami,
          Post, PostLost, Enqueue, Launch, Poll, AnswerArrives, PollFails, RunnerExits, RoomRestarts
<1> QED BY <1>1, SignInInvariant, PTL DEF Spec, DeadTokensStayDead

-----------------------------------------------------------------------------
(***************************************************************************)
(* The commands.  The queue holds the ids below the next one without a     *)
(* gap; an answer under way holds, in order, whatever the queue held past  *)
(* the runner's mark when it was given; what was applied is in order and   *)
(* not past the mark.  While the room is the one that the runner polls, a  *)
(* queued command that the answer passes is in the answer.                 *)
(***************************************************************************)
Listed(s) == \E S : s \in Seq(S)

QueueInv ==
    /\ room = [queue |-> room.queue, next |-> room.next, era |-> room.era]
    /\ Listed(room.queue) /\ room.next \in Nat /\ room.era \in Nat
    /\ Len(room.queue) < room.next
    /\ \A i \in 1..Len(room.queue) : room.queue[i].id = room.next - Len(room.queue) + i - 1

AnswerInv ==
    /\ runner = [life |-> runner.life, up |-> runner.up, mark |-> runner.mark,
                 engaged |-> runner.engaged, ending |-> runner.ending, era |-> runner.era,
                 answer |-> runner.answer]
    /\ Listed(runner.answer) /\ runner.mark \in Nat
    /\ runner.era \in Nat /\ runner.era <= room.era
    /\ \A i \in 1..Len(runner.answer) :
           runner.answer[i].id \in Nat /\ runner.answer[i].id > runner.mark
    /\ \A i, j \in 1..Len(runner.answer) : i < j => runner.answer[i].id < runner.answer[j].id

AppliedInv ==
    /\ ghost.applied \in Seq(Nat)
    /\ \A i \in 1..Len(ghost.applied) : ghost.applied[i] <= runner.mark
    /\ \A i, j \in 1..Len(ghost.applied) : i < j => ghost.applied[i] < ghost.applied[j]

\* Entry k of the queue is the last switch command that the runner has seen.
LastSeen(k) ==
    /\ k \in Flips(room.queue) /\ room.queue[k].id <= runner.mark
    /\ \A j \in Flips(room.queue) : room.queue[j].id <= runner.mark => j <= k

SwitchSays ==
    \A k \in 1..Len(room.queue) :
        LastSeen(k) => runner.engaged = (room.queue[k].command = "engage")

\* The answer a has what the queue q holds between the mark and the answer's end.
AnswersFor(q, a, mark) ==
    /\ \A k \in 1..Len(q), i \in 1..Len(a) : q[k].id = a[i].id => q[k].command = a[i].command
    /\ \A k \in 1..Len(q) :
           a # << >> /\ q[k].id > mark /\ q[k].id <= a[Len(a)].id
               => \E i \in 1..Len(a) : a[i].id = q[k].id

SwitchInv ==
    runner.up /\ runner.era = room.era =>
        /\ runner.mark < room.next
        /\ \A i \in 1..Len(runner.answer) : runner.answer[i].id < room.next
        /\ AnswersFor(room.queue, runner.answer, runner.mark)
        /\ SwitchSays

\* Until a switch command is applied, the switch is as the launch left it.
LaunchInv == ~ghost.flipped => runner.engaged = ghost.launched

CommandInv == QueueInv /\ AnswerInv /\ AppliedInv /\ SwitchInv /\ LaunchInv

LEMMA Greatest ==
    ASSUME NEW n \in Nat, NEW S, S \subseteq 0..n, S # {}
    PROVE  Max(S) \in S /\ \A x \in S : x <= Max(S)
<1> DEFINE T == {k \in Nat : n - k \in S}
<1>1. T \subseteq Nat /\ T # {}
  <2>1. PICK x \in S : TRUE
    OBVIOUS
  <2>2. x \in 0..n /\ n - x \in Nat /\ n - (n - x) = x
    BY <2>1
  <2> QED BY <2>1, <2>2
<1>2. PICK m \in T : \A k \in T : m <= k
  <2> HIDE DEF T
  <2> QED BY <1>1, LeastNumber
<1>3. n - m \in S
  BY <1>2
<1>4. \A x \in S : n - m >= x
  <2>1. TAKE x \in S
  <2>2. x \in 0..n /\ n - x \in Nat /\ n - (n - x) = x
    OBVIOUS
  <2>3. n - x \in T
    BY <2>2
  <2>4. m <= n - x /\ m \in Nat
    BY <1>2, <2>3
  <2> QED BY <2>2, <2>4
<1>5. Max(S) \in S /\ \A x \in S : Max(S) >= x
  BY <1>3, <1>4 DEF Max
<1>6. \A x \in S : x \in Int
  OBVIOUS
<1> QED BY <1>5, <1>6

\* What the room answers is the end of the queue past the mark.
LEMMA PendingIs ==
    ASSUME QueueInv, NEW after \in Nat
    PROVE  \E m \in 0..Len(room.queue) :
               /\ Pending(after) = SubSeq(room.queue, m + 1, Len(room.queue))
               /\ \A i \in 1..Len(room.queue) : i <= m <=> room.queue[i].id <= after
<1> DEFINE n == Len(room.queue)
           old == {i \in 1..n : room.queue[i].id <= after}
           m == Max(old \cup {0})
<1>1. n \in Nat /\ room.next \in Nat
      /\ \A i \in 1..n : room.queue[i].id = room.next - n + i - 1
  BY DEF QueueInv, Listed
<1>2. m \in old \cup {0} /\ \A i \in old \cup {0} : i <= m
  <2>1. old \cup {0} \subseteq 0..n /\ old \cup {0} # {}
    BY <1>1
  <2> HIDE DEF old
  <2> QED BY <1>1, <2>1, Greatest
<1>3. Pending(after) = SubSeq(room.queue, m + 1, n)
  BY DEF Pending, After
<1> HIDE DEF m
<1>4. m \in 0..n
  BY <1>1, <1>2
<1>5. ASSUME NEW i \in 1..n PROVE i <= m <=> room.queue[i].id <= after
  <2>1. room.queue[i].id <= after => i <= m
    BY <1>2
  <2>2. ASSUME i <= m PROVE room.queue[i].id <= after
    <3>1. m \in 1..n /\ room.queue[m].id <= after
      BY <1>1, <1>2, <2>2
    <3>2. room.queue[i].id <= room.queue[m].id /\ room.queue[i].id \in Int /\ room.queue[m].id \in Int
      <4>1. /\ room.queue[i].id = room.next - n + i - 1 /\ room.queue[m].id = room.next - n + m - 1
            /\ i \in Int /\ m \in Int /\ n \in Int /\ room.next \in Int
        BY <1>1, <3>1
      <4> QED BY ONLY <2>2, <4>1
    <3> QED BY <3>1, <3>2
  <2> QED BY <2>1, <2>2
<1> QED BY <1>3, <1>4, <1>5

\* Only the room, the runner and what was applied matter.
LEMMA CommandsUntouched ==
    ASSUME CommandInv, room' = room, runner' = runner, ghost'.applied = ghost.applied,
           ghost'.launched = ghost.launched, ghost'.flipped = ghost.flipped
    PROVE  CommandInv'
BY DEF CommandInv, QueueInv, AnswerInv, AppliedInv, SwitchInv, SwitchSays, LaunchInv, AnswersFor, LastSeen,
       Flips, Listed

\* r is q without its first d entries, with e after the others.
Shifts(r, q, e, d) ==
    /\ Listed(r) /\ Len(r) = Len(q) + 1 - d
    /\ \A i \in 1..Len(r) :
           \/ d + i \in 1..Len(q) /\ r[i] = q[d + i]
           \/ i = Len(r) /\ r[i] = e

LEMMA NewestIs ==
    ASSUME NEW q, Listed(q), NEW e, NEW n \in Nat \ {0}, NEW r, r = Newest(Append(q, e), n)
    PROVE  \E d \in 0..Len(q) : Shifts(r, q, e, d)
<1> DEFINE a == Append(q, e)
<1>1. PICK S : q \in Seq(S)
  BY DEF Listed
<1>2. q \in Seq(S \cup {e})
  <2>1. \A i \in 1..Len(q) : q[i] \in S
    BY <1>1
  <2>2. q = [i \in 1..Len(q) |-> q[i]] /\ Len(q) \in Nat
    BY <1>1
  <2> QED BY <2>1, <2>2
<1>3. /\ a \in Seq(S \cup {e}) /\ Len(a) = Len(q) + 1 /\ Len(q) \in Nat
      /\ \A i \in 1..Len(a) : \/ i \in 1..Len(q) /\ a[i] = q[i]
                              \/ i = Len(q) + 1 /\ a[i] = e
  BY <1>2
<1>r. r = Newest(a, n)
  OBVIOUS
<1> HIDE DEF a
<1>4. CASE Len(a) > n
  <2> DEFINE d == Len(a) - n
  <2>1. r = SubSeq(a, d + 1, Len(a))
    BY <1>4, <1>r DEF Newest
  <2>2. d \in 0..Len(q) /\ d + 1 \in 1..Len(a) /\ Len(a) \in Nat
    BY <1>3, <1>4
  <2> HIDE DEF d
  <2>3. /\ r \in Seq(S \cup {e}) /\ Len(r) = Len(a) - d
        /\ \A i \in 1..Len(r) : r[i] = a[d + i]
    <3>1. r \in Seq(S \cup {e}) /\ Len(r) = Len(a) - d
      BY <1>3, <2>1, <2>2
    <3>2. \A i \in 1..Len(a) - d : r[i] = a[d + i]
      BY <1>3, <2>1, <2>2
    <3> QED BY <3>1, <3>2
  <2>4. ASSUME NEW i \in 1..Len(r)
        PROVE  \/ d + i \in 1..Len(q) /\ r[i] = q[d + i]
               \/ i = Len(r) /\ r[i] = e
    <3>1. d + i \in 1..Len(a) /\ r[i] = a[d + i] /\ (d + i = Len(q) + 1 => i = Len(r))
      BY <1>3, <2>2, <2>3
    <3> QED BY <1>3, <3>1
  <2>5. Listed(r) /\ Len(r) = Len(q) + 1 - d
    BY <1>3, <2>2, <2>3 DEF Listed
  <2>6. Shifts(r, q, e, d)
    BY <2>4, <2>5 DEF Shifts
  <2> QED BY <2>2, <2>6
<1>5. CASE ~(Len(a) > n)
  <2>1. r = a
    BY <1>5, <1>r DEF Newest
  <2>2. Listed(r) /\ Len(r) = Len(q) + 1 - 0
    BY <1>3, <2>1 DEF Listed
  <2>3. \A i \in 1..Len(r) :
            \/ 0 + i \in 1..Len(q) /\ r[i] = q[0 + i]
            \/ i = Len(r) /\ r[i] = e
    BY <1>3, <2>1
  <2>4. 0 \in 0..Len(q)
    BY <1>3
  <2>5. Shifts(r, q, e, 0)
    BY <2>2, <2>3 DEF Shifts
  <2> QED BY <2>4, <2>5
<1> QED BY <1>4, <1>5

LEMMA EnqueueCommands ==
    ASSUME CommandInv, NEW body \in bodies, Enqueue(body)
    PROVE  CommandInv'
<1> DEFINE q == room.queue
           e == [id |-> room.next, issuer |-> body.issuer, command |-> body.command]
<1>0. runner' = runner /\ ghost' = ghost
  BY DEF Enqueue
<1>1. CASE body.command = "bare-disarm"
  <2>1. room' = room
    BY <1>1 DEF Enqueue
  <2> QED BY <1>0, <2>1, CommandsUntouched
<1>2. CASE body.command # "bare-disarm"
  <2>0. /\ Listed(q) /\ Len(q) \in Nat /\ room.next \in Nat /\ room.era \in Nat /\ Len(q) < room.next
        /\ \A i \in 1..Len(q) : q[i].id = room.next - Len(q) + i - 1
    BY DEF CommandInv, QueueInv, Listed
  <2>1. /\ room' = [room EXCEPT !.queue = Newest(Append(@, e), QueueCap), !.next = @ + 1]
        /\ room = [queue |-> room.queue, next |-> room.next, era |-> room.era]
    BY <1>2 DEF Enqueue, CommandInv, QueueInv
  <2>2. PICK r : r = Newest(Append(q, e), QueueCap)
    OBVIOUS
  <2>3. room' = [queue |-> r, next |-> room.next + 1, era |-> room.era]
    BY <2>1, <2>2
  <2>d. PICK d \in 0..Len(q) : Shifts(r, q, e, d)
    <3>1. QueueCap \in Nat \ {0}
      BY ControlAssumption
    <3> HIDE DEF q, e
    <3> QED BY <2>0, <2>2, <3>1, NewestIs
  <2>4. /\ Listed(r) /\ Len(r) = Len(q) + 1 - d
        /\ \A i \in 1..Len(r) :
               \/ d + i \in 1..Len(q) /\ r[i] = q[d + i]
               \/ i = Len(r) /\ r[i] = e
    BY <2>d DEF Shifts
  <2>5. e.id = room.next
    OBVIOUS
  <2> HIDE DEF q, e
  <2>6. \A i \in 1..Len(r) : \/ /\ d + i \in 1..Len(q) /\ r[i] = q[d + i] /\ q[d + i].id < room.next
                             \/ i = Len(r) /\ r[i] = e
    <3>1. \A k \in 1..Len(q) : q[k].id < room.next
      <4>1. TAKE k \in 1..Len(q)
      <4>2. q[k].id = room.next - Len(q) + k - 1 /\ k \in Nat /\ k <= Len(q)
        BY <2>0
      <4> QED BY <2>0, <4>2
    <3> QED BY <2>4, <3>1
  <2>7. QueueInv'
    <3>1. ASSUME NEW i \in 1..Len(r) PROVE r[i].id = (room.next + 1) - Len(r) + i - 1
      <4>1. Len(r) = Len(q) + 1 - d /\ d \in Nat /\ i \in Nat /\ Len(q) \in Nat /\ room.next \in Nat
        BY <2>0, <2>4
      <4>2. CASE d + i \in 1..Len(q) /\ r[i] = q[d + i]
        <5>1. r[i].id = room.next - Len(q) + (d + i) - 1
          BY <2>0, <4>2
        <5> QED BY ONLY <4>1, <5>1
      <4>3. CASE i = Len(r) /\ r[i] = e
        <5>1. r[i].id = room.next
          BY <2>5, <4>3
        <5> QED BY <4>1, <4>3, <5>1
      <4> QED BY <2>4, <4>2, <4>3
    <3>2. Len(r) < room.next + 1 /\ room.next + 1 \in Nat
      BY <2>0, <2>4
    <3>3. /\ room'.queue = r /\ room'.next = room.next + 1 /\ room'.era = room.era
          /\ room' = [queue |-> room'.queue, next |-> room'.next, era |-> room'.era]
      BY <2>3
    <3> QED BY <2>0, <2>4, <3>1, <3>2, <3>3 DEF QueueInv
  <2>8. AnswerInv' /\ AppliedInv'
    BY <1>0, <2>3 DEF CommandInv, AnswerInv, AppliedInv
  <2>9. SwitchInv'
    <3>0. room'.queue = r /\ room'.next = room.next + 1 /\ room'.era = room.era
      BY <2>3
    <3> SUFFICES ASSUME runner.up, runner.era = room.era
                 PROVE  /\ runner.mark < room.next + 1
                        /\ \A i \in 1..Len(runner.answer) : runner.answer[i].id < room.next + 1
                        /\ AnswersFor(r, runner.answer, runner.mark)
                        /\ SwitchSays'
      BY <1>0, <3>0 DEF SwitchInv
    <3>1. /\ runner.mark < room.next /\ runner.mark \in Nat
          /\ \A i \in 1..Len(runner.answer) :
                 runner.answer[i].id < room.next /\ runner.answer[i].id \in Nat
          /\ AnswersFor(q, runner.answer, runner.mark) /\ SwitchSays
          /\ Listed(runner.answer)
      BY DEF CommandInv, SwitchInv, AnswerInv, q
    <3>2. /\ runner.mark < room.next + 1
          /\ \A i \in 1..Len(runner.answer) : runner.answer[i].id < room.next + 1
      <4>1. \A x \in Nat : x < room.next => x < room.next + 1
        BY <2>0
      <4> QED BY <3>1, <4>1
    <3>3. AnswersFor(r, runner.answer, runner.mark)
      <4>1. ASSUME NEW k \in 1..Len(r), NEW i \in 1..Len(runner.answer),
                   r[k].id = runner.answer[i].id
            PROVE  r[k].command = runner.answer[i].command
        <5>1. runner.answer[i].id # room.next
          BY <2>0, <3>1
        <5>2. d + k \in 1..Len(q) /\ r[k] = q[d + k]
          BY <2>5, <2>6, <4>1, <5>1
        <5> QED BY <3>1, <4>1, <5>2 DEF AnswersFor
      <4>2. ASSUME NEW k \in 1..Len(r), runner.answer # << >>, r[k].id > runner.mark,
                   r[k].id <= runner.answer[Len(runner.answer)].id
            PROVE  \E i \in 1..Len(runner.answer) : runner.answer[i].id = r[k].id
        <5>1. Len(runner.answer) \in 1..Len(runner.answer)
          BY <3>1, <4>2 DEF Listed
        <5>2. runner.answer[Len(runner.answer)].id < room.next /\ runner.answer[Len(runner.answer)].id \in Nat
          BY <3>1, <5>1
        <5>3. r[k].id # room.next
          BY <2>0, <4>2, <5>2
        <5>4. d + k \in 1..Len(q) /\ r[k] = q[d + k]
          BY <2>5, <2>6, <5>3
        <5> QED BY <3>1, <4>2, <5>4 DEF AnswersFor
      <4> QED BY <4>1, <4>2 DEF AnswersFor
    <3>4. ASSUME NEW k \in 1..Len(r), k \in Flips(r), r[k].id <= runner.mark,
                 \A j \in Flips(r) : r[j].id <= runner.mark => j <= k
          PROVE  runner.engaged = (r[k].command = "engage")
      <4>1. d + k \in 1..Len(q) /\ r[k] = q[d + k]
        <5>1. r[k].id # room.next
          BY <2>0, <3>1, <3>4
        <5> QED BY <2>5, <2>6, <5>1
      <4>2. d + k \in Flips(q)
        BY <3>4, <4>1 DEF Flips
      <4>3. ASSUME NEW j \in Flips(q), q[j].id <= runner.mark PROVE j <= d + k
        <5> SUFFICES ASSUME ~(j <= d + k) PROVE FALSE
          OBVIOUS
        <5>1. j \in 1..Len(q) /\ j \in Nat /\ d \in Nat /\ k \in Nat /\ Len(r) = Len(q) + 1 - d
          BY <2>0, <2>4, <3>4 DEF Flips
        <5>2. j - d \in 1..Len(r) /\ j - d # Len(r) /\ d + (j - d) = j /\ ~(j - d <= k)
          BY <2>0, <5>1
        <5>3. r[j - d] = q[j]
          BY <2>6, <5>2
        <5>4. j - d \in Flips(r)
          BY <4>3, <5>2, <5>3 DEF Flips
        <5> QED BY <3>4, <4>3, <5>2, <5>3, <5>4
      <4>4. LastSeen(d + k)
        BY <3>4, <4>1, <4>2, <4>3 DEF LastSeen, q
      <4> QED BY <3>1, <4>1, <4>4 DEF SwitchSays, q
    <3>5. SwitchSays'
      BY <1>0, <3>0, <3>1, <3>4 DEF SwitchSays, LastSeen
    <3> QED BY <3>2, <3>3, <3>5
  <2>10. LaunchInv'
    BY <1>0 DEF CommandInv, LaunchInv
  <2> QED BY <2>7, <2>8, <2>9, <2>10 DEF CommandInv
<1> QED BY <1>1, <1>2

LEMMA NothingAnswered == Listed(<< >>) /\ \A q, mark : AnswersFor(q, << >>, mark)
<1>1. << >> \in Seq({})
  OBVIOUS
<1>2. \A i \in 1..Len(<< >>) : FALSE
  OBVIOUS
<1>3. Listed(<< >>)
  BY <1>1 DEF Listed
<1>4. \A q, mark : AnswersFor(q, << >>, mark)
  BY <1>2 DEF AnswersFor
<1> QED BY <1>3, <1>4

LEMMA LaunchCommands ==
    ASSUME CommandInv, Shape, Launch
    PROVE  CommandInv'
<1> PICK none : none = << >>
  OBVIOUS
<1>0. /\ Listed(none) /\ (\A q, mark : AnswersFor(q, none, mark)) /\ \A i \in 1..Len(none) : FALSE
      /\ none \in Seq(Nat)
  BY NothingAnswered
<1>1. /\ room' = room /\ room.next \in Nat /\ room.era \in Nat /\ Len(room.queue) < room.next
      /\ Len(room.queue) \in Nat
      /\ \A i \in 1..Len(room.queue) : room.queue[i].id = room.next - Len(room.queue) + i - 1
  BY DEF Launch, CommandInv, QueueInv, Listed
<1>2. PICK engaged \in BOOLEAN :
          /\ runner' = [life |-> runner.life + 1, up |-> TRUE, mark |-> 0, engaged |-> engaged,
                        ending |-> FALSE, era |-> room.era, answer |-> none]
          /\ ghost'.launched = engaged /\ ghost'.applied = none
  BY DEF Launch, Shape
<1>3. QueueInv'
  BY <1>1 DEF CommandInv, QueueInv
<1>4. AnswerInv'
  <2>1. /\ runner'.mark = 0 /\ runner'.era = room.era /\ runner'.answer = none
        /\ runner' = [life |-> runner'.life, up |-> runner'.up, mark |-> runner'.mark,
                      engaged |-> runner'.engaged, ending |-> runner'.ending, era |-> runner'.era,
                      answer |-> runner'.answer]
    BY <1>2
  <2> QED BY <1>0, <1>1, <2>1 DEF AnswerInv
<1>5. AppliedInv'
  BY <1>0, <1>2 DEF AppliedInv
<1>6. SwitchInv'
  <2>1. runner'.mark = 0 /\ runner'.answer = none
    BY <1>2
  <2>2. \A k \in 1..Len(room.queue) : ~(room.queue[k].id <= 0)
    <3>1. TAKE k \in 1..Len(room.queue)
    <3>2. room.queue[k].id = room.next - Len(room.queue) + k - 1 /\ k \in Nat /\ k >= 1
      BY <1>1
    <3> QED BY <1>1, <3>2
  <2>3. SwitchSays'
    BY <1>1, <2>1, <2>2 DEF SwitchSays, LastSeen
  <2>4. 0 < room.next
    BY <1>1
  <2>5. AnswersFor(room.queue, runner.answer, runner.mark)'
    BY <1>0, <2>1 DEF AnswersFor
  <2>6. /\ (runner.mark < room.next)'
        /\ (\A i \in 1..Len(runner.answer) : runner.answer[i].id < room.next)'
    BY <1>0, <1>1, <2>1, <2>4
  <2> QED BY <2>3, <2>5, <2>6 DEF SwitchInv
<1>7. LaunchInv'
  <2>1. runner'.engaged = engaged
    BY <1>2
  <2> QED BY <1>2, <2>1 DEF LaunchInv
<1> QED BY <1>3, <1>4, <1>5, <1>6, <1>7 DEF CommandInv

\* The answer under way is dropped, and the runner may stop.
LEMMA StopCommands ==
    ASSUME CommandInv, PollFails \/ RunnerExits
    PROVE  CommandInv'
<1> PICK none : none = << >>
  OBVIOUS
<1>0. /\ Listed(none) /\ (\A q, mark : AnswersFor(q, none, mark)) /\ \A i \in 1..Len(none) : FALSE
  BY NothingAnswered
<1>1. room' = room /\ ghost' = ghost
  BY DEF PollFails, RunnerExits
<1>2. /\ runner'.mark = runner.mark /\ runner'.era = runner.era /\ runner'.engaged = runner.engaged
      /\ runner'.answer = none
      /\ runner'.up => runner.up
      /\ runner' = [life |-> runner'.life, up |-> runner'.up, mark |-> runner'.mark,
                    engaged |-> runner'.engaged, ending |-> runner'.ending, era |-> runner'.era,
                    answer |-> runner'.answer]
  <2>1. runner = [life |-> runner.life, up |-> runner.up, mark |-> runner.mark,
                  engaged |-> runner.engaged, ending |-> runner.ending, era |-> runner.era,
                  answer |-> runner.answer]
    BY DEF CommandInv, AnswerInv
  <2>2. CASE PollFails
    <3>1. runner' = [life |-> runner.life, up |-> runner.up, mark |-> runner.mark,
                     engaged |-> runner.engaged, ending |-> runner.ending, era |-> runner.era,
                     answer |-> none]
      BY <2>1, <2>2 DEF PollFails
    <3> QED BY <3>1
  <2>3. CASE RunnerExits
    <3>1. runner' = [life |-> runner.life, up |-> FALSE, mark |-> runner.mark,
                     engaged |-> runner.engaged, ending |-> FALSE, era |-> runner.era,
                     answer |-> none]
      BY <2>1, <2>3 DEF RunnerExits
    <3> QED BY <3>1
  <2> QED BY <2>2, <2>3
<1>3. QueueInv' /\ AppliedInv' /\ LaunchInv'
  BY <1>1, <1>2 DEF CommandInv, QueueInv, AppliedInv, LaunchInv
<1>4. AnswerInv'
  BY <1>0, <1>1, <1>2 DEF CommandInv, AnswerInv
<1>5. SwitchInv'
  <2>1. SwitchSays => SwitchSays'
    BY <1>1, <1>2 DEF SwitchSays, LastSeen
  <2>2. AnswersFor(room.queue, runner.answer, runner.mark)'
    BY <1>0, <1>2 DEF AnswersFor
  <2> QED BY <1>0, <1>1, <1>2, <2>1, <2>2 DEF CommandInv, SwitchInv
<1> QED BY <1>3, <1>4, <1>5 DEF CommandInv

LEMMA RestartCommands ==
    ASSUME CommandInv, Shape, RoomRestarts
    PROVE  CommandInv'
<1> PICK none : none = << >>
  OBVIOUS
<1>0. Listed(none) /\ (\A i \in 1..Len(none) : FALSE) /\ Len(none) = 0
  BY NothingAnswered
<1>1. /\ room' = [queue |-> none, next |-> 1, era |-> room.era + 1]
      /\ runner' = runner /\ ghost'.applied = ghost.applied
      /\ ghost'.launched = ghost.launched /\ ghost'.flipped = ghost.flipped
  BY DEF RoomRestarts, Shape
<1>2. /\ room'.queue = none /\ room'.next = 1 /\ room'.era = room.era + 1
      /\ room' = [queue |-> room'.queue, next |-> room'.next, era |-> room'.era]
      /\ room.era \in Nat /\ runner.era \in Nat /\ runner.era <= room.era
  BY <1>1 DEF CommandInv, QueueInv, AnswerInv
<1>3. QueueInv'
  BY <1>0, <1>2 DEF QueueInv
<1>4. AnswerInv' /\ AppliedInv' /\ LaunchInv'
  BY <1>1, <1>2 DEF CommandInv, AnswerInv, AppliedInv, LaunchInv
<1>5. SwitchInv'
  BY <1>1, <1>2 DEF SwitchInv
<1> QED BY <1>3, <1>4, <1>5 DEF CommandInv

\* The ids of the queue are numbers below the next, and tell its entries apart.
LEMMA QueueIds ==
    ASSUME QueueInv
    PROVE  /\ Len(room.queue) \in Nat /\ room.next \in Nat
           /\ \A i \in 1..Len(room.queue) : room.queue[i].id \in Nat /\ room.queue[i].id < room.next
           /\ \A i, j \in 1..Len(room.queue) : i < j => room.queue[i].id < room.queue[j].id
           /\ \A i \in 1..Len(room.queue), x \in Nat :
                  room.queue[i].id < x /\ x < room.next
                      => \E j \in 1..Len(room.queue) : i < j /\ room.queue[j].id = x
<1> DEFINE n == Len(room.queue)
<1>1. /\ n \in Nat /\ room.next \in Nat /\ n < room.next
      /\ \A i \in 1..n : room.queue[i].id = room.next - n + i - 1
  BY DEF QueueInv, Listed
<1> HIDE DEF n
<1>2. \A i \in 1..n : room.queue[i].id \in Nat /\ room.queue[i].id < room.next
  <2>1. TAKE i \in 1..n
  <2>2. room.queue[i].id = room.next - n + i - 1 /\ i \in Nat /\ i >= 1 /\ i <= n
    BY <1>1
  <2> QED BY <1>1, <2>2
<1>3. \A i, j \in 1..n : i < j => room.queue[i].id < room.queue[j].id
  <2>1. TAKE i, j \in 1..n
  <2>2. /\ room.queue[i].id = room.next - n + i - 1 /\ i \in Nat
        /\ room.queue[j].id = room.next - n + j - 1 /\ j \in Nat
    BY <1>1
  <2> QED BY <1>1, <2>2
<1>4. \A i \in 1..n, x \in Nat :
          room.queue[i].id < x /\ x < room.next => \E j \in 1..n : i < j /\ room.queue[j].id = x
  <2>1. TAKE i \in 1..n, x \in Nat
  <2> SUFFICES ASSUME room.queue[i].id < x, x < room.next
               PROVE  \E j \in 1..n : i < j /\ room.queue[j].id = x
    OBVIOUS
  <2>2. room.queue[i].id = room.next - n + i - 1 /\ i \in Nat /\ i >= 1
    BY <1>1
  <2>3. PICK j : j = x - room.next + n + 1
    OBVIOUS
  <2>4. j \in 1..n /\ i < j /\ room.next - n + j - 1 = x
    BY <1>1, <2>2, <2>3
  <2>5. room.queue[j].id = x
    BY <1>1, <2>4
  <2> QED BY <2>4, <2>5
<1> QED BY <1>1, <1>2, <1>3, <1>4 DEF n

LEMMA PollCommands ==
    ASSUME CommandInv, Poll
    PROVE  CommandInv'
<1> DEFINE q == room.queue
           n == Len(q)
<1>1. PICK a : a = Pending(runner.mark)
  OBVIOUS
<1>2. /\ room' = room /\ ghost' = ghost /\ QueueInv /\ runner.mark \in Nat /\ Listed(q) /\ n \in Nat
      /\ runner' = [life |-> runner.life, up |-> runner.up, mark |-> runner.mark,
                    engaged |-> runner.engaged, ending |-> runner.ending, era |-> runner.era,
                    answer |-> a]
  <2>1. room' = room /\ ghost' = ghost /\ runner' = [runner EXCEPT !.answer = a]
    BY <1>1 DEF Poll
  <2>2. QueueInv /\ runner.mark \in Nat /\ Listed(q) /\ n \in Nat
    BY DEF CommandInv, AnswerInv, QueueInv, Listed
  <2>3. runner = [life |-> runner.life, up |-> runner.up, mark |-> runner.mark,
                  engaged |-> runner.engaged, ending |-> runner.ending, era |-> runner.era,
                  answer |-> runner.answer]
    BY DEF CommandInv, AnswerInv
  <2> QED BY <2>1, <2>2, <2>3
<1>3. /\ runner'.mark = runner.mark /\ runner'.era = runner.era /\ runner'.engaged = runner.engaged
      /\ runner'.answer = a /\ runner'.up = runner.up
      /\ runner' = [life |-> runner'.life, up |-> runner'.up, mark |-> runner'.mark,
                    engaged |-> runner'.engaged, ending |-> runner'.ending, era |-> runner'.era,
                    answer |-> runner'.answer]
  BY <1>2
<1>4. PICK m \in 0..n : /\ a = SubSeq(q, m + 1, n)
                        /\ \A i \in 1..n : i <= m <=> q[i].id <= runner.mark
  BY <1>1, <1>2, PendingIs
<1>5. PICK S : q \in Seq(S)
  BY <1>2 DEF Listed
<1>6. /\ \A i \in 1..n : q[i].id \in Nat /\ q[i].id < room.next
      /\ \A i, j \in 1..n : i < j => q[i].id < q[j].id
  BY <1>2, QueueIds
<1> HIDE DEF n, q
<1>7. a \in Seq(S) /\ Len(a) = n - m /\ \A i \in 1..Len(a) : a[i] = q[m + i] /\ m + i \in 1..n
  <2>1. n = Len(q)
    BY DEF n
  <2>2. a \in Seq(S) /\ Len(a) = n - m
    BY <1>2, <1>4, <1>5, <2>1
  <2>3. \A i \in 1..n - m : a[i] = q[m + i] /\ m + i \in 1..n
    BY <1>2, <1>4, <1>5, <2>1
  <2> QED BY <2>2, <2>3
<1>8. \A i \in 1..Len(a) : a[i].id \in Nat /\ a[i].id > runner.mark /\ a[i].id < room.next
  <2>1. TAKE i \in 1..Len(a)
  <2>2. a[i] = q[m + i] /\ m + i \in 1..n /\ ~(m + i <= m)
    BY <1>7
  <2>3. ~(q[m + i].id <= runner.mark) /\ q[m + i].id \in Nat /\ q[m + i].id < room.next
    BY <1>4, <1>6, <2>2
  <2> QED BY <1>2, <2>2, <2>3
<1>9. \A i, j \in 1..Len(a) : i < j => a[i].id < a[j].id
  <2>1. TAKE i, j \in 1..Len(a)
  <2>2. /\ a[i] = q[m + i] /\ m + i \in 1..n /\ a[j] = q[m + j] /\ m + j \in 1..n
        /\ i < j => m + i < m + j
    BY <1>7
  <2> QED BY <1>6, <2>2
<1>10. AnswersFor(q, a, runner.mark)
  <2>1. ASSUME NEW k \in 1..n, NEW i \in 1..Len(a), q[k].id = a[i].id
        PROVE  q[k].command = a[i].command
    <3>1. a[i] = q[m + i] /\ m + i \in 1..n
      BY <1>7
    <3>2. ~(k < m + i) /\ ~(m + i < k)
      BY <1>6, <2>1, <3>1
    <3>3. k = m + i
      BY <3>1, <3>2
    <3> QED BY <3>1, <3>3
  <2>2. ASSUME NEW k \in 1..n, q[k].id > runner.mark
        PROVE  \E i \in 1..Len(a) : a[i].id = q[k].id
    <3>1. ~(k <= m)
      <4>1. q[k].id \in Nat
        BY <1>6
      <4>2. ~(q[k].id <= runner.mark)
        BY <1>2, <2>2, <4>1
      <4> QED BY <1>4, <4>2
    <3>2. k - m \in 1..Len(a) /\ m + (k - m) = k
      BY <1>2, <1>7, <3>1
    <3>3. a[k - m] = q[k]
      BY <1>7, <3>2
    <3> QED BY <3>2, <3>3
  <2> QED BY <2>1, <2>2 DEF AnswersFor, n
<1>11. QueueInv' /\ AppliedInv' /\ LaunchInv'
  BY <1>2, <1>3 DEF CommandInv, QueueInv, AppliedInv, LaunchInv
<1>12. AnswerInv'
  <2>1. Listed(a)
    BY <1>7 DEF Listed
  <2>2. runner.era \in Nat /\ runner.era <= room.era
    BY DEF CommandInv, AnswerInv
  <2> QED BY <1>2, <1>3, <1>8, <1>9, <2>1, <2>2 DEF AnswerInv
<1>13. SwitchInv'
  <2>1. SwitchSays => SwitchSays'
    BY <1>2, <1>3 DEF SwitchSays, LastSeen
  <2>2. AnswersFor(room.queue, runner.answer, runner.mark)'
    BY <1>2, <1>3, <1>10 DEF AnswersFor, q
  <2> QED BY <1>2, <1>3, <1>8, <2>1, <2>2 DEF CommandInv, SwitchInv
<1> QED BY <1>11, <1>12, <1>13 DEF CommandInv

\* The last switch command of a list is one of them, and none comes after it.
LEMMA LastFlip ==
    ASSUME NEW s, Len(s) \in Nat, NEW F, F \subseteq 1..Len(s), F # {}
    PROVE  Max(F) \in F /\ \A i \in F : i <= Max(F)
<1>1. F \subseteq 0..Len(s)
  OBVIOUS
<1> QED BY <1>1, Greatest

\* The mark after an answer is the id of its last command.
LEMMA MarkAfter ==
    ASSUME AnswerInv, runner.answer # << >>
    PROVE  LET a == runner.answer
           IN  /\ Len(a) \in 1..Len(a) /\ Len(a) \in Nat
               /\ ApplyAnswer(runner).mark = a[Len(a)].id
               /\ a[Len(a)].id \in Nat /\ runner.mark < a[Len(a)].id
               /\ \A i \in 1..Len(a) : a[i].id <= a[Len(a)].id /\ a[i].id \in Nat
<1> DEFINE a == runner.answer
           last == a[Len(a)].id
           ids == {runner.mark} \cup {a[i].id : i \in 1..Len(a)}
<1>1. /\ Len(a) \in Nat /\ Len(a) \in 1..Len(a) /\ runner.mark \in Nat
      /\ \A i \in 1..Len(a) : a[i].id \in Nat /\ a[i].id > runner.mark
      /\ \A i, j \in 1..Len(a) : i < j => a[i].id < a[j].id
  BY DEF AnswerInv, Listed
<1>2. last \in Nat /\ runner.mark < last
  BY <1>1
<1>3. \A i \in 1..Len(a) : a[i].id <= last /\ a[i].id \in Nat
  <2>1. TAKE i \in 1..Len(a)
  <2>2. i = Len(a) \/ i < Len(a)
    BY <1>1
  <2>3. a[i].id \in Nat /\ (i < Len(a) => a[i].id < last) /\ (i = Len(a) => a[i].id = last)
    BY <1>1
  <2> QED BY <1>2, <2>2, <2>3
<1>4. ids \subseteq 0..last /\ last \in ids
  <2>1. runner.mark \in 0..last
    BY <1>1, <1>2
  <2>2. \A i \in 1..Len(a) : a[i].id \in 0..last
    BY <1>2, <1>3
  <2> QED BY <1>1, <2>1, <2>2
<1> HIDE DEF ids
<1>5. Max(ids) = last
  <2>1. Max(ids) \in ids /\ \A x \in ids : x <= Max(ids)
    BY <1>2, <1>4, Greatest
  <2>2. Max(ids) \in 0..last /\ last <= Max(ids)
    BY <1>4, <2>1
  <2> QED BY <1>2, <2>2
<1>6. ApplyAnswer(runner).mark = Max(ids)
  <2>1. runner = [life |-> runner.life, up |-> runner.up, mark |-> runner.mark,
                  engaged |-> runner.engaged, ending |-> runner.ending, era |-> runner.era,
                  answer |-> runner.answer]
    BY DEF AnswerInv
  <2> QED BY <2>1 DEF ApplyAnswer, ids
<1> QED BY <1>1, <1>2, <1>3, <1>5, <1>6

LEMMA ArrivalCommands ==
    ASSUME CommandInv, Shape, AnswerArrives
    PROVE  CommandInv'
<1> DEFINE a == runner.answer
           last == a[Len(a)].id
           ids == [i \in 1..Len(a) |-> a[i].id]
<1> PICK none : none = << >>
  OBVIOUS
<1>0. /\ Listed(none) /\ (\A q, mark : AnswersFor(q, none, mark)) /\ \A i \in 1..Len(none) : FALSE
  BY NothingAnswered
<1>1. /\ room' = room /\ runner' = ApplyAnswer(runner) /\ a # << >> /\ AnswerInv /\ QueueInv
      /\ ghost'.applied = ghost.applied \o ids
      /\ ghost'.launched = ghost.launched /\ ghost'.flipped = (ghost.flipped \/ Flips(a) # {})
  BY DEF AnswerArrives, CommandInv, Shape
<1>2. /\ Len(a) \in 1..Len(a) /\ Len(a) \in Nat /\ runner.mark \in Nat /\ runner'.mark = last
      /\ last \in Nat /\ runner.mark < last
      /\ \A i \in 1..Len(a) : /\ a[i].id <= last /\ a[i].id \in Nat
                              /\ a[i].id > runner.mark
      /\ \A i, j \in 1..Len(a) : i < j => a[i].id < a[j].id
  BY <1>1, MarkAfter DEF AnswerInv
<1>3. /\ runner'.answer = none /\ runner'.up = runner.up /\ runner'.era = runner.era
      /\ runner'.engaged = Switched(runner)
      /\ runner' = [life |-> runner'.life, up |-> runner'.up, mark |-> runner'.mark,
                    engaged |-> runner'.engaged, ending |-> runner'.ending, era |-> runner'.era,
                    answer |-> runner'.answer]
  <2>1. runner = [life |-> runner.life, up |-> runner.up, mark |-> runner.mark,
                  engaged |-> runner.engaged, ending |-> runner.ending, era |-> runner.era,
                  answer |-> runner.answer]
    BY <1>1 DEF AnswerInv
  <2> QED BY <1>1, <2>1 DEF ApplyAnswer
<1>4. QueueInv'
  BY <1>1 DEF QueueInv
<1>5. AnswerInv'
  BY <1>0, <1>1, <1>2, <1>3 DEF AnswerInv
<1>6. AppliedInv'
  <2> DEFINE old == ghost.applied
             new == old \o ids
  <2>1. /\ old \in Seq(Nat) /\ Len(old) \in Nat
        /\ \A i \in 1..Len(old) : old[i] <= runner.mark /\ old[i] \in Nat
        /\ \A i, j \in 1..Len(old) : i < j => old[i] < old[j]
    BY DEF CommandInv, AppliedInv
  <2>2. ids \in Seq(Nat) /\ Len(ids) = Len(a) /\ \A i \in 1..Len(a) : ids[i] = a[i].id
    BY <1>2
  <2> HIDE DEF ids, a
  <2>3. /\ new \in Seq(Nat) /\ Len(new) = Len(old) + Len(a)
        /\ \A i \in 1..Len(new) :
               \/ i \in 1..Len(old) /\ new[i] = old[i]
               \/ i - Len(old) \in 1..Len(a) /\ new[i] = ids[i - Len(old)]
    <3>1. new \in Seq(Nat) /\ Len(new) = Len(old) + Len(a)
      <4>1. old \in Seq(Nat) /\ ids \in Seq(Nat) /\ Len(ids) = Len(a)
        BY <2>1, <2>2
      <4> HIDE DEF old
      <4>2. new \in Seq(Nat)
        BY ONLY <4>1
      <4>3. Len(new) = Len(old) + Len(ids)
        BY ONLY <4>1
      <4> QED BY <4>1, <4>2, <4>3
    <3>2. \A i \in 1..Len(old) + Len(ids) :
              new[i] = IF i <= Len(old) THEN old[i] ELSE ids[i - Len(old)]
      BY <2>1, <2>2
    <3>3. ASSUME NEW i \in 1..Len(new)
          PROVE  \/ i \in 1..Len(old) /\ new[i] = old[i]
                 \/ i - Len(old) \in 1..Len(a) /\ new[i] = ids[i - Len(old)]
      <4>1. i \in 1..Len(old) + Len(ids) /\ i \in Nat
        BY <1>2, <2>1, <2>2, <3>1
      <4>2. (i <= Len(old) => i \in 1..Len(old)) /\ (~(i <= Len(old)) => i - Len(old) \in 1..Len(a))
        BY <1>2, <2>1, <2>2, <4>1
      <4> QED BY <3>2, <4>1, <4>2
    <3> QED BY <3>1, <3>3
  <2>4. \A i \in 1..Len(new) :
               \/ i \in 1..Len(old) /\ new[i] = old[i]
               \/ /\ i - Len(old) \in 1..Len(a) /\ new[i] = a[i - Len(old)].id
                  /\ i > Len(old)
    <3>1. TAKE i \in 1..Len(new)
    <3>2. i - Len(old) \in 1..Len(a) => i > Len(old)
      BY <1>2, <2>1, <2>3
    <3> QED BY <2>2, <2>3, <3>2
  <2> HIDE DEF new, old
  <2>5. \A i \in 1..Len(new) : new[i] <= last
    <3>1. TAKE i \in 1..Len(new)
    <3>2. CASE i \in 1..Len(old) /\ new[i] = old[i]
      <4>1. old[i] <= runner.mark /\ old[i] \in Nat
        BY <2>1, <3>2
      <4> QED BY <1>2, <3>2, <4>1
    <3>3. CASE i - Len(old) \in 1..Len(a) /\ new[i] = a[i - Len(old)].id
      BY <1>2, <3>3
    <3> QED BY <2>4, <3>2, <3>3
  <2>6. ASSUME NEW i \in 1..Len(new), NEW j \in 1..Len(new), i < j
        PROVE  new[i] < new[j]
    <3>0. i \in Nat /\ j \in Nat /\ Len(old) \in Nat
      BY <2>1, <2>3
    <3>1. CASE i \in 1..Len(old) /\ new[i] = old[i]
      <4>1. CASE j \in 1..Len(old) /\ new[j] = old[j]
        BY <2>1, <2>6, <3>1, <4>1
      <4>2. CASE j - Len(old) \in 1..Len(a) /\ new[j] = a[j - Len(old)].id
        <5>1. old[i] <= runner.mark /\ old[i] \in Nat
          BY <2>1, <3>1
        <5>2. new[j] > runner.mark /\ new[j] \in Nat
          BY <1>2, <4>2
        <5> QED BY <1>2, <3>1, <5>1, <5>2
      <4> QED BY <2>4, <4>1, <4>2
    <3>2. CASE i - Len(old) \in 1..Len(a) /\ new[i] = a[i - Len(old)].id /\ i > Len(old)
      <4>1. ~(j \in 1..Len(old))
        BY <2>6, <3>0, <3>2
      <4>2. j - Len(old) \in 1..Len(a) /\ new[j] = a[j - Len(old)].id
        BY <2>4, <4>1
      <4>3. i - Len(old) < j - Len(old)
        BY <2>6, <3>0
      <4> QED BY <1>2, <3>2, <4>2, <4>3
    <3> QED BY <2>4, <3>1, <3>2
  <2>7. ghost'.applied = new
    BY <1>1 DEF new, old
  <2>8. new \in Seq(Nat)
    BY <2>3
  <2> QED BY <1>2, <2>5, <2>6, <2>7, <2>8 DEF AppliedInv
<1>7. SwitchInv'
  <2> SUFFICES ASSUME runner.up, runner.era = room.era
               PROVE  /\ last < room.next
                      /\ \A k \in 1..Len(room.queue) :
                             /\ k \in Flips(room.queue) /\ room.queue[k].id <= last
                             /\ \A j \in Flips(room.queue) : room.queue[j].id <= last => j <= k
                             => Switched(runner) = (room.queue[k].command = "engage")
    <3>1. AnswersFor(room.queue, runner.answer, runner.mark)'
      BY <1>0, <1>3 DEF AnswersFor
    <3> HIDE DEF last
    <3> QED BY <1>0, <1>1, <1>2, <1>3, <3>1 DEF SwitchInv, SwitchSays, LastSeen
  <2> DEFINE q == room.queue
  <2>1. /\ AnswersFor(q, a, runner.mark) /\ SwitchSays
        /\ \A i \in 1..Len(a) : a[i].id < room.next
    BY DEF CommandInv, SwitchInv
  <2>2. /\ \A i \in 1..Len(q) : q[i].id \in Nat /\ q[i].id < room.next
        /\ \A i \in 1..Len(q), x \in Nat :
               q[i].id < x /\ x < room.next => \E j \in 1..Len(q) : i < j /\ q[j].id = x
        /\ Len(q) \in Nat
    BY <1>1, QueueIds
  <2>3. last < room.next
    BY <1>2, <2>1
  <2>4. ASSUME NEW k \in 1..Len(q), k \in Flips(q), q[k].id <= last,
               \A j \in Flips(q) : q[j].id <= last => j <= k
        PROVE  Switched(runner) = (q[k].command = "engage")
    <3> DEFINE F == Flips(a)
    <3>0. F \subseteq 1..Len(a) /\ \A i \in 1..Len(a) : i \in F <=> a[i].command \in {"engage", "disarm"}
      BY DEF Flips
    <3>1. q[k].command \in {"engage", "disarm"} /\ q[k].id \in Nat
      BY <2>2, <2>4 DEF Flips
    <3>2. ASSUME q[k].id > runner.mark
          PROVE  \E i \in F : a[i].id = q[k].id /\ a[i].command = q[k].command
      <4>1. PICK i \in 1..Len(a) : a[i].id = q[k].id
        BY <1>1, <2>1, <2>4, <3>2 DEF AnswersFor
      <4>2. q[k].command = a[i].command
        BY <2>1, <4>1 DEF AnswersFor
      <4> QED BY <3>0, <3>1, <4>1, <4>2
    <3> HIDE DEF F
    <3>3. CASE F = {}
      <4>1. Switched(runner) = runner.engaged
        BY <3>3 DEF Switched, F
      <4>2. q[k].id <= runner.mark
        BY <1>2, <3>1, <3>2, <3>3
      <4>3. \A j \in Flips(q) : q[j].id <= runner.mark => j <= k
        <5>1. TAKE j \in Flips(q)
        <5>2. q[j].id \in Nat
          BY <2>2 DEF Flips
        <5>3. q[j].id <= runner.mark => q[j].id <= last
          BY <1>2, <5>2
        <5> QED BY <2>4, <5>3
      <4>4. LastSeen(k)
        BY <2>4, <4>2, <4>3 DEF LastSeen
      <4> QED BY <2>1, <2>4, <4>1, <4>4 DEF SwitchSays
    <3>4. CASE F # {}
      <4>1. PICK f \in F : f = Max(F) /\ \A i \in F : i <= f
        BY <1>2, <3>0, <3>4, LastFlip
      <4>2. Switched(runner) = (a[f].command = "engage")
        BY <3>4, <4>1 DEF Switched, F
      <4>3. /\ f \in 1..Len(a) /\ a[f].id \in Nat /\ a[f].id < room.next /\ a[f].id > runner.mark
            /\ a[f].id <= last /\ a[f].command \in {"engage", "disarm"}
        BY <1>2, <2>1, <3>0
      <4>4. CASE q[k].id < a[f].id
        <5>1. PICK j \in 1..Len(q) : k < j /\ q[j].id = a[f].id
          BY <2>2, <4>3, <4>4
        <5>2. q[j].command = a[f].command
          BY <2>1, <4>3, <5>1 DEF AnswersFor
        <5>3. j \in Flips(q)
          BY <4>3, <5>1, <5>2 DEF Flips
        <5>4. j <= k
          BY <2>4, <4>3, <5>1, <5>3
        <5> QED BY <5>1, <5>4, <2>2
      <4>5. CASE q[k].id = a[f].id
        <5>1. q[k].command = a[f].command
          BY <2>1, <4>3, <4>5 DEF AnswersFor
        <5> QED BY <4>2, <5>1
      <4>6. CASE q[k].id > a[f].id
        <5>1. q[k].id > runner.mark
          BY <1>2, <3>1, <4>3, <4>6
        <5>2. PICK i \in F : a[i].id = q[k].id
          BY <3>2, <5>1
        <5>3. i <= f /\ i \in 1..Len(a)
          BY <3>0, <4>1, <5>2
        <5>4. i = f \/ i < f
          BY <1>2, <4>3, <5>3
        <5>5. ~(i < f)
          <6>1. i < f => a[i].id < a[f].id
            BY <1>2, <4>3, <5>3
          <6> QED BY <3>1, <4>3, <4>6, <5>2, <6>1
        <5>6. i # f
          BY <3>1, <4>3, <4>6, <5>2
        <5> QED BY <5>4, <5>5, <5>6
      <4> QED BY <3>1, <4>3, <4>4, <4>5, <4>6
    <3> QED BY <3>3, <3>4
  <2> QED BY <2>3, <2>4
<1>8. LaunchInv'
  BY <1>1, <1>3 DEF CommandInv, LaunchInv, Switched
<1> QED BY <1>4, <1>5, <1>6, <1>7, <1>8 DEF CommandInv

LEMMA InitCommands == Init => CommandInv
<1> SUFFICES ASSUME Init PROVE CommandInv
  OBVIOUS
<1> PICK none : none = << >>
  OBVIOUS
<1>0. /\ Listed(none) /\ (\A q, mark : AnswersFor(q, none, mark)) /\ \A i \in 1..Len(none) : FALSE
      /\ Len(none) = 0 /\ none \in Seq(Nat)
  BY NothingAnswered
<1>1. /\ room = [queue |-> none, next |-> 1, era |-> 0]
      /\ runner = [life |-> 0, up |-> FALSE, mark |-> 0, engaged |-> TRUE, ending |-> FALSE,
                   era |-> 0, answer |-> none]
      /\ ghost.applied = none /\ ghost.launched = TRUE
  BY DEF Init
<1>2. QueueInv
  BY <1>0, <1>1 DEF QueueInv
<1>3. AnswerInv
  BY <1>0, <1>1 DEF AnswerInv
<1>4. AppliedInv
  BY <1>0, <1>1 DEF AppliedInv
<1>5. SwitchInv
  BY <1>1 DEF SwitchInv
<1>6. LaunchInv
  BY <1>1 DEF LaunchInv
<1> QED BY <1>2, <1>3, <1>4, <1>5, <1>6 DEF CommandInv

LEMMA StepCommands == Shape /\ CommandInv /\ [Next]_vars => CommandInv'
<1> SUFFICES ASSUME Shape, CommandInv, [Next]_vars PROVE CommandInv'
  OBVIOUS
<1>1. CASE SignIn \/ Tick \/ UNCHANGED vars
           \/ \E b \in Browsers : (\E command \in Commands : Post(b, command)) \/ Authenticate(b) \/ PostLost(b)
  <2>1. ghost = [granted |-> ghost.granted, dead |-> ghost.dead, launched |-> ghost.launched,
                 applied |-> ghost.applied, flipped |-> ghost.flipped]
    BY DEF Shape
  <2>2. /\ room' = room /\ runner' = runner /\ ghost'.applied = ghost.applied
        /\ ghost'.launched = ghost.launched /\ ghost'.flipped = ghost.flipped
    BY <1>1, <2>1 DEF SignIn, Tick, vars, Post, Authenticate, PostLost, AskChallenge, StartLogin, FinishLogin,
                      Logout, Whoami
  <2> QED BY <2>2, CommandsUntouched
<1>2. CASE \E body \in bodies : Enqueue(body)
  BY <1>2, EnqueueCommands
<1>3. CASE Launch
  BY <1>3, LaunchCommands
<1>4. CASE Poll
  BY <1>4, PollCommands
<1>5. CASE AnswerArrives
  BY <1>5, ArrivalCommands
<1>6. CASE PollFails \/ RunnerExits
  BY <1>6, StopCommands
<1>7. CASE RoomRestarts
  BY <1>7, RestartCommands
<1> QED BY <1>1, <1>2, <1>3, <1>4, <1>5, <1>6, <1>7 DEF Next, Control, Runner

\* Any runner applies the room's commands in the order of their ids and each at
\* most once, and its switch stands as the latest retained switch command says, or
\* before the first as the launch set it, of the paper runner or of the production
\* runner in either mode; whatever polls fail, commands are forgotten, and runners
\* or the room restart (handleRunnerCommands, poll_commands, the command loop).
THEOREM Obedience == Spec => []CommandsAreObeyed
<1>1. CommandInv => CommandsAreObeyed
  <2> SUFFICES ASSUME CommandInv PROVE CommandsAreObeyed
    OBVIOUS
  <2>1. AppliedInOrderOnce
    BY DEF CommandInv, AppliedInv, AppliedInOrderOnce
  <2>2. LatestSwitchHolds
    <3> DEFINE seen == {i \in Flips(room.queue) : room.queue[i].id <= runner.mark}
    <3> SUFFICES ASSUME runner.up
                 PROVE  /\ runner.era = room.era /\ seen # {} =>
                               runner.engaged = (room.queue[Max(seen)].command = "engage")
                        /\ ~ghost.flipped => runner.engaged = ghost.launched
      BY DEF LatestSwitchHolds
    <3>1. (runner.era = room.era => SwitchSays) /\ Len(room.queue) \in Nat
      BY DEF CommandInv, SwitchInv, QueueInv, Listed
    <3>2. ASSUME runner.era = room.era, seen # {}
          PROVE runner.engaged = (room.queue[Max(seen)].command = "engage")
      <4>1. PICK k \in seen : k = Max(seen) /\ \A i \in seen : i <= k
        <5>1. seen \subseteq 1..Len(room.queue)
          BY DEF Flips
        <5> HIDE DEF seen
        <5> QED BY <3>1, <3>2, <5>1, LastFlip
      <4>2. LastSeen(k) /\ k \in 1..Len(room.queue)
        BY <4>1 DEF LastSeen, Flips
      <4> QED BY <3>1, <3>2, <4>1, <4>2 DEF SwitchSays
    <3> QED BY <3>2 DEF CommandInv, LaunchInv
  <2> QED BY <2>1, <2>2 DEF CommandsAreObeyed
<1>2. SignInInv => Shape
  BY DEF SignInInv
<1>3. Spec => []CommandInv
  BY <1>2, SignInInvariant, InitCommands, StepCommands, PTL DEF Spec
<1> QED BY <1>1, <1>3, PTL
================================================================================
