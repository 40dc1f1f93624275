---------------------------- MODULE OperatorControl ----------------------------
(***************************************************************************)
(* The operators' control channel: browsers that sign in and post commands *)
(* (useOperator.ts), the room that authenticates and queues them           *)
(* (dashboard/worker/position-room.ts, session.ts), and the runner that    *)
(* pulls and applies them (live_runner/control.rs, prod_trader.rs).        *)
(*                                                                         *)
(* The room's handlers are split where they await: a login while the       *)
(* signature is verified, a command while its body is read.  The sign-in   *)
(* of the request has been checked by then.                                *)
(***************************************************************************)
EXTENDS OperatorAuth, FiniteSets, Sequences, SequencesExt

CONSTANTS
    Browsers,
    TokenHolders,   \* browsers that present the shared bearer token instead of a session
    QueueCap,       \* COMMAND_QUEUE_CAPACITY
    Commands,       \* the commands operators send
    Budgets         \* bounds: what a behaviour may have of nonces, tokens, commands, ...

ASSUME ControlAssumption ==
    /\ TokenHolders \subseteq Browsers /\ QueueCap \in Nat \ {0}
    /\ Commands \subseteq {"engage", "disarm", "bare-disarm", "start", "end"}
    /\ Budgets \subseteq [nonces : Nat, tokens : Nat, commands : Nat, clock : Nat, lives : Nat, faults : Nat]

VARIABLES
    budget,   \* the bounds of this behaviour
    clock,    \* the room's clock
    auth,     \* challenges and sessions
    fresh,    \* nonces and tokens handed out so far
    logins,   \* logins whose signature is being verified
    browser,  \* each browser's challenge, cookie and command under way
    bodies,   \* commands past authentication whose body is being read
    room,     \* the queue, the next id, and which incarnation of the room
    runner,   \* the runner: its life, high-water mark, switch, and answer under way
    faults,   \* lost messages, crashes and evictions so far
    ghost     \* granted nonces, dead tokens; of this life the switch it began with,
              \* the ids applied and whether a switch command was among them

vars == <<budget, clock, auth, fresh, logins, browser, bodies, room, runner, faults, ghost>>

Anonymous == "anonymous-operator-token"
None == "none"

Init ==
    /\ budget \in Budgets
    /\ clock = 0
    /\ auth = NoAuth
    /\ fresh = [nonce |-> 0, token |-> NoToken]
    /\ logins = {}
    /\ browser = [b \in Browsers |-> [nonce |-> 0, cookie |-> NoToken, sending |-> None]]
    /\ bodies = {}
    /\ room = [queue |-> << >>, next |-> 1, era |-> 0]
    /\ runner = [life |-> 0, up |-> FALSE, mark |-> 0, engaged |-> TRUE, ending |-> FALSE,
                 era |-> 0, answer |-> << >>]
    /\ faults = 0
    /\ ghost = [granted |-> << >>, dead |-> {}, launched |-> TRUE, applied |-> << >>, flipped |-> FALSE]

FaultsLeft == faults < budget.faults

-----------------------------------------------------------------------------
(* Signing in *)

AskChallenge(b, key) ==
    /\ fresh.nonce < budget.nonces /\ key \in Roster
    /\ fresh' = [fresh EXCEPT !.nonce = @ + 1]
    /\ auth' = IssueChallenge(auth, key, fresh'.nonce, clock)
    /\ browser' = [browser EXCEPT ![b].nonce = fresh'.nonce]
    /\ UNCHANGED <<budget, clock, logins, bodies, room, runner, faults, ghost>>

\* The answer to a challenge, possibly sent twice: the nonce is consumed, and
\* the signature goes to verification if the challenge was good.
StartLogin(b, key, signed) ==
    /\ browser[b].nonce # 0 /\ fresh.token + Cardinality(logins) < budget.tokens
    /\ auth' = Consume(auth, browser[b].nonce)
    /\ IF Answers(auth, browser[b].nonce, key, clock)
       THEN logins' = logins \cup {[from |-> b, nonce |-> browser[b].nonce, key |-> key,
                                    at |-> clock, signed |-> signed, slot |-> Cardinality(logins)]}
       ELSE UNCHANGED logins
    /\ UNCHANGED <<budget, clock, fresh, browser, bodies, room, runner, faults, ghost>>

\* Verification ends.  A good signature gets a session that counts from the
\* arrival of the login; its cookie may be lost with the answer.
FinishLogin(login) ==
    /\ logins' = logins \ {login}
    /\ IF login.signed
       THEN LET token == fresh.token + 1
            IN  /\ fresh' = [fresh EXCEPT !.token = token]
                /\ auth' = Grant(auth, login.key, token, login.at)
                /\ \/ /\ browser' = [browser EXCEPT ![login.from].cookie = token]
                      /\ UNCHANGED faults
                   \/ /\ FaultsLeft /\ faults' = faults + 1
                      /\ UNCHANGED browser
                /\ ghost' = [ghost EXCEPT
                       !.granted = Append(@, login.nonce),
                       !.dead = @ \cup {s.token : s \in {s \in auth.sessions : s.key = login.key}}]
       ELSE UNCHANGED <<auth, fresh, browser, faults, ghost>>
    /\ UNCHANGED <<budget, clock, bodies, room, runner>>

Logout(b) ==
    /\ browser[b].cookie # NoToken
    /\ auth' = Revoke(auth, browser[b].cookie)
    /\ ghost' = [ghost EXCEPT !.dead = @ \cup {browser[b].cookie}]
    /\ \/ browser' = [browser EXCEPT ![b].cookie = NoToken] /\ UNCHANGED faults
       \/ FaultsLeft /\ faults' = faults + 1 /\ UNCHANGED browser
    /\ UNCHANGED <<budget, clock, fresh, logins, bodies, room, runner>>

Whoami(b) ==
    /\ auth' = Validated(auth, browser[b].cookie, clock)
    /\ auth' # auth
    /\ UNCHANGED <<budget, clock, fresh, logins, browser, bodies, room, runner, faults, ghost>>

-----------------------------------------------------------------------------
(* Commands *)

\* A browser posts one command at a time.
Post(b, command) ==
    /\ browser[b].sending = None
    /\ room.next + Cardinality({c \in Browsers : browser[c].sending # None}) <= budget.commands
    /\ browser' = [browser EXCEPT ![b].sending = command]
    /\ UNCHANGED <<budget, clock, auth, fresh, logins, bodies, room, runner, faults, ghost>>

\* The names a request may act under: its live session's, or else the shared token's.
Issuers(b) ==
    LET live == Live(auth, browser[b].cookie, clock)
    IN  IF live # {} THEN {s.key : s \in live}
        ELSE IF b \in TokenHolders THEN {Anonymous} ELSE {}

\* The room authenticates a command before it reads it; a refusal is final.
Authenticate(b) ==
    /\ browser[b].sending # None /\ \A body \in bodies : body.from # b
    /\ auth' = Validated(auth, browser[b].cookie, clock)
    /\ IF Issuers(b) # {}
       THEN /\ \E issuer \in Issuers(b) :
                   bodies' = bodies \cup {[from |-> b, command |-> browser[b].sending, issuer |-> issuer,
                                           token |-> browser[b].cookie, at |-> clock]}
            /\ UNCHANGED browser
       ELSE /\ browser' = [browser EXCEPT ![b].sending = None]
            /\ UNCHANGED bodies
    /\ UNCHANGED <<budget, clock, fresh, logins, room, runner, faults, ghost>>

Newest(s, n) == IF Len(s) > n THEN SubSeq(s, Len(s) - n + 1, Len(s)) ELSE s

\* The body has been read: a well-formed command gets the next id, and the
\* oldest commands beyond the capacity are forgotten.
Enqueue(body) ==
    /\ bodies' = bodies \ {body}
    /\ room' = IF body.command = "bare-disarm" THEN room
               ELSE [room EXCEPT
                       !.queue = Newest(Append(@, [id |-> room.next, issuer |-> body.issuer,
                                                   command |-> body.command]), QueueCap),
                       !.next = @ + 1]
    /\ browser' = [browser EXCEPT ![body.from].sending = None]
    /\ UNCHANGED <<budget, clock, auth, fresh, logins, runner, faults, ghost>>

\* A post that never arrives.
PostLost(b) ==
    /\ FaultsLeft
    /\ browser[b].sending # None /\ \A body \in bodies : body.from # b
    /\ faults' = faults + 1
    /\ browser' = [browser EXCEPT ![b].sending = None]
    /\ UNCHANGED <<budget, clock, auth, fresh, logins, bodies, room, runner, ghost>>

After(old) == SubSeq(room.queue, Max(old \cup {0}) + 1, Len(room.queue))

\* Mutant: the next command is taken to be already applied.
PendingAfterNext(after) == After({i \in 1..Len(room.queue) : room.queue[i].id <= after + 1})

\* What the pull endpoint answers, oldest first: ids ascend along the queue, so
\* the filter keeps its end.
Pending(after) == After({i \in 1..Len(room.queue) : room.queue[i].id <= after})

-----------------------------------------------------------------------------
(* The runner *)

\* The switch at a launch: the paper runner engages it; the production runner
\* takes ARBKIT_KILL_SWITCH, and refuses to start live with the switch engaged.
MayLaunch(mode, engaged) ==
    /\ mode = "paper" => engaged
    /\ mode = "live" => ~engaged

\* A runner of some mode starts, with nothing applied.
Launch ==
    /\ ~runner.up /\ runner.life < budget.lives
    /\ \E mode \in {"paper", "dry-run", "live"}, engaged \in BOOLEAN :
           /\ MayLaunch(mode, engaged)
           /\ runner' = [life |-> runner.life + 1, up |-> TRUE, mark |-> 0, engaged |-> engaged,
                         ending |-> FALSE, era |-> room.era, answer |-> << >>]
           /\ ghost' = [ghost EXCEPT !.launched = engaged, !.applied = << >>, !.flipped = FALSE]
    /\ UNCHANGED <<budget, clock, auth, fresh, logins, browser, bodies, room, faults>>

\* Between windows the runner asks for everything past its mark.
Poll ==
    /\ runner.up /\ ~runner.ending /\ runner.answer = << >>
    /\ Pending(runner.mark) # << >>
    /\ runner' = [runner EXCEPT !.answer = Pending(runner.mark)]
    /\ UNCHANGED <<budget, clock, auth, fresh, logins, browser, bodies, room, faults, ghost>>

\* The switch commands among some; a bare disarm and a start are refused.
Flips(commands) == {i \in 1..Len(commands) : commands[i].command \in {"engage", "disarm"}}

\* Mutant: an answer's commands are applied newest first.
SwitchedBackwards(r) ==
    IF Flips(r.answer) = {} THEN r.engaged ELSE r.answer[Min(Flips(r.answer))].command = "engage"

\* The switch after the commands of an answer in turn: as the last of them says.
Switched(r) ==
    IF Flips(r.answer) = {} THEN r.engaged ELSE r.answer[Max(Flips(r.answer))].command = "engage"

ApplyAnswer(r) ==
    [r EXCEPT !.mark = Max({@} \cup {r.answer[i].id : i \in 1..Len(r.answer)}),
              !.engaged = Switched(r),
              !.ending = @ \/ \E i \in 1..Len(r.answer) : r.answer[i].command = "end",
              !.answer = << >>]

AnswerArrives ==
    /\ runner.up /\ runner.answer # << >>
    /\ runner' = ApplyAnswer(runner)
    /\ ghost' = [ghost EXCEPT !.applied = @ \o [i \in 1..Len(runner.answer) |-> runner.answer[i].id],
                              !.flipped = @ \/ Flips(runner.answer) # {}]
    /\ UNCHANGED <<budget, clock, auth, fresh, logins, browser, bodies, room, faults>>

\* A failed poll is tried again in the next window.
PollFails ==
    /\ runner.up /\ runner.answer # << >> /\ FaultsLeft
    /\ faults' = faults + 1
    /\ runner' = [runner EXCEPT !.answer = << >>]
    /\ UNCHANGED <<budget, clock, auth, fresh, logins, browser, bodies, room, ghost>>

\* An ending runner finishes its window and exits; any runner may be killed.
RunnerExits ==
    /\ runner.up
    /\ \/ runner.ending /\ UNCHANGED faults
       \/ FaultsLeft /\ faults' = faults + 1
    /\ runner' = [runner EXCEPT !.up = FALSE, !.ending = FALSE, !.answer = << >>]
    /\ UNCHANGED <<budget, clock, auth, fresh, logins, browser, bodies, room, ghost>>

\* The room is evicted: sessions, challenges and the queue are gone, and ids
\* start again.
RoomRestarts ==
    /\ FaultsLeft
    /\ faults' = faults + 1
    /\ auth' = NoAuth
    /\ logins' = {}
    /\ bodies' = {}
    /\ room' = [queue |-> << >>, next |-> 1, era |-> room.era + 1]
    /\ browser' = [b \in Browsers |-> [browser[b] EXCEPT !.sending = None]]
    /\ ghost' = [ghost EXCEPT !.dead = @ \cup 1..fresh.token]
    /\ UNCHANGED <<budget, clock, fresh, runner>>

Tick ==
    /\ clock < budget.clock
    /\ clock' = clock + 1
    /\ UNCHANGED <<budget, auth, fresh, logins, browser, bodies, room, runner, faults, ghost>>

SignIn ==
    \/ \E b \in Browsers, key \in Roster :
           AskChallenge(b, key) \/ (\E signed \in BOOLEAN : StartLogin(b, key, signed))
    \/ \E login \in logins : FinishLogin(login)
    \/ \E b \in Browsers : Logout(b) \/ Whoami(b)

Control ==
    \/ \E b \in Browsers : (\E command \in Commands : Post(b, command)) \/ Authenticate(b) \/ PostLost(b)
    \/ \E body \in bodies : Enqueue(body)

Runner == Launch \/ Poll \/ AnswerArrives \/ PollFails \/ RunnerExits

Next == SignIn \/ Control \/ Runner \/ RoomRestarts \/ Tick

Spec == Init /\ [][Next]_vars

\* The runner polls every window.
FairSpec == Spec /\ WF_vars(Poll \/ AnswerArrives)

-----------------------------------------------------------------------------
(* Properties *)

\* The components keep to their values and limits.
TypeOK ==
    /\ clock \in 0..budget.clock /\ faults \in 0..budget.faults
    /\ \A c \in auth.challenges : c.nonce \in 1..fresh.nonce /\ c.key \in Roster
    /\ \A s \in auth.sessions : s.token \in 1..fresh.token /\ s.key \in Roster
    /\ Len(room.queue) <= QueueCap /\ room.next \in 1..budget.commands + 1
    /\ \A i \in 1..Len(room.queue) : room.queue[i].issuer \in Roster \cup {Anonymous}
    /\ runner.mark \in 0..budget.commands /\ runner.engaged \in BOOLEAN

\* However logins interleave, an operator has one session (OperatorAuth.login).
OneSessionEach == \A s, t \in auth.sessions : s.key = t.key => s = t

\* A challenge lets one login in, however often and how concurrently it is
\* answered (OperatorAuth.login).
NoncesAnswerOnce == \A i, j \in 1..Len(ghost.granted) : ghost.granted[i] = ghost.granted[j] => i = j

\* Logins exclude one another, however many are verified at a time.
LoginsAreExclusive == OneSessionEach /\ NoncesAnswerOnce

\* No command is taken under a session that was logged out, replaced, lost with
\* the room, or has expired (OperatorAuth.validate, commandIssuer).
DeadTokensStayDead ==
    [][\A body \in bodies' \ bodies :
           body.issuer # Anonymous =>
               body.token \notin ghost.dead
               /\ \E s \in auth.sessions : s.token = body.token /\ clock < s.expires]_vars

\* One life of a runner applies the room's commands in the order of their ids
\* and each at most once, whatever polls fail (poll_commands, the command loop).
AppliedInOrderOnce ==
    runner.up => \A i, j \in 1..Len(ghost.applied) : i < j => ghost.applied[i] < ghost.applied[j]

\* The switch stands as the latest retained switch command the runner has seen
\* says, and until one was applied as the launch left it: no command that was
\* refused, repeated or forgotten opens or stops order flow (the command loop).
LatestSwitchHolds ==
    LET seen == {i \in Flips(room.queue) : room.queue[i].id <= runner.mark}
    IN  runner.up =>
            /\ runner.era = room.era /\ seen # {} =>
                   runner.engaged = (room.queue[Max(seen)].command = "engage")
            /\ ~ghost.flipped => runner.engaged = ghost.launched

\* A runner obeys the commands, each once and the latest last, whatever polls fail.
CommandsAreObeyed == AppliedInOrderOnce /\ LatestSwitchHolds

Ids == UNION {1..b.commands : b \in Budgets}

\* A queued command reaches a running runner, unless it is pushed out of the
\* queue, or the room or the runner goes first (handleRunnerCommands).
CommandsArrive ==
    \A n \in Ids :
        LET queued == \E i \in 1..Len(room.queue) : room.queue[i].id = n
        IN  runner.up /\ runner.era = room.era /\ queued
                ~> runner.mark >= n \/ ~queued \/ ~runner.up \/ runner.ending \/ runner.era # room.era
=============================================================================
