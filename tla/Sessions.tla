------------------------------ MODULE Sessions ------------------------------
(***************************************************************************)
(* The sessions of one account: refresh tokens and their families on the   *)
(* server (apps/api/src/identity/index.ts), and the devices that hold a    *)
(* pair of tokens each (apps/mobile/src/lib/authFetch.ts, api.ts,          *)
(* sessionFlow.ts). A step of the server is a statement at READ COMMITTED; *)
(* a step of a device is what runs between two awaits.                     *)
(*                                                                         *)
(* A token is its place in the table; the access token issued with it has  *)
(* the same number, and 0 stands for none.                                 *)
(***************************************************************************)
EXTENDS Naturals, Sequences, FiniteSets

CONSTANTS
    Devices,
    Callers,        \* requests a device has in flight at once
    Requests,       \* slots for what the server is asked of sessions
    Nobody,         \* the holder of a free row
    MaxTokens,      \* how many refresh tokens are issued
    MaxLost,        \* answers and writes of tokens lost, and kills of the app
    Remote          \* what is asked from elsewhere: "revoke", "all", "reset", "delete"

ASSUME SessionsAssumption ==
    /\ Devices # {}
    /\ Nobody \notin Requests
    /\ MaxTokens \in Nat \ {0} /\ MaxLost \in Nat
    /\ Remote \subseteq {"revoke", "all", "reset", "delete"}

VARIABLES
    tokens,         \* refresh_tokens, in order of creation
    rowLock,        \* the request that has burned a token and not committed
    deleted,        \* users.deleted_at is set
    password,       \* how often the password has been reset (0 or 1)
    aged,           \* access tokens expire in the order of issue: this many have
    srv,            \* what each server request is doing
    access,         \* on the device: the stored tokens
    refresh,
    caller,         \* a request of the app and the access token it was sent with
    flight,         \* authFetch's one refresh
    sign,           \* the sign-in or sign-out under way
    lost,           \* of these, so far
    ended,          \* history: families a revocation has found whole
    reused          \* history: families revoked for reuse

server == <<tokens, rowLock, deleted, password, ended, reused>>
device == <<access, refresh, caller, flight, sign>>
vars == <<server, aged, srv, device, lost>>

Tokens == 1 .. MaxTokens
Issued == DOMAIN tokens
Live(t) == ~tokens[t].used /\ ~tokens[t].revoked
Family(f) == {t \in Issued : tokens[t].family = f}

Idle == [step |-> "idle", op |-> "none", token |-> 0, todo |-> {}]
Answer(kind, t) == [step |-> kind, op |-> "none", token |-> t, todo |-> {}]
Answers == {"ok", "refused", "busy"}

Free(q) == srv[q] = Idle
AskServer(q, op, t) ==
    srv' = [srv EXCEPT ![q] =
        [step |-> CASE op = "refresh" -> "burn" [] op = "login" -> "verify" [] OTHER -> "find",
         op |-> op, token |-> t, todo |-> {}]]

\* The devices that wait for the answer to q; nobody may.
AwaitedBy(q) == {d \in Devices : \/ flight[d].step = "sent" /\ flight[d].at = q
                                 \/ sign[d].step \in {"login", "logout"} /\ sign[d].at = q}

Reply(q, kind, t) ==
    srv' = [srv EXCEPT ![q] = IF AwaitedBy(q) = {} THEN Idle ELSE Answer(kind, t)]

\* Nobody waits any more; the request itself goes on.
Abandon(qs) ==
    srv' = [q \in Requests |-> IF q \in qs /\ srv[q].step \in Answers THEN Idle ELSE srv[q]]

-----------------------------------------------------------------------------
(* The server.                                                             *)

\* Mutant: the WHERE forgets used_at.
BurnUsed(q) ==
    /\ srv[q].step = "burn"
    /\ rowLock[srv[q].token] = Nobody
    /\ IF ~tokens[srv[q].token].revoked /\ ~deleted
       THEN /\ rowLock' = [rowLock EXCEPT ![srv[q].token] = q]
            /\ srv' = [srv EXCEPT ![q].step = "issue"]
       ELSE srv' = [srv EXCEPT ![q].step = "look"] /\ UNCHANGED rowLock
    /\ UNCHANGED <<tokens, deleted, password, ended, reused>>

\* Mutant: the WHERE forgets revoked_at.
BurnRevoked(q) ==
    /\ srv[q].step = "burn"
    /\ rowLock[srv[q].token] = Nobody
    /\ IF ~tokens[srv[q].token].used /\ ~deleted
       THEN /\ rowLock' = [rowLock EXCEPT ![srv[q].token] = q]
            /\ srv' = [srv EXCEPT ![q].step = "issue"]
       ELSE srv' = [srv EXCEPT ![q].step = "look"] /\ UNCHANGED rowLock
    /\ UNCHANGED <<tokens, deleted, password, ended, reused>>

\* UPDATE ... SET used_at WHERE unused, unrevoked, of a live account.
Burn(q) ==
    /\ srv[q].step = "burn"
    /\ rowLock[srv[q].token] = Nobody
    /\ IF Live(srv[q].token) /\ ~deleted
       THEN /\ rowLock' = [rowLock EXCEPT ![srv[q].token] = q]
            /\ srv' = [srv EXCEPT ![q].step = "issue"]
       ELSE srv' = [srv EXCEPT ![q].step = "look"] /\ UNCHANGED rowLock
    /\ UNCHANGED <<tokens, deleted, password, ended, reused>>

NewToken(f, pw) == [family |-> f, used |-> FALSE, revoked |-> FALSE, password |-> pw]

\* INSERT of the next token of the family, and COMMIT.
Issue(q) ==
    /\ srv[q].step = "issue"
    /\ Len(tokens) < MaxTokens
    /\ LET t == srv[q].token
       IN  /\ tokens' = Append([tokens EXCEPT ![t].used = TRUE],
                               NewToken(tokens[t].family, tokens[t].password))
           /\ rowLock' = [rowLock EXCEPT ![t] = Nobody]
    /\ Reply(q, "ok", Len(tokens) + 1)
    /\ UNCHANGED <<deleted, password, ended, reused>>

\* The SELECT after a burn that found no row: a used token is reuse.
Look(q) ==
    /\ srv[q].step = "look"
    /\ LET t == srv[q].token
       IN  IF tokens[t].used /\ ~tokens[t].revoked
           THEN srv' = [srv EXCEPT ![q].step = "find", ![q].op = "reuse"]
           ELSE Reply(q, "refused", 0)
    /\ UNCHANGED server

\* A transaction of reset and delete begins with a row of its own: the burned
\* reset token, the deleted account. Of two at once one finds nothing to change.
Opens(q) ==
    CASE srv[q].op = "reset"  -> password = 0
      [] srv[q].op = "delete" -> ~deleted
      [] OTHER                -> TRUE

\* The UPDATE that revokes starts: it sees the tokens committed now.
Seen(q) == IF srv[q].op \in {"all", "reset", "delete"} THEN Issued
           ELSE Family(tokens[srv[q].token].family)

Find(q) ==
    /\ srv[q].step = "find"
    /\ IF Opens(q) THEN srv' = [srv EXCEPT ![q].step = "revoke", ![q].todo = Seen(q)]
                   ELSE Reply(q, "refused", 0)
    /\ UNCHANGED server

\* It has waited for the rows being burned, revokes what it saw, and commits.
Whole(q) == {f \in {tokens[t].family : t \in srv[q].todo} : Family(f) \subseteq srv[q].todo}

Revoke(q) ==
    /\ srv[q].step = "revoke"
    /\ \A t \in srv[q].todo : rowLock[t] = Nobody
    /\ Opens(q)
    /\ tokens' = [t \in Issued |-> IF t \in srv[q].todo THEN [tokens[t] EXCEPT !.revoked = TRUE]
                                   ELSE tokens[t]]
    /\ deleted' = (deleted \/ srv[q].op = "delete")
    /\ password' = IF srv[q].op = "reset" THEN 1 ELSE password
    /\ ended' = ended \cup Whole(q)
    /\ reused' = IF srv[q].op = "reuse" THEN reused \cup {tokens[srv[q].token].family} ELSE reused
    /\ IF srv[q].op = "reuse" THEN Reply(q, "refused", 0) ELSE Reply(q, "ok", 0)
    /\ UNCHANGED rowLock

\* The other of two resets or deletions, which waited for the first.
Spent(q) ==
    /\ srv[q].step = "revoke"
    /\ ~Opens(q)
    /\ Reply(q, "refused", 0)
    /\ UNCHANGED server

\* login reads the password and checks it, restores a deleted account if it is
\* still deleted then, and only then inserts the first token of a family.
Verify(q) ==
    /\ srv[q].step = "verify"
    /\ srv' = [srv EXCEPT ![q].step = IF deleted THEN "restore" ELSE "insert",
                          ![q].token = password]
    /\ UNCHANGED server

Restore(q) ==
    /\ srv[q].step = "restore"
    /\ IF deleted THEN srv' = [srv EXCEPT ![q].step = "insert"] ELSE Reply(q, "refused", 0)
    /\ deleted' = FALSE
    /\ UNCHANGED <<tokens, rowLock, password, ended, reused>>

Insert(q) ==
    /\ srv[q].step = "insert"
    /\ Len(tokens) < MaxTokens
    /\ tokens' = Append(tokens, NewToken(Len(tokens) + 1, srv[q].token))
    /\ Reply(q, "ok", Len(tokens) + 1)
    /\ UNCHANGED <<rowLock, deleted, password, ended, reused>>

\* Mutant: the connection goes back to the pool without its ROLLBACK.
RollbackNever(q) ==
    /\ srv[q].step \in {"issue", "insert"}
    /\ Reply(q, "busy", 0)
    /\ UNCHANGED server

\* The INSERT fails (it always does at MaxTokens): the burn is rolled back.
Rollback(q) ==
    /\ srv[q].step \in {"issue", "insert"}
    /\ rowLock' = [t \in Tokens |-> IF rowLock[t] = q THEN Nobody ELSE rowLock[t]]
    /\ Reply(q, "busy", 0)
    /\ UNCHANGED <<tokens, deleted, password, ended, reused>>

ServerStep(q) ==
    /\ Burn(q) \/ Issue(q) \/ Rollback(q) \/ Look(q) \/ Find(q) \/ Revoke(q) \/ Spent(q)
       \/ Verify(q) \/ Restore(q) \/ Insert(q)
    /\ UNCHANGED <<aged, device, lost>>

\* 429, or an error before anything is written.
TurnAway(q) ==
    /\ srv[q].step \in {"burn", "verify"}
    /\ Reply(q, "busy", 0)
    /\ UNCHANGED <<server, aged, device, lost>>

\* Asked with no device of ours waiting for the answer.
AskRemotely(q, op, t) ==
    /\ Free(q) /\ t \in Issued
    /\ op # "revoke" => t = 1
    /\ AskServer(q, op, t)
    /\ UNCHANGED <<server, aged, device, lost>>

-----------------------------------------------------------------------------
(* The device: a call, and the refresh it may need.                        *)

NoCall == [step |-> "idle", by |-> CHOOSE d \in Devices : TRUE, with |-> 0]
NoFlight == [step |-> "idle", at |-> Nobody, token |-> 0]

Expire(t) ==
    /\ t \in Issued /\ t = aged + 1
    /\ aged' = t
    /\ UNCHANGED <<server, srv, device, lost>>

Send(d, c) ==
    /\ caller[c].step = "idle" /\ access[d] # 0 /\ sign[d].step \in {"in", "logout"}
    /\ caller' = [caller EXCEPT ![c] = [step |-> "sent", by |-> d, with |-> access[d]]]
    /\ UNCHANGED <<server, aged, srv, access, refresh, flight, sign, lost>>

\* A 401 for an expired access token; every other answer is the caller's.
Respond(c) ==
    /\ caller[c].step = "sent"
    /\ caller' = [caller EXCEPT ![c] = IF @.with <= aged THEN [@ EXCEPT !.step = "unauthorised"] ELSE NoCall]
    /\ UNCHANGED <<server, aged, srv, access, refresh, flight, sign, lost>>

\* loadAccessToken: a token replaced meanwhile is used at once.
Replaced(c) == access[caller[c].by] \notin {0, caller[c].with}

Reload(c) ==
    /\ caller[c].step = "unauthorised"
    /\ caller' = [caller EXCEPT ![c] = IF Replaced(c) THEN NoCall ELSE [@ EXCEPT !.step = "joining"]]
    /\ UNCHANGED <<server, aged, srv, access, refresh, flight, sign, lost>>

\* Mutant: every call refreshes for itself.
JoinNever(c) ==
    /\ caller[c].step = "joining"
    /\ caller' = [caller EXCEPT ![c].step = "waiting"]
    /\ flight' = [flight EXCEPT ![caller[c].by] = [NoFlight EXCEPT !.step = "load"]]
    /\ UNCHANGED <<server, aged, srv, access, refresh, sign, lost>>

\* refreshOnce: join the refresh under way or start one.
Join(c) ==
    /\ caller[c].step = "joining"
    /\ caller' = [caller EXCEPT ![c].step = "waiting"]
    /\ flight' = [flight EXCEPT ![caller[c].by] =
                     IF @.step = "idle" THEN [NoFlight EXCEPT !.step = "load"] ELSE @]
    /\ UNCHANGED <<server, aged, srv, access, refresh, sign, lost>>

Load(d, q) ==
    /\ flight[d].step = "load"
    /\ \/ /\ refresh[d] # 0 /\ Free(q)
          /\ AskServer(q, "refresh", refresh[d])
          /\ flight' = [flight EXCEPT ![d] = [step |-> "sent", at |-> q, token |-> refresh[d]]]
       \/ /\ refresh[d] = 0
          /\ flight' = [flight EXCEPT ![d].step = "clear"]
          /\ UNCHANGED srv
    /\ UNCHANGED <<server, aged, access, refresh, caller, sign, lost>>

\* Mutant: refreshing is null again, and nobody who waits is told.
SettleSilently(d) ==
    /\ flight' = [flight EXCEPT ![d] = NoFlight]
    /\ UNCHANGED caller

\* The promise settles: everyone who waits goes on, and refreshing is null.
Settle(d) ==
    /\ flight' = [flight EXCEPT ![d] = NoFlight]
    /\ caller' = [c \in Callers |-> IF caller[c].by = d /\ caller[c].step = "waiting"
                                    THEN NoCall ELSE caller[c]]

Refreshed(d) ==
    /\ flight[d].step = "sent"
    /\ LET q == flight[d].at
       IN  /\ srv[q].step \in Answers
           /\ srv' = [srv EXCEPT ![q] = Idle]
           /\ \/ /\ srv[q].step = "busy" /\ Settle(d)
              \/ /\ srv[q].step = "refused"
                 /\ flight' = [flight EXCEPT ![d].step = "clear"]
                 /\ UNCHANGED caller
              \/ /\ srv[q].step = "ok"
                 /\ flight' = [flight EXCEPT ![d] = [step |-> "save", at |-> Nobody, token |-> srv[q].token]]
                 /\ UNCHANGED caller
    /\ UNCHANGED <<server, aged, access, refresh, sign, lost>>

\* saveTokens: the access token first.
SaveAccess(d) ==
    /\ flight[d].step = "save"
    /\ access' = [access EXCEPT ![d] = flight[d].token]
    /\ flight' = [flight EXCEPT ![d].step = "save2"]
    /\ UNCHANGED <<server, aged, srv, refresh, caller, sign, lost>>

SaveRefresh(d) ==
    /\ flight[d].step = "save2"
    /\ refresh' = [refresh EXCEPT ![d] = flight[d].token]
    /\ Settle(d)
    /\ UNCHANGED <<server, aged, srv, access, sign, lost>>

\* endSession: clearTokens, and the screens are told.
EndSession(d) ==
    /\ flight[d].step = "clear"
    /\ access' = [access EXCEPT ![d] = 0]
    /\ refresh' = [refresh EXCEPT ![d] = 0]
    /\ sign' = [sign EXCEPT ![d] = IF @.step = "in" THEN [@ EXCEPT !.step = "ended"] ELSE @]
    /\ Settle(d)
    /\ UNCHANGED <<server, aged, srv, lost>>

\* The network fails, before the server has the request or after, or the
\* device's storage at one of the two writes.
LoseRefresh(d) ==
    /\ flight[d].step \in {"sent", "save", "save2"} /\ lost < MaxLost
    /\ lost' = lost + 1
    /\ Abandon({flight[d].at})
    /\ Settle(d)
    /\ UNCHANGED <<server, aged, access, refresh, sign>>

Refresh(d) ==
    \/ (\E q \in Requests : Load(d, q)) \/ Refreshed(d)
    \/ SaveAccess(d) \/ SaveRefresh(d) \/ EndSession(d)

-----------------------------------------------------------------------------
(* The device: signing in and out.                                         *)

Signing(d, step, q, t) == sign' = [sign EXCEPT ![d] = [step |-> step, at |-> q, token |-> t]]

SignIn(d, q) ==
    /\ sign[d].step \in {"out", "ended"} /\ Free(q)
    /\ AskServer(q, "login", 0)
    /\ Signing(d, "login", q, 0)
    /\ UNCHANGED <<server, aged, access, refresh, caller, flight, lost>>

SignedIn(d) ==
    /\ sign[d].step = "login"
    /\ LET q == sign[d].at
       IN  /\ srv[q].step \in Answers
           /\ srv' = [srv EXCEPT ![q] = Idle]
           /\ IF srv[q].step = "ok" THEN Signing(d, "save", Nobody, srv[q].token)
                                    ELSE Signing(d, "out", Nobody, 0)
    /\ UNCHANGED <<server, aged, access, refresh, caller, flight, lost>>

Store(d) ==
    \/ /\ sign[d].step = "save"
       /\ access' = [access EXCEPT ![d] = sign[d].token]
       /\ Signing(d, "save2", Nobody, sign[d].token)
       /\ UNCHANGED <<server, aged, srv, refresh, caller, flight, lost>>
    \/ /\ sign[d].step = "save2"
       /\ refresh' = [refresh EXCEPT ![d] = sign[d].token]
       /\ Signing(d, "in", Nobody, 0)
       /\ UNCHANGED <<server, aged, srv, access, caller, flight, lost>>

SignOut(d, q) ==
    /\ sign[d].step = "in" /\ Free(q)
    /\ IF refresh[d] # 0
       THEN AskServer(q, "logout", refresh[d]) /\ Signing(d, "logout", q, 0)
       ELSE Signing(d, "clear", Nobody, 0) /\ UNCHANGED srv
    /\ UNCHANGED <<server, aged, access, refresh, caller, flight, lost>>

\* Best effort: the answer, or its loss.
LoggedOut(d) ==
    /\ sign[d].step = "logout"
    /\ LET q == sign[d].at
       IN  \/ /\ srv[q].step \in Answers
              /\ srv' = [srv EXCEPT ![q] = Idle]
              /\ UNCHANGED lost
           \/ /\ lost < MaxLost
              /\ lost' = lost + 1
              /\ Abandon({q})
    /\ Signing(d, "clear", Nobody, 0)
    /\ UNCHANGED <<server, aged, access, refresh, caller, flight>>

Clear(d) ==
    /\ sign[d].step = "clear"
    /\ access' = [access EXCEPT ![d] = 0]
    /\ refresh' = [refresh EXCEPT ![d] = 0]
    /\ Signing(d, "out", Nobody, 0)
    /\ UNCHANGED <<server, aged, srv, caller, flight, lost>>

\* The app is killed, and starts with what is stored (SessionProvider's effect).
Kill(d) ==
    /\ lost < MaxLost
    /\ lost' = lost + 1
    /\ flight' = [flight EXCEPT ![d] = NoFlight]
    /\ caller' = [c \in Callers |-> IF caller[c].by = d THEN NoCall ELSE caller[c]]
    /\ Signing(d, IF access[d] = 0 THEN "out" ELSE "in", Nobody, 0)
    /\ Abandon({flight[d].at, sign[d].at})
    /\ UNCHANGED <<server, aged, access, refresh>>

SignStep(d) == SignedIn(d) \/ Store(d) \/ LoggedOut(d) \/ Clear(d)

-----------------------------------------------------------------------------

CallerStep(c) == Respond(c) \/ Reload(c) \/ Join(c)

Next ==
    \/ \E q \in Requests :
         \/ ServerStep(q) \/ TurnAway(q)
         \/ \E op \in Remote, t \in Issued : AskRemotely(q, op, t)
    \/ \E t \in Issued : Expire(t)
    \/ \E c \in Callers : CallerStep(c) \/ \E d \in Devices : Send(d, c)
    \/ \E d \in Devices : \/ Refresh(d) \/ LoseRefresh(d) \/ SignStep(d) \/ Kill(d)
                          \/ \E q \in Requests : SignIn(d, q) \/ SignOut(d, q)

Init ==
    /\ tokens = <<>>
    /\ rowLock = [t \in Tokens |-> Nobody]
    /\ deleted = FALSE /\ password = 0
    /\ aged = 0
    /\ srv = [q \in Requests |-> Idle]
    /\ access = [d \in Devices |-> 0] /\ refresh = [d \in Devices |-> 0]
    /\ caller = [c \in Callers |-> NoCall]
    /\ flight = [d \in Devices |-> NoFlight]
    /\ sign = [d \in Devices |-> [step |-> "out", at |-> Nobody, token |-> 0]]
    /\ lost = 0 /\ ended = {} /\ reused = {}

Spec == Init /\ [][Next]_vars

\* The server answers, and the device runs on. Strong fairness only because the
\* slots for requests, which the server does not have, may all be taken.
Fairness ==
    /\ \A q \in Requests : WF_vars(ServerStep(q))
    /\ \A d \in Devices : SF_vars(Refresh(d)) /\ WF_vars(SignStep(d))

FairSpec == Spec /\ Fairness

-----------------------------------------------------------------------------
(* Properties.                                                             *)

Rows == [family : Tokens, used : BOOLEAN, revoked : BOOLEAN, password : {0, 1}]
Services == [step : {"idle", "burn", "issue", "look", "find", "revoke", "verify", "restore",
                     "insert"} \cup Answers,
             op : {"none", "refresh", "login", "logout", "reuse"} \cup Remote,
             token : 0 .. MaxTokens, todo : SUBSET Tokens]
Calls == [step : {"idle", "sent", "unauthorised", "joining", "waiting"},
          by : Devices, with : 0 .. MaxTokens]
Flights == [step : {"idle", "load", "sent", "save", "save2", "clear"},
            at : Requests \cup {Nobody}, token : 0 .. MaxTokens]
Signs == [step : {"out", "login", "save", "save2", "in", "ended", "logout", "clear"},
          at : Requests \cup {Nobody}, token : 0 .. MaxTokens]

TableTypes ==
    /\ tokens \in Seq(Rows)
    /\ Len(tokens) <= MaxTokens
    /\ rowLock \in [Tokens -> Requests \cup {Nobody}]
    /\ deleted \in BOOLEAN /\ password \in {0, 1}
    /\ ended \subseteq Tokens /\ reused \subseteq Tokens

DeviceTypes ==
    /\ aged \in 0 .. Len(tokens)
    /\ access \in [Devices -> 0 .. MaxTokens]
    /\ refresh \in [Devices -> 0 .. MaxTokens]
    /\ caller \in [Callers -> Calls]
    /\ flight \in [Devices -> Flights]
    /\ sign \in [Devices -> Signs]
    /\ lost \in 0 .. MaxLost

\* A row is locked by the request that is about to replace it.
LockedByBurn ==
    \A t \in Tokens : rowLock[t] # Nobody => srv[rowLock[t]].step = "issue" /\ srv[rowLock[t]].token = t

(* The types of the variables, and whose a lock is.                        *)
TypeOK == TableTypes /\ DeviceTypes /\ srv \in [Requests -> Services] /\ LockedByBurn

(* Of the tokens of a family one at most can still be used, however        *)
(* refreshes race each other and the revocations.                          *)
OneLive == \A t, s \in Issued : Live(t) /\ Live(s) /\ tokens[t].family = tokens[s].family => t = s

(* A family that a revocation found whole is over for good: no refresh, not *)
(* even one that was waiting for the row, brings it back.                   *)
EndedForGood == \A t \in Issued : tokens[t].family \in ended => ~Live(t)

(* The devices are never taken for a thief while every answer arrives and  *)
(* is stored, and the app is not killed: two calls that meet a 401 at once, *)
(* a sign-out or a sign-in during a refresh never present a token twice.   *)
NoFalseAlarm == lost = 0 => reused = {}

(* Whoever waits for a refresh goes on.                                    *)
CallersResume == \A c \in Callers : caller[c].step = "waiting" ~> caller[c].step # "waiting"

-----------------------------------------------------------------------------
(* Properties the code does not have.                                      *)

(* "Whatever happened above, this device holds no token afterwards."       *)
NothingHeldAfter ==
    \A d \in Devices : sign[d].step = "out" => access[d] = 0 /\ refresh[d] = 0

(* A revocation that was answered leaves nothing of a family alive:        *)
(* "Resets password and revokes all active refresh token families".        *)
ResetEndsAll == password = 1 => \A t \in Issued : tokens[t].password = 0 => ~Live(t)

(* "A network error ... keeps the tokens: the request fails, the user      *)
(* stays signed in": reuse is never seen, also when an answer is lost.     *)
StaysSignedIn == reused = {}

(* "Only the server rejecting the refresh token ends the session": what a  *)
(* refused refresh clears is the token that was refused.                   *)
EndsOwnSession ==
    [][\A d \in Devices : flight[d].step = "clear" /\ flight'[d].step # "clear"
                          => refresh[d] \in {0, flight[d].token}]_vars
=============================================================================
