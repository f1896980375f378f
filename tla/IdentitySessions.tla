-------------------------- MODULE IdentitySessions --------------------------
(***************************************************************************)
(* The first-party sessions of one account: login, exchange, refresh with  *)
(* rotation, logout, revocation and both password operations, as requests  *)
(* whose transactions interleave at the rows they lock                     *)
(* (identity/services/authentication.py, identity/repositories,            *)
(* api/routes/identity_auth.py).                                           *)
(*                                                                         *)
(* Tokens are numbers in the order they are issued.  A browser keeps the   *)
(* cookies of its session in a jar; the requests of its tabs take a copy   *)
(* and the answer replaces it when the transaction commits, unless it is   *)
(* lost.  Rate limits and the audit trail are left out, but the rows an    *)
(* audit entry refers to are locked as its foreign keys lock them.         *)
(***************************************************************************)
EXTENDS Integers, Sequences

CONSTANTS
    Session,      \* rows of identity.auth_sessions
    Request,      \* requests in flight at one time
    None,         \* no request, no session
    FailLimit,    \* identity_failed_login_limit
    MaxVersion,   \* bound: auth_version of the account
    MaxTokens,    \* bound: refresh tokens issued when a session begins or is refreshed
    MaxEvents     \* bound: failed logins, losses, expiries, suspensions

VARIABLES
    account,      \* the row of identity.users, with its drift
    session,      \* session[s]: the row of s
    userLock,     \* the request that locked the account's row for update
    sessionLock,  \* sessionLock[s]: the same for the row of s
    request,      \* request[q]: a request and what it knows
    jar,          \* jar[s]: the cookies in the browser of s
    issued,       \* tokens issued so far
    crossed,      \* history: sessions with overlapping requests or lost answers
    happened      \* events so far

locks == <<userLock, sessionLock>>
vars == <<account, session, locks, request, jar, issued, crossed, happened>>

Op == {"refresh", "logout", "revoke", "change"}
NoJar == [token |-> 0, version |-> 0]
NoRow == [state |-> "none", version |-> 0, token |-> 0, expired |-> FALSE, why |-> "none"]
Idle == [pc |-> "idle"]

Init ==
    /\ account = [version |-> 1, password |-> FALSE, failed |-> 0, locked |-> "no",
                  usable |-> TRUE]
    /\ session = [s \in Session |-> NoRow]
    /\ userLock = None
    /\ sessionLock = [s \in Session |-> None]
    /\ request = [q \in Request |-> Idle]
    /\ jar = [s \in Session |-> NoJar]
    /\ issued = 0
    /\ crossed = {}
    /\ happened = 0

Event == happened < MaxEvents /\ happened' = happened + 1

Live(s) == session[s].state = "live"
Revoked(row, why) == [row EXCEPT !.state = "revoked", !.why = why]

-----------------------------------------------------------------------------
(* Requests that lock nothing but the account's row.                       *)

\* _create_session, whose answer may be lost
Created(s) ==
    /\ session[s].state = "none"
    /\ issued < MaxTokens
    /\ issued' = issued + 1
    /\ session' = [session EXCEPT ![s] = [@ EXCEPT !.state = "live",
                      !.version = account.version, !.token = issued + 1]]
    /\ jar' = [jar EXCEPT ![s] = [token |-> issued + 1, version |-> account.version]]
    /\ UNCHANGED <<locks, request, crossed>>

\* A lock whose time is over is taken off when the next password is tried.
Fresh == IF account.locked = "over" THEN [account EXCEPT !.locked = "no", !.failed = 0]
                                    ELSE account

Login(s) ==
    /\ userLock = None
    /\ account.password /\ account.usable /\ account.locked # "yes"
    /\ account' = [account EXCEPT !.failed = 0, !.locked = "no"]
    /\ Created(s)
    /\ UNCHANGED happened

\* _record_failed_login
WrongPassword ==
    /\ Event
    /\ userLock = None
    /\ account.password
    /\ account' = IF account.usable /\ Fresh.locked = "no"
                  THEN [Fresh EXCEPT !.failed = @ + 1,
                                     !.locked = IF Fresh.failed + 1 >= FailLimit
                                                THEN "yes" ELSE "no"]
                  ELSE Fresh
    /\ UNCHANGED <<session, locks, request, jar, issued, crossed>>

\* exchange_supabase_session, with a Supabase session that was not used before
Exchange(s) ==
    /\ userLock = None
    /\ account.usable
    /\ Created(s)
    /\ UNCHANGED <<account, happened>>

\* The lock of the account runs out.
LockEnds ==
    /\ account.locked = "yes"
    /\ account' = [account EXCEPT !.locked = "over"]
    /\ UNCHANGED <<session, locks, request, jar, issued, crossed, happened>>

\* The account is disabled or drifts from its source, or recovers.
Toggle ==
    /\ Event
    /\ userLock = None
    /\ account' = [account EXCEPT !.usable = ~@]
    /\ UNCHANGED <<session, locks, request, jar, issued, crossed>>

SessionExpires(s) ==
    /\ Event
    /\ Live(s) /\ ~session[s].expired
    /\ session' = [session EXCEPT ![s].expired = TRUE]
    /\ UNCHANGED <<account, locks, request, jar, issued, crossed>>

-----------------------------------------------------------------------------
(* Requests that lock the account's row and rows of sessions.              *)

\* Variant: a refresh locks the session before the account.
StepsSessionFirst ==
    [refresh |-> <<"read", "session", "user", "finish">>,
     logout  |-> <<"session", "finish">>,
     revoke  |-> <<"validate", "session", "finish">>,
     change  |-> <<"user", "session", "finish">>,
     setup   |-> <<"user", "finish">>]

\* What each operation reads and locks, in its order.
Steps ==
    [refresh |-> <<"read", "user", "session", "finish">>,
     logout  |-> <<"session", "finish">>,
     revoke  |-> <<"validate", "session", "finish">>,
     change  |-> <<"user", "session", "finish">>,
     setup   |-> <<"user", "finish">>]

After(op, pc) ==
    LET i == CHOOSE i \in 1..Len(Steps[op]) : Steps[op][i] = pc IN Steps[op][i + 1]

\* A tab sends a request with the cookies of its browser; revoke names a
\* session of the account.
Send(q, op, s, target) ==
    /\ request[q].pc = "idle"
    /\ jar[s] # NoJar
    /\ op # "revoke" => target = s
    /\ request' = [request EXCEPT ![q] =
          [pc |-> Head(Steps[op]), op |-> op, jar |-> jar[s], own |-> s,
           target |-> target, seen |-> NoRow]]
    /\ crossed' = IF \E p \in Request : request[p].pc # "idle" /\ request[p].own = s
                  THEN crossed \cup {s} ELSE crossed
    /\ UNCHANGED <<account, session, locks, jar, issued, happened>>

\* setup_password comes with a Supabase token instead.
SendSetup(q) ==
    /\ request[q].pc = "idle"
    /\ ~account.password
    /\ request' = [request EXCEPT ![q] =
          [pc |-> Head(Steps["setup"]), op |-> "setup", jar |-> NoJar, own |-> None,
           target |-> None, seen |-> NoRow]]
    /\ UNCHANGED <<account, session, locks, jar, issued, crossed, happened>>

\* What _validate_access_state asks of a session and its account.
Valid(row, version) ==
    /\ row.state = "live" /\ ~row.expired
    /\ row.version = version /\ account.version = version
    /\ account.usable

\* refresh reads the session before it locks anything; the object that it reads
\* is the one it gets again once the row is locked.
ReadSession(q) ==
    /\ request[q].pc = "read"
    /\ request' = [request EXCEPT ![q].pc = After(request[q].op, "read"),
                                  ![q].seen = session[request[q].own]]
    /\ UNCHANGED <<account, session, locks, jar, issued, crossed, happened>>

\* _validate_principal_state, which locks nothing
Validate(q) ==
    /\ request[q].pc = "validate"
    /\ request' = [request EXCEPT ![q] =
          IF Valid(session[request[q].own], request[q].jar.version)
          THEN [@ EXCEPT !.pc = After("revoke", "validate"), !.seen = session[request[q].own]]
          ELSE Idle]
    /\ UNCHANGED <<account, session, locks, jar, issued, crossed, happened>>

LockUser(q) ==
    /\ request[q].pc = "user"
    /\ userLock = None
    /\ userLock' = q
    /\ request' = [request EXCEPT ![q].pc = After(request[q].op, "user")]
    /\ UNCHANGED <<account, session, sessionLock, jar, issued, crossed, happened>>

\* get_for_update; revoke_session has read its own session already
LockSession(q) ==
    LET s == request[q].target
        known == request[q].op \in {"refresh", "revoke"} /\ s = request[q].own
    IN
    /\ request[q].pc = "session"
    /\ sessionLock[s] = None
    /\ sessionLock' = [sessionLock EXCEPT ![s] = q]
    /\ request' = [request EXCEPT ![q].pc = After(request[q].op, "session"),
                                  ![q].seen = IF known THEN @ ELSE session[s]]
    /\ UNCHANGED <<account, session, userLock, jar, issued, crossed, happened>>

\* The transaction commits or is rolled back: its locks are free.
Unlock(q) ==
    /\ userLock' = IF userLock = q THEN None ELSE userLock
    /\ sessionLock' = [s \in Session |-> IF sessionLock[s] = q THEN None
                                                              ELSE sessionLock[s]]
    /\ request' = [request EXCEPT ![q] = Idle]

\* The answer arrives with other cookies, or is lost.
Commit(q, cookies) ==
    /\ Unlock(q)
    /\ \/ jar' = [jar EXCEPT ![request[q].own] = cookies] /\ UNCHANGED <<crossed, happened>>
       \/ /\ Event
          /\ crossed' = crossed \cup {request[q].own}
          /\ UNCHANGED jar

\* An error leaves the cookies alone.
Fail(q) == Unlock(q) /\ UNCHANGED <<jar, crossed, happened>>

At(q, op) == request[q].pc = "finish" /\ request[q].op = op

\* Variant: every column of the row is written, as it was read.
RotatedWhole(row, seen, token) == [seen EXCEPT !.token = token]

\* Only the columns that change are written.
Rotated(row, seen, token) == [row EXCEPT !.token = token]

FinishRefresh(q) ==
    LET s == request[q].own
        seen == request[q].seen
        mismatch == seen.token # request[q].jar.token
        fit == /\ seen.state = "live" /\ ~seen.expired
               /\ account.usable /\ seen.version = account.version
        why == IF mismatch THEN "replay" ELSE "ended"
    IN
    /\ At(q, "refresh")
    /\ \/ /\ ~mismatch /\ fit
          /\ issued < MaxTokens
          /\ issued' = issued + 1
          /\ session' = [session EXCEPT ![s] = Rotated(@, seen, issued + 1)]
          /\ Commit(q, [token |-> issued + 1, version |-> account.version])
       \/ /\ mismatch \/ ~fit
          /\ session' = [session EXCEPT ![s] =
                IF seen.state = "live" THEN Revoked(@, why) ELSE @]
          /\ Fail(q)
          /\ UNCHANGED issued
    /\ UNCHANGED account

\* Session and audit entry are written together; the entry refers to the account.
FinishLogout(q) ==
    LET seen == request[q].seen
        why == IF seen.token = request[q].jar.token THEN "ended" ELSE "replay"
    IN
    /\ At(q, "logout")
    /\ userLock \in {None, q}
    /\ session' = [session EXCEPT ![request[q].own] =
          IF seen.state = "live" THEN Revoked(@, why) ELSE @]
    /\ Commit(q, NoJar)
    /\ UNCHANGED <<account, issued>>

\* The cookies are cleared where the session was the request's own.
FinishRevoke(q) ==
    LET s == request[q].target
        own == s = request[q].own
    IN
    /\ At(q, "revoke")
    /\ userLock \in {None, q}
    /\ session' = [session EXCEPT ![s] =
          IF request[q].seen.state = "live" THEN Revoked(@, "ended") ELSE @]
    /\ Commit(q, IF own THEN NoJar ELSE jar[request[q].own])
    /\ UNCHANGED <<account, issued>>

\* Variant: sessions that others have locked are passed over.
OthersSkipped(q, kept, row) ==
    session' = [s \in Session |->
        IF s \in kept THEN row
        ELSE IF Live(s) /\ sessionLock[s] = None THEN Revoked(session[s], "ended")
        ELSE session[s]]

\* revoke_active_for_user, which waits for the rows that others have locked
OthersRevoked(q, kept, row) ==
    /\ \A s \in Session \ kept : Live(s) => sessionLock[s] \in {None, q}
    /\ session' = [s \in Session |->
        IF s \in kept THEN row
        ELSE IF Live(s) THEN Revoked(session[s], "ended") ELSE session[s]]

NewPassword == [account EXCEPT !.version = @ + 1, !.password = TRUE, !.failed = 0,
                               !.locked = "no"]

\* The session is rotated if its principal is still valid and named the right
\* password.
FinishChange(q) ==
    LET s == request[q].own
        fresh == [token |-> issued + 1, version |-> account.version + 1]
    IN
    /\ At(q, "change")
    /\ \/ /\ account.password /\ Valid(request[q].seen, request[q].jar.version)
          /\ account.version < MaxVersion
          /\ issued' = issued + 1
          /\ account' = NewPassword
          /\ OthersRevoked(q, {s}, [session[s] EXCEPT !.token = fresh.token,
                                                     !.version = fresh.version])
          /\ Commit(q, fresh)
       \/ Fail(q) /\ UNCHANGED <<account, session, issued>>

\* setup_password, for an account without one
FinishSetup(q) ==
    /\ At(q, "setup")
    /\ \/ /\ ~account.password /\ account.usable
          /\ account.version < MaxVersion
          /\ account' = NewPassword
          /\ OthersRevoked(q, {}, NoRow)
       \/ UNCHANGED <<account, session>>
    /\ Fail(q)
    /\ UNCHANGED issued

\* The request that waits for a row another one has locked.
WaitsFor(q, p) ==
    /\ q # p
    /\ \/ request[q].pc = "user" /\ userLock = p
       \/ request[q].pc = "session" /\ sessionLock[request[q].target] = p
       \/ /\ request[q].pc = "finish" /\ request[q].op \in {"logout", "revoke"}
          /\ userLock = p
       \/ /\ request[q].pc = "finish" /\ request[q].op \in {"change", "setup"}
          /\ \E s \in Session : Live(s) /\ sessionLock[s] = p

\* The database ends one of two transactions that wait for each other.
Deadlock(q) ==
    /\ \E p \in Request : WaitsFor(q, p) /\ WaitsFor(p, q)
    /\ Fail(q)
    /\ UNCHANGED <<account, session, issued>>

Next ==
    \/ WrongPassword \/ LockEnds \/ Toggle
    \/ \E s \in Session : Login(s) \/ Exchange(s) \/ SessionExpires(s)
    \/ \E q \in Request :
          \/ \E op \in Op, s, target \in Session : Send(q, op, s, target)
          \/ SendSetup(q) \/ ReadSession(q) \/ Validate(q)
          \/ LockUser(q) \/ LockSession(q)
          \/ FinishRefresh(q) \/ FinishLogout(q) \/ FinishRevoke(q)
          \/ FinishChange(q) \/ FinishSetup(q)
          \/ Deadlock(q)

Spec == Init /\ [][Next]_vars
-----------------------------------------------------------------------------
\* Whoever changes or sets the password leaves no live session of an earlier
\* version behind, though logins, exchanges, refreshes and revocations of the
\* same account go on at the same time.
LiveIsCurrent == \A s \in Session : Live(s) => session[s].version = account.version

\* A session that was revoked is never live again, nor its reason forgotten for
\* a rotation: also when a refresh has read it before it was revoked.
RevokedIsFinal ==
    [][\A s \in Session : session[s].state = "revoked" =>
          session'[s].state = "revoked" /\ session'[s].version = session[s].version]_vars

\* A browser whose requests do not overlap and whose answers arrive is never
\* taken for a replay: its session ends only by what its user or the account
\* did, and while the session is live its cookies are the current ones.
BrowserStaysSignedIn ==
    \A s \in Session \ crossed :
        /\ session[s].why # "replay"
        /\ Live(s) /\ jar[s] # NoJar /\ (\A q \in Request : request[q].pc = "idle") =>
              jar[s] = [token |-> session[s].token, version |-> session[s].version]

\* The sessions of an account and the cookies of its browsers agree with it.
SessionsConsistent == LiveIsCurrent /\ BrowserStaysSignedIn

\* Two transactions wait for each other only if one of them is a logout or a
\* revocation, which lock a session before their audit entry needs the account;
\* refreshes and password changes among themselves never do.
DeadlockNeedsSessionFirst ==
    \A p, q \in Request :
        WaitsFor(p, q) /\ WaitsFor(q, p) =>
            {request[p].op, request[q].op} \cap {"logout", "revoke"} # {}
==============================================================================
