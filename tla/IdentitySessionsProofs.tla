----------------------- MODULE IdentitySessionsProofs -----------------------
(***************************************************************************)
(* Theorems about IdentitySessions: no live session is of an earlier       *)
(* password, none that was revoked comes back, a browser whose requests do *)
(* not overlap is never taken for a replay, and a deadlock needs a logout  *)
(* or a revocation.                                                        *)
(*                                                                         *)
(* What carries the proof is who may write to a row: a session that a      *)
(* request has locked is changed by nobody else, tokens and versions only  *)
(* by requests of the session's own browser.                               *)
(***************************************************************************)
EXTENDS IdentitySessions, TLAPS

\* What the theorems assume of the constants.
Setting == None \notin Request

-----------------------------------------------------------------------------
(* The inductive invariant.                                                *)

RowFields == {"state", "version", "token", "expired", "why"}
RequestFields == {"pc", "op", "jar", "own", "target", "seen"}
AccountFields == {"version", "password", "failed", "locked", "usable"}

Active(q) == request[q].pc # "idle"

\* The columns of the rows and the fields of the requests.
Shape ==
    /\ DOMAIN account = AccountFields
    /\ DOMAIN session = Session /\ \A s \in Session : DOMAIN session[s] = RowFields
    /\ DOMAIN jar = Session /\ DOMAIN sessionLock = Session
    /\ DOMAIN request = Request
    /\ \A q \in Request : Active(q) => DOMAIN request[q] = RequestFields

\* Where an operation may be.
Points(op) ==
    CASE op = "refresh" -> {"read", "user", "session", "finish"}
      [] op = "logout" -> {"session", "finish"}
      [] op = "revoke" -> {"validate", "session", "finish"}
      [] op = "change" -> {"user", "session", "finish"}
      [] op = "setup" -> {"user", "finish"}

\* A request is at a point of its operation, and comes from the browser of a
\* session that exists.
Programs ==
    \A q \in Request : Active(q) =>
        /\ request[q].op \in Op \cup {"setup"}
        /\ request[q].pc \in Points(request[q].op)
        /\ request[q].op \in Op =>
              /\ request[q].own \in Session /\ request[q].target \in Session
              /\ request[q].op # "revoke" => request[q].target = request[q].own
              /\ session[request[q].own].state # "none"

\* Requests that lock the account's row do it before anything else.
HasUser(q) ==
    \/ request[q].op \in {"refresh", "change"} /\ request[q].pc \in {"session", "finish"}
    \/ request[q].op = "setup" /\ request[q].pc = "finish"

HasSession(q, s) ==
    request[q].op \in Op /\ request[q].pc = "finish" /\ request[q].target = s

\* Who holds which lock.
LocksSound ==
    \A q \in Request :
        /\ Active(q) /\ HasUser(q) => userLock = q
        /\ \A s \in Session : sessionLock[s] = q <=> Active(q) /\ HasSession(q, s)

\* The row a password change has locked is as it read it; a revocation found the
\* row it is going to end.
SeenIsCurrent ==
    \A q \in Request : Active(q) /\ request[q].pc = "finish" =>
        /\ request[q].op = "change" =>
              request[q].seen.state = session[request[q].own].state
        /\ request[q].op = "revoke" /\ request[q].seen.state = "live" =>
              session[request[q].target].state # "none"

Cookies(s) == [token |-> session[s].token, version |-> session[s].version]

\* Cookies belong to a session, and are the current ones where nothing crossed.
JarsCurrent ==
    \A s \in Session :
        /\ jar[s] # NoJar => session[s].state # "none"
        /\ s \notin crossed =>
              session[s].why # "replay" /\ jar[s] \in {NoJar, Cookies(s)}

\* A request has read the row it rotates or ends.
HasRead(q) ==
    \/ request[q].op = "refresh" /\ request[q].pc # "read"
    \/ request[q].op = "logout" /\ request[q].pc = "finish"

\* Where nothing crossed, the request of a browser is its only one, carries the
\* current cookies, and what it read of the row is what the row still says.
AloneInBrowser ==
    \A q \in Request :
        Active(q) /\ request[q].op \in Op /\ request[q].own \notin crossed =>
            /\ request[q].jar = jar[request[q].own] /\ request[q].jar # NoJar
            /\ \A p \in Request \ {q} :
                  Active(p) /\ request[p].op \in Op => request[p].own # request[q].own
            /\ HasRead(q) =>
                  /\ request[q].seen.token = session[request[q].own].token
                  /\ request[q].seen.version = session[request[q].own].version

SessionInv ==
    /\ Shape /\ Programs /\ LocksSound /\ SeenIsCurrent
    /\ JarsCurrent /\ AloneInBrowser /\ LiveIsCurrent

-----------------------------------------------------------------------------
(* Helpers.                                                                *)

\* Where an operation goes on after each of its points, in the order of its reads
\* and locks.
LEMMA NextPoint ==
    /\ After("refresh", "read") = "user"
    /\ After("refresh", "user") = "session"
    /\ After("refresh", "session") = "finish"
    /\ After("logout", "session") = "finish"
    /\ After("revoke", "validate") = "session"
    /\ After("revoke", "session") = "finish"
    /\ After("change", "user") = "session"
    /\ After("change", "session") = "finish"
    /\ After("setup", "user") = "finish"
BY DEF After, Steps

\* Where an operation begins: never at its end, and a refresh with its unlocked
\* read.
LEMMA FirstPoint ==
    /\ \A op \in Op \cup {"setup"} :
          Head(Steps[op]) \in Points(op) /\ Head(Steps[op]) # "finish"
    /\ Head(Steps["refresh"]) = "read" /\ Head(Steps["change"]) = "user"
BY DEF Steps, Op, Points

\* An account without sessions and requests.
LEMMA InitKeeps ==
    ASSUME Setting, Init
    PROVE  SessionInv
<1>1. Shape
  BY DEF Init, Shape, AccountFields, RowFields, NoRow, Idle, Active
<1>2. Programs /\ SeenIsCurrent /\ AloneInBrowser
  BY DEF Init, Programs, SeenIsCurrent, AloneInBrowser, Active, Idle
<1>3. LocksSound
  BY DEF Init, LocksSound, Active, Idle, Setting
<1>4. JarsCurrent /\ LiveIsCurrent
  BY DEF Init, JarsCurrent, LiveIsCurrent, Live, NoRow
<1> QED BY <1>1, <1>2, <1>3, <1>4 DEF SessionInv

\* A step that leaves requests, locks and browsers alone, and of every row what the
\* invariant speaks of.
LEMMA AccountKeeps ==
    ASSUME SessionInv, DOMAIN account' = AccountFields,
           account'.version = account.version,
           UNCHANGED <<session, userLock, sessionLock, request, jar, crossed>>
    PROVE  SessionInv'
BY DEF SessionInv, Shape, Programs, LocksSound, HasUser, HasSession, SeenIsCurrent,
   JarsCurrent, Cookies,
       AloneInBrowser, HasRead, LiveIsCurrent, Live, Active

\* Taking an expired lock off the account keeps its auth_version.
LEMMA FreshVersion ==
    ASSUME Shape
    PROVE  DOMAIN Fresh = AccountFields /\ Fresh.version = account.version
BY DEF Shape, AccountFields, Fresh

-----------------------------------------------------------------------------
(* Requests that lock the account alone.                                   *)

\* A wrong password counts a failure, and perhaps locks the account.
LEMMA WrongPasswordKeeps ==
    ASSUME SessionInv, WrongPassword
    PROVE  SessionInv'
<1>1. \/ account' = Fresh
      \/ \E f, l : account' = [Fresh EXCEPT !.failed = f, !.locked = l]
  BY DEF WrongPassword
<1>2. DOMAIN account' = AccountFields /\ account'.version = account.version
  BY <1>1, FreshVersion DEF SessionInv, AccountFields
<1> QED BY <1>2, AccountKeeps DEF WrongPassword, locks

\* The lock of the account runs out.
LEMMA LockEndsKeeps ==
    ASSUME SessionInv, LockEnds
    PROVE  SessionInv'
BY AccountKeeps DEF LockEnds, locks, SessionInv, Shape, AccountFields

\* The account is disabled, drifts, or recovers.
LEMMA ToggleKeeps ==
    ASSUME SessionInv, Toggle
    PROVE  SessionInv'
BY AccountKeeps DEF Toggle, locks, SessionInv, Shape, AccountFields

\* A session expires.
LEMMA ExpiresKeeps ==
    ASSUME SessionInv, NEW s \in Session, SessionExpires(s)
    PROVE  SessionInv'
<1> USE DEF SessionExpires, locks
<1>1. /\ DOMAIN session' = Session
      /\ \A t \in Session :
            /\ DOMAIN session'[t] = RowFields
            /\ session'[t].state = session[t].state
            /\ session'[t].version = session[t].version
            /\ session'[t].token = session[t].token
            /\ session'[t].why = session[t].why
  BY DEF SessionInv, Shape, RowFields
<1>2. Shape'
  BY <1>1 DEF SessionInv, Shape, Active
<1>3. Programs' /\ SeenIsCurrent' /\ AloneInBrowser'
  BY <1>1 DEF SessionInv, Programs, SeenIsCurrent, AloneInBrowser, HasRead, Active
<1>4. LocksSound'
  BY DEF SessionInv, LocksSound, HasUser, HasSession, Active
<1>5. JarsCurrent' /\ LiveIsCurrent'
  BY <1>1 DEF SessionInv, JarsCurrent, LiveIsCurrent, Live, Cookies
<1> QED BY <1>2, <1>3, <1>4, <1>5 DEF SessionInv

\* _create_session: the new row has the current auth_version, and the browser its
\* cookies; no request can come from a session that did not exist.
LEMMA CreatedKeeps ==
    ASSUME SessionInv, NEW s \in Session, Created(s),
           DOMAIN account' = AccountFields, account'.version = account.version
    PROVE  SessionInv'
<1> USE DEF Created, locks
<1>0. session[s].state = "none"
  OBVIOUS
<1>1. /\ DOMAIN session' = Session /\ DOMAIN session'[s] = RowFields
      /\ session'[s].state = "live" /\ session'[s].version = account.version
      /\ session'[s].token = issued + 1 /\ session'[s].why = session[s].why
      /\ \A t \in Session \ {s} : session'[t] = session[t]
  BY DEF SessionInv, Shape, RowFields
<1>2. /\ DOMAIN jar' = Session /\ jar'[s] = Cookies(s)'
      /\ \A t \in Session \ {s} : jar'[t] = jar[t]
  BY <1>1 DEF SessionInv, Shape, Cookies
<1>3. \A q \in Request : Active(q) /\ request[q].op \in Op => request[q].own # s
  BY <1>0 DEF SessionInv, Programs
<1>4. Shape'
  BY <1>1, <1>2 DEF SessionInv, Shape, Active
<1>5. Programs'
  BY <1>1 DEF SessionInv, Programs, Active
<1>6. LocksSound'
  BY DEF SessionInv, LocksSound, HasUser, HasSession, Active
<1>7. SeenIsCurrent'
  BY <1>1, <1>3 DEF SessionInv, SeenIsCurrent, Programs, Active, Op
<1>8. JarsCurrent'
  BY <1>1, <1>2 DEF SessionInv, JarsCurrent, Cookies
<1>9. AloneInBrowser'
  BY <1>1, <1>2, <1>3 DEF SessionInv, AloneInBrowser, Programs, HasRead, Active
<1>10. LiveIsCurrent'
  BY <1>1 DEF SessionInv, LiveIsCurrent, Live
<1> QED BY <1>4, <1>5, <1>6, <1>7, <1>8, <1>9, <1>10 DEF SessionInv

\* A login or an exchange of a Supabase session creates a session.
LEMMA LoginKeeps ==
    ASSUME SessionInv, NEW s \in Session, Login(s) \/ Exchange(s)
    PROVE  SessionInv'
<1>1. DOMAIN account' = AccountFields /\ account'.version = account.version
  BY DEF Login, Exchange, SessionInv, Shape, AccountFields
<1> QED BY <1>1, CreatedKeeps DEF Login, Exchange

-----------------------------------------------------------------------------
(* Requests on their way.                                                  *)

\* A tab sends a request: with the current cookies, or the session counts as
\* crossed when another request of it is on its way.
LEMMA SendKeeps ==
    ASSUME Setting, SessionInv, NEW q \in Request, NEW op \in Op,
           NEW s \in Session, NEW target \in Session,
           Send(q, op, s, target)
    PROVE  SessionInv'
<1> USE DEF Send, locks
<1>1. /\ DOMAIN request' = Request /\ DOMAIN request'[q] = RequestFields
      /\ request'[q].pc = Head(Steps[op]) /\ request'[q].op = op
      /\ request'[q].jar = jar[s]
      /\ request'[q].own = s /\ request'[q].target = target
      /\ \A p \in Request \ {q} : request'[p] = request[p]
      /\ ~Active(q)
  BY DEF SessionInv, Shape, RequestFields, Active
<1>2. /\ Head(Steps[op]) \in Points(op) /\ Head(Steps[op]) # "finish"
      /\ op = "refresh" => Head(Steps[op]) = "read"
      /\ op = "change" => Head(Steps[op]) = "user"
  BY FirstPoint
<1>3. Shape'
  BY <1>1 DEF SessionInv, Shape, Active
<1>4. Programs'
  BY <1>1, <1>2 DEF SessionInv, Programs, Active, JarsCurrent
<1>5. LocksSound'
  BY <1>1, <1>2 DEF SessionInv, LocksSound, HasUser, HasSession, Active, Op
<1>6. SeenIsCurrent' /\ LiveIsCurrent' /\ JarsCurrent'
  BY <1>1, <1>2 DEF SessionInv, SeenIsCurrent, LiveIsCurrent, Live, JarsCurrent,
     Cookies, Active
<1>7. AloneInBrowser'
  BY <1>1, <1>2 DEF SessionInv, AloneInBrowser, Active, HasRead
<1> QED BY <1>3, <1>4, <1>5, <1>6, <1>7 DEF SessionInv

\* A request to set a first password, which belongs to no session.
LEMMA SendSetupKeeps ==
    ASSUME Setting, SessionInv, NEW q \in Request, SendSetup(q)
    PROVE  SessionInv'
<1> USE DEF SendSetup, locks
<1>1. /\ DOMAIN request' = Request /\ DOMAIN request'[q] = RequestFields
      /\ request'[q].pc = Head(Steps["setup"]) /\ request'[q].op = "setup"
      /\ \A p \in Request \ {q} : request'[p] = request[p]
      /\ ~Active(q)
  BY DEF SessionInv, Shape, RequestFields, Active
<1>2. /\ Head(Steps["setup"]) \in Points("setup") /\ Head(Steps["setup"]) # "finish"
  BY FirstPoint
<1>3. Shape'
  BY <1>1 DEF SessionInv, Shape, Active
<1>4. Programs'
  BY <1>1, <1>2 DEF SessionInv, Programs, Active, Op
<1>5. LocksSound'
  BY <1>1, <1>2 DEF SessionInv, LocksSound, HasUser, HasSession, Active, Op
<1>6. SeenIsCurrent' /\ LiveIsCurrent' /\ JarsCurrent'
  BY <1>1, <1>2 DEF SessionInv, SeenIsCurrent, LiveIsCurrent, Live, JarsCurrent,
     Cookies, Active
<1>7. AloneInBrowser'
  BY <1>1, <1>2 DEF SessionInv, AloneInBrowser, Active, HasRead, Op
<1> QED BY <1>3, <1>4, <1>5, <1>6, <1>7 DEF SessionInv

\* refresh reads its session without a lock.
LEMMA ReadSessionKeeps ==
    ASSUME Setting, SessionInv, NEW q \in Request, ReadSession(q)
    PROVE  SessionInv'
<1> USE DEF ReadSession, locks
<1>0. Active(q) /\ request[q].op = "refresh" /\ DOMAIN request[q] = RequestFields
  BY DEF SessionInv, Programs, Points, Op, Active, Shape
<1>1. /\ DOMAIN request' = Request /\ DOMAIN request'[q] = RequestFields
      /\ request'[q].pc = "user" /\ request'[q].op = "refresh"
      /\ request'[q].jar = request[q].jar
      /\ request'[q].own = request[q].own /\ request'[q].target = request[q].target
      /\ request'[q].seen = session[request[q].own]
      /\ \A p \in Request \ {q} : request'[p] = request[p]
  BY <1>0, NextPoint DEF SessionInv, Shape, RequestFields
<1>3. Shape'
  BY <1>1 DEF SessionInv, Shape, Active
<1>4. Programs'
  BY <1>0, <1>1 DEF SessionInv, Programs, Active, Points, Op
<1>5. LocksSound'
  BY <1>0, <1>1 DEF SessionInv, LocksSound, HasUser, HasSession, Active, Op
<1>6. SeenIsCurrent' /\ LiveIsCurrent' /\ JarsCurrent'
  BY <1>1 DEF SessionInv, SeenIsCurrent, LiveIsCurrent, Live, JarsCurrent, Cookies,
     Active
<1>7. AloneInBrowser'
  BY <1>0, <1>1 DEF SessionInv, AloneInBrowser, Active, HasRead, Op
<1> QED BY <1>3, <1>4, <1>5, <1>6, <1>7 DEF SessionInv

\* revoke_session checks its principal without a lock.
LEMMA ValidateKeeps ==
    ASSUME Setting, SessionInv, NEW q \in Request, Validate(q)
    PROVE  SessionInv'
<1> USE DEF Validate, locks
<1>0. Active(q) /\ request[q].op = "revoke" /\ DOMAIN request[q] = RequestFields
  BY DEF SessionInv, Programs, Points, Op, Active, Shape
<1>1. /\ DOMAIN request' = Request
      /\ \A p \in Request \ {q} : request'[p] = request[p]
      /\ \/ request'[q].pc = "idle"
         \/ /\ DOMAIN request'[q] = RequestFields
            /\ request'[q].pc = "session" /\ request'[q].op = "revoke"
            /\ request'[q].jar = request[q].jar
            /\ request'[q].own = request[q].own
            /\ request'[q].target = request[q].target
  <2>1. CASE Valid(session[request[q].own], request[q].jar.version)
    BY <1>0, <2>1, NextPoint DEF SessionInv, Shape, RequestFields
  <2>2. CASE ~Valid(session[request[q].own], request[q].jar.version)
    BY <1>0, <2>2 DEF SessionInv, Shape, Idle
  <2> QED BY <2>1, <2>2
<1>3. Shape'
  BY <1>1 DEF SessionInv, Shape, Active
<1>4. Programs'
  BY <1>0, <1>1 DEF SessionInv, Programs, Active, Points, Op
<1>5. LocksSound'
  BY <1>0, <1>1 DEF SessionInv, LocksSound, HasUser, HasSession, Active, Op
<1>6. SeenIsCurrent' /\ LiveIsCurrent' /\ JarsCurrent'
  BY <1>1 DEF SessionInv, SeenIsCurrent, LiveIsCurrent, Live, JarsCurrent, Cookies,
     Active
<1>7. AloneInBrowser'
  BY <1>0, <1>1 DEF SessionInv, AloneInBrowser, Active, HasRead, Op
<1> QED BY <1>3, <1>4, <1>5, <1>6, <1>7 DEF SessionInv

\* get_for_update on the account: only one request has passed it.
LEMMA LockUserKeeps ==
    ASSUME Setting, SessionInv, NEW q \in Request, LockUser(q)
    PROVE  SessionInv'
<1> USE DEF LockUser
<1>0. /\ Active(q) /\ request[q].op \in {"refresh", "change", "setup"}
      /\ DOMAIN request[q] = RequestFields
  BY DEF SessionInv, Programs, Points, Op, Active, Shape
<1>1. /\ DOMAIN request' = Request /\ DOMAIN request'[q] = RequestFields
      /\ request'[q].pc = IF request[q].op = "setup" THEN "finish" ELSE "session"
      /\ request'[q].op = request[q].op /\ request'[q].jar = request[q].jar
      /\ request'[q].own = request[q].own /\ request'[q].target = request[q].target
      /\ request'[q].seen = request[q].seen
      /\ \A p \in Request \ {q} : request'[p] = request[p]
  BY <1>0, NextPoint DEF SessionInv, Shape, RequestFields
<1>3. Shape'
  BY <1>1 DEF SessionInv, Shape, Active
<1>4. Programs'
  BY <1>0, <1>1 DEF SessionInv, Programs, Active, Points, Op
<1>5. LocksSound'
  BY <1>0, <1>1 DEF SessionInv, LocksSound, HasUser, HasSession, Active, Op, Setting
<1>6. SeenIsCurrent' /\ LiveIsCurrent' /\ JarsCurrent'
  BY <1>1 DEF SessionInv, SeenIsCurrent, LiveIsCurrent, Live, JarsCurrent, Cookies,
     Active
<1>7. AloneInBrowser'
  BY <1>0, <1>1 DEF SessionInv, AloneInBrowser, Active, HasRead, Op
<1> QED BY <1>3, <1>4, <1>5, <1>6, <1>7 DEF SessionInv

\* get_for_update on a session; what a logout or a password change has read of
\* it is what the locked row says.
LEMMA LockSessionKeeps ==
    ASSUME Setting, SessionInv, NEW q \in Request, LockSession(q)
    PROVE  SessionInv'
<1> DEFINE s == request[q].target
<1> USE DEF LockSession
<1>0. /\ Active(q) /\ request[q].op \in Op /\ DOMAIN request[q] = RequestFields
      /\ request[q].pc = "session" /\ s \in Session /\ request[q].own \in Session
      /\ request[q].op # "revoke" => s = request[q].own
  BY DEF SessionInv, Programs, Points, Op, Active, Shape
<1>1. /\ DOMAIN request' = Request /\ DOMAIN request'[q] = RequestFields
      /\ request'[q].pc = "finish"
      /\ request'[q].op = request[q].op /\ request'[q].jar = request[q].jar
      /\ request'[q].own = request[q].own /\ request'[q].target = request[q].target
      /\ request[q].op = "refresh" => request'[q].seen = request[q].seen
      /\ request[q].op \in {"logout", "change"} => request'[q].seen = session[request[q].own]
      /\ \A p \in Request \ {q} : request'[p] = request[p]
  BY <1>0, NextPoint DEF SessionInv, Shape, RequestFields, Op
<1>2. /\ DOMAIN sessionLock' = Session /\ sessionLock[s] = None
      /\ sessionLock'[s] = q
      /\ \A t \in Session \ {s} : sessionLock'[t] = sessionLock[t]
  BY <1>0 DEF SessionInv, Shape
<1>3. Shape'
  BY <1>1, <1>2 DEF SessionInv, Shape, Active
<1>4. Programs'
  BY <1>0, <1>1 DEF SessionInv, Programs, Active, Points, Op
<1>5. LocksSound'
  BY <1>0, <1>1, <1>2 DEF SessionInv, LocksSound, HasUser, HasSession, Active, Op,
     Setting
<1>6. LiveIsCurrent' /\ JarsCurrent'
  BY <1>1 DEF SessionInv, LiveIsCurrent, Live, JarsCurrent, Cookies
<1>8. request[q].op = "revoke" /\ request'[q].seen.state = "live" =>
          session[s].state # "none"
  <2>1. CASE s = request[q].own
    BY <2>1, <1>0 DEF SessionInv, Programs
  <2>2. CASE s # request[q].own
    <3>1. request'[q].seen = session[s]
      BY <2>2, <1>0 DEF SessionInv, Shape, RequestFields
    <3> QED BY <3>1
  <2> QED BY <2>1, <2>2
<1>9. SeenIsCurrent'
  BY <1>0, <1>1, <1>8 DEF SessionInv, SeenIsCurrent, Active
<1>7. AloneInBrowser'
  BY <1>0, <1>1 DEF SessionInv, AloneInBrowser, Active, HasRead, Op
<1> QED BY <1>3, <1>4, <1>5, <1>6, <1>7, <1>9 DEF SessionInv

-----------------------------------------------------------------------------
(* The end of a transaction.                                               *)

\* A transaction that ends keeps the invariant, whatever it was, if it changed
\* rows it could lock, ended none by deleting it, left tokens, versions and
\* cookies of other browsers alone, and the two facts about sessions hold again.
LEMMA EndKeeps ==
    ASSUME Setting, SessionInv, NEW q \in Request, Active(q), Unlock(q),
           DOMAIN account' = AccountFields, DOMAIN jar' = Session,
           crossed \subseteq crossed',
           DOMAIN session' = Session,
           \A s \in Session :
              /\ DOMAIN session'[s] = RowFields
              /\ session'[s].state = "none" <=> session[s].state = "none"
              /\ session'[s] = session[s] \/ sessionLock[s] \in {None, q}
              /\ request[q].op = "setup" \/ s # request[q].own =>
                    /\ session'[s].token = session[s].token
                    /\ session'[s].version = session[s].version
                    /\ jar'[s] = jar[s],
           JarsCurrent', LiveIsCurrent'
    PROVE  SessionInv'
<1>1. /\ DOMAIN request' = Request /\ request'[q].pc = "idle"
      /\ \A p \in Request \ {q} : request'[p] = request[p]
  BY DEF SessionInv, Shape, Unlock, Idle
<1>2. Shape'
  BY <1>1 DEF SessionInv, Shape, Active, Unlock
<1>3. Programs'
  BY <1>1 DEF SessionInv, Programs, Active
<1>4. LocksSound'
  BY <1>1 DEF SessionInv, LocksSound, HasUser, HasSession, Active, Unlock, Setting
<1>5. SeenIsCurrent'
  <2> SUFFICES ASSUME NEW p \in Request \ {q}, Active(p), request[p].pc = "finish"
               PROVE  /\ request[p].op = "change" =>
                            request[p].seen.state = session'[request[p].own].state
                      /\ request[p].op = "revoke" /\ request[p].seen.state = "live" =>
                            session'[request[p].target].state # "none"
    BY <1>1 DEF SeenIsCurrent, Active
  <2>1. /\ request[p].op \in Op =>
              request[p].own \in Session /\ request[p].target \in Session
        /\ request[p].op = "change" => request[p].target = request[p].own
    BY DEF SessionInv, Programs, Op
  <2>2. CASE request[p].op = "change"
    <3>1. sessionLock[request[p].own] = p
      BY <2>1, <2>2 DEF SessionInv, LocksSound, HasSession, Op
    <3>2. session'[request[p].own] = session[request[p].own]
      BY <2>1, <2>2, <3>1 DEF Setting, Op
    <3> QED BY <2>2, <3>2 DEF SessionInv, SeenIsCurrent
  <2>3. CASE request[p].op = "revoke"
    BY <2>1, <2>3 DEF SessionInv, SeenIsCurrent, Op
  <2> QED BY <2>2, <2>3
<1>6. AloneInBrowser'
  <2> SUFFICES ASSUME NEW p \in Request \ {q}, Active(p), request[p].op \in Op,
                      request[p].own \notin crossed
               PROVE  /\ request[p].jar = jar'[request[p].own] /\ request[p].jar # NoJar
                      /\ \A r \in Request \ {p, q} :
                            Active(r) /\ request[r].op \in Op =>
                                request[r].own # request[p].own
                      /\ HasRead(p) =>
                            /\ request[p].seen.token = session'[request[p].own].token
                            /\ request[p].seen.version = session'[request[p].own].version
    BY <1>1 DEF AloneInBrowser, Active, HasRead
  <2>1. request[p].own \in Session
    BY DEF SessionInv, Programs
  <2>2. request[q].op = "setup" \/ request[q].own # request[p].own
    BY DEF SessionInv, AloneInBrowser, Programs
  <2> QED BY <2>1, <2>2 DEF SessionInv, AloneInBrowser
<1> QED BY <1>2, <1>3, <1>4, <1>5, <1>6 DEF SessionInv

\* An error changes nothing and frees the locks.
LEMMA FailKeeps ==
    ASSUME Setting, SessionInv, NEW q \in Request, Active(q), Fail(q),
           UNCHANGED <<account, session>>
    PROVE  SessionInv'
<1>1. JarsCurrent' /\ LiveIsCurrent'
  BY DEF Fail, SessionInv, JarsCurrent, Cookies, LiveIsCurrent, Live
<1> QED BY <1>1, EndKeeps DEF Fail, SessionInv, Shape

\* What a request at its last step knows.
LEMMA AtTheEnd ==
    ASSUME Setting, SessionInv, NEW q \in Request, NEW op \in Op, At(q, op)
    PROVE  /\ Active(q) /\ DOMAIN request[q] = RequestFields
           /\ request[q].own \in Session /\ request[q].target \in Session
           /\ op # "revoke" => request[q].target = request[q].own
           /\ session[request[q].own].state # "none"
           /\ sessionLock[request[q].target] = q
           /\ request[q].own \notin crossed /\ op \in {"refresh", "logout"} =>
                 /\ request[q].jar = jar[request[q].own]
                 /\ request[q].seen.token = session[request[q].own].token
                 /\ request[q].seen.version = session[request[q].own].version
                 /\ request[q].jar = Cookies(request[q].own)
           /\ op = "change" => request[q].seen.state = session[request[q].own].state
           /\ op = "revoke" /\ request[q].seen.state = "live" =>
                 session[request[q].target].state # "none"
<1>1. Active(q) /\ request[q].op = op
  BY DEF At, Active
<1>2. /\ request[q].own \in Session /\ request[q].target \in Session
      /\ op # "revoke" => request[q].target = request[q].own
      /\ session[request[q].own].state # "none" /\ DOMAIN request[q] = RequestFields
  BY <1>1 DEF SessionInv, Programs, Shape
<1>3. sessionLock[request[q].target] = q
  BY <1>1, <1>2 DEF SessionInv, LocksSound, HasSession, At
<1>4. ASSUME request[q].own \notin crossed, op \in {"refresh", "logout"}
      PROVE  /\ request[q].jar = jar[request[q].own] /\ request[q].jar # NoJar
             /\ request[q].seen.token = session[request[q].own].token
             /\ request[q].seen.version = session[request[q].own].version
  BY <1>1, <1>4 DEF SessionInv, AloneInBrowser, HasRead, At
<1>5. request[q].own \notin crossed => jar[request[q].own] \in {NoJar, Cookies(request[q].own)}
  BY <1>2 DEF SessionInv, JarsCurrent
<1>6. /\ op = "change" => request[q].seen.state = session[request[q].own].state
      /\ op = "revoke" /\ request[q].seen.state = "live" =>
            session[request[q].target].state # "none"
  BY <1>1 DEF SessionInv, SeenIsCurrent, At
<1> QED BY <1>1, <1>2, <1>3, <1>4, <1>5, <1>6

\* The columns that a rotation, a revocation and a password change write.
LEMMA RowEdits ==
    ASSUME NEW row, DOMAIN row = RowFields
    PROVE  /\ \A t : /\ DOMAIN [row EXCEPT !.token = t] = RowFields
                     /\ [row EXCEPT !.token = t].state = row.state
                     /\ [row EXCEPT !.token = t].version = row.version
                     /\ [row EXCEPT !.token = t].why = row.why
                     /\ [row EXCEPT !.token = t].token = t
           /\ \A why : /\ DOMAIN Revoked(row, why) = RowFields
                       /\ Revoked(row, why).state = "revoked"
                       /\ Revoked(row, why).version = row.version
                       /\ Revoked(row, why).why = why
                       /\ Revoked(row, why).token = row.token
           /\ \A t, v : /\ DOMAIN [row EXCEPT !.token = t, !.version = v] = RowFields
                        /\ [row EXCEPT !.token = t, !.version = v].state = row.state
                        /\ [row EXCEPT !.token = t, !.version = v].version = v
                        /\ [row EXCEPT !.token = t, !.version = v].why = row.why
                        /\ [row EXCEPT !.token = t, !.version = v].token = t
BY DEF Revoked, RowFields

\* The answer of a commit replaces the cookies of one browser, or is lost, and the
\* session of that browser counts as crossed.
LEMMA CommitAnswers ==
    ASSUME SessionInv, NEW q \in Request, NEW cookies, Commit(q, cookies),
           request[q].own \in Session
    PROVE  /\ Unlock(q) /\ DOMAIN jar' = Session /\ crossed \subseteq crossed'
           /\ \A s \in Session \ {request[q].own} :
                 jar'[s] = jar[s] /\ (s \in crossed' <=> s \in crossed)
           /\ \/ jar'[request[q].own] = cookies /\ crossed' = crossed
              \/ jar' = jar /\ request[q].own \in crossed'
BY DEF Commit, SessionInv, Shape

\* refresh rotates the token or ends the session; where nothing crossed, the
\* token it read is the browser's, so it finds no replay.
LEMMA RefreshKeeps ==
    ASSUME Setting, SessionInv, NEW q \in Request, FinishRefresh(q)
    PROVE  SessionInv'
<1> DEFINE s == request[q].own
           seen == request[q].seen
           mismatch == seen.token # request[q].jar.token
           why == IF mismatch THEN "replay" ELSE "ended"
<1>0. At(q, "refresh") /\ "refresh" \in Op /\ request[q].op = "refresh" /\ account' = account
  BY DEF FinishRefresh, Op, At
<1>1. /\ Active(q) /\ s \in Session /\ session[s].state # "none"
      /\ sessionLock[s] = q
      /\ s \notin crossed =>
            /\ seen.token = session[s].token /\ seen.version = session[s].version
            /\ request[q].jar = Cookies(s)
  BY <1>0, AtTheEnd
<1>2. DOMAIN session[s] = RowFields /\ DOMAIN session = Session
      /\ DOMAIN account' = AccountFields
  BY <1>0, <1>1 DEF SessionInv, Shape
<1>3. CASE /\ ~mismatch /\ seen.version = account.version
           /\ session' = [session EXCEPT ![s] = Rotated(@, seen, issued + 1)]
           /\ Commit(q, [token |-> issued + 1, version |-> account.version])
  <2>1. /\ DOMAIN session' = Session /\ DOMAIN session'[s] = RowFields
        /\ session'[s].state = session[s].state
        /\ session'[s].version = session[s].version
        /\ session'[s].token = issued + 1 /\ session'[s].why = session[s].why
        /\ \A t \in Session \ {s} : session'[t] = session[t]
    BY <1>1, <1>2, <1>3, RowEdits DEF Rotated
  <2>2. /\ Unlock(q) /\ DOMAIN jar' = Session /\ crossed \subseteq crossed'
        /\ \A t \in Session \ {s} : jar'[t] = jar[t] /\ (t \in crossed' <=> t \in crossed)
        /\ \/ /\ jar'[s] = [token |-> issued + 1, version |-> account.version]
              /\ crossed' = crossed
           \/ jar' = jar /\ s \in crossed'
    BY <1>1, <1>3, CommitAnswers
  <2>3. JarsCurrent'
    <3> SUFFICES ASSUME NEW t \in Session
                 PROVE  /\ jar'[t] # NoJar => session'[t].state # "none"
                        /\ t \notin crossed' =>
                              /\ session'[t].why # "replay"
                              /\ jar'[t] \in {NoJar, [token |-> session'[t].token,
                                                    version |-> session'[t].version]}
      BY DEF JarsCurrent, Cookies
    <3>1. CASE t # s
      BY <3>1, <2>1, <2>2 DEF SessionInv, JarsCurrent, Cookies
    <3>2. CASE t = s /\ s \notin crossed
      BY <3>2, <1>1, <1>3, <2>1, <2>2 DEF SessionInv, JarsCurrent
    <3>3. CASE t = s /\ s \in crossed
      BY <3>3, <1>1, <1>3, <2>1, <2>2 DEF SessionInv, JarsCurrent, Cookies
    <3> QED BY <3>1, <3>2, <3>3
  <2>4. LiveIsCurrent'
    BY <1>0, <2>1 DEF SessionInv, LiveIsCurrent, Live
  <2>5. \A t \in Session : DOMAIN session'[t] = RowFields
    BY <2>1 DEF SessionInv, Shape
  <2> QED BY <1>0, <1>1, <1>2, <2>1, <2>2, <2>3, <2>4, <2>5, EndKeeps
<1>4. CASE /\ session' = [session EXCEPT ![s] =
                IF seen.state = "live" THEN Revoked(@, why) ELSE @]
           /\ Fail(q)
  <2>1. /\ DOMAIN session' = Session /\ DOMAIN session'[s] = RowFields
        /\ session'[s].state \in {session[s].state, "revoked"}
        /\ session'[s].version = session[s].version
        /\ session'[s].token = session[s].token
        /\ session'[s].why \in {session[s].why, why}
        /\ \A t \in Session \ {s} : session'[t] = session[t]
    BY <1>1, <1>2, <1>4, RowEdits
  <2>2. Unlock(q) /\ jar' = jar /\ crossed' = crossed
    BY <1>4 DEF Fail
  <2>3. s \notin crossed => why = "ended"
    BY <1>1 DEF Cookies
  <2>4. JarsCurrent' /\ LiveIsCurrent'
    BY <1>0, <1>1, <2>1, <2>2, <2>3 DEF SessionInv, JarsCurrent, Cookies,
       LiveIsCurrent, Live
  <2>5. \A t \in Session : DOMAIN session'[t] = RowFields
    BY <2>1 DEF SessionInv, Shape
  <2>6. DOMAIN jar' = Session
    BY <2>2 DEF SessionInv, Shape
  <2> QED BY <1>0, <1>1, <1>2, <2>1, <2>2, <2>4, <2>5, <2>6, EndKeeps
<1> QED BY <1>3, <1>4 DEF FinishRefresh

\* logout ends the session of its browser, and takes its cookies.
LEMMA LogoutKeeps ==
    ASSUME Setting, SessionInv, NEW q \in Request, FinishLogout(q)
    PROVE  SessionInv'
<1> DEFINE s == request[q].own
           seen == request[q].seen
           why == IF seen.token = request[q].jar.token THEN "ended" ELSE "replay"
<1>0. /\ At(q, "logout") /\ "logout" \in Op /\ request[q].op = "logout"
      /\ account' = account
      /\ session' = [session EXCEPT ![s] =
            IF seen.state = "live" THEN Revoked(@, why) ELSE @]
      /\ Commit(q, NoJar)
  BY DEF FinishLogout, Op, At
<1>1. /\ Active(q) /\ s \in Session /\ session[s].state # "none"
      /\ sessionLock[s] = q
      /\ s \notin crossed =>
            seen.token = session[s].token /\ request[q].jar = Cookies(s)
  BY <1>0, AtTheEnd
<1>2. DOMAIN session[s] = RowFields /\ DOMAIN session = Session
      /\ DOMAIN account' = AccountFields
  BY <1>0, <1>1 DEF SessionInv, Shape
<1>3. /\ DOMAIN session' = Session /\ DOMAIN session'[s] = RowFields
      /\ session'[s].state \in {session[s].state, "revoked"}
      /\ session'[s].version = session[s].version
      /\ session'[s].token = session[s].token
      /\ session'[s].why \in {session[s].why, why}
      /\ \A t \in Session \ {s} : session'[t] = session[t]
  BY <1>0, <1>1, <1>2, RowEdits
<1>4. /\ Unlock(q) /\ DOMAIN jar' = Session /\ crossed \subseteq crossed'
      /\ \A t \in Session \ {s} : jar'[t] = jar[t] /\ (t \in crossed' <=> t \in crossed)
      /\ \/ jar'[s] = NoJar /\ crossed' = crossed
         \/ jar' = jar /\ s \in crossed'
  BY <1>0, <1>1, CommitAnswers
<1>5. s \notin crossed => why = "ended"
  BY <1>1 DEF Cookies
<1>6. JarsCurrent' /\ LiveIsCurrent'
  <2>1. LiveIsCurrent'
    BY <1>0, <1>3 DEF SessionInv, LiveIsCurrent, Live
  <2> SUFFICES ASSUME NEW t \in Session
               PROVE  /\ jar'[t] # NoJar => session'[t].state # "none"
                      /\ t \notin crossed' =>
                            /\ session'[t].why # "replay"
                            /\ jar'[t] \in {NoJar, [token |-> session'[t].token,
                                                  version |-> session'[t].version]}
    BY <2>1 DEF JarsCurrent, Cookies
  <2>2. CASE t # s
    BY <2>2, <1>3, <1>4 DEF SessionInv, JarsCurrent, Cookies
  <2>3. CASE t = s
    BY <2>3, <1>1, <1>3, <1>4, <1>5 DEF SessionInv, JarsCurrent, Cookies
  <2> QED BY <2>2, <2>3
<1>7. \A t \in Session : DOMAIN session'[t] = RowFields
  BY <1>3 DEF SessionInv, Shape
<1> QED BY <1>0, <1>1, <1>2, <1>3, <1>4, <1>6, <1>7, EndKeeps

\* revoke_session ends a session of the account, perhaps its own.
LEMMA RevokeKeeps ==
    ASSUME Setting, SessionInv, NEW q \in Request, FinishRevoke(q)
    PROVE  SessionInv'
<1> DEFINE own == request[q].own
           s == request[q].target
           cookies == IF s = own THEN NoJar ELSE jar[own]
<1>0. /\ At(q, "revoke") /\ "revoke" \in Op /\ request[q].op = "revoke"
      /\ account' = account
      /\ session' = [session EXCEPT ![s] =
            IF request[q].seen.state = "live" THEN Revoked(@, "ended") ELSE @]
      /\ Commit(q, cookies)
  BY DEF FinishRevoke, Op, At
<1>1. /\ Active(q) /\ own \in Session /\ s \in Session /\ sessionLock[s] = q
      /\ request[q].seen.state = "live" => session[s].state # "none"
  BY <1>0, AtTheEnd
<1>2. DOMAIN session[s] = RowFields /\ DOMAIN session = Session
      /\ DOMAIN account' = AccountFields
  BY <1>0, <1>1 DEF SessionInv, Shape
<1>3. /\ DOMAIN session' = Session /\ DOMAIN session'[s] = RowFields
      /\ session'[s].state \in {session[s].state, "revoked"}
      /\ session'[s].version = session[s].version
      /\ session'[s].token = session[s].token
      /\ session'[s].why \in {session[s].why, "ended"}
      /\ \A t \in Session \ {s} : session'[t] = session[t]
  BY <1>0, <1>1, <1>2, RowEdits
<1>4. /\ Unlock(q) /\ DOMAIN jar' = Session /\ crossed \subseteq crossed'
      /\ \A t \in Session \ {own} : jar'[t] = jar[t]
      /\ jar'[own] \in {NoJar, jar[own]}
  BY <1>0, <1>1, CommitAnswers
<1>5. session'[s].state = "none" <=> session[s].state = "none"
  BY <1>0, <1>1, <1>2, RowEdits
<1>6. JarsCurrent'
  <2> SUFFICES ASSUME NEW t \in Session
               PROVE  /\ jar'[t] # NoJar => session'[t].state # "none"
                      /\ t \notin crossed' =>
                            /\ session'[t].why # "replay"
                            /\ jar'[t] \in {NoJar, [token |-> session'[t].token,
                                                  version |-> session'[t].version]}
    BY DEF JarsCurrent, Cookies
  <2>1. /\ session'[t].state = "none" <=> session[t].state = "none"
        /\ session'[t].version = session[t].version
        /\ session'[t].token = session[t].token
        /\ session'[t].why \in {session[t].why, "ended"}
    BY <1>3, <1>5
  <2>2. jar'[t] \in {NoJar, jar[t]} /\ crossed \subseteq crossed'
    BY <1>4
  <2> QED BY <2>1, <2>2 DEF SessionInv, JarsCurrent, Cookies
<1>7. LiveIsCurrent'
  BY <1>0, <1>3 DEF SessionInv, LiveIsCurrent, Live
<1>8. \A t \in Session : DOMAIN session'[t] = RowFields
  BY <1>3 DEF SessionInv, Shape
<1>9. \A t \in Session :
         /\ session'[t].state = "none" <=> session[t].state = "none"
         /\ session'[t] = session[t] \/ sessionLock[t] \in {None, q}
         /\ request[q].op = "setup" \/ t # request[q].own =>
               /\ session'[t].token = session[t].token
               /\ session'[t].version = session[t].version
               /\ jar'[t] = jar[t]
  BY <1>0, <1>1, <1>3, <1>4, <1>5
<1> QED BY <1>1, <1>2, <1>3, <1>4, <1>6, <1>7, <1>8, <1>9, EndKeeps

\* A new password raises auth_version by one.
LEMMA NewAccount ==
    ASSUME Shape
    PROVE  DOMAIN NewPassword = AccountFields /\ NewPassword.version = account.version + 1
BY DEF Shape, AccountFields, NewPassword

\* change_password keeps its own session, with the new version, and ends every
\* other live one.
LEMMA ChangeKeeps ==
    ASSUME Setting, SessionInv, NEW q \in Request, FinishChange(q)
    PROVE  SessionInv'
<1> DEFINE s == request[q].own
           fresh == [token |-> issued + 1, version |-> account.version + 1]
           row == [session[s] EXCEPT !.token = fresh.token, !.version = fresh.version]
<1>0. At(q, "change") /\ "change" \in Op /\ request[q].op = "change"
  BY DEF FinishChange, Op, At
<1>1. /\ Active(q) /\ s \in Session /\ session[s].state # "none"
      /\ sessionLock[s] = q
      /\ request[q].seen.state = session[s].state
  BY <1>0, AtTheEnd
<1>2. DOMAIN session[s] = RowFields /\ DOMAIN session = Session
  BY <1>1 DEF SessionInv, Shape
<1>3. CASE /\ Valid(request[q].seen, request[q].jar.version)
           /\ account' = NewPassword
           /\ OthersRevoked(q, {s}, row)
           /\ Commit(q, fresh)
  <2>1. /\ DOMAIN session' = Session
        /\ session'[s] = row
        /\ \A t \in Session \ {s} :
              session'[t] = IF Live(t) THEN Revoked(session[t], "ended") ELSE session[t]
        /\ \A t \in Session \ {s} : Live(t) => sessionLock[t] \in {None, q}
    BY <1>1, <1>3 DEF OthersRevoked
  <2>2. /\ DOMAIN row = RowFields /\ row.state = session[s].state
        /\ row.why = session[s].why
        /\ row.token = issued + 1 /\ row.version = account.version + 1
    BY <1>2, RowEdits
  <2> HIDE DEF row
  <2>3. \A t \in Session \ {s} :
              /\ DOMAIN session'[t] = RowFields
              /\ session'[t].state = "none" <=> session[t].state = "none"
              /\ session'[t].state # "live"
              /\ session'[t].version = session[t].version
              /\ session'[t].token = session[t].token
              /\ session'[t].why \in {session[t].why, "ended"}
              /\ session'[t] = session[t] \/ sessionLock[t] \in {None, q}
    <3> SUFFICES ASSUME NEW t \in Session \ {s}
                 PROVE  <2>3!(t)
      OBVIOUS
    <3>1. DOMAIN session[t] = RowFields
      BY DEF SessionInv, Shape
    <3>2. CASE Live(t)
      BY <2>1, <3>1, <3>2, RowEdits DEF Live
    <3>3. CASE ~Live(t)
      BY <2>1, <3>1, <3>3 DEF Live
    <3> QED BY <3>2, <3>3
  <2>4. /\ Unlock(q) /\ DOMAIN jar' = Session /\ crossed \subseteq crossed'
        /\ \A t \in Session \ {s} : jar'[t] = jar[t] /\ (t \in crossed' <=> t \in crossed)
        /\ \/ jar'[s] = fresh /\ crossed' = crossed
           \/ jar' = jar /\ s \in crossed'
    BY <1>1, <1>3, CommitAnswers
  <2>5. DOMAIN account' = AccountFields /\ account'.version = account.version + 1
    BY <1>3, NewAccount DEF SessionInv
  <2>6. JarsCurrent'
    <3> SUFFICES ASSUME NEW t \in Session
                 PROVE  /\ jar'[t] # NoJar => session'[t].state # "none"
                        /\ t \notin crossed' =>
                              /\ session'[t].why # "replay"
                              /\ jar'[t] \in {NoJar, [token |-> session'[t].token,
                                                    version |-> session'[t].version]}
      BY DEF JarsCurrent, Cookies
    <3>1. CASE t # s
      BY <3>1, <2>3, <2>4 DEF SessionInv, JarsCurrent, Cookies
    <3>2. CASE t = s
      BY <3>2, <1>1, <2>1, <2>2, <2>4 DEF SessionInv, JarsCurrent
    <3> QED BY <3>1, <3>2
  <2>7. LiveIsCurrent'
    BY <2>1, <2>2, <2>3, <2>5 DEF LiveIsCurrent, Live
  <2>8. \A t \in Session :
              /\ DOMAIN session'[t] = RowFields
              /\ session'[t].state = "none" <=> session[t].state = "none"
              /\ session'[t] = session[t] \/ sessionLock[t] \in {None, q}
    BY <1>1, <2>1, <2>2, <2>3
  <2> QED BY <1>0, <1>1, <2>1, <2>3, <2>4, <2>5, <2>6, <2>7, <2>8, EndKeeps
<1>4. CASE Fail(q) /\ UNCHANGED <<account, session, issued>>
  BY <1>1, <1>4, FailKeeps
<1> QED BY <1>3, <1>4 DEF FinishChange

\* setup_password ends every live session.
LEMMA SetupKeeps ==
    ASSUME Setting, SessionInv, NEW q \in Request, FinishSetup(q)
    PROVE  SessionInv'
<1>0. Active(q) /\ request[q].op = "setup"
  BY DEF FinishSetup, At, Active
<1>1. CASE account' = NewPassword /\ OthersRevoked(q, {}, NoRow) /\ Fail(q)
  <2>1. /\ DOMAIN session' = Session
        /\ \A t \in Session :
              /\ session'[t] = IF Live(t) THEN Revoked(session[t], "ended") ELSE session[t]
              /\ Live(t) => sessionLock[t] \in {None, q}
    BY <1>1 DEF OthersRevoked
  <2>2. \A t \in Session :
              /\ DOMAIN session'[t] = RowFields
              /\ session'[t].state = "none" <=> session[t].state = "none"
              /\ session'[t].state # "live"
              /\ session'[t].version = session[t].version
              /\ session'[t].token = session[t].token
              /\ session'[t].why \in {session[t].why, "ended"}
              /\ session'[t] = session[t] \/ sessionLock[t] \in {None, q}
    <3> SUFFICES ASSUME NEW t \in Session
                 PROVE  <2>2!(t)
      OBVIOUS
    <3>1. DOMAIN session[t] = RowFields
      BY DEF SessionInv, Shape
    <3>2. CASE Live(t)
      BY <2>1, <3>1, <3>2, RowEdits DEF Live
    <3>3. CASE ~Live(t)
      BY <2>1, <3>1, <3>3 DEF Live
    <3> QED BY <3>2, <3>3
  <2>3. Unlock(q) /\ jar' = jar /\ crossed' = crossed /\ DOMAIN jar' = Session
    BY <1>1 DEF Fail, SessionInv, Shape
  <2>4. DOMAIN account' = AccountFields
    BY <1>1, NewAccount DEF SessionInv
  <2>5. JarsCurrent'
    BY <2>2, <2>3 DEF SessionInv, JarsCurrent, Cookies
  <2>6. LiveIsCurrent'
    BY <2>2 DEF LiveIsCurrent, Live
  <2> QED BY <1>0, <2>1, <2>2, <2>3, <2>4, <2>5, <2>6, EndKeeps
<1>2. CASE Fail(q) /\ UNCHANGED <<account, session>>
  BY <1>0, <1>2, FailKeeps
<1> QED BY <1>1, <1>2 DEF FinishSetup

\* The database ends a transaction that waits for one that waits for it.
LEMMA DeadlockKeeps ==
    ASSUME Setting, SessionInv, NEW q \in Request, Deadlock(q)
    PROVE  SessionInv'
<1>1. Active(q)
  BY DEF Deadlock, WaitsFor, Active
<1> QED BY <1>1, FailKeeps DEF Deadlock

-----------------------------------------------------------------------------
(* All steps together.                                                     *)

\* Steps of other components.
LEMMA StutterKeeps ==
    ASSUME SessionInv, UNCHANGED vars
    PROVE  SessionInv'
BY DEF vars, locks, SessionInv, Shape, Programs, LocksSound, HasUser, HasSession,
   SeenIsCurrent,
       JarsCurrent, Cookies, AloneInBrowser, HasRead, LiveIsCurrent, Live, Active

\* Every step keeps the invariant.
LEMMA StepKeeps ==
    ASSUME Setting, SessionInv, [Next]_vars
    PROVE  SessionInv'
<1>1. CASE WrongPassword \/ LockEnds \/ Toggle
  BY <1>1, WrongPasswordKeeps, LockEndsKeeps, ToggleKeeps
<1>2. ASSUME NEW s \in Session, Login(s) \/ Exchange(s) \/ SessionExpires(s)
      PROVE  SessionInv'
  BY <1>2, LoginKeeps, ExpiresKeeps
<1>3. ASSUME NEW q \in Request, NEW op \in Op, NEW s \in Session,
             NEW target \in Session,
             Send(q, op, s, target)
      PROVE  SessionInv'
  BY <1>3, SendKeeps
<1>4. ASSUME NEW q \in Request,
             \/ SendSetup(q) \/ ReadSession(q) \/ Validate(q)
             \/ LockUser(q) \/ LockSession(q)
      PROVE  SessionInv'
  BY <1>4, SendSetupKeeps, ReadSessionKeeps, ValidateKeeps, LockUserKeeps,
     LockSessionKeeps
<1>5. ASSUME NEW q \in Request,
             \/ FinishRefresh(q) \/ FinishLogout(q) \/ FinishRevoke(q)
             \/ FinishChange(q) \/ FinishSetup(q) \/ Deadlock(q)
      PROVE  SessionInv'
  BY <1>5, RefreshKeeps, LogoutKeeps, RevokeKeeps, ChangeKeeps, SetupKeeps,
     DeadlockKeeps
<1>6. CASE UNCHANGED vars
  BY <1>6, StutterKeeps
<1> QED BY <1>1, <1>2, <1>3, <1>4, <1>5, <1>6 DEF Next

\* The inductive invariant holds in every reachable state: who holds which lock,
\* that a locked row is as its holder read it, and what the cookies of a browser
\* say of its session.
THEOREM SessionInvHolds == ASSUME Setting PROVE Spec => []SessionInv
<1>1. Init => SessionInv
  BY InitKeeps
<1>2. SessionInv /\ [Next]_vars => SessionInv'
  BY StepKeeps
<1> QED BY <1>1, <1>2, PTL DEF Spec

\* SessionsConsistent, for any number of sessions and requests: no live session is
\* of an earlier password than the account's (revoke_active_for_user in
\* change_password and setup_password), and a browser whose requests do not overlap
\* and whose answers arrive is never taken for a replay.
THEOREM SessionsAgree == ASSUME Setting PROVE Spec => []SessionsConsistent
<1>1. SessionInv => SessionsConsistent
  BY DEF SessionInv, SessionsConsistent, BrowserStaysSignedIn, JarsCurrent, Cookies
<1> QED BY <1>1, SessionInvHolds, PTL

\* Two requests that lock the account before a session cannot wait for each other:
\* the one that waits for the account holds nothing, and the account has one holder.
LEMMA OnlyThen ==
    ASSUME Setting, SessionInv
    PROVE  DeadlockNeedsSessionFirst
<1> SUFFICES ASSUME NEW p \in Request, NEW q \in Request, WaitsFor(p, q),
                    WaitsFor(q, p),
                    request[p].op \notin {"logout", "revoke"},
                    request[q].op \notin {"logout", "revoke"}
             PROVE  FALSE
  BY DEF DeadlockNeedsSessionFirst
<1>1. /\ Active(p) /\ Active(q) /\ p # q
  BY DEF WaitsFor, Active
<1>2. /\ request[p].op \in {"refresh", "change", "setup"}
      /\ request[p].pc \in Points(request[p].op)
      /\ request[q].op \in {"refresh", "change", "setup"}
      /\ request[q].pc \in Points(request[q].op)
  BY <1>1 DEF SessionInv, Programs, Op
<1>3. ASSUME NEW a \in Request, NEW b \in Request, WaitsFor(a, b), Active(b),
             request[a].op \in {"refresh", "change", "setup"},
             request[a].pc \in Points(request[a].op),
             request[b].op \in {"refresh", "change", "setup"}
      PROVE  \/ request[a].pc = "user" /\ userLock = b
             \/ request[a].pc # "user" /\ userLock = a /\ request[b].pc = "finish"
  <2>1. CASE request[a].pc = "user"
    BY <1>3, <2>1 DEF WaitsFor
  <2>2. CASE request[a].pc = "session"
    <3>1. request[a].op \in {"refresh", "change"} /\ request[a].target \in Session
          /\ sessionLock[request[a].target] = b
      BY <1>3, <2>2 DEF WaitsFor, Points, SessionInv, Programs, Op, Active
    <3>2. userLock = a
      BY <2>2, <3>1 DEF SessionInv, LocksSound, HasUser, Active
    <3>3. request[b].pc = "finish"
      BY <3>1 DEF SessionInv, LocksSound, HasSession
    <3> QED BY <2>2, <3>2, <3>3
  <2>3. CASE request[a].pc = "finish"
    <3>1. userLock = a
      BY <1>3, <2>3 DEF SessionInv, LocksSound, HasUser, Active
    <3>2. \E s \in Session : sessionLock[s] = b
      BY <1>3, <2>3 DEF WaitsFor
    <3>3. request[b].pc = "finish"
      BY <3>2 DEF SessionInv, LocksSound, HasSession
    <3> QED BY <2>3, <3>1, <3>3
  <2> QED BY <1>3, <2>1, <2>2, <2>3 DEF WaitsFor
<1>4. \/ request[p].pc = "user" /\ userLock = q
      \/ request[p].pc # "user" /\ userLock = p /\ request[q].pc = "finish"
  BY <1>1, <1>2, <1>3
<1>5. \/ request[q].pc = "user" /\ userLock = p
      \/ request[q].pc # "user" /\ userLock = q /\ request[p].pc = "finish"
  BY <1>1, <1>2, <1>3
<1> QED BY <1>1, <1>4, <1>5

\* DeadlockNeedsSessionFirst: in every deadlock of two transactions one is a logout
\* or a revocation, which lock a session before their audit entry needs the
\* account's row.
THEOREM DeadlocksAreRare == ASSUME Setting PROVE Spec => []DeadlockNeedsSessionFirst
<1>1. SessionInv => DeadlockNeedsSessionFirst
  BY OnlyThen
<1> QED BY <1>1, SessionInvHolds, PTL

\* No step makes a revoked session live or gives it another version: creation takes
\* unused rows, a rotation writes the token alone, and a password change keeps its
\* own row only if it locked it while it was live.
LEMMA RevokedStays ==
    ASSUME Setting, SessionInv, [Next]_vars, NEW s \in Session,
           session[s].state = "revoked"
    PROVE  session'[s].state = "revoked" /\ session'[s].version = session[s].version
<1>0. DOMAIN session = Session /\ DOMAIN session[s] = RowFields
  BY DEF SessionInv, Shape
<1>1. CASE session' = session
  BY <1>1
<1>2. ASSUME NEW t \in Session, Created(t) PROVE session'[s] = session[s]
  BY <1>0, <1>2 DEF Created
<1>3. ASSUME NEW t \in Session, SessionExpires(t) PROVE session'[s] = session[s]
  BY <1>0, <1>3 DEF SessionExpires, Live
<1>4. ASSUME NEW q \in Request, FinishRefresh(q)
      PROVE  session'[s].state = "revoked" /\ session'[s].version = session[s].version
  <2>1. CASE session' = [session EXCEPT ![request[q].own] =
                Rotated(@, request[q].seen, issued + 1)]
    <3> DEFINE row == [session[s] EXCEPT !.token = issued + 1]
    <3>1. session'[s] \in {session[s], row}
      BY <1>0, <2>1 DEF Rotated
    <3>2. row.state = session[s].state /\ row.version = session[s].version
      BY <1>0, RowEdits
    <3> HIDE DEF row
    <3> QED BY <3>1, <3>2
  <2>2. ASSUME NEW why,
               session' = [session EXCEPT ![request[q].own] =
                   IF request[q].seen.state = "live" THEN Revoked(@, why) ELSE @]
        PROVE  session'[s].state = "revoked" /\ session'[s].version = session[s].version
    <3>1. session'[s] \in {session[s], Revoked(session[s], why)}
      BY <1>0, <2>2
    <3> QED BY <1>0, <3>1, RowEdits
  <2> QED BY <1>4, <2>1, <2>2 DEF FinishRefresh
<1>5. ASSUME NEW q \in Request, FinishLogout(q) \/ FinishRevoke(q)
      PROVE  session'[s].state = "revoked" /\ session'[s].version = session[s].version
  <2>1. \/ session'[s] = session[s]
        \/ \E why : session'[s] = Revoked(session[s], why)
    BY <1>0, <1>5 DEF FinishLogout, FinishRevoke
  <2> QED BY <1>0, <2>1, RowEdits
<1>6. ASSUME NEW q \in Request, FinishChange(q) PROVE session'[s] = session[s]
  <2>1. At(q, "change") /\ "change" \in Op
    BY <1>6 DEF FinishChange, Op
  <2>2. request[q].own \in Session /\ request[q].seen.state = session[request[q].own].state
    BY <2>1, AtTheEnd
  <2>3. CASE session' = session
    BY <2>3
  <2>4. CASE /\ Valid(request[q].seen, request[q].jar.version)
             /\ \E row : OthersRevoked(q, {request[q].own}, row)
    <3>1. s # request[q].own
      BY <2>2, <2>4 DEF Valid
    <3> QED BY <2>4, <3>1 DEF OthersRevoked, Live
  <2> QED BY <1>6, <2>3, <2>4 DEF FinishChange
<1>7. ASSUME NEW q \in Request, FinishSetup(q) PROVE session'[s] = session[s]
  BY <1>7 DEF FinishSetup, OthersRevoked, Live
<1>8. CASE Next
  <2>1. CASE WrongPassword \/ LockEnds \/ Toggle
    BY <1>1, <2>1 DEF WrongPassword, LockEnds, Toggle
  <2>2. CASE \E t \in Session : Login(t) \/ Exchange(t) \/ SessionExpires(t)
    BY <1>2, <1>3, <2>2 DEF Login, Exchange
  <2>3. ASSUME NEW q \in Request,
               \/ \E op \in Op, t, target \in Session : Send(q, op, t, target)
               \/ SendSetup(q) \/ ReadSession(q) \/ Validate(q)
               \/ LockUser(q) \/ LockSession(q) \/ Deadlock(q)
        PROVE  session' = session
    BY <2>3 DEF Send, SendSetup, ReadSession, Validate, LockUser, LockSession,
       Deadlock
  <2>4. ASSUME NEW q \in Request,
               \/ FinishRefresh(q) \/ FinishLogout(q) \/ FinishRevoke(q)
               \/ FinishChange(q) \/ FinishSetup(q)
        PROVE  session'[s].state = "revoked" /\ session'[s].version = session[s].version
    BY <1>4, <1>5, <1>6, <1>7, <2>4
  <2> QED BY <1>8, <1>1, <2>1, <2>2, <2>3, <2>4 DEF Next
<1> QED BY <1>1, <1>8 DEF vars

\* RevokedIsFinal: a session that a logout, a revocation, a replay or a password
\* change has revoked stays so, also when a refresh read it before.
THEOREM RevokedStaysRevoked == ASSUME Setting PROVE Spec => RevokedIsFinal
<1>1. SessionInv /\ [Next]_vars =>
          [\A s \in Session : session[s].state = "revoked" =>
              session'[s].state = "revoked" /\ session'[s].version = session[s].version]_vars
  BY RevokedStays
<1> QED BY <1>1, SessionInvHolds, PTL DEF Spec, RevokedIsFinal
=============================================================================
