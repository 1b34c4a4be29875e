------------------------------ MODULE Accounts ------------------------------
(***************************************************************************)
(* User accounts, their credentials and their sessions                     *)
(* (backend/src/auth/auth.service.ts, backend/src/users/users.service.ts). *)
(*                                                                         *)
(* A handler that reads before it writes runs in steps: it starts in a     *)
(* free slot of call with what it has read, and other handlers may run     *)
(* before it writes.  serial is fixed at the start and says whether        *)
(* requests come one at a time; some promises only hold when they do.      *)
(***************************************************************************)
EXTENDS Integers, Sequences, FiniteSets

CONSTANTS
    Users,        \* people who have or may get a row in users
    Calls,        \* slots for requests in flight
    MaxSessions,  \* bound: rows ever created in user_sessions
    MaxCodes      \* bound: verification codes ever issued to one user

ASSUME AccountsAssumption == MaxSessions \in Nat /\ MaxCodes \in Nat

VARIABLES
    account,  \* users: status, deleted_at, is_verified, and the credentials
    session,  \* user_sessions, in the order they were created
    call,     \* what each request in flight has read
    serial    \* requests come one at a time

accountVars == <<account, session, call, serial>>

Status == {"NONE", "PENDING", "ACTIVE", "SUSPENDED", "REJECTED"}
Blocked == {"SUSPENDED", "REJECTED"}

\* code counts the verification codes issued; codeOpen says whether the last
\* one is stored and has not expired.  link is the same for the password reset
\* link.  password: the person knows the password that is stored.
Account == [status : Status, deleted : BOOLEAN, verified : BOOLEAN,
            code : 0 .. MaxCodes, codeOpen : BOOLEAN, link : BOOLEAN,
            password : BOOLEAN]

\* parent is the session a refresh replaced, code the verification code that
\* opened this one; 0 stands for none.
Session == [user : Users, revoked : BOOLEAN, parent : 0 .. MaxSessions,
            code : 0 .. MaxCodes]

Idle == [op |-> "idle"]
Call ==
    [op : {"idle"}]
      \cup [op : {"login", "approve", "reject", "suspend", "reactivate",
                  "forgot", "reset", "resend"}, user : Users]
      \cup [op : {"verify", "verified"}, user : Users, code : 1 .. MaxCodes]
      \cup [op : {"refresh", "rotate"}, user : Users, session : 1 .. MaxSessions]

\* The tables hold rows of their schema and every request record is well formed.
AccountsTypeOK ==
    /\ account \in [Users -> Account]
    /\ session \in Seq(Session) /\ Len(session) <= MaxSessions
    /\ call \in [Calls -> Call]
    /\ serial \in BOOLEAN

AccountsInit ==
    /\ account = [u \in Users |->
                    [status |-> "NONE", deleted |-> FALSE, verified |-> TRUE,
                     code |-> 0, codeOpen |-> FALSE, link |-> FALSE,
                     password |-> FALSE]]
    /\ session = <<>>
    /\ call = [c \in Calls |-> Idle]
    /\ serial \in BOOLEAN

Quiet == \A c \in Calls : call[c] = Idle

\* A handler has made its checks and will go on from what it read.
Begin(c, q) ==
    /\ call[c] = Idle
    /\ serial => Quiet
    /\ call' = [call EXCEPT ![c] = q]
    /\ UNCHANGED <<account, session, serial>>

Done(c) == call' = [call EXCEPT ![c] = Idle] /\ UNCHANGED serial

\* A request is lost, or the process stops, between two steps of a handler.
Abandon(c) ==
    /\ call[c] # Idle
    /\ Done(c)
    /\ UNCHANGED <<account, session>>

\* The row exists and is not soft-deleted.
Present(u) == account[u].status # "NONE" /\ ~ account[u].deleted

SessionIds == 1 .. Len(session)
Live(s) == ~ session[s].revoked

-----------------------------------------------------------------------------
(* Creating accounts: one write after the uniqueness check *)

\* register: the registrant chose a password and waits for approval.
Register(u) ==
    /\ serial => Quiet
    /\ account[u].status = "NONE"
    /\ account' = [account EXCEPT ![u].status = "PENDING", ![u].password = TRUE]
    /\ UNCHANGED <<session, call, serial>>

\* createUser by an administrator: active at once, with a random password and
\* a link to set one.
CreateUser(u) ==
    /\ serial => Quiet
    /\ account[u].status = "NONE"
    /\ account' = [account EXCEPT ![u].status = "ACTIVE", ![u].link = TRUE]
    /\ UNCHANGED <<session, call, serial>>

-----------------------------------------------------------------------------
(* Sessions: login, verifyAccount, refresh, logout *)

\* What login asks of the account once the password is right.
MayLogIn(u) ==
    /\ Present(u)
    /\ account[u].status \notin Blocked
    /\ account[u].status = "ACTIVE" => account[u].verified

Login(c, u) ==
    /\ account[u].password
    /\ MayLogIn(u)
    /\ Begin(c, [op |-> "login", user |-> u])

\* The code is the stored one, unexpired, and the account is not yet verified;
\* the account's status is not looked at.
VerifyAccount(c, u) ==
    /\ Present(u)
    /\ ~ account[u].verified
    /\ account[u].codeOpen
    /\ Begin(c, [op |-> "verify", user |-> u, code |-> account[u].code])

\* The update that uses the code up.
Verified(u) == [account EXCEPT ![u].verified = TRUE, ![u].codeOpen = FALSE]

MarkVerified(c) ==
    /\ call[c].op = "verify"
    /\ account' = Verified(call[c].user)
    /\ call' = [call EXCEPT ![c].op = "verified"]
    /\ UNCHANGED <<session, serial>>

\* The rows once a session has been added.
Opened(u, parent, code) ==
    Append(session, [user |-> u, revoked |-> FALSE, parent |-> parent, code |-> code])

\* Shared by login and verifyAccount.
IssueSession(c) ==
    LET q == call[c] IN
    /\ q.op \in {"login", "verified"}
    /\ Len(session) < MaxSessions
    /\ session' = Opened(q.user, 0, IF q.op = "login" THEN 0 ELSE q.code)
    /\ Done(c)
    /\ UNCHANGED account

\* Mutant: refresh renews whatever the account's status has become.
MayRefresh_AnyStatus(u) == TRUE

\* refresh looks at the account's status, not at deleted_at or is_verified.
MayRefresh(u) == account[u].status \notin Blocked

\* refresh finds the session by its token, revoked or not.
Refresh(c, s) ==
    /\ MayRefresh(session[s].user)
    /\ Begin(c, [op |-> "refresh", user |-> session[s].user, session |-> s])

\* The holder of a blocked account only gets the session revoked.
RefreshBlocked(s) ==
    /\ serial => Quiet
    /\ ~ MayRefresh(session[s].user)
    /\ session' = [session EXCEPT ![s].revoked = TRUE]
    /\ UNCHANGED <<account, call, serial>>

\* Mutant: the claim updates by id alone, without is_revoked: false.
ClaimSucceeds_Unconditional(s) == TRUE

\* The conditional updateMany counts one row.
ClaimSucceeds(s) == Live(s)

ClaimSession(c) ==
    LET s == call[c].session IN
    /\ call[c].op = "refresh"
    /\ session' = [session EXCEPT ![s].revoked = TRUE]
    /\ call' = [call EXCEPT ![c] =
                  IF ClaimSucceeds(s) THEN [@ EXCEPT !.op = "rotate"] ELSE Idle]
    /\ UNCHANGED <<account, serial>>

RotateSession(c) ==
    /\ call[c].op = "rotate"
    /\ Len(session) < MaxSessions
    /\ session' = Opened(call[c].user, call[c].session, 0)
    /\ Done(c)
    /\ UNCHANGED account

\* JwtStrategy.validate: who an access token still speaks for.
Authenticated(u) == Present(u) /\ account[u].status \notin Blocked

Logout(s) ==
    /\ serial => Quiet
    /\ Authenticated(session[s].user)
    /\ session' = [session EXCEPT ![s].revoked = TRUE]
    /\ UNCHANGED <<account, call, serial>>

\* Every session of u revoked.
RevokedAll(u) ==
    [s \in SessionIds |->
       IF session[s].user = u THEN [session[s] EXCEPT !.revoked = TRUE] ELSE session[s]]

LogoutAll(u) ==
    /\ serial => Quiet
    /\ Authenticated(u)
    /\ session' = RevokedAll(u)
    /\ UNCHANGED <<account, call, serial>>

-----------------------------------------------------------------------------
(* Passwords and verification codes *)

ForgotPassword(c, u) == Present(u) /\ Begin(c, [op |-> "forgot", user |-> u])

ResetPassword(c, u) ==
    Present(u) /\ account[u].link /\ Begin(c, [op |-> "reset", user |-> u])

ResendVerificationCode(c, u) ==
    /\ Present(u)
    /\ account[u].status = "ACTIVE" /\ ~ account[u].verified
    /\ Begin(c, [op |-> "resend", user |-> u])

\* A new code replaces the stored one.
CodeIssued(a) == [a EXCEPT !.code = @ + 1, !.codeOpen = TRUE]

\* The write each of the three ends with.
CommitCredential(c) ==
    LET q == call[c] IN
    /\ \/ /\ q.op = "forgot"
          /\ account' = [account EXCEPT ![q.user].link = TRUE]
       \/ /\ q.op = "reset"
          /\ account' = [account EXCEPT ![q.user].link = FALSE, ![q.user].password = TRUE]
       \/ /\ q.op = "resend"
          /\ account[q.user].code < MaxCodes
          /\ account' = [account EXCEPT ![q.user] = CodeIssued(@)]
    /\ Done(c)
    /\ UNCHANGED session

\* updateProfile: the signed-in user sets a new password.
UpdateProfile(u) ==
    /\ serial => Quiet
    /\ Authenticated(u)
    /\ account' = [account EXCEPT ![u].password = TRUE]
    /\ UNCHANGED <<session, call, serial>>

\* A code lasts 30 minutes, a link an hour.
CodeExpires(u) ==
    /\ account[u].codeOpen
    /\ account' = [account EXCEPT ![u].codeOpen = FALSE]
    /\ UNCHANGED <<session, call, serial>>

LinkExpires(u) ==
    /\ account[u].link
    /\ account' = [account EXCEPT ![u].link = FALSE]
    /\ UNCHANGED <<session, call, serial>>

-----------------------------------------------------------------------------
(* Administration: each finds the row first and writes in a transaction *)

Administer(c, op, u) == Present(u) /\ Begin(c, [op |-> op, user |-> u])

\* approveUser, for an account of any status.
ApproveUser(c) ==
    LET u == call[c].user IN
    /\ call[c].op = "approve"
    /\ account[u].code < MaxCodes
    /\ account' = [account EXCEPT ![u] =
                     [CodeIssued(@) EXCEPT !.status = "ACTIVE", !.verified = FALSE]]
    /\ Done(c)
    /\ UNCHANGED session

RejectRevokes(u) == RevokedAll(u)

RejectUser(c) ==
    LET u == call[c].user IN
    /\ call[c].op = "reject"
    /\ account' = [account EXCEPT ![u].status = "REJECTED", ![u].deleted = TRUE]
    /\ session' = RejectRevokes(u)
    /\ Done(c)

\* Mutant: only the status is written.
SuspendRevokes_None(u) == session

SuspendRevokes(u) == RevokedAll(u)

SuspendUser(c) ==
    LET u == call[c].user IN
    /\ call[c].op = "suspend"
    /\ account' = [account EXCEPT ![u].status = "SUSPENDED"]
    /\ session' = SuspendRevokes(u)
    /\ Done(c)

\* reactivateUser, for an account of any status.
ReactivateUser(c) ==
    LET u == call[c].user IN
    /\ call[c].op = "reactivate"
    /\ account' = [account EXCEPT ![u].status = "ACTIVE"]
    /\ Done(c)
    /\ UNCHANGED session

-----------------------------------------------------------------------------
UserNext(u) ==
    \/ Register(u) \/ CreateUser(u) \/ LogoutAll(u) \/ UpdateProfile(u)
    \/ CodeExpires(u) \/ LinkExpires(u)

BeginNext(c, u) ==
    \/ Login(c, u) \/ VerifyAccount(c, u)
    \/ ForgotPassword(c, u) \/ ResetPassword(c, u) \/ ResendVerificationCode(c, u)
    \/ \E op \in {"approve", "reject", "suspend", "reactivate"} : Administer(c, op, u)

CommitNext(c) ==
    \/ MarkVerified(c) \/ IssueSession(c)
    \/ ClaimSession(c) \/ RotateSession(c) \/ CommitCredential(c)
    \/ ApproveUser(c) \/ RejectUser(c) \/ SuspendUser(c) \/ ReactivateUser(c)
    \/ Abandon(c)

AccountsNext ==
    \/ \E u \in Users : UserNext(u) \/ \E c \in Calls : BeginNext(c, u)
    \/ \E c \in Calls : CommitNext(c)
    \/ \E s \in SessionIds :
         Logout(s) \/ RefreshBlocked(s) \/ \E c \in Calls : Refresh(c, s)

AccountsSpec == AccountsInit /\ [][AccountsNext]_accountVars

-----------------------------------------------------------------------------
(* Properties *)

\* Rotation is single use (auth.service.ts, the claim in refresh): however
\* many requests present one refresh token at once, at most one session comes
\* of it, and the one presented is revoked by then.
OneSuccessor ==
    \A s, t \in SessionIds :
      session[s].parent # 0 =>
        /\ session[session[s].parent].revoked
        /\ session[s].parent = session[t].parent => s = t

\* With requests one at a time, an account that is rejected has no session
\* left that could be refreshed, and a suspended one has none but those
\* verifyAccount opens: it never looks at the status.
BlockedIsSignedOut ==
    serial =>
      \A s \in SessionIds : Live(s) =>
        /\ account[session[s].user].status # "REJECTED"
        /\ account[session[s].user].status = "SUSPENDED" =>
             session[s].code # 0

\* With requests one at a time, a verification code signs in once.
CodeUsedOnce ==
    serial =>
      \A s, t \in SessionIds :
        (session[s].code # 0 /\ session[s].code = session[t].code
           /\ session[s].user = session[t].user) => s = t

\* With requests one at a time, a refresh never opens a session for an account
\* that is blocked by then: a suspended user cannot keep renewing a sign-in.
RenewedWhileAllowed ==
    [][\A c \in Calls : serial /\ RotateSession(c)
         => account[call[c].user].status \notin Blocked]_accountVars

\* The rows are of their schema; with requests one at a time a blocked account
\* is signed out and a verification code signs in once (suspendUser, rejectUser,
\* verifyAccount against the sessions that login, refresh and codes open).
AccountsSound == AccountsTypeOK /\ BlockedIsSignedOut /\ CodeUsedOnce

=============================================================================
