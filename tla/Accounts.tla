------------------------------ MODULE Accounts ------------------------------
(***************************************************************************)
(* One email address in auth-service (auth/auth.service.ts and             *)
(* user/user.service.ts): the account registered for it, the links mailed  *)
(* to it, and the sessions, one row of refresh_tokens each, opened with    *)
(* its password.                                                           *)
(*                                                                         *)
(* A handler takes one step per await on the database and keeps what it    *)
(* has read.  A token is a fresh random number known by its digest: it is  *)
(* named after the request that made it.                                   *)
(***************************************************************************)
EXTENDS Naturals

CONSTANTS
    Registers, Logins, Verifies, \* requests of each route, each used once
    Forgots, Resets,
    Presents,                    \* requests with a refresh token: refresh or logout
    Passwords,
    None,                        \* no request, token or password
    FaultKinds,                  \* what may go wrong: some of "db", "kafka", "auth"
    MaxFaults                    \* bound on failures and restarts

Requests == Registers \cup Logins \cup Presents \cup Verifies \cup Forgots \cup Resets
Links == Registers \cup Forgots

ASSUME NoneAssumption == None \notin Requests /\ None \notin Passwords
ASSUME RoutesAssumption ==
    /\ Registers \cap (Logins \cup Presents \cup Verifies \cup Forgots \cup Resets) = {}
    /\ Logins \cap (Presents \cup Verifies \cup Forgots \cup Resets) = {}
    /\ Presents \cap (Verifies \cup Forgots \cup Resets) = {}
    /\ Verifies \cap (Forgots \cup Resets) = {}
    /\ Forgots \cap Resets = {}
ASSUME BoundAssumption == MaxFaults \in Nat

VARIABLES
    \* PostgreSQL
    account,  \* the row of the address; its id is the request that made it
    session,  \* the refresh token row of a login
    \* the buyer's mailbox, and links whose time is over
    mailed, lapsed,
    \* memory: next step of a request, the password it carries, the link or
    \* session it presents
    pc, password, given,
    \* history: logins whose session a reset could not see, or did not come to
    spared,
    \* history: resets that changed the password, and resets that had found
    \* their link when another one used it
    used, raced,
    \* environment
    faults

memory == <<pc, password, given>>
uses == <<used, raced>>
vars == <<account, session, mailed, lapsed, pc, password, given, spared, used, raced,
          faults>>

AccountRows == [id : Registers \cup {None}, password : Passwords \cup {None},
             verified : BOOLEAN, verificationToken : Registers \cup {None},
             resetToken : Forgots \cup {None}]
Steps == {"idle", "insert", "token", "session", "save", "mark", "update", "revoke",
          "ok", "refused", "error"}
Ended == {"ok", "refused", "error"}

TypeOK ==
    /\ account \in AccountRows
    /\ session \in [Logins -> {"none", "live", "revoked"}]
    /\ mailed \in SUBSET Links
    /\ lapsed \in SUBSET Links
    /\ pc \in [Requests -> Steps]
    /\ password \in [Requests -> Passwords \cup {None}]
    /\ given \in [Requests -> Links \cup Logins \cup {None}]
    /\ spared \in SUBSET Logins
    /\ used \in SUBSET Resets /\ raced \in SUBSET Resets
    /\ faults \in 0..MaxFaults

NoAccount == [id |-> None, password |-> None, verified |-> FALSE,
              verificationToken |-> None, resetToken |-> None]
Exists == account.id # None

Init ==
    /\ account = NoAccount
    /\ session = [l \in Logins |-> "none"]
    /\ mailed = {} /\ lapsed = {}
    /\ pc = [r \in Requests |-> "idle"]
    /\ password = [r \in Requests |-> None]
    /\ given = [r \in Requests |-> None]
    /\ spared = {} /\ used = {} /\ raced = {}
    /\ faults = 0

Fault(kind) ==
    /\ kind \in FaultKinds
    /\ faults < MaxFaults
    /\ faults' = faults + 1
NoFault == faults' = faults

Goto(r, step) == pc' = [pc EXCEPT ![r] = step]

\* A query that fails ends its request.
QueryFails(r) == Goto(r, "error") /\ Fault("db")

\* emit is not awaited: the mail comes, or nobody hears that it did not.
Emit(r) ==
    \/ mailed' = mailed \cup {r} /\ NoFault
    \/ mailed' = mailed /\ Fault("kafka")

-----------------------------------------------------------------------------
(* register *)

Register(r) ==
    /\ pc[r] = "idle"
    /\ \E p \in Passwords : password' = [password EXCEPT ![r] = p]
    /\ \/ Goto(r, IF Exists THEN "refused" ELSE "insert") /\ NoFault
       \/ QueryFails(r)
    /\ UNCHANGED <<account, session, mailed, lapsed, given, spared, uses>>

\* Mutant: swapped arguments.
SwappedFields(r) == [NoAccount EXCEPT !.id = password[r], !.password = r]

\* The row of a new account.
NewAccount(r) == [NoAccount EXCEPT !.id = r, !.password = password[r]]

\* Mutant: the email column is not unique.
InsertAgain(r) ==
    /\ pc[r] = "insert"
    /\ account' = NewAccount(r)
    /\ Goto(r, "token")
    /\ UNCHANGED <<session, mailed, lapsed, password, given, spared, uses, faults>>

\* The password was hashed meanwhile; the email column is unique.
InsertUser(r) ==
    /\ pc[r] = "insert"
    /\ \/ ~ Exists /\ account' = NewAccount(r) /\ Goto(r, "token") /\ NoFault
       \/ Exists /\ account' = account /\ Goto(r, "error") /\ NoFault
       \/ account' = account /\ QueryFails(r)
    /\ UNCHANGED <<session, mailed, lapsed, password, given, spared, uses>>

SetEmailVerificationToken(r) ==
    /\ pc[r] = "token" /\ r \in Registers
    /\ \/ /\ account' = [account EXCEPT !.verificationToken = r]
          /\ Goto(r, "ok")
          /\ Emit(r)
       \/ UNCHANGED <<account, mailed>> /\ QueryFails(r)
    /\ UNCHANGED <<session, lapsed, password, given, spared, uses>>

-----------------------------------------------------------------------------
(* login, refresh, logout *)

\* findByEmail, and bcrypt.compare with the hash that was read.
Login(l) ==
    /\ pc[l] = "idle"
    /\ \E p \in Passwords :
         /\ password' = [password EXCEPT ![l] = p]
         /\ \/ Goto(l, IF Exists /\ account.password = p THEN "session" ELSE "refused")
               /\ NoFault
            \/ QueryFails(l)
    /\ UNCHANGED <<account, session, mailed, lapsed, given, spared, uses>>

\* generateTokens
SaveSession(l) ==
    /\ pc[l] = "session"
    /\ \/ session' = [session EXCEPT ![l] = "live"] /\ Goto(l, "ok") /\ NoFault
       \/ session' = session /\ QueryFails(l)
    /\ UNCHANGED <<account, mailed, lapsed, password, given, spared, uses>>

\* Tokens handed out by a login.
Issued == {l \in Logins : pc[l] = "ok"}

\* The token is looked up by a freshly salted bcrypt hash, and stored under
\* its SHA-256 digest: no row is ever found.
Refresh(o) ==
    /\ pc[o] = "idle"
    /\ \E l \in Issued : given' = [given EXCEPT ![o] = l]
    /\ \/ Goto(o, "refused") /\ NoFault
       \/ QueryFails(o)
    /\ UNCHANGED <<account, session, mailed, lapsed, password, spared, uses>>

Logout(o) ==
    /\ pc[o] = "idle"
    /\ \E l \in Issued :
         /\ given' = [given EXCEPT ![o] = l]
         /\ \/ Goto(o, IF session[l] = "live" THEN "save" ELSE "ok") /\ NoFault
            \/ QueryFails(o)
    /\ UNCHANGED <<account, session, mailed, lapsed, password, spared, uses>>

SaveRevoked(o) ==
    /\ pc[o] = "save"
    /\ \/ session' = [session EXCEPT ![given[o]] = "revoked"] /\ Goto(o, "ok") /\ NoFault
       \/ session' = session /\ QueryFails(o)
    /\ UNCHANGED <<account, mailed, lapsed, password, given, spared, uses>>

-----------------------------------------------------------------------------
(* verifyEmail *)

VerifyEmail(v) ==
    /\ pc[v] = "idle"
    /\ \E t \in mailed :
         /\ given' = [given EXCEPT ![v] = t]
         /\ \/ Goto(v, IF account.verificationToken = t /\ t \notin lapsed
                         THEN "mark" ELSE "refused") /\ NoFault
            \/ QueryFails(v)
    /\ UNCHANGED <<account, session, mailed, lapsed, password, spared, uses>>

VerifiedAccount == [account EXCEPT !.verified = TRUE, !.verificationToken = None]

MarkEmailVerified(v) ==
    /\ pc[v] = "mark"
    /\ \/ account' = VerifiedAccount /\ Goto(v, "ok") /\ NoFault
       \/ account' = account /\ QueryFails(v)
    /\ UNCHANGED <<session, mailed, lapsed, password, given, spared, uses>>

-----------------------------------------------------------------------------
(* requestPasswordReset and resetPassword *)

RequestPasswordReset(f) ==
    /\ pc[f] = "idle"
    /\ \/ Goto(f, IF Exists THEN "token" ELSE "ok") /\ NoFault
       \/ QueryFails(f)
    /\ UNCHANGED <<account, session, mailed, lapsed, password, given, spared, uses>>

\* The newest link replaces the one before.
SetPasswordResetToken(f) ==
    /\ pc[f] = "token" /\ f \in Forgots
    /\ \/ /\ account' = [account EXCEPT !.resetToken = f]
          /\ Goto(f, "ok")
          /\ Emit(f)
       \/ UNCHANGED <<account, mailed>> /\ QueryFails(f)
    /\ UNCHANGED <<session, lapsed, password, given, spared, uses>>

ResetPassword(s) ==
    /\ pc[s] = "idle"
    /\ \E t \in mailed, p \in Passwords :
         /\ given' = [given EXCEPT ![s] = t]
         /\ password' = [password EXCEPT ![s] = p]
         /\ \/ Goto(s, IF account.resetToken = t /\ t \notin lapsed
                         THEN "update" ELSE "refused") /\ NoFault
            \/ QueryFails(s)
    /\ UNCHANGED <<account, session, mailed, lapsed, spared, uses>>

\* The reset s uses its link; others that have found it are in the race.
Use(s) ==
    /\ used' = used \cup {s}
    /\ raced' = raced \cup {q \in Resets \ {s} : pc[q] = "update" /\ given[q] = given[s]}

\* Mutant: the link is left in the row.
UpdatePasswordOnly(s) ==
    /\ pc[s] = "update"
    /\ account' = [account EXCEPT !.password = password[s]]
    /\ Goto(s, "revoke")
    /\ Use(s)
    /\ UNCHANGED <<session, mailed, lapsed, password, given, spared, faults>>

\* Whatever link the row holds by now is cleared.
ResetAccount(s) == [account EXCEPT !.password = password[s], !.resetToken = None]

\* Mutant: the sessions are left alone.
UpdateAndAnswer(s) ==
    /\ pc[s] = "update"
    /\ account' = ResetAccount(s)
    /\ Goto(s, "ok")
    /\ UNCHANGED <<session, mailed, lapsed, password, given, spared, uses, faults>>

UpdatePassword(s) ==
    /\ pc[s] = "update"
    /\ \/ account' = ResetAccount(s) /\ Goto(s, "revoke") /\ Use(s) /\ NoFault
       \/ account' = account /\ QueryFails(s) /\ UNCHANGED uses
    /\ UNCHANGED <<session, mailed, lapsed, password, given, spared>>

\* Logins past the test of their password, without a row yet, and with one.
Coming == {l \in Logins : pc[l] = "session"}
Open == {l \in Logins : session[l] = "live"}

\* A second statement, not in a transaction with the first.
RevokeSessions(s) ==
    /\ pc[s] = "revoke"
    /\ \/ /\ session' = [l \in Logins |-> IF l \in Open THEN "revoked" ELSE session[l]]
          /\ Goto(s, "ok")
          /\ spared' = spared \cup Coming
          /\ NoFault
       \/ /\ session' = session
          /\ spared' = spared \cup Coming \cup Open
          /\ QueryFails(s)
    /\ UNCHANGED <<account, mailed, lapsed, password, given, uses>>

-----------------------------------------------------------------------------

\* 24 hours for the link of an account, one for a new password.
LinkLapses(t) ==
    /\ t \in mailed \ lapsed
    /\ lapsed' = lapsed \cup {t}
    /\ UNCHANGED <<account, session, mailed, memory, spared, uses, faults>>

\* auth-service restarts: requests under way are gone.
AuthServiceRestarts ==
    /\ Fault("auth")
    /\ pc' = [r \in Requests |-> IF pc[r] \in Ended \cup {"idle"} THEN pc[r] ELSE "error"]
    /\ spared' = IF \E s \in Resets : pc[s] = "revoke"
                   THEN spared \cup Open ELSE spared
    /\ UNCHANGED <<account, session, mailed, lapsed, password, given, uses>>

Next ==
    \/ \E r \in Registers : Register(r) \/ InsertUser(r) \/ SetEmailVerificationToken(r)
    \/ \E l \in Logins : Login(l) \/ SaveSession(l)
    \/ \E o \in Presents : Refresh(o) \/ Logout(o) \/ SaveRevoked(o)
    \/ \E v \in Verifies : VerifyEmail(v) \/ MarkEmailVerified(v)
    \/ \E f \in Forgots : RequestPasswordReset(f) \/ SetPasswordResetToken(f)
    \/ \E s \in Resets : ResetPassword(s) \/ UpdatePassword(s) \/ RevokeSessions(s)
    \/ \E t \in Links : LinkLapses(t)
    \/ AuthServiceRestarts

Spec == Init /\ [][Next]_vars

-----------------------------------------------------------------------------
(* Properties *)

\* Two registrations of one address are never both accepted, whichever way
\* they interleave, and the link mailed by the accepted one stays the way to
\* verify the account until it has been used (user.service.ts 19-38,
\* auth.service.ts 45-60).
RegisteredOnce ==
    \A r \in Registers :
        pc[r] = "ok" =>
            /\ account.id = r
            /\ IF account.verified THEN account.verificationToken = None
                                   ELSE account.verificationToken = r

\* No session outlives the password it was opened with, but the ones resetPassword
\* cannot see: of a login that had tested the password and not yet stored its
\* row, or when the service failed between the two statements of the reset
\* (auth.service.ts 289-298 beside 85-94).
OldSessionsEnd ==
    \A l \in Logins :
        session[l] = "live" /\ password[l] # account.password =>
            l \in spared \/ \E s \in Resets : pc[s] = "revoke"

\* A reset link changes the password twice only for a reset that had found it
\* before it was used the first time: once used it is dead, whatever newer links
\* are asked for, and whether or not the reset that used it got any further
\* (auth.service.ts 278-298, user.service.ts 91-98).
LinkUsedOnce ==
    \A q, s \in used : given[q] = given[s] => q = s \/ q \in raced \/ s \in raced
=============================================================================
