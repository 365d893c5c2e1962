--------------------------- MODULE AccountsProofs ---------------------------
(***************************************************************************)
(* Proofs about Accounts: type correctness, and the three promises of      *)
(* auth-service about registrations, sessions and reset links, for any     *)
(* number of requests, passwords, failures and restarts.                   *)
(***************************************************************************)
EXTENDS Accounts, TLAPS

\* The routes share no request (auth.controller.ts), and a link is no None.
LEMMA Routes ==
    /\ \A r \in Registers : r \notin Logins /\ r \notin Presents /\ r \notin Verifies
                               /\ r \notin Forgots /\ r \notin Resets
    /\ \A l \in Logins : l \notin Presents /\ l \notin Verifies /\ l \notin Forgots
                            /\ l \notin Resets
    /\ \A o \in Presents : o \notin Verifies /\ o \notin Forgots /\ o \notin Resets
    /\ \A v \in Verifies : v \notin Forgots /\ v \notin Resets
    /\ \A f \in Forgots : f \notin Resets
    /\ None \notin Links
BY RoutesAssumption, NoneAssumption DEF Requests, Links

-----------------------------------------------------------------------------
(* Types *)

\* The rows that change in two columns at once.
LEMMA AccountUpdates ==
    ASSUME TypeOK
    PROVE  /\ \A r \in Registers :
                /\ NewAccount(r) \in AccountRows
                /\ NewAccount(r).id = r /\ NewAccount(r).password = password[r]
                /\ NewAccount(r).resetToken = None
                /\ NewAccount(r).verificationToken = None /\ ~ NewAccount(r).verified
           /\ /\ VerifiedAccount \in AccountRows /\ VerifiedAccount.id = account.id
              /\ VerifiedAccount.password = account.password
              /\ VerifiedAccount.resetToken = account.resetToken
              /\ VerifiedAccount.verificationToken = None /\ VerifiedAccount.verified
           /\ \A s \in Resets :
                /\ ResetAccount(s) \in AccountRows /\ ResetAccount(s).id = account.id
                /\ ResetAccount(s).password = password[s]
                /\ ResetAccount(s).resetToken = None
                /\ ResetAccount(s).verificationToken = account.verificationToken
                /\ ResetAccount(s).verified = account.verified
<1>1. ASSUME NEW r \in Registers
      PROVE  /\ NewAccount(r) \in AccountRows
             /\ NewAccount(r).id = r /\ NewAccount(r).password = password[r]
             /\ NewAccount(r).resetToken = None
             /\ NewAccount(r).verificationToken = None /\ ~ NewAccount(r).verified
  <2>1. NoAccount \in AccountRows
    BY DEF NoAccount, AccountRows
  <2>2. password[r] \in Passwords \cup {None}
    BY DEF TypeOK, Requests
  <2>3. /\ NoAccount.resetToken = None /\ NoAccount.verificationToken = None
        /\ NoAccount.verified = FALSE
    BY DEF NoAccount
  <2> QED
    BY <2>1, <2>2, <2>3, Zenon DEF NewAccount, AccountRows
<1>2. /\ VerifiedAccount \in AccountRows /\ VerifiedAccount.id = account.id
      /\ VerifiedAccount.password = account.password
      /\ VerifiedAccount.resetToken = account.resetToken
      /\ VerifiedAccount.verificationToken = None /\ VerifiedAccount.verified
  BY Zenon DEF VerifiedAccount, TypeOK, AccountRows
<1>3. ASSUME NEW s \in Resets
      PROVE  /\ ResetAccount(s) \in AccountRows /\ ResetAccount(s).id = account.id
             /\ ResetAccount(s).password = password[s]
             /\ ResetAccount(s).resetToken = None
             /\ ResetAccount(s).verificationToken = account.verificationToken
             /\ ResetAccount(s).verified = account.verified
  <2>1. password[s] \in Passwords \cup {None}
    BY DEF TypeOK, Requests
  <2> QED
    BY <2>1, Zenon DEF ResetAccount, TypeOK, AccountRows
<1> QED
  BY <1>1, <1>2, <1>3

LEMMA TypeInit == Init => TypeOK
BY BoundAssumption DEF Init, TypeOK, AccountRows, NoAccount, Steps, Links

LEMMA TypeStep ==
    ASSUME TypeOK, [Next]_vars
    PROVE  TypeOK'
<1> USE BoundAssumption DEF TypeOK, AccountRows, Requests, Links, Steps, Goto,
        QueryFails, Fault, NoFault, uses
<1>1. ASSUME NEW r \in Registers, Register(r) PROVE TypeOK'
  BY <1>1 DEF Register, Exists
<1>2. ASSUME NEW r \in Registers, InsertUser(r) PROVE TypeOK'
  BY AccountUpdates, <1>2 DEF InsertUser, Exists
<1>3. ASSUME NEW r \in Registers, SetEmailVerificationToken(r) PROVE TypeOK'
  BY <1>3 DEF SetEmailVerificationToken, Emit
<1>4. ASSUME NEW l \in Logins, Login(l) PROVE TypeOK'
  BY <1>4 DEF Login, Exists
<1>5. ASSUME NEW l \in Logins, SaveSession(l) PROVE TypeOK'
  BY <1>5 DEF SaveSession
<1>6. ASSUME NEW o \in Presents, Refresh(o) PROVE TypeOK'
  BY <1>6 DEF Refresh, Issued
<1>7. ASSUME NEW o \in Presents, Logout(o) PROVE TypeOK'
  BY <1>7 DEF Logout, Issued
<1>8. ASSUME NEW o \in Presents, SaveRevoked(o) PROVE TypeOK'
  BY <1>8 DEF SaveRevoked
<1>9. ASSUME NEW v \in Verifies, VerifyEmail(v) PROVE TypeOK'
  BY <1>9 DEF VerifyEmail
<1>10. ASSUME NEW v \in Verifies, MarkEmailVerified(v) PROVE TypeOK'
  BY AccountUpdates, <1>10 DEF MarkEmailVerified
<1>11. ASSUME NEW f \in Forgots, RequestPasswordReset(f) PROVE TypeOK'
  BY <1>11 DEF RequestPasswordReset, Exists
<1>12. ASSUME NEW f \in Forgots, SetPasswordResetToken(f) PROVE TypeOK'
  BY <1>12 DEF SetPasswordResetToken, Emit
<1>13. ASSUME NEW s \in Resets, ResetPassword(s) PROVE TypeOK'
  BY <1>13 DEF ResetPassword
<1>14. ASSUME NEW s \in Resets, UpdatePassword(s) PROVE TypeOK'
  BY AccountUpdates, <1>14 DEF UpdatePassword, Use
<1>15. ASSUME NEW s \in Resets, RevokeSessions(s) PROVE TypeOK'
  BY <1>15 DEF RevokeSessions, Coming, Open
<1>16. ASSUME NEW t \in Links, LinkLapses(t) PROVE TypeOK'
  BY <1>16 DEF LinkLapses, memory
<1>17. ASSUME AuthServiceRestarts PROVE TypeOK'
  BY <1>17 DEF AuthServiceRestarts, Open, Ended
<1>18. ASSUME UNCHANGED vars PROVE TypeOK'
  BY <1>18 DEF vars
<1> QED
  BY <1>1, <1>2, <1>3, <1>4, <1>5, <1>6, <1>7, <1>8, <1>9, <1>10, <1>11, <1>12, <1>13,
     <1>14, <1>15, <1>16, <1>17, <1>18 DEF Next

\* Every reachable state of auth-service is well typed.
THEOREM TypeCorrect == Spec => []TypeOK
<1> QED
  BY TypeInit, TypeStep, PTL DEF Spec

-----------------------------------------------------------------------------
(* RegisteredOnce *)

\* A registration that has inserted its row owns the account, which is not
\* verified before the link is stored: a link that is found belongs to a
\* registration that was answered.
RegInv ==
    /\ RegisteredOnce
    /\ \A r \in Registers :
         pc[r] = "token" => /\ account.id = r
                            /\ ~ account.verified /\ account.verificationToken = None
    /\ account.verificationToken # None =>
         account.verificationToken \in Registers /\ pc[account.verificationToken] = "ok"
    /\ \A v \in Verifies :
         pc[v] = "mark" => account.id \in Registers /\ pc[account.id] = "ok"

LEMMA RegInit == Init => RegInv
BY DEF Init, RegInv, RegisteredOnce, NoAccount, Requests

LEMMA RegStep ==
    ASSUME TypeOK, RegInv, [Next]_vars
    PROVE  RegInv'
<1> USE Routes, NoneAssumption DEF TypeOK, RegInv, RegisteredOnce, AccountRows,
        Requests, Links, Goto, QueryFails, Fault, NoFault, uses
<1>1. ASSUME NEW r \in Registers, Register(r) PROVE RegInv'
  BY <1>1 DEF Register, Exists
<1>2. ASSUME NEW r \in Registers, InsertUser(r) PROVE RegInv'
  BY AccountUpdates, <1>2 DEF InsertUser, Exists
<1>3. ASSUME NEW r \in Registers, SetEmailVerificationToken(r) PROVE RegInv'
  BY <1>3 DEF SetEmailVerificationToken, Emit
<1>4. ASSUME NEW l \in Logins, Login(l) PROVE RegInv'
  BY <1>4 DEF Login, Exists
<1>5. ASSUME NEW l \in Logins, SaveSession(l) PROVE RegInv'
  BY <1>5 DEF SaveSession
<1>6. ASSUME NEW o \in Presents, Refresh(o) PROVE RegInv'
  BY <1>6 DEF Refresh, Issued
<1>7. ASSUME NEW o \in Presents, Logout(o) PROVE RegInv'
  BY <1>7 DEF Logout, Issued
<1>8. ASSUME NEW o \in Presents, SaveRevoked(o) PROVE RegInv'
  BY <1>8 DEF SaveRevoked
<1>9. ASSUME NEW v \in Verifies, VerifyEmail(v) PROVE RegInv'
  BY <1>9 DEF VerifyEmail
<1>10. ASSUME NEW v \in Verifies, MarkEmailVerified(v) PROVE RegInv'
  BY AccountUpdates, <1>10 DEF MarkEmailVerified
<1>11. ASSUME NEW f \in Forgots, RequestPasswordReset(f) PROVE RegInv'
  BY <1>11 DEF RequestPasswordReset, Exists
<1>12. ASSUME NEW f \in Forgots, SetPasswordResetToken(f) PROVE RegInv'
  BY <1>12 DEF SetPasswordResetToken, Emit
<1>13. ASSUME NEW s \in Resets, ResetPassword(s) PROVE RegInv'
  BY <1>13 DEF ResetPassword
<1>14. ASSUME NEW s \in Resets, UpdatePassword(s) PROVE RegInv'
  BY AccountUpdates, <1>14 DEF UpdatePassword, Use
<1>15. ASSUME NEW s \in Resets, RevokeSessions(s) PROVE RegInv'
  BY <1>15 DEF RevokeSessions, Coming, Open
<1>16. ASSUME NEW t \in Links, LinkLapses(t) PROVE RegInv'
  BY <1>16 DEF LinkLapses, memory
<1>17. ASSUME AuthServiceRestarts PROVE RegInv'
  BY <1>17 DEF AuthServiceRestarts, Open, Ended
<1>18. ASSUME UNCHANGED vars PROVE RegInv'
  BY <1>18 DEF vars
<1> QED
  BY <1>1, <1>2, <1>3, <1>4, <1>5, <1>6, <1>7, <1>8, <1>9, <1>10, <1>11, <1>12, <1>13,
     <1>14, <1>15, <1>16, <1>17, <1>18 DEF Next

\* However registrations of one address interleave with each other and with the
\* other routes, one of them is accepted and its link verifies the account.
THEOREM RegisteredOnceHolds == Spec => []RegisteredOnce
<1>1. RegInv => RegisteredOnce
  BY DEF RegInv
<1> QED
  BY <1>1, TypeInit, TypeStep, RegInit, RegStep, PTL DEF Spec

-----------------------------------------------------------------------------
(* OldSessionsEnd *)

\* A session is that of a login that was answered.  There is none, and none is
\* coming, without an account; a login that has passed the test of a password
\* since changed is known to be spared, or a reset is about to revoke.
SessionInv ==
    /\ OldSessionsEnd
    /\ \A l \in Logins :
         /\ session[l] = "live" => pc[l] = "ok"
         /\ session[l] = "live" \/ pc[l] = "session" => Exists
         /\ pc[l] = "session" /\ password[l] # account.password =>
              l \in spared \/ \E s \in Resets : pc[s] = "revoke"

LEMMA SessionInit == Init => SessionInv
BY DEF Init, SessionInv, OldSessionsEnd, Requests

LEMMA SessionStep ==
    ASSUME TypeOK, SessionInv, [Next]_vars
    PROVE  SessionInv'
<1> USE Routes, NoneAssumption DEF TypeOK, SessionInv, OldSessionsEnd, Exists,
        AccountRows, Requests, Links, Goto, QueryFails, Fault, NoFault, uses
<1>1. ASSUME NEW r \in Registers, Register(r) PROVE SessionInv'
  BY <1>1 DEF Register, Exists
<1>2. ASSUME NEW r \in Registers, InsertUser(r) PROVE SessionInv'
  BY AccountUpdates, <1>2 DEF InsertUser, Exists
<1>3. ASSUME NEW r \in Registers, SetEmailVerificationToken(r) PROVE SessionInv'
  BY <1>3 DEF SetEmailVerificationToken, Emit
<1>4. ASSUME NEW l \in Logins, Login(l) PROVE SessionInv'
  BY <1>4 DEF Login, Exists
<1>5. ASSUME NEW l \in Logins, SaveSession(l) PROVE SessionInv'
  BY <1>5 DEF SaveSession
<1>6. ASSUME NEW o \in Presents, Refresh(o) PROVE SessionInv'
  BY <1>6 DEF Refresh, Issued
<1>7. ASSUME NEW o \in Presents, Logout(o) PROVE SessionInv'
  BY <1>7 DEF Logout, Issued
<1>8. ASSUME NEW o \in Presents, SaveRevoked(o) PROVE SessionInv'
  BY <1>8 DEF SaveRevoked
<1>9. ASSUME NEW v \in Verifies, VerifyEmail(v) PROVE SessionInv'
  BY <1>9 DEF VerifyEmail
<1>10. ASSUME NEW v \in Verifies, MarkEmailVerified(v) PROVE SessionInv'
  BY AccountUpdates, <1>10 DEF MarkEmailVerified
<1>11. ASSUME NEW f \in Forgots, RequestPasswordReset(f) PROVE SessionInv'
  BY <1>11 DEF RequestPasswordReset, Exists
<1>12. ASSUME NEW f \in Forgots, SetPasswordResetToken(f) PROVE SessionInv'
  BY <1>12 DEF SetPasswordResetToken, Emit
<1>13. ASSUME NEW s \in Resets, ResetPassword(s) PROVE SessionInv'
  BY <1>13 DEF ResetPassword
<1>14. ASSUME NEW s \in Resets, UpdatePassword(s) PROVE SessionInv'
  BY AccountUpdates, <1>14 DEF UpdatePassword, Use
<1>15. ASSUME NEW s \in Resets, RevokeSessions(s) PROVE SessionInv'
  BY <1>15 DEF RevokeSessions, Coming, Open
<1>16. ASSUME NEW t \in Links, LinkLapses(t) PROVE SessionInv'
  BY <1>16 DEF LinkLapses, memory
<1>17. ASSUME AuthServiceRestarts PROVE SessionInv'
  BY <1>17 DEF AuthServiceRestarts, Open, Ended
<1>18. ASSUME UNCHANGED vars PROVE SessionInv'
  BY <1>18 DEF vars
<1> QED
  BY <1>1, <1>2, <1>3, <1>4, <1>5, <1>6, <1>7, <1>8, <1>9, <1>10, <1>11, <1>12, <1>13,
     <1>14, <1>15, <1>16, <1>17, <1>18 DEF Next

\* A reset ends every session of the old password, but those it cannot see.
THEOREM OldSessionsEndHolds == Spec => []OldSessionsEnd
<1>1. SessionInv => OldSessionsEnd
  BY DEF SessionInv
<1> QED
  BY <1>1, TypeInit, TypeStep, SessionInit, SessionStep, PTL DEF Spec

-----------------------------------------------------------------------------
(* LinkUsedOnce *)

\* A mailed link is that of a request that was answered, so that it is not
\* stored again; a reset under way has a mailed link; and a link that was used
\* is out of the account, so that only resets in the race still carry it.
LinkInv ==
    /\ LinkUsedOnce
    /\ \A t \in mailed : pc[t] = "ok"
    /\ \A s \in Resets : pc[s] = "update" => given[s] \in mailed /\ s \notin used
    /\ \A s \in used :
         /\ pc[s] # "idle" /\ given[s] \in mailed /\ account.resetToken # given[s]
         /\ \A q \in Resets : pc[q] = "update" /\ given[q] = given[s] => q \in raced

LEMMA LinkInit == Init => LinkInv
BY DEF Init, LinkInv, LinkUsedOnce, Requests

LEMMA LinkStep ==
    ASSUME TypeOK, LinkInv, [Next]_vars
    PROVE  LinkInv'
<1> USE Routes, NoneAssumption DEF TypeOK, LinkInv, LinkUsedOnce, AccountRows,
        Requests, Links, Goto, QueryFails, Fault, NoFault, uses
<1>1. ASSUME NEW r \in Registers, Register(r) PROVE LinkInv'
  BY <1>1 DEF Register, Exists
<1>2. ASSUME NEW r \in Registers, InsertUser(r) PROVE LinkInv'
  BY AccountUpdates, <1>2 DEF InsertUser, Exists
<1>3. ASSUME NEW r \in Registers, SetEmailVerificationToken(r) PROVE LinkInv'
  BY <1>3 DEF SetEmailVerificationToken, Emit
<1>4. ASSUME NEW l \in Logins, Login(l) PROVE LinkInv'
  BY <1>4 DEF Login, Exists
<1>5. ASSUME NEW l \in Logins, SaveSession(l) PROVE LinkInv'
  BY <1>5 DEF SaveSession
<1>6. ASSUME NEW o \in Presents, Refresh(o) PROVE LinkInv'
  BY <1>6 DEF Refresh, Issued
<1>7. ASSUME NEW o \in Presents, Logout(o) PROVE LinkInv'
  BY <1>7 DEF Logout, Issued
<1>8. ASSUME NEW o \in Presents, SaveRevoked(o) PROVE LinkInv'
  BY <1>8 DEF SaveRevoked
<1>9. ASSUME NEW v \in Verifies, VerifyEmail(v) PROVE LinkInv'
  BY <1>9 DEF VerifyEmail
<1>10. ASSUME NEW v \in Verifies, MarkEmailVerified(v) PROVE LinkInv'
  BY AccountUpdates, <1>10 DEF MarkEmailVerified
<1>11. ASSUME NEW f \in Forgots, RequestPasswordReset(f) PROVE LinkInv'
  BY <1>11 DEF RequestPasswordReset, Exists
<1>12. ASSUME NEW f \in Forgots, SetPasswordResetToken(f) PROVE LinkInv'
  BY <1>12 DEF SetPasswordResetToken, Emit
<1>13. ASSUME NEW s \in Resets, ResetPassword(s) PROVE LinkInv'
  BY <1>13 DEF ResetPassword
<1>14. ASSUME NEW s \in Resets, UpdatePassword(s) PROVE LinkInv'
  BY AccountUpdates, <1>14 DEF UpdatePassword, Use
<1>15. ASSUME NEW s \in Resets, RevokeSessions(s) PROVE LinkInv'
  BY <1>15 DEF RevokeSessions, Coming, Open
<1>16. ASSUME NEW t \in Links, LinkLapses(t) PROVE LinkInv'
  BY <1>16 DEF LinkLapses, memory
<1>17. ASSUME AuthServiceRestarts PROVE LinkInv'
  BY <1>17 DEF AuthServiceRestarts, Open, Ended
<1>18. ASSUME UNCHANGED vars PROVE LinkInv'
  BY <1>18 DEF vars
<1> QED
  BY <1>1, <1>2, <1>3, <1>4, <1>5, <1>6, <1>7, <1>8, <1>9, <1>10, <1>11, <1>12, <1>13,
     <1>14, <1>15, <1>16, <1>17, <1>18 DEF Next

\* A reset link changes the password twice only for resets that had both found
\* it before it was used.
THEOREM LinkUsedOnceHolds == Spec => []LinkUsedOnce
<1>1. LinkInv => LinkUsedOnce
  BY DEF LinkInv
<1> QED
  BY <1>1, TypeInit, TypeStep, LinkInit, LinkStep, PTL DEF Spec
=============================================================================
