------------------------------- MODULE Accounts -------------------------------
(***************************************************************************)
(* The user accounts of src/api/auth.py and the /auth routes of            *)
(* src/api/server.py: a JSON file of users that every change loads and     *)
(* rewrites in place, first truncating it, and sessions and reset tokens   *)
(* in memory.  The server runs one process and the handlers have no await, *)
(* so they exclude each other; the process may die while it writes.  A     *)
(* password is left out (its check decides whether a login is a step at    *)
(* all); a second-factor secret is a number, 0 for none, and a code that   *)
(* verifies is the secret it was computed from.                            *)
(***************************************************************************)
EXTENDS Naturals, FiniteSets

CONSTANTS Names, Mails, MaxSecrets, MaxTokens, MaxResets, SessionTtl, ResetTtl, MaxAuthTime, Nobody,
          NoMail, Torn    \* Torn: a file that json.load refuses

VARIABLES policy,    \* the users whose role requires a second factor at login
          fallback,  \* a secret or code in the environment for those who have none of their own
          file,      \* users.json
          saving,    \* the table that is being written, Nobody for none
          sessions, resets, authTime,
          secrets, tokens,
          torn,      \* history: the process died while it wrote
          known,     \* history: the users that registered
          used       \* history: how often each reset token changed a password

authVars == <<policy, fallback, file, saving, sessions, resets, authTime, secrets, tokens, torn, known, used>>

Records == [mail : Mails \cup {NoMail}, on : BOOLEAN, secret : 0 .. MaxSecrets]
Tables == [Names -> Records \cup {Nobody}]
NoUsers == [n \in Names |-> Nobody]
Tokens == 1 .. MaxTokens

ASSUME AuthAssumption ==
  /\ {MaxSecrets, MaxTokens, SessionTtl, ResetTtl, MaxAuthTime} \subseteq Nat /\ NoMail \notin Mails
  /\ Nobody \notin Records /\ Nobody \notin Tables /\ Torn \notin Tables

AuthTypeOK ==
  /\ policy \subseteq Names /\ fallback \in BOOLEAN
  /\ file = Torn \/ \A n \in Names : file[n] \in Records \cup {Nobody}
  /\ saving = Nobody \/ \A n \in Names : saving[n] \in Records \cup {Nobody}
  /\ sessions \subseteq [id : Tokens, user : Names, until : Nat]
  /\ resets \subseteq [id : Tokens, user : Names, until : Nat]
  /\ authTime \in 0 .. MaxAuthTime /\ secrets \in 0 .. MaxSecrets /\ tokens \in 0 .. MaxTokens

AuthInit ==
  /\ policy \in SUBSET Names /\ fallback \in BOOLEAN
  /\ file = NoUsers /\ saving = Nobody /\ sessions = {} /\ resets = {} /\ authTime = 0
  /\ secrets = 0 /\ tokens = 0 /\ torn = FALSE /\ known = {} /\ used = [t \in Tokens |-> 0]

-----------------------------------------------------------------------------
\* _load_users: a file that cannot be parsed is an empty table.
Users == IF file = Torn THEN NoUsers ELSE file
Present(n) == Users[n] # Nobody
Ready == saving = Nobody

SaveAlone(n, record) == [NoUsers EXCEPT ![n] = record]                     \* mutant
\* _save_users: the file is truncated when it is opened, and then written.
Saved(n, record) == [Users EXCEPT ![n] = record]
Save(n, record) == Ready /\ file' = Torn /\ saving' = Saved(n, record)

FinishSave ==
  /\ ~Ready /\ file' = saving /\ saving' = Nobody
  /\ UNCHANGED <<policy, fallback, sessions, resets, authTime, secrets, tokens, torn, known, used>>

Owners(mail) == {n \in Names : Present(n) /\ Users[n].mail = mail}         \* _find_username_by_email
MailTakenNever(mail) == FALSE                                              \* mutant
MailTaken(mail) == mail # NoMail /\ Owners(mail) # {}

\* register_user; the server registers a demo user of its own at startup the same way.
RegisterUser(n, mail) ==
  /\ ~Present(n) /\ ~MailTaken(mail)
  /\ Save(n, [mail |-> mail, on |-> FALSE, secret |-> 0])
  /\ known' = known \cup {n}
  /\ UNCHANGED <<policy, fallback, sessions, resets, authTime, secrets, tokens, torn, used>>

-----------------------------------------------------------------------------
Required(table, n) == table[n].on \/ n \in policy                          \* is_login_2fa_required
Configured(table, n) == table[n].secret # 0 \/ fallback                    \* is_login_2fa_configured
\* verify_login_2fa_code and _verify_totp_code: the user's own secret, also an unconfirmed one, goes
\* before the fallback; code 0 is the fallback's.
Verifies(n, code) == IF Users[n].secret # 0 THEN code = Users[n].secret ELSE fallback /\ code = 0

NewToken == tokens < MaxTokens /\ tokens' = tokens + 1

\* auth_login with the right password, and authenticate_user.
LogIn(n, code) ==
  /\ Ready /\ Present(n) /\ NewToken
  /\ Required(Users, n) => Verifies(n, code)
  /\ sessions' = sessions \cup {[id |-> tokens + 1, user |-> n, until |-> authTime + SessionTtl]}
  /\ UNCHANGED <<policy, fallback, file, saving, resets, authTime, secrets, torn, known, used>>

Alive(s) == s.until >= authTime

\* get_session_context forgets a session it finds expired.
Forget(s) ==
  /\ Ready /\ s \in sessions /\ ~Alive(s) /\ sessions' = sessions \ {s}
  /\ UNCHANGED <<policy, fallback, file, saving, resets, authTime, secrets, tokens, torn, known, used>>

\* auth_logout
LogOut(s) ==
  /\ Ready /\ s \in sessions /\ sessions' = sessions \ {s}
  /\ UNCHANGED <<policy, fallback, file, saving, resets, authTime, secrets, tokens, torn, known, used>>

\* create_ws_token: a session of its own, for one unit of time.
IssueWsToken(s) ==
  /\ Ready /\ s \in sessions /\ Alive(s) /\ NewToken
  /\ sessions' = sessions \cup {[id |-> tokens + 1, user |-> s.user, until |-> authTime + 1]}
  /\ UNCHANGED <<policy, fallback, file, saving, resets, authTime, secrets, torn, known, used>>

OwnSession(n) == \E s \in sessions : s.user = n /\ Alive(s)

\* begin_login_2fa_enrollment: a new secret, not in force until it is confirmed.
Enroll(n) ==
  /\ OwnSession(n) /\ Present(n) /\ secrets < MaxSecrets /\ secrets' = secrets + 1
  /\ Save(n, [Users[n] EXCEPT !.on = FALSE, !.secret = secrets + 1])
  /\ UNCHANGED <<policy, fallback, sessions, resets, authTime, tokens, torn, known, used>>

\* confirm_login_2fa_enrollment; without a secret there is nothing to confirm.
Confirm(n, code) ==
  /\ OwnSession(n) /\ Present(n) /\ Users[n].secret # 0 /\ code = Users[n].secret
  /\ Save(n, [Users[n] EXCEPT !.on = TRUE])
  /\ UNCHANGED <<policy, fallback, sessions, resets, authTime, secrets, tokens, torn, known, used>>

MayDisableAlways(n) == TRUE                                                \* mutant
MayDisable(n) == n \in policy => fallback

\* disable_login_2fa: refused to a user who would then have no factor to log in with.
Disable(n, code) ==
  /\ OwnSession(n) /\ Present(n)
  /\ Users[n].on => Verifies(n, code)
  /\ MayDisable(n)
  /\ Save(n, [Users[n] EXCEPT !.on = FALSE, !.secret = 0])
  /\ UNCHANGED <<policy, fallback, sessions, resets, authTime, secrets, tokens, torn, known, used>>

-----------------------------------------------------------------------------
\* request_password_reset
RequestReset(mail) ==
  /\ Ready /\ mail # NoMail /\ NewToken
  /\ \E n \in Owners(mail) :
       resets' = resets \cup {[id |-> tokens + 1, user |-> n, until |-> authTime + ResetTtl]}
  /\ UNCHANGED <<policy, fallback, file, saving, sessions, authTime, secrets, torn, known, used>>

ResetsKept(r) == resets                                                    \* mutant
ResetsAfter(r) == resets \ {r}

\* reset_password: the token goes when it is expired, when its user is gone, and after the password
\* was saved.
Reset(r) ==
  /\ Ready /\ r \in resets
  /\ resets' = ResetsAfter(r)
  /\ IF Alive(r) /\ Present(r.user)
     THEN /\ Save(r.user, Users[r.user])
          /\ used[r.id] < MaxResets /\ used' = [used EXCEPT ![r.id] = @ + 1]
     ELSE UNCHANGED <<file, saving, used>>
  /\ UNCHANGED <<policy, fallback, sessions, authTime, secrets, tokens, torn, known>>

AuthTick ==
  /\ Ready /\ authTime < MaxAuthTime /\ authTime' = authTime + 1
  /\ UNCHANGED <<policy, fallback, file, saving, sessions, resets, secrets, tokens, torn, known, used>>

\* The process ends and is started again, maybe in another environment: sessions and reset tokens are
\* gone, a half-written file stays.
AuthRestart ==
  /\ fallback' \in BOOLEAN
  /\ saving' = Nobody /\ sessions' = {} /\ resets' = {} /\ torn' = (torn \/ ~Ready)
  /\ UNCHANGED <<policy, file, authTime, secrets, tokens, known, used>>

AuthNext ==
  \/ \E n \in Names : \/ \E mail \in Mails \cup {NoMail} : RegisterUser(n, mail)
                      \/ \E code \in 0 .. MaxSecrets : LogIn(n, code) \/ Confirm(n, code) \/ Disable(n, code)
                      \/ Enroll(n)
  \/ \E s \in sessions : Forget(s) \/ LogOut(s) \/ IssueWsToken(s)
  \/ \E mail \in Mails : RequestReset(mail)
  \/ \E r \in resets : Reset(r)
  \/ FinishSave \/ AuthTick \/ AuthRestart

AuthSpec == AuthInit /\ [][AuthNext]_authVars

-----------------------------------------------------------------------------
\* Every user that registered is still there after any sequence of changes by others, unless the
\* process died while it wrote the file.
AccountsKept == ~torn /\ Ready => \A n \in known : Present(n)

\* An e-mail address leads a password reset to one account.
MailsUnique == \A mail \in Mails : Cardinality(Owners(mail)) <= 1

\* A user who could log in with the second factor the rules require can still do so after any change of
\* the accounts: enrolling, confirming, disabling, resetting, in any order.
LoginStaysPossible ==
  [][\A n \in Names : Ready /\ Present(n) /\ (Required(Users, n) => Configured(Users, n)) /\ saving' # Nobody =>
       (Required(saving', n) => Configured(saving', n))]_authVars

\* A reset token changes a password once, however often and however late it is sent.
ResetOnce == \A t \in Tokens : used[t] <= 1

\* All of it: accounts, second factors, sessions and resets (auth.py).
AccountsSound == [](AuthTypeOK /\ AccountsKept /\ MailsUnique /\ ResetOnce) /\ LoginStaysPossible
=============================================================================
