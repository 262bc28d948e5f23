------------------------------ MODULE AccessRules ------------------------------
(* Who may do what: the role guard of api/server.py and its copy in api/frontend_routes.py, the      *)
(* admin guard, the guard of the kill switch with its second factor, the tier hint of the quota      *)
(* middleware.  A request waits (its code was made when it was typed) and is then judged by all.     *)
(* Below: how many requests a client has made, as the quotas count them.                             *)
EXTENDS Integers, Sequences, FiniteSets, SequencesExt

CONSTANTS
  LiveSessions,   \* sessions: name, role and csrf token (Absent: from before there were tokens)
  CsrfTokens,     \* tokens a header or a cookie may hold
  AdminLists,     \* values of AUTOSAHAM_ADMIN_USERS
  KillAdminLists, \* values of AUTOSAHAM_KILL_SWITCH_ADMIN_USERS
  Allowed,        \* roles the operation is for
  TierNames, TierOfRole, FreeTier,
  Hints,          \* values of the tier header, some of them no tier
  MaxWaiting,     \* bound: TOTP steps a request waits
  Absent

ASSUME AccessAssumption ==
  Absent \notin LiveSessions /\ Absent \notin CsrfTokens /\ Absent \notin Hints /\ FreeTier \in TierNames
  /\ MaxWaiting \in Nat

VARIABLES env,      \* the settings of the process
          request,  \* the request, Absent before it arrives
          waited    \* TOTP steps since its code was made

accessVars == <<env, request, waited>>

Environments ==
  [roleGuard : BOOLEAN, adminGuard : BOOLEAN, csrfGuard : BOOLEAN, killAdmin : BOOLEAN, need2fa : BOOLEAN,
   totp : BOOLEAN, fallback : BOOLEAN, admins : AdminLists, killAdmins : KillAdminLists]
Codes == {"none", "wrong", "totp", "fallback"}
Requests ==    \* a hint and a code are judged apart
  {r \in [session : LiveSessions \cup {Absent}, header : CsrfTokens \cup {Absent}, cookie : CsrfTokens \cup {Absent},
          code : Codes, hint : Hints \cup {Absent}] : r.code = "none" \/ r.hint = Absent}

\* A verdict: the status, and who acts.
Refuse(code) == [code |-> code, actor |-> Absent]
Pass(actor)  == [code |-> 200, actor |-> actor]
API == "api"      \* the actor when there is no session

-----------------------------------------------------------------------------
(* frontend_routes.py *)
CsrfFails ==
  LET s == request.session IN
    env.csrfGuard /\ \/ request.header = Absent \/ request.cookie = Absent
                     \/ request.header # request.cookie
                     \/ s.csrf # Absent /\ request.header # s.csrf

\* _is_admin_session: an empty list falls back to the kill switch's, and that to "admin".
AdminUsers == IF env.admins # {} THEN env.admins ELSE IF env.killAdmins # {} THEN env.killAdmins ELSE {"admin"}
IsAdmin(s) == s.name \in AdminUsers \/ s.role = "admin"

\* _assert_csrf_guard: without a session there is nothing to forge.
CsrfGuard(required) ==
  CASE request.session = Absent -> IF required THEN Refuse(401) ELSE Pass(API)
    [] request.session # Absent -> IF CsrfFails THEN Refuse(403) ELSE Pass(request.session.name)

AdminOperation ==
  IF env.adminGuard /\ CsrfGuard(TRUE).code = 200 /\ ~IsAdmin(request.session)
  THEN Refuse(403) ELSE CsrfGuard(env.adminGuard)

RoleNoOverride ==                                                            \* mutant
  IF env.roleGuard /\ CsrfGuard(TRUE).code = 200 /\ request.session.role \notin Allowed
  THEN Refuse(403) ELSE CsrfGuard(env.roleGuard)
RoleOperation ==
  IF env.roleGuard /\ CsrfGuard(TRUE).code = 200 /\ ~IsAdmin(request.session) /\ request.session.role \notin Allowed
  THEN Refuse(403) ELSE CsrfGuard(env.roleGuard)

\* verify_totp_code: the codes of the steps next to the present one are taken too.
CodeMadeAt == {waited + drift : drift \in -1 .. 1}
CodeFails ==
  IF env.totp THEN request.code # "totp" \/ 0 \notin CodeMadeAt ELSE request.code # "fallback"

\* _authorize_kill_switch_actor.
IsKillAdmin(s) == s.name \in (IF env.killAdmins = {} THEN {"admin"} ELSE env.killAdmins) \/ s.role = "admin"
KillSwitchOperation ==
  LET s == request.session
      who == IF s = Absent THEN API ELSE s.name
  IN CASE s # Absent /\ CsrfFails                            -> Refuse(403)
       [] s = Absent /\ env.killAdmin                        -> Refuse(401)
       [] s # Absent /\ ~CsrfFails /\ env.killAdmin /\ ~IsKillAdmin(s) -> Refuse(403)
       [] OTHER ->
            IF ~env.need2fa THEN Pass(who)
            ELSE IF request.code = "none" THEN Refuse(401)
            ELSE IF ~env.totp /\ ~env.fallback THEN Refuse(503)
            ELSE IF CodeFails THEN Refuse(401) ELSE Pass(who)

-----------------------------------------------------------------------------
(* server.py: its role guard looks at nothing when it is off.                                       *)
SessionRequired ==
  LET s == request.session IN
    CASE s = Absent -> Refuse(401)
      [] s # Absent /\ env.csrfGuard /\ (request.header = Absent \/ request.cookie = Absent) -> Refuse(403)
      [] s # Absent /\ env.csrfGuard /\ request.header # request.cookie -> Refuse(403)
      [] s # Absent /\ env.csrfGuard /\ s.csrf \notin {Absent, request.header} -> Refuse(403)
      [] OTHER -> Pass(s.name)

ServerRoleOperation ==
  IF ~env.roleGuard THEN Pass(API)
  ELSE IF SessionRequired.code # 200 THEN SessionRequired
  ELSE LET s == request.session
       IN  IF IsAdmin(s) \/ s.role \in Allowed THEN Pass(s.name) ELSE Refuse(403)

\* _quota_usage_middleware and _validate_tier_hint: what a request is counted as, if it gets in.
CountedTier == IF request.session = Absent THEN TierOfRole["viewer"] ELSE TierOfRole[request.session.role]
HintVerdict ==
  CASE request.hint = Absent           -> 200
    [] request.hint \in Hints \ TierNames -> 400
    [] request.session = Absent /\ request.hint \in TierNames \ {FreeTier} -> 403
    [] request.session # Absent /\ request.hint \in TierNames \ {CountedTier} -> 403
    [] OTHER -> 200

-----------------------------------------------------------------------------
AccessInit == env \in Environments /\ request = Absent /\ waited = 0

RequestArrives(r) == request = Absent /\ request' = r /\ UNCHANGED <<env, waited>>
Wait ==    \* only codes age
  /\ request # Absent /\ request.code = "totp" /\ waited < MaxWaiting
  /\ waited' = waited + 1 /\ UNCHANGED <<env, request>>

AccessNext == (\E r \in Requests : RequestArrives(r)) \/ Wait

AccessSpec == AccessInit /\ [][AccessNext]_accessVars

AccessTypeOK == env \in Environments /\ request \in Requests \cup {Absent} /\ waited \in 0 .. MaxWaiting

-----------------------------------------------------------------------------
\* The two copies of the role guard answer the same while it is on; while it is off, the server's is
\* never the stricter one.
CopiesAgree ==
  IF env.roleGuard THEN ServerRoleOperation = RoleOperation
                   ELSE RoleOperation.code = 200 => ServerRoleOperation.code = 200

\* A client without a session is told to log in and never that it lacks a right; one with a session is
\* never told to log in, but for a code.
RightStatus ==
  \A v \in {RoleOperation, AdminOperation, ServerRoleOperation} :
    /\ v.code = 401 => request.session = Absent
    /\ v.code = 403 => request.session # Absent

\* Whoever may do an admin operation may do any operation the role guard protects, whatever the lists say.
AdminsMayAll ==
  request.session # Absent /\ env.adminGuard /\ AdminOperation.code = 200
    => RoleOperation.code = 200 /\ ServerRoleOperation.code = 200

\* A kill switch guarded by a code cannot be used without the right one; a one-time code is good for the
\* next step and no longer, and a fallback is no substitute for it.
CodesExpire ==
  KillSwitchOperation.code = 200 /\ env.need2fa =>
    IF env.totp THEN request.code = "totp" /\ waited <= 1 ELSE env.fallback /\ request.code = "fallback"

\* A hint that gets in names the tier the request is counted as; the tier of the client without session is free.
HintIsCounted ==
  HintVerdict = 200 /\ request.hint # Absent =>
    request.hint = IF request.session = Absent THEN FreeTier ELSE CountedTier

\* All of it, of every request: the guards answer alike and refuse for the right reason.
AccessDecided ==
  AccessTypeOK /\ (request # Absent => CopiesAgree /\ RightStatus /\ AdminsMayAll /\ CodesExpire /\ HintIsCounted)

-----------------------------------------------------------------------------
(***************************************************************************)
(* The usage counters of src/api/quota_usage.py: per user two queues of    *)
(* the times of the requests in the last minute and the last hour.  The    *)
(* middleware of src/api/server.py takes user and tier of a request from   *)
(* its session before the handler runs and records the request when the    *)
(* handler is done.  Old entries are dropped at the next record of the     *)
(* user; a snapshot prunes a copy.  The wall clock may be set back.        *)
(***************************************************************************)
CONSTANTS Clients, Tiers, Minute, Hour, MaxQuotaTime, MaxCallsMade, MaxSteps

ASSUME QuotaAssumption ==
  /\ Tiers # {} /\ {Minute, Hour, MaxQuotaTime, MaxCallsMade, MaxSteps} \subseteq Nat /\ Minute <= Hour

VARIABLES tierOf,    \* the tier of each client's role, which a new login may change
          running,   \* the requests whose handlers run: client and tier
          usage,     \* _USER_USAGE
          quotaTime, made,
          finished,  \* history: the requests recorded, <<client, time, number>>
          setBack    \* history: the clock was set back

quotaVars == <<tierOf, running, usage, quotaTime, made, finished, setBack>>

Times == 0 .. MaxQuotaTime
NoUsage == [tier |-> CHOOSE t \in Tiers : TRUE, minute |-> <<>>, hour |-> <<>>]

QuotaTypeOK ==
  /\ tierOf \in [Clients -> Tiers] /\ running \subseteq [client : Clients, tier : Tiers, n : 1 .. MaxCallsMade]
  /\ \A c \in Clients : /\ usage[c].tier \in Tiers
                        /\ usage[c].minute \in Seq(Times) /\ usage[c].hour \in Seq(Times)
  /\ quotaTime \in Times /\ made \in 0 .. MaxCallsMade
  /\ finished \subseteq Clients \X Times \X (1 .. MaxCallsMade)

QuotaInit ==
  /\ tierOf \in [Clients -> Tiers] /\ running = {} /\ usage = [c \in Clients |-> NoUsage]
  /\ quotaTime = 0 /\ made = 0 /\ finished = {} /\ setBack = 0

\* _quota_usage_middleware up to call_next.
Arrive(c) ==
  /\ made < MaxCallsMade /\ made' = made + 1
  /\ running' = running \cup {[client |-> c, tier |-> tierOf[c], n |-> made + 1]}
  /\ UNCHANGED <<tierOf, usage, quotaTime, finished, setBack>>

PruneFromRight(queue, window) == SelectSeq(queue, LAMBDA x : x + window > quotaTime)  \* mutant
\* _prune_queue: entries are dropped from the left while they are too old.
Prune(queue, window) ==
  LET fresh == {k \in DOMAIN queue : queue[k] + window >= quotaTime} IN
  IF fresh = {} THEN <<>> ELSE SubSeq(queue, CHOOSE k \in fresh : \A j \in fresh : k <= j, Len(queue))

RecordedSwapped(r) == [tier |-> r.tier, minute |-> Append(Prune(usage[r.client].minute, Hour), quotaTime), \* mutant
                       hour |-> Append(Prune(usage[r.client].hour, Minute), quotaTime)]
\* record_request
RecordedRequest(r) == [tier |-> r.tier, minute |-> Append(Prune(usage[r.client].minute, Minute), quotaTime),
                       hour |-> Append(Prune(usage[r.client].hour, Hour), quotaTime)]

FinishRequest(r) ==
  /\ r \in running /\ running' = running \ {r}
  /\ usage' = [usage EXCEPT ![r.client] = RecordedRequest(r)]
  /\ finished' = finished \cup {<<r.client, quotaTime, r.n>>}
  /\ UNCHANGED <<tierOf, quotaTime, made, setBack>>

\* The client logs in with another role.
Relogin(c) ==
  /\ made < MaxCallsMade /\ \E t \in Tiers : t # tierOf[c] /\ tierOf' = [tierOf EXCEPT ![c] = t]
  /\ UNCHANGED <<running, usage, quotaTime, made, finished, setBack>>

QuotaTick == /\ quotaTime < MaxQuotaTime /\ quotaTime' = quotaTime + 1
             /\ UNCHANGED <<tierOf, running, usage, made, finished, setBack>>

ClockSetBack ==
  /\ setBack < MaxSteps /\ quotaTime > 0 /\ quotaTime' = quotaTime - 1 /\ setBack' = setBack + 1
  /\ UNCHANGED <<tierOf, running, usage, made, finished>>

QuotaNext ==
  \/ \E c \in Clients : Arrive(c) \/ Relogin(c)
  \/ \E r \in running : FinishRequest(r)
  \/ QuotaTick \/ ClockSetBack

QuotaSpec == QuotaInit /\ [][QuotaNext]_quotaVars

-----------------------------------------------------------------------------
\* get_quota_usage_snapshot: the counts of a client, on pruned copies.
CountIn(queue, window) == Len(Prune(queue, window))
Within(c, window) == {f \in finished : f[1] = c /\ f[2] + window >= quotaTime}

\* What a snapshot counts are the requests of the client in the window, each once, however late it looks
\* and whatever was pruned before, as long as the clock was not set back.
CountsAreExact ==
  setBack = 0 => \A c \in Clients :
    /\ CountIn(usage[c].minute, Minute) = Cardinality(Within(c, Minute))
    /\ CountIn(usage[c].hour, Hour) = Cardinality(Within(c, Hour))

\* The queue of the minute stays the end of the queue of the hour, whatever the clock does: no request is
\* in one count and missing in the other.
MinuteWithinHour == \A c \in Clients : IsSuffix(usage[c].minute, usage[c].hour)

\* All of it: the windows of the quota usage (quota_usage.py).
QuotaCounted == QuotaTypeOK /\ CountsAreExact /\ MinuteWithinHour
=============================================================================
