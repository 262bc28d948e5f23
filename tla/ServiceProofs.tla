--------------------------- MODULE ServiceProofs ---------------------------
(***************************************************************************)
(* Proofs about the services of the API: the access rules of its routes    *)
(* (AccessRules), the strategy profile (RegimeProfile), the broker session *)
(* (BrokerSession), the accounts (Accounts), the anomaly guard             *)
(* (AnomalyGuard), the alert channels and the inbox of the notifications   *)
(* (Alerts), the market data client, the charts and the market symbols     *)
(* (MarketData), each for every value of its constants.                    *)
(***************************************************************************)
EXTENDS AccessRules, RegimeProfile, BrokerSession, Accounts, AnomalyGuard, Alerts, MarketData,
        FiniteSetTheorems, SequenceTheorems, Sums

-----------------------------------------------------------------------------
(* A request with a session is refused by the double-submit check alike in  *)
(* both files.                                                              *)
LEMMA GuardsOfSession ==
  ASSUME request.session # Absent
  PROVE  /\ \A required \in BOOLEAN :
              CsrfGuard(required) = IF CsrfFails THEN Refuse(403) ELSE Pass(request.session.name)
         /\ SessionRequired = IF CsrfFails THEN Refuse(403) ELSE Pass(request.session.name)
  BY DEF CsrfGuard, SessionRequired, CsrfFails

(* The codes of a refusal and of a pass.                                    *)
LEMMA VerdictCodes ==
  /\ \A code, actor : Refuse(code).code = code /\ Pass(actor).code = 200
  BY DEF Refuse, Pass

(* The guards of both files decide a request alike, with the right status.  *)
LEMMA GuardsDecide ==
  ASSUME env \in Environments
  PROVE  CopiesAgree /\ RightStatus /\ AdminsMayAll
  <1>1. env.roleGuard \in BOOLEAN /\ env.adminGuard \in BOOLEAN /\ TRUE \in BOOLEAN
    BY DEF Environments
  <1>2. CASE request.session = Absent
    <2>1. CsrfGuard(TRUE) = Refuse(401) /\ SessionRequired = Refuse(401) /\ Refuse(401).code = 401
          /\ Pass(API).code = 200
      BY <1>2, VerdictCodes DEF CsrfGuard, SessionRequired
    <2>2. RoleOperation = (IF env.roleGuard THEN Refuse(401) ELSE Pass(API))
      BY <1>1, <1>2, <2>1 DEF RoleOperation, CsrfGuard
    <2>3. AdminOperation = (IF env.adminGuard THEN Refuse(401) ELSE Pass(API))
      BY <1>1, <1>2, <2>1 DEF AdminOperation, CsrfGuard
    <2>4. ServerRoleOperation = (IF env.roleGuard THEN Refuse(401) ELSE Pass(API))
      BY <1>1, <2>1 DEF ServerRoleOperation
    <2> QED BY <1>1, <1>2, <2>1, <2>2, <2>3, <2>4 DEF CopiesAgree, RightStatus, AdminsMayAll
  <1>3. CASE request.session # Absent
    <2> DEFINE guard == IF CsrfFails THEN Refuse(403) ELSE Pass(request.session.name)
    <2>1. CsrfGuard(TRUE) = guard /\ CsrfGuard(env.roleGuard) = guard /\ CsrfGuard(env.adminGuard) = guard
          /\ SessionRequired = guard
      BY <1>1, <1>3, GuardsOfSession
    <2>2. Refuse(403).code = 403 /\ guard.code = IF CsrfFails THEN 403 ELSE 200
      BY VerdictCodes
    <2>3. Pass(API).code = 200 /\ (guard.code = 200 => guard = Pass(request.session.name))
      BY VerdictCodes
    <2> HIDE DEF guard
    <2>4. RoleOperation = IF env.roleGuard /\ guard.code = 200 /\ ~IsAdmin(request.session)
                             /\ request.session.role \notin Allowed THEN Refuse(403) ELSE guard
      BY <2>1 DEF RoleOperation
    <2>5. AdminOperation = IF env.adminGuard /\ guard.code = 200 /\ ~IsAdmin(request.session)
                           THEN Refuse(403) ELSE guard
      BY <2>1 DEF AdminOperation
    <2>6. ServerRoleOperation = IF ~env.roleGuard THEN Pass(API) ELSE
                                IF guard.code # 200 THEN guard ELSE
                                IF IsAdmin(request.session) \/ request.session.role \in Allowed
                                THEN Pass(request.session.name) ELSE Refuse(403)
      BY <2>1 DEF ServerRoleOperation
    <2>7. CopiesAgree
      <3>1. CASE env.roleGuard /\ guard.code # 200
        BY <2>4, <2>6, <3>1 DEF CopiesAgree
      <3>2. CASE env.roleGuard /\ guard.code = 200
        <4>1. CASE IsAdmin(request.session) \/ request.session.role \in Allowed
          BY <2>3, <2>4, <2>6, <3>2, <4>1 DEF CopiesAgree
        <4>2. CASE ~(IsAdmin(request.session) \/ request.session.role \in Allowed)
          BY <2>4, <2>6, <3>2, <4>2 DEF CopiesAgree
        <4> QED BY <4>1, <4>2
      <3>3. CASE ~env.roleGuard
        BY <2>3, <2>6, <3>3 DEF CopiesAgree
      <3> QED BY <3>1, <3>2, <3>3
    <2>8. RightStatus
      BY <1>1, <1>3, <2>2, <2>3, <2>4, <2>5, <2>6, VerdictCodes DEF RightStatus
    <2>9. AdminsMayAll
      BY <1>1, <1>3, <2>2, <2>3, <2>4, <2>5, <2>6, VerdictCodes DEF AdminsMayAll
    <2> QED BY <2>7, <2>8, <2>9
  <1> QED BY <1>2, <1>3

(* A kill switch that passes had the right code, if one is needed.          *)
LEMMA CodesDecide ==
  ASSUME env \in Environments, waited \in Nat
  PROVE  CodesExpire
  <1> SUFFICES ASSUME KillSwitchOperation.code = 200, env.need2fa
               PROVE IF env.totp THEN request.code = "totp" /\ waited <= 1
                                 ELSE env.fallback /\ request.code = "fallback"
    BY DEF CodesExpire
  <1>1. ~CodeFails /\ (env.totp \/ env.fallback)
    BY VerdictCodes DEF KillSwitchOperation
  <1>2. CASE env.totp
    BY <1>1, <1>2 DEF CodeFails, CodeMadeAt
  <1>3. CASE ~env.totp
    BY <1>1, <1>3 DEF CodeFails
  <1> QED BY <1>2, <1>3

(* A tier hint that gets in names the tier the request is counted as.       *)
LEMMA HintsDecide ==
  ASSUME request \in Requests
  PROVE  HintIsCounted
  BY AccessAssumption DEF HintIsCounted, HintVerdict, Requests

(* AccessDecided: every request is decided alike by the guards of both      *)
(* files, with the right status, and a code expires, for all roles, names   *)
(* and waits.                                                               *)
THEOREM AccessIsDecided == AccessSpec => []AccessDecided
  <1>1. AccessInit => AccessTypeOK
    BY AccessAssumption DEF AccessInit, AccessTypeOK
  <1>2. AccessTypeOK /\ [AccessNext]_accessVars => AccessTypeOK'
    BY AccessAssumption DEF AccessTypeOK, AccessNext, RequestArrives, Wait, accessVars
  <1>3. AccessTypeOK => AccessDecided
    BY GuardsDecide, CodesDecide, HintsDecide DEF AccessTypeOK, AccessDecided
  <1> QED BY <1>1, <1>2, <1>3, PTL DEF AccessSpec

-----------------------------------------------------------------------------
(* The inductive invariant behind ProfileAndMarket: the handler under way   *)
(* merges the profile that is chosen, an inference that no choice has       *)
(* overtaken holds the chosen one too, and a handler about to merge has     *)
(* read what the last inference found.                                      *)
RegimeInv ==
  /\ RegimeTypeOK /\ ProfileInForce /\ MarketKept
  /\ sync.pc # "idle" => sync.profile = chosen
  /\ \A w \in InferThreads : infer[w].pc = "persist" /\ ~infer[w].early => infer[w].manual = chosen
  /\ sync.pc = "merge" /\ ~lostUpdate => sync.read = latest

(* ProfileAndMarket: the profile in force is the one that was chosen, and   *)
(* choosing leaves the market alone, for any number of worker threads,      *)
(* however choices, inferences and crashes interleave.                      *)
THEOREM ProfileAndMarketHold == RegimeSpec => []ProfileAndMarket
  <1>1. ASSUME RegimeInit PROVE RegimeInv
    <2> USE <1>1 DEF RegimeInit, Profiles
    <2>1. regime \in [market : Markets \cup {Unknown}, profile : ProfileNames, manual : BOOLEAN]
      OBVIOUS
    <2>2. sync \in [pc : {"idle", "read", "merge"}, profile : Profiles, read : Markets \cup {Unknown}]
      BY DEF NoSync
    <2>3. NoInfer \in [pc : {"idle", "persist"}, market : Markets \cup {Unknown}, manual : Profiles,
                       early : BOOLEAN]
      BY DEF NoInfer
    <2>4. infer \in [InferThreads -> [pc : {"idle", "persist"}, market : Markets \cup {Unknown},
                                     manual : Profiles, early : BOOLEAN]]
      BY <2>3
    <2>5. sync.pc = "idle" /\ \A w \in InferThreads : infer[w].pc = "idle"
      BY DEF NoSync, NoInfer
    <2>6. regime.market = Unknown /\ regime.manual = FALSE
      OBVIOUS
    <2>7. RegimeTypeOK
      BY <2>1, <2>2, <2>4 DEF RegimeTypeOK
    <2> QED BY <2>5, <2>6, <2>7 DEF RegimeInv, ProfileInForce, MarketKept
  <1>2. RegimeInv /\ [RegimeNext]_regimeVars => RegimeInv'
    <2> SUFFICES ASSUME RegimeInv, [RegimeNext]_regimeVars PROVE RegimeInv'
      OBVIOUS
    <2> USE DEF RegimeInv, RegimeTypeOK, ProfileInForce, MarketKept, Profiles
    <2>1. CASE Choose
      <3>1. PICK p \in Profiles : chosen' = p /\ sync' = [pc |-> "read", profile |-> p, read |-> Unknown]
        BY <2>1 DEF Choose
      <3>2. infer' = [w \in InferThreads |-> [infer[w] EXCEPT !.early = infer[w].pc = "persist"]]
        BY <2>1 DEF Choose
      <3>3. \A w \in InferThreads : /\ infer'[w].pc = "persist" => infer'[w].early
                                    /\ infer'[w] \in [pc : {"idle", "persist"}, market : Markets \cup {Unknown},
                                                       manual : Profiles, early : BOOLEAN]
        BY <3>2
      <3>4. RegimeTypeOK'
        BY <2>1, <3>1, <3>2, <3>3 DEF Choose
      <3> QED BY <2>1, <3>1, <3>3, <3>4 DEF Choose
    <2>2. CASE ReadRegime
      BY <2>2 DEF ReadRegime
    <2>3. CASE MergeRegime
      BY <2>3 DEF MergeRegime, Merged, NoSync
    <2>4. CASE RegimeRestart
      BY <2>4 DEF RegimeRestart, NoSync, NoInfer
    <2>5. ASSUME NEW w \in InferThreads, Classify(w) PROVE RegimeInv'
      BY <2>5 DEF Classify
    <2>6. ASSUME NEW w \in InferThreads, Persist(w) PROVE RegimeInv'
      <3>1. infer' = [infer EXCEPT ![w] = NoInfer] /\ UNCHANGED <<chosen, sync, choices, infers>>
        BY <2>6 DEF Persist
      <3>2. NoInfer \in [pc : {"idle", "persist"}, market : Markets \cup {Unknown}, manual : Profiles,
                         early : BOOLEAN] /\ NoInfer.pc = "idle"
        BY DEF NoInfer
      <3>3. infer' \in [InferThreads -> [pc : {"idle", "persist"}, market : Markets \cup {Unknown},
                                        manual : Profiles, early : BOOLEAN]]
        BY <3>1, <3>2
      <3>4. \A v \in InferThreads : infer'[v].pc = "persist" => infer'[v] = infer[v]
        BY <3>1, <3>2
      <3>5. CASE UNCHANGED <<regime, latest, stale, lostUpdate>>
        BY <3>1, <3>3, <3>4, <3>5
      <3>6. ASSUME NEW routed \in ProfileNames, regime' = Routed(infer[w], routed), latest' = infer[w].market,
                   stale' = infer[w].early, lostUpdate' = (sync.pc = "merge")
            PROVE  RegimeInv'
        <4>1. /\ regime'.market = infer[w].market /\ (regime'.manual <=> infer[w].manual # AutoProfile)
              /\ infer[w].manual # AutoProfile => regime'.profile = infer[w].manual
          BY <3>6 DEF Routed
        <4>2. infer[w].market \in Markets \cup {Unknown} /\ infer[w].manual \in Profiles
              /\ infer[w].early \in BOOLEAN /\ infer[w].pc = "persist"
          BY <2>6 DEF Persist
        <4>3. regime' \in [market : Markets \cup {Unknown}, profile : ProfileNames, manual : BOOLEAN]
          BY <3>6, <4>2 DEF Routed
        <4>4. RegimeTypeOK'
          BY <3>1, <3>3, <3>6, <4>2, <4>3
        <4>5. ~stale' => infer[w].manual = chosen'
          BY <3>1, <3>6, <4>2
        <4>8. ProfileInForce'
          BY <4>1, <4>5
        <4>6. MarketKept'
          BY <3>6, <4>1
        <4>7. (sync.pc = "merge" /\ ~lostUpdate => sync.read = latest)'
          BY <3>1, <3>6
        <4> QED BY <3>1, <3>4, <4>4, <4>8, <4>6, <4>7
      <3> QED BY <2>6, <3>5, <3>6 DEF Persist
    <2>7. CASE UNCHANGED regimeVars
      BY <2>7 DEF regimeVars
    <2> QED BY <2>1, <2>2, <2>3, <2>4, <2>5, <2>6, <2>7 DEF RegimeNext
  <1>3. RegimeInv => ProfileAndMarket
    BY DEF RegimeInv, ProfileAndMarket
  <1> QED BY <1>1, <1>2, <1>3, PTL DEF RegimeSpec

-----------------------------------------------------------------------------
(* A handler under way has written the records before the one it is at, and *)
(* was granted its mode.                                                    *)
HandlerAt ==
  /\ handler.pc # "idle" => handler.op \in {"connect", "disconnect"}
  /\ handler.op = "connect" => handler.provider \in Providers
  /\ handler.op = "disconnect" => handler.provider = NoProvider /\ handler.mode = "paper" /\ ~handler.keys
  /\ handler.op = "connect" /\ handler.pc \in {"connection", "settings"} =>
       credentials \in {NoProvider, handler.provider}
  /\ handler.pc = "settings" => connection = [provider |-> handler.provider, mode |-> handler.mode]
  /\ handler.op = "disconnect" /\ handler.pc = "credentials" =>
       connection = Disconnected /\ settings.mode = "paper" /\ ~edited
HandlerGranted == ~Idle /\ handler.mode = "live" => handler.op = "connect" /\ "live" \in flags[handler.provider]

(* A thread between its two reads beside which no handler ran has read the  *)
(* connection there is.                                                     *)
ReadsConnection ==
  \A w \in CancelThreads : cancelCall[w].pc = "credentials" /\ w \notin overlap =>
    Idle /\ cancelCall[w].provider = connection.provider

(* The inductive invariant behind OneSession.                               *)
SessionInv ==
  /\ SessionTypeOK /\ HandlerAt /\ HandlerGranted /\ ReadsConnection /\ OwnCredentials /\ SessionAgrees

HandlerRecords == [pc : {"idle", "credentials", "connection", "settings"}, op : {"none", "connect", "disconnect"},
                   provider : MaybeProvider, mode : Modes, keys : BOOLEAN]
CancelRecords == [pc : {"idle", "credentials", "cancelling"}, provider : MaybeProvider, credentials : MaybeProvider]

(* The invariant holds before the first connection.                         *)
LEMMA SessionInvInit == SessionInit => SessionInv
  <1> SUFFICES ASSUME SessionInit PROVE SessionInv
    OBVIOUS
  <1> USE DEF SessionInit
  <1>1. NoHandler \in HandlerRecords /\ handler.pc = "idle" /\ handler.op = "none"
    BY DEF NoHandler, HandlerRecords, MaybeProvider, Modes
  <1>2. NoCancelCall \in CancelRecords /\ \A w \in CancelThreads : cancelCall[w].pc = "idle"
    BY DEF NoCancelCall, CancelRecords, MaybeProvider
  <1>3. connection \in [provider : MaybeProvider, mode : Modes] /\ settings = connection
        /\ connection.provider = NoProvider /\ connection.mode = "paper"
    BY DEF Disconnected, MaybeProvider, Modes
  <1>4. flags \in [Providers -> SUBSET Modes] /\ credentials \in MaybeProvider
    BY DEF Modes, MaybeProvider
  <1>5. SessionTypeOK
    BY <1>1, <1>2, <1>3, <1>4 DEF SessionTypeOK, HandlerRecords, CancelRecords
  <1>6. HandlerAt /\ HandlerGranted /\ ReadsConnection /\ OwnCredentials
    BY <1>1, <1>2 DEF HandlerAt, HandlerGranted, ReadsConnection, OwnCredentials, Idle
  <1>7. SessionAgrees
    BY <1>3 DEF SessionAgrees
  <1> QED BY <1>5, <1>6, <1>7 DEF SessionInv

(* A handler begins: whoever was between its reads is overlapped.           *)
LEMMA BeginStep ==
  ASSUME SessionInv, NEW h \in HandlerRecords, Begin(h), h.pc # "idle",
         \/ /\ h.op = "connect" /\ h.pc = "credentials" /\ h.provider \in Providers
            /\ h.mode = "live" => "live" \in flags[h.provider]
         \/ h.op = "disconnect" /\ h.pc = "connection" /\ h.provider = NoProvider /\ h.mode = "paper" /\ ~h.keys,
         UNCHANGED <<connection, credentials, settings, flags, cancelCall, cut, edited>>
  PROVE  SessionInv'
  <1>1. handler' = h /\ overlap' = overlap \cup Reading
    BY DEF Begin
  <1>2. Reading \subseteq CancelThreads
    BY DEF Reading
  <1>3. SessionTypeOK'
    BY <1>1, <1>2 DEF SessionInv, SessionTypeOK, HandlerRecords
  <1>4. HandlerAt'
    BY <1>1 DEF HandlerAt
  <1>5. HandlerGranted'
    BY <1>1 DEF HandlerGranted, Idle
  <1>6. ReadsConnection' /\ OwnCredentials'
    BY <1>1 DEF SessionInv, ReadsConnection, OwnCredentials, Reading
  <1>7. SessionAgrees'
    BY <1>1 DEF SessionAgrees, Idle
  <1> QED BY <1>3, <1>4, <1>5, <1>6, <1>7 DEF SessionInv

(* A handler writes one of its records.                                     *)
LEMMA WriteStep ==
  ASSUME SessionInv, WriteCredentials \/ WriteConnection \/ WriteSettings
  PROVE  SessionInv'
  <1>1. /\ SessionTypeOK /\ HandlerAt /\ HandlerGranted /\ ~Idle /\ handler \in HandlerRecords
        /\ UNCHANGED <<flags, cancelCall, handlers, overlap, cut>>
    BY DEF SessionInv, SessionTypeOK, WriteCredentials, WriteConnection, WriteSettings, Idle, HandlerRecords
  <1>2. ReadsConnection' /\ OwnCredentials'
    BY <1>1 DEF SessionInv, ReadsConnection, OwnCredentials
  <1>3. \A w \in CancelThreads : cancelCall[w].pc = "credentials" => w \in overlap
    BY <1>1 DEF SessionInv, ReadsConnection
  <1>4. NoHandler \in HandlerRecords /\ NoHandler.pc = "idle" /\ NoHandler.op = "none"
    BY DEF NoHandler, HandlerRecords, MaybeProvider, Modes
  <1>5. CASE WriteCredentials
    <2>1. /\ handler.pc = "credentials" /\ UNCHANGED <<connection, settings, edited>>
          /\ credentials' = IF handler.keys THEN handler.provider ELSE NoProvider
      BY <1>5 DEF WriteCredentials, CredentialsAfter
    <2>2. credentials' \in MaybeProvider
      BY <1>1, <2>1 DEF HandlerRecords, MaybeProvider
    <2>3. CASE handler.op = "connect"
      <3>1. handler' = [handler EXCEPT !.pc = "connection"]
        BY <1>5, <2>3 DEF WriteCredentials
      <3>2. /\ handler' \in HandlerRecords /\ handler'.pc = "connection" /\ handler'.op = "connect"
            /\ handler'.provider = handler.provider /\ handler'.mode = handler.mode /\ handler'.keys = handler.keys
        BY <1>1, <2>3, <3>1 DEF HandlerRecords
      <3>3. SessionTypeOK'
        BY <1>1, <2>1, <2>2, <3>2 DEF SessionTypeOK, HandlerRecords
      <3>4. HandlerAt' /\ HandlerGranted' /\ SessionAgrees'
        BY <1>1, <2>1, <2>3, <3>2 DEF HandlerAt, HandlerGranted, SessionAgrees, Idle
      <3> QED BY <1>2, <3>3, <3>4 DEF SessionInv
    <2>4. CASE handler.op # "connect"
      <3>1. handler' = NoHandler /\ handler.op = "disconnect"
        BY <1>1, <1>5, <2>4 DEF WriteCredentials, HandlerAt, Idle
      <3>2. SessionTypeOK'
        BY <1>1, <1>4, <2>1, <2>2, <3>1 DEF SessionTypeOK, HandlerRecords
      <3>3. HandlerAt' /\ HandlerGranted'
        BY <1>4, <3>1 DEF HandlerAt, HandlerGranted, Idle
      <3>4. credentials' = NoProvider /\ connection = Disconnected /\ settings.mode = "paper"
        BY <1>1, <2>1, <3>1 DEF HandlerAt
      <3>5. SessionAgrees'
        BY <2>1, <3>4 DEF SessionAgrees, Disconnected
      <3> QED BY <1>2, <3>2, <3>3, <3>5 DEF SessionInv
    <2> QED BY <2>3, <2>4
  <1>6. CASE WriteConnection
    <2>1. /\ handler.pc = "connection" /\ handler' = [handler EXCEPT !.pc = "settings"]
          /\ UNCHANGED <<credentials, settings, edited>>
          /\ connection' = [provider |-> handler.provider, mode |-> handler.mode]
      BY <1>6 DEF WriteConnection
    <2>2. /\ handler' \in HandlerRecords /\ handler'.pc = "settings" /\ handler'.op = handler.op
          /\ handler'.provider = handler.provider /\ handler'.mode = handler.mode /\ handler'.keys = handler.keys
      BY <1>1, <2>1 DEF HandlerRecords
    <2>3. connection' \in [provider : MaybeProvider, mode : Modes]
      BY <1>1, <2>1 DEF HandlerRecords
    <2>4. SessionTypeOK'
      BY <1>1, <2>1, <2>2, <2>3 DEF SessionTypeOK, HandlerRecords
    <2>5. HandlerAt' /\ HandlerGranted' /\ SessionAgrees'
      BY <1>1, <2>1, <2>2 DEF HandlerAt, HandlerGranted, SessionAgrees, Idle
    <2> QED BY <1>2, <2>4, <2>5 DEF SessionInv
  <1>7. CASE WriteSettings
    <2>1. /\ handler.pc = "settings" /\ edited' = FALSE /\ UNCHANGED <<connection, credentials>>
          /\ settings' = [provider |-> IF handler.op = "connect" THEN handler.provider ELSE settings.provider,
                          mode |-> handler.mode]
          /\ handler' = IF handler.op = "connect" THEN NoHandler ELSE [handler EXCEPT !.pc = "credentials"]
      BY <1>7 DEF WriteSettings
    <2>2. settings' \in [provider : MaybeProvider, mode : Modes] /\ settings'.mode = handler.mode
          /\ (handler.op = "connect" => settings'.provider = handler.provider)
      BY <1>1, <2>1 DEF HandlerRecords, SessionTypeOK
    <2>3. connection = [provider |-> handler.provider, mode |-> handler.mode]
          /\ (handler.op = "connect" => credentials \in {NoProvider, handler.provider})
      BY <1>1, <2>1 DEF HandlerAt
    <2>4. CASE handler.op = "connect"
      <3>1. handler' = NoHandler
        BY <2>1, <2>4
      <3>2. SessionTypeOK'
        BY <1>1, <1>4, <2>1, <2>2, <3>1 DEF SessionTypeOK, HandlerRecords
      <3>3. HandlerAt' /\ HandlerGranted'
        BY <1>4, <3>1 DEF HandlerAt, HandlerGranted, Idle
      <3>4. SessionAgrees'
        BY <2>1, <2>2, <2>3, <2>4 DEF SessionAgrees
      <3> QED BY <1>2, <3>2, <3>3, <3>4 DEF SessionInv
    <2>5. CASE handler.op # "connect"
      <3>1. handler.op = "disconnect" /\ handler' = [handler EXCEPT !.pc = "credentials"]
        BY <1>1, <2>1, <2>5 DEF HandlerAt
      <3>2. /\ handler' \in HandlerRecords /\ handler'.pc = "credentials" /\ handler'.op = "disconnect"
            /\ handler'.provider = handler.provider /\ handler'.mode = handler.mode /\ handler'.keys = handler.keys
        BY <1>1, <3>1 DEF HandlerRecords
      <3>3. handler.provider = NoProvider /\ handler.mode = "paper" /\ ~handler.keys
        BY <1>1, <3>1 DEF HandlerAt
      <3>4. SessionTypeOK'
        BY <1>1, <2>1, <2>2, <3>2 DEF SessionTypeOK, HandlerRecords
      <3>5. HandlerAt' /\ HandlerGranted' /\ SessionAgrees'
        BY <2>1, <2>2, <2>3, <3>2, <3>3 DEF HandlerAt, HandlerGranted, SessionAgrees, Idle, Disconnected
      <3> QED BY <1>2, <3>4, <3>5 DEF SessionInv
    <2> QED BY <2>4, <2>5
  <1> QED BY <1>5, <1>6, <1>7

(* A cancelling thread reads or ends, and writes no record.                 *)
LEMMA CancelStep ==
  ASSUME SessionInv, NEW w \in CancelThreads,
         CancelReadsConnection(w) \/ CancelReadsCredentials(w) \/ CancelEnds(w)
  PROVE  SessionInv'
  <1>1. SessionTypeOK /\ UNCHANGED <<connection, credentials, settings, flags, handler, handlers, cut, edited>>
    BY DEF CancelReadsConnection, CancelReadsCredentials, CancelEnds, SessionInv
  <1>2. HandlerAt' /\ HandlerGranted' /\ SessionAgrees'
    BY <1>1 DEF SessionInv, HandlerAt, HandlerGranted, SessionAgrees, Idle
  <1>3. ASSUME NEW c \in CancelRecords, cancelCall' = [cancelCall EXCEPT ![w] = c],
               overlap' \subseteq CancelThreads, \A v \in CancelThreads \ {w} : v \in overlap' <=> v \in overlap,
               c.pc = "credentials" /\ w \notin overlap' => Idle /\ c.provider = connection.provider,
               c.pc = "cancelling" /\ w \notin overlap' /\ ~cut => c.credentials = c.provider
        PROVE  SessionInv'
    <2>1. cancelCall'[w] = c /\ \A v \in CancelThreads \ {w} : cancelCall'[v] = cancelCall[v]
      BY <1>1, <1>3 DEF SessionTypeOK
    <2>2. cancelCall' \in [CancelThreads -> CancelRecords]
      BY <1>1, <1>3 DEF SessionTypeOK, CancelRecords
    <2>3. SessionTypeOK'
      BY <1>1, <1>3, <2>2 DEF SessionTypeOK, CancelRecords
    <2>4. ReadsConnection' /\ OwnCredentials'
      BY <1>1, <1>3, <2>1 DEF SessionInv, ReadsConnection, OwnCredentials, Idle
    <2> QED BY <1>2, <2>3, <2>4 DEF SessionInv
  <1>4. CASE CancelReadsConnection(w)
    <2> DEFINE c == [pc |-> "credentials", provider |-> connection.provider, credentials |-> NoProvider]
    <2>1. c \in CancelRecords /\ c.pc = "credentials" /\ c.provider = connection.provider
      BY <1>1 DEF SessionTypeOK, CancelRecords, MaybeProvider
    <2>2. cancelCall' = [cancelCall EXCEPT ![w] = c] /\ overlap' = (IF Idle THEN overlap \ {w} ELSE overlap \cup {w})
      BY <1>4 DEF CancelReadsConnection
    <2> HIDE DEF c
    <2>3. overlap' \subseteq CancelThreads /\ (\A v \in CancelThreads \ {w} : v \in overlap' <=> v \in overlap)
          /\ (w \notin overlap' => Idle)
      BY <1>1, <2>2 DEF SessionTypeOK
    <2> QED BY <1>3, <2>1, <2>2, <2>3
  <1>5. CASE CancelReadsCredentials(w)
    <2> DEFINE c == [cancelCall[w] EXCEPT !.pc = IF credentials = NoProvider THEN "idle" ELSE "cancelling",
                                          !.credentials = credentials]
    <2>1. cancelCall' = [cancelCall EXCEPT ![w] = c] /\ cancelCall[w].pc = "credentials" /\ overlap' = overlap
      BY <1>1, <1>5 DEF CancelReadsCredentials, SessionTypeOK
    <2>2. c \in CancelRecords /\ c.provider = cancelCall[w].provider /\ c.credentials = credentials
          /\ c.pc = IF credentials = NoProvider THEN "idle" ELSE "cancelling"
      BY <1>1 DEF SessionTypeOK, CancelRecords
    <2> HIDE DEF c
    <2>3. w \notin overlap /\ ~cut /\ credentials # NoProvider => credentials = cancelCall[w].provider
      BY <2>1 DEF SessionInv, ReadsConnection, SessionAgrees
    <2>4. overlap \subseteq CancelThreads
      BY <1>1 DEF SessionTypeOK
    <2> QED BY <1>3, <2>1, <2>2, <2>3, <2>4
  <1>6. CASE CancelEnds(w)
    <2>1. NoCancelCall \in CancelRecords /\ NoCancelCall.pc = "idle"
      BY DEF NoCancelCall, CancelRecords, MaybeProvider
    <2>2. cancelCall' = [cancelCall EXCEPT ![w] = NoCancelCall] /\ overlap' = overlap /\ overlap \subseteq CancelThreads
      BY <1>1, <1>6 DEF CancelEnds, SessionTypeOK
    <2> QED BY <1>3, <2>1, <2>2
  <1> QED BY <1>4, <1>5, <1>6

(* The settings and the flags change between handlers; a restart ends       *)
(* whatever was under way.                                                  *)
LEMMA EditStep ==
  ASSUME SessionInv, EditSettings \/ UpdateFlag \/ SessionRestart
  PROVE  SessionInv'
  <1>1. SessionTypeOK /\ UNCHANGED <<connection, credentials, overlap>>
    BY DEF EditSettings, UpdateFlag, SessionRestart, SessionInv
  <1>2. CASE EditSettings
    <2>1. Idle /\ edited' = TRUE /\ settings' \in [provider : MaybeProvider, mode : Modes]
          /\ UNCHANGED <<flags, handler, cancelCall, cut>>
      BY <1>2 DEF EditSettings, MaybeProvider
    <2>2. SessionTypeOK'
      BY <1>1, <2>1 DEF SessionTypeOK
    <2>3. HandlerAt' /\ HandlerGranted'
      BY <1>1, <2>1 DEF SessionInv, HandlerAt, HandlerGranted, Idle
    <2>4. ReadsConnection' /\ OwnCredentials' /\ SessionAgrees'
      BY <1>1, <2>1 DEF SessionInv, ReadsConnection, OwnCredentials, SessionAgrees, Idle
    <2> QED BY <2>2, <2>3, <2>4 DEF SessionInv
  <1>3. CASE UpdateFlag
    <2>1. Idle /\ UNCHANGED <<settings, handler, cancelCall, cut, edited>>
      BY <1>3 DEF UpdateFlag
    <2>2. flags' \in [Providers -> SUBSET Modes]
      BY <1>1, <1>3 DEF UpdateFlag, Upserted, SessionTypeOK
    <2>3. SessionTypeOK'
      BY <1>1, <2>1, <2>2 DEF SessionTypeOK
    <2>4. HandlerAt' /\ HandlerGranted'
      BY <1>1, <2>1 DEF SessionInv, HandlerAt, HandlerGranted, Idle
    <2>5. ReadsConnection' /\ OwnCredentials' /\ SessionAgrees'
      BY <1>1, <2>1 DEF SessionInv, ReadsConnection, OwnCredentials, SessionAgrees, Idle
    <2> QED BY <2>3, <2>4, <2>5 DEF SessionInv
  <1>4. CASE SessionRestart
    <2>1. handler' = NoHandler /\ cut' = TRUE /\ UNCHANGED <<settings, flags, edited>>
          /\ cancelCall' = [w \in CancelThreads |-> NoCancelCall]
      BY <1>4 DEF SessionRestart
    <2>2. NoHandler \in HandlerRecords /\ NoHandler.pc = "idle" /\ NoHandler.op = "none"
          /\ NoCancelCall \in CancelRecords /\ NoCancelCall.pc = "idle"
      BY DEF NoHandler, HandlerRecords, NoCancelCall, CancelRecords, MaybeProvider, Modes
    <2>3. SessionTypeOK'
      BY <1>1, <2>1, <2>2 DEF SessionTypeOK, HandlerRecords, CancelRecords
    <2>4. HandlerAt' /\ HandlerGranted' /\ SessionAgrees' /\ ReadsConnection' /\ OwnCredentials'
      BY <2>1, <2>2 DEF HandlerAt, HandlerGranted, Idle, SessionAgrees, ReadsConnection, OwnCredentials
    <2> QED BY <2>3, <2>4 DEF SessionInv
  <1> QED BY <1>2, <1>3, <1>4

(* Of all steps, only the writes of a granted handler turn a record live.   *)
LEMMA TurnsLive ==
  ASSUME SessionInv, SessionNext \/ UNCHANGED sessionVars
  PROVE  /\ connection'.mode = "live" /\ connection' # connection => "live" \in flags[connection'.provider]
         /\ settings'.mode = "live" /\ settings' # settings /\ ~edited' => "live" \in flags[settings'.provider]
  <1>1. CASE WriteConnection
    BY <1>1 DEF WriteConnection, SessionInv, HandlerGranted, Idle
  <1>2. CASE WriteSettings
    BY <1>2 DEF WriteSettings, SessionInv, HandlerGranted, Idle
  <1>3. CASE EditSettings
    BY <1>3 DEF EditSettings
  <1>4. CASE UNCHANGED <<connection, settings>>
    BY <1>4
  <1>5. WriteConnection \/ WriteSettings \/ EditSettings \/ UNCHANGED <<connection, settings>>
    BY DEF SessionNext, sessionVars, Connect, Disconnect, WriteCredentials, UpdateFlag, SessionRestart,
           CancelReadsConnection, CancelReadsCredentials, CancelEnds
  <1> QED BY <1>1, <1>2, <1>3, <1>4, <1>5

(* OneSession: the stored records tell one session, the kill switch uses    *)
(* its credentials, and it turns live only when the flags allow it, for any *)
(* providers, threads and handlers.                                         *)
THEOREM SessionIsOne == SessionSpec => OneSession
  <1>1. SessionInv /\ [SessionNext]_sessionVars => SessionInv'
    <2> SUFFICES ASSUME SessionInv, [SessionNext]_sessionVars PROVE SessionInv'
      OBVIOUS
    <2>1. CASE Connect
      <3>1. PICK p \in Providers, requested \in Modes, keys \in BOOLEAN :
              Begin([pc |-> "credentials", op |-> "connect", provider |-> p, mode |-> Granted(p, requested),
                     keys |-> keys])
        BY <2>1 DEF Connect
      <3>2. Granted(p, requested) \in Modes /\ (Granted(p, requested) = "live" => "live" \in flags[p])
        BY DEF Granted, Modes
      <3> DEFINE h == [pc |-> "credentials", op |-> "connect", provider |-> p, mode |-> Granted(p, requested),
                       keys |-> keys]
      <3>3. h \in HandlerRecords /\ h.pc = "credentials" /\ h.op = "connect" /\ h.provider = p
            /\ h.mode = Granted(p, requested)
        BY <3>2 DEF HandlerRecords, MaybeProvider
      <3>4. UNCHANGED <<connection, credentials, settings, flags, cancelCall, cut, edited>> /\ Begin(h)
        BY <2>1, <3>1 DEF Connect
      <3> HIDE DEF h
      <3>5. h.op = "connect" /\ h.pc = "credentials" /\ h.provider \in Providers
            /\ (h.mode = "live" => "live" \in flags[h.provider]) /\ h.pc # "idle"
        BY <3>2, <3>3
      <3> QED BY <3>3, <3>4, <3>5, BeginStep
    <2>2. CASE Disconnect
      <3> DEFINE h == [pc |-> "connection", op |-> "disconnect", provider |-> NoProvider, mode |-> "paper",
                       keys |-> FALSE]
      <3>1. h \in HandlerRecords /\ h.pc = "connection" /\ h.op = "disconnect" /\ h.provider = NoProvider
            /\ h.mode = "paper" /\ ~h.keys
        BY DEF HandlerRecords, MaybeProvider, Modes
      <3>2. UNCHANGED <<connection, credentials, settings, flags, cancelCall, cut, edited>> /\ Begin(h)
        BY <2>2 DEF Disconnect
      <3> HIDE DEF h
      <3> QED BY <3>1, <3>2, BeginStep
    <2>3. CASE UNCHANGED sessionVars
      BY <2>3 DEF sessionVars, SessionInv, SessionTypeOK, HandlerAt, HandlerGranted, ReadsConnection,
                  OwnCredentials, SessionAgrees, Idle
    <2> QED BY <2>1, <2>2, <2>3, WriteStep, CancelStep, EditStep DEF SessionNext
  <1>2. SessionInv /\ [SessionNext]_sessionVars =>
          [/\ connection'.mode = "live" /\ connection' # connection => "live" \in flags[connection'.provider]
           /\ settings'.mode = "live" /\ settings' # settings /\ ~edited' =>
                "live" \in flags[settings'.provider]]_sessionVars
    BY TurnsLive
  <1>3. SessionInv => SessionTypeOK /\ OwnCredentials /\ SessionAgrees
    BY DEF SessionInv
  <1> QED BY <1>1, <1>2, <1>3, SessionInvInit, PTL DEF SessionSpec, OneSession, LiveWhenAllowed

-----------------------------------------------------------------------------
(* No two accounts of a table have the same e-mail address.                 *)
MailsDiffer(table) ==
  \A m, n \in Names : table[m] # Nobody /\ table[n] # Nobody /\ table[m].mail = table[n].mail
                      /\ table[m].mail \in Mails => m = n

(* The table there is, or the one being written: it has everybody who       *)
(* registered.                                                              *)
TableInv ==
  /\ file \in Tables \cup {Torn} /\ saving \in Tables \cup {Nobody} /\ torn \in BOOLEAN
  /\ Ready /\ file = Torn => torn
  /\ ~Ready => file = Torn /\ MailsDiffer(saving)
  /\ file # Torn => MailsDiffer(file)
  /\ ~torn => \A n \in known : (IF Ready THEN file ELSE saving)[n] # Nobody

(* A reset token that is still there has changed no password.               *)
TokenInv ==
  /\ sessions \subseteq [id : Tokens, user : Names, until : Nat]
  /\ resets \subseteq [id : Tokens, user : Names, until : Nat]
  /\ authTime \in 0 .. MaxAuthTime /\ tokens \in 0 .. MaxTokens
  /\ used \in [Tokens -> {0, 1}] /\ \A t \in Tokens : t > tokens => used[t] = 0
  /\ \A r \in resets : r.id <= tokens /\ used[r.id] = 0
  /\ \A r, q \in resets : r.id = q.id => r = q

RestInv == policy \subseteq Names /\ fallback \in BOOLEAN /\ known \subseteq Names /\ secrets \in 0 .. MaxSecrets

(* The inductive invariant behind AccountsSound.                            *)
AuthInv == TableInv /\ TokenInv /\ RestInv

(* The table of an unreadable file has nobody.                              *)
LEMMA EmptyTable == NoUsers \in Tables /\ (\A n \in Names : NoUsers[n] = Nobody) /\ MailsDiffer(NoUsers)
  BY DEF NoUsers, Tables, MailsDiffer

(* The invariant holds in a new installation.                               *)
LEMMA AuthInvInit == AuthInit => AuthInv
  <1> SUFFICES ASSUME AuthInit PROVE AuthInv
    OBVIOUS
  <1> USE AuthAssumption, EmptyTable DEF AuthInit
  <1>1. TableInv
    BY DEF TableInv, Ready
  <1>2. TokenInv
    BY DEF TokenInv, Tokens
  <1>3. RestInv
    BY DEF RestInv
  <1> QED BY <1>1, <1>2, <1>3 DEF AuthInv

(* The table that is read is one, also when the file cannot be.             *)
LEMMA UsersIsTable ==
  ASSUME AuthInv
  PROVE  Users \in Tables /\ MailsDiffer(Users) /\ (Users # NoUsers => Users = file /\ file # Torn)
  BY EmptyTable DEF AuthInv, TableInv, Users

(* A change of one account writes a table that has all the others, and      *)
(* whose addresses differ.                                                  *)
LEMMA SaveKeepsTable ==
  ASSUME AuthInv, NEW n \in Names, NEW record \in Records, Save(n, record), torn' = torn,
         known' \subseteq known \cup {n},
         \/ Present(n) /\ record.mail = Users[n].mail
         \/ ~MailTaken(record.mail)
  PROVE  TableInv'
  <1>1. Ready /\ file' = Torn /\ saving' = [Users EXCEPT ![n] = record]
    BY DEF Save, Saved
  <1>2. Users \in Tables /\ MailsDiffer(Users)
    BY UsersIsTable
  <1>3. saving' \in Tables /\ saving'[n] = record /\ \A m \in Names \ {n} : saving'[m] = Users[m]
    BY <1>1, <1>2 DEF Tables
  <1>4. saving' # Nobody /\ record # Nobody
    BY <1>3, AuthAssumption
  <1>5. \A m \in Names \ {n} : Users[m] # Nobody /\ Users[m].mail = record.mail => record.mail \notin Mails
    <2> SUFFICES ASSUME NEW m \in Names, m # n, Users[m] # Nobody, Users[m].mail = record.mail, record.mail \in Mails
                 PROVE  FALSE
      OBVIOUS
    <2>1. CASE Present(n) /\ record.mail = Users[n].mail
      BY <1>2, <2>1 DEF Present, MailsDiffer
    <2>2. CASE ~MailTaken(record.mail)
      <3>1. record.mail # NoMail
        BY AuthAssumption
      <3>2. m \in Owners(record.mail)
        BY DEF Owners, Present
      <3> QED BY <2>2, <3>1, <3>2 DEF MailTaken
    <2> QED BY <2>1, <2>2
  <1>6. MailsDiffer(saving')
    <2> SUFFICES ASSUME NEW m \in Names, NEW k \in Names, saving'[m] # Nobody, saving'[k] # Nobody,
                        saving'[m].mail = saving'[k].mail, saving'[m].mail \in Mails, m # k
                 PROVE  FALSE
      BY DEF MailsDiffer
    <2>1. CASE m = n
      BY <1>3, <1>5, <2>1
    <2>2. CASE k = n
      BY <1>3, <1>5, <2>2
    <2>3. CASE m # n /\ k # n
      BY <1>2, <1>3, <2>3 DEF MailsDiffer
    <2> QED BY <2>1, <2>2, <2>3
  <1>7. ~torn => \A m \in known : Users[m] # Nobody
    BY <1>1 DEF AuthInv, TableInv, Users
  <1>8. ~torn => \A m \in known' : saving'[m] # Nobody
    BY <1>3, <1>4, <1>7 DEF AuthInv, RestInv
  <1> QED BY <1>1, <1>3, <1>4, <1>6, <1>8 DEF AuthInv, TableInv, Ready

(* A change of the account keeps its address, and leaves a way to log in.   *)
LEMMA AccountSteps ==
  ASSUME AuthInv, NEW n \in Names
  PROVE  /\ \A mail \in Mails \cup {NoMail} : RegisterUser(n, mail) => AuthInv'
         /\ Enroll(n) => AuthInv'
         /\ \A code \in 0 .. MaxSecrets : Confirm(n, code) \/ Disable(n, code) => AuthInv'
  <1>0. Users \in Tables
    BY UsersIsTable
  <1>1. ASSUME NEW mail \in Mails \cup {NoMail}, RegisterUser(n, mail) PROVE AuthInv'
    <2> DEFINE r == [mail |-> mail, on |-> FALSE, secret |-> 0]
    <2>1. r \in Records /\ r.mail = mail
      BY AuthAssumption DEF Records
    <2>2. Save(n, r) /\ ~MailTaken(mail) /\ known' = known \cup {n}
          /\ UNCHANGED <<policy, fallback, sessions, resets, authTime, secrets, tokens, torn, used>>
      BY <1>1 DEF RegisterUser
    <2> HIDE DEF r
    <2>3. TableInv'
      BY <2>1, <2>2, SaveKeepsTable
    <2>4. TokenInv' /\ RestInv'
      BY <2>2 DEF AuthInv, TokenInv, RestInv
    <2> QED BY <2>3, <2>4 DEF AuthInv
  <1>2. ASSUME Present(n), NEW r \in Records, r.mail = Users[n].mail, Save(n, r), secrets' \in 0 .. MaxSecrets,
               UNCHANGED <<policy, fallback, sessions, resets, authTime, tokens, torn, known, used>>
        PROVE  AuthInv'
    <2>1. TableInv'
      BY <1>2, SaveKeepsTable
    <2>2. TokenInv' /\ RestInv'
      BY <1>2 DEF AuthInv, TokenInv, RestInv
    <2> QED BY <2>1, <2>2 DEF AuthInv
  <1>3. ASSUME Present(n), NEW on \in BOOLEAN, NEW secret \in 0 .. MaxSecrets
        PROVE  /\ [Users[n] EXCEPT !.on = on, !.secret = secret] \in Records
               /\ [Users[n] EXCEPT !.on = on, !.secret = secret].mail = Users[n].mail
               /\ [Users[n] EXCEPT !.on = on] \in Records /\ [Users[n] EXCEPT !.on = on].mail = Users[n].mail
    <2>1. Users[n] \in Records
      BY <1>0, <1>3 DEF Tables, Present
    <2> QED BY <2>1 DEF Records
  <1>4. secrets \in 0 .. MaxSecrets
    BY DEF AuthInv, RestInv
  <1>5. ASSUME Enroll(n) PROVE AuthInv'
    <2>1. secrets + 1 \in 0 .. MaxSecrets /\ secrets' = secrets + 1 /\ Present(n)
          /\ UNCHANGED <<policy, fallback, sessions, resets, authTime, tokens, torn, known, used>>
          /\ Save(n, [Users[n] EXCEPT !.on = FALSE, !.secret = secrets + 1])
      BY <1>4, <1>5, AuthAssumption DEF Enroll
    <2> QED BY <1>2, <1>3, <2>1
  <1>6. ASSUME NEW code \in 0 .. MaxSecrets, Confirm(n, code) PROVE AuthInv'
    <2>1. Present(n) /\ UNCHANGED <<policy, fallback, sessions, resets, authTime, secrets, tokens, torn, known, used>>
          /\ Save(n, [Users[n] EXCEPT !.on = TRUE])
      BY <1>6 DEF Confirm
    <2> QED BY <1>2, <1>3, <1>4, <2>1
  <1>7. ASSUME NEW code \in 0 .. MaxSecrets, Disable(n, code) PROVE AuthInv'
    <2>1. Present(n) /\ UNCHANGED <<policy, fallback, sessions, resets, authTime, secrets, tokens, torn, known, used>>
          /\ Save(n, [Users[n] EXCEPT !.on = FALSE, !.secret = 0])
      BY <1>7 DEF Disable
    <2>2. 0 \in 0 .. MaxSecrets
      BY AuthAssumption
    <2> QED BY <1>2, <1>3, <1>4, <2>1, <2>2
  <1> QED BY <1>1, <1>5, <1>6, <1>7

(* A session begins or ends, time passes, or a reset is asked for: the      *)
(* table stays.                                                             *)
LEMMA TokenSteps ==
  ASSUME AuthInv, UNCHANGED <<policy, fallback, file, saving, secrets, torn, known, used>>,
         \/ \E n \in Names, code \in 0 .. MaxSecrets : LogIn(n, code)
         \/ \E s \in sessions : Forget(s) \/ LogOut(s) \/ IssueWsToken(s)
         \/ \E mail \in Mails : RequestReset(mail)
         \/ AuthTick
  PROVE  AuthInv'
  <1>1. TableInv' /\ RestInv'
    BY DEF AuthInv, TableInv, RestInv, Ready
  <1>2. TokenInv
    BY DEF AuthInv
  <1>3. ASSUME NewToken PROVE tokens + 1 \in Tokens /\ tokens' = tokens + 1 /\ tokens' \in 0 .. MaxTokens
    BY <1>2, <1>3, AuthAssumption DEF TokenInv, NewToken, Tokens
  <1>4. \A ttl \in Nat : authTime + ttl \in Nat
    BY <1>2, AuthAssumption DEF TokenInv
  <1>5. \A t \in Tokens : t > tokens + 1 => t > tokens
    BY <1>2 DEF TokenInv, Tokens
  <1>6. ASSUME NEW n \in Names, NEW code \in 0 .. MaxSecrets, LogIn(n, code) PROVE TokenInv'
    <2>1. [id |-> tokens + 1, user |-> n, until |-> authTime + SessionTtl] \in [id : Tokens, user : Names, until : Nat]
      BY <1>3, <1>4, <1>6, AuthAssumption DEF LogIn
    <2> QED BY <1>2, <1>3, <1>5, <1>6, <2>1 DEF TokenInv, LogIn, Tokens
  <1>7. ASSUME NEW s \in sessions, Forget(s) \/ LogOut(s) PROVE TokenInv'
    BY <1>2, <1>7 DEF TokenInv, Forget, LogOut
  <1>8. ASSUME NEW s \in sessions, IssueWsToken(s) PROVE TokenInv'
    <2>1. [id |-> tokens + 1, user |-> s.user, until |-> authTime + 1] \in [id : Tokens, user : Names, until : Nat]
      BY <1>2, <1>3, <1>4, <1>8 DEF IssueWsToken, TokenInv
    <2> QED BY <1>2, <1>3, <1>5, <1>8, <2>1 DEF TokenInv, IssueWsToken, Tokens
  <1>9. ASSUME NEW mail \in Mails, RequestReset(mail) PROVE TokenInv'
    <2>1. PICK n \in Names :
            resets' = resets \cup {[id |-> tokens + 1, user |-> n, until |-> authTime + ResetTtl]}
      BY <1>9 DEF RequestReset, Owners
    <2> DEFINE r == [id |-> tokens + 1, user |-> n, until |-> authTime + ResetTtl]
    <2>2. r \in [id : Tokens, user : Names, until : Nat] /\ r.id = tokens + 1
      BY <1>3, <1>4, <1>9, AuthAssumption DEF RequestReset
    <2>3. resets' = resets \cup {r} /\ UNCHANGED <<sessions, authTime>> /\ NewToken
      BY <1>9, <2>1 DEF RequestReset
    <2> HIDE DEF r
    <2>4. used[r.id] = 0 /\ \A q \in resets : q.id <= tokens /\ q.id # r.id /\ q.id <= tokens + 1
      BY <1>2, <1>3, <2>2, <2>3 DEF TokenInv, Tokens
    <2>5. \A q \in resets' : q.id <= tokens + 1 /\ used[q.id] = 0
      BY <1>2, <1>3, <2>2, <2>3, <2>4 DEF TokenInv
    <2>6. \A p, q \in resets' : p.id = q.id => p = q
      BY <1>2, <2>3, <2>4 DEF TokenInv
    <2> QED BY <1>2, <1>3, <1>5, <2>2, <2>3, <2>5, <2>6 DEF TokenInv
  <1>10. ASSUME AuthTick PROVE TokenInv'
    BY <1>2, <1>10, AuthAssumption DEF TokenInv, AuthTick
  <1> QED BY <1>1, <1>6, <1>7, <1>8, <1>9, <1>10 DEF AuthInv

(* A reset takes its token with it.                                         *)
LEMMA ResetStep ==
  ASSUME AuthInv, NEW r \in resets, Reset(r)
  PROVE  AuthInv'
  <1>1. /\ resets' = resets \ {r}
        /\ UNCHANGED <<policy, fallback, sessions, authTime, secrets, tokens, torn, known>>
    BY DEF Reset, ResetsAfter
  <1>2. r.user \in Names /\ r.id \in Tokens /\ used[r.id] = 0 /\ TokenInv /\ RestInv'
    BY <1>1 DEF AuthInv, TokenInv, RestInv
  <1>3. CASE Alive(r) /\ Present(r.user)
    <2>1. Save(r.user, Users[r.user]) /\ used' = [used EXCEPT ![r.id] = @ + 1]
      BY <1>3 DEF Reset
    <2>2. Users[r.user] \in Records
      BY <1>2, <1>3, UsersIsTable DEF Tables, Present
    <2>3. TableInv'
      BY <1>1, <1>2, <1>3, <2>1, <2>2, SaveKeepsTable
    <2>4. used' = [used EXCEPT ![r.id] = 1]
      BY <1>2, <2>1 DEF TokenInv
    <2>5. used' \in [Tokens -> {0, 1}] /\ \A t \in Tokens \ {r.id} : used'[t] = used[t]
      BY <1>2, <2>4 DEF TokenInv
    <2>6. \A q \in resets' : q.id # r.id /\ q.id \in Tokens
      BY <1>1, <1>2 DEF TokenInv
    <2>7. r.id <= tokens
      BY <1>2 DEF TokenInv
    <2>8. \A t \in Tokens : t > tokens => t # r.id
      BY <1>2, <2>7 DEF TokenInv, Tokens
    <2>9. TokenInv'
      BY <1>1, <1>2, <2>5, <2>6, <2>8 DEF TokenInv
    <2> QED BY <1>2, <2>3, <2>9 DEF AuthInv
  <1>4. CASE ~(Alive(r) /\ Present(r.user))
    <2>1. UNCHANGED <<file, saving, used>>
      BY <1>4 DEF Reset
    <2> QED BY <1>1, <1>2, <2>1 DEF AuthInv, TableInv, TokenInv, Ready
  <1> QED BY <1>3, <1>4

(* The process ends, or the table is written.                               *)
LEMMA FileSteps ==
  ASSUME AuthInv, FinishSave \/ AuthRestart
  PROVE  AuthInv'
  <1>1. CASE FinishSave
    <2>1. file' = saving /\ saving' = Nobody /\ ~Ready
          /\ UNCHANGED <<policy, fallback, sessions, resets, authTime, secrets, tokens, torn, known, used>>
      BY <1>1 DEF FinishSave
    <2>2. saving \in Tables /\ MailsDiffer(saving) /\ file' # Torn
      BY <2>1, AuthAssumption DEF AuthInv, TableInv, Ready
    <2>3. TableInv'
      BY <2>1, <2>2 DEF AuthInv, TableInv, Ready
    <2>4. TokenInv' /\ RestInv'
      BY <2>1 DEF AuthInv, TokenInv, RestInv
    <2> QED BY <2>3, <2>4 DEF AuthInv
  <1>2. CASE AuthRestart
    <2>1. /\ fallback' \in BOOLEAN /\ saving' = Nobody /\ sessions' = {} /\ resets' = {} /\ torn' = (torn \/ ~Ready)
          /\ UNCHANGED <<policy, file, authTime, secrets, tokens, known, used>>
      BY <1>2 DEF AuthRestart
    <2>2. TableInv'
      BY <2>1 DEF AuthInv, TableInv, Ready
    <2>3. TokenInv' /\ RestInv'
      BY <2>1 DEF AuthInv, TokenInv, RestInv
    <2> QED BY <2>2, <2>3 DEF AuthInv
  <1> QED BY <1>1, <1>2

(* A step that writes a table leaves who could log in a way to do so.       *)
LEMMA LoginKept ==
  ASSUME AuthInv, AuthNext \/ UNCHANGED authVars, NEW n \in Names, Ready, Present(n),
         Required(Users, n) => Configured(Users, n), saving' # Nobody, Required(saving', n)
  PROVE  Configured(saving', n)
  <1>0. Users \in Tables /\ Users[n] \in Records
    BY UsersIsTable DEF Tables, Present
  <1>1. \A m \in Names : \A record : Save(m, record) =>
          saving' = [Users EXCEPT ![m] = record] /\ (m # n => saving'[n] = Users[n]) /\ (m = n => saving'[n] = record)
    BY <1>0 DEF Save, Saved, Tables
  <1>2. saving'[n] = Users[n] => Configured(saving', n)
    BY DEF Required, Configured
  <1>3. ASSUME NEW m \in Names, NEW mail \in Mails \cup {NoMail}, RegisterUser(m, mail)
        PROVE  Configured(saving', n)
    BY <1>1, <1>2, <1>3 DEF RegisterUser
  <1>4. ASSUME NEW m \in Names, Enroll(m) PROVE Configured(saving', n)
    <2>1. CASE m = n
      <3>1. saving'[n] = [Users[n] EXCEPT !.on = FALSE, !.secret = secrets + 1]
        BY <1>1, <1>4, <2>1 DEF Enroll
      <3>2. saving'[n].secret = secrets + 1 /\ secrets \in Nat
        BY <1>0, <3>1, AuthAssumption DEF Records, AuthInv, RestInv
      <3> QED BY <3>2 DEF Configured
    <2>2. CASE m # n
      BY <1>1, <1>2, <1>4, <2>2 DEF Enroll
    <2> QED BY <2>1, <2>2
  <1>5. ASSUME NEW m \in Names, NEW code \in 0 .. MaxSecrets, Confirm(m, code) PROVE Configured(saving', n)
    <2>1. CASE m = n
      <3>1. saving'[n] = [Users[n] EXCEPT !.on = TRUE] /\ Users[n].secret # 0
        BY <1>1, <1>5, <2>1 DEF Confirm
      <3>2. saving'[n].secret = Users[n].secret
        BY <1>0, <3>1 DEF Records
      <3> QED BY <3>1, <3>2 DEF Configured
    <2>2. CASE m # n
      BY <1>1, <1>2, <1>5, <2>2 DEF Confirm
    <2> QED BY <2>1, <2>2
  <1>6. ASSUME NEW m \in Names, NEW code \in 0 .. MaxSecrets, Disable(m, code) PROVE Configured(saving', n)
    <2>1. CASE m = n
      <3>1. saving'[n] = [Users[n] EXCEPT !.on = FALSE, !.secret = 0] /\ MayDisable(n)
        BY <1>1, <1>6, <2>1 DEF Disable
      <3>2. saving'[n].on = FALSE
        BY <1>0, <3>1 DEF Records
      <3>3. n \in policy
        BY <3>2 DEF Required
      <3> QED BY <3>1, <3>3 DEF Configured, MayDisable
    <2>2. CASE m # n
      BY <1>1, <1>2, <1>6, <2>2 DEF Disable
    <2> QED BY <2>1, <2>2
  <1>7. ASSUME NEW r \in resets, Reset(r) PROVE Configured(saving', n)
    <2>1. r.user \in Names
      BY DEF AuthInv, TokenInv
    <2>2. Save(r.user, Users[r.user])
      BY <1>7 DEF Reset, Ready
    <2> QED BY <1>1, <1>2, <2>1, <2>2
  <1>8. CASE UNCHANGED saving
    BY <1>8 DEF Ready
  <1>9. ~FinishSave
    BY DEF FinishSave
  <1>10. AuthRestart => saving' = Nobody
    BY DEF AuthRestart
  <1>11. ASSUME NEW m \in Names, NEW code \in 0 .. MaxSecrets, LogIn(m, code) PROVE UNCHANGED saving
    BY <1>11 DEF LogIn
  <1>12. ASSUME NEW s \in sessions, Forget(s) \/ LogOut(s) \/ IssueWsToken(s) PROVE UNCHANGED saving
    BY <1>12 DEF Forget, LogOut, IssueWsToken
  <1>13. ASSUME NEW mail \in Mails, RequestReset(mail) PROVE UNCHANGED saving
    BY <1>13 DEF RequestReset
  <1>14. AuthTick \/ UNCHANGED authVars => UNCHANGED saving
    BY DEF AuthTick, authVars
  <1> QED BY <1>3, <1>4, <1>5, <1>6, <1>7, <1>8, <1>9, <1>10, <1>11, <1>12, <1>13, <1>14 DEF AuthNext

(* The invariant implies what the run checks of every state.                *)
LEMMA AuthInvImplies == AuthInv => AuthTypeOK /\ AccountsKept /\ MailsUnique /\ ResetOnce
  <1> SUFFICES ASSUME AuthInv PROVE AuthTypeOK /\ AccountsKept /\ MailsUnique /\ ResetOnce
    OBVIOUS
  <1>1. AuthTypeOK
    BY DEF AuthInv, TableInv, TokenInv, RestInv, AuthTypeOK, Tables
  <1>2. AccountsKept
    BY DEF AuthInv, TableInv, AccountsKept, Present, Users
  <1>3. MailsUnique
    <2> SUFFICES ASSUME NEW mail \in Mails PROVE Cardinality(Owners(mail)) <= 1
      BY DEF MailsUnique
    <2>1. \A m, n \in Owners(mail) : m = n
      BY UsersIsTable DEF Owners, Present, MailsDiffer
    <2>2. CASE Owners(mail) = {}
      BY <2>2, FS_EmptySet
    <2>3. ASSUME NEW n \in Owners(mail) PROVE Cardinality(Owners(mail)) = 1
      <3>1. Owners(mail) = {n}
        BY <2>1
      <3> QED BY <3>1, FS_Singleton
    <2> QED BY <2>2, <2>3
  <1>4. ResetOnce
    BY DEF AuthInv, TokenInv, ResetOnce
  <1> QED BY <1>1, <1>2, <1>3, <1>4

(* AccountsSound: accounts are kept, addresses differ, a reset token works  *)
(* once and who can log in still can after any change, for any users,       *)
(* secrets, tokens and times.                                               *)
THEOREM AccountsAreSound == AuthSpec => AccountsSound
  <1>1. AuthInv /\ [AuthNext]_authVars => AuthInv'
    <2> SUFFICES ASSUME AuthInv, [AuthNext]_authVars PROVE AuthInv'
      OBVIOUS
    <2>1. ASSUME NEW n \in Names, NEW code \in 0 .. MaxSecrets, LogIn(n, code) PROVE AuthInv'
      <3>1. UNCHANGED <<policy, fallback, file, saving, secrets, torn, known, used>>
        BY <2>1 DEF LogIn
      <3> QED BY <2>1, <3>1, TokenSteps
    <2>2. ASSUME NEW s \in sessions, Forget(s) \/ LogOut(s) \/ IssueWsToken(s) PROVE AuthInv'
      <3>1. UNCHANGED <<policy, fallback, file, saving, secrets, torn, known, used>>
        BY <2>2 DEF Forget, LogOut, IssueWsToken
      <3> QED BY <2>2, <3>1, TokenSteps
    <2>3. ASSUME NEW mail \in Mails, RequestReset(mail) PROVE AuthInv'
      <3>1. UNCHANGED <<policy, fallback, file, saving, secrets, torn, known, used>>
        BY <2>3 DEF RequestReset
      <3> QED BY <2>3, <3>1, TokenSteps
    <2>4. CASE AuthTick
      <3>1. UNCHANGED <<policy, fallback, file, saving, secrets, torn, known, used>>
        BY <2>4 DEF AuthTick
      <3> QED BY <2>4, <3>1, TokenSteps
    <2>5. CASE UNCHANGED authVars
      BY <2>5 DEF authVars, AuthInv, TableInv, TokenInv, RestInv, Ready
    <2> QED BY <2>1, <2>2, <2>3, <2>4, <2>5, AccountSteps, ResetStep, FileSteps DEF AuthNext
  <1>2. AuthInv /\ [AuthNext]_authVars =>
          [\A n \in Names : Ready /\ Present(n) /\ (Required(Users, n) => Configured(Users, n)) /\ saving' # Nobody =>
             (Required(saving', n) => Configured(saving', n))]_authVars
    BY LoginKept
  <1> QED BY <1>1, <1>2, AuthInvInit, AuthInvImplies, PTL DEF AuthSpec, AccountsSound, LoginStaysPossible

-----------------------------------------------------------------------------
(* The detectors there are, and how many are heard.                         *)
Detectors == {"forest", "autoencoder", "price", "volume"}

(* There are four detectors at most.                                        *)
LEMMA FourDetectors == IsFiniteSet(Detectors) /\ Cardinality(Detectors) = 4
  <1>1. IsFiniteSet({"forest"}) /\ Cardinality({"forest"}) = 1
    BY FS_Singleton
  <1>2. IsFiniteSet({"forest"} \cup {"autoencoder"}) /\ Cardinality({"forest"} \cup {"autoencoder"}) = 2
    BY <1>1, FS_AddElement
  <1>3. /\ IsFiniteSet({"forest"} \cup {"autoencoder"} \cup {"price"})
        /\ Cardinality({"forest"} \cup {"autoencoder"} \cup {"price"}) = 3
    BY <1>2, FS_AddElement
  <1>4. /\ IsFiniteSet({"forest"} \cup {"autoencoder"} \cup {"price"} \cup {"volume"})
        /\ Cardinality({"forest"} \cup {"autoencoder"} \cup {"price"} \cup {"volume"}) = 4
    BY <1>3, FS_AddElement
  <1>5. Detectors = {"forest"} \cup {"autoencoder"} \cup {"price"} \cup {"volume"}
    BY DEF Detectors
  <1> QED BY <1>4, <1>5

(* The votes of the detectors heard are at most as many as they are.        *)
LEMMA VotesCounted ==
  ASSUME NEW heard \in SUBSET Detectors, NEW votes \in SUBSET heard
  PROVE  Cardinality(heard) \in 0 .. 4 /\ Cardinality(votes) \in 0 .. Cardinality(heard)
         /\ (heard # {} => Cardinality(heard) > 0)
  <1>1. IsFiniteSet(heard) /\ Cardinality(heard) <= 4 /\ Cardinality(heard) \in Nat
    BY FourDetectors, FS_Subset, FS_CardinalityType
  <1>2. Cardinality(votes) <= Cardinality(heard) /\ Cardinality(votes) \in Nat
    BY <1>1, FS_Subset, FS_CardinalityType
  <1>3. heard # {} => Cardinality(heard) # 0
    BY <1>1, FS_EmptySet
  <1> QED BY <1>1, <1>2, <1>3

(* The multiplier keeps between half of a position and all of it.           *)
LEMMA MultiplierBounded ==
  ASSUME NEW total \in 1 .. 4, NEW votes \in 0 .. total
  PROVE  Multiplier(votes, total) \in 12 .. 24
  BY DEF Multiplier, Majority

(* A share of a position has its sign and is not larger.                    *)
LEMMA ShareOfPosition ==
  ASSUME NEW f \in Int, NEW m \in 0 .. 24
  PROVE  /\ f * m \in Int
         /\ (f * m) * (24 * f) >= 0 /\ (f * m) * (f * m) <= (24 * f) * (24 * f)
  <1>1. f * f >= 0 /\ f * f \in Int /\ m * m \in 0 .. 576
    BY SMT
  <1>2. (f * m) * (24 * f) = 24 * (m * (f * f))
    BY SMT
  <1>3. m * (f * f) >= 0
    BY <1>1, SMT
  <1>4. (f * m) * (f * m) = (m * m) * (f * f) /\ (24 * f) * (24 * f) = 576 * (f * f)
    BY SMT
  <1>5. (m * m) * (f * f) <= 576 * (f * f)
    BY <1>1, SMT
  <1> QED BY <1>2, <1>3, <1>4, <1>5

(* What is left of a position is a share of it.                             *)
LEMMA AdjustedIsAShare ==
  ASSUME NEW f \in Int, NEW total \in 1 .. 4, NEW votes \in 0 .. total
  PROVE  \E m \in 0 .. 24 : Adjusted(f, votes, total) = f * m
  <1>1. Multiplier(votes, total) \in 0 .. 24 /\ f * 0 = 0 /\ f * 24 = 24 * f
    BY MultiplierBounded
  <1> QED BY <1>1 DEF Adjusted

(* Of a positive position one more vote lets no more through.               *)
LEMMA AdjustedFalls ==
  ASSUME NEW f \in Nat, NEW total \in 1 .. 4, NEW votes \in 0 .. total - 1
  PROVE  Adjusted(f, votes + 1, total) <= Adjusted(f, votes, total)
  BY DEF Adjusted, Veto, Moderate, Multiplier, Majority

(* The properties of one result.                                            *)
Sound(r) ==
  /\ r.adjusted * r.asked >= 0 /\ r.adjusted * r.adjusted <= r.asked * r.asked
  /\ r.decision = "veto" => r.adjusted = 0
  /\ guarded /\ r.votes < r.total /\ r.asked > 0 =>
       Adjusted(r.asked \div 24, r.votes + 1, r.total) <= r.adjusted
  /\ guarded /\ r.total = 1 => r.decision # "reduce"

GuardInv ==
  /\ guarded \in BOOLEAN /\ detectors \subseteq {"forest", "autoencoder"}
  /\ disk = NoResult \/ disk \subseteq {"forest"}
  /\ guarded /\ fitted => detectors = {"forest"}
  /\ guardStats \in [Counters -> Nat] /\ StatsAddUp
  /\ result # NoResult => Sound(result)

(* What makes a result sound, field by field.                               *)
LEMMA SoundOf ==
  ASSUME NEW f \in Int, NEW decision, NEW a \in Int, NEW n \in Int, NEW total \in Int,
         a * (24 * f) >= 0, a * a <= (24 * f) * (24 * f), decision = "veto" => a = 0,
         guarded /\ n < total /\ 24 * f > 0 => Adjusted((24 * f) \div 24, n + 1, total) <= a,
         guarded /\ total = 1 => decision # "reduce"
  PROVE  Sound(Result(f, decision, a, n, total))
  <1> DEFINE r == Result(f, decision, a, n, total)
  <1>1. r.asked = 24 * f /\ r.decision = decision /\ r.adjusted = a /\ r.votes = n /\ r.total = total
    BY DEF Result
  <1> HIDE DEF r
  <1>2. r.adjusted * r.asked >= 0 /\ r.adjusted * r.adjusted <= r.asked * r.asked
    BY <1>1
  <1>3. r.decision = "veto" => r.adjusted = 0
    BY <1>1
  <1>4. guarded /\ r.votes < r.total /\ r.asked > 0 => Adjusted(r.asked \div 24, r.votes + 1, r.total) <= r.adjusted
    BY <1>1
  <1>5. guarded /\ r.total = 1 => r.decision # "reduce"
    BY <1>1
  <1>6. Sound(r)
    BY <1>2, <1>3, <1>4, <1>5 DEF Sound
  <1> QED BY <1>6 DEF r

(* The supervisor's veto, and a guard that is not fitted, are sound.        *)
LEMMA ResultOfAll ==
  ASSUME NEW f \in Int, NEW decision \in {"pass", "veto"}, NEW adjusted \in {0, 24 * f},
         decision = "veto" => adjusted = 0
  PROVE  Sound(Result(f, decision, adjusted, 0, 0))
  <1>1. PICK m \in {0, 24} : adjusted = f * m
    BY SMT
  <1>2. adjusted * (24 * f) >= 0 /\ adjusted * adjusted <= (24 * f) * (24 * f)
    BY <1>1, ShareOfPosition
  <1>3. adjusted \in Int
    BY <1>1
  <1> QED BY <1>2, <1>3, SoundOf

(* What the guard decides from the votes it heard is sound.                 *)
LEMMA ResultOfGuard ==
  ASSUME NEW f \in Int, NEW total \in 1 .. 4, NEW n \in 0 .. total
  PROVE  Sound(Result(f, Decision(n, total), Adjusted(f, n, total), n, total))
  <1> DEFINE a == Adjusted(f, n, total)
  <1>1. PICK m \in 0 .. 24 : a = f * m
    BY AdjustedIsAShare
  <1>2. a * (24 * f) >= 0 /\ a * a <= (24 * f) * (24 * f)
    BY <1>1, ShareOfPosition
  <1>3. Decision(n, total) = "veto" => a = 0
    BY DEF Decision, Adjusted
  <1>4. n < total /\ 24 * f > 0 => Adjusted((24 * f) \div 24, n + 1, total) <= a
    <2> SUFFICES ASSUME n < total, 24 * f > 0 PROVE Adjusted(f, n + 1, total) <= a /\ (24 * f) \div 24 = f
      OBVIOUS
    <2>1. f \in Nat /\ n \in 0 .. total - 1 /\ (24 * f) \div 24 = f
      OBVIOUS
    <2> QED BY <2>1, AdjustedFalls
  <1>5. total = 1 => Decision(n, total) # "reduce"
    BY DEF Decision, Veto, Moderate
  <1>6. a \in Int
    BY <1>1
  <1> QED BY <1>2, <1>3, <1>4, <1>5, <1>6, SoundOf

(* So is what the risk manager decides without the guard.                   *)
LEMMA ResultAlone ==
  ASSUME ~guarded, NEW f \in Int, NEW total \in 0 .. 4, NEW n \in 0 .. total,
         NEW agreed \in BOOLEAN, agreed => total > 0
  PROVE  Sound(Result(f, IF agreed THEN "reduce" ELSE "pass",
                      IF agreed THEN f * Multiplier(n, total) ELSE 24 * f, n, total))
  <1> DEFINE a == IF agreed THEN f * Multiplier(n, total) ELSE 24 * f
  <1>1. PICK m \in 0 .. 24 : a = f * m
    <2>1. CASE agreed
      BY <2>1, MultiplierBounded
    <2>2. CASE ~agreed
      BY <2>2
    <2> QED BY <2>1, <2>2
  <1>2. a * (24 * f) >= 0 /\ a * a <= (24 * f) * (24 * f)
    BY <1>1, ShareOfPosition
  <1>3. a \in Int
    BY <1>1
  <1> HIDE DEF a
  <1>4. Sound(Result(f, IF agreed THEN "reduce" ELSE "pass", a, n, total))
    BY <1>2, <1>3, SoundOf
  <1> QED BY <1>4 DEF a

(* What is counted adds up when the evaluation is counted once more by what *)
(* it decided.                                                              *)
LEMMA CountedAddsUp ==
  ASSUME guardStats \in [Counters -> Nat], StatsAddUp, NEW decided \in {"pass", "reduce", "veto", "mimo"},
         guardStats' = Counted({"evaluations", decided}), guarded' = guarded
  PROVE  guardStats' \in [Counters -> Nat] /\ StatsAddUp'
  BY DEF Counted, Counters, StatsAddUp, Evaluations

(* GuardSound: no decision makes a position larger or turns it round, one   *)
(* more vote lets no more through, and every evaluation is counted once,    *)
(* for all positions.                                                       *)
THEOREM GuardIsSound == GuardSpec => []GuardSound
  <1>1. GuardInit => GuardInv
    BY DEF GuardInit, GuardInv, StatsAddUp, Evaluations, Counters
  <1>2. GuardInv /\ [GuardNext]_guardVars => GuardInv'
    <2> SUFFICES ASSUME GuardInv, [GuardNext]_guardVars PROVE GuardInv'
      OBVIOUS
    <2>0. \A f \in Fractions : f \in Int
      BY GuardAssumption
    <2>1. ASSUME NEW f \in Fractions, EvaluateMimo(f) PROVE GuardInv'
      <3>1. Sound(Result(f, "veto", 0, 0, 0))
        BY <2>0, ResultOfAll
      <3>2. guardStats' \in [Counters -> Nat] /\ StatsAddUp'
        BY <2>1, CountedAddsUp DEF EvaluateMimo, GuardInv
      <3> QED BY <2>1, <3>1, <3>2 DEF EvaluateMimo, GuardInv, Sound
    <2>2. ASSUME NEW f \in Fractions, EvaluateOpen(f) PROVE GuardInv'
      <3>1. Sound(Result(f, "pass", 24 * f, 0, 0))
        BY <2>0, ResultOfAll
      <3>2. guardStats' \in [Counters -> Nat] /\ StatsAddUp'
        BY <2>2, CountedAddsUp DEF EvaluateOpen, GuardInv
      <3> QED BY <2>2, <3>1, <3>2 DEF EvaluateOpen, GuardInv, Sound
    <2>3. ASSUME NEW f \in Fractions, NEW s \in SUBSET {"price", "volume"}, NEW v \in SUBSET Heard(s),
                 Evaluate(f, s, v)
          PROVE  GuardInv'
      <3> DEFINE n == Cardinality(v)
                 total == Cardinality(Heard(s))
      <3>1. Heard(s) \subseteq Detectors /\ Heard(s) # {}
        BY <2>3 DEF Evaluate, GuardInv, Heard, Detectors
      <3>2. total \in 1 .. 4 /\ n \in 0 .. total
        BY <3>1, VotesCounted
      <3>3. Sound(Result(f, Decision(n, total), Adjusted(f, n, total), n, total))
        BY <2>0, <3>2, ResultOfGuard
      <3>4. Decision(n, total) \in {"pass", "reduce", "veto", "mimo"}
        BY DEF Decision
      <3>5. result' = Result(f, Decision(n, total), Adjusted(f, n, total), n, total)
            /\ guardStats' = Counted({"evaluations", Decision(n, total)})
            /\ UNCHANGED <<guarded, fitted, detectors, disk>>
        BY <2>3 DEF Evaluate
      <3>6. guardStats' \in [Counters -> Nat] /\ StatsAddUp'
        BY <3>4, <3>5, CountedAddsUp DEF GuardInv
      <3> QED BY <3>3, <3>5, <3>6 DEF GuardInv, Sound
    <2>4. ASSUME NEW f \in Fractions, NEW s \in SUBSET {"price", "volume"}, NEW v \in SUBSET Heard(s),
                 AdjustPositionSize(f, s, v)
          PROVE  GuardInv'
      <3> DEFINE n == Cardinality(v)
                 total == Cardinality(Heard(s))
                 agreed == total > 0 /\ Majority(n, total)
                 r == Result(f, IF agreed THEN "reduce" ELSE "pass",
                             IF agreed THEN f * Multiplier(n, total) ELSE 24 * f, n, total)
      <3>1. Heard(s) \subseteq Detectors
        BY DEF GuardInv, Heard, Detectors
      <3>2. total \in 0 .. 4 /\ n \in 0 .. total
        BY <3>1, VotesCounted
      <3>3. ~guarded /\ agreed \in BOOLEAN /\ (agreed => total > 0)
        BY <2>4 DEF AdjustPositionSize
      <3>4. Sound(r)
        <4> HIDE DEF n, total, agreed
        <4> QED BY <2>0, <3>2, <3>3, ResultAlone
      <3>5. result' = r /\ guardStats' = Counted({"evaluations"}) /\ UNCHANGED <<guarded, fitted, detectors, disk>>
        BY <2>4 DEF AdjustPositionSize
      <3>6. guardStats' \in [Counters -> Nat]
        BY <3>5 DEF GuardInv, Counted
      <3> HIDE DEF r
      <3> QED BY <3>3, <3>4, <3>5, <3>6 DEF GuardInv, Sound, StatsAddUp
    <2>5. CASE Fit \/ FitFails \/ UpdateMimoVeto \/ SaveDetectors \/ LoadDetectors
      <3>1. UNCHANGED <<guarded, guardStats, result>>
        BY <2>5 DEF Fit, FitFails, UpdateMimoVeto, SaveDetectors, LoadDetectors
      <3>2. detectors' \subseteq {"forest", "autoencoder"} /\ (disk' = NoResult \/ disk' \subseteq {"forest"})
            /\ (guarded' /\ fitted' => detectors' = {"forest"})
        <4>1. CASE Fit
          BY <4>1 DEF Fit, GuardInv
        <4>2. CASE FitFails
          BY <4>2 DEF FitFails, GuardInv
        <4>3. CASE UpdateMimoVeto
          BY <4>3 DEF UpdateMimoVeto, GuardInv
        <4>4. CASE SaveDetectors
          BY <4>4 DEF SaveDetectors, GuardInv
        <4>5. CASE LoadDetectors
          BY <4>5 DEF LoadDetectors, GuardInv
        <4> QED BY <2>5, <4>1, <4>2, <4>3, <4>4, <4>5
      <3> QED BY <3>1, <3>2 DEF GuardInv, Sound, StatsAddUp, Evaluations
    <2>6. CASE UNCHANGED guardVars
      BY <2>6 DEF guardVars, GuardInv, Sound, StatsAddUp, Evaluations
    <2> QED BY <2>1, <2>2, <2>3, <2>4, <2>5, <2>6 DEF GuardNext
  <1>3. GuardInv => GuardSound
    BY DEF GuardInv, Sound, GuardSound, NeverLarger, MoreVotesLessTrade, OneDetectorIsAVeto
  <1> QED BY <1>1, <1>2, <1>3, PTL DEF GuardSpec

-----------------------------------------------------------------------------
(* What the alert channels keep is of its kind: times on the clock for the  *)
(* throttle and its file, a counter for the webhook.                        *)
AlertsTyped ==
  /\ clock \in 0 .. MaxClock
  /\ files = [throttle |-> files.throttle, acks |-> files.acks]
  /\ files.throttle \in {Empty} \cup [AlertKeys -> 0 .. MaxClock]
  /\ server = [pc |-> server.pc, key |-> server.key, throttle |-> server.throttle, acks |-> server.acks]
  /\ server.pc \in {"down", "idle", "throttle", "create", "acks", "send", "event"}
  /\ server.key \in AlertKeys /\ server.throttle \in [AlertKeys -> 0 .. MaxClock]
  /\ told \in [AlertKeys -> [passed : SUBSET (0 .. MaxClock), forgotten : BOOLEAN, messages : Nat]]
  /\ issued = [tokens |-> issued.tokens, unseen |-> issued.unseen]
  /\ cli = [pc |-> cli.pc, acks |-> cli.acks] /\ cli.pc \in {"none", "loaded", "writing"}
  /\ hook = [pc |-> hook.pc, tries |-> hook.tries, got |-> hook.got] /\ hook.got \in Nat

(* For a key whose alerts are not forgotten: they are a cool-down apart, and *)
(* no later than the server's timestamp while it runs, nor than the file's   *)
(* unless it is being written.                                               *)
KeyRemembered(k) ==
  ~told[k].forgotten =>
    /\ \A a, b \in told[k].passed : a < b => b - a >= Cooldown
    /\ server.pc # "down" => \A a \in told[k].passed : a <= server.throttle[k]
    /\ server.pc # "throttle" => /\ files.throttle # Empty
                                 /\ \A a \in told[k].passed : a <= files.throttle[k]

(* The tokens that everybody could know of are with all who hold them: in   *)
(* the file, with the server while it runs, with a command line at work.    *)
Known == issued.tokens \ issued.unseen
TokensHeld ==
  /\ files.acks = Empty \/ Known \subseteq DOMAIN files.acks
  /\ server.pc # "down" => Known \subseteq DOMAIN server.acks
  /\ cli.pc # "none" => Known \subseteq DOMAIN cli.acks

AlertsInv ==
  AlertsTyped /\ (\A k \in AlertKeys : KeyRemembered(k)) /\ TokensHeld /\ PostedIsReceived

LEMMA AlertsInitially == AlertInit => AlertsInv
  <1> SUFFICES ASSUME AlertInit PROVE AlertsInv OBVIOUS
  <1> USE AlertsAssumption DEF AlertInit, AtRest, NeverSent, NoAcks
  <1>1. AlertsTyped
    <2>1. NeverSent \in [AlertKeys -> 0 .. MaxClock] OBVIOUS
    <2>2. server.key \in AlertKeys OBVIOUS
    <2> QED BY <2>1, <2>2 DEF AlertsTyped
  <1>2. \A k \in AlertKeys : KeyRemembered(k)
    BY <1>1 DEF AlertsTyped, KeyRemembered
  <1>3. TokensHeld
    BY DEF TokensHeld, Known
  <1>4. PostedIsReceived
    BY DEF PostedIsReceived
  <1> QED BY <1>1, <1>2, <1>3, <1>4 DEF AlertsInv

(* The callback: the throttle lets an alert pass at the present time only if *)
(* the last one is a cool-down old.                                          *)
LEMMA AlertKeeps ==
  ASSUME AlertsInv, NEW k \in AlertKeys, Alert(k)
  PROVE  AlertsInv'
  <1> USE AlertsAssumption DEF AlertsInv
  <1>1. CASE ~Passes(server.throttle[k])
    <2>1. server' = [server EXCEPT !.pc = "event", !.key = k] /\ server.pc = "idle"
          /\ UNCHANGED <<clock, files, cli, hook, issued, told>>
      BY <1>1 DEF Alert
    <2>2. server'.pc = "event" /\ server'.key = k /\ server'.throttle = server.throttle /\ server'.acks = server.acks
      BY <2>1 DEF AlertsTyped
    <2>3. AlertsTyped' BY <2>1, <2>2 DEF AlertsTyped
    <2>4. \A m \in AlertKeys : KeyRemembered(m)' BY <2>1, <2>2 DEF KeyRemembered
    <2>5. TokensHeld' BY <2>1, <2>2 DEF TokensHeld, Known
    <2> QED BY <2>1, <2>3, <2>4, <2>5 DEF PostedIsReceived
  <1>2. CASE Passes(server.throttle[k])
    <2>1. /\ server' = [server EXCEPT !.pc = "throttle", !.key = k, !.throttle[k] = clock]
          /\ files' = [files EXCEPT !.throttle = Empty]
          /\ told' = [told EXCEPT ![k].passed = @ \cup {clock}]
          /\ server.pc = "idle" /\ UNCHANGED <<clock, cli, hook, issued>>
      BY <1>2 DEF Alert
    <2>2. server'.pc = "throttle" /\ server'.key = k /\ server'.throttle = [server.throttle EXCEPT ![k] = clock]
          /\ server'.acks = server.acks /\ files'.throttle = Empty /\ files'.acks = files.acks
      BY <2>1 DEF AlertsTyped
    <2>3. AlertsTyped'
      <3>1. server'.throttle \in [AlertKeys -> 0 .. MaxClock] BY <2>2 DEF AlertsTyped
      <3>2. told' \in [AlertKeys -> [passed : SUBSET (0 .. MaxClock), forgotten : BOOLEAN, messages : Nat]]
        BY <2>1 DEF AlertsTyped
      <3>3. server' = [pc |-> server'.pc, key |-> server'.key, throttle |-> server'.throttle, acks |-> server'.acks]
        BY <2>1 DEF AlertsTyped
      <3>4. files' = [throttle |-> files'.throttle, acks |-> files'.acks]
        BY <2>1 DEF AlertsTyped
      <3> QED BY <2>1, <2>2, <3>1, <3>2, <3>3, <3>4 DEF AlertsTyped
    <2>4. ASSUME NEW m \in AlertKeys PROVE KeyRemembered(m)'
      <3>1. CASE m # k
        <4>1. told'[m] = told[m] /\ server'.throttle[m] = server.throttle[m] BY <2>1, <2>2, <3>1 DEF AlertsTyped
        <4> QED BY <2>1, <2>2, <4>1 DEF KeyRemembered
      <3>2. CASE m = k
        <4>1. told'[m].passed = told[k].passed \cup {clock} /\ told'[m].forgotten = told[k].forgotten
              /\ server'.throttle[m] = clock
          BY <2>1, <2>2, <3>2 DEF AlertsTyped
        <4>2. SUFFICES ASSUME ~told[k].forgotten PROVE KeyRemembered(m)'
          BY <4>1 DEF KeyRemembered
        <4>3. \A a \in told[k].passed : a <= server.throttle[k] /\ a \in 0 .. MaxClock
          BY <2>1, <4>2 DEF KeyRemembered, AlertsTyped
        <4>4. server.throttle[k] \in 0 .. MaxClock /\ clock \in 0 .. MaxClock /\ clock - server.throttle[k] >= Cooldown
          BY <1>2 DEF AlertsTyped, Passes
        <4>5. \A a \in told[k].passed : clock - a >= Cooldown /\ a <= clock
          BY <4>3, <4>4
        <4>6. \A a, b \in told[k].passed : a < b => b - a >= Cooldown
          BY <4>2 DEF KeyRemembered
        <4>7. \A a, b \in told'[m].passed : a < b => b - a >= Cooldown
          BY <4>1, <4>3, <4>4, <4>5, <4>6
        <4>8. \A a \in told'[m].passed : a <= server'.throttle[m]
          BY <4>1, <4>4, <4>5
        <4> QED BY <2>2, <4>7, <4>8 DEF KeyRemembered
      <3> QED BY <3>1, <3>2
    <2>5. TokensHeld' BY <2>1, <2>2 DEF TokensHeld, Known
    <2> QED BY <2>1, <2>3, <2>4, <2>5 DEF PostedIsReceived
  <1> QED BY <1>1, <1>2

(* The server's steps between a passed alert and the last message of it.    *)
LEMMA ServerKeeps ==
  ASSUME AlertsInv, ThrottleSaved \/ CreateAck \/ NoAckWanted \/ SendThrottled \/ NotifyEvent
  PROVE  AlertsInv'
  <1> USE AlertsAssumption DEF AlertsInv
  <1>1. CASE ThrottleSaved
    <2>1. server.pc = "throttle" /\ files' = [files EXCEPT !.throttle = server.throttle]
          /\ server' = [server EXCEPT !.pc = "create"] /\ UNCHANGED <<clock, cli, hook, told, issued>>
      BY <1>1 DEF ThrottleSaved
    <2>2. server'.pc = "create" /\ server'.key = server.key /\ server'.throttle = server.throttle
          /\ server'.acks = server.acks /\ files'.throttle = server.throttle /\ files'.acks = files.acks
      BY <2>1 DEF AlertsTyped
    <2>3. AlertsTyped' BY <2>1, <2>2 DEF AlertsTyped
    <2>4. server.throttle # Empty BY DEF AlertsTyped
    <2>5. \A m \in AlertKeys : KeyRemembered(m)' BY <2>1, <2>2, <2>4 DEF KeyRemembered
    <2>6. TokensHeld' BY <2>1, <2>2 DEF TokensHeld, Known
    <2> QED BY <2>1, <2>3, <2>5, <2>6 DEF PostedIsReceived
  <1>2. CASE server.pc = "create" /\ CreateAck
    <2>1. PICK t : /\ server' = [server EXCEPT !.pc = "acks", !.acks = [u \in DOMAIN @ \cup {t} |-> IF u = t THEN "open" ELSE @[u]]]
                   /\ HandedOut(t) /\ files' = [files EXCEPT !.acks = Empty]
                   /\ UNCHANGED <<clock, cli, hook, told>>
      BY <1>2 DEF CreateAck
    <2>2. server'.pc = "acks" /\ server'.key = server.key /\ server'.throttle = server.throttle
          /\ DOMAIN server'.acks = DOMAIN server.acks \cup {t} /\ files'.throttle = files.throttle /\ files'.acks = Empty
      BY <2>1 DEF AlertsTyped
    <2>3. /\ issued' = [tokens |-> issued'.tokens, unseen |-> issued'.unseen]
          /\ Known' = IF cli.pc = "none" THEN (Known \cup {t}) \ issued.unseen ELSE Known \ {t}
      BY <2>1 DEF HandedOut, Known, AlertsTyped
    <2>4. AlertsTyped' 
      <3>1. server' = [pc |-> server'.pc, key |-> server'.key, throttle |-> server'.throttle, acks |-> server'.acks]
        BY <2>1 DEF AlertsTyped
      <3>2. files' = [throttle |-> files'.throttle, acks |-> files'.acks] BY <2>1 DEF AlertsTyped
      <3> QED BY <2>1, <2>2, <2>3, <3>1, <3>2 DEF AlertsTyped
    <2>5. \A m \in AlertKeys : KeyRemembered(m)' BY <1>2, <2>1, <2>2 DEF KeyRemembered
    <2>6. TokensHeld' 
      <3>1. Known \subseteq DOMAIN server.acks BY <1>2 DEF TokensHeld
      <3>2. cli.pc # "none" => Known' \subseteq DOMAIN cli.acks BY <2>3 DEF TokensHeld
      <3>3. Known' \subseteq DOMAIN server.acks \cup {t} BY <2>3, <3>1
      <3> QED BY <2>1, <2>2, <3>2, <3>3 DEF TokensHeld
    <2> QED BY <2>1, <2>4, <2>5, <2>6 DEF PostedIsReceived
  <1>3. CASE server.pc # "create" /\ CreateAck
    <2>1. /\ server.pc = "acks" /\ files' = [files EXCEPT !.acks = server.acks]
          /\ server' = [server EXCEPT !.pc = "send"] /\ UNCHANGED <<clock, cli, hook, told, issued>>
      BY <1>3 DEF CreateAck
    <2>2. server'.pc = "send" /\ server'.key = server.key /\ server'.throttle = server.throttle
          /\ server'.acks = server.acks /\ files'.throttle = files.throttle /\ files'.acks = server.acks
      BY <2>1 DEF AlertsTyped
    <2>3. AlertsTyped' BY <2>1, <2>2 DEF AlertsTyped
    <2>4. \A m \in AlertKeys : KeyRemembered(m)' BY <2>1, <2>2 DEF KeyRemembered
    <2>5. TokensHeld' BY <2>1, <2>2 DEF TokensHeld, Known
    <2> QED BY <2>1, <2>3, <2>4, <2>5 DEF PostedIsReceived
  <1>4. CASE NoAckWanted
    <2>1. server.pc = "create" /\ server' = [server EXCEPT !.pc = "send"] /\ UNCHANGED <<clock, files, cli, hook, told, issued>>
      BY <1>4 DEF NoAckWanted
    <2>2. server'.pc = "send" /\ server'.key = server.key /\ server'.throttle = server.throttle /\ server'.acks = server.acks
      BY <2>1 DEF AlertsTyped
    <2>3. AlertsTyped' BY <2>1, <2>2 DEF AlertsTyped
    <2>4. \A m \in AlertKeys : KeyRemembered(m)' BY <2>1, <2>2 DEF KeyRemembered
    <2>5. TokensHeld' BY <2>1, <2>2 DEF TokensHeld, Known
    <2> QED BY <2>1, <2>3, <2>4, <2>5 DEF PostedIsReceived
  <1>5. CASE SendThrottled \/ NotifyEvent
    <2>1. PICK next \in {"event", "idle"}, n \in {0, 1} :
             /\ server.pc \in {"send", "event"} /\ server' = [server EXCEPT !.pc = next]
             /\ told' = [told EXCEPT ![server.key].messages = IF @ < 2 THEN @ + n ELSE @]
             /\ UNCHANGED <<clock, files, cli, hook, issued>>
      BY <1>5 DEF SendThrottled, NotifyEvent, Sends
    <2>2. server'.pc = next /\ server'.key = server.key /\ server'.throttle = server.throttle /\ server'.acks = server.acks
      BY <2>1 DEF AlertsTyped
    <2>3. \A m \in AlertKeys : told'[m].passed = told[m].passed /\ told'[m].forgotten = told[m].forgotten
      BY <2>1 DEF AlertsTyped
    <2>4. told' \in [AlertKeys -> [passed : SUBSET (0 .. MaxClock), forgotten : BOOLEAN, messages : Nat]]
      BY <2>1 DEF AlertsTyped
    <2>5. AlertsTyped' BY <2>1, <2>2, <2>4 DEF AlertsTyped
    <2>6. \A m \in AlertKeys : KeyRemembered(m)' BY <2>1, <2>2, <2>3 DEF KeyRemembered
    <2>7. TokensHeld' BY <2>1, <2>2 DEF TokensHeld, Known
    <2> QED BY <2>1, <2>5, <2>6, <2>7 DEF PostedIsReceived
  <1> QED BY <1>1, <1>2, <1>3, <1>4, <1>5

(* A crash forgets the throttle if it met its writing, and the tokens if it *)
(* met theirs; a restart reads what is left.                                *)
LEMMA CrashKeeps ==
  ASSUME AlertsInv, Crash \/ Restart
  PROVE  AlertsInv'
  <1> USE AlertsAssumption DEF AlertsInv
  <1>0. /\ AtRest.key \in AlertKeys /\ AtRest.throttle = NeverSent /\ AtRest.acks = NoAcks
        /\ NeverSent \in [AlertKeys -> 0 .. MaxClock]
    BY DEF AtRest, NeverSent
  <1>1. CASE Crash
    <2>1. /\ server.pc # "down" /\ server' = [AtRest EXCEPT !.pc = "down"]
          /\ told' = [k \in AlertKeys |-> [told[k] EXCEPT !.forgotten = @ \/ server.pc = "throttle"]]
          /\ issued' = IF server.pc = "acks" THEN [issued EXCEPT !.unseen = issued.tokens] ELSE issued
          /\ UNCHANGED <<clock, files, cli, hook>>
      BY <1>1 DEF Crash
    <2>2. server'.pc = "down" /\ server'.key = AtRest.key /\ server'.throttle = NeverSent
          /\ server' = [pc |-> server'.pc, key |-> server'.key, throttle |-> server'.throttle, acks |-> server'.acks]
      BY <2>1, <1>0 DEF AtRest
    <2>3. told' \in [AlertKeys -> [passed : SUBSET (0 .. MaxClock), forgotten : BOOLEAN, messages : Nat]]
      <3>1. ASSUME NEW k \in AlertKeys
            PROVE  [told[k] EXCEPT !.forgotten = @ \/ server.pc = "throttle"]
                     \in [passed : SUBSET (0 .. MaxClock), forgotten : BOOLEAN, messages : Nat]
        <4>1. told[k] \in [passed : SUBSET (0 .. MaxClock), forgotten : BOOLEAN, messages : Nat] BY DEF AlertsTyped
        <4>2. (told[k].forgotten \/ server.pc = "throttle") \in BOOLEAN OBVIOUS
        <4> QED BY <4>1, <4>2
      <3> QED BY <2>1, <3>1
    <2>4. issued' = [tokens |-> issued'.tokens, unseen |-> issued'.unseen] /\ Known' \subseteq Known
      BY <2>1 DEF AlertsTyped, Known
    <2>5. AlertsTyped' BY <1>0, <2>1, <2>2, <2>3, <2>4 DEF AlertsTyped
    <2>6. ASSUME NEW k \in AlertKeys PROVE KeyRemembered(k)'
      <3>1. told'[k].passed = told[k].passed /\ (told'[k].forgotten <=> told[k].forgotten \/ server.pc = "throttle")
        <4>1. told'[k] = [told[k] EXCEPT !.forgotten = @ \/ server.pc = "throttle"] BY <2>1
        <4>2. told[k] \in [passed : SUBSET (0 .. MaxClock), forgotten : BOOLEAN, messages : Nat] BY DEF AlertsTyped
        <4> QED BY <4>1, <4>2
      <3> QED BY <2>1, <2>2, <3>1 DEF KeyRemembered
    <2>7. TokensHeld' BY <2>1, <2>2, <2>4 DEF TokensHeld
    <2> QED BY <2>1, <2>5, <2>6, <2>7 DEF PostedIsReceived
  <1>2. CASE Restart
    <2>1. /\ server.pc = "down"
          /\ server' = [AtRest EXCEPT !.throttle = Loaded(files.throttle, NeverSent), !.acks = Loaded(files.acks, NoAcks)]
          /\ issued' = IF files.acks = Empty THEN [issued EXCEPT !.unseen = issued.tokens] ELSE issued
          /\ UNCHANGED <<clock, files, cli, hook, told>>
      BY <1>2 DEF Restart
    <2>2. server'.pc = "idle" /\ server'.key = AtRest.key /\ server'.throttle = Loaded(files.throttle, NeverSent)
          /\ server'.acks = Loaded(files.acks, NoAcks)
          /\ server' = [pc |-> server'.pc, key |-> server'.key, throttle |-> server'.throttle, acks |-> server'.acks]
      BY <2>1 DEF AtRest
    <2>3. issued' = [tokens |-> issued'.tokens, unseen |-> issued'.unseen] /\ Known' \subseteq Known
          /\ (files.acks = Empty => Known' = {})
      BY <2>1 DEF AlertsTyped, Known
    <2>4. server'.throttle \in [AlertKeys -> 0 .. MaxClock]
      BY <1>0, <2>2 DEF Loaded, AlertsTyped
    <2>5. AlertsTyped' BY <1>0, <2>1, <2>2, <2>3, <2>4 DEF AlertsTyped
    <2>6. \A k \in AlertKeys : KeyRemembered(k)'
      BY <2>1, <2>2 DEF KeyRemembered, Loaded
    <2>7. TokensHeld' BY <2>1, <2>2, <2>3 DEF TokensHeld, Loaded
    <2> QED BY <2>1, <2>5, <2>6, <2>7 DEF PostedIsReceived
  <1> QED BY <1>1, <1>2

(* The command line, the webhook and the clock.                             *)
LEMMA OthersKeep ==
  ASSUME AlertsInv, AckCommand \/ Post \/ TickAlerts
  PROVE  AlertsInv'
  <1> USE AlertsAssumption DEF AlertsInv
  <1>1. CASE AckCommand
    <2>1. server' = server /\ clock' = clock /\ hook' = hook /\ told' = told /\ files'.throttle = files.throttle
          /\ files' = [throttle |-> files'.throttle, acks |-> files'.acks]
          /\ issued' = [tokens |-> issued'.tokens, unseen |-> issued'.unseen]
          /\ cli' = [pc |-> cli'.pc, acks |-> cli'.acks] /\ cli'.pc \in {"none", "loaded", "writing"}
      BY <1>1 DEF AckCommand, AlertsTyped
    <2>2. AlertsTyped' BY <2>1 DEF AlertsTyped
    <2>3. \A k \in AlertKeys : KeyRemembered(k)' BY <2>1 DEF KeyRemembered
    <2>4. Known' \subseteq Known BY <1>1 DEF AckCommand, Known, AlertsTyped
    <2>5. TokensHeld'
      <3>1. CASE cli.pc = "none"
        <4>1. /\ cli' = [pc |-> "loaded", acks |-> Loaded(files.acks, NoAcks)] /\ files' = files
              /\ issued' = IF files.acks = Empty THEN [issued EXCEPT !.unseen = issued.tokens] ELSE issued
          BY <1>1, <3>1 DEF AckCommand
        <4>2. files.acks = Empty => Known' = {} BY <4>1 DEF Known, AlertsTyped
        <4> QED BY <2>1, <2>4, <4>1, <4>2 DEF TokensHeld, Loaded
      <3>2. CASE cli.pc # "none"
        <4>1. Known \subseteq DOMAIN cli.acks BY <3>2 DEF TokensHeld
        <4>2. issued' = issued BY <1>1, <3>2 DEF AckCommand
        <4>3. DOMAIN cli'.acks = DOMAIN cli.acks \/ cli'.pc = "none" BY <1>1, <3>2 DEF AckCommand, AlertsTyped
        <4>4. files'.acks \in {Empty, files.acks, cli.acks} BY <1>1, <3>2 DEF AckCommand, AlertsTyped
        <4> QED BY <2>1, <2>4, <4>1, <4>2, <4>3, <4>4 DEF TokensHeld
      <3> QED BY <3>1, <3>2
    <2> QED BY <2>1, <2>2, <2>3, <2>5 DEF PostedIsReceived
  <1>2. CASE Post
    <2>1. UNCHANGED <<clock, files, server, cli, told, issued>> BY <1>2 DEF Post
    <2>2. hook' = [pc |-> hook'.pc, tries |-> hook'.tries, got |-> hook'.got] /\ hook'.got \in Nat
          /\ (hook'.pc = "TRUE" => hook'.got >= 1)
      BY <1>2 DEF Post, AlertsTyped, PostedIsReceived
    <2>3. AlertsTyped' BY <2>1, <2>2 DEF AlertsTyped
    <2>4. \A k \in AlertKeys : KeyRemembered(k)' BY <2>1 DEF KeyRemembered
    <2>5. TokensHeld' BY <2>1 DEF TokensHeld, Known
    <2> QED BY <2>2, <2>3, <2>4, <2>5 DEF PostedIsReceived
  <1>3. CASE TickAlerts
    <2>1. clock' \in 0 .. MaxClock /\ UNCHANGED <<files, server, cli, hook, told, issued>>
      BY <1>3 DEF TickAlerts, AlertsTyped
    <2>2. AlertsTyped' BY <2>1 DEF AlertsTyped
    <2>3. \A k \in AlertKeys : KeyRemembered(k)' BY <2>1 DEF KeyRemembered
    <2>4. TokensHeld' BY <2>1 DEF TokensHeld, Known
    <2> QED BY <2>1, <2>2, <2>3, <2>4 DEF PostedIsReceived
  <1> QED BY <1>1, <1>2, <1>3

(* Alerts of a key pass the throttle a cool-down apart across restarts, a   *)
(* token that everybody could know of is in the file, and the webhook       *)
(* reports success only for what was received.                              *)
THEOREM AlertsAreSound == AlertSpec => []AlertsSound
  <1>1. AlertInit => AlertsInv BY AlertsInitially
  <1>2. AlertsInv /\ [AlertNext]_alertVars => AlertsInv'
    <2> SUFFICES ASSUME AlertsInv, [AlertNext]_alertVars PROVE AlertsInv' OBVIOUS
    <2>1. CASE AlertNext BY <2>1, AlertKeeps, ServerKeeps, CrashKeeps, OthersKeep DEF AlertNext
    <2>2. CASE UNCHANGED alertVars
      BY <2>2 DEF alertVars, AlertsInv, AlertsTyped, KeyRemembered, TokensHeld, Known, PostedIsReceived
    <2> QED BY <2>1, <2>2
  <1>3. AlertsInv => AlertsSound
    BY DEF AlertsInv, AlertsSound, AlertsSpaced, AcksOnFile, KeyRemembered, TokensHeld, Known
  <1> QED BY <1>1, <1>2, <1>3, PTL DEF AlertSpec

-----------------------------------------------------------------------------
(* Latest first: an element comes after those kept at later places.         *)
Ahead(K, i) == Cardinality({j \in K : j > i})
LatestFirst(q, K) == [n \in 1 .. Cardinality(K) |-> q[CHOOSE i \in K : Ahead(K, i) = n - 1]]

LEMMA RankUnique ==
  ASSUME NEW K \in SUBSET Int, IsFiniteSet(K), NEW i \in K, NEW k \in K, Rank(K, i) = Rank(K, k)
  PROVE  i = k
  <1>1. i \in Int /\ k \in Int OBVIOUS
  <1>2. Rank(K, i) \in Int /\ Rank(K, k) \in Int
    <2>1. Rank(K, i) \in 0 .. Cardinality(K) - 1 BY RankInRange
    <2>2. Rank(K, k) \in 0 .. Cardinality(K) - 1 BY RankInRange
    <2> QED BY <2>1, <2>2
  <1>3. ASSUME i < k PROVE FALSE
    <2>1. Rank(K, i) < Rank(K, k) BY <1>3, RankGrows
    <2> QED BY <1>2, <2>1
  <1>4. ASSUME k < i PROVE FALSE
    <2>1. Rank(K, k) < Rank(K, i) BY <1>4, RankGrows
    <2> QED BY <1>2, <2>1
  <1> QED BY <1>1, <1>3, <1>4

(* Those before, those after and the element itself are all of them.        *)
LEMMA AheadIsTheRest ==
  ASSUME NEW K \in SUBSET Int, IsFiniteSet(K), NEW i \in K
  PROVE  /\ Cardinality(K) \in Nat /\ Rank(K, i) \in Nat
         /\ Ahead(K, i) \in Nat /\ Ahead(K, i) = Cardinality(K) - 1 - Rank(K, i)
  <1>a. PICK A : A = {j \in K : j < i} OBVIOUS
  <1>b. PICK B : B = {j \in K : j > i} OBVIOUS
  <1>0. i \in Int /\ \A j \in K : j \in Int /\ (j < i \/ j > i \/ j = i) /\ ~(j < i /\ j > i)
    OBVIOUS
  <1>1. A \cup B = K \ {i} /\ A \cap B = {} BY <1>0, <1>a, <1>b
  <1>2. A \in SUBSET K /\ B \in SUBSET K BY <1>a, <1>b
  <1>3. IsFiniteSet(A) BY <1>2, FS_Subset
  <1>4. IsFiniteSet(B) BY <1>2, FS_Subset
  <1>5. Cardinality(A \cup B) = Cardinality(A) + Cardinality(B) - Cardinality(A \cap B)
    BY <1>3, <1>4, FS_Union
  <1>6. Cardinality(K \ {i}) = Cardinality(K) - 1 BY FS_RemoveElement
  <1>7. Cardinality(A \cap B) = 0 BY <1>1, FS_EmptySet
  <1>8. Cardinality(A) \in Nat /\ Cardinality(B) \in Nat /\ Cardinality(K) \in Nat
    BY <1>3, <1>4, FS_CardinalityType
  <1>9. Rank(K, i) = Cardinality(A) /\ Ahead(K, i) = Cardinality(B) BY <1>a, <1>b DEF Rank, Ahead
  <1> QED BY <1>1, <1>5, <1>6, <1>7, <1>8, <1>9

LEMMA LatestFirstProperties ==
  ASSUME NEW S, NEW q \in Seq(S), NEW K \in SUBSET DOMAIN q
  PROVE  /\ Cardinality(K) \in Nat
         /\ LatestFirst(q, K) \in Seq(S) /\ Len(LatestFirst(q, K)) = Cardinality(K)
         /\ \A i \in K : Ahead(K, i) + 1 \in 1 .. Cardinality(K) /\ LatestFirst(q, K)[Ahead(K, i) + 1] = q[i]
  <1>1. DOMAIN q = 1 .. Len(q) /\ Len(q) \in Nat BY LenProperties
  <1>2. K \in SUBSET Int /\ IsFiniteSet(K)
    <2>1. IsFiniteSet(DOMAIN q) BY <1>1, FS_Interval
    <2> QED BY <1>1, <2>1, FS_Subset
  <1>3. Cardinality(K) \in Nat BY <1>2, FS_CardinalityType
  <1>a. \A i \in K : /\ Rank(K, i) \in Nat /\ Ahead(K, i) \in Nat
                     /\ Ahead(K, i) = Cardinality(K) - 1 - Rank(K, i)
    BY <1>2, AheadIsTheRest
  <1>4. ASSUME NEW n \in 1 .. Cardinality(K)
        PROVE  \E i \in K : Ahead(K, i) = n - 1 /\ LatestFirst(q, K)[n] = q[i]
    <2>m. PICK m : m = Cardinality(K) - n + 1 OBVIOUS
    <2>0. m \in 1 .. Cardinality(K) BY <1>3, <2>m
    <2>1. \E i \in K : Rank(K, i) = m - 1 BY <1>2, <2>0, RankTaken
    <2>2. \E i \in K : Ahead(K, i) = n - 1 BY <1>3, <1>a, <2>1, <2>m
    <2>p. PICK p : p = CHOOSE i \in K : Ahead(K, i) = n - 1 OBVIOUS
    <2>3. p \in K /\ Ahead(K, p) = n - 1 BY <2>2, <2>p
    <2>4. LatestFirst(q, K)[n] = q[p] BY <2>p DEF LatestFirst
    <2> QED BY <2>3, <2>4
  <1>5. ASSUME NEW n \in 1 .. Cardinality(K) PROVE LatestFirst(q, K)[n] \in S
    BY <1>1, <1>4, ElementOfSeq
  <1>6. LatestFirst(q, K) \in [1 .. Cardinality(K) -> S] BY <1>5 DEF LatestFirst
  <1>7. LatestFirst(q, K) \in Seq(S) /\ Len(LatestFirst(q, K)) = Cardinality(K) BY <1>3, <1>6
  <1>8. ASSUME NEW i \in K
        PROVE  Ahead(K, i) + 1 \in 1 .. Cardinality(K) /\ LatestFirst(q, K)[Ahead(K, i) + 1] = q[i]
    <2>r. PICK r : r = Ahead(K, i) + 1 OBVIOUS
    <2>0. Rank(K, i) \in Nat /\ Ahead(K, i) \in Nat /\ Ahead(K, i) = Cardinality(K) - 1 - Rank(K, i) BY <1>a
    <2>1. r \in 1 .. Cardinality(K) BY <1>3, <2>0, <2>r
    <2>2. PICK p \in K : Ahead(K, p) = r - 1 /\ LatestFirst(q, K)[r] = q[p] BY <1>4, <2>1
    <2>3. Ahead(K, p) = Ahead(K, i) BY <2>0, <2>2, <2>r
    <2>4. Rank(K, p) = Rank(K, i) BY <1>3, <1>a, <2>3
    <2>5. p = i BY <1>2, <2>4, RankUnique
    <2> QED BY <2>1, <2>2, <2>5, <2>r
  <1> QED BY <1>3, <1>7, <1>8

-----------------------------------------------------------------------------
(* The inbox. Notifications are numbered in the order of their creation. A  *)
(* user hears of a change of a signal from the emitter that saw it: either  *)
(* it has his notification or the emitter has him left. A reader's walk is  *)
(* past those of his notifications that have fewer newer ones than his      *)
(* offset, and has seen them.                                               *)
Note == [id : Nat, user : Readers, series : Series, key : Keys]
InBox(q, u) == {i \in DOMAIN q : q[i].user = u}
NotesHeard(q, u, s) == {i \in DOMAIN q : q[i].user = u /\ q[i].series = s}
Due(m, u, s) == {e \in Emitters : m[e].pc = "sending" /\ m[e].series = s /\ u \in ToSet(m[e].left)}

EmitterFine(t) ==
  /\ t.pc \in {"idle", "sending"} /\ t.left \in Seq(Readers) /\ IsInjective(t.left)
  /\ t.pc = "sending" => t.series \in Series /\ t.key \in Keys
InboxTyped ==
  /\ inbox \in Seq(Note) /\ posted \in Nat
  /\ online \in Seq(Readers) /\ IsInjective(online)
  /\ shown \in [Series -> Keys \cup {"none"}]
  /\ turned \in [Series -> [last : Keys \cup {"none"}, times : Nat]]
  /\ emitting \in [Emitters -> [pc : {"idle", "sending"}, series : Series \cup {"none"}, key : Keys \cup {"none"},
                                left : Seq(Readers)]]
  /\ \A e \in Emitters : EmitterFine(emitting[e])
Numbered(q, n) ==
  /\ \A i \in DOMAIN q : q[i].id \in 1 .. n
  /\ \A i, j \in DOMAIN q : i < j => q[i].id < q[j].id
NotesCounted == \A u \in Readers, s \in Series :
  Cardinality(NotesHeard(inbox, u, s)) + Cardinality(Due(emitting, u, s)) <= turned[s].times
WalkFine(p, q, n) ==
  /\ p.pc \in {"idle", "reading", "over"} /\ p.due \subseteq 1 .. n
  /\ p.pc = "reading" => p.offset \in Nat
  /\ \A i \in DOMAIN q : p.pc # "idle" /\ q[i].id \in p.due /\ q[i].id \notin p.seen =>
       p.pc = "reading" /\ q[i].user = p.user /\ Ahead(InBox(q, p.user), i) >= p.offset
InboxInv ==
  /\ InboxTyped /\ Numbered(inbox, posted)
  /\ \A s \in Series : turned[s].last = shown[s]
  /\ NotesCounted /\ WalkFine(paging, inbox, posted)

(* What is kept of a longer list: its last entries.                         *)
LEMMA KeptProperties ==
  ASSUME NEW S, NEW q \in Seq(S)
  PROVE  \E d \in Nat : /\ d <= Len(q) /\ Kept(q) \in Seq(S) /\ Len(Kept(q)) = Len(q) - d
                        /\ \A i \in 1 .. Len(q) - d : Kept(q)[i] = q[i + d]
  <1>0. Len(q) \in Nat /\ MaxQueueSize \in Nat \ {0} BY LenProperties, InboxAssumption
  <1>1. CASE ~(Len(q) > MaxQueueSize)
    <2>1. Kept(q) = q BY <1>1 DEF Kept
    <2>2. 0 \in Nat /\ 0 <= Len(q) /\ Len(q) = Len(q) - 0 /\ \A i \in 1 .. Len(q) - 0 : q[i] = q[i + 0] BY <1>0
    <2> QED BY <2>1, <2>2
  <1>2. CASE Len(q) > MaxQueueSize
    <2>d. PICK d : d = Len(q) - MaxQueueSize OBVIOUS
    <2>m. PICK m : m = Len(q) - MaxQueueSize + 1 OBVIOUS
    <2>1. d \in Nat /\ d <= Len(q) /\ m = d + 1 /\ m \in Int /\ m <= Len(q) BY <1>0, <1>2, <2>d, <2>m
    <2>2. Kept(q) = SubSeq(q, m, Len(q)) BY <1>2, <2>m DEF Kept
    <2>3. \A i \in m .. Len(q) : q[i] \in S
      <3> SUFFICES ASSUME NEW i \in m .. Len(q) PROVE q[i] \in S OBVIOUS
      <3>1. i \in 1 .. Len(q) BY <1>0, <2>1
      <3> QED BY <3>1, ElementOfSeq
    <2>4. /\ SubSeq(q, m, Len(q)) \in Seq(S)
          /\ Len(SubSeq(q, m, Len(q))) = (IF m <= Len(q) THEN Len(q) - m + 1 ELSE 0)
          /\ \A i \in 1 .. Len(q) - m + 1 : SubSeq(q, m, Len(q))[i] = q[m + i - 1]
      BY <1>0, <2>1, <2>3, SubSeqProperties
    <2>5. Len(Kept(q)) = Len(q) - d BY <1>0, <2>1, <2>2, <2>4
    <2>6. ASSUME NEW i \in 1 .. Len(q) - d PROVE Kept(q)[i] = q[i + d]
      <3>1. i \in 1 .. Len(q) - m + 1 /\ m + i - 1 = i + d BY <1>0, <2>1
      <3> QED BY <2>2, <2>4, <3>1
    <2> QED BY <2>1, <2>2, <2>4, <2>5, <2>6
  <1> QED BY <1>1, <1>2

(* The users served before a suspension are the first of those in line.     *)
LEMMA ServedProperties ==
  ASSUME NEW users \in Seq(Readers)
  PROVE  /\ Served(users) \in Seq(Readers) /\ Len(Served(users)) \in 0 .. Len(users)
         /\ \A i \in 1 .. Len(Served(users)) : Served(users)[i] = users[i]
  <1>0. Len(users) \in Nat /\ DOMAIN users = 1 .. Len(users) BY LenProperties
  <1>1. CASE ~\E i \in DOMAIN users : Suspends(users[i])
    <2>1. Served(users) = users BY <1>1 DEF Served
    <2> QED BY <1>0, <2>1
  <1>2. CASE \E i \in DOMAIN users : Suspends(users[i])
    <2>p. PICK p : p = CHOOSE i \in DOMAIN users : Suspends(users[i]) /\ \A j \in 1 .. i - 1 : ~Suspends(users[j])
      OBVIOUS
    <2>1. \E i \in DOMAIN users : Suspends(users[i]) /\ \A j \in 1 .. i - 1 : ~Suspends(users[j])
      <3> DEFINE Stops == {i \in Nat : i \in DOMAIN users /\ Suspends(users[i])}
      <3>1. Stops # {} /\ Stops \subseteq Nat BY <1>0, <1>2
      <3>2. \E i \in Stops : \A j \in Stops : i <= j
        <4> HIDE DEF Stops
        <4> QED BY <3>1, LeastNatural
      <3>3. PICK i \in Stops : \A j \in Stops : i <= j BY <3>2
      <3>4. ASSUME NEW j \in 1 .. i - 1 PROVE ~Suspends(users[j])
        <4>1. j \in DOMAIN users /\ j \in Nat /\ i \in Nat /\ ~(i <= j) BY <1>0, <3>3
        <4> QED BY <3>3, <4>1
      <3> QED BY <3>3, <3>4
    <2>2. p \in 1 .. Len(users) BY <1>0, <2>1, <2>p
    <2>3. Served(users) = SubSeq(users, 1, p) BY <1>2, <2>p DEF Served
    <2>4. \A i \in 1 .. p : users[i] \in Readers
      <3> SUFFICES ASSUME NEW i \in 1 .. p PROVE users[i] \in Readers OBVIOUS
      <3>1. i \in 1 .. Len(users) BY <1>0, <2>2
      <3> QED BY <3>1, ElementOfSeq
    <2>5. /\ SubSeq(users, 1, p) \in Seq(Readers)
          /\ Len(SubSeq(users, 1, p)) = (IF 1 <= p THEN p - 1 + 1 ELSE 0)
          /\ \A i \in 1 .. p - 1 + 1 : SubSeq(users, 1, p)[i] = users[1 + i - 1]
      BY <1>0, <2>2, <2>4, SubSeqProperties
    <2>6. Len(Served(users)) = p BY <1>0, <2>2, <2>3, <2>5
    <2>7. ASSUME NEW i \in 1 .. p PROVE Served(users)[i] = users[i]
      <3>1. i \in 1 .. p - 1 + 1 /\ 1 + i - 1 = i BY <1>0, <2>2
      <3> QED BY <2>3, <2>5, <3>1
    <2> QED BY <1>0, <2>2, <2>3, <2>5, <2>6, <2>7
  <1> QED BY <1>1, <1>2

(* The inbox after some more notifications: d of the old ones are dropped,  *)
(* the others move forward, and the new ones come after them.               *)
New(n, now, s, k) == [i \in DOMAIN now |-> [id |-> n + i, user |-> now[i], series |-> s, key |-> k]]
Moved(old, now, d, q, s) ==
  /\ \A i \in DOMAIN q : i + d \in DOMAIN old => q[i] = old[i + d]
  /\ \A j \in DOMAIN old : j > d => j - d \in DOMAIN q
  /\ \A i \in DOMAIN q : i + d \notin DOMAIN old =>
       i + d - Len(old) \in DOMAIN now /\ q[i].user = now[i + d - Len(old)] /\ q[i].series = s

LEMMA InboxGrows ==
  ASSUME NEW old \in Seq(Note), NEW n \in Nat, Numbered(old, n), NEW now \in Seq(Readers),
         NEW s \in Series, NEW k \in Keys, NEW q, q = Kept(old \o New(n, now, s, k))
  PROVE  /\ q \in Seq(Note) /\ Numbered(q, n + Len(now))
         /\ \E d \in Nat : /\ Moved(old, now, d, q, s)
                           /\ \A i \in DOMAIN q : q[i].id <= n => i + d \in DOMAIN old
  <1>new. PICK new : new = New(n, now, s, k) OBVIOUS
  <1>0. DOMAIN now = 1 .. Len(now) /\ Len(now) \in Nat /\ DOMAIN old = 1 .. Len(old) /\ Len(old) \in Nat
    BY LenProperties
  <1>1. new \in Seq(Note) /\ Len(new) = Len(now)
        /\ \A i \in 1 .. Len(now) : new[i].id = n + i /\ new[i].user = now[i] /\ new[i].series = s
    <2>1. ASSUME NEW i \in 1 .. Len(now) PROVE [id |-> n + i, user |-> now[i], series |-> s, key |-> k] \in Note
      <3>1. now[i] \in Readers /\ n + i \in Nat BY <1>0, ElementOfSeq
      <3> QED BY <3>1 DEF Note
    <2>2. new = [i \in 1 .. Len(now) |-> [id |-> n + i, user |-> now[i], series |-> s, key |-> k]]
      BY <1>0, <1>new DEF New
    <2>3. new \in [1 .. Len(now) -> Note] BY <2>1, <2>2
    <2>4. new \in Seq(Note) /\ Len(new) = Len(now) BY <1>0, <2>3
    <2> QED BY <2>2, <2>4
  <1>r. PICK r : r = old \o new OBVIOUS
  <1>2. r \in Seq(Note) /\ Len(r) = Len(old) + Len(now)
        /\ \A i \in 1 .. Len(old) + Len(now) : r[i] = IF i <= Len(old) THEN old[i] ELSE new[i - Len(old)]
    <2>0. new \in Seq(Note) BY <1>1
    <2>1. /\ old \o new \in Seq(Note) /\ Len(old \o new) = Len(old) + Len(new)
          /\ \A i \in 1 .. Len(old) + Len(new) : (old \o new)[i] = IF i <= Len(old) THEN old[i] ELSE new[i - Len(old)]
      BY <2>0, ConcatProperties
    <2>2. Len(new) = Len(now) BY <1>1
    <2> QED BY <1>r, <2>1, <2>2
  <1>3. PICK d \in Nat : /\ d <= Len(r) /\ Kept(r) \in Seq(Note) /\ Len(Kept(r)) = Len(r) - d
                         /\ \A i \in 1 .. Len(r) - d : Kept(r)[i] = r[i + d]
    BY <1>2, KeptProperties
  <1>4. q = Kept(r) BY <1>new, <1>r
  <1>5. q \in Seq(Note) /\ DOMAIN q = 1 .. (Len(old) + Len(now) - d) /\ d <= Len(old) + Len(now)
        /\ \A i \in DOMAIN q : q[i] = r[i + d]
    <2>1. DOMAIN q = 1 .. Len(q) BY <1>3, <1>4, LenProperties
    <2> QED BY <1>2, <1>3, <1>4, <2>1
  <1>6. ASSUME NEW i \in DOMAIN q, i + d <= Len(old)
        PROVE  i + d \in 1 .. Len(old) /\ q[i] = old[i + d]
    <2>1. i + d \in 1 .. Len(old) + Len(now) /\ i + d \in 1 .. Len(old) BY <1>0, <1>3, <1>5, <1>6
    <2> QED BY <1>2, <1>5, <1>6, <2>1
  <1>7. ASSUME NEW i \in DOMAIN q, ~(i + d <= Len(old))
        PROVE  /\ i + d - Len(old) \in 1 .. Len(now) /\ q[i].id = n + (i + d - Len(old))
               /\ q[i].user = now[i + d - Len(old)] /\ q[i].series = s
    <2>p. PICK p : p = i + d - Len(old) OBVIOUS
    <2>1. i + d \in 1 .. Len(old) + Len(now) /\ p \in 1 .. Len(now) BY <1>0, <1>3, <1>5, <1>7, <2>p
    <2>2. q[i] = new[p] BY <1>2, <1>5, <1>7, <2>1, <2>p
    <2> QED BY <1>1, <2>1, <2>2, <2>p
  <1>8. \A i \in DOMAIN old : old[i].id \in 1 .. n BY DEF Numbered
  <1>9. \A i, j \in DOMAIN old : i < j => old[i].id < old[j].id BY DEF Numbered
  <1>10. ASSUME NEW i \in DOMAIN q
         PROVE  /\ i + d <= Len(old) => i + d \in DOMAIN old /\ q[i].id \in 1 .. n
                /\ ~(i + d <= Len(old)) => q[i].id \in n + 1 .. n + Len(now)
    <2>1. ASSUME i + d <= Len(old) PROVE i + d \in DOMAIN old /\ q[i].id \in 1 .. n
      <3>1. i + d \in DOMAIN old /\ q[i] = old[i + d] BY <1>0, <1>6, <2>1
      <3> QED BY <1>8, <3>1
    <2>2. ASSUME ~(i + d <= Len(old)) PROVE q[i].id \in n + 1 .. n + Len(now)
      <3>1. q[i].id = n + (i + d - Len(old)) /\ i + d - Len(old) \in 1 .. Len(now) BY <1>7, <2>2
      <3> QED BY <1>0, <3>1
    <2> QED BY <2>1, <2>2
  <1>11. ASSUME NEW i \in DOMAIN q, NEW j \in DOMAIN q, i < j PROVE q[i].id < q[j].id
    <2>0. i \in Int /\ j \in Int BY <1>5
    <2>1. CASE j + d <= Len(old)
      <3>0. i + d <= Len(old) /\ i + d < j + d BY <1>0, <1>3, <1>11, <2>0, <2>1
      <3>1. q[i] = old[i + d] /\ i + d \in DOMAIN old BY <1>0, <1>6, <3>0
      <3>2. q[j] = old[j + d] /\ j + d \in DOMAIN old BY <1>0, <1>6, <2>1
      <3> QED BY <1>9, <3>0, <3>1, <3>2
    <2>2. CASE ~(j + d <= Len(old)) /\ i + d <= Len(old)
      <3>1. q[j].id \in n + 1 .. n + Len(now) BY <1>10, <2>2
      <3>2. q[i].id \in 1 .. n BY <1>10, <2>2
      <3> QED BY <1>0, <3>1, <3>2
    <2>3. CASE ~(j + d <= Len(old)) /\ ~(i + d <= Len(old))
      <3>1. q[j].id = n + (j + d - Len(old)) BY <1>7, <2>3
      <3>2. q[i].id = n + (i + d - Len(old)) BY <1>7, <2>3
      <3> QED BY <1>0, <1>11, <2>0, <3>1, <3>2
    <2> QED BY <2>1, <2>2, <2>3
  <1>12. ASSUME NEW i \in DOMAIN q PROVE q[i].id \in 1 .. n + Len(now)
    BY <1>0, <1>10
  <1>13. Numbered(q, n + Len(now)) BY <1>11, <1>12 DEF Numbered
  <1>14. Moved(old, now, d, q, s)
    <2>1. ASSUME NEW i \in DOMAIN q, i + d \in DOMAIN old PROVE q[i] = old[i + d]
      <3>1. i + d <= Len(old) BY <1>0, <2>1
      <3> QED BY <1>6, <3>1
    <2>2. ASSUME NEW j \in DOMAIN old, j > d PROVE j - d \in DOMAIN q BY <1>0, <1>3, <1>5, <2>2
    <2>3. ASSUME NEW i \in DOMAIN q, i + d \notin DOMAIN old
          PROVE i + d - Len(old) \in DOMAIN now /\ q[i].user = now[i + d - Len(old)] /\ q[i].series = s
      <3>1. ~(i + d <= Len(old)) BY <1>10, <2>3
      <3> QED BY <1>0, <1>7, <3>1
    <2> QED BY <2>1, <2>2, <2>3 DEF Moved
  <1>15. ASSUME NEW i \in DOMAIN q, q[i].id <= n PROVE i + d \in DOMAIN old
    <2>1. i + d <= Len(old)
      <3>1. SUFFICES ASSUME ~(i + d <= Len(old)) PROVE FALSE OBVIOUS
      <3>2. q[i].id \in n + 1 .. n + Len(now) BY <1>10, <3>1
      <3> QED BY <1>0, <1>15, <3>2
    <2> QED BY <1>10, <2>1
  <1> QED BY <1>5, <1>13, <1>14, <1>15

(* Of a series a user has at most one more, and only if he was served.      *)
LEMMA HeardGrows ==
  ASSUME NEW old \in Seq(Note), NEW q \in Seq(Note), NEW now \in Seq(Readers), IsInjective(now),
         NEW s, NEW d \in Nat, Moved(old, now, d, q, s), NEW u, NEW x
  PROVE  /\ Cardinality(NotesHeard(old, u, x)) \in Nat /\ Cardinality(NotesHeard(q, u, x)) \in Nat
         /\ Cardinality(NotesHeard(q, u, x)) <=
              Cardinality(NotesHeard(old, u, x)) + (IF x = s /\ u \in ToSet(now) THEN 1 ELSE 0)
  <1>0. DOMAIN q = 1 .. Len(q) /\ Len(q) \in Nat /\ DOMAIN old = 1 .. Len(old) /\ Len(old) \in Nat
        /\ DOMAIN now = 1 .. Len(now) /\ Len(now) \in Nat
    BY LenProperties
  <1>h. PICK H : H = NotesHeard(old, u, x) OBVIOUS
  <1>g. PICK G : G = NotesHeard(q, u, x) OBVIOUS
  <1>p. PICK p : p = Len(old) + CHOOSE j \in DOMAIN now : now[j] = u OBVIOUS
  <1>1. IsFiniteSet(DOMAIN old) /\ IsFiniteSet(DOMAIN q) BY <1>0, FS_Interval
  <1>2. H \in SUBSET DOMAIN old /\ G \in SUBSET DOMAIN q BY <1>g, <1>h DEF NotesHeard
  <1>3. IsFiniteSet(H) BY <1>1, <1>2, FS_Subset
  <1>4. IsFiniteSet(G) BY <1>1, <1>2, FS_Subset
  <1>5. Cardinality(H) \in Nat /\ Cardinality(G) \in Nat BY <1>3, <1>4, FS_CardinalityType
  <1>T. PICK T : T = IF x = s /\ u \in ToSet(now) THEN H \cup {p} ELSE H OBVIOUS
  <1>6. IsFiniteSet(T) /\ Cardinality(T) \in Nat
        /\ Cardinality(T) <= Cardinality(H) + (IF x = s /\ u \in ToSet(now) THEN 1 ELSE 0)
    <2>1. IsFiniteSet(H \cup {p}) /\ Cardinality(H \cup {p}) = IF p \in H THEN Cardinality(H) ELSE Cardinality(H) + 1
      BY <1>3, FS_AddElement
    <2>2. IsFiniteSet(T) BY <1>3, <1>T, <2>1
    <2>3. Cardinality(T) \in Nat BY <2>2, FS_CardinalityType
    <2> QED BY <1>5, <1>T, <2>1, <2>2, <2>3
  <1>7. ASSUME NEW i \in G PROVE i + d \in T
    <2>1. i \in DOMAIN q /\ q[i].user = u /\ q[i].series = x BY <1>g DEF NotesHeard
    <2>2. CASE i + d \in DOMAIN old
      <3>1. q[i] = old[i + d] BY <2>1, <2>2 DEF Moved
      <3> QED BY <1>h, <1>T, <2>1, <2>2, <3>1 DEF NotesHeard
    <2>3. CASE i + d \notin DOMAIN old
      <3>j. PICK j : j = i + d - Len(old) OBVIOUS
      <3>1. j \in DOMAIN now /\ now[j] = u /\ x = s BY <2>1, <2>3, <3>j DEF Moved
      <3>c. PICK c : c = CHOOSE m \in DOMAIN now : now[m] = u OBVIOUS
      <3>2. c \in DOMAIN now /\ now[c] = u BY <3>1, <3>c
      <3>3. c = j BY <3>1, <3>2 DEF IsInjective
      <3>p. p = Len(old) + j BY <1>p, <3>3, <3>c
      <3>4. i + d = p
        <4>1. i \in Int /\ Len(old) \in Int BY <1>0, <2>1
        <4> QED BY <3>j, <3>p, <4>1
      <3>5. u \in ToSet(now) BY <3>1 DEF ToSet
      <3> QED BY <1>T, <3>1, <3>4, <3>5
    <2> QED BY <2>2, <2>3
  <1>f. PICK f : f = [i \in G |-> i + d] OBVIOUS
  <1>8. f \in [G -> T] BY <1>7, <1>f
  <1>9. ASSUME NEW i \in G, NEW j \in G, f[i] = f[j] PROVE i = j
    <2>1. i \in Int /\ j \in Int BY <1>0, <1>2
    <2>2. i + d = j + d BY <1>9, <1>f
    <2> QED BY <2>1, <2>2
  <1>10. f \in Injection(G, T) BY <1>8, <1>9 DEF Injection, IsInjective
  <1>11. Cardinality(G) <= Cardinality(T) BY <1>6, <1>10, FS_Injection
  <1> QED BY <1>5, <1>6, <1>11, <1>g, <1>h

(* A reader's walk is as far as it was: those ahead of an entry stay ahead.  *)
LEMMA WalkGrows ==
  ASSUME NEW old \in Seq(Note), NEW q \in Seq(Note), NEW now, NEW s, NEW d \in Nat, Moved(old, now, d, q, s),
         NEW n \in Nat, NEW m \in Nat, n <= m, \A i \in DOMAIN q : q[i].id <= n => i + d \in DOMAIN old,
         NEW p, WalkFine(p, old, n)
  PROVE  WalkFine(p, q, m)
  <1>0. DOMAIN q = 1 .. Len(q) /\ Len(q) \in Nat /\ DOMAIN old = 1 .. Len(old) /\ Len(old) \in Nat
    BY LenProperties
  <1>1. p.pc \in {"idle", "reading", "over"} /\ p.due \subseteq 1 .. n /\ (p.pc = "reading" => p.offset \in Nat)
    BY DEF WalkFine
  <1>2. p.due \subseteq 1 .. m BY <1>1
  <1>3. ASSUME NEW i \in DOMAIN q, p.pc # "idle", q[i].id \in p.due, q[i].id \notin p.seen
        PROVE  p.pc = "reading" /\ q[i].user = p.user /\ Ahead(InBox(q, p.user), i) >= p.offset
    <2>1. q[i].id <= n BY <1>1, <1>3
    <2>2. i + d \in DOMAIN old /\ q[i] = old[i + d] BY <2>1 DEF Moved
    <2>3. p.pc = "reading" /\ old[i + d].user = p.user /\ Ahead(InBox(old, p.user), i + d) >= p.offset
      BY <1>3, <2>2 DEF WalkFine
    <2>a. PICK A : A = {j \in InBox(old, p.user) : j > i + d} OBVIOUS
    <2>b. PICK B : B = {j \in InBox(q, p.user) : j > i} OBVIOUS
    <2>f. PICK f : f = [j \in A |-> j - d] OBVIOUS
    <2>4. ASSUME NEW j \in A PROVE j - d \in B
      <3>1. j \in DOMAIN old /\ old[j].user = p.user /\ j > i + d BY <2>a DEF InBox
      <3>2. j \in Nat /\ i \in Nat /\ j > d BY <1>0, <3>1
      <3>3. j - d \in DOMAIN q BY <3>1, <3>2 DEF Moved
      <3>4. (j - d) + d = j /\ j - d > i BY <3>1, <3>2
      <3>5. q[j - d] = old[(j - d) + d] BY <3>1, <3>3, <3>4 DEF Moved
      <3> QED BY <2>b, <3>1, <3>3, <3>4, <3>5 DEF InBox
    <2>5. f \in [A -> B] BY <2>4, <2>f
    <2>6. ASSUME NEW j \in A, NEW k \in A, f[j] = f[k] PROVE j = k
      <3>1. j \in Int /\ k \in Int BY <1>0, <2>a DEF InBox
      <3>2. j - d = k - d BY <2>6, <2>f
      <3> QED BY <3>1, <3>2
    <2>7. f \in Injection(A, B) BY <2>5, <2>6 DEF Injection, IsInjective
    <2>8. IsFiniteSet(B)
      <3>1. B \in SUBSET DOMAIN q BY <2>b DEF InBox
      <3>2. IsFiniteSet(DOMAIN q) BY <1>0, FS_Interval
      <3> QED BY <3>1, <3>2, FS_Subset
    <2>9. IsFiniteSet(A) /\ Cardinality(A) <= Cardinality(B) BY <2>7, <2>8, FS_Injection
    <2>10. Cardinality(A) \in Nat /\ Cardinality(B) \in Nat BY <2>8, <2>9, FS_CardinalityType
    <2>11. Ahead(InBox(old, p.user), i + d) = Cardinality(A) /\ Ahead(InBox(q, p.user), i) = Cardinality(B)
      BY <2>a, <2>b DEF Ahead
    <2> QED BY <1>1, <2>2, <2>3, <2>9, <2>10, <2>11
  <1> QED BY <1>1, <1>2, <1>3 DEF WalkFine

(* What Notify does: it serves some of the users, at most once each, and    *)
(* has only others left.                                                    *)
Emission == [pc : {"idle", "sending"}, series : Series \cup {"none"}, key : Keys \cup {"none"}, left : Seq(Readers)]
Effect(e, s, users, q, m) ==
  \E N \in SUBSET ToSet(users), r \in Emission :
    /\ \A u \in Readers, x \in Series :
         /\ Cardinality(NotesHeard(inbox, u, x)) \in Nat /\ Cardinality(NotesHeard(q, u, x)) \in Nat
         /\ Cardinality(NotesHeard(q, u, x)) <= Cardinality(NotesHeard(inbox, u, x)) + (IF x = s /\ u \in N THEN 1 ELSE 0)
    /\ m = [emitting EXCEPT ![e] = r] /\ EmitterFine(r)
    /\ r.pc = "sending" => r.series = s /\ ToSet(r.left) \subseteq ToSet(users) \ N
LEMMA NotifyEffect ==
  ASSUME InboxInv, NEW e \in Emitters, NEW s \in Series, NEW k \in Keys, NEW users \in Seq(Readers),
         IsInjective(users), Notify(e, s, k, users)
  PROVE  /\ inbox' \in Seq(Note) /\ posted' \in Nat /\ Numbered(inbox', posted') /\ WalkFine(paging, inbox', posted')
         /\ Effect(e, s, users, inbox', emitting')
  <1>t. inbox \in Seq(Note) /\ posted \in Nat /\ Numbered(inbox, posted) /\ WalkFine(paging, inbox, posted)
    BY DEF InboxInv, InboxTyped
  <1>n. PICK now : now = Served(users) OBVIOUS
  <1>l. Len(users) \in Nat /\ DOMAIN users = 1 .. Len(users) BY LenProperties
  <1>1. now \in Seq(Readers) /\ Len(now) \in 0 .. Len(users) /\ DOMAIN now = 1 .. Len(now)
        /\ \A i \in 1 .. Len(now) : now[i] = users[i]
    <2>1. /\ Served(users) \in Seq(Readers) /\ Len(Served(users)) \in 0 .. Len(users)
          /\ \A i \in 1 .. Len(Served(users)) : Served(users)[i] = users[i]
      BY ServedProperties
    <2>2. now \in Seq(Readers) BY <1>n, <2>1
    <2>3. DOMAIN now = 1 .. Len(now) BY <2>2, LenProperties
    <2> QED BY <1>n, <2>1, <2>3
  <1>i. \A i, j \in 1 .. Len(users) : users[i] = users[j] => i = j BY <1>l DEF IsInjective
  <1>2. IsInjective(now)
    <2>1. \A i \in 1 .. Len(now) : i \in 1 .. Len(users) BY <1>1, <1>l
    <2> QED BY <1>1, <1>i, <2>1 DEF IsInjective
  <1>q. PICK q : q = Kept(inbox \o New(posted, now, s, k)) OBVIOUS
  <1>3. inbox' = q /\ posted' = posted + Len(now) BY <1>n, <1>q DEF Notify, New
  <1>4. /\ q \in Seq(Note) /\ Numbered(q, posted + Len(now))
        /\ \E d \in Nat : Moved(inbox, now, d, q, s) /\ \A i \in DOMAIN q : q[i].id <= posted => i + d \in DOMAIN inbox
    BY <1>t, <1>1, <1>q, InboxGrows
  <1>5. PICK d \in Nat : Moved(inbox, now, d, q, s) /\ \A i \in DOMAIN q : q[i].id <= posted => i + d \in DOMAIN inbox
    BY <1>4
  <1>6. posted + Len(now) \in Nat /\ posted <= posted + Len(now) BY <1>t, <1>1, <1>l
  <1>7. WalkFine(paging, q, posted + Len(now)) BY <1>t, <1>4, <1>5, <1>6, WalkGrows
  <1>8. ASSUME NEW u \in Readers, NEW x \in Series
        PROVE  /\ Cardinality(NotesHeard(inbox, u, x)) \in Nat /\ Cardinality(NotesHeard(q, u, x)) \in Nat
               /\ Cardinality(NotesHeard(q, u, x)) <=
                    Cardinality(NotesHeard(inbox, u, x)) + (IF x = s /\ u \in ToSet(now) THEN 1 ELSE 0)
    BY <1>t, <1>1, <1>2, <1>4, <1>5, HeardGrows
  <1>9. ToSet(now) \in SUBSET ToSet(users)
    <2>1. \A i \in 1 .. Len(now) : i \in 1 .. Len(users) BY <1>1, <1>l
    <2> QED BY <1>1, <1>l, <2>1 DEF ToSet
  <1>f. PICK left : left = SubSeq(users, Len(now) + 1, Len(users)) OBVIOUS
  <1>10. /\ left \in Seq(Readers) /\ DOMAIN left = 1 .. Len(users) - Len(now)
         /\ \A i \in 1 .. Len(users) - Len(now) : left[i] = users[i + Len(now)]
    <2>m. PICK m : m = Len(now) + 1 OBVIOUS
    <2>0. m \in Int /\ m >= 1 /\ Len(users) - m + 1 = Len(users) - Len(now) /\ Len(now) \in Nat BY <1>1, <1>l, <2>m
    <2>1. \A i \in m .. Len(users) : users[i] \in Readers
      <3> SUFFICES ASSUME NEW i \in m .. Len(users) PROVE users[i] \in Readers OBVIOUS
      <3>1. i \in 1 .. Len(users) BY <1>l, <2>0
      <3> QED BY <3>1, ElementOfSeq
    <2>2. /\ SubSeq(users, m, Len(users)) \in Seq(Readers)
          /\ Len(SubSeq(users, m, Len(users))) = (IF m <= Len(users) THEN Len(users) - m + 1 ELSE 0)
          /\ \A i \in 1 .. Len(users) - m + 1 : SubSeq(users, m, Len(users))[i] = users[m + i - 1]
      BY <1>l, <2>0, <2>1, SubSeqProperties
    <2>l. left = SubSeq(users, m, Len(users)) BY <1>f, <2>m
    <2>i. Len(left) = (IF m <= Len(users) THEN Len(users) - m + 1 ELSE 0) /\ left \in Seq(Readers) BY <2>2, <2>l
    <2>j. (IF m <= Len(users) THEN Len(users) - m + 1 ELSE 0) = Len(users) - Len(now)
      <3>1. Len(now) \in Int /\ Len(users) \in Int /\ Len(now) <= Len(users) BY <1>1, <1>l
      <3>2. CASE Len(now) < Len(users)
        <4>1. m <= Len(users) /\ Len(users) - m + 1 = Len(users) - Len(now) BY <2>m, <3>1, <3>2
        <4> QED BY <4>1
      <3>3. CASE Len(now) = Len(users)
        <4>1. ~(m <= Len(users)) /\ Len(users) - Len(now) = 0 BY <2>m, <3>1, <3>3
        <4> QED BY <4>1
      <3> QED BY <3>1, <3>2, <3>3
    <2>3. Len(left) = Len(users) - Len(now) /\ left \in Seq(Readers) BY <2>i, <2>j
    <2>4. DOMAIN left = 1 .. Len(users) - Len(now) BY <2>3, LenProperties
    <2>5. ASSUME NEW i \in 1 .. Len(users) - Len(now) PROVE left[i] = users[i + Len(now)]
      <3>1. i \in 1 .. Len(users) - m + 1 /\ m + i - 1 = i + Len(now) BY <1>l, <2>0, <2>m
      <3> QED BY <1>f, <2>2, <2>m, <3>1
    <2> QED BY <2>3, <2>4, <2>5
  <1>11. ASSUME NEW i \in DOMAIN left PROVE i \in Nat /\ i + Len(now) \in 1 .. Len(users)
                                            /\ i + Len(now) \notin 1 .. Len(now) /\ left[i] = users[i + Len(now)]
    BY <1>1, <1>l, <1>10
  <1>12. IsInjective(left)
    <2>1. ASSUME NEW i \in DOMAIN left, NEW j \in DOMAIN left, left[i] = left[j] PROVE i = j
      <3>1. i + Len(now) = j + Len(now) BY <1>i, <1>11, <2>1
      <3> QED BY <1>1, <1>l, <1>11, <3>1
    <2> QED BY <2>1 DEF IsInjective
  <1>13. ToSet(left) \subseteq ToSet(users) \ ToSet(now)
    <2>1. ASSUME NEW i \in DOMAIN left PROVE left[i] \in ToSet(users) /\ left[i] \notin ToSet(now)
      <3>1. left[i] \in ToSet(users) BY <1>l, <1>11 DEF ToSet
      <3>2. ASSUME NEW j \in DOMAIN now, now[j] = left[i] PROVE FALSE
        <4>1. j \in 1 .. Len(users) /\ users[j] = users[i + Len(now)] BY <1>1, <1>l, <1>11, <3>2
        <4>2. j = i + Len(now) BY <1>i, <1>11, <4>1
        <4> QED BY <1>1, <1>11, <4>2
      <3> QED BY <3>1, <3>2 DEF ToSet
    <2> QED BY <2>1 DEF ToSet
  <1>r. PICK r : r = IF now # <<>> /\ Suspends(now[Len(now)])
                     THEN [pc |-> "sending", series |-> s, key |-> k, left |-> left] ELSE NothingLeft
    OBVIOUS
  <1>14. emitting' = [emitting EXCEPT ![e] = r] BY <1>n, <1>f, <1>r DEF Notify
  <1>15. <<>> \in Seq(Readers) /\ IsInjective(<<>>)
    <2>1. <<>> \in Seq(Readers) /\ Len(<<>>) = 0 BY EmptySeq
    <2>2. DOMAIN <<>> = 1 .. 0 BY <2>1, LenProperties
    <2> QED BY <2>1, <2>2 DEF IsInjective
  <1>16. r \in Emission /\ EmitterFine(r)
         /\ (r.pc = "sending" => r.series = s /\ ToSet(r.left) \subseteq ToSet(users) \ ToSet(now))
    <2>1. CASE now # <<>> /\ Suspends(now[Len(now)])
      <3>1. r = [pc |-> "sending", series |-> s, key |-> k, left |-> left] BY <1>r, <2>1
      <3> QED BY <1>10, <1>12, <1>13, <3>1 DEF Emission, EmitterFine
    <2>2. CASE ~(now # <<>> /\ Suspends(now[Len(now)]))
      <3>1. r = [pc |-> "idle", series |-> "none", key |-> "none", left |-> <<>>] BY <1>r, <2>2 DEF NothingLeft
      <3> QED BY <1>15, <3>1 DEF Emission, EmitterFine
    <2> QED BY <2>1, <2>2
  <1>17. Effect(e, s, users, q, emitting') BY <1>8, <1>9, <1>14, <1>16 DEF Effect
  <1>18. inbox' \in Seq(Note) /\ posted' \in Nat /\ Numbered(inbox', posted') /\ WalkFine(paging, inbox', posted')
    BY <1>3, <1>4, <1>6, <1>7
  <1> QED BY <1>3, <1>17, <1>18

(* Those who have a user left, besides the emitter that goes on.            *)
LEMMA DueChanges ==
  ASSUME InboxInv, NEW e \in Emitters, NEW r \in Emission, emitting' = [emitting EXCEPT ![e] = r], NEW u, NEW x
  PROVE  /\ Cardinality(Due(emitting, u, x)) \in Nat /\ Cardinality(Due(emitting', u, x)) \in Nat
         /\ Cardinality(Due(emitting', u, x)) + (IF e \in Due(emitting, u, x) THEN 1 ELSE 0)
              = Cardinality(Due(emitting, u, x)) + (IF e \in Due(emitting', u, x) THEN 1 ELSE 0)
         /\ e \in Due(emitting', u, x) <=> r.pc = "sending" /\ r.series = x /\ u \in ToSet(r.left)
  <1>0. emitting \in [Emitters -> Emission] BY DEF InboxInv, InboxTyped, Emission
  <1>1. emitting'[e] = r /\ \A f \in Emitters : f # e => emitting'[f] = emitting[f] BY <1>0
  <1>a. PICK A : A = Due(emitting, u, x) OBVIOUS
  <1>b. PICK B : B = Due(emitting', u, x) OBVIOUS
  <1>2. A \in SUBSET Emitters /\ B \in SUBSET Emitters BY <1>a, <1>b DEF Due
  <1>3. IsFiniteSet(A) BY <1>2, FS_Subset, InboxAssumption
  <1>4. IsFiniteSet(B) BY <1>2, FS_Subset, InboxAssumption
  <1>5. A \ {e} = B \ {e} BY <1>1, <1>a, <1>b DEF Due
  <1>6. Cardinality(A \ {e}) = IF e \in A THEN Cardinality(A) - 1 ELSE Cardinality(A) BY <1>3, FS_RemoveElement
  <1>7. Cardinality(B \ {e}) = IF e \in B THEN Cardinality(B) - 1 ELSE Cardinality(B) BY <1>4, FS_RemoveElement
  <1>8. Cardinality(A) \in Nat /\ Cardinality(B) \in Nat BY <1>3, <1>4, FS_CardinalityType
  <1>9. e \in B <=> r.pc = "sending" /\ r.series = x /\ u \in ToSet(r.left) BY <1>1, <1>b DEF Due
  <1>10. Cardinality(B) + (IF e \in A THEN 1 ELSE 0) = Cardinality(A) + (IF e \in B THEN 1 ELSE 0)
    <2>1. Cardinality(A \ {e}) = Cardinality(B \ {e}) BY <1>5
    <2>2. CASE e \in A BY <1>6, <1>7, <1>8, <2>1, <2>2
    <2>3. CASE e \notin A BY <1>6, <1>7, <1>8, <2>1, <2>3
    <2> QED BY <2>2, <2>3
  <1> QED BY <1>8, <1>9, <1>10, <1>a, <1>b

LEMMA EmitKeeps ==
  ASSUME InboxInv, NEW e \in Emitters, NEW s \in Series, NEW k \in Keys, Emit(e, s, k)
  PROVE  InboxInv'
  <1>t. InboxTyped /\ NotesCounted /\ \A x \in Series : turned[x].last = shown[x] BY DEF InboxInv
  <1>0. online \in Seq(Readers) /\ IsInjective(online) BY <1>t DEF InboxTyped
  <1>u. /\ emitting[e].pc = "idle" /\ shown[s] # k /\ Notify(e, s, k, online)
        /\ shown' = [shown EXCEPT ![s] = k] /\ UNCHANGED <<online, handled, prefs, paging>>
        /\ turned' = [turned EXCEPT ![s] = [last |-> k, times |-> @.times + (IF @.last = k THEN 0 ELSE 1)]]
    BY DEF Emit, Remember
  <1>a. online \in Seq(Readers) BY <1>0
  <1>i. IsInjective(online) BY <1>0
  <1>n. Notify(e, s, k, online) BY <1>u
  <1>1. /\ inbox' \in Seq(Note) /\ posted' \in Nat /\ Numbered(inbox', posted') /\ WalkFine(paging, inbox', posted')
        /\ Effect(e, s, online, inbox', emitting')
    BY <1>a, <1>i, <1>n, NotifyEffect
  <1>2. PICK N \in SUBSET ToSet(online), r \in Emission :
              /\ \A u \in Readers, x \in Series :
                   /\ Cardinality(NotesHeard(inbox, u, x)) \in Nat /\ Cardinality(NotesHeard(inbox', u, x)) \in Nat
                   /\ Cardinality(NotesHeard(inbox', u, x)) <=
                        Cardinality(NotesHeard(inbox, u, x)) + (IF x = s /\ u \in N THEN 1 ELSE 0)
              /\ emitting' = [emitting EXCEPT ![e] = r] /\ EmitterFine(r)
              /\ r.pc = "sending" => r.series = s /\ ToSet(r.left) \subseteq ToSet(online) \ N
    BY <1>1 DEF Effect
  <1>m. emitting' = [emitting EXCEPT ![e] = r] BY <1>2
  <1>3. emitting \in [Emitters -> Emission] BY <1>t DEF InboxTyped, Emission
  <1>4. emitting' \in [Emitters -> Emission] /\ \A f \in Emitters : EmitterFine(emitting'[f])
    BY <1>t, <1>2, <1>3 DEF InboxTyped
  <1>5. turned \in [Series -> [last : Keys \cup {"none"}, times : Nat]] /\ shown \in [Series -> Keys \cup {"none"}]
    BY <1>t DEF InboxTyped
  <1>6. turned'[s].times = turned[s].times + 1 /\ turned'[s].last = k /\ shown'[s] = k
        /\ \A x \in Series : x # s => turned'[x] = turned[x] /\ shown'[x] = shown[x]
    <2>1. turned[s].last # k BY <1>t, <1>u
    <2> QED BY <1>5, <1>u, <2>1
  <1>7. turned' \in [Series -> [last : Keys \cup {"none"}, times : Nat]] /\ shown' \in [Series -> Keys \cup {"none"}]
    BY <1>5, <1>u
  <1>8. ASSUME NEW u \in Readers, NEW x \in Series
        PROVE  Cardinality(NotesHeard(inbox', u, x)) + Cardinality(Due(emitting', u, x)) <= turned'[x].times
    <2>1. /\ Cardinality(NotesHeard(inbox, u, x)) \in Nat /\ Cardinality(NotesHeard(inbox', u, x)) \in Nat
          /\ Cardinality(NotesHeard(inbox', u, x)) <=
               Cardinality(NotesHeard(inbox, u, x)) + (IF x = s /\ u \in N THEN 1 ELSE 0)
      BY <1>2
    <2>2. /\ Cardinality(Due(emitting, u, x)) \in Nat /\ Cardinality(Due(emitting', u, x)) \in Nat
          /\ Cardinality(Due(emitting', u, x)) + (IF e \in Due(emitting, u, x) THEN 1 ELSE 0)
               = Cardinality(Due(emitting, u, x)) + (IF e \in Due(emitting', u, x) THEN 1 ELSE 0)
          /\ e \in Due(emitting', u, x) <=> r.pc = "sending" /\ r.series = x /\ u \in ToSet(r.left)
      BY <1>m, DueChanges
    <2>3. e \notin Due(emitting, u, x) BY <1>u DEF Due
    <2>4. e \in Due(emitting', u, x) => x = s /\ u \notin N BY <1>2, <2>2
    <2>5. Cardinality(NotesHeard(inbox, u, x)) + Cardinality(Due(emitting, u, x)) <= turned[x].times BY <1>t DEF NotesCounted
    <2>6. turned[x].times \in Nat /\ turned'[x].times = turned[x].times + (IF x = s THEN 1 ELSE 0)
      BY <1>5, <1>6
    <2> QED BY <2>1, <2>2, <2>3, <2>4, <2>5, <2>6
  <1>9. NotesCounted' BY <1>8 DEF NotesCounted
  <1>10. \A x \in Series : turned'[x].last = shown'[x] BY <1>t, <1>6
  <1>11. InboxTyped' BY <1>0, <1>u, <1>1, <1>4, <1>7 DEF InboxTyped, Emission
  <1> QED BY <1>u, <1>1, <1>9, <1>10, <1>11 DEF InboxInv

LEMMA ResumeKeeps ==
  ASSUME InboxInv, NEW e \in Emitters, Resume(e)
  PROVE  InboxInv'
  <1>t. InboxTyped /\ NotesCounted /\ \A x \in Series : turned[x].last = shown[x] BY DEF InboxInv
  <1>3. emitting \in [Emitters -> Emission] BY <1>t DEF InboxTyped, Emission
  <1>s. PICK s : s = emitting[e].series OBVIOUS
  <1>k. PICK k : k = emitting[e].key OBVIOUS
  <1>l. PICK users : users = emitting[e].left OBVIOUS
  <1>p. emitting[e].pc = "sending" BY DEF Resume
  <1>0. s \in Series /\ k \in Keys /\ users \in Seq(Readers) /\ IsInjective(users)
    BY <1>t, <1>s, <1>k, <1>l, <1>p DEF InboxTyped, EmitterFine
  <1>5. turned \in [Series -> [last : Keys \cup {"none"}, times : Nat]] /\ shown \in [Series -> Keys \cup {"none"}]
    BY <1>t DEF InboxTyped
  <1>u. Notify(e, s, k, users) /\ shown' = [shown EXCEPT ![s] = shown[s]]
        /\ UNCHANGED <<online, handled, prefs, paging, turned>>
    BY <1>s, <1>k, <1>l DEF Resume, Remember
  <1>w. shown' = shown BY <1>5, <1>u
  <1>a. s \in Series /\ k \in Keys /\ users \in Seq(Readers) BY <1>0
  <1>i. IsInjective(users) BY <1>0
  <1>n. Notify(e, s, k, users) BY <1>u
  <1>1. /\ inbox' \in Seq(Note) /\ posted' \in Nat /\ Numbered(inbox', posted') /\ WalkFine(paging, inbox', posted')
        /\ Effect(e, s, users, inbox', emitting')
    BY <1>a, <1>i, <1>n, NotifyEffect
  <1>2. PICK N \in SUBSET ToSet(users), r \in Emission :
              /\ \A u \in Readers, x \in Series :
                   /\ Cardinality(NotesHeard(inbox, u, x)) \in Nat /\ Cardinality(NotesHeard(inbox', u, x)) \in Nat
                   /\ Cardinality(NotesHeard(inbox', u, x)) <=
                        Cardinality(NotesHeard(inbox, u, x)) + (IF x = s /\ u \in N THEN 1 ELSE 0)
              /\ emitting' = [emitting EXCEPT ![e] = r] /\ EmitterFine(r)
              /\ r.pc = "sending" => r.series = s /\ ToSet(r.left) \subseteq ToSet(users) \ N
    BY <1>1 DEF Effect
  <1>m. emitting' = [emitting EXCEPT ![e] = r] BY <1>2
  <1>4. emitting' \in [Emitters -> Emission] /\ \A f \in Emitters : EmitterFine(emitting'[f])
    BY <1>t, <1>2, <1>3 DEF InboxTyped
  <1>8. ASSUME NEW u \in Readers, NEW x \in Series
        PROVE  Cardinality(NotesHeard(inbox', u, x)) + Cardinality(Due(emitting', u, x)) <= turned[x].times
    <2>1. /\ Cardinality(NotesHeard(inbox, u, x)) \in Nat /\ Cardinality(NotesHeard(inbox', u, x)) \in Nat
          /\ Cardinality(NotesHeard(inbox', u, x)) <=
               Cardinality(NotesHeard(inbox, u, x)) + (IF x = s /\ u \in N THEN 1 ELSE 0)
      BY <1>2
    <2>2. /\ Cardinality(Due(emitting, u, x)) \in Nat /\ Cardinality(Due(emitting', u, x)) \in Nat
          /\ Cardinality(Due(emitting', u, x)) + (IF e \in Due(emitting, u, x) THEN 1 ELSE 0)
               = Cardinality(Due(emitting, u, x)) + (IF e \in Due(emitting', u, x) THEN 1 ELSE 0)
          /\ e \in Due(emitting', u, x) <=> r.pc = "sending" /\ r.series = x /\ u \in ToSet(r.left)
      BY <1>m, DueChanges
    <2>3. e \in Due(emitting, u, x) <=> x = s /\ u \in ToSet(users) BY <1>p, <1>s, <1>l DEF Due
    <2>4. e \in Due(emitting', u, x) => x = s /\ u \in ToSet(users) /\ u \notin N BY <1>2, <2>2
    <2>5. Cardinality(NotesHeard(inbox, u, x)) + Cardinality(Due(emitting, u, x)) <= turned[x].times BY <1>t DEF NotesCounted
    <2>6. turned[x].times \in Nat /\ (u \in N => u \in ToSet(users)) BY <1>5
    <2> QED BY <2>1, <2>2, <2>3, <2>4, <2>5, <2>6
  <1>9. NotesCounted' BY <1>8, <1>u DEF NotesCounted
  <1>11. InboxTyped' BY <1>t, <1>u, <1>w, <1>1, <1>4 DEF InboxTyped, Emission
  <1> QED BY <1>t, <1>u, <1>w, <1>1, <1>9, <1>11 DEF InboxInv

(* A list that is joined, and one that is left.                             *)
LEMMA Joined ==
  ASSUME NEW S, NEW q \in Seq(S), IsInjective(q), NEW v \in S, v \notin ToSet(q)
  PROVE  Append(q, v) \in Seq(S) /\ IsInjective(Append(q, v))
  <1>0. DOMAIN q = 1 .. Len(q) /\ Len(q) \in Nat BY LenProperties
  <1>r. PICK r : r = Append(q, v) OBVIOUS
  <1>1. r \in Seq(S) /\ Len(r) = Len(q) + 1 BY <1>r, AppendProperties
  <1>2. (\A i \in 1 .. Len(q) : r[i] = q[i]) /\ r[Len(q) + 1] = v BY <1>r, AppendProperties
  <1>3. DOMAIN r = 1 .. Len(q) + 1 BY <1>1, LenProperties
  <1>4. ASSUME NEW i \in DOMAIN r PROVE (i \in 1 .. Len(q) /\ r[i] = q[i] /\ r[i] # v) \/ (i = Len(q) + 1 /\ r[i] = v)
    <2>1. CASE i \in 1 .. Len(q) BY <1>0, <1>2, <2>1 DEF ToSet
    <2>2. CASE i \notin 1 .. Len(q) BY <1>0, <1>2, <1>3, <2>2
    <2> QED BY <2>1, <2>2
  <1>5. ASSUME NEW i \in DOMAIN r, NEW j \in DOMAIN r, r[i] = r[j] PROVE i = j
    <2>1. CASE r[i] = v BY <1>4, <1>5, <2>1
    <2>2. CASE r[i] # v
      <3>1. i \in DOMAIN q /\ j \in DOMAIN q /\ q[i] = q[j] BY <1>0, <1>4, <1>5, <2>2
      <3> QED BY <3>1 DEF IsInjective
    <2> QED BY <2>1, <2>2
  <1> QED BY <1>1, <1>5, <1>r DEF IsInjective

LEMMA Left ==
  ASSUME NEW S, NEW q \in Seq(S), IsInjective(q), NEW p \in DOMAIN q
  PROVE  RemoveAt(q, p) \in Seq(S) /\ IsInjective(RemoveAt(q, p))
  <1>0. DOMAIN q = 1 .. Len(q) /\ Len(q) \in Nat /\ p \in 1 .. Len(q) BY LenProperties
  <1>a. PICK a : a = SubSeq(q, 1, p - 1) OBVIOUS
  <1>b. PICK b : b = SubSeq(q, p + 1, Len(q)) OBVIOUS
  <1>r. PICK r : r = a \o b OBVIOUS
  <1>1. a \in Seq(S) /\ Len(a) = p - 1 /\ \A i \in 1 .. p - 1 : a[i] = q[i]
    <2>m. PICK m : m = p - 1 OBVIOUS
    <2>0. m \in Nat /\ m < Len(q) BY <1>0, <2>m
    <2>1. \A i \in 1 .. m : q[i] \in S
      <3> SUFFICES ASSUME NEW i \in 1 .. m PROVE q[i] \in S OBVIOUS
      <3>1. i \in 1 .. Len(q) BY <1>0, <2>0
      <3> QED BY <3>1, ElementOfSeq
    <2>2. /\ SubSeq(q, 1, m) \in Seq(S) /\ Len(SubSeq(q, 1, m)) = (IF 1 <= m THEN m - 1 + 1 ELSE 0)
          /\ \A i \in 1 .. m - 1 + 1 : SubSeq(q, 1, m)[i] = q[1 + i - 1]
      BY <2>0, <2>1, SubSeqProperties
    <2>3. a = SubSeq(q, 1, m) BY <1>a, <2>m
    <2>4. Len(a) = m BY <2>0, <2>2, <2>3
    <2>5. ASSUME NEW i \in 1 .. m PROVE a[i] = q[i]
      <3>1. i \in 1 .. m - 1 + 1 /\ 1 + i - 1 = i BY <2>0
      <3> QED BY <2>2, <2>3, <3>1
    <2> QED BY <2>m, <2>2, <2>3, <2>4, <2>5
  <1>2. b \in Seq(S) /\ Len(b) = Len(q) - p /\ \A i \in 1 .. Len(q) - p : b[i] = q[i + p]
    <2>m. PICK m : m = p + 1 OBVIOUS
    <2>0. m \in Int /\ m >= 1 /\ Len(q) - m + 1 = Len(q) - p BY <1>0, <2>m
    <2>1. \A i \in m .. Len(q) : q[i] \in S
      <3> SUFFICES ASSUME NEW i \in m .. Len(q) PROVE q[i] \in S OBVIOUS
      <3>1. i \in 1 .. Len(q) BY <1>0, <2>0
      <3> QED BY <3>1, ElementOfSeq
    <2>2. /\ SubSeq(q, m, Len(q)) \in Seq(S)
          /\ Len(SubSeq(q, m, Len(q))) = (IF m <= Len(q) THEN Len(q) - m + 1 ELSE 0)
          /\ \A i \in 1 .. Len(q) - m + 1 : SubSeq(q, m, Len(q))[i] = q[m + i - 1]
      BY <1>0, <2>0, <2>1, SubSeqProperties
    <2>3. b = SubSeq(q, m, Len(q)) BY <1>b, <2>m
    <2>j. (IF m <= Len(q) THEN Len(q) - m + 1 ELSE 0) = Len(q) - p
      <3>1. CASE p < Len(q)
        <4>1. m <= Len(q) /\ Len(q) - m + 1 = Len(q) - p BY <1>0, <2>m, <3>1
        <4> QED BY <4>1
      <3>2. CASE p = Len(q)
        <4>1. ~(m <= Len(q)) /\ Len(q) - p = 0 BY <1>0, <2>m, <3>2
        <4> QED BY <4>1
      <3>3. p < Len(q) \/ p = Len(q) BY <1>0
      <3> QED BY <3>1, <3>2, <3>3
    <2>5. ASSUME NEW i \in 1 .. Len(q) - p PROVE b[i] = q[i + p]
      <3>1. i \in 1 .. Len(q) - m + 1 /\ m + i - 1 = i + p BY <1>0, <2>0, <2>m
      <3> QED BY <2>2, <2>3, <3>1
    <2> QED BY <2>2, <2>3, <2>j, <2>5
  <1>3. RemoveAt(q, p) = r BY <1>a, <1>b, <1>r DEF RemoveAt
  <1>4. r \in Seq(S) /\ DOMAIN r = 1 .. Len(q) - 1
        /\ \A i \in 1 .. Len(q) - 1 : r[i] = IF i <= p - 1 THEN a[i] ELSE b[i - (p - 1)]
    <2>0. a \in Seq(S) /\ b \in Seq(S) BY <1>1, <1>2
    <2>1. /\ a \o b \in Seq(S) /\ Len(a \o b) = Len(a) + Len(b)
          /\ \A i \in 1 .. Len(a) + Len(b) : (a \o b)[i] = IF i <= Len(a) THEN a[i] ELSE b[i - Len(a)]
      BY <2>0, ConcatProperties
    <2>2. Len(a) = p - 1 /\ Len(a) + Len(b) = Len(q) - 1 BY <1>0, <1>1, <1>2
    <2>3. r \in Seq(S) /\ Len(r) = Len(q) - 1 BY <1>r, <2>1, <2>2
    <2>4. DOMAIN r = 1 .. Len(q) - 1 BY <2>3, LenProperties
    <2> QED BY <1>r, <2>1, <2>2, <2>3, <2>4
  <1>5. ASSUME NEW i \in DOMAIN r
        PROVE  (i < p => r[i] = q[i] /\ i \in DOMAIN q) /\ (i >= p => r[i] = q[i + 1] /\ i + 1 \in DOMAIN q)
    <2>0. i \in 1 .. Len(q) - 1 /\ i \in Int BY <1>0, <1>4
    <2>1. ASSUME i < p PROVE r[i] = q[i] /\ i \in DOMAIN q
      <3>1. i \in 1 .. p - 1 /\ i <= p - 1 BY <1>0, <2>0, <2>1
      <3>2. r[i] = a[i] BY <1>4, <2>0, <3>1
      <3> QED BY <1>0, <1>1, <2>0, <3>1, <3>2
    <2>2. ASSUME i >= p PROVE r[i] = q[i + 1] /\ i + 1 \in DOMAIN q
      <3>j. PICK j : j = i - (p - 1) OBVIOUS
      <3>1. j \in 1 .. Len(q) - p /\ ~(i <= p - 1) /\ j + p = i + 1 BY <1>0, <2>0, <2>2, <3>j
      <3>2. r[i] = b[j] BY <1>4, <2>0, <3>1, <3>j
      <3>3. b[j] = q[j + p] BY <1>2, <3>1
      <3> QED BY <1>0, <2>0, <3>1, <3>2, <3>3
    <2> QED BY <2>1, <2>2
  <1>6. ASSUME NEW i \in DOMAIN r, NEW j \in DOMAIN r, r[i] = r[j] PROVE i = j
    <2>0. i \in Int /\ j \in Int /\ p \in Int BY <1>0, <1>4
    <2>i. \A k, l \in DOMAIN q : q[k] = q[l] => k = l BY DEF IsInjective
    <2>1. CASE i < p /\ j < p
      <3>1. i \in DOMAIN q /\ j \in DOMAIN q /\ q[i] = q[j] BY <1>5, <1>6, <2>1
      <3> QED BY <2>i, <3>1
    <2>2. CASE i < p /\ ~(j < p)
      <3>1. i \in DOMAIN q /\ j + 1 \in DOMAIN q /\ q[i] = q[j + 1] BY <1>5, <1>6, <2>0, <2>2
      <3>2. i = j + 1 BY <2>i, <3>1
      <3> QED BY <2>0, <2>2, <3>2
    <2>3. CASE ~(i < p) /\ j < p
      <3>1. i + 1 \in DOMAIN q /\ j \in DOMAIN q /\ q[i + 1] = q[j] BY <1>5, <1>6, <2>0, <2>3
      <3>2. i + 1 = j BY <2>i, <3>1
      <3> QED BY <2>0, <2>3, <3>2
    <2>4. CASE ~(i < p) /\ ~(j < p)
      <3>1. i + 1 \in DOMAIN q /\ j + 1 \in DOMAIN q /\ q[i + 1] = q[j + 1] BY <1>5, <1>6, <2>0, <2>4
      <3>2. i + 1 = j + 1 BY <2>i, <3>1
      <3> QED BY <2>0, <3>2
    <2> QED BY <2>1, <2>2, <2>3, <2>4
  <1> QED BY <1>3, <1>4, <1>6 DEF IsInjective

(* Who connects, leaves or edits his preferences disturbs nothing.          *)
LEMMA UsersKeep ==
  ASSUME InboxInv,
         \/ \E u \in Readers : SocketOpens(u) \/ SocketCloses(u)
         \/ \E u \in Editors, c \in SUBSET {"websocket"}, v \in BOOLEAN : UpdatePrefs(u, c, v)
         \/ \E u \in Editors : SetQuietHours(u)
  PROVE  InboxInv'
  <1>u. UNCHANGED <<inbox, posted, shown, emitting, paging, turned>>
    BY DEF SocketOpens, SocketCloses, UpdatePrefs, SetQuietHours, SetChannels
  <1>0. online \in Seq(Readers) /\ IsInjective(online) BY DEF InboxInv, InboxTyped
  <1>1. online' \in Seq(Readers) /\ IsInjective(online')
    <2>1. ASSUME NEW u \in Readers, SocketOpens(u) PROVE online' \in Seq(Readers) /\ IsInjective(online')
      <3>1. u \notin ToSet(online) /\ online' = Append(online, u) BY <2>1 DEF SocketOpens
      <3> QED BY <1>0, <3>1, Joined
    <2>2. ASSUME NEW u \in Readers, SocketCloses(u) PROVE online' \in Seq(Readers) /\ IsInjective(online')
      <3>1. PICK i \in DOMAIN online : online' = RemoveAt(online, i) BY <2>2 DEF SocketCloses
      <3> QED BY <1>0, <3>1, Left
    <2>3. ASSUME \/ \E u \in Editors, c \in SUBSET {"websocket"}, v \in BOOLEAN : UpdatePrefs(u, c, v)
                 \/ \E u \in Editors : SetQuietHours(u)
          PROVE  online' = online
      BY <2>3 DEF UpdatePrefs, SetQuietHours, SetChannels
    <2> QED BY <1>0, <2>1, <2>2, <2>3
  <1> QED BY <1>u, <1>1 DEF InboxInv, InboxTyped, NotesCounted

(* A page shows the entries from the offset on, as far as it reaches.       *)
LEMMA PageShows ==
  ASSUME InboxInv, NEW u, NEW o \in Nat
  PROVE  /\ Len(Page(u, o)) \in Nat
         /\ \A i \in Of(u) : Ahead(Of(u), i) >= o /\ inbox[i].id \notin Ids(Page(u, o)) =>
              Ahead(Of(u), i) >= o + PageSize /\ ~(Len(Page(u, o)) < PageSize)
  <1>t. inbox \in Seq(Note) /\ PageSize \in Nat \ {0} BY InboxAssumption DEF InboxInv, InboxTyped
  <1>k. PICK K : K = Of(u) OBVIOUS
  <1>h. PICK h : h = History(u) OBVIOUS
  <1>1. K \in SUBSET DOMAIN inbox BY <1>k DEF Of
  <1>2. h = LatestFirst(inbox, K) BY <1>k, <1>h DEF History, LatestFirst, Ahead
  <1>3. /\ Cardinality(K) \in Nat
        /\ LatestFirst(inbox, K) \in Seq(Note) /\ Len(LatestFirst(inbox, K)) = Cardinality(K)
        /\ \A i \in K : Ahead(K, i) + 1 \in 1 .. Cardinality(K) /\ LatestFirst(inbox, K)[Ahead(K, i) + 1] = inbox[i]
    BY <1>t, <1>1, LatestFirstProperties
  <1>c. PICK c : c = Cardinality(K) OBVIOUS
  <1>to. PICK upto : upto = IF o + PageSize > c THEN c ELSE o + PageSize OBVIOUS
  <1>4. upto \in Nat /\ upto <= c /\ c \in Nat BY <1>t, <1>3, <1>c, <1>to
  <1>m. PICK m : m = o + 1 OBVIOUS
  <1>p. PICK p : p = Page(u, o) OBVIOUS
  <1>5. p = SubSeq(h, m, upto) BY <1>h, <1>2, <1>3, <1>c, <1>to, <1>m, <1>p DEF Page
  <1>6. \A i \in m .. upto : h[i] \in Note
    <2> SUFFICES ASSUME NEW i \in m .. upto PROVE h[i] \in Note OBVIOUS
    <2>1. i \in 1 .. c BY <1>4, <1>m
    <2> QED BY <1>2, <1>3, <1>c, <2>1, ElementOfSeq
  <1>7. /\ SubSeq(h, m, upto) \in Seq(Note)
        /\ Len(SubSeq(h, m, upto)) = (IF m <= upto THEN upto - m + 1 ELSE 0)
        /\ \A i \in 1 .. upto - m + 1 : SubSeq(h, m, upto)[i] = h[m + i - 1]
    <2>1. m \in Int /\ upto \in Int BY <1>4, <1>m
    <2> QED BY <1>6, <2>1, SubSeqProperties
  <1>8. p \in Seq(Note) /\ Len(p) = (IF m <= upto THEN upto - m + 1 ELSE 0)
        /\ \A i \in 1 .. upto - m + 1 : p[i] = h[m + i - 1]
    BY <1>5, <1>7
  <1>9. Len(p) \in Nat /\ DOMAIN p = 1 .. Len(p) BY <1>8, LenProperties
  <1>10. ASSUME NEW i \in K, Ahead(K, i) >= o, inbox[i].id \notin Ids(p)
         PROVE  Ahead(K, i) >= o + PageSize /\ ~(Len(p) < PageSize)
    <2>a. PICK a : a = Ahead(K, i) + 1 OBVIOUS
    <2>0. a \in 1 .. c /\ h[a] = inbox[i] /\ Ahead(K, i) = a - 1
      <3>1. Ahead(K, i) \in Nat
        <4>1. DOMAIN inbox = 1 .. Len(inbox) /\ Len(inbox) \in Nat BY <1>t, LenProperties
        <4>2. IsFiniteSet(DOMAIN inbox) BY <4>1, FS_Interval
        <4>3. K \in SUBSET Int BY <1>1, <4>1
        <4>4. IsFiniteSet(K) BY <1>1, <4>2, FS_Subset
        <4> QED BY <4>3, <4>4, AheadIsTheRest
      <3> QED BY <1>2, <1>3, <1>c, <2>a, <3>1
    <2>1. a >= m BY <1>m, <1>10, <2>0
    <2>2. ~(a <= upto)
      <3> SUFFICES ASSUME a <= upto PROVE FALSE OBVIOUS
      <3>j. PICK j : j = a - m + 1 OBVIOUS
      <3>1. j \in 1 .. upto - m + 1 /\ m + j - 1 = a /\ m <= upto BY <1>4, <1>m, <2>0, <2>1, <3>j
      <3>2. p[j] = inbox[i] BY <1>8, <2>0, <3>1
      <3>3. j \in DOMAIN p BY <1>8, <1>9, <3>1
      <3>4. inbox[i].id \in Ids(p) BY <3>2, <3>3 DEF Ids
      <3> QED BY <1>10, <3>4
    <2>3. upto = o + PageSize /\ ~(o + PageSize > c) BY <1>4, <1>to, <1>t, <2>0, <2>2
    <2>4. a - 1 >= o + PageSize BY <1>4, <1>t, <2>0, <2>2, <2>3
    <2>5. Len(p) = PageSize
      <3>1. m <= upto /\ upto - m + 1 = PageSize BY <1>t, <1>m, <2>3
      <3> QED BY <1>8, <3>1
    <2> QED BY <1>t, <2>0, <2>4, <2>5
  <1> QED BY <1>9, <1>10, <1>k, <1>p

LEMMA WalksKeep ==
  ASSUME InboxInv, NextPage \/ PagingEnds \/ \E u \in Readers : BeginPaging(u)
  PROVE  InboxInv'
  <1>u. UNCHANGED <<inbox, posted, online, handled, shown, emitting, prefs, turned>>
    BY DEF NextPage, PagingEnds, BeginPaging
  <1>t. inbox \in Seq(Note) /\ posted \in Nat /\ Numbered(inbox, posted) /\ WalkFine(paging, inbox, posted)
    BY DEF InboxInv, InboxTyped
  <1>n. DOMAIN inbox = 1 .. Len(inbox) /\ Len(inbox) \in Nat BY <1>t, LenProperties
  <1>i. \A i \in DOMAIN inbox : inbox[i].id \in 1 .. posted BY <1>t DEF Numbered
  <1>s. SUFFICES WalkFine(paging', inbox, posted)
    BY <1>u DEF InboxInv, InboxTyped, NotesCounted
  <1>1. ASSUME PagingEnds PROVE WalkFine(paging', inbox, posted)
    <2>1. paging' = [pc |-> "idle", user |-> "none", offset |-> 0, seen |-> {}, due |-> {}]
      BY <1>1 DEF PagingEnds, NoPaging
    <2> QED BY <2>1 DEF WalkFine
  <1>2. ASSUME NEW u \in Readers, BeginPaging(u) PROVE WalkFine(paging', inbox, posted)
    <2>p. PICK p : p = [pc |-> "reading", user |-> u, offset |-> 0, seen |-> {}, due |-> {inbox[i].id : i \in Of(u)}]
      OBVIOUS
    <2>0. paging' = p BY <1>2, <2>p DEF BeginPaging
    <2>1. p.pc = "reading" /\ p.user = u /\ p.offset = 0 /\ p.due = {inbox[i].id : i \in Of(u)} BY <2>p
    <2>2. Of(u) \subseteq DOMAIN inbox /\ InBox(inbox, u) = Of(u) BY DEF Of, InBox
    <2>3. p.due \subseteq 1 .. posted BY <1>i, <2>1, <2>2
    <2>4. ASSUME NEW i \in DOMAIN inbox, inbox[i].id \in p.due
          PROVE  inbox[i].user = p.user /\ Ahead(InBox(inbox, p.user), i) >= p.offset
      <3>1. PICK j \in Of(u) : inbox[j].id = inbox[i].id BY <2>1, <2>4
      <3>2. \A k, l \in DOMAIN inbox : k < l => inbox[k].id < inbox[l].id BY <1>t DEF Numbered
      <3>3. inbox[j].id \in Int /\ inbox[i].id \in Int /\ j \in DOMAIN inbox BY <1>i, <2>2
      <3>4. ~(i < j) BY <3>1, <3>2, <3>3
      <3>5. ~(j < i) BY <3>1, <3>2, <3>3
      <3>6. i = j BY <1>n, <3>3, <3>4, <3>5
      <3>7. IsFiniteSet(DOMAIN inbox) BY <1>n, FS_Interval
      <3>8. IsFiniteSet(Of(u)) BY <2>2, <3>7, FS_Subset
      <3>9. Of(u) \in SUBSET Int BY <1>n, <2>2
      <3>10. Ahead(Of(u), i) \in Nat BY <3>6, <3>8, <3>9, AheadIsTheRest
      <3> QED BY <2>1, <2>2, <3>6, <3>10 DEF Of
    <2> QED BY <2>0, <2>1, <2>3, <2>4 DEF WalkFine
  <1>3. ASSUME NextPage PROVE WalkFine(paging', inbox, posted)
    <2>u. PICK u : u = paging.user OBVIOUS
    <2>o. PICK o : o = paging.offset OBVIOUS
    <2>p. PICK p : p = Page(u, o) OBVIOUS
    <2>0. paging.pc = "reading" /\ o \in Nat /\ paging.due \subseteq 1 .. posted BY <1>t, <1>3, <2>o DEF NextPage, WalkFine
    <2>n. PICK n : n = [pc |-> IF Len(p) < PageSize THEN "over" ELSE "reading", user |-> u,
                        offset |-> o + PageSize, seen |-> paging.seen \cup Ids(p), due |-> paging.due]
      OBVIOUS
    <2>2. paging' = n BY <1>3, <2>u, <2>o, <2>p, <2>n DEF NextPage
    <2>3. o + PageSize \in Nat BY <2>0, InboxAssumption
    <2>4. InBox(inbox, u) = Of(u) BY DEF Of, InBox
    <2>5. \A i \in Of(u) : Ahead(Of(u), i) >= o /\ inbox[i].id \notin Ids(p) =>
            Ahead(Of(u), i) >= o + PageSize /\ ~(Len(p) < PageSize)
      BY <2>0, <2>p, PageShows
    <2>6. ASSUME NEW i \in DOMAIN inbox, inbox[i].id \in n.due, inbox[i].id \notin n.seen
          PROVE  n.pc = "reading" /\ inbox[i].user = n.user /\ Ahead(InBox(inbox, n.user), i) >= n.offset
      <3>1. inbox[i].id \in paging.due /\ inbox[i].id \notin paging.seen /\ inbox[i].id \notin Ids(p) BY <2>6, <2>n
      <3>2. inbox[i].user = u /\ Ahead(InBox(inbox, u), i) >= o
        BY <1>t, <2>0, <2>u, <2>o, <3>1 DEF WalkFine
      <3>3. i \in Of(u) BY <3>2 DEF Of
      <3>4. Ahead(Of(u), i) >= o + PageSize /\ ~(Len(p) < PageSize) BY <2>4, <2>5, <3>1, <3>2, <3>3
      <3> QED BY <2>4, <2>n, <3>2, <3>4
    <2>7. n.pc \in {"idle", "reading", "over"} /\ n.due \subseteq 1 .. posted /\ n.offset \in Nat
      BY <2>0, <2>3, <2>n
    <2> QED BY <2>2, <2>6, <2>7 DEF WalkFine
  <1> QED BY <1>1, <1>2, <1>3

LEMMA Around == ASSUME NEW D \in Nat \ {0}, NEW x \in 0 .. 2 * D - 1 PROVE x % D = IF x < D THEN x ELSE x - D
  OBVIOUS
LEMMA QuietHours == QuietIsAnInterval
  <1>1. DayLength \in Nat \ {0} BY InboxAssumption
  <1>2. ASSUME NEW s \in Clock, NEW e \in Clock, NEW now \in Clock
        PROVE  InQuietHours(s, e, now) <=> (now + DayLength - s) % DayLength <= (e + DayLength - s) % DayLength
    <2>1. s \in 0 .. DayLength - 1 /\ e \in 0 .. DayLength - 1 /\ now \in 0 .. DayLength - 1 BY DEF Clock
    <2>a. PICK a : a = now + DayLength - s OBVIOUS
    <2>b. PICK b : b = e + DayLength - s OBVIOUS
    <2>2. a \in 0 .. 2 * DayLength - 1 /\ b \in 0 .. 2 * DayLength - 1 BY <1>1, <2>1, <2>a, <2>b
    <2>3. a % DayLength = IF a < DayLength THEN a ELSE a - DayLength BY <1>1, <2>2, Around
    <2>4. b % DayLength = IF b < DayLength THEN b ELSE b - DayLength BY <1>1, <2>2, Around
    <2>5. InQuietHours(s, e, now) <=> (IF s <= e THEN s <= now /\ now <= e ELSE now >= s \/ now <= e)
      BY DEF InQuietHours
    <2>6. (a % DayLength <= b % DayLength) <=> (IF s <= e THEN s <= now /\ now <= e ELSE now >= s \/ now <= e)
      BY <1>1, <2>1, <2>a, <2>b, <2>3, <2>4
    <2> QED BY <2>5, <2>6, <2>a, <2>b
  <1> QED BY <1>2 DEF QuietIsAnInterval

LEMMA InboxInitially == InboxInit => InboxInv
  <1>1. SUFFICES ASSUME InboxInit PROVE InboxInv OBVIOUS
  <1>0. inbox = <<>> /\ posted = 0 /\ online = <<>> /\ shown = [s \in Series |-> "none"]
        /\ emitting = [e \in Emitters |-> NothingLeft] /\ paging = NoPaging
        /\ turned = [s \in Series |-> [last |-> "none", times |-> 0]]
    BY <1>1 DEF InboxInit
  <1>2. inbox \in Seq(Note) /\ online \in Seq(Readers) /\ <<>> \in Seq(Readers) /\ Len(<<>>) = 0 BY <1>0, EmptySeq
  <1>3. DOMAIN <<>> = 1 .. 0 BY <1>2, LenProperties
  <1>4. IsInjective(<<>>) BY <1>3 DEF IsInjective
  <1>5. NothingLeft \in Emission /\ EmitterFine(NothingLeft) /\ NothingLeft.pc = "idle"
    BY <1>2, <1>4 DEF NothingLeft, Emission, EmitterFine
  <1>6. InboxTyped BY <1>0, <1>2, <1>4, <1>5 DEF InboxTyped, Emission
  <1>7. Numbered(inbox, posted) BY <1>0, <1>3 DEF Numbered
  <1>8. \A s \in Series : turned[s].last = shown[s] BY <1>0
  <1>9. ASSUME NEW u \in Readers, NEW s \in Series
        PROVE  Cardinality(NotesHeard(inbox, u, s)) + Cardinality(Due(emitting, u, s)) <= turned[s].times
    <2>1. NotesHeard(inbox, u, s) = {} BY <1>0, <1>3 DEF NotesHeard
    <2>2. Due(emitting, u, s) = {} BY <1>0, <1>5 DEF Due
    <2>3. turned[s].times = 0 BY <1>0
    <2> QED BY <2>1, <2>2, <2>3, FS_EmptySet
  <1>10. WalkFine(paging, inbox, posted) BY <1>0, <1>3 DEF WalkFine, NoPaging
  <1> QED BY <1>6, <1>7, <1>8, <1>9, <1>10 DEF InboxInv, NotesCounted

(* A reader who pages to the end misses nothing, a user hears of a change   *)
(* of a signal at most once, and quiet hours are an interval of the day:    *)
(* for any readers, emitters, series and sizes of queue, page and day.      *)
THEOREM InboxIsSound == InboxSpec => []InboxSound
  <1>1. InboxInit => InboxInv BY InboxInitially
  <1>2. InboxInv /\ [InboxNext]_inboxVars => InboxInv'
    <2>1. SUFFICES ASSUME InboxInv, [InboxNext]_inboxVars PROVE InboxInv' OBVIOUS
    <2>2. CASE UNCHANGED inboxVars
      BY <2>1, <2>2 DEF inboxVars, InboxInv, InboxTyped, NotesCounted
    <2>3. CASE \E e \in Emitters : Resume(e) BY <2>1, <2>3, ResumeKeeps
    <2>4. CASE \E e \in Emitters, s \in Series, k \in Keys : Emit(e, s, k) BY <2>1, <2>4, EmitKeeps
    <2>5. CASE \/ \E u \in Readers : SocketOpens(u) \/ SocketCloses(u)
               \/ \E u \in Editors, c \in SUBSET {"websocket"}, v \in BOOLEAN : UpdatePrefs(u, c, v)
               \/ \E u \in Editors : SetQuietHours(u)
      BY <2>1, <2>5, UsersKeep
    <2>6. CASE NextPage \/ PagingEnds \/ \E u \in Readers : BeginPaging(u) BY <2>1, <2>6, WalksKeep
    <2> QED BY <2>1, <2>2, <2>3, <2>4, <2>5, <2>6 DEF InboxNext
  <1>3. InboxInv => InboxSound
    <2>1. SUFFICES ASSUME InboxInv PROVE InboxSound OBVIOUS
    <2>2. ASSUME paging.pc = "over" PROVE paging.due \cap Ids(inbox) \subseteq paging.seen
      <3>1. \A i \in DOMAIN inbox : inbox[i].id \in paging.due => inbox[i].id \in paging.seen
        BY <2>1, <2>2 DEF InboxInv, WalkFine
      <3> QED BY <3>1 DEF Ids
    <2>3. ASSUME NEW u \in Readers, NEW s \in Series
          PROVE  Cardinality({i \in DOMAIN inbox : inbox[i].user = u /\ inbox[i].series = s}) <= turned[s].times
      <3>1. Cardinality(NotesHeard(inbox, u, s)) + Cardinality(Due(emitting, u, s)) <= turned[s].times
        BY <2>1 DEF InboxInv, NotesCounted
      <3>2. IsFiniteSet(Due(emitting, u, s))
        <4>1. Due(emitting, u, s) \in SUBSET Emitters BY DEF Due
        <4> QED BY <4>1, FS_Subset, InboxAssumption
      <3>3. Cardinality(Due(emitting, u, s)) \in Nat BY <3>2, FS_CardinalityType
      <3>4. IsFiniteSet(NotesHeard(inbox, u, s))
        <4>0. inbox \in Seq(Note) BY <2>1 DEF InboxInv, InboxTyped
        <4>1. DOMAIN inbox = 1 .. Len(inbox) /\ Len(inbox) \in Nat BY <4>0, LenProperties
        <4>2. IsFiniteSet(DOMAIN inbox) BY <4>1, FS_Interval
        <4>3. NotesHeard(inbox, u, s) \in SUBSET DOMAIN inbox BY DEF NotesHeard
        <4> QED BY <4>2, <4>3, FS_Subset
      <3>5. Cardinality(NotesHeard(inbox, u, s)) \in Nat BY <3>4, FS_CardinalityType
      <3>6. turned[s].times \in Nat BY <2>1 DEF InboxInv, InboxTyped
      <3>7. Cardinality(NotesHeard(inbox, u, s)) <= turned[s].times BY <3>1, <3>3, <3>5, <3>6
      <3> QED BY <3>7 DEF NotesHeard
    <2> QED BY <2>2, <2>3, QuietHours DEF InboxSound, PagesMissNothing, NoEcho
  <1> QED BY <1>1, <1>2, <1>3, PTL DEF InboxSpec

-----------------------------------------------------------------------------
Message ==
  {m \in [id : Nat, kind : Kinds \cup {"auth", "tick"}, symbol : Symbols \cup {"none"}] : m.kind = "auth" => m.id = 0}
Socket == [alive : BOOLEAN, asked : Seq(Message), wire : Seq(Message), waiter : Calls \cup {"nobody"},
           subscribed : SUBSET Symbols]
Waits == {"auth", "rpc", "stream"}
CallRecord == [pc : {"idle", "login", "auth", "rpc", "stream", "returned"}, on : Nat,
               kind : Kinds \cup {"none", "auth"}, symbol : Symbols \cup {"none"}, id : Nat, answer : Nat]

(* The client's state is of its kind: its websocket is the newest, and who   *)
(* waits for a message waits on a websocket there is.                        *)
IdxTyped ==
  /\ sockets \in Seq(Socket) /\ socket = Len(sockets) /\ connected \in BOOLEAN
  /\ calls \in [Calls -> CallRecord]
  /\ \A c \in Calls : calls[c].pc \in Waits => calls[c].on \in 1 .. Len(sockets)
  /\ \A c \in Calls : calls[c].pc = "login" => sockets # <<>>
  /\ \A c \in Calls : calls[c].pc = "rpc" => calls[c].kind \in Kinds /\ calls[c].id # 0
  /\ connected => sockets # <<>>
  /\ requests \in Nat /\ ticked \in Nat

(* A message that asks for something, or answers what was asked.            *)
Asks(m) == m.kind \in Kinds

(* At most one such message is under way on a websocket ...                 *)
Lone(q) ==
  /\ \A i, j \in DOMAIN q.asked : Asks(q.asked[i]) /\ Asks(q.asked[j]) => i = j
  /\ \A i, j \in DOMAIN q.wire : Asks(q.wire[i]) /\ Asks(q.wire[j]) => i = j
  /\ \A i \in DOMAIN q.asked, j \in DOMAIN q.wire : ~(Asks(q.asked[i]) /\ Asks(q.wire[j]))

(* ... and it belongs to the call that waits there.                         *)
Mine(w, m) == w # "nobody" /\ calls[w].pc = "rpc" /\ calls[w].id = m.id
Owned(q) ==
  /\ \A i \in DOMAIN q.asked : Asks(q.asked[i]) => Mine(q.waiter, q.asked[i])
  /\ \A i \in DOMAIN q.wire : Asks(q.wire[i]) => Mine(q.waiter, q.wire[i])

(* A websocket knows who waits on it, has nothing once it is closed, and as *)
(* long as it is not spoilt carries no answer but the waiting call's.       *)
SocketFine(s) ==
  LET q == sockets[s] IN
  /\ q.waiter # "nobody" => calls[q.waiter].on = s /\ calls[q.waiter].pc \in Waits
  /\ ~q.alive => q.asked = <<>> /\ q.wire = <<>>
  /\ s \notin spoilt => Lone(q) /\ Owned(q)

IdxInv == IdxTyped /\ \A s \in DOMAIN sockets : SocketFine(s)

-----------------------------------------------------------------------------
(* A websocket that is left alone stays fine if its waiting call does.      *)
LEMMA SocketStays ==
  ASSUME NEW s, SocketFine(s), sockets'[s] = sockets[s], spoilt \subseteq spoilt',
         sockets[s].waiter # "nobody" => calls'[sockets[s].waiter] = calls[sockets[s].waiter]
  PROVE  SocketFine(s)'
  <1>1. sockets[s].waiter # "nobody" => calls'[sockets[s].waiter].on = s /\ calls'[sockets[s].waiter].pc \in Waits
    BY DEF SocketFine
  <1>2. ASSUME s \notin spoilt' PROVE Lone(sockets[s]) /\ Owned(sockets[s])'
    <2>1. Lone(sockets[s]) /\ Owned(sockets[s]) BY <1>2 DEF SocketFine
    <2>2. ASSUME NEW m, Mine(sockets[s].waiter, m) PROVE Mine(sockets[s].waiter, m)' BY <2>2 DEF Mine
    <2> QED BY <2>1, <2>2 DEF Owned
  <1>3. Lone(sockets[s])' <=> Lone(sockets[s]) BY DEF Lone
  <1> QED BY <1>1, <1>2, <1>3 DEF SocketFine

(* Changing one websocket leaves the others.                                *)
LEMMA OneSocketChanges ==
  ASSUME IdxTyped, NEW s \in DOMAIN sockets, NEW q \in Socket, sockets' = [sockets EXCEPT ![s] = q]
  PROVE  /\ sockets' \in Seq(Socket) /\ Len(sockets') = Len(sockets) /\ DOMAIN sockets' = DOMAIN sockets
         /\ sockets'[s] = q /\ \A r \in DOMAIN sockets : r # s => sockets'[r] = sockets[r]
  BY ExceptSeq, LenProperties DEF IdxTyped

LEMMA SocketOf ==
  ASSUME IdxTyped, NEW s \in DOMAIN sockets
  PROVE  sockets[s] \in Socket /\ s \in 1 .. Len(sockets)
  BY ElementOfSeq, LenProperties DEF IdxTyped
LEMMA CallOf ==
  ASSUME IdxTyped, NEW c \in Calls
  PROVE  calls[c] \in CallRecord /\ (calls[c].pc \in Waits => calls[c].on \in DOMAIN sockets)
  BY LenProperties DEF IdxTyped

(* A call that is not at a websocket is nobody's waiter.                    *)
LEMMA WaiterElsewhere ==
  ASSUME IdxInv, NEW c \in Calls, NEW s \in DOMAIN sockets, calls[c].pc \notin Waits \/ calls[c].on # s
  PROVE  sockets[s].waiter # c
  BY IdxAssumption DEF IdxInv, SocketFine

(* A websocket on which nobody waits has nothing under way that asks.       *)
LEMMA QuietSocket ==
  ASSUME IdxInv, NEW s \in DOMAIN sockets, s \notin spoilt,
         sockets[s].waiter # "nobody" => calls[sockets[s].waiter].pc # "rpc"
  PROVE  /\ \A i \in DOMAIN sockets[s].asked : ~Asks(sockets[s].asked[i])
         /\ \A i \in DOMAIN sockets[s].wire : ~Asks(sockets[s].wire[i])
  BY DEF IdxInv, SocketFine, Owned, Mine

(* Then it stays fine whoever takes up or gives up waiting on it.           *)
LEMMA QuietStays ==
  ASSUME IdxInv, NEW s \in DOMAIN sockets, s \notin spoilt => (sockets[s].waiter # "nobody" => calls[sockets[s].waiter].pc # "rpc"),
         NEW c, sockets'[s].asked = sockets[s].asked, sockets'[s].wire = sockets[s].wire,
         sockets'[s].alive = sockets[s].alive, sockets'[s].waiter = c,
         c # "nobody" => calls'[c].on = s /\ calls'[c].pc \in Waits, spoilt \subseteq spoilt'
  PROVE  SocketFine(s)'
  <1>1. ~sockets[s].alive => sockets[s].asked = <<>> /\ sockets[s].wire = <<>> BY DEF IdxInv, SocketFine
  <1>2. ASSUME s \notin spoilt' PROVE Lone(sockets'[s]) /\ Owned(sockets[s])'
    <2>1. /\ \A i \in DOMAIN sockets[s].asked : ~Asks(sockets[s].asked[i])
          /\ \A i \in DOMAIN sockets[s].wire : ~Asks(sockets[s].wire[i])
      BY <1>2, QuietSocket
    <2> QED BY <2>1 DEF Lone, Owned
  <1>3. Lone(sockets[s])' <=> Lone(sockets'[s]) BY DEF Lone
  <1> QED BY <1>1, <1>2, <1>3 DEF SocketFine

LEMMA IdxInitially == IdxInit => IdxInv
  <1> SUFFICES ASSUME IdxInit PROVE IdxInv OBVIOUS
  <1>1. sockets = <<>> /\ sockets \in Seq(Socket) /\ Len(sockets) = 0 /\ DOMAIN sockets = {}
    BY EmptySeq DEF IdxInit
  <1>2. AtHome \in CallRecord /\ AtHome.pc = "idle" BY DEF AtHome, CallRecord
  <1>3. IdxTyped BY <1>1, <1>2 DEF IdxTyped, IdxInit, Waits
  <1> QED BY <1>1, <1>3 DEF IdxInv

(* Sending one call home, or on to where it waits, keeps the calls' kind.   *)
LEMMA OneCallMoves ==
  ASSUME IdxTyped, NEW c \in Calls, NEW t \in CallRecord, calls' = [calls EXCEPT ![c] = t],
         sockets' \in Seq(Socket), Len(sockets') = Len(sockets), UNCHANGED socket, connected' \in BOOLEAN,
         connected' => connected \/ sockets # <<>>, requests' \in Nat, ticked' \in Nat,
         t.pc \in Waits => t.on \in 1 .. Len(sockets), t.pc # "login", t.pc = "rpc" => t.kind \in Kinds /\ t.id # 0
  PROVE  IdxTyped' /\ calls'[c] = t /\ \A d \in Calls : d # c => calls'[d] = calls[d]
  <1>1. calls' \in [Calls -> CallRecord] /\ calls'[c] = t /\ \A d \in Calls : d # c => calls'[d] = calls[d]
    BY DEF IdxTyped
  <1>2. sockets # <<>> => sockets' # <<>>
    BY EmptySeq DEF IdxTyped
  <1>3. \A d \in Calls : calls'[d].pc \in Waits => calls'[d].on \in 1 .. Len(sockets')
    BY <1>1 DEF IdxTyped
  <1>4. \A d \in Calls : calls'[d].pc = "login" => sockets' # <<>>
    BY <1>1, <1>2 DEF IdxTyped
  <1>5. \A d \in Calls : calls'[d].pc = "rpc" => calls'[d].kind \in Kinds /\ calls'[d].id # 0
    BY <1>1 DEF IdxTyped
  <1> QED BY <1>1, <1>2, <1>3, <1>4, <1>5 DEF IdxTyped

LEMMA HomeIsACall == AtHome \in CallRecord /\ AtHome.pc = "idle" /\ "idle" \notin Waits
  BY DEF AtHome, CallRecord, Waits

(* A new websocket carries its auth message and nothing that asks.          *)
LEMMA ConnectBeginsKeeps ==
  ASSUME IdxInv, NEW c \in Calls, ConnectBegins(c)
  PROVE  IdxInv'
  <1> DEFINE m == Request(0, "auth", "none")
             q == [NewSocket EXCEPT !.asked = <<m>>]
             t == [AtHome EXCEPT !.pc = "login", !.on = socket', !.kind = "auth"]
  <1>1. /\ calls[c].pc = "idle" /\ sockets' = Append(sockets, q) /\ socket' = Len(sockets) + 1
        /\ calls' = [calls EXCEPT ![c] = t] /\ UNCHANGED <<connected, requests, ticked, spoilt>>
    BY DEF ConnectBegins
  <1>2. m \in Message /\ ~Asks(m) BY DEF Message, Request, Asks, Kinds
  <1>3. q \in Socket /\ q.asked = <<m>> /\ q.wire = <<>> /\ q.waiter = "nobody" /\ q.alive
    <2>1. <<m>> \in Seq(Message) /\ <<>> \in Seq(Message) BY <1>2, EmptySeq
    <2> HIDE DEF m
    <2> QED BY <2>1 DEF NewSocket, Socket
  <1>4. t \in CallRecord /\ t.pc = "login" /\ "login" \notin Waits
    <2>1. socket' \in Nat BY <1>1, LenProperties DEF IdxInv, IdxTyped
    <2> QED BY <2>1 DEF AtHome, CallRecord, Waits
  <1> HIDE DEF q, t
  <1>5. /\ sockets' \in Seq(Socket) /\ sockets' # <<>> /\ Len(sockets') = Len(sockets) + 1
        /\ \A s \in 1 .. Len(sockets) : sockets'[s] = sockets[s]
        /\ sockets'[Len(sockets) + 1] = q
    BY <1>1, <1>3, AppendProperties DEF IdxInv, IdxTyped
  <1>6. DOMAIN sockets' = 1 .. Len(sockets) + 1 /\ DOMAIN sockets = 1 .. Len(sockets) /\ Len(sockets) \in Nat
    BY <1>5, LenProperties DEF IdxInv, IdxTyped
  <1>7. calls' \in [Calls -> CallRecord] /\ calls'[c] = t /\ \A d \in Calls : d # c => calls'[d] = calls[d]
    BY <1>1, <1>4 DEF IdxInv, IdxTyped
  <1>8. IdxTyped'
    <2>1. \A d \in Calls : calls'[d].pc \in Waits => calls'[d].on \in 1 .. Len(sockets')
      BY <1>4, <1>5, <1>6, <1>7 DEF IdxInv, IdxTyped
    <2>2. \A d \in Calls : calls'[d].pc = "rpc" => calls'[d].kind \in Kinds /\ calls'[d].id # 0
      BY <1>4, <1>7 DEF IdxInv, IdxTyped
    <2> QED BY <1>1, <1>5, <1>7, <2>1, <2>2 DEF IdxInv, IdxTyped
  <1>9. ASSUME NEW s \in DOMAIN sockets' PROVE SocketFine(s)'
    <2>1. CASE s \in DOMAIN sockets
      <3>1. SocketFine(s) /\ sockets'[s] = sockets[s] BY <1>5, <1>6, <2>1 DEF IdxInv
      <3>2. sockets[s].waiter # c BY <1>1, <2>1, WaiterElsewhere, HomeIsACall
      <3>3. sockets[s].waiter \in Calls \cup {"nobody"} BY <2>1, SocketOf DEF IdxInv, Socket
      <3> QED BY <1>1, <1>7, <3>1, <3>2, <3>3, SocketStays
    <2>2. CASE s = Len(sockets) + 1
      <3>1. sockets'[s] = q BY <1>5, <2>2
      <3>2. Lone(q) /\ Owned(q)'
        <4>1. DOMAIN q.asked = {1} /\ q.asked[1] = m /\ DOMAIN q.wire = {} BY <1>3
        <4> HIDE DEF m
        <4> QED BY <1>2, <4>1 DEF Lone, Owned
      <3>3. Lone(sockets[s])' <=> Lone(q) BY <3>1 DEF Lone
      <3>4. Owned(sockets[s])' <=> Owned(q)' BY <3>1 DEF Owned
      <3> QED BY <1>3, <3>1, <3>2, <3>3, <3>4 DEF SocketFine
    <2> QED BY <1>6, <2>1, <2>2
  <1> QED BY <1>8, <1>9 DEF IdxInv
(* A step of one call that leaves the websockets alone keeps them fine if   *)
(* the call is nobody's waiter.                                             *)
LEMMA SocketsLeft ==
  ASSUME IdxInv, NEW c \in Calls, \A d \in Calls : d # c => calls'[d] = calls[d], sockets' = sockets, spoilt \subseteq spoilt',
         \A s \in DOMAIN sockets : sockets[s].waiter # c
  PROVE  \A s \in DOMAIN sockets' : SocketFine(s)'
  <1> SUFFICES ASSUME NEW s \in DOMAIN sockets PROVE SocketFine(s)' OBVIOUS
  <1>1. sockets[s].waiter \in Calls \cup {"nobody"} BY SocketOf DEF IdxInv, Socket
  <1> QED BY <1>1, SocketStays DEF IdxInv

(* A step of one call that changes one websocket keeps the others fine.     *)
LEMMA OthersLeft ==
  ASSUME IdxInv, NEW c \in Calls, \A d \in Calls : d # c => calls'[d] = calls[d], NEW s \in DOMAIN sockets,
         \A r \in DOMAIN sockets : r # s => sockets'[r] = sockets[r] /\ sockets[r].waiter # c,
         DOMAIN sockets' = DOMAIN sockets, spoilt \subseteq spoilt', SocketFine(s)'
  PROVE  \A r \in DOMAIN sockets' : SocketFine(r)'
  <1> SUFFICES ASSUME NEW r \in DOMAIN sockets, r # s PROVE SocketFine(r)' OBVIOUS
  <1>1. sockets[r].waiter \in Calls \cup {"nobody"} BY SocketOf DEF IdxInv, Socket
  <1> QED BY <1>1, SocketStays DEF IdxInv

(* A call begins to wait on a websocket where nobody waits, with what it    *)
(* needs there; nothing else happens to the websocket.                      *)
LEMMA WaiterComes ==
  ASSUME IdxInv, NEW c \in Calls, NEW s \in DOMAIN sockets, sockets[s].waiter = "nobody",
         NEW subs \in SUBSET Symbols, NEW q, q = [sockets[s] EXCEPT !.waiter = c, !.subscribed = subs],
         sockets' = [sockets EXCEPT ![s] = q], spoilt' = spoilt,
         NEW t \in CallRecord, calls' = [calls EXCEPT ![c] = t], t.on = s, t.pc \in Waits, t.pc = "rpc" => t.kind \in Kinds /\ t.id # 0,
         UNCHANGED <<socket, connected, requests, ticked>>, \A r \in DOMAIN sockets : sockets[r].waiter # c
  PROVE  IdxInv'
  <1>1. sockets[s] \in Socket /\ s \in 1 .. Len(sockets) BY SocketOf DEF IdxInv
  <1>2. q \in Socket /\ q.waiter = c /\ q.asked = sockets[s].asked /\ q.wire = sockets[s].wire /\ q.alive = sockets[s].alive
    BY <1>1 DEF Socket
  <1>3. /\ sockets' \in Seq(Socket) /\ Len(sockets') = Len(sockets) /\ DOMAIN sockets' = DOMAIN sockets
        /\ sockets'[s] = q /\ \A r \in DOMAIN sockets : r # s => sockets'[r] = sockets[r]
    BY <1>2, OneSocketChanges DEF IdxInv
  <1>4. t.pc # "login" BY DEF Waits
  <1>5. connected' \in BOOLEAN /\ requests' \in Nat /\ ticked' \in Nat /\ IdxTyped BY DEF IdxInv, IdxTyped
  <1>0. t.on \in 1 .. Len(sockets) /\ (connected' => connected \/ sockets # <<>>) /\ UNCHANGED socket BY <1>1
  <1>6. IdxTyped' /\ calls'[c] = t /\ \A d \in Calls : d # c => calls'[d] = calls[d]
    <2>1. calls' \in [Calls -> CallRecord] /\ calls'[c] = t /\ \A d \in Calls : d # c => calls'[d] = calls[d]
      BY DEF IdxInv, IdxTyped
    <2>2. sockets' # <<>>
      BY <1>0, <1>3, EmptySeq
    <2>3. \A d \in Calls : calls'[d].pc \in Waits => calls'[d].on \in 1 .. Len(sockets')
      BY <1>0, <1>3, <2>1 DEF IdxInv, IdxTyped
    <2>4. \A d \in Calls : calls'[d].pc = "rpc" => calls'[d].kind \in Kinds /\ calls'[d].id # 0
      BY <2>1 DEF IdxInv, IdxTyped
    <2> QED BY <1>0, <1>3, <1>5, <2>1, <2>2, <2>3, <2>4 DEF IdxTyped
  <1>7. SocketFine(s)' BY <1>2, <1>3, <1>6, QuietStays
  <1>8. \A r \in DOMAIN sockets' : SocketFine(r)' BY <1>3, <1>6, <1>7, OthersLeft
  <1> QED BY <1>6, <1>8 DEF IdxInv

(* A call that waited nowhere goes home.                                    *)
LEMMA CallGoesHome ==
  ASSUME IdxInv, NEW c \in Calls, calls' = [calls EXCEPT ![c] = AtHome], \A r \in DOMAIN sockets : sockets[r].waiter # c,
         UNCHANGED <<socket, sockets, requests, ticked, spoilt>>, connected' \in BOOLEAN, connected' => connected
  PROVE  IdxInv'
  <1>1. sockets' \in Seq(Socket) /\ Len(sockets') = Len(sockets) /\ requests' \in Nat /\ ticked' \in Nat BY DEF IdxInv, IdxTyped
  <1>2. IdxTyped' /\ \A d \in Calls : d # c => calls'[d] = calls[d]
    BY <1>1, HomeIsACall, OneCallMoves DEF IdxInv
  <1> QED BY <1>2, SocketsLeft DEF IdxInv

LEMMA NewestSocket ==
  ASSUME IdxInv, sockets # <<>> PROVE socket \in DOMAIN sockets
  BY EmptySeq, LenProperties DEF IdxInv, IdxTyped

LEMMA ConnectWaitsKeeps ==
  ASSUME IdxInv, NEW c \in Calls, ConnectWaits(c)
  PROVE  IdxInv'
  <1>1. calls[c].pc = "login" /\ UNCHANGED <<socket, connected, cache, requests, ticked, spoilt>> BY DEF ConnectWaits
  <1>2. calls[c].pc \notin Waits BY <1>1 DEF Waits
  <1>3. \A r \in DOMAIN sockets : sockets[r].waiter # c BY <1>2, WaiterElsewhere
  <1>4. socket \in DOMAIN sockets BY <1>1, NewestSocket DEF IdxInv, IdxTyped
  <1>5. CASE Listens(socket, c)
    <2> DEFINE t == [calls[c] EXCEPT !.pc = "auth", !.on = socket]
               q == [sockets[socket] EXCEPT !.waiter = c, !.subscribed = sockets[socket].subscribed]
    <2>1. calls[c] \in CallRecord /\ sockets[socket] \in Socket /\ socket \in Nat
      BY <1>4, CallOf, SocketOf DEF IdxInv, IdxTyped
    <2>2. t \in CallRecord /\ t.on = socket /\ t.pc = "auth" BY <2>1 DEF CallRecord
    <2>3. q = [sockets[socket] EXCEPT !.waiter = c] /\ sockets[socket].subscribed \in SUBSET Symbols BY <2>1 DEF Socket
    <2>4. sockets' = [sockets EXCEPT ![socket] = q] /\ calls' = [calls EXCEPT ![c] = t] /\ sockets[socket].waiter = "nobody"
      BY <1>5, <2>3 DEF ConnectWaits, Listens
    <2>5. t.pc \in Waits /\ t.pc # "rpc" BY <2>2 DEF Waits
    <2> HIDE DEF t
    <2> QED BY <1>1, <1>3, <1>4, <2>2, <2>3, <2>4, <2>5, WaiterComes
  <1>6. CASE ~Listens(socket, c)
    <2>1. calls' = [calls EXCEPT ![c] = AtHome] /\ sockets' = sockets BY <1>6 DEF ConnectWaits
    <2> QED BY <1>1, <1>3, <2>1, CallGoesHome DEF IdxInv, IdxTyped
  <1> QED BY <1>5, <1>6

LEMMA StreamTicksKeeps ==
  ASSUME IdxInv, NEW c \in Calls, StreamTicks(c, Symbols)
  PROVE  IdxInv'
  <1>1. calls[c].pc = "idle" /\ connected /\ UNCHANGED <<socket, requests, ticked, spoilt>> BY DEF StreamTicks
  <1>2. calls[c].pc \notin Waits BY <1>1 DEF Waits
  <1>3. \A r \in DOMAIN sockets : sockets[r].waiter # c BY <1>2, WaiterElsewhere
  <1>4. socket \in DOMAIN sockets BY <1>1, NewestSocket DEF IdxInv, IdxTyped
  <1>5. CASE Listens(socket, c)
    <2> DEFINE t == [AtHome EXCEPT !.pc = "stream", !.on = socket]
               q == [sockets[socket] EXCEPT !.waiter = c, !.subscribed = sockets[socket].subscribed \cup Symbols]
    <2>1. sockets[socket] \in Socket /\ socket \in Nat BY <1>4, SocketOf DEF IdxInv, IdxTyped
    <2>2. t \in CallRecord /\ t.on = socket /\ t.pc = "stream" BY <2>1 DEF AtHome, CallRecord
    <2>3. sockets[socket].subscribed \cup Symbols \in SUBSET Symbols BY <2>1 DEF Socket
    <2>4. sockets' = [sockets EXCEPT ![socket] = q] /\ calls' = [calls EXCEPT ![c] = t] /\ sockets[socket].waiter = "nobody"
          /\ connected' = connected
      BY <1>5 DEF StreamTicks, Listens
    <2>5. t.pc \in Waits /\ t.pc # "rpc" BY <2>2 DEF Waits
    <2> HIDE DEF t
    <2> QED BY <1>1, <1>3, <1>4, <2>2, <2>3, <2>4, <2>5, WaiterComes
  <1>6. CASE ~Listens(socket, c)
    <2>1. connected' = FALSE /\ calls' = calls /\ sockets' = sockets BY <1>6 DEF StreamTicks
    <2>2. IdxTyped' BY <1>1, <2>1 DEF IdxInv, IdxTyped
    <2> QED BY <1>1, <2>1, <2>2, <1>3, SocketsLeft DEF IdxInv
  <1> QED BY <1>5, <1>6

(* A stream that waits nowhere goes on where nobody waits, or ends.         *)
LEMMA StreamGoesOnKeeps ==
  ASSUME IdxInv, NEW c \in Calls, StreamGoesOn(c)
  PROVE  IdxInv'
  <1>1. /\ calls[c].pc = "stream" /\ sockets[calls[c].on].waiter # c /\ UNCHANGED <<socket, requests, ticked, spoilt>>
    BY DEF StreamGoesOn
  <1>2. \A r \in DOMAIN sockets : sockets[r].waiter # c
    BY <1>1, WaiterElsewhere
  <1>3. socket \in DOMAIN sockets
    <2>1. calls[c].on \in DOMAIN sockets BY <1>1, CallOf DEF IdxInv, Waits
    <2> QED BY <2>1, NewestSocket
  <1>4. CASE connected /\ Listens(socket, c)
    <2> DEFINE t == [calls[c] EXCEPT !.on = socket]
               q == [sockets[socket] EXCEPT !.waiter = c, !.subscribed = sockets[socket].subscribed]
    <2>1. calls[c] \in CallRecord /\ sockets[socket] \in Socket /\ socket \in Nat
      BY <1>3, CallOf, SocketOf DEF IdxInv, IdxTyped
    <2>2. t \in CallRecord /\ t.on = socket /\ t.pc = "stream" BY <1>1, <2>1 DEF CallRecord
    <2>3. q = [sockets[socket] EXCEPT !.waiter = c] /\ sockets[socket].subscribed \in SUBSET Symbols BY <2>1 DEF Socket
    <2>4. sockets' = [sockets EXCEPT ![socket] = q] /\ calls' = [calls EXCEPT ![c] = t] /\ sockets[socket].waiter = "nobody"
          /\ connected' = connected
      BY <1>4, <2>3 DEF StreamGoesOn, Listens
    <2>5. t.pc \in Waits /\ t.pc # "rpc" BY <2>2 DEF Waits
    <2> HIDE DEF t
    <2> QED BY <1>1, <1>2, <1>3, <2>2, <2>3, <2>4, <2>5, WaiterComes
  <1>5. CASE ~(connected /\ Listens(socket, c))
    <2>1. calls' = [calls EXCEPT ![c] = AtHome] /\ sockets' = sockets /\ connected' \in BOOLEAN /\ (connected' => connected)
      BY <1>5 DEF StreamGoesOn, IdxInv, IdxTyped
    <2> QED BY <1>1, <1>2, <2>1, CallGoesHome
  <1> QED BY <1>4, <1>5

(* A request goes out: the caller waits for the only answer, or the         *)
(* websocket is spoilt.                                                     *)
LEMMA CallKeeps ==
  ASSUME IdxInv, NEW c \in Calls, NEW k \in Kinds, NEW y \in Symbols, Call(c, k, y)
  PROVE  IdxInv'
  <1>m. PICK m : m = Request(requests + 1, k, y) OBVIOUS
  <1>a. PICK asked : asked = Append(sockets[socket].asked, m) OBVIOUS
  <1>t. PICK t : t = [pc |-> "rpc", on |-> socket, kind |-> k, symbol |-> y, id |-> requests + 1, answer |-> 0] OBVIOUS
  <1>1. calls[c].pc = "idle" /\ socket # 0 /\ sockets[socket].alive /\ requests' = requests + 1
        /\ UNCHANGED <<socket, connected, ticked>>
    BY DEF Call
  <1>2. calls[c].pc \notin Waits BY <1>1 DEF Waits
  <1>3. \A r \in DOMAIN sockets : sockets[r].waiter # c BY <1>2, WaiterElsewhere
  <1>4. socket \in DOMAIN sockets BY <1>1, EmptySeq, NewestSocket DEF IdxInv, IdxTyped
  <1>5. sockets[socket] \in Socket /\ socket \in Nat /\ requests + 1 \in Nat /\ requests' \in Nat /\ ticked' \in Nat /\ connected' \in BOOLEAN
    BY <1>1, <1>4, SocketOf DEF IdxInv, IdxTyped
  <1>b. m \in Message /\ Asks(m) /\ m.id = requests + 1
    BY <1>5, <1>m DEF Message, Request, Asks, Kinds
  <1>c. t \in CallRecord /\ t.pc = "rpc" /\ t.on = socket /\ t.kind = k /\ t.id = requests + 1
    BY <1>5, <1>t DEF CallRecord
  <1>d. t.id # 0 BY <1>c DEF IdxInv, IdxTyped
  <1>6. m \in Message /\ Asks(m) /\ m.id = requests + 1 /\ t \in CallRecord /\ t.pc = "rpc" /\ t.on = socket
        /\ t.kind = k /\ t.id = requests + 1 /\ t.id # 0
    BY <1>b, <1>c, <1>d
  <1>7. /\ asked \in Seq(Message) /\ DOMAIN asked = 1 .. Len(sockets[socket].asked) + 1 /\ Len(sockets[socket].asked) \in Nat
        /\ DOMAIN sockets[socket].asked = 1 .. Len(sockets[socket].asked)
        /\ \A i \in DOMAIN sockets[socket].asked : asked[i] = sockets[socket].asked[i]
        /\ asked[Len(sockets[socket].asked) + 1] = m
    <2>1. sockets[socket].asked \in Seq(Message) BY <1>5 DEF Socket
    <2> QED BY <2>1, <1>6, <1>a, AppendProperties, LenProperties
  <1>8. CASE Listens(socket, c)
    <2>q. PICK q : q = [sockets[socket] EXCEPT !.asked = asked, !.waiter = c] OBVIOUS
    <2>1. sockets' = [sockets EXCEPT ![socket] = q] /\ calls' = [calls EXCEPT ![c] = t] /\ spoilt' = spoilt
          /\ sockets[socket].waiter = "nobody"
      BY <1>8, <1>m, <1>a, <1>t, <2>q DEF Call, Listens
    <2>2. q \in Socket /\ q.asked = asked /\ q.waiter = c /\ q.wire = sockets[socket].wire /\ q.alive = sockets[socket].alive
      BY <1>5, <1>7, <2>q DEF Socket
    <2>3. /\ sockets' \in Seq(Socket) /\ Len(sockets') = Len(sockets) /\ DOMAIN sockets' = DOMAIN sockets
          /\ sockets'[socket] = q /\ \A r \in DOMAIN sockets : r # socket => sockets'[r] = sockets[r]
      BY <1>4, <2>1, <2>2, OneSocketChanges DEF IdxInv
    <2>4. socket \in 1 .. Len(sockets) BY <1>4, SocketOf DEF IdxInv
    <2>5. IdxTyped' /\ calls'[c] = t /\ \A d \in Calls : d # c => calls'[d] = calls[d]
      BY <1>1, <1>5, <1>6, <2>1, <2>3, <2>4, OneCallMoves DEF IdxInv
    <2>6. SocketFine(socket)'
      <3>1. q.waiter # "nobody" /\ calls'[q.waiter].on = socket /\ calls'[q.waiter].pc \in Waits
        BY <1>6, <2>2, <2>5, IdxAssumption DEF Waits
      <3>2. ASSUME socket \notin spoilt PROVE Lone(q) /\ Owned(q)'
        <4>1. /\ \A i \in DOMAIN sockets[socket].asked : ~Asks(sockets[socket].asked[i])
              /\ \A i \in DOMAIN sockets[socket].wire : ~Asks(sockets[socket].wire[i])
          BY <1>4, <2>1, <3>2, QuietSocket
        <4>2. \A i \in DOMAIN q.asked : Asks(q.asked[i]) => i = Len(sockets[socket].asked) + 1 /\ q.asked[i] = m
          BY <4>1, <2>2, <1>7
        <4>3. Mine(c, m)' BY <1>6, <2>5, IdxAssumption DEF Mine
        <4>4. Lone(q) BY <4>1, <4>2, <2>2 DEF Lone
        <4>5. Owned(q)' BY <4>1, <4>2, <4>3, <2>2 DEF Owned
        <4> QED BY <4>4, <4>5
      <3>3. Lone(sockets[socket])' <=> Lone(q) BY <2>3, <1>1 DEF Lone
      <3>4. Owned(sockets[socket])' <=> Owned(q)' BY <2>3, <1>1 DEF Owned
      <3> QED BY <1>1, <2>1, <2>2, <2>3, <3>1, <3>2, <3>3, <3>4 DEF SocketFine
    <2>7. SocketFine(socket)' /\ socket' = socket BY <2>6, <1>1
    <2>8. \A r \in DOMAIN sockets' : SocketFine(r)'
      BY <1>3, <1>4, <2>1, <2>3, <2>5, <2>7, OthersLeft
    <2> QED BY <2>5, <2>8 DEF IdxInv
  <1>9. CASE ~Listens(socket, c)
    <2>q. PICK q : q = [sockets[socket] EXCEPT !.asked = asked] OBVIOUS
    <2>1. sockets' = [sockets EXCEPT ![socket] = q] /\ calls' = calls /\ spoilt' = spoilt \cup {socket}
      BY <1>9, <1>m, <1>a, <2>q DEF Call
    <2>2. q \in Socket /\ q.waiter = sockets[socket].waiter /\ q.alive
      BY <1>1, <1>5, <1>7, <2>q DEF Socket
    <2>3. /\ sockets' \in Seq(Socket) /\ Len(sockets') = Len(sockets) /\ DOMAIN sockets' = DOMAIN sockets
          /\ sockets'[socket] = q /\ \A r \in DOMAIN sockets : r # socket => sockets'[r] = sockets[r]
      BY <1>4, <2>1, <2>2, OneSocketChanges DEF IdxInv
    <2>4. IdxTyped'
      <3>1. sockets' # <<>> BY <1>4, <2>3, EmptySeq
      <3> QED BY <1>1, <1>5, <2>1, <2>3, <3>1 DEF IdxInv, IdxTyped
    <2>5. SocketFine(socket)' BY <1>1, <1>4, <2>1, <2>2, <2>3 DEF SocketFine, IdxInv
    <2>6. \A r \in DOMAIN sockets' : SocketFine(r)'
      BY <1>1, <1>3, <1>4, <2>1, <2>3, <2>5, OthersLeft
    <2> QED BY <2>4, <2>6 DEF IdxInv
  <1> QED BY <1>8, <1>9

(* The call that waits on a websocket gives up waiting, with nothing of its *)
(* own left under way.                                                      *)
LEMMA WaiterGoes ==
  ASSUME IdxInv, NEW c \in Calls, NEW s \in DOMAIN sockets, sockets[s].waiter = c,
         NEW q \in Socket, q.waiter = "nobody", q.alive = sockets[s].alive,
         ~q.alive => q.asked = <<>> /\ q.wire = <<>>,
         s \notin spoilt' => /\ \A i \in DOMAIN q.asked : ~Asks(q.asked[i])
                             /\ \A i \in DOMAIN q.wire : ~Asks(q.wire[i]),
         sockets' = [sockets EXCEPT ![s] = q], spoilt \subseteq spoilt',
         NEW t \in CallRecord, calls' = [calls EXCEPT ![c] = t], t.pc \in Waits => t.on \in 1 .. Len(sockets),
         t.pc # "login", t.pc = "rpc" => t.kind \in Kinds /\ t.id # 0,
         UNCHANGED <<socket, requests, ticked>>, connected' \in BOOLEAN
  PROVE  IdxInv'
  <1>1. /\ sockets' \in Seq(Socket) /\ Len(sockets') = Len(sockets) /\ DOMAIN sockets' = DOMAIN sockets
        /\ sockets'[s] = q /\ \A r \in DOMAIN sockets : r # s => sockets'[r] = sockets[r]
    BY OneSocketChanges DEF IdxInv
  <1>2. calls' \in [Calls -> CallRecord] /\ calls'[c] = t /\ \A d \in Calls : d # c => calls'[d] = calls[d]
    BY DEF IdxInv, IdxTyped
  <1>3. IdxTyped'
    <2>1. sockets' # <<>>
      BY <1>1, EmptySeq
    <2>2. \A d \in Calls : calls'[d].pc \in Waits => calls'[d].on \in 1 .. Len(sockets')
      BY <1>1, <1>2 DEF IdxInv, IdxTyped
    <2>3. \A d \in Calls : calls'[d].pc = "rpc" => calls'[d].kind \in Kinds /\ calls'[d].id # 0
      BY <1>2 DEF IdxInv, IdxTyped
    <2> QED BY <1>1, <1>2, <2>1, <2>2, <2>3 DEF IdxInv, IdxTyped
  <1>4. SocketFine(s)'
    <2>1. Lone(sockets[s])' <=> Lone(q) BY <1>1 DEF Lone
    <2>2. s \notin spoilt' => Lone(q) BY DEF Lone
    <2>3. s \notin spoilt' => Owned(sockets[s])' BY <1>1 DEF Owned
    <2> QED BY <1>1, <2>1, <2>2, <2>3 DEF SocketFine
  <1>5. \A r \in DOMAIN sockets : r # s => sockets[r].waiter # c
    BY IdxAssumption DEF IdxInv, SocketFine
  <1>6. \A r \in DOMAIN sockets' : SocketFine(r)'
    BY <1>1, <1>2, <1>4, <1>5, OthersLeft
  <1> QED BY <1>3, <1>6 DEF IdxInv

(* Nothing is left after a time-out or a break, unless the websocket is      *)
(* spoilt.                                                                   *)
LEMMA TimesOutKeeps ==
  ASSUME IdxInv, NEW c \in Calls, TimesOut(c)
  PROVE  IdxInv'
  <1>s. PICK s : s = calls[c].on OBVIOUS
  <1>1. /\ calls[c].pc \in Waits /\ sockets[s].waiter = c /\ sockets[s].alive
        /\ sockets' = [sockets EXCEPT ![s].waiter = "nobody"]
        /\ calls' = IF calls[c].pc = "stream" THEN calls ELSE [calls EXCEPT ![c] = AtHome]
        /\ spoilt' = IF calls[c].pc = "stream" THEN spoilt ELSE spoilt \cup {s}
        /\ UNCHANGED <<socket, connected, requests, ticked>>
    BY <1>s DEF TimesOut, Waits
  <1>2. calls[c] \in CallRecord /\ s \in DOMAIN sockets BY <1>1, <1>s, CallOf DEF IdxInv
  <1>3. sockets[s] \in Socket /\ s \in 1 .. Len(sockets) BY <1>2, SocketOf DEF IdxInv
  <1>q. PICK q : q = [sockets[s] EXCEPT !.waiter = "nobody"] OBVIOUS
  <1>4. q \in Socket /\ q.waiter = "nobody" /\ q.alive = sockets[s].alive /\ q.asked = sockets[s].asked /\ q.wire = sockets[s].wire
    BY <1>3, <1>q DEF Socket
  <1>5. sockets' = [sockets EXCEPT ![s] = q] BY <1>1, <1>q
  <1>6. s \notin spoilt' => /\ \A i \in DOMAIN q.asked : ~Asks(q.asked[i])
                            /\ \A i \in DOMAIN q.wire : ~Asks(q.wire[i])
    BY <1>1, <1>2, <1>4, QuietSocket
  <1>t. PICK t : t = IF calls[c].pc = "stream" THEN calls[c] ELSE AtHome OBVIOUS
  <1>7. t \in CallRecord /\ (t.pc \in Waits => t.on \in 1 .. Len(sockets)) /\ t.pc # "login" /\ t.pc # "rpc"
    BY <1>2, <1>3, <1>s, <1>t, HomeIsACall
  <1>8. calls' = [calls EXCEPT ![c] = t]
    BY <1>1, <1>t DEF IdxInv, IdxTyped
  <1>9. connected' \in BOOLEAN /\ spoilt \subseteq spoilt' BY <1>1 DEF IdxInv, IdxTyped
  <1>x. sockets[s].waiter = c /\ q.alive /\ UNCHANGED <<socket, requests, ticked>> BY <1>1, <1>4
  <1>y. s \in DOMAIN sockets /\ q \in Socket /\ q.waiter = "nobody" /\ q.alive = sockets[s].alive BY <1>2, <1>4
  <1> QED BY <1>x, <1>y, <1>5, <1>6, <1>7, <1>8, <1>9, WaiterGoes

LEMMA BrokenKeeps ==
  ASSUME IdxInv, NEW c \in Calls, Broken(c)
  PROVE  IdxInv'
  <1>s. PICK s : s = calls[c].on OBVIOUS
  <1>1. /\ calls[c].pc \in Waits /\ sockets[s].waiter = c /\ ~sockets[s].alive
        /\ sockets' = [sockets EXCEPT ![s].waiter = "nobody"]
        /\ calls' = [calls EXCEPT ![c] = AtHome]
        /\ UNCHANGED <<socket, requests, ticked, spoilt>> /\ connected' \in BOOLEAN
    BY <1>s DEF Broken, Waits
  <1>2. calls[c] \in CallRecord /\ s \in DOMAIN sockets BY <1>1, <1>s, CallOf DEF IdxInv
  <1>3. sockets[s] \in Socket /\ s \in 1 .. Len(sockets) BY <1>2, SocketOf DEF IdxInv
  <1>q. PICK q : q = [sockets[s] EXCEPT !.waiter = "nobody"] OBVIOUS
  <1>4. q \in Socket /\ q.waiter = "nobody" /\ q.alive = sockets[s].alive /\ q.asked = sockets[s].asked /\ q.wire = sockets[s].wire
    BY <1>3, <1>q DEF Socket
  <1>5. sockets' = [sockets EXCEPT ![s] = q] BY <1>1, <1>q
  <1>6. q.asked = <<>> /\ q.wire = <<>>
    BY <1>1, <1>2, <1>4 DEF IdxInv, SocketFine
  <1>7. /\ \A i \in DOMAIN q.asked : ~Asks(q.asked[i])
        /\ \A i \in DOMAIN q.wire : ~Asks(q.wire[i])
    BY <1>6
  <1>8. AtHome.pc \notin Waits /\ AtHome.pc # "login" /\ AtHome.pc # "rpc" BY HomeIsACall
  <1>t. PICK t : t = AtHome OBVIOUS
  <1>9. t \in CallRecord /\ calls' = [calls EXCEPT ![c] = t] /\ t.pc \notin Waits /\ t.pc # "login" /\ t.pc # "rpc"
    BY <1>1, <1>8, <1>t, HomeIsACall
  <1>x. sockets[s].waiter = c /\ spoilt \subseteq spoilt' /\ connected' \in BOOLEAN /\ UNCHANGED <<socket, requests, ticked>> BY <1>1
  <1>y. s \in DOMAIN sockets /\ q \in Socket /\ q.waiter = "nobody" /\ q.alive = sockets[s].alive BY <1>2, <1>4
  <1> QED BY <1>x, <1>y, <1>5, <1>6, <1>7, <1>9, WaiterGoes

(* What a call makes of the message it gets: an answer only of its kind.    *)
LEMMA ReceiveOfCall ==
  ASSUME IdxInv, NEW c \in Calls, Receive(c)
  PROVE  \E t \in CallRecord :
           /\ calls' = [calls EXCEPT ![c] = t] /\ (t.pc \in Waits => t.on = calls[c].on) /\ t.pc # "login" /\ t.pc # "rpc"
           /\ t.pc = "returned" => /\ calls[c].pc = "rpc" /\ t.answer = Head(sockets[calls[c].on].wire).id
                                   /\ Head(sockets[calls[c].on].wire).kind = calls[c].kind
                                   /\ t.id = calls[c].id
  <1>s. PICK s, m : s = calls[c].on /\ m = Head(sockets[s].wire) OBVIOUS
  <1>1. calls[c].pc \in Waits /\ sockets[s].wire # <<>> BY <1>s DEF Receive, Waits
  <1>2. calls[c] \in CallRecord /\ s \in DOMAIN sockets BY <1>1, <1>s, CallOf DEF IdxInv
  <1>3. sockets[s] \in Socket BY <1>2, SocketOf DEF IdxInv
  <1>4. m \in Message BY <1>1, <1>3, <1>s, HeadTailProperties DEF Socket
  <1>5. m.id \in Nat BY <1>4 DEF Message
  <1>6. CASE calls[c].pc = "stream"
    <2>1. calls' = calls BY <1>6 DEF Receive
    <2>2. calls' = [calls EXCEPT ![c] = calls[c]] BY <2>1 DEF IdxInv, IdxTyped
    <2> QED BY <1>2, <1>6, <2>2
  <1>7. CASE calls[c].pc = "auth"
    <2>1. calls' = [calls EXCEPT ![c] = AtHome] BY <1>7 DEF Receive
    <2> QED BY <2>1, HomeIsACall
  <1>8. CASE calls[c].pc = "rpc"
    <2>t. PICK t : t = [calls[c] EXCEPT !.pc = "returned", !.answer = m.id] OBVIOUS
    <2>1. t \in CallRecord /\ t.pc = "returned" /\ t.answer = m.id /\ t.id = calls[c].id BY <1>2, <1>5, <2>t DEF CallRecord
    <2>2. calls' = [calls EXCEPT ![c] = IF m.kind = calls[c].kind THEN t ELSE AtHome]
      BY <1>s, <1>8, <2>t DEF Receive, Accepts
    <2>3. CASE m.kind = calls[c].kind
      <3>1. calls' = [calls EXCEPT ![c] = t] BY <2>2, <2>3
      <3> QED BY <1>s, <1>8, <2>1, <2>3, <3>1 DEF Waits
    <2>4. CASE m.kind # calls[c].kind
      <3>1. calls' = [calls EXCEPT ![c] = AtHome] BY <2>2, <2>4
      <3> QED BY <3>1, HomeIsACall
    <2> QED BY <2>3, <2>4
  <1> QED BY <1>1, <1>6, <1>7, <1>8 DEF Waits

(* On a websocket that is not spoilt and does not become so, the message a  *)
(* call gets is its own answer or asks for nothing, so nothing is left.     *)
LEMMA ReceiveKeeps ==
  ASSUME IdxInv, NEW c \in Calls, Receive(c)
  PROVE  IdxInv'
  <1>s. PICK s, m : s = calls[c].on /\ m = Head(sockets[s].wire) OBVIOUS
  <1>1. /\ calls[c].pc \in Waits /\ sockets[s].wire # <<>> /\ sockets[s].alive /\ sockets[s].waiter = c
        /\ sockets' = [sockets EXCEPT ![s].wire = Tail(@), ![s].waiter = "nobody"]
        /\ spoilt' = IF IF m.kind = "tick" THEN calls[c].pc = "rpc" ELSE calls[c].pc = "stream" \/ m.id # calls[c].id
                     THEN spoilt \cup {s} ELSE spoilt
        /\ UNCHANGED <<socket, requests, ticked>>
    BY <1>s DEF Receive, Waits
  <1>2. calls[c] \in CallRecord /\ s \in DOMAIN sockets BY <1>1, <1>s, CallOf DEF IdxInv
  <1>3. sockets[s] \in Socket /\ s \in 1 .. Len(sockets) BY <1>2, SocketOf DEF IdxInv
  <1>w. sockets[s].wire \in Seq(Message) BY <1>3 DEF Socket
  <1>4. /\ m \in Message /\ Tail(sockets[s].wire) \in Seq(Message)
        /\ Len(Tail(sockets[s].wire)) = Len(sockets[s].wire) - 1
        /\ \A i \in 1 .. Len(Tail(sockets[s].wire)) : Tail(sockets[s].wire)[i] = sockets[s].wire[i + 1]
        /\ m = sockets[s].wire[1] /\ 1 \in DOMAIN sockets[s].wire
        /\ DOMAIN Tail(sockets[s].wire) = 1 .. Len(Tail(sockets[s].wire))
        /\ DOMAIN sockets[s].wire = 1 .. Len(sockets[s].wire) /\ Len(sockets[s].wire) \in Nat
    <2>1. Len(sockets[s].wire) \in Nat \ {0} BY <1>1, <1>w, EmptySeq
    <2> QED BY <1>1, <1>s, <1>w, <2>1, HeadTailProperties, LenProperties
  <1>q. PICK q : q = [sockets[s] EXCEPT !.wire = Tail(@), !.waiter = "nobody"] OBVIOUS
  <1>5. q \in Socket /\ q.waiter = "nobody" /\ q.alive = sockets[s].alive /\ q.asked = sockets[s].asked /\ q.wire = Tail(sockets[s].wire)
    BY <1>3, <1>4, <1>q DEF Socket
  <1>6. sockets' = [sockets EXCEPT ![s] = q] BY <1>1, <1>q
  <1>7. ASSUME s \notin spoilt'
        PROVE  /\ \A i \in DOMAIN q.asked : ~Asks(q.asked[i])
               /\ \A i \in DOMAIN q.wire : ~Asks(q.wire[i])
    <2>1. s \notin spoilt /\ Lone(sockets[s]) /\ Owned(sockets[s])
      BY <1>1, <1>2, <1>7 DEF IdxInv, SocketFine
    <2>2. CASE calls[c].pc # "rpc"
      <3>1. /\ \A i \in DOMAIN sockets[s].asked : ~Asks(sockets[s].asked[i])
            /\ \A i \in DOMAIN sockets[s].wire : ~Asks(sockets[s].wire[i])
        BY <1>1, <1>2, <2>1, <2>2, QuietSocket
      <3>2. ASSUME NEW i \in DOMAIN q.wire PROVE ~Asks(q.wire[i])
        <4>1. i + 1 \in DOMAIN sockets[s].wire /\ q.wire[i] = sockets[s].wire[i + 1] BY <1>4, <1>5
        <4> QED BY <3>1, <4>1
      <3>3. \A i \in DOMAIN q.asked : ~Asks(q.asked[i]) BY <1>5, <3>1
      <3> QED BY <3>2, <3>3
    <2>3. CASE calls[c].pc = "rpc"
      <3>1. m.kind # "tick" /\ m.id = calls[c].id BY <1>1, <1>7, <2>3
      <3>2. calls[c].id # 0 BY <2>3 DEF IdxInv, IdxTyped
      <3>3. Asks(m) BY <1>4, <3>1, <3>2 DEF Message, Asks
      <3>4. \A i \in DOMAIN sockets[s].asked : ~Asks(sockets[s].asked[i])
        BY <1>4, <2>1, <3>3 DEF Lone
      <3>5. \A i \in DOMAIN sockets[s].wire : Asks(sockets[s].wire[i]) => i = 1
        BY <1>4, <2>1, <3>3 DEF Lone
      <3> QED BY <1>4, <1>5, <3>4, <3>5
    <2> QED BY <2>2, <2>3
  <1>t. PICK t \in CallRecord :
           /\ calls' = [calls EXCEPT ![c] = t] /\ (t.pc \in Waits => t.on = s) /\ t.pc # "login" /\ t.pc # "rpc"
    BY <1>s, ReceiveOfCall
  <1>8. t.pc \in Waits => t.on \in 1 .. Len(sockets) BY <1>t, <1>3
  <1>9. connected' \in BOOLEAN /\ spoilt \subseteq spoilt' BY <1>1 DEF IdxInv, IdxTyped, Receive
  <1>x. sockets[s].waiter = c /\ q.alive /\ UNCHANGED <<socket, requests, ticked>> BY <1>1, <1>5
  <1>y. s \in DOMAIN sockets /\ q \in Socket /\ q.waiter = "nobody" /\ q.alive = sockets[s].alive BY <1>2, <1>5
  <1>z. t \in CallRecord /\ calls' = [calls EXCEPT ![c] = t] /\ t.pc # "login" /\ t.pc # "rpc" BY <1>t
  <1> QED BY <1>x, <1>y, <1>6, <1>7, <1>8, <1>9, <1>z, WaiterGoes

LEMMA CallerTakesKeeps ==
  ASSUME IdxInv, NEW c \in Calls, CallerTakes(c)
  PROVE  IdxInv'
  <1>1. calls[c].pc \notin Waits BY DEF CallerTakes, Waits
  <1>2. \A r \in DOMAIN sockets : sockets[r].waiter # c BY <1>1, WaiterElsewhere
  <1>3. calls' = [calls EXCEPT ![c] = AtHome] /\ UNCHANGED <<socket, sockets, requests, ticked, spoilt>>
        /\ connected' \in BOOLEAN /\ (connected' => connected)
    BY DEF CallerTakes, IdxInv, IdxTyped
  <1> QED BY <1>2, <1>3, CallGoesHome

(* The exchange or the network changes one websocket and no call.           *)
LEMMA OneSocketMoves ==
  ASSUME IdxInv, NEW s \in DOMAIN sockets, NEW q \in Socket, sockets' = [sockets EXCEPT ![s] = q],
         UNCHANGED <<socket, calls, requests, spoilt>>, connected' \in BOOLEAN, connected' => connected, ticked' \in Nat,
         q.waiter = sockets[s].waiter, ~q.alive => q.asked = <<>> /\ q.wire = <<>>,
         s \notin spoilt => Lone(q) /\ Owned(q)
  PROVE  IdxInv'
  <1>1. /\ sockets' \in Seq(Socket) /\ Len(sockets') = Len(sockets) /\ DOMAIN sockets' = DOMAIN sockets
        /\ sockets'[s] = q /\ \A r \in DOMAIN sockets : r # s => sockets'[r] = sockets[r]
    BY OneSocketChanges DEF IdxInv
  <1>2. IdxTyped'
    <2>1. sockets' # <<>> BY <1>1, EmptySeq
    <2> QED BY <1>1, <2>1 DEF IdxInv, IdxTyped
  <1>3. SocketFine(s)'
    <2>1. Lone(sockets[s])' <=> Lone(q) BY <1>1 DEF Lone
    <2>2. Owned(sockets[s])' <=> Owned(q) BY <1>1 DEF Owned, Mine
    <2> QED BY <1>1, <2>1, <2>2 DEF SocketFine, IdxInv
  <1>4. ASSUME NEW r \in DOMAIN sockets, r # s PROVE SocketFine(r)'
    <2>1. SocketFine(r) /\ sockets'[r] = sockets[r] /\ spoilt \subseteq spoilt' BY <1>1, <1>4 DEF IdxInv
    <2> QED BY <2>1, SocketStays
  <1> QED BY <1>1, <1>2, <1>3, <1>4 DEF IdxInv

(* A closed websocket delivers nothing more.                                *)
LEMMA ClosedKeeps ==
  ASSUME IdxInv, NEW s \in DOMAIN sockets, sockets' = Closed(s),
         UNCHANGED <<socket, calls, requests, spoilt, ticked>>, connected' \in BOOLEAN, connected' => connected
  PROVE  IdxInv'
  <1>1. sockets[s] \in Socket BY SocketOf DEF IdxInv
  <1>q. PICK q : q = [NewSocket EXCEPT !.alive = FALSE, !.waiter = sockets[s].waiter] OBVIOUS
  <1>2. q \in Socket /\ ~q.alive /\ q.asked = <<>> /\ q.wire = <<>> /\ q.waiter = sockets[s].waiter
    BY <1>1, <1>q, EmptySeq DEF NewSocket, Socket
  <1>3. sockets' = [sockets EXCEPT ![s] = q] BY <1>q DEF Closed
  <1>4. Lone(q) /\ Owned(q)
    <2>1. DOMAIN q.asked = {} /\ DOMAIN q.wire = {} BY <1>2
    <2> QED BY <2>1 DEF Lone, Owned
  <1>5. ticked' \in Nat /\ UNCHANGED <<socket, calls, requests, spoilt>> BY DEF IdxInv, IdxTyped
  <1> QED BY <1>2, <1>3, <1>4, <1>5, OneSocketMoves

LEMMA DisconnectKeeps ==
  ASSUME IdxInv, ClientDisconnects
  PROVE  IdxInv'
  <1>1. socket # 0 /\ sockets' = Closed(socket) /\ UNCHANGED <<socket, calls, requests, spoilt, ticked>>
        /\ connected' \in BOOLEAN /\ (connected' => connected)
    BY DEF ClientDisconnects
  <1>2. socket \in DOMAIN sockets BY <1>1, EmptySeq, NewestSocket DEF IdxInv, IdxTyped
  <1> QED BY <1>1, <1>2, ClosedKeeps

(* The exchange answers, or sends a tick, or closes.                        *)
LEMMA ExchangeKeeps ==
  ASSUME IdxInv, Exchange
  PROVE  IdxInv'
  <1>1. PICK s \in DOMAIN sockets :
          /\ sockets[s].alive /\ UNCHANGED <<socket, connected, calls, requests, spoilt>>
          /\ \/ /\ sockets[s].asked # <<>> /\ UNCHANGED ticked
                /\ sockets' = [sockets EXCEPT ![s].asked = Tail(@), ![s].wire = Append(@, Head(sockets[s].asked))]
             \/ /\ \E y \in sockets[s].subscribed :
                     sockets' = [sockets EXCEPT ![s].wire = Append(@, Request(ticked + 1, "tick", y))]
                /\ ticked' = ticked + 1
             \/ sockets' = Closed(s) /\ UNCHANGED ticked
    BY DEF Exchange
  <1>2. sockets[s] \in Socket BY SocketOf DEF IdxInv
  <1>3. sockets[s].asked \in Seq(Message) /\ sockets[s].wire \in Seq(Message) BY <1>2 DEF Socket
  <1>4. s \notin spoilt => Lone(sockets[s]) /\ Owned(sockets[s]) BY DEF IdxInv, SocketFine
  <1>5. connected' \in BOOLEAN /\ (connected' => connected) BY <1>1 DEF IdxInv, IdxTyped
  <1>c. UNCHANGED <<socket, calls, requests, spoilt>> BY <1>1
  <1>d. DOMAIN sockets[s].wire = 1 .. Len(sockets[s].wire) /\ DOMAIN sockets[s].asked = 1 .. Len(sockets[s].asked)
        /\ Len(sockets[s].wire) \in Nat /\ Len(sockets[s].asked) \in Nat
    BY <1>3, LenProperties
  <1>6. CASE sockets' = Closed(s) /\ UNCHANGED ticked
    <2>1. UNCHANGED <<socket, calls, requests, spoilt, ticked>> BY <1>c, <1>6
    <2> QED BY <1>5, <1>6, <2>1, ClosedKeeps
  <1>7. ASSUME NEW y \in sockets[s].subscribed, ticked' = ticked + 1,
               sockets' = [sockets EXCEPT ![s].wire = Append(@, Request(ticked + 1, "tick", y))]
        PROVE  IdxInv'
    <2>m. PICK m : m = Request(ticked + 1, "tick", y) OBVIOUS
    <2>1. m \in Message /\ ~Asks(m) /\ ticked' \in Nat
      <3>1. y \in Symbols /\ ticked \in Nat BY <1>2, <1>7 DEF Socket, IdxInv, IdxTyped
      <3> QED BY <1>7, <2>m, <3>1 DEF Request, Message, Asks, Kinds
    <2>2. /\ Append(sockets[s].wire, m) \in Seq(Message) /\ DOMAIN Append(sockets[s].wire, m) = 1 .. Len(sockets[s].wire) + 1
          /\ \A i \in 1 .. Len(sockets[s].wire) : Append(sockets[s].wire, m)[i] = sockets[s].wire[i]
          /\ Append(sockets[s].wire, m)[Len(sockets[s].wire) + 1] = m
      BY <1>3, <2>1, AppendProperties, LenProperties
    <2>q. PICK q : q = [sockets[s] EXCEPT !.wire = Append(@, m)] OBVIOUS
    <2>3. q \in Socket /\ q.alive = sockets[s].alive /\ q.asked = sockets[s].asked /\ q.wire = Append(sockets[s].wire, m)
          /\ q.waiter = sockets[s].waiter
      BY <1>2, <2>2, <2>q DEF Socket
    <2>4. sockets' = [sockets EXCEPT ![s] = q] BY <1>7, <2>m, <2>q
    <2>5. \A i \in DOMAIN q.wire : Asks(q.wire[i]) => i \in DOMAIN sockets[s].wire /\ q.wire[i] = sockets[s].wire[i]
      BY <1>d, <2>1, <2>2, <2>3
    <2>6. ASSUME s \notin spoilt PROVE Lone(q) /\ Owned(q)
      <3>1. Lone(sockets[s]) /\ Owned(sockets[s]) BY <1>4, <2>6
      <3>2. Lone(q) BY <2>3, <2>5, <3>1 DEF Lone
      <3>3. Owned(q) BY <2>3, <2>5, <3>1 DEF Owned
      <3> QED BY <3>2, <3>3
    <2>7. q \in Socket /\ q.alive /\ q.waiter = sockets[s].waiter /\ ticked' \in Nat BY <1>1, <2>1, <2>3
    <2> QED BY <1>5, <1>c, <2>4, <2>6, <2>7, OneSocketMoves
  <1>8. CASE /\ sockets[s].asked # <<>> /\ UNCHANGED ticked
             /\ sockets' = [sockets EXCEPT ![s].asked = Tail(@), ![s].wire = Append(@, Head(sockets[s].asked))]
    <2>m. PICK m : m = Head(sockets[s].asked) OBVIOUS
    <2>1. /\ m \in Message /\ Tail(sockets[s].asked) \in Seq(Message) /\ m = sockets[s].asked[1] /\ 1 \in DOMAIN sockets[s].asked
          /\ DOMAIN Tail(sockets[s].asked) = 1 .. Len(sockets[s].asked) - 1
          /\ \A i \in 1 .. Len(sockets[s].asked) - 1 : Tail(sockets[s].asked)[i] = sockets[s].asked[i + 1]
      <3>1. Len(sockets[s].asked) \in Nat \ {0} BY <1>3, <1>8, EmptySeq
      <3> QED BY <1>3, <1>8, <1>d, <2>m, <3>1, HeadTailProperties, LenProperties
    <2>2. /\ Append(sockets[s].wire, m) \in Seq(Message) /\ DOMAIN Append(sockets[s].wire, m) = 1 .. Len(sockets[s].wire) + 1
          /\ \A i \in 1 .. Len(sockets[s].wire) : Append(sockets[s].wire, m)[i] = sockets[s].wire[i]
          /\ Append(sockets[s].wire, m)[Len(sockets[s].wire) + 1] = m
      BY <1>3, <2>1, AppendProperties, LenProperties
    <2>q. PICK q : q = [sockets[s] EXCEPT !.asked = Tail(@), !.wire = Append(@, m)] OBVIOUS
    <2>3. q \in Socket /\ q.alive = sockets[s].alive /\ q.asked = Tail(sockets[s].asked) /\ q.wire = Append(sockets[s].wire, m)
          /\ q.waiter = sockets[s].waiter
      BY <1>2, <2>1, <2>2, <2>q DEF Socket
    <2>4. sockets' = [sockets EXCEPT ![s] = q] BY <1>8, <2>m, <2>q
    <2>5. \A i \in DOMAIN q.asked : i + 1 \in DOMAIN sockets[s].asked /\ q.asked[i] = sockets[s].asked[i + 1] /\ i + 1 # 1 /\ i \in Nat
      BY <1>d, <2>1, <2>3
    <2>6. \A i \in DOMAIN q.wire : \/ i \in DOMAIN sockets[s].wire /\ q.wire[i] = sockets[s].wire[i]
                                   \/ i = Len(sockets[s].wire) + 1 /\ q.wire[i] = sockets[s].asked[1]
      BY <1>d, <2>1, <2>2, <2>3
    <2>7. ASSUME s \notin spoilt PROVE Lone(q) /\ Owned(q)
      <3>1. Lone(sockets[s]) /\ Owned(sockets[s]) BY <1>4, <2>7
      <3>2. ASSUME NEW i \in DOMAIN q.asked, NEW j \in DOMAIN q.asked, Asks(q.asked[i]), Asks(q.asked[j]) PROVE i = j
        <4>1. i + 1 = j + 1 BY <2>5, <3>1, <3>2 DEF Lone
        <4> QED BY <2>5, <4>1
      <3>3. ASSUME NEW i \in DOMAIN q.wire, NEW j \in DOMAIN q.wire, Asks(q.wire[i]), Asks(q.wire[j]) PROVE i = j
        BY <2>1, <2>6, <3>1, <3>3 DEF Lone
      <3>4. ASSUME NEW i \in DOMAIN q.asked, NEW j \in DOMAIN q.wire PROVE ~(Asks(q.asked[i]) /\ Asks(q.wire[j]))
        BY <2>1, <2>5, <2>6, <3>1 DEF Lone
      <3>5. Lone(q) BY <3>2, <3>3, <3>4 DEF Lone
      <3>6. ASSUME NEW i \in DOMAIN q.asked, Asks(q.asked[i]) PROVE Mine(q.waiter, q.asked[i])
        BY <2>3, <2>5, <3>1, <3>6 DEF Owned
      <3>7. ASSUME NEW i \in DOMAIN q.wire, Asks(q.wire[i]) PROVE Mine(q.waiter, q.wire[i])
        BY <2>1, <2>3, <2>6, <3>1, <3>7 DEF Owned
      <3> QED BY <3>5, <3>6, <3>7 DEF Owned
    <2>8. q \in Socket /\ q.alive /\ q.waiter = sockets[s].waiter /\ ticked' \in Nat BY <1>1, <1>8, <2>3 DEF IdxInv, IdxTyped
    <2> QED BY <1>5, <1>c, <2>4, <2>7, <2>8, OneSocketMoves
  <1> QED BY <1>1, <1>6, <1>7, <1>8

LEMMA IdxKeeps == IdxInv /\ [IdxNext]_idxVars => IdxInv'
  <1> SUFFICES ASSUME IdxInv, [IdxNext]_idxVars PROVE IdxInv' OBVIOUS
  <1>1. ASSUME NEW c \in Calls, NEW k \in Kinds, NEW y \in Symbols, Call(c, k, y) PROVE IdxInv' BY <1>1, CallKeeps
  <1>2. ASSUME NEW c \in Calls, ConnectBegins(c) \/ ConnectWaits(c) \/ Receive(c) \/ StreamGoesOn(c) PROVE IdxInv'
    BY <1>2, ConnectBeginsKeeps, ConnectWaitsKeeps, ReceiveKeeps, StreamGoesOnKeeps
  <1>3. ASSUME NEW c \in Calls, TimesOut(c) \/ Broken(c) \/ CallerTakes(c) \/ StreamTicks(c, Symbols) PROVE IdxInv'
    BY <1>3, TimesOutKeeps, BrokenKeeps, CallerTakesKeeps, StreamTicksKeeps
  <1>4. CASE ClearCache BY <1>4 DEF ClearCache, IdxInv, IdxTyped, SocketFine, Owned, Lone, Mine
  <1>5. CASE UNCHANGED idxVars BY <1>5 DEF idxVars, IdxInv, IdxTyped, SocketFine, Owned, Lone, Mine
  <1>6. CASE ClientDisconnects BY <1>6, DisconnectKeeps
  <1>7. CASE Exchange BY <1>7, ExchangeKeeps
  <1> QED BY <1>1, <1>2, <1>3, <1>4, <1>5, <1>6, <1>7 DEF IdxNext

(* Only receiving makes a call return, and what it returns is the answer to *)
(* its own request: on a websocket that is not spoilt nothing else of that  *)
(* kind is under way.                                                       *)
LEMMA ReturnsOwn ==
  ASSUME IdxInv, IdxNext, NEW c \in Calls, calls[c].pc = "rpc", calls'[c].pc = "returned", calls[c].on \notin spoilt
  PROVE  calls'[c].answer = calls[c].id
  <1>1. Receive(c)
    <2>1. calls \in [Calls -> CallRecord] BY DEF IdxInv, IdxTyped
    <2>2. AtHome.pc # "returned" BY HomeIsACall
    <2>3. ASSUME NEW d \in Calls, ConnectBegins(d) \/ ConnectWaits(d) \/ StreamGoesOn(d) \/ TimesOut(d) \/ Broken(d) \/ CallerTakes(d)
                                   \/ StreamTicks(d, Symbols)
          PROVE  FALSE
      BY <2>1, <2>2, <2>3 DEF ConnectBegins, ConnectWaits, StreamGoesOn, TimesOut, Broken, CallerTakes, StreamTicks, AtHome, CallRecord
    <2>4. ASSUME NEW d \in Calls, NEW k \in Kinds, NEW y \in Symbols, Call(d, k, y) PROVE FALSE
      BY <2>1, <2>4 DEF Call
    <2>5. ~(ClearCache \/ ClientDisconnects \/ Exchange) BY DEF ClearCache, ClientDisconnects, Exchange
    <2>6. ASSUME NEW d \in Calls, Receive(d) PROVE d = c
      <3>1. \E t : calls' = [calls EXCEPT ![d] = t] BY <2>6, ReceiveOfCall
      <3> QED BY <2>1, <3>1
    <2> QED BY <2>3, <2>4, <2>5, <2>6 DEF IdxNext
  <1>s. PICK s, m : s = calls[c].on /\ m = Head(sockets[s].wire) OBVIOUS
  <1>2. sockets[s].wire # <<>> /\ sockets[s].waiter = c BY <1>1, <1>s DEF Receive
  <1>3. s \in DOMAIN sockets BY <1>s, CallOf DEF IdxInv, Waits
  <1>4. sockets[s].wire \in Seq(Message) BY <1>3, SocketOf DEF IdxInv, Socket
  <1>5. m = sockets[s].wire[1] /\ 1 \in DOMAIN sockets[s].wire
    <2>1. Len(sockets[s].wire) \in Nat \ {0} BY <1>2, <1>4, EmptySeq
    <2> QED BY <1>2, <1>4, <1>s, <2>1, LenProperties
  <1>6. PICK t \in CallRecord :
           /\ calls' = [calls EXCEPT ![c] = t]
           /\ t.pc = "returned" => t.answer = m.id /\ m.kind = calls[c].kind
    BY <1>1, <1>s, ReceiveOfCall
  <1>7. calls'[c] = t BY <1>6 DEF IdxInv, IdxTyped
  <1>8. Asks(m) BY <1>6, <1>7 DEF Asks, IdxInv, IdxTyped
  <1>9. Mine(c, m) BY <1>2, <1>3, <1>5, <1>8, <1>s DEF IdxInv, SocketFine, Owned
  <1> QED BY <1>6, <1>7, <1>9 DEF Mine

(* A call's answer is the answer to its own request, unless the websocket   *)
(* was spoilt before.                                                       *)
THEOREM AnswersAreTheCalls == IdxSpec => AnswersAreOurs
  <1>1. IdxInit => IdxInv BY IdxInitially
  <1>2. IdxInv /\ [IdxNext]_idxVars => IdxInv' BY IdxKeeps
  <1>3. IdxInv /\ [IdxNext]_idxVars =>
          [\A c \in Calls : calls[c].pc = "rpc" /\ calls'[c].pc = "returned" /\ calls[c].on \notin spoilt =>
             calls'[c].answer = calls[c].id]_idxVars
    BY ReturnsOwn
  <1> QED BY <1>1, <1>2, <1>3, PTL DEF IdxSpec, AnswersAreOurs

-----------------------------------------------------------------------------
(* The cache keeps ticks with numbers, and the last one is the latest.      *)
CacheInv ==
  /\ cache \in [Symbols -> [ticks : Seq(Nat), latest : Nat]]
  /\ LatestIsLast

(* Dropping the oldest ticks keeps the last.                                *)
LEMMA NewestKeepsLast ==
  ASSUME NEW q \in Seq(Nat), Len(q) > CacheSize
  PROVE  KeepsNewest(q) \in Seq(Nat) /\ KeepsNewest(q) # <<>> /\ KeepsNewest(q)[Len(KeepsNewest(q))] = q[Len(q)]
  <1>1. CacheSize \in Nat \ {0} /\ Len(q) \in Nat BY IdxAssumption, LenProperties
  <1>2. \A i \in Len(q) - CacheSize + 1 .. Len(q) : q[i] \in Nat BY <1>1, ElementOfSeq
  <1>3. /\ KeepsNewest(q) \in Seq(Nat) /\ Len(KeepsNewest(q)) = CacheSize
        /\ \A i \in 1 .. CacheSize : KeepsNewest(q)[i] = q[Len(q) - CacheSize + i]
    <2>1. Len(q) - CacheSize + 1 <= Len(q) /\ Len(q) - CacheSize + 1 \in Int /\ Len(q) \in Int BY <1>1
    <2>2. /\ KeepsNewest(q) \in Seq(Nat) /\ Len(KeepsNewest(q)) = Len(q) - (Len(q) - CacheSize + 1) + 1
          /\ \A i \in 1 .. Len(q) - (Len(q) - CacheSize + 1) + 1 : KeepsNewest(q)[i] = q[Len(q) - CacheSize + 1 + i - 1]
      BY <1>2, <2>1, SubSeqProperties DEF KeepsNewest
    <2> QED BY <1>1, <2>2
  <1> QED BY <1>1, <1>3, EmptySeq

LEMMA CacheKeeps ==
  ASSUME IdxInv, CacheInv, [IdxNext]_idxVars
  PROVE  CacheInv'
  <1>1. ASSUME cache' # cache, ~ClearCache
        PROVE  \E m \in Message : AddTick(m)
    <2>1. PICK c \in Calls : Receive(c)
      BY <1>1 DEF IdxNext, idxVars, ConnectBegins, ConnectWaits, StreamGoesOn, TimesOut, Broken, CallerTakes, StreamTicks, Call,
                  ClientDisconnects, Exchange
    <2>2. PICK s : s = calls[c].on OBVIOUS
    <2>3. calls[c].pc \in Waits /\ sockets[s].wire # <<>> /\ AddTick(Head(sockets[s].wire))
      BY <1>1, <2>1, <2>2 DEF Receive, Waits
    <2>4. s \in DOMAIN sockets BY <2>2, <2>3, CallOf DEF IdxInv
    <2>5. sockets[s].wire \in Seq(Message) BY <2>4, SocketOf DEF IdxInv, Socket
    <2> QED BY <2>3, <2>5, HeadTailProperties
  <1>2. ASSUME NEW m \in Message, AddTick(m) PROVE CacheInv'
    <2>1. CASE m.symbol \notin Symbols
      <3>1. cache' = cache BY <1>2, <2>1 DEF AddTick, CacheInv
      <3> QED BY <3>1 DEF CacheInv, LatestIsLast
    <2>2. CASE m.symbol \in Symbols
      <3>q. PICK q : q = Append(cache[m.symbol].ticks, m.id) OBVIOUS
      <3>1. m.id \in Nat BY DEF Message
      <3>2. q \in Seq(Nat) /\ q # <<>> /\ Len(q) \in Nat /\ q[Len(q)] = m.id
        <4>1. cache[m.symbol].ticks \in Seq(Nat) BY <2>2 DEF CacheInv
        <4> QED BY <3>1, <3>q, <4>1, AppendProperties, LenProperties
      <3>k. PICK k : k = IF Len(q) > CacheSize THEN KeepsNewest(q) ELSE q OBVIOUS
      <3>3. k \in Seq(Nat) /\ k # <<>> /\ k[Len(k)] = m.id BY <3>2, <3>k, NewestKeepsLast
      <3>4. cache' = [cache EXCEPT ![m.symbol] = [ticks |-> k, latest |-> m.id]] BY <1>2, <3>q, <3>k DEF AddTick
      <3>5. cache' \in [Symbols -> [ticks : Seq(Nat), latest : Nat]] BY <3>1, <3>3, <3>4 DEF CacheInv
      <3>6. ASSUME NEW y \in Symbols
            PROVE  cache'[y].latest = (IF cache'[y].ticks = <<>> THEN 0 ELSE cache'[y].ticks[Len(cache'[y].ticks)])
        <4>1. CASE y = m.symbol
          <5>1. cache'[y].ticks = k /\ cache'[y].latest = m.id BY <3>4, <4>1 DEF CacheInv
          <5> QED BY <3>3, <5>1
        <4>2. CASE y # m.symbol
          <5>1. cache'[y] = cache[y] BY <3>4, <4>2 DEF CacheInv
          <5> QED BY <5>1 DEF CacheInv, LatestIsLast
        <4> QED BY <4>1, <4>2
      <3> QED BY <3>5, <3>6 DEF CacheInv, LatestIsLast
    <2> QED BY <2>1, <2>2
  <1>3. CASE ClearCache
    <2>1. cache' = [y \in Symbols |-> [ticks |-> <<>>, latest |-> 0]] BY <1>3 DEF ClearCache
    <2> QED BY <2>1, EmptySeq DEF CacheInv, LatestIsLast
  <1>4. CASE cache' = cache BY <1>4 DEF CacheInv, LatestIsLast
  <1> QED BY <1>1, <1>2, <1>3, <1>4

(* The latest price of a symbol is that of its last tick.                   *)
THEOREM LatestIsAlwaysLast == IdxSpec => []LatestIsLast
  <1>1. IdxInit => IdxInv BY IdxInitially
  <1>2. IdxInv /\ [IdxNext]_idxVars => IdxInv' BY IdxKeeps
  <1>3. IdxInit => CacheInv BY EmptySeq DEF IdxInit, CacheInv, LatestIsLast
  <1>4. IdxInv /\ CacheInv /\ [IdxNext]_idxVars => CacheInv' BY CacheKeeps
  <1>5. CacheInv => LatestIsLast BY DEF CacheInv
  <1> QED BY <1>1, <1>2, <1>3, <1>4, <1>5, PTL DEF IdxSpec

-----------------------------------------------------------------------------
(* Charts. A request on its way knows what was broadcast, unless it was     *)
(* overtaken by the end of a broadcast; an entry of the cache knows it too. *)
ChartTyped ==
  /\ candles \in Nat /\ shownTo \in 0 .. candles
  /\ cached \in [ChartKeys -> [candles : Nat, at : Nat, early : BOOLEAN]]
  /\ asking \in [Askers -> [pc : {"idle", "fetching"}, key : ChartKeys, sees : Nat, early : BOOLEAN]]
  /\ casting \in [Casters -> [pc : {"idle", "sending"}, at : Nat, broken : SUBSET Viewers, candle : Nat]]
  /\ viewers \in [Viewers -> [pc : {"new", "joining", "open", "ended"}, works : BOOLEAN]]
  /\ active \in Seq(Viewers) /\ minute \in Nat
SeesEnough(a) == a.pc = "fetching" /\ ~a.early => a.sees >= shownTo
KeepsEnough(e) == ~e.early => e.candles >= shownTo
CastFine(t, n) == t.candle <= n /\ (t.pc = "sending" => t.at >= 1)
ChartInv ==
  /\ ChartTyped
  /\ \A r \in Askers : SeesEnough(asking[r])
  /\ \A b \in Casters : CastFine(casting[b], candles)
  /\ \A k \in ChartKeys : KeepsEnough(cached[k])
  /\ EndedIsGone

(* The list without some of its viewers has none it had not.                *)
LEMMA FewerViewers ==
  ASSUME active \in Seq(Viewers), NEW S
  PROVE  ViewersBut(S) \in Seq(Viewers) /\ ToSet(ViewersBut(S)) \subseteq ToSet(active) \ S
  <1>k. PICK kept : kept = {i \in DOMAIN active : active[i] \notin S} OBVIOUS
  <1>1. kept \in SUBSET DOMAIN active BY <1>k
  <1>2. ViewersBut(S) = Listed(active, kept) BY <1>k DEF ViewersBut, Listed, Rank
  <1>3. /\ Listed(active, kept) \in Seq(Viewers) /\ Len(Listed(active, kept)) = Cardinality(kept)
        /\ \A n \in 1 .. Cardinality(kept) : \E i \in kept : Listed(active, kept)[n] = active[i]
    BY <1>1, ListedProperties
  <1>4. DOMAIN Listed(active, kept) = 1 .. Cardinality(kept) BY <1>3, LenProperties
  <1>5. ASSUME NEW v \in ToSet(Listed(active, kept)) PROVE v \in ToSet(active) \ S
    <2>1. PICK n \in 1 .. Cardinality(kept) : v = Listed(active, kept)[n] BY <1>4 DEF ToSet
    <2>2. PICK i \in kept : v = active[i] BY <1>3, <2>1
    <2> QED BY <1>k, <2>2 DEF ToSet
  <1> QED BY <1>2, <1>3, <1>5

LEMMA ChartInitially == ChartInit => ChartInv
  <1>1. SUFFICES ASSUME ChartInit PROVE ChartInv OBVIOUS
  <1>2. (CHOOSE k \in ChartKeys : TRUE) \in ChartKeys BY ChartAssumption
  <1>3. ChartTyped BY <1>1, <1>2, EmptySeq DEF ChartInit, ChartTyped, NoEntry, AtEase, NoCast
  <1>4. ToSet(active) = {} BY <1>1 DEF ChartInit, ToSet
  <1> QED BY <1>1, <1>3, <1>4 DEF ChartInit, ChartInv, NoEntry, AtEase, NoCast, SeesEnough, KeepsEnough, CastFine, EndedIsGone

(* Requests and candles.                                                    *)
LEMMA RequestsKeep ==
  ASSUME ChartInv, \/ \E r \in Askers : Fetched(r) \/ \E k \in ChartKeys : Ask(r, k)
                   \/ NewCandle \/ Later
  PROVE  ChartInv'
  <1>t. ChartTyped BY DEF ChartInv
  <1>0. (CHOOSE k \in ChartKeys : TRUE) \in ChartKeys BY ChartAssumption
  <1>1. ASSUME NEW r \in Askers, Fetched(r) PROVE ChartInv'
    <2>u. UNCHANGED <<minute, candles, casting, viewers, active, shownTo>> BY <1>1 DEF Fetched
    <2>a. asking[r] \in [pc : {"idle", "fetching"}, key : ChartKeys, sees : Nat, early : BOOLEAN]
          /\ SeesEnough(asking[r]) /\ asking[r].pc = "fetching"
      BY <1>1, <1>t DEF ChartInv, ChartTyped, Fetched
    <2>e. PICK e : e = [candles |-> asking[r].sees, at |-> minute, early |-> asking[r].early] OBVIOUS
    <2>1. e \in [candles : Nat, at : Nat, early : BOOLEAN] /\ KeepsEnough(e)
      BY <1>t, <2>a, <2>e DEF ChartTyped, SeesEnough, KeepsEnough
    <2>2. \A k \in ChartKeys : cached'[k] = cached[k] \/ cached'[k] = e
      BY <1>1, <1>t, <2>e DEF Fetched, ChartTyped
    <2>3. cached' \in [ChartKeys -> [candles : Nat, at : Nat, early : BOOLEAN]]
      BY <1>1, <1>t, <2>a, <2>e, <2>1 DEF Fetched, ChartTyped
    <2>4. \A k \in ChartKeys : KeepsEnough(cached'[k])
      BY <2>1, <2>2 DEF ChartInv
    <2>5. asking' = [asking EXCEPT ![r] = AtEase] BY <1>1 DEF Fetched
    <2>6. AtEase \in [pc : {"idle", "fetching"}, key : ChartKeys, sees : Nat, early : BOOLEAN] /\ SeesEnough(AtEase)
      BY <1>0 DEF AtEase, SeesEnough
    <2>7. asking' \in [Askers -> [pc : {"idle", "fetching"}, key : ChartKeys, sees : Nat, early : BOOLEAN]]
      BY <1>t, <2>5, <2>6 DEF ChartTyped
    <2>8. \A q \in Askers : SeesEnough(asking'[q]) BY <1>t, <2>5, <2>6 DEF ChartInv, ChartTyped
    <2> QED BY <1>t, <2>u, <2>3, <2>4, <2>7, <2>8 DEF ChartInv, ChartTyped, KeepsEnough, SeesEnough, CastFine, EndedIsGone
  <1>2. ASSUME NEW r \in Askers, NEW k \in ChartKeys, Ask(r, k) PROVE ChartInv'
    <2>u. UNCHANGED <<minute, candles, casting, viewers, active, shownTo>> BY <1>2 DEF Ask
    <2>a. PICK a : a = [pc |-> "fetching", key |-> k, sees |-> candles, early |-> FALSE] OBVIOUS
    <2>1. a \in [pc : {"idle", "fetching"}, key : ChartKeys, sees : Nat, early : BOOLEAN] /\ SeesEnough(a)
      BY <1>t, <2>a DEF ChartTyped, SeesEnough
    <2>2. asking' = [asking EXCEPT ![r] = a] /\ cached' = [cached EXCEPT ![k] = NoEntry] BY <1>2, <2>a DEF Ask
    <2>3. NoEntry \in [candles : Nat, at : Nat, early : BOOLEAN] /\ KeepsEnough(NoEntry)
      BY DEF NoEntry, KeepsEnough
    <2>4. cached' \in [ChartKeys -> [candles : Nat, at : Nat, early : BOOLEAN]]
          /\ \A l \in ChartKeys : KeepsEnough(cached'[l])
      BY <1>t, <2>2, <2>3 DEF ChartTyped, ChartInv
    <2>5. asking' \in [Askers -> [pc : {"idle", "fetching"}, key : ChartKeys, sees : Nat, early : BOOLEAN]]
          /\ \A q \in Askers : SeesEnough(asking'[q])
      BY <1>t, <2>1, <2>2 DEF ChartTyped, ChartInv
    <2> QED BY <1>t, <2>u, <2>4, <2>5 DEF ChartInv, ChartTyped, KeepsEnough, SeesEnough, CastFine, EndedIsGone
  <1>3. ASSUME NewCandle PROVE ChartInv'
    <2>u. UNCHANGED <<minute, cached, asking, casting, viewers, active, shownTo>> /\ candles' = candles + 1
      BY <1>3 DEF NewCandle
    <2>1. candles' \in Nat /\ candles' > candles /\ shownTo' \in 0 .. candles' BY <1>t, <2>u DEF ChartTyped
    <2>2. \A b \in Casters : CastFine(casting'[b], candles')
      BY <1>t, <2>u, <2>1 DEF ChartInv, ChartTyped, CastFine
    <2> QED BY <1>t, <2>u, <2>1, <2>2 DEF ChartInv, ChartTyped, KeepsEnough, SeesEnough, CastFine, EndedIsGone
  <1>4. ASSUME Later PROVE ChartInv'
    <2>u. UNCHANGED <<candles, cached, asking, casting, viewers, active, shownTo>> /\ minute' = minute + 1
      BY <1>4 DEF Later
    <2>1. minute' \in Nat BY <1>t, <2>u DEF ChartTyped
    <2> QED BY <1>t, <2>u, <2>1 DEF ChartInv, ChartTyped, KeepsEnough, SeesEnough, CastFine, EndedIsGone
  <1> QED BY <1>1, <1>2, <1>3, <1>4

(* The end of a broadcast empties the cache before anybody may rely on it.  *)
LEMMA BroadcastsKeep ==
  ASSUME ChartInv, NEW b \in Casters, BroadcastBegins(b) \/ Send(b) \/ BroadcastEnds(b)
  PROVE  ChartInv'
  <1>t. ChartTyped BY DEF ChartInv
  <1> DEFINE Cast == [pc : {"idle", "sending"}, at : Nat, broken : SUBSET Viewers, candle : Nat]
  <1>c. casting \in [Casters -> Cast] /\ casting[b] \in Cast /\ CastFine(casting[b], candles)
    BY <1>t DEF ChartTyped, ChartInv
  <1>1. ASSUME BroadcastBegins(b) PROVE ChartInv'
    <2>u. UNCHANGED <<minute, candles, cached, asking, viewers, active, shownTo>> BY <1>1 DEF BroadcastBegins
    <2>n. PICK t : t = [pc |-> "sending", at |-> 1, broken |-> {}, candle |-> candles] OBVIOUS
    <2>1. t \in Cast /\ CastFine(t, candles) BY <1>t, <2>n DEF ChartTyped, CastFine
    <2>2. casting' = [casting EXCEPT ![b] = t] BY <1>1, <2>n DEF BroadcastBegins
    <2>3. casting' \in [Casters -> Cast] /\ \A d \in Casters : CastFine(casting'[d], candles')
      BY <1>c, <2>1, <2>2, <2>u DEF ChartInv, CastFine
    <2> QED BY <1>t, <2>u, <2>3 DEF ChartInv, ChartTyped, KeepsEnough, SeesEnough, CastFine, EndedIsGone
  <1>2. ASSUME Send(b) PROVE ChartInv'
    <2>u. UNCHANGED <<minute, candles, cached, asking, viewers, active, shownTo>> BY <1>2 DEF Send
    <2>0. casting[b].at \in 1 .. Len(active) BY <1>2, <1>c DEF Send, CastFine
    <2>v. PICK v : v = active[casting[b].at] OBVIOUS
    <2>n. PICK t : t = [pc |-> casting[b].pc, at |-> casting[b].at + 1, candle |-> casting[b].candle,
                        broken |-> IF viewers[v].pc = "open" /\ viewers[v].works THEN casting[b].broken
                                   ELSE casting[b].broken \cup {v}]
      OBVIOUS
    <2>e. casting' = [casting EXCEPT ![b].at = @ + 1,
                       ![b].broken = IF viewers[v].pc = "open" /\ viewers[v].works THEN @ ELSE @ \cup {v}]
      BY <1>2, <2>v DEF Send
    <2>1. casting' = [casting EXCEPT ![b] = t]
      <3>1. casting[b] \in [pc : {"idle", "sending"}, at : Nat, broken : SUBSET Viewers, candle : Nat] BY <1>c
      <3>2. casting'[b] = t BY <1>c, <2>e, <2>n, <3>1
      <3>3. casting' = [casting EXCEPT ![b] = casting'[b]] BY <1>c, <2>e
      <3> QED BY <3>2, <3>3
    <2>2. v \in Viewers BY <1>t, <2>0, <2>v, ElementOfSeq DEF ChartTyped
    <2>3. t \in Cast /\ CastFine(t, candles) BY <1>c, <2>2, <2>n DEF CastFine
    <2>4. casting' \in [Casters -> Cast] /\ \A d \in Casters : CastFine(casting'[d], candles')
      BY <1>c, <2>1, <2>3, <2>u DEF ChartInv, CastFine
    <2> QED BY <1>t, <2>u, <2>4 DEF ChartInv, ChartTyped, KeepsEnough, SeesEnough, CastFine, EndedIsGone
  <1>3. ASSUME BroadcastEnds(b) PROVE ChartInv'
    <2>u. UNCHANGED <<minute, candles, viewers>> BY <1>3 DEF BroadcastEnds
    <2>1. casting' = [casting EXCEPT ![b] = NoCast] BY <1>3 DEF BroadcastEnds
    <2>2. NoCast \in Cast /\ CastFine(NoCast, candles) BY <1>t DEF NoCast, ChartTyped, CastFine
    <2>3. casting' \in [Casters -> Cast] /\ \A d \in Casters : CastFine(casting'[d], candles')
      BY <1>c, <2>1, <2>2, <2>u DEF ChartInv, CastFine
    <2>4. \E S : active' = ViewersBut(S)
      <3>1. CASE casting[b].broken \subseteq ToSet(active) BY <1>3, <3>1 DEF BroadcastEnds
      <3>2. CASE ~(casting[b].broken \subseteq ToSet(active)) BY <1>3, <3>2 DEF BroadcastEnds
      <3> QED BY <3>1, <3>2
    <2>5. active' \in Seq(Viewers) /\ ToSet(active') \subseteq ToSet(active)
      BY <1>t, <2>4, FewerViewers DEF ChartTyped
    <2>6. EndedIsGone' BY <2>5, <2>u DEF EndedIsGone, ChartInv
    <2>7. CASE casting[b].broken \subseteq ToSet(active)
      <3>1. cached' = InvalidateSymbol
            /\ shownTo' = (IF casting[b].candle > shownTo THEN casting[b].candle ELSE shownTo)
            /\ asking' = [r \in Askers |-> [asking[r] EXCEPT !.early = @ \/ asking[r].pc = "fetching"]]
        BY <1>3, <2>7 DEF BroadcastEnds
      <3>2. shownTo' \in 0 .. candles' BY <1>t, <1>c, <2>u, <3>1 DEF ChartTyped, CastFine
      <3>3. cached' \in [ChartKeys -> [candles : Nat, at : Nat, early : BOOLEAN]]
            /\ \A k \in ChartKeys : cached'[k].early
        BY <3>1 DEF InvalidateSymbol, NoEntry
      <3>4. ASSUME NEW r \in Askers
            PROVE  /\ asking'[r] \in [pc : {"idle", "fetching"}, key : ChartKeys, sees : Nat, early : BOOLEAN]
                   /\ asking'[r].pc = "fetching" => asking'[r].early
        <4>1. asking[r] \in [pc : {"idle", "fetching"}, key : ChartKeys, sees : Nat, early : BOOLEAN]
          BY <1>t DEF ChartTyped
        <4>2. asking'[r] = [asking[r] EXCEPT !.early = @ \/ asking[r].pc = "fetching"] BY <3>1
        <4> QED BY <4>1, <4>2
      <3>5. asking' \in [Askers -> [pc : {"idle", "fetching"}, key : ChartKeys, sees : Nat, early : BOOLEAN]]
        BY <3>1, <3>4
      <3> QED BY <1>t, <2>u, <2>3, <2>5, <2>6, <3>2, <3>3, <3>4, <3>5 DEF ChartInv, ChartTyped, KeepsEnough, SeesEnough, CastFine
    <2>8. CASE ~(casting[b].broken \subseteq ToSet(active))
      <3>1. UNCHANGED <<cached, shownTo, asking>> BY <1>3, <2>8 DEF BroadcastEnds
      <3> QED BY <1>t, <2>u, <2>3, <2>5, <2>6, <3>1 DEF ChartInv, ChartTyped, KeepsEnough, SeesEnough, CastFine
    <2> QED BY <2>7, <2>8
  <1> QED BY <1>1, <1>2, <1>3

(* The handlers of the websockets.                                          *)
LEMMA HandlersKeep ==
  ASSUME ChartInv, NEW v \in Viewers, Subscribe(v) \/ Accepted(v) \/ Vanishes(v) \/ HandlerEnds(v)
  PROVE  ChartInv'
  <1>t. ChartTyped BY DEF ChartInv
  <1>u. UNCHANGED <<minute, candles, cached, asking, casting, shownTo>>
    BY DEF Subscribe, Accepted, Vanishes, HandlerEnds
  <1> DEFINE Viewer == [pc : {"new", "joining", "open", "ended"}, works : BOOLEAN]
  <1>v. viewers \in [Viewers -> Viewer] /\ active \in Seq(Viewers) BY <1>t DEF ChartTyped
  <1>s. SUFFICES viewers' \in [Viewers -> Viewer] /\ active' \in Seq(Viewers) /\ EndedIsGone'
    BY <1>t, <1>u DEF ChartInv, ChartTyped, KeepsEnough, SeesEnough, CastFine
  <1>e. \A w \in ToSet(active) : viewers[w].pc # "ended" BY DEF ChartInv, EndedIsGone
  <1>1. ASSUME Subscribe(v) PROVE viewers' \in [Viewers -> Viewer] /\ active' \in Seq(Viewers) /\ EndedIsGone'
    <2>1. viewers' = [viewers EXCEPT ![v].pc = "joining"] /\ active' = Append(active, v) BY <1>1 DEF Subscribe
    <2>2. viewers' \in [Viewers -> Viewer] /\ viewers'[v].pc = "joining"
          /\ \A w \in Viewers : w # v => viewers'[w] = viewers[w]
      BY <1>v, <2>1
    <2>3. active' \in Seq(Viewers) /\ Len(active') = Len(active) + 1
          /\ \A i \in 1 .. Len(active) : active'[i] = active[i]
      BY <1>v, <2>1, AppendProperties
    <2>4. active'[Len(active) + 1] = v BY <1>v, <2>1, AppendProperties
    <2>5. ASSUME NEW w \in ToSet(active') PROVE w = v \/ w \in ToSet(active)
      <3>1. DOMAIN active' = 1 .. Len(active) + 1 /\ DOMAIN active = 1 .. Len(active) /\ Len(active) \in Nat
        BY <1>v, <2>3, LenProperties
      <3>2. PICK i \in 1 .. Len(active) + 1 : w = active'[i] BY <3>1 DEF ToSet
      <3>3. CASE i = Len(active) + 1 BY <2>4, <3>2, <3>3
      <3>4. CASE i # Len(active) + 1
        <4>1. i \in 1 .. Len(active) BY <3>1, <3>4
        <4> QED BY <2>3, <3>1, <3>2, <4>1 DEF ToSet
      <3> QED BY <3>3, <3>4
    <2>6. ToSet(active) \subseteq Viewers BY <1>v, LenProperties, ElementOfSeq DEF ToSet
    <2>7. EndedIsGone' BY <1>e, <2>2, <2>5, <2>6 DEF EndedIsGone
    <2> QED BY <2>2, <2>3, <2>7
  <1>2. ASSUME Accepted(v) \/ Vanishes(v) PROVE viewers' \in [Viewers -> Viewer] /\ active' \in Seq(Viewers) /\ EndedIsGone'
    <2>1. active' = active BY <1>2 DEF Accepted, Vanishes
    <2>2. viewers' \in [Viewers -> Viewer] /\ \A w \in Viewers : viewers'[w].pc = "ended" => viewers[w].pc = "ended"
      BY <1>2, <1>v DEF Accepted, Vanishes
    <2>6. ToSet(active) \subseteq Viewers BY <1>v, LenProperties, ElementOfSeq DEF ToSet
    <2> QED BY <1>v, <1>e, <2>1, <2>2, <2>6 DEF EndedIsGone
  <1>3. ASSUME HandlerEnds(v) PROVE viewers' \in [Viewers -> Viewer] /\ active' \in Seq(Viewers) /\ EndedIsGone'
    <2>1. active' = ViewersBut({v}) /\ viewers' = [viewers EXCEPT ![v] = [pc |-> "ended", works |-> FALSE]]
      BY <1>3 DEF HandlerEnds, WithoutViewer
    <2>2. active' \in Seq(Viewers) /\ ToSet(active') \subseteq ToSet(active) \ {v} BY <1>v, <2>1, FewerViewers
    <2>3. viewers' \in [Viewers -> Viewer] /\ \A w \in Viewers : w # v => viewers'[w] = viewers[w] BY <1>v, <2>1
    <2>6. ToSet(active) \subseteq Viewers BY <1>v, LenProperties, ElementOfSeq DEF ToSet
    <2> QED BY <1>e, <2>2, <2>3, <2>6 DEF EndedIsGone
  <1> QED BY <1>1, <1>2, <1>3

(* No answer of the chart cache is stale except for a request that the end  *)
(* of a broadcast overtook, and no websocket is listed after its handler.   *)
THEOREM ChartsAreSound == ChartSpec => []ChartSound
  <1>1. ChartInit => ChartInv BY ChartInitially
  <1>2. ChartInv /\ [ChartNext]_chartVars => ChartInv'
    <2>1. SUFFICES ASSUME ChartInv, [ChartNext]_chartVars PROVE ChartInv' OBVIOUS
    <2>2. CASE UNCHANGED chartVars
      BY <2>1, <2>2 DEF chartVars, ChartInv, ChartTyped, KeepsEnough, SeesEnough, CastFine, EndedIsGone
    <2>3. CASE ChartNext
      <3>1. CASE \/ \E r \in Askers : Fetched(r) \/ \E k \in ChartKeys : Ask(r, k)
                 \/ NewCandle \/ Later
        BY <2>1, <3>1, RequestsKeep
      <3>2. CASE \E b \in Casters : BroadcastBegins(b) \/ Send(b) \/ BroadcastEnds(b)
        BY <2>1, <3>2, BroadcastsKeep
      <3>3. CASE \E v \in Viewers : Subscribe(v) \/ Accepted(v) \/ Vanishes(v) \/ HandlerEnds(v)
        BY <2>1, <3>3, HandlersKeep
      <3> QED BY <2>3, <3>1, <3>2, <3>3 DEF ChartNext
    <2> QED BY <2>1, <2>2, <2>3
  <1>3. ChartInv => ChartSound
    BY DEF ChartInv, ChartSound, StaleOnlyInFlight, KeepsEnough
  <1> QED BY <1>1, <1>2, <1>3, PTL DEF ChartSpec

-----------------------------------------------------------------------------
(* Symbols and hours. The market of currencies is closed from Friday 22 h   *)
(* to Sunday 22 h UTC; the charts take it for closed on the days on which   *)
(* it is Saturday or Sunday in Jakarta.                                     *)
LEMMA ForexCloses ==
  ASSUME NEW h \in 0 .. 167
  PROVE  (ForexOpen(h) <=> h < 118 \/ h >= 166) /\ (~ForexOpen(h) => NextOpen(h) = 166)
  <1>d. PICK d : d = h \div 24 OBVIOUS
  <1>1. d \in 0 .. 6 /\ h % 24 \in 0 .. 23 /\ h = 24 * d + (h % 24) BY <1>d
  <1>2. Weekday(h) = d /\ HourOfDay(h) = h % 24 BY <1>d, <1>1 DEF Weekday, HourOfDay
  <1>3. ForexOpen(h) <=> d <= 3 \/ (d = 4 /\ h % 24 < 22) \/ (d = 6 /\ h % 24 >= 22) BY <1>2 DEF ForexOpen
  <1>4. ForexOpen(h) <=> h < 118 \/ h >= 166 BY <1>1, <1>3
  <1>5. ASSUME ~ForexOpen(h) PROVE NextOpen(h) = 166
    <2>1. d \in 4 .. 6 /\ (d = 6 => h % 24 < 22) BY <1>1, <1>3, <1>5
    <2>2. CASE d = 6
      <3>1. NextOpen(h) = (h - (h % 24)) + 0 * 24 + 22 BY <1>2, <2>1, <2>2 DEF NextOpen
      <3> QED BY <1>1, <2>2, <3>1
    <2>3. CASE d # 6
      <3>1. NextOpen(h) = (h - (h % 24)) + ((6 - d) % 7) * 24 + 22 BY <1>2, <2>3 DEF NextOpen
      <3>2. (6 - d) % 7 = 6 - d BY <2>1
      <3> QED BY <1>1, <2>1, <3>1, <3>2
    <2> QED BY <2>2, <2>3
  <1> QED BY <1>4, <1>5

LEMMA ChartsClose ==
  /\ \A h \in 0 .. 167 : ChartOpen(h) <=> h < 113 \/ h >= 161
  /\ \A h \in 113 .. 160 : ChartNextOpen(h) = 161
  <1>1. ASSUME NEW h \in 0 .. 167 PROVE ChartOpen(h) <=> h < 113 \/ h >= 161
    <2>d. PICK d : d = (h + 7) \div 24 OBVIOUS
    <2>1. d \in 0 .. 7 /\ h + 7 = 24 * d + ((h + 7) % 24) /\ (h + 7) % 24 \in 0 .. 23 BY <2>d
    <2>2. ChartOpen(h) <=> d % 7 <= 4 BY <2>d DEF ChartOpen, Weekday
    <2>3. d % 7 = IF d = 7 THEN 0 ELSE d BY <2>1
    <2> QED BY <2>1, <2>2, <2>3
  <1>2. ASSUME NEW h \in 113 .. 160 PROVE ChartNextOpen(h) = 161
    <2> DEFINE midnight(n) == ((h + 7) \div 24 + n) * 24 - 7
               First(n) == ChartOpen(midnight(n)) /\ \A i \in 1 .. n - 1 : ~ChartOpen(midnight(i))
    <2>d. PICK d : d = (h + 7) \div 24 OBVIOUS
    <2>1. d \in 5 .. 6 BY <2>d
    <2>2. ASSUME NEW n \in 1 .. 3 PROVE midnight(n) = (d + n) * 24 - 7 /\ (ChartOpen(midnight(n)) <=> d + n >= 7)
      <3>1. midnight(n) = (d + n) * 24 - 7 BY <2>d
      <3>2. ((d + n) * 24 - 7 + 7) \div 24 = d + n BY <2>1
      <3>3. (d + n) % 7 = IF d + n >= 7 THEN d + n - 7 ELSE d + n BY <2>1
      <3>4. ChartOpen((d + n) * 24 - 7) <=> (d + n) % 7 <= 4 BY <3>2 DEF ChartOpen, Weekday
      <3> HIDE DEF midnight
      <3> QED BY <2>1, <3>1, <3>3, <3>4
    <2> HIDE DEF midnight
    <2>3. \A n \in 1 .. 3 : First(n) <=> n = 7 - d BY <2>1, <2>2
    <2>p. PICK p : p = CHOOSE n \in 1 .. 3 : First(n) OBVIOUS
    <2>4. 7 - d \in 1 .. 3 /\ First(7 - d) BY <2>1, <2>3
    <2>5. p \in 1 .. 3 /\ First(p)
      <3> HIDE DEF First
      <3> QED BY <2>4, <2>p
    <2>6. p = 7 - d BY <2>3, <2>5
    <2>7. midnight(p) = 161 BY <2>1, <2>2, <2>6
    <2>8. ~ChartOpen(h) BY <1>1
    <2>9. ChartNextOpen(h) = midnight(p) BY <2>p, <2>8 DEF ChartNextOpen, midnight
    <2> QED BY <2>7, <2>9
  <1> QED BY <1>1, <1>2

LEMMA OpeningsAreFirst == ASSUME hour \in 0 .. 167 PROVE NextOpenIsFirst
  <1>1. ASSUME ~ForexOpen(hour)
        PROVE  /\ NextOpen(hour) > hour /\ ForexOpen(NextOpen(hour))
               /\ \A h \in hour .. NextOpen(hour) - 1 : ~ForexOpen(h)
    <2>1. hour \in 118 .. 165 /\ NextOpen(hour) = 166 BY <1>1, ForexCloses
    <2>2. \A h \in 0 .. 167 : ForexOpen(h) <=> h < 118 \/ h >= 166 BY ForexCloses
    <2> QED BY <2>1, <2>2
  <1>2. ASSUME ~ChartOpen(hour)
        PROVE  /\ ChartNextOpen(hour) > hour /\ ChartOpen(ChartNextOpen(hour))
               /\ \A h \in hour .. ChartNextOpen(hour) - 1 : ~ChartOpen(h)
    <2>1. hour \in 113 .. 160 BY <1>2, ChartsClose
    <2>2. ChartNextOpen(hour) = 161 BY <2>1, ChartsClose
    <2> QED BY <2>1, <2>2, ChartsClose
  <1> QED BY <1>1, <1>2 DEF NextOpenIsFirst

LEMMA NormalizingIsOnce == ASSUME symbol \in SymbolsAsked PROVE NormalizedIsTheSame
  <1>s. /\ symbol = Sym(symbol.form, symbol.base, symbol.quote)
        /\ symbol.form \in {"=X", "/", "joined", "-USD", "USDT"}
        /\ symbol.form \in {"-USD", "USDT"} => symbol.quote = "USD"
    BY DEF SymbolsAsked, Sym
  <1>1. ASSUME IsForex(symbol)
        PROVE  Normalized(Normalized(symbol, "forex"), "forex") = Normalized(symbol, "forex")
               /\ SymbolsMatch(symbol, Normalized(symbol, "forex"))
    <2>n. PICK n : n = Sym("=X", symbol.base, symbol.quote) OBVIOUS
    <2>1. n.form = "=X" /\ n.base = symbol.base /\ n.quote = symbol.quote BY <2>n DEF Sym
    <2>2. SixLetters(symbol) /\ SixLetters(n) /\ symbol.form \in {"=X", "/", "joined"} BY <1>1, <2>1 DEF IsForex, SixLetters
    <2>3. Normalized(symbol, "forex") = n BY <1>s, <2>n, <2>2 DEF Normalized
    <2>4. Normalized(n, "forex") = n BY <2>1 DEF Normalized
    <2>5. AliasesOf(n) = {n} \cup {Sym("joined", n.base, n.quote)} \cup {Sym("/", n.base, n.quote)}
      BY <2>1, <2>2 DEF AliasesOf
    <2>6. symbol \in AliasesOf(n) BY <1>s, <2>n, <2>1, <2>2, <2>5
    <2>7. symbol \in AliasesOf(symbol) BY DEF AliasesOf
    <2> QED BY <2>3, <2>4, <2>6, <2>7 DEF SymbolsMatch
  <1>2. ASSUME IsCrypto(symbol)
        PROVE  Normalized(Normalized(symbol, "crypto"), "crypto") = Normalized(symbol, "crypto")
               /\ SymbolsMatch(symbol, Normalized(symbol, "crypto"))
    <2>n. PICK n : n = Sym("-USD", symbol.base, "USD") OBVIOUS
    <2>1. n.form = "-USD" /\ n.base = symbol.base /\ n.quote = "USD" BY <2>n DEF Sym
    <2>2. symbol.form \in {"-USD", "USDT"} /\ symbol.quote = "USD" BY <1>s, <1>2 DEF IsCrypto
    <2>3. Normalized(symbol, "crypto") = n BY <1>s, <2>n, <2>2 DEF Normalized
    <2>4. Normalized(n, "crypto") = n BY <2>1 DEF Normalized
    <2>5. AliasesOf(n) = {n} \cup {Sym("coin", n.base, "USD"), Sym("USDT", n.base, "USD")} BY <2>1 DEF AliasesOf
    <2>6. symbol \in AliasesOf(n) BY <1>s, <2>n, <2>1, <2>2, <2>5
    <2>7. symbol \in AliasesOf(symbol) BY DEF AliasesOf
    <2> QED BY <2>3, <2>4, <2>6, <2>7 DEF SymbolsMatch
  <1> QED BY <1>1, <1>2 DEF NormalizedIsTheSame

(* Normalising a symbol twice changes nothing and keeps it recognisable, for *)
(* any coins and currencies; the next opening that is told is the first one, *)
(* at every hour of the week.                                                *)
THEOREM SymbolsAreSound == SymbolSpec => []SymbolsSound
  <1>1. SymbolInit => SymbolTypeOK BY DEF SymbolInit, SymbolTypeOK
  <1>2. SymbolTypeOK /\ [SymbolNext]_symbolVars => SymbolTypeOK'
    BY DEF SymbolTypeOK, SymbolNext, HourPasses, symbolVars, SymbolsAsked, Parts
  <1>3. SymbolTypeOK => SymbolsSound
    BY OpeningsAreFirst, NormalizingIsOnce DEF SymbolTypeOK, SymbolsSound
  <1> QED BY <1>1, <1>2, <1>3, PTL DEF SymbolSpec

(* What is told to users and to operators: the inbox and the alerts, which  *)
(* share no variable.                                                       *)
THEOREM NoticesAreSound == InboxSpec /\ AlertSpec => []NoticesSound
  BY InboxIsSound, AlertsAreSound, PTL DEF NoticesSound

(* The market as it is shown: the client, the charts and the symbols, which  *)
(* share no variable.                                                       *)
THEOREM MarketIsSound == IdxSpec /\ ChartSpec /\ SymbolSpec => MarketSound
  BY AnswersAreTheCalls, LatestIsAlwaysLast, ChartsAreSound, SymbolsAreSound, PTL DEF MarketSound
=============================================================================
