-------------------------------- MODULE Alerts --------------------------------
(***************************************************************************)
(* Messages to people: the inbox of the notifications, and the channels of *)
(* the alerts (below).                                                     *)
(*                                                                         *)
(* What the notification manager keeps (notification_service.py), who      *)
(* fills it (the two emitters of frontend_routes.py) and who reads it (the *)
(* history, unread and mark-read routes of api_routes.py).  An emitter     *)
(* writes one notification per connected user, and its send suspends only  *)
(* if a handler for the websocket channel is registered and the user's     *)
(* preference has that channel: handled says whether one is registered     *)
(* (the repository's start-up registers it elsewhere).  A reader pages     *)
(* through the history while notifications arrive and old ones are         *)
(* dropped.  Alert rules are kept and edited but consulted by nobody, so   *)
(* they are left out, with what was read; a day has DayLength ticks.       *)
(***************************************************************************)
EXTENDS Naturals, Sequences, FiniteSets, SequencesExt

CONSTANTS Readers,
          Editors,       \* bound: the readers who edit their preferences
          Emitters, Series, Keys,
          MaxQueueSize,  \* max_queue_size
          PageSize,      \* the limit of a history request
          MaxMade,       \* bound: notifications
          DayLength

ASSUME InboxAssumption ==
  /\ IsFiniteSet(Emitters) /\ MaxQueueSize \in Nat \ {0} /\ PageSize \in Nat \ {0}
  /\ MaxMade \in Nat /\ DayLength \in Nat \ {0}

VARIABLES inbox,     \* notification_queue, oldest first
          posted,      \* the notifications created so far; it names them
          online,    \* the users with a websocket, in the order of the dictionary
          handled,   \* whether a handler for the websocket channel is registered
          shown,     \* _projection_notification_state and _regime_notification_state
          emitting,  \* emitter -> what it has left to do
          prefs,     \* user -> the websocket channel if its preference has it, or none
          paging,    \* a reader's walk through its history
          turned     \* history: per series the signal last asked about, and how often it changed

inboxVars == <<inbox, posted, online, handled, shown, emitting, prefs, paging, turned>>

Clock == 0 .. DayLength - 1
NoPref == {"none"}
DefaultPref == {"websocket"}

NothingLeft == [pc |-> "idle", series |-> "none", key |-> "none", left |-> <<>>]
NoPaging == [pc |-> "idle", user |-> "none", offset |-> 0, seen |-> {}, due |-> {}]

InboxTypeOK ==
  /\ inbox \in Seq([id : 1 .. MaxMade, user : Readers, series : Series, key : Keys])
  /\ Len(inbox) <= MaxQueueSize /\ posted \in 0 .. MaxMade
  /\ online \in Seq(Readers) /\ IsInjective(online) /\ handled \in BOOLEAN
  /\ shown \in [Series -> Keys \cup {"none"}]
  /\ prefs \in [Readers -> {NoPref} \cup SUBSET {"websocket"}]
  /\ paging.pc \in {"idle", "reading", "over"} /\ paging.seen \subseteq 1 .. MaxMade

InboxInit ==
  /\ inbox = <<>> /\ posted = 0 /\ online = <<>> /\ handled \in BOOLEAN
  /\ shown = [s \in Series |-> "none"]
  /\ emitting = [e \in Emitters |-> NothingLeft]
  /\ prefs = [u \in Readers |-> NoPref]
  /\ paging = NoPaging
  /\ turned = [s \in Series |-> [last |-> "none", times |-> 0]]

-----------------------------------------------------------------------------
Of(u) == {i \in DOMAIN inbox : inbox[i].user = u}
Ids(q) == {q[i].id : i \in DOMAIN q}

OldestFirst(u) ==                                                          \* mutant
  [n \in 1 .. Cardinality(Of(u)) |->
     inbox[CHOOSE i \in Of(u) : Cardinality({j \in Of(u) : j < i}) = n - 1]]
\* get_notification_history: newest first by created_at, which is the order of creation; one page of it.
History(u) ==
  [n \in 1 .. Cardinality(Of(u)) |->
     inbox[CHOOSE i \in Of(u) : Cardinality({j \in Of(u) : j > i}) = n - 1]]
Page(u, offset) ==
  LET h == History(u) upto == IF offset + PageSize > Len(h) THEN Len(h) ELSE offset + PageSize IN
  SubSeq(h, offset + 1, upto)

\* _in_quiet_hours: both ends belong to it, and it may span midnight.
InQuietHours(s, e, now) ==
  IF s <= e THEN s <= now /\ now <= e ELSE now >= s \/ now <= e

\* is_inside_active_hours does the same without the second case.
InsideActiveHours(s, e, now) == s <= now /\ now <= e

-----------------------------------------------------------------------------
\* A send suspends in the websocket handler if it gets that far; without a handler it runs through.
Suspends(u) == handled /\ (prefs[u] = NoPref \/ "websocket" \in prefs[u])

\* The users an emitter serves before it is suspended, or all that are left.
Served(users) ==
  IF \E i \in DOMAIN users : Suspends(users[i])
  THEN SubSeq(users, 1, CHOOSE i \in DOMAIN users : Suspends(users[i]) /\ \A j \in 1 .. i - 1 : ~Suspends(users[j]))
  ELSE users

Kept(q) == IF Len(q) > MaxQueueSize THEN SubSeq(q, Len(q) - MaxQueueSize + 1, Len(q)) ELSE q

Notify(e, s, k, users) ==
  LET now == Served(users)
      new == [i \in DOMAIN now |-> [id |-> posted + i, user |-> now[i], series |-> s, key |-> k]]
      waits == now # <<>> /\ Suspends(now[Len(now)]) IN
  /\ posted + Len(now) <= MaxMade
  /\ inbox' = Kept(inbox \o new) /\ posted' = posted + Len(now)
  /\ emitting' = [emitting EXCEPT ![e] =
       IF waits THEN [pc |-> "sending", series |-> s, key |-> k, left |-> SubSeq(users, Len(now) + 1, Len(users))]
       ELSE NothingLeft]

ShownOnceSent(e, s, k) ==                                                  \* mutant
  shown' = [shown EXCEPT ![s] = IF emitting'[e].pc = "idle" THEN k ELSE @]

\* The signal is remembered before the first send: a second emitter meets it while the first is sending.
Remember(e, s, k) == shown' = [shown EXCEPT ![s] = k]

\* _emit_projection_notification and _emit_regime_transition_notification.
Emit(e, s, k) ==
  /\ emitting[e].pc = "idle" /\ online # <<>> /\ shown[s] # k
  /\ Notify(e, s, k, online)
  /\ Remember(e, s, k)
  /\ turned' = [turned EXCEPT ![s] = [last |-> k, times |-> @.times + (IF @.last = k THEN 0 ELSE 1)]]
  /\ UNCHANGED <<online, handled, prefs, paging>>

\* The handler returns and the emitter goes on with the next user.
Resume(e) ==
  LET t == emitting[e] IN
  /\ t.pc = "sending" /\ Notify(e, t.series, t.key, t.left) /\ Remember(e, t.series, shown[t.series])
  /\ UNCHANGED <<online, handled, prefs, paging, turned>>

\* websocket_notifications, entered and left.
SocketOpens(u) ==
  /\ u \notin ToSet(online) /\ online' = Append(online, u)
  /\ UNCHANGED <<inbox, posted, handled, shown, emitting, prefs, paging, turned>>
SocketCloses(u) ==
  /\ \E i \in DOMAIN online : online[i] = u /\ online' = RemoveAt(online, i)
  /\ UNCHANGED <<inbox, posted, handled, shown, emitting, prefs, paging, turned>>

-----------------------------------------------------------------------------
Stored(u) == IF prefs[u] = NoPref THEN DefaultPref ELSE prefs[u]

\* POST /preferences, PUT .../channels and POST .../quiet-hours (the hours are read for the log only).
SetChannels(u, c) ==
  /\ prefs' = [prefs EXCEPT ![u] = c]
  /\ UNCHANGED <<inbox, posted, online, handled, shown, emitting, paging, turned>>
SetQuietHours(u) == SetChannels(u, Stored(u))

\* PUT /preferences: the keys are applied in turn; a value that is refused ends it with what was applied
\* before, in the stored object if there was one and nowhere if there was none.
UpdatePrefs(u, c, valid) ==
  IF valid THEN SetChannels(u, c)
  ELSE /\ prefs[u] # NoPref /\ SetChannels(u, c)

-----------------------------------------------------------------------------
BeginPaging(u) ==
  /\ paging.pc = "idle"
  /\ paging' = [pc |-> "reading", user |-> u, offset |-> 0, seen |-> {}, due |-> {inbox[i].id : i \in Of(u)}]
  /\ UNCHANGED <<inbox, posted, online, handled, shown, emitting, prefs, turned>>

\* GET /history with the next offset, until a page is short.
NextPage ==
  LET p == Page(paging.user, paging.offset) IN
  /\ paging.pc = "reading"
  /\ paging' = [pc |-> IF Len(p) < PageSize THEN "over" ELSE "reading", user |-> paging.user,
                offset |-> paging.offset + PageSize, seen |-> paging.seen \cup Ids(p), due |-> paging.due]
  /\ UNCHANGED <<inbox, posted, online, handled, shown, emitting, prefs, turned>>

PagingEnds ==
  /\ paging.pc = "over" /\ paging' = NoPaging
  /\ UNCHANGED <<inbox, posted, online, handled, shown, emitting, prefs, turned>>

InboxNext ==
  \/ \E e \in Emitters : Resume(e) \/ \E s \in Series, k \in Keys : Emit(e, s, k)
  \/ \E u \in Readers : SocketOpens(u) \/ SocketCloses(u) \/ BeginPaging(u)
  \/ \E u \in Editors, c \in SUBSET {"websocket"}, v \in BOOLEAN : UpdatePrefs(u, c, v)
  \/ \E u \in Editors : SetQuietHours(u)
  \/ NextPage \/ PagingEnds

InboxSpec == InboxInit /\ [][InboxNext]_inboxVars

-----------------------------------------------------------------------------
\* A reader who pages to the end has seen every notification that was there when it began and still is,
\* whatever arrived and whatever was dropped meanwhile (get_notification_history).
PagesMissNothing ==
  paging.pc = "over" => paging.due \cap Ids(inbox) \subseteq paging.seen

\* A user hears of a series at most once for each change of its signal, however the emitters interleave.
NoEcho ==
  \A u \in Readers, s \in Series :
    Cardinality({i \in DOMAIN inbox : inbox[i].user = u /\ inbox[i].series = s}) <= turned[s].times

\* Quiet hours are the ticks met on the way from their start to their end around the clock.
QuietIsAnInterval ==
  \A s, e, now \in Clock :
    InQuietHours(s, e, now) <=> (now + DayLength - s) % DayLength <= (e + DayLength - s) % DayLength

InboxSound == PagesMissNothing /\ NoEcho /\ QuietIsAnInterval

(* Fail, and documented: *)
\* The last notification of a series in an inbox is about its present signal: two emitters overtake each
\* other while they send, and a user who connects later is told nothing.
LastIsCurrent ==
  \A i \in DOMAIN inbox :
    (/\ \A e \in Emitters : emitting[e].pc = "idle"
     /\ \A j \in DOMAIN inbox : inbox[j].user = inbox[i].user /\ inbox[j].series = inbox[i].series => j <= i)
    => inbox[i].key = shown[inbox[i].series]
\* The hours in which a rule is active are an interval around the clock too: overnight hours are never active.
ActiveIsAnInterval ==
  \A s, e, now \in Clock :
    InsideActiveHours(s, e, now) <=> (now + DayLength - s) % DayLength <= (e + DayLength - s) % DayLength

--------------------------------------------------------------------------------
(***************************************************************************)
(* The alert callback (src/monitoring/alerts.py) with its throttle and its *)
(* acknowledgements (alert_channels.py), and the webhook sender            *)
(* (src/alerts/webhook.py).  Throttle and acknowledgements are two files,  *)
(* each read once by a process and afterwards written whole from its       *)
(* memory: opening a file to write empties it.  The server runs one        *)
(* callback at a time; the command line (python -m ... ack) is a second    *)
(* process with copies of its own.  The server may crash at any point.     *)
(***************************************************************************)

CONSTANTS AlertKeys, Cooldown, Retries,
          Empty,                         \* what a file holds while it is written
          MaxClock, MaxAcks, MaxCrashes  \* bounds

\* There is an alert to send, and an empty file is no table of timestamps.
ASSUME AlertsAssumption ==
  /\ AlertKeys # {} /\ Empty \notin [AlertKeys -> 0 .. MaxClock]
  /\ Cooldown \in Nat /\ MaxClock \in Nat /\ Cooldown <= MaxClock

VARIABLES clock, crashes,
          files,     \* the two files, or Empty while one is being written
          server,   \* what the server has of them, and where its callback is
          cli,      \* what a run of the command line has
          hook,     \* the webhook sender and its receiver
          told,     \* history: per key the messages of the two senders and when the throttle let one pass
          issued    \* history: the tokens handed out, and those a writer could not know of or lost

alertVars == <<clock, crashes, files, server, cli, hook, told, issued>>

AckTokens == 1 .. MaxAcks

NeverSent == [k \in AlertKeys |-> 0]   \* a missing timestamp counts as 0; the clock starts later
NoAcks == [t \in {} |-> "open"]
Loaded(f, none) == IF f = Empty THEN none ELSE f

AlertTypeOK ==
  /\ clock \in Cooldown .. MaxClock /\ crashes \in 0 .. MaxCrashes
  /\ files.throttle = Empty \/ files.throttle \in [AlertKeys -> 0 .. MaxClock]
  /\ files.acks = Empty \/ DOMAIN files.acks \subseteq AckTokens
  /\ server.pc \in {"down", "idle", "throttle", "create", "acks", "send", "event"}
  /\ server.throttle \in [AlertKeys -> 0 .. MaxClock] /\ DOMAIN server.acks \subseteq AckTokens
  /\ cli.pc \in {"none", "loaded", "writing"}
  /\ hook.pc \in {"idle", "posting", "TRUE", "FALSE"} /\ hook.got \in 0 .. Retries

AtRest == [pc |-> "idle", key |-> CHOOSE k \in AlertKeys : TRUE, throttle |-> NeverSent, acks |-> NoAcks]

AlertInit ==
  /\ clock = Cooldown /\ crashes = 0
  /\ files = [throttle |-> NeverSent, acks |-> NoAcks] /\ server = AtRest
  /\ cli = [pc |-> "none", acks |-> NoAcks]
  /\ hook = [pc |-> "idle", tries |-> 0, got |-> 0]
  /\ told = [k \in AlertKeys |-> [passed |-> {}, forgotten |-> FALSE, messages |-> 0]]
  /\ issued = [tokens |-> {}, unseen |-> {}]

-----------------------------------------------------------------------------
PassesEarly(last) == clock - last >= Cooldown - 1                          \* mutant
Passes(last) == clock - last >= Cooldown

\* The callback: the metrics are left out.  should_send notes the time before anything is sent, and saves.
Alert(k) ==
  /\ server.pc = "idle"
  /\ IF Passes(server.throttle[k])
     THEN /\ server' = [server EXCEPT !.pc = "throttle", !.key = k, !.throttle[k] = clock]
          /\ files' = [files EXCEPT !.throttle = Empty]
          /\ told' = [told EXCEPT ![k].passed = @ \cup {clock}]
     ELSE /\ server' = [server EXCEPT !.pc = "event", !.key = k]
          /\ UNCHANGED <<files, told>>
  /\ UNCHANGED <<clock, crashes, cli, hook, issued>>

ThrottleSaved ==
  /\ server.pc = "throttle"
  /\ files' = [files EXCEPT !.throttle = server.throttle]
  /\ server' = [server EXCEPT !.pc = "create"]
  /\ UNCHANGED <<clock, crashes, cli, hook, told, issued>>

\* A run of the command line that has read the file does not know the token.
HandedOut(t) ==
  issued' = [tokens |-> issued.tokens \cup {t},
             unseen |-> issued.unseen \cup (IF cli.pc = "none" THEN {} ELSE {t})]

CreateAckUnsaved ==                                                        \* mutant
  \/ /\ server.pc = "create" /\ Cardinality(issued.tokens) < MaxAcks
     /\ LET t == Cardinality(issued.tokens) + 1 IN
        /\ server' = [server EXCEPT !.pc = "send", !.acks = [u \in DOMAIN @ \cup {t} |-> IF u = t THEN "open" ELSE @[u]]]
        /\ HandedOut(t)
     /\ UNCHANGED <<clock, crashes, files, cli, hook, told>>

\* With require_ack the message names a token that is kept until it is acknowledged.
CreateAck ==
  \/ /\ server.pc = "create" /\ Cardinality(issued.tokens) < MaxAcks
     /\ LET t == Cardinality(issued.tokens) + 1 IN
        /\ server' = [server EXCEPT !.pc = "acks", !.acks = [u \in DOMAIN @ \cup {t} |-> IF u = t THEN "open" ELSE @[u]]]
        /\ HandedOut(t)
     /\ files' = [files EXCEPT !.acks = Empty]
     /\ UNCHANGED <<clock, crashes, cli, hook, told>>
  \/ /\ server.pc = "acks"
     /\ files' = [files EXCEPT !.acks = server.acks]
     /\ server' = [server EXCEPT !.pc = "send"]
     /\ UNCHANGED <<clock, crashes, cli, hook, told, issued>>

\* Without it nothing is kept.
NoAckWanted ==
  /\ server.pc = "create" /\ server' = [server EXCEPT !.pc = "send"]
  /\ UNCHANGED <<clock, crashes, files, cli, hook, told, issued>>

\* Slack, then e-mail, each of which may fail unnoticed (two messages of a key are many).
Sends(here, next) ==
  /\ server.pc = here /\ server' = [server EXCEPT !.pc = next]
  /\ \E n \in {0, 1} : told' = [told EXCEPT ![server.key].messages = IF @ < 2 THEN @ + n ELSE @]
  /\ UNCHANGED <<clock, crashes, files, cli, hook, issued>>
SendThrottled == Sends("send", "event")

\* notify_event sends the same event once more and asks no throttle.
NotifyEvent == Sends("event", "idle")

\* What was being written is lost, with all that the file held.
Crash ==
  /\ server.pc # "down" /\ crashes < MaxCrashes /\ crashes' = crashes + 1
  /\ server' = [AtRest EXCEPT !.pc = "down"]
  /\ told' = [k \in AlertKeys |-> [told[k] EXCEPT !.forgotten = @ \/ server.pc = "throttle"]]
  /\ issued' = IF server.pc = "acks" THEN [issued EXCEPT !.unseen = issued.tokens] ELSE issued
  /\ UNCHANGED <<clock, files, cli, hook>>

\* The module is imported again: AlertThrottler and AckStore read their files.
Restart ==
  /\ server.pc = "down"
  /\ server' = [AtRest EXCEPT !.throttle = Loaded(files.throttle, NeverSent), !.acks = Loaded(files.acks, NoAcks)]
  /\ issued' = IF files.acks = Empty THEN [issued EXCEPT !.unseen = issued.tokens] ELSE issued
  /\ UNCHANGED <<clock, crashes, files, cli, hook, told>>

-----------------------------------------------------------------------------
\* The command line: read, mark, write all of it back.
AckCommand ==
  \/ /\ cli.pc = "none" /\ files.acks # NoAcks
     /\ cli' = [pc |-> "loaded", acks |-> Loaded(files.acks, NoAcks)]
     /\ issued' = IF files.acks = Empty THEN [issued EXCEPT !.unseen = issued.tokens] ELSE issued
     /\ UNCHANGED <<clock, crashes, files, server, hook, told>>
  \/ /\ \E t \in DOMAIN cli.acks : cli' = [pc |-> "writing", acks |-> [cli.acks EXCEPT ![t] = "acked"]]
     /\ cli.pc = "loaded" /\ files' = [files EXCEPT !.acks = Empty]
     /\ UNCHANGED <<clock, crashes, server, hook, told, issued>>
  \/ /\ cli.pc \in {"loaded", "writing"}
     /\ files' = IF cli.pc = "loaded" THEN files ELSE [files EXCEPT !.acks = cli.acks]
     /\ cli' = [pc |-> "none", acks |-> NoAcks]
     /\ UNCHANGED <<clock, crashes, server, hook, told, issued>>

-----------------------------------------------------------------------------
\* send_alert_webhook: an answer may be lost after the receiver has the payload.
Post ==
  /\ \/ hook.pc = "idle" /\ hook' = [hook EXCEPT !.pc = "posting"]
     \/ /\ hook.pc = "posting" /\ hook.tries < Retries
        /\ \E received, answered \in BOOLEAN :
             /\ answered => received
             /\ hook' = [tries |-> hook.tries + 1, got |-> hook.got + (IF received THEN 1 ELSE 0),
                         pc |-> IF answered THEN "TRUE" ELSE IF hook.tries + 1 = Retries THEN "FALSE" ELSE "posting"]
     \/ hook.pc \in {"TRUE", "FALSE"} /\ hook' = [pc |-> "idle", tries |-> 0, got |-> 0]
  /\ UNCHANGED <<clock, crashes, files, server, cli, told, issued>>

TickAlerts ==
  /\ clock < MaxClock /\ clock' = clock + 1
  /\ UNCHANGED <<crashes, files, server, cli, hook, told, issued>>

AlertNext ==
  \/ \E k \in AlertKeys : Alert(k)
  \/ ThrottleSaved \/ CreateAck \/ NoAckWanted \/ SendThrottled \/ NotifyEvent
  \/ Crash \/ Restart \/ AckCommand \/ Post \/ TickAlerts

AlertSpec == AlertInit /\ [][AlertNext]_alertVars

-----------------------------------------------------------------------------
\* The throttle lets two alerts of a key pass only a cool-down apart, across restarts too, unless a crash
\* met it writing its file ("Keeps last-sent timestamps ... so alerts survive restarts").
AlertsSpaced ==
  \A k \in AlertKeys : ~told[k].forgotten =>
    \A a, b \in told[k].passed : a < b => b - a >= Cooldown

\* A token that was handed out while no command line had the file open, and that nobody read the file
\* too early to see, is in the file, or is being written: an operator who lists the alerts finds it.
AcksOnFile ==
  \/ files.acks = Empty
  \/ issued.tokens \ issued.unseen \subseteq DOMAIN files.acks

\* The webhook sender reports success only for a payload the receiver has.
PostedIsReceived == hook.pc = "TRUE" => hook.got >= 1

AlertsSound == AlertsSpaced /\ AcksOnFile /\ PostedIsReceived

(* Fail, and documented: *)
\* An acknowledged alert stays acknowledged: the server writes its own copy over it.
AckedStays ==
  [][\A t \in AckTokens : ~(/\ files.acks # Empty /\ files'.acks # Empty
                         /\ t \in DOMAIN files.acks \cap DOMAIN files'.acks
                         /\ files.acks[t] = "acked" /\ files'.acks[t] = "open")]_alertVars
\* No token is lost: a command line that read the file before drops those made since.
EveryTokenKept == files.acks = Empty \/ issued.tokens \subseteq DOMAIN files.acks
\* A key whose throttle let nothing pass twice had at most one message: the event is sent twice.
OneMessagePerPass == \A k \in AlertKeys : told[k].messages <= Cardinality(told[k].passed)
\* A failed webhook was not received: its answer may have been lost.
FailedIsUnreceived == hook.pc = "FALSE" => hook.got = 0

--------------------------------------------------------------------------------
\* What is told to the users and to the operators (notification_service.py, alert_channels.py).
NoticesSound == InboxSound /\ AlertsSound
================================================================================
