----------------------------- MODULE BrokerSession -----------------------------
(***************************************************************************)
(* The broker connection kept by src/api/frontend_routes.py in three       *)
(* records of the state store: the connection, the credentials and the     *)
(* user settings, written one after the other by the connect and           *)
(* disconnect handlers.  Handlers exclude each other on the event loop;    *)
(* the kill switch reads connection and credentials on a worker thread to  *)
(* cancel the open orders at a live broker; the process may die between    *)
(* two writes.  Credentials stand for the provider they were given for.    *)
(***************************************************************************)
EXTENDS Naturals, FiniteSets

CONSTANTS Providers,
          Adapters,       \* providers with an adapter class for cancellations
          CancelThreads, MaxHandlers, NoProvider

ASSUME SessionAssumption == NoProvider \notin Providers

VARIABLES connection, credentials, settings, flags,
          handler,   \* the connect, disconnect or settings handler under way
          cancelCall, handlers,
          overlap,   \* history: the cancelling threads whose reads a handler has overlapped
          cut,       \* history: a handler has died half-way
          edited     \* history: the settings were edited directly

sessionVars == <<connection, credentials, settings, flags, handler, cancelCall, handlers, overlap, cut, edited>>

Modes == {"paper", "live"}
MaybeProvider == Providers \cup {NoProvider}
NoHandler == [pc |-> "idle", op |-> "none", provider |-> NoProvider, mode |-> "paper", keys |-> FALSE]
NoCancelCall == [pc |-> "idle", provider |-> NoProvider, credentials |-> NoProvider]
Disconnected == [provider |-> NoProvider, mode |-> "paper"]

SessionTypeOK ==
  /\ connection \in [provider : MaybeProvider, mode : Modes] /\ credentials \in MaybeProvider
  /\ settings \in [provider : MaybeProvider, mode : Modes] /\ flags \in [Providers -> SUBSET Modes]
  /\ handler \in [pc : {"idle", "credentials", "connection", "settings"}, op : {"none", "connect", "disconnect"},
                  provider : MaybeProvider, mode : Modes, keys : BOOLEAN]
  /\ cancelCall \in [CancelThreads -> [pc : {"idle", "credentials", "cancelling"}, provider : MaybeProvider,
                                       credentials : MaybeProvider]]
  /\ overlap \subseteq CancelThreads /\ cut \in BOOLEAN /\ edited \in BOOLEAN

SessionInit ==
  /\ connection = Disconnected /\ credentials = NoProvider
  /\ settings = [provider |-> NoProvider, mode |-> "paper"]
  /\ flags = [p \in Providers |-> {"paper"}]
  /\ handler = NoHandler /\ cancelCall = [w \in CancelThreads |-> NoCancelCall]
  /\ handlers = 0 /\ overlap = {} /\ cut = FALSE /\ edited = FALSE

Idle == handler.pc = "idle"
Reading == {w \in CancelThreads : cancelCall[w].pc = "credentials"}
Begin(h) == Idle /\ handlers < MaxHandlers /\ handlers' = handlers + 1 /\ handler' = h /\ overlap' = overlap \cup Reading

-----------------------------------------------------------------------------
\* connect_broker: live if it was asked for and the provider's flags allow it, else paper, if that is
\* allowed; then the three records.
GrantedRequested(p, requested) == requested                                \* mutant
Granted(p, requested) == IF requested = "live" /\ "live" \in flags[p] THEN "live" ELSE "paper"

Connect ==
  /\ \E p \in Providers, requested \in Modes, keys \in BOOLEAN :
       /\ requested = "paper" => "paper" \in flags[p]
       /\ Granted(p, requested) = "paper" => "paper" \in flags[p]
       /\ Begin([pc |-> "credentials", op |-> "connect", provider |-> p, mode |-> Granted(p, requested), keys |-> keys])
  /\ UNCHANGED <<connection, credentials, settings, flags, cancelCall, cut, edited>>

\* disconnect_broker: the same records, the credentials last.
Disconnect ==
  /\ Begin([pc |-> "connection", op |-> "disconnect", provider |-> NoProvider, mode |-> "paper", keys |-> FALSE])
  /\ UNCHANGED <<connection, credentials, settings, flags, cancelCall, cut, edited>>

\* Connecting without keys clears the stored ones.
CredentialsKept == IF handler.keys THEN handler.provider ELSE credentials  \* mutant
CredentialsAfter == IF handler.keys THEN handler.provider ELSE NoProvider

WriteCredentials ==
  /\ handler.pc = "credentials"
  /\ credentials' = CredentialsAfter
  /\ handler' = IF handler.op = "connect" THEN [handler EXCEPT !.pc = "connection"] ELSE NoHandler
  /\ UNCHANGED <<connection, settings, flags, cancelCall, handlers, overlap, cut, edited>>

WriteConnection ==
  /\ handler.pc = "connection"
  /\ connection' = [provider |-> handler.provider, mode |-> handler.mode]
  /\ handler' = [handler EXCEPT !.pc = "settings"]
  /\ UNCHANGED <<credentials, settings, flags, cancelCall, handlers, overlap, cut, edited>>

\* Disconnecting keeps the provider in the settings.
WriteSettings ==
  /\ handler.pc = "settings"
  /\ settings' = [provider |-> IF handler.op = "connect" THEN handler.provider ELSE settings.provider,
                  mode |-> handler.mode]
  /\ handler' = IF handler.op = "connect" THEN NoHandler ELSE [handler EXCEPT !.pc = "credentials"]
  /\ edited' = FALSE
  /\ UNCHANGED <<connection, credentials, flags, cancelCall, handlers, overlap, cut>>

\* update_user_settings may set the mode and the provider, whatever the connection.
EditSettings ==
  /\ Idle /\ handlers < MaxHandlers /\ handlers' = handlers + 1
  /\ \E p \in Providers, mode \in Modes : settings' = [provider |-> p, mode |-> mode]
  /\ edited' = TRUE
  /\ UNCHANGED <<connection, credentials, flags, handler, cancelCall, overlap, cut>>

\* upsert_feature_flag: what is given changes, the other flags of the provider stay.
Upserted(p, mode, on) == [flags EXCEPT ![p] = IF on THEN @ \cup {mode} ELSE @ \ {mode}]

\* update_broker_feature_flag
UpdateFlag ==
  /\ Idle /\ handlers < MaxHandlers /\ handlers' = handlers + 1
  /\ \E p \in Providers, mode \in Modes, on \in BOOLEAN :
       flags' = Upserted(p, mode, on)
  /\ UNCHANGED <<connection, credentials, settings, handler, cancelCall, overlap, cut, edited>>

-----------------------------------------------------------------------------
\* cancel_live_broker_open_orders on a worker thread: the connection, ...
CancelReadsConnection(w) ==
  /\ cancelCall[w].pc = "idle"
  /\ connection.mode = "live" /\ connection.provider \in Adapters
  /\ cancelCall' = [cancelCall EXCEPT ![w] = [pc |-> "credentials", provider |-> connection.provider,
                                              credentials |-> NoProvider]]
  /\ overlap' = IF Idle THEN overlap \ {w} ELSE overlap \cup {w}
  /\ UNCHANGED <<connection, credentials, settings, flags, handler, handlers, cut, edited>>

\* ... then the credentials: without them nothing is cancelled.
CancelReadsCredentials(w) ==
  /\ cancelCall[w].pc = "credentials"
  /\ cancelCall' = [cancelCall EXCEPT ![w].pc = IF credentials = NoProvider THEN "idle" ELSE "cancelling",
                                      ![w].credentials = credentials]
  /\ UNCHANGED <<connection, credentials, settings, flags, handler, handlers, overlap, cut, edited>>

CancelEnds(w) ==
  /\ cancelCall[w].pc = "cancelling"
  /\ cancelCall' = [cancelCall EXCEPT ![w] = NoCancelCall]
  /\ UNCHANGED <<connection, credentials, settings, flags, handler, handlers, overlap, cut, edited>>

SessionRestart ==
  /\ ~Idle
  /\ handler' = NoHandler /\ cancelCall' = [w \in CancelThreads |-> NoCancelCall]
  /\ cut' = TRUE
  /\ UNCHANGED <<connection, credentials, settings, flags, handlers, overlap, edited>>

SessionNext ==
  \/ Connect \/ Disconnect \/ WriteCredentials \/ WriteConnection \/ WriteSettings
  \/ EditSettings \/ UpdateFlag \/ SessionRestart
  \/ \E w \in CancelThreads : CancelReadsConnection(w) \/ CancelReadsCredentials(w) \/ CancelEnds(w)

SessionSpec == SessionInit /\ [][SessionNext]_sessionVars

-----------------------------------------------------------------------------
\* The kill switch logs in with the credentials of the connected provider, unless a connect or
\* disconnect ran beside its two reads, or once died between its writes.
OwnCredentials ==
  \A w \in CancelThreads : cancelCall[w].pc = "cancelling" /\ w \notin overlap /\ ~cut =>
    cancelCall[w].credentials = cancelCall[w].provider

\* Between handlers the three records tell the same session: no credentials without their connection,
\* the mode of the settings is that of the connection, unless a handler died half-way or the settings
\* were edited by hand.
SessionAgrees ==
  Idle /\ ~cut =>
    /\ credentials # NoProvider => connection.provider = credentials
    /\ ~edited => settings.mode = connection.mode
    /\ ~edited /\ connection.provider # NoProvider => settings.provider = connection.provider

\* A session turns live only while the flags allow it for its provider, in the settings too when they
\* are written by a connect: nothing changes the flags between the decision and the writes.
LiveWhenAllowed ==
  [][/\ connection'.mode = "live" /\ connection' # connection => "live" \in flags[connection'.provider]
     /\ settings'.mode = "live" /\ settings' # settings /\ ~edited' => "live" \in flags[settings'.provider]]_sessionVars

\* All of it: one broker session told by three stored records (frontend_routes.py).
OneSession == [](SessionTypeOK /\ OwnCredentials /\ SessionAgrees) /\ LiveWhenAllowed
=============================================================================
