----------------------------- MODULE RegimeProfile -----------------------------
(***************************************************************************)
(* The strategy profile of src/api/services/regime_route_service.py: the   *)
(* user settings name a manual profile or leave it to the router, and the  *)
(* stored regime state shows the profile in force.  Handlers on the event  *)
(* loop (deploying a strategy, editing the settings, resetting the         *)
(* profile) write the settings and then merge the override into the regime *)
(* state they read; inferences on worker threads read the settings,        *)
(* classify the market, and replace the whole regime state.                *)
(***************************************************************************)
EXTENDS Naturals, FiniteSets

CONSTANTS ProfileNames, Markets, InferThreads, MaxChoices, MaxInfers,
          AutoProfile,      \* aiManualStrategyProfile "auto": no manual profile
          Unknown    \* the regime before the first inference

VARIABLES chosen,     \* the manual profile of the settings
          regime,     \* the stored regime state
          sync,       \* the handler under way
          infer,      \* the inferences
          latest,     \* history: what the last persisting inference found
          choices, infers,
          stale,      \* history: a choice was made after the profile of the regime state was read
          lostUpdate  \* history: the last inference replaced a state that a handler had read to merge into

regimeVars == <<chosen, regime, sync, infer, latest, choices, infers, stale, lostUpdate>>

Profiles == ProfileNames \cup {AutoProfile}
NoInfer == [pc |-> "idle", market |-> Unknown, manual |-> AutoProfile, early |-> FALSE]
NoSync == [pc |-> "idle", profile |-> AutoProfile, read |-> Unknown]

RegimeTypeOK ==
  /\ chosen \in Profiles /\ latest \in Markets \cup {Unknown}
  /\ regime \in [market : Markets \cup {Unknown}, profile : ProfileNames, manual : BOOLEAN]
  /\ sync \in [pc : {"idle", "read", "merge"}, profile : Profiles, read : Markets \cup {Unknown}]
  /\ infer \in [InferThreads -> [pc : {"idle", "persist"}, market : Markets \cup {Unknown}, manual : Profiles,
                             early : BOOLEAN]]
  /\ stale \in BOOLEAN /\ lostUpdate \in BOOLEAN

RegimeInit ==
  /\ chosen = AutoProfile
  /\ regime \in [market : {Unknown}, profile : ProfileNames, manual : {FALSE}]
  /\ sync = NoSync /\ infer = [w \in InferThreads |-> NoInfer] /\ latest = Unknown
  /\ choices = 0 /\ infers = 0 /\ stale = FALSE /\ lostUpdate = FALSE

-----------------------------------------------------------------------------
\* deploy_strategy, update_user_settings, reset_ai_profile_override: the settings first ...
Choose ==
  /\ sync.pc = "idle" /\ choices < MaxChoices /\ choices' = choices + 1
  /\ \E p \in Profiles : /\ chosen' = p
                         /\ sync' = [pc |-> "read", profile |-> p, read |-> Unknown]
  /\ stale' = TRUE
  /\ infer' = [w \in InferThreads |-> [infer[w] EXCEPT !.early = infer[w].pc = "persist"]]
  /\ UNCHANGED <<regime, latest, infers, lostUpdate>>

\* ... then sync_regime_profile_override: the regime state is read, and written with the override.
ReadRegime ==
  /\ sync.pc = "read"
  /\ sync' = [sync EXCEPT !.pc = "merge", !.read = regime.market]
  /\ UNCHANGED <<chosen, regime, infer, latest, choices, infers, stale, lostUpdate>>

MergedUnread(p) == [market |-> Unknown, profile |-> IF p = AutoProfile THEN regime.profile ELSE p,      \* mutant
                    manual |-> p # AutoProfile]
Merged(p) == [market |-> sync.read, profile |-> IF p = AutoProfile THEN regime.profile ELSE p, manual |-> p # AutoProfile]

MergeRegime ==
  /\ sync.pc = "merge"
  /\ regime' = Merged(sync.profile)
  /\ sync' = NoSync /\ stale' = FALSE
  /\ UNCHANGED <<chosen, infer, latest, choices, infers, lostUpdate>>

-----------------------------------------------------------------------------
\* resolve_regime_route on a worker thread: classify, read the manual profile ...
Classify(w) ==
  /\ infer[w].pc = "idle" /\ infers < MaxInfers /\ infers' = infers + 1
  /\ \E m \in Markets : infer' = [infer EXCEPT ![w] = [pc |-> "persist", market |-> m, manual |-> chosen,
                                                             early |-> FALSE]]
  /\ UNCHANGED <<chosen, regime, sync, latest, choices, stale, lostUpdate>>

RoutedManual(i, routed) == [market |-> i.market, profile |-> i.manual, manual |-> i.manual # AutoProfile]  \* mutant
RoutedIgnoring(i, routed) == [market |-> i.market, profile |-> routed, manual |-> FALSE]  \* mutant

\* build_regime_state_payload: a manual profile overrides the one the router takes.
Routed(i, routed) == [market |-> i.market, profile |-> IF i.manual = AutoProfile THEN routed ELSE i.manual,
                      manual |-> i.manual # AutoProfile]

\* ... and persist_regime_route: the state is replaced as a whole; an exception there is swallowed.
Persist(w) ==
  /\ infer[w].pc = "persist"
  /\ \/ /\ \E routed \in ProfileNames : regime' = Routed(infer[w], routed)
        /\ latest' = infer[w].market /\ stale' = infer[w].early /\ lostUpdate' = (sync.pc = "merge")
     \/ UNCHANGED <<regime, latest, stale, lostUpdate>>
  /\ infer' = [infer EXCEPT ![w] = NoInfer]
  /\ UNCHANGED <<chosen, sync, choices, infers>>

\* The process dies between two writes.
RegimeRestart ==
  /\ sync.pc # "idle" \/ \E w \in InferThreads : infer[w].pc # "idle"
  /\ sync' = NoSync /\ infer' = [w \in InferThreads |-> NoInfer]
  /\ UNCHANGED <<chosen, regime, latest, choices, infers, stale, lostUpdate>>

RegimeNext ==
  \/ Choose \/ ReadRegime \/ MergeRegime \/ RegimeRestart
  \/ \E w \in InferThreads : Classify(w) \/ Persist(w)

RegimeSpec == RegimeInit /\ [][RegimeNext]_regimeVars

-----------------------------------------------------------------------------
\* The profile in force is the chosen one, or the router's when none is chosen; only an inference that
\* had read the settings before the choice, or a crash between the two writes, leaves another one in
\* force, until the next write of either side.
ProfileInForce ==
  ~stale => /\ regime.manual <=> chosen # AutoProfile
            /\ chosen # AutoProfile => regime.profile = chosen

\* Choosing a profile does not touch what the last inference found of the market, unless the inference
\* replaced the state while the handler merged into it.
MarketKept == ~lostUpdate => regime.market = latest

\* All of it: the profile a user chose and the market an inference found (regime_route_service.py).
ProfileAndMarket == RegimeTypeOK /\ ProfileInForce /\ MarketKept
=============================================================================
