------------------------------- MODULE MCStores -------------------------------
(* The stores of the API, what is learned from data, and the models that keep themselves up to    *)
(* date, checked one after the other: focus, chosen in the initial state, is the component that    *)
(* moves.  They share no state.                                                                    *)
EXTENDS StateStore, ModelRegistry, ProjectionLearning, Training, SelfTuning
CONSTANTS loop, worker, p, q, x, y
VARIABLE focus

\* A non-primary namespace is written to SQLite whatever the shadow setting says.
StoreConfigsMC ==
  {c \in [primary : BOOLEAN, shadow : BOOLEAN, ttl : BOOLEAN, clear : BOOLEAN,
          threads : {{loop}, {loop, worker}}] : c.shadow \/ c.primary}

ProcessSetsMC == {{p}, {p, q}}

\* Rows per symbol of the datasets trained on.
RowCountsMC == {<<9>>, <<30>>, <<12, 12>>, <<3>>}

EpisodeReturnsMC == {-1, 3}
BaselinesMC == {[calmar |-> 0, sharpe |-> 0, win |-> 50], [calmar |-> -50, sharpe |-> -50, win |-> 50]}

allVars == <<focus, storeVars, logVars, registryVars, learningVars, trainingVars, tuneVars,
             onlineVars>>

\* The components that do not move are left in one of their initial states.
Init ==
  /\ focus \in {"state", "log", "registry", "learning", "training", "automl", "online"}
  /\ focus # "state" => storeCfg = (CHOOSE c \in StoreConfigs : TRUE) /\ redis = NoCopy /\ sqlite = NoCopy
  /\ focus # "log" => logShadow = FALSE /\ logClear = FALSE /\ client = FALSE
  /\ focus # "registry" => procs = {p}
  /\ focus # "learning" => candles = FALSE /\ timeframe = CHOOSE n \in Timeframes : TRUE
  /\ focus # "training" => study = "labels"
  /\ focus # "automl" => overlap = FALSE /\ baseline = CHOOSE b \in Baselines : TRUE
  /\ StoreInit /\ LogInit /\ RegistryInit /\ LearningInit /\ TrainingInit /\ TuneInit /\ OnlineInit

Next ==
  \/ /\ focus = "state" /\ StoreNext
     /\ UNCHANGED <<focus, logVars, registryVars, learningVars, trainingVars, tuneVars, onlineVars>>
  \/ /\ focus = "log" /\ LogNext
     /\ UNCHANGED <<focus, storeVars, registryVars, learningVars, trainingVars, tuneVars,
                    onlineVars>>
  \/ /\ focus = "registry" /\ RegistryNext
     /\ UNCHANGED <<focus, storeVars, logVars, learningVars, trainingVars, tuneVars, onlineVars>>
  \/ /\ focus = "learning" /\ LearningNext
     /\ UNCHANGED <<focus, storeVars, logVars, registryVars, trainingVars, tuneVars, onlineVars>>
  \/ /\ focus = "training" /\ TrainingNext
     /\ UNCHANGED <<focus, storeVars, logVars, registryVars, learningVars, tuneVars, onlineVars>>
  \/ /\ focus = "automl" /\ TuneNext
     /\ UNCHANGED <<focus, storeVars, logVars, registryVars, learningVars, trainingVars,
                    onlineVars>>
  \/ /\ focus = "online" /\ OnlineNext
     /\ UNCHANGED <<focus, storeVars, logVars, registryVars, learningVars, trainingVars, tuneVars>>

Spec == Init /\ [][Next]_allVars
=============================================================================
