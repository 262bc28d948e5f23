----------------------------- MODULE ModelRegistry -----------------------------
(***************************************************************************)
(* The JSON file of src/ml/model_registry.py, shared by processes (the API *)
(* and the trainers): every change loads the file, changes the copy in     *)
(* memory and rewrites the file in place, first truncating it.  The lock   *)
(* of the module serialises the threads of one process only, so the        *)
(* processes are the actors here.  A model is its path; the model at       *)
(* position n of the list has the id n.                                    *)
(***************************************************************************)
EXTENDS Naturals, Sequences, FiniteSets, SequencesExt

CONSTANTS ProcessSets,   \* the sets of processes to consider
          Paths, MaxChanges, MaxKills, NoModel

ASSUME RegistryAssumption ==
  /\ IsFiniteSet(Paths) /\ (\A S \in ProcessSets : IsFiniteSet(S))
  /\ NoModel \notin Paths \cup Nat /\ {MaxChanges, MaxKills} \subseteq Nat

VARIABLES procs, file, work, changes, kills,
          given   \* history: the ids that register_model_artifact and set_active_model returned, with their path

registryVars == <<procs, file, work, changes, kills, given>>

Processes == UNION ProcessSets
EmptyRegistry == [models |-> <<>>, active |-> 0]
Truncated == [models |-> <<>>, active |-> NoModel]      \* a file that json.load refuses
IdleWork == [pc |-> "idle", path |-> NoModel, id |-> 0, reg |-> EmptyRegistry]
Registries == [models : SeqOf(Paths, Cardinality(Paths)), active : 0 .. Cardinality(Paths)]

RegistryTypeOK ==
  /\ procs \in ProcessSets
  /\ file \in Registries \cup {Truncated}
  /\ work \in [Processes -> [pc : {"idle", "truncate", "write"}, path : Paths \cup {NoModel},
                             id : 0 .. Cardinality(Paths), reg : Registries]]
  /\ changes \in 0 .. MaxChanges /\ kills \in 0 .. MaxKills
  /\ given \subseteq [id : 1 .. Cardinality(Paths), path : Paths]

RegistryInit ==
  /\ procs \in ProcessSets /\ file = EmptyRegistry /\ work = [p \in Processes |-> IdleWork]
  /\ changes = 0 /\ kills = 0 /\ given = {}

\* _load_registry: a missing or unreadable file counts as an empty registry.
LoadRegistry == IF file = Truncated THEN EmptyRegistry ELSE file

NeverKnown(models, path) == 0                                              \* mutant
\* The id of a path in the list, 0 when it is not there.
IdOf(models, path) == IF path \in ToSet(models) THEN CHOOSE n \in DOMAIN models : models[n] = path ELSE 0

RegisteredFresh(reg, path) == [models |-> <<path>>, active |-> 1]          \* mutant
\* register_model_artifact: update the entry of the path or add one; the first model becomes active.
Registered(reg, path) ==
  LET models == IF IdOf(reg.models, path) = 0 THEN Append(reg.models, path) ELSE reg.models
      id == IF IdOf(reg.models, path) = 0 THEN Len(models) ELSE IdOf(reg.models, path)
  IN [models |-> models, active |-> IF reg.active = 0 THEN id ELSE reg.active]

CanActivateAny(reg, id) == TRUE                                            \* mutant
\* set_active_model: only an id of the list.
CanActivate(reg, id) == id \in DOMAIN reg.models

BeginSave(p, reg, path, id) ==
  /\ p \in procs /\ work[p].pc = "idle" /\ changes < MaxChanges
  /\ changes' = changes + 1
  /\ work' = [work EXCEPT ![p] = [pc |-> "truncate", path |-> path, id |-> id, reg |-> reg]]
  /\ UNCHANGED <<procs, file, kills, given>>

Register(p) ==
  \E path \in Paths : LET reg == Registered(LoadRegistry, path) IN
    BeginSave(p, reg, path, IdOf(reg.models, path))

SetActive(p) ==
  \E id \in 1 .. Cardinality(Paths) :
    /\ CanActivate(LoadRegistry, id)
    /\ BeginSave(p, [LoadRegistry EXCEPT !.active = id],
                 IF id \in DOMAIN LoadRegistry.models THEN LoadRegistry.models[id] ELSE NoModel, id)

\* _save_registry: open(path, "w") truncates, the dump follows.
TruncateFile(p) ==
  /\ work[p].pc = "truncate"
  /\ file' = Truncated /\ work' = [work EXCEPT ![p].pc = "write"]
  /\ UNCHANGED <<procs, changes, kills, given>>

WriteFile(p) ==
  /\ work[p].pc = "write"
  /\ file' = work[p].reg /\ work' = [work EXCEPT ![p] = IdleWork]
  /\ given' = given \cup {[id |-> work[p].id, path |-> work[p].path]}
  /\ UNCHANGED <<procs, changes, kills>>

\* A process dies: after the truncation the file stays empty.
Kill(p) ==
  /\ work[p].pc # "idle" /\ kills < MaxKills
  /\ work' = [work EXCEPT ![p] = IdleWork] /\ kills' = kills + 1
  /\ UNCHANGED <<procs, file, changes, given>>

RegistryNext == \E p \in Processes : Register(p) \/ SetActive(p) \/ TruncateFile(p) \/ WriteFile(p) \/ Kill(p)

RegistrySpec == RegistryInit /\ [][RegistryNext]_registryVars

-----------------------------------------------------------------------------
Alone == Cardinality(procs) = 1 /\ kills = 0

\* Whatever processes race and die, a readable file is consistent: a path is listed once, and the
\* active model is one of the list, missing only when the list is empty.
RegistryConsistent ==
  file # Truncated => /\ IsInjective(file.models)
                      /\ file.active \in DOMAIN file.models \/ (file.active = 0 /\ file.models = <<>>)

\* With one process that is never killed, an id once answered denotes its model for ever: registering
\* again, other models and switching the active one neither lose nor renumber it.
IdsAreStable ==
  Alone /\ file # Truncated => \A g \in given : g.id \in DOMAIN file.models /\ file.models[g.id] = g.path

\* All of it: the registry file that processes share (model_registry.py).
RegistryKept == RegistryTypeOK /\ RegistryConsistent /\ IdsAreStable
=============================================================================
