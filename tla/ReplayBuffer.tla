---------------------------- MODULE ReplayBuffer ----------------------------
(* rl/experience_replay.py: the replay buffer of the trainers, with its tree of priority sums, and  *)
(* the Page-Hinkley test on the rewards.  Every method holds the buffer's lock, so it is one step;   *)
(* between sample() and update_priorities() the trainer holds tree indices and no lock.  The         *)
(* exponent alpha is 1; a TD error, epsilon and the boost are small integers.                        *)
EXTENDS Integers, Sequences, FiniteSets, FiniteSetsExt

CONSTANTS
  Capacity,      \* slots of the buffer (SumTree recurses for ever on a capacity of 1)
  TdErrors,      \* absolute TD errors tried
  Epsilon,       \* added to a TD error
  Boost,         \* regime_boost_factor
  BatchSize,     \* of sample()
  MaxCalls,      \* bound: calls that change the buffer
  Rewards,       \* rewards given to the drift detector
  MinSamples,    \* its min_samples
  Threshold,     \* ... and threshold
  MaxRewards,    \* bound: rewards it sees
  NoExp          \* an empty slot

ASSUME ReplayAssumption ==
  /\ Capacity \in Nat \ {0, 1} /\ BatchSize \in 1 .. Capacity
  /\ TdErrors \subseteq Nat /\ Epsilon \in Nat \ {0} /\ Boost \in Nat \ {0}
  /\ MaxRewards \in 0 .. 4     \* the means are kept in twelfths
  /\ Rewards \subseteq Nat /\ MinSamples \in Nat /\ Threshold \in Nat /\ MaxCalls \in Nat
  /\ NoExp \notin Int /\ NoExp \notin [td : Nat, known : BOOLEAN]

VARIABLES
  buf,       \* the buffer: what save() writes
  detector,  \* the drift detector is observed, not the buffer
  calls,     \* calls on the buffer so far
  held,      \* the tree indices of the batch being trained on
  behind,    \* the buffer was cleared, or replaced from disk, since the batch was drawn
  late,      \* ... and a batch was then written back all the same, once
  file,      \* what load() can read: <<a buffer>>, or <<>> for no file or a torn one
  drift,     \* the drift detector: count, sum, cumulative and lowest cumulative sum, last_drift_idx
  seen,      \* ... the rewards it was given
  rose       \* ... one of them was above the one before, since the reset before it

replayVars == <<detector, calls, buf, held, behind, late, file, drift, seen, rose>>

-----------------------------------------------------------------------------
(* SumTree: node n has the children 2n+1 and 2n+2; the last Capacity nodes are the leaves.          *)
Nodes == 0 .. 2 * Capacity - 2
Leaves == Capacity - 1 .. 2 * Capacity - 2
SlotOf(leaf) == leaf - Capacity + 1
Parent(n) == (n - 1) \div 2

Above[n \in Nodes] == IF n = 0 THEN {} ELSE {Parent(n)} \cup Above[Parent(n)]

PropagateShort(tree, leaf, change) ==                                        \* mutant
  [n \in Nodes |-> IF n \in Above[leaf] /\ n # 0 THEN tree[n] + change ELSE tree[n]]
Propagate(tree, leaf, change) ==
  [n \in Nodes |-> IF n \in Above[leaf] THEN tree[n] + change ELSE tree[n]]
SetPriority(tree, leaf, p) == Propagate([tree EXCEPT ![leaf] = p], leaf, p - tree[leaf])

\* _retrieve: the leaf at the cumulative sum s / scale.
Retrieve(tree, s, scale) ==
  LET Down[n \in Nodes] ==
        [r \in Int |-> IF 2 * n + 1 \notin Nodes THEN n
                       ELSE IF r <= scale * tree[2 * n + 1] THEN Down[2 * n + 1][r]
                       ELSE Down[2 * n + 2][r - scale * tree[2 * n + 1]]]
  IN  Down[0][s]

-----------------------------------------------------------------------------
EmptyBuffer ==
  [tree |-> [n \in Nodes |-> 0], pointer |-> 0, leaves |-> 0,
   data |-> [i \in 0 .. Capacity - 1 |-> NoExp], position |-> 0, size |-> 0, max |-> 1]
NoBatch == <<>>

\* _compute_priority: boosted when the transition is recent and of a known regime.
Priority(td, boosted) == (td + Epsilon) * (IF boosted THEN Boost ELSE 1)

\* add(): a transition without a TD error gets the largest one so far.
Add(td, known, recent) ==
  /\ LET exp == [td |-> IF td = NoExp THEN buf.max ELSE td, known |-> known]
         leaf == buf.pointer + Capacity - 1
     IN  buf' = [tree |-> SetPriority(buf.tree, leaf, Priority(exp.td, known /\ recent)),
                 pointer |-> (buf.pointer + 1) % Capacity,
                 leaves |-> Min({buf.leaves + 1, Capacity}),
                 data |-> [buf.data EXCEPT ![buf.position] = exp],
                 position |-> (buf.position + 1) % Capacity,
                 size |-> Min({buf.size + 1, Capacity}),
                 max |-> Max({buf.max, exp.td + Epsilon})]
  /\ UNCHANGED <<held, behind, late, file, drift, seen, rose>>

\* sample(): one leaf per segment of the total; an empty slot is replaced by any filled one.
DrawFrom(i) ==
  {LET leaf == Retrieve(buf.tree, s, BatchSize)
   IN  IF buf.data[SlotOf(leaf)] # NoExp THEN leaf ELSE d + Capacity - 1
     : s \in buf.tree[0] * i .. buf.tree[0] * (i + 1), d \in 0 .. buf.size - 1}
Sample ==
  /\ held = NoBatch /\ buf.size >= BatchSize
  /\ held' \in {b \in [1 .. BatchSize -> Leaves] : \A i \in 1 .. BatchSize : b[i] \in DrawFrom(i - 1)}
  /\ behind' = FALSE
  /\ UNCHANGED <<buf, late, file, drift, seen, rose>>

\* update_priorities(): the leaf is set whether or not its slot still holds a transition.
UpdateOne(b, leaf, td, recent) ==
  LET exp == b.data[SlotOf(leaf)]
  IN  [b EXCEPT !.data[SlotOf(leaf)] = IF exp = NoExp THEN NoExp ELSE [exp EXCEPT !.td = td],
                !.tree = SetPriority(b.tree, leaf,
                                     Priority(td, exp # NoExp /\ exp.known /\ recent)),
                !.max = Max({@, td})]
UpdatePriorities ==
  /\ held # NoBatch
  /\ \E tds \in [1 .. BatchSize -> TdErrors], recent \in BOOLEAN :
       LET Upto[i \in 0 .. BatchSize] ==
             IF i = 0 THEN buf ELSE UpdateOne(Upto[i - 1], held[i], tds[i], recent)
       IN  buf' = Upto[BatchSize]
  /\ late' = (late \/ behind)
  /\ held' = NoBatch
  /\ UNCHANGED <<behind, file, drift, seen, rose>>

-----------------------------------------------------------------------------
\* save() opens the file for writing and pickles into it; a crash leaves a part of it.
Save == file' = <<buf>> /\ UNCHANGED <<buf, held, behind, late, drift, seen, rose>>
CrashInSave ==
  /\ file' = <<>> /\ buf' = EmptyBuffer /\ held' = NoBatch
  /\ UNCHANGED <<behind, late, drift, seen, rose>>

\* load(): no file is a warning, a torn one an exception, before anything is assigned.
Load ==
  /\ file # <<>>
  /\ buf' = file[1] /\ behind' = TRUE
  /\ UNCHANGED <<held, late, file, drift, seen, rose>>

Clear ==
  /\ buf' = EmptyBuffer /\ behind' = TRUE
  /\ UNCHANGED <<held, late, file, drift, seen, rose>>

-----------------------------------------------------------------------------
(* ConceptDriftDetector.update: the running mean, the deviations summed, and how far the sum is     *)
(* above its lowest.                                                                                *)
NewDetector == [count |-> 0, sum |-> 0, last |-> 0, cum |-> 0, low |-> NoExp, lastAt |-> 0]

Deviation(r, mean) == r - mean
Observed(r) ==
  LET n == drift.count + 1
      cum == drift.cum + Deviation(12 * r, (12 * (drift.sum + r)) \div n)
  IN  [drift EXCEPT !.count = n, !.sum = @ + r, !.last = r, !.cum = cum,
                    !.low = IF @ = NoExp THEN cum ELSE Min({@, cum})]
Drifted(d) == d.count > MinSamples /\ d.cum - d.low > 12 * Threshold

Reward(r) ==
  /\ seen < MaxRewards
  /\ seen' = seen + 1
  /\ drift' = IF Drifted(Observed(r)) THEN [NewDetector EXCEPT !.lastAt = drift.count + 1] ELSE Observed(r)
  /\ rose' = (drift.count > 0 /\ (rose \/ r > drift.last))
  /\ UNCHANGED <<buf, held, behind, late, file>>

ReplayInit ==
  /\ detector \in BOOLEAN /\ calls = 0
  /\ buf = EmptyBuffer /\ held = NoBatch /\ behind = FALSE /\ late = FALSE /\ file = <<>>
  /\ drift = NewDetector /\ seen = 0 /\ rose = FALSE

BufferNext ==
  \/ \E td \in TdErrors \cup {NoExp}, known, recent \in BOOLEAN : (recent => known) /\ Add(td, known, recent)
  \/ Sample \/ UpdatePriorities \/ Save \/ CrashInSave \/ Load \/ Clear

ReplayNext ==
  /\ UNCHANGED detector
  /\ IF detector THEN (\E r \in Rewards : Reward(r)) /\ UNCHANGED calls
                 ELSE calls < MaxCalls /\ calls' = calls + 1 /\ BufferNext

-----------------------------------------------------------------------------
Filled(leaf) == buf.data[SlotOf(leaf)] # NoExp

\* Every inner node is the sum of its children, whatever was added, rewritten, cleared or loaded.
SumsMatch == \A n \in Nodes \ Leaves : buf.tree[n] = buf.tree[2 * n + 1] + buf.tree[2 * n + 2]

\* Sampling is proportional: of the unit steps up to the total, a leaf gets as many as its priority.
Proportional ==
  \A leaf \in Leaves :
    Cardinality({s \in 1 .. buf.tree[0] : Retrieve(buf.tree, s, 1) = leaf}) = buf.tree[leaf]

\* A stored transition has the priority of its own TD error, boosted only if its regime is known.
PrioritiesMatch ==
  \A leaf \in Leaves : Filled(leaf) =>
    LET exp == buf.data[SlotOf(leaf)]
    IN  buf.tree[leaf] \in {Priority(exp.td, FALSE), Priority(exp.td, exp.known)}

\* An empty slot has a priority only after a batch drawn before a clear() or load() was written back.
NoPhantoms == \A leaf \in Leaves : buf.tree[leaf] > 0 /\ ~Filled(leaf) => late

\* The tree's cursor and the buffer's stay together; a new transition starts no lower than any other.
InStep == buf.pointer = buf.position /\ buf.leaves = buf.size
NewestFirst == \A i \in DOMAIN buf.data : buf.data[i] # NoExp => buf.data[i].td <= buf.max

\* Drift is a rise of the rewards: while they only fall the detector never fires.
FallsUnseen == seen > 0 /\ drift.count = 0 => rose

ReplaySound ==
  SumsMatch /\ Proportional /\ PrioritiesMatch /\ NoPhantoms /\ InStep /\ NewestFirst /\ FallsUnseen

\* get_stats(): total_updates counts the rewards.  Fails after the second drift: last_drift_idx is the
\* count since the drift before.
StatsCount == drift.count + drift.lastAt = seen

ReplaySpec == ReplayInit /\ [][ReplayNext]_replayVars
=============================================================================
