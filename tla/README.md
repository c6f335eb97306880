# A verification project for DogOS

TLA+ models of the parts of this repository that keep state, race, or must
survive a failure; TLC runs that check them on small instances; and TLAPS
proofs of what matters most, for instances of every size. Paths are relative to
the repository. `PROJECT.json` maps each definition to the lines it models.

    tlc -workers 2 -config importer.cfg MCIdentityImporter     # a run
    tlapm IdentityImporterProofs.tla                           # proofs

## 1. The system

Each robot dog has a vendor Agent. Around it this repository keeps: the Agent's
identity files (importer, X5 runner, S100 administrator), what the dog remembers
of other dogs (one SQLite file per dog), what two dogs do together (identity
gate, session, text relay), and two local programs that move a robot through a
restricted service bridge (companion, stage console). An action policy judges
tool calls; nothing calls it yet.

| Component | State | Operations | Correct when |
|---|---|---|---|
| Identity importer `native_agent/identity/importer.py` | target files, import state, journal, backup directories | apply, mark restarted, roll back, recover | a crash anywhere leaves a whole release, and the way back |
| X5 runner `runtime/x5_runner.py` | the device, the running harness | apply a release, roll it back | what it reports is what the device and the harness hold |
| S100 administrator `runtime/s100_admin.py`, `gates.py` | four voice switches, one saved file per dog | enable, disable, restore, install, roll back | the owner's settings survive, reports are true |
| Memory store `packages/dogos_memory` | one database per dog: profile, memories, scores | initialize, append, recall | thoughts rest on facts, scores on events, once each |
| Memory adapter `native_agent/dogos_adapter` | none | recall in bounded text, record | an agent is told the newest memories exactly, or told they are cut |
| Identity gate `dogos_demo/identity.py` | candidate, stable frames, last confirmation | observe, confirm manually | no encounter on unstable sightings, none overlooked |
| Pair session `dogos_demo/coordinator.py` and its parts | two databases, the run's locals | run or repeat a session | both dogs remember the same, credit is given once |
| Relay `dogos_mcp/relay.py`, `bridge.py` | shared outbox, two databases | send, inbox, acknowledge | acknowledged means remembered by both |
| MCP endpoint `dogos_mcp/server.mjs` | slots, connections | request, bridge, timeouts, stop | slots return, success is true |
| Companion `apps/companion` | engine, queue, epoch, memory file | events, tick, worker, HTTP handlers | silent when told, never pushy, never on unsaved memory |
| Stage console `apps/demo_choreo` | shared driver, worker thread | cue, stop, clear | x stops the show |
| Action policy `native_agent/policy` | none; used approvals and last move are the caller's | evaluate, issue an approval | unknown fails closed, an approval serves once |

Interactions: the administrator copies a capsule to the X5 and runs the runner,
which calls the importer. The gate's decision starts a session, which appends
to both memory stores. Relay acknowledgements append to the same stores, from
short-lived bridge processes that the endpoint starts and kills. Companion and
console call the robot through `scripts/agenticros_bridge.py`.

Hard behaviours: crashes between durable writes that belong together; reads
before a lock used after it; a caller that gave up while its callee goes on;
repeated and late requests; a keyboard or HTTP thread against a worker without
a common lock; services that act without answering, or answer without acting.
`PROJECT.json` lists them line by line under "hazards".

## 2. Modules

**ImportAtomic** is the abstract specification: install, mark and roll back are
each one step. **IdentityImporter** is the code: one durable write per step, one
flock (so one program counter), requests validated before the lock, exceptions
that run the code's own recovery, crashes, and outside edits of target files
while no call is under way. `pc` is the place in `apply_bundle`,
`rollback_bundle` or `_recover_pending`; `journal` is `import-pending.json`;
`backup[r]` one directory. `Atomic` is the refinement mapping: a pending journal
means "as if recovered". **X5Release** works on the one-step device
(`INSTANCE ImportAtomic`) that the importer was shown to implement, and adds the
restart of the harness, the half-written files a harness may read during an
import, kills, reboots and a second runner: the one the administrator gave up on.

**MemoryStore** holds what a transaction of `append` does: contract, triggers,
idempotency, capped credit. It has no state; three modules use it. **DogMemory**
is one database under arbitrary callers; **SocialRecall** adds the two queries
and the adapter's bounded answer, binary search of the cut included.
**PairSession** is the coordinator with one read, robot action or append per
step, in simulation mode (the only mode the CLI builds). **PairRelay** is the
bridge process: find, receiver's memory, sender's memory, mark, each a
transaction of its own. **PairEndpoint** composes it with the server that starts
bridges: slots, slow bodies, the 5 s kill, the 10 s 408, lost clients, restart.

**EncounterGate** is `observe` and `confirm_manual`. **VoiceAdmin** is one
switch per step; gates are grouped into three conditions (safe, energy,
release), and what the X5 does is one answer.

**Companion** is the engine as a record and two operators, `Event` and `Tick`;
**CompanionPolicy** drives it with any events, **CompanionServer** with the real
server: worker loop, lock, epochs, HTTP requests, memory file, restart.
**StageLive** is the console's keyboard loop and worker; each step is one read or
write of the shared driver or half of a call. **ActionPolicy** is
`evaluate_action` as a function, plus a caller that does what the policy's
README asks of one. The repository has no caller: that it decides and notes the used
approval and the move in one step is an assumption of the model.

Each MC module supplies the constants of a run; operators said in their comment
to be a "Mutant" are variants with a plausible bug, used only to confirm that a
property can fail. `PROJECT.json` names the definition each one stands in for.

## 3. Runs

Deadlock is checked except where the system may rest for good (companion,
policy, stage: a bound on the clock or on the keys has been reached).

| Run | Instance | What it shows |
|---|---|---|
| importer | 2 processes, 2 files, 2 bundles, 3 contents, 1 fault | `PendingIsRecoverable`, `InstalledHasUndo`, `RestartFlagIsEarned`, and that every run is one of ImportAtomic (`ImplementsAtomic`) |
| importer_wedge | 1 process, 2 faults | violation of `EveryPhaseRecovers`, see section 5 |
| x5 | 2 runners, 3 faults | `ReadyIsRunning`, `RestoredIsBaseline`, `GateOpensHonestly` for a lone call; `FollowsDevice` in every race |
| dog_memory | 3 dogs, 5 ids, several payloads each | `ThoughtsAreGrounded`, `ScoreIsEarned`, `AnswerIsExact`, `AffinityIsExplained` |
| pair | 2 processes, 1 session, 2 times, 1 fault | `MemoriesAgree`, `CreditOncePerSession`, `CompletedIsShared`, `RecordedIsNotRepeated`, and `PartialSessionsComplete` (liveness) |
| gate | 3 stable frames, gap 2, cooldown 4, times 0..7 | `TagsAreStable`, `SightingsAreAnswered` |
| relay | 2 dogs, 1 message id, 2 bodies, 2 bridges, 1 slot each, 1 fault | `AcknowledgedIsRemembered`, `MemoryIsOfTheMessage`, `SuccessIsTrue`, and `VisibleIsAcknowledged` (liveness) |
| voice | 1 dog, 3 faults | `SavedIsOriginal`, `NothingLeftBehind`, `ReportsAreTrue` |
| companion_policy | one person, clock unbounded in effect | `BudgetHolds`, `IgnoredBacksOff`, `GreetsWhoStays` |
| companion_server | actions of two calls, failing calls and writes | `HaltedIsQuiet`, `FaultNeedsApproval`, `NoCallAfterInterrupt`, `ActsOnSavedMemory` |
| stage | 2 routines, 1 stop | `AtMostOneLateOutput`, `CancelledWasStopped`, `StopClears`, `RoutineEnds` (liveness) |
| policy | 4 risk classes, time 0..2, 2 runs, 2 approvals | `RunsAreApproved`, `MovesAreApart`, `StartsOnFreshFacts` |

Why the bounds are enough to be interesting:

- *importer*: two bundles that overlap in one file, so an undo can meet another
  release's file; two calls whose checks go stale. `MaxClock = 0` gives every
  import the same timestamp: equal records are the harder case, since a test of
  equality can then take one import for another. Processes are symmetric.
- *x5*: three faults let an import, its restart and its rollback fail in one call.
- *dog_memory*: the room of an answer is chosen so that a fact, a thought, its
  evidence and even an empty item run out of it; each case was seen to occur.
- *pair*: a crash leaves a session in one memory; a second process with another
  time meets it. Familiarity changes during the first run, which is what
  original_initiator exists for.
- *relay*: one id sent with two bodies and from both sides; two bridges are what
  it takes for one to overtake the other.
- *gate*: eight instants hold two confirmations, a gap and a cooldown.
- *companion_policy* and *companion_server*: a VIEW replaces times by ages, cut
  off where no comparison can tell them apart any more, so the clock is unbounded
  in effect although `MaxTime` is not. With these windows the server's queue never
  holds more than one decision: what happens beyond its maxlen of 4, where the oldest
  is lost, is met by the proofs only.
- *stage*: the second routine begins with the flag, the deadline and the emotion that
  the first, and an x during it or between the two, left in the shared driver. (It
  cannot begin while a stop is clearing: the key thread reads no key until then.)
- *policy*: an approval's lifetime, a sensor's age and a cooldown can each be met
  and missed by one. Nonces are symmetric.

Every bound is a constant named in the module that has it: `MaxFaults`,
`MaxClock`, `MaxTime`, `MaxEvents`, `MaxRuns`, `MaxStops`, `MaxIssued`.

### Fairness

- *pair*: weak fairness of each step of a run (a process that lives goes on) and
  strong fairness of repeating the session: the operator, or the callback that
  repeats it, gets through again and again although other runs come in between.
- *relay*: weak fairness of `Serve` and `TimesOut` (the event loop, the timers
  and a live bridge go on), strong fairness of the arrival of an acknowledgement
  and of its body: `pair_dialogue.mjs` answers what its inbox shows. Without a
  client that tries again nothing can be promised.
- *stage*: weak fairness of the worker thread, nothing of the operator.
- Elsewhere only safety is claimed. A stopped importer really stays stopped.

## 4. Proofs

Eight modules hold theorems. In each the invariant (`IInv`, or `...Inv`) is a
conjunction of named parts, one lemma per action shows that a step keeps it, and
the theorems are its consequences. Each was checked by TLC before it was proved.

**IdentityImporterProofs**, for all sets of processes, files, contents and
bundles and any number of faults and edits:

- `TypeCorrect`; `RecoveryIsPossible` (= `PendingIsRecoverable`). The property is
  not inductive: that the files still match the baseline while a journal exists
  follows only from where the importer is. `IInv` adds, pc by pc, what has been
  written so far: `ApplyInv`, `RollbackInv`, `RecoveryInv`, what a journal says
  of the device (`JournalInv`) and of backups (`BackupInv`).
- `ImporterIsAtomic` (= `ImplementsAtomic`). Each step is a step of ImportAtomic
  or a stutter under the mapping; a journal describes either an untouched device
  or one its backup restores, which makes every write but the commit invisible.
- `UndoIsKept` (= `InstalledHasUndo`), of the abstract steps alone. That the
  installed release has an undo record is not enough: a rollback installs the one
  below. `Stack` says that the releases below form a finite stack without
  repetition, each with a record that leads to the next. It holds because an
  apply takes over an old record only if that starts from the device as it is.
- `FlagIsEarned` (= `RestartFlagIsEarned`): only mark-restarted, or a rollback to
  a release that was marked, makes the flag fall.

**X5ReleaseProofs**, for any runners, bundles and faults: `DeviceIsImported`
(= `FollowsDevice`), `ReadyIsTrue` (= `ReadyIsRunning`), `RestoredIsTrue`
(= `RestoredIsBaseline`), `GateIsHonest` (= `GateOpensHonestly`). The invariant is
the stack of releases again (`Stacked`, here with the files of each level, so that
"installed" means "its files are in place"), the lock (`OneImporter`), that an
importer's checks are still true when it writes (`Fresh`), and what a runner knows
at each place if no other was called (`AloneInv`).

**MemoryStoreProofs** (lemmas: what one append adds, and that it takes nothing
away) and **DogMemoryProofs**, for all dogs, ids and memories, and all sizes of
texts and answers:

- `TypeCorrect`, `ThoughtsRestOnFacts` (= `ThoughtsAreGrounded`), `ScoresAreEarned`
  (= `ScoreIsEarned`). The sum of a set does not depend on the order in which
  `SumFunction` takes its elements (`SumsAdd`), nor on rows outside it (`SumsAgree`),
  and capping early is the same as capping late. `StoreInv` also says that rows are
  finitely many, well formed, under their ids, with evidence that is stored (`Sound`).
- `AnswersAreExact` (= `AnswerIsExact`). Ids tell the found memories apart, so each
  has a rank and every rank is taken (`LatestIsList`). The binary search keeps a
  bracket (its lower end fits, the length after its upper end does not) and halves
  it (`NextRange`), so it ends at a length that fits and the next of which does not
  (`SearchFinds`); that sizes grow with the length is not needed. One list is told whole or ends at the first memory that
  does not fit (`AppendAllEnds`), facts before thoughts (`RecallEnds`).
- `AffinityAddsUp` (= `AffinityIsExplained`). What earned something is a completed
  fact (`EarnedAreRecalled`); facts that earned nothing and the order of the list do
  not change the sum (`SumIgnoresZeros`, `SumIsReindexed`).

**PairSessionProofs**, for any processes, sessions, configurations of the two dogs
and times: `OneTimePerAction` (= `MemoriesAgree`), `CreditedOnce`
(= `CreditOncePerSession`), `CompletedMeansShared` (= `CompletedIsShared`),
`NotRepeated` (= `RecordedIsNotRepeated`). Every row is what some run completed
(`RowsInv`); a run knows what it has behind it (`Behind`). While runs have not
overlapped (`AloneInv`) every session has one plan: once a half of it is recorded,
whoever repeats it starts with the same dog (`OnePlan`, `Sees`). The attempt to
prove `CreditOncePerSession` for overlapping runs failed for a good reason; see
section 5.

The same module holds the gate's theorems, for every configuration and all
reports: `EncountersAreStable` (= `TagsAreStable`), `NobodyIsOverlooked`
(= `SightingsAreAnswered`). What is counted was reported (`Counted`), the last
accepted report is the last frame (`InStep`), and what waits at the end of the
log was counted (`Waiting`).

**PairEndpointProofs**, for any dogs, messages, bridges and faults:
`AcknowledgedIsOnRecord` (= `AcknowledgedIsRemembered`), `MemoryIsTrue`
(= `MemoryIsOfTheMessage`), `SuccessIsEarned` (= `SuccessIsTrue`). A row only gets
its acknowledgement time, a memory is never replaced; so what a bridge has read
(`Claimed`) and appended (`Halfway`) is still so at its next transaction, and a
second bridge can only find it done. `ServerStep` shows that the server touches
neither: it starts, collects and kills bridges.

**LiveProofs** holds three independent components, told apart by their names.

- VoiceAdmin, for any number of faults: `SavedStaysOriginal`,
  `NothingIsForgotten`, `ReportsHold` (= the three properties of run voice). The
  undo of an activation is not read back; `Settles` says that the requests it has
  yet to make determine every switch, wherever the failure left it.
- StageLive, for any routine, any number of runs and presses: `OneLateOutput`
  (= `AtMostOneLateOutput`), `CancelIsMeant` (= `CancelledWasStopped`),
  `StopLeavesNothing` (= `StopClears`). One worker lives at a time (`Single`); the
  flag it reads is the stop it was given (`FlagIsTrue`), the deadline is past when
  its time ran out unless x took it away (`LimitIsTrue`); from there each place of
  the loop says how many outputs can still be late. `Clearing` says which outputs
  the stop still owes, call by call.
- ActionPolicy, for any allowlist that the parser accepts, any intents, robots,
  times and approvals: `MissingReadingNeverHelps` (taking a reading away never
  turns a denial into a permission), `ApprovedOnce` (= `RunsAreApproved`),
  `CooldownHolds` (= `MovesAreApart`), `FreshFacts` (= `StartsOnFreshFacts`). The
  invariant adds that issued approvals are genuine, that each run's nonce is
  remembered as used, that what the caller read was true when it was read, and
  that the last move it knows of is the last.

**CompanionProofs**, for all windows, budgets, numbers of calls and times. First
the engine: whatever the event and whatever the drives decide, a call rests,
greets, invites, looks around or answers (`EventMoves`), and `Recent`, the trim of
the two lists, keeps exactly the times that still count, now and later
(`RecentTrims`). Then

- the server: `ServerIsTyped` (the engine's lists within their budgets, the queue
  within its maxlen, included); `PauseWaits` (= `HaltedIsQuiet`), `FaultsNeedApproval`
  (= `FaultNeedsApproval`), `InterruptsAreFinal` (= `NoCallAfterInterrupt`),
  `MemoryComesFirst` (= `ActsOnSavedMemory`). `ServerInv`: a decision's epoch is
  current only if no interruption came after it (`Fresh`, for the queue and the job in
  hand, `Carried`); what a failure still waits for finds the engine halted
  (`Approved`); a job of the current epoch finds the memory on disk (`OnDisk`).
- the engine's promises: `BudgetIsKept` (= `BudgetHolds`), `IgnoringIsHeard`
  (= `IgnoredBacksOff`), `GreetingsWait` (= `GreetsWhoStays`). `PolicyInv`: at any
  later time the lists count at least what was really done (`Covers`); the counter
  is the number of strikes and the next invitation is put off accordingly (`Owes`);
  while an invitation waits, no other came after it (`Waits`); the presence
  began after the last absence (`Stayed`). `IgnoringIsHeard` has the hypothesis
  `ResponseWindow > 0`: the code's `Config.response_window` is 12 s. With 0 an
  invitation would be given up at the moment it is made.

Assumptions are the `ASSUME`s of the modules, which TLC evaluates in the runs:
payloads, factory contents and inputs are well typed; `None`, `Null`, `Nothing`,
`Unknown` and `Never` differ from every value they stand beside; bounds are
naturals; an empty answer fits its bound and a limit is at most 20
(`SizesAssumption`, `RequestsAssumption`); the two dogs of a session differ (`RolesAssumption`) and an action earns
something (`ConfigAssumption`); a gate's configuration is one DemoConfig accepts; a
routine is not empty and its steps are of the kinds the routine book accepts
(`RoutineAssumption`); the allowlist is accepted; a robot has every reading.

Recursive functions and sums are proved about without an induction theorem: a
counterexample of least size is picked (`LeastNumber`, from the well-foundedness
of < on Nat; `MinimalSet`) and refuted. This needs the definition in hand, so it is
done once per definition.

`AppendAll` and the search are recursive functions for the same reason, and the
k-th newest memory is said by its rank, not by a sorting operator.

Left to TLC: liveness (`PartialSessionsComplete`, `VisibleIsAcknowledged`,
`RoutineEnds`), which the provers do not reach. Every safety property of every
run that passes is a theorem.

## 5. Where code and documentation disagree

Shown by a run: `importer_wedge`. The backup directory is deleted before the
journal (`importer.py:745`); a crash within the deletion leaves a directory that
exists but is incomplete, which every later recovery refuses, although the
docstring at `importer.py:710` promises recovery in every phase.

Met while modelling. The models follow the code and the properties are stated
so that they hold of it:

- `x5_runner.py`: a rollback restores `restart_required = False` with the old
  state before the harness has restarted; `GateOpensHonestly` exempts that step
  by name, and holds for the rest.
- `command_execution.py:59` says "without double execution": true of what was
  recorded; a crash between the dispatch and the first append repeats the action.
- Pair session: two runs of one session at once, with a run of another session
  between them, may read different relationships, plan differently and credit a
  dog twice. `MemoriesAgree` and `CreditOncePerSession` speak of runs that did not
  overlap (`alone`); nothing but the operator keeps them apart.
- Identity gate: the cooldown lives in one process, so each CLI `encounter`
  starts without one.
- Relay and endpoint: `relay.py:184` hides an old unacknowledged message behind
  newer ones; an answer may be dropped when the child's `exit` precedes the end
  of its output; bridges orphaned by a 408 or a restart exceed the slot limit.
- Adapter: when evidence ids are dropped the whole content may fit, and is still
  marked as cut.
- Voice: the undo of a failed activation trusts its answers and is not read back
  (`s100_admin.py:612`); with a service that acknowledges without acting the old
  settings are lost. `SavedIsOriginal` says "unless a service lies".
- Companion: budgets and backoff are lost at a restart (`engine.py:34`).
- Stage: an x between the start of a thread and its `begin_routine` is forgotten
  (`live.py:126`); what is already on its way can be overtaken by the clearing calls
  (`live.py:226`), so `StopClears` exempts the output under way at the x. The console's
  `README.md:41` says that no later step runs after a failure; `core.py:294` goes on
  when the step says `on_failure = continue`. The routines shipped name none, so it
  is true of them; the model plays both.
- Robot bridge: `reset_head` stops the head first; when the turn after that is
  refused the head stays where it is.
- Policy: the allowlist gives device control a cooldown of 1 s, but the class is
  not physical, so it is never applied (`policy.py:717`).

## 6. Not modelled, and why

- *Bundles, staging, commands, artifacts, evaluations*: pure functions of bytes.
- *Robot bridge*: its handlers run one at a time under a lock; the delayed head
  return is planned (below). What the stage sees of it is in `Fades`.
- *Control plane*: HTTP parsing and file I/O around one publication; planned.
- *Pair connection check, link scripts, launchers, dialogue operator*: transport,
  shell, parsing; the dialogue's acknowledgements are the client of the relay.
- *VoiceAdmin*: effects that arrive after a timeout was reported, two
  administrators at once, the checks of capsule and envelope.
- *Companion*: simulated mode, the rates of the drives, parsing of topics.
- *Stage*: dry run, 3 s repeat filter, validation of the routine book, exit.
- *ActionPolicy*: numbers that are not finite, malformed approvals, reason order.
- *Importer*: liveness; a device may lose power for ever.

## 7. Plan

Done, in order: importer and its abstraction, X5 runner, memory store, pair
session, gate, policy, voice administrator, companion, stage, relay and endpoint,
adapter. Left:

1. HeadBridge: the bridge's lock, the delayed return, a second action, an
   emergency stop in between.
2. PreviewStore: publication of one immutable revision by concurrent requests.
3. PairConnection: what the verdict says of two routes; PairDialogue: three
   bounded turns over the relay.
