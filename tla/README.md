# RuleOak: TLA+ models, checks and proofs

RuleOak puts an execution boundary between an agent and the tools it calls. A
policy decides whether a call may run, an *execution lease* carries that
decision to the moment of execution and can be used once, the call is journaled
before it is forwarded, its effect is verified afterwards, and everything is
appended to a hash-chained evidence log. All state lives in files of a
workspace directory that several processes share: wrappers, SDK clients,
gateways and CLI commands, with no server between them.

That is what makes the code hard to test and what these modules are about.
Exclusivity, durability and recovery rest on short sequences of system calls
(`open('wx')`, `write`, `fsync`, `rename`, `unlink`), and other processes run,
or the process dies, between any two of them.

Paths below are relative to the repository (`packages/core/src` is written
`core/`, `packages/cli/src` is written `cli/`).

## 1. Inventory

| part | state it keeps | operations | hard behaviour |
|---|---|---|---|
| File lock, `core/io/file-lock.js` | a lock file with host, pid, token | `withFileLock` | contenders between each pair of calls, stale locks, timeouts, a dead holder |
| Durable files, `core/io/durable-file.js` | any file | `durableExclusiveCreateSync`, `atomicWriteFileSync`, `readBoundedFileSync` | races for one path, errors and crashes after `open` |
| Execution leases, `core/execution/lease.js` | one marker per lease | issue, verify, consume | replay, revocation between check and use, windows |
| Approval contract, `core/approval/contract.js` | one marker per approval | build, resolve, spend for a lease | an approval behind two leases, expiry in flight |
| Revocation registry, `core/authority/revocation.js` | list of revocations | `revoke`, `isRevoked`, `withExclusive` | lost updates, cascade, the record limit |
| Delegation, `core/authority/{grant,budget,envelope,obligations}.js`, `cli/flight-control/store.js` | grants, allocations per parent | delegate, reserve, attenuate, verify, authorize | concurrent siblings, crash between reservation and grant, what "within" means for patterns and obligations |
| Stdio effect boundary, `cli/stdio-effect-boundary.js` | map of unanswered calls | `beforeForward`, `observeJson`, `finalizeUnresolved` | a crash anywhere, a child that exits without answering |
| Effect states, `cli/effect-state.js` | `effects/{inflight,pending,resolved}` | persist, recover, reverify, reconcile, retry plan | half-done moves between buckets, a second writer |
| Effect verification, `core/execution/effect-*.js`, `cli/effect-profile.js` | none | infer a contract, verify, `decideEffectRetry` | other writers, redirected paths, files too large to hash |
| Evidence recorder, `core/protocol/recorder.js` | append-only hash chain | `append`, `readEvents`, `verifyEvidence` | torn and short writes, two writers, the size limit |
| Approval queue, `cli/cli.js` | `approvals/`, session files, suggestions, `policy.json` | request, claim, rule, put back, suggest, apply, switch off | two people deciding at once, a policy changed meanwhile, unlocked read-modify-write |
| Approval providers, `core/approval/provider.js` | none | ask, answer, time out | an answer after its deadline, or to another request |
| Stream gate, `cli/stream-gate.js` | partial text, order of messages | frame, evaluate, forward, refuse | values split over chunks, evaluation with an old policy |
| HTTP gateway, `cli/http-gateway.js`, pins in `cli/cli.js` | a cached manifest | authorize, pin, forward, record | interleaved requests, slow fetches, batches that fail half-way |
| SDK client, `core/runtime/client.js` | none across calls | authorize, execute, verify, record | a crash after the lease is consumed, retries |
| Policy engine, `core/engine`, `core/permission` | policy | normalise, classify, match, evaluate, lint, diff | precedence, order of rules |
| Adapters, `core/adapters` | a git repository | convert a tool call, execute a git action | routes that disagree, a command killed at its deadline |
| Decision receipts, `core/decision`, `cli/cli.js` | one marker per execution grant | build, verify, consume, exec | replay, call or policy edited in between |
| Evidence and authority graphs, `core/evidence/graph.js`, `core/authority/graph.js` | none | build, trace | documents that are lost |
| Checkpoints and bundles, `cli/workstation.js`, `cli/cli.js` | exported files | export, verify | an append between the two reads of the log |
| Learning, guided rules, migration, `cli/learning.js`, `cli/workstation.js`, `core/migration` | the policy | suggest, apply, author, migrate | a rewritten policy that allows more than it did |
| Capability history and drift, `core/inspector` | history of a capability | observe, append, diff, index | load and append in two locked steps |
| CrashLab and scorecard, `core/crashlab` | none | run a scenario, score | a report that says more than was observed |
| Release gate, `core/release`, `cli/release-collector.js` | none | collect, decide | incomplete evidence that looks clean |
| Protected qualification, `cli/protected-qualification.js`, `cli/candidate-ingestion.js` | three directory trees | scan, review, snapshot, check, judge | files that change between scans, checks that write |
| Secrets, protection set-up, flight-control server, intent and brownfield tools, extension SPI, VS Code extension | files written once | print, convert, analyse | see section 7 |

`PROJECT.json` lists every part with its status, and the main hazards: each at the
line where it bites, with the properties that would catch it.

How they interact. The lease, delegation, evidence and history code call
`withFileLock`; lease, receipt and approval consumption call
`durableExclusiveCreateSync`. `consumeExecutionLease` runs inside
`RevocationRegistry.withExclusive`, so a lease is verified and spent under the
registry's lock. Every route (stdio gate, HTTP gateway, SDK, `ruleoak check`)
converts a tool call with an adapter and asks the policy engine; the engine
refuses, allows, or asks, and then the route waits for a person or a provider.
The stdio boundary issues and consumes a lease, writes the inflight journal,
appends to the evidence log, and only then lets the stream gate forward the
call. `ruleoak effect reconcile`, another process, reads journal and evidence
and writes the same effect-state files. Graphs, bundles, scorecard and release
gate read what the others have written.

Correctness, per part:

* lock: mutual exclusion; a release removes its own file only; a call returns;
  the lock of a dead process is got rid of;
* markers: one creation per path, which then lasts;
* leases: one use, one lease per approval, no use outside the windows of the
  authority behind it, no use after a revocation the registry already holds;
* registry: no revocation is lost;
* delegation: no grant exceeds any grant above it, what the leaves below a
  partitioned grant may spend is within its budget, and a cascading revocation
  reaches everything below its subject; what a pattern, an obligation or an
  envelope is called "within" is implied by it;
* effect boundary: a forwarded call always has a record, ends in an effect
  state, and a retry the plan permits never repeats an effect;
* verification: a confirmed verdict is true of the resource the call was for;
* evidence: what was written verifies, what is lost is noticed, nothing on
  file changes; a bundle or a complete trace leaves nothing out;
* policy: denials win, credentials stay inside, the order of rules does not
  matter, and no rewriting of a policy loosens what it was not meant to touch;
* approvals: one ruling per request, no request disappears, and every call that
  runs on an approval has one of its own;
* gateways and SDK: what runs was allowed, under a pin that is recent, and is
  recorded before the caller hears of it;
* receipts and git actions: one use, of what was decided, recorded;
* history, scorecard, release gate, qualification: a verdict holds of what it
  was given, whatever changed or was withdrawn meanwhile.

## 2. Modules

    Mutex <----implements---- FileLock
      ^
      | lock of                DurableMarker
      |                             ^
      |                             | markers of
    LeaseAuthority -----------------+----implements----> OneUse
    Delegation, EvidenceLog, CapabilityHistory   (their lock is Mutex's)
    DecisionReceipt, GitExecution                (one step for a marker, a lease)
    EffectBoundary, HttpGateway, GuardedCall     (lease and evidence as steps)

    Cases <-- PolicyDecision <-- PolicyChanges, Adapters
          <-- AuthorityRules, EffectRules, ReleaseRules, StreamFraming,
              EvidenceBundle, EvidenceGraph              (all in MCRules)

    MCStores  = DurableMarker | EvidenceLog | Delegation | CapabilityHistory
                | ApprovalQueue | DecisionReceipt | GitExecution
    MCProcess = MCRules | CrashLab | HttpGateway | GuardedCall
                | ProtectedQualification

    X_proofs  = X with its theorems, for X = FileLock, DurableMarker,
                LeaseAuthority (which instantiates DurableMarker_proofs),
                EffectBoundary
    Process_proofs   = GuardedCall, HttpGateway, CrashLab and
                       ProtectedQualification with their theorems
    Rules_proofs     = PolicyDecision, PolicyChanges, Adapters, AuthorityRules,
                       EffectRules, ReleaseRules, EvidenceBundle and
                       EvidenceGraph with theirs
    Stores_proofs    = EvidenceLog, GitExecution, Delegation and
                       CapabilityHistory with theirs
    Approvals_proofs = ApprovalQueue and DecisionReceipt with theirs

The layers are composed by their promises. `FileLock` is shown to implement
`Mutex`, and `LeaseAuthority`, `Delegation` and `EvidenceLog` take `Mutex`'s
steps for the lock; `LeaseAuthority` instantiates `DurableMarker` itself, so
that every system call of a marker interleaves with lease operations.

`MCStores` and `MCProcess` hold parts that share no state. A behaviour is of one
part, chosen in the initial state, so the state space is the sum of theirs.

The pure decision procedures are operators. `Cases` gives them a frame: a
question is in the initial state, one step answers it, and an invariant says
what every answer must satisfy. A module says itself which questions can be
put (`PolicyAsked`, `LearningAsked`, ...), and its specification ranges over all of
them; `MCRules` lists the ones TLC asks, and assumes, which TLC evaluates, that they
are among those. Where the code
goes through an array in order and the order may matter, the operator
returns the outcomes over every order.

Definitions keep the names of the functions they model; labels (`pc`, `step`,
`stage`, `at`) name the call a process is about to make. `PROJECT.json`, "map",
gives the source lines of every definition. Definitions introduced by a comment
"Mutant of ..." are variants used to show that a property can fail.

### Processes and files

**FileLock.** The lock path is a record: the call that created the inode
(`owner`), what is in it (`absent`, `empty`, `written`) and whether its mtime is
older than `staleMs`. `seen` is the token a contender read before removing a
stale lock. One action per system call: `OpenCreates`/`OpenExists`
(`openSync 'wx'`), `WriteHolder`/`WriteFails`, `Stat`, `Judge`, `Holder`,
`Recheck`, `UnlinkStale`, `UnlinkStaleFails`, `Retry`, `Timeout`, then `Fn`,
`CheckOwned`, `UnlinkOwned`, `UnlinkOwnedFails` for the `finally` block. An unlink
that fails is swallowed, so the stale branch goes round again without a look at the
clock, and a release leaves the lock of a live process behind. `Crash`, `GrowOld`
and `PidChanges` (the pid of a dead process is given to another program, or that
program ends) are the environment. Writes go to the descriptor, hence to the inode the call created,
which need not be at the path any more.

**DurableMarker.** `marker[k]` is the file at a path, `create[p]` the call a
process is in, `wins[k]` counts the calls that reported `{ created: true }`, up
to 2. `OpenErrors` are the paths whose `open` may fail with another code than
`EEXIST`.
The failure path unlinks the path (`Cleanup`), as the code does, without asking
whose file it is.

**LeaseAuthority.** `Issue` draws the lease id and, for an approval-bound lease,
starts the approval's marker; `ApprovalUsed` is its outcome; `BuildLease` is
`buildExecutionLease` with its own clock read, the revocation query and the
window arithmetic (`WindowStart`, `WindowEnd`). `Consume`, `LockConsume`,
`Verify`, `Replayed`, `CreateMarker`, `Consumed` are `consumeExecutionLease`,
with a registry (locked) or without. `Revoke`, `LockRevoke`, `Persist` are
`RevocationRegistry.revoke`. Revocations may be dated in the past or in the
future. Digests and signatures are identities: a lease presented for
consumption is one that was issued.

**OneUse.** The promise: a lease is issued once, an approval stands behind one
lease, an issued lease is used once.

**EffectBoundary.** One wrapper process (`busy` is what its event loop is in the
middle of; JavaScript runs `beforeForward` and `#finalize` without a pause, but
a crash may come between their file operations), the child and its resource
(`world` is what a verifier sees, `applied` what really happened), the disk
(`journal`, `anchored`, `file`) and a reconciler process (`rec`). `Persist` is
`persistEffectState` in three steps (write a bucket, rename the other away,
remove the journal), shared by wrapper and reconciler; a rename or an unlink that
fails is swallowed (`Supersede`, `ClearInflight`). An append to the evidence log may
be cut short, by a crash or a short write (`Append`); from then on appends throw and
no verification gets past the chain (`Throws`, `Bound`). An exception in the wrapper
is fatal to it (`AppendThrows`); in the reconciler it leaves the call where it is. `Retry` is an operator who does what
the retry plan permits.

**Delegation.** `grants` are the grant files, `allocations` the budget registry,
`job[p]` the delegation a process is in: the new id, the one time stamp `at` that
all its checks use, and the child. `LoadParent` is `loadActiveParentGrant`,
`Delegate` the second verification, the validation of the child and
`isAuthorityGrantAttenuated`; `LockBudget`, `Reserve`, `ReserveFails` are
`DelegationBudgetRegistry.reserve`; `WriteGrant` and `WriteFails` write the file.
`Revoke` records a revocation at any moment. The branch of `reserve` for a child
that already has an allocation is not reached, since ids are drawn afresh.

**EvidenceLog.** A log is a sequence of lines, each whole, without its newline,
or cut; an event's hash is its identity and its chain link is the identity of
its predecessor. `Compose` is the event built from the last line, `WriteLine`
the single `writeSync` whose byte count the code ignores, `WriteFails` a failing
write or fsync. `ReadEvents` and `VerifyEvidence` are the readers, as operators.

**CapabilityHistory.** Observers inspect an integration whose tools change.
`LoadHistory` reads the file under its lock and builds the observations with
their lifecycle and drift; `AppendObservations` takes the lock again, reads the
file again and appends the whole batch or, by an exception, nothing; another
observer may come in between.
`publicEvents` is what the public index shows.

**ApprovalQueue.** The files of the queue (`pending`, claimed, ruled), session
files, suggestions and `policy.json`, without a lock. `GateAsk` and `CheckCall`
make requests; `Decide` claims one by a rename, `CheckClaim` compares it with the
policy, `Refuse` and `ReturnClaim` put it back, `RecordRuling`, `ReadSession`,
`WriteSession`, `Suggest` and `FinishRuling` are the rest of a ruling, and any of
them may fail after the ruling is on record and leave the claim (`RulingCutShort`).
`ReadToApply`, `ReadToSwitch`, `WritePolicy`, `MarkApplied` change the policy. The
gate of `ruleoak protect` loads the policy at `GateStart`, evaluates, prompts, and
forwards. Any process may die between any two of these.

**DecisionReceipt.** `IssueReceipt` decides and signs; an `ExecutorStep` is one
step of `ruleoak receipt consume` or `ruleoak exec`: load receipt, call and
policy, verify, create the marker, append the evidence, start the command.
Others rewrite the call and the policy, and time passes, between any two steps.

**GitExecution.** `LookBefore`, `ConsumeGitLease`, `LedgerStart`, `RunGit`,
`WriteReceipt`, `LedgerEffect` are `executeGitAction`; the repository is its commits
by author, the branch, the staged change and what was pushed. `RunGit` may be
killed before or after it took effect.

**HttpGateway.** Every POST has its own `step`: `Receive` (size and shape of the
batch), `PassMessage`, `CheckPin`, `FetchManifest`, `ManifestRead`,
`StoreManifest`, `FetchTimesOut` (the pin and its cache, shared by all requests),
`Authorize` (policy and lease of an item), `Dispatch`, `UpstreamAnswers`,
`UpstreamLost`, `RecordReceipt`, `Finalize`, `Reply`. The upstream server acts
(`UpstreamActs`) any time after `Dispatch`, also after the answer, and changes its
tools (`SurfaceChanges`). A fetch of the manifest is one request or two (`AskAgain`),
each bounded by one refresh interval, and one whose caller has been answered with a
time-out may go on and fill the cache. A recorder that throws for a denied item ends
the request after leases of earlier items are spent. `Restarts` ends the gateway with everything in memory.

**GuardedCall.** `Invoke`, the provider's answer in either version of its
interface or `ProviderDeadline`, `TakeLease`, `Execute`, `VerifyEffect`,
`RecordEffect`, `PersistEffect`; every one may throw, the agent may call again, and
the process may die. Functions outside `Automatic` are guarded in the receipt modes
`manual` and `off`: they run without a lease and leave no record of the effect.

**CrashLab.** One action per attempt or turn of an actor, one family per runner:
`Attempt`, `LegacyAttempt`, `StaleAttempt`, `EventualAttempt`, `Contend` and
`Consume`, `RevocableTurn`; `Report` builds the evidence and the verdict. The
scenario is constant; the combinations the validator admits and a runner ignores
(`revoke_on_attempt` in `concurrent_race` and `eventual_consistency`) are among them.

**ProtectedQualification.** `ScanPath` reads one path of the tree being scanned,
`LoadPolicy`, `ReviewScope`, `SnapshotPath`, `RunOracle` and `JudgeOracle` follow;
snapshot and the baseline are scanned again after each check. `FileChanges`
writes to baseline or candidate between any two reads, and a check may write to
the snapshot and the baseline. A candidate unpacked from a ZIP (`zipped`) is not
compared with the first scan when its scope is reviewed, and nobody else writes to
it.

### Decision procedures

**PolicyDecision.** `evaluatePermissionRequest` with normalisation, risk, flow and
side effect, exact rules, structured rules, the three pattern lists, session
memory and the guards in the order the gateway applies them; `lintPolicy`,
`diffPolicies`. A call has the name it was spelled with besides its category and
operation: pattern lists are matched against the name, structured rules and the
classification see the category and the operation.

**PolicyChanges.** Learning (observations, suggestions, their application), guided
rules and `migratePolicyToV2`, judged by what `PolicyDecision` says before and
after.

**Adapters.** From a tool's name and arguments to the call the policy decides, on
every route.

**AuthorityRules.** `authorityPatternMatches` and `authorityPatternIsWithin` over
sequences of characters with `?`, `*` and `**` at any place, obligations (merge,
compare, evaluate), envelopes with the grant's budget or one the caller names, the
shape and the ancestry of a grant, and what a delegated grant permits.

**EffectRules.** Contracts, path containment, verdicts, verification records and
`decideEffectRetry`. A path is absent, a file, a directory with contents, a link, or a
link that leads nowhere (which `existsSync` calls absent); between dispatch and
verification the tool and others may leave any of these; a retry is asked about with
a lease or without.

**ReleaseRules.** Classification and diff of capabilities, the scorecard, the
release snapshot and the gate, with its thresholds (95% of the effects verified,
success down by 0.02 at most) in hundredths.

**StreamFraming.** The two gates as automata over octets in any chunks, with the
decoding of each side (`String(chunk)` of a Buffer for the client,
`setEncoding('utf8')` for the child), against a filter that reads the text one
character at a time. Of a batch the permitted items are forwarded and the other
requests answered; notifications get no answer.

**EvidenceBundle, EvidenceGraph.** Checkpoints, exports per profile and their
verification; the two graphs, unresolved references and the trace.

## 3. Runs

| run | what it asks | result |
|---|---|---|
| `lock_fresh` | 3 processes, 2 calls each, crashes, pids used again, failing writes and unlinks, no lock older than `staleMs`: is `withFileLock` a mutex, and does each call remove only its own file? | holds |
| `lock_recovery` | with aging locks, failing unlinks and pids used again: does every call return, and is a dead process's lock removed, unless the removal keeps failing? | holds |
| `lock_race` | does the token check protect an owner that raced in? | **no**, see findings |
| `lease_races` | up to 3 processes issue, consume and revoke under a clock, with and without a registry, with every kind of error and stale-lock removal: one use, within the windows, no overtaken and no lost revocation, refinement of `OneUse` | holds |
| `lease_openerror` | one lease per approval when `open` may fail with `EMFILE`, `EACCES`, ... | **no**, see findings |
| `effect_crash` | 2 requests, 2 crashes anywhere in wrapper or reconciler, appends cut short, renames and unlinks that fail: a forwarded call is always recorded, ends in an effect state unless the evidence log is torn, and retries never duplicate | holds |
| `effect_live` | the record, when `effect reconcile` runs beside a live wrapper | **no**, see findings |
| `effect_orphan` | may a resolved failure turn out to be a success? | **yes**, see findings |
| `sharing` | the stores of `MCStores`, each with two or three racing processes, crashes and failing writes: see below | holds |
| `learn_again` | does a second learning session respect what a first one has placed? | **no**, see findings |
| `delegated_pattern` | is a grant an upper bound of the grants delegated from it, whatever its patterns? | **no**, see findings |
| `in_process` | the parts of `MCProcess`: every question of `MCRules`, every scenario, interleaved POSTs, guarded calls, a candidate under review: see below | holds |

A part has one or two invariants, each a conjunction of named parts that the
module states and comments on. `sharing` shows, store by store:

* markers: one creation (`CreatedOnce`), which lasts (`CreatedStays`), at the path
  without open errors;
* log, `LogIsSound`: types, written logs verify (`WrittenLogVerifies`), losses are
  detected (`LossIsDetected`);
* grants, `GrantsAreSound`: types, budgets of subtrees (`SubtreeWithinBudget`),
  attenuation along the chain (`AuthorityNeverWidens`), cascade
  (`CascadeReachesAll`);
* history, `HistoryIsSound`: the file always loads (`HistoryLoads`) and no escalation
  escapes the public index (`EscalationIsRecorded`), whatever is appended between
  load and append;
* queue: `RequestSettledOnce`, one ruling per request and none lost (`RuledOnce`,
  `RequestAccounted`); `PermissionsAreGiven`, forwarded calls and standing
  permissions go back to a rule or a person (`ForwardedIsAuthorized`,
  `PermissionHasRuling`);
* receipts, `ReceiptIsHonoured`: one use (`GrantUsedOnce`), of the call and under the
  policy decided (`GrantCoversUse`), recorded before the command starts
  (`UseIsRecorded`);
* git, `GitIsAccountable`: a change has a lease used once (`GitEffectHasLease`), and a
  receipt does not hide a change (`GitReceiptTells`).

`in_process` shows, part by part:

* policy: `GuardsCannotBeOverridden` (`SecretsStayInside`, `DenialWins`,
  `CriticalNeedsOptIn`) and `PolicyHasOneMeaning` (`LintedPolicyHasOneVerdict`,
  `QuietDiffChangesNothing`, `GuardsIgnoreSpelling`: classification, hard denials and
  guards do not depend on the spelling of a call, the policy's patterns do); its rewriting:
  `RewritesDoNotLoosen` (`LearningDoesNotLoosen`, `MigrationKeepsGuards`,
  `AuthoringIsLocal`); the routes to it: `RoutesAgree`;
* authority: `NarrowedIsNarrower` (`WithinIsInclusion`, for parents without a wildcard
  before a final `**`, and within the static prefix for those;
  `ObligationsWithinIsImplication`; `BuiltEnvelopeHolds`, which says what becomes of an
  envelope built on a budget of the caller's; `DelegableGrantHasChild`);
* effects: `VerdictsAreProven` (`ConfirmedVerdictIsTrue`, of the resource, not of who
  changed it; `RedirectedIsNotConfirmed`; `RetryIsBoundAndProven`);
* release: `ReleaseIsEarned` (`ReviewCannotBeSliced`: without review every tool of
  consequence stays as it was, and the one case in which the whole change would have
  asked for review is named; `ScorecardAgrees`; `ReleasedOnCleanEvidence`);
* streams: `FramingIsInvisible` (`ChunksDoNotMatter`, `ShownBeforeReturned`), except
  for characters that a cut goes through;
* bundles: `ExportsAreFaithful` (`CheckpointPins`, `ExportVerifies`,
  `BundleIsAuthentic`, `BundleIsOneSnapshot`, `ProfileKeepsPrivate`); graphs:
  `TracesAreComplete` (`CompleteIsComplete`, `WholeIsComplete`);
* CrashLab: `LabIsHonest` (`KeyedEffectHappensOnce`; `RevocationHolds`, for the runners
  that read a scripted revocation, and for the others in so far as a report that
  expects a denial cannot pass; `OneWinner`, `ReportIsHonest`);
* HTTP gateway: `EffectsAreAllowedAndRecorded` (`OnlyAllowedHappens`,
  `EffectHasReceipt`) and `PinIsRecent`;
* SDK: `CallsAreAllowedAndRecorded` (`ExecutedWasAllowed`, `ReturnedIsPersisted`);
* qualification: `PassIsBound`.

Each property of a passing run has a mutant in `PROJECT.json`: a variant of one
definition with a plausible bug (open with `'w'`, a lock dropped too early, a
journal not written, ...) under which TLC finds that property violated.

**Bounds.** Two contenders suffice for a race on one path and three for a race
against the one who cleans up after another, so locks and markers have three
processes. Two calls per process let a file be released and created again by the
same process. A clock of 0..2 with windows that end at 2 and 3 and a `ttlMs` of 2
puts every boundary of a half-open window before, at and after a use.
`lease_races` has two scenes, chosen in the initial state, so that its state space is
a sum: in the first, three processes consume one lease and revoke, all under the
registry's lock (an order of steps, not a matter of windows: a clock of 0..1); in the
second, at most two at a time issue two leases from one approval and consume them,
with a registry and without. The revocations are the four that matter: of the root with and
without cascade, of the grant, of the lease, one of them dated ahead;
`MaxRecords = 2` lets the registry fill. Two requests with one JSON-RPC id make
`Refuse` happen, and two crashes let recovery itself be interrupted. `MaxEvents = 3`, `MaxDraws = 4` fills the log and
leaves one append to be refused; the bound on draws only limits how many events
are ever attempted. Three new grants below a root make two siblings with a common
parent and a chain of two; a budget of 2 against requests for 1 and
for whatever the parent has lets a reservation fit, fill and fail; `MaxRecords = 2`
fills the allocation registry.

Two observers and three lines let one observer append between another's load and
append, and fill the history. One call, two requests and one edit of the policy
let two people meet on one request, a request take the id of one that was ruled
on, and a policy change under a claim. One receipt is enough for a race of two
commands; its life of 2 in hours 0..2 is met before, at and after its end. Two
executors hold one git lease or two, and others commit once. Two POSTs of up to
`MAX_BATCH_ITEMS = 3` items (one body has 4 and is refused) share the pin's cache;
one body has an allowed call before a denied one. Bodies with several allowed calls,
whose receipts come in turn, are left to the theorem `GatewayAccountable`, which is
about every body. The clock goes to 3 with `Refresh = 2`, so that a manifest read
early can be stored late and still be used, which a smaller clock does not show. A
guarded function is called twice, so that an answer to the first call can meet the
second. Two changed files can hide one change behind another. Twenty effects are the
fewest of which one may go unverified. The questions of `MCRules` combine the
attributes the procedures tell apart; left out are guarded resources together with a
credential, edits other than denials of a policy that has two entries, and
workspaces in which more than one but not all of the private state files exist.
Texts are cut at every position. No graph is deeper than the trace's limit of 16.

`CHECK_DEADLOCK FALSE` stands where the system may stop: all calls made, all
processes dead, a question answered, the clock at its bound. The effect boundary
can always restart and is checked for deadlock.

**Symmetry.** Processes are interchangeable in every store, so are the two grants
no revocation names, and so are the POSTs. The runs of the lock and of the effect
boundary, which check liveness, use none.

**Switches.** Four constants name an assumption that a passing run makes, and where
the property needs it a violation run drops it: `Aging` (locks older than `staleMs`), `OpenErrors`,
`LiveReconcile` (a reconciler beside a live wrapper), `Orphans` (a child that
outlives its wrapper). Two more switch failures on: `IOErrors` (appends cut short,
renames and unlinks that fail) and `PidReuse`; they are off only in the violation
runs, to keep their traces short.

**Fairness.** `FileLock`: weak fairness of each process's steps, since
`withFileLock` is a synchronous loop the scheduler runs sooner or later, and
strong fairness of `Timeout`, since the wall clock advances across retries. No
fairness for `Call`, `Crash`, `GrowOld`. `EffectBoundary`: weak fairness of the
wrapper and of the reconciler once started; of the child's exit (an MCP session
ends; without it a call may stay unanswered for as long as the child hangs, and
the code has no timeout for it); strong fairness of `Recover`, that is, as long as
a wrapper is down with journaled effects again and again, somebody runs
`ruleoak effect reconcile`, which the documentation asks operators to do. Nothing
is assumed about admission, the child's answers or crashes.

## 4. Findings

1. `lock_race`: `unlinkIfOwned` reads the token and unlinks the path in two
   calls. Two contenders find the same stale lock and both check its token; the
   first unlinks it and acquires; the second then unlinks the first's new lock,
   against the comment at `core/io/file-lock.js:60`. Mutual exclusion therefore
   needs that no lock outlives `staleMs` while two processes contend for it. The
   same happens without any crash when an old lock is released between
   `statSync` and the reading of its holder: a file that is gone counts as stale,
   and the path is unlinked after the next owner has created it.
2. `lease_openerror`: the `catch` block of `durableExclusiveCreateSync` unlinks
   the path on any error but `EEXIST`, also when `open` itself failed and the file
   at the path is another call's. An approval already spent can be spent again.
   Leases are not exposed in this way: `existsSync` runs first, under the registry
   lock.
3. `effect_live`: `persistEffectState` is not locked. A wrapper and a reconciler
   with different verdicts each rename the other's bucket file away.
4. `effect_orphan`: recovery verifies at once; a child that outlived the wrapper
   may apply its effect after the failure has been resolved.
5. `learn_again`: the id of a generalized suggestion names the tool and the resource
   pattern, not the conditions (`cli/learning.js:186`), and applying a suggestion drops
   every rule of its id (`cli/learning.js:296`). A later session that sees the tool with
   data of another sensitivity replaces a `needs_approval` rule of an earlier session,
   and a call that the later session itself saw held for approval is allowed, against
   `docs/learning-mode.md:3`. For policies on which no session has placed rules yet
   the property holds, and is proved.
6. `delegated_pattern`: for a parent pattern that ends in `**`,
   `authorityPatternIsWithin` compares the text before the first wildcard only
   (`core/authority/grant.js:94`). Below `docs/*/public/**` a child `docs/**` passes for
   narrower (in the run: below `*/**`), the delegated grant verifies and permits what
   its parent does not, against "upper bound inherited through a principal chain"
   (`docs/concepts/AUTHORITY_GRANT.md:3`). Where every pattern of the parent has no
   wildcard before a final `**`, the bound holds, and is proved.

## 5. Proofs

TLAPS checks the following for every number of processes, requests, leases, paths
and every value of the other constants. Each inductive invariant was checked with
TLC on a small instance before its proof.

**The lock and the markers.**

* `FileLock_proofs`: `TypeCorrect`; and from the assumption `~Aging`
  `MutualExclusionHolds`, `RemovedByOwnerHolds` and `LockRefinesMutex`.
  `MutualExclusion` is not inductive. The invariant `IInv` adds that the lock is
  never old, so nobody is on the removal path (`NeverStale`), and that a process
  between its `open` and its `unlink` owns the file at the path (`HoldersOwn`).
  Two processes in `fn` would then own one file with two tokens, which the
  process part of a token excludes. `HoldersOwn` is preserved because a file is
  created only where none is and removed only by its owner.
* `DurableMarker_proofs`: `MarkerTypeCorrect`; and for the paths outside
  `OpenErrors` `MarkerCreatedOnce`, `MarkerCreatedStays`, `MarkerCleanupOwn`. The
  invariant adds that a call on its way has a path (`KeysOK`), that a process past
  `open` is the creator of the file at its path, which was never reported and has
  its record once it is written (`HoldersOK`), and that a path with a win has one,
  and a full file (`WinsOK`).

**Leases.** `LeaseAuthority_proofs`: `LeaseTypeCorrect`, `RevocationHeeded`,
`NoRevocationLost` and `AuthorityActive` without hypotheses; `LeaseOnce` under
`SafeUse`, `ApprovalOnce` under `SafeIssue`, and `LeasesRefineOneUse` under both.
`SafeIssue` says that the `open` of an approval's marker fails only with `EEXIST`;
`SafeUse` says so of the leases' markers, or that every consumer passes a registry.
In the second case the registry's lock, not the marker, makes the use single.

* The invariant `IInv` says who is inside the registry's lock and that verification
  and marker of a consumption with a registry happen inside one critical section
  (`LockOK`); that a marker call is under way exactly where the protocol makes one,
  for the key it should be (`CallOK`); that a lease in the making is its maker's
  alone and a lease in use is issued (`DrawnOK`, `IssuedOK`); that what `revoke` read
  is still on file when it writes (`LoadedOK`), from which no revocation is lost; and
  that windows are nested and verified times lie in them (`WindowOK`, `AtOK`).
* What the markers do is not proved again: every step of the protocol is a step of
  `DurableMarker` or leaves it alone (`MarkerSteps`), so its invariant is carried over
  from `DurableMarker_proofs` by `INSTANCE`. `MInv` joins the two and links a
  reported creation to the lease or approval it stands for (`UseOK`, `SpentOK`).

**Effects.** `EffectBoundary_proofs`: `EffectTypeCorrect`; under `~LiveReconcile`
`ForwardRecorded`; under `~LiveReconcile /\ ~Orphans` `NoDuplicate` and
`FailureIsSound`. Recording needs that boundary and reconciler never work on one
request (`ApartOK`) and that each keeps the journal entry until its state is on
file (`RecordOK`); without the first, the reconciler removes what the boundary
still counts on. Torn evidence and failing renames do not matter to it: where they
stop anything, the journal stays. No duplicate needs, beyond that, that work the child has not
begun is awaited by a live boundary (`QueuedOK`) and that a failure, found or on
file, had no effect (`FailedOK`).

**Calls.** `Process_proofs`: `GuardedCallsAccountable`. The invariant follows the
permission of an attempt through the steps (`PermitOK`), and the traces an attempt
past its function has left (`DoneOK`, `ReturnedOK`, `PersistedOK`); attempts are part
of it because the answer to an earlier attempt must not permit a later one.
In the same module, `GatewayAccountable` and the action property `PinRecent`.
`ForwardOK` binds what is collected for forwarding to its leases, `SentOK` orders
evaluation, fetch and evidence, `HappenedOK` binds what the upstream does to what
was sent, and `PinOK` bounds the age of everything that is believed to be pinned:
the cache, and the manifests that requests have read and not stored yet.

**Receipts.** `Approvals_proofs`: `ReceiptHonoured`. A command past verification is
covered by its receipt as it was read (`CommandsOK`), although call file and policy
change meanwhile; a marker stands for one command that goes on, and evidence comes
before the command (`MarkedOK`); uses are covered and their receipts distinct
(`UsesOK`).

**The queue.** `Approvals_proofs`: `RequestsSettledOnce` and `PermissionsGiven`. That a
request is ruled once is not inductive: a request that was claimed may be put back,
and claims of dead processes stay behind. The invariant treats the serial of a
request as a token: it is pending under its own id and not ruled on (`PendingOK`), or
in the hands of one process, and then neither pending nor ruled on (`HoldersOK`); and
a claim that a process unlinks is of what it holds or has ruled on (`ClaimsOK`).
`PermissionsGiven` rests on it. What a process is about to write, from files read
several steps ago, goes back to a ruling (`IntentsOK`), and so does every permission on
file (`PermissionHasRuling`); the gate lets through what it has a reason for (`GateOK`);
and calls forwarded on a choice at the prompt, with the one that is due, are no more
than those choices (`SpentOK`).

**The log.** `Stores_proofs`: `LogSound`. Writers are alone between reading the
last line and writing (`LockOK`); only the last line may be damaged, and every
whole one has its index and its link (`ChainOK`); the event in the writer's hands
continues the log as it still is (`WriteOK`), which is why a stale read of the last
line cannot fork the chain; and a returned event is in its place unless the log
ends in a damaged line that readers refuse (`ReturnedOK`).

**Git.** `Stores_proofs`: `GitAccountable`. At most one executor is entitled to a
lease, from its consumption on and also after its death if it changed something
(`EntitledOK`), and what it does is in the ledger before (`StartedOK`). An executor
that has not run its command has changed nothing (`UnchangedOK`), and its commits come
after the HEAD it looked at first (`BeforeOK`), whatever others commit in between; so
a commit always shows as a changed HEAD. `SuccessOK`, `StatusOK` and `ReceiptOK` carry
this to the receipt.

**Grants.** `Stores_proofs`: `GrantsSound`. An id is drawn once, so a child under way
is nobody else's (`DrawnOK`); the child hangs below a parent that is on file, and is
narrower than it once it is checked (`ChildOK`), however long ago the parent was
read, for a grant on file never changes; so do all grants but the root (`TreeOK`).
"Narrower than the parent" becomes "within every ancestor" because what
`isAuthorityGrantAttenuated` compares is transitive (`AllowedTransitive`,
`NarrowOK`). The property speaks of the grants above by parent links alone; they are
among the recorded ancestors, which are closed under parents (`AboveIsAncestors`).

Budgets need a second invariant, `BudgetInv`, which uses the first. Whoever replaces
the allocations is alone and has loaded what is still on file (`ReserverOK`), so that
what is allocated from a partitioned grant stays within its budget (`UsedOK`); and
every grant below it that is on file or about to be has an allocation
(`ReservedOK`), a crash between the two only leaving one unused. That is a statement
about parents and children. `SubtreeFits` extends it to whole subtrees, from the
deepest grants upwards: the leaves below a grant are leaves below its children or
children themselves (`LeavesByKid`), each child's leaves spend no more than the
child may, and the children together no more than was allocated (`KidsFit`). Sums are
reasoned about as numbers of units (`SumIsCount`), with the library's facts about
cardinality.

**History.** `Stores_proofs`: `HistorySound`. The drift of an observation, on file or
in a batch, is told from the line it names (`DriftOK`, `BatchesOK`), which never
changes. Take the first line of a capability that escalates over line `i`, which
exists by the least-number principle (`LeastNatural`): the line it names shows the
capability removed, or shows no escalation over `i`; either way the drift says so.

**Qualification.** `Process_proofs`: `QualificationBound`. `PassIsBound` is not
inductive: a check starts long after the scans that justify it, and base and
candidate change meanwhile. The invariant `ReviewInv` says what the scans have
established once they have been compared (`BoundOK`: the two scans of each tree agree
and the protected files are the baseline's); that nothing has run or is reported
before that (`NothingOK`); that the snapshot is what the scan of the candidate saw,
path by path while it is copied, and that the scan after a check saw the snapshot as
it is, or could not read it (`SnapshotOK`); and what follows for the checks that ran
and those that passed (`RanOK`, `PassedOK`).

**CrashLab.** `Process_proofs`: `LabIsAlwaysHonest`. `RunInv` counts. Under a key that
the target honours there is one effect at most, and once there is one the key is
remembered, so a retry of whatever kind adds none; attempts with an effect and attempts
that were refused are different ones, and none is ahead of the counter; in the runners
that read a scripted revocation effects come before it, and in the others a report that
expects a denial fails on the first effect after it; a race has one winner, since the
authority is then consumed; effects are no more than the responses and the ambiguous
outcomes counted; and what is reported is the evidence of this record. One lemma per
runner (`AttemptKeeps`, `ContendKeeps`, ...) shows that a step preserves it.

**Decision procedures.** The specifications of `Rules_proofs` answer one question, so
the invariant is simple: what is in `answers` is what the procedures return for what is
given (`ChangesAnswered` and its like). The rest is about the procedures, for
every set of calls and every question in the `...Asked` sets, of whatever size.

* Policy, `GuardsAlwaysHold` and `PolicyIsUnambiguous`. `evaluatePolicy` takes the
  first of ten stages that decides (`Stages`, `StageIs`), and the guards of the
  gateway act on the result. A denial that some stage finds cannot be preceded by a
  stage that allows, and what critical risk makes of the result leaves only rules that
  opt in. For one meaning, the keys by which matching rules are sorted are made
  comparable (`SortKeys`): a policy that lints cleanly has no two rules with equal
  keys, so the least one is unique and all orders of the array agree; and two policies
  between which nothing changed have equal entries. Classification and guards read
  category and operation, never the name, and normalisation gives every spelling of a
  call the same ones.
* Rewritings, `RewritesNeverLoosen`. Each compares the stages of two policies. For
  learning, `Learned` is preserved by every application of a suggestion: an entry is
  the old policy's or a suggestion, and an old exact rule that is gone has a suggestion
  for its action in its place. Suggestions are no laxer than what was observed, so for
  a call that was held back the new policy `Tightens` the old one, and then a verdict is
  strict or was possible before (`LearnedDecision`); critical calls have no suggestion
  that allows them. For the migration, a stage of the lists corresponds to one of the
  structured rules (`MigratedDecision`): priorities 300, 200 and 100 are in the order of
  the lists. For guided rules, two policies with the same rules for a call decide it
  alike (`SameForCall`).
* Authority, `NarrowedIsAlwaysNarrower`: whatever the child's pattern matches begins with
  its static prefix, and so with the parent's (`PrefixIsLiteral`), which is all that a
  parent asks for if it has no wildcard before its `**` (`PrefixIsEnough`);
  obligations compare by implication; a built envelope whose budget fits passes every
  check its verification makes, and one whose budget does not fails the same check
  always; a grant that may delegate has a child, which permits no more.
* Effects, `VerdictsAreAlwaysProven`: the states that a contract tells apart before
  and after, for every two states of the world, whoever changed it, and every
  redirection; and that a record of a retry names the effect and receipt it verified,
  and its lease if there is one.
* Release, `ReleaseIsAlwaysEarned`: when two changes in a row need no review, neither
  broadens what a tool may do nor changes the schema of one that acts, so the change
  they add up to does not either (`NotSliced`); the counts of a scorecard are
  cardinalities of its results; each condition of the gate is necessary, no effect is
  ambiguous if their number is zero, and as many leases as effects are a lease for each.
* Graphs, `TracesAreAlwaysComplete`: what a breadth-first search has kept is closed
  under predecessors but for its frontier, whose rank sinks with each round; so after
  as many rounds as there are ranks the frontier is empty. Two versions of one document
  keep the graph from being built, which is why the first part asks for one of each.
* Bundles, `ExportsAreAlwaysFaithful`: an archive that verifies has, file by file, what
  its manifest says, and the manifest is bound by its id and signature; conversely
  what was exported passes every check, although the log may have grown between the
  two reads of the export.
* Routes, `RoutesAlwaysAgree`: by the categories and verbs of the protocol.

The theorems on all parts but lock, markers, leases and effect boundary are of the
components' own specifications (`LogSpec`, `GitSpec`, `DelegationSpec`, `HistorySpec`,
`QueueSpec`, `GuardSpec`, `HttpSpec`, `ReceiptSpec`, `QualificationSpec`, `LabSpec`,
`PolicySpec`, `ChangesSpec`, `RouteSpec`, `AuthoritySpec`, `EffectRulesSpec`,
`ReleaseSpec`, `BundleSpec`, `TraceSpec`), whose next-state relations the composed runs
use unchanged.

**Hypotheses.** The restrictions are necessary: `lock_race` refutes the lock's
properties without `~Aging`, `lease_openerror` refutes `OneLeasePerApproval` without
`SafeIssue`, `effect_live` and `effect_orphan` refute `ForwardedIsRecorded` and
`ResolvedFailureMeansNoEffect` without `~LiveReconcile` and `~Orphans`. For the
decision procedures the hypotheses are in the sets of questions:

* learning: the policy has one verdict on each call the session saw (where the order of
  an array decides between rules of one id, "what it was told" is not a function of the
  policy), no rule is a suggestion of an earlier session (`learn_again` refutes the
  property without this), and what was not seen is asked about for critical calls;
* migration and guided rules: a policy that `validatePolicy` accepts, and an effect the
  code knows; for others the functions throw;
* policy diff: exact rules have ids of their own (`NamedApart`, a condition of the
  property itself);
* delegation: the id of a child is fresh, that is, neither its parent's nor an ancestor's;
* scorecard: an invariant listed as false fails in the check of that name;
* traces: no chain of relations is longer than the limit of 16 (`Shallow`);
* bundles: the log only grows during an export (`Grows`), and a signature under the
  secret is that of the export in question (`Unforged`); another export signed with the
  same secret is a question about which bundle one was handed, not about this one;
* patterns: what is proved of inclusion is for parents without a wildcard before a final
  `**` (`Honest`); `delegated_pattern` refutes it for the others;
* retries: a git branch whose `rev-parse` fails for any reason counts as absent, which
  the property says (`core/execution/effect-verification.js:226`);
* CrashLab: a revocation that `concurrent_race` and `eventual_consistency` do not read
  (`HeedsRevocation`) ends nothing there, which the property says;
* effects: contents and the largest that can be hashed are natural numbers.

Assumptions on constants say only that markers, processes and "none" values are
distinct (no executor is called "others" or "nobody", `NoRequest` is neither request nor person),
that bounds and dates are natural numbers and that the tables of rules, options and
manifests have the shapes the code gives them; TLC evaluates them on the runs. The bounds on
counters (`MaxCrashes`, `MaxRecords`, `MaxEvents`, ...) are arbitrary in the proofs.

`OneLeasePerApproval`, `ResolvedFailureMeansNoEffect` and the markers' types and
clean-up are not properties of a passing run; where they hold they are proved only.

**Only model-checked.** Liveness (`CallReturns`, `AbandonedLockRemoved`,
`ForwardedIsSettled`), because fairness and `ENABLED` are beyond the prover.
`FramingIsInvisible`, because it compares recursive definitions nested in one another
(chunks, octets, fragments, characters) with a fold over the whole text, for texts of any
length: an induction over data for each of them. The one iteration that is proved
about, the rounds of a trace, is bounded by a constant; its existence and its
invariant are shown by least counterexamples (`IterationExists`, `SearchGoesOn`).
Everything else the passing runs check is proved.

## 6. Abstractions

* A hash, digest, signature, UUID or token is an identity that nobody else has;
  where contents matter (receipts, checkpoints, bundles, trees) a digest is the
  content itself.
* `atomicWriteFileSync` (temporary file, fsync, rename) is one step in its users,
  which may fail before or after the rename.
* Completed writes survive a process crash; loss of unsynced pages on power
  failure is not modelled.
* A removed stale lock is `BreakLock` in the users of the lock: it happens only to
  dead processes. What happens otherwise is `FileLock`'s subject.
* In `Delegation` a capability is the set of what it matches. That is faithful for
  patterns whose only wildcard is a final `**`; for others
  `authorityPatternIsWithin` compares less than inclusion, or more: `AuthorityRules`
  has it and the matching as they are, over short alphabets.
* Obligations of grants, the principal chain and version 1.0 grants are left out
  of `Delegation`.
* Words, regular expressions for secrets and injections, sensitivities and risk
  categories are attributes of a call; which texts have them is not modelled.
* Documents that fail structural validation are refused before any state changes
  and do not appear.
* The lease of a stdio call is consumed in `Admit`; its protocol is
  `LeaseAuthority`'s. In `HttpGateway`, `GuardedCall` and `GitExecution` it is one
  step too.
* A failing release of the lock (`UnlinkOwnedFails`) leaves it to time-outs and to
  contenders once it is old; the users of the lock see a `Mutex`, in which it is a
  call that does not come.
* Evidence in `EffectBoundary` is whole or torn; how it is torn is `EvidenceLog`'s.
* A push over the network is not looked at again by `executeGitAction`, and
  `GitReceiptTells` does not speak of it.
* The review of a candidate's scope scans on its own; `PassIsBound` speaks of the
  scans that are compared. For a candidate from a ZIP it is compared with no scan.

## 7. Not modelled, and what remains

* Secrets and protection set-up: calls of the platform's credential programs and
  edits of other programs' configuration. What can go wrong is on their side.
* Flight-control server: an HTTP front of stores that are modelled.
* Intent, brownfield and planning tools: sequential analysis of text, reports.
* Extension SPI and family receipts: conversions and registration tables.
* VS Code extension: a user interface that calls the CLI.
* Within modelled parts: redaction of text, the verifiers for git and SQLite (they
  read external programs), the ZIP format, the limit of 20 in
  `reconcilePendingEffects` (no small instance meets it), the registry's downloads,
  header handling and the other routes of the HTTP gateway, argument parsing and
  printing.

Known, and covered by no property:

* `reconcilePendingEffects` looks at the first 20 pending effects by name; if those
  stay ambiguous, later ones are never looked at;
* a crash between the reservation of a budget and the grant leaks the budget (the
  sequence is modelled, and safe); a revocation without cascade does not stop a
  delegation under way;
* `ruleoak exec` binds a receipt to the call file, not to the command it starts;
* a call of `withFileLock` that meets a stale lock it cannot unlink spins past
  `timeoutMs` (`core/io/file-lock.js:65`), and a lock whose release fails, or whose dead
  owner's pid was given to another program, counts as held: the properties say so, no
  document does;
* once the evidence log is torn, every later recovery throws and the calls stay in the
  journal for manual review;
* a CrashLab scenario of `eventual_consistency` with a scripted revocation may pass with
  effects after it, unless it expects the denial;
* `String(chunk)` of a Buffer replaces a character of several octets that falls into two
  chunks (`cli/stream-gate.js:198`): the call is judged, and forwarded, with the
  replacement; an empty batch and a denied notification get no answer;
* an envelope may be built on a budget the caller names (`core/authority/envelope.js:35`);
  if it does not fit the grant's it never verifies;
* pattern lists of a policy are matched against a call's name as it is spelled, so
  `file.delete` in a list does not reach a call named `filesystem.delete`;
* earlier leases of a batch are spent when a later item throws, a lost update of
  `policy.json` loses a rule, and a permission outlives the policy it was asked under:
  the properties admit these and say what holds all the same;
* a function guarded in the receipt modes `manual` and `off` leaves no record of its
  effect;
* a suggestion of learning mode is applied to whatever policy is there by then;
* `lintPolicy` does not require distinct ids of exact rules (`core/engine/policy-lint.js:45`)
  and `diffPolicies` keeps the last rule of an id (`core/engine/policy-simulation.js:7`), so
  a change of another exact rule of that id is not reported;
* a chain of more than 16 relations ends a trace early, and the trace does not say so;
* the commit named in a git receipt is HEAD after the command, which may be
  somebody else's;
* a candidate's scope is reviewed on a scan that is not compared with the others;
* a call that names no session is stored under the session `default-session` when a
  person allows it for the session (`cli/cli.js:1224`), and looked up under `default` by the
  gate (`cli/cli.js:2189`), so the person is asked again; an error on the safe side;
* two `secrets init` may both find no secret and store one;
* `guardTools` wraps one of a tool's entry points.
