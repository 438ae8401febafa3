# CYVXAI-OS: a verification project

TLA+ models of the parts of CYVXAI-OS that decide what work is done, by whom and
with whose consent; TLC runs over small instances; theorems, checked by TLAPS,
for every instance. Every definition is translated from the source; `PROJECT.json`
gives its file and lines.

- [The system](#the-system) – [Modules](#modules) – [Runs](#runs) – [Fairness](#fairness)
- [Proofs](#proofs) – [Where code and documents disagree](#where-code-and-documents-disagree)
- [Not modelled](#not-modelled) – [Plan](#plan)

## The system

CYVXAI-OS is a set of Node.js programs around a few SQLite databases. The part
`run.sh` starts, and the README of the repository describes, is the *mission
runtime*: an HTTP gateway and one worker process on one database. Around it stand
the governance kernel and the agent foundry (a second gateway, `run-governance.sh`),
the revenue engine and the company runtime (product services on the same database), and
older in-memory control planes.

### The mission runtime

| component | code | state it keeps | operations |
|---|---|---|---|
| mission engine | `core/missions/mission_engine.js`, `runtime/missions/store.js` | `missions`, `approvals`, `outcomes`, `capabilities` rows | create, validate, plan, requestApproval, decideApproval, assignAgent, execute, complete, fail, evaluate, learnCapability |
| job queue | `runtime/missions/jobs.js` (`JobQueue`), `ops/sqlite/002_runtime_completion.sql` | `jobs` rows: status, attempts, lease owner and expiry, availability | enqueue, recoverExpired + claim, start, heartbeat, complete, fail, requeue (with a trigger) |
| evidence service | `runtime/missions/evidence.js` | artifact files, `evidence` rows in a hash chain per mission | record, verify |
| worker | `runtime/missions/jobs.js` (`MissionWorker`), `worker.js` | nothing between runs; `execution_effects`, `learning_records` rows | runOnce |
| gateway | `runtime/missions/index.js`, `api/missions.js` | nothing of its own | the routes above, executeMission, cancelMission, uploads |

They interact through the database only. The engine's operations and the queue's
are single `BEGIN IMMEDIATE` transactions; what makes the runtime hard is
everything *between* transactions:

- a worker's `runOnce` is about twenty transactions, reads and file writes in a
  row, with no lock held between two of them. Its lease may expire during any of
  them, and nothing fences the mission, evidence and effect writes of a worker
  that lost it;
- it may crash anywhere, and the next attempt must resume from what is stored;
- three writers change `missions.status` without the engine's transition table:
  `cancelMission`, `missionFailure` of the queue, and the requeue trigger;
- `executeMission` reads the mission in one transaction and enqueues in a later
  one, under a key the client chose; two keys give one mission two jobs;
- attempts are counted by `claim`, and used up in `fail` or in the recovery;
- approvals can be decided more than once, late, when the mission has moved on.

What makes it correct, component by component:

- *engine*: no work without approval; one outcome and one capability per mission;
  a cancelled or delivered mission is never handed to a worker again;
- *queue*: a lease owner exactly on jobs under work (`fail` asks for nothing
  else), attempts bounded, completed and cancelled jobs final;
- *evidence*: the chain verifies and is append-only;
- *runtime*: a completed job proves a finished delivery; an outcome has evidence;
  no mission is left running or queued with nobody to finish it; a failed one can
  be requeued; everything settles.

### The governance kernel and the agent foundry

| component | code | state it keeps | operations |
|---|---|---|---|
| governance kernel | `core/governance/kernel.js`, `api/governance.js`, `ops/sqlite/003*` | packages, reviews, capability grants, the budget ledger, the switches, an event chain | submit, supervisorReview, bossReview (with policy and grant), consumeGrant, revokeGrant, setControls, dashboard (which expires grants) |
| agent foundry | `core/agent-foundry/foundry.js`, `ops/sqlite/004*` | action runs, agents, deployments, spend receipts, release files | executeAction for create_agent, deploy_staging, deploy_production, spend_budget |

One process, synchronous handlers, one `BEGIN IMMEDIATE` transaction per kernel
operation: requests do not interleave. What is hard is the rest:

- packages go back and forth between reviewers, who may hold several roles, and package
  and grant are separate rows that every handler must move together;
- time: grants expire lazily, months end, and the policy compares spend plus
  reservations with a limit only when it issues a grant;
- a stop arrives while packages are in front of the boss;
- `executeAction` is claim, side effect, consume, record: four transactions and a
  foreign program, with the clock running (a payment may take 30 seconds) and the process
  able to end between any two; what was done under a grant that then cannot be consumed
  must be undone, or marked.

Correct means: two independent keys behind every grant; package and grant agree; the
budget holds; a stop stops; a grant is used once; every side effect is authorized; the
foundry's records say what happened.

### The revenue engine

| part | code | state it keeps | operations |
|---|---|---|---|
| selling | `services/revenue/engine.js`, `providers.js` | `revenue_deals`, `_clients`, `_payments`, `_fulfillments`, the operator's counters | createDeal, captureInbound, advanceDeal, createCheckout, processStripeWebhook, recordManualPayment, completeFulfillment |
| mailing | the same | `revenue_prospects`, `_campaigns`, `_messages` | importProspects, captureInbound, unsubscribe, createCampaign, approveCampaign, runCampaign |

One process whose handlers are synchronous, except at the awaits of Stripe and of the
mail provider. What is hard:

- no handler is a transaction: a settling handler is seven autocommitted writes, and an
  exception or a crash leaves a prefix of them, which a repeated webhook does not mend;
- Stripe repeats events and promises no order; a payment row remembers one event id;
- `runCampaign` takes its prospects once and awaits the provider for each: people
  unsubscribe, and other runs begin, meanwhile.

Correct means: revenue is real, counted once, and what is paid is delivered for; nobody
is mailed twice, beyond the daily limit, or after having unsubscribed.

### The company runtime

| part | code | state it keeps | operations |
|---|---|---|---|
| company operator | `services/operator/index.js` | `operator_companies`, `operator_contracts`, `operator_actions` | createCompany, approveCompany, controlCompany, recordMetric, runTick, runToIdle, finalizeActivation |
| agent team | `services/company-runtime/index.js`, `scheduler.js` | `acr_teams`, `acr_tasks`, artifact files | createCompany, approveCompany, queueTask, recordOutcome, runTick |

The operator drives a mission of the engine that everybody else may move as well, in
transactions separate from its own rows. The team's `runTick` claims a task under a lease
and awaits a model; several callers overlap there, and nothing after the await asks whose
the task is by now. Correct means: nothing happens before the owner's decision; tasks
build on delivered artifacts; a digest is the file's; a team comes to rest.

### The other components

| component | code | state, operations, what is hard | status |
|---|---|---|---|
| Supabase agent queue | `core/integrations/supabase_queue.js` | a queue client with visibility timeouts | left for later |
| CyvxCore kernel | `runtime/core/*` | task dispatch with timeouts and retries | left for later |
| platform kernels, proof ledger, file store | `core/platform/*` | hash-linked proofs, file-backed stores | left for later |
| flags, scheduling, supervision | `core/integrations/feature_flags.js`, `scheduler/*` | quotas, flag overrides, resource ledger | left for later |
| backup manager | `core/production/backup_*.js` | backups, rotation, restore | left for later |
| mission backup and migration | `runtime/missions/backup.js`, `base.js` | file copies, schema | not modelled |
| universal operator, control plane | `services/operator/universal.js`, `company-control-plane.js` | entities and adapters over the company operator | not modelled |
| identity and security | `core/security/*` | sessions, policy checks | later |
| content, repository services, controller, spark, integrations, UI, CLI, apps | `services/content-*`, `services/repository-intelligence`, `core/controller.js`, ... | mostly I/O | not modelled |

`PROJECT.json` has the full list with the reasons, and the hazards at their lines.

## Modules

```
MissionIds         the sets everything is about, and the null values
MissionLifecycle   the mission states and the transition table
MissionContract    abstract: what the system promises of a mission
MissionEngine      the engine and the three writers that bypass it
JobQueue           the jobs table
EvidenceLog        artifacts and the hash chain
MissionRuntime     EXTENDS the three: worker processes, the gateway, time
Governance         packages, reviews, grants, switches, budget
AgentFoundry       EXTENDS Governance: executeAction over it
RevenueSales       deals, checkouts, webhooks, receipts, clients, fulfillment
RevenueOutreach    prospects, consent, a campaign and its overlapping runs
CompanyOperator    EXTENDS MissionEngine: a company, its approval and its plan
CompanyRuntime     EXTENDS CompanyOperator: the agents' tasks, leases, retries
MC*                instances for TLC
*Proofs            theorems
```

**MissionEngine.** `mission[m]` is `missions.status` (`"absent"` before
`createMission`), `approval[m]` the status of its approval row, `outcomes[m]` the
number of completed outcome rows, `outcomeJob[m]` that row's `job_id`,
`capabilities[m]` the number of capability rows. One action per method; a method that
throws rolls its transaction back, so a refused call is an action that is not
enabled. `CanComplete` includes the unique index on completed outcomes.
`CancelMission`, `MissionFailure` and `RequeueMission` are the writers outside the
engine. Titles, plans, metrics, events and audit rows are left out: no property
tells them apart.

**JobQueue.** One variable per column that decides something. Time is the two
comparisons the code makes with `now()`: `lapsed[j]` and `due[j]`; `LeaseLapse` and
`BackoffElapse` are its passage. `Claim` is recovery and lease together, one
transaction in the code. Which of the due jobs is taken is left open: the order by
`available_at, created_at` decides no property. A job is named by its idempotency
key, which is unique, and `executeMission` always passes one. `limit[j]` is its
`max_attempts`: `Number(max_attempts) || 3` of whatever the client sent, so `Limits` may hold
negative numbers and `Unlimited` (Infinity); fractions limit like the next integer.

**EvidenceLog.** A record is named by the job or the upload it is for, since the id of
a job's evidence is derived from the job's id. `chain_hash` is modelled by what it
hashes: the sequence of the records hashed so far, so two hashes are equal exactly
when their histories are, as for a collision-free hash. `AppendRow` computes sequence
and previous hash from the rows there are, and upserts, as the store does.
`ChainVerifies` is `verify()`, for which a mission without rows is not valid
(`EVIDENCE_EMPTY`); `EvidenceChainVerifies` speaks of missions that have some.

**MissionRuntime.** `pc[w]` is where worker `w` is in `runOnce`, `held[w]` the job it
claimed, `saw[w]` the mission status it last read while that still matters; `effects`
and `lessons` are the rows of `execution_effects` and `learning_records`. Each
transaction or autocommitted statement of `runOnce` is a step. A few neighbours are merged,
where nothing another process does between the two leads anywhere new: the one
heartbeat, whose result is ignored, with the first read of the mission; the two
lookups of what an earlier attempt left (effect and evidence rows are only ever added);
the `INSERT OR IGNORE` of the effect with its read-back; the lesson with the last read
of the mission, which a learned mission never fails; and an upload's file with its row,
which the single gateway runs in one request and whose id nobody else has. A refused engine call throws, which is stage `"failing"`; `fail()` itself
throws when the lease is gone, which ends the process (`"down"`). `Crash` ends it
anywhere. The gateway is one process whose handlers are synchronous, so a request
that is one transaction is one action, and only `executeMission` has two
(`AskExecute`, `EnqueueAsked`, with `GatewayCrash` between them).
`OperatorMissions` are driven by an operator service through the engine, without a
job.

**MissionContract** is the abstract specification: a mission is *open*, *cleared* by an
approval, then *delivered*, *withdrawn* or *closed*, and banked (learned from) at most
once and only at an end. The refinement mapping (`Phase` in MissionEngine) reads the
phase off the outcome count, the status and the approval. Engine, queue failures,
triggers, cancellations and workers together implement it.

**Governance.** `status`, `work`, `worker`, `supervisor`, `boss`, `grantOf` are the
columns of a package (the reviews it points to with their reviewer and decision);
`grantStatus`, `grantPackage` a grant's; `spend` and `thisMonth` its entry in the ledger;
`controls` the switches that are on. One action per handler; `bossReview` is two,
`Authorize` for the decision that evaluates the policy and issues the grant in the same
transaction, `BossReview` for the others. Time is `overdue` (active grants whose
`expires_at` has passed, which nobody has noticed) and `MonthEnds`. `consumeGrant` marks
an overdue grant expired and throws, which rolls the mark back, so that path changes
nothing. A submission is its action, risk tier, cost, and whether it is `proven` (tests,
evidence, rollback plan: only their conjunction is ever asked, by the supervisor's
checks and again by the policy). The constitution's lists are one action of each kind.

**AgentFoundry** extends it with `run` (the one run row per grant), `resources` (the
grants with an agent, deployment or receipt row), `paid` (what the provider did, which
the program cannot see) and `doing`, the stage of the action in progress. The kernel's
operations wait while one is in progress; the clock and `Crash` do not. `Faults` says
what may fail: `"lost_answer"`, a provider that pays but whose answer does not come back;
`"disk"`, files and rows that cannot be written. Everything that can refuse an action
before its side effect is `Refuse`. A retry may carry another idempotency key, so the
provider cannot be assumed to recognize it. `ConsumeAfter` is the kernel's `ConsumeGrant`.
`ImplementsGovernance` says that the kernel, on its own, allows every step of the foundry.

**RevenueSales.** A handler is one action, but because its writes are autocommitted one
by one, a settling handler is the list of its writes (`WebhookWrites`, `ReceiptWrites`)
and the number `n` of them that were made; `Stops` allows fewer than all only with
`"crash"`. The order of the lists is that of the code: a webhook writes the row first, a
receipt its evidence. Amounts are left out: `credits[p]` counts how often a payment was
added to its client's lifetime value. `lastEvent` is the one `provider_event_id` a row
remembers. Stripe (`charged`, `emitted`) is modelled as the webhooks show it: an attempt may
fail, a completion may still be unpaid, and at most once the checkout is paid; `"late"`
lets an older event arrive after the paid one.

**RevenueOutreach.** A run is a slot with the prospects it has still to reach (`todo`) and
the one it awaits the provider for (`sending`). The code from one await to the next is one
action: the answer is noted, the next row inserted, the next send begun. The insert that
meets `UNIQUE(campaign_id, prospect_id)` ends the run. `recent` are the messages that count
against the daily limit; `overlapped` remembers that two runs were under way at once.

**CompanyOperator** names a company by its mission. `company`, `activation` and `plan` are
the statuses of its rows. `ApproveCompany(m, n)` makes the first `n` of its three writes.
The contract's numbers are not kept: `EvaluateContract` may end a company of any status in
each of the three ways, because `recordMetric` asks for none. `EngineCallers` are all other
callers of the engine. **CompanyRuntime** adds the team, its tasks, and `run[r]`, the task row
a caller of `runTick` took into its await. `proof` is the attempt whose digest a task's row
holds, `file[m][f]` the task and attempt whose output an artifact file holds: `FileOf` gives a
task's file, `<role>/<safeFilePart(kind)>.json`, which lowercases, replaces and truncates the
kind, so several tasks may share one (`Written`). What a task's row is inserted with and keeps
(`MaxAttempts`, its file) is a constant of the task; its dependencies are chosen when it is
queued, and are any set of kinds, its own and those of later tasks included. A kind of a seed
may be queued before `seedTasks`, whose insert then does nothing. `claimTask` looks at 50
candidates (`CandidateLimit`). `"late"` lets a lease lapse during a model call, `"torn"` lets
a process stop between file and row.

Every `X_Mutant` operator before a definition `X` is that definition with a plausible
bug; no specification uses it. Put in X's place it makes a property fail, which shows
the property can see that bug.

## Runs

| run | instance | shows |
|---|---|---|
| `runtime_two_workers` | 1 mission, 1 job with a limit of 2 or -1, 2 workers, 1 requeue; every engine request | consent, one outcome, finality of outcome, cancellation and rejection; leases match statuses, attempts bounded and ended by their own worker, the clock or a cancellation; completed jobs are proven, outcomes have evidence, nobody stranded, failures recoverable; everything settles |
| `runtime_one_worker` | 2 missions sharing a key, one of them an operator's; 1 worker, 1 upload, 2 attempts, 1 requeue | with the one worker `run.sh` starts the evidence chain verifies and is append-only; the composition implements the contract |
| `governance` | 2 packages of five kinds of work, a sound one costing 2 of a monthly 3; 2 grants; 3 users, one with every governance role | two keys, package and grant agree, budget, stops, single use |
| `foundry_boundary` | 2 packages of all actions, 2 grants, no faults but crashes and the clock | effects authorized, consumed means done, failed means undone, one payment, loose ends marked |
| `foundry_faults` | 1 package, lost answers and failing disk | ledger and receipts agree; the kernel is implemented |
| `revenue_sales` | 1 deal, 2 checkouts, 1 receipt, handlers cut short anywhere | revenue is real, counted once, honoured; a customer's payment is recorded |
| `revenue_outreach` | 3 prospects, limit 2, 2 overlapping runs, crashes | one mail each, the daily limit, unsubscriptions |
| `company_runtime` | 1 company, a plan of 1, a seeded task and another, both queued at any time with any dependencies, 1 and 2 attempts, one file for both, 2 callers, crashes and overtaken workers | nothing before the decision, tasks on artifacts, a digest meets no other attempt of its task, the team settles |
| `evidence_rewritten`, `foundry_paid_twice`, `revenue_replay`, `company_unapproved` | small | violations: see below |

*Why these bounds.* Missions do not interact except through a shared key, so one
mission suffices for what concerns one, and two for sharing. Two workers give every race
of a worker that lost its lease with the one that took over; a third adds only another
late worker. A limit of two gives a retry and an exhaustion, one of -1 the single attempt
every limit below 1 grants, one requeue a second life
with the count reset; the infinite limit, with which a job may be retried for ever, is left to
the theorems. Several jobs of one mission, under several keys, and
more requeues are covered by the theorems only, which hold for any number of both.
`MaxRequeues` is a bound of the model (the code has none): liveness says "once operators
stop requeueing". No symmetry is used in the
runtime's runs, because they check liveness or name their missions. Beyond these bounds the
safety properties are theorems.

Two packages compete for the budget, with costs such that any one fits and two sound
ones do not; two grants let a second one be issued for a package. Three users give a
worker, a supervisor, and one who holds both governance roles, is an admin, and may
submit work for any of the three, the reviewers included. The packages are of the kinds
the policy tells apart: sound, of the foundry, too risky, unproven, reserved.
`MaxPayments` bounds the model's count of payments of one grant: two is one more than
there may be. The foundry works on one grant at a time; two let an abandoned run of one
meet the execution of the other (and the child limit of one agent).

One deal suffices for revenue: no definition relates two, and three payments of it give
repetitions, a second checkout and a receipt. `MaxCredits` stops the model one credit after
the one there may be. Three prospects against a limit of two leave one for a second run;
two runs overlap at every send; prospects and runs are symmetric. Two tasks give a
dependency either way, a cycle, and a task queued while the team works; their files have the
same name, which is the harder case (with separate files each holds its own task); two callers an overtaken worker and its
successor, and a third adds only another late one. `MaxClaims` bounds *faults*: a company
whose tasks were claimed that often meets no more crashes and no more lapses under a living
worker, which is also what liveness needs (below). With 2 the first attempt of either task may
be hit: of the one with a limit of 1 that is a crash at its last attempt, after which it is
claimed once more, of the other an overtaken worker beside its successor. `Apart` keeps the owner, metrics and
other callers of the engine away from a company whose plan is done: from then on the agents
read nothing that those write, so nothing the properties speak of is lost, and the theorems
hold without it.

`CHECK_DEADLOCK FALSE` everywhere: when all jobs and missions are over and the
requeues used up, or all packages decided, the system rightly has nothing to do.

The type invariants, with `Nat` unbounded, are theorems of every component and parts of the
inductive invariants; no run repeats them. The counters are bounded by the code (attempts,
outcomes, capabilities) or by `MaxRequeues`.

## Fairness

`FairSpec` has weak fairness on each worker's next step, on its restart and on the
clock for each job; nothing on the gateway, on clients or on crashes. A worker process
loops over `runOnce` (`worker.js`), so it takes its next step while it lives. Its restart is
the work of whatever supervises the processes: `run.sh` itself stops everything when a
child ends, so the assumption is that it is started again. Leases and backoffs end by
the wall clock. Crashes are not limited: a worker that crashes at every attempt uses its
attempts up, and the recovery of the next claim gives the job up; unless its client sent an
infinite limit, which `JobsSettle` and `NoMissionHangs` except. With a lease longer
than any run no fairness is needed on it.

*Revenue*: Stripe repeats an event until it is answered, so the paid event of a checkout is
weakly fair; the run without `"late"` shows that failed attempts before it hide nothing.
Nothing is assumed of customers, admins or other events. *Company runtime*: the scheduler
ticks the active teams of the one organization it is configured for, and may be disabled
(`CYVX_COMPANY_RUNTIME_AUTO_TICK`), while teams are created in any. `Scheduled` are the
companies it ticks: for these, and only these, a claim or the finding that nothing is left is
weakly fair, and `TeamSettles` speaks of them. It also speaks of teams of at most 50 waiting
tasks: 50 that wait in vain hide the others from `claimTask`. Model calls end (the providers time out), and leases and retry times
pass by the clock. With unboundedly many crashes a task is claimed for ever, since
`releaseExpiredLeases` does not look at the attempts: the documented bounded retries bound
failures only, so `TeamSettles` speaks of executions with finitely many faults.

The governance kernel, the foundry and the mailing have no fairness: nothing in the code obliges a
reviewer to decide or anyone to settle a run, and no liveness is claimed of them.

## Proofs

Assumptions, each named in the module that declares the constant: the null values are
outside their sets (`NullAssumption`), a job's limit is an integer or infinite (`LimitsAssumption`),
uploads are not jobs (`UploadAssumption`), client keys, operator missions and the
requeue bound are of their types (`RuntimeAssumption`); roles are held by users, and
submissions and limits are of their types (`GovernanceAssumption`, `FoundryAssumption`);
checkouts are not receipts (`SalesAssumption`), prospects are finitely many
(`OutreachAssumption`), plans are not empty, tasks have
at least one attempt, seeds depend on seeds, and a file that does not exist is told from one that
does (`PlanAssumption`, `TaskAssumption`; the route accepts `max_attempts` from 1 to 10).
None bounds a set: the theorems hold for any number of missions, jobs, workers, attempts,
requeues, users, packages and grants. `MaxPayments` may be any number. Where a property needs
more of the environment the theorem says so: `OneWorker` for the evidence chain, no failing
disk or no fault at all for four of the foundry's, no torn write for `ProofMatches`. Each
hypothesis is needed: without it TLC finds the property violated on the run's instance. The inductive invariants were checked by TLC on the instances above
before they were proved.

- `MissionEngineProofs`: `EngineInv` is the engine's properties together with what they
  need of each other – e.g. a mission in `draft` has no approval record, no outcome and
  no capability; a pending approval means the mission is waiting or cancelled – for the
  properties alone are not inductive: consent survives `decideApproval` only because a
  rejection leaves through the transition table. From it follow the invariants, the two
  action properties and the refinement of `MissionContract`.
- `MissionRuntimeProofs`, first part, the queue on its own: `QueueInv` = types, leases and attempts; inductive as it is, for
  any limits.
  `FinalIsFinal` needs `LeaseMatchesStatus`: `fail` asks for the owner only, and a
  finished job has none.
- `MissionRuntimeProofs`, second part: *composition first*: each step of the runtime is a step or a
  stutter of the engine alone and of the queue alone (`RuntimeIsEngine`,
  `RuntimeIsQueue`), given `Ready`, what a worker knows at each stage whatever others
  did since (it links only an outcome it has just completed; it holds a job that exists).
  So all engine and queue theorems hold of the runtime, and so does the contract. Then
  `ProofInv` adds what each stage has already stored – rows are never deleted and an
  evidence row keeps its mission, so this grows monotonically – which gives
  `CompletedJobIsProven` and `OutcomeHasEvidence`. `EndTheorem` (`EndedByItsWorker`) needs only
  that a worker holds a job at those stages; that the queue asks for the owner does the rest.
- `DurabilityProofs`, first part: `HandoverInv` adds that a mission not yet queued has no job and no
  request under way (`NoJobsYet`), for the two properties alone do not survive the
  assignment of an agent: a mission that becomes queued must not already have dead jobs.
  Most steps are `Quiet` (no live job ends, no mission fails or is revived); the lemma
  `OneJob` covers those where one job ends or is revived, and says what must become of
  its mission in the same transaction. The result, `NoStrandedMission` and
  `FailedMissionIsRecoverable`, holds for missions with any number of jobs.
- `DurabilityProofs`, second part, the evidence rows. With any number of workers that upsert
  over each other's rows: a mission's rows have a last number (`Numbered`), so the `Max` of
  `_append` is one of them; a written row always gets a number above it, so no two rows of a
  mission share one (`NumbersTheorem`), though there may be gaps; and no row is lost or
  moves to another mission (`RowsStayTheorem`). `Numbered` also completes the
  runtime's type invariant (`RuntimeTypeCorrect`). With one worker, what `record()` looked up
  is still so at its append (`Fresh`: nobody else records a worker's job, and a
  worker that lost its lease in between has no successor), so no row is rewritten
  (`AppendOnlyTheorem`). Then the last number of a verifying chain is its length
  (`EndOfChain`), the hash `_append` builds on is the one at that number, and the new row extends the chain
  (`AppendLinks`): `ChainTheorem`. `run.sh` starts one worker.

- `GovernanceProofs`: `GovernanceInv`. A grant keeps its two keys only because its package
  is never reviewed again, which is so because package and grant agree
  (`GrantMatchesPackage`), which needs that a package has one grant, because grants are
  issued from `awaiting_boss` only; `ApprovedForBoss` says what a package that waits
  there has behind it. Overdue grants being active ones gives the single use. The actions
  fall into three frames: a review touches one package without a grant (`ReviewFrame`), a
  use or revocation ends a grant with its package (`EndOfGrant`), a stop or the clock ends
  grants and leaves the packages (`GrantsLeavePackages`).
  The budget: `_monthlySpend` and `_activeReservations` are sums over sets of grants, in the
  model the community modules' fold. That a fold over a finite set is a number, does not depend
  on the order, and grows by a term with an element (`Total...`) is proved by induction
  on the sets themselves, from the well-foundedness of the numbers: the least size at
  which a claim fails (`LeastNumber`, `InductionOnSubsets`) takes the place of an induction
  theorem over an operator. `BudgetInv` adds that the grants are finitely many at any time and that the month's
  spend entries are of consumed grants, so a grant moves from reserved to spent and
  never counts twice; `_issueGrant` is the one step that adds, and asks.
- `FoundryProofs`: `DoingOK` is what `executeAction` knows at each stage of the grant it
  holds. With it each step is one of the kernel's or none (`FoundryIsKernel`), so the
  kernel's theorems hold of the composition; and the grant is active until it is
  consumed, which with `GrantMatchesPackage` and `StopMeansStop` gives
  `EffectIsAuthorized`, and by the stages `LedgerMatchesReceipts` – both for any `Faults`.
  `GuaranteesSurvive` draws the conclusion from the refinement: two keys, one grant per
  package, the budget and the stops, with the foundry at work. `DoneInv` and `CleanInv` add,
  for a disk that works and for no faults, what is known of the effect at each stage: it is
  there when the grant is consumed, and gone or never begun when a run is given back
  as failed. They give `ConsumedMeansDone`, which survives lost answers, and `FailedMeansUndone`,
  `PaidOnce` and `LooseEndsAreMarked`, which a lost answer refutes (`foundry_paid_twice`).

- `SalesProofs`: `SalesInv` adds to the two invariants what Stripe knows (a paid event means a
  payment, and an event a row: `StripeKnows`) and that rows have deals. Lemmas about the lists
  of writes carry the rest: a handler that reached its end made every write; a receipt's
  artifact comes before its row, its row before its credit. `PaymentsCountOnce` adds
  `Counted` and needs that nothing older arrives after the paid event: a credited checkout then
  keeps that event in its row, so that every repetition is a duplicate.
- `OutreachProofs`: rows are never freed and the insert meets the unique index, which gives one
  mail each. The limit needs `RoomLeft`: without overlap there is one active run, and the
  confirmed messages, the one under way and those still to do fit the limit together.
- `CompanyProofs`: `Untouched` rests on the mission's status alone, since company and team may
  be active without an approval: no tick acts on a mission that is still undecided, no plan
  of one has a completed action, and without that no task is claimed. For the agents,
  `RunsAreStarted` says of every caller, overtaken or not, that the task it holds had its
  dependencies delivered; files are never removed and digests never cleared; file and digest
  are written together, and what else is written to a file is the output of a task with the
  same file name (`EndPreserves`).
  The engine below: one handler of the operator is several of the engine's transactions, or a
  prefix of them, so its steps are not steps of `EngineNext` (closing a running mission is
  delivery and learning at once) and the contract, which is stated stepwise, does not carry over.
  `EngineInv` does: it holds after every such prefix (`OperatorKeepsEngine`), so consent,
  one outcome, one capability, and the finality of cancellations and rejections are theorems of
  the company runtime too (`CompanyConsent`, `CompanyBanksOnce`, `CompanyEnds`); its runs do
  not check these.

*Only model-checked*: liveness (`JobsSettle`, `NoMissionHangs`, `ChargedIsRecorded`,
`TeamSettles`), which is out of the prover's reach. Every safety and action property of a
passing run is a theorem.

## Where code and documents disagree

1. `evidence_rewritten` – `EvidenceAppendOnly` fails with two workers. `record()` looks the
   evidence up before its append transaction and not inside it (`evidence.js:34-38`); a
   worker suspended between the two for longer than its lease upserts over the row its
   replacement appended: the chain's second row then names the hash of a row that is no
   longer there, and `verify()` reports the chain broken for good. The repository's README
   promises append-only evidence. One worker, as `run.sh` starts, cannot reach it.
2. `foundry_paid_twice` – `docs/GRANT_GATED_AGENT_FOUNDRY.md` promises that an effect that
   cannot be rolled back is marked `reconciliation_required` and its grant not executed
   again. A payment whose answer is lost throws before there is an envelope
   (`foundry.js:223`), so its run is `failed`, and a failed run may be claimed again.
3. `revenue_replay` – `docs/VENTURE_REVENUE_ENGINE.md` says the webhook path is idempotent on
   Stripe's event id. A payment row remembers only its last event (`engine.js:618`, `636`): a
   failure that arrives late overwrites the paid event's id, and turns the row `failed`; the
   paid event delivered again is then new, and its amount is added to the client's lifetime
   value a second time.
4. `company_unapproved` – `docs/AUTONOMOUS_COMPANY_OPERATOR.md` says no action executes until
   the contract is authorized. A metric pauses a company that awaits approval, a resume makes
   it active, and a tick accepts a mission that was cancelled and then evaluated
   (`index.js:537`). While the decision is still asked for, nothing starts
   (`UndecidedMeansUntouched`, a theorem).

More is visible without a run:

- the README of the repository says learning requires measured outcomes; `evaluate` accepts a
  cancelled mission and `learnCapability` an evaluated one, so a cancelled draft yields a
  capability (`mission_engine.js:417`; `MissionContract` allows it);
- `docs/GRANT_GATED_AGENT_FOUNDRY.md` says deployment failures are rolled back; when
  `current.json` cannot be written the row and the release stay under a `failed` run, and
  every retry fails on the row's unique grant (`foundry.js:389`; `FailedMeansUndone` is checked
  with a disk that works);
- a crash between the writes of `approveCompany` leaves a company that can never be approved
  (its mission has left `awaiting_approval`), and an action left `running`, `failed` or
  `blocked` is never taken again, so the plan is never done and the team waits;
- a task whose dependency failed or was never queued waits for ever, and so do tasks that
  depend on one another or a task on itself, which `queueTask` accepts (`index.js:620`); their
  team stays active (`InVain`);
- two tasks of a role whose kinds differ in case, in characters other than `a-z0-9._-`, or
  only after 100 characters share an artifact file (`index.js:87`, `528`): the later output
  replaces the earlier, whose task then has the digest of a file that is no longer there,
  without any fault. `recordOutcome` names its tasks by metric and time, and with a metric
  name of 80 characters the time is cut to four digits. The runtime's document promises "artifact
  generation and SHA-256 proof"; `ProofMatches` says what holds;
- `max_attempts` of a mission's execution is not validated (`api/missions.js:112`,
  `jobs.js:100`): a negative one grants one attempt, an infinite one never gives up;
- the foundry's amounts must be "greater than zero", but are tested before they are rounded
  to cents (`foundry.js:26-31`): less than half a cent passes, and is paid, recorded and
  consumed as a spend of 0;
- `recordManualPayment` has no key: the same receipt sent twice is counted twice, as two
  payments; `advanceDeal` may lose a deal that was paid; a second payment of a deal whose work
  is done queues no new work;
- the README of the repository promises enforced state transitions, but `missionFailure` and the requeue trigger write `queued -> failed` and
  `failed -> queued`, which the table does not list. Every other write is guarded by
  `CanTransition`; `MissionContract` states the lifecycle that holds all the same.

## Not modelled

Of the runtime: HTTP itself (authentication, rate limits, the cached replies of the
idempotency middleware), read-only routes, the event and audit rows, backup, migration
and the doctor. A database error other than a refused constraint is a crash of the
process. `infeasible` validations throw and leave no trace. The engine's own
`recordEvidence` is unreachable: the gateway uses `EvidenceService`. Of
the kernel: signatures, the event chain, other organizations, the mission a package is
about. Of the foundry: artifact hashes, the files of a release, lineage depth, spend
executors that offer a rollback (the configured command cannot), a crash inside a
rollback between its row and its files. A run that a crash left `running` is never
settled by the code, nor by the model. Of the revenue engine: ventures and their generated
assets, the event ledger (its only writer is synchronous, so its chain holds by
construction), amounts, scores and templates, checkouts whose metadata names no payment row,
ventures that are not active. Of the companies: the numbers of a contract, leads, artifacts of
the operator's actions, approvals of single actions (every action `buildActionPlan` writes is
free and needs none, so that code is unreachable), agents' rows, memories, integrations and
their deliveries. The other components are in the table above, with
their status. The repository holds far more code than these parts: sites, generated
applications, adapters and reports, mostly I/O and presentation, and several older control
planes that nothing started by `run.sh` uses. The project covers the parts that keep durable
state and run concurrently, and the share of all lines it covers is small.

## Plan

Done: the mission runtime, the governance kernel, the agent foundry, the revenue engine and
the company runtime. Left:

1. **Governance, further**: the composition of packages with missions (a package whose
   mission is cancelled during its reviews).
2. **Supabase queue and CyvxCore kernel**: at-least-once delivery under visibility
   timeouts; timeouts racing late answers.
3. **Proof ledger and file store**, **flags, quota and resource ledger**, **backup
   rotation**: short modules, each with one or two properties.
