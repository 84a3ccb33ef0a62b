# Verification of fast_ship

fast_ship is a self-hosted manager for project delivery: a Go server
(`src/server`) with a React front-end (`src/web`). The server keeps everything
in one SQLite database (WAL, one connection) and runs a number of concurrent
parts in one process: bots that converse with a language model and call tools,
reviews of pull requests, a hub that mirrors the threads of a T3 shell, quota
refreshes, webhooks, screenshots. This directory holds TLA+ models of these
parts, the TLC configurations that check them, and theorems proved with TLAPS.

Every definition is read from the source; `PROJECT.json` maps each to the lines
it stands for, lists the runs, the hazards of the code, and the theorems.

## The system

| Component | State | Operations | What is hard | What makes it correct |
|---|---|---|---|---|
| **Bot mainline runtime** `bot_runtime.go`, `bot_loop.go`, `bot_recovery.go` | `rt.active` (one slot per bot: pending wake-up, requeue mark, bound run, cancel function), rows of `bot_runs` and `bot_model_requests`, `bots.offered_input_seq` | wake, take, ensure the run, build the context, register the request, stream, commit, finish; request and execute a stop; scan; recover | wake-ups race the release of the slot; stops race registration, commit and finishing; two watermarks; panics; crash between any two steps | one executor; no input skipped, none left behind; a stop ends the run or reaches the model; nothing runs for ever |
| **Bot tool calls** `bot_tool_runner.go`, `bot_results.go`, `bot_authorization.go` | `bot_tool_calls`, `bot_action_authorizations`, worker channel, live cancel registry | commit a turn with its calls, claim, execute, finalize, cancel, decide, revoke, recover | workers, loop, user and scan move the same call; authorization checked, then used | each call runs once at most, only while permitted, and has one result |
| **Write policy and registry** `bot_write_policy.go`, `bot_action_registry.go`, `bot_tools.go` | none | classify a call | combinations | a write is never classified as a read |
| **Thread waits** `bot_thread_wait.go` | running wait calls, the registry of entries in memory, the view of the shell hub | attach, adopt, evaluate, time out, cancel, recover | registration lost or overtaken by the scan, a view that lags or cannot be trusted, cancellation against the final write | a wait ends once, and what it reports is true |
| **Schedule tasks** `bot_schedule*.go` | tasks with their plan, runs of both kinds, the circuit of the provider, cards, slots | tick, dispatch, skip, execute, finish, fail, stop, open and close the circuit, approve a card | overlap by cron and by hand, a card against a change, old failures against new credentials, restart | one run of a task at a time, of the configuration that was approved, told once; every plan dealt with |
| **Context, compaction, memory** `bot_context.go`, `bot_compaction.go`, `bot_memory.go`, `bot_maintenance.go`, `bot_window.go` | projection rows, generations, memory entries | build, compact, publish by compare-and-set, maintain | a long compaction against appends and edits | a publish never hides what it did not summarize |
| **Budget and usage** `bot_budget.go`, `bot_usage*.go`, `bot_cost.go` | usage rows, alerts | record, roll up, alert | repeated and late records | one alert per window, sums kept |
| **Bot settings and messages** `bot.go`, `repository/bot_message.go`, `repository/bot.go` | `bots`, `bot_messages` | send, list, edit, delete a bot | deletion against wake-ups | sequence numbers without gaps or duplicates |
| **Review dispatch** `review_scheduler.go`, `review_dispatch.go`, `review_prep_retry.go`, `review_agent.go` | debounces, runs with their tokens, threads | consume, promote, claim, launch, time out, interrupt, archive; submit a result | remote calls between claim and record, lost answers, a new head at any moment | a run ends once, no thread outlives its run, places become free |
| **Review sync and webhooks** `review_sync.go`, `review_webhook.go`, `review_redelivery.go`, `review_comment_wake.go`, `review_forgejo_poll.go` | the ledger of pull requests, seen heads, the pending mark and its epoch | receive, supersede, sync, redeliver, poll, wake on a comment | lost and reordered deliveries, runs that end while the sync writes | what is published is the outcome of the round |
| **Review cleanup, assets, activity** `review_cleanup.go`, `review_assets.go`, ... | cleanup state, stored files | clean up, retain, list | cleanup against a late wake | nothing in use is removed |
| **T3 shell hub and threads** `t3_shell_*.go`, `t3_queue.go`, `t3_write.go`, `t3_ws.go`, ... | snapshots per environment, write queues | connect, apply snapshot and events, enqueue a write, settle | reconnects, snapshot against events | the mirror follows the shell, writes keep their order |
| **Quota** `quota.go`, `quota_scheduler.go`, `quota_device.go` | accounts, device flows | schedule, refresh, poll | parallel refreshes, expiry | one refresh at a time |
| **Issues and pull requests** `issue_mirror.go`, ... | mirrored issues | incremental sync | page against update | no update lost |
| **Ship and versions** `ship*.go`, `version.go`, `artifact.go`, `cron.go` | ship records, hook executions | ship, run hooks, retry | failures half-way | hooks run for what was shipped |
| **Screenshots** `screenshot*.go` | files, pending deletions | upload, annotate, delete later, restore | restore against the sweep | nothing restored is deleted |
| **Forge clients, accounts, HTTP layer, web** | records, caches, browser state | CRUD, remote calls, routing, rendering | little of its own | out of the models' reach or interest |

How they interact: the HTTP layer calls the services; services wake the bot
runtime (`wakeRuntime`), which runs one goroutine per bot; the loop commits tool
calls that workers execute (or executes them itself), and a call's result is a
message that wakes the bot again. Reviews, waits and schedules produce messages
and wake-ups in the same way. All of them share the one SQLite connection, so a
transaction or a single statement is atomic and everything between two of them
interleaves; that is the grain of the models.

## Modules

| Module | Models | Status |
|---|---|---|
| `BotMainline` | the mainline runtime of one bot | modelled, checked |
| `MainlineContract` | what the conversation promises to those who write to it; `BotMainline` implements it | checked, proved |
| `MCBotMainline` | the instance of `BotMainline` for TLC | |
| `BotMainlineProofs` | its theorems about the slot and the runs | four proved |
| `BotMainlineInputProofs` | its theorems about inputs, watermarks and stops | four proved |
| `BotMainlineContractProofs` | the refinement of `MainlineContract` | one proved |
| `BotCalls` | the ledger of tool calls, the workers, authorizations | modelled, checked |
| `CallContract` | what the ledger promises of each call; `BotCalls` implements it | checked, proved |
| `MCBotCalls` | the instance of `BotCalls` for TLC | |
| `BotCallsProofs` | its theorems, the refinement of `CallContract` among them | six proved |
| `BotCallsTurnProofs` | its theorems about a turn of the loop | two proved |
| `BotSchedule` | a schedule task, its runs, its cards and the circuit of its provider | modelled, checked |
| `TaskContract` | what a task promises of its plans and runs; `BotSchedule` implements it | checked, proved |
| `MCBotSchedule` | the instance of `BotSchedule` for TLC | |
| `BotScheduleProofs` | its theorems, the refinement of `TaskContract` among them | nine proved |
| `ReviewDispatch` | the reviews of one pull request: webhook, tick, agents, sync | modelled, checked |
| `ReviewContract` | what the reviews promise to the one who reads the status; `ReviewDispatch` implements it | checked, proved |
| `MCReviewDispatch` | the instance of `ReviewDispatch` for TLC | |
| `ReviewDispatchProofs` | its theorems, the refinement of `ReviewContract` among them | five proved |
| `ThreadWait` | one wait on a thread, with the view of the shell hub it goes by | modelled, checked |
| `MCThreadWait` | its instance for TLC | |
| `ThreadWaitProofs` | its theorems | two proved |

### BotMainline: how it corresponds to the code

State. `nextSeq`, `inputs`, `offered`, `runs` are the database: the sequence
counter of the bot, the messages that count as model input (by number), the
watermark `offered_input_seq`, and `bot_runs` together with the
`input_through_seq` of the requests of each run (`reqs`, by ordinal). `slot` is
the bot's entry in `rt.active`; `cancel` names the goroutine whose context is
registered in it. `wakes` are calls of `wakeRuntime` between their two looks at
the slot, `stops` are armed timers and running calls of `hardStopRun`. `pc` and
the other functions on `Gs` are the locals of the goroutines that may be inside
`runBotSlot`: `cur` the run, `seen` the local copy of the run's watermark,
`built` the end of the ledger when the context was built, `cancelled` whether
the context was cut off.

| Actions | Code |
|---|---|
| `SendInput` | `SendMessage` (results of background calls and schedule events append the same way) |
| `Scan` | `scanOnce`, the part for the mainline |
| `WakeAcquire`, `WakeBusy`, `WakeMark` | `wakeRuntime`: `acquire`, and `markRequeue` later |
| `Take`, `Ensure`, `Create`, `Bind` | `takePending`, `ensureRun` (find, then insert), `bindSlotRun` |
| `Top` ... `TryFinish` | `botLoop`: safe point, `buildRunContext`, `beginModelRequest`, `advanceInputWatermarks` (two statements), stream, commit, calls, `tryFinishRun` |
| `Stopped`, `Failed`, `Fail`, `CompactionFail`, `CompactionNotice`, `FinishLost` | the ways a run ends, and the ways that fails |
| `Release`, `Steal`, `Reacquire` | end of `runBotSlot`: release, `takePending` on an entry that may be another's, `acquire` |
| `RequestStop`, `RequestStopAgain` | the stop button: message and timer; the second click stops at once |
| `HardMark`, `HardRead`, `HardAdvanceRun`, `HardAdvanceBot`, `HardCancel` | `hardStopRun`, one step per statement |
| `Panic`, `Crash`, `RecoverRun`, `RecoverNotice`, `NextMinute` | the deferred handler of the goroutine, process death, `RecoverOnStartup`, the minute in the key of the recovery notice |

Steps that are merged, and why no interleaving is lost: `Take` reads the pending
wake-up and registers the cancel function (nothing else reads either before the
run is bound); `StreamOK` and `StreamError` commit the turn and read the row at
the safe points that follow without another statement in between that others
can see; `Panic` ends the run and releases the slot (the goroutine executes
nothing in between, and a wake-up that finds the slot busy until then only sets
a mark the release forgets). `TryFinish`'s transaction, `MarkStopRequested`'s
conditional update and the registration of a request are atomic in the code.

Properties. `OneExecutor`, `CancelsOwnRun`, `OfferedJustified`,
`CompletedDrained`, `RunHasExecutor` say what must never go wrong;
`GraceSparesProgress` what no step may do; `StopHonoured`,
`InputsConsumed`, `RunEnds`, `ScanRestarts`, `RecoveryStartsRun` what must
happen. Each is explained where it is defined.

`KeepsContract` is the refinement: the module implements `MainlineContract`, which
knows of no slot, wake-up, goroutine or timer, only of the numbers of the messages,
the watermark of the bot, and what can be seen of its runs: status, stop, requests.
There a request contains no less than was handed over before; the watermark
moves to the end of a request or to the message of a stop that was carried out (or gives
input up, which only a failed compaction may do); one run is under way; it ends once,
completed only when nothing is left to hand over, and stopped if it has to stop. `StopIsFinal`
follows from it, so no run checks that by itself.

### BotCalls: how it corresponds to the code

The two modules meet at three points, and each abstracts the other there:
`BotMainline` ends a turn's calls with one step, `BotCalls` lets the loop start a
turn, see a stop or see new input whenever the code looks for them.

State. `call` is a row of `bot_tool_calls` together with the messages about the
call, which is what its keys `receipt:<id>` and `terminal:<id>` amount to: `receipt`,
and `answer`, the first of the two messages that share the key `terminal:<id>` (a
protocol reply or a background result). `auths` are the always-allow authorizations of one rule. `writes` counts
how often a call took effect outside; nothing in the code reads it. `work` is
`workCh`; `loop`, `worker`, `cancel`, `revoke` are the locals of the main loop, of
`executeQueuedCall`, of the cancellations and of the revocation: rows they read
earlier and go by later. `worker[w].ctx` is the context in `callCancels`.

| Actions | Code |
|---|---|
| `Evaluate`, `Commit`, `NoTurn` | `matchAuthorization` before, `commitAssistantTurn` in one transaction, then the pushes |
| `BuildFails` | `botProjectMessages` refuses a tool block without its replies |
| `Look`, `CloseOne`, `CloseFails`, `CloseDone` | the safe point before each call, `closeUnstartedSyncCalls`, `closeUnstartedWriteCalls`, one transaction per call |
| `Invoke`, `Execute`, `Finish`, `FinishFails` | `invokeOrAccept`, `executeSyncCall`, `finalizeCall` |
| `ExecuteCancel`, `ExecuteCancelDone` | `fs_cancel` in the loop |
| `Panic` | a tool that panics in the loop, up to the handler in `runBotSlot` |
| `ScanQueued` | `scanQueuedCalls` |
| `TakeWork`, `Claim`, `WorkerRevert`, `Register`, `CheckCancel`, `Recheck`, `Write`, `WorkerFinish` | `executeQueuedCall` from the read of the row to `finalizeCall` |
| `WaitEnds` | `waitFinalize` |
| `Approve`, `Reject` | `DecideCall` |
| `Revoke`, `RevokeList`, `RevokeRevert` | `RevokeAuthorization`: mark, list, put back one by one |
| `Expire` | the clock passes `expires_at` |
| `Cancel`, `CancelTry`, `CancelSignal`, `CancelReread` | `CancelCall`, `cancelBotCall`, `signalCallCancel` |
| `Crash`, `RecoverRunning`, `RecoverQueued`, `Recovered` | process death, `RecoverOnStartup` |

Merged steps. The pushes into `workCh` follow the commit (or the decision) at once;
a push that comes later is one that was dropped first and is repeated by the scan,
which the model has. The worker's first look at the authorization (outside the
transaction) is part of the second: both end in the same revert, and a revocation
before the first is one before the second. A write of the tool and the return of
the tool are one step; a cancellation or a crash between them has the outcomes of
one before or after. A crash in recovery is the crash before it, since each of its
transactions can be repeated.

Abstracted. What the write policy decides is a nondeterministic choice, as is
`policyRecheckCall` (which an authorization spares the call). `Refused` stands for
invalid arguments, a scope that is not found, a quota or a policy that is switched
off. Waits are all on one thread, so that the unique index on running waits
matters; how a wait is evaluated is left to `ThreadWait`. Identifiers are never used
twice, so `Calls` are all the calls that ever exist, in any order.

Properties. `OneReply` and `BuildableWhenIdle` guard the protocol with the model;
`CancelReaches`, `CancelWins`, `CancelDisclosed` the meaning of a cancellation,
`NewInputHolds` that of new input. `KeepsContract` is the refinement: the ledger
implements `CallContract`, in which a call is accepted, begins once, takes effect
at most once and only while it runs, and ends once, told in the same step.
`QueuedServed` and `RunningSettles` are the liveness of the workers.

### BotSchedule: how it corresponds to the code

State. `task` is the row of `bot_schedule_tasks`; `rev` stands for the
fingerprint a card carries (`updated_at`), `cfg` for what is frozen into a run
and what a card shows: instruction, model, `needs_report`. `runs` are the rows of
`bot_runs` of the task, `told` counts the messages to the main line about one,
`open` and `fresh` say whether a call of the run is unsettled and whether a
result has come that the model has not seen. `provider` is the row of
`ai_providers`. `card` is a confirmation card with the worker that executes it,
`tick` and `probe` hold the locals of the ticker and of a connection test,
`slot` those of the goroutine in each slot, `wakes` the calls of
`wakeScheduleRun` under way. The plan comes due in each unit of `now`.

| Actions | Code |
|---|---|
| `Tock` | the clock |
| `TickList`, `DispatchStale`, `DispatchRun`, `DispatchSkip` | `scheduleTick` lists the due tasks, `dispatchDueScheduleTask` decides again in its transaction: stale, circuit open, overlap, or a run |
| `Scan`, `Wake`, `Load`, `Session` | `scanWork`, `wakeScheduleRun`, `runScheduleSlot`, the beginning of `botLoop` |
| `TopStop`, `Top`, `TopTimeout` | the wait for unsettled calls at the safe point, `waitScheduleCallsSettledUntil` |
| `StreamCalls`, `StreamAnswer`, `StreamFails`, `CallSettles` | the model, and the calls of the run |
| `Finish`, `Fail`, `Stopping`, `WriteFails`, `Panic` | `tryFinishScheduleRun`, `finishScheduleFailed`, `finishScheduleStopped`, and the ways these fail |
| `CheckCircuit`, `OpenCircuit` | `openProviderCircuitOnFailure`: the early check, then `OpenCircuit` with the condition in its `WHERE` |
| `UpdateCreds`, `SendProbe`, `EndProbe` | `AIProviderService.Update` and `Test` with `MarkConfigVerified` |
| `EditTask`, `Disable`, `Enable` | changes of the task without a card |
| `ShowCard`, `CardRefused`, `CardUpdate`, `CardEnable`, `CardDelete`, `CardStart`, `CardRun` | a card from `resolveScheduleScope` to the execution of what it approves |
| `StopRun`, `Crash`, `RecoverRun`, `Recovered` | `StopScheduleRun`, process death, `RecoverOnStartup` |

An instant that is only ever compared with `config_version_at` is represented
by the version at that instant (`since`), so no clock is needed for it.

Properties. `NoOverlap`, `FailureTold`, `ApprovedConfig`, `CompletedSettled`
relate the runs to each other, to what the main line hears, to the card and to
the calls; `CircuitCurrent` and `CircuitKept` say what a step may not do to the
circuit; `RunEnds` and `DueServed` what must happen.
`KeepsContract` is the refinement: the rows of the runs implement `TaskContract`,
which knows nothing of tickers, cards, slots and workers. In it a plan gets one
run, executed or skipped; a run begins when no other is unfinished; it ends once,
in the step that tells of it; one that was asked to stop ends as stopped unless
the process has died; and after a restart nothing new begins before every run
that was left behind has failed.

### ReviewDispatch: how it corresponds to the code

State. `remote` is the pull request as the forge has it, `mail` the deliveries
under way (in any order, one may get lost), `published` the commit statuses.
`ledger`, `seen`, `debounce`, `runs` are tables; a token is part of its run.
`archived` of a run tells what `archived_at` does not: whether the thread was archived or
found gone (`yes`), or given up (`failed`, in the code the reason `archive_failed`). `tries`
are the counters of `worktreeTries`, in memory. The sync compares its epoch with that of the row and nothing else, so `current`
replaces both numbers. `thread` are the T3 threads, `submit` the requests of
agents between their reads and their transaction, `rerun` a rerun between its read and
its transaction, `sched` the tick: its stage, what it has listed and not yet
taken, and the locals of the operation under way.

| Actions | Code |
|---|---|
| `Push`, `Close`, `Reopen` | the forge (external) |
| `Webhook` | `handleReviewTriggerTx`: `HandleClosed`, `HandleIgnored`, `HandleAccepted`, one transaction |
| `RerunRead`, `RerunOpens` | a manual rerun |
| `Tick` | `reviewTick` goes from stage to stage and lists rows |
| `DebounceRead`, `DebounceOpen`, `Promote` | `consumeDebounce` with its remote read before its transaction, `promoteQueuedRunsTx` |
| `Claim`, `LaunchCheck`, `IssueToken`, `CreateThread`, `ConfirmThread` | `dispatchRuns` and `launchRun`: conditional claim; binding, T3, public URL and remote check, each of which may end the run before its token (`LaunchEnds`); token, remote creation, record |
| `MarkTimeout`, `Interrupt` | the stages of the same names; T3 may ignore the stop, which is sent once |
| `Archive` | `archiveRunThread`: it waits for the turn to settle (`ArchiveWaits`), counts answers that the thread is not there (`ArchiveMisses`), archives (`ArchiveDone`), counts refusals and gives up (`ArchiveRefused`) |
| `SyncStart`, `SyncRead`, `SyncGuard`, `SyncWrite`, `SyncRecord`, `SyncFinish` | the sync of one row: every write to the forge after a check of the epoch |
| `AgentReads`, `SubmitLoad`, `SubmitRead`, `SubmitStale`, `SubmitCommit` | the agent's requests: authentication, `AgentSubmitResult` |
| `DebounceFires`, `ClaimAges`, `DeadlinePasses` | the instants the code compares with the clock; `DeadlinePasses` is the deadline of a run that is active, and the end of the wait for its thread after its end |
| `Crash` | process death: the tick, requests and reruns are gone, the tables stay |

Properties. `InFlight` ties the unfinished runs to the ledger and to the limit
of the user; `OutcomePublished` says what a step may not hide; `Settles` that all of
it comes to rest again and again.

`KeepsContract` is the refinement: the module implements `ReviewContract`, which knows
of no tick, epoch, token, thread or debounce, only of the rows of the runs (status, code, head,
round), of the accepted head with its round and pending mark, and of the statuses the platform
shows. There the runs of a round keep its head and number, and a new round has a higher number
than any before; a head is accepted or replaced in the step that cancels what is left; no more runs
are under way than allowed; a run ends once, with a result only if an agent had begun
it, and with the mark set; a head is shown as pending or as the outcome of a round of it; and the mark
is cleared by a sync only if the outcome is shown. `EndIsFinal` follows from it, so
no run checks that by itself.

### ThreadWait: how it corresponds to the code

State. `thread` is the thread as T3 has it, `view` what the shell hub has of it:
whether it is ready, whether it subscribes to the archived threads or reads them on demand,
whether the archive it has is in force, its copy of the thread (on the active face, or on
that of the archive), and what it has still to make of a thread that left the active
face (`left`). `PeekShell` returns the copy, and trust in the archive (`ArchiveTrusted`). `call` is the row of the wait; `attach` says whether the goroutine that
accepted it still has to register it; `entry` is its entry in `s.waits` and
`scan` the evaluator with the entry it holds. Time is counted in rounds of the
scan, and instants that are only compared with the times of items are
represented by the number of items. `by` tells an entry from its successor.

| Actions | Code |
|---|---|
| `RunBegins`, `RunWorks`, `Leaves` | the thread (external) |
| `HubFollows`, `HubLoses` | the stream of the active face catches up (some changes at a time), the connection drops |
| `HubRemoves`, `HubRemovesProven`, `HubMarks` | a thread leaves the active face: in one critical section a subscribed hub also enters it as unaccounted for (unless frame and archive both have the row), another marks its archive in a callback after the frames were applied |
| `ArchiveRead`, `ArchiveRow`, `ArchiveRemoves`, `ArchiveLoses` | a snapshot that restores trust; rows that come without; a removal; the end of the validity of a snapshot or of the subscription |
| `GraceExpires` | `expireArchiveMembershipUncertain`: trust without evidence |
| `Accept`, `Attach` | `commitAssistantTurn` stores a running wait, `threadWaitAttach` follows the commit |
| `Cancel` | `cancelBotCall` marks a running call |
| `StartRound`, `Adopt` | `evaluateThreadWaits`, `waitAdoptUnregistered` |
| `EvaluateRow`, `EvaluateCancel`, `Evaluate` | `evaluateThreadWait` by what the row says |
| `Read` | `waitResolveTimeout`: the second look and the detail |
| `Write` | `waitFinalize` and `finalizeCall` |
| `Crash`, `Recover` | process death, `RecoverOnStartup` |

A conversion matters here: `Verdict` and `Timed` are the order in which the code
draws its conclusions, with all their conditions. Properties: `VerdictTrue`
compares what is said with the thread itself, which the code never sees:
`thread_gone` of a thread that was seen before only if it left the active face, and, once the
hub has accounted for that, only if it was deleted; `timeout_unchanged` only if
nothing was written; and a cancellation kept whenever it came. The code does less than its
documentation says in three places, and `GoneTrue` names each of them:

- between `HubRemoves` and `HubMarks` (`left = "unmarked"`) the view of a hub that reads on
  demand has lost an archived thread and still trusts its archive, so the wait may
  say `thread_gone` of it. `applyActiveValues` and the comment at `archiveUncertainArmed`
  know of this window; the critical section closes it for subscribed hubs only;
- after `GraceExpires` (`left = "expired"`) a subscribed hub that never got a
  snapshot with the thread does the same, by design;
- if the second look of the time-out fails (`LookFails`), `thread_gone` may be said
  of a thread that never left: see the findings.

In all other states, in both modes, after any losses of connection, trust and frames, an
archived thread is found in the archive or the archive is not trusted. `WaitEnds` is the
liveness of the evaluator.

### Runs of BotMainline

All runs have two goroutines (`g1`, `g2`): one in the slot and one that is
between release and re-entry, or a fresh wake-up; a third could only repeat what
the second does, since both wait for the same `acquire`. Symmetry under
permutation of the goroutines is used for the runs without liveness formulas.
The `VIEW` of these runs drops locals that are overwritten before they are read
again (`built` outside of the request, the wake-up of a goroutine that will not
look at it).

| Run | Runs/inputs/stops/requests/faults | Shows |
|---|---|---|
| `mainline_stop` | 2/2/1/2/1 | the safety properties with a stop in flight while the next run takes the slot; or, with one run, retry, rebuild, tool calls, `fs_stop` and the second click against a hard stop, and a final write that may fail (`Scenario`); every step of both is one of `MainlineContract` |
| `mainline_honoured` | 1/2/1/1/0 | an accepted stop takes effect even if the model hangs |
| `mainline_recovery` | 4/2/0/1/1 | a failure, panic or crash leaves no run hanging, the recovery notice starts a run; without a fault every input is consumed although wake-ups get lost |
| `mainline_scan_stuck` | 3/1/0/1/1 | *violation*: a scan's trigger key is used up by a run that failed |

The bounds: two runs are needed for a late stop or wake-up of one run to meet
the next; two inputs for one to arrive behind the watermark of the other (the
stop message is an input too); `MaxReqs` is the request after which the loop no
longer retries or calls tools, so 1 gives every exit once and 2 the retry with
the context of before; one hard stop is under way
at a time (the second click follows the timer of the first), and one wake-up of
the scan; two calls of `wakeRuntime` race each other and the slot, and a third
could only repeat what they do (`FewWakes`). `CHECK_DEADLOCK FALSE`: with the bounded inputs used up and no run
under way the bot rests, as it does in reality.

Fairness. `Progressing`: the Go scheduler runs every runnable goroutine and timer,
the scan ticks every 5 s, and a supervisor restarts the process. The wake-ups are
separate calls, so each kind is treated fairly by itself; the same for the hard
stops by run and grace. `HangingSpec` assumes nothing of the model and the tools
except that a cancelled context makes them return; `FairSpec` assumes they
return, which the idle and total watchdogs of the stream and the deadlines of
the tools enforce.

### Runs of BotCalls

| Run | Calls, workers, users, faults | Shows |
|---|---|---|
| `calls_turn` | read, write and async; or read, write and two waits on one thread; 1 worker, 1 user; a crash | one turn, a stop or new input before any call, a cancellation and decisions beside it; or recovery, which closes every call and repeats none |
| `calls_workers` | async, with 2 workers and an authorization; or `fs_cancel` and async, with 1 worker; 1 user; a failed transaction, a panic, a crash, an expiry | two workers with the same call against decision, cancellation and revocation; or two cancellations meet, and `fs_cancel` cancels itself |
| `calls_live` | `fs_cancel`, two asyncs, a channel of one; 1 worker; a crash | *liveness*: no queued call is forgotten, a call that has begun ends |
| `calls_revoked_claim` | async; 2 workers, two authorizations | *violation*: a claim under a revoked authorization |

The bounds: a turn needs one call of each kind in every order, since what a stop or
new input does depends on the calls before and after; two workers, for the races
are between two that hold the same row (the code starts four); one authorization
for the races of its revocation, two for a call that moves from one to the next;
one revocation at a time, since each only touches the calls of its own
authorization. `Cap` is 1 where the code has 256, so that the channel is full with
two calls. `MaxCancels` bounds the cancellations of the users, not those of
`fs_cancel`. Workers, and the waits of a thread, are interchangeable (`SYMMETRY`,
without liveness formulas). Nothing ever deadlocks: recovery ends,
and an idle loop evaluates or fails to build.

Fairness (`FairSpec`). The loop, each worker, each cancellation, the revocation and
recovery are goroutines that go on; tools return (`botAsyncExecTimeout`, and the
run's context in the loop); the scan comes back every 5 s and the evaluator of the
waits has a timeout for each. A user decides or cancels only if they like, and
nothing is assumed of the model. The scan pushes each
queued call for which there is room, and a worker that takes work makes room.

### Run of BotSchedule

`schedule` checks all properties together, safety and liveness, with two plans,
two cards, one change of the task, one new version of the credentials and one
fault. `Scenario` says which of these meet: while the provider stays as it is,
one disturbance (card, change, stop or fault) with two plans, a card and the
change of the task with one plan, or two cards and the change before the plan is
due; while the credentials are replaced or probed, two plans and nothing else.
Runs by cron and by hand, the two things that can overlap, are there in all of
them, and a failure of each. `Grace` is 0, so that a plan the tick comes late
for is missed; `Window` is as long as the clock, so that a circuit may stay open
or be closed by a probe. One turn of calls is enough for a result to come late.
`CHECK_DEADLOCK FALSE`: with the plans used up and the runs ended, nothing happens.

Fairness: the ticker comes round, recovery goes on, and each run's goroutine,
wake-up and scan do; a call that was accepted settles (each has a deadline of
its own), and the stream answers or fails. The clock, users, cards and faults
promise nothing. What `Scenario` leaves out is never a fair action except
through its bounds on disturbances, which nothing promises either.

### Runs of ReviewDispatch

| Run | Bounds | Shows |
|---|---|---|
| `review` | two combinations in one place of the user, two heads; one push, rerun or fault, or the pull request closed and reopened | safety of the runs, truth of the published outcome, every step is one of `ReviewContract`, and everything settles |
| `review_empty_round` | one combination, one push | *violation*: a stale result makes the sync publish the status of a round without runs |

Two combinations with `MaxInflight` 1 are the smallest round in which a run waits
for a place; four rows are two rounds of it. The platform's moves and the faults
are the ones that interleave with every step of the tick, so one of each kind at
a time is already the large part of the state space; two (close and reopen) are
checked without others. After a push or a rerun an agent goes straight to its
result (after a push one agent at a time), and T3 obeys a stop and has settled the turn
when it is asked; that it is slow or ignores a stop is checked where there is neither.
`MaxTries` is 2 where the code has 3, so that one answer that a thread is missing, or
one refusal, is not the last.

A fault is a read of the pull request or of the thread that fails (`read`), or is
denied for good (`denied`: 401, 403, 404); a launch without its binding, T3, public URL or token
(`unready`); a creation that was not sent (`unsent`), or one without an answer, with or without a thread
(`unconfirmed`); a T3 that refuses to archive a thread, which it goes on doing and may do although the
thread was archived (`refused`), or that denies having one, fewer times than are believed
(`glitch`); or a crash. `Settles` says that no thread outlives its run unless the row says that it was given
up: `review_cleanup.go` sets `archived_at` after the last refusal and tells the user. A T3 that denies a thread
three times in a row is believed, which no property can blame.

Fairness: the ticker never stops, a debounce comes due, a delivery that was not
lost arrives, claims grow old and deadlines pass (also that of the wait for a thread to
settle, without which a turn that never ends would keep its thread). Nothing is assumed of agents
and users, so `Settles` rests on the deadlines alone.

### Run of ThreadWait

`thread_wait` has one wait with one of two filters (`idle`; `needs_reply` and
`error`), two runs and two changes of the thread, five rounds with a time-out
after two, so that every verdict is reached: a start that does not come, a
condition that holds at once or only after a stable round, a thread that is
gone before or at the time-out, and the time-out itself with and without
progress. The hub is subscribed or reads on demand, and every step of it is among the
behaviours. One fault: a registration that is lost, a view that cannot be looked
at (when the wait is attached, adopted, or at its second look), a row that cannot be read, a
bot that cannot be read before the end is written, a transaction that fails, or
a crash.

`Scenario` leaves out only what changes nothing of what is said, or combinations. Thread
and hub move when the wait is about to look at them (`Timely`): only the looks read
them, and what happened since the last look may as well happen just before the next one. The trust in the archive
changes when the thread is not on the active face, since it is not asked otherwise, and a
thread leaves under one filter, since the filter is not asked then (`Relevant`). A fault, a
thread that leaves and a hub out of touch come while the thread has moved once at most;
a cancellation comes without a fault, to a thread that has not left; the goroutine registers the
wait within one round (`Few`). The theorem below has none of these bounds.

Fairness: the scan comes round, the goroutine that accepted the wait goes on, the
process is started again. Nothing is promised of the thread and of the hub: a
hub that never becomes ready is among the behaviours of `WaitEnds`. `MaxRound`
leaves room for the time-out after a late adoption.

### Findings

1. `mainline_scan_stuck`: the scan names its run `scan:<last sequence number>`.
   If that run fails before its first request, nothing is appended, every later
   scan builds the same name, and the insert fails on the unique
   `(bot_id, trigger_key)`. The input waits until another message arrives, where
   `docs/internal/bots.md` promises the scan makes up for it within 5 s.
2. `calls_revoked_claim`: the claim checks the authorization the worker read before
   its transaction. A call that was put back and approved under another
   authorization meanwhile, which was revoked too, is executed.
3. `review_empty_round`: when the head has moved, `AgentSubmitResult` marks the
   pull request for a sync whether or not it found its run active. If the webhook
   has superseded the run and advanced the ledger, the mark falls on the new head
   before its round is open, and the sync publishes "pending" for no runs at all,
   what `review_webhook.go` avoids on purpose. If the action is not ticked, no
   round ever follows.

What the models show besides, in states the properties leave out. `RecoveryStartsRun`
holds for one crash: the failed run and the notice are two transactions, and a
second crash in between loses the notice. `revertQueuedCall` asks for the status
only, so a late revert takes back an approval the user gave anew (`RevokeRevert`
after `Approve`); the user is asked again. After `Panic`, or when the transaction
that ends a synchronous call fails, `BuildFails` is all the loop can do until the
next restart. The receipt of a duplicate wait has the key of its result, so the
result that follows is dropped, and the model learns the outcome from the receipt.

In `ThreadWait`, two things that no run of its own states. When the second look of
`waitResolveTimeout` returns an error, the ready view of the round stays while what was seen in it is
dropped, and the wait reports `thread_gone` of a thread that never left. The comment of that
function (`bot_thread_wait.go:778` and following) says that a failed authoritative read is
reported as `watch_degraded`, and `docs/internal/bots.md:1859` that `thread_gone` is for a trusted
face. The run `thread_wait` has this fault, and `GoneTrue` excepts it with `~LookFails`; without
that conjunct TLC gives a trace of nine steps: the wait is accepted and attached, two rounds see
the thread at work, the third is past the time-out, its second look fails. And a wait whose end was
not written is adopted anew with a new baseline and its old time of attachment,
so that a thread that rests by then is `not_started` at once.

## Proofs

Every invariant and every action property that a passing run checks is also a theorem,
for every value of the constants; so are the refinements of `MainlineContract`, `CallContract`,
`TaskContract` and `ReviewContract`. What follows says for each module what it proves, which inductive invariant that takes, and why.

### The mainline

`BotMainlineProofs` proves, for all values of the constants that satisfy
`MainlineAssumption` (any set of goroutines, any bounds, any kinds of faults):

- `TypeCorrect`: `TypeOK` is inductive by itself. Besides the types it says that a
  goroutine in the loop has a run and forgets it with the slot; the other proofs
  rest on that.
- `SlotExclusive`: `OneExecutor` is inductive relative to `TypeOK`. Every step
  moves on inside the slot, leaves it and frees it, or enters a free one (lemmas
  `Inside`, `Leaving`, `Entering`).
- `CancelsOwnRunOnly`: `CancelsOwnRun` is not inductive. It needs that an entry is
  bound to the run its goroutine executes and registers that goroutine's context
  only (`SlotBound`), and that a hard stop beyond its mark belongs to a run that
  is asked to stop, which no step takes back (`StopMarked`, `StopsKept`).
  Together: `IInv`.
- `RunsAreExecuted`: `RunHasExecutor` needs that the slot is given back only when no
  run is left unfinished (`RunEnded`, false when the final write fails, hence the
  condition in the property) and that nothing executes during recovery
  (`Recovering`). Together: `RInv`.

`BotMainlineInputProofs` builds on it. The inductive invariant is `InputInv`: `IInv` and
`Recovering` with eight parts more, and `OfferedJustified` itself. All of it
rests on one table of what a step may do to the row of a run (`RowSteps`: creates,
registers a request, advances, skips, is asked to stop, is stopped, completes, ends), and on
two lemmas about the copies a goroutine keeps (`SeenStep`, `BuiltStep`).

- `InputsAreNotSkipped`: `OfferedJustified`. The watermark of the bot moves in a second
  statement, after that of the run, and an input may arrive before, between and after the two. What
  makes the second one safe is `Registered`: the goroutine between the statements has
  registered a request that reaches as far as the context it built, and `Numbers`: nothing is
  ever numbered ahead of the counter. A hard stop moves the watermark to the number of the
  stop message of its run (`StopsOf`), so only what came before the stop is passed.
- `CompletedRunsAreDrained`: `CompletedDrained`. `tryFinishRun` compares the ledger with its own
  copy `seen`, the property speaks of the bot. `Watermarks` relates them: a run that
  is not asked to stop is ahead of its bot only between the two statements. That needs
  `OneActive`, one unfinished run at a time, or another run could hold the bot back.
- `StopsAreFinal`: `StopIsFinal` (the contract below demands it of every step) is one look at
  `RowSteps`: each way to end a run asks for the stop in the same statement, and so does the
  registration.
- `GraceIsKept`: `GraceSparesProgress` needs `Grace`: as long as the timer is armed, the
  requests counted when the stop was accepted do not contain its message; past its mark, no
  request of the run does, because the row is asked to stop by then and registers none.

`BotMainlineContractProofs` proves `MainlineKeepsContract`: every step of `BotMainline` is a step of
`MainlineContract` or shows nothing (`ContractSteps`). The invariant is `CInv`, `InputInv` with
four parts more, all about goroutines between two statements:

- `InLoop`: a goroutine in the loop has an unfinished run, although recovery, the panic handler and the
  loop itself end runs; and it is on its way to end the run as stopped only if that was
  asked for, which `finishStopped` does not look at again. A run ends only in a step of the
  goroutine that leaves the loop, or in recovery (`EndedBy`), and there is one goroutine (`OneExecutor`).
- `Requested`: the watermarks move exactly to the end of a request of the run, where
  `Registered` says no further; and whoever calls tools has made a request, so `fs_stop` is
  the answer to one.
- `Forward`: what a goroutine has built, or sends again after a failed stream, contains all that
  was handed over. A hard stop could break that: it moves the watermark while the goroutine holds a
  request built before. It does not, for it either belongs to the goroutine's run, which then
  registers nothing any more, or to an earlier run, whose stop message is older than what was built.
- `Quiet`: no hard stop survives a crash, so nothing is handed over before the restart has
  failed what was left.

### The tool calls

`BotCallsProofs` proves, for all values of the constants that satisfy `CallsAssumption`
(any number of calls of each kind, workers, users, authorizations and faults, any
capacity of the channel):

- `CallTypes` and `RepliesOnce`: `TypeOK` and `OneReply` both follow from `TInv`. It adds to
  the types what is true of each row by itself (`Rows`: a row is told in the step that
  ends it; a synchronous call has no receipt, since its reply is its result; a wait
  is never queued), and that whoever is busy holds a call that exists (`Busy`).
- `LedgerKeepsContract`: every step of `BotCalls` is a step of `CallContract` or
  stutters. What it needs is `Execution`: the loop or the worker between claim and
  final outcome holds a running call, alone, that has not written before its write
  step; nobody executes while recovery runs. So the claim is the only beginning, and
  a crash leaves a running call to recovery, which ends it.
- `CancelIsKept`: `RowChanges` classifies every step by what may become of one row
  (`Becomes`): stays, is marked, begins, or ends in one of the ways a given status
  allows. `CancelWins` is one look at that list.
- `CancelsAreDelivered`: `CancelReaches` becomes inductive with `Signalled`: a worker
  that looks at the mark has registered its context before, so that whoever sets the
  mark later finds it; and `fs_cancel` has given its signal before the loop goes on
  and uses the same cancellation again.
- `EffectsAreDisclosed`: `CancelDisclosed` needs `Disclosed`: a worker that comes back
  cut off before its tool started has not written, and a wait, which anybody may
  end as cancelled, writes nothing. `RowChanges` says who ends a row, and how.

`BotCallsTurnProofs` relates the loop's copy of a turn to the rows. `RowsMove` says of every
step but the commit how a row may come to be queued (it was, or the user approved it) and
how a synchronous call may come to run (it did, or the loop claimed it); `StepsOfTheTurn`
says what each step does to the locals of the loop.

- `NewInputIsHeeded`: `NewInputHolds`, if no transaction fails. Inductive with `TurnOpen`: what is
  queued of the turn without the user's approval is in the loop's set `open`, and after
  new input, unless it is a read, among those about to be closed. The claim by a worker, a
  revert, a revocation and a scan only take calls out of that condition.
- `BlocksAreClosed`: `BuildableWhenIdle`, if no transaction fails and no tool panics.
  Inductive with `Held`: a synchronous call that runs is the one the loop executes, and one that is
  queued is ahead of the loop and open, and is about to be closed when the loop stops. So when
  the loop is idle none is left, and `Rows` does the rest: a settled synchronous call has its
  reply, any other call its receipt. Recovery restores `Held` after a crash.

Both conditions are needed. `CloseFails` leaves a write to the workers, and after `Panic` or
`FinishFails` the turn stays open until the next restart, which is why `calls_turn` has a crash for its
only fault; that state is a hazard no property covers, see the findings.

### The schedule

`BotScheduleProofs` proves, for all values that satisfy the assumption of `BotSchedule`, the type
invariant, all six safety properties and the refinement of `TaskContract`. The inductive invariant is `Invariant`.

- `ScheduleTypes`: `TypeOK`. `Plans` counts the rows: each run by cron has a plan of its own and each
  run by hand a card that is done, so a tick or a card that starts a run finds a free row
  (`FreeRow`, `RoomFor`): the bound on the runs excludes no behaviour.
- `RunsDoNotOverlap`: `NoOverlap` from `OneUnfinished` (the look for an unfinished run and the insert
  are one transaction, by the tick and by the card) and `SlotRuns` (a slot that executes does so
  for a run that is unfinished: whoever ends the run leaves the slot in the same step or
  finds out before it goes on). `Recovering` says that nothing of this happens before
  recovery is done.
- `FailuresAreTold`, `CompletedAreSettled`: inductive by themselves given the rest, by `RunSteps`,
  the table of what a step may do to the row of a run.
- `ApprovedIsExecuted`: `ApprovedConfig` needs `CardsTrue`: a card whose revision is still that of the
  task shows the task's configuration.
- `CircuitsAreCurrent`, `CircuitsKeepTheirEnd` are action properties, as is `StopsWin` (no run checks it by
  itself: the contract below demands it of every step), each a look at the
  writers of the row concerned (`RunSteps`, `ProviderWritten`); `CircuitCurrent` needs
  `VersionsRead`: a version that was read together with credentials and is still the current one
  means that the credentials are.
- `TaskKeepsContract`: every step of `BotSchedule` is a step of `TaskContract` or shows nothing
  (`ContractSteps`, one case for each writer of a row, which are all the actions `RunsWritten` names, and
  the two that change the mode). Each lemma `...Shown` says what the contract sees of one kind of write. The
  refinement needs three parts of the invariant: `Recovering`, since neither the dispatch nor the
  goroutine of a run looks whether recovery is over; `FailureTold`, for the count of events; and
  `StopSeen`: a slot that ends its run as stopped does so for a run that was asked to stop, which
  `finishScheduleStopped` does not ask again.

### The reviews

`ReviewDispatchProofs` proves, for all values that satisfy the assumption of `ReviewDispatch`,
with the inductive `Invariant` of two halves:

- `ReviewTypes` and `RunsAreOfTheRound` from `RInv`: rows are filled in their order and a round has
  rows enough (`Ordered`); while a head waits for its round no run is under way (`Waiting`), since
  accepting the head superseded them; and what the tick holds on to exists (`Holding`).
- `EndsAreFinal`: `EndIsFinal` from the table of the writers of a run (`RunSteps`): each of them asks
  for the status it starts from.
- `OutcomesArePublished`: `OutcomePublished` from `PInv`. An epoch that is still the current one
  means that nothing asked for a sync since it was read, so the outcome the sync computed is still
  the outcome (`SyncTrue`), what it wrote is what the platform shows (`Written`), and a status that
  the ledger has recorded, for which no write is due, is on the platform already (`RecordTrue`).
- `ReviewKeepsContract`: every step of `ReviewDispatch` is a step of `ReviewContract` or shows
  nothing (`ContractSteps`); the same lemma says what becomes of each row (`RowMoves`), from which
  the rest of its invariant follows. That is `KInv`, `Invariant` with six parts more, each of them about
  an operation between its transactions:
  - `Backed`: an outcome the sync is about to write is the one of a round that has ended. The check
    of the epoch is a step before the write, so the head may have moved since; what is written
    is true all the same, as ended runs stay and no round gets new ones (`EndedRound`).
  - `Submitting`: a request of an agent belongs to a run that was begun, or `AgentSubmitResult` could
    complete one that was only dispatched.
  - `Tokens` and `InHand`: between claim and creation a run has no thread, and before its token is
    issued nobody could speak for it, so it is dispatched still or has ended. `issueRunToken` does
    not ask; that it never writes for a free row rests on this.
  - `Awaited`: the head in the debounce row is the accepted one and has no runs yet, so the
    round that is opened for it cannot meet one that is there.
  - `Blank`: a free row has no code and no token.

### The waits

`ThreadWaitProofs` proves, for all values that satisfy the assumption of `ThreadWait`:

- `WaitTypes`: `TypeOK`, with `RoundsCounted` (an entry has seen no more rounds than there were, hence
  its counters stay bounded) and `OutcomeFound`.
- `VerdictsHold`: `VerdictTrue`, with every kind of fault. `thread_gone` needs `LostFromView`: once the wait has
  seen the thread (`Seen`), a view that has it on neither face means that it left, and that it was deleted, if the
  archive is in force and the hub has nothing left to make of it (`Lost`). That holds with
  `Housed`: a copy in the archive is one of a thread that left. `HubHoused` and `HubLost` go
  through the ten steps of the hub; `LostStep` adds the thread, the wait and the crash, after
  which nobody has seen anything. The second look is why the property speaks of the view as it
  is when the verdict falls, not of that of the round. Items are never taken back
  (`ItemsKept`), so equal counts mean that nothing was written.

### Assumptions, and what is only model-checked

Every theorem is of the form `Spec => ...`, two of them under a condition on the kinds of
faults (`RunsAreExecuted` has its own inside the property); fairness is never used. The
assumptions on the constants only say that kinds are disjoint, null values are no
values, bounds are natural numbers, and that there is something to model: a
goroutine and a run in `BotMainline`, a place in the channel of `BotCalls`, a run of the thread
in `ThreadWait`, a first head, a combination and a place in `ReviewDispatch`.

Model-checked only: the liveness properties (`StopHonoured`, `InputsConsumed`, `RunEnds`,
`RecoveryStartsRun` of the mainline, `QueuedServed` and `RunningSettles` of the calls, `RunEnds` and
`DueServed` of the schedule, `WaitEnds`, `Settles`), which rest on fairness and so on ENABLED, out of
the prover's reach; and the three disagreements, which are counterexamples.

## Not modelled

In the mainline: schedule sessions (they share the loop but not the slot), the
SSE event log, maintenance rows, the content of messages, token budgets, the
deletion of a bot. In the tool calls: the calls of schedule sessions (which never
wait for confirmation), the conditions of the write policy, results and previews,
the detection of misjudged rules, several rules at once.

In the schedule: creating a task and the limit of tasks, cron expressions and
time zones, several tasks and providers, notices. In the reviews: visual runs,
comments and inline reviews, preparation retries and worktrees, wake-ups by
comment, projects that are disabled, deleted or taken over, ties of time stamps,
the back-off of a failing sync, redelivery and polling (a delivery of a head that
was lost is taken as one that is late). In the waits: the limits of acceptance, rows whose
arguments do not parse, the payload of a result, items without a time, an error
of `PeekShell` in a round (it counts as one with a view that is not ready, which the model has); of the hub,
the change between its two modes, threads that are taken out of the archive again (a thread that left
does not come back), and the connections and generations behind the view.

Of the system: the components without a module. The quota clients, the forges,
accounts, releases, the HTTP layer and the front-end have little order of steps
to get wrong. Compaction, the write queue of a thread, the mirror of issues and
the deletion of screenshots have, and are the ones to model next.

## Plan

1. `Compaction`: publish by compare-and-set against appends and edits; the write
   queue of a thread; screenshots.
2. A contract for a wait on a thread (accepted, registered, reported once), in the manner of
   the other four.
