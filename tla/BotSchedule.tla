---------------------------- MODULE BotSchedule ----------------------------
(* A schedule task of a bot (service/bot_schedule_scheduler.go,             *)
(* service/bot_schedule.go): the ticker that dispatches its due plans, the  *)
(* runs by cron and by hand, the slot that executes a run, the confirmation *)
(* card that approves a change of the task or a run, and the circuit of the *)
(* provider that a failure opens.  Transactions are serialised by the one   *)
(* connection of the database; everything between two transactions of an    *)
(* operation interleaves.                                                   *)
(*                                                                          *)
(* The cron expression fires in every unit of time.  An instant that the    *)
(* code compares with config_version_at is represented by the version of    *)
(* the provider at that instant: config_version_at <= instant if and only   *)
(* if the version has not changed since.                                    *)
EXTENDS Naturals, FiniteSets

CONSTANTS Configs,     \* sensitive configurations: instruction, model, needs_report
          Reporting,   \* the ones with needs_report
          Grace,       \* botScheduleMissGrace
          Window,      \* how long a circuit stays open
          MaxTime, MaxCards, MaxEdits, MaxVersions, MaxTurns,   \* bounds
          Faults, MaxFaults

ASSUME ScheduleAssumption ==
  /\ Reporting \subseteq Configs
  /\ {Grace, Window, MaxTime, MaxCards, MaxEdits, MaxVersions, MaxTurns, MaxFaults} \subseteq Nat
  /\ Faults \subseteq {"crash", "panic", "write", "query"}

NoTime == 0
NoRun == 0
Time == 1 .. MaxTime
Cards == 1 .. MaxCards
RunId == 1 .. (MaxTime + MaxCards)
Version == 0 .. MaxVersions

Status == {"none", "running", "completed", "failed", "stopped", "skipped"}
Executing == {"session", "top", "stream", "finish", "fail", "stopping"}
SlotPc == Executing \cup {"idle", "load", "check", "open"}
Kinds == {"run", "update", "enable", "delete"}

VARIABLES now,        \* the clock
          task,       \* the row of bot_schedule_tasks
          runs,       \* the rows of bot_runs
          provider,   \* the row of ai_providers
          overlapTold, circuitTold,   \* the dedup keys of the skip events
          card,       \* the confirmation cards and the workers that execute them
          tick,       \* locals of scheduleTick
          probe,      \* locals of a connection test
          slot,       \* the execution slots and the locals of their goroutines
          wakes,      \* calls of wakeScheduleRun under way
          mode, faults

dbVars == <<task, runs, provider, overlapTold, circuitTold>>
vars == <<now, task, runs, provider, overlapTold, circuitTold, card, tick, probe,
          slot, wakes, mode, faults>>

Run == [status : Status, manual : BOOLEAN, planned : Time \cup {NoTime},
        cfg : Configs,        \* frozen when the run is created
        shown : Configs,      \* what the card of a manual run showed
        creds : Version, since : Version,
        stop : BOOLEAN, open : BOOLEAN, fresh : BOOLEAN,
        turns : 0 .. MaxTurns, told : 0 .. 2]

AnyConfig == CHOOSE c \in Configs : TRUE
NoRow == [status |-> "none", manual |-> FALSE, planned |-> NoTime, cfg |-> AnyConfig,
          shown |-> AnyConfig, creds |-> 0, since |-> 0, stop |-> FALSE, open |-> FALSE,
          fresh |-> FALSE, turns |-> 0, told |-> 0]
NoCard == [pc |-> "none", kind |-> "run", rev |-> 0, cfg |-> AnyConfig, since |-> 0]
Done == [NoCard EXCEPT !.pc = "done"]
NoTick == [pc |-> "idle", planned |-> NoTime, now |-> NoTime, since |-> 0]
NoProbe == [pc |-> "idle", version |-> 0, creds |-> 0]
NoSlot == [pc |-> "idle", cfg |-> AnyConfig, auth |-> FALSE]

(* A plan belongs to a task that is enabled, a slot to a run with a row.   *)
TypeOK ==
  /\ now \in 0 .. MaxTime
  /\ task \in [exists : BOOLEAN, enabled : BOOLEAN, confirmed : BOOLEAN,
               next : 0 .. MaxTime + 1, rev : 0 .. MaxEdits, cfg : Configs]
  /\ runs \in [RunId -> Run]
  /\ provider \in [creds : Version, version : Version, until : 0 .. MaxTime + Window]
  /\ overlapTold \subseteq RunId
  /\ circuitTold \subseteq 1 .. MaxTime + Window
  /\ card \in [Cards -> [pc : {"none", "shown", "started", "done"}, kind : Kinds,
                          rev : 0 .. MaxEdits, cfg : Configs, since : Version]]
  /\ tick \in [pc : {"idle", "due"}, planned : Time \cup {NoTime},
               now : 0 .. MaxTime, since : Version]
  /\ probe \in [pc : {"idle", "sent"}, version : Version, creds : Version]
  /\ slot \in [RunId -> [pc : SlotPc, cfg : Configs, auth : BOOLEAN]]
  /\ wakes \subseteq RunId
  /\ mode \in {"up", "recovery"}
  /\ faults \in 0 .. MaxFaults
  /\ task.next # NoTime => task.exists /\ task.enabled
  /\ \A r \in RunId : slot[r].pc # "idle" => runs[r].status # "none"

(* A task that a card approved, or a row from before the cards, which may  *)
(* be enabled but is not confirmed.                                        *)
Init ==
  /\ now = 0
  /\ \E c \in Configs, enabled, confirmed \in BOOLEAN :
       task = [exists |-> TRUE, enabled |-> enabled, confirmed |-> confirmed,
               next |-> IF enabled THEN 1 ELSE NoTime, rev |-> 0, cfg |-> c]
  /\ runs = [r \in RunId |-> NoRow]
  /\ provider = [creds |-> 0, version |-> 0, until |-> NoTime]
  /\ overlapTold = {} /\ circuitTold = {}
  /\ card = [c \in Cards |-> NoCard] /\ tick = NoTick /\ probe = NoProbe
  /\ slot = [r \in RunId |-> NoSlot]
  /\ wakes = {}
  /\ mode = "up" /\ faults = 0

Fault(kind) == kind \in Faults /\ faults < MaxFaults /\ faults' = faults + 1

Tock == now < MaxTime /\ now' = now + 1 /\ UNCHANGED <<dbVars, card, tick, probe, slot, wakes, mode, faults>>

Unfinished == {r \in RunId : runs[r].status = "running"}
NewId == CHOOSE r \in RunId : /\ runs[r].status = "none"
                              /\ \A q \in RunId : q < r => runs[q].status # "none"
Earliest(R) == CHOOSE r \in R : \A q \in R : r <= q

-----------------------------------------------------------------------------
(* The ticker.                                                             *)

TickList ==
  /\ mode = "up" /\ tick.pc = "idle"
  /\ task.exists /\ task.enabled /\ task.next # NoTime /\ task.next <= now
  /\ tick' = [pc |-> "due", planned |-> task.next, now |-> now, since |-> provider.version]
  /\ UNCHANGED <<now, dbVars, card, probe, slot, wakes, mode, faults>>

StillDue == task.exists /\ task.enabled /\ task.next = tick.planned

(* As if only the runs by cron counted as overlapping.                     *)
BlockingCron == {r \in Unfinished : ~runs[r].manual}

Blocking == Unfinished

(* What becomes of the plan: the circuit before the overlap before the     *)
(* plan that was missed.                                                   *)
Outcome ==
  IF provider.until > tick.now THEN "circuit"
  ELSE IF Blocking # {} THEN "overlap"
  ELSE IF tick.now - tick.planned > Grace THEN "missed"
  ELSE "run"

(* The unique key of bots and triggers: the plan has its run already.      *)
KeyTaken == \E r \in RunId : runs[r].planned = tick.planned

(* As if the plan that a run was created for stayed due.                   *)
AdvanceNever == UNCHANGED task

Advance == task' = [task EXCEPT !.next = tick.now + 1]

(* Whether the main line hears of the plan that was skipped: once per      *)
(* circuit, once per run in the way, each time it was missed.              *)
SkipTold(why) ==
  CASE why = "circuit" -> provider.until \notin circuitTold
    [] why = "overlap" -> /\ task.cfg \in Reporting
                          /\ Earliest(Blocking) \notin overlapTold
    [] why = "missed"  -> task.cfg \in Reporting

DispatchStale ==
  /\ tick.pc = "due" /\ ~StillDue
  /\ tick' = NoTick
  /\ UNCHANGED <<now, dbVars, card, probe, slot, wakes, mode, faults>>

DispatchRun ==
  /\ tick.pc = "due" /\ StillDue /\ Outcome = "run"
  /\ IF KeyTaken THEN UNCHANGED <<runs, wakes>>
     ELSE /\ runs' = [runs EXCEPT ![NewId] =
               [NoRow EXCEPT !.status = "running", !.planned = tick.planned,
                             !.cfg = task.cfg, !.shown = task.cfg,
                             !.creds = provider.creds, !.since = tick.since]]
          /\ wakes' = wakes \cup {NewId}
  /\ Advance
  /\ tick' = NoTick
  /\ UNCHANGED <<now, provider, overlapTold, circuitTold, card, probe, slot, mode, faults>>

DispatchSkip ==
  /\ tick.pc = "due" /\ StillDue /\ Outcome # "run"
  /\ LET why == Outcome
         told == ~KeyTaken /\ SkipTold(why)
     IN /\ IF KeyTaken THEN UNCHANGED runs
           ELSE runs' = [runs EXCEPT ![NewId] =
                  [NoRow EXCEPT !.status = "skipped", !.planned = tick.planned,
                                !.cfg = task.cfg, !.shown = task.cfg,
                                !.told = IF told THEN 1 ELSE 0]]
        /\ circuitTold' = IF told /\ why = "circuit" THEN circuitTold \cup {provider.until}
                          ELSE circuitTold
        /\ overlapTold' = IF told /\ why = "overlap" THEN overlapTold \cup {Earliest(Blocking)}
                          ELSE overlapTold
  /\ Advance
  /\ tick' = NoTick
  /\ UNCHANGED <<now, provider, card, probe, slot, wakes, mode, faults>>

-----------------------------------------------------------------------------
(* The execution slot of a run.                                            *)

(* The slot is released with the last step of the goroutine.               *)
SlotGoes(r, pc) == slot' = [slot EXCEPT ![r] = IF pc = "idle" THEN NoSlot ELSE [@ EXCEPT !.pc = pc]]
SlotOnly == UNCHANGED <<now, dbVars, card, tick, probe, wakes, mode, faults>>
RunAndSlot == UNCHANGED <<now, task, provider, overlapTold, circuitTold,
                          card, tick, probe, wakes, mode>>

(* As if the scan cared for the main lines only.                           *)
ScanMainOnly(r) == FALSE /\ UNCHANGED vars

Scan(r) ==
  /\ mode = "up" /\ r \in Unfinished /\ slot[r].pc = "idle"
  /\ SlotGoes(r, "load")
  /\ SlotOnly

(* wakeScheduleRun may have read the run before it ended.                  *)
Wake(r) ==
  /\ r \in wakes
  /\ wakes' = wakes \ {r}
  /\ \/ slot[r].pc = "idle" /\ SlotGoes(r, "load")
     \/ (slot[r].pc # "idle" \/ r \notin Unfinished) /\ UNCHANGED slot
  /\ UNCHANGED <<now, dbVars, card, tick, probe, mode, faults>>

Loaded(r) == r \in Unfinished

Load(r) ==
  /\ slot[r].pc = "load"
  /\ SlotGoes(r, IF Loaded(r) THEN "session" ELSE "idle")
  /\ SlotOnly

(* The revision a run by hand was created from must still be there; a run  *)
(* by cron executes the task as it is now.                                 *)
SessionAllowed(r) == task.exists /\ (runs[r].manual => task.cfg = runs[r].cfg)

Session(r) ==
  /\ slot[r].pc = "session"
  /\ slot' = [slot EXCEPT ![r] = IF SessionAllowed(r)
                THEN [pc |-> "top", cfg |-> task.cfg, auth |-> FALSE]
                ELSE [@ EXCEPT !.pc = "fail", !.auth = FALSE]]
  /\ SlotOnly

(* The safe point, and the wait for the asynchronous calls of the run.  A  *)
(* query that fails counts as settled.                                     *)
TopStop(r) ==
  /\ slot[r].pc = "top" /\ runs[r].stop
  /\ SlotGoes(r, "stopping")
  /\ SlotOnly

Top(r) ==
  /\ slot[r].pc = "top" /\ ~runs[r].stop
  /\ \/ ~runs[r].open /\ UNCHANGED faults
     \/ runs[r].open /\ Fault("query")
  /\ runs' = [runs EXCEPT ![r].fresh = FALSE]
  /\ SlotGoes(r, "stream")
  /\ RunAndSlot

TopTimeout(r) ==
  /\ slot[r].pc = "top" /\ ~runs[r].stop /\ runs[r].open
  /\ slot' = [slot EXCEPT ![r].pc = "fail", ![r].auth = FALSE]
  /\ SlotOnly

(* The model asks for an asynchronous call.                                *)
StreamCalls(r) ==
  /\ slot[r].pc = "stream" /\ runs[r].turns < MaxTurns
  /\ runs' = [runs EXCEPT ![r].turns = @ + 1, ![r].open = TRUE]
  /\ SlotGoes(r, "top")
  /\ UNCHANGED faults /\ RunAndSlot

StreamAnswer(r) ==
  /\ slot[r].pc = "stream"
  /\ SlotGoes(r, "finish")
  /\ SlotOnly

(* The build, the request or the commit fails, or the stream, after the    *)
(* retries; auth: credentials or quota.  A stream that a stop cut off ends *)
(* the run as stopped.                                                     *)
StreamFails(r) ==
  /\ slot[r].pc = "stream"
  /\ \/ runs[r].stop /\ SlotGoes(r, "stopping")
     \/ \E auth \in BOOLEAN : slot' = [slot EXCEPT ![r].pc = "fail", ![r].auth = auth]
  /\ SlotOnly

CallSettles(r) ==
  /\ mode = "up" /\ runs[r].open
  /\ runs' = [runs EXCEPT ![r].open = FALSE, ![r].fresh = TRUE]
  /\ UNCHANGED <<slot, faults>> /\ RunAndSlot

(* As if the wait for the calls were enough.                               *)
CompletableUnsettled(r) == r \in Unfinished /\ ~runs[r].fresh /\ ~runs[r].stop

Completable(r) == r \in Unfinished /\ ~runs[r].open /\ ~runs[r].fresh /\ ~runs[r].stop

(* It reports what the task and the model want reported, and the calls the *)
(* session refused.                                                        *)
Finish(r) ==
  /\ slot[r].pc = "finish"
  /\ IF Completable(r)
     THEN \E report \in {0, 1} :
            /\ runs' = [runs EXCEPT ![r].status = "completed", ![r].told = @ + report]
            /\ SlotGoes(r, "idle")
     ELSE UNCHANGED runs /\ SlotGoes(r, "top")
  /\ UNCHANGED faults /\ RunAndSlot

(* As if the failure overrode a stop that was accepted.                    *)
FailableStopped(r) == r \in Unfinished

Failable(r) == r \in Unfinished /\ ~runs[r].stop

(* As if the event were left to a later transaction.                       *)
FailedRowUntold(r) == [runs[r] EXCEPT !.status = "failed"]

FailedRow(r) == [runs[r] EXCEPT !.status = "failed", !.told = @ + 1]
Fail(r) ==
  /\ slot[r].pc = "fail"
  /\ IF Failable(r)
     THEN /\ runs' = [runs EXCEPT ![r] = FailedRow(r)]
          /\ SlotGoes(r, IF slot[r].auth THEN "check" ELSE "idle")
     ELSE UNCHANGED runs /\ SlotGoes(r, "stopping")
  /\ UNCHANGED faults /\ RunAndSlot

Stopping(r) ==
  /\ slot[r].pc = "stopping"
  /\ runs' = IF r \in Unfinished THEN [runs EXCEPT ![r].status = "stopped"] ELSE runs
  /\ SlotGoes(r, "idle")
  /\ UNCHANGED faults /\ RunAndSlot

(* The transaction that ends the run fails: the loop goes on, or the slot  *)
(* is given back and the scan executes the run again.                      *)
WriteFails(r) ==
  /\ Fault("write")
  /\ \/ slot[r].pc = "finish" /\ SlotGoes(r, "top")
     \/ slot[r].pc \in {"fail", "stopping"} /\ SlotGoes(r, "idle")
  /\ UNCHANGED runs /\ RunAndSlot

Panic(r) ==
  /\ slot[r].pc \in {"session", "top", "stream", "finish"}
  /\ Fault("panic")
  /\ slot' = [slot EXCEPT ![r].pc = "fail", ![r].auth = FALSE]
  /\ UNCHANGED runs /\ RunAndSlot

-----------------------------------------------------------------------------
(* The circuit of the provider.                                            *)

(* The configuration is not newer than the start of the run.               *)
SameConfig(r) == provider.version = runs[r].since

CheckCircuit(r) ==
  /\ slot[r].pc = "check"
  /\ SlotGoes(r, IF SameConfig(r) THEN "open" ELSE "idle")
  /\ SlotOnly

(* As if the early check were enough.                                      *)
OpenableChecked(r) == provider.until <= now

(* As if a failure extended the circuit that is open.                      *)
OpenableAgain(r) == SameConfig(r)

Openable(r) == provider.until <= now /\ SameConfig(r)
OpenCircuit(r) ==
  /\ slot[r].pc = "open"
  /\ provider' = IF Openable(r) THEN [provider EXCEPT !.until = now + Window] ELSE provider
  /\ SlotGoes(r, "idle")
  /\ UNCHANGED <<now, task, runs, overlapTold, circuitTold, card, tick, probe, wakes, mode, faults>>

ProviderOnly == UNCHANGED <<now, task, runs, overlapTold, circuitTold, card, tick, slot, wakes, mode, faults>>

UpdateCreds ==
  /\ mode = "up" /\ provider.version < MaxVersions
  /\ provider' = [creds |-> provider.version + 1, version |-> provider.version + 1, until |-> NoTime]
  /\ UNCHANGED probe /\ ProviderOnly

SendProbe ==
  /\ mode = "up" /\ probe.pc = "idle" /\ provider.version < MaxVersions
  /\ probe' = [pc |-> "sent", version |-> provider.version, creds |-> provider.creds]
  /\ UNCHANGED provider /\ ProviderOnly

Verified == provider.version = probe.version

EndProbe ==
  /\ mode = "up" /\ probe.pc = "sent"
  /\ \/ UNCHANGED provider
     \/ /\ Verified /\ provider.version < MaxVersions
        /\ provider' = [provider EXCEPT !.version = @ + 1, !.until = NoTime]
  /\ probe' = NoProbe
  /\ ProviderOnly
-----------------------------------------------------------------------------
(* The operations on the task.                                             *)

TaskOnly == UNCHANGED <<now, runs, provider, overlapTold, circuitTold,
                        tick, probe, slot, wakes, mode, faults>>

(* As if a task that is disabled got a plan too.                           *)
ReplannedAny == now + 1

(* A new expression or time zone plans a task anew, if it is enabled.      *)
Replanned == IF task.enabled THEN now + 1 ELSE NoTime

(* name, cron or time zone, by the bot without a card.                     *)
EditTask ==
  /\ mode = "up" /\ task.exists /\ task.rev < MaxEdits
  /\ \E cron \in BOOLEAN :
       task' = [task EXCEPT !.rev = @ + 1,
                 !.next = IF cron THEN Replanned ELSE @]
  /\ UNCHANGED card /\ TaskOnly

Disable ==
  /\ mode = "up" /\ task.exists /\ task.rev < MaxEdits
  /\ task' = [task EXCEPT !.rev = @ + 1, !.enabled = FALSE, !.next = NoTime]
  /\ UNCHANGED card /\ TaskOnly

(* Only a task without a plan gets a new one: enabling a task again does   *)
(* not swallow the plan that is due.                                       *)
Enabled(next) == IF ~task.enabled \/ next = NoTime THEN now + 1 ELSE next

(* By the user, without a card: only a task some card confirmed.           *)
Enable ==
  /\ mode = "up" /\ task.exists /\ task.confirmed /\ task.rev < MaxEdits
  /\ task' = [task EXCEPT !.rev = @ + 1, !.enabled = TRUE, !.next = Enabled(@)]
  /\ UNCHANGED card /\ TaskOnly

(* The bot asks for an operation that needs a card, which shows the         *)
(* configuration that would hold.                                          *)
ShowCard(c) ==
  /\ mode = "up" /\ card[c].pc = "none" /\ task.exists
  /\ \A d \in Cards : d < c => card[d].pc # "none"
  /\ \E kind \in Kinds, cfg \in Configs :
       /\ kind = "update" \/ cfg = task.cfg
       /\ card' = [card EXCEPT ![c] = [pc |-> "shown", kind |-> kind, rev |-> task.rev,
                                       cfg |-> cfg, since |-> 0]]
  /\ UNCHANGED <<now, dbVars, tick, probe, slot, wakes, mode, faults>>

CardDone(c) == card' = [card EXCEPT ![c] = Done]

(* As if a card were good for any revision.                                *)
ApprovedAny(c) == task.exists

(* The revision on the card is still the one in the table.                 *)
Approved(c) == task.exists /\ task.rev = card[c].rev

(* The task has changed, or another run is in the way.  Any other card     *)
(* that fails or is rejected does nothing, like one that waits for ever.   *)
CardRefused(c) ==
  /\ mode = "up" /\ card[c].pc = "started" /\ (~Approved(c) \/ Blocking # {})
  /\ CardDone(c)
  /\ UNCHANGED <<now, dbVars, tick, probe, slot, wakes, mode, faults>>

Executes(c, kind) == mode = "up" /\ card[c].pc = "shown" /\ card[c].kind = kind

CardUpdate(c) ==
  /\ Executes(c, "update") /\ Approved(c) /\ task.rev < MaxEdits
  /\ \E cron \in BOOLEAN :
       task' = [task EXCEPT !.rev = @ + 1, !.cfg = card[c].cfg, !.confirmed = TRUE,
                 !.next = IF cron THEN Replanned ELSE @]
  /\ CardDone(c) /\ TaskOnly

CardEnable(c) ==
  /\ Executes(c, "enable") /\ Approved(c) /\ task.rev < MaxEdits
  /\ task' = [task EXCEPT !.rev = @ + 1, !.enabled = TRUE, !.confirmed = TRUE,
                          !.next = Enabled(@)]
  /\ CardDone(c) /\ TaskOnly

(* The runs of the task are asked to stop in the same transaction: nobody  *)
(* could find them afterwards.                                             *)
CardDelete(c) ==
  /\ Executes(c, "delete") /\ Approved(c)
  /\ task' = [task EXCEPT !.exists = FALSE, !.enabled = FALSE, !.next = NoTime]
  /\ runs' = [r \in RunId |-> IF r \in Unfinished THEN [runs[r] EXCEPT !.stop = TRUE] ELSE runs[r]]
  /\ wakes' = wakes \cup Unfinished
  /\ CardDone(c)
  /\ UNCHANGED <<now, provider, overlapTold, circuitTold, tick, probe, slot, mode, faults>>

(* A run by hand: the start is read before the transaction.                *)
CardStart(c) ==
  /\ Executes(c, "run")
  /\ card' = [card EXCEPT ![c].pc = "started", ![c].since = provider.version]
  /\ UNCHANGED <<now, dbVars, tick, probe, slot, wakes, mode, faults>>

CardRun(c) ==
  /\ mode = "up" /\ card[c].pc = "started" /\ Approved(c) /\ Blocking = {}
  /\ runs' = [runs EXCEPT ![NewId] =
       [NoRow EXCEPT !.status = "running", !.manual = TRUE,
                     !.cfg = task.cfg, !.shown = card[c].cfg,
                     !.creds = provider.creds, !.since = card[c].since]]
  /\ wakes' = wakes \cup {NewId}
  /\ CardDone(c)
  /\ UNCHANGED <<now, task, provider, overlapTold, circuitTold, tick, probe, slot, mode, faults>>

(* By the user, or by the model with fs_stop.                              *)
StopRun(r) ==
  /\ mode = "up" /\ task.exists /\ r \in Unfinished /\ ~runs[r].stop
  /\ runs' = [runs EXCEPT ![r].stop = TRUE]
  /\ wakes' = wakes \cup {r}
  /\ UNCHANGED <<now, task, provider, overlapTold, circuitTold, card, tick, probe, slot, mode, faults>>

-----------------------------------------------------------------------------
(* The process dies and starts again: every unfinished run fails, and the  *)
(* main line is told in the same transaction.  A card that waits for the   *)
(* user survives.                                                          *)

Crash ==
  /\ Fault("crash")
  /\ mode' = "recovery"
  /\ slot' = [r \in RunId |-> NoSlot] /\ wakes' = {}
  /\ tick' = NoTick /\ probe' = NoProbe
  /\ card' = [c \in Cards |-> IF card[c].pc = "started" THEN Done ELSE card[c]]
  /\ UNCHANGED <<now, dbVars>>

RecoveredRow(r) == [runs[r] EXCEPT !.status = "failed", !.told = @ + 1]

RecoverRun(r) ==
  /\ mode = "recovery" /\ r \in Unfinished
  /\ runs' = [runs EXCEPT ![r] = RecoveredRow(r)]
  /\ UNCHANGED <<now, task, provider, overlapTold, circuitTold, card, tick, probe, slot, wakes, mode, faults>>

Recovered ==
  /\ mode = "recovery" /\ Unfinished = {}
  /\ mode' = "up"
  /\ UNCHANGED <<now, dbVars, card, tick, probe, slot, wakes, faults>>

-----------------------------------------------------------------------------
Loop(r) ==
  \/ Load(r) \/ Session(r) \/ TopStop(r) \/ Top(r) \/ TopTimeout(r)
  \/ StreamCalls(r) \/ StreamAnswer(r) \/ StreamFails(r)
  \/ Finish(r) \/ Fail(r) \/ Stopping(r)
  \/ CheckCircuit(r) \/ OpenCircuit(r)

Tick == TickList \/ DispatchStale \/ DispatchRun \/ DispatchSkip
Operate ==
  \/ EditTask \/ Disable \/ Enable
  \/ \E c \in Cards : \/ ShowCard(c) \/ CardRefused(c) \/ CardUpdate(c) \/ CardEnable(c)
                      \/ CardDelete(c) \/ CardStart(c) \/ CardRun(c)
Recover == Recovered \/ \E r \in RunId : RecoverRun(r)

Next ==
  \/ Tock \/ Tick \/ Operate \/ Recover \/ Crash
  \/ UpdateCreds \/ SendProbe \/ EndProbe
  \/ \E r \in RunId : \/ Loop(r) \/ Scan(r) \/ Wake(r) \/ CallSettles(r)
                      \/ WriteFails(r) \/ Panic(r) \/ StopRun(r)

Spec == Init /\ [][Next]_vars

(* The goroutines run, the ticker and the scan come round, a call that was *)
(* accepted settles, a stream answers or fails.  Time, users and faults    *)
(* promise nothing.                                                        *)
Fairness ==
  /\ WF_vars(Tick) /\ WF_vars(Recover)
  /\ \A r \in RunId : WF_vars(Loop(r)) /\ WF_vars(Scan(r)) /\ WF_vars(Wake(r))
                      /\ WF_vars(CallSettles(r))

FairSpec == Spec /\ Fairness

-----------------------------------------------------------------------------
(* Two runs of the task never execute at the same time, started by cron or *)
(* by hand, before and after a restart (INT-148): they act on the same     *)
(* state of the task.                                                      *)
NoOverlap ==
  \A p, q \in RunId : slot[p].pc \in Executing /\ slot[q].pc \in Executing => p = q

(* The main line hears of a failed run exactly once, of any other at most  *)
(* once, and never of a run that was stopped, whoever ends it: the slot,   *)
(* a second execution after a write that failed, or the recovery.          *)
FailureTold ==
  \A r \in RunId :
    /\ runs[r].status = "failed" => runs[r].told = 1
    /\ runs[r].status \in {"none", "running", "stopped"} => runs[r].told = 0
    /\ runs[r].told <= 1

(* A run by hand executes the configuration its card showed, although the  *)
(* task may change between the card and the run and between the run and    *)
(* its session.                                                            *)
ApprovedConfig ==
  \A r \in RunId :
    runs[r].manual /\ slot[r].pc \in {"top", "stream", "finish"} => slot[r].cfg = runs[r].shown

(* A run that completed has seen the end of every call it started.         *)
CompletedSettled ==
  \A r \in RunId : runs[r].status = "completed" => ~runs[r].open /\ ~runs[r].fresh

(* A failure opens the circuit only against the credentials it failed      *)
(* with, and a probe closes it only for the configuration it has probed.   *)
CircuitCurrent ==
  [][provider'.until # provider.until /\ provider'.creds = provider.creds =>
       \/ \E r \in RunId : slot[r].pc = "open" /\ runs[r].creds = provider.creds
       \/ probe.pc = "sent" /\ probe.creds = provider.creds]_vars

(* A circuit that is open keeps its end, which is the key of its one       *)
(* event, until somebody closes it.                                        *)
CircuitKept ==
  [][provider.until > now /\ provider'.until # provider.until =>
       provider'.until = NoTime]_vars

Contract == INSTANCE TaskContract WITH
  Runs <- RunId, Plans <- Time, NoPlan <- NoTime,
  phase <- [r \in RunId |-> runs[r].status], plan <- [r \in RunId |-> runs[r].planned],
  stop <- [r \in RunId |-> runs[r].stop], told <- [r \in RunId |-> runs[r].told],
  up <- (mode = "up")

(* The ticker, the cards, the slots, the stops and the recovery implement  *)
(* the contract of a task: plans, runs one at a time, ends and events      *)
(* agree, whoever ends a run and wherever the process dies.                *)
KeepsContract == Contract!Spec

(* A run of the task ends, although wake-ups get lost, the write of its    *)
(* end fails or the process dies.                                          *)
RunEnds == Unfinished # {} ~> Unfinished = {}

(* A plan that is due is dealt with: run, skipped or moved.                *)
PlanDue == task.next # NoTime /\ task.next <= now
DueServed == PlanDue ~> ~PlanDue
=============================================================================
