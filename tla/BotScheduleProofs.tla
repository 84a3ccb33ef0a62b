-------------------------- MODULE BotScheduleProofs --------------------------
(***************************************************************************)
(* Theorems about a schedule task, for every number of plans, cards,       *)
(* edits, versions of the provider and turns, every grace and window, and  *)
(* every kind of fault.                                                    *)
(***************************************************************************)
EXTENDS BotSchedule, FiniteSetTheorems, TLAPS

(* One run of the task at most has not ended.                              *)
OneUnfinished == \A p, q \in Unfinished : p = q

(* A slot that executes does so for a run that has not ended.              *)
SlotRuns == \A r \in RunId : slot[r].pc \in Executing => runs[r].status = "running"

(* A slot that ends its run as stopped does so for a run that was asked to *)
(* stop.                                                                   *)
StopSeen == \A r \in RunId : slot[r].pc = "stopping" => runs[r].stop

(* Nothing runs while the process recovers, and a wake-up is for a run that *)
(* was created.                                                            *)
Recovering ==
  mode = "recovery" => wakes = {} /\ tick = NoTick /\ \A r \in RunId : slot[r] = NoSlot
WakesExist == \A r \in wakes : runs[r].status # "none"

(* A plan has one run at most, and a card that started one is done: there  *)
(* are never more rows than plans and cards.                               *)
ManualRuns == {r \in RunId : runs[r].manual}
DoneCards == {c \in Cards : card[c].pc = "done"}
Plans ==
  /\ tick.pc = "due" => tick.planned \in Time
  /\ \A r \in RunId :
       /\ runs[r].status # "none" => runs[r].manual \/ runs[r].planned # NoTime
       /\ runs[r].manual => runs[r].planned = NoTime
  /\ \A p, q \in RunId : runs[p].planned = runs[q].planned /\ runs[p].planned # NoTime => p = q
  /\ Cardinality(ManualRuns) <= Cardinality(DoneCards)

(* A card that starts a run shows the configuration of its revision, and   *)
(* its run has got that one.                                               *)
CardsTrue ==
  /\ \A c \in Cards : card[c].pc \in {"shown", "started"} =>
       /\ card[c].rev <= task.rev
       /\ card[c].kind # "update" /\ card[c].rev = task.rev => card[c].cfg = task.cfg
       /\ card[c].pc = "started" => card[c].kind = "run"
  /\ \A r \in RunId : runs[r].manual => runs[r].cfg = runs[r].shown

(* A version of the provider that was read is not newer than the current   *)
(* one, and the credentials that were read with it are still the same while *)
(* it is.                                                                  *)
VersionsRead ==
  /\ provider.creds <= provider.version
  /\ tick.since <= provider.version
  /\ \A c \in Cards : card[c].since <= provider.version
  /\ probe.version <= provider.version
  /\ probe.pc = "sent" /\ probe.version = provider.version => probe.creds = provider.creds
  /\ \A r \in RunId :
       /\ runs[r].since <= provider.version
       /\ runs[r].since = provider.version => runs[r].creds = provider.creds

RInv == OneUnfinished /\ SlotRuns /\ Recovering /\ WakesExist

(* The inductive invariant.                                                *)
Invariant == TypeOK /\ RInv /\ Plans /\ FailureTold /\ CompletedSettled
             /\ CardsTrue /\ ApprovedConfig /\ VersionsRead /\ StopSeen

-----------------------------------------------------------------------------
(* Who writes what                                                         *)

LEMMA NowWritten == [Next]_vars => UNCHANGED now \/ Tock
  BY ZenonT(60) DEF Next, vars, dbVars, Tick, TickList, DispatchStale, DispatchRun, DispatchSkip, Operate, TaskOnly,
     EditTask, Disable, Enable, ShowCard, CardRefused, CardUpdate, CardEnable, CardDelete,
     CardStart, CardRun, Recover, Recovered, RecoverRun, Crash, ProviderOnly, UpdateCreds,
     SendProbe, EndProbe, Loop, SlotOnly, RunAndSlot, Load, Session, TopStop, Top, TopTimeout,
     StreamCalls, StreamAnswer, StreamFails, Finish, Fail, Stopping, CheckCircuit, OpenCircuit,
     Scan, Wake, CallSettles, WriteFails, Panic, StopRun

LEMMA TaskWritten ==
  [Next]_vars =>
    \/ UNCHANGED task
    \/ DispatchRun \/ DispatchSkip \/ EditTask \/ Disable \/ Enable
    \/ \E c \in Cards : CardUpdate(c) \/ CardEnable(c) \/ CardDelete(c)
  BY ZenonT(60) DEF Next, vars, dbVars, Tock, Tick, TickList, DispatchStale, Operate, TaskOnly, ShowCard,
     CardRefused, CardStart, CardRun, Recover, Recovered, RecoverRun, Crash, ProviderOnly,
     UpdateCreds, SendProbe, EndProbe, Loop, SlotOnly, RunAndSlot, Load, Session, TopStop, Top,
     TopTimeout, StreamCalls, StreamAnswer, StreamFails, Finish, Fail, Stopping, CheckCircuit,
     OpenCircuit, Scan, Wake, CallSettles, WriteFails, Panic, StopRun

LEMMA RunsWritten ==
  [Next]_vars =>
    \/ UNCHANGED runs
    \/ DispatchRun \/ DispatchSkip
    \/ \E c \in Cards : CardDelete(c) \/ CardRun(c)
    \/ \E r \in RunId : \/ Top(r) \/ StreamCalls(r) \/ CallSettles(r) \/ Finish(r) \/ Fail(r)
                        \/ Stopping(r) \/ StopRun(r) \/ RecoverRun(r)
  BY ZenonT(60) DEF Next, vars, dbVars, Tock, Tick, TickList, DispatchStale, Operate, TaskOnly, EditTask, Disable,
     Enable, ShowCard, CardRefused, CardUpdate, CardEnable, CardStart, Recover, Recovered,
     Crash, ProviderOnly, UpdateCreds, SendProbe, EndProbe, Loop, SlotOnly, RunAndSlot, Load,
     Session, TopStop, TopTimeout, StreamAnswer, StreamFails, CheckCircuit, OpenCircuit, Scan,
     Wake, WriteFails, Panic

LEMMA ProviderWritten ==
  [Next]_vars =>
    UNCHANGED provider \/ UpdateCreds \/ EndProbe \/ \E r \in RunId : OpenCircuit(r)
  BY ZenonT(60) DEF Next, vars, dbVars, Tock, Tick, TickList, DispatchStale, DispatchRun, DispatchSkip, Operate,
     TaskOnly, EditTask, Disable, Enable, ShowCard, CardRefused, CardUpdate, CardEnable,
     CardDelete, CardStart, CardRun, Recover, Recovered, RecoverRun, Crash, ProviderOnly,
     SendProbe, Loop, SlotOnly, RunAndSlot, Load, Session, TopStop, Top, TopTimeout,
     StreamCalls, StreamAnswer, StreamFails, Finish, Fail, Stopping, CheckCircuit, Scan, Wake,
     CallSettles, WriteFails, Panic, StopRun

LEMMA ToldWritten == [Next]_vars => UNCHANGED <<overlapTold, circuitTold>> \/ DispatchSkip
  BY ZenonT(60) DEF Next, vars, dbVars, Tock, Tick, TickList, DispatchStale, DispatchRun, Operate, TaskOnly,
     EditTask, Disable, Enable, ShowCard, CardRefused, CardUpdate, CardEnable, CardDelete,
     CardStart, CardRun, Recover, Recovered, RecoverRun, Crash, ProviderOnly, UpdateCreds,
     SendProbe, EndProbe, Loop, SlotOnly, RunAndSlot, Load, Session, TopStop, Top, TopTimeout,
     StreamCalls, StreamAnswer, StreamFails, Finish, Fail, Stopping, CheckCircuit, OpenCircuit,
     Scan, Wake, CallSettles, WriteFails, Panic, StopRun

LEMMA CardWritten ==
  [Next]_vars =>
    \/ UNCHANGED card
    \/ Crash
    \/ \E c \in Cards : \/ ShowCard(c) \/ CardRefused(c) \/ CardUpdate(c) \/ CardEnable(c)
                        \/ CardDelete(c) \/ CardStart(c) \/ CardRun(c)
  BY ZenonT(60) DEF Next, vars, dbVars, Tock, Tick, TickList, DispatchStale, DispatchRun, DispatchSkip, Operate,
     TaskOnly, EditTask, Disable, Enable, Recover, Recovered, RecoverRun, ProviderOnly,
     UpdateCreds, SendProbe, EndProbe, Loop, SlotOnly, RunAndSlot, Load, Session, TopStop, Top,
     TopTimeout, StreamCalls, StreamAnswer, StreamFails, Finish, Fail, Stopping, CheckCircuit,
     OpenCircuit, Scan, Wake, CallSettles, WriteFails, Panic, StopRun

LEMMA TickWritten == [Next]_vars => UNCHANGED tick \/ TickList \/ tick' = NoTick
  BY ZenonT(60) DEF Next, vars, dbVars, Tock, Tick, DispatchStale, DispatchRun, DispatchSkip, Operate, TaskOnly,
     EditTask, Disable, Enable, ShowCard, CardRefused, CardUpdate, CardEnable, CardDelete,
     CardStart, CardRun, Recover, Recovered, RecoverRun, Crash, ProviderOnly, UpdateCreds,
     SendProbe, EndProbe, Loop, SlotOnly, RunAndSlot, Load, Session, TopStop, Top, TopTimeout,
     StreamCalls, StreamAnswer, StreamFails, Finish, Fail, Stopping, CheckCircuit, OpenCircuit,
     Scan, Wake, CallSettles, WriteFails, Panic, StopRun

LEMMA ProbeWritten == [Next]_vars => UNCHANGED probe \/ SendProbe \/ probe' = NoProbe
  BY ZenonT(60) DEF Next, vars, dbVars, Tock, Tick, TickList, DispatchStale, DispatchRun, DispatchSkip, Operate,
     TaskOnly, EditTask, Disable, Enable, ShowCard, CardRefused, CardUpdate, CardEnable,
     CardDelete, CardStart, CardRun, Recover, Recovered, RecoverRun, Crash, ProviderOnly,
     UpdateCreds, EndProbe, Loop, SlotOnly, RunAndSlot, Load, Session, TopStop, Top,
     TopTimeout, StreamCalls, StreamAnswer, StreamFails, Finish, Fail, Stopping, CheckCircuit,
     OpenCircuit, Scan, Wake, CallSettles, WriteFails, Panic, StopRun

LEMMA SlotWritten ==
  [Next]_vars =>
    \/ UNCHANGED slot
    \/ Crash
    \/ \E r \in RunId : Loop(r) \/ Scan(r) \/ Wake(r) \/ WriteFails(r) \/ Panic(r)
  BY ZenonT(60) DEF Next, vars, dbVars, Tock, Tick, TickList, DispatchStale, DispatchRun, DispatchSkip, Operate,
     TaskOnly, EditTask, Disable, Enable, ShowCard, CardRefused, CardUpdate, CardEnable,
     CardDelete, CardStart, CardRun, Recover, Recovered, RecoverRun, ProviderOnly, UpdateCreds,
     SendProbe, EndProbe, SlotOnly, RunAndSlot, Load, Session, TopStop, Top, TopTimeout,
     StreamCalls, StreamAnswer, StreamFails, Finish, Fail, Stopping, CheckCircuit, OpenCircuit,
     CallSettles, StopRun

LEMMA WakesWritten ==
  [Next]_vars =>
    \/ UNCHANGED wakes
    \/ Crash
    \/ DispatchRun
    \/ \E c \in Cards : CardDelete(c) \/ CardRun(c)
    \/ \E r \in RunId : Wake(r) \/ StopRun(r)
  BY ZenonT(60) DEF Next, vars, dbVars, Tock, Tick, TickList, DispatchStale, DispatchSkip, Operate, TaskOnly,
     EditTask, Disable, Enable, ShowCard, CardRefused, CardUpdate, CardEnable, CardStart,
     Recover, Recovered, RecoverRun, ProviderOnly, UpdateCreds, SendProbe, EndProbe, Loop,
     SlotOnly, RunAndSlot, Load, Session, TopStop, Top, TopTimeout, StreamCalls, StreamAnswer,
     StreamFails, Finish, Fail, Stopping, CheckCircuit, OpenCircuit, Scan, CallSettles,
     WriteFails, Panic

LEMMA ModeWritten == [Next]_vars => UNCHANGED mode \/ Crash \/ Recovered
  BY ZenonT(60) DEF Next, vars, dbVars, Tock, Tick, TickList, DispatchStale, DispatchRun, DispatchSkip, Operate,
     TaskOnly, EditTask, Disable, Enable, ShowCard, CardRefused, CardUpdate, CardEnable,
     CardDelete, CardStart, CardRun, Recover, RecoverRun, ProviderOnly, UpdateCreds, SendProbe,
     EndProbe, Loop, SlotOnly, RunAndSlot, Load, Session, TopStop, Top, TopTimeout,
     StreamCalls, StreamAnswer, StreamFails, Finish, Fail, Stopping, CheckCircuit, OpenCircuit,
     Scan, Wake, CallSettles, WriteFails, Panic, StopRun


-----------------------------------------------------------------------------
(* Room for one more row                                                   *)

LEMMA Least ==
  ASSUME NEW T \in SUBSET Nat, T # {}
  PROVE  \E x \in T : \A y \in T : x <= y
<1>1. PICK x \in T : \A y \in T : ~(<<y, x>> \in OpToRel(<, Nat))
  <2>1. IsWellFoundedOn(OpToRel(<, Nat), Nat)
    BY NatLessThanWellFounded
  <2>. DEFINE R == OpToRel(<, Nat)
  <2>. HIDE DEF R
  <2>. QED
    BY <2>1, WFMin DEF R
<1>2. \A y \in T : ~(y < x)
  BY <1>1 DEF OpToRel
<1>. QED
  BY <1>2

LEMMA Bounds ==
  /\ MaxTime \in Nat /\ MaxCards \in Nat /\ MaxEdits \in Nat /\ MaxVersions \in Nat
  /\ MaxTurns \in Nat /\ MaxFaults \in Nat /\ Window \in Nat /\ Grace \in Nat
  BY ScheduleAssumption

LEMMA Interval ==
  ASSUME NEW n \in Nat
  PROVE  IsFiniteSet(1 .. n) /\ Cardinality(1 .. n) = n
<1>1. IsFiniteSet(1 .. n) /\ Cardinality(1 .. n) = IF 1 > n THEN 0 ELSE n - 1 + 1
  <2>1. 1 \in Int /\ n \in Int
    OBVIOUS
  <2>. QED
    BY <2>1, FS_Interval
<1>. QED
  BY <1>1

LEMMA RunIds == RunId \subseteq Nat /\ IsFiniteSet(RunId) /\ Cardinality(RunId) = MaxTime + MaxCards
<1>1. MaxTime + MaxCards \in Nat
  BY Bounds
<1>. QED
  BY <1>1, Interval DEF RunId

LEMMA FreeRow ==
  ASSUME TypeOK, \E r \in RunId : runs[r].status = "none"
  PROVE  /\ NewId \in RunId /\ runs[NewId].status = "none"
         /\ \A q \in RunId : q < NewId => runs[q].status # "none"
<1>. DEFINE T == {r \in RunId : runs[r].status = "none"}
<1>1. PICK x \in T : \A y \in T : x <= y
  BY RunIds, Least
<1>2. \A q \in RunId : q < x => runs[q].status # "none"
  BY <1>1, RunIds
<1>. QED
  BY <1>1, <1>2 DEF NewId

(* Every row is a run by hand, whose card is done, or has a plan of its own. *)
LEMMA RoomFor ==
  ASSUME TypeOK, Plans,
         NEW P \in SUBSET Time, \A r \in RunId : runs[r].planned # NoTime => runs[r].planned \in P,
         NEW Q \in SUBSET Cards, DoneCards \subseteq Q,
         P # Time \/ Q # Cards
  PROVE  \E r \in RunId : runs[r].status = "none"
<1>. SUFFICES ASSUME \A r \in RunId : runs[r].status # "none" PROVE FALSE
  OBVIOUS
<1>. DEFINE Cron == RunId \ ManualRuns
<1>1. IsFiniteSet(P) /\ IsFiniteSet(Q) /\ Cardinality(P) <= MaxTime /\ Cardinality(Q) <= MaxCards
      /\ (Cardinality(P) < MaxTime \/ Cardinality(Q) < MaxCards)
      /\ Cardinality(P) \in Nat /\ Cardinality(Q) \in Nat
  <2>1. IsFiniteSet(Time) /\ Cardinality(Time) = MaxTime /\ IsFiniteSet(Cards) /\ Cardinality(Cards) = MaxCards
    BY Bounds, Interval DEF Time, Cards
  <2>2. /\ IsFiniteSet(P) /\ Cardinality(P) <= MaxTime /\ (Cardinality(P) = MaxTime => P = Time)
        /\ IsFiniteSet(Q) /\ Cardinality(Q) <= MaxCards /\ (Cardinality(Q) = MaxCards => Q = Cards)
    BY <2>1, FS_Subset
  <2>. QED
    BY <2>2, Bounds, FS_CardinalityType
<1>2. IsFiniteSet(Cron) /\ Cardinality(Cron) <= Cardinality(P)
  <2>. DEFINE f == [r \in Cron |-> runs[r].planned]
  <2>1. \A r \in Cron : f[r] # NoTime
    BY DEF Plans, ManualRuns
  <2>2. f \in [Cron -> P]
    BY <2>1
  <2>3. \A p, q \in Cron : f[p] = f[q] => p = q
    BY <2>1 DEF Plans
  <2>4. f \in Injection(Cron, P)
    BY <2>2, <2>3 DEF Injection, IsInjective
  <2>. QED
    BY <2>4, <1>1, FS_Injection
<1>3. IsFiniteSet(ManualRuns) /\ Cardinality(ManualRuns) <= Cardinality(Q)
  <2>1. IsFiniteSet(DoneCards) /\ Cardinality(DoneCards) <= Cardinality(Q)
    BY <1>1, FS_Subset
  <2>2. IsFiniteSet(ManualRuns)
    BY RunIds, FS_Subset DEF ManualRuns
  <2>. QED
    BY <1>1, <2>1, <2>2, FS_CardinalityType DEF Plans
<1>4. Cardinality(RunId) <= Cardinality(Cron) + Cardinality(ManualRuns)
  <2>1. RunId = Cron \cup ManualRuns /\ Cron \cap ManualRuns = {}
    BY DEF ManualRuns
  <2>2. Cardinality(RunId) = Cardinality(Cron) + Cardinality(ManualRuns) - Cardinality({})
    BY <1>2, <1>3, <2>1, FS_Union
  <2>. QED
    BY <1>2, <1>3, <2>2, FS_EmptySet, FS_CardinalityType
<1>. QED
  BY <1>1, <1>2, <1>3, <1>4, RunIds, Bounds, FS_CardinalityType

LEMMA RoomForPlan ==
  ASSUME TypeOK, Plans, tick.pc = "due", ~KeyTaken
  PROVE  /\ NewId \in RunId /\ runs[NewId].status = "none" /\ tick.planned \in Time
         /\ \A q \in RunId : q < NewId => runs[q].status # "none"
<1>. DEFINE P == Time \ {tick.planned}
<1>1. tick.planned \in Time
  BY DEF Plans
<1>2. \A r \in RunId : runs[r].planned # NoTime => runs[r].planned \in P
  BY <1>1 DEF TypeOK, KeyTaken, Run
<1>3. DoneCards \subseteq Cards
  BY DEF DoneCards
<1>4. P \in SUBSET Time /\ P # Time /\ Cards \in SUBSET Cards
  BY <1>1
<1>5. \E r \in RunId : runs[r].status = "none"
  <2>. HIDE DEF P
  <2>. QED
    BY <1>2, <1>3, <1>4, RoomFor
<1>. QED
  BY <1>1, <1>5, FreeRow

LEMMA RoomForCard ==
  ASSUME TypeOK, Plans, NEW c \in Cards, card[c].pc = "started"
  PROVE  /\ NewId \in RunId /\ runs[NewId].status = "none"
         /\ \A q \in RunId : q < NewId => runs[q].status # "none"
<1>. DEFINE Q == Cards \ {c}
<1>1. \A r \in RunId : runs[r].planned # NoTime => runs[r].planned \in Time
  BY DEF TypeOK, Run
<1>2. DoneCards \subseteq Q
  BY DEF DoneCards
<1>3. \E r \in RunId : runs[r].status = "none"
  BY <1>1, <1>2, RoomFor
<1>. QED
  BY <1>3, FreeRow

-----------------------------------------------------------------------------
(* What a step does to the row and the slot of one run                     *)

CronRow == [NoRow EXCEPT !.status = "running", !.planned = tick.planned,
                         !.cfg = task.cfg, !.shown = task.cfg,
                         !.creds = provider.creds, !.since = tick.since]
SkipRow(n) == [NoRow EXCEPT !.status = "skipped", !.planned = tick.planned,
                            !.cfg = task.cfg, !.shown = task.cfg, !.told = n]
ManualRow(c) == [NoRow EXCEPT !.status = "running", !.manual = TRUE,
                              !.cfg = task.cfg, !.shown = card[c].cfg,
                              !.creds = provider.creds, !.since = card[c].since]

(* The row is created: by a plan that has none yet, or by a card.          *)
Created(r) ==
  /\ r = NewId /\ runs[r].status = "none"
  /\ \/ DispatchRun /\ ~KeyTaken /\ runs'[r] = CronRow
     \/ DispatchSkip /\ ~KeyTaken /\ \E n \in {0, 1} : runs'[r] = SkipRow(n)
     \/ \E c \in Cards : CardRun(c) /\ runs'[r] = ManualRow(c)

(* The row changes beside its slot.                                        *)
Touched(r) ==
  \/ r \in Unfinished /\ runs'[r] = [runs[r] EXCEPT !.stop = TRUE]
  \/ r \in Unfinished /\ mode = "recovery" /\ runs'[r] = RecoveredRow(r)
  \/ runs[r].open /\ runs'[r] = [runs[r] EXCEPT !.open = FALSE, !.fresh = TRUE]

(* The slot moves without the row.                                         *)
Moved(r) ==
  \/ slot[r].pc = "idle" /\ runs[r].status # "none" /\ slot'[r] = [slot[r] EXCEPT !.pc = "load"]
  \/ slot[r].pc = "load" /\ r \in Unfinished /\ slot'[r] = [slot[r] EXCEPT !.pc = "session"]
  \/ /\ slot[r].pc = "session" /\ SessionAllowed(r)
     /\ slot'[r] = [pc |-> "top", cfg |-> task.cfg, auth |-> FALSE]
  \/ /\ slot[r].pc \in {"top", "stream", "fail"} /\ (runs[r].stop \/ r \notin Unfinished)
     /\ slot'[r] = [slot[r] EXCEPT !.pc = "stopping"]
  \/ slot[r].pc = "stream" /\ slot'[r] = [slot[r] EXCEPT !.pc = "finish"]
  \/ slot[r].pc = "finish" /\ slot'[r] = [slot[r] EXCEPT !.pc = "top"]
  \/ slot[r].pc = "check" /\ slot'[r] = [slot[r] EXCEPT !.pc = "open"]
  \/ /\ slot[r].pc \in Executing
     /\ \E auth \in BOOLEAN : slot'[r] = [slot[r] EXCEPT !.pc = "fail", !.auth = auth]
  \/ slot'[r] = NoSlot

(* The goroutine writes the row.                                           *)
Written(r) ==
  \/ /\ slot[r].pc = "top" /\ ~runs[r].stop
     /\ runs'[r] = [runs[r] EXCEPT !.fresh = FALSE]
     /\ slot'[r] = [slot[r] EXCEPT !.pc = "stream"]
  \/ /\ slot[r].pc = "stream" /\ runs[r].turns < MaxTurns
     /\ runs'[r] = [runs[r] EXCEPT !.turns = @ + 1, !.open = TRUE]
     /\ slot'[r] = [slot[r] EXCEPT !.pc = "top"]
  \/ /\ slot[r].pc = "finish" /\ Completable(r)
     /\ \E n \in {0, 1} : runs'[r] = [runs[r] EXCEPT !.status = "completed", !.told = @ + n]
     /\ slot'[r] = NoSlot
  \/ /\ slot[r].pc = "fail" /\ Failable(r) /\ runs'[r] = FailedRow(r)
     /\ slot'[r] \in {NoSlot, [slot[r] EXCEPT !.pc = "check"]}
  \/ /\ slot[r].pc = "stopping" /\ r \in Unfinished
     /\ runs'[r] = [runs[r] EXCEPT !.status = "stopped"]
     /\ slot'[r] = NoSlot

RunStep(r) ==
  \/ runs'[r] = runs[r] /\ slot'[r] = slot[r]
  \/ Created(r) /\ slot'[r] = slot[r]
  \/ Touched(r) /\ slot'[r] = slot[r]
  \/ Moved(r) /\ runs'[r] = runs[r]
  \/ Written(r)

LEMMA RunOrSlotWritten ==
  [Next]_vars =>
    \/ UNCHANGED <<runs, slot>>
    \/ DispatchRun \/ DispatchSkip \/ Crash
    \/ \E c \in Cards : CardDelete(c) \/ CardRun(c)
    \/ \E r \in RunId : \/ Loop(r) \/ Scan(r) \/ Wake(r) \/ CallSettles(r)
                        \/ WriteFails(r) \/ Panic(r) \/ StopRun(r) \/ RecoverRun(r)
  BY ZenonT(60) DEF Next, vars, dbVars, Tock, Tick, TickList, DispatchStale, Operate, TaskOnly,
     EditTask, Disable, Enable, ShowCard, CardRefused, CardUpdate, CardEnable, CardStart,
     Recover, Recovered, ProviderOnly, UpdateCreds, SendProbe, EndProbe

LEMMA RunSteps ==
  ASSUME TypeOK, RInv, Plans, [Next]_vars, NEW r \in RunId
  PROVE  RunStep(r)
<1>. runs \in [RunId -> Run] /\ slot \in [RunId -> [pc : SlotPc, cfg : Configs, auth : BOOLEAN]]
  BY DEF TypeOK
<1>1. CASE UNCHANGED <<runs, slot>>
  BY <1>1 DEF RunStep
<1>2. CASE DispatchRun
  <2>1. CASE KeyTaken
    BY <1>2, <2>1 DEF DispatchRun, RunStep
  <2>2. CASE ~KeyTaken
    <3>1. NewId \in RunId /\ runs[NewId].status = "none"
      BY <1>2, <2>2, RoomForPlan DEF DispatchRun
    <3>2. UNCHANGED slot /\ runs' = [runs EXCEPT ![NewId] = CronRow]
      BY <1>2, <2>2 DEF DispatchRun, CronRow
    <3>3. CASE r = NewId
      BY <1>2, <2>2, <3>1, <3>2, <3>3 DEF RunStep, Created
    <3>4. CASE r # NewId
      BY <3>1, <3>2, <3>4 DEF RunStep
    <3>. QED
      BY <3>3, <3>4
  <2>. QED
    BY <2>1, <2>2
<1>3. CASE DispatchSkip
  <2>1. CASE KeyTaken
    BY <1>3, <2>1 DEF DispatchSkip, RunStep
  <2>2. CASE ~KeyTaken
    <3>1. NewId \in RunId /\ runs[NewId].status = "none"
      BY <1>3, <2>2, RoomForPlan DEF DispatchSkip
    <3>2. PICK n \in {0, 1} : UNCHANGED slot /\ runs' = [runs EXCEPT ![NewId] = SkipRow(n)]
      <4>. DEFINE n == IF SkipTold(Outcome) THEN 1 ELSE 0
      <4>1. UNCHANGED slot /\ runs' = [runs EXCEPT ![NewId] = SkipRow(n)]
        BY <1>3, <2>2, Zenon DEF DispatchSkip, SkipRow
      <4>. QED
        BY <4>1
    <3>3. CASE r = NewId
      BY <1>3, <2>2, <3>1, <3>2, <3>3 DEF RunStep, Created
    <3>4. CASE r # NewId
      BY <3>1, <3>2, <3>4 DEF RunStep
    <3>. QED
      BY <3>3, <3>4
  <2>. QED
    BY <2>1, <2>2
<1>4. CASE Crash
  BY <1>4 DEF Crash, dbVars, RunStep, Moved
<1>5. ASSUME NEW c \in Cards, CardDelete(c) PROVE RunStep(r)
  BY <1>5 DEF CardDelete, RunStep, Touched, Unfinished
<1>6. ASSUME NEW c \in Cards, CardRun(c) PROVE RunStep(r)
  <2>1. NewId \in RunId /\ runs[NewId].status = "none"
    BY <1>6, RoomForCard DEF CardRun
  <2>2. UNCHANGED slot /\ runs' = [runs EXCEPT ![NewId] = ManualRow(c)]
    BY <1>6 DEF CardRun, ManualRow
  <2>3. CASE r = NewId
    BY <1>6, <2>1, <2>2, <2>3 DEF RunStep, Created
  <2>4. CASE r # NewId
    BY <2>1, <2>2, <2>4 DEF RunStep
  <2>. QED
    BY <2>3, <2>4
<1>7. ASSUME NEW q \in RunId, Loop(q) PROVE RunStep(r)
  <2>1. CASE Load(q)
    BY <2>1 DEF Load, Loaded, SlotGoes, SlotOnly, dbVars, RunStep, Moved
  <2>2. CASE Session(q)
    BY <2>2 DEF Session, SlotGoes, SlotOnly, dbVars, RunStep, Moved, Executing
  <2>3. CASE TopStop(q)
    BY <2>3 DEF TopStop, SlotGoes, SlotOnly, dbVars, RunStep, Moved
  <2>4. CASE Top(q)
    BY <2>4 DEF Top, SlotGoes, RunAndSlot, RunStep, Written
  <2>5. CASE TopTimeout(q)
    BY <2>5 DEF TopTimeout, SlotOnly, dbVars, RunStep, Moved, Executing
  <2>6. CASE StreamCalls(q)
    BY <2>6 DEF StreamCalls, SlotGoes, RunAndSlot, RunStep, Written
  <2>7. CASE StreamAnswer(q)
    BY <2>7 DEF StreamAnswer, SlotGoes, SlotOnly, dbVars, RunStep, Moved
  <2>8. CASE StreamFails(q)
    BY <2>8 DEF StreamFails, SlotGoes, SlotOnly, dbVars, RunStep, Moved, Executing
  <2>9. CASE Finish(q)
    <3>1. CASE q # r
      <4>1. runs'[r] = runs[r] /\ slot'[r] = slot[r]
        BY <2>9, <3>1 DEF Finish, SlotGoes
      <4>. QED
        BY <4>1 DEF RunStep
    <3>2. CASE q = r /\ Completable(r)
      <4>1. PICK report \in {0, 1} :
              runs' = [runs EXCEPT ![r].status = "completed", ![r].told = @ + report]
        BY <2>9, <3>2 DEF Finish
      <4>2. runs'[r] = [runs[r] EXCEPT !.status = "completed", !.told = @ + report]
        BY <4>1
      <4>3. slot[r].pc = "finish" /\ slot'[r] = NoSlot
        BY <2>9, <3>2 DEF Finish, SlotGoes
      <4>. QED
        BY <3>2, <4>2, <4>3 DEF RunStep, Written
    <3>3. CASE q = r /\ ~Completable(r)
      <4>1. /\ slot[r].pc = "finish" /\ runs' = runs
            /\ slot'[r] = [slot[r] EXCEPT !.pc = "top"]
        BY <2>9, <3>3 DEF Finish, SlotGoes
      <4>. QED
        BY <4>1 DEF RunStep, Moved
    <3>. QED
      BY <3>1, <3>2, <3>3
  <2>10. CASE Fail(q)
    <3>1. CASE q # r
      <4>1. runs'[r] = runs[r] /\ slot'[r] = slot[r]
        BY <2>10, <3>1 DEF Fail, SlotGoes
      <4>. QED
        BY <4>1 DEF RunStep
    <3>2. CASE q = r /\ Failable(r)
      <4>1. slot[r].pc = "fail" /\ runs'[r] = FailedRow(r)
        BY <2>10, <3>2 DEF Fail
      <4>2. slot'[r] \in {NoSlot, [slot[r] EXCEPT !.pc = "check"]}
        BY <2>10, <3>2 DEF Fail, SlotGoes
      <4>. QED
        BY <3>2, <4>1, <4>2 DEF RunStep, Written
    <3>3. CASE q = r /\ ~Failable(r)
      <4>1. /\ slot[r].pc = "fail" /\ runs' = runs
            /\ slot'[r] = [slot[r] EXCEPT !.pc = "stopping"]
        BY <2>10, <3>3 DEF Fail, SlotGoes
      <4>2. runs[r].stop \/ r \notin Unfinished
        BY <3>3 DEF Failable
      <4>. QED
        BY <4>1, <4>2 DEF RunStep, Moved
    <3>. QED
      BY <3>1, <3>2, <3>3
  <2>11. CASE Stopping(q)
    BY <2>11 DEF Stopping, SlotGoes, RunAndSlot, RunStep, Moved, Written
  <2>12. CASE CheckCircuit(q)
    BY <2>12 DEF CheckCircuit, SlotGoes, SlotOnly, dbVars, RunStep, Moved
  <2>13. CASE OpenCircuit(q)
    BY <2>13 DEF OpenCircuit, SlotGoes, RunStep, Moved
  <2>. QED
    BY <1>7, <2>1, <2>2, <2>3, <2>4, <2>5, <2>6, <2>7, <2>8, <2>9, <2>10, <2>11, <2>12, <2>13
       DEF Loop
<1>8. ASSUME NEW q \in RunId, Scan(q) PROVE RunStep(r)
  BY <1>8 DEF Scan, SlotGoes, SlotOnly, dbVars, RunStep, Moved, Unfinished
<1>9. ASSUME NEW q \in RunId, Wake(q) PROVE RunStep(r)
  BY <1>9 DEF Wake, SlotGoes, dbVars, RunStep, Moved, RInv, WakesExist
<1>10. ASSUME NEW q \in RunId, CallSettles(q) PROVE RunStep(r)
  BY <1>10 DEF CallSettles, RunAndSlot, RunStep, Touched
<1>11. ASSUME NEW q \in RunId, WriteFails(q) PROVE RunStep(r)
  BY <1>11 DEF WriteFails, SlotGoes, RunAndSlot, RunStep, Moved
<1>12. ASSUME NEW q \in RunId, Panic(q) PROVE RunStep(r)
  BY <1>12 DEF Panic, RunAndSlot, RunStep, Moved, Executing
<1>13. ASSUME NEW q \in RunId, StopRun(q) PROVE RunStep(r)
  BY <1>13 DEF StopRun, RunStep, Touched
<1>14. ASSUME NEW q \in RunId, RecoverRun(q) PROVE RunStep(r)
  BY <1>14 DEF RecoverRun, RunStep, Touched, RecoveredRow
<1>. QED
  BY <1>1, <1>2, <1>3, <1>4, <1>5, <1>6, <1>7, <1>8, <1>9, <1>10, <1>11, <1>12, <1>13, <1>14,
     RunOrSlotWritten

(* The tables of rows and slots keep their shape.                          *)
LEMMA Tables ==
  ASSUME TypeOK, [Next]_vars
  PROVE  runs' = [r \in RunId |-> runs'[r]] /\ slot' = [r \in RunId |-> slot'[r]]
<1>. runs = [r \in RunId |-> runs[r]] /\ slot = [r \in RunId |-> slot[r]]
  BY DEF TypeOK
<1>1. runs' = [r \in RunId |-> runs'[r]]
  BY RunsWritten DEF DispatchRun, DispatchSkip, CardDelete, CardRun, Top, StreamCalls, CallSettles,
     Finish, Fail, Stopping, StopRun, RecoverRun
<1>2. slot' = [r \in RunId |-> slot'[r]]
  <2>1. CASE UNCHANGED slot \/ Crash
    BY <2>1 DEF Crash
  <2>2. ASSUME NEW q \in RunId, NEW v, slot' = [slot EXCEPT ![q] = v]
        PROVE  slot' = [r \in RunId |-> slot'[r]]
    BY <2>2
  <2>3. ASSUME NEW q \in RunId, NEW pc, SlotGoes(q, pc)
        PROVE  slot' = [r \in RunId |-> slot'[r]]
    BY <2>3 DEF SlotGoes
  <2>4. ASSUME NEW q \in RunId, Loop(q) PROVE slot' = [r \in RunId |-> slot'[r]]
    <3>1. CASE Load(q) \/ TopStop(q) \/ Top(q) \/ StreamCalls(q) \/ StreamAnswer(q)
               \/ Finish(q) \/ Fail(q) \/ Stopping(q) \/ CheckCircuit(q) \/ OpenCircuit(q)
      BY <2>3, <3>1, Zenon DEF Load, TopStop, Top, StreamCalls, StreamAnswer, Finish, Fail, Stopping,
           CheckCircuit, OpenCircuit
    <3>2. CASE Session(q) \/ TopTimeout(q) \/ StreamFails(q)
      BY <2>3, <3>2 DEF Session, TopTimeout, StreamFails
    <3>. QED
      BY <2>4, <3>1, <3>2 DEF Loop
  <2>5. ASSUME NEW q \in RunId, Scan(q) \/ Wake(q) \/ WriteFails(q) \/ Panic(q)
        PROVE  slot' = [r \in RunId |-> slot'[r]]
    BY <2>3, <2>5 DEF Scan, Wake, WriteFails, Panic
  <2>. QED
    BY <2>1, <2>4, <2>5, SlotWritten
<1>. QED
  BY <1>1, <1>2

-----------------------------------------------------------------------------
(* Types                                                                   *)

TaskOK == task \in [exists : BOOLEAN, enabled : BOOLEAN, confirmed : BOOLEAN,
                    next : 0 .. MaxTime + 1, rev : 0 .. MaxEdits, cfg : Configs]
          /\ (task.next # NoTime => task.exists /\ task.enabled)
RowsOK == \A r \in RunId : runs[r] \in Run
SlotsOK == \A r \in RunId : /\ slot[r] \in [pc : SlotPc, cfg : Configs, auth : BOOLEAN]
                            /\ slot[r].pc # "idle" => runs[r].status # "none"
ProviderOK == provider \in [creds : Version, version : Version, until : 0 .. MaxTime + Window]
ToldOK == overlapTold \subseteq RunId /\ circuitTold \subseteq 1 .. MaxTime + Window
CardOK == card \in [Cards -> [pc : {"none", "shown", "started", "done"}, kind : Kinds,
                              rev : 0 .. MaxEdits, cfg : Configs, since : Version]]
TickOK == tick \in [pc : {"idle", "due"}, planned : Time \cup {NoTime},
                    now : 0 .. MaxTime, since : Version]
ProbeOK == probe \in [pc : {"idle", "sent"}, version : Version, creds : Version]

LEMMA AnyConfigTyped == ASSUME TypeOK PROVE AnyConfig \in Configs
  BY DEF TypeOK, AnyConfig

LEMMA NowTyped == ASSUME TypeOK, [Next]_vars PROVE (now \in 0 .. MaxTime)'
  BY NowWritten, Bounds DEF TypeOK, Tock

LEMMA TaskFields ==
  ASSUME TaskOK
  PROVE  /\ task.exists \in BOOLEAN /\ task.enabled \in BOOLEAN /\ task.confirmed \in BOOLEAN
         /\ task.next \in 0 .. MaxTime + 1 /\ task.rev \in 0 .. MaxEdits /\ task.cfg \in Configs
  BY DEF TaskOK

LEMMA NewTask ==
  ASSUME NEW exists \in BOOLEAN, NEW enabled \in BOOLEAN, NEW confirmed \in BOOLEAN,
         NEW next \in 0 .. MaxTime + 1, NEW rev \in 0 .. MaxEdits, NEW cfg \in Configs,
         next # NoTime => exists /\ enabled,
         task' = [exists |-> exists, enabled |-> enabled, confirmed |-> confirmed,
                  next |-> next, rev |-> rev, cfg |-> cfg]
  PROVE  TaskOK'
<1>1. task' \in [exists : BOOLEAN, enabled : BOOLEAN, confirmed : BOOLEAN,
                 next : 0 .. MaxTime + 1, rev : 0 .. MaxEdits, cfg : Configs]
  OBVIOUS
<1>2. task'.next = next /\ task'.exists = exists /\ task'.enabled = enabled
  OBVIOUS
<1>. QED
  BY <1>1, <1>2 DEF TaskOK

LEMMA Planning ==
  ASSUME TypeOK
  PROVE  /\ Replanned \in 0 .. MaxTime + 1 /\ (Replanned # NoTime => task.enabled)
         /\ Enabled(task.next) \in 0 .. MaxTime + 1
         /\ task.rev < MaxEdits => task.rev + 1 \in 0 .. MaxEdits
         /\ tick.now + 1 \in 0 .. MaxTime + 1
         /\ NoTime \in 0 .. MaxTime + 1
  BY Bounds DEF TypeOK, Replanned, Enabled, NoTime

LEMMA TaskTyped ==
  ASSUME TypeOK, [Next]_vars
  PROVE  TaskOK'
<1>. TaskOK
  BY DEF TypeOK, TaskOK
<1>0. task.next # NoTime => task.exists /\ task.enabled
  BY DEF TaskOK
<1>1. CASE UNCHANGED task
  BY <1>1 DEF TaskOK
<1>2. CASE DispatchRun \/ DispatchSkip
  <2>1. task' = [exists |-> task.exists, enabled |-> task.enabled, confirmed |-> task.confirmed,
                 next |-> tick.now + 1, rev |-> task.rev, cfg |-> task.cfg]
    BY <1>2 DEF DispatchRun, DispatchSkip, Advance, TaskOK
  <2>2. task.exists /\ task.enabled
    BY <1>2 DEF DispatchRun, DispatchSkip, StillDue
  <2>. QED
    BY <2>1, <2>2, TaskFields, Planning, NewTask
<1>3. CASE EditTask
  <2>1. task.exists /\ task.rev < MaxEdits
    BY <1>3 DEF EditTask
  <2>2. PICK cron \in BOOLEAN :
          task' = [task EXCEPT !.rev = @ + 1, !.next = IF cron THEN Replanned ELSE @]
    BY <1>3 DEF EditTask
  <2>3. PICK next \in {Replanned, task.next} :
          task' = [exists |-> task.exists, enabled |-> task.enabled, confirmed |-> task.confirmed,
                   next |-> next, rev |-> task.rev + 1, cfg |-> task.cfg]
    BY <2>2 DEF TaskOK
  <2>4. /\ next \in 0 .. MaxTime + 1 /\ task.rev + 1 \in 0 .. MaxEdits
        /\ next # NoTime => task.exists /\ task.enabled
    BY <1>0, <2>1, TaskFields, Planning
  <2>. QED
    BY <2>3, <2>4, TaskFields, NewTask
<1>4. CASE Disable
  <2>1. task' = [exists |-> task.exists, enabled |-> FALSE, confirmed |-> task.confirmed,
                 next |-> NoTime, rev |-> task.rev + 1, cfg |-> task.cfg]
    BY <1>4 DEF Disable, TaskOK
  <2>. QED
    BY <1>4, <2>1, TaskFields, Planning, NewTask DEF Disable
<1>5. CASE Enable
  <2>1. task' = [exists |-> task.exists, enabled |-> TRUE, confirmed |-> task.confirmed,
                 next |-> Enabled(task.next), rev |-> task.rev + 1, cfg |-> task.cfg]
    BY <1>5 DEF Enable, TaskOK
  <2>2. /\ Enabled(task.next) \in 0 .. MaxTime + 1 /\ task.rev + 1 \in 0 .. MaxEdits
        /\ task.exists
    BY <1>5, Planning DEF Enable
  <2>. QED
    BY <2>1, <2>2, TaskFields, NewTask
<1>6. ASSUME NEW c \in Cards, CardUpdate(c) PROVE TaskOK'
  <2>1. card[c].cfg \in Configs
    BY DEF TypeOK
  <2>2. task.exists /\ task.rev < MaxEdits
    BY <1>6 DEF CardUpdate, Approved
  <2>3. PICK cron \in BOOLEAN :
          task' = [task EXCEPT !.rev = @ + 1, !.cfg = card[c].cfg, !.confirmed = TRUE,
                               !.next = IF cron THEN Replanned ELSE @]
    BY <1>6 DEF CardUpdate
  <2>4. PICK next \in {Replanned, task.next} :
          task' = [exists |-> task.exists, enabled |-> task.enabled, confirmed |-> TRUE,
                   next |-> next, rev |-> task.rev + 1, cfg |-> card[c].cfg]
    BY <2>3 DEF TaskOK
  <2>5. /\ next \in 0 .. MaxTime + 1 /\ task.rev + 1 \in 0 .. MaxEdits
        /\ next # NoTime => task.enabled
    BY <1>0, <2>2, <2>4, TaskFields, Planning
  <2>6. task.exists \in BOOLEAN /\ task.enabled \in BOOLEAN /\ TRUE \in BOOLEAN
    BY TaskFields
  <2>. QED
    BY <2>1, <2>2, <2>4, <2>5, <2>6, NewTask
<1>7. ASSUME NEW c \in Cards, CardEnable(c) PROVE TaskOK'
  <2>1. task' = [exists |-> task.exists, enabled |-> TRUE, confirmed |-> TRUE,
                 next |-> Enabled(task.next), rev |-> task.rev + 1, cfg |-> task.cfg]
    BY <1>7 DEF CardEnable, TaskOK
  <2>2. /\ Enabled(task.next) \in 0 .. MaxTime + 1 /\ task.rev + 1 \in 0 .. MaxEdits
        /\ task.exists
    BY <1>7, Planning DEF CardEnable, Approved
  <2>. QED
    BY <2>1, <2>2, TaskFields, NewTask
<1>8. ASSUME NEW c \in Cards, CardDelete(c) PROVE TaskOK'
  <2>1. task' = [exists |-> FALSE, enabled |-> FALSE, confirmed |-> task.confirmed,
                 next |-> NoTime, rev |-> task.rev, cfg |-> task.cfg]
    BY <1>8 DEF CardDelete, TaskOK
  <2>. QED
    BY <2>1, TaskFields, Planning, NewTask
<1>. QED
  BY <1>1, <1>2, <1>3, <1>4, <1>5, <1>6, <1>7, <1>8, TaskWritten

LEMMA ProviderTyped ==
  ASSUME TypeOK, [Next]_vars
  PROVE  ProviderOK'
<1>. ProviderOK /\ now \in 0 .. MaxTime
  BY DEF TypeOK, ProviderOK
<1>1. CASE UpdateCreds
  BY <1>1, Bounds DEF UpdateCreds, ProviderOK, Version, NoTime
<1>3. CASE EndProbe
  <2>1. CASE UNCHANGED provider
    BY <2>1 DEF ProviderOK
  <2>2. CASE provider.version < MaxVersions
             /\ provider' = [provider EXCEPT !.version = @ + 1, !.until = NoTime]
    <3>1. /\ provider.creds \in Version /\ provider.version + 1 \in Version
          /\ NoTime \in 0 .. MaxTime + Window
      BY <2>2, Bounds DEF ProviderOK, Version, NoTime
    <3>2. provider' = [creds |-> provider.creds, version |-> provider.version + 1, until |-> NoTime]
      BY <2>2 DEF ProviderOK
    <3>. QED
      BY <3>1, <3>2 DEF ProviderOK
  <2>. QED
    BY <1>3, <2>1, <2>2 DEF EndProbe
<1>2. ASSUME NEW r \in RunId, OpenCircuit(r) PROVE ProviderOK'
  BY <1>2, Bounds DEF OpenCircuit, ProviderOK, Version
<1>. QED
  BY <1>1, <1>2, <1>3, ProviderWritten DEF ProviderOK

LEMMA ToldTyped ==
  ASSUME TypeOK, [Next]_vars
  PROVE  ToldOK'
<1>. ToldOK /\ ProviderOK /\ TickOK
  BY DEF TypeOK, ToldOK, ProviderOK, TickOK
<1>1. CASE DispatchSkip
  <2>1. circuitTold' \subseteq circuitTold \cup {provider.until}
    BY <1>1, Zenon DEF DispatchSkip
  <2>2. circuitTold' = circuitTold \/ provider.until > tick.now
    BY <1>1 DEF DispatchSkip, Outcome
  <2>3. overlapTold' = overlapTold \/ (overlapTold' = overlapTold \cup {Earliest(Blocking)} /\ Blocking # {})
    BY <1>1 DEF DispatchSkip, Outcome
  <2>4. Blocking # {} => Earliest(Blocking) \in RunId
    <3>1. Blocking \in SUBSET RunId /\ Blocking \in SUBSET Nat
      BY RunIds DEF Blocking, Unfinished
    <3>. HIDE DEF Blocking
    <3>. QED
      BY <3>1, Least DEF Earliest
  <2>. QED
    BY <2>1, <2>2, <2>3, <2>4, Bounds DEF ToldOK, ProviderOK, TickOK
<1>. QED
  BY <1>1, ToldWritten DEF ToldOK

LEMMA CardTyped ==
  ASSUME TypeOK, [Next]_vars
  PROVE  CardOK'
<1>. CardOK /\ provider.version \in Version /\ task.rev \in 0 .. MaxEdits /\ task.cfg \in Configs
     /\ Done \in [pc : {"none", "shown", "started", "done"}, kind : Kinds,
                  rev : 0 .. MaxEdits, cfg : Configs, since : Version]
  BY AnyConfigTyped, Bounds DEF TypeOK, CardOK, Done, NoCard, Kinds, Version
<1>1. CASE Crash
  BY <1>1 DEF Crash, CardOK
<1>2. ASSUME NEW c \in Cards, ShowCard(c) PROVE CardOK'
  BY <1>2, Bounds DEF ShowCard, CardOK, Version
<1>3. ASSUME NEW c \in Cards, CardStart(c) PROVE CardOK'
  BY <1>3 DEF CardStart, CardOK
<1>4. ASSUME NEW c \in Cards, CardRefused(c) \/ CardUpdate(c) \/ CardEnable(c) \/ CardDelete(c)
                              \/ CardRun(c)
      PROVE  CardOK'
  <2>1. card' = [card EXCEPT ![c] = Done]
    BY <1>4 DEF CardRefused, CardUpdate, CardEnable, CardDelete, CardRun, CardDone
  <2>. QED
    BY <2>1 DEF CardOK
<1>. QED
  BY <1>1, <1>2, <1>3, <1>4, CardWritten DEF CardOK

LEMMA TickTyped ==
  ASSUME TypeOK, [Next]_vars
  PROVE  TickOK'
<1>1. CASE TickList
  BY <1>1, Bounds DEF TickList, TypeOK, TickOK, Time, NoTime
<1>2. CASE tick' = NoTick
  BY <1>2, Bounds DEF NoTick, TickOK, Version, NoTime
<1>. QED
  BY <1>1, <1>2, TickWritten DEF TypeOK, TickOK

LEMMA ProbeTyped ==
  ASSUME TypeOK, [Next]_vars
  PROVE  ProbeOK'
<1>1. CASE SendProbe
  BY <1>1 DEF SendProbe, TypeOK, ProbeOK
<1>2. CASE probe' = NoProbe
  BY <1>2, Bounds DEF NoProbe, ProbeOK, Version
<1>. QED
  BY <1>1, <1>2, ProbeWritten DEF TypeOK, ProbeOK

LEMMA FaultsTyped == ASSUME TypeOK, [Next]_vars PROVE (faults \in 0 .. MaxFaults)'
<1>1. UNCHANGED faults \/ (faults < MaxFaults /\ faults' = faults + 1)
  BY ZenonT(60) DEF Next, vars, dbVars, Fault, Tock, Tick, TickList, DispatchStale, DispatchRun,
     DispatchSkip, Operate, TaskOnly, EditTask, Disable, Enable, ShowCard, CardRefused, CardUpdate,
     CardEnable, CardDelete, CardStart, CardRun, Recover, Recovered, RecoverRun, Crash,
     ProviderOnly, UpdateCreds, SendProbe, EndProbe, Loop, SlotOnly, Load, Session, TopStop, Top,
     TopTimeout, StreamCalls, StreamAnswer, StreamFails, Finish, Fail, Stopping, CheckCircuit,
     OpenCircuit, Scan, Wake, CallSettles, WriteFails, Panic, StopRun
<1>. QED
  BY <1>1, Bounds DEF TypeOK

LEMMA RowFields ==
  ASSUME NEW row \in Run
  PROVE  /\ row.status \in Status /\ row.manual \in BOOLEAN /\ row.planned \in Time \cup {NoTime}
         /\ row.cfg \in Configs /\ row.shown \in Configs
         /\ row.creds \in Version /\ row.since \in Version
         /\ row.stop \in BOOLEAN /\ row.open \in BOOLEAN /\ row.fresh \in BOOLEAN
         /\ row.turns \in 0 .. MaxTurns /\ row.told \in 0 .. 2
  BY DEF Run

(* A row with one field or two written is a row.                           *)
LEMMA RowWritten ==
  ASSUME NEW row \in Run
  PROVE  /\ \A x \in Status : [row EXCEPT !.status = x] \in Run
         /\ \A x \in BOOLEAN : /\ [row EXCEPT !.stop = x] \in Run
                               /\ [row EXCEPT !.open = x] \in Run
                               /\ [row EXCEPT !.fresh = x] \in Run
         /\ \A x \in 0 .. MaxTurns : [row EXCEPT !.turns = x] \in Run
         /\ \A x \in 0 .. 2 : [row EXCEPT !.told = x] \in Run
<1>1. \A x \in Status : [row EXCEPT !.status = x] \in Run
  BY DEF Run
<1>2. \A x \in BOOLEAN : [row EXCEPT !.stop = x] \in Run
  BY DEF Run
<1>3. \A x \in BOOLEAN : [row EXCEPT !.open = x] \in Run
  BY DEF Run
<1>4. \A x \in BOOLEAN : [row EXCEPT !.fresh = x] \in Run
  BY DEF Run
<1>5. \A x \in 0 .. MaxTurns : [row EXCEPT !.turns = x] \in Run
  BY DEF Run
<1>6. \A x \in 0 .. 2 : [row EXCEPT !.told = x] \in Run
  BY DEF Run
<1>. QED
  BY <1>1, <1>2, <1>3, <1>4, <1>5, <1>6

LEMMA RowEnded ==
  ASSUME NEW row \in Run, NEW status \in Status, NEW told \in 0 .. 2
  PROVE  [row EXCEPT !.status = status, !.told = told] \in Run
<1>. DEFINE ended == [row EXCEPT !.status = status]
<1>1. ended \in Run
  BY RowWritten
<1>2. [row EXCEPT !.status = status, !.told = told] = [ended EXCEPT !.told = told]
  BY DEF Run
<1>. HIDE DEF ended
<1>. QED
  BY <1>1, <1>2, RowWritten

LEMMA RowSettled ==
  ASSUME NEW row \in Run
  PROVE  [row EXCEPT !.open = FALSE, !.fresh = TRUE] \in Run
<1>. DEFINE closed == [row EXCEPT !.open = FALSE]
<1>1. closed \in Run
  BY RowWritten
<1>2. [row EXCEPT !.open = FALSE, !.fresh = TRUE] = [closed EXCEPT !.fresh = TRUE]
  BY DEF Run
<1>. HIDE DEF closed
<1>. QED
  BY <1>1, <1>2, RowWritten

LEMMA RowCalls ==
  ASSUME NEW row \in Run, row.turns < MaxTurns
  PROVE  [row EXCEPT !.turns = @ + 1, !.open = TRUE] \in Run
<1>. DEFINE counted == [row EXCEPT !.turns = row.turns + 1]
<1>1. counted \in Run
  <2>1. row.turns + 1 \in 0 .. MaxTurns
    BY RowFields, Bounds
  <2>. QED
    BY <2>1, RowWritten
<1>2. [row EXCEPT !.turns = @ + 1, !.open = TRUE] = [counted EXCEPT !.open = TRUE]
  BY DEF Run
<1>. HIDE DEF counted
<1>. QED
  BY <1>1, <1>2, RowWritten

LEMMA CreatedTyped ==
  ASSUME TypeOK, NEW r \in RunId, Created(r)
  PROVE  runs'[r] \in Run /\ runs'[r].status \in {"running", "skipped"}
<1>. /\ AnyConfig \in Configs /\ task.cfg \in Configs
     /\ provider.creds \in Version /\ tick.since \in Version
     /\ tick.planned \in Time \cup {NoTime}
     /\ 0 \in Version /\ 0 \in 0 .. MaxTurns /\ 0 \in 0 .. 2 /\ 1 \in 0 .. 2
  BY AnyConfigTyped, Bounds DEF TypeOK, Version
<1>1. CASE runs'[r] = CronRow
  <2>1. runs'[r] = [status |-> "running", manual |-> FALSE, planned |-> tick.planned,
                    cfg |-> task.cfg, shown |-> task.cfg, creds |-> provider.creds,
                    since |-> tick.since, stop |-> FALSE, open |-> FALSE, fresh |-> FALSE,
                    turns |-> 0, told |-> 0]
    BY <1>1, ZenonT(200) DEF CronRow, NoRow
  <2>. QED
    BY <2>1 DEF Run, Status
<1>2. CASE \E n \in {0, 1} : runs'[r] = SkipRow(n)
  <2>1. PICK n \in {0, 1} :
          runs'[r] = [status |-> "skipped", manual |-> FALSE, planned |-> tick.planned,
                      cfg |-> task.cfg, shown |-> task.cfg, creds |-> 0,
                      since |-> 0, stop |-> FALSE, open |-> FALSE, fresh |-> FALSE,
                      turns |-> 0, told |-> n]
    BY <1>2, ZenonT(200) DEF SkipRow, NoRow
  <2>2. n \in 0 .. 2
    OBVIOUS
  <2>. QED
    BY <2>1, <2>2 DEF Run, Status
<1>3. ASSUME NEW c \in Cards, runs'[r] = ManualRow(c)
      PROVE  runs'[r] \in Run /\ runs'[r].status \in {"running", "skipped"}
  <2>1. card[c].cfg \in Configs /\ card[c].since \in Version
    BY DEF TypeOK
  <2>2. runs'[r] = [status |-> "running", manual |-> TRUE, planned |-> NoTime,
                    cfg |-> task.cfg, shown |-> card[c].cfg, creds |-> provider.creds,
                    since |-> card[c].since, stop |-> FALSE, open |-> FALSE, fresh |-> FALSE,
                    turns |-> 0, told |-> 0]
    BY <1>3, ZenonT(200) DEF ManualRow, NoRow
  <2>. QED
    BY <2>1, <2>2 DEF Run, Status
<1>. QED
  BY <1>1, <1>2, <1>3 DEF Created

Slot == [pc : SlotPc, cfg : Configs, auth : BOOLEAN]

LEMMA NewSlot ==
  ASSUME NEW pc \in SlotPc, NEW cfg \in Configs, NEW auth \in BOOLEAN
  PROVE  [pc |-> pc, cfg |-> cfg, auth |-> auth] \in Slot
  BY DEF Slot

LEMMA MovedTyped ==
  ASSUME TypeOK, NEW r \in RunId, slot[r] \in Slot, Moved(r)
  PROVE  slot'[r] \in Slot /\ (slot'[r].pc # "idle" => runs[r].status # "none")
<1>. task.cfg \in Configs /\ NoSlot \in Slot /\ NoSlot.pc = "idle"
     /\ (slot[r].pc # "idle" => runs[r].status # "none")
  BY AnyConfigTyped DEF TypeOK, NoSlot, Slot, SlotPc
<1>1. ASSUME NEW pc \in SlotPc, slot'[r] = [slot[r] EXCEPT !.pc = pc]
      PROVE  slot'[r] \in Slot
  BY <1>1 DEF Slot
<1>2. ASSUME NEW auth \in BOOLEAN, slot'[r] = [slot[r] EXCEPT !.pc = "fail", !.auth = auth]
      PROVE  slot'[r] \in Slot
  <2>1. slot'[r] = [pc |-> "fail", cfg |-> slot[r].cfg, auth |-> auth] /\ slot[r].cfg \in Configs
    BY <1>2 DEF Slot
  <2>. QED
    BY <2>1 DEF Slot, SlotPc, Executing
<1>3. ASSUME slot'[r] = [pc |-> "top", cfg |-> task.cfg, auth |-> FALSE]
      PROVE  slot'[r] \in Slot
  <2>1. "top" \in SlotPc
    BY DEF SlotPc, Executing
  <2>2. [pc |-> "top", cfg |-> task.cfg, auth |-> FALSE] \in Slot
    BY <2>1, NewSlot
  <2>. QED
    BY <1>3, <2>2, Zenon
<1>4. {"load", "session", "top", "stream", "finish", "stopping", "open"} \subseteq SlotPc
  BY DEF SlotPc, Executing
<1>5. slot'[r] \in Slot
  BY <1>1, <1>2, <1>3, <1>4 DEF Moved
<1>6. slot'[r].pc # "idle" => runs[r].status # "none"
  BY DEF Moved, Executing
<1>. QED
  BY <1>5, <1>6

LEMMA WrittenTyped ==
  ASSUME TypeOK, FailureTold, NEW r \in RunId, runs[r] \in Run, slot[r] \in Slot, Written(r)
  PROVE  runs'[r] \in Run /\ slot'[r] \in Slot /\ runs'[r].status # "none"
<1>. NoSlot \in Slot
  BY AnyConfigTyped DEF NoSlot, Slot, SlotPc
<1>0. runs[r].status # "none"
  BY DEF TypeOK, Written
<1>1. ASSUME NEW pc \in SlotPc, slot'[r] = [slot[r] EXCEPT !.pc = pc]
      PROVE  slot'[r] \in Slot
  BY <1>1 DEF Slot
<1>2. {"stream", "top", "check"} \subseteq SlotPc
  BY DEF SlotPc, Executing
<1>3. slot'[r] \in Slot
  BY <1>1, <1>2 DEF Written
<1>4. r \in Unfinished => runs[r].told = 0
  BY DEF Unfinished, FailureTold
<1>5. runs'[r] \in Run
  <2>1. ASSUME NEW status \in {"completed", "failed"}, NEW n \in {0, 1}, r \in Unfinished,
               runs'[r] = [runs[r] EXCEPT !.status = status, !.told = @ + n]
        PROVE  runs'[r] \in Run
    <3>1. runs[r].told + n = n /\ n \in 0 .. 2
      BY <1>4, <2>1
    <3>2. runs'[r] = [runs[r] EXCEPT !.status = status, !.told = n]
      BY <2>1, <3>1, Zenon
    <3>3. status \in Status
      BY DEF Status
    <3>4. [runs[r] EXCEPT !.status = status, !.told = n] \in Run
      BY <3>1, <3>3, RowEnded
    <3>. QED
      BY <3>2, <3>4, Zenon
  <2>2. CASE runs'[r] \in {[runs[r] EXCEPT !.fresh = FALSE], [runs[r] EXCEPT !.status = "stopped"]}
    BY <2>2, RowWritten DEF Status
  <2>3. CASE runs[r].turns < MaxTurns /\ runs'[r] = [runs[r] EXCEPT !.turns = @ + 1, !.open = TRUE]
    BY <2>3, RowCalls
  <2>. HIDE DEF Run
  <2>. QED
    BY <2>1, <2>2, <2>3 DEF Written, Completable, Failable, FailedRow
<1>6. runs'[r].status # "none"
  BY <1>0 DEF Written, FailedRow, Run
<1>. QED
  BY <1>3, <1>5, <1>6

LEMMA RowsTyped ==
  ASSUME TypeOK, RInv, Plans, FailureTold, [Next]_vars
  PROVE  RowsOK' /\ SlotsOK'
<1>. SUFFICES ASSUME NEW r \in RunId
              PROVE  /\ runs'[r] \in Run /\ slot'[r] \in Slot
                     /\ slot'[r].pc # "idle" => runs'[r].status # "none"
  BY DEF RowsOK, SlotsOK, Slot
<1>0. /\ runs[r] \in Run /\ slot[r] \in Slot
      /\ slot[r].pc # "idle" => runs[r].status # "none"
      /\ RunStep(r)
  BY RunSteps DEF TypeOK, Slot
<1>1. CASE runs'[r] = runs[r] /\ slot'[r] = slot[r]
  BY <1>0, <1>1
<1>2. CASE Created(r) /\ slot'[r] = slot[r]
  <2>1. runs[r].status = "none"
    BY <1>2 DEF Created
  <2>. QED
    BY <1>0, <1>2, <2>1, CreatedTyped
<1>3. CASE Touched(r) /\ slot'[r] = slot[r]
  <2>1. CASE r \in Unfinished /\ runs'[r] = [runs[r] EXCEPT !.stop = TRUE]
    <3>1. runs'[r] \in Run
      BY <1>0, <2>1, RowWritten
    <3>2. runs'[r].status = runs[r].status
      BY <1>0, <2>1 DEF Run
    <3>. QED
      BY <1>0, <1>3, <3>1, <3>2
  <2>2. CASE r \in Unfinished /\ runs'[r] = RecoveredRow(r)
    <3>1. runs[r].told + 1 = 1 /\ 1 \in 0 .. 2
      BY <2>2 DEF FailureTold, Unfinished
    <3>2. runs'[r] = [runs[r] EXCEPT !.status = "failed", !.told = 1]
      BY <2>2, <3>1, Zenon DEF RecoveredRow
    <3>3. runs'[r].status = "failed"
      BY <1>0, <3>2 DEF Run
    <3>4. "failed" \in Status
      BY DEF Status
    <3>5. [runs[r] EXCEPT !.status = "failed", !.told = 1] \in Run
      BY <1>0, <3>1, <3>4, RowEnded
    <3>6. runs'[r] \in Run
      BY <3>2, <3>5, Zenon
    <3>. QED
      BY <1>0, <1>3, <3>3, <3>6
  <2>3. CASE runs[r].open /\ runs'[r] = [runs[r] EXCEPT !.open = FALSE, !.fresh = TRUE]
    <3>1. runs'[r].status = runs[r].status
      BY <1>0, <2>3 DEF Run
    <3>. QED
      BY <1>0, <1>3, <2>3, <3>1, RowSettled
  <2>. QED
    BY <1>3, <2>1, <2>2, <2>3 DEF Touched
<1>4. CASE Moved(r) /\ runs'[r] = runs[r]
  BY <1>0, <1>4, MovedTyped
<1>5. CASE Written(r)
  BY <1>0, <1>5, WrittenTyped
<1>. QED
  BY <1>0, <1>1, <1>2, <1>3, <1>4, <1>5 DEF RunStep

LEMMA TypeStep ==
  ASSUME TypeOK, RInv, Plans, FailureTold, [Next]_vars
  PROVE  TypeOK'
<1>1. runs' \in [RunId -> Run] /\ slot' \in [RunId -> [pc : SlotPc, cfg : Configs, auth : BOOLEAN]]
  <2>1. runs' = [r \in RunId |-> runs'[r]] /\ slot' = [r \in RunId |-> slot'[r]]
    BY Tables
  <2>2. \A r \in RunId : runs'[r] \in Run
                         /\ slot'[r] \in [pc : SlotPc, cfg : Configs, auth : BOOLEAN]
    BY RowsTyped DEF RowsOK, SlotsOK
  <2>. HIDE DEF Run
  <2>. QED
    BY <2>1, <2>2
<1>2. wakes' \subseteq RunId
  <2>1. DispatchRun /\ ~KeyTaken => NewId \in RunId
    BY RoomForPlan DEF DispatchRun
  <2>2. \A c \in Cards : CardRun(c) => NewId \in RunId
    BY RoomForCard DEF CardRun
  <2>. QED
    <3>1. wakes \subseteq RunId
      BY DEF TypeOK
    <3>2. CASE UNCHANGED wakes \/ Crash
      BY <3>1, <3>2 DEF Crash
    <3>3. CASE DispatchRun
      BY <2>1, <3>1, <3>3 DEF DispatchRun
    <3>4. CASE \E c \in Cards : CardDelete(c) \/ CardRun(c)
      BY <2>2, <3>1, <3>4 DEF CardDelete, CardRun, Unfinished
    <3>5. CASE \E r \in RunId : Wake(r) \/ StopRun(r)
      BY <3>1, <3>5 DEF Wake, StopRun
    <3>. QED
      BY <3>2, <3>3, <3>4, <3>5, WakesWritten
<1>3. mode' \in {"up", "recovery"}
  BY ModeWritten DEF TypeOK, Crash, Recovered
<1>4. TaskOK' /\ ProviderOK' /\ ToldOK' /\ CardOK' /\ TickOK' /\ ProbeOK'
  BY TaskTyped, ProviderTyped, ToldTyped, CardTyped, TickTyped, ProbeTyped
<1>5. now' \in 0 .. MaxTime /\ faults' \in 0 .. MaxFaults
  BY NowTyped, FaultsTyped
<1>6. \A r \in RunId : slot'[r].pc # "idle" => runs'[r].status # "none"
  BY RowsTyped DEF SlotsOK
<1>. QED
  BY <1>1, <1>2, <1>3, <1>4, <1>5, <1>6
     DEF TypeOK, TaskOK, ProviderOK, ToldOK, CardOK, TickOK, ProbeOK

-----------------------------------------------------------------------------
(* One run at a time                                                       *)

(* A run that runs after a step did so before, or is created when no other *)
(* run is unfinished.                                                      *)
LEMMA StillRunning ==
  ASSUME TypeOK, RInv, Plans, [Next]_vars, NEW r \in RunId, runs'[r].status = "running"
  PROVE  runs[r].status = "running" \/ (r = NewId /\ Unfinished = {})
<1>0. runs[r] \in Run /\ slot[r] \in Slot /\ RunStep(r)
  BY RunSteps DEF TypeOK, Slot
<1>1. CASE Created(r)
  <2>1. CASE DispatchRun
    BY <1>1, <2>1 DEF Created, DispatchRun, Outcome, Blocking
  <2>2. CASE \E n \in {0, 1} : runs'[r] = SkipRow(n)
    BY <2>2 DEF SkipRow, NoRow
  <2>3. ASSUME NEW c \in Cards, CardRun(c) PROVE r = NewId /\ Unfinished = {}
    BY <1>1, <2>3 DEF Created, CardRun, Blocking
  <2>. QED
    BY <1>1, <2>1, <2>2, <2>3 DEF Created
<1>2. CASE Touched(r)
  BY <1>0, <1>2 DEF Touched, Unfinished, Run
<1>3. CASE Written(r)
  <2>1. slot[r].pc \in Executing
    BY <1>3 DEF Written, Executing
  <2>. QED
    BY <2>1 DEF RInv, SlotRuns
<1>. QED
  BY <1>0, <1>1, <1>2, <1>3 DEF RunStep

LEMMA OneStep ==
  ASSUME TypeOK, RInv, Plans, [Next]_vars
  PROVE  OneUnfinished'
<1>. SUFFICES ASSUME NEW p \in RunId, NEW q \in RunId,
                     runs'[p].status = "running", runs'[q].status = "running"
              PROVE  p = q
  BY DEF OneUnfinished, Unfinished
<1>. QED
  BY StillRunning DEF RInv, OneUnfinished, Unfinished

LEMMA SlotRunsStep ==
  ASSUME TypeOK, RInv, Plans, [Next]_vars
  PROVE  SlotRuns'
<1>. SUFFICES ASSUME NEW r \in RunId, slot'[r].pc \in Executing
              PROVE  runs'[r].status = "running"
  BY DEF SlotRuns
<1>0. /\ runs[r] \in Run /\ slot[r] \in Slot /\ RunStep(r)
      /\ slot[r].pc \in Executing => runs[r].status = "running"
      /\ slot[r].pc # "idle" => runs[r].status # "none"
      /\ mode = "recovery" => slot[r].pc = "idle"
  BY RunSteps DEF TypeOK, Slot, RInv, SlotRuns, Recovering, NoSlot
<1>1. CASE runs'[r] = runs[r] /\ slot'[r] = slot[r]
  BY <1>0, <1>1
<1>2. CASE Created(r) /\ slot'[r] = slot[r]
  BY <1>0, <1>2 DEF Created, Executing
<1>3. CASE Touched(r) /\ slot'[r] = slot[r]
  <2>1. runs[r].status = "running" /\ mode # "recovery"
    BY <1>0, <1>3 DEF Executing
  <2>. QED
    BY <1>0, <1>3, <2>1 DEF Touched, Run
<1>4. CASE Moved(r) /\ runs'[r] = runs[r]
  <2>0. slot'[r] # NoSlot /\ slot'[r].pc \notin {"load", "open"}
    BY DEF Executing, NoSlot
  <2>1. \A pc : [slot[r] EXCEPT !.pc = pc].pc = pc
    BY <1>0 DEF Slot
  <2>2. slot[r].pc \in Executing \/ (slot[r].pc = "load" /\ r \in Unfinished)
    <3>1. {"session", "top", "stream", "finish", "fail"} \subseteq Executing
      BY DEF Executing
    <3>. QED
      BY <1>4, <2>0, <2>1, <3>1 DEF Moved
  <2>. QED
    BY <1>0, <1>4, <2>2 DEF Unfinished
<1>5. CASE Written(r)
  <2>1. slot'[r] # NoSlot /\ slot'[r].pc # "check"
    BY DEF Executing, NoSlot
  <2>2. runs'[r].status = runs[r].status
    BY <1>0, <1>5, <2>1 DEF Written, Slot, Run
  <2>3. slot[r].pc \in Executing
    BY <1>5 DEF Written, Executing
  <2>. QED
    BY <1>0, <2>2, <2>3
<1>. QED
  BY <1>0, <1>1, <1>2, <1>3, <1>4, <1>5 DEF RunStep

LEMMA StopSeenStep ==
  ASSUME TypeOK, RInv, Plans, StopSeen, [Next]_vars
  PROVE  StopSeen'
<1>. SUFFICES ASSUME NEW r \in RunId, slot'[r].pc = "stopping"
              PROVE  runs'[r].stop
  BY DEF StopSeen
<1>0. /\ runs[r] \in Run /\ slot[r] \in Slot /\ RunStep(r)
      /\ slot[r].pc = "stopping" => runs[r].stop
      /\ slot[r].pc \in Executing => runs[r].status = "running"
      /\ slot[r].pc # "idle" => runs[r].status # "none"
  BY RunSteps DEF TypeOK, Slot, RInv, SlotRuns, StopSeen
<1>1. CASE runs'[r] = runs[r] /\ slot'[r] = slot[r]
  BY <1>0, <1>1
<1>2. CASE Created(r) /\ slot'[r] = slot[r]
  BY <1>0, <1>2 DEF Created
<1>3. CASE Touched(r) /\ slot'[r] = slot[r]
  <2>1. \/ runs'[r].stop
        \/ runs'[r].stop = runs[r].stop
    BY <1>0, <1>3 DEF Touched, RecoveredRow, Run
  <2>. QED
    BY <1>0, <1>3, <2>1
<1>4. CASE Moved(r) /\ runs'[r] = runs[r]
  <2>1. slot'[r] # NoSlot
    BY DEF NoSlot
  <2>2. slot[r].pc \in Executing /\ (runs[r].stop \/ r \notin Unfinished)
    <3>1. /\ \A pc : [slot[r] EXCEPT !.pc = pc].pc = pc
          /\ \A auth : [slot[r] EXCEPT !.pc = "fail", !.auth = auth].pc = "fail"
          /\ [pc |-> "top", cfg |-> task.cfg, auth |-> FALSE].pc = "top"
      BY <1>0 DEF Slot
    <3>2. /\ slot[r].pc \in {"top", "stream", "fail"}
          /\ runs[r].stop \/ r \notin Unfinished
      BY <1>4, <2>1, <3>1, ZenonT(60) DEF Moved
    <3>. QED
      BY <3>2 DEF Executing
  <2>. QED
    BY <1>0, <1>4, <2>2 DEF Unfinished
<1>5. CASE Written(r)
  <2>1. slot'[r] # NoSlot
    BY DEF NoSlot
  <2>. QED
    BY <1>0, <1>5, <2>1 DEF Written, Slot
<1>. QED
  BY <1>0, <1>1, <1>2, <1>3, <1>4, <1>5 DEF RunStep

LEMMA RecoveringStep ==
  ASSUME TypeOK, RInv, Plans, [Next]_vars
  PROVE  Recovering'
<1>. SUFFICES ASSUME mode' = "recovery", ~Crash
              PROVE  wakes' = {} /\ tick' = NoTick /\ \A r \in RunId : slot'[r] = NoSlot
  BY DEF Recovering, Crash
<1>1. mode = "recovery" /\ wakes = {} /\ tick = NoTick /\ \A r \in RunId : slot[r] = NoSlot
  BY ModeWritten DEF Recovered, RInv, Recovering
<1>2. \A r \in RunId : slot[r].pc = "idle"
  BY <1>1 DEF NoSlot
<1>3. tick.pc = "idle"
  BY <1>1 DEF NoTick
<1>4. wakes' = {}
  BY <1>1, <1>3, WakesWritten DEF DispatchRun, CardDelete, CardRun, Executes, Wake, StopRun
<1>5. tick' = NoTick
  BY <1>1, TickWritten DEF TickList
<1>6. \A r \in RunId : slot'[r] = NoSlot
  <2>1. \A r \in RunId : ~Loop(r)
    BY <1>2 DEF Loop, Load, Session, TopStop, Top, TopTimeout, StreamCalls, StreamAnswer,
       StreamFails, Finish, Fail, Stopping, CheckCircuit, OpenCircuit
  <2>2. \A r \in RunId : ~Scan(r) /\ ~Wake(r)
    BY <1>1 DEF Scan, Wake
  <2>3. \A r \in RunId : ~WriteFails(r) /\ ~Panic(r)
    BY <1>2 DEF WriteFails, Panic
  <2>. QED
    BY <1>1, <2>1, <2>2, <2>3, SlotWritten
<1>. QED
  BY <1>4, <1>5, <1>6

LEMMA RowsStay ==
  ASSUME TypeOK, RInv, Plans, [Next]_vars, NEW r \in RunId, runs[r].status # "none"
  PROVE  runs'[r].status # "none"
<1>0. runs[r] \in Run /\ RunStep(r)
  BY RunSteps DEF TypeOK
<1>1. ~Created(r)
  BY DEF Created
<1>2. CASE Touched(r)
  BY <1>0, <1>2 DEF Touched, RecoveredRow, Run
<1>3. CASE Written(r)
  BY <1>0, <1>3 DEF Written, FailedRow, Run
<1>. QED
  BY <1>0, <1>1, <1>2, <1>3 DEF RunStep

LEMMA WakesStep ==
  ASSUME TypeOK, RInv, Plans, [Next]_vars
  PROVE  WakesExist'
<1>. SUFFICES ASSUME NEW r \in wakes' PROVE runs'[r].status # "none"
  BY DEF WakesExist
<1>0. wakes \subseteq RunId
  BY DEF TypeOK
<1>1. CASE r \in wakes
  BY <1>0, <1>1, RowsStay DEF RInv, WakesExist
<1>2. CASE r \in RunId /\ runs[r].status = "running"
  BY <1>2, RowsStay
<1>3. CASE DispatchRun /\ ~KeyTaken /\ r = NewId
  <2>1. NewId \in RunId
    BY <1>3, RoomForPlan DEF DispatchRun
  <2>2. runs'[r] = CronRow
    BY <1>3, <2>1 DEF DispatchRun, CronRow, TypeOK
  <2>. QED
    BY <2>2 DEF CronRow, NoRow
<1>4. ASSUME NEW c \in Cards, CardRun(c), r = NewId PROVE runs'[r].status # "none"
  <2>1. NewId \in RunId
    BY <1>4, RoomForCard DEF CardRun
  <2>2. runs'[r] = ManualRow(c)
    BY <1>4, <2>1 DEF CardRun, ManualRow, TypeOK
  <2>. QED
    BY <2>2 DEF ManualRow, NoRow
<1>5. ~Crash
  BY DEF Crash
<1>6. CASE DispatchRun
  BY <1>1, <1>3, <1>6 DEF DispatchRun
<1>7. ASSUME NEW c \in Cards, CardDelete(c) \/ CardRun(c) PROVE runs'[r].status # "none"
  BY <1>1, <1>2, <1>4, <1>7 DEF CardDelete, CardRun, Unfinished
<1>8. ASSUME NEW q \in RunId, Wake(q) \/ StopRun(q) PROVE runs'[r].status # "none"
  BY <1>1, <1>2, <1>8 DEF Wake, StopRun, Unfinished
<1>. QED
  BY <1>1, <1>5, <1>6, <1>7, <1>8, WakesWritten

-----------------------------------------------------------------------------
(* What the main line hears, and what a completed run has seen             *)

LEMMA ToldStep ==
  ASSUME TypeOK, RInv, Plans, FailureTold, [Next]_vars
  PROVE  FailureTold'
<1>. SUFFICES ASSUME NEW r \in RunId
              PROVE  /\ runs'[r].status = "failed" => runs'[r].told = 1
                     /\ runs'[r].status \in {"none", "running", "stopped"} => runs'[r].told = 0
                     /\ runs'[r].told <= 1
  BY DEF FailureTold
<1>0. /\ runs[r] \in Run /\ RunStep(r)
      /\ runs[r].status = "failed" => runs[r].told = 1
      /\ runs[r].status \in {"none", "running", "stopped"} => runs[r].told = 0
      /\ runs[r].told <= 1
  BY RunSteps DEF TypeOK, FailureTold
<1>1. CASE runs'[r] = runs[r]
  BY <1>0, <1>1
<1>2. CASE Created(r)
  <2>1. CASE runs'[r] = CronRow
    BY <2>1 DEF CronRow, NoRow
  <2>2. CASE \E n \in {0, 1} : runs'[r] = SkipRow(n)
    BY <2>2 DEF SkipRow, NoRow
  <2>3. ASSUME NEW c \in Cards, runs'[r] = ManualRow(c)
        PROVE  runs'[r].status = "running" /\ runs'[r].told = 0
    BY <2>3 DEF ManualRow, NoRow
  <2>. QED
    BY <1>2, <2>1, <2>2, <2>3 DEF Created
<1>3. CASE Touched(r)
  <2>1. CASE r \in Unfinished /\ runs'[r] = [runs[r] EXCEPT !.stop = TRUE]
    BY <1>0, <2>1 DEF Run
  <2>2. CASE r \in Unfinished /\ runs'[r] = RecoveredRow(r)
    <3>1. runs'[r].status = "failed" /\ runs'[r].told = runs[r].told + 1
      BY <1>0, <2>2 DEF RecoveredRow, Run
    <3>. QED
      BY <1>0, <2>2, <3>1 DEF Unfinished
  <2>3. CASE runs'[r] = [runs[r] EXCEPT !.open = FALSE, !.fresh = TRUE]
    BY <1>0, <2>3 DEF Run
  <2>. QED
    BY <1>3, <2>1, <2>2, <2>3 DEF Touched
<1>4. CASE Written(r)
  <2>1. CASE /\ runs'[r].status = runs[r].status \/ (runs'[r].status = "stopped" /\ r \in Unfinished)
             /\ runs'[r].told = runs[r].told
    BY <1>0, <2>1 DEF Unfinished
  <2>2. CASE Completable(r) /\ \E n \in {0, 1} : runs'[r] = [runs[r] EXCEPT !.status = "completed", !.told = @ + n]
    <3>1. PICK n \in {0, 1} : runs'[r].status = "completed" /\ runs'[r].told = runs[r].told + n
      BY <1>0, <2>2 DEF Run
    <3>. QED
      BY <1>0, <2>2, <3>1 DEF Completable, Unfinished
  <2>3. CASE Failable(r) /\ runs'[r] = FailedRow(r)
    <3>1. runs'[r].status = "failed" /\ runs'[r].told = runs[r].told + 1
      BY <1>0, <2>3 DEF FailedRow, Run
    <3>. QED
      BY <1>0, <2>3, <3>1 DEF Failable, Unfinished
  <2>. QED
    BY <1>0, <1>4, <2>1, <2>2, <2>3 DEF Written, Run
<1>. QED
  BY <1>0, <1>1, <1>2, <1>3, <1>4 DEF RunStep

LEMMA SettledStep ==
  ASSUME TypeOK, RInv, Plans, CompletedSettled, [Next]_vars
  PROVE  CompletedSettled'
<1>. SUFFICES ASSUME NEW r \in RunId, runs'[r].status = "completed"
              PROVE  ~runs'[r].open /\ ~runs'[r].fresh
  BY DEF CompletedSettled
<1>0. /\ runs[r] \in Run /\ RunStep(r)
      /\ runs[r].status = "completed" => ~runs[r].open /\ ~runs[r].fresh
      /\ slot[r].pc \in Executing => runs[r].status = "running"
  BY RunSteps DEF TypeOK, CompletedSettled, RInv, SlotRuns
<1>1. ~Created(r)
  BY DEF Created, CronRow, SkipRow, ManualRow, NoRow
<1>2. CASE Touched(r)
  BY <1>0, <1>2 DEF Touched, RecoveredRow, Unfinished, Run
<1>3. CASE Written(r)
  <2>1. slot[r].pc \in Executing
    BY <1>3 DEF Written, Executing
  <2>2. Completable(r) /\ \E n \in {0, 1} : runs'[r] = [runs[r] EXCEPT !.status = "completed", !.told = @ + n]
    BY <1>0, <1>3, <2>1 DEF Written, FailedRow, Run
  <2>. QED
    BY <1>0, <2>2 DEF Completable, Run
<1>. QED
  BY <1>0, <1>1, <1>2, <1>3 DEF RunStep

-----------------------------------------------------------------------------
(* Plans and cards that a row stands for                                   *)

(* A row keeps who asked for it, and with what.                            *)
LEMMA Identity ==
  ASSUME TypeOK, RInv, Plans, [Next]_vars, NEW r \in RunId, ~Created(r)
  PROVE  /\ runs'[r].manual = runs[r].manual /\ runs'[r].planned = runs[r].planned
         /\ runs'[r].cfg = runs[r].cfg /\ runs'[r].shown = runs[r].shown
         /\ runs'[r].creds = runs[r].creds /\ runs'[r].since = runs[r].since
         /\ runs'[r].status # "none" <=> runs[r].status # "none"
<1>0. /\ runs[r] \in Run /\ RunStep(r)
      /\ slot[r].pc # "idle" => runs[r].status # "none"
  BY RunSteps DEF TypeOK
<1>1. CASE Touched(r)
  <2>1. CASE r \in Unfinished /\ runs'[r] = [runs[r] EXCEPT !.stop = TRUE]
    BY <1>0, <2>1 DEF Run
  <2>2. CASE r \in Unfinished /\ runs'[r] = RecoveredRow(r)
    BY <1>0, <2>2 DEF RecoveredRow, Unfinished, Run
  <2>3. CASE runs'[r] = [runs[r] EXCEPT !.open = FALSE, !.fresh = TRUE]
    BY <1>0, <2>3 DEF Run
  <2>. QED
    BY <1>1, <2>1, <2>2, <2>3 DEF Touched
<1>2. CASE Written(r)
  <2>0. runs[r].status # "none"
    BY <1>0, <1>2 DEF Written
  <2>1. CASE runs'[r] = [runs[r] EXCEPT !.fresh = FALSE]
    BY <1>0, <2>1 DEF Run
  <2>2. CASE runs'[r] = [runs[r] EXCEPT !.turns = @ + 1, !.open = TRUE]
    BY <1>0, <2>2 DEF Run
  <2>3. CASE \E status \in {"completed", "failed"}, n \in {0, 1} :
                runs'[r] = [runs[r] EXCEPT !.status = status, !.told = @ + n]
    BY <1>0, <2>0, <2>3 DEF Run
  <2>4. CASE runs'[r] = [runs[r] EXCEPT !.status = "stopped"]
    BY <1>0, <2>0, <2>4 DEF Run
  <2>. QED
    BY <1>2, <2>1, <2>2, <2>3, <2>4 DEF Written, FailedRow
<1>. QED
  BY <1>0, <1>1, <1>2 DEF RunStep

LEMMA CreatedPlan ==
  ASSUME TypeOK, Plans, NEW r \in RunId, Created(r)
  PROVE  /\ runs[r].status = "none" /\ runs'[r].status # "none"
         /\ \/ /\ tick.pc = "due" /\ ~KeyTaken /\ ~runs'[r].manual
               /\ runs'[r].planned = tick.planned /\ tick.planned \in Time
               /\ UNCHANGED card
            \/ /\ runs'[r].manual /\ runs'[r].planned = NoTime
               /\ \E c \in Cards : card[c].pc = "started" /\ card' = [card EXCEPT ![c] = Done]
<1>1. CASE DispatchRun /\ ~KeyTaken /\ runs'[r] = CronRow
  BY <1>1 DEF DispatchRun, CronRow, NoRow, Plans, Created
<1>2. CASE DispatchSkip /\ ~KeyTaken /\ \E n \in {0, 1} : runs'[r] = SkipRow(n)
  BY <1>2 DEF DispatchSkip, SkipRow, NoRow, Plans, Created
<1>3. ASSUME NEW c \in Cards, CardRun(c), runs'[r] = ManualRow(c)
      PROVE  /\ runs'[r].status # "none" /\ runs'[r].manual /\ runs'[r].planned = NoTime
             /\ card[c].pc = "started" /\ card' = [card EXCEPT ![c] = Done]
  <2>1. runs'[r].status = "running" /\ runs'[r].manual /\ runs'[r].planned = NoTime
    BY <1>3 DEF ManualRow, NoRow
  <2>2. card[c].pc = "started" /\ card' = [card EXCEPT ![c] = Done]
    BY <1>3 DEF CardRun, CardDone
  <2>. QED
    BY <2>1, <2>2
<1>. QED
  BY <1>1, <1>2, <1>3 DEF Created

LEMMA DoneStay ==
  ASSUME TypeOK, [Next]_vars
  PROVE  DoneCards \subseteq DoneCards'
<1>. card = [c \in Cards |-> card[c]]
  BY DEF TypeOK
<1>1. ASSUME NEW c \in Cards, card[c].pc = "done" PROVE card'[c].pc = "done"
  <2>1. CASE Crash
    BY <1>1, <2>1 DEF Crash
  <2>2. ASSUME NEW d \in Cards, ShowCard(d) \/ CardStart(d) PROVE card'[c] = card[c]
    BY <1>1, <2>2 DEF ShowCard, CardStart, Executes
  <2>3. ASSUME NEW d \in Cards,
               CardRefused(d) \/ CardUpdate(d) \/ CardEnable(d) \/ CardDelete(d) \/ CardRun(d)
        PROVE  card'[c].pc = "done"
    <3>1. card' = [card EXCEPT ![d] = Done]
      BY <2>3 DEF CardRefused, CardUpdate, CardEnable, CardDelete, CardRun, CardDone
    <3>2. Done.pc = "done"
      BY DEF Done, NoCard
    <3>. QED
      BY <1>1, <3>1, <3>2
  <2>. QED
    BY <1>1, <2>1, <2>2, <2>3, CardWritten
<1>. QED
  BY <1>1 DEF DoneCards

LEMMA PlansStep ==
  ASSUME TypeOK, RInv, Plans, [Next]_vars
  PROVE  Plans'
<1>1. tick'.pc = "due" => tick'.planned \in Time
  <2>1. CASE TickList
    BY <2>1, Bounds DEF TickList, TypeOK, Time, NoTime
  <2>2. NoTick.pc = "idle"
    BY DEF NoTick
  <2>. QED
    BY <2>1, <2>2, TickWritten DEF Plans
<1>2. ASSUME NEW r \in RunId
      PROVE  /\ runs'[r].status # "none" => runs'[r].manual \/ runs'[r].planned # NoTime
             /\ runs'[r].manual => runs'[r].planned = NoTime
  <2>1. CASE Created(r)
    BY <2>1, CreatedPlan DEF Time, NoTime
  <2>2. CASE ~Created(r)
    BY <2>2, Identity DEF Plans
  <2>. QED
    BY <2>1, <2>2
<1>3. ASSUME NEW p \in RunId, NEW q \in RunId, p # q, Created(p)
      PROVE  runs'[q].planned = runs'[p].planned => runs'[p].planned = NoTime
  <2>1. runs'[q].planned = runs[q].planned
    BY <1>3, Identity DEF Created
  <2>. QED
    BY <1>3, <2>1, CreatedPlan DEF KeyTaken
<1>4. \A p, q \in RunId : runs'[p].planned = runs'[q].planned /\ runs'[p].planned # NoTime => p = q
  <2>. SUFFICES ASSUME NEW p \in RunId, NEW q \in RunId,
                       runs'[p].planned = runs'[q].planned, runs'[p].planned # NoTime, p # q
                PROVE  FALSE
    OBVIOUS
  <2>1. ~Created(p) /\ ~Created(q)
    BY <1>3
  <2>. QED
    BY <2>1, Identity DEF Plans
<1>5. (Cardinality(ManualRuns) <= Cardinality(DoneCards))'
  <2>1. /\ IsFiniteSet(ManualRuns) /\ IsFiniteSet(ManualRuns') /\ IsFiniteSet(Cards)
        /\ IsFiniteSet(DoneCards) /\ IsFiniteSet(DoneCards')
    <3>1. IsFiniteSet(Cards)
      BY Bounds, Interval DEF Cards
    <3>2. ManualRuns \subseteq RunId /\ ManualRuns' \subseteq RunId
      BY DEF ManualRuns
    <3>3. DoneCards \subseteq Cards /\ DoneCards' \subseteq Cards
      BY DEF DoneCards
    <3>. QED
      BY <3>1, <3>2, <3>3, RunIds, FS_Subset
  <2>2. /\ Cardinality(ManualRuns) \in Nat /\ Cardinality(ManualRuns') \in Nat
        /\ Cardinality(DoneCards) \in Nat /\ Cardinality(DoneCards') \in Nat
    BY <2>1, FS_CardinalityType
  <2>3. Cardinality(DoneCards) <= Cardinality(DoneCards')
    BY <2>1, DoneStay, FS_Subset
  <2>4. CASE \A r \in RunId : runs'[r].manual => ~Created(r)
    <3>1. ManualRuns' \subseteq ManualRuns
      BY <2>4, Identity DEF ManualRuns
    <3>2. Cardinality(ManualRuns') <= Cardinality(ManualRuns)
      BY <2>1, <3>1, FS_Subset
    <3>. QED
      BY <2>2, <2>3, <3>2 DEF Plans
  <2>5. ASSUME NEW r \in RunId, runs'[r].manual, Created(r)
        PROVE  Cardinality(ManualRuns') <= Cardinality(DoneCards')
    <3>1. PICK c \in Cards : card[c].pc = "started" /\ card' = [card EXCEPT ![c] = Done]
      BY <2>5, CreatedPlan
    <3>2. \A q \in RunId : q # r => ~Created(q)
      BY <2>5 DEF Created
    <3>3. ManualRuns' \subseteq ManualRuns \cup {r}
      BY <3>2, Identity DEF ManualRuns
    <3>4. Cardinality(ManualRuns') <= Cardinality(ManualRuns) + 1
      <4>1. /\ IsFiniteSet(ManualRuns \cup {r})
            /\ Cardinality(ManualRuns \cup {r}) \in {Cardinality(ManualRuns), Cardinality(ManualRuns) + 1}
        BY <2>1, FS_AddElement
      <4>2. Cardinality(ManualRuns') <= Cardinality(ManualRuns \cup {r})
        BY <3>3, <4>1, FS_Subset
      <4>. QED
        BY <2>2, <4>1, <4>2
    <3>5. c \notin DoneCards /\ DoneCards \cup {c} \subseteq DoneCards'
      BY <3>1, DoneStay DEF DoneCards, TypeOK, Done, NoCard
    <3>6. Cardinality(DoneCards) + 1 <= Cardinality(DoneCards')
      <4>1. Cardinality(DoneCards \cup {c}) = Cardinality(DoneCards) + 1
        BY <2>1, <3>5, FS_AddElement
      <4>2. Cardinality(DoneCards \cup {c}) <= Cardinality(DoneCards')
        BY <2>1, <3>5, FS_Subset
      <4>. QED
        BY <4>1, <4>2
    <3>. QED
      BY <2>2, <3>4, <3>6 DEF Plans
  <2>. QED
    BY <2>4, <2>5
<1>. QED
  BY <1>1, <1>2, <1>4, <1>5 DEF Plans

-----------------------------------------------------------------------------
(* What a card showed                                                      *)

LEMMA Revisions ==
  ASSUME TypeOK, [Next]_vars
  PROVE  task'.rev >= task.rev /\ (task'.rev = task.rev => task'.cfg = task.cfg)
<1>. TaskOK /\ task.rev \in Nat
  BY DEF TypeOK, TaskOK
<1>1. CASE DispatchRun \/ DispatchSkip
  BY <1>1 DEF DispatchRun, DispatchSkip, Advance, TaskOK
<1>2. CASE EditTask \/ Disable \/ Enable
  <2>1. task'.rev = task.rev + 1
    BY <1>2 DEF EditTask, Disable, Enable, TaskOK
  <2>. QED
    BY <2>1
<1>3. ASSUME NEW c \in Cards, CardUpdate(c) \/ CardEnable(c) PROVE task'.rev = task.rev + 1
  BY <1>3 DEF CardUpdate, CardEnable, TaskOK
<1>4. ASSUME NEW c \in Cards, CardDelete(c) PROVE task'.rev = task.rev /\ task'.cfg = task.cfg
  BY <1>4 DEF CardDelete, TaskOK
<1>. QED
  BY <1>1, <1>2, <1>3, <1>4, TaskWritten

LEMMA CardSteps ==
  ASSUME TypeOK, [Next]_vars, NEW c \in Cards
  PROVE  \/ card'[c] = card[c]
         \/ card'[c].pc = "done" /\ card'[c].since = 0
         \/ /\ UNCHANGED task /\ card'[c].pc = "shown" /\ card'[c].rev = task.rev
            /\ card'[c].kind # "update" => card'[c].cfg = task.cfg
            /\ card'[c].since = 0
         \/ /\ UNCHANGED task /\ card[c].pc = "shown" /\ card[c].kind = "run"
            /\ card'[c] = [card[c] EXCEPT !.pc = "started", !.since = provider.version]
<1>. card = [d \in Cards |-> card[d]]
  BY DEF TypeOK
<1>. Done.pc = "done" /\ Done.since = 0
  BY DEF Done, NoCard
<1>1. CASE Crash
  BY <1>1 DEF Crash
<1>2. ASSUME NEW d \in Cards, ShowCard(d)
      PROVE  \/ card'[c] = card[c]
             \/ /\ UNCHANGED task /\ card'[c].pc = "shown" /\ card'[c].rev = task.rev
                /\ card'[c].kind # "update" => card'[c].cfg = task.cfg
                /\ card'[c].since = 0
  BY <1>2 DEF ShowCard, dbVars
<1>3. ASSUME NEW d \in Cards, CardStart(d)
      PROVE  \/ card'[c] = card[c]
             \/ /\ UNCHANGED task /\ card[c].pc = "shown" /\ card[c].kind = "run"
                /\ card'[c] = [card[c] EXCEPT !.pc = "started", !.since = provider.version]
  BY <1>3 DEF CardStart, Executes, dbVars
<1>4. ASSUME NEW d \in Cards,
             CardRefused(d) \/ CardUpdate(d) \/ CardEnable(d) \/ CardDelete(d) \/ CardRun(d)
      PROVE  card'[c] = card[c] \/ card'[c] = Done
  <2>1. card' = [card EXCEPT ![d] = Done]
    BY <1>4 DEF CardRefused, CardUpdate, CardEnable, CardDelete, CardRun, CardDone
  <2>. QED
    BY <2>1
<1>. QED
  BY <1>1, <1>2, <1>3, <1>4, CardWritten

LEMMA CardsStep ==
  ASSUME TypeOK, RInv, Plans, CardsTrue, [Next]_vars
  PROVE  CardsTrue'
<1>1. ASSUME NEW c \in Cards, card'[c].pc \in {"shown", "started"}
      PROVE  /\ card'[c].rev <= task'.rev
             /\ card'[c].kind # "update" /\ card'[c].rev = task'.rev => card'[c].cfg = task'.cfg
             /\ card'[c].pc = "started" => card'[c].kind = "run"
  <2>0. card[c].rev \in Nat /\ task.rev \in Nat /\ task'.rev \in Nat
    <3>1. TaskOK'
      BY TaskTyped
    <3>. QED
      BY <3>1 DEF TypeOK, TaskOK
  <2>1. CASE card'[c] = card[c]
    BY <1>1, <2>0, <2>1, Revisions DEF CardsTrue
  <2>2. CASE /\ UNCHANGED task /\ card'[c].pc = "shown" /\ card'[c].rev = task.rev
             /\ card'[c].kind # "update" => card'[c].cfg = task.cfg
    BY <2>0, <2>2
  <2>3. CASE /\ UNCHANGED task /\ card[c].pc = "shown" /\ card[c].kind = "run"
             /\ card'[c] = [card[c] EXCEPT !.pc = "started", !.since = provider.version]
    <3>1. card'[c].rev = card[c].rev /\ card'[c].kind = card[c].kind /\ card'[c].cfg = card[c].cfg
      BY <2>3 DEF TypeOK
    <3>. QED
      BY <2>3, <3>1 DEF CardsTrue
  <2>. QED
    BY <1>1, <2>1, <2>2, <2>3, CardSteps
<1>2. ASSUME NEW r \in RunId, runs'[r].manual
      PROVE  runs'[r].cfg = runs'[r].shown
  <2>1. CASE ~Created(r)
    BY <1>2, <2>1, Identity DEF CardsTrue
  <2>2. CASE runs'[r] = CronRow \/ \E n \in {0, 1} : runs'[r] = SkipRow(n)
    BY <1>2, <2>2 DEF CronRow, SkipRow, NoRow
  <2>3. ASSUME NEW c \in Cards, CardRun(c), runs'[r] = ManualRow(c)
        PROVE  runs'[r].cfg = runs'[r].shown
    <3>1. card[c].cfg = task.cfg
      BY <2>3 DEF CardRun, Approved, CardsTrue
    <3>. QED
      BY <2>3, <3>1 DEF ManualRow, NoRow
  <2>. QED
    BY <2>1, <2>2, <2>3 DEF Created
<1>. QED
  BY <1>1, <1>2 DEF CardsTrue

LEMMA ApprovedStep ==
  ASSUME TypeOK, RInv, Plans, CardsTrue, ApprovedConfig, [Next]_vars
  PROVE  ApprovedConfig'
<1>. SUFFICES ASSUME NEW r \in RunId, runs'[r].manual, slot'[r].pc \in {"top", "stream", "finish"}
              PROVE  slot'[r].cfg = runs'[r].shown
  BY DEF ApprovedConfig
<1>0. /\ slot[r] \in Slot /\ RunStep(r)
      /\ slot[r].pc # "idle" => runs[r].status # "none"
  BY RunSteps DEF TypeOK, Slot
<1>1. ~Created(r)
  <2>. SUFFICES ASSUME Created(r) PROVE FALSE
    OBVIOUS
  <2>1. slot[r].pc = "idle" /\ runs'[r] # runs[r] /\ slot'[r] # slot[r]
    BY <1>0, CreatedPlan
  <2>. QED
    BY <1>0, <2>1 DEF RunStep, Written
<1>2. runs[r].manual /\ runs'[r].shown = runs[r].shown
  BY <1>1, Identity
<1>3. CASE slot'[r] = slot[r]
  BY <1>2, <1>3 DEF ApprovedConfig
<1>4. CASE Moved(r)
  <2>1. CASE SessionAllowed(r) /\ slot'[r] = [pc |-> "top", cfg |-> task.cfg, auth |-> FALSE]
    BY <1>2, <2>1 DEF SessionAllowed, CardsTrue
  <2>2. CASE slot[r].pc = "stream" /\ slot'[r] = [slot[r] EXCEPT !.pc = "finish"]
    BY <1>0, <1>2, <2>2 DEF ApprovedConfig, Slot
  <2>3. CASE slot[r].pc = "finish" /\ slot'[r] = [slot[r] EXCEPT !.pc = "top"]
    BY <1>0, <1>2, <2>3 DEF ApprovedConfig, Slot
  <2>4. slot'[r] # NoSlot
    BY DEF NoSlot
  <2>5. /\ \A pc \in {"load", "session", "stopping", "open"} : slot'[r] # [slot[r] EXCEPT !.pc = pc]
        /\ \A auth \in BOOLEAN : slot'[r] # [slot[r] EXCEPT !.pc = "fail", !.auth = auth]
    <3>1. /\ \A pc : [slot[r] EXCEPT !.pc = pc].pc = pc
          /\ \A auth : [slot[r] EXCEPT !.pc = "fail", !.auth = auth].pc = "fail"
      BY <1>0 DEF Slot
    <3>. QED
      BY <3>1
  <2>. QED
    BY <1>4, <2>1, <2>2, <2>3, <2>4, <2>5 DEF Moved
<1>5. CASE Written(r)
  <2>1. slot'[r] # NoSlot
    BY DEF NoSlot
  <2>2. slot'[r] # [slot[r] EXCEPT !.pc = "check"]
    BY <1>0 DEF Slot
  <2>3. slot[r].pc \in {"top", "stream"} /\ slot'[r].cfg = slot[r].cfg
    BY <1>0, <1>5, <2>1, <2>2 DEF Written, Slot
  <2>. QED
    BY <1>2, <2>3 DEF ApprovedConfig
<1>. QED
  BY <1>0, <1>1, <1>3, <1>4, <1>5 DEF RunStep

-----------------------------------------------------------------------------
(* Versions of the provider                                                *)

LEMMA ProviderSteps ==
  ASSUME TypeOK, VersionsRead, [Next]_vars
  PROVE  /\ provider.version \in Nat /\ provider.creds \in Nat
         /\ \/ provider'.version = provider.version /\ provider'.creds = provider.creds
            \/ provider'.version = provider.version + 1 /\ provider'.creds \in Nat
                 /\ provider'.creds <= provider'.version
                 /\ (UpdateCreds \/ EndProbe)
<1>. ProviderOK
  BY DEF TypeOK, ProviderOK
<1>0. provider.version \in Nat /\ provider.creds \in Nat /\ provider.creds <= provider.version
  BY DEF ProviderOK, Version, VersionsRead
<1>1. CASE UpdateCreds
  <2>1. provider'.version = provider.version + 1 /\ provider'.creds = provider.version + 1
    BY <1>1 DEF UpdateCreds
  <2>. QED
    BY <1>0, <1>1, <2>1
<1>2. CASE EndProbe
  <2>1. \/ UNCHANGED provider
        \/ provider'.version = provider.version + 1 /\ provider'.creds = provider.creds
    BY <1>2 DEF EndProbe, ProviderOK
  <2>. QED
    BY <1>0, <1>2, <2>1
<1>3. ASSUME NEW r \in RunId, OpenCircuit(r)
      PROVE  provider'.version = provider.version /\ provider'.creds = provider.creds
  BY <1>3 DEF OpenCircuit, ProviderOK
<1>. QED
  BY <1>0, <1>1, <1>2, <1>3, ProviderWritten

LEMMA VersionsStep ==
  ASSUME TypeOK, RInv, Plans, VersionsRead, [Next]_vars
  PROVE  VersionsRead'
<1>0. /\ provider.version \in Nat /\ provider.creds \in Nat
      /\ provider.creds <= provider.version
      /\ provider'.version \in Nat /\ provider'.creds \in Nat
      /\ provider.version <= provider'.version
      /\ provider'.creds <= provider'.version
      /\ provider'.version = provider.version => provider'.creds = provider.creds
      /\ UpdateCreds \/ EndProbe \/ (provider'.version = provider.version /\ provider'.creds = provider.creds)
  BY ProviderSteps DEF VersionsRead
<1>1. tick'.since <= provider'.version
  <2>1. tick.since \in Nat /\ tick.since <= provider.version
    BY DEF TypeOK, Version, VersionsRead
  <2>2. tick'.since \in {tick.since, provider.version, 0}
    BY TickWritten DEF TickList, NoTick
  <2>. QED
    BY <1>0, <2>1, <2>2
<1>2. ASSUME NEW c \in Cards PROVE card'[c].since <= provider'.version
  <2>1. card[c].since \in Nat /\ card[c].since <= provider.version
    BY DEF TypeOK, Version, VersionsRead
  <2>2. [card[c] EXCEPT !.pc = "started", !.since = provider.version].since = provider.version
    BY DEF TypeOK
  <2>3. card'[c].since \in {card[c].since, provider.version, 0}
    BY <2>2, CardSteps
  <2>. QED
    BY <1>0, <2>1, <2>3
<1>3. /\ probe'.version <= provider'.version
      /\ probe'.pc = "sent" /\ probe'.version = provider'.version => probe'.creds = provider'.creds
  <2>0. probe.version \in Nat /\ probe.version <= provider.version
    BY DEF TypeOK, Version, VersionsRead
  <2>1. CASE UNCHANGED probe
    <3>1. provider'.version = provider.version \/ provider'.version # probe.version
      BY <1>0, <2>0
    <3>. QED
      BY <1>0, <2>0, <2>1, <3>1 DEF VersionsRead
  <2>2. CASE SendProbe
    <3>1. probe'.version = provider.version /\ probe'.creds = provider.creds
      BY <2>2 DEF SendProbe
    <3>. QED
      BY <1>0, <3>1
  <2>3. CASE probe' = NoProbe
    BY <1>0, <2>3 DEF NoProbe
  <2>. QED
    BY <2>1, <2>2, <2>3, ProbeWritten
<1>4. ASSUME NEW r \in RunId
      PROVE  /\ runs'[r].since <= provider'.version
             /\ runs'[r].since = provider'.version => runs'[r].creds = provider'.creds
  <2>0. runs[r].since \in Nat /\ runs[r].since <= provider.version
        /\ (runs[r].since = provider.version => runs[r].creds = provider.creds)
    BY DEF TypeOK, Run, Version, VersionsRead
  <2>1. CASE ~Created(r)
    <3>1. runs'[r].since = runs[r].since /\ runs'[r].creds = runs[r].creds
      BY <2>1, Identity
    <3>. QED
      BY <1>0, <2>0, <3>1
  <2>2. ASSUME NEW s \in Nat, s <= provider.version,
               runs'[r].since = s, runs'[r].creds = provider.creds,
               UNCHANGED provider
        PROVE  /\ runs'[r].since <= provider'.version
               /\ runs'[r].since = provider'.version => runs'[r].creds = provider'.creds
    BY <2>2
  <2>3. CASE DispatchRun /\ runs'[r] = CronRow
    <3>1. runs'[r].since = tick.since /\ runs'[r].creds = provider.creds /\ UNCHANGED provider
      BY <2>3 DEF CronRow, NoRow, DispatchRun
    <3>2. tick.since \in Nat /\ tick.since <= provider.version
      BY DEF TypeOK, Version, VersionsRead
    <3>. QED
      BY <2>2, <3>1, <3>2
  <2>4. CASE DispatchSkip /\ \E n \in {0, 1} : runs'[r] = SkipRow(n)
    <3>1. runs'[r].since = 0 /\ runs'[r].creds = 0
      BY <2>4 DEF SkipRow, NoRow
    <3>. QED
      BY <1>0, <3>1
  <2>5. ASSUME NEW c \in Cards, CardRun(c), runs'[r] = ManualRow(c)
        PROVE  /\ runs'[r].since <= provider'.version
               /\ runs'[r].since = provider'.version => runs'[r].creds = provider'.creds
    <3>0. UNCHANGED provider
      BY <2>5 DEF CardRun
    <3>1. runs'[r].since = card[c].since /\ runs'[r].creds = provider.creds
      BY <2>5 DEF ManualRow, NoRow
    <3>2. card[c].since \in Nat /\ card[c].since <= provider.version
      BY DEF TypeOK, Version, VersionsRead
    <3>. QED
      BY <2>2, <3>0, <3>1, <3>2
  <2>. QED
    BY <2>1, <2>3, <2>4, <2>5 DEF Created
<1>. QED
  BY <1>0, <1>1, <1>2, <1>3, <1>4 DEF VersionsRead

-----------------------------------------------------------------------------
(* The invariant is inductive, and the theorems                            *)

LEMMA Initially == Init => Invariant
<1>. SUFFICES ASSUME Init PROVE Invariant
  OBVIOUS
<1>0. PICK c \in Configs, enabled, confirmed \in BOOLEAN :
        task = [exists |-> TRUE, enabled |-> enabled, confirmed |-> confirmed,
                next |-> IF enabled THEN 1 ELSE NoTime, rev |-> 0, cfg |-> c]
  BY DEF Init
<1>1. AnyConfig \in Configs
  BY <1>0 DEF AnyConfig
<1>. /\ now = 0 /\ runs = [r \in RunId |-> NoRow]
     /\ provider = [creds |-> 0, version |-> 0, until |-> NoTime]
     /\ overlapTold = {} /\ circuitTold = {}
     /\ card = [d \in Cards |-> NoCard] /\ tick = NoTick /\ probe = NoProbe
     /\ slot = [r \in RunId |-> NoSlot] /\ wakes = {} /\ mode = "up" /\ faults = 0
  BY DEF Init
<1>. /\ 0 \in Version /\ 0 \in 0 .. MaxTurns /\ 0 \in 0 .. 2 /\ 0 \in 0 .. MaxTime /\ 0 \in 0 .. MaxEdits
     /\ 0 \in 0 .. MaxFaults /\ 0 \in 0 .. MaxTime + Window /\ 1 \in 0 .. MaxTime + 1 /\ 0 \in 0 .. MaxTime + 1
  BY Bounds DEF Version
<1>2. NoRow \in Run
  BY <1>1 DEF NoRow, Run, Status, NoTime
<1>3. TypeOK
  <2>1. runs \in [RunId -> Run]
    BY <1>2
  <2>2. task \in [exists : BOOLEAN, enabled : BOOLEAN, confirmed : BOOLEAN,
                  next : 0 .. MaxTime + 1, rev : 0 .. MaxEdits, cfg : Configs]
        /\ (task.next # NoTime => task.exists /\ task.enabled)
    BY <1>0 DEF NoTime
  <2>3. NoCard \in [pc : {"none", "shown", "started", "done"}, kind : Kinds,
                    rev : 0 .. MaxEdits, cfg : Configs, since : Version]
    BY <1>1 DEF NoCard, Kinds
  <2>4. NoSlot \in [pc : SlotPc, cfg : Configs, auth : BOOLEAN] /\ NoSlot.pc = "idle"
    BY <1>1 DEF NoSlot, SlotPc
  <2>5. provider \in [creds : Version, version : Version, until : 0 .. MaxTime + Window]
    BY DEF NoTime
  <2>6. NoTick \in [pc : {"idle", "due"}, planned : Time \cup {NoTime}, now : 0 .. MaxTime, since : Version]
    BY DEF NoTick, NoTime
  <2>7. NoProbe \in [pc : {"idle", "sent"}, version : Version, creds : Version]
    BY DEF NoProbe
  <2>. QED
    BY <2>1, <2>2, <2>3, <2>4, <2>5, <2>6, <2>7 DEF TypeOK
<1>4. RInv
  BY DEF RInv, OneUnfinished, SlotRuns, Recovering, WakesExist, Unfinished, NoRow, NoSlot, Executing
<1>5. Plans
  <2>1. ManualRuns = {} /\ DoneCards = {}
    BY DEF ManualRuns, DoneCards, NoRow, NoCard
  <2>2. Cardinality(ManualRuns) <= Cardinality(DoneCards)
    BY <2>1, FS_EmptySet
  <2>. QED
    BY <2>2 DEF Plans, NoRow, NoTick
<1>6. FailureTold /\ CompletedSettled
  BY DEF FailureTold, CompletedSettled, NoRow
<1>7. CardsTrue /\ ApprovedConfig
  BY DEF CardsTrue, ApprovedConfig, NoCard, NoRow
<1>8. VersionsRead
  BY DEF VersionsRead, NoTick, NoCard, NoProbe, NoRow
<1>9. StopSeen
  BY DEF StopSeen, NoSlot
<1>. QED
  BY <1>3, <1>4, <1>5, <1>6, <1>7, <1>8, <1>9 DEF Invariant

LEMMA Preserved == Invariant /\ [Next]_vars => Invariant'
<1>. SUFFICES ASSUME Invariant, [Next]_vars PROVE Invariant'
  OBVIOUS
<1>. TypeOK /\ RInv /\ Plans /\ FailureTold /\ CompletedSettled /\ CardsTrue /\ ApprovedConfig
     /\ VersionsRead /\ StopSeen
  BY DEF Invariant
<1>1. TypeOK'
  BY TypeStep
<1>2. RInv'
  BY OneStep, SlotRunsStep, RecoveringStep, WakesStep DEF RInv
<1>3. Plans' /\ FailureTold' /\ CompletedSettled'
  BY PlansStep, ToldStep, SettledStep
<1>4. CardsTrue' /\ ApprovedConfig' /\ VersionsRead'
  BY CardsStep, ApprovedStep, VersionsStep
<1>5. StopSeen'
  BY StopSeenStep
<1>. QED
  BY <1>1, <1>2, <1>3, <1>4, <1>5 DEF Invariant

LEMMA Inductive == Spec => []Invariant
  BY Initially, Preserved, PTL DEF Spec

(* Every state has its type: there is always a free row for the run of a   *)
(* plan or of a card (dispatchDueScheduleTask, manuallyStartScheduleRun).  *)
THEOREM ScheduleTypes == Spec => []TypeOK
<1>1. Invariant => TypeOK
  BY DEF Invariant
<1>. QED
  BY <1>1, Inductive, PTL

(* Two runs of the task never execute at the same time: the overlap check  *)
(* and the row are one transaction (FirstUnfinishedByScheduleTaskTx).      *)
THEOREM RunsDoNotOverlap == Spec => []NoOverlap
<1>1. Invariant => NoOverlap
  BY DEF Invariant, RInv, SlotRuns, OneUnfinished, Unfinished, NoOverlap
<1>. QED
  BY <1>1, Inductive, PTL

(* The main line hears of a failed run exactly once.                       *)
THEOREM FailuresAreTold == Spec => []FailureTold
<1>1. Invariant => FailureTold
  BY DEF Invariant
<1>. QED
  BY <1>1, Inductive, PTL

(* A run by hand executes the configuration its card showed.               *)
THEOREM ApprovedIsExecuted == Spec => []ApprovedConfig
<1>1. Invariant => ApprovedConfig
  BY DEF Invariant
<1>. QED
  BY <1>1, Inductive, PTL

(* A run that completed has seen the end of every call it started.         *)
THEOREM CompletedAreSettled == Spec => []CompletedSettled
<1>1. Invariant => CompletedSettled
  BY DEF Invariant
<1>. QED
  BY <1>1, Inductive, PTL

(* A stop that was accepted, by the user, by fs_stop or by the deletion of *)
(* the task, ends the run as stopped; only a restart may call it failed.   *)
StopWins ==
  [][\A r \in RunId : runs[r].status = "running" /\ runs[r].stop =>
       runs'[r].status \in {"running", "stopped"}
                           \cup (IF mode = "recovery" THEN {"failed"} ELSE {})]_vars

LEMMA StopStep ==
  ASSUME TypeOK, RInv, Plans, [Next]_vars, NEW r \in RunId, runs[r].status = "running", runs[r].stop
  PROVE  runs'[r].status \in {"running", "stopped"}
                             \cup (IF mode = "recovery" THEN {"failed"} ELSE {})
<1>0. runs[r] \in Run /\ RunStep(r)
  BY RunSteps DEF TypeOK
<1>1. ~Created(r)
  BY DEF Created
<1>2. CASE Touched(r)
  BY <1>0, <1>2 DEF Touched, RecoveredRow, Run
<1>3. CASE Written(r)
  BY <1>0, <1>3 DEF Written, Completable, Failable, Run
<1>. QED
  BY <1>0, <1>1, <1>2, <1>3 DEF RunStep

(* A stop that was accepted ends the run as stopped, unless the process    *)
(* restarts.                                                               *)
THEOREM StopsWin == Spec => StopWins
<1>1. Invariant /\ [Next]_vars =>
        [\A r \in RunId : runs[r].status = "running" /\ runs[r].stop =>
           runs'[r].status \in {"running", "stopped"}
                               \cup (IF mode = "recovery" THEN {"failed"} ELSE {})]_vars
  BY StopStep DEF Invariant
<1>. QED
  BY <1>1, Inductive, PTL DEF Spec, StopWins

(* A circuit opens only for the credentials the run failed with, and closes *)
(* only for the configuration that was probed.                             *)
THEOREM CircuitsAreCurrent == Spec => CircuitCurrent
<1>. DEFINE A == provider'.until # provider.until /\ provider'.creds = provider.creds =>
                   \/ \E r \in RunId : slot[r].pc = "open" /\ runs[r].creds = provider.creds
                   \/ probe.pc = "sent" /\ probe.creds = provider.creds
<1>1. Invariant /\ [Next]_vars => [A]_vars
  <2>. SUFFICES ASSUME Invariant, [Next]_vars,
                       provider'.until # provider.until, provider'.creds = provider.creds
                PROVE  \/ \E r \in RunId : slot[r].pc = "open" /\ runs[r].creds = provider.creds
                       \/ probe.pc = "sent" /\ probe.creds = provider.creds
    BY DEF A
  <2>0. TypeOK /\ VersionsRead
    BY DEF Invariant
  <2>1. ~UpdateCreds
    <3>1. provider.creds \in Nat /\ provider.version \in Nat /\ provider.creds <= provider.version
      BY <2>0 DEF TypeOK, Version, VersionsRead
    <3>2. UpdateCreds => provider'.creds = provider.version + 1
      BY DEF UpdateCreds
    <3>. QED
      BY <3>1, <3>2
  <2>2. CASE EndProbe
    BY <2>0, <2>2 DEF EndProbe, Verified, VersionsRead
  <2>3. ASSUME NEW r \in RunId, OpenCircuit(r)
        PROVE  slot[r].pc = "open" /\ runs[r].creds = provider.creds
    BY <2>0, <2>3 DEF OpenCircuit, Openable, SameConfig, VersionsRead
  <2>. QED
    BY <2>1, <2>2, <2>3, ProviderWritten
<1>. QED
  BY <1>1, Inductive, PTL DEF Spec, CircuitCurrent

(* A circuit that is open keeps its end until somebody closes it.          *)
THEOREM CircuitsKeepTheirEnd == Spec => CircuitKept
<1>. DEFINE A == provider.until > now /\ provider'.until # provider.until => provider'.until = NoTime
<1>1. Invariant /\ [Next]_vars => [A]_vars
  <2>. SUFFICES ASSUME Invariant, [Next]_vars,
                       provider.until > now, provider'.until # provider.until
                PROVE  provider'.until = NoTime
    BY DEF A
  <2>0. provider \in [creds : Version, version : Version, until : 0 .. MaxTime + Window]
        /\ now \in 0 .. MaxTime
    BY DEF Invariant, TypeOK
  <2>1. CASE UpdateCreds
    BY <2>1 DEF UpdateCreds
  <2>3. CASE EndProbe
    <3>1. [provider EXCEPT !.version = @ + 1, !.until = NoTime].until = NoTime
      BY <2>0
    <3>. QED
      BY <2>3, <3>1 DEF EndProbe
  <2>2. ASSUME NEW r \in RunId, OpenCircuit(r) PROVE FALSE
    BY <2>0, <2>2, Bounds DEF OpenCircuit, Openable
  <2>. QED
    BY <2>1, <2>2, <2>3, ProviderWritten
<1>. QED
  BY <1>1, Inductive, PTL DEF Spec, CircuitKept

-----------------------------------------------------------------------------
(* The contract of a task                                                  *)

phases == [r \in RunId |-> runs[r].status]
plans == [r \in RunId |-> runs[r].planned]
stops == [r \in RunId |-> runs[r].stop]
tolds == [r \in RunId |-> runs[r].told]

ContractStep == [Contract!Next]_<<phases, plans, stops, tolds, (mode = "up")>>

(* One row is written, the others stay.                                    *)
LEMMA RowShown ==
  ASSUME TypeOK, NEW r \in RunId, NEW row, runs' = [runs EXCEPT ![r] = row]
  PROVE  /\ phases' = [phases EXCEPT ![r] = row.status]
         /\ plans' = [plans EXCEPT ![r] = row.planned]
         /\ stops' = [stops EXCEPT ![r] = row.stop]
         /\ tolds' = [tolds EXCEPT ![r] = row.told]
<1>. runs \in [RunId -> Run]
  BY DEF TypeOK
<1>1. \A q \in RunId : runs'[q] = IF q = r THEN row ELSE runs[q]
  OBVIOUS
<1>2. phases' = [phases EXCEPT ![r] = row.status]
  BY <1>1 DEF phases
<1>3. plans' = [plans EXCEPT ![r] = row.planned]
  BY <1>1 DEF plans
<1>4. stops' = [stops EXCEPT ![r] = row.stop]
  BY <1>1 DEF stops
<1>5. tolds' = [tolds EXCEPT ![r] = row.told]
  BY <1>1 DEF tolds
<1>. QED
  BY <1>2, <1>3, <1>4, <1>5

(* A row that keeps its status, plan, stop and events shows nothing.       *)
LEMMA NothingShown ==
  ASSUME TypeOK, NEW r \in RunId, NEW row, runs' = [runs EXCEPT ![r] = row],
         row.status = runs[r].status, row.planned = runs[r].planned,
         row.stop = runs[r].stop, row.told = runs[r].told
  PROVE  UNCHANGED <<phases, plans, stops, tolds>>
<1>1. /\ phases' = [phases EXCEPT ![r] = phases[r]] /\ plans' = [plans EXCEPT ![r] = plans[r]]
      /\ stops' = [stops EXCEPT ![r] = stops[r]] /\ tolds' = [tolds EXCEPT ![r] = tolds[r]]
  <2>1. /\ phases[r] = runs[r].status /\ plans[r] = runs[r].planned
        /\ stops[r] = runs[r].stop /\ tolds[r] = runs[r].told
    BY DEF phases, plans, stops, tolds
  <2>2. /\ phases' = [phases EXCEPT ![r] = row.status] /\ plans' = [plans EXCEPT ![r] = row.planned]
        /\ stops' = [stops EXCEPT ![r] = row.stop] /\ tolds' = [tolds EXCEPT ![r] = row.told]
    BY RowShown
  <2>. QED
    BY <2>1, <2>2, Zenon
<1>2. /\ phases = [q \in RunId |-> phases[q]] /\ plans = [q \in RunId |-> plans[q]]
      /\ stops = [q \in RunId |-> stops[q]] /\ tolds = [q \in RunId |-> tolds[q]]
  BY DEF phases, plans, stops, tolds
<1>. QED
  BY <1>1, <1>2

LEMMA RunningShown == Contract!Running = Unfinished
  BY DEF Contract!Running, Unfinished

(* A new row, as the contract sees it.                                     *)
LEMMA NewShown ==
  ASSUME TypeOK, mode = "up", mode' = mode, NEW r \in RunId, runs[r].status = "none",
         NEW row, runs' = [runs EXCEPT ![r] = row],
         NEW how, NEW p, NEW n, row.status = how, row.planned = p, row.stop = FALSE, row.told = n
  PROVE  Contract!New(r, how, p, n)
<1>1. phases[r] = "none"
  BY DEF phases
<1>2. /\ phases' = [phases EXCEPT ![r] = how] /\ plans' = [plans EXCEPT ![r] = p]
      /\ stops' = [stops EXCEPT ![r] = FALSE] /\ tolds' = [tolds EXCEPT ![r] = n]
  <2>1. /\ phases' = [phases EXCEPT ![r] = row.status] /\ plans' = [plans EXCEPT ![r] = row.planned]
        /\ stops' = [stops EXCEPT ![r] = row.stop] /\ tolds' = [tolds EXCEPT ![r] = row.told]
    BY RowShown
  <2>. QED
    BY <2>1, Zenon
<1>. QED
  BY <1>1, <1>2 DEF Contract!New, phases, plans, stops, tolds

LEMMA DispatchShown ==
  ASSUME TypeOK, RInv, Plans, tick.pc = "due", ~KeyTaken, mode' = mode,
         NEW row, runs' = [runs EXCEPT ![NewId] = row],
         \/ row = CronRow /\ Unfinished = {}
         \/ \E n \in {0, 1} : row = SkipRow(n)
  PROVE  Contract!Next
<1>1. /\ NewId \in RunId /\ runs[NewId].status = "none" /\ tick.planned \in Time
      /\ mode = "up"
  BY RoomForPlan DEF TypeOK, RInv, Recovering, NoTick
<1>2. Contract!Unused(tick.planned)
  BY DEF Contract!Unused, KeyTaken
<1>3. CASE row = CronRow /\ Unfinished = {}
  <2>1. row.status = "running" /\ row.planned = tick.planned /\ row.stop = FALSE /\ row.told = 0
    BY <1>3 DEF CronRow, NoRow
  <2>2. Contract!New(NewId, "running", tick.planned, 0)
    BY <1>1, <2>1, NewShown
  <2>. QED
    BY <1>1, <1>2, <1>3, <2>2, RunningShown DEF Contract!Next, Contract!Dispatch
<1>4. ASSUME NEW n \in {0, 1}, row = SkipRow(n) PROVE Contract!Next
  <2>1. row.status = "skipped" /\ row.planned = tick.planned /\ row.stop = FALSE /\ row.told = n
    BY <1>4 DEF SkipRow, NoRow
  <2>2. Contract!New(NewId, "skipped", tick.planned, n)
    BY <1>1, <2>1, NewShown
  <2>. QED
    BY <1>1, <1>2, <2>2 DEF Contract!Next, Contract!Skip
<1>. QED
  BY <1>3, <1>4

LEMMA OrderShown ==
  ASSUME TypeOK, RInv, Plans, NEW c \in Cards, CardRun(c)
  PROVE  Contract!Next
<1>1. /\ NewId \in RunId /\ runs[NewId].status = "none"
      /\ mode = "up" /\ mode' = mode /\ Unfinished = {}
      /\ runs' = [runs EXCEPT ![NewId] = ManualRow(c)]
  BY RoomForCard DEF CardRun, Blocking, ManualRow
<1>2. /\ ManualRow(c).status = "running" /\ ManualRow(c).planned = NoTime
      /\ ManualRow(c).stop = FALSE /\ ManualRow(c).told = 0
  BY DEF ManualRow, NoRow
<1>3. Contract!New(NewId, "running", NoTime, 0)
  BY <1>1, <1>2, NewShown
<1>. QED
  BY <1>1, <1>3, RunningShown DEF Contract!Next, Contract!Order

(* The runs of S are asked to stop.                                        *)
LEMMA StopShown ==
  ASSUME TypeOK, mode = "up", mode' = mode, NEW S \in SUBSET Unfinished,
         runs' = [r \in RunId |-> IF r \in S THEN [runs[r] EXCEPT !.stop = TRUE] ELSE runs[r]]
  PROVE  Contract!Next
<1>. runs \in [RunId -> Run]
  BY DEF TypeOK
<1>1. \A r \in RunId :
        /\ runs'[r].status = runs[r].status /\ runs'[r].planned = runs[r].planned
        /\ runs'[r].stop = (r \in S \/ runs[r].stop) /\ runs'[r].told = runs[r].told
  BY DEF Run
<1>2. stops' = [r \in RunId |-> r \in S \/ stops[r]]
  <2>1. \A r \in RunId : stops[r] = runs[r].stop
    BY DEF stops
  <2>2. stops' = [r \in RunId |-> runs'[r].stop]
    BY DEF stops
  <2>. QED
    BY <1>1, <2>1, <2>2, Zenon
<1>3. UNCHANGED <<phases, plans, tolds>>
  BY <1>1 DEF phases, plans, tolds
<1>4. Contract!AskStop(S) /\ S \in SUBSET RunId
  BY <1>2, <1>3, RunningShown DEF Contract!AskStop, phases, plans, stops, tolds, Unfinished
<1>. QED
  BY <1>4 DEF Contract!Next

(* A run that ends, as the contract sees it.                               *)
LEMMA EndShown ==
  ASSUME TypeOK, NEW r \in Unfinished, mode' = mode,
         NEW row, runs' = [runs EXCEPT ![r] = row],
         row.planned = runs[r].planned, row.stop = runs[r].stop,
         NEW how, NEW n, row.status = how, row.told = n
  PROVE  r \in RunId /\ Contract!Ends(r, how, n)
<1>1. r \in RunId
  BY DEF Unfinished
<1>2. /\ phases' = [phases EXCEPT ![r] = how] /\ tolds' = [tolds EXCEPT ![r] = n]
      /\ plans' = [plans EXCEPT ![r] = plans[r]] /\ stops' = [stops EXCEPT ![r] = stops[r]]
  <2>1. plans[r] = runs[r].planned /\ stops[r] = runs[r].stop
    BY <1>1 DEF plans, stops
  <2>2. /\ phases' = [phases EXCEPT ![r] = row.status] /\ plans' = [plans EXCEPT ![r] = row.planned]
        /\ stops' = [stops EXCEPT ![r] = row.stop] /\ tolds' = [tolds EXCEPT ![r] = row.told]
    BY <1>1, RowShown
  <2>. QED
    BY <2>1, <2>2, Zenon
<1>3. plans = [q \in RunId |-> plans[q]] /\ stops = [q \in RunId |-> stops[q]]
  BY DEF plans, stops
<1>. QED
  BY <1>1, <1>2, <1>3, RunningShown DEF Contract!Ends, phases, plans, stops, tolds

LEMMA GoroutineShown ==
  ASSUME Invariant, NEW r \in RunId, Top(r) \/ StreamCalls(r) \/ Finish(r) \/ Fail(r) \/ Stopping(r)
  PROVE  ContractStep
<1>. TypeOK /\ FailureTold /\ StopSeen /\ runs[r] \in Run /\ mode' = mode
  BY DEF Invariant, TypeOK, Top, StreamCalls, Finish, Fail, Stopping, RunAndSlot
<1>0. /\ slot[r].pc \in Executing => runs[r].status = "running" /\ runs[r].told = 0
      /\ slot[r].pc \in Executing => mode = "up"
  BY DEF Invariant, RInv, SlotRuns, FailureTold, Recovering, TypeOK, NoSlot, Executing
<1>1. CASE UNCHANGED runs
  BY <1>1 DEF ContractStep, phases, plans, stops, tolds
<1>2. CASE Top(r)
  <2>. DEFINE row == [runs[r] EXCEPT !.fresh = FALSE]
  <2>1. runs' = [runs EXCEPT ![r] = row]
    BY <1>2 DEF Top, TypeOK
  <2>2. row.status = runs[r].status /\ row.planned = runs[r].planned
        /\ row.stop = runs[r].stop /\ row.told = runs[r].told
    BY DEF Run
  <2>. HIDE DEF row
  <2>. QED
    BY <2>1, <2>2, NothingShown DEF ContractStep
<1>3. CASE StreamCalls(r)
  <2>. DEFINE row == [runs[r] EXCEPT !.turns = @ + 1, !.open = TRUE]
  <2>1. runs' = [runs EXCEPT ![r] = row]
    BY <1>3 DEF StreamCalls, TypeOK
  <2>2. row.status = runs[r].status /\ row.planned = runs[r].planned
        /\ row.stop = runs[r].stop /\ row.told = runs[r].told
    BY DEF Run
  <2>. HIDE DEF row
  <2>. QED
    BY <2>1, <2>2, NothingShown DEF ContractStep
<1>4. CASE Finish(r) /\ Completable(r)
  <2>. r \in Unfinished /\ ~runs[r].stop /\ mode = "up" /\ runs[r].told = 0
    BY <1>0, <1>4 DEF Finish, Completable, Executing
  <2>1. PICK n \in {0, 1} : runs' = [runs EXCEPT ![r] = [runs[r] EXCEPT !.status = "completed", !.told = @ + n]]
    <3>1. PICK n \in {0, 1} : runs' = [runs EXCEPT ![r].status = "completed", ![r].told = @ + n]
      BY <1>4, Zenon DEF Finish
    <3>2. runs' = [runs EXCEPT ![r] = [runs[r] EXCEPT !.status = "completed", !.told = @ + n]]
      BY <3>1 DEF TypeOK
    <3>. QED
      BY <3>2
  <2>. DEFINE row == [runs[r] EXCEPT !.status = "completed", !.told = @ + n]
  <2>2. row.status = "completed" /\ row.planned = runs[r].planned
        /\ row.stop = runs[r].stop /\ row.told = n
    BY DEF Run
  <2>. HIDE DEF row
  <2>3. Contract!Ends(r, "completed", n)
    BY <2>1, <2>2, EndShown DEF row
  <2>4. Contract!Complete(r)
    BY <2>3 DEF Contract!Complete
  <2>. QED
    BY <2>4 DEF Contract!Next, ContractStep
<1>5. CASE Fail(r) /\ Failable(r)
  <2>. r \in Unfinished /\ ~runs[r].stop /\ mode = "up" /\ runs[r].told = 0
    BY <1>0, <1>5 DEF Fail, Failable, Executing
  <2>1. runs' = [runs EXCEPT ![r] = FailedRow(r)]
    BY <1>5 DEF Fail
  <2>2. FailedRow(r).status = "failed" /\ FailedRow(r).planned = runs[r].planned
        /\ FailedRow(r).stop = runs[r].stop /\ FailedRow(r).told = 1
    BY DEF Run, FailedRow
  <2>3. Contract!Ends(r, "failed", 1)
    BY <2>1, <2>2, EndShown
  <2>4. Contract!Fail(r)
    BY <2>3 DEF Contract!Fail
  <2>. QED
    BY <2>4 DEF Contract!Next, ContractStep
<1>6. CASE Stopping(r) /\ r \in Unfinished
  <2>. runs[r].stop /\ mode = "up" /\ runs[r].told = 0
    BY <1>0, <1>6 DEF Stopping, StopSeen, Executing
  <2>. DEFINE row == [runs[r] EXCEPT !.status = "stopped"]
  <2>1. runs' = [runs EXCEPT ![r] = row]
    BY <1>6 DEF Stopping, TypeOK
  <2>2. row.status = "stopped" /\ row.planned = runs[r].planned
        /\ row.stop = runs[r].stop /\ row.told = 0
    BY DEF Run
  <2>. HIDE DEF row
  <2>3. Contract!Ends(r, "stopped", 0)
    BY <1>6, <2>1, <2>2, EndShown
  <2>4. Contract!Stop(r)
    BY <2>3 DEF Contract!Stop
  <2>. QED
    BY <2>4 DEF Contract!Next, ContractStep
<1>. QED
  BY <1>1, <1>2, <1>3, <1>4, <1>5, <1>6 DEF Finish, Fail, Stopping

LEMMA ContractSteps ==
  ASSUME Invariant, [Next]_vars
  PROVE  ContractStep
<1>. TypeOK /\ RInv /\ Plans /\ FailureTold
  BY DEF Invariant
<1>. runs \in [RunId -> Run]
  BY DEF TypeOK
<1>1. CASE UNCHANGED runs
  <2>1. UNCHANGED <<phases, plans, stops, tolds>>
    BY <1>1 DEF phases, plans, stops, tolds
  <2>2. CASE UNCHANGED mode
    BY <2>1, <2>2 DEF ContractStep
  <2>3. CASE Crash
    <3>1. Contract!Die
      BY <2>1, <2>3 DEF Crash, Contract!Die, phases, plans, stops, tolds
    <3>. QED
      BY <3>1 DEF Contract!Next, ContractStep
  <2>4. CASE Recovered
    <3>1. Contract!Restart
      BY <2>1, <2>4, RunningShown DEF Recovered, Contract!Restart, phases, plans, stops, tolds
    <3>. QED
      BY <3>1 DEF Contract!Next, ContractStep
  <2>. QED
    BY <2>2, <2>3, <2>4, ModeWritten
<1>2. mode' = mode \/ UNCHANGED runs
  BY ModeWritten DEF Crash, Recovered, dbVars
<1>3. CASE DispatchRun /\ ~KeyTaken
  <2>1. tick.pc = "due" /\ mode' = mode /\ Unfinished = {} /\ runs' = [runs EXCEPT ![NewId] = CronRow]
    BY <1>3 DEF DispatchRun, Outcome, Blocking, CronRow
  <2>. QED
    BY <1>3, <2>1, DispatchShown DEF ContractStep
<1>4. CASE DispatchSkip /\ ~KeyTaken
  <2>. DEFINE n == IF SkipTold(Outcome) THEN 1 ELSE 0
  <2>1. tick.pc = "due" /\ mode' = mode /\ runs' = [runs EXCEPT ![NewId] = SkipRow(n)]
    BY <1>4, Zenon DEF DispatchSkip, SkipRow
  <2>2. n \in {0, 1}
    OBVIOUS
  <2>. HIDE DEF n
  <2>. QED
    BY <1>4, <2>1, <2>2, DispatchShown DEF ContractStep
<1>5. ASSUME NEW c \in Cards, CardDelete(c) PROVE ContractStep
  <2>1. mode = "up" /\ mode' = mode
        /\ runs' = [r \in RunId |-> IF r \in Unfinished THEN [runs[r] EXCEPT !.stop = TRUE] ELSE runs[r]]
    BY <1>5 DEF CardDelete, Executes
  <2>. QED
    BY <2>1, StopShown DEF ContractStep
<1>6. ASSUME NEW c \in Cards, CardRun(c) PROVE ContractStep
  BY <1>6, OrderShown DEF ContractStep
<1>7. ASSUME NEW r \in RunId, CallSettles(r) PROVE ContractStep
  <2>. DEFINE row == [runs[r] EXCEPT !.open = FALSE, !.fresh = TRUE]
  <2>1. runs' = [runs EXCEPT ![r] = row] /\ mode' = mode
    BY <1>7 DEF CallSettles, RunAndSlot
  <2>2. row.status = runs[r].status /\ row.planned = runs[r].planned
        /\ row.stop = runs[r].stop /\ row.told = runs[r].told
    BY DEF Run
  <2>. HIDE DEF row
  <2>. QED
    BY <2>1, <2>2, NothingShown DEF ContractStep
<1>8. ASSUME NEW r \in RunId, StopRun(r) PROVE ContractStep
  <2>1. mode = "up" /\ mode' = mode /\ {r} \in SUBSET Unfinished
        /\ runs' = [q \in RunId |-> IF q \in {r} THEN [runs[q] EXCEPT !.stop = TRUE] ELSE runs[q]]
    BY <1>8 DEF StopRun
  <2>. QED
    BY <2>1, StopShown DEF ContractStep
<1>9. ASSUME NEW r \in RunId, RecoverRun(r) PROVE ContractStep
  <2>1. mode = "recovery" /\ mode' = mode /\ r \in Unfinished
        /\ runs' = [runs EXCEPT ![r] = RecoveredRow(r)]
    BY <1>9 DEF RecoverRun
  <2>2. RecoveredRow(r).status = "failed" /\ RecoveredRow(r).planned = runs[r].planned
        /\ RecoveredRow(r).stop = runs[r].stop /\ RecoveredRow(r).told = 1
    BY <2>1 DEF Run, RecoveredRow, FailureTold, Unfinished
  <2>3. Contract!Ends(r, "failed", 1)
    BY <2>1, <2>2, EndShown
  <2>4. Contract!Fail(r)
    BY <2>1, <2>3 DEF Contract!Fail
  <2>. QED
    BY <2>4 DEF Contract!Next, ContractStep
<1>10. DispatchRun \/ DispatchSkip => ~KeyTaken \/ UNCHANGED runs
  BY DEF DispatchRun, DispatchSkip
<1>. QED
  BY <1>1, <1>3, <1>4, <1>5, <1>6, <1>7, <1>8, <1>9, <1>10, GoroutineShown, RunsWritten

LEMMA ContractInit == Init => Contract!Init
  BY DEF Init, Contract!Init, NoRow, NoTime

(* KeepsContract: the ticker, the cards, the slots, the stops and the      *)
(* recovery give every plan one run, execute one run at a time and end it  *)
(* once, in the step that tells of it, whoever ends it.                    *)
THEOREM TaskKeepsContract == Spec => KeepsContract
<1>1. Invariant /\ [Next]_vars
        => [Contract!Next]_<<[r \in RunId |-> runs[r].status], [r \in RunId |-> runs[r].planned],
                             [r \in RunId |-> runs[r].stop], [r \in RunId |-> runs[r].told],
                             (mode = "up")>>
  BY ContractSteps DEF ContractStep, phases, plans, stops, tolds
<1>. QED
  BY <1>1, ContractInit, Inductive, PTL DEF Spec, KeepsContract, Contract!Spec
=============================================================================
