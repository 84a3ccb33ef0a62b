---------------------------- MODULE BotMainline ----------------------------
(***************************************************************************)
(* The main conversation of one bot: its execution slot, the runs that     *)
(* consume the message stream, the two input watermarks, the soft and the  *)
(* hard stop, the 5 s scan that makes up for lost wake-ups, and the        *)
(* recovery after a crash (service/bot_runtime.go, bot_loop.go,            *)
(* bot_recovery.go, repository/bot_run.go).                                *)
(*                                                                         *)
(* The database is SQLite on one connection, so a transaction or a single  *)
(* statement is one step.  What happens between two of them interleaves.   *)
(* Messages are their sequence numbers; the content of a message is not    *)
(* modelled, only whether it counts as model input.                        *)
(***************************************************************************)
EXTENDS Integers, Sequences, FiniteSets

CONSTANTS
  Gs,         \* goroutines that may execute the slot of the bot
  MaxRuns,    \* bound: runs that are ever created
  MaxInputs,  \* bound: model inputs that ever arrive, stop messages included
  MaxStops,   \* bound: hard stops under way, or armed, at the same time
  MaxReqs,    \* bound: requests of a run after which it no longer retries or calls tools
  Faults,     \* the kinds of fault that happen
  MaxFaults   \* bound: faults that ever happen

ASSUME MainlineAssumption ==
  /\ Gs # {}
  /\ MaxRuns \in Nat \ {0}
  /\ MaxInputs \in Nat
  /\ MaxStops \in Nat
  /\ MaxReqs \in Nat
  /\ Faults \subseteq {"failure", "compaction", "write", "panic", "crash"}
  /\ MaxFaults \in Nat

VARIABLES
  (* rows of the database *)
  nextSeq,    \* bots.next_message_seq
  inputs,     \* sequence numbers of the messages that are model input
  offered,    \* bots.offered_input_seq
  runs,       \* bot_runs, with the requests of each run
  (* memory of the process *)
  slot,       \* rt.active[botID]
  wakes,      \* calls of wakeRuntime under way
  stops,      \* calls of hardStopRun under way, or waiting for their timer
  phase,      \* "up", or the step of RecoverOnStartup the process is at
  noticeSeq,  \* the recovery notice of the current minute, 0 if there is none
  faults,     \* faults so far (bounds the model)
  (* locals of a goroutine in runBotSlot *)
  pc, wake, cur, seen, built, next, cancelled

dbVars == <<nextSeq, inputs, offered, runs>>
gVars  == <<pc, wake, cur, seen, built, next, cancelled>>
vars   == <<dbVars, slot, wakes, stops, phase, noticeSeq, faults, gVars>>

RunId == 1..MaxRuns
NoRun == 0

(* The trigger key of a wake-up: what it is about and a sequence number. *)
Key  == {"input", "scan", "recovery", "run"} \X Nat
Wake == [recovery : BOOLEAN, key : Key]
NoWake == [recovery |-> FALSE, key |-> <<"run", 0>>]

InputWake(n)    == [recovery |-> FALSE, key |-> <<"input", n>>]
ScanWake(n)     == [recovery |-> FALSE, key |-> <<"scan", n>>]
RecoveryWake(n) == [recovery |-> TRUE,  key |-> <<"recovery", n>>]

Run == [status  : {"none", "running", "completed", "stopped", "failed"},
        key     : Key,
        through : Nat,          \* input_through_seq
        stop    : BOOLEAN,      \* stop_requested_at is set
        stopMsg : Nat,          \* seq of the message "stop:<run>", 0 if none
        reqs    : Seq(Nat)]     \* input_through_seq of its requests, by ordinal

Row(st, k) == [status |-> st, key |-> k, through |-> 0,
               stop |-> FALSE, stopMsg |-> 0, reqs |-> <<>>]

NoRunRow  == Row("none", NoWake.key)
NewRow(k) == Row("running", k)

(* An entry of rt.active; cancel holds the goroutine whose context is registered. *)
FreeSlot == [held |-> FALSE, pending |-> NoWake, requeue |-> FALSE,
             run |-> NoRun, cancel |-> {}]

(* Where a goroutine is: it holds the slot, or is between release and acquire. *)
Executing == {"take", "ensure", "create", "bind", "top", "build", "begin",
              "advRun", "advBot", "stream", "calls", "try", "notice",
              "stop", "fail", "release"}
Between   == {"steal", "reacquire"}
Looping   == Executing \ {"take", "ensure", "create", "release"}

max(a, b) == IF a >= b THEN a ELSE b

LastSeq == nextSeq - 1

(* HasModelInputSince: is there an input after watermark n? *)
InputSince(n) == \E i \in inputs : i > n

Unfinished(r) == runs[r].status = "running"

(* FindActiveByBot: the partial unique index allows one at most. *)
NoActiveRun == \A r \in RunId : ~Unfinished(r)

-----------------------------------------------------------------------------
Init ==
  /\ nextSeq = 1
  /\ inputs = {}
  /\ offered = 0
  /\ runs = [r \in RunId |-> NoRunRow]
  /\ slot = FreeSlot
  /\ wakes = {}
  /\ stops = {}
  /\ phase = "up"
  /\ noticeSeq = 0
  /\ faults = 0
  /\ pc = [p \in Gs |-> "idle"]
  /\ wake = [p \in Gs |-> NoWake]
  /\ cur = [p \in Gs |-> NoRun]
  /\ seen = [p \in Gs |-> 0]
  /\ built = [p \in Gs |-> 0]
  /\ next = [p \in Gs |-> "stream"]
  /\ cancelled = [p \in Gs |-> FALSE]

-----------------------------------------------------------------------------
(* Waking the slot *)

(* A user message, the result of a background call or a schedule event is   *)
(* appended in a transaction; the wake-up follows outside of it.            *)
SendInput ==
  /\ phase = "up"
  /\ Cardinality(inputs) < MaxInputs
  /\ nextSeq' = nextSeq + 1
  /\ inputs' = inputs \cup {nextSeq}
  /\ wakes' = wakes \cup {[wake |-> InputWake(nextSeq), at |-> "acquire"]}
  /\ UNCHANGED <<offered, runs, slot, stops, phase, noticeSeq, faults, gVars>>

(* Mutant: nothing makes up for a lost wake-up. *)
ScanNever == FALSE /\ UNCHANGED vars

(* scanOnce: an input beyond the watermark and no unfinished run. *)
Scan ==
  /\ phase = "up"
  /\ InputSince(offered)
  /\ NoActiveRun
  /\ \A w \in wakes : w.wake.key[1] # "scan"
  /\ wakes' = wakes \cup {[wake |-> ScanWake(LastSeq), at |-> "acquire"]}
  /\ UNCHANGED <<dbVars, slot, stops, phase, noticeSeq, faults, gVars>>

(* wakeRuntime takes the free slot and starts a goroutine in it ... *)
WakeAcquire(w) ==
  /\ w.at = "acquire"
  /\ ~slot.held
  /\ slot' = [FreeSlot EXCEPT !.held = TRUE, !.pending = w.wake]
  /\ wakes' = wakes \ {w}
  /\ \E p \in Gs : /\ pc[p] = "idle"
                   /\ pc' = [pc EXCEPT ![p] = "take"]
  /\ UNCHANGED <<dbVars, stops, phase, noticeSeq, faults,
                 wake, cur, seen, built, next, cancelled>>

(* ... or finds it busy, ... *)
WakeBusy(w) ==
  /\ w.at = "acquire"
  /\ slot.held
  /\ wakes' = (wakes \ {w}) \cup {[w EXCEPT !.at = "mark"]}
  /\ UNCHANGED <<dbVars, slot, stops, phase, noticeSeq, faults, gVars>>

(* ... and marks it, unless it was released in between: that wake-up is lost. *)
WakeMark(w) ==
  /\ w.at = "mark"
  /\ slot' = IF slot.held THEN [slot EXCEPT !.requeue = TRUE, !.pending = w.wake]
                          ELSE slot
  /\ wakes' = wakes \ {w}
  /\ UNCHANGED <<dbVars, stops, phase, noticeSeq, faults, gVars>>

-----------------------------------------------------------------------------
(* The goroutine in the slot: runBotSlot, runBot, ensureRun *)

Goto(p, l) == pc' = [pc EXCEPT ![p] = l]

(* takePending, with its fallback, and setCancel of a fresh context. *)
Take(p) ==
  /\ pc[p] = "take"
  /\ wake' = [wake EXCEPT ![p] = slot.pending]
  /\ slot' = [slot EXCEPT !.pending = NoWake, !.cancel = {p}]
  /\ Goto(p, "ensure")
  /\ UNCHANGED <<dbVars, wakes, stops, phase, noticeSeq, faults,
                 cur, seen, built, next, cancelled>>

(* ensureRun resumes the unfinished run, or creates one if there is a new  *)
(* input; a recovery wake-up needs none.                                   *)
Ensure(p) ==
  /\ pc[p] = "ensure"
  /\ \/ \E r \in RunId : /\ Unfinished(r)
                         /\ cur' = [cur EXCEPT ![p] = r]
                         /\ seen' = [seen EXCEPT ![p] = runs[r].through]
                         /\ Goto(p, "bind")
     \/ /\ NoActiveRun
        /\ \/ wake[p].recovery \/ InputSince(offered)
        /\ Goto(p, "create")
        /\ UNCHANGED <<cur, seen>>
     \/ /\ NoActiveRun
        /\ ~wake[p].recovery /\ ~InputSince(offered)
        /\ Goto(p, "release")
        /\ UNCHANGED <<cur, seen>>
  /\ UNCHANGED <<dbVars, slot, wakes, stops, phase, noticeSeq, faults,
                 wake, built, next, cancelled>>

(* The trigger key of a new run; without one it is named after the run. *)
KeyOf(p, r) == IF wake[p] = NoWake THEN <<"run", r>> ELSE wake[p].key

KeyTaken(k) == \E r \in RunId : runs[r].status # "none" /\ runs[r].key = k

(* The insert fails on the unique (bot_id, trigger_key): no run, no loop.   *)
(* (It cannot meet an unfinished run: see OneExecutor.)                     *)
Create(p) ==
  /\ pc[p] = "create"
  /\ \E r \in RunId :
       /\ runs[r].status = "none"
       /\ \A q \in 1..(r - 1) : runs[q].status # "none"
       /\ IF KeyTaken(KeyOf(p, r))
          THEN /\ Goto(p, "release")
               /\ UNCHANGED <<runs, cur, seen>>
          ELSE /\ runs' = [runs EXCEPT ![r] = NewRow(KeyOf(p, r))]
               /\ cur' = [cur EXCEPT ![p] = r]
               /\ seen' = [seen EXCEPT ![p] = 0]
               /\ Goto(p, "bind")
  /\ UNCHANGED <<nextSeq, inputs, offered, slot, wakes, stops, phase, noticeSeq,
                 faults, wake, built, next, cancelled>>

(* bindSlotRun, the first step of botLoop. *)
Bind(p) ==
  /\ pc[p] = "bind"
  /\ slot' = [slot EXCEPT !.run = cur[p]]
  /\ Goto(p, "top")
  /\ UNCHANGED <<dbVars, wakes, stops, phase, noticeSeq, faults,
                 wake, cur, seen, built, next, cancelled>>

(* Mutant: the slot is re-entered with the run of the turn before. *)
ForgetKeepsRun(p) ==
  /\ UNCHANGED cur
  /\ seen' = [seen EXCEPT ![p] = 0]
  /\ built' = [built EXCEPT ![p] = 0]
  /\ next' = [next EXCEPT ![p] = "stream"]
  /\ cancelled' = [cancelled EXCEPT ![p] = FALSE]

(* The locals of the loop go out of scope. *)
Forget(p) ==
  /\ cur' = [cur EXCEPT ![p] = NoRun]
  /\ seen' = [seen EXCEPT ![p] = 0]
  /\ built' = [built EXCEPT ![p] = 0]
  /\ next' = [next EXCEPT ![p] = "stream"]
  /\ cancelled' = [cancelled EXCEPT ![p] = FALSE]

(* The slot is given back; a wake-up that arrived meanwhile restarts it. *)
Release(p) ==
  /\ pc[p] = "release"
  /\ slot' = FreeSlot
  /\ Forget(p)
  /\ \/ /\ ~slot.requeue
        /\ Goto(p, "idle")
        /\ wake' = [wake EXCEPT ![p] = NoWake]
     \/ /\ slot.requeue /\ slot.pending # NoWake
        /\ Goto(p, "reacquire")
        /\ wake' = [wake EXCEPT ![p] = slot.pending]
     \/ /\ slot.requeue /\ slot.pending = NoWake
        /\ Goto(p, "steal")
        /\ UNCHANGED wake
  /\ UNCHANGED <<dbVars, wakes, stops, phase, noticeSeq, faults>>

(* No wake-up was left in the released slot: takePending looks into the     *)
(* entry another goroutine may have made by now, and keeps its own wake-up  *)
(* if there is none.                                                        *)
Steal(p) ==
  /\ pc[p] = "steal"
  /\ IF slot.held /\ slot.pending # NoWake
     THEN /\ wake' = [wake EXCEPT ![p] = slot.pending]
          /\ slot' = [slot EXCEPT !.pending = NoWake]
     ELSE UNCHANGED <<wake, slot>>
  /\ Goto(p, "reacquire")
  /\ UNCHANGED <<dbVars, wakes, stops, phase, noticeSeq, faults,
                 cur, seen, built, next, cancelled>>

(* Mutant: the slot is re-entered without looking whether it is still free. *)
ReacquireBlind(p) ==
  /\ pc[p] = "reacquire"
  /\ slot' = [FreeSlot EXCEPT !.held = TRUE, !.cancel = {p}]
  /\ Goto(p, "ensure")
  /\ UNCHANGED <<dbVars, wakes, stops, phase, noticeSeq, faults,
                 wake, cur, seen, built, next, cancelled>>

(* acquire(botID, nil) and, if it succeeds, the next turn of the slot with  *)
(* a context of its own.                                                    *)
Reacquire(p) ==
  /\ pc[p] = "reacquire"
  /\ IF slot.held
     THEN /\ Goto(p, "idle")
          /\ wake' = [wake EXCEPT ![p] = NoWake]
          /\ UNCHANGED slot
     ELSE /\ slot' = [FreeSlot EXCEPT !.held = TRUE, !.cancel = {p}]
          /\ Goto(p, "ensure")
          /\ UNCHANGED wake
  /\ UNCHANGED <<dbVars, wakes, stops, phase, noticeSeq, faults,
                 cur, seen, built, next, cancelled>>

-----------------------------------------------------------------------------
(* The loop: safe point, build the request, register it, stream, commit *)

(* safePoint at the top of the loop; seen is the local copy of the run's     *)
(* watermark.                                                                *)
Top(p) ==
  /\ pc[p] = "top"
  /\ seen' = [seen EXCEPT ![p] = max(@, runs[cur[p]].through)]
  /\ Goto(p, IF runs[cur[p]].stop THEN "stop" ELSE "build")
  /\ UNCHANGED <<dbVars, slot, wakes, stops, phase, noticeSeq, faults,
                 wake, cur, built, next, cancelled>>

(* buildRunContext reads the ledger to its end; a compaction may precede     *)
(* the read.                                                                 *)
Build(p) ==
  /\ pc[p] = "build"
  /\ built' = [built EXCEPT ![p] = max(seen[p], LastSeq)]
  /\ Goto(p, "begin")
  /\ UNCHANGED <<dbVars, slot, wakes, stops, phase, noticeSeq, faults,
                 wake, cur, seen, next, cancelled>>

Registrable(r) == Unfinished(r) /\ ~runs[r].stop

(* beginModelRequest: registered only if the run is neither finished nor     *)
(* asked to stop, in one transaction.                                        *)
Begin(p) ==
  /\ pc[p] = "begin"
  /\ LET r == cur[p] IN
     IF ~Registrable(r)
     THEN /\ Goto(p, "stop")
          /\ UNCHANGED <<runs, next>>
     ELSE /\ runs' = [runs EXCEPT ![r].reqs = Append(@, built[p])]
          /\ next' = [next EXCEPT ![p] = "stream"]
          /\ Goto(p, "advRun")
  /\ UNCHANGED <<nextSeq, inputs, offered, slot, wakes, stops, phase, noticeSeq,
                 faults, wake, cur, seen, built, cancelled>>

(* advanceInputWatermarks: first the watermark of the run, ...               *)
AdvanceRun(p) ==
  /\ pc[p] = "advRun"
  /\ IF built[p] <= seen[p]
     THEN /\ Goto(p, next[p])
          /\ UNCHANGED <<runs, seen>>
     ELSE /\ seen' = [seen EXCEPT ![p] = built[p]]
          /\ runs' = [runs EXCEPT ![cur[p]].through = max(@, built[p])]
          /\ Goto(p, "advBot")
  /\ UNCHANGED <<nextSeq, inputs, offered, slot, wakes, stops, phase, noticeSeq,
                 faults, wake, cur, built, next, cancelled>>

(* Mutant: the watermark is the end of the ledger now, not when it was read. *)
AdvanceBotToEnd(p) ==
  /\ pc[p] = "advBot"
  /\ offered' = max(offered, LastSeq)
  /\ Goto(p, next[p])
  /\ UNCHANGED <<nextSeq, inputs, runs, slot, wakes, stops, phase, noticeSeq,
                 faults, wake, cur, seen, built, next, cancelled>>

(* ... then that of the bot, in a statement of its own; neither goes back.   *)
AdvanceBot(p) ==
  /\ pc[p] = "advBot"
  /\ offered' = max(offered, built[p])
  /\ Goto(p, next[p])
  /\ UNCHANGED <<nextSeq, inputs, runs, slot, wakes, stops, phase, noticeSeq,
                 faults, wake, cur, seen, built, next, cancelled>>

(* A message of the bot (a reply, a lifecycle notice) takes a number too.    *)
AppendNote == nextSeq' = nextSeq + 1

(* The stream succeeds: the turn is committed and the next safe points       *)
(* decide between stopping, the tool calls, new input and finishing.         *)
StreamOK(p) ==
  /\ pc[p] = "stream"
  /\ AppendNote
  /\ LET r == cur[p] IN
     /\ seen' = [seen EXCEPT ![p] = max(@, runs[r].through)]
     /\ IF runs[r].stop THEN Goto(p, "stop")
        ELSE \/ Len(runs[r].reqs) < MaxReqs /\ Goto(p, "calls")
             \/ Goto(p, IF InputSince(seen'[p]) THEN "top" ELSE "try")
  /\ UNCHANGED <<inputs, offered, runs, slot, wakes, stops, phase, noticeSeq,
                 faults, wake, cur, built, next, cancelled>>

(* The stream fails, or is cut off by the cancelled context.  A stop found   *)
(* at the safe point leaves a notice; otherwise the request is retried as    *)
(* it was built, the context is compacted and built again, or the run fails. *)
StreamError(p) ==
  /\ pc[p] = "stream"
  /\ LET r == cur[p] IN
     /\ seen' = [seen EXCEPT ![p] = max(@, runs[r].through)]
     /\ IF runs[r].stop
        THEN AppendNote /\ Goto(p, "stop")
        ELSE /\ UNCHANGED nextSeq
             /\ \/ Len(runs[r].reqs) < MaxReqs /\ Goto(p, "begin")
                \/ Len(runs[r].reqs) < MaxReqs /\ Goto(p, "top")
                \/ Goto(p, "fail")
  /\ UNCHANGED <<inputs, offered, runs, slot, wakes, stops, phase, noticeSeq,
                 faults, wake, cur, built, next, cancelled>>

(* The tool calls of the turn have been run or handed over.                  *)
CallsDone(p) ==
  /\ pc[p] = "calls"
  /\ Goto(p, "top")
  /\ UNCHANGED <<dbVars, slot, wakes, stops, phase, noticeSeq, faults,
                 wake, cur, seen, built, next, cancelled>>

(* fs_stop, by which the bot stops its own run.                              *)
CallsStop(p) ==
  /\ pc[p] = "calls"
  /\ runs' = [runs EXCEPT ![cur[p]].stop = @ \/ Unfinished(cur[p])]
  /\ Goto(p, "top")
  /\ UNCHANGED <<nextSeq, inputs, offered, slot, wakes, stops, phase, noticeSeq,
                 faults, wake, cur, seen, built, next, cancelled>>

(* Mutants: no last look for new input; a stop accepted meanwhile is missed. *)
CompletableUnseen(p)  == Unfinished(cur[p]) /\ ~runs[cur[p]].stop
CompletableStopped(p) == Unfinished(cur[p]) /\ ~InputSince(seen[p])

Completable(p) == /\ Unfinished(cur[p])
                  /\ ~runs[cur[p]].stop
                  /\ ~InputSince(seen[p])

(* tryFinishRun: the last look for new input and the transition to           *)
(* completed are one transaction.                                            *)
TryFinish(p) ==
  /\ pc[p] = "try"
  /\ LET r == cur[p] IN
     IF ~Completable(p)
     THEN /\ Goto(p, "top")
          /\ UNCHANGED runs
     ELSE /\ runs' = [runs EXCEPT ![r].status = "completed", ![r].through = seen[p]]
          /\ Goto(p, "release")
  /\ UNCHANGED <<nextSeq, inputs, offered, slot, wakes, stops, phase, noticeSeq,
                 faults, wake, cur, seen, built, next, cancelled>>

FinishStopped(r) ==
  IF Unfinished(r) THEN [runs EXCEPT ![r].status = "stopped"] ELSE runs

(* finishFailedDetail: a stop that was accepted meanwhile wins.              *)
FinishFailed(r) ==
  IF Unfinished(r) /\ ~runs[r].stop THEN [runs EXCEPT ![r].status = "failed"]
                                    ELSE FinishStopped(r)

Stopped(p) ==
  /\ pc[p] = "stop"
  /\ runs' = FinishStopped(cur[p])
  /\ Goto(p, "release")
  /\ UNCHANGED <<nextSeq, inputs, offered, slot, wakes, stops, phase, noticeSeq,
                 faults, wake, cur, seen, built, next, cancelled>>

Failed(p) ==
  /\ pc[p] = "fail"
  /\ runs' = FinishFailed(cur[p])
  /\ Goto(p, "release")
  /\ UNCHANGED <<nextSeq, inputs, offered, slot, wakes, stops, phase, noticeSeq,
                 faults, wake, cur, seen, built, next, cancelled>>

-----------------------------------------------------------------------------
(* The stop button: RequestStop, the grace timer, hardStopRun *)

(* The first request appends the user message "stop", wakes the slot and     *)
(* arms the timer with the number of requests registered so far.             *)
RequestStop(r) ==
  /\ phase = "up"
  /\ Unfinished(r)
  /\ runs[r].stopMsg = 0
  /\ Cardinality(inputs) < MaxInputs
  /\ Cardinality(stops) < MaxStops
  /\ nextSeq' = nextSeq + 1
  /\ inputs' = inputs \cup {nextSeq}
  /\ runs' = [runs EXCEPT ![r].stopMsg = nextSeq]
  /\ wakes' = wakes \cup {[wake |-> InputWake(nextSeq), at |-> "acquire"]}
  /\ stops' = stops \cup {[run |-> r, seq |-> nextSeq, ord |-> Len(runs[r].reqs),
                           at |-> "armed"]}
  /\ UNCHANGED <<offered, slot, phase, noticeSeq, faults, gVars>>

(* Clicked again while the run goes on: no grace, whatever has been sent.    *)
RequestStopAgain(r) ==
  /\ phase = "up"
  /\ Unfinished(r)
  /\ runs[r].stopMsg # 0
  /\ Cardinality(stops) < MaxStops
  /\ stops' = stops \cup {[run |-> r, seq |-> runs[r].stopMsg, ord |-> -1,
                           at |-> "armed"]}
  /\ UNCHANGED <<dbVars, slot, wakes, phase, noticeSeq, faults, gVars>>

(* Mutants: the timer ignores what was registered; any later request counts. *)
ProgressNever(h)      == FALSE
ProgressAnyRequest(h) == h.ord >= 0 /\ Len(runs[h.run].reqs) > h.ord

(* A request that was registered after the stop was accepted and that        *)
(* contains the stop message is progress: the bot decides, no hard stop.     *)
Progress(h) ==
  /\ h.ord >= 0
  /\ \E i \in DOMAIN runs[h.run].reqs : /\ i > h.ord
                                        /\ runs[h.run].reqs[i] >= h.seq

(* MarkStopRequested, one conditional UPDATE. *)
HardMark(h) ==
  /\ h.at = "armed"
  /\ IF Unfinished(h.run) /\ ~Progress(h)
     THEN /\ runs' = [runs EXCEPT ![h.run].stop = TRUE]
          /\ stops' = (stops \ {h}) \cup {[h EXCEPT !.at = "read"]}
     ELSE /\ UNCHANGED runs
          /\ stops' = stops \ {h}
  /\ UNCHANGED <<nextSeq, inputs, offered, slot, wakes, phase, noticeSeq, faults,
                 gVars>>

(* The stop message counts as consumed: the watermarks advance to it, unless *)
(* the run as it is read here is already past it.                            *)
HardRead(h) ==
  /\ h.at = "read"
  /\ stops' = (stops \ {h}) \cup
       {[h EXCEPT !.at = IF h.seq <= runs[h.run].through THEN "cancel" ELSE "advRun"]}
  /\ UNCHANGED <<dbVars, slot, wakes, phase, noticeSeq, faults, gVars>>

HardAdvanceRun(h) ==
  /\ h.at = "advRun"
  /\ runs' = [runs EXCEPT ![h.run].through = max(@, h.seq)]
  /\ stops' = (stops \ {h}) \cup {[h EXCEPT !.at = "advBot"]}
  /\ UNCHANGED <<nextSeq, inputs, offered, slot, wakes, phase, noticeSeq, faults,
                 gVars>>

HardAdvanceBot(h) ==
  /\ h.at = "advBot"
  /\ offered' = max(offered, h.seq)
  /\ stops' = (stops \ {h}) \cup {[h EXCEPT !.at = "cancel"]}
  /\ UNCHANGED <<nextSeq, inputs, runs, slot, wakes, phase, noticeSeq, faults,
                 gVars>>

(* Mutant: whatever run is in the slot by now is cancelled. *)
BoundAny(h) == slot.held

Bound(h) == slot.held /\ slot.run = h.run

(* cancelBotContext: only a slot that is bound to this run is cancelled.     *)
HardCancel(h) ==
  /\ h.at = "cancel"
  /\ stops' = stops \ {h}
  /\ cancelled' = IF Bound(h)
                  THEN [p \in Gs |-> cancelled[p] \/ p \in slot.cancel]
                  ELSE cancelled
  /\ UNCHANGED <<dbVars, slot, wakes, phase, noticeSeq, faults,
                 pc, wake, cur, seen, built, next>>

-----------------------------------------------------------------------------
(* Faults *)

Fault(kind) ==
  /\ kind \in Faults
  /\ faults < MaxFaults
  /\ faults' = faults + 1

(* The key cannot be decrypted once the run is bound, the context cannot be  *)
(* built, the request cannot be recorded, the turn cannot be committed.      *)
Fail(p) ==
  /\ \/ /\ pc[p] = "bind"
        /\ slot' = [slot EXCEPT !.run = cur[p]]
     \/ /\ pc[p] \in {"build", "begin", "stream"}
        /\ UNCHANGED slot
  /\ Fault("failure")
  /\ Goto(p, "fail")
  /\ UNCHANGED <<dbVars, wakes, stops, phase, noticeSeq,
                 wake, cur, seen, built, next, cancelled>>

(* The input does not fit and cannot be compacted, before the request or     *)
(* after the model refused it: it counts as consumed, a notice is left and   *)
(* the run fails (finishCompactionFailed).                                   *)
CompactionFail(p) ==
  /\ \/ /\ pc[p] = "build"
        /\ built' = [built EXCEPT ![p] = max(seen[p], LastSeq)]
     \/ /\ pc[p] = "stream"
        /\ ~runs[cur[p]].stop
        /\ UNCHANGED built
  /\ Fault("compaction")
  /\ next' = [next EXCEPT ![p] = "notice"]
  /\ Goto(p, "advRun")
  /\ UNCHANGED <<dbVars, slot, wakes, stops, phase, noticeSeq,
                 wake, cur, seen, cancelled>>

CompactionNotice(p) ==
  /\ pc[p] = "notice"
  /\ AppendNote
  /\ Goto(p, "fail")
  /\ UNCHANGED <<inputs, offered, runs, slot, wakes, stops, phase, noticeSeq,
                 faults, wake, cur, seen, built, next, cancelled>>

(* The transaction that ends the run fails: the run stays running without a  *)
(* goroutine, until a wake-up resumes it.                                    *)
FinishLost(p) ==
  /\ pc[p] \in {"stop", "fail"}
  /\ Fault("write")
  /\ Goto(p, "release")
  /\ UNCHANGED <<dbVars, slot, wakes, stops, phase, noticeSeq,
                 wake, cur, seen, built, next, cancelled>>

(* Mutant: the panic handler only releases the slot. *)
PanicLeavesRun(p) ==
  /\ pc[p] \in Executing \ {"take", "release"}
  /\ Fault("panic")
  /\ slot' = FreeSlot
  /\ Forget(p)
  /\ wake' = [wake EXCEPT ![p] = NoWake]
  /\ Goto(p, "idle")
  /\ UNCHANGED <<dbVars, wakes, stops, phase, noticeSeq>>

(* A panic of the goroutine in the slot: its unfinished run fails, the slot  *)
(* is released, and a requeue that was marked in it is forgotten.            *)
Panic(p) ==
  /\ pc[p] \in Executing \ {"take", "release"}
  /\ Fault("panic")
  /\ runs' = IF NoActiveRun THEN runs
             ELSE FinishFailed(CHOOSE r \in RunId : Unfinished(r))
  /\ slot' = FreeSlot
  /\ Forget(p)
  /\ wake' = [wake EXCEPT ![p] = NoWake]
  /\ Goto(p, "idle")
  /\ UNCHANGED <<nextSeq, inputs, offered, wakes, stops, phase, noticeSeq>>

(* The process dies; what it had in memory is gone. *)
Crash ==
  /\ phase \in {"up", "notice"}
  /\ Fault("crash")
  /\ phase' = "down"
  /\ slot' = FreeSlot
  /\ wakes' = {}
  /\ stops' = {}
  /\ pc' = [p \in Gs |-> "idle"]
  /\ wake' = [p \in Gs |-> NoWake]
  /\ cur' = [p \in Gs |-> NoRun]
  /\ seen' = [p \in Gs |-> 0]
  /\ built' = [p \in Gs |-> 0]
  /\ next' = [p \in Gs |-> "stream"]
  /\ cancelled' = [p \in Gs |-> FALSE]
  /\ UNCHANGED <<dbVars, noticeSeq>>

(* RecoverOnStartup fails the run that was under way, stopped or not ...     *)
RecoverRun ==
  /\ phase = "down"
  /\ runs' = [r \in RunId |-> IF Unfinished(r) THEN [runs[r] EXCEPT !.status = "failed"]
                                               ELSE runs[r]]
  /\ phase' = IF NoActiveRun THEN "up" ELSE "notice"
  /\ UNCHANGED <<nextSeq, inputs, offered, slot, wakes, stops, noticeSeq, faults,
                 gVars>>

(* Mutant: the notice is left, but nobody is woken for it. *)
RecoverNoticeQuiet ==
  /\ phase = "notice"
  /\ phase' = "up"
  /\ IF noticeSeq = 0 THEN /\ AppendNote
                           /\ noticeSeq' = nextSeq
                      ELSE UNCHANGED <<nextSeq, noticeSeq>>
  /\ UNCHANGED <<inputs, offered, runs, slot, wakes, stops, faults, gVars>>

(* ... then leaves a notice, one per minute, and wakes the bot for it.       *)
RecoverNotice ==
  /\ phase = "notice"
  /\ phase' = "up"
  /\ IF noticeSeq = 0 THEN /\ AppendNote
                           /\ noticeSeq' = nextSeq
                      ELSE UNCHANGED <<nextSeq, noticeSeq>>
  /\ wakes' = wakes \cup {[wake |-> RecoveryWake(noticeSeq'), at |-> "acquire"]}
  /\ UNCHANGED <<inputs, offered, runs, slot, stops, faults, gVars>>

(* The clock reaches the next minute. *)
NextMinute ==
  /\ noticeSeq # 0
  /\ noticeSeq' = 0
  /\ UNCHANGED <<dbVars, slot, wakes, stops, phase, faults, gVars>>

-----------------------------------------------------------------------------
Step(p) ==
  \/ Take(p) \/ Ensure(p) \/ Create(p) \/ Bind(p) \/ Top(p) \/ Build(p)
  \/ Begin(p) \/ AdvanceRun(p) \/ AdvanceBot(p)
  \/ CompactionNotice(p) \/ TryFinish(p) \/ Stopped(p) \/ Failed(p)
  \/ Release(p) \/ Steal(p) \/ Reacquire(p)

Model(p)     == StreamOK(p) \/ StreamError(p) \/ CallsDone(p) \/ CallsStop(p)
Broken(p)    == Fail(p) \/ CompactionFail(p) \/ FinishLost(p) \/ Panic(p)
HardStop(h)  == \/ HardMark(h) \/ HardRead(h) \/ HardAdvanceRun(h)
                \/ HardAdvanceBot(h) \/ HardCancel(h)
WakeUp(w)    == WakeAcquire(w) \/ WakeBusy(w) \/ WakeMark(w)
Recover      == RecoverRun \/ RecoverNotice

Next ==
  \/ SendInput \/ Scan \/ Crash \/ Recover \/ NextMinute
  \/ \E w \in wakes : WakeUp(w)
  \/ \E p \in Gs : Step(p) \/ Model(p) \/ Broken(p)
  \/ \E r \in RunId : RequestStop(r) \/ RequestStopAgain(r)
  \/ \E h \in stops : HardStop(h)

Spec == Init /\ [][Next]_vars

(* The scheduler runs every goroutine and timer, the scan ticks, and a       *)
(* crashed process is restarted.                                             *)
Progressing ==
  /\ WF_vars(Scan)
  /\ WF_vars(Recover)
  /\ \A kind \in {"input", "scan", "recovery"} :
       WF_vars(\E w \in wakes : w.wake.key[1] = kind /\ WakeUp(w))
  /\ \A r \in RunId, ord \in {-1} \cup 0..MaxReqs :
       WF_vars(\E h \in stops : h.run = r /\ h.ord = ord /\ HardStop(h))
  /\ \A p \in Gs : WF_vars(Step(p))

(* A model call or a tool call may hang; it ends when its context is cut.    *)
Interrupted(p) == cancelled[p] /\ (StreamError(p) \/ CallsDone(p))

HangingSpec == Spec /\ Progressing /\ \A p \in Gs : WF_vars(Interrupted(p))

(* With the watchdogs of the stream and of the tools, it ends anyway.        *)
FairSpec == Spec /\ Progressing /\ \A p \in Gs : WF_vars(Model(p))

-----------------------------------------------------------------------------
(* The rows of the database, the memory of the process, the locals of its    *)
(* goroutines: a goroutine in the loop has a run, and forgets it when it     *)
(* gives the slot back.                                                      *)
DbOK ==
  /\ nextSeq \in Nat \ {0}
  /\ inputs \in SUBSET Nat
  /\ offered \in Nat
  /\ runs \in [RunId -> Run]

MemoryOK ==
  /\ slot \in [held : BOOLEAN, pending : Wake, requeue : BOOLEAN,
               run : RunId \cup {NoRun}, cancel : SUBSET Gs]
  /\ wakes \in SUBSET [wake : Wake, at : {"acquire", "mark"}]
  /\ stops \in SUBSET [run : RunId, seq : Nat, ord : Nat \cup {-1},
                       at : {"armed", "read", "advRun", "advBot", "cancel"}]
  /\ phase \in {"up", "down", "notice"}
  /\ noticeSeq \in Nat
  /\ faults \in Nat

LocalsOK ==
  /\ pc \in [Gs -> Executing \cup Between \cup {"idle"}]
  /\ wake \in [Gs -> Wake]
  /\ cur \in [Gs -> RunId \cup {NoRun}]
  /\ seen \in [Gs -> Nat]
  /\ built \in [Gs -> Nat]
  /\ next \in [Gs -> {"stream", "notice"}]
  /\ cancelled \in [Gs -> BOOLEAN]
  /\ \A p \in Gs : /\ pc[p] \in Looping => cur[p] # NoRun
                   /\ cur[p] # NoRun => pc[p] \in Looping \cup {"release"}

TypeOK == DbOK /\ MemoryOK /\ LocalsOK

(* Only the goroutine that holds the slot executes the loop, across release, *)
(* re-entry, panics and lost wake-ups.                                       *)
OneExecutor ==
  /\ \A p, q \in Gs : pc[p] \in Executing /\ pc[q] \in Executing => p = q
  /\ slot.held <=> \E p \in Gs : pc[p] \in Executing

(* The context of a goroutine is cut off only if the run it executes was     *)
(* asked to stop: a late hard stop never hits the run that took the slot     *)
(* over.                                                                     *)
CancelsOwnRun ==
  \A p \in Gs : cancelled[p] /\ pc[p] \in Executing /\ cur[p] # NoRun
                  => runs[cur[p]].stop

(* Why an input at or below the watermark counts as consumed.                *)
InRequest(n)  == \E r \in RunId : \E i \in DOMAIN runs[r].reqs : runs[r].reqs[i] >= n
HardStopped(n) == \E r \in RunId : runs[r].stop /\ runs[r].stopMsg >= n

(* No input is skipped: what lies below the watermark was part of a          *)
(* registered model request or came no later than the message of a stop that *)
(* was carried out.  (When the context cannot be compacted, the code gives   *)
(* the input up with a notice: "compaction" is not among Faults here.)       *)
OfferedJustified ==
  "compaction" \notin Faults => \A n \in inputs : n <= offered => InRequest(n) \/ HardStopped(n)

(* A run is completed only when every input that has arrived by then is      *)
(* behind the watermark of the bot.                                          *)
CompletedDrained ==
  [][\A r \in RunId : Unfinished(r) /\ runs'[r].status = "completed"
        => ~\E n \in inputs' : n > offered']_vars

(* A run that is under way has a goroutine that executes it, whatever        *)
(* panicked or was cancelled: the scan passes over a bot with an active run, *)
(* so a run without one would hang (finishRunAfterPanic).  The code accepts  *)
(* that when the transaction that ends the run fails ("write").              *)
RunHasExecutor ==
  "write" \notin Faults /\ phase = "up" => \A r \in RunId : Unfinished(r) =>
    \E p \in Gs : pc[p] \in Executing /\ cur[p] = r

(* Once a run is asked to stop it registers no request, and nothing but a    *)
(* crash lets it end as anything but stopped.                                *)
StopIsFinal ==
  [][\A r \in RunId : runs[r].stop =>
       /\ runs'[r].reqs = runs[r].reqs
       /\ Unfinished(r) => \/ runs'[r].status \in {"running", "stopped"}
                           \/ phase = "down"]_vars

Delivered(r) == \E i \in DOMAIN runs[r].reqs : runs[r].reqs[i] >= runs[r].stopMsg

(* The grace timer never cuts off a stream that carries the stop message.    *)
GraceSparesProgress ==
  [][\A h \in stops : HardCancel(h) /\ h.ord >= 0
        => \A p \in Gs : cancelled'[p] /\ ~cancelled[p] => ~Delivered(cur[p])]_vars

Contract == INSTANCE MainlineContract WITH
  Runs <- RunId, GivesUp <- "compaction" \in Faults,
  last <- LastSeq, up <- (phase # "down"),
  status <- [r \in RunId |-> runs[r].status], asked <- [r \in RunId |-> runs[r].stopMsg],
  stop <- [r \in RunId |-> runs[r].stop], reqs <- [r \in RunId |-> runs[r].reqs]

(* The slot, its wake-ups, the loop with its two watermarks, the stops and   *)
(* the recovery implement the contract of the main conversation: whoever     *)
(* takes the slot over, retries, stops or panics, no request contains less   *)
(* than was handed over before, and numbers, requests, the watermark of the  *)
(* bot and the ends of its runs agree.                                       *)
KeepsContract == Contract!Spec

(* An accepted stop ends the run or reaches the model, and a run that is     *)
(* asked to stop ends, even if the model never answers.                      *)
StopHonoured ==
  \A r \in RunId :
    /\ (runs[r].stopMsg # 0) ~> (~Unfinished(r) \/ Delivered(r))
    /\ runs[r].stop ~> ~Unfinished(r)

(* As long as nothing fails, every input is eventually handed to the model   *)
(* or discarded by a stop that came after it, although wake-ups get lost.    *)
InputsConsumed == InputSince(offered) ~> (~InputSince(offered) \/ faults # 0)

(* No run goes on for ever, through failures, panics and restarts: a run     *)
(* left running would block the scan and the deletion of the bot.            *)
RunEnds == ~NoActiveRun ~> NoActiveRun

(* "A lost wake-up is made up for by the 5 s scan" (docs/internal/bots.md),  *)
(* and after a panic the bot "waits for the next wake-up or scan"            *)
(* (bot_runtime.go): an input beyond the watermark gets a run.               *)
ScanRestarts ==
  \A n \in 1..(2 * MaxInputs) :
    (n \in inputs /\ n > offered /\ NoActiveRun) ~> (n <= offered \/ ~NoActiveRun)

(* "The recovery notice triggers a recovery run" (docs/internal/bots.md):    *)
(* the restart that failed a run starts another, which tells the bot.        *)
RecoveryStartsRun == (phase = "notice") ~> ~NoActiveRun
=============================================================================
