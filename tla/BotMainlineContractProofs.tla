--------------------- MODULE BotMainlineContractProofs ---------------------
(***************************************************************************)
(* The main conversation of a bot implements MainlineContract.             *)
(***************************************************************************)
EXTENDS BotMainlineInputProofs

(* A goroutine in the loop has an unfinished run, and ends it as stopped   *)
(* only after it was asked to stop.                                        *)
InLoop ==
  \A p \in Gs : pc[p] \in Looping =>
    Unfinished(cur[p]) /\ (pc[p] = "stop" => runs[cur[p]].stop)

(* The watermarks are advanced to the end of a request that was registered, *)
(* and tools are called only after one.                                    *)
Requested ==
  \A p \in Gs :
    /\ pc[p] \in {"advRun", "advBot", "stream"} /\ next[p] = "stream" =>
         \E i \in DOMAIN runs[cur[p]].reqs : runs[cur[p]].reqs[i] = built[p]
    /\ pc[p] = "stream" => next[p] = "stream"
    /\ pc[p] = "calls" => runs[cur[p]].reqs # <<>>

(* What a goroutine has built, or builds again, contains all that was      *)
(* handed over, and the stop message of every earlier run that a late hard *)
(* stop may still hand over.                                               *)
Sending == {"begin", "advRun", "advBot", "stream"}
Forward ==
  \A p \in Gs : pc[p] \in Sending =>
    /\ ~runs[cur[p]].stop => offered <= built[p]
    /\ \A h \in stops : h.run # cur[p] => h.seq <= built[p]

(* No stop is under way while the process recovers.                        *)
Quiet == phase # "up" => stops = {}

CInv == InputInv /\ InLoop /\ Requested /\ Forward /\ Quiet

-----------------------------------------------------------------------------
(* The strengthening is inductive                                          *)

LEMMA QuietStep == ASSUME TypeOK, Quiet, Recovering, Next \/ UNCHANGED vars PROVE Quiet'
<1>1. CASE UNCHANGED <<stops, phase>>
  BY <1>1 DEF Quiet
<1>2. CASE Crash \/ Recover
  BY <1>2 DEF Crash, Recover, RecoverRun, RecoverNotice, Quiet
<1>3. ASSUME NEW p \in Gs, Step(p) \/ Model(p) \/ Broken(p)
      PROVE  UNCHANGED <<stops, phase>>
  BY <1>3 DEF Step, Take, Ensure, Create, Bind, Top, Build, Begin, AdvanceRun, AdvanceBot,
     CompactionNotice, TryFinish, Stopped, Failed, Release, Steal, Reacquire, Model, StreamOK,
     StreamError, CallsDone, CallsStop, Broken, Fail, CompactionFail, FinishLost, Panic
<1>4. ASSUME NEW r \in RunId, RequestStop(r) \/ RequestStopAgain(r)
      PROVE  phase' = "up"
  BY <1>4 DEF RequestStop, RequestStopAgain
<1>5. ASSUME NEW h \in stops, HardStop(h)
      PROVE  phase' = "up"
  <2>1. phase = "up"
    BY DEF Quiet
  <2>. QED
    BY <1>5, <2>1 DEF HardStop, HardMark, HardRead, HardAdvanceRun, HardAdvanceBot, HardCancel
<1>6. ASSUME NEW w \in wakes, WakeUp(w)
      PROVE  UNCHANGED <<stops, phase>>
  BY <1>6 DEF WakeUp, WakeAcquire, WakeBusy, WakeMark
<1>7. CASE SendInput \/ Scan \/ NextMinute \/ UNCHANGED vars
  BY <1>1, <1>7 DEF SendInput, Scan, NextMinute, vars
<1>. QED
  BY <1>1, <1>2, <1>3, <1>4, <1>5, <1>6, <1>7 DEF Next, Quiet

(* A run is ended by the goroutine that leaves the loop, or by recovery.   *)
LEMMA EndedBy ==
  ASSUME TypeOK, Next \/ UNCHANGED vars, NEW r \in RunId, Unfinished(r), ~Unfinished(r)'
  PROVE  phase = "down" \/ \E q \in Gs : pc[q] \in Executing /\ pc'[q] \notin Looping
<1>0. DbOK /\ MemoryOK /\ LocalsOK /\ ~StatusKept
  BY DEF TypeOK, StatusKept, Unfinished
<1>1. ASSUME NEW q \in Gs, TryFinish(q) \/ Stopped(q) \/ Failed(q) \/ Panic(q)
      PROVE  pc[q] \in Executing /\ pc'[q] \notin Looping
  <2>1. CASE TryFinish(q)
    BY <1>0, <2>1, RowsKept DEF TryFinish, Goto, LocalsOK, Executing, Looping
  <2>2. CASE Stopped(q) \/ Failed(q) \/ Panic(q)
    BY <1>0, <2>2 DEF Stopped, Failed, Panic, Goto, LocalsOK, Executing, Looping
  <2>. QED
    BY <1>1, <2>1, <2>2
<1>2. ASSUME NEW q \in Gs, Create(q)
      PROVE  FALSE
  <2>1. CASE UNCHANGED runs
    BY <1>0, <2>1, RowsKept
  <2>2. ASSUME NEW s \in RunId, runs[s].status = "none",
               runs' = [runs EXCEPT ![s] = NewRow(KeyOf(q, s))]
        PROVE  FALSE
    BY <1>0, <2>2 DEF DbOK, Unfinished
  <2>. QED
    BY <1>2, <2>1, <2>2 DEF Create
<1>3. ASSUME NEW q \in Gs, Step(q) \/ Model(q) \/ Broken(q)
      PROVE  pc[q] \in Executing /\ pc'[q] \notin Looping
  BY <1>0, <1>1, <1>2, <1>3, LoopStatus DEF Step, Broken
<1>4. ASSUME NEW h \in stops, HardStop(h) PROVE FALSE
  BY <1>0, <1>4, HardStopStatus
<1>5. ASSUME NEW s \in RunId, RequestStop(s) \/ RequestStopAgain(s) PROVE FALSE
  BY <1>0, <1>5, RequestStopStatus
<1>6. ASSUME NEW w \in wakes, WakeUp(w) PROVE FALSE
  BY <1>0, <1>6, RowsKept DEF WakeUp, WakeAcquire, WakeBusy, WakeMark, dbVars
<1>7. CASE SendInput \/ Scan \/ Crash \/ RecoverNotice \/ NextMinute \/ UNCHANGED vars
  BY <1>0, <1>7, RowsKept DEF SendInput, Scan, Crash, RecoverNotice, NextMinute, vars, dbVars
<1>8. CASE RecoverRun
  BY <1>8 DEF RecoverRun
<1>. QED
  BY <1>3, <1>4, <1>5, <1>6, <1>7, <1>8 DEF Next, Recover

(* How a goroutine of its own comes to a place in the loop.                *)
LEMMA LoopEntry ==
  ASSUME TypeOK, InLoop, NEW p \in Gs, Own(p), pc'[p] \in Looping
  PROVE  Unfinished(cur[p])' /\ (pc'[p] = "stop" => runs'[cur'[p]].stop)
<1>0. DbOK /\ LocalsOK
  BY DEF TypeOK
<1>1. CASE Ensure(p)
  BY <1>0, <1>1 DEF Ensure, LocalsOK, Goto, Looping, Executing, Unfinished, dbVars
<1>2. CASE Create(p)
  <2>1. PICK r \in RunId : \/ Goto(p, "release")
                          \/ /\ runs' = [runs EXCEPT ![r] = NewRow(KeyOf(p, r))]
                             /\ cur' = [cur EXCEPT ![p] = r] /\ Goto(p, "bind")
    BY <1>2 DEF Create
  <2>2. NewRow(KeyOf(p, r)).status = "running"
    BY DEF NewRow, Row
  <2>. QED
    BY <1>0, <2>1, <2>2 DEF LocalsOK, DbOK, Goto, Looping, Unfinished
<1>3. ASSUME pc[p] \in Looping, cur'[p] = cur[p], UNCHANGED runs,
             pc'[p] = "stop" => runs[cur[p]].stop
      PROVE  Unfinished(cur[p])' /\ (pc'[p] = "stop" => runs'[cur'[p]].stop)
  BY <1>3 DEF InLoop, Unfinished
<1>4. CASE Take(p) \/ Release(p) \/ Steal(p) \/ Reacquire(p)
  BY <1>0, <1>4 DEF Take, Release, Steal, Reacquire, LocalsOK, Goto, Looping, Executing
<1>5. CASE Bind(p) \/ Build(p) \/ AdvanceBot(p) \/ CompactionNotice(p)
  BY <1>0, <1>3, <1>5 DEF Bind, Build, AdvanceBot, CompactionNotice, LocalsOK, Goto, Looping,
                          Executing, dbVars
<1>6. CASE Top(p) \/ StreamOK(p) \/ StreamError(p) \/ CallsDone(p)
  BY <1>0, <1>3, <1>6 DEF Top, StreamOK, StreamError, CallsDone, LocalsOK, Goto, Looping,
                          Executing, dbVars
<1>7. CASE Begin(p)
  <2>1. pc[p] \in Looping /\ cur' = cur /\ cur[p] \in RunId /\ Unfinished(cur[p])
    BY <1>0, <1>7, LoopHasRun DEF Begin, InLoop, Looping, Executing
  <2>2. CASE ~Registrable(cur[p])
    BY <1>3, <1>7, <2>1, <2>2 DEF Begin, Registrable
  <2>3. CASE Registrable(cur[p])
    <3>1. pc'[p] = "advRun"
      BY <1>0, <1>7, <2>3 DEF Begin, LocalsOK, Goto
    <3>2. runs' = [runs EXCEPT ![cur[p]].reqs = Append(@, built[p])]
      BY <1>7, <2>3 DEF Begin
    <3>. QED
      BY <1>0, <2>1, <3>1, <3>2 DEF DbOK, Run, Unfinished
  <2>. QED
    BY <2>2, <2>3
<1>8. CASE AdvanceRun(p)
  <2>1. pc[p] \in Looping /\ cur' = cur /\ cur[p] \in RunId /\ Unfinished(cur[p])
    BY <1>0, <1>8, LoopHasRun DEF AdvanceRun, InLoop, Looping, Executing
  <2>2. pc'[p] # "stop"
    BY <1>0, <1>8 DEF AdvanceRun, LocalsOK, Goto
  <2>3. CASE runs' = [runs EXCEPT ![cur[p]].through = max(@, built[p])]
    BY <1>0, <2>1, <2>2, <2>3 DEF DbOK, Run, Unfinished
  <2>. QED
    BY <1>3, <1>8, <2>1, <2>2, <2>3 DEF AdvanceRun
<1>9. CASE CallsStop(p)
  <2>1. pc[p] \in Looping /\ cur' = cur /\ cur[p] \in RunId /\ Unfinished(cur[p])
    BY <1>0, <1>9, LoopHasRun DEF CallsStop, InLoop, Looping, Executing
  <2>2. pc'[p] = "top"
    BY <1>0, <1>9 DEF CallsStop, LocalsOK, Goto
  <2>. QED
    BY <1>0, <1>9, <2>1, <2>2 DEF CallsStop, DbOK, Run, Unfinished
<1>10. CASE TryFinish(p)
  <2>1. pc[p] \in Looping /\ cur' = cur
    BY <1>10 DEF TryFinish, Looping, Executing
  <2>. QED
    BY <1>0, <1>3, <1>10, <2>1 DEF TryFinish, LocalsOK, Goto, Looping
<1>11. CASE Stopped(p) \/ Failed(p) \/ FinishLost(p) \/ Panic(p)
  BY <1>0, <1>11 DEF Stopped, Failed, FinishLost, Panic, LocalsOK, Goto, Looping, Executing
<1>12. CASE Fail(p) \/ CompactionFail(p)
  BY <1>0, <1>3, <1>12 DEF Fail, CompactionFail, LocalsOK, Goto, Looping, Executing, dbVars
<1>. QED
  BY <1>1, <1>2, <1>4, <1>5, <1>6, <1>7, <1>8, <1>9, <1>10, <1>11, <1>12
     DEF Own, Step, Model, Broken

LEMMA InLoopStep ==
  ASSUME TypeOK, OneExecutor, StopMarked, Recovering, InLoop, Next \/ UNCHANGED vars
  PROVE  InLoop'
<1>. SUFFICES ASSUME NEW p \in Gs, pc'[p] \in Looping
              PROVE  Unfinished(cur[p])' /\ (pc'[p] = "stop" => runs'[cur'[p]].stop)
  BY DEF InLoop
<1>0. DbOK /\ LocalsOK
  BY DEF TypeOK
<1>1. CASE LocalKept(p)
  <2>1. /\ pc[p] \in Looping /\ pc'[p] = pc[p] /\ cur'[p] = cur[p] /\ cur[p] \in RunId
        /\ Unfinished(cur[p])
    BY <1>0, <1>1, LoopHasRun DEF LocalKept, InLoop
  <2>2. phase # "down" /\ pc[p] \in Executing
    BY <2>1 DEF Recovering, Looping, Executing
  <2>3. ASSUME NEW q \in Gs, pc[q] \in Executing, pc'[q] \notin Looping
        PROVE  FALSE
    BY <2>2, <2>3 DEF OneExecutor
  <2>4. Unfinished(cur[p])'
    <3>1. Unfinished(cur[p]) /\ runs'[cur[p]].status = "running"
      BY <2>1, <2>2, <2>3, EndedBy DEF Unfinished
    <3>. QED
      BY <2>1, <3>1 DEF Unfinished
  <2>5. pc'[p] = "stop" => runs'[cur'[p]].stop
    BY <2>1, StopStays DEF InLoop
  <2>. QED
    BY <2>4, <2>5
<1>2. CASE Started(p) \/ Crash
  BY <1>2 DEF Started, Crash, Looping, Executing
<1>3. CASE Own(p)
  BY <1>3, LoopEntry
<1>. QED
  BY <1>1, <1>2, <1>3, LocalSteps

(* How a goroutine of its own comes behind a request.                      *)
LEMMA StreamEntry ==
  ASSUME TypeOK, NEW p \in Gs, Own(p), pc'[p] = "stream"
  PROVE  /\ pc[p] \in {"advRun", "advBot"} /\ next[p] = "stream"
         /\ UNCHANGED <<cur, built, next>>
<1>0. LocalsOK
  BY DEF TypeOK
<1>1. CASE AdvanceRun(p)
  BY <1>0, <1>1 DEF AdvanceRun, LocalsOK, Goto
<1>2. CASE AdvanceBot(p)
  BY <1>0, <1>2 DEF AdvanceBot, LocalsOK, Goto
<1>3. CASE Ensure(p) \/ Create(p) \/ Top(p) \/ Begin(p)
  BY <1>0, <1>3 DEF Ensure, Create, Top, Begin, LocalsOK, Goto
<1>4. CASE Take(p) \/ Bind(p) \/ Build(p) \/ CompactionNotice(p) \/ TryFinish(p)
  BY <1>0, <1>4 DEF Take, Bind, Build, CompactionNotice, TryFinish, LocalsOK, Goto
<1>5. CASE Stopped(p) \/ Failed(p) \/ Release(p) \/ Steal(p) \/ Reacquire(p)
  BY <1>0, <1>5 DEF Stopped, Failed, Release, Steal, Reacquire, LocalsOK, Goto
<1>6. CASE StreamOK(p) \/ StreamError(p) \/ CallsDone(p) \/ CallsStop(p)
  BY <1>0, <1>6 DEF StreamOK, StreamError, CallsDone, CallsStop, LocalsOK, Goto
<1>7. CASE Fail(p) \/ CompactionFail(p) \/ FinishLost(p) \/ Panic(p)
  BY <1>0, <1>7 DEF Fail, CompactionFail, FinishLost, Panic, LocalsOK, Goto
<1>. QED
  BY <1>1, <1>2, <1>3, <1>4, <1>5, <1>6, <1>7 DEF Own, Step, Model, Broken

(* ... and to the tool calls of a turn.                                    *)
LEMMA CallsEntry ==
  ASSUME TypeOK, NEW p \in Gs, Own(p), pc'[p] = "calls"
  PROVE  pc[p] = "stream" /\ UNCHANGED <<cur, runs>>
<1>0. LocalsOK
  BY DEF TypeOK
<1>1. CASE StreamOK(p)
  BY <1>0, <1>1 DEF StreamOK, LocalsOK, Goto
<1>2. CASE AdvanceRun(p) \/ AdvanceBot(p)
  BY <1>0, <1>2 DEF AdvanceRun, AdvanceBot, LocalsOK, Goto
<1>3. CASE Ensure(p) \/ Create(p) \/ Top(p) \/ Begin(p)
  BY <1>0, <1>3 DEF Ensure, Create, Top, Begin, LocalsOK, Goto
<1>4. CASE Take(p) \/ Bind(p) \/ Build(p) \/ CompactionNotice(p) \/ TryFinish(p)
  BY <1>0, <1>4 DEF Take, Bind, Build, CompactionNotice, TryFinish, LocalsOK, Goto
<1>5. CASE Stopped(p) \/ Failed(p) \/ Release(p) \/ Steal(p) \/ Reacquire(p)
  BY <1>0, <1>5 DEF Stopped, Failed, Release, Steal, Reacquire, LocalsOK, Goto
<1>6. CASE StreamError(p) \/ CallsDone(p) \/ CallsStop(p)
  BY <1>0, <1>6 DEF StreamError, CallsDone, CallsStop, LocalsOK, Goto
<1>7. CASE Fail(p) \/ CompactionFail(p) \/ FinishLost(p) \/ Panic(p)
  BY <1>0, <1>7 DEF Fail, CompactionFail, FinishLost, Panic, LocalsOK, Goto
<1>. QED
  BY <1>1, <1>2, <1>3, <1>4, <1>5, <1>6, <1>7 DEF Own, Step, Model, Broken

LEMMA RequestedStep ==
  ASSUME TypeOK, Fresh, Requested, Next \/ UNCHANGED vars
  PROVE  Requested'
<1>. SUFFICES ASSUME NEW p \in Gs
              PROVE  /\ pc'[p] \in {"advRun", "advBot", "stream"} /\ next'[p] = "stream" =>
                          \E i \in DOMAIN runs'[cur'[p]].reqs : runs'[cur'[p]].reqs[i] = built'[p]
                     /\ pc'[p] = "stream" => next'[p] = "stream"
                     /\ pc'[p] = "calls" => runs'[cur'[p]].reqs # <<>>
  BY DEF Requested
<1>0. LocalsOK
  BY DEF TypeOK
<1>1. ASSUME pc[p] \in {"advRun", "advBot", "stream"}, next[p] = "stream"
      PROVE  \E i \in DOMAIN runs'[cur[p]].reqs : runs'[cur[p]].reqs[i] = built[p]
  <2>1. cur[p] \in RunId
    BY <1>0, <1>1, LoopHasRun DEF Looping, Executing
  <2>2. PICK i \in DOMAIN runs[cur[p]].reqs : runs[cur[p]].reqs[i] = built[p]
    BY <1>1 DEF Requested
  <2>3. i \in DOMAIN runs'[cur[p]].reqs /\ runs'[cur[p]].reqs[i] = runs[cur[p]].reqs[i]
    BY <2>1, <2>2, RequestsGrow
  <2>. QED
    BY <2>2, <2>3
<1>2. CASE LocalKept(p)
  <2>1. ASSUME pc[p] = "calls"
        PROVE  runs'[cur[p]].reqs # <<>>
    <3>1. cur[p] \in RunId
      BY <1>0, <2>1, LoopHasRun DEF Looping, Executing
    <3>2. runs[cur[p]].reqs # <<>> /\ runs[cur[p]].reqs \in Seq(Nat)
      BY <2>1, <3>1 DEF Requested, TypeOK, DbOK, Run
    <3>3. 1 \in DOMAIN runs[cur[p]].reqs
      BY <3>2
    <3>4. 1 \in DOMAIN runs'[cur[p]].reqs
      BY <3>1, <3>3, RequestsGrow
    <3>. QED
      BY <3>4
  <2>. QED
    BY <1>1, <1>2, <2>1 DEF LocalKept, Requested
<1>3. CASE Started(p) \/ Crash
  BY <1>3 DEF Started, Crash
<1>4. CASE Own(p)
  <2>1. CASE pc'[p] = "stream"
    BY <1>1, <1>4, <2>1, StreamEntry
  <2>2. CASE pc'[p] = "calls"
    <3>1. pc[p] = "stream" /\ UNCHANGED <<cur, runs>>
      BY <1>4, <2>2, CallsEntry
    <3>2. PICK i \in DOMAIN runs[cur[p]].reqs : runs[cur[p]].reqs[i] = built[p]
      BY <3>1 DEF Requested
    <3>3. DOMAIN <<>> = {}
      OBVIOUS
    <3>. QED
      BY <2>2, <3>1, <3>2, <3>3
  <2>3. ASSUME pc'[p] \in {"advRun", "advBot"}, next'[p] = "stream"
        PROVE  \E i \in DOMAIN runs'[cur'[p]].reqs : runs'[cur'[p]].reqs[i] = built'[p]
    <3>1. CASE Begin(p) /\ Registrable(cur[p])
      <4>1. cur[p] \in RunId /\ built[p] \in Nat
        BY <1>0, <3>1, LoopHasRun DEF Begin, Looping, Executing, LocalsOK
      <4>2. runs' = [runs EXCEPT ![cur[p]].reqs = Append(@, built[p])] /\ UNCHANGED <<cur, built>>
        BY <3>1 DEF Begin
      <4>3. runs[cur[p]].reqs \in Seq(Nat)
        BY <4>1 DEF TypeOK, DbOK, Run
      <4>4. runs'[cur[p]].reqs = Append(runs[cur[p]].reqs, built[p])
        BY <4>1, <4>2 DEF TypeOK, DbOK, Run
      <4>5. /\ Len(runs[cur[p]].reqs) + 1 \in DOMAIN runs'[cur[p]].reqs
            /\ runs'[cur[p]].reqs[Len(runs[cur[p]].reqs) + 1] = built[p]
        BY <4>1, <4>3, <4>4
      <4>. QED
        BY <4>2, <4>5
    <3>2. CASE AdvanceRun(p) /\ pc[p] = "advRun" /\ UNCHANGED <<cur, built, next>>
      BY <1>1, <2>3, <3>2
    <3>. QED
      BY <1>4, <2>3, <3>1, <3>2, AdvancingStep
  <2>. QED
    BY <2>1, <2>2, <2>3
<1>. QED
  BY <1>2, <1>3, <1>4, LocalSteps

(* How a goroutine of its own comes between building a request and the end *)
(* of its stream: it was there before, or it has just read the ledger.     *)
LEMMA SendingEntry ==
  ASSUME TypeOK, NEW p \in Gs, Own(p), pc'[p] \in Sending
  PROVE  \/ pc[p] \in Sending /\ cur'[p] = cur[p] /\ built'[p] = built[p]
         \/ built'[p] = max(seen[p], LastSeq) /\ UNCHANGED <<offered, stops>>
<1>0. LocalsOK
  BY DEF TypeOK
<1>1. CASE Build(p) \/ CompactionFail(p)
  BY <1>0, <1>1 DEF Build, CompactionFail, LocalsOK, dbVars, Sending
<1>2. CASE Begin(p) \/ AdvanceRun(p) \/ AdvanceBot(p) \/ StreamError(p)
  BY <1>2 DEF Begin, AdvanceRun, AdvanceBot, StreamError, Sending
<1>3. CASE Ensure(p) \/ Create(p) \/ Top(p)
  BY <1>0, <1>3 DEF Ensure, Create, Top, LocalsOK, Goto, Sending
<1>4. CASE Take(p) \/ Bind(p) \/ CompactionNotice(p) \/ TryFinish(p)
  BY <1>0, <1>4 DEF Take, Bind, CompactionNotice, TryFinish, LocalsOK, Goto, Sending
<1>5. CASE Stopped(p) \/ Failed(p) \/ Release(p) \/ Steal(p) \/ Reacquire(p)
  BY <1>0, <1>5 DEF Stopped, Failed, Release, Steal, Reacquire, LocalsOK, Goto, Sending
<1>6. CASE StreamOK(p) \/ CallsDone(p) \/ CallsStop(p)
  BY <1>0, <1>6 DEF StreamOK, CallsDone, CallsStop, LocalsOK, Goto, Sending
<1>7. CASE Fail(p) \/ FinishLost(p) \/ Panic(p)
  BY <1>0, <1>7 DEF Fail, FinishLost, Panic, LocalsOK, Goto, Sending
<1>. QED
  BY <1>1, <1>2, <1>3, <1>4, <1>5, <1>6, <1>7 DEF Own, Step, Model, Broken

LEMMA ForwardStep ==
  ASSUME TypeOK, OneExecutor, StopMarked, OneActive, Numbers, InLoop, Forward,
         Next \/ UNCHANGED vars
  PROVE  Forward'
<1>. SUFFICES ASSUME NEW p \in Gs, pc'[p] \in Sending
              PROVE  /\ ~runs'[cur'[p]].stop => offered' <= built'[p]
                     /\ \A g \in stops' : g.run # cur'[p] => g.seq <= built'[p]
  BY DEF Forward
<1>0. LocalsOK
  BY DEF TypeOK
<1>a. /\ nextSeq \in Nat /\ offered \in Nat
      /\ \A q \in Gs : seen[q] \in Nat /\ built[q] \in Nat
      /\ \A h \in stops : h.run \in RunId /\ h.seq \in Nat
  BY DEF TypeOK, DbOK, LocalsOK, MemoryOK
(* It goes on with what it has built.                                      *)
<1>1. ASSUME pc[p] \in Sending, cur'[p] = cur[p], built'[p] = built[p]
      PROVE  /\ ~runs'[cur'[p]].stop => offered' <= built'[p]
             /\ \A g \in stops' : g.run # cur'[p] => g.seq <= built'[p]
  <2>0. pc[p] \in Executing /\ cur[p] \in RunId /\ Unfinished(cur[p])
    BY <1>0, <1>1, LoopHasRun DEF InLoop, Sending, Looping, Executing
  <2>1. ASSUME ~runs'[cur[p]].stop
        PROVE  offered' <= built[p]
    <3>1. ~runs[cur[p]].stop /\ offered <= built[p]
      BY <1>1, <2>0, <2>1, StopStays DEF Forward
    <3>2. ASSUME NEW q \in Gs, AdvanceBot(q)
          PROVE  q = p
      BY <2>0, <3>2 DEF OneExecutor, AdvanceBot, Executing
    <3>3. ASSUME NEW h \in stops, HardAdvanceBot(h)
          PROVE  h.seq <= built[p]
      <4>1. runs[h.run].stop
        BY <3>3 DEF HardAdvanceBot, StopMarked
      <4>. QED
        BY <1>1, <3>1, <4>1 DEF Forward
    <3>. QED
      BY <1>a, <3>1, <3>2, <3>3, OfferedStep DEF max
  <2>2. ASSUME NEW g \in stops', g.run # cur[p]
        PROVE  g.seq <= built[p]
    <3>1. ASSUME NEW r \in RunId, RequestStop(r) \/ RequestStopAgain(r), g.run = r
          PROVE  FALSE
      BY <2>0, <2>2, <3>1 DEF OneActive, RequestStop, RequestStopAgain
    <3>2. ASSUME NEW h \in stops, g.run = h.run, g.seq = h.seq
          PROVE  g.seq <= built[p]
      BY <1>1, <2>2, <3>2 DEF Forward
    <3>. QED
      BY <3>1, <3>2, StopStep DEF HardMoved
  <2>. QED
    BY <1>1, <2>1, <2>2
(* It has read the ledger to its end.                                      *)
<1>2. ASSUME built'[p] = max(seen[p], LastSeq), UNCHANGED <<offered, stops>>
      PROVE  /\ offered' <= built'[p]
             /\ \A g \in stops' : g.seq <= built'[p]
  <2>1. LastSeq <= built'[p] /\ built'[p] \in Int /\ LastSeq \in Int
    BY <1>a, <1>2 DEF max, LastSeq
  <2>2. offered <= LastSeq /\ \A h \in stops : h.seq <= LastSeq
    BY <1>a DEF Numbers, LastSeq
  <2>. QED
    BY <1>a, <1>2, <2>1, <2>2
<1>3. CASE LocalKept(p)
  BY <1>1, <1>3 DEF LocalKept
<1>4. CASE Started(p) \/ Crash
  BY <1>4 DEF Started, Crash, Sending
<1>5. CASE Own(p)
  BY <1>1, <1>2, <1>5, SendingEntry
<1>. QED
  BY <1>3, <1>4, <1>5, LocalSteps

LEMMA CInvInit == Init => CInv
<1>. SUFFICES ASSUME Init PROVE CInv
  OBVIOUS
<1>1. InLoop /\ Requested /\ Forward /\ Quiet
  BY DEF Init, InLoop, Requested, Forward, Quiet, Looping, Executing, Sending
<1>. QED
  BY <1>1, InputInvInit DEF CInv

LEMMA CInvStep == CInv /\ [Next]_vars => CInv'
<1>. SUFFICES ASSUME CInv, [Next]_vars PROVE CInv'
  OBVIOUS
<1>0. /\ InputInv /\ InLoop /\ Requested /\ Forward /\ Quiet
      /\ TypeOK /\ OneExecutor /\ StopMarked /\ Recovering /\ Numbers /\ Fresh /\ OneActive
  BY DEF CInv, InputInv, IInv
<1>1. InputInv'
  BY <1>0, InputInvStep
<1>2. Next \/ UNCHANGED vars
  OBVIOUS
<1>3. InLoop' /\ Requested' /\ Forward' /\ Quiet'
  BY <1>0, <1>2, InLoopStep, RequestedStep, ForwardStep, QuietStep
<1>. QED
  BY <1>1, <1>3 DEF CInv

LEMMA CInvariant == Spec => []CInv
  BY CInvInit, CInvStep, PTL DEF Spec

-----------------------------------------------------------------------------
(* The contract of the conversation                                        *)

statuses == [r \in RunId |-> runs[r].status]
askings == [r \in RunId |-> runs[r].stopMsg]
halts == [r \in RunId |-> runs[r].stop]
requests == [r \in RunId |-> runs[r].reqs]

shown == <<LastSeq, inputs, offered, statuses, askings, halts, requests, (phase # "down")>>

ContractStep == [Contract!Next]_shown

(* What stays when only rows are written.                                  *)
OnlyRows == UNCHANGED <<nextSeq, inputs, offered, phase>>

(* One row is written, the others stay.                                    *)
LEMMA RowShown ==
  ASSUME TypeOK, NEW r \in RunId, NEW row, runs' = [runs EXCEPT ![r] = row]
  PROVE  /\ statuses' = [statuses EXCEPT ![r] = row.status]
         /\ askings' = [askings EXCEPT ![r] = row.stopMsg]
         /\ halts' = [halts EXCEPT ![r] = row.stop]
         /\ requests' = [requests EXCEPT ![r] = row.reqs]
<1>. runs \in [RunId -> Run]
  BY DEF TypeOK, DbOK
<1>1. \A q \in RunId : runs'[q] = IF q = r THEN row ELSE runs[q]
  OBVIOUS
<1>2. statuses' = [statuses EXCEPT ![r] = row.status]
  BY <1>1 DEF statuses
<1>3. askings' = [askings EXCEPT ![r] = row.stopMsg]
  BY <1>1 DEF askings
<1>4. halts' = [halts EXCEPT ![r] = row.stop]
  BY <1>1 DEF halts
<1>5. requests' = [requests EXCEPT ![r] = row.reqs]
  BY <1>1 DEF requests
<1>. QED
  BY <1>2, <1>3, <1>4, <1>5

(* Where a field of the row stays, the whole view of it does.              *)
LEMMA FieldsKept ==
  ASSUME TypeOK, NEW r \in RunId, NEW row, runs' = [runs EXCEPT ![r] = row]
  PROVE  /\ row.status = runs[r].status => statuses' = statuses
         /\ row.stopMsg = runs[r].stopMsg => askings' = askings
         /\ row.stop = runs[r].stop => halts' = halts
         /\ row.reqs = runs[r].reqs => requests' = requests
<1>1. \A q \in RunId : runs'[q] = IF q = r THEN row ELSE runs[q]
  BY DEF TypeOK, DbOK
<1>2. row.status = runs[r].status => statuses' = statuses
  BY <1>1 DEF statuses
<1>3. row.stopMsg = runs[r].stopMsg => askings' = askings
  BY <1>1 DEF askings
<1>4. row.stop = runs[r].stop => halts' = halts
  BY <1>1 DEF halts
<1>5. row.reqs = runs[r].reqs => requests' = requests
  BY <1>1 DEF requests
<1>. QED
  BY <1>2, <1>3, <1>4, <1>5

LEMMA Stutters ==
  ASSUME UNCHANGED <<nextSeq, inputs, offered, runs, (phase # "down")>>
  PROVE  ContractStep
  BY DEF ContractStep, shown, LastSeq, statuses, askings, halts, requests

(* A run turns from one state to another.                                  *)
LEMMA RowTurns ==
  ASSUME TypeOK, OnlyRows, phase # "down", NEW r \in RunId,
         NEW row, runs' = [runs EXCEPT ![r] = row],
         NEW from, NEW to, runs[r].status = from, row.status = to,
         row.stopMsg = runs[r].stopMsg, row.stop = runs[r].stop, row.reqs = runs[r].reqs
  PROVE  Contract!Turns(r, from, to)
<1>1. statuses' = [statuses EXCEPT ![r] = to] /\ UNCHANGED <<askings, halts, requests>>
  BY RowShown, FieldsKept
<1>2. statuses[r] = from
  BY DEF statuses
<1>. QED
  BY <1>1, <1>2 DEF Contract!Turns, OnlyRows, LastSeq, statuses, askings, halts, requests

LEMMA TurnShown ==
  ASSUME TypeOK, OnlyRows, phase # "down", NEW r \in RunId,
         NEW from, NEW to, runs[r].status = from, runs' = [runs EXCEPT ![r].status = to]
  PROVE  Contract!Turns(r, from, to)
<1>. DEFINE row == [runs[r] EXCEPT !.status = to]
<1>1. runs' = [runs EXCEPT ![r] = row]
  BY DEF TypeOK, DbOK
<1>2. /\ row.status = to /\ row.stopMsg = runs[r].stopMsg /\ row.stop = runs[r].stop
      /\ row.reqs = runs[r].reqs
  BY DEF TypeOK, DbOK, Run
<1>. HIDE DEF row
<1>. QED
  BY <1>1, <1>2, RowTurns

(* A run ends as failed, or as stopped if it was asked to stop.            *)
LEMMA EndShown ==
  ASSUME TypeOK, OnlyRows, phase # "down", NEW r \in RunId,
         runs' = FinishFailed(r) \/ (runs[r].stop /\ runs' = FinishStopped(r))
  PROVE  ContractStep
<1>0. halts[r] = runs[r].stop
  BY DEF halts
<1>1. CASE ~Unfinished(r)
  BY <1>1, Stutters DEF FinishFailed, FinishStopped, OnlyRows
<1>2. CASE Unfinished(r) /\ runs[r].stop
  <2>1. runs' = [runs EXCEPT ![r].status = "stopped"]
    BY <1>2 DEF FinishFailed, FinishStopped
  <2>2. Contract!Turns(r, "running", "stopped")
    BY <1>2, <2>1, TurnShown DEF Unfinished
  <2>3. Contract!Stop(r)
    BY <1>0, <1>2, <2>2 DEF Contract!Stop, halts
  <2>. QED
    BY <2>3 DEF Contract!Next, ContractStep
<1>3. CASE Unfinished(r) /\ ~runs[r].stop
  <2>1. runs' = [runs EXCEPT ![r].status = "failed"]
    BY <1>3 DEF FinishFailed
  <2>2. Contract!Turns(r, "running", "failed")
    BY <1>3, <2>1, TurnShown DEF Unfinished
  <2>3. Contract!Fail(r)
    BY <1>0, <1>3, <2>2 DEF Contract!Fail, halts
  <2>. QED
    BY <2>3 DEF Contract!Next, ContractStep
<1>. QED
  BY <1>1, <1>2, <1>3

LEMMA CompleteShown ==
  ASSUME CInv, phase = "up", NEW p \in Gs, TryFinish(p)
  PROVE  ContractStep
<1>0. /\ TypeOK /\ Watermarks /\ InLoop /\ LocalsOK
      /\ pc[p] = "try" /\ OnlyRows
  BY DEF CInv, InputInv, IInv, TypeOK, TryFinish, OnlyRows
<1>1. CASE UNCHANGED runs
  BY <1>0, <1>1, Stutters DEF OnlyRows
<1>2. CASE Completable(p) /\ runs' = [runs EXCEPT ![cur[p]].status = "completed",
                                                  ![cur[p]].through = seen[p]]
  <2>1. PICK r \in RunId : r = cur[p]
    BY <1>0, LoopHasRun DEF Looping, Executing
  <2>. DEFINE row == [runs[r] EXCEPT !.status = "completed", !.through = seen[p]]
  <2>2. runs' = [runs EXCEPT ![r] = row]
    BY <1>0, <1>2, <2>1 DEF TypeOK, DbOK
  <2>3. /\ row.status = "completed" /\ row.stopMsg = runs[r].stopMsg /\ row.stop = runs[r].stop
        /\ row.reqs = runs[r].reqs
    BY <1>0, <2>1 DEF TypeOK, DbOK, Run
  <2>. HIDE DEF row
  <2>4. runs[r].status = "running" /\ ~halts[r]
    BY <1>2, <2>1 DEF halts, Completable, Unfinished
  <2>5. Contract!Turns(r, "running", "completed")
    BY <1>0, <2>2, <2>3, <2>4, RowTurns
  <2>6. \A n \in inputs : n <= offered
    <3>1. seen[p] <= offered
      BY <1>0, <1>2, <2>1, IdNotNoRun, Zenon DEF Watermarks, Advancing, Completable, Executing
    <3>2. seen[p] \in Nat /\ offered \in Nat /\ inputs \subseteq Nat
      BY <1>0 DEF TypeOK, LocalsOK, DbOK
    <3>. QED
      BY <1>2, <3>1, <3>2 DEF Completable, InputSince
  <2>7. Contract!Complete(r)
    BY <2>4, <2>5, <2>6 DEF Contract!Complete, halts
  <2>. QED
    BY <2>7 DEF Contract!Next, ContractStep
<1>. QED
  BY <1>1, <1>2 DEF TryFinish

LEMMA CreateShown ==
  ASSUME CInv, phase = "up", NEW p \in Gs, Create(p)
  PROVE  ContractStep
<1>0. /\ TypeOK /\ Fresh /\ StopMarked /\ OneActive /\ OnlyRows
      /\ pc[p] = "create"
  BY DEF CInv, InputInv, IInv, Create, OnlyRows
<1>1. CASE UNCHANGED runs
  BY <1>0, <1>1, Stutters DEF OnlyRows
<1>2. ASSUME NEW r \in RunId, runs[r].status = "none",
             runs' = [runs EXCEPT ![r] = NewRow(KeyOf(p, r))]
      PROVE  ContractStep
  <2>. DEFINE row == NewRow(KeyOf(p, r))
  <2>1. row.status = "running" /\ row.stopMsg = 0 /\ row.stop = FALSE /\ row.reqs = <<>>
    BY DEF NewRow, Row
  <2>2. runs[r].stopMsg = 0 /\ runs[r].stop = FALSE /\ runs[r].reqs = <<>>
    BY <1>0, <1>2 DEF Fresh, StopMarked, TypeOK, DbOK, Run
  <2>. HIDE DEF row
  <2>3. runs' = [runs EXCEPT ![r] = row]
    BY <1>2 DEF row
  <2>4. Contract!Turns(r, "none", "running")
    BY <1>0, <1>2, <2>1, <2>2, <2>3, RowTurns
  <2>5. Contract!Running = {}
    BY <1>0 DEF Contract!Running, OneActive, NoActiveRun, Unfinished
  <2>6. Contract!Begin(r)
    BY <2>4, <2>5 DEF Contract!Begin
  <2>. QED
    BY <2>6 DEF Contract!Next, ContractStep
<1>. QED
  BY <1>1, <1>2 DEF Create

(* A run is marked to stop.                                                *)
LEMMA MarkShown ==
  ASSUME TypeOK, OnlyRows, phase # "down", NEW r \in RunId, Unfinished(r),
         runs[r].stopMsg # 0 \/ runs[r].reqs # <<>>,
         runs' = [runs EXCEPT ![r].stop = TRUE]
  PROVE  ContractStep
<1>. DEFINE row == [runs[r] EXCEPT !.stop = TRUE]
<1>1. runs' = [runs EXCEPT ![r] = row]
  BY DEF TypeOK, DbOK
<1>2. /\ row.status = runs[r].status /\ row.stopMsg = runs[r].stopMsg /\ row.stop = TRUE
      /\ row.reqs = runs[r].reqs
  BY DEF TypeOK, DbOK, Run
<1>. HIDE DEF row
<1>3. halts' = [halts EXCEPT ![r] = TRUE] /\ UNCHANGED <<statuses, askings, requests>>
  BY <1>1, <1>2, RowShown, FieldsKept
<1>4. r \in Contract!Running /\ askings[r] = runs[r].stopMsg /\ requests[r] = runs[r].reqs
  BY DEF Contract!Running, Unfinished, askings, requests
<1>5. Contract!MustStop(r)
  BY <1>3, <1>4 DEF Contract!MustStop, OnlyRows, LastSeq, statuses, askings, halts, requests
<1>. QED
  BY <1>5 DEF Contract!Next, ContractStep

(* The watermark of a run is not part of the contract.                     *)
LEMMA ThroughShown ==
  ASSUME TypeOK, OnlyRows, NEW r \in RunId, NEW n, runs' = [runs EXCEPT ![r].through = n]
  PROVE  ContractStep
<1>. DEFINE row == [runs[r] EXCEPT !.through = n]
<1>1. runs' = [runs EXCEPT ![r] = row]
  BY DEF TypeOK, DbOK
<1>2. /\ row.status = runs[r].status /\ row.stopMsg = runs[r].stopMsg
      /\ row.stop = runs[r].stop /\ row.reqs = runs[r].reqs
  BY DEF TypeOK, DbOK, Run
<1>. HIDE DEF row
<1>3. UNCHANGED <<statuses, askings, halts, requests>>
  BY <1>1, <1>2, FieldsKept
<1>. QED
  BY <1>3 DEF ContractStep, shown, OnlyRows, LastSeq

(* A request of a run that may go on, with no less than was handed over.   *)
LEMMA RequestRegistered ==
  ASSUME TypeOK, OnlyRows, phase # "down", NEW r \in RunId, Registrable(r),
         NEW n \in offered .. LastSeq, runs' = [runs EXCEPT ![r].reqs = Append(@, n)]
  PROVE  Contract!Request(r)
<1>. DEFINE row == [runs[r] EXCEPT !.reqs = Append(@, n)]
<1>1. runs' = [runs EXCEPT ![r] = row]
  BY DEF TypeOK, DbOK
<1>2. /\ row.status = runs[r].status /\ row.stopMsg = runs[r].stopMsg
      /\ row.stop = runs[r].stop /\ row.reqs = Append(runs[r].reqs, n)
  BY DEF TypeOK, DbOK, Run
<1>. HIDE DEF row
<1>3. r \in Contract!Running /\ ~halts[r] /\ requests[r] = runs[r].reqs
  BY DEF Contract!Running, Registrable, Unfinished, halts, requests
<1>4. UNCHANGED <<statuses, askings, halts>>
  BY <1>1, <1>2, FieldsKept
<1>5. requests' = [requests EXCEPT ![r] = row.reqs]
  BY <1>1, RowShown
<1>6. requests' = [requests EXCEPT ![r] = Append(@, n)]
  BY <1>2, <1>3, <1>5
<1>. QED
  BY <1>3, <1>4, <1>6
  DEF Contract!Request, OnlyRows, LastSeq, statuses, askings, halts, requests

LEMMA RequestShown ==
  ASSUME CInv, phase = "up", NEW p \in Gs, Begin(p)
  PROVE  ContractStep
<1>0. /\ TypeOK /\ LocalsOK /\ Forward /\ Numbers /\ OnlyRows
      /\ pc[p] = "begin"
  BY DEF CInv, InputInv, IInv, TypeOK, Begin, OnlyRows
<1>1. CASE UNCHANGED runs
  BY <1>0, <1>1, Stutters DEF OnlyRows
<1>2. CASE Registrable(cur[p]) /\ runs' = [runs EXCEPT ![cur[p]].reqs = Append(@, built[p])]
  <2>1. PICK r \in RunId : r = cur[p]
    BY <1>0, LoopHasRun DEF Looping, Executing
  <2>2. built[p] \in offered .. LastSeq
    BY <1>0, <1>2 DEF Forward, Sending, Registrable, Numbers, LastSeq, TypeOK, DbOK, LocalsOK
  <2>3. PICK n \in offered .. LastSeq : n = built[p]
    BY <2>2
  <2>4. Registrable(r) /\ runs' = [runs EXCEPT ![r].reqs = Append(@, n)]
    BY <1>2, <2>1, <2>3 DEF Registrable, Unfinished
  <2>5. Contract!Request(r)
    BY <1>0, <2>4, RequestRegistered
  <2>. QED
    BY <2>5 DEF Contract!Next, ContractStep
<1>. QED
  BY <1>1, <1>2 DEF Begin

(* The watermark of the bot follows what a request contains or what was    *)
(* given up ...                                                            *)
LEMMA OfferShown ==
  ASSUME CInv, phase = "up", NEW p \in Gs, AdvanceBot(p)
  PROVE  ContractStep
<1>0. /\ TypeOK /\ LocalsOK /\ Requested /\ Registered /\ Numbers
      /\ pc[p] = "advBot"
  BY DEF CInv, InputInv, IInv, TypeOK, AdvanceBot
<1>a. /\ offered \in Nat /\ built[p] \in Nat /\ nextSeq \in Nat
      /\ next[p] \in {"stream", "notice"}
  BY <1>0 DEF TypeOK, DbOK, LocalsOK
<1>b. /\ UNCHANGED <<nextSeq, inputs, runs, phase>> /\ offered' = max(offered, built[p])
  BY DEF AdvanceBot
<1>1. CASE offered' = offered
  BY <1>1, <1>b, Stutters
<1>2. CASE offered' # offered
  <2>1. offered' > offered /\ offered' = built[p]
    BY <1>2, <1>a, <1>b DEF max
  <2>2. CASE next[p] = "stream"
    <3>1. PICK r \in RunId : r = cur[p]
      BY <1>0, LoopHasRun DEF Looping, Executing
    <3>2. PICK i \in DOMAIN runs[r].reqs : runs[r].reqs[i] = built[p]
      BY <1>0, <2>2, <3>1 DEF Requested
    <3>3. requests[r] = runs[r].reqs
      BY DEF requests
    <3>4. built[p] \in Contract!HandedBy(r)
      BY <3>2, <3>3 DEF Contract!HandedBy, requests
    <3>5. offered' \in Contract!HandedBy(r)
      BY <2>1, <3>4
    <3>6. Contract!Offer
      BY <1>b, <2>1, <3>5 DEF Contract!Offer, LastSeq
    <3>. QED
      BY <3>6 DEF Contract!Next, ContractStep
  <2>3. CASE next[p] = "notice"
    <3>1. "compaction" \in Faults
      BY <1>0, <2>3 DEF Registered
    <3>2. offered' \in 1 .. LastSeq
      BY <1>0, <1>a, <2>1 DEF Numbers, LastSeq
    <3>3. Contract!Offer
      BY <1>b, <2>1, <3>1, <3>2 DEF Contract!Offer, LastSeq
    <3>. QED
      BY <3>3 DEF Contract!Next, ContractStep
  <2>. QED
    BY <1>a, <2>2, <2>3
<1>. QED
  BY <1>1, <1>2

(* ... or the message of a stop that was carried out.                      *)
LEMMA HardStopShown ==
  ASSUME CInv, NEW h \in stops, HardStop(h)
  PROVE  ContractStep
<1>0. /\ TypeOK /\ StopsOf /\ StopMarked /\ Numbers /\ phase = "up"
      /\ h.run \in RunId /\ h.seq \in Nat /\ offered \in Nat
  BY DEF CInv, InputInv, IInv, Quiet, TypeOK, MemoryOK, DbOK
<1>1. CASE HardMark(h)
  <2>1. CASE UNCHANGED runs
    BY <1>1, <2>1, Stutters DEF HardMark
  <2>2. CASE Unfinished(h.run) /\ runs' = [runs EXCEPT ![h.run].stop = TRUE]
    <3>1. runs[h.run].stopMsg # 0
      BY <1>0 DEF StopsOf, Numbers
    <3>2. OnlyRows
      BY <1>1 DEF HardMark, OnlyRows
    <3>. QED
      BY <1>0, <2>2, <3>1, <3>2, MarkShown
  <2>. QED
    BY <1>1, <2>1, <2>2 DEF HardMark
<1>2. CASE HardAdvanceRun(h)
  <2>1. OnlyRows /\ runs' = [runs EXCEPT ![h.run].through = max(@, h.seq)]
    BY <1>2 DEF HardAdvanceRun, OnlyRows
  <2>. QED
    BY <1>0, <2>1, ThroughShown
<1>3. CASE HardAdvanceBot(h)
  <2>0. UNCHANGED <<nextSeq, inputs, runs, phase>> /\ offered' = max(offered, h.seq)
    BY <1>3 DEF HardAdvanceBot
  <2>1. CASE offered' = offered
    BY <2>0, <2>1, Stutters
  <2>2. CASE offered' # offered
    <3>1. offered' > offered /\ offered' = h.seq
      BY <1>0, <2>0, <2>2 DEF max
    <3>2. h.seq = askings[h.run] /\ halts[h.run]
      BY <1>0, <1>3 DEF HardAdvanceBot, StopsOf, StopMarked, askings, halts
    <3>3. offered' \in Contract!HandedBy(h.run)
      BY <3>1, <3>2 DEF Contract!HandedBy, askings, halts
    <3>4. Contract!Offer
      BY <1>0, <2>0, <3>1, <3>3 DEF Contract!Offer, LastSeq
    <3>. QED
      BY <3>4 DEF Contract!Next, ContractStep
  <2>. QED
    BY <2>1, <2>2
<1>4. CASE HardRead(h) \/ HardCancel(h)
  BY <1>4, Stutters DEF HardRead, HardCancel, dbVars
<1>. QED
  BY <1>1, <1>2, <1>3, <1>4 DEF HardStop

(* A message of the bot.                                                   *)
LEMMA NoteShown ==
  ASSUME nextSeq \in Nat, AppendNote, phase # "down",
         UNCHANGED <<inputs, offered, runs, (phase # "down")>>
  PROVE  ContractStep
<1>1. LastSeq' = LastSeq + 1
  BY DEF AppendNote, LastSeq
<1>2. Contract!Note
  BY <1>1 DEF Contract!Note, statuses, askings, halts, requests
<1>. QED
  BY <1>2 DEF Contract!Next, ContractStep

(* A goroutine executes only while the process serves.                     *)
LEMMA OwnUp == ASSUME Recovering, NEW p \in Gs, Own(p) PROVE phase = "up" /\ phase' = phase
<1>1. pc[p] # "idle"
  BY DEF Own, Step, Take, Ensure, Create, Bind, Top, Build, Begin, AdvanceRun, AdvanceBot,
     CompactionNotice, TryFinish, Stopped, Failed, Release, Steal, Reacquire, Model, StreamOK,
     StreamError, CallsDone, CallsStop, Broken, Fail, CompactionFail, FinishLost, Panic, Executing
<1>2. phase' = phase
  BY DEF Own, Step, Take, Ensure, Create, Bind, Top, Build, Begin, AdvanceRun, AdvanceBot,
     CompactionNotice, TryFinish, Stopped, Failed, Release, Steal, Reacquire, Model, StreamOK,
     StreamError, CallsDone, CallsStop, Broken, Fail, CompactionFail, FinishLost, Panic
<1>. QED
  BY <1>1, <1>2 DEF Recovering

LEMMA GoroutineShown ==
  ASSUME CInv, NEW p \in Gs, Own(p)
  PROVE  ContractStep
<1>0. /\ TypeOK /\ InLoop /\ Requested /\ LocalsOK
      /\ nextSeq \in Nat /\ phase = "up" /\ phase' = phase
  BY OwnUp DEF CInv, InputInv, IInv, TypeOK, DbOK
<1>1. CASE \/ Take(p) \/ Ensure(p) \/ Bind(p) \/ Top(p) \/ Build(p) \/ Release(p) \/ Steal(p)
           \/ Reacquire(p) \/ CallsDone(p) \/ Fail(p) \/ CompactionFail(p) \/ FinishLost(p)
  <2>1. UNCHANGED dbVars
    BY <1>1 DEF Take, Ensure, Bind, Top, Build, Release, Steal, Reacquire, CallsDone, Fail,
                CompactionFail, FinishLost
  <2>. QED
    BY <1>0, <2>1, Stutters DEF dbVars
<1>2. CASE StreamOK(p) \/ StreamError(p) \/ CompactionNotice(p)
  <2>1. /\ UNCHANGED <<inputs, offered, runs>>
        /\ AppendNote \/ UNCHANGED nextSeq
    BY <1>2 DEF StreamOK, StreamError, CompactionNotice
  <2>. QED
    BY <1>0, <2>1, NoteShown, Stutters
<1>3. CASE AdvanceRun(p)
  <2>1. CASE UNCHANGED runs
    BY <1>0, <1>3, <2>1, Stutters DEF AdvanceRun
  <2>2. CASE runs' = [runs EXCEPT ![cur[p]].through = max(@, built[p])]
    <3>1. cur[p] \in RunId
      BY <1>0, <1>3, LoopHasRun DEF AdvanceRun, Looping, Executing
    <3>2. OnlyRows
      BY <1>3 DEF AdvanceRun, OnlyRows
    <3>. QED
      BY <1>0, <2>2, <3>1, <3>2, ThroughShown
  <2>. QED
    BY <1>3, <2>1, <2>2 DEF AdvanceRun
<1>4. CASE CallsStop(p)
  <2>1. /\ pc[p] = "calls" /\ OnlyRows
        /\ runs' = [runs EXCEPT ![cur[p]].stop = @ \/ Unfinished(cur[p])]
    BY <1>4 DEF CallsStop, OnlyRows
  <2>2. cur[p] \in RunId /\ Unfinished(cur[p]) /\ runs[cur[p]].reqs # <<>>
    BY <1>0, <2>1, LoopHasRun DEF InLoop, Requested, Looping, Executing
  <2>3. runs' = [runs EXCEPT ![cur[p]].stop = TRUE]
    BY <2>1, <2>2
  <2>. QED
    BY <1>0, <2>1, <2>2, <2>3, MarkShown
<1>5. CASE Stopped(p)
  <2>1. pc[p] = "stop" /\ OnlyRows /\ runs' = FinishStopped(cur[p])
    BY <1>5 DEF Stopped, OnlyRows
  <2>2. cur[p] \in RunId /\ runs[cur[p]].stop
    BY <1>0, <2>1, LoopHasRun DEF InLoop, Looping, Executing
  <2>. QED
    BY <1>0, <2>1, <2>2, EndShown
<1>6. CASE Failed(p)
  <2>1. pc[p] = "fail" /\ OnlyRows /\ runs' = FinishFailed(cur[p])
    BY <1>6 DEF Failed, OnlyRows
  <2>2. cur[p] \in RunId
    BY <1>0, <2>1, LoopHasRun DEF Looping, Executing
  <2>. QED
    BY <1>0, <2>1, <2>2, EndShown
<1>7. CASE Panic(p)
  <2>1. OnlyRows
    BY <1>7 DEF Panic, OnlyRows
  <2>2. CASE UNCHANGED runs
    BY <1>0, <2>1, <2>2, Stutters DEF OnlyRows
  <2>3. ASSUME NEW r \in RunId, runs' = FinishFailed(r)
        PROVE  ContractStep
    BY <1>0, <2>1, <2>3, EndShown
  <2>4. UNCHANGED runs \/ \E r \in RunId : runs' = FinishFailed(r)
    BY <1>7 DEF Panic, NoActiveRun
  <2>. QED
    BY <2>2, <2>3, <2>4
<1>. QED
  BY <1>0, <1>1, <1>2, <1>3, <1>4, <1>5, <1>6, <1>7, CreateShown, RequestShown, OfferShown,
     CompleteShown
  DEF Own, Step, Model, Broken

(* The stop button.                                                        *)
LEMMA AskShown ==
  ASSUME TypeOK, NEW r \in RunId, RequestStop(r)
  PROVE  ContractStep
<1>. DEFINE row == [runs[r] EXCEPT !.stopMsg = nextSeq]
<1>1. runs' = [runs EXCEPT ![r] = row]
  BY DEF RequestStop, TypeOK, DbOK
<1>2. /\ row.status = runs[r].status /\ row.stopMsg = nextSeq
      /\ row.stop = runs[r].stop /\ row.reqs = runs[r].reqs
  BY DEF TypeOK, DbOK, Run
<1>3. LastSeq' = nextSeq /\ LastSeq' = LastSeq + 1
  BY DEF RequestStop, LastSeq, TypeOK, DbOK
<1>. HIDE DEF row
<1>4. UNCHANGED <<statuses, halts, requests>>
  BY <1>1, <1>2, FieldsKept
<1>5. askings' = [askings EXCEPT ![r] = row.stopMsg]
  BY <1>1, RowShown
<1>6. askings' = [askings EXCEPT ![r] = LastSeq']
  BY <1>2, <1>3, <1>5
<1>7. r \in Contract!Running /\ askings[r] = 0
  BY DEF RequestStop, Contract!Running, Unfinished, askings
<1>8. /\ phase = "up" /\ phase' = phase /\ offered' = offered
      /\ inputs' = inputs \cup {LastSeq'}
  BY <1>3 DEF RequestStop
<1>9. Contract!AskStop(r)
  BY <1>3, <1>4, <1>6, <1>7, <1>8
  DEF Contract!AskStop, statuses, askings, halts, requests
<1>. QED
  BY <1>9 DEF Contract!Next, ContractStep

LEMMA ArriveShown ==
  ASSUME TypeOK, SendInput
  PROVE  ContractStep
<1>1. LastSeq' = nextSeq /\ LastSeq' = LastSeq + 1
  BY DEF SendInput, LastSeq, TypeOK, DbOK
<1>2. /\ phase = "up" /\ inputs' = inputs \cup {LastSeq'}
      /\ UNCHANGED <<offered, runs, phase>>
  BY <1>1 DEF SendInput
<1>3. Contract!Arrive
  BY <1>1, <1>2 DEF Contract!Arrive, statuses, askings, halts, requests
<1>. QED
  BY <1>3 DEF Contract!Next, ContractStep

(* The process dies and recovers.                                          *)
LEMMA DieShown ==
  ASSUME Crash
  PROVE  ContractStep
<1>1. Contract!Die
  BY DEF Crash, dbVars, Contract!Die, LastSeq, statuses, askings, halts, requests
<1>. QED
  BY <1>1 DEF Contract!Next, ContractStep

LEMMA RestartShown ==
  ASSUME TypeOK, RecoverRun
  PROVE  ContractStep
<1>1. \A r \in RunId :
        /\ runs'[r].status = IF Unfinished(r) THEN "failed" ELSE runs[r].status
        /\ runs'[r].stopMsg = runs[r].stopMsg /\ runs'[r].stop = runs[r].stop
        /\ runs'[r].reqs = runs[r].reqs
  BY DEF RecoverRun, TypeOK, DbOK, Run
<1>2. UNCHANGED <<askings, halts, requests>>
  BY <1>1 DEF askings, halts, requests
<1>3. statuses' = [r \in RunId |-> IF r \in Contract!Running THEN "failed" ELSE statuses[r]]
  <2>1. \A r \in RunId : /\ r \in Contract!Running <=> Unfinished(r)
                         /\ statuses[r] = runs[r].status
    BY DEF Contract!Running, Unfinished, statuses
  <2>2. statuses' = [r \in RunId |-> runs'[r].status]
    BY DEF statuses
  <2>. QED
    BY <1>1, <2>1, <2>2
<1>4. /\ phase = "down" /\ phase' # "down" /\ UNCHANGED <<nextSeq, inputs, offered>>
  BY DEF RecoverRun
<1>5. Contract!Restart
  BY <1>2, <1>3, <1>4 DEF Contract!Restart, LastSeq, statuses, askings, halts, requests
<1>. QED
  BY <1>5 DEF Contract!Next, ContractStep

LEMMA ContractSteps ==
  ASSUME CInv, [Next]_vars
  PROVE  ContractStep
<1>0. TypeOK /\ nextSeq \in Nat
  BY DEF CInv, InputInv, IInv, TypeOK, DbOK
<1>1. ASSUME NEW p \in Gs, Step(p) \/ Model(p) \/ Broken(p) PROVE ContractStep
  BY <1>1, GoroutineShown DEF Own
<1>2. ASSUME NEW r \in RunId, RequestStop(r) \/ RequestStopAgain(r) PROVE ContractStep
  <2>1. RequestStopAgain(r) => ContractStep
    BY Stutters DEF RequestStopAgain, dbVars
  <2>. QED
    BY <1>0, <1>2, <2>1, AskShown
<1>3. ASSUME NEW w \in wakes, WakeUp(w) PROVE ContractStep
  BY <1>3, Stutters DEF WakeUp, WakeAcquire, WakeBusy, WakeMark, dbVars
<1>4. CASE RecoverNotice
  <2>1. /\ phase # "down" /\ phase' # "down" /\ UNCHANGED <<inputs, offered, runs>>
        /\ AppendNote \/ UNCHANGED nextSeq
    BY <1>4 DEF RecoverNotice
  <2>. QED
    BY <1>0, <2>1, NoteShown, Stutters
<1>5. CASE Scan \/ NextMinute \/ UNCHANGED vars
  BY <1>5, Stutters DEF Scan, NextMinute, vars, dbVars
<1>. QED
  BY <1>0, <1>1, <1>2, <1>3, <1>4, <1>5, HardStopShown, ArriveShown, DieShown, RestartShown
  DEF Next, Recover

LEMMA ContractInit == Init => Contract!Init
  BY DEF Init, Contract!Init, LastSeq, NoRunRow, Row

(* KeepsContract: the slot, its wake-ups, the loop with its two watermarks, *)
(* the stops and the recovery implement the contract of the conversation:  *)
(* one run at a time answers the messages, no request contains less than was *)
(* handed over before, the watermark of the bot only follows a request that *)
(* contains the messages or a stop that was carried out, and a run ends    *)
(* once, as stopped if it was asked to, whoever ends it.                   *)
THEOREM MainlineKeepsContract == Spec => KeepsContract
<1>1. CInv /\ [Next]_vars
        => [Contract!Next]_<<LastSeq, inputs, offered, [r \in RunId |-> runs[r].status],
                             [r \in RunId |-> runs[r].stopMsg], [r \in RunId |-> runs[r].stop],
                             [r \in RunId |-> runs[r].reqs], (phase # "down")>>
  BY ContractSteps DEF ContractStep, shown, statuses, askings, halts, requests
<1>. QED
  BY <1>1, ContractInit, CInvariant, PTL DEF Spec, KeepsContract, Contract!Spec, Contract!vars
=============================================================================
