----------------------- MODULE BotMainlineInputProofs -----------------------
(***************************************************************************)
(* Theorems about what the main conversation of a bot does with its input: *)
(* the watermarks, the requests of a run, the stop button and its grace.   *)
(***************************************************************************)
EXTENDS BotMainlineProofs

(* Whatever the rows and the goroutines remember has been handed out.      *)
Numbers ==
  /\ offered < nextSeq
  /\ \A n \in inputs : n < nextSeq
  /\ \A r \in RunId : /\ runs[r].through < nextSeq
                      /\ runs[r].stopMsg < nextSeq
                      /\ \A i \in DOMAIN runs[r].reqs : runs[r].reqs[i] < nextSeq
  /\ \A p \in Gs : seen[p] < nextSeq /\ built[p] < nextSeq
  /\ \A h \in stops : 0 < h.seq /\ h.seq < nextSeq

(* A row that was never used is empty.                                     *)
Fresh ==
  \A r \in RunId : runs[r].status = "none" => runs[r].reqs = <<>> /\ runs[r].stopMsg = 0

(* A hard stop is about the stop message of its run.                       *)
StopsOf == \A h \in stops : h.seq = runs[h.run].stopMsg

(* The watermarks only follow what a request of the run contains, or what  *)
(* was given up because it could not be compacted.                         *)
Registered ==
  \A p \in Gs :
    /\ "compaction" \notin Faults => next[p] = "stream"
    /\ pc[p] \in {"advRun", "advBot"} /\ next[p] = "stream" =>
       \E i \in DOMAIN runs[cur[p]].reqs : runs[cur[p]].reqs[i] >= built[p]

(* The requests that were there when a stop was accepted do not contain its *)
(* message; once the grace is over, no request of the run does.            *)
Grace ==
  \A h \in stops : h.ord >= 0 =>
    /\ h.ord <= Len(runs[h.run].reqs)
    /\ \A i \in DOMAIN runs[h.run].reqs :
         i <= h.ord \/ h.at # "armed" => runs[h.run].reqs[i] < h.seq

(* One run at most is under way, and none while one is created.            *)
OneActive ==
  /\ \A q, r \in RunId : Unfinished(q) /\ Unfinished(r) => q = r
  /\ \A p \in Gs : pc[p] = "create" => NoActiveRun

(* Until it is asked to stop, a run is ahead of its bot only between the two *)
(* statements that advance them.                                           *)
Advancing(r) == phase = "up" /\ Unfinished(r) /\ ~runs[r].stop

Watermarks ==
  /\ \A r \in RunId : Advancing(r) =>
       \/ runs[r].through <= offered
       \/ \E p \in Gs : pc[p] = "advBot" /\ cur[p] = r /\ runs[r].through <= built[p]
  /\ \A p \in Gs : pc[p] \in Executing /\ cur[p] # NoRun /\ Advancing(cur[p]) =>
       seen[p] <= offered \/ (pc[p] = "advBot" /\ seen[p] <= built[p])

-----------------------------------------------------------------------------
(* What a step does to the row of a run                                    *)

Creates(p, r) ==
  /\ pc[p] = "create" /\ Create(p)
  /\ runs[r].status = "none"
  /\ \E k \in Key : runs'[r] = NewRow(k)

Registers(p, r) ==
  /\ Begin(p) /\ cur[p] = r /\ Registrable(r)
  /\ runs'[r] = [runs[r] EXCEPT !.reqs = Append(@, built[p])]

Advances(p, r) ==
  /\ AdvanceRun(p) /\ cur[p] = r
  /\ runs'[r] = [runs[r] EXCEPT !.through = max(@, built[p])]

Skips(h, r) ==
  /\ HardAdvanceRun(h) /\ h.run = r
  /\ runs'[r] = [runs[r] EXCEPT !.through = max(@, h.seq)]

AskedToStop(r) ==
  /\ Unfinished(r)
  /\ runs'[r] = [runs[r] EXCEPT !.stop = TRUE]

StopSent(r) ==
  /\ RequestStop(r)
  /\ runs[r].stopMsg = 0 /\ Unfinished(r)
  /\ runs'[r] = [runs[r] EXCEPT !.stopMsg = nextSeq]

Completes(p, r) ==
  /\ TryFinish(p) /\ cur[p] = r /\ Completable(p)
  /\ runs'[r] = [runs[r] EXCEPT !.status = "completed", !.through = seen[p]]

Ends(r) ==
  /\ Unfinished(r)
  /\ \E st \in {"stopped", "failed"} :
       /\ st = "failed" => ~runs[r].stop \/ phase = "down"
       /\ runs'[r] = [runs[r] EXCEPT !.status = st]

RowStep(r) ==
  \/ runs'[r] = runs[r]
  \/ AskedToStop(r) \/ StopSent(r) \/ Ends(r)
  \/ \E p \in Gs : Creates(p, r) \/ Registers(p, r) \/ Advances(p, r) \/ Completes(p, r)
  \/ \E h \in stops : Skips(h, r)

LEMMA RowSteps ==
  ASSUME TypeOK, Next \/ UNCHANGED vars, NEW r \in RunId
  PROVE  RowStep(r)
<1>0. DbOK /\ MemoryOK /\ LocalsOK
  BY DEF TypeOK
<1>a. runs \in [RunId -> Run]
  BY <1>0 DEF DbOK
<1>1. CASE UNCHANGED runs
  BY <1>1 DEF RowStep
<1>2. ASSUME NEW p \in Gs, Create(p)
      PROVE  RowStep(r)
  <2>1. CASE UNCHANGED runs
    BY <2>1, <1>1
  <2>2. ASSUME NEW q \in RunId, runs[q].status = "none",
               runs' = [runs EXCEPT ![q] = NewRow(KeyOf(p, q))]
        PROVE  RowStep(r)
    <3>1. KeyOf(p, q) \in Key
      BY <1>0, MainlineAssumption DEF KeyOf, Key, Wake, LocalsOK, RunId
    <3>2. CASE q = r
      <4>1. runs'[r] = NewRow(KeyOf(p, q))
        BY <2>2, <3>2, <1>a
      <4>2. pc[p] = "create"
        BY <1>2 DEF Create
      <4>3. Creates(p, r)
        BY <1>2, <2>2, <3>1, <3>2, <4>1, <4>2 DEF Creates
      <4>. QED
        BY <4>3 DEF RowStep
    <3>3. CASE q # r
      BY <2>2, <3>3, <1>a DEF RowStep
    <3>. QED
      BY <3>2, <3>3
  <2>. QED
    BY <1>2, <2>1, <2>2 DEF Create
<1>3. ASSUME NEW p \in Gs, Begin(p)
      PROVE  RowStep(r)
  <2>1. CASE Registrable(cur[p]) /\ cur[p] = r
    <3>1. runs'[r] = [runs[r] EXCEPT !.reqs = Append(@, built[p])]
      BY <1>3, <2>1, <1>a DEF Begin
    <3>2. Registers(p, r)
      BY <1>3, <2>1, <3>1 DEF Registers
    <3>. QED
      BY <3>2 DEF RowStep
  <2>2. CASE ~Registrable(cur[p]) \/ cur[p] # r
    <3>1. runs'[r] = runs[r]
      BY <1>3, <2>2, <1>a DEF Begin
    <3>. QED
      BY <3>1 DEF RowStep
  <2>. QED
    BY <2>1, <2>2
<1>4. ASSUME NEW p \in Gs, AdvanceRun(p)
      PROVE  RowStep(r)
  <2>1. CASE runs' = [runs EXCEPT ![cur[p]].through = max(@, built[p])] /\ cur[p] = r
    <3>1. runs'[r] = [runs[r] EXCEPT !.through = max(@, built[p])]
      BY <2>1, <1>a
    <3>2. Advances(p, r)
      BY <1>4, <2>1, <3>1 DEF Advances
    <3>. QED
      BY <3>2 DEF RowStep
  <2>2. CASE runs' = [runs EXCEPT ![cur[p]].through = max(@, built[p])] /\ cur[p] # r
    <3>1. runs'[r] = runs[r]
      BY <2>2, <1>a
    <3>. QED
      BY <3>1 DEF RowStep
  <2>. QED
    BY <1>4, <2>1, <2>2, <1>1 DEF AdvanceRun
<1>5. ASSUME NEW p \in Gs, CallsStop(p)
      PROVE  RowStep(r)
  <2>0. cur[p] \in RunId
    BY <1>5, <1>0, LoopHasRun DEF CallsStop, Looping, Executing
  <2>1. CASE cur[p] = r
    <3>1. runs'[r] = [runs[r] EXCEPT !.stop = runs[r].stop \/ Unfinished(r)]
      BY <1>5, <2>1, <1>a DEF CallsStop
    <3>2. CASE Unfinished(r)
      <4>1. (runs[r].stop \/ Unfinished(r)) = TRUE
        BY <3>2, <1>a DEF Run
      <4>2. runs'[r] = [runs[r] EXCEPT !.stop = TRUE]
        BY <3>1, <4>1
      <4>. QED
        BY <3>2, <4>2 DEF RowStep, AskedToStop
    <3>3. CASE ~Unfinished(r)
      <4>1. (runs[r].stop \/ Unfinished(r)) = runs[r].stop
        BY <3>3, <1>a DEF Run
      <4>2. runs'[r] = [runs[r] EXCEPT !.stop = runs[r].stop]
        BY <3>1, <4>1
      <4>3. runs'[r] = runs[r]
        BY <4>2, <1>a DEF Run
      <4>. QED
        BY <4>3 DEF RowStep
    <3>. QED
      BY <3>2, <3>3
  <2>2. CASE cur[p] # r
    <3>1. runs'[r] = runs[r]
      BY <1>5, <2>2, <1>a DEF CallsStop
    <3>. QED
      BY <3>1 DEF RowStep
  <2>. QED
    BY <2>1, <2>2
<1>6. ASSUME NEW p \in Gs, TryFinish(p)
      PROVE  RowStep(r)
  <2>1. CASE Completable(p) /\ cur[p] = r
    <3>1. runs'[r] = [runs[r] EXCEPT !.status = "completed", !.through = seen[p]]
      BY <1>6, <2>1, <1>a DEF TryFinish
    <3>2. Completes(p, r)
      BY <1>6, <2>1, <3>1 DEF Completes
    <3>. QED
      BY <3>2 DEF RowStep
  <2>2. CASE ~Completable(p) \/ cur[p] # r
    <3>1. runs'[r] = runs[r]
      BY <1>6, <2>2, <1>a DEF TryFinish
    <3>. QED
      BY <3>1 DEF RowStep
  <2>. QED
    BY <2>1, <2>2
<1>7. ASSUME NEW q \in RunId, runs' = FinishStopped(q) \/ runs' = FinishFailed(q)
      PROVE  RowStep(r)
  <2>1. ASSUME q = r, Unfinished(r), NEW st \in {"stopped", "failed"},
               st = "failed" => ~runs[r].stop, runs' = [runs EXCEPT ![q].status = st]
        PROVE  RowStep(r)
    <3>1. runs'[r] = [runs[r] EXCEPT !.status = st]
      BY <2>1, <1>a
    <3>2. Ends(r)
      BY <2>1, <3>1 DEF Ends
    <3>. QED
      BY <3>2 DEF RowStep
  <2>2. CASE q # r \/ ~Unfinished(r)
    <3>1. runs'[r] = runs[r]
      BY <1>7, <2>2, <1>a DEF FinishStopped, FinishFailed
    <3>. QED
      BY <3>1 DEF RowStep
  <2>. QED
    BY <1>7, <2>1, <2>2 DEF FinishStopped, FinishFailed
<1>8. ASSUME NEW h \in stops, HardMark(h)
      PROVE  RowStep(r)
  <2>1. CASE runs' = [runs EXCEPT ![h.run].stop = TRUE] /\ Unfinished(h.run) /\ h.run = r
    <3>1. runs'[r] = [runs[r] EXCEPT !.stop = TRUE]
      BY <2>1, <1>a
    <3>. QED
      BY <2>1, <3>1 DEF RowStep, AskedToStop
  <2>2. CASE runs' = [runs EXCEPT ![h.run].stop = TRUE] /\ h.run # r
    <3>1. runs'[r] = runs[r]
      BY <2>2, <1>a
    <3>. QED
      BY <3>1 DEF RowStep
  <2>. QED
    BY <1>8, <2>1, <2>2, <1>1 DEF HardMark
<1>9. ASSUME NEW h \in stops, HardAdvanceRun(h)
      PROVE  RowStep(r)
  <2>1. CASE h.run = r
    <3>1. runs'[r] = [runs[r] EXCEPT !.through = max(@, h.seq)]
      BY <1>9, <2>1, <1>a DEF HardAdvanceRun
    <3>2. Skips(h, r)
      BY <1>9, <2>1, <3>1 DEF Skips
    <3>. QED
      BY <3>2 DEF RowStep
  <2>2. CASE h.run # r
    <3>1. runs'[r] = runs[r]
      BY <1>9, <2>2, <1>a DEF HardAdvanceRun
    <3>. QED
      BY <3>1 DEF RowStep
  <2>. QED
    BY <2>1, <2>2
<1>10. ASSUME NEW q \in RunId, RequestStop(q)
       PROVE  RowStep(r)
  <2>1. CASE q = r
    <3>1. runs'[r] = [runs[r] EXCEPT !.stopMsg = nextSeq]
      BY <1>10, <2>1, <1>a DEF RequestStop
    <3>2. Unfinished(r) /\ runs[r].stopMsg = 0
      BY <1>10, <2>1 DEF RequestStop
    <3>3. StopSent(r)
      BY <1>10, <2>1, <3>1, <3>2 DEF StopSent
    <3>. QED
      BY <3>3 DEF RowStep
  <2>2. CASE q # r
    <3>1. runs'[r] = runs[r]
      BY <1>10, <2>2, <1>a DEF RequestStop
    <3>. QED
      BY <3>1 DEF RowStep
  <2>. QED
    BY <2>1, <2>2
<1>11. CASE RecoverRun
  <2>1. CASE Unfinished(r)
    <3>1. runs'[r] = [runs[r] EXCEPT !.status = "failed"]
      BY <1>11, <2>1 DEF RecoverRun
    <3>2. Ends(r)
      BY <1>11, <2>1, <3>1 DEF Ends, RecoverRun
    <3>. QED
      BY <3>2 DEF RowStep
  <2>2. CASE ~Unfinished(r)
    <3>1. runs'[r] = runs[r]
      BY <1>11, <2>2 DEF RecoverRun
    <3>. QED
      BY <3>1 DEF RowStep
  <2>. QED
    BY <2>1, <2>2
<1>12. ASSUME NEW p \in Gs, Panic(p)
       PROVE  RowStep(r)
  <2>1. CASE NoActiveRun
    BY <1>12, <2>1, <1>1 DEF Panic
  <2>2. CASE ~NoActiveRun
    <3>1. PICK q \in RunId : runs' = FinishFailed(q)
      BY <1>12, <2>2 DEF Panic, NoActiveRun
    <3>. QED
      BY <3>1, <1>7
  <2>. QED
    BY <2>1, <2>2
<1>13. ASSUME NEW p \in Gs, Stopped(p) \/ Failed(p)
       PROVE  RowStep(r)
  <2>1. cur[p] \in RunId
    BY <1>13, <1>0, LoopHasRun DEF Stopped, Failed, Looping, Executing
  <2>. QED
    BY <1>13, <2>1, <1>7 DEF Stopped, Failed
<1>14. ASSUME NEW p \in Gs, Step(p)
       PROVE  RowStep(r)
  <2>1. CASE \/ Take(p) \/ Ensure(p) \/ Bind(p) \/ Top(p) \/ Build(p)
             \/ AdvanceBot(p) \/ CompactionNotice(p) \/ Release(p) \/ Steal(p) \/ Reacquire(p)
    BY <2>1, <1>1 DEF Take, Ensure, Bind, Top, Build, AdvanceBot, CompactionNotice, Release,
                      Steal, Reacquire, dbVars
  <2>. QED
    BY <1>14, <2>1, <1>2, <1>3, <1>4, <1>6, <1>13 DEF Step
<1>15. ASSUME NEW p \in Gs, Model(p)
       PROVE  RowStep(r)
  BY <1>15, <1>1, <1>5 DEF Model, StreamOK, StreamError, CallsDone, dbVars
<1>16. ASSUME NEW p \in Gs, Broken(p)
       PROVE  RowStep(r)
  BY <1>16, <1>1, <1>12 DEF Broken, Fail, CompactionFail, FinishLost, dbVars
<1>17. ASSUME NEW h \in stops, HardStop(h)
       PROVE  RowStep(r)
  BY <1>17, <1>1, <1>8, <1>9 DEF HardStop, HardRead, HardAdvanceBot, HardCancel, dbVars
<1>18. ASSUME NEW q \in RunId, RequestStopAgain(q)
       PROVE  RowStep(r)
  BY <1>18, <1>1 DEF RequestStopAgain, dbVars
<1>19. ASSUME NEW w \in wakes, WakeUp(w)
       PROVE  RowStep(r)
  BY <1>19, <1>1 DEF WakeUp, WakeAcquire, WakeBusy, WakeMark, dbVars
<1>20. CASE SendInput \/ Scan \/ Crash \/ RecoverNotice \/ NextMinute \/ UNCHANGED vars
  BY <1>20, <1>1 DEF SendInput, Scan, Crash, RecoverNotice, NextMinute, vars, dbVars
<1>. QED
  BY <1>10, <1>11, <1>14, <1>15, <1>16, <1>17, <1>18, <1>19, <1>20 DEF Next, Recover

-----------------------------------------------------------------------------
(* What may become of the fields of a row                                  *)

(* The fields after each kind of step.                                     *)
LEMMA RowStepFields ==
  ASSUME TypeOK, Next \/ UNCHANGED vars, NEW r \in RunId
  PROVE  /\ runs'[r].status = runs[r].status \/ Ends(r)
              \/ \E p \in Gs : Creates(p, r) \/ Completes(p, r)
         /\ runs'[r].reqs = runs[r].reqs
              \/ \E p \in Gs : Creates(p, r) \/ Registers(p, r)
         /\ runs'[r].stop = runs[r].stop \/ AskedToStop(r) \/ \E p \in Gs : Creates(p, r)
         /\ runs'[r].stopMsg = runs[r].stopMsg \/ StopSent(r) \/ \E p \in Gs : Creates(p, r)
         /\ runs'[r].through = runs[r].through
              \/ (\E p \in Gs : Creates(p, r) \/ Advances(p, r) \/ Completes(p, r))
              \/ \E h \in stops : Skips(h, r)
<1>0. RowStep(r) /\ runs[r] \in Run
  BY RowSteps DEF TypeOK, DbOK
<1>1. CASE AskedToStop(r)
  BY <1>0, <1>1 DEF AskedToStop, Run
<1>2. CASE StopSent(r)
  BY <1>0, <1>2 DEF StopSent, Run
<1>3. CASE Ends(r)
  <2>1. PICK st \in {"stopped", "failed"} : runs'[r] = [runs[r] EXCEPT !.status = st]
    BY <1>3 DEF Ends
  <2>2. /\ runs'[r].reqs = runs[r].reqs /\ runs'[r].stop = runs[r].stop
        /\ runs'[r].stopMsg = runs[r].stopMsg /\ runs'[r].through = runs[r].through
    BY <2>1, <1>0 DEF Run
  <2>. QED
    BY <2>2, <1>3
<1>4. ASSUME NEW p \in Gs, Registers(p, r)
      PROVE  /\ runs'[r].status = runs[r].status /\ runs'[r].stop = runs[r].stop
             /\ runs'[r].stopMsg = runs[r].stopMsg /\ runs'[r].through = runs[r].through
  BY <1>0, <1>4 DEF Registers, Run
<1>5. ASSUME NEW p \in Gs, Advances(p, r)
      PROVE  /\ runs'[r].status = runs[r].status /\ runs'[r].stop = runs[r].stop
             /\ runs'[r].stopMsg = runs[r].stopMsg /\ runs'[r].reqs = runs[r].reqs
  BY <1>0, <1>5 DEF Advances, Run
<1>6. ASSUME NEW p \in Gs, Completes(p, r)
      PROVE  /\ runs'[r].reqs = runs[r].reqs /\ runs'[r].stop = runs[r].stop
             /\ runs'[r].stopMsg = runs[r].stopMsg
  BY <1>0, <1>6 DEF Completes, Run
<1>7. ASSUME NEW h \in stops, Skips(h, r)
      PROVE  /\ runs'[r].status = runs[r].status /\ runs'[r].stop = runs[r].stop
             /\ runs'[r].stopMsg = runs[r].stopMsg /\ runs'[r].reqs = runs[r].reqs
  BY <1>0, <1>7 DEF Skips, Run
<1>. QED
  BY Zenon, <1>0, <1>1, <1>2, <1>3, <1>4, <1>5, <1>6, <1>7 DEF RowStep

LEMMA CreatedFields ==
  ASSUME NEW p \in Gs, NEW r \in RunId, Creates(p, r)
  PROVE  /\ runs[r].status = "none" /\ runs'[r].status = "running"
         /\ runs'[r].reqs = <<>> /\ runs'[r].stop = FALSE
         /\ runs'[r].stopMsg = 0 /\ runs'[r].through = 0
  BY DEF Creates, NewRow, Row

(* A request, once registered, is never forgotten or changed.              *)
LEMMA RequestsGrow ==
  ASSUME TypeOK, Fresh, Next \/ UNCHANGED vars, NEW r \in RunId
  PROVE  /\ Len(runs[r].reqs) <= Len(runs'[r].reqs)
         /\ \A i \in DOMAIN runs[r].reqs :
              i \in DOMAIN runs'[r].reqs /\ runs'[r].reqs[i] = runs[r].reqs[i]
<1>0. runs[r] \in Run /\ runs[r].reqs \in Seq(Nat)
  BY DEF TypeOK, DbOK, Run
<1>1. CASE runs'[r].reqs = runs[r].reqs
  BY <1>0, <1>1
<1>2. ASSUME NEW p \in Gs, Creates(p, r)
      PROVE  runs'[r].reqs = runs[r].reqs
  BY <1>2, CreatedFields DEF Fresh
<1>3. ASSUME NEW p \in Gs, Registers(p, r)
      PROVE  runs'[r].reqs = Append(runs[r].reqs, built[p])
  BY <1>0, <1>3 DEF Registers, Run
<1>4. ASSUME NEW n \in Nat, runs'[r].reqs = Append(runs[r].reqs, n)
      PROVE  /\ Len(runs[r].reqs) <= Len(runs'[r].reqs)
             /\ \A i \in DOMAIN runs[r].reqs :
                  i \in DOMAIN runs'[r].reqs /\ runs'[r].reqs[i] = runs[r].reqs[i]
  BY <1>0, <1>4
<1>5. \A p \in Gs : built[p] \in Nat
  BY DEF TypeOK, LocalsOK
<1>. QED
  BY <1>1, <1>2, <1>3, <1>4, <1>5, RowStepFields

(* A run that is asked to stop stays so and registers nothing.             *)
LEMMA StopStays ==
  ASSUME TypeOK, StopMarked, Next \/ UNCHANGED vars, NEW r \in RunId, runs[r].stop
  PROVE  runs'[r].stop /\ runs'[r].reqs = runs[r].reqs
<1>0. runs[r] \in Run
  BY DEF TypeOK, DbOK
<1>1. \A p \in Gs : ~Creates(p, r)
  BY DEF Creates, StopMarked
<1>2. \A p \in Gs : ~Registers(p, r)
  BY DEF Registers, Registrable
<1>3. AskedToStop(r) => runs'[r].stop
  BY <1>0 DEF AskedToStop, Run
<1>. QED
  BY <1>1, <1>2, <1>3, RowStepFields

(* The number of a stop message is given once.                             *)
LEMMA StopMsgStays ==
  ASSUME TypeOK, Fresh, Next \/ UNCHANGED vars, NEW r \in RunId
  PROVE  \/ runs'[r].stopMsg = runs[r].stopMsg
         \/ /\ RequestStop(r) /\ runs[r].stopMsg = 0
            /\ runs'[r].stopMsg = nextSeq
<1>0. runs[r] \in Run
  BY DEF TypeOK, DbOK
<1>1. ASSUME NEW p \in Gs, Creates(p, r)
      PROVE  runs'[r].stopMsg = runs[r].stopMsg
  BY <1>1, CreatedFields DEF Fresh
<1>2. CASE StopSent(r)
  BY <1>0, <1>2 DEF StopSent, Run
<1>. QED
  BY <1>1, <1>2, RowStepFields

(* A used row is never blank again.                                        *)
LEMMA FreshStep ==
  ASSUME TypeOK, Fresh, Next \/ UNCHANGED vars
  PROVE  Fresh'
<1> SUFFICES ASSUME NEW r \in RunId, runs'[r].status = "none"
             PROVE  runs'[r].reqs = <<>> /\ runs'[r].stopMsg = 0
  BY DEF Fresh
<1>0. runs[r] \in Run
  BY DEF TypeOK, DbOK
<1>1. \A p \in Gs : ~Creates(p, r)
  BY CreatedFields
<1>2. \A p \in Gs : ~Completes(p, r)
  BY <1>0 DEF Completes, Run
<1>3. ~Ends(r)
  BY <1>0 DEF Ends, Run
<1>4. runs[r].status = "none"
  BY <1>1, <1>2, <1>3, RowStepFields
<1>5. ~StopSent(r) /\ \A p \in Gs : ~Registers(p, r)
  BY <1>4 DEF StopSent, Registers, Registrable, Unfinished
<1>. QED
  BY <1>1, <1>4, <1>5, RowStepFields DEF Fresh

-----------------------------------------------------------------------------
(* What may become of the locals of a goroutine                            *)

LocalKept(q) == /\ pc'[q] = pc[q] /\ cur'[q] = cur[q] /\ seen'[q] = seen[q]
                /\ built'[q] = built[q] /\ next'[q] = next[q]

Started(q) == /\ pc[q] = "idle" /\ pc'[q] = "take"
              /\ cur'[q] = cur[q] /\ seen'[q] = seen[q]
              /\ built'[q] = built[q] /\ next'[q] = next[q]

Own(q) == Step(q) \/ Model(q) \/ Broken(q)

(* A goroutine changes by its own steps, when a wake-up starts it and when *)
(* the process dies.                                                       *)
LEMMA LocalSteps ==
  ASSUME TypeOK, Next \/ UNCHANGED vars, NEW q \in Gs
  PROVE  LocalKept(q) \/ Started(q) \/ Own(q) \/ Crash
<1>0. LocalsOK
  BY DEF TypeOK
<1>1. CASE UNCHANGED <<pc, cur, seen, built, next>>
  BY <1>1 DEF LocalKept
<1>2. ASSUME NEW p \in Gs, p # q, Step(p)
      PROVE  LocalKept(q)
  <2>1. CASE Take(p) \/ Ensure(p) \/ Create(p) \/ Bind(p)
    BY <2>1, <1>0, <1>2 DEF Take, Ensure, Create, Bind, Goto, LocalsOK, LocalKept
  <2>2. CASE Top(p) \/ Build(p) \/ Begin(p) \/ AdvanceRun(p) \/ AdvanceBot(p)
    BY <2>2, <1>0, <1>2 DEF Top, Build, Begin, AdvanceRun, AdvanceBot, Goto, LocalsOK, LocalKept
  <2>3. CASE CompactionNotice(p) \/ TryFinish(p) \/ Stopped(p) \/ Failed(p)
    BY <2>3, <1>0, <1>2 DEF CompactionNotice, TryFinish, Stopped, Failed, Goto, LocalsOK, LocalKept
  <2>4. CASE Release(p)
    BY <2>4, <1>0, <1>2 DEF Release, Forget, Goto, LocalsOK, LocalKept
  <2>5. CASE Steal(p) \/ Reacquire(p)
    BY <2>5, <1>0, <1>2 DEF Steal, Reacquire, Goto, LocalsOK, LocalKept
  <2>. QED
    BY <1>2, <2>1, <2>2, <2>3, <2>4, <2>5 DEF Step
<1>3. ASSUME NEW p \in Gs, p # q, Model(p)
      PROVE  LocalKept(q)
  <2>1. CASE StreamOK(p)
    BY <2>1, <1>0, <1>3 DEF StreamOK, Goto, LocalsOK, LocalKept
  <2>2. CASE StreamError(p)
    BY <2>2, <1>0, <1>3 DEF StreamError, Goto, LocalsOK, LocalKept
  <2>3. CASE CallsDone(p) \/ CallsStop(p)
    BY <2>3, <1>0, <1>3 DEF CallsDone, CallsStop, Goto, LocalsOK, LocalKept
  <2>. QED
    BY <1>3, <2>1, <2>2, <2>3 DEF Model
<1>4. ASSUME NEW p \in Gs, p # q, Broken(p)
      PROVE  LocalKept(q)
  <2>1. CASE Fail(p) \/ FinishLost(p)
    BY <2>1, <1>0, <1>4 DEF Fail, FinishLost, Goto, LocalsOK, LocalKept
  <2>2. CASE CompactionFail(p)
    BY <2>2, <1>0, <1>4 DEF CompactionFail, Goto, LocalsOK, LocalKept
  <2>3. CASE Panic(p)
    BY <2>3, <1>0, <1>4 DEF Panic, Forget, Goto, LocalsOK, LocalKept
  <2>. QED
    BY <1>4, <2>1, <2>2, <2>3 DEF Broken
<1>5. ASSUME NEW p \in Gs, Own(p)
      PROVE  LocalKept(q) \/ Own(q)
  BY <1>2, <1>3, <1>4, <1>5 DEF Own
<1>6. ASSUME NEW w \in wakes, WakeUp(w)
      PROVE  LocalKept(q) \/ Started(q)
  <2>1. CASE WakeAcquire(w)
    BY <2>1, <1>0 DEF WakeAcquire, LocalsOK, LocalKept, Started
  <2>. QED
    BY <1>6, <2>1 DEF WakeUp, WakeBusy, WakeMark, gVars, LocalKept
<1>7. ASSUME NEW h \in stops, HardStop(h)
      PROVE  LocalKept(q)
  BY <1>7 DEF HardStop, HardMark, HardRead, HardAdvanceRun, HardAdvanceBot, HardCancel, gVars, LocalKept
<1>8. ASSUME NEW r \in RunId, RequestStop(r) \/ RequestStopAgain(r)
      PROVE  LocalKept(q)
  BY <1>8 DEF RequestStop, RequestStopAgain, gVars, LocalKept
<1>9. CASE SendInput \/ Scan \/ Recover \/ NextMinute \/ UNCHANGED vars
  BY <1>9 DEF SendInput, Scan, Recover, RecoverRun, RecoverNotice, NextMinute, vars, gVars, LocalKept
<1>. QED
  BY <1>5, <1>6, <1>7, <1>8, <1>9 DEF Next, Own

(* What its own steps do to the watermark it has seen ...                  *)
LEMMA SeenStep ==
  ASSUME TypeOK, NEW q \in Gs, Own(q)
  PROVE  \/ seen'[q] = seen[q] /\ cur'[q] = cur[q] /\ ~(pc[q] = "advRun" /\ pc'[q] = "advBot")
         \/ cur'[q] = NoRun /\ seen'[q] = 0
         \/ Create(q) /\ seen'[q] = 0
         \/ Ensure(q) /\ cur'[q] \in RunId /\ seen'[q] = runs[cur'[q]].through
         \/ /\ pc[q] \in {"top", "stream"} /\ cur'[q] = cur[q] /\ cur[q] \in RunId
            /\ seen'[q] = max(seen[q], runs[cur[q]].through)
         \/ /\ AdvanceRun(q) /\ pc[q] = "advRun" /\ pc'[q] = "advBot" /\ cur'[q] = cur[q]
            /\ seen'[q] = built[q] /\ built'[q] = built[q] /\ seen[q] < built[q]
<1>0. LocalsOK
  BY DEF TypeOK
<1>1. CASE Ensure(q)
  BY <1>1, <1>0 DEF Ensure, LocalsOK, Goto, RunId
<1>2. CASE Create(q)
  BY <1>2, <1>0 DEF Create, LocalsOK, Goto
<1>3. CASE Top(q) \/ StreamOK(q) \/ StreamError(q)
  <2>1. pc[q] \in {"top", "stream"} /\ cur[q] \in RunId
    BY <1>3, <1>0, LoopHasRun DEF Top, StreamOK, StreamError, Looping, Executing
  <2>2. cur' = cur /\ seen' = [seen EXCEPT ![q] = max(@, runs[cur[q]].through)]
    BY <1>3 DEF Top, StreamOK, StreamError
  <2>. QED
    BY <2>1, <2>2, <1>0 DEF LocalsOK
<1>4. CASE AdvanceRun(q)
  <2>1. next[q] # "advBot"
    BY <1>0 DEF LocalsOK
  <2>2. CASE built[q] <= seen[q]
    BY <1>4, <2>1, <2>2, <1>0 DEF AdvanceRun, LocalsOK, Goto
  <2>3. CASE ~(built[q] <= seen[q])
    BY <1>4, <2>3, <1>0 DEF AdvanceRun, LocalsOK, Goto
  <2>. QED
    BY <2>2, <2>3
<1>5. CASE Release(q) \/ Panic(q)
  BY <1>5, <1>0 DEF Release, Panic, Forget, LocalsOK
<1>6. CASE Take(q) \/ Bind(q) \/ Build(q) \/ Begin(q) \/ AdvanceBot(q) \/ CompactionNotice(q)
  BY <1>6, <1>0 DEF Take, Bind, Build, Begin, AdvanceBot, CompactionNotice, LocalsOK, Goto
<1>7. CASE TryFinish(q) \/ Stopped(q) \/ Failed(q) \/ Steal(q) \/ Reacquire(q)
  BY <1>7, <1>0 DEF TryFinish, Stopped, Failed, Steal, Reacquire, LocalsOK, Goto
<1>8. CASE CallsDone(q) \/ CallsStop(q) \/ Fail(q) \/ CompactionFail(q) \/ FinishLost(q)
  BY <1>8, <1>0 DEF CallsDone, CallsStop, Fail, CompactionFail, FinishLost, LocalsOK, Goto
<1>. QED
  BY <1>1, <1>2, <1>3, <1>4, <1>5, <1>6, <1>7, <1>8 DEF Own, Step, Model, Broken

(* ... and to what its request contains.                                   *)
LEMMA BuiltStep ==
  ASSUME TypeOK, NEW q \in Gs, Own(q)
  PROVE  \/ built'[q] = built[q]
         \/ built'[q] = 0 /\ pc'[q] \notin {"advRun", "advBot"}
         \/ built'[q] = max(seen[q], LastSeq) /\ (pc'[q] = "begin" \/ next'[q] = "notice")
<1>0. LocalsOK
  BY DEF TypeOK
<1>1. CASE Build(q) \/ CompactionFail(q)
  BY <1>1, <1>0 DEF Build, CompactionFail, LocalsOK, Goto
<1>2. CASE Release(q) \/ Panic(q)
  BY <1>2, <1>0 DEF Release, Panic, Forget, Goto, LocalsOK
<1>3. CASE Step(q) \/ Model(q) \/ Fail(q) \/ FinishLost(q)
  <2>1. CASE Step(q) /\ ~Build(q) /\ ~Release(q)
    BY <2>1 DEF Step, Take, Ensure, Create, Bind, Top, Begin, AdvanceRun, AdvanceBot,
                CompactionNotice, TryFinish, Stopped, Failed, Steal, Reacquire
  <2>2. CASE Model(q) \/ Fail(q) \/ FinishLost(q)
    BY <2>2 DEF Model, StreamOK, StreamError, CallsDone, CallsStop, Fail, FinishLost
  <2>. QED
    BY <1>1, <1>2, <1>3, <2>1, <2>2
<1>. QED
  BY <1>1, <1>2, <1>3 DEF Own, Broken

-----------------------------------------------------------------------------
(* Sequence numbers                                                        *)

(* Numbers are only handed out.                                            *)
LEMMA NumbersGrow ==
  ASSUME TypeOK, Next \/ UNCHANGED vars
  PROVE  nextSeq' \in Nat /\ nextSeq <= nextSeq'
<1>0. nextSeq \in Nat
  BY DEF TypeOK, DbOK
<1>1. nextSeq' \in {nextSeq, nextSeq + 1}
  <2>1. ASSUME NEW p \in Gs, Step(p) PROVE nextSeq' \in {nextSeq, nextSeq + 1}
    BY <2>1 DEF Step, Take, Ensure, Create, Bind, Top, Build, Begin, AdvanceRun, AdvanceBot,
       CompactionNotice, TryFinish, Stopped, Failed, Release, Steal, Reacquire, AppendNote, dbVars
  <2>2. ASSUME NEW p \in Gs, Model(p) PROVE nextSeq' \in {nextSeq, nextSeq + 1}
    BY <2>2 DEF Model, StreamOK, StreamError, CallsDone, CallsStop, AppendNote, dbVars
  <2>3. ASSUME NEW p \in Gs, Broken(p) PROVE nextSeq' \in {nextSeq, nextSeq + 1}
    BY <2>3 DEF Broken, Fail, CompactionFail, FinishLost, Panic, dbVars
  <2>4. ASSUME NEW w \in wakes, WakeUp(w) PROVE nextSeq' \in {nextSeq, nextSeq + 1}
    BY <2>4 DEF WakeUp, WakeAcquire, WakeBusy, WakeMark, dbVars
  <2>5. ASSUME NEW h \in stops, HardStop(h) PROVE nextSeq' \in {nextSeq, nextSeq + 1}
    BY <2>5 DEF HardStop, HardMark, HardRead, HardAdvanceRun, HardAdvanceBot, HardCancel, dbVars
  <2>6. ASSUME NEW r \in RunId, RequestStop(r) \/ RequestStopAgain(r)
        PROVE nextSeq' \in {nextSeq, nextSeq + 1}
    BY <2>6 DEF RequestStop, RequestStopAgain, dbVars
  <2>7. CASE SendInput \/ Scan \/ Crash \/ Recover \/ NextMinute \/ UNCHANGED vars
    BY <2>7 DEF SendInput, Scan, Crash, Recover, RecoverRun, RecoverNotice, NextMinute,
                AppendNote, vars, dbVars
  <2>. QED
    BY <2>1, <2>2, <2>3, <2>4, <2>5, <2>6, <2>7 DEF Next
<1>. QED
  BY <1>0, <1>1

(* An input takes the next number.                                         *)
LEMMA InputStep ==
  ASSUME TypeOK, Next \/ UNCHANGED vars
  PROVE  \/ inputs' = inputs
         \/ /\ inputs' = inputs \cup {nextSeq} /\ nextSeq' = nextSeq + 1
            /\ offered' = offered
<1>1. ASSUME NEW p \in Gs, Step(p) PROVE inputs' = inputs
  BY <1>1 DEF Step, Take, Ensure, Create, Bind, Top, Build, Begin, AdvanceRun, AdvanceBot,
     CompactionNotice, TryFinish, Stopped, Failed, Release, Steal, Reacquire, dbVars
<1>2. ASSUME NEW p \in Gs, Model(p) PROVE inputs' = inputs
  BY <1>2 DEF Model, StreamOK, StreamError, CallsDone, CallsStop, dbVars
<1>3. ASSUME NEW p \in Gs, Broken(p) PROVE inputs' = inputs
  BY <1>3 DEF Broken, Fail, CompactionFail, FinishLost, Panic, dbVars
<1>4. ASSUME NEW w \in wakes, WakeUp(w) PROVE inputs' = inputs
  BY <1>4 DEF WakeUp, WakeAcquire, WakeBusy, WakeMark, dbVars
<1>5. ASSUME NEW h \in stops, HardStop(h) PROVE inputs' = inputs
  BY <1>5 DEF HardStop, HardMark, HardRead, HardAdvanceRun, HardAdvanceBot, HardCancel, dbVars
<1>6. ASSUME NEW r \in RunId, RequestStopAgain(r) PROVE inputs' = inputs
  BY <1>6 DEF RequestStopAgain, dbVars
<1>7. CASE Scan \/ Crash \/ Recover \/ NextMinute \/ UNCHANGED vars
  BY <1>7 DEF Scan, Crash, Recover, RecoverRun, RecoverNotice, NextMinute, vars, dbVars
<1>8. ASSUME NEW r \in RunId, SendInput \/ RequestStop(r)
      PROVE  /\ inputs' = inputs \cup {nextSeq} /\ nextSeq' = nextSeq + 1
             /\ offered' = offered
  BY <1>8 DEF SendInput, RequestStop
<1>9. CASE SendInput
  BY <1>9 DEF SendInput
<1>. QED
  BY <1>1, <1>2, <1>3, <1>4, <1>5, <1>6, <1>7, <1>8, <1>9 DEF Next

(* The watermark of the bot never goes back; it follows the request of the *)
(* goroutine or the message of a hard stop.                                *)
LEMMA OfferedStep ==
  ASSUME TypeOK, Next \/ UNCHANGED vars
  PROVE  \/ offered' = offered
         \/ \E p \in Gs : AdvanceBot(p) /\ offered' = max(offered, built[p])
         \/ \E h \in stops : HardAdvanceBot(h) /\ offered' = max(offered, h.seq)
<1>1. ASSUME NEW p \in Gs, Step(p)
      PROVE  offered' = offered \/ (AdvanceBot(p) /\ offered' = max(offered, built[p]))
  BY <1>1 DEF Step, Take, Ensure, Create, Bind, Top, Build, Begin, AdvanceRun, AdvanceBot,
     CompactionNotice, TryFinish, Stopped, Failed, Release, Steal, Reacquire, dbVars
<1>2. ASSUME NEW p \in Gs, Model(p) PROVE offered' = offered
  BY <1>2 DEF Model, StreamOK, StreamError, CallsDone, CallsStop, dbVars
<1>3. ASSUME NEW p \in Gs, Broken(p) PROVE offered' = offered
  BY <1>3 DEF Broken, Fail, CompactionFail, FinishLost, Panic, dbVars
<1>4. ASSUME NEW w \in wakes, WakeUp(w) PROVE offered' = offered
  BY <1>4 DEF WakeUp, WakeAcquire, WakeBusy, WakeMark, dbVars
<1>5. ASSUME NEW h \in stops, HardStop(h)
      PROVE  offered' = offered \/ (HardAdvanceBot(h) /\ offered' = max(offered, h.seq))
  BY <1>5 DEF HardStop, HardMark, HardRead, HardAdvanceRun, HardAdvanceBot, HardCancel, dbVars
<1>6. ASSUME NEW r \in RunId, RequestStop(r) \/ RequestStopAgain(r) PROVE offered' = offered
  BY <1>6 DEF RequestStop, RequestStopAgain, dbVars
<1>7. CASE SendInput \/ Scan \/ Crash \/ Recover \/ NextMinute \/ UNCHANGED vars
  BY <1>7 DEF SendInput, Scan, Crash, Recover, RecoverRun, RecoverNotice, NextMinute, vars, dbVars
<1>. QED
  BY <1>1, <1>2, <1>3, <1>4, <1>5, <1>6, <1>7 DEF Next

LEMMA OfferedGrows ==
  ASSUME TypeOK, Next \/ UNCHANGED vars
  PROVE  offered' \in Nat /\ offered <= offered'
<1>1. offered \in Nat /\ (\A p \in Gs : built[p] \in Nat) /\ \A h \in stops : h.seq \in Nat
  BY DEF TypeOK, DbOK, LocalsOK, MemoryOK
<1>. QED
  BY <1>1, OfferedStep DEF max

(* A hard stop goes from step to step: it is marked only without progress. *)
HardMoved(h, g) ==
  /\ g.run = h.run /\ g.seq = h.seq /\ g.ord = h.ord
  /\ h.at = "armed" => HardMark(h) /\ ~Progress(h)

(* The hard stops after a step.                                            *)
LEMMA StopStep ==
  ASSUME TypeOK, Next \/ UNCHANGED vars, NEW g \in stops'
  PROVE  \/ g \in stops
         \/ \E h \in stops : HardMoved(h, g)
         \/ \E r \in RunId : /\ RequestStop(r) /\ g.run = r /\ g.seq = nextSeq
                             /\ g.ord = Len(runs[r].reqs) /\ g.at = "armed"
         \/ \E r \in RunId : /\ RequestStopAgain(r) /\ g.run = r
                             /\ g.seq = runs[r].stopMsg /\ runs[r].stopMsg # 0 /\ g.ord = -1
<1>1. CASE UNCHANGED stops
  BY <1>1
<1>2. ASSUME NEW h \in stops, HardStop(h)
      PROVE  g \in stops \/ HardMoved(h, g)
  <2>0. h \in [run : RunId, seq : Nat, ord : Nat \cup {-1},
               at : {"armed", "read", "advRun", "advBot", "cancel"}]
    BY DEF TypeOK, MemoryOK
  <2>1. CASE HardMark(h)
    BY <2>0, <2>1 DEF HardMark, HardMoved
  <2>2. CASE HardRead(h)
    BY <2>0, <2>2 DEF HardRead, HardMoved
  <2>3. CASE HardAdvanceRun(h) \/ HardAdvanceBot(h)
    BY <2>0, <2>3 DEF HardAdvanceRun, HardAdvanceBot, HardMoved
  <2>4. CASE HardCancel(h)
    BY <2>4 DEF HardCancel
  <2>. QED
    BY <1>2, <2>1, <2>2, <2>3, <2>4 DEF HardStop
<1>3. ASSUME NEW r \in RunId, RequestStop(r), g \notin stops
      PROVE  /\ g.run = r /\ g.seq = nextSeq
             /\ g.ord = Len(runs[r].reqs) /\ g.at = "armed"
  BY <1>3 DEF RequestStop
<1>4. ASSUME NEW r \in RunId, RequestStopAgain(r), g \notin stops
      PROVE  g.run = r /\ g.seq = runs[r].stopMsg /\ runs[r].stopMsg # 0 /\ g.ord = -1
  BY <1>4 DEF RequestStopAgain
<1>5. ASSUME NEW p \in Gs, Step(p) PROVE UNCHANGED stops
  BY <1>5 DEF Step, Take, Ensure, Create, Bind, Top, Build, Begin, AdvanceRun, AdvanceBot,
     CompactionNotice, TryFinish, Stopped, Failed, Release, Steal, Reacquire
<1>6. ASSUME NEW p \in Gs, Model(p) PROVE UNCHANGED stops
  BY <1>6 DEF Model, StreamOK, StreamError, CallsDone, CallsStop
<1>7. ASSUME NEW p \in Gs, Broken(p) PROVE UNCHANGED stops
  BY <1>7 DEF Broken, Fail, CompactionFail, FinishLost, Panic
<1>8. ASSUME NEW w \in wakes, WakeUp(w) PROVE UNCHANGED stops
  BY <1>8 DEF WakeUp, WakeAcquire, WakeBusy, WakeMark
<1>9. CASE SendInput \/ Scan \/ Recover \/ NextMinute \/ UNCHANGED vars
  BY <1>9, <1>1 DEF SendInput, Scan, Recover, RecoverRun, RecoverNotice, NextMinute, vars
<1>10. CASE Crash
  BY <1>10 DEF Crash
<1>. QED
  BY Zenon, <1>1, <1>2, <1>3, <1>4, <1>5, <1>6, <1>7, <1>8, <1>9, <1>10 DEF Next

LEMMA NumbersStep ==
  ASSUME TypeOK, TypeOK', Numbers, StopsOf, Fresh, Next \/ UNCHANGED vars
  PROVE  Numbers'
<1>0. /\ nextSeq \in Nat /\ nextSeq' \in Nat /\ nextSeq <= nextSeq'
      /\ offered \in Nat /\ offered' \in Nat
  BY NumbersGrow, OfferedGrows DEF TypeOK, DbOK
<1>a. /\ \A p \in Gs : /\ seen[p] \in Nat /\ built[p] \in Nat
                       /\ seen'[p] \in Nat /\ built'[p] \in Nat
      /\ \A h \in stops : h.seq \in Nat /\ h.run \in RunId
      /\ \A h \in stops' : h.seq \in Nat /\ h.run \in RunId
      /\ inputs \subseteq Nat
      /\ \A r \in RunId : runs[r] \in Run /\ runs'[r] \in Run
  BY DEF TypeOK, LocalsOK, MemoryOK, DbOK
<1>b. \A r \in RunId : /\ runs[r].through \in Nat /\ runs'[r].through \in Nat
                       /\ runs[r].stopMsg \in Nat
                       /\ runs[r].reqs \in Seq(Nat) /\ runs'[r].reqs \in Seq(Nat)
  BY <1>a DEF Run
<1>1. offered' < nextSeq'
  BY <1>0, <1>a, OfferedStep DEF Numbers, max
<1>2. ASSUME NEW n \in inputs'
      PROVE  n < nextSeq'
  <2>1. CASE n \in inputs
    BY <2>1, <1>0, <1>a DEF Numbers
  <2>2. CASE n = nextSeq /\ nextSeq' = nextSeq + 1
    BY <2>2, <1>0
  <2>. QED
    BY <2>1, <2>2, InputStep
<1>3. ASSUME NEW r \in RunId
      PROVE  runs'[r].through < nextSeq'
  <2>1. CASE runs'[r].through = runs[r].through
    BY <1>0, <1>b, <2>1 DEF Numbers
  <2>2. ASSUME NEW p \in Gs, Creates(p, r)
        PROVE  runs'[r].through < nextSeq'
    <3>1. runs'[r].through = 0
      BY <2>2, CreatedFields
    <3>. QED
      BY <3>1, <1>0 DEF Numbers
  <2>3. ASSUME NEW p \in Gs, Advances(p, r)
        PROVE  runs'[r].through < nextSeq'
    <3>1. runs'[r].through = max(runs[r].through, built[p])
      BY <2>3, <1>a DEF Advances, Run
    <3>. QED
      BY <3>1, <1>0, <1>a, <1>b DEF Numbers, max
  <2>4. ASSUME NEW p \in Gs, Completes(p, r)
        PROVE  runs'[r].through < nextSeq'
    <3>1. runs'[r].through = seen[p]
      BY <2>4, <1>a DEF Completes, Run
    <3>. QED
      BY <3>1, <1>0, <1>a DEF Numbers
  <2>5. ASSUME NEW h \in stops, Skips(h, r)
        PROVE  runs'[r].through < nextSeq'
    <3>1. runs'[r].through = max(runs[r].through, h.seq)
      BY <2>5, <1>a DEF Skips, Run
    <3>. QED
      BY <3>1, <1>0, <1>a, <1>b DEF Numbers, max
  <2>. QED
    BY <2>1, <2>2, <2>3, <2>4, <2>5, RowStepFields
<1>4. ASSUME NEW r \in RunId, NEW i \in DOMAIN runs'[r].reqs
      PROVE  runs'[r].reqs[i] < nextSeq'
  <2>0. \A j \in DOMAIN runs[r].reqs : runs[r].reqs[j] \in Nat /\ runs[r].reqs[j] < nextSeq
    BY <1>b DEF Numbers
  <2>1. CASE runs'[r].reqs = runs[r].reqs
    BY <1>0, <2>0, <2>1
  <2>2. ASSUME NEW p \in Gs, Creates(p, r)
        PROVE  FALSE
    <3>1. runs'[r].reqs = <<>>
      BY <2>2, CreatedFields
    <3>. QED
      BY <3>1, <1>4
  <2>3. ASSUME NEW p \in Gs, Registers(p, r)
        PROVE  runs'[r].reqs[i] < nextSeq'
    <3>1. runs'[r].reqs = Append(runs[r].reqs, built[p])
      BY <2>3, <1>a DEF Registers, Run
    <3>2. built[p] \in Nat /\ built[p] < nextSeq
      BY <1>a DEF Numbers
    <3>. DEFINE old == runs[r].reqs
    <3>3. old \in Seq(Nat) /\ \A j \in DOMAIN old : old[j] \in Nat /\ old[j] < nextSeq
      BY <2>0, <1>b
    <3>4. i \in DOMAIN Append(old, built[p]) /\ runs'[r].reqs[i] = Append(old, built[p])[i]
      BY <3>1
    <3>. HIDE DEF old
    <3>5. Append(old, built[p])[i] \in Nat /\ Append(old, built[p])[i] < nextSeq
      <4>1. CASE i = Len(old) + 1
        BY <3>2, <3>3, <4>1
      <4>2. CASE i \in DOMAIN old
        BY <3>2, <3>3, <4>2
      <4>. QED
        BY <3>2, <3>3, <3>4, <4>1, <4>2
    <3>. QED
      BY <3>4, <3>5, <1>0
  <2>. QED
    BY <2>1, <2>2, <2>3, RowStepFields
<1>5. ASSUME NEW p \in Gs
      PROVE  seen'[p] < nextSeq' /\ built'[p] < nextSeq'
  <2>0. /\ seen[p] < nextSeq /\ built[p] < nextSeq /\ 0 < nextSeq
        /\ \A r \in RunId : runs[r].through < nextSeq
    BY <1>0, <1>a DEF Numbers
  <2>1. CASE LocalKept(p) \/ Started(p)
    BY <2>0, <2>1, <1>0, <1>a DEF LocalKept, Started
  <2>2. CASE Own(p)
    <3>1. seen'[p] < nextSeq'
      BY <2>0, <2>2, <1>0, <1>a, <1>b, SeenStep DEF max
    <3>2. built'[p] < nextSeq'
      BY <2>0, <2>2, <1>0, <1>a, BuiltStep DEF max, LastSeq
    <3>. QED
      BY <3>1, <3>2
  <2>3. CASE Crash
    BY <2>0, <2>3, <1>0 DEF Crash
  <2>. QED
    BY <2>1, <2>2, <2>3, LocalSteps
<1>6. ASSUME NEW g \in stops'
      PROVE  0 < g.seq /\ g.seq < nextSeq'
  <2>1. CASE g \in stops
    BY <2>1, <1>0, <1>a DEF Numbers
  <2>2. ASSUME NEW h \in stops, HardMoved(h, g)
        PROVE  0 < g.seq /\ g.seq < nextSeq'
    BY <2>2, <1>0, <1>a DEF Numbers, HardMoved
  <2>3. ASSUME NEW r \in RunId, RequestStop(r), g.seq = nextSeq
        PROVE  0 < g.seq /\ g.seq < nextSeq'
    BY <2>3, <1>0 DEF RequestStop, Numbers
  <2>4. ASSUME NEW r \in RunId, RequestStopAgain(r), g.seq = runs[r].stopMsg, g.seq # 0
        PROVE  0 < g.seq /\ g.seq < nextSeq'
    BY <2>4, <1>0, <1>b DEF Numbers
  <2>. QED
    BY <2>1, <2>2, <2>3, <2>4, StopStep
<1>7. ASSUME NEW r \in RunId
      PROVE  runs'[r].stopMsg < nextSeq'
  <2>1. CASE runs'[r].stopMsg = runs[r].stopMsg
    BY <1>0, <1>b, <2>1 DEF Numbers
  <2>2. CASE RequestStop(r) /\ runs'[r].stopMsg = nextSeq
    BY <1>0, <2>2 DEF RequestStop
  <2>. QED
    BY <2>1, <2>2, StopMsgStays
<1>. QED
  BY <1>1, <1>2, <1>3, <1>4, <1>5, <1>6, <1>7 DEF Numbers

-----------------------------------------------------------------------------
(* Requests and stops                                                      *)

LEMMA StopsOfStep ==
  ASSUME TypeOK, Fresh, Numbers, StopsOf, Next \/ UNCHANGED vars
  PROVE  StopsOf'
<1> SUFFICES ASSUME NEW g \in stops' PROVE g.seq = runs'[g.run].stopMsg
  BY DEF StopsOf
<1>0. /\ \A h \in stops : h.run \in RunId /\ h.seq \in Nat
      /\ \A r \in RunId : runs[r].stopMsg \in Nat
  BY DEF TypeOK, MemoryOK, DbOK, Run
<1>1. ASSUME NEW h \in stops, g.run = h.run, g.seq = h.seq
      PROVE  g.seq = runs'[g.run].stopMsg
  <2>1. runs[h.run].stopMsg = h.seq /\ 0 < h.seq
    BY DEF StopsOf, Numbers
  <2>2. runs'[h.run].stopMsg = runs[h.run].stopMsg
    BY <2>1, <1>0, StopMsgStays
  <2>. QED
    BY <1>1, <2>1, <2>2
<1>2. ASSUME NEW r \in RunId, RequestStop(r), g.run = r, g.seq = nextSeq
      PROVE  g.seq = runs'[g.run].stopMsg
  <2>1. runs' = [runs EXCEPT ![r].stopMsg = nextSeq]
    BY <1>2 DEF RequestStop
  <2>. QED
    BY <1>2, <2>1 DEF TypeOK, DbOK, Run
<1>3. ASSUME NEW r \in RunId, RequestStopAgain(r), g.run = r, g.seq = runs[r].stopMsg
      PROVE  g.seq = runs'[g.run].stopMsg
  BY <1>3 DEF RequestStopAgain, dbVars
<1>4. CASE g \in stops
  BY <1>1, <1>4
<1>. QED
  BY <1>1, <1>2, <1>3, <1>4, StopStep DEF HardMoved

LEMMA GraceStep ==
  ASSUME TypeOK, Fresh, Numbers, StopMarked, Grace, Next \/ UNCHANGED vars
  PROVE  Grace'
<1> SUFFICES ASSUME NEW g \in stops', g.ord >= 0
             PROVE  /\ g.ord <= Len(runs'[g.run].reqs)
                    /\ \A i \in DOMAIN runs'[g.run].reqs :
                         i <= g.ord \/ g.at # "armed" => runs'[g.run].reqs[i] < g.seq
  BY DEF Grace
<1>0. /\ \A h \in stops : h.run \in RunId /\ h.seq \in Nat /\ h.ord \in Nat \cup {-1}
      /\ \A r \in RunId : runs[r].reqs \in Seq(Nat) /\ Len(runs[r].reqs) \in Nat
  BY DEF TypeOK, MemoryOK, DbOK, Run
<1>a. \A r \in RunId : runs'[r].reqs \in Seq(Nat) /\ Len(runs'[r].reqs) \in Nat
  <2>1. TypeOK'
    BY TypeStep
  <2>. QED
    BY <2>1 DEF TypeOK, DbOK, Run
(* A hard stop that is past its timer: its run registers nothing any more. *)
<1>1. ASSUME NEW h \in stops, g.run = h.run, g.seq = h.seq, g.ord = h.ord,
             h.at # "armed"
      PROVE  /\ g.ord <= Len(runs'[g.run].reqs)
             /\ \A i \in DOMAIN runs'[g.run].reqs : runs'[g.run].reqs[i] < g.seq
  <2>1. runs'[h.run].reqs = runs[h.run].reqs
    BY <1>0, <1>1, StopStays DEF StopMarked
  <2>. QED
    BY <1>1, <2>1 DEF Grace
<1>2. ASSUME NEW h \in stops, g.run = h.run, g.seq = h.seq, g.ord = h.ord
      PROVE  /\ g.ord <= Len(runs'[g.run].reqs)
             /\ \A i \in DOMAIN runs'[g.run].reqs :
                  i <= g.ord => runs'[g.run].reqs[i] < g.seq
  <2>1. g.ord \in Nat /\ h.ord <= Len(runs[h.run].reqs)
    BY <1>0, <1>2 DEF Grace
  <2>2. Len(runs[h.run].reqs) <= Len(runs'[h.run].reqs)
    BY <1>0, RequestsGrow
  <2>3. ASSUME NEW i \in DOMAIN runs'[h.run].reqs, i <= h.ord
        PROVE  runs'[h.run].reqs[i] < h.seq
    <3>0. h.run \in RunId
      BY <1>0
    <3>a. /\ DOMAIN runs[h.run].reqs = 1..Len(runs[h.run].reqs)
          /\ DOMAIN runs'[h.run].reqs = 1..Len(runs'[h.run].reqs)
      BY <1>0, <1>a, <3>0
    <3>b. Len(runs[h.run].reqs) \in Nat /\ h.ord \in Nat
      BY <1>0, <1>2, <2>1, <3>0
    <3>1. i \in DOMAIN runs[h.run].reqs
      BY <2>1, <2>3, <3>a, <3>b, <1>2
    <3>2. runs'[h.run].reqs[i] = runs[h.run].reqs[i]
      BY <1>0, <3>1, RequestsGrow
    <3>. QED
      BY <1>2, <2>3, <3>1, <3>2 DEF Grace
  <2>4. g.ord <= Len(runs'[h.run].reqs)
    <3>1. h.run \in RunId
      BY <1>0
    <3>. DEFINE before == Len(runs[h.run].reqs)
                after == Len(runs'[h.run].reqs)
    <3>2. before \in Nat /\ after \in Nat
      BY <1>0, <1>a, <3>1
    <3>3. g.ord \in Nat /\ g.ord <= before /\ before <= after
      BY <1>2, <2>1, <2>2
    <3>. HIDE DEF before, after
    <3>4. g.ord <= after
      BY <3>2, <3>3
    <3>. QED
      BY <3>4 DEF after
  <2>. QED
    BY <1>2, <2>3, <2>4
<1>3. ASSUME NEW h \in stops, HardMoved(h, g), h.at = "armed"
      PROVE  \A i \in DOMAIN runs'[g.run].reqs : runs'[g.run].reqs[i] < g.seq
  <2>1. HardMark(h) /\ ~Progress(h) /\ g.run = h.run /\ g.seq = h.seq /\ g.ord = h.ord
    BY <1>3 DEF HardMoved
  <2>2. runs'[h.run].reqs = runs[h.run].reqs
    <3>1. CASE runs' = [runs EXCEPT ![h.run].stop = TRUE]
      BY <3>1, <1>0 DEF TypeOK, DbOK, Run
    <3>. QED
      BY <2>1, <3>1 DEF HardMark
  <2>3. \A i \in DOMAIN runs[h.run].reqs : i > h.ord => runs[h.run].reqs[i] < h.seq
    BY <1>0, <2>1 DEF Progress
  <2>4. \A i \in DOMAIN runs[h.run].reqs : i <= h.ord => runs[h.run].reqs[i] < h.seq
    BY <2>1 DEF Grace
  <2>5. \A i \in DOMAIN runs[h.run].reqs : i > h.ord \/ i <= h.ord
    BY <1>0
  <2>. QED
    BY <2>1, <2>2, <2>3, <2>4, <2>5
<1>4. ASSUME NEW r \in RunId, RequestStop(r), g.run = r, g.seq = nextSeq,
             g.ord = Len(runs[r].reqs), g.at = "armed"
      PROVE  /\ g.ord <= Len(runs'[g.run].reqs)
             /\ \A i \in DOMAIN runs'[g.run].reqs :
                  i <= g.ord \/ g.at # "armed" => runs'[g.run].reqs[i] < g.seq
  <2>1. runs' = [runs EXCEPT ![r].stopMsg = nextSeq]
    BY <1>4 DEF RequestStop
  <2>2. runs'[r].reqs = runs[r].reqs
    BY <2>1 DEF TypeOK, DbOK, Run
  <2>. QED
    BY <1>0, <1>4, <2>2 DEF Numbers
<1>5. ~\E r \in RunId : RequestStopAgain(r) /\ g.ord = -1
  OBVIOUS
<1>6. CASE g \in stops
  <2>1. CASE g.at = "armed"
    BY <1>2, <1>6, <2>1
  <2>2. CASE g.at # "armed"
    BY <1>1, <1>6, <2>2
  <2>. QED
    BY <2>1, <2>2
<1>7. ASSUME NEW h \in stops, HardMoved(h, g)
      PROVE  /\ g.ord <= Len(runs'[g.run].reqs)
             /\ \A i \in DOMAIN runs'[g.run].reqs : runs'[g.run].reqs[i] < g.seq
  <2>0. g.run = h.run /\ g.seq = h.seq /\ g.ord = h.ord
    BY <1>7 DEF HardMoved
  <2>1. CASE h.at = "armed"
    BY <1>2, <1>3, <1>7, <2>0, <2>1
  <2>2. CASE h.at # "armed"
    BY <1>1, <2>0, <2>2
  <2>. QED
    BY <2>1, <2>2
<1>. QED
  BY <1>4, <1>5, <1>6, <1>7, StopStep

(* What a goroutine must have done to be between its request and the       *)
(* watermark of the bot.                                                   *)
LEMMA AdvancingStep ==
  ASSUME TypeOK, NEW p \in Gs, Own(p), pc'[p] \in {"advRun", "advBot"}
  PROVE  \/ next'[p] = "notice" /\ CompactionFail(p)
         \/ Begin(p) /\ Registrable(cur[p])
         \/ AdvanceRun(p) /\ pc[p] = "advRun" /\ UNCHANGED <<cur, built, next>>
<1>0. LocalsOK
  BY DEF TypeOK
<1>1. CASE CompactionFail(p)
  BY <1>0, <1>1 DEF CompactionFail, LocalsOK
<1>2. CASE Begin(p)
  BY <1>0, <1>2 DEF Begin, LocalsOK, Goto
<1>3. CASE AdvanceRun(p)
  BY <1>3 DEF AdvanceRun
<1>4. CASE AdvanceBot(p) \/ Ensure(p) \/ Create(p) \/ Top(p)
  BY <1>0, <1>4 DEF AdvanceBot, Ensure, Create, Top, LocalsOK, Goto
<1>5. CASE Take(p) \/ Bind(p) \/ Build(p) \/ CompactionNotice(p) \/ TryFinish(p)
  BY <1>0, <1>5 DEF Take, Bind, Build, CompactionNotice, TryFinish, LocalsOK, Goto
<1>6. CASE Stopped(p) \/ Failed(p) \/ Release(p) \/ Steal(p) \/ Reacquire(p)
  BY <1>0, <1>6 DEF Stopped, Failed, Release, Steal, Reacquire, LocalsOK, Goto
<1>7. CASE StreamOK(p) \/ StreamError(p) \/ CallsDone(p) \/ CallsStop(p)
  BY <1>0, <1>7 DEF StreamOK, StreamError, CallsDone, CallsStop, LocalsOK, Goto
<1>8. CASE Fail(p) \/ FinishLost(p) \/ Panic(p)
  BY <1>0, <1>8 DEF Fail, FinishLost, Panic, LocalsOK, Goto
<1>. QED
  BY <1>1, <1>2, <1>3, <1>4, <1>5, <1>6, <1>7, <1>8 DEF Own, Step, Model, Broken

LEMMA NextStep ==
  ASSUME TypeOK, NEW p \in Gs, Own(p), next'[p] # next[p]
  PROVE  next'[p] = "stream" \/ CompactionFail(p)
<1>0. LocalsOK
  BY DEF TypeOK
<1>1. CASE Step(p)
  <2>1. CASE Begin(p)
    BY <1>0, <2>1 DEF Begin, LocalsOK
  <2>2. CASE Release(p)
    BY <1>0, <2>2 DEF Release, Forget, LocalsOK
  <2>. QED
    BY <1>1, <2>1, <2>2 DEF Step, Take, Ensure, Create, Bind, Top, Build, AdvanceRun, AdvanceBot,
       CompactionNotice, TryFinish, Stopped, Failed, Steal, Reacquire
<1>2. CASE Model(p)
  BY <1>2 DEF Model, StreamOK, StreamError, CallsDone, CallsStop
<1>3. CASE Broken(p)
  <2>1. CASE Panic(p)
    BY <1>0, <2>1 DEF Panic, Forget, LocalsOK
  <2>. QED
    BY <1>3, <2>1 DEF Broken, Fail, FinishLost
<1>. QED
  BY <1>1, <1>2, <1>3 DEF Own

LEMMA RegisteredStep ==
  ASSUME TypeOK, Fresh, Registered, Next \/ UNCHANGED vars
  PROVE  Registered'
<1> SUFFICES ASSUME NEW p \in Gs
             PROVE  /\ "compaction" \notin Faults => next'[p] = "stream"
                    /\ pc'[p] \in {"advRun", "advBot"} /\ next'[p] = "stream" =>
                         \E i \in DOMAIN runs'[cur'[p]].reqs :
                            runs'[cur'[p]].reqs[i] >= built'[p]
  BY DEF Registered
<1>0. LocalsOK
  BY DEF TypeOK
<1>1. ASSUME pc[p] \in {"advRun", "advBot"}, next[p] = "stream"
      PROVE  \E i \in DOMAIN runs'[cur[p]].reqs : runs'[cur[p]].reqs[i] >= built[p]
  <2>1. cur[p] \in RunId
    BY <1>0, <1>1, LoopHasRun DEF Looping, Executing
  <2>2. PICK i \in DOMAIN runs[cur[p]].reqs : runs[cur[p]].reqs[i] >= built[p]
    BY <1>1 DEF Registered
  <2>3. i \in DOMAIN runs'[cur[p]].reqs /\ runs'[cur[p]].reqs[i] = runs[cur[p]].reqs[i]
    BY <2>1, <2>2, RequestsGrow
  <2>. QED
    BY <2>2, <2>3
<1>2. CASE LocalKept(p)
  BY <1>1, <1>2 DEF LocalKept, Registered
<1>3. CASE Started(p) \/ Crash
  BY <1>3 DEF Started, Crash, Registered
<1>4. CASE Own(p)
  <2>1. "compaction" \notin Faults => next'[p] = "stream"
    BY <1>4, NextStep DEF Registered, CompactionFail, Fault
  <2>2. ASSUME pc'[p] \in {"advRun", "advBot"}, next'[p] = "stream", Begin(p), Registrable(cur[p])
        PROVE  \E i \in DOMAIN runs'[cur'[p]].reqs : runs'[cur'[p]].reqs[i] >= built'[p]
    <3>1. cur[p] \in RunId /\ built[p] \in Nat
      BY <1>0, <2>2, LoopHasRun DEF Begin, Looping, Executing, LocalsOK
    <3>2. runs' = [runs EXCEPT ![cur[p]].reqs = Append(@, built[p])] /\ UNCHANGED <<cur, built>>
      BY <2>2 DEF Begin
    <3>3. runs[cur[p]].reqs \in Seq(Nat)
      BY <3>1 DEF TypeOK, DbOK, Run
    <3>4. runs'[cur[p]].reqs = Append(runs[cur[p]].reqs, built[p])
      BY <3>1, <3>2 DEF TypeOK, DbOK, Run
    <3>5. /\ Len(runs[cur[p]].reqs) + 1 \in DOMAIN runs'[cur[p]].reqs
          /\ runs'[cur[p]].reqs[Len(runs[cur[p]].reqs) + 1] = built[p]
      BY <3>1, <3>3, <3>4
    <3>. QED
      BY <3>1, <3>2, <3>5
  <2>3. ASSUME pc'[p] \in {"advRun", "advBot"}, next'[p] = "stream", AdvanceRun(p)
        PROVE  \E i \in DOMAIN runs'[cur'[p]].reqs : runs'[cur'[p]].reqs[i] >= built'[p]
    BY <2>3, <1>1 DEF AdvanceRun
  <2>. QED
    BY <1>4, <2>1, <2>2, <2>3, AdvancingStep
<1>. QED
  BY <1>2, <1>3, <1>4, LocalSteps

LEMMA OfferedJustifiedStep ==
  ASSUME TypeOK, Fresh, Numbers, StopMarked, StopsOf, Registered, OfferedJustified,
         Next \/ UNCHANGED vars
  PROVE  OfferedJustified'
<1> SUFFICES ASSUME "compaction" \notin Faults, NEW n \in inputs', n <= offered'
             PROVE  InRequest(n)' \/ HardStopped(n)'
  BY DEF OfferedJustified
<1>0. /\ nextSeq \in Nat /\ offered \in Nat /\ inputs \subseteq Nat
      /\ \A p \in Gs : built[p] \in Nat
      /\ \A h \in stops : h.run \in RunId /\ h.seq \in Nat
      /\ \A r \in RunId : runs[r].stopMsg \in Nat /\ runs[r].reqs \in Seq(Nat)
  BY DEF TypeOK, DbOK, LocalsOK, MemoryOK, Run
<1>1. n \in Nat
  BY <1>0, InputStep
(* A reason does not go away.                                              *)
<1>2. ASSUME InRequest(n)
      PROVE  InRequest(n)'
  BY <1>2, RequestsGrow DEF InRequest
<1>3. ASSUME HardStopped(n)
      PROVE  HardStopped(n)'
  <2>1. PICK r \in RunId : runs[r].stop /\ runs[r].stopMsg >= n
    BY <1>3 DEF HardStopped
  <2>2. runs'[r].stop
    BY <2>1, StopStays
  <2>3. runs'[r].stopMsg >= n
    <3>1. CASE runs'[r].stopMsg = runs[r].stopMsg
      BY <2>1, <3>1
    <3>2. CASE runs[r].stopMsg = 0 /\ runs'[r].stopMsg = nextSeq
      BY <2>1, <3>2, <1>0, <1>1
    <3>. QED
      BY <3>1, <3>2, StopMsgStays
  <2>. QED
    BY <2>2, <2>3 DEF HardStopped
<1>4. CASE n \in inputs /\ n <= offered
  BY <1>2, <1>3, <1>4 DEF OfferedJustified
(* The new input comes after the watermark.                                *)
<1>5. CASE n \notin inputs
  <2>1. n = nextSeq /\ offered' = offered
    BY <1>5, InputStep
  <2>. QED
    BY <2>1, <1>0 DEF Numbers
<1>6. ASSUME NEW p \in Gs, AdvanceBot(p), n <= built[p]
      PROVE  InRequest(n)'
  <2>1. pc[p] = "advBot" /\ cur[p] \in RunId
    BY <1>6, LoopHasRun DEF AdvanceBot, TypeOK, Looping, Executing
  <2>2. PICK i \in DOMAIN runs[cur[p]].reqs : runs[cur[p]].reqs[i] >= built[p]
    BY <2>1 DEF Registered
  <2>3. runs[cur[p]].reqs[i] >= n
    BY <1>0, <1>1, <1>6, <2>1, <2>2
  <2>. QED
    BY <1>2, <2>1, <2>2, <2>3 DEF InRequest
<1>7. ASSUME NEW h \in stops, HardAdvanceBot(h), n <= h.seq
      PROVE  HardStopped(n)'
  <2>1. h.run \in RunId /\ runs[h.run].stop /\ h.seq = runs[h.run].stopMsg
    BY <1>0, <1>7 DEF HardAdvanceBot, StopMarked, StopsOf
  <2>2. runs[h.run].stopMsg >= n
    BY <2>1, <1>0, <1>1, <1>7
  <2>. QED
    BY <1>3, <2>1, <2>2 DEF HardStopped
<1>8. ASSUME NEW a \in Nat, offered' = max(offered, a)
      PROVE  n <= offered \/ n <= a
  BY <1>0, <1>1, <1>8 DEF max
<1>. QED
  BY <1>0, <1>4, <1>5, <1>6, <1>7, <1>8, OfferedStep

-----------------------------------------------------------------------------
(* One run at a time, and its watermarks                                   *)

LEMMA UnfinishedStep ==
  ASSUME TypeOK, Next \/ UNCHANGED vars, NEW r \in RunId, Unfinished(r)'
  PROVE  Unfinished(r) \/ \E p \in Gs : Creates(p, r)
<1>0. runs[r] \in Run
  BY DEF TypeOK, DbOK
<1>1. \A p \in Gs : ~Completes(p, r)
  BY <1>0 DEF Completes, Run, Unfinished
<1>2. ~Ends(r)
  BY <1>0 DEF Ends, Run, Unfinished
<1>. QED
  BY <1>1, <1>2, RowStepFields DEF Unfinished

LEMMA CreateOne ==
  ASSUME TypeOK, NEW p \in Gs, NEW q \in Gs, NEW r \in RunId, NEW s \in RunId,
         Creates(p, r), Creates(q, s)
  PROVE  r = s
<1>1. runs'[r] # runs[r] /\ runs'[s] # runs[s]
  BY CreatedFields
<1>2. \E k, row : runs' = [runs EXCEPT ![k] = row] \/ runs' = runs
  BY DEF Creates, Create
<1>. QED
  BY <1>1, <1>2 DEF TypeOK, DbOK

LEMMA AtCreate ==
  ASSUME TypeOK, NEW p \in Gs, Own(p), pc'[p] = "create"
  PROVE  Ensure(p) /\ NoActiveRun /\ UNCHANGED runs
<1>0. LocalsOK
  BY DEF TypeOK
<1>1. CASE Ensure(p)
  BY <1>0, <1>1 DEF Ensure, LocalsOK, Goto, dbVars
<1>2. CASE Take(p) \/ Create(p) \/ Bind(p) \/ Top(p) \/ Build(p) \/ Begin(p)
  BY <1>0, <1>2 DEF Take, Create, Bind, Top, Build, Begin, LocalsOK, Goto
<1>3. CASE AdvanceRun(p) \/ AdvanceBot(p)
  BY <1>0, <1>3 DEF AdvanceRun, AdvanceBot, LocalsOK, Goto
<1>4. CASE CompactionNotice(p) \/ TryFinish(p) \/ Stopped(p) \/ Failed(p)
  BY <1>0, <1>4 DEF CompactionNotice, TryFinish, Stopped, Failed, LocalsOK, Goto
<1>5. CASE Release(p) \/ Steal(p) \/ Reacquire(p)
  BY <1>0, <1>5 DEF Release, Steal, Reacquire, LocalsOK, Goto
<1>6. CASE Model(p)
  BY <1>0, <1>6 DEF Model, StreamOK, StreamError, CallsDone, CallsStop, LocalsOK, Goto
<1>7. CASE Broken(p)
  BY <1>0, <1>7 DEF Broken, Fail, CompactionFail, FinishLost, Panic, LocalsOK, Goto
<1>. QED
  BY <1>1, <1>2, <1>3, <1>4, <1>5, <1>6, <1>7 DEF Own, Step

LEMMA OneActiveStep ==
  ASSUME TypeOK, OneExecutor, OneActive, Next \/ UNCHANGED vars
  PROVE  OneActive'
<1>0. LocalsOK
  BY DEF TypeOK
<1>1. ASSUME NEW p \in Gs, NEW r \in RunId, Creates(p, r)
      PROVE  NoActiveRun /\ \A q \in Gs : pc'[q] # "create"
  <2>1. pc[p] = "create" /\ NoActiveRun
    BY <1>1 DEF Creates, OneActive
  <2>2. pc'[p] # "create"
    BY <1>0, <1>1 DEF Creates, Create, Goto, LocalsOK
  <2>3. \A q \in Gs : q # p => pc'[q] = pc[q]
    BY <1>0, <1>1 DEF Creates, Create, Goto, LocalsOK
  <2>4. \A q \in Gs : q # p => pc[q] # "create"
    BY <2>1 DEF OneExecutor, Executing
  <2>. QED
    BY <2>1, <2>2, <2>3, <2>4
<1>2. ASSUME NEW q \in RunId, NEW r \in RunId, Unfinished(q)', Unfinished(r)'
      PROVE  q = r
  <2>1. CASE Unfinished(q) /\ Unfinished(r)
    BY <2>1 DEF OneActive
  <2>2. CASE ~Unfinished(q)
    <3>1. PICK p \in Gs : Creates(p, q)
      BY <1>2, <2>2, UnfinishedStep
    <3>2. ~Unfinished(r)
      BY <1>1, <3>1 DEF NoActiveRun
    <3>. QED
      BY <1>2, <3>1, <3>2, UnfinishedStep, CreateOne
  <2>3. CASE ~Unfinished(r)
    <3>1. PICK p \in Gs : Creates(p, r)
      BY <1>2, <2>3, UnfinishedStep
    <3>2. ~Unfinished(q)
      BY <1>1, <3>1 DEF NoActiveRun
    <3>. QED
      BY <2>2, <3>2
  <2>. QED
    BY <2>1, <2>2, <2>3
<1>3. ASSUME NEW p \in Gs, pc'[p] = "create"
      PROVE  NoActiveRun'
  <2>1. NoActiveRun
    <3>1. CASE LocalKept(p)
      BY <1>3, <3>1 DEF LocalKept, OneActive
    <3>2. CASE Started(p) \/ Crash
      BY <1>3, <3>2 DEF Started, Crash
    <3>3. CASE Own(p)
      BY <1>3, <3>3, AtCreate
    <3>. QED
      BY <3>1, <3>2, <3>3, LocalSteps
  <2>2. \A r \in RunId : \A q \in Gs : ~Creates(q, r)
    BY <1>1, <1>3
  <2>3. \A r \in RunId : ~Unfinished(r)'
    BY <2>1, <2>2, UnfinishedStep DEF NoActiveRun
  <2>. QED
    BY <2>3 DEF NoActiveRun
<1>. QED
  BY <1>2, <1>3 DEF OneActive

(* A run that advances after a step did so before, or is new.              *)
LEMMA AdvancingBefore ==
  ASSUME TypeOK, StopMarked, Recovering, Next \/ UNCHANGED vars,
         NEW r \in RunId, Advancing(r)'
  PROVE  Advancing(r) \/ \E p \in Gs : Creates(p, r)
<1>1. ~runs[r].stop
  BY StopStays DEF Advancing
<1>2. CASE Unfinished(r) /\ phase # "up"
  <2>0. phase' = "up" /\ phase \in {"down", "notice"}
    BY <1>2 DEF Advancing, TypeOK, MemoryOK
  <2>1. phase = "down"
    BY <1>2, <2>0 DEF Recovering, NoActiveRun
  <2>2. RecoverRun
    <3>1. ASSUME NEW p \in Gs PROVE ~(Step(p) \/ Model(p) \/ Broken(p))
      <4>1. pc[p] = "idle"
        BY <2>1 DEF Recovering
      <4>. QED
        BY <4>1 DEF Step, Take, Ensure, Create, Bind, Top, Build, Begin, AdvanceRun,
           AdvanceBot, CompactionNotice, TryFinish, Stopped, Failed, Release, Steal, Reacquire,
           Model, StreamOK, StreamError, CallsDone, CallsStop, Broken, Fail, CompactionFail,
           FinishLost, Panic, Executing
    <3>2. wakes = {}
      BY <2>1 DEF Recovering
    <3>3. \A h \in stops : HardStop(h) => phase' = phase
      BY DEF HardStop, HardMark, HardRead, HardAdvanceRun, HardAdvanceBot, HardCancel
    <3>4. /\ NextMinute \/ UNCHANGED vars => phase' = phase
          /\ \A s \in RunId : ~(RequestStop(s) \/ RequestStopAgain(s))
          /\ ~(SendInput \/ Scan \/ Crash \/ RecoverNotice)
      BY <2>0, <2>1 DEF NextMinute, vars, RequestStop, RequestStopAgain, SendInput, Scan, Crash,
                        RecoverNotice
    <3>. QED
      BY <2>0, <2>1, <3>1, <3>2, <3>3, <3>4 DEF Next, Recover
  <2>3. runs' = [q \in RunId |-> IF Unfinished(q) THEN [runs[q] EXCEPT !.status = "failed"]
                                                  ELSE runs[q]]
    BY <2>2 DEF RecoverRun
  <2>4. runs'[r].status = "failed"
    BY <2>3, <1>2 DEF TypeOK, DbOK, Run
  <2>. QED
    BY <2>4 DEF Advancing, Unfinished
<1>3. Unfinished(r)'
  BY DEF Advancing
<1>. QED
  BY <1>1, <1>2, <1>3, UnfinishedStep DEF Advancing

LEMMA FromAdvBot ==
  ASSUME NEW p \in Gs, Own(p), pc[p] = "advBot"
  PROVE  AdvanceBot(p) \/ Panic(p)
BY DEF Own, Step, Take, Ensure, Create, Bind, Top, Build, Begin, AdvanceRun, CompactionNotice,
       TryFinish, Stopped, Failed, Release, Steal, Reacquire, Model, StreamOK, StreamError,
       CallsDone, CallsStop, Broken, Fail, CompactionFail, FinishLost

(* A panic ends the run that is under way.                                 *)
LEMMA PanicEnds ==
  ASSUME TypeOK, OneActive, NEW p \in Gs, Panic(p), NEW r \in RunId, Unfinished(r)
  PROVE  ~Unfinished(r)'
<1>1. PICK q \in RunId : Unfinished(q) /\ runs' = FinishFailed(q)
  BY DEF Panic, NoActiveRun
<1>2. q = r
  BY <1>1 DEF OneActive
<1>3. ASSUME NEW st \in {"stopped", "failed"}, runs' = [runs EXCEPT ![r].status = st]
      PROVE  ~Unfinished(r)'
  BY <1>3 DEF TypeOK, DbOK, Run, Unfinished
<1>. QED
  BY <1>1, <1>2, <1>3 DEF FinishFailed, FinishStopped

LEMMA WatermarksStep ==
  ASSUME TypeOK, OneExecutor, StopMarked, Recovering, OneActive, Watermarks,
         Next \/ UNCHANGED vars
  PROVE  Watermarks'
<1>0. LocalsOK /\ TypeOK'
  BY TypeStep DEF TypeOK
<1>a. /\ \A r \in RunId : runs[r].through \in Nat /\ runs'[r].through \in Nat
      /\ \A p \in Gs : /\ seen[p] \in Nat /\ built[p] \in Nat
                       /\ seen'[p] \in Nat /\ built'[p] \in Nat
      /\ offered \in Nat /\ offered' \in Nat /\ offered <= offered'
  BY <1>0, OfferedGrows DEF TypeOK, DbOK, LocalsOK, Run
<1>b. ASSUME NEW p \in Gs, AdvanceBot(p)
      PROVE  built[p] <= offered'
  BY <1>a, <1>b DEF AdvanceBot, max
<1>c. \A p \in Gs, q \in Gs, r \in RunId :
        Creates(p, r) /\ pc[q] \in Executing => pc[q] = "create" /\ p = q
  BY DEF Creates, OneExecutor, Executing
<1>1. ASSUME NEW r \in RunId, Advancing(r)', Advancing(r)
      PROVE  \/ runs[r].through <= offered'
             \/ \E p \in Gs : pc'[p] = "advBot" /\ cur'[p] = r /\ runs[r].through <= built'[p]
  <2>1. CASE runs[r].through <= offered
    BY <2>1, <1>a
  <2>2. ASSUME NEW p \in Gs, pc[p] = "advBot", cur[p] = r, runs[r].through <= built[p]
        PROVE  \/ runs[r].through <= offered'
               \/ pc'[p] = "advBot" /\ cur'[p] = r /\ runs[r].through <= built'[p]
    <3>1. CASE LocalKept(p)
      BY <2>2, <3>1 DEF LocalKept
    <3>2. CASE AdvanceBot(p)
      BY <2>2, <3>2, <1>a, <1>b
    <3>3. ~Panic(p)
      BY <1>1, PanicEnds DEF Advancing
    <3>4. ~Started(p) /\ ~Crash
      BY <1>1, <2>2 DEF Started, Crash, Advancing
    <3>. QED
      BY <2>2, <3>1, <3>2, <3>3, <3>4, LocalSteps, FromAdvBot
  <2>. QED
    BY <1>1, <2>1, <2>2 DEF Watermarks
<1>2. ASSUME NEW r \in RunId, Advancing(r),
             NEW q \in Gs, pc[q] \in Executing, pc[q] # "advBot"
      PROVE  runs[r].through <= offered
  <2>1. \A p \in Gs : pc[p] # "advBot"
    BY <1>2 DEF OneExecutor, Executing
  <2>. QED
    BY <1>2, <2>1 DEF Watermarks
<1>3. ASSUME NEW r \in RunId, Advancing(r)'
      PROVE  \/ runs'[r].through <= offered'
             \/ \E p \in Gs : pc'[p] = "advBot" /\ cur'[p] = r /\ runs'[r].through <= built'[p]
  <2>1. ASSUME NEW p \in Gs, Creates(p, r)
        PROVE  runs'[r].through <= offered'
    <3>1. runs'[r].through = 0
      BY <2>1, CreatedFields
    <3>. QED
      BY <3>1, <1>a
  <2>2. CASE Advancing(r) /\ runs'[r].through = runs[r].through
    BY <1>1, <1>3, <2>2
  <2>3. ASSUME Advancing(r), NEW p \in Gs, Advances(p, r)
        PROVE  \/ runs'[r].through <= offered'
               \/ pc'[p] = "advBot" /\ cur'[p] = r /\ runs'[r].through <= built'[p]
    <3>1. pc[p] = "advRun" /\ cur[p] = r /\ AdvanceRun(p)
      BY <2>3 DEF Advances, AdvanceRun
    <3>2. runs[r].through <= offered
      BY <2>3, <3>1, <1>2 DEF Executing
    <3>3. CASE built[p] <= seen[p]
      <4>1. UNCHANGED runs
        BY <3>1, <3>3 DEF AdvanceRun
      <4>. QED
        BY <3>2, <4>1, <1>a
    <3>4. CASE ~(built[p] <= seen[p])
      <4>1. pc'[p] = "advBot" /\ cur'[p] = r /\ built'[p] = built[p]
        BY <1>0, <3>1, <3>4 DEF AdvanceRun, Goto, LocalsOK
      <4>2. runs'[r].through = max(runs[r].through, built[p])
        BY <2>3 DEF Advances, TypeOK, DbOK, Run
      <4>. QED
        BY <3>2, <4>1, <4>2, <1>a DEF max
    <3>. QED
      BY <3>3, <3>4
  <2>4. ASSUME NEW p \in Gs PROVE ~Completes(p, r)
    <3>1. CASE Completes(p, r)
      <4>1. runs'[r].status = "completed"
        BY <3>1 DEF Completes, TypeOK, DbOK, Run
      <4>. QED
        BY <1>3, <4>1 DEF Advancing, Unfinished
    <3>. QED
      BY <3>1
  <2>5. ASSUME NEW h \in stops PROVE ~Skips(h, r)
    <3>1. CASE Skips(h, r)
      <4>1. runs[r].stop
        BY <3>1 DEF Skips, HardAdvanceRun, StopMarked
      <4>. QED
        BY <1>3, <4>1, StopStays DEF Advancing
    <3>. QED
      BY <3>1
  <2>6. Advancing(r) \/ \E p \in Gs : Creates(p, r)
    BY <1>3, AdvancingBefore
  <2>. QED
    BY <2>1, <2>2, <2>3, <2>4, <2>5, <2>6, RowStepFields
<1>4. ASSUME NEW q \in Gs, pc'[q] \in Executing, NEW r \in RunId, cur'[q] = r, Advancing(r)'
      PROVE  seen'[q] <= offered' \/ (pc'[q] = "advBot" /\ seen'[q] <= built'[q])
  <2>0. r # NoRun
    BY IdNotNoRun
  <2>1. ASSUME pc[q] \in Executing, pc[q] # "create"
        PROVE  Advancing(r)
    BY <1>4, <1>c, <2>1, AdvancingBefore
  <2>2. ASSUME cur[q] = r
        PROVE  /\ pc[q] \in Executing /\ pc[q] # "create" /\ Advancing(r)
               /\ seen[q] <= offered \/ (pc[q] = "advBot" /\ seen[q] <= built[q])
    <3>1. pc[q] \in Looping \cup {"release"}
      BY <1>0, <2>0, <2>2 DEF LocalsOK
    <3>2. pc[q] \in Executing /\ pc[q] # "create"
      BY <3>1 DEF Looping, Executing
    <3>3. Advancing(r)
      BY <2>1, <3>2
    <3>. QED
      BY <2>0, <2>2, <3>2, <3>3 DEF Watermarks
  <2>3. CASE LocalKept(q)
    BY <1>4, <2>2, <2>3, <1>a DEF LocalKept
  <2>4. CASE Started(q)
    BY <1>4, <2>2, <2>4 DEF Started, Executing
  <2>5. CASE Crash
    BY <1>4, <2>5 DEF Crash, Advancing
  <2>6. CASE Own(q)
    <3>1. CASE seen'[q] = seen[q] /\ cur[q] = r
      <4>1. CASE seen[q] <= offered
        BY <3>1, <4>1, <1>a
      <4>2. CASE pc[q] = "advBot" /\ seen[q] <= built[q]
        <5>1. CASE Panic(q)
          BY <1>0, <1>4, <2>0, <5>1 DEF Panic, Forget, LocalsOK
        <5>2. CASE AdvanceBot(q)
          BY <3>1, <4>2, <5>2, <1>a, <1>b
        <5>. QED
          BY <2>6, <4>2, <5>1, <5>2, FromAdvBot
      <4>. QED
        BY <2>2, <3>1, <4>1, <4>2
    <3>2. CASE Create(q) /\ seen'[q] = 0
      BY <3>2, <1>a
    <3>3. CASE Ensure(q) /\ seen'[q] = runs[r].through
      <4>1. pc[q] \in Executing /\ pc[q] = "ensure"
        BY <3>3 DEF Ensure, Executing
      <4>2. runs[r].through <= offered
        BY <2>1, <4>1, <1>2
      <4>. QED
        BY <3>3, <4>2, <1>a
    <3>4. CASE /\ pc[q] \in {"top", "stream"} /\ cur[q] = r
               /\ seen'[q] = max(seen[q], runs[r].through)
      <4>1. seen[q] <= offered
        BY <2>2, <3>4
      <4>2. runs[r].through <= offered
        BY <2>2, <3>4, <1>2
      <4>. QED
        BY <3>4, <4>1, <4>2, <1>a DEF max
    <3>5. CASE pc'[q] = "advBot" /\ seen'[q] = built[q] /\ built'[q] = built[q]
      BY <3>5, <1>a
    <3>. QED
      BY <1>4, <2>0, <2>6, <3>1, <3>2, <3>3, <3>4, <3>5, SeenStep
  <2>. QED
    BY <2>3, <2>4, <2>5, <2>6, LocalSteps
<1>5. ASSUME NEW q \in Gs, pc'[q] \in Executing, cur'[q] # NoRun, Advancing(cur[q])'
      PROVE  seen'[q] <= offered' \/ (pc'[q] = "advBot" /\ seen'[q] <= built'[q])
  <2>1. PICK r \in RunId : cur'[q] = r
    BY <1>0, <1>5 DEF TypeOK, LocalsOK
  <2>2. Advancing(r)'
    BY <1>5, <2>1 DEF Advancing, Unfinished
  <2>. QED
    BY <1>4, <1>5, <2>1, <2>2
<1>. QED
  BY <1>3, <1>5 DEF Watermarks

-----------------------------------------------------------------------------
(* Theorems                                                                *)

InputInv ==
  /\ IInv /\ Recovering
  /\ Numbers /\ Fresh /\ StopsOf /\ Registered /\ Grace
  /\ OneActive /\ Watermarks
  /\ OfferedJustified

LEMMA InputInvInit == Init => InputInv
<1> SUFFICES ASSUME Init PROVE InputInv
  OBVIOUS
<1>1. IInv /\ Recovering
  BY TypeInit, OneExecutorInit, SlotBoundInit, StopMarkedInit, CutOffInit, RInvInit DEF IInv
<1>2. \A r \in RunId : /\ runs[r].status = "none" /\ runs[r].reqs = <<>>
                       /\ runs[r].through = 0 /\ runs[r].stopMsg = 0
  BY DEF Init, NoRunRow, Row
<1>3. Numbers /\ Fresh /\ StopsOf /\ Registered /\ Grace
  BY <1>2 DEF Init, Numbers, Fresh, StopsOf, Registered, Grace
<1>4. OneActive /\ Watermarks
  BY <1>2 DEF Init, OneActive, Watermarks, Advancing, Unfinished, Executing
<1>5. OfferedJustified
  BY DEF Init, OfferedJustified
<1>. QED
  BY <1>1, <1>3, <1>4, <1>5 DEF InputInv

LEMMA InputInvStep == InputInv /\ [Next]_vars => InputInv'
<1> SUFFICES ASSUME InputInv, [Next]_vars PROVE InputInv'
  OBVIOUS
<1>0. /\ IInv /\ Recovering /\ Numbers /\ Fresh /\ StopsOf /\ Registered /\ Grace
      /\ OneActive /\ Watermarks /\ OfferedJustified
      /\ TypeOK /\ OneExecutor /\ StopMarked
  BY DEF InputInv, IInv
<1>1. IInv'
  BY <1>0, TypeStep, OneExecutorStep, SlotBoundStep, StopMarkedStep, CutOffStep DEF IInv
<1>2. TypeOK' /\ Recovering'
  BY <1>0, <1>1, RecoveringStep DEF IInv
<1>3. Next \/ UNCHANGED vars
  OBVIOUS
<1>4. Numbers' /\ Fresh' /\ StopsOf' /\ Registered' /\ Grace'
  BY <1>0, <1>2, <1>3, NumbersStep, FreshStep, StopsOfStep, RegisteredStep, GraceStep
<1>5. OneActive' /\ Watermarks' /\ OfferedJustified'
  BY <1>0, <1>3, OneActiveStep, WatermarksStep, OfferedJustifiedStep
<1>. QED
  BY <1>1, <1>2, <1>4, <1>5 DEF InputInv

LEMMA InputInvariant == Spec => []InputInv
  BY InputInvInit, InputInvStep, PTL DEF Spec

(* No input is skipped: unless it was given up with a notice because the   *)
(* context could not be compacted, an input at or below the watermark of the *)
(* bot is part of a registered model request, or came no later than the    *)
(* message of a stop that was carried out - although two statements advance  *)
(* the watermarks, messages arrive in between, and hard stops advance them *)
(* too (advanceInputWatermarks, hardStopRun).                              *)
THEOREM InputsAreNotSkipped == Spec => []OfferedJustified
<1>1. InputInv => OfferedJustified
  BY DEF InputInv
<1>. QED
  BY <1>1, InputInvariant, PTL

(* A run is completed only when every input that has arrived is behind the *)
(* watermark of the bot: what tryFinishRun compares with is the local copy *)
(* of the watermark of the run, and that of the bot has caught up with it. *)
THEOREM CompletedRunsAreDrained == Spec => CompletedDrained
<1>1. InputInv /\ [Next]_vars =>
        [\A r \in RunId : Unfinished(r) /\ runs'[r].status = "completed"
            => ~\E n \in inputs' : n > offered']_vars
  <2> SUFFICES ASSUME InputInv, [Next]_vars, NEW r \in RunId,
                      Unfinished(r), runs'[r].status = "completed"
               PROVE  ~\E n \in inputs' : n > offered'
    OBVIOUS
  <2>0. TypeOK /\ Recovering /\ Watermarks /\ StopMarked /\ OneActive
    BY DEF InputInv, IInv
  <2>1. PICK p \in Gs : Completes(p, r)
    <3>1. ~Ends(r)
      BY <2>0 DEF Ends, TypeOK, DbOK, Run
    <3>2. \A p \in Gs : ~Creates(p, r)
      BY DEF Creates, Unfinished
    <3>. QED
      BY <2>0, <3>1, <3>2, RowStepFields DEF Unfinished
  <2>2. /\ pc[p] = "try" /\ cur[p] = r /\ ~InputSince(seen[p])
        /\ ~runs[r].stop /\ inputs' = inputs /\ offered' = offered
    BY <2>1 DEF Completes, TryFinish, Completable
  <2>3. Advancing(r) /\ r # NoRun
    BY <2>0, <2>2, IdNotNoRun DEF Advancing, Recovering
  <2>4. seen[p] <= offered
    BY <2>0, <2>2, <2>3 DEF Watermarks, Executing
  <2>5. seen[p] \in Nat /\ offered \in Nat /\ inputs \subseteq Nat
    BY <2>0 DEF TypeOK, LocalsOK, DbOK
  <2>. QED
    BY <2>2, <2>4, <2>5 DEF InputSince
<1>. QED
  BY <1>1, InputInvariant, PTL DEF Spec, CompletedDrained

(* Once a run is asked to stop it registers no request any more, and unless  *)
(* the process restarts it ends as stopped: a failure, a panic or the end of *)
(* the work that comes in the same moment does not change that             *)
(* (finishFailedDetail, tryFinishRun, beginModelRequest).                  *)
THEOREM StopsAreFinal == Spec => StopIsFinal
<1>1. InputInv /\ [Next]_vars =>
        [\A r \in RunId : runs[r].stop =>
           /\ runs'[r].reqs = runs[r].reqs
           /\ Unfinished(r) => \/ runs'[r].status \in {"running", "stopped"}
                               \/ phase = "down"]_vars
  <2> SUFFICES ASSUME InputInv, [Next]_vars, NEW r \in RunId, runs[r].stop
               PROVE  /\ runs'[r].reqs = runs[r].reqs
                      /\ Unfinished(r) => \/ runs'[r].status \in {"running", "stopped"}
                                          \/ phase = "down"
    OBVIOUS
  <2>0. TypeOK /\ StopMarked
    BY DEF InputInv, IInv
  <2>1. runs'[r].reqs = runs[r].reqs
    BY <2>0, StopStays
  <2>2. ASSUME Unfinished(r)
        PROVE  runs'[r].status \in {"running", "stopped"} \/ phase = "down"
    <3>1. Ends(r) => runs'[r].status = "stopped" \/ phase = "down"
      BY <2>0 DEF Ends, TypeOK, DbOK, Run
    <3>2. \A p \in Gs : ~Creates(p, r) /\ ~Completes(p, r)
      BY <2>2 DEF Creates, Completes, Completable, Unfinished
    <3>. QED
      BY <2>0, <2>2, <3>1, <3>2, RowStepFields DEF Unfinished
  <2>. QED
    BY <2>1, <2>2
<1>. QED
  BY <1>1, InputInvariant, PTL DEF Spec, StopIsFinal

(* The grace timer never cuts off a run one of whose requests carries the  *)
(* stop message, whatever was registered between the stop and the timer, or  *)
(* between the mark of the hard stop and its cancellation (hardStopRun,    *)
(* cancelBotContext).                                                      *)
THEOREM GraceIsKept == Spec => GraceSparesProgress
<1>1. InputInv /\ [Next]_vars =>
        [\A h \in stops : HardCancel(h) /\ h.ord >= 0
           => \A p \in Gs : cancelled'[p] /\ ~cancelled[p] => ~Delivered(cur[p])]_vars
  <2> SUFFICES ASSUME InputInv, NEW h \in stops, HardCancel(h), h.ord >= 0,
                      NEW p \in Gs, cancelled'[p], ~cancelled[p]
               PROVE  ~Delivered(cur[p])
    OBVIOUS
  <2>0. TypeOK /\ SlotBound /\ Grace /\ StopsOf
    BY DEF InputInv, IInv
  <2>1. Bound(h) /\ p \in slot.cancel
    BY DEF HardCancel
  <2>2. h.run \in RunId /\ slot.run = h.run /\ h.run # NoRun
    BY <2>0, <2>1, IdNotNoRun DEF TypeOK, MemoryOK, Bound
  <2>3. cur[p] = h.run
    BY <2>0, <2>1, <2>2 DEF SlotBound
  <2>4. \A i \in DOMAIN runs[h.run].reqs : runs[h.run].reqs[i] < h.seq
    BY <2>0 DEF Grace, HardCancel
  <2>5. h.seq = runs[h.run].stopMsg /\ h.seq \in Nat
    BY <2>0 DEF StopsOf, TypeOK, MemoryOK
  <2>6. \A i \in DOMAIN runs[h.run].reqs : runs[h.run].reqs[i] \in Nat
    BY <2>0, <2>2 DEF TypeOK, DbOK, Run
  <2>. QED
    BY <2>3, <2>4, <2>5, <2>6 DEF Delivered
<1>. QED
  BY <1>1, InputInvariant, PTL DEF Spec, GraceSparesProgress

=============================================================================
