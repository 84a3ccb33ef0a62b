------------------------- MODULE BotMainlineProofs -------------------------
(***************************************************************************)
(* Theorems about the main conversation of a bot, for every number of      *)
(* goroutines, runs, inputs, stops, requests and faults.                   *)
(***************************************************************************)
EXTENDS BotMainline, TLAPS

(* An entry is bound to the run its goroutine executes, and only the       *)
(* context of that goroutine is registered in it.                          *)
SlotBound ==
  /\ ~slot.held => slot.run = NoRun /\ slot.cancel = {}
  /\ \A p \in slot.cancel : pc[p] \in Executing
  /\ \A p \in Gs : pc[p] \in Executing /\ pc[p] # "bind" => slot.run = cur[p]
  /\ \A p \in Gs : pc[p] = "bind" => slot.run = NoRun

(* A hard stop beyond its mark is one of a run that is asked to stop.      *)
StopMarked ==
  /\ \A h \in stops : h.at # "armed" => runs[h.run].stop
  /\ \A r \in RunId : runs[r].stop => runs[r].status # "none"

(* A context that was cut off belongs to a goroutine in such a run.        *)
CutOff ==
  \A p \in Gs : cancelled[p] =>
    pc[p] \in Executing /\ cur[p] # NoRun /\ runs[cur[p]].stop

(* A slot is given back only when no run is left unfinished.               *)
RunEnded ==
  "write" \notin Faults => \A p \in Gs : pc[p] = "release" => NoActiveRun

(* Nothing executes while the process recovers.                            *)
Recovering ==
  /\ phase # "up" => wakes = {} /\ \A p \in Gs : pc[p] = "idle"
  /\ phase = "notice" => NoActiveRun

IInv == TypeOK /\ OneExecutor /\ SlotBound /\ StopMarked /\ CutOff
RInv == TypeOK /\ OneExecutor /\ RunHasExecutor /\ RunEnded /\ Recovering

-----------------------------------------------------------------------------
(* Types                                                                   *)

LEMMA MaxType == ASSUME NEW a \in Nat, NEW b \in Nat PROVE max(a, b) \in Nat
  BY DEF max

LEMMA WakeType ==
  /\ NoWake \in Wake
  /\ \A n \in Nat : /\ InputWake(n) \in Wake
                    /\ ScanWake(n) \in Wake
                    /\ RecoveryWake(n) \in Wake
  BY DEF NoWake, Wake, Key, InputWake, ScanWake, RecoveryWake

(* The fields of a row, and the rows that may replace it.                  *)
LEMMA RowFields ==
  ASSUME runs \in [RunId -> Run], NEW r \in RunId
  PROVE  /\ runs[r].through \in Nat
         /\ runs[r].stop \in BOOLEAN
         /\ runs[r].stopMsg \in Nat
         /\ runs[r].reqs \in Seq(Nat)
         /\ Len(runs[r].reqs) \in Nat
  BY DEF Run

LEMMA RowStatus ==
  ASSUME runs \in [RunId -> Run], NEW r \in RunId,
         NEW st \in {"running", "completed", "stopped", "failed"}
  PROVE  [runs EXCEPT ![r].status = st] \in [RunId -> Run]
  BY DEF Run

LEMMA RowThrough ==
  ASSUME runs \in [RunId -> Run], NEW r \in RunId, NEW n \in Nat
  PROVE  [runs EXCEPT ![r].through = n] \in [RunId -> Run]
  BY DEF Run

LEMMA RowCompleted ==
  ASSUME runs \in [RunId -> Run], NEW r \in RunId, NEW n \in Nat
  PROVE  [runs EXCEPT ![r].status = "completed", ![r].through = n] \in [RunId -> Run]
<1>. DEFINE row == [runs[r] EXCEPT !.status = "completed", !.through = n]
<1>1. row \in Run
  BY DEF Run
<1>2. [runs EXCEPT ![r].status = "completed", ![r].through = n] = [runs EXCEPT ![r] = row]
  OBVIOUS
<1>3. [runs EXCEPT ![r] = row] \in [RunId -> Run]
  <2>. HIDE DEF row
  <2>. QED
    BY <1>1
<1>. QED
  BY <1>2, <1>3

LEMMA RowStop ==
  ASSUME runs \in [RunId -> Run], NEW r \in RunId, NEW b \in BOOLEAN
  PROVE  [runs EXCEPT ![r].stop = b] \in [RunId -> Run]
  BY DEF Run

LEMMA RowStopMsg ==
  ASSUME runs \in [RunId -> Run], NEW r \in RunId, NEW n \in Nat
  PROVE  [runs EXCEPT ![r].stopMsg = n] \in [RunId -> Run]
  BY DEF Run

LEMMA RowRequest ==
  ASSUME runs \in [RunId -> Run], NEW r \in RunId, NEW n \in Nat
  PROVE  [runs EXCEPT ![r].reqs = Append(@, n)] \in [RunId -> Run]
<1>1. Append(runs[r].reqs, n) \in Seq(Nat)
  BY RowFields
<1>. QED
  BY <1>1 DEF Run

LEMMA RowType ==
  ASSUME NEW k \in Key, NEW st \in {"none", "running"}
  PROVE  Row(st, k) \in Run
<1>1. <<>> \in Seq(Nat)
  OBVIOUS
<1>. QED
  BY <1>1 DEF Row, Run

(* A goroutine in the loop executes a run.                                 *)
LEMMA LoopHasRun ==
  ASSUME LocalsOK, NEW p \in Gs, pc[p] \in Looping
  PROVE  cur[p] \in RunId
  BY DEF LocalsOK

LEMMA IdNotNoRun == \A r \in RunId : r # NoRun
  BY MainlineAssumption DEF RunId, NoRun

LEMMA TypeInit == Init => TypeOK
<1> SUFFICES ASSUME Init PROVE TypeOK
  OBVIOUS
<1>1. DbOK
  <2>1. NoRunRow \in Run
    BY WakeType, RowType DEF NoRunRow, Wake
  <2>. QED
    BY <2>1 DEF Init, DbOK
<1>2. MemoryOK
  BY WakeType DEF Init, MemoryOK, FreeSlot
<1>3. LocalsOK
  BY WakeType DEF Init, LocalsOK, Looping, Executing
<1>. QED
  BY <1>1, <1>2, <1>3 DEF TypeOK

LEMMA TypeStep == TypeOK /\ [Next]_vars => TypeOK'
<1> SUFFICES ASSUME DbOK, MemoryOK, LocalsOK, [Next]_vars
             PROVE  DbOK' /\ MemoryOK' /\ LocalsOK'
  BY DEF TypeOK
<1>1. CASE UNCHANGED vars
  BY <1>1 DEF vars, dbVars, gVars, DbOK, MemoryOK, LocalsOK
<1>2. ASSUME NEW p \in Gs, Take(p)
      PROVE  DbOK' /\ MemoryOK' /\ LocalsOK'
  <2>1. DbOK'
    BY <1>2 DEF Take, dbVars, gVars, DbOK
  <2>2. MemoryOK'
    BY <1>2, WakeType DEF Take, dbVars, gVars, MemoryOK, FreeSlot
  <2>3. LocalsOK'
    BY <1>2 DEF Take, dbVars, gVars, MemoryOK, LocalsOK, Goto, Looping, Executing, Between, NoRun
  <2>. QED
    BY <2>1, <2>2, <2>3
<1>3. ASSUME NEW p \in Gs, Ensure(p)
      PROVE  DbOK' /\ MemoryOK' /\ LocalsOK'
  <2>1. DbOK'
    BY <1>3 DEF Ensure, dbVars, gVars, DbOK
  <2>2. MemoryOK'
    BY <1>3 DEF Ensure, dbVars, gVars, MemoryOK
  <2>3. LocalsOK'
    <3>1. \A r \in RunId : runs[r].through \in Nat
      BY RowFields DEF DbOK
    <3>. QED
      BY <1>3, <3>1, IdNotNoRun DEF Ensure, dbVars, gVars, LocalsOK, Goto, Looping, Executing, Between, NoRun
  <2>. QED
    BY <2>1, <2>2, <2>3
<1>4. ASSUME NEW p \in Gs, Create(p)
      PROVE  DbOK' /\ MemoryOK' /\ LocalsOK'
  <2>1. DbOK'
    <3>1. \A r \in RunId : KeyOf(p, r) \in Key
      BY MainlineAssumption DEF KeyOf, Key, Wake, LocalsOK, RunId
    <3>2. \A r \in RunId : NewRow(KeyOf(p, r)) \in Run
      BY <3>1, RowType DEF NewRow
    <3>. QED
      BY <1>4, <3>2 DEF Create, DbOK
  <2>2. MemoryOK'
    BY <1>4 DEF Create, dbVars, gVars, MemoryOK
  <2>3. LocalsOK'
    BY <1>4, IdNotNoRun DEF Create, dbVars, gVars, LocalsOK, Goto, Looping, Executing, Between, NoRun
  <2>. QED
    BY <2>1, <2>2, <2>3
<1>5. ASSUME NEW p \in Gs, Bind(p)
      PROVE  DbOK' /\ MemoryOK' /\ LocalsOK'
  <2>1. DbOK'
    BY <1>5 DEF Bind, dbVars, gVars, DbOK
  <2>2. MemoryOK'
    BY <1>5 DEF Bind, dbVars, gVars, MemoryOK, LocalsOK
  <2>3. LocalsOK'
    BY <1>5 DEF Bind, dbVars, gVars, LocalsOK, Goto, Looping, Executing, Between, NoRun
  <2>. QED
    BY <2>1, <2>2, <2>3
<1>6. ASSUME NEW p \in Gs, Release(p)
      PROVE  DbOK' /\ MemoryOK' /\ LocalsOK'
  <2>1. DbOK'
    BY <1>6 DEF Release, dbVars, gVars, DbOK
  <2>2. MemoryOK'
    BY <1>6, WakeType DEF Release, dbVars, gVars, MemoryOK, FreeSlot
  <2>3. LocalsOK'
    BY <1>6, WakeType DEF Release, dbVars, gVars, LocalsOK, Goto, Looping, Executing, Between, NoRun, Forget, MemoryOK
  <2>. QED
    BY <2>1, <2>2, <2>3
<1>7. ASSUME NEW p \in Gs, Steal(p)
      PROVE  DbOK' /\ MemoryOK' /\ LocalsOK'
  <2>1. DbOK'
    BY <1>7 DEF Steal, dbVars, gVars, DbOK
  <2>2. MemoryOK'
    BY <1>7, WakeType DEF Steal, dbVars, gVars, MemoryOK
  <2>3. LocalsOK'
    BY <1>7 DEF Steal, dbVars, gVars, LocalsOK, Goto, Looping, Executing, Between, NoRun, MemoryOK
  <2>. QED
    BY <2>1, <2>2, <2>3
<1>8. ASSUME NEW p \in Gs, Reacquire(p)
      PROVE  DbOK' /\ MemoryOK' /\ LocalsOK'
  <2>1. DbOK'
    BY <1>8 DEF Reacquire, dbVars, gVars, DbOK
  <2>2. MemoryOK'
    <3>1. CASE slot.held
      BY <1>8, <3>1 DEF Reacquire, dbVars, gVars, MemoryOK
    <3>2. CASE ~slot.held
      <4>1. slot' = [held |-> TRUE, pending |-> NoWake, requeue |-> FALSE,
                     run |-> NoRun, cancel |-> {p}]
        BY <1>8, <3>2 DEF Reacquire, FreeSlot
      <4>. QED
        BY <1>8, <3>2, <4>1, WakeType DEF Reacquire, MemoryOK
    <3>. QED
      BY <3>1, <3>2
  <2>3. LocalsOK'
    BY <1>8, WakeType DEF Reacquire, dbVars, gVars, LocalsOK, Goto, Looping, Executing, Between, NoRun
  <2>. QED
    BY <2>1, <2>2, <2>3
<1>9. ASSUME NEW p \in Gs, Top(p)
      PROVE  DbOK' /\ MemoryOK' /\ LocalsOK'
  <2>1. DbOK'
    BY <1>9 DEF Top, dbVars, gVars, DbOK
  <2>2. MemoryOK'
    BY <1>9 DEF Top, dbVars, gVars, MemoryOK
  <2>3. LocalsOK'
    BY <1>9 DEF Top, dbVars, gVars, LocalsOK, Goto, Looping, Executing, Between, NoRun, DbOK, Run, max
  <2>. QED
    BY <2>1, <2>2, <2>3
<1>10. ASSUME NEW p \in Gs, Build(p)
      PROVE  DbOK' /\ MemoryOK' /\ LocalsOK'
  <2>1. DbOK'
    BY <1>10 DEF Build, dbVars, gVars, DbOK
  <2>2. MemoryOK'
    BY <1>10 DEF Build, dbVars, gVars, MemoryOK
  <2>3. LocalsOK'
    BY <1>10 DEF Build, dbVars, gVars, LocalsOK, Goto, Looping, Executing, Between, NoRun, DbOK, LastSeq, max
  <2>. QED
    BY <2>1, <2>2, <2>3
<1>11. ASSUME NEW p \in Gs, Begin(p)
      PROVE  DbOK' /\ MemoryOK' /\ LocalsOK'
  <2>1. DbOK'
    <3>1. cur[p] \in RunId
      BY <1>11, LoopHasRun DEF Begin, Looping, Executing
    <3>2. [runs EXCEPT ![cur[p]].reqs = Append(@, built[p])] \in [RunId -> Run]
      BY <3>1, RowRequest DEF DbOK, LocalsOK
    <3>. QED
      BY <1>11, <3>2 DEF Begin, DbOK
  <2>2. MemoryOK'
    BY <1>11 DEF Begin, dbVars, gVars, MemoryOK
  <2>3. LocalsOK'
    <3>1. UNCHANGED <<wake, cur, seen, built, cancelled>>
      BY <1>11 DEF Begin
    <3>2. next' \in [Gs -> {"stream", "notice"}]
      BY <1>11 DEF Begin, LocalsOK
    <3>3. pc[p] \in Looping /\ \E l \in {"stop", "advRun"} : pc' = [pc EXCEPT ![p] = l]
      BY <1>11 DEF Begin, Goto, Looping, Executing
    <3>4. pc' \in [Gs -> Executing \cup Between \cup {"idle"}]
      BY <3>3 DEF LocalsOK, Executing
    <3>5. \A q \in Gs : /\ pc'[q] \in Looping => cur[q] # NoRun
                        /\ cur[q] # NoRun => pc'[q] \in Looping \cup {"release"}
      BY <3>3 DEF LocalsOK, Looping, Executing
    <3>. QED
      BY <3>1, <3>2, <3>4, <3>5 DEF LocalsOK
  <2>. QED
    BY <2>1, <2>2, <2>3
<1>12. ASSUME NEW p \in Gs, AdvanceRun(p)
      PROVE  DbOK' /\ MemoryOK' /\ LocalsOK'
  <2>1. DbOK'
    <3>1. cur[p] \in RunId
      BY <1>12, LoopHasRun DEF AdvanceRun, Looping, Executing
    <3>2. max(runs[cur[p]].through, built[p]) \in Nat
      BY <3>1, RowFields, MaxType DEF DbOK, LocalsOK
    <3>3. [runs EXCEPT ![cur[p]].through = max(@, built[p])] \in [RunId -> Run]
      BY <3>1, <3>2, RowThrough DEF DbOK
    <3>. QED
      BY <1>12, <3>3 DEF AdvanceRun, DbOK
  <2>2. MemoryOK'
    BY <1>12 DEF AdvanceRun, dbVars, gVars, MemoryOK
  <2>3. LocalsOK'
    BY <1>12 DEF AdvanceRun, dbVars, gVars, LocalsOK, Goto, Looping, Executing, Between, NoRun
  <2>. QED
    BY <2>1, <2>2, <2>3
<1>13. ASSUME NEW p \in Gs, AdvanceBot(p)
      PROVE  DbOK' /\ MemoryOK' /\ LocalsOK'
  <2>1. DbOK'
    BY <1>13 DEF AdvanceBot, dbVars, gVars, DbOK, LocalsOK, max
  <2>2. MemoryOK'
    BY <1>13 DEF AdvanceBot, dbVars, gVars, MemoryOK
  <2>3. LocalsOK'
    BY <1>13 DEF AdvanceBot, dbVars, gVars, LocalsOK, Goto, Looping, Executing, Between, NoRun
  <2>. QED
    BY <2>1, <2>2, <2>3
<1>14. ASSUME NEW p \in Gs, StreamOK(p)
      PROVE  DbOK' /\ MemoryOK' /\ LocalsOK'
  <2>1. DbOK'
    BY <1>14 DEF StreamOK, dbVars, gVars, DbOK, AppendNote
  <2>2. MemoryOK'
    BY <1>14 DEF StreamOK, dbVars, gVars, MemoryOK
  <2>3. LocalsOK'
    <3>1. cur[p] \in RunId
      BY <1>14, LoopHasRun DEF StreamOK, Looping, Executing
    <3>2. max(seen[p], runs[cur[p]].through) \in Nat
      BY <3>1, RowFields, MaxType DEF DbOK, LocalsOK
    <3>3. PICK l \in {"stop", "calls", "top", "try"} : Goto(p, l)
      BY <1>14 DEF StreamOK
    <3>4. /\ seen' = [seen EXCEPT ![p] = max(@, runs[cur[p]].through)]
          /\ UNCHANGED <<wake, cur, built, next, cancelled>>
      BY <1>14 DEF StreamOK
    <3>. QED
      BY <3>1, <3>2, <3>3, <3>4, IdNotNoRun DEF LocalsOK, Goto, Looping, Executing, Between, NoRun
  <2>. QED
    BY <2>1, <2>2, <2>3
<1>15. ASSUME NEW p \in Gs, StreamError(p)
      PROVE  DbOK' /\ MemoryOK' /\ LocalsOK'
  <2>1. DbOK'
    BY <1>15 DEF StreamError, dbVars, gVars, DbOK, AppendNote
  <2>2. MemoryOK'
    BY <1>15 DEF StreamError, dbVars, gVars, MemoryOK
  <2>3. LocalsOK'
    <3>1. cur[p] \in RunId
      BY <1>15, LoopHasRun DEF StreamError, Looping, Executing
    <3>2. max(seen[p], runs[cur[p]].through) \in Nat
      BY <3>1, RowFields, MaxType DEF DbOK, LocalsOK
    <3>3. PICK l \in {"stop", "begin", "top", "fail"} : Goto(p, l)
      BY <1>15 DEF StreamError
    <3>4. /\ seen' = [seen EXCEPT ![p] = max(@, runs[cur[p]].through)]
          /\ UNCHANGED <<wake, cur, built, next, cancelled>>
      BY <1>15 DEF StreamError
    <3>. QED
      BY <3>1, <3>2, <3>3, <3>4, IdNotNoRun DEF LocalsOK, Goto, Looping, Executing, Between, NoRun
  <2>. QED
    BY <2>1, <2>2, <2>3
<1>16. ASSUME NEW p \in Gs, CallsDone(p)
      PROVE  DbOK' /\ MemoryOK' /\ LocalsOK'
  <2>1. DbOK'
    BY <1>16 DEF CallsDone, dbVars, gVars, DbOK
  <2>2. MemoryOK'
    BY <1>16 DEF CallsDone, dbVars, gVars, MemoryOK
  <2>3. LocalsOK'
    BY <1>16 DEF CallsDone, dbVars, gVars, LocalsOK, Goto, Looping, Executing, Between, NoRun
  <2>. QED
    BY <2>1, <2>2, <2>3
<1>17. ASSUME NEW p \in Gs, CallsStop(p)
      PROVE  DbOK' /\ MemoryOK' /\ LocalsOK'
  <2>1. DbOK'
    BY <1>17, RowFields, RowStatus, RowThrough, RowStop, RowStopMsg DEF CallsStop, dbVars, gVars, DbOK, LocalsOK, Looping, Executing, Unfinished, Run
  <2>2. MemoryOK'
    BY <1>17 DEF CallsStop, dbVars, gVars, MemoryOK
  <2>3. LocalsOK'
    BY <1>17 DEF CallsStop, dbVars, gVars, LocalsOK, Goto, Looping, Executing, Between, NoRun
  <2>. QED
    BY <2>1, <2>2, <2>3
<1>18. ASSUME NEW p \in Gs, TryFinish(p)
      PROVE  DbOK' /\ MemoryOK' /\ LocalsOK'
  <2>1. DbOK'
    <3>1. cur[p] \in RunId
      BY <1>18, LoopHasRun DEF TryFinish, Looping, Executing
    <3>2. [runs EXCEPT ![cur[p]].status = "completed", ![cur[p]].through = seen[p]]
             \in [RunId -> Run]
      <4>1. seen[p] \in Nat
        BY DEF LocalsOK
      <4>2. runs \in [RunId -> Run]
        BY DEF DbOK
      <4>. QED
        BY <3>1, <4>1, <4>2, RowCompleted
    <3>. QED
      BY <1>18, <3>2 DEF TryFinish, DbOK
  <2>2. MemoryOK'
    BY <1>18 DEF TryFinish, dbVars, gVars, MemoryOK
  <2>3. LocalsOK'
    BY <1>18 DEF TryFinish, dbVars, gVars, LocalsOK, Goto, Looping, Executing, Between, NoRun
  <2>. QED
    BY <2>1, <2>2, <2>3
<1>19. ASSUME NEW p \in Gs, Stopped(p)
      PROVE  DbOK' /\ MemoryOK' /\ LocalsOK'
  <2>1. DbOK'
    BY <1>19, RowFields, RowStatus, RowThrough, RowStop, RowStopMsg DEF Stopped, dbVars, gVars, DbOK, LocalsOK, Looping, Executing, FinishStopped
  <2>2. MemoryOK'
    BY <1>19 DEF Stopped, dbVars, gVars, MemoryOK
  <2>3. LocalsOK'
    BY <1>19 DEF Stopped, dbVars, gVars, LocalsOK, Goto, Looping, Executing, Between, NoRun
  <2>. QED
    BY <2>1, <2>2, <2>3
<1>20. ASSUME NEW p \in Gs, Failed(p)
      PROVE  DbOK' /\ MemoryOK' /\ LocalsOK'
  <2>1. DbOK'
    BY <1>20, RowFields, RowStatus, RowThrough, RowStop, RowStopMsg DEF Failed, dbVars, gVars, DbOK, LocalsOK, Looping, Executing, FinishFailed, FinishStopped
  <2>2. MemoryOK'
    BY <1>20 DEF Failed, dbVars, gVars, MemoryOK
  <2>3. LocalsOK'
    BY <1>20 DEF Failed, dbVars, gVars, LocalsOK, Goto, Looping, Executing, Between, NoRun
  <2>. QED
    BY <2>1, <2>2, <2>3
<1>21. ASSUME NEW p \in Gs, Fail(p)
      PROVE  DbOK' /\ MemoryOK' /\ LocalsOK'
  <2>1. DbOK'
    BY <1>21 DEF Fail, dbVars, gVars, DbOK
  <2>2. MemoryOK'
    BY <1>21 DEF Fail, dbVars, gVars, MemoryOK, Fault, LocalsOK
  <2>3. LocalsOK'
    BY <1>21 DEF Fail, dbVars, gVars, LocalsOK, Goto, Looping, Executing, Between, NoRun, Fault
  <2>. QED
    BY <2>1, <2>2, <2>3
<1>22. ASSUME NEW p \in Gs, CompactionFail(p)
      PROVE  DbOK' /\ MemoryOK' /\ LocalsOK'
  <2>1. DbOK'
    BY <1>22 DEF CompactionFail, dbVars, gVars, DbOK
  <2>2. MemoryOK'
    BY <1>22 DEF CompactionFail, dbVars, gVars, MemoryOK, Fault
  <2>3. LocalsOK'
    BY <1>22 DEF CompactionFail, dbVars, gVars, LocalsOK, Goto, Looping, Executing, Between, NoRun, DbOK, LastSeq, max
  <2>. QED
    BY <2>1, <2>2, <2>3
<1>23. ASSUME NEW p \in Gs, CompactionNotice(p)
      PROVE  DbOK' /\ MemoryOK' /\ LocalsOK'
  <2>1. DbOK'
    BY <1>23 DEF CompactionNotice, dbVars, gVars, DbOK, AppendNote
  <2>2. MemoryOK'
    BY <1>23 DEF CompactionNotice, dbVars, gVars, MemoryOK
  <2>3. LocalsOK'
    BY <1>23 DEF CompactionNotice, dbVars, gVars, LocalsOK, Goto, Looping, Executing, Between, NoRun
  <2>. QED
    BY <2>1, <2>2, <2>3
<1>24. ASSUME NEW p \in Gs, FinishLost(p)
      PROVE  DbOK' /\ MemoryOK' /\ LocalsOK'
  <2>1. DbOK'
    BY <1>24 DEF FinishLost, dbVars, gVars, DbOK
  <2>2. MemoryOK'
    BY <1>24 DEF FinishLost, dbVars, gVars, MemoryOK, Fault
  <2>3. LocalsOK'
    BY <1>24 DEF FinishLost, dbVars, gVars, LocalsOK, Goto, Looping, Executing, Between, NoRun
  <2>. QED
    BY <2>1, <2>2, <2>3
<1>25. ASSUME NEW p \in Gs, Panic(p)
      PROVE  DbOK' /\ MemoryOK' /\ LocalsOK'
  <2>1. DbOK'
    BY <1>25, RowFields, RowStatus, RowThrough, RowStop, RowStopMsg DEF Panic, dbVars, gVars, DbOK, FinishFailed, FinishStopped, NoActiveRun
  <2>2. MemoryOK'
    BY <1>25, WakeType DEF Panic, dbVars, gVars, MemoryOK, Fault, FreeSlot
  <2>3. LocalsOK'
    BY <1>25, WakeType DEF Panic, dbVars, gVars, LocalsOK, Goto, Looping, Executing, Between, NoRun, Forget
  <2>. QED
    BY <2>1, <2>2, <2>3
<1>26. ASSUME NEW w \in wakes, WakeAcquire(w)
      PROVE  DbOK' /\ MemoryOK' /\ LocalsOK'
  <2>1. DbOK'
    BY <1>26 DEF WakeAcquire, dbVars, gVars, DbOK
  <2>2. MemoryOK'
    BY <1>26, WakeType DEF WakeAcquire, dbVars, gVars, MemoryOK, FreeSlot
  <2>3. LocalsOK'
    BY <1>26 DEF WakeAcquire, dbVars, gVars, LocalsOK, Goto, Looping, Executing, Between, NoRun
  <2>. QED
    BY <2>1, <2>2, <2>3
<1>27. ASSUME NEW w \in wakes, WakeBusy(w)
      PROVE  DbOK' /\ MemoryOK' /\ LocalsOK'
  <2>1. DbOK'
    BY <1>27 DEF WakeBusy, dbVars, gVars, DbOK
  <2>2. MemoryOK'
    BY <1>27 DEF WakeBusy, dbVars, gVars, MemoryOK
  <2>3. LocalsOK'
    BY <1>27 DEF WakeBusy, dbVars, gVars, LocalsOK, Goto, Looping, Executing, Between, NoRun
  <2>. QED
    BY <2>1, <2>2, <2>3
<1>28. ASSUME NEW w \in wakes, WakeMark(w)
      PROVE  DbOK' /\ MemoryOK' /\ LocalsOK'
  <2>1. DbOK'
    BY <1>28 DEF WakeMark, dbVars, gVars, DbOK
  <2>2. MemoryOK'
    BY <1>28 DEF WakeMark, dbVars, gVars, MemoryOK
  <2>3. LocalsOK'
    BY <1>28 DEF WakeMark, dbVars, gVars, LocalsOK, Goto, Looping, Executing, Between, NoRun
  <2>. QED
    BY <2>1, <2>2, <2>3
<1>29. ASSUME NEW r \in RunId, RequestStop(r)
      PROVE  DbOK' /\ MemoryOK' /\ LocalsOK'
  <2>1. DbOK'
    BY <1>29, RowStopMsg DEF RequestStop, DbOK
  <2>2. MemoryOK'
    <3>1. Len(runs[r].reqs) \in Nat
      BY RowFields DEF DbOK
    <3>. QED
      BY <1>29, <3>1, WakeType DEF RequestStop, MemoryOK, DbOK
  <2>3. LocalsOK'
    BY <1>29 DEF RequestStop, dbVars, gVars, LocalsOK, Goto, Looping, Executing, Between, NoRun
  <2>. QED
    BY <2>1, <2>2, <2>3
<1>30. ASSUME NEW r \in RunId, RequestStopAgain(r)
      PROVE  DbOK' /\ MemoryOK' /\ LocalsOK'
  <2>1. DbOK'
    BY <1>30 DEF RequestStopAgain, dbVars, gVars, DbOK
  <2>2. MemoryOK'
    BY <1>30, RowFields DEF RequestStopAgain, MemoryOK, DbOK
  <2>3. LocalsOK'
    BY <1>30 DEF RequestStopAgain, dbVars, gVars, LocalsOK, Goto, Looping, Executing, Between, NoRun
  <2>. QED
    BY <2>1, <2>2, <2>3
<1>31. ASSUME NEW h \in stops, HardMark(h)
      PROVE  DbOK' /\ MemoryOK' /\ LocalsOK'
  <2>1. DbOK'
    <3>1. h.run \in RunId
      BY DEF MemoryOK
    <3>. QED
      BY <1>31, <3>1, RowStop DEF HardMark, DbOK
  <2>2. MemoryOK'
    BY <1>31 DEF HardMark, dbVars, gVars, MemoryOK
  <2>3. LocalsOK'
    BY <1>31 DEF HardMark, dbVars, gVars, LocalsOK, Goto, Looping, Executing, Between, NoRun
  <2>. QED
    BY <2>1, <2>2, <2>3
<1>32. ASSUME NEW h \in stops, HardRead(h)
      PROVE  DbOK' /\ MemoryOK' /\ LocalsOK'
  <2>1. DbOK'
    BY <1>32 DEF HardRead, dbVars, gVars, DbOK
  <2>2. MemoryOK'
    BY <1>32 DEF HardRead, dbVars, gVars, MemoryOK
  <2>3. LocalsOK'
    BY <1>32 DEF HardRead, dbVars, gVars, LocalsOK, Goto, Looping, Executing, Between, NoRun
  <2>. QED
    BY <2>1, <2>2, <2>3
<1>33. ASSUME NEW h \in stops, HardAdvanceRun(h)
      PROVE  DbOK' /\ MemoryOK' /\ LocalsOK'
  <2>1. DbOK'
    BY <1>33, RowFields, RowStatus, RowThrough, RowStop, RowStopMsg DEF HardAdvanceRun, dbVars, gVars, DbOK, MemoryOK, max, Run
  <2>2. MemoryOK'
    BY <1>33 DEF HardAdvanceRun, dbVars, gVars, MemoryOK
  <2>3. LocalsOK'
    BY <1>33 DEF HardAdvanceRun, dbVars, gVars, LocalsOK, Goto, Looping, Executing, Between, NoRun
  <2>. QED
    BY <2>1, <2>2, <2>3
<1>34. ASSUME NEW h \in stops, HardAdvanceBot(h)
      PROVE  DbOK' /\ MemoryOK' /\ LocalsOK'
  <2>1. DbOK'
    BY <1>34 DEF HardAdvanceBot, dbVars, gVars, DbOK, MemoryOK, max
  <2>2. MemoryOK'
    BY <1>34 DEF HardAdvanceBot, dbVars, gVars, MemoryOK
  <2>3. LocalsOK'
    BY <1>34 DEF HardAdvanceBot, dbVars, gVars, LocalsOK, Goto, Looping, Executing, Between, NoRun
  <2>. QED
    BY <2>1, <2>2, <2>3
<1>35. ASSUME NEW h \in stops, HardCancel(h)
      PROVE  DbOK' /\ MemoryOK' /\ LocalsOK'
  <2>1. DbOK'
    BY <1>35 DEF HardCancel, dbVars, gVars, DbOK
  <2>2. MemoryOK'
    BY <1>35 DEF HardCancel, dbVars, gVars, MemoryOK
  <2>3. LocalsOK'
    BY <1>35 DEF HardCancel, dbVars, gVars, LocalsOK, Goto, Looping, Executing, Between, NoRun
  <2>. QED
    BY <2>1, <2>2, <2>3
<1>36. ASSUME SendInput
      PROVE  DbOK' /\ MemoryOK' /\ LocalsOK'
  <2>1. DbOK'
    BY <1>36 DEF SendInput, dbVars, gVars, DbOK
  <2>2. MemoryOK'
    BY <1>36, WakeType DEF SendInput, dbVars, gVars, MemoryOK, DbOK
  <2>3. LocalsOK'
    BY <1>36 DEF SendInput, dbVars, gVars, LocalsOK, Goto, Looping, Executing, Between, NoRun
  <2>. QED
    BY <2>1, <2>2, <2>3
<1>37. ASSUME Scan
      PROVE  DbOK' /\ MemoryOK' /\ LocalsOK'
  <2>1. DbOK'
    BY <1>37 DEF Scan, dbVars, gVars, DbOK
  <2>2. MemoryOK'
    BY <1>37, WakeType DEF Scan, dbVars, gVars, MemoryOK, DbOK, LastSeq
  <2>3. LocalsOK'
    BY <1>37 DEF Scan, dbVars, gVars, LocalsOK, Goto, Looping, Executing, Between, NoRun
  <2>. QED
    BY <2>1, <2>2, <2>3
<1>38. ASSUME Crash
      PROVE  DbOK' /\ MemoryOK' /\ LocalsOK'
  <2>1. DbOK'
    BY <1>38 DEF Crash, dbVars, gVars, DbOK
  <2>2. MemoryOK'
    BY <1>38, WakeType DEF Crash, dbVars, gVars, MemoryOK, Fault, FreeSlot
  <2>3. LocalsOK'
    BY <1>38, WakeType DEF Crash, dbVars, gVars, LocalsOK, Goto, Looping, Executing, Between, NoRun
  <2>. QED
    BY <2>1, <2>2, <2>3
<1>39. ASSUME RecoverRun
      PROVE  DbOK' /\ MemoryOK' /\ LocalsOK'
  <2>1. DbOK'
    BY <1>39 DEF RecoverRun, dbVars, gVars, DbOK, Run
  <2>2. MemoryOK'
    BY <1>39 DEF RecoverRun, dbVars, gVars, MemoryOK
  <2>3. LocalsOK'
    BY <1>39 DEF RecoverRun, dbVars, gVars, LocalsOK, Goto, Looping, Executing, Between, NoRun
  <2>. QED
    BY <2>1, <2>2, <2>3
<1>40. ASSUME RecoverNotice
      PROVE  DbOK' /\ MemoryOK' /\ LocalsOK'
  <2>1. DbOK'
    BY <1>40 DEF RecoverNotice, dbVars, gVars, DbOK, AppendNote
  <2>2. MemoryOK'
    BY <1>40, WakeType DEF RecoverNotice, dbVars, gVars, MemoryOK, DbOK
  <2>3. LocalsOK'
    BY <1>40 DEF RecoverNotice, dbVars, gVars, LocalsOK, Goto, Looping, Executing, Between, NoRun
  <2>. QED
    BY <2>1, <2>2, <2>3
<1>41. ASSUME NextMinute
      PROVE  DbOK' /\ MemoryOK' /\ LocalsOK'
  <2>1. DbOK'
    BY <1>41 DEF NextMinute, dbVars, gVars, DbOK
  <2>2. MemoryOK'
    BY <1>41 DEF NextMinute, dbVars, gVars, MemoryOK
  <2>3. LocalsOK'
    BY <1>41 DEF NextMinute, dbVars, gVars, LocalsOK, Goto, Looping, Executing, Between, NoRun
  <2>. QED
    BY <2>1, <2>2, <2>3
<1>. QED
  BY <1>1, <1>2, <1>3, <1>4, <1>5, <1>6, <1>7, <1>8, <1>9, <1>10, <1>11, <1>12,
     <1>13, <1>14, <1>15, <1>16, <1>17, <1>18, <1>19, <1>20, <1>21, <1>22, <1>23, <1>24,
     <1>25, <1>26, <1>27, <1>28, <1>29, <1>30, <1>31, <1>32, <1>33, <1>34, <1>35, <1>36,
     <1>37, <1>38, <1>39, <1>40, <1>41
  DEF Next, Step, Model, Broken, HardStop, WakeUp, Recover

-----------------------------------------------------------------------------
(* The slot                                                                *)

(* A goroutine that moves on in the slot, leaves it, or enters a free one. *)
LEMMA Inside ==
  ASSUME LocalsOK, OneExecutor, NEW p \in Gs, pc[p] \in Executing,
         NEW l \in Executing, Goto(p, l), slot'.held = slot.held
  PROVE  OneExecutor'
  BY DEF LocalsOK, OneExecutor, Goto

LEMMA Leaving ==
  ASSUME LocalsOK, OneExecutor, NEW p \in Gs, pc[p] \in Executing,
         NEW l, l \notin Executing, Goto(p, l), slot' = FreeSlot
  PROVE  OneExecutor'
  BY DEF LocalsOK, OneExecutor, Goto, FreeSlot

LEMMA Entering ==
  ASSUME LocalsOK, OneExecutor, NEW p \in Gs, ~slot.held,
         NEW l \in Executing, Goto(p, l), slot'.held
  PROVE  OneExecutor'
  BY DEF LocalsOK, OneExecutor, Goto

LEMMA OneExecutorInit == Init => OneExecutor
  BY DEF Init, OneExecutor, Executing, FreeSlot

LEMMA OneExecutorStep == TypeOK /\ OneExecutor /\ [Next]_vars => OneExecutor'
<1> SUFFICES ASSUME LocalsOK, MemoryOK, OneExecutor, [Next]_vars
             PROVE  OneExecutor'
  BY DEF TypeOK
<1>1. ASSUME UNCHANGED <<slot, pc>>
      PROVE  OneExecutor'
  BY <1>1 DEF OneExecutor
<1>2. ASSUME NEW w \in wakes, WakeUp(w)
      PROVE  OneExecutor'
  <2>1. CASE WakeAcquire(w)
    BY <2>1, Entering DEF WakeAcquire, Goto, Executing, MemoryOK, FreeSlot
  <2>2. CASE WakeBusy(w)
    BY <2>2, <1>1 DEF WakeBusy, gVars
  <2>3. CASE WakeMark(w)
    BY <2>3 DEF WakeMark, gVars, MemoryOK, OneExecutor
  <2>. QED
    BY <1>2, <2>1, <2>2, <2>3 DEF WakeUp
<1>3. ASSUME NEW p \in Gs, Step(p)
      PROVE  OneExecutor'
  <2>1. CASE Take(p)
    BY <2>1, Inside DEF Take, Executing, MemoryOK
  <2>2. CASE Ensure(p)
    BY <2>2, Inside DEF Ensure, Executing
  <2>3. CASE Create(p)
    BY <2>3, Inside DEF Create, Executing
  <2>4. CASE Bind(p)
    BY <2>4, Inside DEF Bind, Executing, MemoryOK
  <2>5. CASE Top(p) \/ Build(p) \/ Begin(p)
    BY <2>5, Inside DEF Top, Build, Begin, Executing
  <2>6. CASE AdvanceRun(p) \/ AdvanceBot(p)
    <3>1. next[p] \in Executing
      BY DEF LocalsOK, Executing
    <3>. QED
      BY <2>6, <3>1, Inside DEF AdvanceRun, AdvanceBot, Executing
  <2>7. CASE CompactionNotice(p) \/ TryFinish(p) \/ Stopped(p) \/ Failed(p)
    BY <2>7, Inside DEF CompactionNotice, TryFinish, Stopped, Failed, Executing
  <2>8. CASE Release(p)
    BY <2>8, Leaving DEF Release, Executing
  <2>9. CASE Steal(p)
    BY <2>9 DEF Steal, Executing, LocalsOK, MemoryOK, OneExecutor, Goto
  <2>10. CASE Reacquire(p)
    <3>1. CASE slot.held
      BY <2>10, <3>1 DEF Reacquire, Executing, LocalsOK, OneExecutor, Goto
    <3>2. CASE ~slot.held
      BY <2>10, <3>2, Entering DEF Reacquire, Executing, FreeSlot
    <3>. QED
      BY <3>1, <3>2
  <2>. QED
    BY <1>3, <2>1, <2>2, <2>3, <2>4, <2>5, <2>6, <2>7, <2>8, <2>9, <2>10 DEF Step
<1>4. ASSUME NEW p \in Gs, Model(p)
      PROVE  OneExecutor'
  <2>1. CASE StreamOK(p)
    BY <2>1, Inside DEF StreamOK, Executing
  <2>2. CASE StreamError(p)
    BY <2>2, Inside DEF StreamError, Executing
  <2>3. CASE CallsDone(p) \/ CallsStop(p)
    BY <2>3, Inside DEF CallsDone, CallsStop, Executing
  <2>. QED
    BY <1>4, <2>1, <2>2, <2>3 DEF Model
<1>5. ASSUME NEW p \in Gs, Broken(p)
      PROVE  OneExecutor'
  <2>1. CASE Fail(p)
    BY <2>1, Inside DEF Fail, Executing, MemoryOK
  <2>2. CASE CompactionFail(p) \/ FinishLost(p)
    BY <2>2, Inside DEF CompactionFail, FinishLost, Executing
  <2>3. CASE Panic(p)
    BY <2>3, Leaving DEF Panic, Executing
  <2>. QED
    BY <1>5, <2>1, <2>2, <2>3 DEF Broken
<1>6. CASE Crash
  BY <1>6 DEF Crash, OneExecutor, FreeSlot, Executing
<1>7. ASSUME NEW r \in RunId, RequestStop(r) \/ RequestStopAgain(r)
      PROVE  OneExecutor'
  BY <1>7, <1>1 DEF RequestStop, RequestStopAgain, gVars
<1>8. ASSUME NEW h \in stops, HardStop(h)
      PROVE  OneExecutor'
  BY <1>8, <1>1 DEF HardStop, HardMark, HardRead, HardAdvanceRun, HardAdvanceBot,
                    HardCancel, gVars
<1>9. CASE SendInput \/ Scan \/ Recover \/ NextMinute
  BY <1>9, <1>1 DEF SendInput, Scan, Recover, RecoverRun, RecoverNotice, NextMinute, gVars
<1>10. CASE UNCHANGED vars
  BY <1>10, <1>1 DEF vars, gVars
<1>. QED
  BY <1>2, <1>3, <1>4, <1>5, <1>6, <1>7, <1>8, <1>9, <1>10 DEF Next

LEMMA SlotBoundInit == Init => SlotBound
  BY DEF Init, SlotBound, FreeSlot, Executing

(* A goroutine that moves on in the slot with the run it has.              *)
LEMMA SlotBoundInside ==
  ASSUME LocalsOK, OneExecutor, SlotBound, NEW p \in Gs,
         pc[p] \in Executing \ {"bind"}, NEW l \in Executing \ {"bind"},
         Goto(p, l), UNCHANGED <<slot, cur>>
  PROVE  SlotBound'
  BY DEF LocalsOK, OneExecutor, SlotBound, Goto

LEMMA SlotBoundFree ==
  ASSUME LocalsOK, OneExecutor, NEW p \in Gs, pc[p] \in Executing,
         NEW l, l \notin Executing, Goto(p, l), slot' = FreeSlot
  PROVE  SlotBound'
  BY DEF LocalsOK, OneExecutor, SlotBound, Goto, FreeSlot, Executing

(* A goroutine without a run takes one into the loop, or none.             *)
LEMMA SlotBoundFresh ==
  ASSUME LocalsOK, MemoryOK, OneExecutor, SlotBound, NEW p \in Gs,
         pc[p] \in {"ensure", "create"}, UNCHANGED slot, NEW l, Goto(p, l),
         \/ l \in {"create", "release"} /\ UNCHANGED cur
         \/ l = "bind" /\ \E r \in RunId : cur' = [cur EXCEPT ![p] = r]
  PROVE  SlotBound'
<1>1. cur[p] = NoRun /\ slot.run = NoRun
  BY DEF LocalsOK, SlotBound, Looping, Executing
<1>2. \A q \in Gs \ {p} : pc'[q] \notin Executing
  BY DEF LocalsOK, OneExecutor, Goto, Executing
<1>3. pc'[p] = l
  BY DEF LocalsOK, Goto
<1>. QED
  BY <1>1, <1>2, <1>3 DEF LocalsOK, MemoryOK, OneExecutor, SlotBound, Executing

LEMMA SlotBoundStep ==
  TypeOK /\ OneExecutor /\ SlotBound /\ [Next]_vars => SlotBound'
<1> SUFFICES ASSUME LocalsOK, MemoryOK, OneExecutor, SlotBound, [Next]_vars
             PROVE  SlotBound'
  BY DEF TypeOK
<1>0. \A p \in Gs : pc[p] \notin Looping \cup {"release"} => cur[p] = NoRun
  BY DEF LocalsOK
<1>1. ASSUME UNCHANGED <<slot, pc, cur>>
      PROVE  SlotBound'
  BY <1>1 DEF SlotBound
<1>2. ASSUME NEW w \in wakes, WakeUp(w)
      PROVE  SlotBound'
  <2>1. CASE WakeAcquire(w)
    BY <2>1, <1>0 DEF WakeAcquire, Executing, Looping, MemoryOK, FreeSlot, LocalsOK,
                      OneExecutor, SlotBound
  <2>2. CASE WakeBusy(w)
    BY <2>2, <1>1 DEF WakeBusy, gVars
  <2>3. CASE WakeMark(w)
    BY <2>3 DEF WakeMark, gVars, MemoryOK, SlotBound
  <2>. QED
    BY <1>2, <2>1, <2>2, <2>3 DEF WakeUp
<1>3. ASSUME NEW p \in Gs, Step(p)
      PROVE  SlotBound'
  <2>1. CASE Take(p)
    BY <2>1 DEF Take, Executing, MemoryOK, LocalsOK, OneExecutor, SlotBound, Goto
  <2>2. CASE Ensure(p)
    BY <2>2, SlotBoundFresh DEF Ensure
  <2>3. CASE Create(p)
    BY <2>3, SlotBoundFresh DEF Create
  <2>4. CASE Bind(p)
    BY <2>4 DEF Bind, Executing, MemoryOK, LocalsOK, OneExecutor, SlotBound, Goto
  <2>5. CASE Top(p) \/ Build(p) \/ Begin(p)
    BY <2>5, SlotBoundInside DEF Top, Build, Begin, Executing
  <2>6. CASE AdvanceRun(p) \/ AdvanceBot(p)
    <3>1. next[p] \in Executing \ {"bind"}
      BY DEF LocalsOK, Executing
    <3>. QED
      BY <2>6, <3>1, SlotBoundInside DEF AdvanceRun, AdvanceBot, Executing
  <2>7. CASE CompactionNotice(p) \/ TryFinish(p) \/ Stopped(p) \/ Failed(p)
    BY <2>7, SlotBoundInside DEF CompactionNotice, TryFinish, Stopped, Failed, Executing
  <2>8. CASE Release(p)
    BY <2>8, SlotBoundFree DEF Release, Executing
  <2>9. CASE Steal(p)
    BY <2>9 DEF Steal, Executing, LocalsOK, MemoryOK, SlotBound, Goto
  <2>10. CASE Reacquire(p)
    <3>1. CASE slot.held
      BY <2>10, <3>1 DEF Reacquire, Executing, LocalsOK, MemoryOK, SlotBound, Goto
    <3>2. CASE ~slot.held
      <4>1. slot'.held /\ slot'.run = NoRun /\ slot'.cancel = {p}
        BY <2>10, <3>2 DEF Reacquire, FreeSlot
      <4>2. cur'[p] = NoRun /\ pc'[p] = "ensure"
        BY <2>10, <3>2, <1>0 DEF Reacquire, Looping, Executing, LocalsOK, Goto
      <4>3. \A q \in Gs \ {p} : pc'[q] \notin Executing
        BY <2>10, <3>2 DEF Reacquire, LocalsOK, OneExecutor, Goto
      <4>. QED
        BY <4>1, <4>2, <4>3 DEF SlotBound, Executing
    <3>. QED
      BY <3>1, <3>2
  <2>. QED
    BY <1>3, <2>1, <2>2, <2>3, <2>4, <2>5, <2>6, <2>7, <2>8, <2>9, <2>10 DEF Step
<1>4. ASSUME NEW p \in Gs, Model(p)
      PROVE  SlotBound'
  <2>1. CASE StreamOK(p)
    BY <2>1, SlotBoundInside DEF StreamOK, Executing
  <2>2. CASE StreamError(p)
    BY <2>2, SlotBoundInside DEF StreamError, Executing
  <2>3. CASE CallsDone(p) \/ CallsStop(p)
    BY <2>3, SlotBoundInside DEF CallsDone, CallsStop, Executing
  <2>. QED
    BY <1>4, <2>1, <2>2, <2>3 DEF Model
<1>5. ASSUME NEW p \in Gs, Broken(p)
      PROVE  SlotBound'
  <2>1. CASE Fail(p)
    BY <2>1 DEF Fail, Executing, MemoryOK, LocalsOK, OneExecutor, SlotBound, Goto
  <2>2. CASE CompactionFail(p) \/ FinishLost(p)
    BY <2>2, SlotBoundInside DEF CompactionFail, FinishLost, Executing
  <2>3. CASE Panic(p)
    BY <2>3, SlotBoundFree DEF Panic, Executing
  <2>. QED
    BY <1>5, <2>1, <2>2, <2>3 DEF Broken
<1>6. CASE Crash
  BY <1>6 DEF Crash, SlotBound, FreeSlot, Executing
<1>7. ASSUME NEW r \in RunId, RequestStop(r) \/ RequestStopAgain(r)
      PROVE  SlotBound'
  BY <1>7, <1>1 DEF RequestStop, RequestStopAgain, gVars
<1>8. ASSUME NEW h \in stops, HardStop(h)
      PROVE  SlotBound'
  BY <1>8, <1>1 DEF HardStop, HardMark, HardRead, HardAdvanceRun, HardAdvanceBot,
                    HardCancel, gVars
<1>9. CASE SendInput \/ Scan \/ Recover \/ NextMinute
  BY <1>9, <1>1 DEF SendInput, Scan, Recover, RecoverRun, RecoverNotice, NextMinute, gVars
<1>10. CASE UNCHANGED vars
  BY <1>10, <1>1 DEF vars, gVars
<1>. QED
  BY <1>2, <1>3, <1>4, <1>5, <1>6, <1>7, <1>8, <1>9, <1>10 DEF Next

-----------------------------------------------------------------------------
(* The hard stop                                                           *)

(* What a step may do to the rows: a stop is never taken back, and a row   *)
(* with a stop is never replaced by a new run.                             *)
StopsKept == \A r \in RunId : runs[r].stop => runs'[r].stop

LEMMA StopMarkedInit == Init => StopMarked
  BY DEF Init, StopMarked, NoRunRow, Row

(* A step that writes the other fields of the rows.                        *)
StopsUntouched ==
  \A r \in RunId : /\ runs'[r].stop = runs[r].stop
                   /\ runs'[r].status = "none" => runs[r].status = "none"

LEMMA UntouchedMarked ==
  ASSUME MemoryOK, StopMarked, StopsUntouched, UNCHANGED stops
  PROVE  StopMarked' /\ StopsKept
  BY DEF StopMarked, StopsKept, StopsUntouched, MemoryOK

LEMMA StopMarkedStep ==
  TypeOK /\ StopMarked /\ [Next]_vars => StopMarked' /\ StopsKept
<1> SUFFICES ASSUME DbOK, MemoryOK, LocalsOK, StopMarked, [Next]_vars
             PROVE  StopMarked' /\ StopsKept
  BY DEF TypeOK
<1>0. \A p \in Gs : pc[p] \in Looping => cur[p] \in RunId
  BY LoopHasRun
<1>1. ASSUME UNCHANGED <<runs, stops>>
      PROVE  StopMarked' /\ StopsKept
  BY <1>1 DEF StopMarked, StopsKept
<1>2. ASSUME NEW w \in wakes, WakeUp(w)
      PROVE  StopMarked' /\ StopsKept
  BY <1>2, <1>1 DEF WakeUp, WakeAcquire, WakeBusy, WakeMark, dbVars
<1>3. ASSUME NEW p \in Gs, Step(p)
      PROVE  StopMarked' /\ StopsKept
  <2>1. CASE Take(p) \/ Ensure(p) \/ Bind(p) \/ Top(p) \/ Build(p) \/ AdvanceBot(p)
             \/ CompactionNotice(p) \/ Release(p) \/ Steal(p) \/ Reacquire(p)
    BY <2>1, <1>1 DEF Take, Ensure, Bind, Top, Build, AdvanceBot, CompactionNotice,
                      Release, Steal, Reacquire, dbVars
  <2>2. CASE Create(p)
    BY <2>2 DEF Create, StopMarked, StopsKept, DbOK, MemoryOK, NewRow, Row
  <2>3. CASE Begin(p)
    <3>1. cur[p] \in RunId
      BY <2>3, <1>0 DEF Begin, Looping, Executing
    <3>2. CASE UNCHANGED runs
      BY <2>3, <3>2, <1>1 DEF Begin
    <3>3. CASE runs' = [runs EXCEPT ![cur[p]].reqs = Append(@, built[p])]
      <4>. StopsUntouched
        BY <3>1, <3>3 DEF StopsUntouched, DbOK, Run
      <4>. QED
        BY <2>3, UntouchedMarked DEF Begin
    <3>. QED
      BY <2>3, <3>2, <3>3 DEF Begin
  <2>4. CASE AdvanceRun(p)
    <3>1. cur[p] \in RunId
      BY <2>4, <1>0 DEF AdvanceRun, Looping, Executing
    <3>2. CASE UNCHANGED runs
      BY <2>4, <3>2, <1>1 DEF AdvanceRun
    <3>3. CASE runs' = [runs EXCEPT ![cur[p]].through = max(@, built[p])]
      <4>. StopsUntouched
        BY <3>1, <3>3 DEF StopsUntouched, DbOK, Run
      <4>. QED
        BY <2>4, UntouchedMarked DEF AdvanceRun
    <3>. QED
      BY <2>4, <3>2, <3>3 DEF AdvanceRun
  <2>5. CASE TryFinish(p)
    <3>1. CASE UNCHANGED runs
      BY <2>5, <3>1, <1>1 DEF TryFinish
    <3>2. CASE runs' = [runs EXCEPT ![cur[p]].status = "completed",
                                    ![cur[p]].through = seen[p]]
      <4>1. cur[p] \in RunId
        BY <2>5, <1>0 DEF TryFinish, Looping, Executing
      <4>. StopsUntouched
        BY <3>2, <4>1 DEF StopsUntouched, DbOK, Run
      <4>. QED
        BY <2>5, UntouchedMarked DEF TryFinish
    <3>. QED
      BY <2>5, <3>1, <3>2 DEF TryFinish
  <2>6. CASE Stopped(p) \/ Failed(p)
    <3>1. cur[p] \in RunId
      BY <2>6, <1>0 DEF Stopped, Failed, Looping, Executing
    <3>. DEFINE Ended(st) == [runs EXCEPT ![cur[p]].status = st]
    <3>2. CASE UNCHANGED runs
      BY <2>6, <3>2, <1>1 DEF Stopped, Failed
    <3>3. CASE runs' = Ended("stopped") \/ runs' = Ended("failed")
      <4>1. ASSUME NEW st \in {"stopped", "failed"}, runs' = Ended(st)
            PROVE  StopsUntouched
        BY <3>1, <4>1 DEF StopsUntouched, DbOK, Run
      <4>. QED
        BY <2>6, <3>3, <4>1, UntouchedMarked DEF Stopped, Failed
    <3>. QED
      BY <2>6, <3>2, <3>3 DEF Stopped, Failed, FinishFailed, FinishStopped
  <2>. QED
    BY <1>3, <2>1, <2>2, <2>3, <2>4, <2>5, <2>6 DEF Step
<1>4. ASSUME NEW p \in Gs, Model(p)
      PROVE  StopMarked' /\ StopsKept
  <2>1. CASE StreamOK(p) \/ StreamError(p) \/ CallsDone(p)
    BY <2>1, <1>1 DEF StreamOK, StreamError, CallsDone, dbVars
  <2>2. CASE CallsStop(p)
    BY <2>2, <1>0 DEF CallsStop, Unfinished, StopMarked, StopsKept, DbOK, MemoryOK, Run, Looping,
                      Executing
  <2>. QED
    BY <1>4, <2>1, <2>2 DEF Model
<1>5. ASSUME NEW p \in Gs, Broken(p)
      PROVE  StopMarked' /\ StopsKept
  <2>1. CASE Fail(p) \/ CompactionFail(p) \/ FinishLost(p)
    BY <2>1, <1>1 DEF Fail, CompactionFail, FinishLost, dbVars
  <2>2. CASE Panic(p)
    <3>1. /\ UNCHANGED stops
          /\ \/ UNCHANGED runs
             \/ \E r \in RunId, st \in {"stopped", "failed"} :
                  /\ Unfinished(r)
                  /\ runs' = [runs EXCEPT ![r].status = st]
      <4>1. CASE NoActiveRun
        BY <2>2, <4>1 DEF Panic
      <4>2. CASE ~NoActiveRun
        <5>. DEFINE r == CHOOSE x \in RunId : Unfinished(x)
        <5>1. r \in RunId /\ Unfinished(r)
          BY <4>2 DEF NoActiveRun
        <5>2. runs' = FinishFailed(r) /\ UNCHANGED stops
          BY <2>2, <4>2 DEF Panic
        <5>. HIDE DEF r
        <5>. QED
          BY <5>1, <5>2 DEF FinishFailed, FinishStopped
      <4>. QED
        BY <4>1, <4>2
    <3>2. CASE UNCHANGED runs
      BY <1>1, <3>1, <3>2
    <3>3. ASSUME NEW r \in RunId, NEW st \in {"stopped", "failed"},
                 runs' = [runs EXCEPT ![r].status = st]
          PROVE  StopMarked' /\ StopsKept
      <4>1. \A q \in RunId : /\ runs'[q].stop = runs[q].stop
                             /\ runs'[q].status \in {runs[q].status, "stopped", "failed"}
        BY <3>3 DEF DbOK, Run
      <4>. QED
        BY <3>1, <4>1, UntouchedMarked DEF StopsUntouched
    <3>. QED
      BY <3>1, <3>2, <3>3
  <2>. QED
    BY <1>5, <2>1, <2>2 DEF Broken
<1>6. CASE Crash
  BY <1>6 DEF Crash, dbVars, StopMarked, StopsKept
<1>7. ASSUME NEW r \in RunId, RequestStop(r) \/ RequestStopAgain(r)
      PROVE  StopMarked' /\ StopsKept
  <2>1. StopsUntouched
    <3>1. CASE RequestStop(r)
      BY <3>1 DEF RequestStop, StopsUntouched, DbOK, Run
    <3>2. CASE RequestStopAgain(r)
      BY <3>2 DEF RequestStopAgain, dbVars, StopsUntouched
    <3>. QED
      BY <1>7, <3>1, <3>2
  <2>2. \A h \in stops' \ stops : h.at = "armed"
    BY <1>7 DEF RequestStop, RequestStopAgain
  <2>. QED
    BY <2>1, <2>2 DEF StopMarked, StopsKept, StopsUntouched, MemoryOK
<1>8. ASSUME NEW h \in stops, HardStop(h)
      PROVE  StopMarked' /\ StopsKept
  <2>0. h.run \in RunId
    BY DEF MemoryOK
  <2>1. CASE HardMark(h)
    <3>1. CASE UNCHANGED runs /\ stops' = stops \ {h}
      BY <3>1 DEF StopMarked, StopsKept, MemoryOK
    <3>2. CASE /\ Unfinished(h.run)
               /\ runs' = [runs EXCEPT ![h.run].stop = TRUE]
               /\ stops' = (stops \ {h}) \cup {[h EXCEPT !.at = "read"]}
      <4>1. \A r \in RunId : /\ runs'[r].stop = (runs[r].stop \/ r = h.run)
                             /\ runs'[r].status = runs[r].status
        BY <2>0, <3>2 DEF DbOK, Run
      <4>2. \A k \in stops' : k \in stops \/ k.run = h.run
        BY <3>2 DEF MemoryOK
      <4>3. StopsKept
        BY <4>1 DEF StopsKept
      <4>4. \A r \in RunId : runs'[r].stop => runs'[r].status # "none"
        BY <3>2, <4>1 DEF StopMarked, Unfinished
      <4>5. ASSUME NEW k \in stops', k.at # "armed"
            PROVE  runs'[k.run].stop
        <5>1. CASE k.run = h.run
          BY <5>1, <2>0, <4>1
        <5>2. CASE k.run # h.run
          <6>1. k \in stops
            BY <5>2, <4>2
          <6>2. k.run \in RunId /\ runs[k.run].stop
            BY <6>1, <4>5 DEF MemoryOK, StopMarked
          <6>. QED
            BY <6>2, <4>1
        <5>. QED
          BY <5>1, <5>2
      <4>. QED
        BY <4>3, <4>4, <4>5 DEF StopMarked
    <3>. QED
      BY <2>1, <3>1, <3>2 DEF HardMark
  <2>2. CASE HardRead(h) \/ HardAdvanceBot(h) \/ HardCancel(h)
    BY <2>0, <2>2 DEF HardRead, HardAdvanceBot, HardCancel, dbVars, StopMarked, StopsKept,
                      MemoryOK
  <2>3. CASE HardAdvanceRun(h)
    <3>1. StopsUntouched
      BY <2>0, <2>3 DEF HardAdvanceRun, StopsUntouched, DbOK, Run
    <3>. QED
      BY <2>0, <2>3, <3>1 DEF HardAdvanceRun, StopsUntouched, StopMarked, StopsKept, MemoryOK
  <2>. QED
    BY <1>8, <2>1, <2>2, <2>3 DEF HardStop
<1>9. CASE SendInput \/ Scan \/ RecoverNotice \/ NextMinute
  BY <1>9, <1>1 DEF SendInput, Scan, RecoverNotice, NextMinute, dbVars
<1>10. CASE RecoverRun
  BY <1>10 DEF RecoverRun, StopMarked, StopsKept, DbOK, MemoryOK, Run
<1>11. CASE UNCHANGED vars
  BY <1>11, <1>1 DEF vars, dbVars
<1>. QED
  BY <1>2, <1>3, <1>4, <1>5, <1>6, <1>7, <1>8, <1>9, <1>10, <1>11 DEF Next, Recover

LEMMA CutOffInit == Init => CutOff
  BY DEF Init, CutOff

(* A goroutine that was cut off goes on with its run.                      *)
LEMMA CutOffKept ==
  ASSUME LocalsOK, CutOff, StopsKept, UNCHANGED cancelled,
         \A q \in Gs : cancelled[q] => pc'[q] \in Executing /\ cur'[q] = cur[q]
  PROVE  CutOff'
  BY DEF LocalsOK, CutOff, StopsKept

LEMMA CutOffInside ==
  ASSUME LocalsOK, CutOff, StopsKept, UNCHANGED <<cancelled, cur>>,
         NEW p \in Gs, NEW l \in Executing, Goto(p, l)
  PROVE  CutOff'
  BY CutOffKept DEF LocalsOK, CutOff, Goto

(* The locals of a goroutine that leaves the slot are forgotten.           *)
LEMMA CutOffForget ==
  ASSUME LocalsOK, OneExecutor, CutOff, NEW p \in Gs, pc[p] \in Executing, Forget(p)
  PROVE  CutOff'
<1>1. \A q \in Gs : ~cancelled'[q]
  BY DEF LocalsOK, OneExecutor, CutOff, Forget
<1>. QED
  BY <1>1 DEF CutOff

LEMMA CutOffStep == IInv /\ StopsKept /\ [Next]_vars => CutOff'
<1> SUFFICES ASSUME DbOK, LocalsOK, MemoryOK, OneExecutor, SlotBound, StopMarked,
                    CutOff, StopsKept, [Next]_vars
             PROVE  CutOff'
  BY DEF IInv, TypeOK
<1>1. ASSUME UNCHANGED <<pc, cur, cancelled>>
      PROVE  CutOff'
  BY <1>1, CutOffKept DEF CutOff
<1>2. ASSUME NEW w \in wakes, WakeUp(w)
      PROVE  CutOff'
  <2>1. CASE WakeAcquire(w)
    <3>1. PICK p \in Gs : pc[p] = "idle" /\ Goto(p, "take")
      BY <2>1 DEF WakeAcquire, Goto
    <3>. QED
      BY <2>1, <3>1, CutOffInside DEF WakeAcquire, Executing
  <2>2. CASE WakeBusy(w) \/ WakeMark(w)
    BY <2>2, <1>1 DEF WakeBusy, WakeMark, gVars
  <2>. QED
    BY <1>2, <2>1, <2>2 DEF WakeUp
<1>3. ASSUME NEW p \in Gs, Step(p)
      PROVE  CutOff'
  <2>1. CASE Take(p) \/ Bind(p) \/ Top(p) \/ Build(p) \/ Begin(p)
    BY <2>1, CutOffInside DEF Take, Bind, Top, Build, Begin, Executing
  <2>2. CASE Ensure(p) \/ Create(p)
    <3>1. cur[p] = NoRun /\ ~cancelled[p]
      BY <2>2 DEF Ensure, Create, LocalsOK, CutOff, Looping, Executing
    <3>2. \A q \in Gs \ {p} : pc'[q] = pc[q] /\ cur'[q] = cur[q]
      <4>1. CASE Ensure(p)
        BY <4>1 DEF Ensure, Goto, LocalsOK
      <4>2. CASE Create(p)
        BY <4>2 DEF Create, Goto, LocalsOK
      <4>. QED
        BY <2>2, <4>1, <4>2
    <3>. QED
      BY <2>2, <3>1, <3>2, CutOffKept DEF Ensure, Create, CutOff
  <2>3. CASE AdvanceRun(p) \/ AdvanceBot(p)
    <3>1. next[p] \in Executing
      BY DEF LocalsOK, Executing
    <3>. QED
      BY <2>3, <3>1, CutOffInside DEF AdvanceRun, AdvanceBot, Executing
  <2>4. CASE CompactionNotice(p) \/ TryFinish(p) \/ Stopped(p) \/ Failed(p)
    BY <2>4, CutOffInside DEF CompactionNotice, TryFinish, Stopped, Failed, Executing
  <2>5. CASE Release(p)
    BY <2>5, CutOffForget DEF Release, Executing
  <2>6. CASE Steal(p) \/ Reacquire(p)
    <3>1. ~cancelled[p]
      BY <2>6 DEF Steal, Reacquire, CutOff, Executing
    <3>. QED
      BY <2>6, <3>1, CutOffKept DEF Steal, Reacquire, Goto, CutOff, LocalsOK
  <2>. QED
    BY <1>3, <2>1, <2>2, <2>3, <2>4, <2>5, <2>6 DEF Step
<1>4. ASSUME NEW p \in Gs, Model(p)
      PROVE  CutOff'
  <2>1. CASE StreamOK(p)
    BY <2>1, CutOffInside DEF StreamOK, Executing
  <2>2. CASE StreamError(p)
    BY <2>2, CutOffInside DEF StreamError, Executing
  <2>3. CASE CallsDone(p) \/ CallsStop(p)
    BY <2>3, CutOffInside DEF CallsDone, CallsStop, Executing
  <2>. QED
    BY <1>4, <2>1, <2>2, <2>3 DEF Model
<1>5. ASSUME NEW p \in Gs, Broken(p)
      PROVE  CutOff'
  <2>1. CASE Fail(p) \/ CompactionFail(p) \/ FinishLost(p)
    BY <2>1, CutOffInside DEF Fail, CompactionFail, FinishLost, Executing
  <2>2. CASE Panic(p)
    BY <2>2, CutOffForget DEF Panic, Executing
  <2>. QED
    BY <1>5, <2>1, <2>2 DEF Broken
<1>6. CASE Crash
  BY <1>6 DEF Crash, CutOff
<1>7. ASSUME NEW r \in RunId, RequestStop(r) \/ RequestStopAgain(r)
      PROVE  CutOff'
  BY <1>7, <1>1 DEF RequestStop, RequestStopAgain, gVars
<1>8. ASSUME NEW h \in stops, HardStop(h)
      PROVE  CutOff'
  <2>1. CASE HardMark(h) \/ HardRead(h) \/ HardAdvanceRun(h) \/ HardAdvanceBot(h)
    BY <2>1, <1>1 DEF HardMark, HardRead, HardAdvanceRun, HardAdvanceBot, gVars
  <2>2. CASE HardCancel(h) /\ ~Bound(h)
    BY <2>2, <1>1 DEF HardCancel
  <2>3. CASE HardCancel(h) /\ Bound(h)
    <3>1. h.run \in RunId /\ slot.run = h.run /\ runs[h.run].stop
      BY <2>3 DEF HardCancel, Bound, StopMarked, MemoryOK
    <3>2. \A p \in Gs : p \in slot.cancel =>
            pc[p] \in Executing /\ cur[p] = h.run /\ cur[p] # NoRun
      BY <3>1, IdNotNoRun DEF SlotBound
    <3>3. UNCHANGED <<pc, cur, runs>>
      BY <2>3 DEF HardCancel, dbVars
    <3>4. \A p \in Gs : cancelled'[p] <=> cancelled[p] \/ p \in slot.cancel
      BY <2>3 DEF HardCancel
    <3>. QED
      BY <3>1, <3>2, <3>3, <3>4 DEF CutOff
  <2>. QED
    BY <1>8, <2>1, <2>2, <2>3 DEF HardStop
<1>9. CASE SendInput \/ Scan \/ Recover \/ NextMinute
  BY <1>9, <1>1 DEF SendInput, Scan, Recover, RecoverRun, RecoverNotice, NextMinute, gVars
<1>10. CASE UNCHANGED vars
  BY <1>10, <1>1 DEF vars, gVars
<1>. QED
  BY <1>2, <1>3, <1>4, <1>5, <1>6, <1>7, <1>8, <1>9, <1>10 DEF Next

-----------------------------------------------------------------------------
(* A run that is under way                                                 *)

StatusKept == \A r \in RunId : runs'[r].status = runs[r].status

LEMMA RowsKept == ASSUME UNCHANGED runs PROVE StatusKept
  BY DEF StatusKept

LEMMA RInvInit == Init => RunHasExecutor /\ RunEnded /\ Recovering
  BY DEF Init, RunHasExecutor, RunEnded, Recovering, Unfinished, NoRunRow, Row

(* Only the loop itself, the panic handler and the recovery end a run, and *)
(* only ensureRun creates one.                                             *)
LEMMA HardStopStatus ==
  ASSUME DbOK, MemoryOK, NEW h \in stops, HardStop(h)
  PROVE  StatusKept
<1>0. h.run \in RunId
  BY DEF MemoryOK
<1>1. CASE HardMark(h)
  <2>1. CASE runs' = [runs EXCEPT ![h.run].stop = TRUE]
    BY <1>0, <2>1 DEF StatusKept, DbOK, Run
  <2>. QED
    BY <1>1, <2>1, RowsKept DEF HardMark
<1>2. CASE HardAdvanceRun(h)
  BY <1>0, <1>2 DEF HardAdvanceRun, StatusKept, DbOK, Run
<1>3. CASE HardRead(h) \/ HardAdvanceBot(h) \/ HardCancel(h)
  BY <1>3, RowsKept DEF HardRead, HardAdvanceBot, HardCancel, dbVars
<1>. QED
  BY <1>1, <1>2, <1>3 DEF HardStop

LEMMA RequestStopStatus ==
  ASSUME DbOK, NEW r \in RunId, RequestStop(r) \/ RequestStopAgain(r)
  PROVE  StatusKept
<1>1. CASE RequestStop(r)
  BY <1>1 DEF RequestStop, StatusKept, DbOK, Run
<1>2. CASE RequestStopAgain(r)
  BY <1>2, RowsKept DEF RequestStopAgain, dbVars
<1>. QED
  BY <1>1, <1>2

LEMMA LoopStatus ==
  ASSUME DbOK, LocalsOK, NEW p \in Gs,
         \/ Take(p) \/ Ensure(p) \/ Bind(p) \/ Top(p) \/ Build(p) \/ Begin(p)
         \/ AdvanceRun(p) \/ AdvanceBot(p) \/ CompactionNotice(p) \/ Release(p)
         \/ Steal(p) \/ Reacquire(p) \/ Model(p) \/ Fail(p) \/ CompactionFail(p)
         \/ FinishLost(p)
  PROVE  StatusKept
<1>1. CASE Begin(p)
  <2>1. cur[p] \in RunId
    BY <1>1, LoopHasRun DEF Begin, Looping, Executing
  <2>2. CASE runs' = [runs EXCEPT ![cur[p]].reqs = Append(@, built[p])]
    BY <2>1, <2>2 DEF StatusKept, DbOK, Run
  <2>. QED
    BY <1>1, <2>2, RowsKept DEF Begin
<1>2. CASE AdvanceRun(p)
  <2>1. cur[p] \in RunId
    BY <1>2, LoopHasRun DEF AdvanceRun, Looping, Executing
  <2>2. CASE runs' = [runs EXCEPT ![cur[p]].through = max(@, built[p])]
    BY <2>1, <2>2 DEF StatusKept, DbOK, Run
  <2>. QED
    BY <1>2, <2>2, RowsKept DEF AdvanceRun
<1>3. CASE CallsStop(p)
  <2>1. cur[p] \in RunId
    BY <1>3, LoopHasRun DEF CallsStop, Looping, Executing
  <2>. QED
    BY <1>3, <2>1 DEF CallsStop, StatusKept, DbOK, Run
<1>4. CASE StreamOK(p) \/ StreamError(p) \/ CallsDone(p)
  BY <1>4, RowsKept DEF StreamOK, StreamError, CallsDone, dbVars
<1>5. CASE \/ Take(p) \/ Ensure(p) \/ Bind(p) \/ Top(p) \/ Build(p) \/ AdvanceBot(p)
           \/ CompactionNotice(p) \/ Release(p) \/ Steal(p) \/ Reacquire(p)
  BY <1>5, RowsKept DEF Take, Ensure, Bind, Top, Build, AdvanceBot, CompactionNotice,
                        Release, Steal, Reacquire, dbVars
<1>6. CASE Fail(p) \/ CompactionFail(p) \/ FinishLost(p)
  BY <1>6, RowsKept DEF Fail, CompactionFail, FinishLost, dbVars
<1>. QED
  BY <1>1, <1>2, <1>3, <1>4, <1>5, <1>6 DEF Model

(* What is left of the goroutines while the process recovers.              *)
LEMMA RecoveringStep ==
  TypeOK /\ Recovering /\ [Next]_vars => Recovering'
<1> SUFFICES ASSUME DbOK, MemoryOK, LocalsOK, Recovering, [Next]_vars
             PROVE  Recovering'
  BY DEF TypeOK
<1>1. CASE phase' = "up"
  BY <1>1 DEF Recovering
<1>2. CASE Crash
  BY <1>2 DEF Crash, Recovering
<1>3. CASE Recover
  <2>1. CASE RecoverRun
    BY <2>1 DEF RecoverRun, Recovering, NoActiveRun, Unfinished, DbOK, Run, gVars
  <2>2. CASE RecoverNotice
    BY <2>2, <1>1 DEF RecoverNotice
  <2>. QED
    BY <1>3, <2>1, <2>2 DEF Recover
<1>4. ASSUME UNCHANGED <<phase, wakes, pc>>, StatusKept
      PROVE  Recovering'
  BY <1>4 DEF Recovering, NoActiveRun, Unfinished, StatusKept
<1>5. CASE phase # "up"
  <2>1. ASSUME NEW p \in Gs PROVE ~(Step(p) \/ Model(p) \/ Broken(p))
    BY <1>5 DEF Recovering, Step, Take, Ensure, Create, Bind, Top, Build, Begin, AdvanceRun,
       AdvanceBot, CompactionNotice, TryFinish, Stopped, Failed, Release, Steal, Reacquire,
       Model, StreamOK, StreamError, CallsDone, CallsStop, Broken, Fail, CompactionFail,
       FinishLost, Panic, Executing
  <2>2. ~(SendInput \/ Scan) /\ wakes = {}
    BY <1>5 DEF SendInput, Scan, Recovering
  <2>3. ASSUME NEW h \in stops, HardStop(h)
        PROVE  Recovering'
    BY <2>3, <1>4, HardStopStatus DEF HardStop, HardMark, HardRead, HardAdvanceRun,
                                      HardAdvanceBot, HardCancel, gVars
  <2>4. \A r \in RunId : ~(RequestStop(r) \/ RequestStopAgain(r))
    BY <1>5 DEF RequestStop, RequestStopAgain
  <2>5. CASE NextMinute \/ UNCHANGED vars
    BY <2>5, <1>4, RowsKept DEF NextMinute, vars, dbVars, gVars
  <2>. QED
    BY <1>2, <1>3, <2>1, <2>2, <2>3, <2>4, <2>5 DEF Next
<1>6. CASE phase = "up"
  <2>1. CASE UNCHANGED phase
    BY <1>6, <1>1, <2>1
  <2>2. phase' = phase \/ Crash \/ Recover
    <3>1. ASSUME NEW p \in Gs, Step(p) PROVE phase' = phase
      BY <3>1 DEF Step, Take, Ensure, Create, Bind, Top, Build, Begin, AdvanceRun, AdvanceBot,
         CompactionNotice, TryFinish, Stopped, Failed, Release, Steal, Reacquire
    <3>2. ASSUME NEW p \in Gs, Model(p) PROVE phase' = phase
      BY <3>2 DEF Model, StreamOK, StreamError, CallsDone, CallsStop
    <3>3. ASSUME NEW p \in Gs, Broken(p) PROVE phase' = phase
      BY <3>3 DEF Broken, Fail, CompactionFail, FinishLost, Panic
    <3>4. ASSUME NEW w \in wakes, WakeUp(w) PROVE phase' = phase
      BY <3>4 DEF WakeUp, WakeAcquire, WakeBusy, WakeMark
    <3>5. ASSUME NEW h \in stops, HardStop(h) PROVE phase' = phase
      BY <3>5 DEF HardStop, HardMark, HardRead, HardAdvanceRun, HardAdvanceBot, HardCancel
    <3>6. ASSUME NEW r \in RunId, RequestStop(r) \/ RequestStopAgain(r) PROVE phase' = phase
      BY <3>6 DEF RequestStop, RequestStopAgain
    <3>7. CASE SendInput \/ Scan \/ NextMinute \/ UNCHANGED vars
      BY <3>7 DEF SendInput, Scan, NextMinute, vars
    <3>. QED
      BY <3>1, <3>2, <3>3, <3>4, <3>5, <3>6, <3>7 DEF Next
  <2>. QED
    BY <1>2, <1>3, <2>1, <2>2
<1>. QED
  BY <1>5, <1>6

(* A goroutine moves on in the slot with its run.                          *)
LEMMA ExecutorInside ==
  ASSUME LocalsOK, OneExecutor, RunHasExecutor, RunEnded, StatusKept,
         UNCHANGED <<cur, phase>>, NEW p \in Gs, pc[p] \in Executing,
         NEW l \in Executing \ {"release"}, Goto(p, l)
  PROVE  RunHasExecutor' /\ RunEnded'
<1>1. \A q \in Gs : pc[q] \in Executing <=> pc'[q] \in Executing
  BY DEF LocalsOK, Goto
<1>2. \A q \in Gs : pc'[q] # "release"
  BY DEF LocalsOK, OneExecutor, Goto, Executing
<1>. QED
  BY <1>1, <1>2 DEF RunHasExecutor, RunEnded, Unfinished, StatusKept

(* No run is under way after the step.                                     *)
LEMMA ExecutorNone ==
  ASSUME NoActiveRun' PROVE RunHasExecutor' /\ RunEnded'
  BY DEF NoActiveRun, RunHasExecutor, RunEnded

(* A step that touches neither the goroutines in the slot nor the rows.    *)
LEMMA ExecutorStays ==
  ASSUME RunHasExecutor, RunEnded, StatusKept, phase' = "up" => phase = "up",
         \A q \in Gs : pc[q] \in Executing => pc'[q] = pc[q] /\ cur'[q] = cur[q],
         \A q \in Gs : pc'[q] = "release" => pc[q] = "release"
  PROVE  RunHasExecutor' /\ RunEnded'
  BY DEF RunHasExecutor, RunEnded, NoActiveRun, Unfinished, StatusKept

LEMMA RunHasExecutorStep ==
  RInv /\ [Next]_vars => RunHasExecutor' /\ RunEnded'
<1> SUFFICES ASSUME DbOK, MemoryOK, LocalsOK, OneExecutor, RunHasExecutor, RunEnded,
                    Recovering, [Next]_vars, "write" \notin Faults
             PROVE  RunHasExecutor' /\ RunEnded'
  BY DEF RInv, TypeOK, RunHasExecutor, RunEnded
<1>0. ASSUME NEW p \in Gs, pc[p] \in Executing, NEW r \in RunId, Unfinished(r)
      PROVE  cur[p] = r
  <2>1. phase = "up"
    BY <1>0 DEF Recovering, Executing
  <2>. QED
    BY <1>0, <2>1 DEF RunHasExecutor, OneExecutor
<1>1. ASSUME NEW p \in Gs, pc[p] \in Executing, cur[p] = NoRun
      PROVE  NoActiveRun
  BY <1>0, <1>1, IdNotNoRun DEF NoActiveRun
<1>2. ASSUME ~slot.held, phase = "up"
      PROVE  NoActiveRun
  BY <1>2 DEF RunHasExecutor, OneExecutor, NoActiveRun
<1>3. ASSUME StatusKept, NoActiveRun
      PROVE  NoActiveRun'
  BY <1>3 DEF StatusKept, NoActiveRun, Unfinished
<1>4. ASSUME UNCHANGED <<pc, cur, phase>>, StatusKept
      PROVE  RunHasExecutor' /\ RunEnded'
  BY <1>4, ExecutorStays
<1>5. ASSUME NEW w \in wakes, WakeUp(w)
      PROVE  RunHasExecutor' /\ RunEnded'
  <2>1. CASE WakeAcquire(w)
    <3>1. NoActiveRun
      BY <2>1, <1>2 DEF WakeAcquire, Recovering
    <3>. QED
      BY <2>1, <3>1, <1>3, RowsKept, ExecutorNone DEF WakeAcquire, dbVars
  <2>2. CASE WakeBusy(w) \/ WakeMark(w)
    BY <2>2, <1>4, RowsKept DEF WakeBusy, WakeMark, gVars, dbVars
  <2>. QED
    BY <1>5, <2>1, <2>2 DEF WakeUp
<1>6. ASSUME NEW p \in Gs, Step(p)
      PROVE  RunHasExecutor' /\ RunEnded'
  <2>1. CASE Take(p) \/ Bind(p) \/ Top(p) \/ Build(p) \/ Begin(p)
    BY <2>1, LoopStatus, ExecutorInside DEF Take, Bind, Top, Build, Begin, Executing
  <2>2. CASE Ensure(p)
    <3>1. NoActiveRun
      BY <2>2, <1>1 DEF Ensure, LocalsOK, Looping, Executing
    <3>. QED
      BY <2>2, <3>1, <1>3, LoopStatus, ExecutorNone
  <2>3. CASE Create(p)
    <3>1. NoActiveRun
      BY <2>3, <1>1 DEF Create, LocalsOK, Looping, Executing
    <3>2. CASE UNCHANGED runs
      BY <3>1, <3>2, <1>3, RowsKept, ExecutorNone
    <3>3. ASSUME NEW r \in RunId, runs' = [runs EXCEPT ![r] = NewRow(KeyOf(p, r))],
                 cur' = [cur EXCEPT ![p] = r], Goto(p, "bind")
          PROVE  RunHasExecutor' /\ RunEnded'
      <4>1. \A q \in RunId : runs'[q].status = "running" => q = r
        BY <3>1, <3>3 DEF NoActiveRun, Unfinished, DbOK
      <4>2. cur'[p] = r /\ pc'[p] = "bind"
        BY <3>3 DEF LocalsOK, Goto
      <4>3. \A q \in Gs : pc'[q] # "release"
        BY <2>3, <3>3 DEF Create, LocalsOK, OneExecutor, Goto, Executing
      <4>. QED
        BY <4>1, <4>2, <4>3 DEF RunHasExecutor, RunEnded, Unfinished, Executing
    <3>. QED
      BY <2>3, <3>2, <3>3 DEF Create
  <2>4. CASE AdvanceRun(p) \/ AdvanceBot(p)
    <3>1. next[p] \in Executing \ {"release"}
      BY DEF LocalsOK, Executing
    <3>. QED
      BY <2>4, <3>1, LoopStatus, ExecutorInside DEF AdvanceRun, AdvanceBot, Executing
  <2>5. CASE CompactionNotice(p)
    BY <2>5, LoopStatus, ExecutorInside DEF CompactionNotice, Executing
  <2>6. CASE TryFinish(p)
    <3>1. CASE Completable(p)
      <4>1. cur[p] \in RunId
        BY <2>6, LoopHasRun DEF TryFinish, Looping, Executing
      <4>2. runs'[cur[p]].status = "completed" /\ \A r \in RunId \ {cur[p]} : runs'[r] = runs[r]
        BY <2>6, <3>1, <4>1 DEF TryFinish, DbOK, Run
      <4>3. NoActiveRun'
        BY <2>6, <4>2, <1>0 DEF TryFinish, NoActiveRun, Unfinished, Executing
      <4>. QED
        BY <4>3, ExecutorNone
    <3>2. CASE ~Completable(p)
      BY <2>6, <3>2, RowsKept, ExecutorInside DEF TryFinish, Executing
    <3>. QED
      BY <3>1, <3>2
  <2>7. CASE Stopped(p) \/ Failed(p)
    <3>1. cur[p] \in RunId /\ pc[p] \in Executing
      BY <2>7, LoopHasRun DEF Stopped, Failed, Looping, Executing
    <3>2. CASE ~Unfinished(cur[p])
      <4>1. UNCHANGED runs
        BY <2>7, <3>2 DEF Stopped, Failed, FinishFailed, FinishStopped
      <4>2. NoActiveRun
        BY <3>1, <3>2, <1>0 DEF NoActiveRun
      <4>. QED
        BY <4>1, <4>2, <1>3, RowsKept, ExecutorNone
    <3>3. ASSUME NEW st \in {"stopped", "failed"}, runs' = [runs EXCEPT ![cur[p]].status = st]
          PROVE  RunHasExecutor' /\ RunEnded'
      <4>1. runs'[cur[p]].status # "running" /\ \A r \in RunId \ {cur[p]} : runs'[r] = runs[r]
        BY <3>1, <3>3 DEF DbOK, Run
      <4>2. NoActiveRun'
        BY <3>1, <4>1, <1>0 DEF NoActiveRun, Unfinished
      <4>. QED
        BY <4>2, ExecutorNone
    <3>. QED
      BY <2>7, <3>2, <3>3 DEF Stopped, Failed, FinishFailed, FinishStopped
  <2>8. CASE Release(p)
    <3>1. NoActiveRun
      BY <2>8 DEF Release, RunEnded
    <3>. QED
      BY <2>8, <3>1, <1>3, LoopStatus, ExecutorNone
  <2>9. CASE Steal(p)
    BY <2>9, LoopStatus, ExecutorStays DEF Steal, Goto, LocalsOK, Executing
  <2>10. CASE Reacquire(p)
    <3>1. StatusKept /\ UNCHANGED <<cur, phase>>
      BY <2>10, LoopStatus DEF Reacquire
    <3>2. PICK l \in {"idle", "ensure"} : Goto(p, l)
      BY <2>10 DEF Reacquire, Goto
    <3>3. pc[p] \notin Executing
      BY <2>10 DEF Reacquire, Executing
    <3>4. \A q \in Gs : pc[q] \in Executing => pc'[q] = pc[q] /\ cur'[q] = cur[q]
      BY <3>1, <3>2, <3>3 DEF Goto, LocalsOK
    <3>5. \A q \in Gs : pc'[q] = "release" => pc[q] = "release"
      BY <3>2 DEF Goto, LocalsOK
    <3>. QED
      BY <3>1, <3>4, <3>5, ExecutorStays
  <2>. QED
    BY <1>6, <2>1, <2>2, <2>3, <2>4, <2>5, <2>6, <2>7, <2>8, <2>9, <2>10 DEF Step
<1>7. ASSUME NEW p \in Gs, Model(p)
      PROVE  RunHasExecutor' /\ RunEnded'
  <2>1. CASE StreamOK(p)
    BY <2>1, LoopStatus, ExecutorInside DEF Model, StreamOK, Executing
  <2>2. CASE StreamError(p)
    BY <2>2, LoopStatus, ExecutorInside DEF Model, StreamError, Executing
  <2>3. CASE CallsDone(p) \/ CallsStop(p)
    BY <2>3, LoopStatus, ExecutorInside DEF Model, CallsDone, CallsStop, Executing
  <2>. QED
    BY <1>7, <2>1, <2>2, <2>3 DEF Model
<1>8. ASSUME NEW p \in Gs, Broken(p)
      PROVE  RunHasExecutor' /\ RunEnded'
  <2>1. CASE Fail(p) \/ CompactionFail(p)
    BY <2>1, LoopStatus, ExecutorInside DEF Fail, CompactionFail, Executing
  <2>2. CASE FinishLost(p)
    BY <2>2 DEF FinishLost, Fault
  <2>3. CASE Panic(p)
    <3>1. pc[p] \in Executing
      BY <2>3 DEF Panic
    <3>2. CASE NoActiveRun
      BY <2>3, <3>2, <1>3, RowsKept, ExecutorNone DEF Panic
    <3>3. CASE ~NoActiveRun
      <4>1. PICK r \in RunId : /\ Unfinished(r)
                              /\ runs' = FinishFailed(r)
        BY <2>3, <3>3 DEF Panic, NoActiveRun
      <4>2. \A q \in RunId : Unfinished(q) => q = r
        BY <3>1, <4>1, <1>0
      <4>3. ASSUME NEW st \in {"stopped", "failed"}, runs' = [runs EXCEPT ![r].status = st]
            PROVE  NoActiveRun'
        BY <4>2, <4>3 DEF NoActiveRun, Unfinished, DbOK, Run
      <4>. QED
        BY <4>1, <4>3, ExecutorNone DEF FinishFailed, FinishStopped
    <3>. QED
      BY <3>2, <3>3
  <2>. QED
    BY <1>8, <2>1, <2>2, <2>3 DEF Broken
<1>9. CASE Crash
  BY <1>9 DEF Crash, RunHasExecutor, RunEnded
<1>10. CASE RecoverRun
  <2>1. NoActiveRun'
    BY <1>10 DEF RecoverRun, NoActiveRun, Unfinished, DbOK, Run
  <2>. QED
    BY <2>1, ExecutorNone
<1>11. CASE RecoverNotice
  BY <1>11, <1>3, RowsKept, ExecutorNone DEF RecoverNotice, Recovering
<1>12. ASSUME NEW r \in RunId, RequestStop(r) \/ RequestStopAgain(r)
      PROVE  RunHasExecutor' /\ RunEnded'
  BY <1>12, <1>4, RequestStopStatus DEF RequestStop, RequestStopAgain, gVars
<1>13. ASSUME NEW h \in stops, HardStop(h)
      PROVE  RunHasExecutor' /\ RunEnded'
  BY <1>13, <1>4, HardStopStatus DEF HardStop, HardMark, HardRead, HardAdvanceRun,
                                     HardAdvanceBot, HardCancel, gVars
<1>14. CASE SendInput \/ Scan \/ NextMinute
  BY <1>14, <1>4, RowsKept DEF SendInput, Scan, NextMinute, gVars, dbVars
<1>15. CASE UNCHANGED vars
  BY <1>15, <1>4, RowsKept DEF vars, gVars, dbVars
<1>. QED
  BY <1>5, <1>6, <1>7, <1>8, <1>9, <1>10, <1>11, <1>12, <1>13, <1>14, <1>15
  DEF Next, Recover

-----------------------------------------------------------------------------
(* Theorems                                                                *)

LEMMA IInvInvariant == Spec => []IInv
<1>1. Init => IInv
  BY TypeInit, OneExecutorInit, SlotBoundInit, StopMarkedInit, CutOffInit DEF IInv
<1>2. IInv /\ [Next]_vars => IInv'
  BY TypeStep, OneExecutorStep, SlotBoundStep, StopMarkedStep, CutOffStep DEF IInv
<1>. QED
  BY <1>1, <1>2, PTL DEF Spec

(* The rows, the memory and the locals always have their types; above all, a *)
(* goroutine in the loop has a run to execute (botLoop dereferences it) and  *)
(* forgets it when it gives the slot back.                                 *)
THEOREM TypeCorrect == Spec => []TypeOK
<1>1. IInv => TypeOK
  BY DEF IInv
<1>. QED
  BY <1>1, IInvInvariant, PTL

(* Whatever wake-ups, requeues, stolen entries, panics and crashes do to the *)
(* entry of rt.active, one goroutine at most is inside runBotSlot, and the *)
(* entry exists exactly while there is one.                                *)
THEOREM SlotExclusive == Spec => []OneExecutor
<1>1. IInv => OneExecutor
  BY DEF IInv
<1>. QED
  BY <1>1, IInvInvariant, PTL

(* The context that a hard stop cuts off belongs to a goroutine whose own  *)
(* run was asked to stop, however late the timer fires and whoever has taken *)
(* the slot over by then (cancelBotContext).                               *)
THEOREM CancelsOwnRunOnly == Spec => []CancelsOwnRun
<1>1. IInv => CancelsOwnRun
  BY DEF IInv, CutOff, CancelsOwnRun
<1>. QED
  BY <1>1, IInvInvariant, PTL

(* As long as the transaction that ends a run does not fail, a run that is *)
(* under way has a goroutine that executes it, through panics, failures and  *)
(* restarts: no run blocks the scan and the deletion of the bot for ever   *)
(* because its goroutine went away (finishRunAfterPanic).  In particular one *)
(* run at most is under way: the insert of ensureRun never meets another.  *)
THEOREM RunsAreExecuted == Spec => []RunHasExecutor
<1>1. Init => RInv
  BY TypeInit, OneExecutorInit, RInvInit DEF RInv
<1>2. RInv /\ [Next]_vars => RInv'
  BY TypeStep, OneExecutorStep, RunHasExecutorStep, RecoveringStep DEF RInv
<1>3. RInv => RunHasExecutor
  BY DEF RInv
<1>. QED
  BY <1>1, <1>2, <1>3, PTL DEF Spec
=============================================================================
