------------------------- MODULE BotCallsTurnProofs -------------------------
(***************************************************************************)
(* Theorems about one turn of the model: the main loop leaves no call of   *)
(* it behind, and new input holds its writes back.                         *)
(***************************************************************************)
EXTENDS BotCallsProofs

(* The calls of the turn the loop has still to deal with.                  *)
Ahead == {loop.todo[i] : i \in DOMAIN loop.todo}

InTurn == {loop.turn[i] : i \in DOMAIN loop.turn}

Executes == loop.pc \in {"execute", "cancelling", "finish"}

(* A synchronous call that is not settled is in the hands of the loop: it  *)
(* executes it, or has it ahead, among the calls it takes for open.  A stop *)
(* is going to close it; so is new input if it writes.                     *)
Held ==
  mode = "up" => \A c \in Syncs :
    /\ call[c].status = "running" => Executes /\ c = Cur
    /\ call[c].status = "queued" =>
         /\ loop.pc \notin {"idle", "commit"}
         /\ c \in loop.open /\ c \in Ahead
         /\ loop.pc = "stopping" => c \in loop.close
         /\ loop.seen /\ c \in Writes => loop.pc = "closing" /\ c \in loop.close

(* What is queued of the turn and was not approved by the user, the loop   *)
(* takes for open; after new input it is going to close all but the reads. *)
TurnOpen ==
  loop.pc \notin {"idle", "commit"} =>
    \A c \in InTurn : call[c].status = "queued" /\ call[c].decision = "none" =>
      /\ c \in loop.open
      /\ loop.seen /\ c \notin Reads => loop.pc = "closing" /\ c \in loop.close

(* The call the loop executes was claimed, and a turn begins without input. *)
LoopBegun ==
  /\ Executes => call[Cur].status # "queued"
  /\ loop.pc \in {"idle", "commit"} => ~loop.seen

(* The transactions succeed; nor do the tools of the loop panic.           *)
Transacts   == "tx" \notin Faults
Undisturbed == Transacts /\ "panic" \notin Faults

InputInv == TInv /\ Execution /\ TurnOpen /\ LoopBegun
TurnInv  == InputInv /\ Held

-----------------------------------------------------------------------------
(* How a row comes to be queued or to run                                  *)

SyncsApart == \A c \in Syncs : c \in Calls /\ c \notin Asyncs /\ c \notin Waits

LEMMA SyncsAreApart == SyncsApart
  BY CallsAssumption DEF SyncsApart, Calls

(* A row that is queued was so, undecided as it was, or the user approved  *)
(* it; a synchronous call that runs did so, or the loop has claimed it.    *)
Queues(c) ==
  call'[c].status = "queued" =>
    \/ call[c].status = "queued" /\ call'[c].decision = call[c].decision
    \/ c \in Asyncs /\ call'[c].decision # "none"

Claims(c) == Invoke /\ Cur = c /\ loop'.pc = "execute"

Runs(c) ==
  c \in Syncs /\ call'[c].status = "running" => call[c].status = "running" \/ Claims(c)

RowMoves == \A c \in Calls : Queues(c) /\ Runs(c)

LEMMA SameRows == ASSUME UNCHANGED call PROVE RowMoves
  BY DEF RowMoves, Queues, Runs

LEMMA OneRow ==
  ASSUME TInv, NEW c \in Calls, NEW r, call' = [call EXCEPT ![c] = r],
         r.status = "queued" => \/ call[c].status = "queued" /\ r.decision = call[c].decision
                                \/ c \in Asyncs /\ r.decision # "none",
         c \in Syncs /\ r.status = "running" => call[c].status = "running" \/ Claims(c)
  PROVE  RowMoves
<1>1. call'[c] = r /\ \A d \in Calls \ {c} : call'[d] = call[d]
  BY DEF TInv, Rows
<1>. QED
  BY <1>1 DEF RowMoves, Queues, Runs

LEMMA LeavingRow ==
  ASSUME TInv, NEW c \in Calls, NEW r, call' = [call EXCEPT ![c] = r],
         r = call[c] \/ r.status \notin {"queued", "running"}
  PROVE  RowMoves
  BY OneRow

LEMMA RowsMove ==
  ASSUME TInv, Execution, Next \/ UNCHANGED vars, ~Commit
  PROVE  RowMoves
<1>0. \A c \in Calls : call[c] \in Call
  BY DEF TInv, Rows
<1>1. CASE UNCHANGED call
  BY <1>1, SameRows
<1>2. CASE CloseOne
  <2>1. PICK c \in NextClosed : call' = [call EXCEPT ![c] = NotExecuted(c)]
    BY <1>2 DEF CloseOne
  <2>2. c \in Calls
    BY <2>1 DEF NextClosed, TInv, TypeOK, LoopLocals
  <2>3. NotExecuted(c) = call[c] \/ NotExecuted(c).status = "not_executed"
    BY <2>2, NotExecutedStatus DEF NotExecuted
  <2>. QED
    BY <2>1, <2>2, <2>3, LeavingRow
<1>3. CASE Invoke
  <2>1. CASE call' = [call EXCEPT ![Cur].status = "running", ![Cur].started = TRUE]
             /\ Claimable(Cur) /\ loop' = [loop EXCEPT !.pc = "execute", !.open = @ \ {Cur}]
    <3>1. Cur \in Calls
      BY <1>3, CurType DEF Invoke, TInv
    <3>2. /\ call'[Cur].status = "running"
          /\ \A d \in Calls \ {Cur} : call'[d] = call[d]
      BY <2>1, <3>1, StartStatus
    <3>3. loop'.pc = "execute"
      BY <2>1 DEF TInv, TypeOK, LoopLocals
    <3>. QED
      BY <1>3, <3>1, <3>2, <3>3 DEF RowMoves, Queues, Runs, Claims
  <2>. QED
    BY <1>3, <1>1, <2>1 DEF Invoke
<1>4. ASSUME NEW c \in Calls, NEW out \in Outcome \cup {"cancelled", "recheck"},
             call' = [call EXCEPT ![c] = Finalized(c, out)]
      PROVE  RowMoves
  <2>1. Finalized(c, out) = call[c] \/ Finalized(c, out).status \in Terminal
    BY FinalizedStatus
  <2>. QED
    BY <1>4, <2>1, LeavingRow DEF Terminal
<1>5. CASE Finish
  <2>1. Cur \in Calls /\ loop.out \in Outcome
    BY <1>5, CurType DEF Finish, TInv, TypeOK, LoopLocals
  <2>. QED
    BY <1>4, <1>5, <2>1 DEF Finish
<1>6. ASSUME NEW w \in Workers, WorkerStep(w)
      PROVE  RowMoves
  <2>0. worker[w].pc # "idle" => worker[w].c \in Asyncs
    BY DEF TInv, Busy
  <2>1. CASE Claim(w)
    <3>1. CASE Claimable(worker[w].c)
               /\ call' = [call EXCEPT ![worker[w].c].status = "running",
                                       ![worker[w].c].started = TRUE]
      <4>1. worker[w].c \in Calls /\ worker[w].c \in Asyncs
        BY <2>0, <2>1 DEF Claim, Calls
      <4>2. /\ call'[worker[w].c].status = "running"
            /\ \A d \in Calls \ {worker[w].c} : call'[d] = call[d]
        BY <3>1, <4>1, StartStatus
      <4>. QED
        BY <4>1, <4>2, SyncsAreApart DEF RowMoves, Queues, Runs, SyncsApart
    <3>. QED
      BY <1>1, <2>1, <3>1 DEF Claim
  <2>2. CASE WorkerRevert(w)
    <3>1. worker[w].c \in Calls
      BY <2>0, <2>2 DEF WorkerRevert, Calls
    <3>2. Reverted(worker[w].c) = call[worker[w].c] \/ Reverted(worker[w].c).status = "pending"
      BY <3>1, RevertedStatus DEF Reverted
    <3>. QED
      BY <2>2, <3>1, <3>2, LeavingRow DEF WorkerRevert
  <2>3. CASE WorkerFinish(w)
    <3>1. worker[w].c \in Calls /\ worker[w].out \in Outcome \cup {"cancelled", "recheck"}
      BY <2>0, <2>3 DEF WorkerFinish, TInv, TypeOK, WorkerLocals, Calls
    <3>. QED
      BY <1>4, <2>3, <3>1 DEF WorkerFinish
  <2>. QED
    BY <1>1, <1>6, <2>1, <2>2, <2>3 DEF WorkerStep, TakeWork, Register, CheckCancel, Recheck, Write
<1>7. ASSUME NEW k \in Users \cup {Own}, CancelStep(k)
      PROVE  RowMoves
  <2>1. CASE CancelTry(k)
    <3>1. cancel[k].c \in Calls /\ cancel[k].from \in {"pending", "queued", "running"}
      <4>1. k \in DOMAIN cancel /\ cancel[k] \in CancelLocals
        BY DEF TInv, TypeOK
      <4>2. Aimed(cancel[k]) /\ cancel[k].pc = "try"
        BY <2>1, <4>1 DEF CancelTry, TInv, Busy
      <4>. QED
        BY <4>1, <4>2 DEF Aimed, CancelLocals
    <3>2. CASE call' = [call EXCEPT ![cancel[k].c].cancel = TRUE]
      BY <1>0, <3>1, <3>2 DEF RowMoves, Queues, Runs, Call, TInv, Rows
    <3>3. CASE call' = [call EXCEPT ![cancel[k].c] = Ended(cancel[k].c, "cancelled")]
      <4>1. Ended(cancel[k].c, "cancelled").status = "cancelled"
        BY <3>1, EndedStatus DEF Terminal
      <4>. QED
        BY <3>1, <3>3, <4>1, LeavingRow
    <3>. QED
      BY <1>1, <2>1, <3>2, <3>3 DEF CancelTry
  <2>. QED
    BY <1>1, <1>7, <2>1 DEF CancelStep, CancelSignal, CancelReread
<1>8. ASSUME NEW c \in Calls, ScanQueued(c) \/ WaitEnds(c)
      PROVE  RowMoves
  BY <1>1, <1>4, <1>8 DEF ScanQueued, WaitEnds
<1>9. ASSUME NEW c \in Calls, Approve(c)
      PROVE  RowMoves
  <2>0. c \in Asyncs
    BY <1>9 DEF Approve, TInv, Rows, RowOK
  <2>1. PICK r : /\ call' = [call EXCEPT ![c] = r]
                 /\ r.status = "queued" /\ r.decision # "none"
    <3>0. call[c] \in Call
      BY <1>0
    <3>1. CASE call' = [call EXCEPT ![c] = [Decided(c, "approve") EXCEPT !.status = "queued"]]
      <4>. DEFINE row == [Decided(c, "approve") EXCEPT !.status = "queued"]
      <4>1. row.status = "queued" /\ row.decision = "approve"
        BY <3>0 DEF Decided, Call
      <4>2. call' = [call EXCEPT ![c] = row]
        BY <3>1
      <4>. HIDE DEF row
      <4>. QED
        BY <4>1, <4>2
    <3>2. ASSUME NEW a \in Auths,
                 call' = [call EXCEPT ![c] = [Decided(c, "always_allow") EXCEPT
                                                !.status = "queued", !.auth = a]]
          PROVE  \E r : /\ call' = [call EXCEPT ![c] = r]
                        /\ r.status = "queued" /\ r.decision # "none"
      <4>. DEFINE row == [Decided(c, "always_allow") EXCEPT !.status = "queued", !.auth = a]
      <4>1. row.status = "queued" /\ row.decision = "always_allow"
        BY <3>0 DEF Decided, Call
      <4>2. call' = [call EXCEPT ![c] = row]
        BY <3>2
      <4>. HIDE DEF row
      <4>. QED
        BY <4>1, <4>2
    <3>. QED
      BY <1>9, <3>1, <3>2 DEF Approve
  <2>. QED
    BY <2>0, <2>1, OneRow
<1>10. ASSUME NEW c \in Calls, Reject(c)
       PROVE  RowMoves
  <2>1. Answered([Decided(c, "reject") EXCEPT !.status = "rejected"], "result").status = "rejected"
    BY <1>0 DEF Answered, Decided, Call
  <2>. QED
    BY <1>10, <2>1, LeavingRow DEF Reject
<1>11. ASSUME NEW c \in Calls, RevokeRevert(c)
       PROVE  RowMoves
  <2>1. Reverted(c) = call[c] \/ Reverted(c).status = "pending"
    BY RevertedStatus DEF Reverted
  <2>. QED
    BY <1>11, <2>1, LeavingRow DEF RevokeRevert
<1>12. ASSUME NEW c \in Calls, RecoverRunning(c)
       PROVE  RowMoves
  <2>1. Interrupted(c).status = "failed"
    BY <1>0 DEF Interrupted, Answered, Call
  <2>. QED
    BY <1>12, <2>1, LeavingRow DEF RecoverRunning
<1>13. ASSUME NEW c \in Calls, RecoverQueued(c)
       PROVE  RowMoves
  <2>1. NotExecuted(c) = call[c] \/ NotExecuted(c).status = "not_executed"
    BY NotExecutedStatus DEF NotExecuted
  <2>. QED
    BY <1>13, <2>1, LeavingRow DEF RecoverQueued
<1>14. CASE \/ Evaluate \/ BuildFails \/ NoTurn \/ Look \/ CloseFails \/ CloseDone
            \/ Execute \/ ExecuteCancel \/ ExecuteCancelDone \/ FinishFails \/ Panic
  BY <1>1, <1>14 DEF Evaluate, BuildFails, NoTurn, Look, CloseFails, CloseDone, Execute,
     ExecuteCancel, ExecuteCancelDone, FinishFails, Panic, vars
<1>15. CASE \/ Crash \/ Recovered \/ RevokeList \/ UNCHANGED vars
            \/ (\E w \in Workers : WorkerFinishFails(w))
            \/ (\E c \in Calls, u \in Users : Cancel(u, c))
            \/ (\E a \in Auths : Expire(a) \/ Revoke(a))
  BY <1>1, <1>15 DEF Crash, Recovered, RevokeList, vars, WorkerFinishFails, Cancel, Expire, Revoke
<1>. QED
  BY Zenon, <1>2, <1>3, <1>5, <1>6, <1>7, <1>8, <1>9, <1>10, <1>11, <1>12, <1>13, <1>14, <1>15
  DEF Next, LoopStep, UserStep, RevokeStep, Recovery, FaultStep

-----------------------------------------------------------------------------
(* What the steps of the loop do to the turn                               *)

LEMMA LoopTypes ==
  ASSUME TInv
  PROVE  /\ loop.todo \in Seq(Calls) /\ loop.turn \in Seq(Calls)
         /\ loop.open \subseteq Calls /\ loop.close \subseteq Calls
         /\ Ahead \subseteq Calls /\ InTurn \subseteq Calls
         /\ loop \in LoopLocals
<1>1. /\ loop \in LoopLocals
      /\ loop.todo \in Seq(Calls) /\ loop.turn \in Seq(Calls)
      /\ loop.open \subseteq Calls /\ loop.close \subseteq Calls
  BY DEF TInv, TypeOK, LoopLocals
<1>2. ASSUME NEW s \in Seq(Calls) PROVE {s[i] : i \in DOMAIN s} \subseteq Calls
  OBVIOUS
<1>. QED
  BY <1>1, <1>2 DEF Ahead, InTurn

(* The rest of a sequence holds all its elements but the first.            *)
LEMMA RestHolds ==
  ASSUME NEW s \in Seq(Calls), NEW i \in DOMAIN s, s[i] # Head(s)
  PROVE  Len(s) > 1 /\ \E j \in DOMAIN Tail(s) : Tail(s)[j] = s[i]
<1>1. i \in 1..Len(s) /\ i # 1
  OBVIOUS
<1>2. i - 1 \in 1..(Len(s) - 1) /\ Len(s) > 1 /\ s # <<>>
  BY <1>1
<1>3. DOMAIN Tail(s) = 1..(Len(s) - 1)
  BY <1>2
<1>4. Tail(s)[i - 1] = s[i]
  BY <1>2
<1>. QED
  BY <1>2, <1>3, <1>4

(* The loop goes on to the next call and keeps the turn, or begins anew.   *)
Passes ==
  \/ loop' = NoLoop
  \/ /\ loop'.pc = "look"
     /\ loop'.turn = loop.turn /\ loop'.open = loop.open
     /\ loop'.close = loop.close /\ loop'.seen = loop.seen

LEMMA AfterPasses ==
  ASSUME TInv, loop.pc \notin {"idle", "commit"}, loop' = After(loop)
  PROVE  /\ Passes
         /\ \A c \in Ahead : c # Cur => loop' # NoLoop /\ c \in Ahead'
<1>1. loop \in LoopLocals /\ loop.todo \in Seq(Calls)
  BY LoopTypes
<1>2. CASE Len(loop.todo) > 1
  <2>1. loop' = [loop EXCEPT !.pc = "look", !.todo = Tail(loop.todo)]
    BY <1>2 DEF After
  <2>2. /\ loop'.pc = "look" /\ loop'.todo = Tail(loop.todo)
        /\ loop'.turn = loop.turn /\ loop'.open = loop.open
        /\ loop'.close = loop.close /\ loop'.seen = loop.seen
    BY <1>1, <2>1 DEF LoopLocals
  <2>3. loop' # NoLoop
    BY <2>2 DEF NoLoop
  <2>4. ASSUME NEW c \in Ahead, c # Cur PROVE c \in Ahead'
    <3>1. PICK i \in DOMAIN loop.todo : loop.todo[i] = c
      BY DEF Ahead
    <3>2. PICK j \in DOMAIN Tail(loop.todo) : Tail(loop.todo)[j] = c
      BY <1>1, <2>4, <3>1, RestHolds DEF Cur
    <3>. QED
      BY <2>2, <3>2 DEF Ahead
  <2>. QED
    BY <2>2, <2>3, <2>4 DEF Passes
<1>3. CASE ~(Len(loop.todo) > 1)
  <2>1. loop' = NoLoop
    BY <1>3 DEF After
  <2>2. ASSUME NEW c \in Ahead, c # Cur PROVE FALSE
    <3>1. PICK i \in DOMAIN loop.todo : loop.todo[i] = c
      BY DEF Ahead
    <3>. QED
      BY <1>1, <1>3, <2>2, <3>1, RestHolds DEF Cur
  <2>. QED
    BY <2>1, <2>2 DEF Passes
<1>. QED
  BY <1>2, <1>3

LEMMA RestFields ==
  /\ NoLoop.pc = "idle" /\ NoLoop.seen = FALSE
  /\ NoLoop.open = {} /\ NoLoop.turn = <<>> /\ NoLoop.todo = <<>>
  BY DEF NoLoop

(* What the steps of the loop make of its locals.                          *)
Keeps == loop'.turn = loop.turn /\ loop'.todo = loop.todo

LooksOn ==
  /\ loop.pc = "look" /\ Keeps /\ loop'.open = loop.open
  /\ \/ loop'.pc = "stopping" /\ loop'.close = ClosedOnStop /\ loop'.seen = loop.seen
     \/ loop'.pc = "closing" /\ loop'.close = ClosedOnInput
     \/ loop'.pc = "invoke" /\ loop'.seen = loop.seen

LEMMA LookLooks == ASSUME TInv, Look PROVE LooksOn /\ UNCHANGED <<call, mode>>
<1>1. loop \in LoopLocals
  BY LoopTypes
<1>. QED
  BY <1>1 DEF Look, LooksOn, Keeps, LoopLocals

ClosesOne(c) ==
  /\ loop.pc \in {"closing", "stopping"} /\ Keeps
  /\ loop'.pc = loop.pc /\ loop'.seen = loop.seen
  /\ loop'.close = loop.close \ {c}
  /\ loop.open \ {c} \subseteq loop'.open
  /\ c \in Calls
  /\ call'[c].status # "queued"
  /\ call[c].status # "running" => call'[c].status # "running"
  /\ \A d \in Calls \ {c} : call'[d] = call[d]

LEMMA OneCloses ==
  ASSUME TInv, CloseOne
  PROVE  UNCHANGED mode /\ \E c \in loop.close : ClosesOne(c)
<1>1. loop \in LoopLocals
  BY LoopTypes
<1>2. PICK c \in NextClosed :
        /\ call' = [call EXCEPT ![c] = NotExecuted(c)]
        /\ loop' = [loop EXCEPT !.close = @ \ {c},
                                !.open = IF call[c].status = "queued" THEN @ \ {c} ELSE @]
  BY DEF CloseOne
<1>3. c \in loop.close /\ c \in Calls
  BY LoopTypes DEF NextClosed
<1>4. call'[c] = NotExecuted(c) /\ \A d \in Calls \ {c} : call'[d] = call[d]
  BY <1>2, <1>3 DEF TInv, Rows
<1>5. /\ call'[c].status # "queued"
      /\ call[c].status # "running" => call'[c].status # "running"
  BY <1>3, <1>4, NotExecutedStatus
<1>6. loop.pc \in {"closing", "stopping"} /\ UNCHANGED mode
  BY DEF CloseOne
<1>7. /\ Keeps /\ loop'.pc = loop.pc /\ loop'.seen = loop.seen
      /\ loop'.close = loop.close \ {c}
      /\ loop.open \ {c} \subseteq loop'.open
  BY <1>1, <1>2 DEF Keeps, LoopLocals
<1>8. ClosesOne(c)
  BY <1>3, <1>4, <1>5, <1>6, <1>7 DEF ClosesOne
<1>. QED
  BY <1>3, <1>6, <1>8

ClosesDone ==
  /\ loop.close = {}
  /\ \/ loop.pc = "stopping" /\ loop' = NoLoop
     \/ /\ loop.pc = "closing" /\ loop'.pc = "invoke" /\ Keeps
        /\ loop'.open = loop.open /\ loop'.seen = loop.seen

LEMMA DoneCloses == ASSUME TInv, CloseDone PROVE ClosesDone /\ UNCHANGED <<call, mode>>
<1>1. loop \in LoopLocals
  BY LoopTypes
<1>. QED
  BY <1>1 DEF CloseDone, ClosesDone, Keeps, LoopLocals

Begins ==
  /\ Cur \in Calls
  /\ call[Cur].status = "queued" /\ call'[Cur].status = "running"
  /\ \A d \in Calls \ {Cur} : call'[d] = call[d]
  /\ Keeps /\ loop'.pc = "execute" /\ loop'.open = loop.open \ {Cur}
  /\ loop'.seen = loop.seen /\ ~(loop.seen /\ Cur \notin Reads)

PassesBy ==
  /\ \/ Cur \notin loop.open \/ (loop.seen /\ Cur \notin Reads)
     \/ Cur \in Asyncs \/ call[Cur].status # "queued"
  /\ loop' = After(loop) /\ UNCHANGED call

LEMMA InvokeCases ==
  ASSUME TInv, Invoke
  PROVE  /\ loop.pc = "invoke" /\ UNCHANGED mode
         /\ Begins \/ PassesBy
<1>1. loop \in LoopLocals
  BY LoopTypes
<1>2. Cur \in Calls
  BY CurType DEF TInv, Invoke
<1>3. CASE call' = [call EXCEPT ![Cur].status = "running", ![Cur].started = TRUE]
            /\ Claimable(Cur) /\ loop' = [loop EXCEPT !.pc = "execute", !.open = @ \ {Cur}]
            /\ ~(loop.seen /\ Cur \notin Reads)
  <2>1. /\ call'[Cur].status = "running" /\ call[Cur].status = "queued"
        /\ \A d \in Calls \ {Cur} : call'[d] = call[d]
    BY <1>2, <1>3, StartStatus
  <2>2. /\ Keeps /\ loop'.pc = "execute" /\ loop'.open = loop.open \ {Cur}
        /\ loop'.seen = loop.seen
    BY <1>1, <1>3 DEF Keeps, LoopLocals
  <2>. QED
    BY <1>2, <1>3, <2>1, <2>2 DEF Begins, Invoke
<1>4. CASE PassesBy
  BY <1>4 DEF Invoke
<1>. QED
  BY <1>3, <1>4 DEF Invoke, PassesBy, Claimable

Executing ==
  /\ Executes /\ Keeps
  /\ loop'.pc \in {"execute", "cancelling", "finish"}
  /\ loop'.open = loop.open /\ loop'.seen = loop.seen

LEMMA ExecuteGoesOn ==
  ASSUME TInv, Execute \/ ExecuteCancel \/ ExecuteCancelDone
  PROVE  Executing /\ UNCHANGED <<call, mode>>
<1>1. loop \in LoopLocals
  BY LoopTypes
<1>2. CASE Execute
  BY <1>1, <1>2 DEF Execute, Executing, Executes, Keeps, LoopLocals
<1>3. CASE ExecuteCancel
  BY <1>1, <1>3 DEF ExecuteCancel, Executing, Executes, Keeps, LoopLocals
<1>4. CASE ExecuteCancelDone
  BY <1>1, <1>4 DEF ExecuteCancelDone, Executing, Executes, Keeps, LoopLocals
<1>. QED
  BY <1>2, <1>3, <1>4

Finishes ==
  /\ loop.pc = "finish" /\ Cur \in Calls
  /\ call[Cur].status = "running" => call'[Cur].status \in Terminal
  /\ call[Cur].status # "running" => call'[Cur] = call[Cur]
  /\ \A d \in Calls \ {Cur} : call'[d] = call[d]
  /\ loop' = After(loop)

LEMMA FinishFinishes == ASSUME TInv, Finish PROVE Finishes /\ UNCHANGED mode
<1>1. Cur \in Calls /\ loop.out \in Outcome
  BY CurType DEF Finish, TInv, TypeOK, LoopLocals
<1>2. /\ call'[Cur] = Finalized(Cur, loop.out)
      /\ \A d \in Calls \ {Cur} : call'[d] = call[d]
  BY <1>1 DEF Finish, TInv, Rows
<1>3. /\ call[Cur].status # "running" => Finalized(Cur, loop.out) = call[Cur]
      /\ call[Cur].status = "running" => Finalized(Cur, loop.out).status \in Terminal
  BY <1>1, FinalizedStatus
<1>. QED
  BY <1>1, <1>2, <1>3 DEF Finish, Finishes

(* The turn is committed: what is queued of it is open.                    *)
Commits ==
  /\ loop.pc = "commit" /\ loop'.pc = "look" /\ loop'.seen = loop.seen
  /\ loop'.todo = loop'.turn
  /\ \A c \in Calls :
       \/ /\ c \in Ahead'
          /\ call'[c].status = "queued" => c \in loop'.open
          /\ c \in Syncs => call'[c].status # "running"
       \/ c \notin Ahead' /\ call'[c] = call[c]

LEMMA CommitCommits == ASSUME TInv, Commit PROVE Commits /\ UNCHANGED mode
<1>0. loop \in LoopLocals
  BY LoopTypes
<1>1. PICK s \in Orders :
        LET new == {s[i] : i \in DOMAIN s}
        IN \E f \in [new -> UNION {Accepted(c, loop.auth) : c \in new}] :
             /\ \A c \in new : f[c] \in Accepted(c, loop.auth)
             /\ call' = [c \in Calls |-> IF c \in new THEN f[c] ELSE call[c]]
             /\ loop' = [loop EXCEPT !.pc = "look", !.turn = s, !.todo = s,
                                     !.open = {c \in new : f[c].status = "queued"}]
  BY DEF Commit
<1>. DEFINE new == {s[i] : i \in DOMAIN s}
<1>2. PICK f \in [new -> UNION {Accepted(c, loop.auth) : c \in new}] :
             /\ \A c \in new : f[c] \in Accepted(c, loop.auth)
             /\ call' = [c \in Calls |-> IF c \in new THEN f[c] ELSE call[c]]
             /\ loop' = [loop EXCEPT !.pc = "look", !.turn = s, !.todo = s,
                                     !.open = {c \in new : f[c].status = "queued"}]
  BY <1>1
<1>3. loop.pc = "commit" /\ UNCHANGED mode
  BY DEF Commit
<1>4. /\ loop'.pc = "look" /\ loop'.seen = loop.seen
      /\ loop'.turn = s /\ loop'.todo = s
      /\ loop'.open = {c \in new : f[c].status = "queued"}
  BY <1>0, <1>2 DEF LoopLocals
<1>5. Ahead' = new
  BY <1>4 DEF Ahead
<1>. HIDE DEF new
<1>6. ASSUME NEW c \in Calls
      PROVE  \/ /\ c \in Ahead'
                /\ call'[c].status = "queued" => c \in loop'.open
                /\ c \in Syncs => call'[c].status # "running"
             \/ c \notin Ahead' /\ call'[c] = call[c]
  <2>1. CASE c \in new
    <3>1. call'[c] = f[c] /\ f[c] \in Accepted(c, loop.auth)
      BY <1>2, <2>1
    <3>2. ASSUME c \in Syncs PROVE f[c].status # "running"
      <4>1. f[c] = Refused \/ f[c] = [NewCall EXCEPT !.status = "queued"]
        BY <3>1, <3>2, SyncsAreApart DEF Accepted, SyncsApart
      <4>. QED
        BY <4>1 DEF Refused, NewCall
    <3>. QED
      BY <1>4, <1>5, <2>1, <3>1, <3>2
  <2>2. CASE c \notin new
    BY <1>2, <1>5, <2>2
  <2>. QED
    BY <2>1, <2>2
<1>. QED
  BY <1>3, <1>4, <1>6 DEF Commits

-----------------------------------------------------------------------------
(* The steps of a system whose loop is not disturbed                       *)

Elsewhere == UNCHANGED <<loop, mode>> /\ mode = "up"

TurnSteps ==
  \/ Elsewhere
  \/ UNCHANGED loop /\ loop.pc = "idle" /\ mode' = "recovery"
  \/ mode' = "recovery" /\ loop' = NoLoop
  \/ Panic
  \/ Recovered /\ mode = "recovery" /\ UNCHANGED loop
  \/ Evaluate
  \/ Commits
  \/ NoTurn
  \/ LooksOn /\ UNCHANGED call
  \/ \E c \in loop.close : ClosesOne(c)
  \/ ClosesDone /\ UNCHANGED call
  \/ loop.pc = "invoke" /\ (Begins \/ PassesBy)
  \/ Executing /\ UNCHANGED call
  \/ Finishes

LEMMA NoFault == ASSUME Transacts PROVE ~CloseFails /\ ~FinishFails
  BY DEF Transacts, Fault, CloseFails, FinishFails

LEMMA StepsOfTheTurn ==
  ASSUME Transacts, TInv, Execution, LoopBegun, Next \/ UNCHANGED vars
  PROVE  TurnSteps
<1>0. mode \in {"up", "recovery"}
  BY DEF TInv, TypeOK
<1>1. CASE UNCHANGED <<loop, mode>>
  BY <1>0, <1>1 DEF TurnSteps, Elsewhere, Execution, LoopBegun
<1>2. CASE LoopStep
  BY <1>2, CommitCommits, LookLooks, OneCloses, DoneCloses, InvokeCases, ExecuteGoesOn,
     FinishFinishes DEF LoopStep, TurnSteps
<1>3. CASE Evaluate
  BY <1>3 DEF TurnSteps
<1>4. CASE BuildFails \/ UNCHANGED vars
  BY <1>1, <1>4 DEF BuildFails, vars
<1>5. CASE \E w \in Workers : WorkerStep(w) \/ WorkerFinishFails(w)
  BY <1>1, <1>5 DEF WorkerStep, WorkerFinishFails, TakeWork, Claim, WorkerRevert, Register,
     CheckCancel, Recheck, Write, WorkerFinish
<1>6. CASE \E k \in Users \cup {Own} : CancelStep(k)
  BY <1>1, <1>6 DEF CancelStep, CancelTry, CancelSignal, CancelReread
<1>7. CASE (\E c \in Calls : ScanQueued(c) \/ WaitEnds(c)) \/ UserStep \/ RevokeStep
  BY <1>1, <1>7 DEF ScanQueued, WaitEnds, UserStep, Approve, Reject, Cancel, Expire, Revoke,
     RevokeStep, RevokeList, RevokeRevert
<1>8. CASE Recovered
  BY <1>8 DEF Recovered, TurnSteps
<1>9. CASE \E c \in Calls : RecoverRunning(c) \/ RecoverQueued(c)
  BY <1>1, <1>9 DEF RecoverRunning, RecoverQueued
<1>10. CASE Crash \/ Panic
  BY <1>10 DEF Crash, TurnSteps
<1>. QED
  BY NoFault, <1>2, <1>3, <1>4, <1>5, <1>6, <1>7, <1>8, <1>9, <1>10 DEF Next, Recovery, FaultStep

(* Of the steps that are not a commit the rows are known.                  *)
LEMMA CommitOrRows ==
  ASSUME TInv, Execution, Next \/ UNCHANGED vars
  PROVE  Commits \/ RowMoves
  BY CommitCommits, RowsMove

-----------------------------------------------------------------------------
(* No call is left behind                                                  *)

LEMMA HeldStep ==
  ASSUME Undisturbed, TurnInv, Next \/ UNCHANGED vars
  PROVE  Held'
<1> SUFFICES ASSUME mode' = "up", NEW c \in Syncs
             PROVE  /\ call'[c].status = "running" => Executes' /\ c = Cur'
                    /\ call'[c].status = "queued" =>
                         /\ loop'.pc \notin {"idle", "commit"}
                         /\ c \in loop'.open /\ c \in Ahead'
                         /\ loop'.pc = "stopping" => c \in loop'.close
                         /\ loop'.seen /\ c \in Writes =>
                              loop'.pc = "closing" /\ c \in loop'.close
  BY DEF Held
<1>. USE DEF TurnInv, InputInv
<1>0. c \in Calls /\ c \notin Asyncs /\ c \notin Waits /\ (c \in Writes => c \notin Reads)
  BY SyncsAreApart, CallsAssumption DEF SyncsApart
<1>1. TurnSteps /\ ~Panic
  BY StepsOfTheTurn DEF Undisturbed, Panic, Fault
<1>. DEFINE S == /\ call[c].status = "running" => Executes /\ c = Cur
                 /\ call[c].status = "queued" =>
                      /\ loop.pc \notin {"idle", "commit"}
                      /\ c \in loop.open /\ c \in Ahead
                      /\ loop.pc = "stopping" => c \in loop.close
                      /\ loop.seen /\ c \in Writes => loop.pc = "closing" /\ c \in loop.close
            G == /\ call'[c].status = "running" => Executes' /\ c = Cur'
                 /\ call'[c].status = "queued" =>
                      /\ loop'.pc \notin {"idle", "commit"}
                      /\ c \in loop'.open /\ c \in Ahead'
                      /\ loop'.pc = "stopping" => c \in loop'.close
                      /\ loop'.seen /\ c \in Writes => loop'.pc = "closing" /\ c \in loop'.close
<1>2. mode = "up" => S
  BY DEF Held
<1>3. CASE Elsewhere
  <2>1. ~Commits /\ ~Claims(c)
    BY <1>3 DEF Elsewhere, Commits, Claims, Invoke
  <2>2. Queues(c) /\ Runs(c)
    BY <1>0, <2>1, CommitOrRows DEF RowMoves
  <2>3. Executes' = Executes /\ Cur' = Cur /\ Ahead' = Ahead
    BY <1>3 DEF Elsewhere, Executes, Cur, Ahead
  <2>4. /\ call'[c].status = "queued" => call[c].status = "queued"
        /\ call'[c].status = "running" => call[c].status = "running"
    BY <1>0, <2>1, <2>2 DEF Queues, Runs
  <2>. QED
    BY <1>2, <1>3, <2>3, <2>4 DEF Elsewhere
<1>4. CASE Recovered
  BY <1>0, <1>4 DEF Recovered
<1>5. CASE Evaluate
  BY <1>2, <1>5 DEF Evaluate, Executes
<1>6. CASE Commits
  <2>1. loop.seen = FALSE /\ ~Executes
    BY <1>6, LoopTypes DEF LoopBegun, Commits, Executes, LoopLocals
  <2>2. mode = "up"
    BY <1>6 DEF Commits, Execution, TInv, TypeOK
  <2>3. call[c].status \notin {"queued", "running"}
    BY <1>2, <1>6, <2>1, <2>2 DEF Commits
  <2>. QED
    BY <1>0, <1>6, <2>1, <2>3 DEF Commits
<1>7. CASE NoTurn
  BY <1>2, <1>7 DEF NoTurn, Executes
<1>8. CASE loop.pc \notin {"idle", "commit"}
  <2>0. mode = "up"
    BY <1>8 DEF Execution, TInv, TypeOK
  <2>1. CASE LooksOn /\ UNCHANGED call
    <3>1. Ahead' = Ahead /\ ~Executes /\ loop.pc = "look"
      BY <2>1 DEF LooksOn, Keeps, Ahead, Executes
    <3>2. c \in loop.open => c \in ClosedOnStop /\ (c \in Writes => c \in ClosedOnInput)
      BY DEF ClosedOnStop, ClosedOnInput
    <3>. QED
      BY <1>2, <2>0, <2>1, <3>1, <3>2 DEF LooksOn
  <2>2. ASSUME NEW d \in loop.close, ClosesOne(d) PROVE G
    <3>1. Ahead' = Ahead /\ ~Executes
      BY <2>2 DEF ClosesOne, Keeps, Ahead, Executes
    <3>2. CASE c = d
      <4>1. call'[c].status # "running"
        BY <1>2, <2>0, <2>2, <3>1, <3>2 DEF ClosesOne
      <4>. QED
        BY <2>2, <3>2, <4>1 DEF ClosesOne
    <3>3. CASE c # d
      BY <1>0, <1>2, <2>0, <2>2, <3>1, <3>3 DEF ClosesOne
    <3>. QED
      BY <3>2, <3>3
  <2>3. CASE ClosesDone /\ UNCHANGED call
    <3>1. ~Executes
      BY <2>3 DEF ClosesDone, Executes
    <3>2. Keeps => Ahead' = Ahead
      BY DEF Keeps, Ahead
    <3>. QED
      BY <1>2, <2>0, <2>3, <3>1, <3>2, RestFields DEF ClosesDone
  <2>4. CASE loop.pc = "invoke" /\ Begins
    <3>1. Ahead' = Ahead /\ Cur' = Cur /\ Executes' /\ ~Executes
      BY <2>4 DEF Begins, Keeps, Ahead, Cur, Executes
    <3>. QED
      BY <1>0, <1>2, <2>0, <2>4, <3>1 DEF Begins
  <2>5. ASSUME loop' = After(loop), loop.pc \in {"invoke", "finish"},
               c = Cur => call'[c].status \notin {"queued", "running"},
               c # Cur => call'[c].status = call[c].status,
               call[c].status = "running" => c = Cur
        PROVE  G
    <3>1. Passes /\ (c \in Ahead /\ c # Cur => loop' # NoLoop /\ c \in Ahead')
      BY <1>8, <2>5, AfterPasses
    <3>. QED
      BY <1>2, <2>0, <2>5, <3>1, RestFields DEF Passes
  <2>6. CASE loop.pc = "invoke" /\ PassesBy
    <3>1. call[c].status # "running" /\ (c = Cur => call[c].status # "queued")
      BY <1>0, <1>2, <2>0, <2>6 DEF PassesBy, Executes, Syncs
    <3>. QED
      BY <2>5, <2>6, <3>1 DEF PassesBy
  <2>7. CASE Executing /\ UNCHANGED call
    <3>1. Ahead' = Ahead /\ Cur' = Cur /\ Executes'
      BY <2>7 DEF Executing, Keeps, Ahead, Cur, Executes
    <3>. QED
      BY <1>2, <2>0, <2>7, <3>1 DEF Executing, Executes
  <2>8. CASE Finishes
    <3>1. call[Cur].status # "queued" /\ (call[c].status = "running" => c = Cur)
      BY <1>2, <2>0, <2>8 DEF LoopBegun, Finishes, Executes
    <3>2. c = Cur => call'[c].status \notin {"queued", "running"}
      BY <2>8, <3>1 DEF Finishes, Terminal
    <3>3. c # Cur => call'[c].status = call[c].status
      BY <1>0, <2>8 DEF Finishes
    <3>. QED
      BY <2>5, <2>8, <3>1, <3>2, <3>3 DEF Finishes
  <2>. QED
    BY <1>1, <1>3, <1>4, <1>5, <1>6, <1>7, <2>1, <2>2, <2>3, <2>4, <2>6, <2>7, <2>8 DEF TurnSteps
<1>9. CASE loop.pc \in {"idle", "commit"}
  BY <1>1, <1>3, <1>4, <1>5, <1>6, <1>7, <1>9
  DEF TurnSteps, LooksOn, ClosesOne, ClosesDone, Executing, Executes, Finishes
<1>. QED
  BY <1>8, <1>9

-----------------------------------------------------------------------------
(* New input holds the writes back                                         *)

LEMMA TurnOpenStep ==
  ASSUME Transacts, InputInv, Next \/ UNCHANGED vars
  PROVE  TurnOpen'
<1> SUFFICES ASSUME loop'.pc \notin {"idle", "commit"}, NEW c \in InTurn',
                    call'[c].status = "queued", call'[c].decision = "none"
             PROVE  /\ c \in loop'.open
                    /\ loop'.seen /\ c \notin Reads =>
                         loop'.pc = "closing" /\ c \in loop'.close
  BY DEF TurnOpen
<1>. USE DEF InputInv
<1>1. TurnSteps
  BY StepsOfTheTurn
<1>2. CASE Commits
  <2>1. loop'.seen = FALSE
    BY <1>2, LoopTypes DEF LoopBegun, Commits, LoopLocals
  <2>2. c \in Ahead'
    BY <1>2 DEF Commits, InTurn, Ahead
  <2>3. c \in Calls
    <3>1. loop'.turn \in Seq(Calls)
      BY TypeStep DEF TInv, TypeOK, LoopLocals
    <3>. QED
      BY <3>1 DEF InTurn
  <2>. QED
    BY <1>2, <2>1, <2>2, <2>3 DEF Commits
<1>3. CASE ~Commits /\ loop.pc \notin {"idle", "commit"} /\ InTurn' = InTurn
  <2>1. c \in InTurn /\ c \in Calls
    BY <1>3, LoopTypes
  <2>2. call[c].status = "queued" /\ call[c].decision = "none"
    BY <1>3, <2>1, CommitOrRows DEF RowMoves, Queues
  <2>3. /\ c \in loop.open
        /\ loop.seen /\ c \notin Reads => loop.pc = "closing" /\ c \in loop.close
    BY <1>3, <2>1, <2>2 DEF TurnOpen
  <2>4. c \notin Waits
    BY <2>1, <2>2 DEF TInv, Rows, RowOK
  <2>5. CASE Elsewhere
    BY <2>3, <2>5 DEF Elsewhere
  <2>6. CASE LooksOn
    <3>1. c \notin Reads => c \in ClosedOnInput
      BY <2>1, <2>3, <2>4 DEF ClosedOnInput, Calls, Syncs
    <3>. QED
      BY <2>3, <2>6, <3>1 DEF LooksOn
  <2>7. CASE \E d \in loop.close : ClosesOne(d)
    BY <2>3, <2>7 DEF ClosesOne
  <2>8. CASE ClosesDone
    BY <2>3, <2>8, RestFields DEF ClosesDone
  <2>9. CASE loop.pc = "invoke" /\ Begins
    BY <2>3, <2>9 DEF Begins
  <2>10. ASSUME loop' = After(loop), loop.pc \in {"invoke", "finish"}
         PROVE  /\ c \in loop'.open
                /\ loop'.seen /\ c \notin Reads =>
                     loop'.pc = "closing" /\ c \in loop'.close
    <3>1. Passes
      BY <2>10, AfterPasses
    <3>. QED
      BY <2>3, <2>10, <3>1, RestFields DEF Passes
  <2>11. CASE loop.pc = "invoke" /\ PassesBy
    BY <2>10, <2>11 DEF PassesBy
  <2>12. CASE Executing
    BY <2>3, <2>12 DEF Executing, Executes
  <2>13. CASE Finishes
    BY <2>10, <2>13 DEF Finishes
  <2>14. CASE Recovered
    BY <1>3, <2>14 DEF Recovered, Execution
  <2>15. CASE Evaluate \/ NoTurn
    BY <1>3, <2>15 DEF Evaluate, NoTurn
  <2>. QED
    BY <1>1, <1>3, <2>5, <2>6, <2>7, <2>8, <2>9, <2>11, <2>12, <2>13, <2>14, <2>15, RestFields
    DEF TurnSteps, Panic
<1>4. CASE loop.pc \in {"idle", "commit"} /\ ~Commits
  <2>1. ~LooksOn /\ ~(\E d \in loop.close : ClosesOne(d)) /\ ~ClosesDone /\ ~Executing /\ ~Finishes
    BY <1>4 DEF LooksOn, ClosesOne, ClosesDone, Executing, Executes, Finishes
  <2>2. loop.pc # "invoke"
    BY <1>4
  <2>3. ~Evaluate
    <3>1. ASSUME Evaluate PROVE loop'.pc = "commit"
      BY <3>1, LocalsAtRest DEF Evaluate, LoopLocals
    <3>. QED
      BY <3>1
  <2>. QED
    BY <1>1, <1>4, <2>1, <2>2, <2>3, RestFields DEF TurnSteps, Elsewhere, NoTurn, Panic
<1>5. CASE ~Commits /\ loop.pc \notin {"idle", "commit"} /\ InTurn' # InTurn
  <2>1. Keeps \/ loop'.turn = loop.turn \/ UNCHANGED loop => InTurn' = InTurn
    BY DEF Keeps, InTurn
  <2>2. loop' = After(loop) => Passes
    BY <1>5, AfterPasses
  <2>3. ~Recovered /\ ~Evaluate /\ ~NoTurn
    BY <1>5 DEF Recovered, Execution, Evaluate, NoTurn
  <2>. QED
    BY <1>1, <1>5, <2>1, <2>2, <2>3, RestFields
    DEF TurnSteps, Panic, Elsewhere, LooksOn, ClosesOne, ClosesDone, Begins, PassesBy, Executing,
        Finishes, Passes
<1>. QED
  BY <1>2, <1>3, <1>4, <1>5

LEMMA LoopBegunStep ==
  ASSUME Transacts, InputInv, Next \/ UNCHANGED vars
  PROVE  LoopBegun'
<1>. USE DEF InputInv
<1>1. TurnSteps
  BY StepsOfTheTurn
<1>2. ASSUME loop'.pc \in {"idle", "commit"} PROVE ~loop'.seen
  <2>1. Evaluate => ~loop'.seen
    BY LocalsAtRest, RestFields DEF Evaluate, LoopLocals
  <2>2. loop' = After(loop) /\ loop.pc \in {"invoke", "finish"} => Passes
    BY AfterPasses
  <2>. QED
    BY <1>1, <1>2, <2>1, <2>2, RestFields
    DEF TurnSteps, Panic, Elsewhere, LoopBegun, Commits, NoTurn, LooksOn, ClosesOne, ClosesDone,
        Begins, PassesBy, Executing, Finishes, Passes, Recovered
<1>3. ASSUME Executes' PROVE call'[Cur'].status # "queued"
  <2>1. CASE Elsewhere
    <3>1. Executes /\ Cur' = Cur /\ Cur \in Syncs /\ ~Commits
      BY <1>3, <2>1 DEF Elsewhere, Executes, Cur, Execution, Commits
    <3>2. Queues(Cur) /\ Cur \notin Asyncs
      BY <3>1, CommitOrRows, SyncsAreApart DEF RowMoves, SyncsApart
    <3>. QED
      BY <3>1, <3>2 DEF Queues, LoopBegun
  <2>2. CASE loop.pc = "invoke" /\ Begins
    BY <2>2 DEF Begins, Keeps, Cur
  <2>3. CASE Executing /\ UNCHANGED call
    BY <2>3 DEF Executing, Keeps, Cur, LoopBegun
  <2>4. CASE Recovered
    BY <1>3, <2>4 DEF Recovered, Execution, Executes
  <2>5. CASE loop' = After(loop) /\ loop.pc \in {"invoke", "finish"}
    BY <1>3, <2>5, AfterPasses, RestFields DEF Passes, Executes
  <2>6. CASE Evaluate
    <3>1. loop'.pc = "commit"
      BY <2>6, LocalsAtRest DEF Evaluate, LoopLocals
    <3>. QED
      BY <1>3, <3>1 DEF Executes
  <2>. QED
    BY <1>1, <1>3, <2>1, <2>2, <2>3, <2>4, <2>5, <2>6, RestFields
    DEF TurnSteps, Panic, Commits, NoTurn, LooksOn, ClosesOne, ClosesDone, PassesBy, Finishes, Executes
<1>. QED
  BY <1>2, <1>3 DEF LoopBegun

LEMMA TurnInit == Init => TurnInv
<1> SUFFICES ASSUME Init PROVE TurnInv
  OBVIOUS
<1>1. TInv /\ Execution
  BY TypeInit, ExecutionInit
<1>2. Held /\ TurnOpen /\ LoopBegun
  BY RestFields, SyncsAreApart
  DEF Init, Held, TurnOpen, LoopBegun, Executes, NewCall, SyncsApart
<1>. QED
  BY <1>1, <1>2 DEF TurnInv, InputInv

LEMMA InputStep == Transacts /\ InputInv /\ [Next]_vars => InputInv'
  BY TypeStep, ExecutionStep, TurnOpenStep, LoopBegunStep DEF InputInv

LEMMA InputInvariant == Transacts => (Spec => []InputInv)
<1> SUFFICES ASSUME Transacts PROVE Spec => []InputInv
  OBVIOUS
<1>1. Init => InputInv
  BY TurnInit DEF TurnInv
<1>2. InputInv /\ [Next]_vars => InputInv'
  BY InputStep
<1>. QED
  BY <1>1, <1>2, PTL DEF Spec

LEMMA TurnInvariant == Undisturbed => (Spec => []TurnInv)
<1> SUFFICES ASSUME Undisturbed PROVE Spec => []TurnInv
  OBVIOUS
<1>1. TurnInv /\ [Next]_vars => TurnInv'
  BY InputStep, HeldStep DEF TurnInv, Undisturbed
<1>. QED
  BY <1>1, TurnInit, PTL DEF Spec

(* Every call of the model has its message whenever the loop builds a      *)
(* context: neither a stop, new input, a lost claim nor a crash leaves a   *)
(* tool block open (closeUnstartedSyncCalls, executeSyncCall,              *)
(* RecoverOnStartup).  A panic, or a transaction that fails, does.         *)
THEOREM BlocksAreClosed == Undisturbed => (Spec => []BuildableWhenIdle)
<1> SUFFICES ASSUME Undisturbed PROVE Spec => []BuildableWhenIdle
  OBVIOUS
<1>1. TurnInv => BuildableWhenIdle
  <2> SUFFICES ASSUME TurnInv, mode = "up", loop.pc = "idle", NEW c \in Committed
               PROVE  Closed(c)
    BY DEF BuildableWhenIdle, ProtocolClosed
  <2>1. c \in Calls /\ call[c].status # "none" /\ RowOK(c, call[c])
    BY DEF Committed, TurnInv, InputInv, TInv, Rows
  <2>2. c \in Syncs => call[c].status \notin {"queued", "running"} /\ c \notin Asyncs
    BY SyncsAreApart DEF TurnInv, Held, Executes, SyncsApart
  <2>3. \/ call[c].status \in Terminal
        \/ c \notin Syncs /\ call[c].status \in {"pending", "queued", "running"}
    BY <2>1, <2>2 DEF RowOK, Call, Status
  <2>4. call[c].answer \in {"none", "reply", "result"}
    BY <2>1 DEF RowOK, Call
  <2>. QED
    BY <2>1, <2>3, <2>4 DEF RowOK, Closed
<1>. QED
  BY <1>1, TurnInvariant, PTL

(* Once the loop has closed the writes of its turn because of new input,   *)
(* none of them is left for a worker unless the user approved it           *)
(* (botLoop, closeUnstartedWriteCalls): no later push, scan or revocation  *)
(* brings one back, unless a transaction fails that should have closed it. *)
THEOREM NewInputIsHeeded == Transacts => (Spec => []NewInputHolds)
<1> SUFFICES ASSUME Transacts PROVE Spec => []NewInputHolds
  OBVIOUS
<1>1. InputInv => NewInputHolds
  <2> SUFFICES ASSUME InputInv, loop.seen, loop.pc # "closing", NEW i \in DOMAIN loop.turn,
                      loop.turn[i] \notin Reads, call[loop.turn[i]].status = "queued"
               PROVE  call[loop.turn[i]].decision # "none"
    BY DEF NewInputHolds
  <2>. QED
    BY DEF InputInv, TurnOpen, LoopBegun, InTurn
<1>. QED
  BY <1>1, InputInvariant, PTL

=============================================================================
