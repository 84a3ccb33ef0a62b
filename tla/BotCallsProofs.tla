--------------------------- MODULE BotCallsProofs ---------------------------
(***************************************************************************)
(* Theorems about the ledger of tool calls, for every number of calls,     *)
(* workers, users, authorizations and faults.                              *)
(***************************************************************************)
EXTENDS BotCalls, FiniteSetTheorems, TLAPS

(* What holds of a row whatever the rest of the system does.  A            *)
(* synchronous call never has a receipt, an asynchronous one is open only  *)
(* with one; only asynchronous calls wait for the user or are authorized,  *)
(* and a wait is never queued.                                             *)
RowOK(c, r) ==
  /\ r \in Call
  /\ r.answer # "none" <=> r.status \in Terminal
  /\ r.answer = "reply" => ~r.receipt
  /\ r.answer = "result" => r.receipt
  /\ c \in Syncs => ~r.receipt
  /\ c \notin Syncs /\ r.status \in {"pending", "queued", "running"} => r.receipt
  /\ r.status = "pending" \/ r.auth # NoAuth => c \in Asyncs
  /\ r.status = "queued" => c \notin Waits

Rows ==
  /\ call \in [Calls -> Call]
  /\ \A c \in Calls : RowOK(c, call[c])

(* Whoever is past its first step has a call to work on.                   *)
Aimed(r) == r.pc # "idle" => r.c \in Calls /\ r.from # "none"

Busy ==
  /\ IsFiniteSet(work)
  /\ loop.pc \notin {"idle", "commit"} => loop.todo # <<>>
  /\ \A w \in Workers : worker[w].pc # "idle" => worker[w].c \in Asyncs
  /\ \A k \in DOMAIN cancel : Aimed(cancel[k])
  /\ revoke.pc # "idle" => revoke.a \in Auths
  /\ revoke.list \subseteq Asyncs

TInv == TypeOK /\ Rows /\ Busy

-----------------------------------------------------------------------------
(* Rows                                                                    *)

LEMMA RowNew == \A c \in Calls : RowOK(c, NewCall)
  BY DEF RowOK, NewCall, Call, Terminal, Status, Decision

LEMMA RowEnded ==
  ASSUME Rows, NEW c \in Calls, Open(c), NEW st \in Terminal
  PROVE  RowOK(c, Ended(c, st))
<1>1. RowOK(c, call[c])
  BY DEF Rows
<1>. QED
  BY <1>1 DEF RowOK, Ended, Answered, Kind, Open, Call, Status, Terminal

LEMMA RowFinalized ==
  ASSUME Rows, NEW c \in Calls, NEW out \in Outcome \cup {"cancelled", "recheck"}
  PROVE  RowOK(c, Finalized(c, out))
<1>1. RowOK(c, call[c])
  BY DEF Rows
<1>2. CASE call[c].status # "running"
  BY <1>1, <1>2 DEF Finalized
<1>3. CASE call[c].status = "running"
  <2>1. Open(c)
    BY <1>3 DEF Open
  <2>2. /\ RowOK(c, Ended(c, "cancelled"))
        /\ RowOK(c, Ended(c, IF out = "recheck" THEN "failed" ELSE out))
    BY <2>1, RowEnded DEF Terminal, Outcome
  <2>3. ASSUME NEW r, RowOK(c, r), NEW b \in BOOLEAN
        PROVE  RowOK(c, [r EXCEPT !.effect = b])
    BY <2>3 DEF RowOK, Call
  <2>4. RowOK(c, [Ended(c, "cancelled") EXCEPT !.effect = c \notin Waits /\ out # "recheck"])
    BY <2>2, <2>3
  <2>. QED
    BY <1>3, <2>2, <2>4 DEF Finalized
<1>. QED
  BY <1>2, <1>3

LEMMA RowNotExecuted ==
  ASSUME Rows, NEW c \in Calls
  PROVE  RowOK(c, NotExecuted(c))
<1>1. CASE call[c].status = "queued"
  BY <1>1, RowEnded DEF NotExecuted, Open, Terminal
<1>2. CASE call[c].status # "queued"
  BY <1>2 DEF NotExecuted, Rows
<1>. QED
  BY <1>1, <1>2

LEMMA RowReverted ==
  ASSUME Rows, NEW c \in Asyncs
  PROVE  RowOK(c, Reverted(c))
<1>1. c \in Calls /\ RowOK(c, call[c])
  BY DEF Rows, Calls
<1>2. CASE call[c].status = "queued"
  <2>1. Reverted(c) = [call[c] EXCEPT !.status = "pending", !.auth = NoAuth]
    BY <1>2 DEF Reverted
  <2>2. [call[c] EXCEPT !.status = "pending", !.auth = NoAuth] \in Call
    BY <1>1 DEF RowOK, Call, Status
  <2>. QED
    BY <1>1, <1>2, <2>1, <2>2 DEF RowOK, Call, Terminal
<1>3. CASE call[c].status # "queued"
  BY <1>1, <1>3 DEF Reverted
<1>. QED
  BY <1>2, <1>3

LEMMA RowStarted ==
  ASSUME Rows, NEW c \in Calls, Claimable(c)
  PROVE  RowOK(c, [call[c] EXCEPT !.status = "running", !.started = TRUE])
<1>1. RowOK(c, call[c])
  BY DEF Rows
<1>. QED
  BY <1>1 DEF RowOK, Claimable, Call, Status, Terminal

LEMMA RowMarked ==
  ASSUME Rows, NEW c \in Calls
  PROVE  RowOK(c, [call[c] EXCEPT !.cancel = TRUE])
<1>1. RowOK(c, call[c])
  BY DEF Rows
<1>. QED
  BY <1>1 DEF RowOK, Call

LEMMA RowDecided ==
  ASSUME Rows, NEW c \in Calls, call[c].status = "pending"
  PROVE  /\ c \in Asyncs
         /\ RowOK(c, [Decided(c, "approve") EXCEPT !.status = "queued"])
         /\ \A a \in Auths :
              RowOK(c, [Decided(c, "always_allow") EXCEPT !.status = "queued", !.auth = a])
         /\ RowOK(c, Answered([Decided(c, "reject") EXCEPT !.status = "rejected"], "result"))
<1>1. RowOK(c, call[c])
  BY DEF Rows
<1>2. c \in Asyncs /\ c \notin Syncs /\ c \notin Waits
  BY <1>1, CallsAssumption DEF RowOK
<1>. QED
  BY <1>1, <1>2 DEF RowOK, Decided, Answered, Call, Status, Terminal, Decision

LEMMA RowInterrupted ==
  ASSUME Rows, NEW c \in Calls, call[c].status = "running"
  PROVE  RowOK(c, Interrupted(c))
<1>1. RowOK(c, call[c])
  BY DEF Rows
<1>. DEFINE failed == [call[c] EXCEPT !.status = "failed", !.effect = InterruptedEffect(c)]
<1>2. /\ failed \in Call
      /\ failed.status = "failed" /\ failed.answer = "none"
      /\ failed.receipt = call[c].receipt /\ failed.auth = call[c].auth
  <2>1. InterruptedEffect(c) \in BOOLEAN
    BY DEF InterruptedEffect
  <2>. QED
    BY <1>1, <2>1 DEF RowOK, Call, Status, Terminal
<1>3. Interrupted(c) = [failed EXCEPT !.answer = IF call[c].receipt THEN "result" ELSE "reply"]
  <2>1. CASE call[c].receipt
    BY <2>1, <1>2 DEF Interrupted, Answered
  <2>2. CASE ~call[c].receipt
    BY <2>2, <1>2 DEF Interrupted, Answered, Call
  <2>. QED
    BY <2>1, <2>2
<1>. HIDE DEF failed
<1>4. RowOK(c, [failed EXCEPT !.answer = IF call[c].receipt THEN "result" ELSE "reply"])
  BY <1>1, <1>2 DEF RowOK, Call, Status, Terminal
<1>. QED
  BY <1>3, <1>4

LEMMA RowAccepted ==
  ASSUME NEW c \in Calls, NEW a \in Auths \cup {NoAuth}, NEW r \in Accepted(c, a)
  PROVE  RowOK(c, r) /\ r.status # "none" /\ ~r.cancel /\ r.answer # "result"
<1>1. CASE c \in Syncs
  <2>1. c \notin Asyncs /\ c \notin Waits
    BY <1>1, CallsAssumption
  <2>2. r = Refused \/ r = [NewCall EXCEPT !.status = "queued"]
    BY <1>1, <2>1 DEF Accepted
  <2>3. CASE r = Refused
    BY <2>3 DEF RowOK, Refused, NewCall, Call, Status, Terminal, Decision
  <2>4. CASE r = [NewCall EXCEPT !.status = "queued"]
    BY <1>1, <2>1, <2>4 DEF RowOK, NewCall, Call, Status, Terminal, Decision
  <2>. QED
    BY <2>2, <2>3, <2>4
<1>2. CASE c \in Asyncs
  <2>1. c \notin Syncs /\ c \notin Waits
    BY <1>2, CallsAssumption
  <2>2. \/ r = Refused
        \/ \E b \in Auths \cup {NoAuth} :
             r = [NewCall EXCEPT !.receipt = TRUE, !.status = "queued", !.auth = b]
        \/ r = [NewCall EXCEPT !.receipt = TRUE, !.status = "pending"]
    BY <1>2, <2>1 DEF Accepted, NewCall
  <2>3. CASE r = Refused
    BY <2>3 DEF RowOK, Refused, NewCall, Call, Status, Terminal, Decision
  <2>4. ASSUME NEW b \in Auths \cup {NoAuth},
               r = [NewCall EXCEPT !.receipt = TRUE, !.status = "queued", !.auth = b]
        PROVE  RowOK(c, r) /\ r.status # "none" /\ ~r.cancel /\ r.answer # "result"
    BY <1>2, <2>1, <2>4 DEF RowOK, NewCall, Call, Status, Terminal, Decision
  <2>5. CASE r = [NewCall EXCEPT !.receipt = TRUE, !.status = "pending"]
    BY <1>2, <2>1, <2>5 DEF RowOK, NewCall, Call, Status, Terminal, Decision
  <2>. QED
    BY <2>2, <2>3, <2>4, <2>5
<1>3. CASE c \in Waits
  <2>1. c \notin Syncs /\ c \notin Asyncs
    BY <1>3, CallsAssumption
  <2>2. r \in {Refused, Duplicate,
               [NewCall EXCEPT !.receipt = TRUE, !.status = "running", !.started = TRUE]}
    BY <1>3, <2>1 DEF Accepted, NewCall
  <2>. QED
    BY <1>3, <2>1, <2>2
    DEF RowOK, Refused, Duplicate, NewCall, Call, Status, Terminal, Decision
<1>. QED
  BY <1>1, <1>2, <1>3 DEF Calls

LEMMA RowUpdate ==
  ASSUME Rows, NEW c \in Calls, NEW r, RowOK(c, r), call' = [call EXCEPT ![c] = r]
  PROVE  Rows'
  BY DEF Rows, RowOK

LEMMA RowsSame == ASSUME Rows, UNCHANGED call PROVE Rows'
  BY DEF Rows
-----------------------------------------------------------------------------
(* Types                                                                   *)

LEMMA LocalsAtRest ==
  /\ NoLoop \in LoopLocals /\ NoLoop.pc = "idle"
  /\ NoWork \in WorkerLocals /\ NoWork.pc = "idle"
  /\ NoCancel \in CancelLocals /\ NoCancel.pc = "idle"
  /\ NoRevoke \in RevokeLocals /\ NoRevoke.pc = "idle" /\ NoRevoke.list = {}
<1>1. <<>> \in Seq(Calls)
  OBVIOUS
<1>. QED
  BY <1>1 DEF NoLoop, LoopLocals, NoWork, WorkerLocals, NoCancel, CancelLocals,
              NoRevoke, RevokeLocals, Outcome

(* What is pushed leaves the channel within its capacity.                  *)
LEMMA PushType ==
  ASSUME TypeOK, Busy, NEW S \in SUBSET Asyncs, IsFiniteSet(S), Push(S)
  PROVE  work' \in SUBSET Asyncs /\ Cardinality(work') <= Cap /\ IsFiniteSet(work')
<1>1. PICK T \in SUBSET S : work' = work \cup T /\ Cardinality(work') <= Cap
  BY DEF Push
<1>2. IsFiniteSet(T)
  BY FS_Subset
<1>3. IsFiniteSet(work \cup T)
  BY <1>2, FS_Union DEF Busy
<1>. QED
  BY <1>1, <1>3 DEF TypeOK

(* The elements of a sequence that satisfy a condition are finitely many.  *)
LEMMA TurnFinite ==
  ASSUME NEW n \in Nat, NEW s, DOMAIN s = 1..n,
         NEW S \in SUBSET {s[i] : i \in DOMAIN s}
  PROVE  IsFiniteSet(S)
<1>1. IsFiniteSet(1..n)
  BY FS_Interval
<1>. DEFINE T == {s[i] : i \in 1..n}
            g == [i \in 1..n |-> s[i]]
<1>2. g \in Surjection(1..n, T)
  BY DEF Surjection
<1>3. IsFiniteSet(T)
  BY <1>1, <1>2, FS_Surjection
<1>. QED
  BY <1>3, FS_Subset

LEMMA TailType ==
  ASSUME NEW s \in Seq(Calls), Len(s) > 1
  PROVE  Tail(s) \in Seq(Calls) /\ Tail(s) # <<>>
  BY SMTT(30)

(* The loop goes on with a call to deal with, or not at all.               *)
LEMMA AfterType ==
  ASSUME NEW l \in LoopLocals, l.todo # <<>>
  PROVE  /\ After(l) \in LoopLocals
         /\ After(l).pc \in {"look", "idle"}
         /\ After(l).pc = "look" => After(l).todo # <<>>
<1>1. CASE Len(l.todo) > 1
  <2>1. l.todo \in Seq(Calls)
    BY DEF LoopLocals
  <2>2. Tail(l.todo) \in Seq(Calls) /\ Tail(l.todo) # <<>>
    BY <1>1, <2>1, TailType
  <2>. QED
    BY <1>1, <2>2 DEF After, LoopLocals
<1>2. CASE ~(Len(l.todo) > 1)
  BY <1>2, LocalsAtRest DEF After
<1>. QED
  BY <1>1, <1>2

LEMMA CurType ==
  ASSUME TypeOK, Busy, loop.pc \notin {"idle", "commit"}
  PROVE  Cur \in Calls
<1>1. loop.todo \in Seq(Calls) /\ loop.todo # <<>>
  BY DEF TypeOK, LoopLocals, Busy
<1>. QED
  BY <1>1 DEF Cur

LEMMA TypeInit == Init => TInv
<1> SUFFICES ASSUME Init PROVE TInv
  OBVIOUS
<1>1. Rows
  BY RowNew DEF Init, Rows, RowOK
<1>2. IsFiniteSet({}) /\ Cardinality({}) = 0
  BY FS_EmptySet
<1>3. Busy
  BY <1>2, LocalsAtRest DEF Init, Busy, Aimed
<1>4. TypeOK
  <2>1. Cardinality(work) <= Cap
    BY <1>2, CallsAssumption DEF Init
  <2>. QED
    BY <1>1, <2>1, LocalsAtRest, CallsAssumption DEF Init, TypeOK, Rows
<1>. QED
  BY <1>1, <1>3, <1>4 DEF TInv

(* A step that only moves the loop on.                                     *)
LEMMA LoopMoves ==
  ASSUME TInv, loop' \in LoopLocals, loop'.pc \notin {"idle", "commit"} => loop'.todo # <<>>,
         UNCHANGED <<auths, mode, work, worker, cancel, revoke, cancels>>,
         Rows', writes' \in [Calls -> Nat], faults' \in 0..MaxFaults
  PROVE  TInv'
<1>1. TypeOK'
  BY DEF TInv, TypeOK, Rows
<1>2. Busy'
  BY DEF TInv, Busy
<1>. QED
  BY <1>1, <1>2 DEF TInv

LEMMA FaultType ==
  ASSUME TypeOK, NEW kind, Fault(kind)
  PROVE  faults' \in 0..MaxFaults
  BY CallsAssumption DEF TypeOK, Fault

LEMMA WritesType ==
  ASSUME TypeOK, NEW c \in Calls, NEW out, TookEffect(c, out)
  PROVE  writes' \in [Calls -> Nat]
  BY DEF TypeOK, TookEffect

LEMMA CommitType == TInv /\ Commit => TInv'
<1> SUFFICES ASSUME TInv, Commit PROVE TInv'
  OBVIOUS
<1>. USE DEF TInv
<1>1. PICK s \in Orders :
        LET new == {s[i] : i \in DOMAIN s}
        IN \E f \in [new -> UNION {Accepted(c, loop.auth) : c \in new}] :
             /\ \A c \in new : f[c] \in Accepted(c, loop.auth)
             /\ call' = [c \in Calls |-> IF c \in new THEN f[c] ELSE call[c]]
             /\ loop' = [loop EXCEPT !.pc = "look", !.turn = s, !.todo = s,
                                     !.open = {c \in new : f[c].status = "queued"}]
             /\ Push({c \in new \cap Asyncs : f[c].status = "queued"})
  BY DEF Commit
<1>. DEFINE new == {s[i] : i \in DOMAIN s}
<1>2. PICK f \in [new -> UNION {Accepted(c, loop.auth) : c \in new}] :
             /\ \A c \in new : f[c] \in Accepted(c, loop.auth)
             /\ call' = [c \in Calls |-> IF c \in new THEN f[c] ELSE call[c]]
             /\ loop' = [loop EXCEPT !.pc = "look", !.turn = s, !.todo = s,
                                     !.open = {c \in new : f[c].status = "queued"}]
             /\ Push({c \in new \cap Asyncs : f[c].status = "queued"})
  BY <1>1
<1>3. PICK n \in 1..MaxTurn : s \in [1..n -> Calls \ Committed]
  BY DEF Orders
<1>4. n \in Nat /\ n > 0
  BY <1>3, CallsAssumption
<1>5. new \subseteq Calls
  BY <1>3
<1>6. s \in Seq(Calls) /\ s # <<>>
  <2>1. s \in [1..n -> Calls]
    BY <1>3
  <2>2. s \in Seq(Calls) /\ Len(s) = n
    BY <1>4, <2>1
  <2>. QED
    BY <1>4, <2>2
<1>7. loop.auth \in Auths \cup {NoAuth}
  BY DEF TypeOK, LoopLocals
<1>8. Rows'
  <2>1. \A c \in new : RowOK(c, f[c])
    BY <1>2, <1>5, <1>7, RowAccepted
  <2>2. \A c \in Calls : RowOK(c, call'[c])
    BY <1>2, <2>1 DEF Rows
  <2>. QED
    BY <1>2, <2>2 DEF Rows, RowOK
<1>9. loop' \in LoopLocals /\ loop'.todo # <<>>
  BY <1>2, <1>5, <1>6 DEF TypeOK, LoopLocals
<1>10. work' \in SUBSET Asyncs /\ Cardinality(work') <= Cap /\ IsFiniteSet(work')
  <2>1. IsFiniteSet({c \in new \cap Asyncs : f[c].status = "queued"})
    BY <1>3, <1>4, TurnFinite
  <2>. QED
    BY <1>2, <2>1, PushType
<1>11. UNCHANGED <<auths, writes, mode, worker, cancel, revoke, cancels, faults>>
  BY DEF Commit
<1>. QED
  <2>1. TypeOK'
    BY <1>8, <1>9, <1>10, <1>11 DEF TypeOK, Rows
  <2>2. Busy'
    BY <1>9, <1>10, <1>11 DEF Busy
  <2>. QED
    BY <1>8, <2>1, <2>2

LEMMA LoopType ==
  ASSUME TInv,
         \/ Evaluate \/ NoTurn \/ Look \/ CloseOne \/ CloseFails \/ CloseDone \/ Invoke
         \/ Execute \/ ExecuteCancelDone \/ Finish \/ FinishFails \/ Panic
  PROVE  TInv'
<1>. USE DEF TInv
<1>1. CASE Evaluate
  <2>1. loop' \in LoopLocals /\ loop'.pc = "commit"
    <3>1. PICK a \in Auths \cup {NoAuth} : loop' = [NoLoop EXCEPT !.pc = "commit", !.auth = a]
      BY <1>1 DEF Evaluate, Active
    <3>. QED
      BY <3>1, LocalsAtRest DEF LoopLocals
  <2>. QED
    BY <1>1, <2>1, LoopMoves, RowsSame DEF Evaluate, TypeOK
<1>2. CASE NoTurn
  BY <1>2, LoopMoves, RowsSame, LocalsAtRest DEF NoTurn, TypeOK
<1>3. CASE Look
  <2>0. loop \in LoopLocals
    BY DEF TypeOK
  <2>1. ClosedOnStop \subseteq Calls /\ ClosedOnInput \subseteq Calls
    BY <2>0 DEF LoopLocals, ClosedOnStop, ClosedOnInput
  <2>2. loop' \in LoopLocals /\ loop'.todo = loop.todo
    <3>1. CASE loop' = [loop EXCEPT !.pc = "stopping", !.close = ClosedOnStop]
      BY <2>0, <2>1, <3>1 DEF LoopLocals
    <3>2. CASE loop' = [loop EXCEPT !.pc = "closing", !.seen = TRUE, !.close = ClosedOnInput]
      BY <2>0, <2>1, <3>2 DEF LoopLocals
    <3>3. CASE loop' = [loop EXCEPT !.pc = "invoke"]
      BY <2>0, <3>3 DEF LoopLocals
    <3>. QED
      BY <1>3, <3>1, <3>2, <3>3 DEF Look
  <2>. QED
    BY <1>3, <2>2, LoopMoves, RowsSame DEF Look, TypeOK, Busy
<1>4. CASE CloseOne
  <2>1. PICK c \in NextClosed :
          /\ call' = [call EXCEPT ![c] = NotExecuted(c)]
          /\ loop' = [loop EXCEPT !.close = @ \ {c},
                                  !.open = IF call[c].status = "queued" THEN @ \ {c} ELSE @]
    BY <1>4 DEF CloseOne
  <2>2. c \in Calls
    BY DEF NextClosed, TypeOK, LoopLocals
  <2>3. Rows'
    BY <2>1, <2>2, RowNotExecuted, RowUpdate
  <2>4. loop' \in LoopLocals /\ loop'.todo = loop.todo
    <3>1. loop \in LoopLocals
      BY DEF TypeOK
    <3>2. PICK open \in SUBSET Calls, close \in SUBSET Calls :
            loop' = [loop EXCEPT !.close = close, !.open = open]
      <4>1. /\ loop.open \in SUBSET Calls /\ loop.open \ {c} \in SUBSET Calls
            /\ loop.close \ {c} \in SUBSET Calls
        BY <3>1 DEF LoopLocals
      <4>. QED
        BY <2>1, <4>1
    <3>. QED
      BY <3>1, <3>2 DEF LoopLocals
  <2>. QED
    BY <1>4, <2>3, <2>4, LoopMoves DEF CloseOne, TypeOK, Busy
<1>5. CASE CloseFails
  <2>1. loop' \in LoopLocals /\ loop'.todo = loop.todo
    <3>1. loop \in LoopLocals
      BY DEF TypeOK
    <3>2. PICK close \in SUBSET Calls : loop' = [loop EXCEPT !.close = close]
      BY <1>5, <3>1 DEF CloseFails, LoopLocals
    <3>. QED
      BY <3>1, <3>2 DEF LoopLocals
  <2>2. faults' \in 0..MaxFaults
    BY <1>5, FaultType DEF CloseFails
  <2>. QED
    BY <1>5, <2>1, <2>2, LoopMoves, RowsSame DEF CloseFails, TypeOK, Busy
<1>6. CASE CloseDone
  <2>1. /\ loop' \in LoopLocals
        /\ loop'.pc \notin {"idle", "commit"} => loop'.todo = loop.todo
    BY <1>6, LocalsAtRest DEF CloseDone, TypeOK, LoopLocals
  <2>. QED
    BY <1>6, <2>1, LoopMoves, RowsSame DEF CloseDone, TypeOK, Busy
<1>7. CASE Invoke
  <2>1. loop.todo # <<>> /\ Cur \in Calls /\ loop \in LoopLocals
    BY <1>7, CurType DEF Invoke, Busy, TypeOK
  <2>2. loop' \in LoopLocals /\ (loop'.pc \notin {"idle", "commit"} => loop'.todo # <<>>)
    <3>1. CASE loop' = After(loop)
      BY <2>1, <3>1, AfterType
    <3>2. CASE loop' = [loop EXCEPT !.pc = "execute", !.open = @ \ {Cur}]
      BY <2>1, <3>2 DEF LoopLocals
    <3>. QED
      BY <1>7, <3>1, <3>2 DEF Invoke
  <2>3. Rows'
    <3>1. CASE UNCHANGED call
      BY <3>1, RowsSame
    <3>2. CASE /\ Claimable(Cur)
               /\ call' = [call EXCEPT ![Cur].status = "running", ![Cur].started = TRUE]
      <4>1. call' = [call EXCEPT ![Cur] =
                       [call[Cur] EXCEPT !.status = "running", !.started = TRUE]]
        BY <2>1, <3>2 DEF TypeOK, Call
      <4>. QED
        BY <2>1, <3>2, <4>1, RowStarted, RowUpdate
    <3>. QED
      BY <1>7, <3>1, <3>2 DEF Invoke
  <2>4. work' \in SUBSET Asyncs /\ Cardinality(work') <= Cap /\ IsFiniteSet(work')
    <3>1. CASE UNCHANGED work
      BY <3>1 DEF TypeOK, Busy
    <3>2. CASE Cur \in Asyncs /\ Push({Cur})
      <4>1. IsFiniteSet({Cur})
        BY FS_Singleton
      <4>. QED
        BY <3>2, <4>1, PushType
    <3>. QED
      BY <1>7, <3>1, <3>2 DEF Invoke
  <2>5. UNCHANGED <<auths, writes, mode, worker, cancel, revoke, cancels, faults>>
    BY <1>7 DEF Invoke
  <2>6. TypeOK'
    BY <2>2, <2>3, <2>4, <2>5 DEF TypeOK, Rows
  <2>7. Busy'
    BY <2>2, <2>4, <2>5 DEF Busy
  <2>. QED
    BY <2>3, <2>6, <2>7
<1>8. CASE Execute
  <2>1. Cur \in Calls
    BY <1>8, CurType DEF Execute
  <2>2. PICK out \in Outcome :
          /\ loop' = [loop EXCEPT !.pc = "finish", !.out = out]
          /\ IF Cur \in Writes \ Cancels THEN TookEffect(Cur, out) ELSE UNCHANGED writes
    BY <1>8 DEF Execute
  <2>3. loop' \in LoopLocals /\ loop'.todo = loop.todo
    BY <2>2 DEF TypeOK, LoopLocals
  <2>4. writes' \in [Calls -> Nat]
    BY <2>1, <2>2, WritesType DEF TypeOK
  <2>. QED
    BY <1>8, <2>3, <2>4, LoopMoves, RowsSame DEF Execute, TypeOK, Busy
<1>9. CASE ExecuteCancelDone
  <2>1. loop' \in LoopLocals /\ loop'.todo = loop.todo
    BY <1>9 DEF ExecuteCancelDone, TypeOK, LoopLocals
  <2>. QED
    BY <1>9, <2>1, LoopMoves, RowsSame DEF ExecuteCancelDone, TypeOK, Busy
<1>10. CASE Finish
  <2>1. loop.todo # <<>> /\ Cur \in Calls /\ loop \in LoopLocals
    BY <1>10, CurType DEF Finish, Busy, TypeOK
  <2>2. loop' \in LoopLocals /\ (loop'.pc \notin {"idle", "commit"} => loop'.todo # <<>>)
    BY <1>10, <2>1, AfterType DEF Finish
  <2>3. loop.out \in Outcome
    BY <2>1 DEF LoopLocals
  <2>4. Rows'
    BY <1>10, <2>1, <2>3, RowFinalized, RowUpdate DEF Finish
  <2>. QED
    BY <1>10, <2>2, <2>4, LoopMoves DEF Finish, TypeOK
<1>11. CASE FinishFails
  <2>1. loop.todo # <<>> /\ loop \in LoopLocals
    BY <1>11 DEF FinishFails, Busy, TypeOK
  <2>2. loop' \in LoopLocals /\ (loop'.pc \notin {"idle", "commit"} => loop'.todo # <<>>)
    BY <1>11, <2>1, AfterType DEF FinishFails
  <2>3. faults' \in 0..MaxFaults
    BY <1>11, FaultType DEF FinishFails
  <2>. QED
    BY <1>11, <2>2, <2>3, LoopMoves, RowsSame DEF FinishFails, TypeOK
<1>12. CASE Panic
  <2>1. faults' \in 0..MaxFaults
    BY <1>12, FaultType DEF Panic
  <2>. QED
    BY <1>12, <2>1, LoopMoves, RowsSame, LocalsAtRest DEF Panic, TypeOK
<1>. QED
  BY <1>1, <1>2, <1>3, <1>4, <1>5, <1>6, <1>7, <1>8, <1>9, <1>10, <1>11, <1>12

LEMMA ExecuteCancelType == TInv /\ ExecuteCancel => TInv'
<1> SUFFICES ASSUME TInv, ExecuteCancel PROVE TInv'
  OBVIOUS
<1>. USE DEF TInv
<1>1. PICK c \in Committed :
        cancel' = [cancel EXCEPT ![Own] = IF Open(c) THEN Attempt(c, 1) ELSE NoCancel]
  BY DEF ExecuteCancel
<1>2. c \in Calls
  BY DEF Committed
<1>3. Open(c) => Attempt(c, 1) \in CancelLocals /\ Aimed(Attempt(c, 1))
  BY <1>2 DEF Open, Attempt, CancelLocals, Aimed
<1>4. /\ cancel' \in [Users \cup {Own} -> CancelLocals]
      /\ \A k \in DOMAIN cancel' : Aimed(cancel'[k])
  BY <1>1, <1>3, LocalsAtRest DEF TypeOK, Busy, Aimed
<1>5. loop' \in LoopLocals /\ loop'.todo = loop.todo /\ loop.pc = "execute"
  BY DEF ExecuteCancel, TypeOK, LoopLocals, Outcome
<1>6. UNCHANGED <<call, auths, writes, mode, work, worker, revoke, cancels, faults>>
  BY DEF ExecuteCancel
<1>7. TypeOK'
  BY <1>4, <1>5, <1>6 DEF TypeOK
<1>8. Busy'
  BY <1>4, <1>5, <1>6 DEF Busy
<1>. QED
  BY <1>6, <1>7, <1>8, RowsSame

(* A step that only moves a worker on.                                     *)
LEMMA WorkerMoves ==
  ASSUME TInv, worker' \in [Workers -> WorkerLocals],
         \A w \in Workers : worker'[w].pc # "idle" => worker'[w].c \in Asyncs,
         UNCHANGED <<auths, mode, work, loop, revoke, cancels>>,
         cancel' \in [Users \cup {Own} -> CancelLocals],
         \A k \in DOMAIN cancel' : Aimed(cancel'[k]),
         Rows', writes' \in [Calls -> Nat], faults' \in 0..MaxFaults
  PROVE  TInv'
<1>1. TypeOK'
  BY DEF TInv, TypeOK, Rows
<1>2. Busy'
  BY DEF TInv, Busy
<1>. QED
  BY <1>1, <1>2 DEF TInv

LEMMA WorkerSet ==
  ASSUME TInv, NEW w \in Workers, NEW r \in WorkerLocals,
         r.pc # "idle" => r.c \in Asyncs,
         worker' = [worker EXCEPT ![w] = r]
  PROVE  /\ worker' \in [Workers -> WorkerLocals]
         /\ \A v \in Workers : worker'[v].pc # "idle" => worker'[v].c \in Asyncs
  BY DEF TInv, TypeOK, Busy

LEMMA WorkerType ==
  ASSUME TInv, NEW w \in Workers, WorkerStep(w) \/ WorkerFinishFails(w)
  PROVE  TInv'
<1>. USE DEF TInv
<1>. DEFINE c == worker[w].c
<1>0. /\ worker[w] \in WorkerLocals
      /\ worker[w].pc # "idle" => c \in Asyncs /\ c \in Calls
  BY DEF TypeOK, Busy, Calls
<1>. USE LocalsAtRest
<1>1. CASE TakeWork(w)
  <2>1. PICK d \in work :
          /\ work' = work \ {d}
          /\ worker' = IF call[d].status = "queued"
                       THEN [worker EXCEPT ![w].pc = "claim", ![w].c = d, ![w].auth = call[d].auth]
                       ELSE worker
    BY <1>1 DEF TakeWork
  <2>2. d \in Asyncs /\ d \in Calls
    BY DEF TypeOK, Calls
  <2>3. call[d].auth \in Auths \cup {NoAuth}
    BY <2>2 DEF Rows, Call
  <2>4. /\ worker' \in [Workers -> WorkerLocals]
        /\ \A v \in Workers : worker'[v].pc # "idle" => worker'[v].c \in Asyncs
    <3>. DEFINE taken == [worker[w] EXCEPT !.pc = "claim", !.c = d, !.auth = call[d].auth]
    <3>1. taken \in WorkerLocals /\ taken.c \in Asyncs
      BY <1>0, <2>2, <2>3 DEF WorkerLocals
    <3>2. worker' = worker \/ worker' = [worker EXCEPT ![w] = taken]
      BY <2>1, <1>0 DEF TypeOK, WorkerLocals
    <3>. HIDE DEF taken
    <3>. QED
      BY <3>1, <3>2, WorkerSet DEF TypeOK, Busy
  <2>5. /\ IsFiniteSet(work')
        /\ Cardinality(work') <= Cap
    <3>1. IsFiniteSet(work) /\ Cardinality(work) \in Nat /\ Cap \in Nat
      BY FS_CardinalityType, CallsAssumption DEF Busy
    <3>2. IsFiniteSet(work') /\ Cardinality(work') = Cardinality(work) - 1
      BY <2>1, <3>1, FS_RemoveElement
    <3>. QED
      BY <3>1, <3>2 DEF TypeOK
  <2>6. UNCHANGED <<call, auths, writes, mode, loop, cancel, revoke, cancels, faults>>
    BY <1>1 DEF TakeWork
  <2>7. TypeOK'
    BY <2>1, <2>4, <2>5, <2>6 DEF TypeOK
  <2>8. Busy'
    BY <2>4, <2>5, <2>6 DEF Busy
  <2>. QED
    BY <2>6, <2>7, <2>8, RowsSame
<1>2. CASE Claim(w)
  <2>1. /\ worker' \in [Workers -> WorkerLocals]
        /\ \A v \in Workers : worker'[v].pc # "idle" => worker'[v].c \in Asyncs
    <3>. DEFINE to(pc) == [worker[w] EXCEPT !.pc = pc]
    <3>1. \/ worker' = [worker EXCEPT ![w] = NoWork]
          \/ \E pc \in {"revert", "register"} : worker' = [worker EXCEPT ![w] = to(pc)]
      BY <1>2, <1>0 DEF Claim, TypeOK, WorkerLocals
    <3>2. \A pc \in {"revert", "register"} : to(pc) \in WorkerLocals /\ to(pc).c \in Asyncs
      BY <1>2, <1>0 DEF Claim, WorkerLocals
    <3>. HIDE DEF to
    <3>. QED
      BY <3>1, <3>2, WorkerSet
  <2>2. Rows'
    <3>1. CASE UNCHANGED call
      BY <3>1, RowsSame
    <3>2. CASE Claimable(c) /\ call' = [call EXCEPT ![c].status = "running", ![c].started = TRUE]
      <4>1. c \in Calls
        BY <1>0, <1>2 DEF Claim
      <4>2. call' = [call EXCEPT ![c] = [call[c] EXCEPT !.status = "running", !.started = TRUE]]
        BY <4>1, <3>2 DEF TypeOK, Call
      <4>. QED
        BY <3>2, <4>1, <4>2, RowStarted, RowUpdate
    <3>. QED
      BY <1>2, <3>1, <3>2 DEF Claim
  <2>. QED
    BY <1>2, <2>1, <2>2, WorkerMoves DEF Claim, TypeOK, Busy
<1>3. CASE WorkerRevert(w)
  <2>1. c \in Asyncs /\ c \in Calls
    BY <1>0, <1>3 DEF WorkerRevert
  <2>2. Rows'
    BY <1>3, <2>1, RowReverted, RowUpdate DEF WorkerRevert
  <2>3. /\ worker' \in [Workers -> WorkerLocals]
        /\ \A v \in Workers : worker'[v].pc # "idle" => worker'[v].c \in Asyncs
    BY <1>3 DEF WorkerRevert, TypeOK, Busy
  <2>. QED
    BY <1>3, <2>2, <2>3, WorkerMoves DEF WorkerRevert, TypeOK, Busy
<1>4. CASE Register(w) \/ CheckCancel(w) \/ Recheck(w)
  <2>1. /\ worker' \in [Workers -> WorkerLocals]
        /\ \A v \in Workers : worker'[v].pc # "idle" => worker'[v].c \in Asyncs
    <3>1. c \in Asyncs
      BY <1>4, <1>0 DEF Register, CheckCancel, Recheck
    <3>. DEFINE to(pc) == [worker[w] EXCEPT !.pc = pc]
                ended(out) == [worker[w] EXCEPT !.pc = "finish", !.out = out]
                live == [worker[w] EXCEPT !.pc = "check", !.ctx = "live"]
    <3>2. /\ live \in WorkerLocals /\ live.c \in Asyncs
          /\ \A pc \in {"recheck", "write"} : to(pc) \in WorkerLocals /\ to(pc).c \in Asyncs
          /\ \A out \in {"cancelled", "recheck"} :
               ended(out) \in WorkerLocals /\ ended(out).c \in Asyncs
      BY <1>0, <3>1 DEF WorkerLocals
    <3>3. \/ worker' = [worker EXCEPT ![w] = live]
          \/ \E pc \in {"recheck", "write"} : worker' = [worker EXCEPT ![w] = to(pc)]
          \/ \E out \in {"cancelled", "recheck"} : worker' = [worker EXCEPT ![w] = ended(out)]
      <4>1. CASE Register(w)
        BY <4>1, <1>0 DEF Register, TypeOK, WorkerLocals
      <4>2. CASE CheckCancel(w)
        BY <4>2, <1>0 DEF CheckCancel, TypeOK, WorkerLocals
      <4>3. CASE Recheck(w)
        BY <4>3, <1>0 DEF Recheck, TypeOK, WorkerLocals
      <4>. QED
        BY <1>4, <4>1, <4>2, <4>3
    <3>. HIDE DEF live, to, ended
    <3>. QED
      BY <3>2, <3>3, WorkerSet
  <2>2. UNCHANGED <<call, auths, writes, mode, work, loop, cancel, revoke, cancels, faults>>
    BY <1>4 DEF Register, CheckCancel, Recheck
  <2>. QED
    BY <2>1, <2>2, WorkerMoves, RowsSame DEF TypeOK, Busy
<1>5. CASE Write(w)
  <2>1. PICK out \in Outcome :
          /\ worker' = [worker EXCEPT ![w].pc = "finish", ![w].out = out]
          /\ TookEffect(c, out)
    BY <1>5 DEF Write
  <2>2. c \in Calls
    BY <1>0, <1>5 DEF Write
  <2>3. /\ worker' \in [Workers -> WorkerLocals]
        /\ \A v \in Workers : worker'[v].pc # "idle" => worker'[v].c \in Asyncs
    <3>1. worker' = [worker EXCEPT ![w] = [worker[w] EXCEPT !.pc = "finish", !.out = out]]
      BY <2>1, <1>0 DEF TypeOK, WorkerLocals
    <3>2. /\ [worker[w] EXCEPT !.pc = "finish", !.out = out] \in WorkerLocals
          /\ [worker[w] EXCEPT !.pc = "finish", !.out = out].c \in Asyncs
      BY <1>0, <1>5 DEF Write, WorkerLocals
    <3>. QED
      BY <3>1, <3>2, WorkerSet
  <2>4. writes' \in [Calls -> Nat]
    BY <2>1, <2>2, WritesType
  <2>. QED
    BY <1>5, <2>3, <2>4, WorkerMoves, RowsSame DEF Write, TypeOK, Busy
<1>6. CASE WorkerFinish(w)
  <2>1. c \in Calls
    BY <1>0, <1>6 DEF WorkerFinish
  <2>2. Rows'
    BY <1>6, <1>0, <2>1, RowFinalized, RowUpdate DEF WorkerFinish, WorkerLocals
  <2>3. /\ worker' \in [Workers -> WorkerLocals]
        /\ \A v \in Workers : worker'[v].pc # "idle" => worker'[v].c \in Asyncs
    BY <1>6 DEF WorkerFinish, TypeOK, Busy
  <2>. QED
    BY <1>6, <2>2, <2>3, WorkerMoves DEF WorkerFinish, TypeOK, Busy
<1>7. CASE WorkerFinishFails(w)
  <2>1. faults' \in 0..MaxFaults
    BY <1>7, FaultType DEF WorkerFinishFails
  <2>2. /\ worker' \in [Workers -> WorkerLocals]
        /\ \A v \in Workers : worker'[v].pc # "idle" => worker'[v].c \in Asyncs
    BY <1>7 DEF WorkerFinishFails, TypeOK, Busy
  <2>. QED
    BY <1>7, <2>1, <2>2, WorkerMoves, RowsSame DEF WorkerFinishFails, TypeOK, Busy
<1>. QED
  BY <1>1, <1>2, <1>3, <1>4, <1>5, <1>6, <1>7 DEF WorkerStep

LEMMA CancelType ==
  ASSUME TInv, NEW k \in Users \cup {Own}, CancelStep(k)
  PROVE  TInv'
<1>. USE DEF TInv
<1>. DEFINE c == cancel[k].c
<1>0. cancel[k] \in CancelLocals /\ Aimed(cancel[k])
  BY DEF TypeOK, Busy
<1>1. ASSUME NEW r \in CancelLocals, Aimed(r),
             cancel' = [cancel EXCEPT ![k] = r]
      PROVE  /\ cancel' \in [Users \cup {Own} -> CancelLocals]
             /\ \A i \in DOMAIN cancel' : Aimed(cancel'[i])
  BY <1>1 DEF TypeOK, Busy
<1>2. CASE CancelTry(k)
  <2>1. c \in Calls
    BY <1>0, <1>2 DEF CancelTry, Aimed
  <2>2. /\ cancel' \in [Users \cup {Own} -> CancelLocals]
        /\ \A i \in DOMAIN cancel' : Aimed(cancel'[i])
    <3>. DEFINE to(pc) == [cancel[k] EXCEPT !.pc = pc]
    <3>1. \/ cancel' = [cancel EXCEPT ![k] = NoCancel]
          \/ \E pc \in {"reread", "signal"} : cancel' = [cancel EXCEPT ![k] = to(pc)]
      BY <1>2, <1>0 DEF CancelTry, TypeOK, CancelLocals
    <3>2. \A pc \in {"reread", "signal"} : to(pc) \in CancelLocals /\ Aimed(to(pc))
      BY <1>0, <1>2 DEF CancelLocals, Aimed, CancelTry
    <3>. HIDE DEF to
    <3>. QED
      BY <3>1, <3>2, <1>1, LocalsAtRest DEF Aimed
  <2>3. Rows'
    <3>1. CASE UNCHANGED call
      BY <3>1, RowsSame
    <3>2. CASE call' = [call EXCEPT ![c].cancel = TRUE]
      <4>1. call' = [call EXCEPT ![c] = [call[c] EXCEPT !.cancel = TRUE]]
        BY <2>1, <3>2 DEF TypeOK, Call
      <4>. QED
        BY <2>1, <4>1, RowMarked, RowUpdate
    <3>3. CASE /\ call' = [call EXCEPT ![c] = Ended(c, "cancelled")]
               /\ call[c].status = cancel[k].from
               /\ call[c].status # "running"
      <4>1. cancel[k].from # "none"
        BY <1>0, <1>2 DEF CancelTry, Aimed
      <4>2. Open(c)
        BY <1>0, <3>3, <4>1 DEF Open, CancelLocals
      <4>. QED
        BY <2>1, <3>3, <4>2, RowEnded, RowUpdate DEF Terminal
    <3>. QED
      BY <1>2, <3>1, <3>2, <3>3 DEF CancelTry
  <2>. QED
    BY <1>2, <2>2, <2>3, WorkerMoves DEF CancelTry, TypeOK, Busy
<1>3. CASE CancelSignal(k)
  <2>1. /\ worker' \in [Workers -> WorkerLocals]
        /\ \A v \in Workers : worker'[v].pc # "idle" => worker'[v].c \in Asyncs
    <3>1. \A v \in Workers :
            /\ worker'[v] \in WorkerLocals
            /\ worker'[v].pc = worker[v].pc /\ worker'[v].c = worker[v].c
      <4>1. ASSUME NEW v \in Workers
            PROVE  /\ worker'[v] \in WorkerLocals
                   /\ worker'[v].pc = worker[v].pc /\ worker'[v].c = worker[v].c
        <5>1. worker[v] \in WorkerLocals
          BY DEF TypeOK
        <5>2. worker'[v] = worker[v] \/ worker'[v] = [worker[v] EXCEPT !.ctx = "cancelled"]
          BY <1>3 DEF CancelSignal
        <5>. QED
          BY <5>1, <5>2 DEF WorkerLocals
      <4>. QED
        BY <4>1
    <3>2. DOMAIN worker' = Workers /\ worker' = [v \in Workers |-> worker'[v]]
      BY <1>3 DEF CancelSignal
    <3>. QED
      BY <3>1, <3>2 DEF Busy
  <2>2. /\ cancel' \in [Users \cup {Own} -> CancelLocals]
        /\ \A i \in DOMAIN cancel' : Aimed(cancel'[i])
    BY <1>3, <1>1, LocalsAtRest DEF CancelSignal, Aimed
  <2>. QED
    BY <1>3, <2>1, <2>2, WorkerMoves, RowsSame DEF CancelSignal, TypeOK
<1>4. CASE CancelReread(k)
  <2>1. c \in Calls
    BY <1>0, <1>4 DEF CancelReread, Aimed
  <2>2. Open(c) /\ cancel[k].left > 1 =>
          /\ Attempt(c, cancel[k].left - 1) \in CancelLocals
          /\ Aimed(Attempt(c, cancel[k].left - 1))
    BY <1>0, <2>1 DEF Attempt, Open, CancelLocals, Aimed
  <2>3. /\ cancel' \in [Users \cup {Own} -> CancelLocals]
        /\ \A i \in DOMAIN cancel' : Aimed(cancel'[i])
    BY <1>4, <1>1, <2>2, LocalsAtRest DEF CancelReread, Aimed
  <2>. QED
    BY <1>4, <2>3, WorkerMoves, RowsSame DEF CancelReread, TypeOK, Busy
<1>. QED
  BY <1>2, <1>3, <1>4 DEF CancelStep

(* A step of the user, of time or of the database only.                    *)
LEMMA OutsideMoves ==
  ASSUME TInv, Rows', UNCHANGED <<writes, loop, worker>>,
         auths' \in [Auths -> {"none", "active", "expired", "revoked"}],
         mode' \in {"up", "recovery"},
         work' \in SUBSET Asyncs, Cardinality(work') <= Cap, IsFiniteSet(work'),
         revoke' \in RevokeLocals, revoke'.list \subseteq Asyncs,
         revoke'.pc # "idle" => revoke'.a \in Auths,
         cancel' \in [Users \cup {Own} -> CancelLocals],
         \A k \in DOMAIN cancel' : Aimed(cancel'[k]),
         cancels' \in 0..MaxCancels, faults' \in 0..MaxFaults
  PROVE  TInv'
<1>1. TypeOK'
  BY DEF TInv, TypeOK, Rows
<1>2. Busy'
  BY DEF TInv, Busy
<1>. QED
  BY <1>1, <1>2 DEF TInv

LEMMA UserType == TInv /\ UserStep => TInv'
<1> SUFFICES ASSUME TInv, UserStep PROVE TInv'
  OBVIOUS
<1>. USE DEF TInv
<1>0. /\ IsFiniteSet(work) /\ work \in SUBSET Asyncs /\ Cardinality(work) <= Cap
      /\ revoke \in RevokeLocals /\ revoke.list \subseteq Asyncs
      /\ revoke.pc # "idle" => revoke.a \in Auths
      /\ cancel \in [Users \cup {Own} -> CancelLocals]
      /\ \A k \in DOMAIN cancel : Aimed(cancel[k])
  BY DEF TypeOK, Busy
<1>1. ASSUME NEW c \in Calls, Approve(c) PROVE TInv'
  <2>1. c \in Asyncs
    BY <1>1, RowDecided DEF Approve
  <2>2. Rows'
    BY <1>1, RowDecided, RowUpdate DEF Approve
  <2>3. work' \in SUBSET Asyncs /\ Cardinality(work') <= Cap /\ IsFiniteSet(work')
    <3>1. IsFiniteSet({c}) /\ {c} \in SUBSET Asyncs
      BY <2>1, FS_Singleton
    <3>. QED
      BY <1>1, <3>1, PushType DEF Approve
  <2>4. auths' \in [Auths -> {"none", "active", "expired", "revoked"}]
    BY <1>1 DEF Approve, Granted, TypeOK
  <2>. QED
    BY <1>0, <1>1, <2>2, <2>3, <2>4, OutsideMoves DEF Approve, TypeOK
<1>2. ASSUME NEW c \in Calls, Reject(c) PROVE TInv'
  <2>1. Rows'
    BY <1>2, RowDecided, RowUpdate DEF Reject
  <2>. QED
    BY <1>0, <1>2, <2>1, OutsideMoves DEF Reject, TypeOK
<1>3. ASSUME NEW c \in Calls, NEW u \in Users, Cancel(u, c) PROVE TInv'
  <2>1. Attempt(c, 3) \in CancelLocals /\ Aimed(Attempt(c, 3))
    BY <1>3 DEF Cancel, Open, Attempt, CancelLocals, Aimed
  <2>2. /\ cancel' \in [Users \cup {Own} -> CancelLocals]
        /\ \A k \in DOMAIN cancel' : Aimed(cancel'[k])
    BY <1>0, <1>3, <2>1 DEF Cancel
  <2>3. cancels' \in 0..MaxCancels
    BY <1>3, CallsAssumption DEF Cancel, TypeOK
  <2>. QED
    BY <1>0, <1>3, <2>2, <2>3, OutsideMoves, RowsSame DEF Cancel, TypeOK
<1>4. ASSUME NEW a \in Auths, Expire(a) PROVE TInv'
  <2>1. auths' \in [Auths -> {"none", "active", "expired", "revoked"}]
    BY <1>4 DEF Expire, TypeOK
  <2>2. faults' \in 0..MaxFaults
    BY <1>4, FaultType DEF Expire
  <2>. QED
    BY <1>0, <1>4, <2>1, <2>2, OutsideMoves, RowsSame DEF Expire, TypeOK
<1>5. ASSUME NEW a \in Auths, Revoke(a) PROVE TInv'
  <2>1. auths' \in [Auths -> {"none", "active", "expired", "revoked"}]
    BY <1>5 DEF Revoke, TypeOK
  <2>2. revoke' \in RevokeLocals /\ revoke'.list = {} /\ revoke'.a = a
    BY <1>5 DEF Revoke, RevokeLocals
  <2>. QED
    BY <1>0, <1>5, <2>1, <2>2, OutsideMoves, RowsSame DEF Revoke, TypeOK
<1>. QED
  BY <1>1, <1>2, <1>3, <1>4, <1>5 DEF UserStep

LEMMA RevokeType == TInv /\ RevokeStep => TInv'
<1> SUFFICES ASSUME TInv, RevokeStep PROVE TInv'
  OBVIOUS
<1>. USE DEF TInv
<1>0. /\ IsFiniteSet(work) /\ work \in SUBSET Asyncs /\ Cardinality(work) <= Cap
      /\ revoke \in RevokeLocals /\ revoke.list \subseteq Asyncs
      /\ revoke.pc # "idle" => revoke.a \in Auths
      /\ cancel \in [Users \cup {Own} -> CancelLocals]
      /\ \A k \in DOMAIN cancel : Aimed(cancel[k])
  BY DEF TypeOK, Busy
<1>1. CASE RevokeList
  <2>. DEFINE list == {c \in Calls : call[c].status = "queued" /\ call[c].auth = revoke.a}
  <2>1. revoke.a \in Auths /\ revoke.a # NoAuth
    BY <1>0, <1>1, CallsAssumption DEF RevokeList
  <2>2. list \subseteq Asyncs
    BY <2>1 DEF Rows, RowOK
  <2>3. revoke' = NoRevoke \/ revoke' = [revoke EXCEPT !.pc = "revert", !.list = list]
    BY <1>1 DEF RevokeList
  <2>. HIDE DEF list
  <2>4. list \subseteq Calls
    BY <2>2 DEF Calls
  <2>5. /\ revoke' \in RevokeLocals /\ revoke'.list \subseteq Asyncs
        /\ revoke'.pc # "idle" => revoke'.a \in Auths
    BY <1>0, <2>1, <2>2, <2>3, <2>4, LocalsAtRest DEF RevokeLocals
  <2>. QED
    BY <1>0, <1>1, <2>5, OutsideMoves, RowsSame DEF RevokeList, TypeOK
<1>2. ASSUME NEW c \in Calls, RevokeRevert(c) PROVE TInv'
  <2>1. c \in Asyncs
    BY <1>0, <1>2 DEF RevokeRevert
  <2>2. Rows'
    BY <1>2, <2>1, RowReverted, RowUpdate DEF RevokeRevert
  <2>3. revoke' = NoRevoke \/ revoke' = [revoke EXCEPT !.list = @ \ {c}]
    BY <1>2 DEF RevokeRevert
  <2>4. /\ revoke' \in RevokeLocals /\ revoke'.list \subseteq Asyncs
        /\ revoke'.pc # "idle" => revoke'.a \in Auths
    BY <1>0, <2>3, LocalsAtRest DEF RevokeLocals
  <2>. QED
    BY <1>0, <1>2, <2>2, <2>4, OutsideMoves DEF RevokeRevert, TypeOK
<1>. QED
  BY <1>1, <1>2 DEF RevokeStep

LEMMA RecoveryType == TInv /\ Recovery => TInv'
<1> SUFFICES ASSUME TInv, Recovery PROVE TInv'
  OBVIOUS
<1>. USE DEF TInv
<1>0. /\ UNCHANGED <<auths, writes, work, loop, worker, cancel, revoke, cancels, faults>>
      /\ mode' \in {"up", "recovery"}
  BY DEF Recovery, Recovered, RecoverRunning, RecoverQueued, TypeOK
<1>1. Rows'
  <2>1. CASE Recovered
    BY <2>1, RowsSame DEF Recovered
  <2>2. ASSUME NEW c \in Calls, RecoverRunning(c) PROVE Rows'
    BY <2>2, RowInterrupted, RowUpdate DEF RecoverRunning
  <2>3. ASSUME NEW c \in Calls, RecoverQueued(c) PROVE Rows'
    BY <2>3, RowNotExecuted, RowUpdate DEF RecoverQueued
  <2>. QED
    BY <2>1, <2>2, <2>3 DEF Recovery
<1>. QED
  BY <1>0, <1>1, OutsideMoves DEF TypeOK, Busy

LEMMA CrashType == TInv /\ Crash => TInv'
<1> SUFFICES ASSUME TInv, Crash PROVE TInv'
  OBVIOUS
<1>. USE DEF TInv
<1>1. faults' \in 0..MaxFaults
  BY FaultType DEF Crash
<1>2. IsFiniteSet({}) /\ Cardinality({}) = 0
  BY FS_EmptySet
<1>3. Rows'
  BY RowsSame DEF Crash
<1>4. Cardinality(work') <= Cap
  BY <1>2, CallsAssumption DEF Crash
<1>5. TypeOK'
  BY <1>1, <1>4, LocalsAtRest DEF Crash, TypeOK
<1>6. Busy'
  BY <1>2, LocalsAtRest DEF Crash, Busy, Aimed
<1>. QED
  BY <1>3, <1>5, <1>6

LEMMA ScanType ==
  ASSUME TInv, NEW c \in Calls, ScanQueued(c) \/ WaitEnds(c)
  PROVE  TInv'
<1>. USE DEF TInv
<1>1. CASE ScanQueued(c)
  <2>1. IsFiniteSet(work) /\ Cardinality(work) \in Nat /\ Cap \in Nat
    BY FS_CardinalityType, CallsAssumption DEF Busy
  <2>2. IsFiniteSet(work \cup {c}) /\ Cardinality(work \cup {c}) = Cardinality(work) + 1
    BY <1>1, <2>1, FS_AddElement DEF ScanQueued
  <2>3. IsFiniteSet(work') /\ Cardinality(work') <= Cap /\ work' \in SUBSET Asyncs
    BY <1>1, <2>1, <2>2 DEF ScanQueued, TypeOK
  <2>. QED
    BY <1>1, <2>3, OutsideMoves, RowsSame DEF ScanQueued, TypeOK, Busy
<1>2. CASE WaitEnds(c)
  <2>1. Rows'
    BY <1>2, RowFinalized, RowUpdate DEF WaitEnds
  <2>. QED
    BY <1>2, <2>1, OutsideMoves DEF WaitEnds, TypeOK, Busy
<1>. QED
  BY <1>1, <1>2

LEMMA TypeStep == TInv /\ [Next]_vars => TInv'
<1> SUFFICES ASSUME TInv, [Next]_vars PROVE TInv'
  OBVIOUS
<1>1. CASE Evaluate \/ LoopStep
  BY <1>1, CommitType, LoopType, ExecuteCancelType DEF LoopStep
<1>2. CASE BuildFails \/ UNCHANGED vars
  BY <1>2 DEF BuildFails, vars, TInv, TypeOK, Rows, Busy
<1>3. CASE \E w \in Workers : WorkerStep(w)
  BY <1>3, WorkerType
<1>4. CASE \E k \in Users \cup {Own} : CancelStep(k)
  BY <1>4, CancelType
<1>5. CASE \E c \in Calls : ScanQueued(c) \/ WaitEnds(c)
  BY <1>5, ScanType
<1>6. CASE UserStep \/ RevokeStep \/ Recovery
  BY <1>6, UserType, RevokeType, RecoveryType
<1>7. CASE FaultStep
  BY <1>7, LoopType, CrashType, WorkerType DEF FaultStep
<1>. QED
  BY <1>1, <1>2, <1>3, <1>4, <1>5, <1>6, <1>7 DEF Next

LEMMA TypeInvariant == Spec => []TInv
  BY TypeInit, TypeStep, PTL DEF Spec

(* TypeOK: rows, channel and locals keep their types, and the channel its  *)
(* bound, although three kinds of goroutines push to it.                   *)
THEOREM CallTypes == Spec => []TypeOK
<1>1. TInv => TypeOK
  BY DEF TInv
<1>. QED
  BY <1>1, TypeInvariant, PTL

(* OneReply: whatever decides, cancels, revokes, crashes or recovers, a    *)
(* call ends in the step that tells its end, and a tool block has exactly  *)
(* one protocol reply.  Rows alone is inductive, given who holds which call.*)
THEOREM RepliesOnce == Spec => []OneReply
<1>1. TInv => OneReply
  BY DEF TInv, Rows, RowOK, OneReply
<1>. QED
  BY <1>1, TypeInvariant, PTL
-----------------------------------------------------------------------------
(* Executions                                                              *)

Begun == {"register", "check", "recheck", "write", "finish"}

Unbegun == {"none", "pending", "queued"}

(* Whoever executes a call claimed it: it is running, nobody else has it,  *)
(* and before the write it has not been written.  Nothing executes during  *)
(* recovery.                                                               *)
Execution ==
  /\ mode = "recovery" => loop.pc = "idle" /\ \A w \in Workers : worker[w].pc = "idle"
  /\ \A w \in Workers : worker[w].pc \in Begun =>
       /\ call[worker[w].c].status = "running"
       /\ worker[w].pc # "finish" => writes[worker[w].c] = 0
       /\ \A v \in Workers \ {w} : worker[v].pc \in Begun => worker[v].c # worker[w].c
  /\ loop.pc = "execute" => call[Cur].status = "running" /\ writes[Cur] = 0
  /\ loop.pc \in {"execute", "cancelling", "finish"} => Cur \in Syncs
  /\ \A c \in Calls : call[c].status \in Unbegun => writes[c] = 0

LEMMA ExecutionInit == Init => Execution
  BY DEF Init, Execution, NoLoop, NoWork, NewCall, Begun

(* A worker goes on, or lets go of its call; it does not begin one.        *)
Follows(w) ==
  worker'[w].pc \in Begun =>
    /\ worker[w].pc \in Begun /\ worker'[w].c = worker[w].c
    /\ worker'[w].pc # "finish" => worker[w].pc # "finish"

(* The loop goes on, or lets go of its call; it does not begin one.        *)
LoopFollows ==
  /\ loop'.pc = "execute" => loop.pc = "execute" /\ Cur' = Cur
  /\ loop'.pc \in {"cancelling", "finish"} =>
       loop.pc \in {"execute", "cancelling", "finish"} /\ Cur' = Cur

(* A step that begins, writes and ends nothing that has begun.             *)
LEMMA QuietStep ==
  ASSUME Execution, UNCHANGED writes,
         \A c \in Calls : call[c].status = "running" => call'[c].status = "running",
         \A c \in Calls : call'[c].status \in Unbegun => call[c].status \in Unbegun,
         \A w \in Workers : worker[w].pc \in Begun => worker[w].c \in Calls,
         loop.pc = "execute" => Cur \in Calls,
         mode' = "recovery" => loop'.pc = "idle" /\ \A w \in Workers : worker'[w].pc = "idle",
         \A w \in Workers : Follows(w),
         LoopFollows
  PROVE  Execution'
  BY DEF Execution, Follows, LoopFollows

LEMMA Holders ==
  ASSUME TInv
  PROVE  /\ \A w \in Workers : worker[w].pc \in Begun =>
              /\ worker[w].c \in Calls /\ worker[w].c \in Asyncs
              /\ worker[w].c \notin Syncs /\ worker[w].c \notin Waits
         /\ loop.pc \notin {"idle", "commit"} => Cur \in Calls
<1>1. \A w \in Workers : worker[w].pc \in Begun => worker[w].c \in Asyncs
  BY DEF TInv, Busy, Begun
<1>2. \A c \in Asyncs : c \in Calls /\ c \notin Syncs /\ c \notin Waits
  BY CallsAssumption DEF Calls
<1>. QED
  BY <1>1, <1>2, CurType DEF TInv

(* A call nobody began ends, or is put back or decided.                    *)
LEMMA QuietUpdate ==
  ASSUME TInv, NEW c \in Calls, NEW r, call' = [call EXCEPT ![c] = r],
         call[c].status = "running" => r.status = "running",
         r.status \in Unbegun => call[c].status \in Unbegun
  PROVE  /\ \A d \in Calls : call[d].status = "running" => call'[d].status = "running"
         /\ \A d \in Calls : call'[d].status \in Unbegun => call[d].status \in Unbegun
  BY DEF TInv, Rows

LEMMA EndedStatus ==
  ASSUME TInv, NEW c \in Calls, NEW st \in Terminal
  PROVE  Ended(c, st).status = st
<1>1. call[c] \in Call
  BY DEF TInv, Rows
<1>. QED
  BY <1>1 DEF Ended, Answered, Call, Terminal

LEMMA NotExecutedStatus ==
  ASSUME TInv, NEW c \in Calls
  PROVE  NotExecuted(c).status =
           IF call[c].status = "queued" THEN "not_executed" ELSE call[c].status
  BY EndedStatus DEF NotExecuted, Terminal

LEMMA RevertedStatus ==
  ASSUME TInv, NEW c \in Calls
  PROVE  Reverted(c).status =
           IF call[c].status = "queued" THEN "pending" ELSE call[c].status
<1>1. call[c] \in Call
  BY DEF TInv, Rows
<1>. QED
  BY <1>1 DEF Reverted, Call

LEMMA FinalizedStatus ==
  ASSUME TInv, NEW c \in Calls, NEW out \in Outcome \cup {"cancelled", "recheck"}
  PROVE  /\ call[c].status # "running" => Finalized(c, out) = call[c]
         /\ call[c].status = "running" => Finalized(c, out).status \in Terminal
<1>1. call[c] \in Call
  BY DEF TInv, Rows
<1>2. CASE call[c].status = "running"
  <2>1. \A st \in Terminal : Ended(c, st).status = st
    BY EndedStatus
  <2>2. [Ended(c, "cancelled") EXCEPT !.effect = c \notin Waits /\ out # "recheck"].status
          = Ended(c, "cancelled").status
    BY <1>1 DEF Ended, Answered, Call
  <2>. QED
    BY <1>2, <2>1, <2>2 DEF Finalized, Outcome, Terminal
<1>3. CASE call[c].status # "running"
  BY <1>3 DEF Finalized
<1>. QED
  BY <1>2, <1>3

(* What has begun ends, whoever held it being through with it.             *)
LEMMA EndingStep ==
  ASSUME TInv, Execution, NEW c \in Calls,
         UNCHANGED <<mode, writes>>,
         \A d \in Calls \ {c} : call'[d] = call[d],
         call'[c].status \notin Unbegun,
         \A w \in Workers : worker[w].pc \in Begun /\ worker[w].c = c => worker'[w].pc \notin Begun,
         loop.pc = "execute" => Cur # c,
         mode = "recovery" => loop'.pc = "idle" /\ \A w \in Workers : worker'[w].pc = "idle",
         \A w \in Workers : Follows(w),
         LoopFollows
  PROVE  Execution'
  BY Holders DEF Execution, Follows, LoopFollows, Begun

(* The call is claimed from the status that none holds it in.              *)
LEMMA StartStatus ==
  ASSUME TInv, NEW c \in Calls, Claimable(c),
         call' = [call EXCEPT ![c].status = "running", ![c].started = TRUE]
  PROVE  /\ call'[c] = [call[c] EXCEPT !.status = "running", !.started = TRUE]
         /\ call'[c].status = "running" /\ call[c].status = "queued"
         /\ \A d \in Calls \ {c} : call'[d] = call[d]
         /\ call' \in [Calls -> Call]
<1>1. call \in [Calls -> Call] /\ call[c] \in Call
  BY DEF TInv, Rows
<1>. QED
  BY <1>1 DEF Claimable, Call, Status

LEMMA LoopExecution ==
  ASSUME TInv, Execution,
         \/ Evaluate \/ NoTurn \/ Look \/ CloseOne \/ CloseFails \/ CloseDone \/ Invoke
         \/ Execute \/ ExecuteCancel \/ ExecuteCancelDone \/ Finish \/ FinishFails \/ Panic
  PROVE  Execution'
<1>0. /\ UNCHANGED <<worker, mode>>
      /\ \A w \in Workers : Follows(w)
      /\ mode = "up"
  BY DEF Evaluate, NoTurn, Look, CloseOne, CloseFails, CloseDone, Invoke, Execute,
         ExecuteCancel, ExecuteCancelDone, Finish, FinishFails, Panic, Execution, Follows,
         TInv, TypeOK
<1>. USE Holders
<1>1. CASE Evaluate \/ NoTurn \/ Look \/ CloseFails \/ CloseDone \/ FinishFails \/ Panic
  <2>1. UNCHANGED <<call, writes>>
    BY <1>1 DEF Evaluate, NoTurn, Look, CloseFails, CloseDone, FinishFails, Panic
  <2>2. loop'.pc \notin {"execute", "cancelling", "finish"}
    <3>1. loop \in LoopLocals /\ (loop.pc = "finish" => loop.todo # <<>>)
      BY DEF TInv, TypeOK, Busy
    <3>2. CASE FinishFails
      BY <3>1, <3>2, AfterType DEF FinishFails
    <3>3. CASE Look
      BY <3>1, <3>3 DEF Look, LoopLocals
    <3>4. CASE CloseFails
      <4>1. PICK c : loop' = [loop EXCEPT !.close = @ \ {c}]
        BY <3>4 DEF CloseFails
      <4>2. loop'.pc = loop.pc
        BY <3>1, <4>1 DEF LoopLocals
      <4>. QED
        BY <3>4, <4>2 DEF CloseFails
    <3>5. CASE CloseDone
      BY <3>1, <3>5, LocalsAtRest DEF CloseDone, LoopLocals
    <3>6. CASE Evaluate
      BY <3>6 DEF Evaluate, NoLoop
    <3>7. CASE NoTurn \/ Panic
      BY <3>7, LocalsAtRest DEF NoTurn, Panic
    <3>. QED
      BY <1>1, <3>2, <3>3, <3>4, <3>5, <3>6, <3>7
  <2>. QED
    BY <1>0, <2>1, <2>2, QuietStep DEF LoopFollows
<1>2. CASE CloseOne
  <2>1. PICK c \in NextClosed :
          /\ call' = [call EXCEPT ![c] = NotExecuted(c)]
          /\ loop' = [loop EXCEPT !.close = @ \ {c},
                                  !.open = IF call[c].status = "queued" THEN @ \ {c} ELSE @]
    BY <1>2 DEF CloseOne
  <2>2. c \in Calls
    BY DEF NextClosed, TInv, TypeOK, LoopLocals
  <2>3. loop'.pc \in {"closing", "stopping"}
    BY <1>2, <2>1 DEF CloseOne, TInv, TypeOK, LoopLocals
  <2>4. /\ \A d \in Calls : call[d].status = "running" => call'[d].status = "running"
        /\ \A d \in Calls : call'[d].status \in Unbegun => call[d].status \in Unbegun
    BY <2>1, <2>2, NotExecutedStatus, QuietUpdate DEF Unbegun
  <2>. QED
    BY <1>0, <1>2, <2>3, <2>4, QuietStep DEF CloseOne, LoopFollows
<1>3. CASE Invoke
  <2>1. loop \in LoopLocals /\ loop.todo # <<>> /\ Cur \in Calls
    BY <1>3 DEF Invoke, TInv, TypeOK, Busy
  <2>2. CASE loop' = After(loop) /\ UNCHANGED call
    <3>1. loop'.pc \in {"look", "idle"}
      BY <2>1, <2>2, AfterType
    <3>. QED
      BY <1>0, <1>3, <2>2, <3>1, QuietStep DEF Invoke, LoopFollows
  <2>3. CASE /\ Cur \notin Asyncs /\ Claimable(Cur)
             /\ call' = [call EXCEPT ![Cur].status = "running", ![Cur].started = TRUE]
             /\ loop' = [loop EXCEPT !.pc = "execute", !.open = @ \ {Cur}]
    <3>1. Cur \in Syncs
      <4>1. Cur \notin Waits
        BY <2>1, <2>3 DEF TInv, Rows, RowOK, Claimable
      <4>. QED
        BY <2>1, <2>3, <4>1 DEF Calls
    <3>2. loop'.pc = "execute" /\ Cur' = Cur
      BY <2>1, <2>3 DEF LoopLocals, Cur
    <3>3. /\ call'[Cur].status = "running" /\ call[Cur].status = "queued"
          /\ \A d \in Calls \ {Cur} : call'[d] = call[d]
      BY <2>1, <2>3, StartStatus
    <3>4. writes[Cur] = 0 /\ UNCHANGED writes
      BY <1>3, <2>1, <3>3 DEF Execution, Unbegun, Invoke
    <3>5. \A w \in Workers : worker[w].pc \in Begun => worker[w].c \in Calls \ {Cur}
      BY <3>1
    <3>. QED
      BY <1>0, <3>1, <3>2, <3>3, <3>4, <3>5 DEF Execution, Unbegun
  <2>. QED
    BY <1>3, <2>2, <2>3 DEF Invoke
<1>4. CASE Execute
  <2>1. Cur \in Calls /\ Cur \in Syncs /\ call[Cur].status = "running" /\ UNCHANGED call
    BY <1>4 DEF Execute, Execution
  <2>2. loop'.pc = "finish" /\ Cur' = Cur
    BY <1>4 DEF Execute, TInv, TypeOK, LoopLocals, Cur
  <2>3. \A d \in Calls \ {Cur} : writes'[d] = writes[d]
    BY <1>4 DEF Execute, TookEffect, TInv, TypeOK
  <2>4. \A w \in Workers : worker[w].pc \in Begun => worker[w].c \in Calls \ {Cur}
    BY <2>1
  <2>. QED
    BY <1>0, <2>1, <2>2, <2>3, <2>4 DEF Execution, Unbegun
<1>5. CASE ExecuteCancel \/ ExecuteCancelDone
  <2>1. UNCHANGED <<call, writes>> /\ loop.pc \in {"execute", "cancelling"}
    BY <1>5 DEF ExecuteCancel, ExecuteCancelDone
  <2>2. loop'.pc \in {"cancelling", "finish"} /\ Cur' = Cur
    BY <1>5 DEF ExecuteCancel, ExecuteCancelDone, TInv, TypeOK, LoopLocals, Cur
  <2>. QED
    BY <1>0, <2>1, <2>2, QuietStep DEF LoopFollows
<1>6. CASE Finish
  <2>1. loop \in LoopLocals /\ loop.todo # <<>> /\ Cur \in Calls /\ Cur \in Syncs
    BY <1>6 DEF Finish, TInv, TypeOK, Busy, Execution
  <2>2. loop'.pc \in {"look", "idle"}
    BY <1>6, <2>1, AfterType DEF Finish
  <2>3. loop.out \in Outcome
    BY <2>1 DEF LoopLocals
  <2>4. call' = [call EXCEPT ![Cur] = Finalized(Cur, loop.out)] /\ UNCHANGED writes
    BY <1>6 DEF Finish
  <2>5. CASE call[Cur].status # "running"
    <3>1. Finalized(Cur, loop.out) = call[Cur]
      BY <2>1, <2>3, <2>5, FinalizedStatus
    <3>2. \A d \in Calls : call'[d] = call[d]
      BY <2>1, <2>4, <3>1 DEF TInv, Rows
    <3>. QED
      BY <1>0, <2>2, <2>4, <3>2, QuietStep DEF LoopFollows
  <2>6. CASE call[Cur].status = "running"
    <3>1. Finalized(Cur, loop.out).status \in Terminal
      BY <2>1, <2>3, <2>6, FinalizedStatus
    <3>2. call'[Cur].status \notin Unbegun /\ \A d \in Calls \ {Cur} : call'[d] = call[d]
      BY <2>1, <2>4, <3>1 DEF TInv, Rows, Terminal, Unbegun
    <3>3. \A w \in Workers : worker[w].pc \in Begun => worker[w].c # Cur
      BY <2>1
    <3>. QED
      BY <1>0, <1>6, <2>1, <2>2, <2>4, <3>2, <3>3, EndingStep DEF LoopFollows, Finish
  <2>. QED
    BY <2>5, <2>6
<1>. QED
  BY <1>1, <1>2, <1>3, <1>4, <1>5, <1>6

LEMMA CommitExecution == TInv /\ Execution /\ Commit => Execution'
<1> SUFFICES ASSUME TInv, Execution, Commit PROVE Execution'
  OBVIOUS
<1>1. \A c \in Calls : call[c].status = "running" => call'[c].status = "running"
  BY DEF Commit, Orders, Committed
<1>2. \A c \in Calls : call'[c].status \in Unbegun => call[c].status \in Unbegun
  BY DEF Commit, Orders, Committed, Unbegun
<1>3. loop'.pc = "look"
  BY DEF Commit, TInv, TypeOK, LoopLocals
<1>4. UNCHANGED <<writes, worker, mode>> /\ mode = "up"
  BY DEF Commit, Execution, TInv, TypeOK
<1>5. (\A w \in Workers : Follows(w)) /\ LoopFollows
  BY <1>3, <1>4 DEF Follows, LoopFollows
<1>. QED
  BY <1>1, <1>2, <1>4, <1>5, Holders, QuietStep DEF Begun

LEMMA WorkerExecution ==
  ASSUME TInv, Execution, NEW w \in Workers, WorkerStep(w) \/ WorkerFinishFails(w)
  PROVE  Execution'
<1>. DEFINE c == worker[w].c
<1>0. /\ UNCHANGED <<loop, mode>> /\ LoopFollows /\ mode = "up"
      /\ \A v \in Workers \ {w} : worker'[v] = worker[v] /\ Follows(v)
      /\ worker[w] \in WorkerLocals /\ worker \in [Workers -> WorkerLocals]
      /\ worker[w].pc # "idle" => c \in Asyncs /\ c \in Calls /\ c \notin Syncs
  <2>1. UNCHANGED <<loop, mode>> /\ mode = "up"
    BY DEF WorkerStep, TakeWork, Claim, WorkerRevert, Register, CheckCancel, Recheck, Write,
           WorkerFinish, WorkerFinishFails, Execution, TInv, TypeOK
  <2>2. \A v \in Workers \ {w} : worker'[v] = worker[v]
    BY DEF WorkerStep, TakeWork, Claim, WorkerRevert, Register, CheckCancel, Recheck, Write,
           WorkerFinish, WorkerFinishFails, TInv, TypeOK
  <2>3. LoopFollows
    BY <2>1 DEF LoopFollows, Cur
  <2>4. \A v \in Workers \ {w} : Follows(v)
    BY <2>2 DEF Follows
  <2>5. /\ worker[w] \in WorkerLocals /\ worker \in [Workers -> WorkerLocals]
        /\ worker[w].pc # "idle" => c \in Asyncs
    BY DEF TInv, TypeOK, Busy
  <2>6. c \in Asyncs => c \in Calls /\ c \notin Syncs
    BY CallsAssumption DEF Calls
  <2>. QED
    BY <2>1, <2>2, <2>3, <2>4, <2>5, <2>6
<1>. USE Holders
<1>1. CASE TakeWork(w)
  <2>1. worker'[w].pc \notin Begun
    BY <1>1, <1>0 DEF TakeWork, WorkerLocals, Begun
  <2>2. UNCHANGED <<call, writes>>
    BY <1>1 DEF TakeWork
  <2>3. \A v \in Workers : Follows(v)
    BY <1>0, <2>1 DEF Follows
  <2>. QED
    BY <1>0, <2>2, <2>3, QuietStep DEF Begun
<1>2. CASE Claim(w)
  <2>1. c \in Calls /\ c \in Asyncs /\ c \notin Syncs /\ UNCHANGED writes
    BY <1>0, <1>2 DEF Claim
  <2>2. CASE UNCHANGED call /\ worker'[w].pc \notin Begun
    <3>1. \A v \in Workers : Follows(v)
      BY <1>0, <2>2 DEF Follows
    <3>. QED
      BY <1>0, <2>1, <2>2, <3>1, QuietStep DEF Begun
  <2>3. CASE /\ Claimable(c)
             /\ call' = [call EXCEPT ![c].status = "running", ![c].started = TRUE]
             /\ worker' = [worker EXCEPT ![w].pc = "register"]
    <3>1. /\ call'[c].status = "running" /\ call[c].status = "queued"
          /\ \A d \in Calls \ {c} : call'[d] = call[d]
      BY <2>1, <2>3, StartStatus
    <3>2. worker'[w].pc = "register" /\ worker'[w].c = c
      BY <1>0, <2>3 DEF WorkerLocals
    <3>3. \A v \in Workers : worker[v].pc \in Begun => worker[v].c \in Calls \ {c}
      BY <3>1 DEF Execution
    <3>4. worker[w].pc \notin Begun
      BY <1>2 DEF Claim, Begun
    <3>5. writes[c] = 0
      BY <2>1, <3>1 DEF Execution, Unbegun
    <3>6. loop.pc = "execute" => Cur \in Calls \ {c}
      BY <2>1 DEF Execution
    <3>7. Cur' = Cur
      BY <1>0 DEF Cur
    <3>. QED
      BY <1>0, <2>1, <3>1, <3>2, <3>3, <3>4, <3>5, <3>6, <3>7 DEF Execution, Unbegun
  <2>. QED
    <3>1. CASE Dead(worker[w].auth)
      BY <1>0, <1>2, <2>2, <3>1 DEF Claim, WorkerLocals, Begun
    <3>2. CASE ~Dead(worker[w].auth) /\ Claimable(c)
      BY <1>2, <2>3, <3>2 DEF Claim
    <3>3. CASE ~Dead(worker[w].auth) /\ ~Claimable(c)
      <4>1. worker'[w].pc = "idle"
        BY <1>0, <1>2, <3>3, LocalsAtRest DEF Claim
      <4>. QED
        BY <1>2, <2>2, <3>3, <4>1 DEF Claim, Begun
    <3>. QED
      BY <3>1, <3>2, <3>3
<1>3. CASE WorkerRevert(w)
  <2>1. c \in Calls /\ UNCHANGED writes /\ call' = [call EXCEPT ![c] = Reverted(c)]
    BY <1>0, <1>3 DEF WorkerRevert
  <2>2. worker'[w].pc = "idle"
    BY <1>3, LocalsAtRest DEF WorkerRevert, TInv, TypeOK
  <2>3. \A v \in Workers : Follows(v)
    BY <1>0, <2>2 DEF Follows, Begun
  <2>4. /\ \A d \in Calls : call[d].status = "running" => call'[d].status = "running"
        /\ \A d \in Calls : call'[d].status \in Unbegun => call[d].status \in Unbegun
    BY <2>1, RevertedStatus, QuietUpdate DEF Unbegun
  <2>. QED
    BY <1>0, <2>1, <2>3, <2>4, QuietStep DEF Begun
<1>4. CASE Register(w) \/ CheckCancel(w) \/ Recheck(w)
  <2>1. UNCHANGED <<call, writes>>
    BY <1>4 DEF Register, CheckCancel, Recheck
  <2>2. Follows(w)
    <3>1. CASE Register(w)
      BY <3>1, <1>0 DEF Register, Follows, WorkerLocals, Begun
    <3>2. CASE CheckCancel(w)
      BY <3>2, <1>0 DEF CheckCancel, Follows, WorkerLocals, Begun
    <3>3. CASE Recheck(w)
      BY <3>3, <1>0 DEF Recheck, Follows, WorkerLocals, Begun
    <3>. QED
      BY <1>4, <3>1, <3>2, <3>3
  <2>. QED
    BY <1>0, <2>1, <2>2, QuietStep DEF Begun
<1>5. CASE Write(w)
  <2>1. c \in Calls /\ c \notin Syncs /\ UNCHANGED call /\ worker[w].pc = "write"
    BY <1>0, <1>5 DEF Write
  <2>2. worker'[w].pc = "finish" /\ worker'[w].c = c
    BY <1>0, <1>5 DEF Write, WorkerLocals
  <2>3. \A d \in Calls \ {c} : writes'[d] = writes[d]
    BY <1>5 DEF Write, TookEffect, TInv, TypeOK
  <2>4. /\ call[c].status = "running"
        /\ \A v \in Workers \ {w} : worker[v].pc \in Begun => worker[v].c \in Calls \ {c}
    BY <2>1 DEF Execution, Begun
  <2>5. loop.pc = "execute" => Cur \in Calls \ {c}
    BY <2>1 DEF Execution
  <2>6. Cur' = Cur
    BY <1>0 DEF Cur
  <2>. QED
    BY <1>0, <2>1, <2>2, <2>3, <2>4, <2>5, <2>6 DEF Execution, Unbegun, Begun
<1>6. CASE WorkerFinish(w)
  <2>1. c \in Calls /\ c \notin Syncs /\ worker[w].pc = "finish" /\ UNCHANGED writes
    BY <1>0, <1>6 DEF WorkerFinish
  <2>2. worker'[w].pc = "idle"
    BY <1>6, LocalsAtRest DEF WorkerFinish, TInv, TypeOK
  <2>3. Finalized(c, worker[w].out).status \in Terminal
    BY <1>0, <2>1, FinalizedStatus DEF Execution, Begun, WorkerLocals
  <2>4. call'[c].status \notin Unbegun /\ \A d \in Calls \ {c} : call'[d] = call[d]
    BY <1>6, <2>1, <2>3 DEF WorkerFinish, TInv, Rows, Terminal, Unbegun
  <2>5. \A v \in Workers : Follows(v)
    BY <1>0, <2>2 DEF Follows, Begun
  <2>6. \A v \in Workers : worker[v].pc \in Begun /\ worker[v].c = c => worker'[v].pc \notin Begun
    BY <2>1, <2>2 DEF Execution, Begun
  <2>7. loop.pc = "execute" => Cur # c
    BY <2>1 DEF Execution
  <2>. QED
    BY <1>0, <2>1, <2>4, <2>5, <2>6, <2>7, EndingStep
<1>7. CASE WorkerFinishFails(w)
  <2>1. worker'[w].pc = "idle" /\ UNCHANGED <<call, writes>>
    BY <1>7, LocalsAtRest DEF WorkerFinishFails, TInv, TypeOK
  <2>2. \A v \in Workers : Follows(v)
    BY <1>0, <2>1 DEF Follows, Begun
  <2>. QED
    BY <1>0, <2>1, <2>2, QuietStep DEF Begun
<1>. QED
  BY <1>1, <1>2, <1>3, <1>4, <1>5, <1>6, <1>7 DEF WorkerStep

LEMMA OutsideExecution ==
  ASSUME TInv, Execution,
         \/ \E k \in Users \cup {Own} : CancelStep(k)
         \/ \E c \in Calls : ScanQueued(c) \/ WaitEnds(c)
         \/ UserStep \/ RevokeStep \/ Recovery \/ Crash
  PROVE  Execution'
<1>. USE Holders
<1>0. ASSUME UNCHANGED <<loop, worker>>
      PROVE  LoopFollows /\ \A w \in Workers : Follows(w)
  BY <1>0 DEF LoopFollows, Follows, Cur
<1>1. ASSUME NEW k \in Users \cup {Own}, CancelTry(k) PROVE Execution'
  <2>. DEFINE c == cancel[k].c
  <2>1. c \in Calls
    BY <1>1 DEF CancelTry, TInv, Busy, Aimed, TypeOK
  <2>2. UNCHANGED <<writes, mode, loop, worker>>
    BY <1>1 DEF CancelTry
  <2>3. /\ \A d \in Calls : call[d].status = "running" => call'[d].status = "running"
        /\ \A d \in Calls : call'[d].status \in Unbegun => call[d].status \in Unbegun
    <3>1. CASE UNCHANGED call
      BY <3>1
    <3>2. CASE call' = [call EXCEPT ![c].cancel = TRUE]
      <4>1. \A d \in Calls : call'[d].status = call[d].status
        BY <2>1, <3>2 DEF TInv, Rows, Call
      <4>. QED
        BY <4>1
    <3>3. CASE call[c].status # "running" /\ call' = [call EXCEPT ![c] = Ended(c, "cancelled")]
      <4>1. Ended(c, "cancelled").status = "cancelled"
        BY <2>1, EndedStatus DEF Terminal
      <4>. QED
        BY <2>1, <3>3, <4>1, QuietUpdate DEF Unbegun
    <3>. QED
      BY <1>1, <3>1, <3>2, <3>3 DEF CancelTry
  <2>. QED
    BY <1>0, <2>2, <2>3, QuietStep DEF Execution, Begun
<1>2. ASSUME NEW k \in Users \cup {Own}, CancelSignal(k) PROVE Execution'
  <2>1. UNCHANGED <<call, writes, mode, loop>>
    BY <1>2 DEF CancelSignal
  <2>2. \A w \in Workers : worker'[w].pc = worker[w].pc /\ worker'[w].c = worker[w].c
    BY <1>2 DEF CancelSignal, TInv, TypeOK, WorkerLocals
  <2>3. LoopFollows /\ \A w \in Workers : Follows(w)
    BY <2>1, <2>2 DEF LoopFollows, Follows, Cur
  <2>. QED
    BY <2>1, <2>2, <2>3, QuietStep DEF Execution, Begun
<1>3. ASSUME NEW k \in Users \cup {Own}, CancelReread(k) PROVE Execution'
  <2>1. UNCHANGED <<call, writes, mode, loop, worker>>
    BY <1>3 DEF CancelReread
  <2>. QED
    BY <1>0, <2>1, QuietStep DEF Execution, Begun
<1>4. ASSUME NEW c \in Calls, ScanQueued(c) PROVE Execution'
  <2>1. UNCHANGED <<call, writes, mode, loop, worker>>
    BY <1>4 DEF ScanQueued
  <2>. QED
    BY <1>0, <2>1, QuietStep DEF Execution, Begun
<1>5. ASSUME NEW c \in Calls, WaitEnds(c) PROVE Execution'
  <2>1. UNCHANGED <<writes, mode, loop, worker>> /\ mode = "up" /\ c \in Waits /\ c \notin Syncs
    BY <1>5, CallsAssumption DEF WaitEnds
  <2>2. PICK out \in Outcome : call' = [call EXCEPT ![c] = Finalized(c, out)]
    BY <1>5 DEF WaitEnds
  <2>3. Finalized(c, out).status \in Terminal
    BY <1>5, FinalizedStatus DEF WaitEnds
  <2>4. call'[c].status \notin Unbegun /\ \A d \in Calls \ {c} : call'[d] = call[d]
    BY <2>2, <2>3 DEF TInv, Rows, Terminal, Unbegun
  <2>5. \A w \in Workers : worker[w].pc \in Begun /\ worker[w].c = c => worker'[w].pc \notin Begun
    BY <2>1
  <2>6. loop.pc = "execute" => Cur # c
    BY <2>1 DEF Execution
  <2>. QED
    BY <1>0, <2>1, <2>4, <2>5, <2>6, EndingStep
<1>6. CASE UserStep
  <2>1. UNCHANGED <<writes, mode, loop, worker>>
    BY <1>6 DEF UserStep, Approve, Reject, Cancel, Expire, Revoke
  <2>2. CASE UNCHANGED call
    BY <1>0, <2>1, <2>2, QuietStep DEF Execution, Begun
  <2>3. ASSUME NEW c \in Calls, NEW r, call[c].status = "pending",
               r.status \in {"queued", "rejected"}, call' = [call EXCEPT ![c] = r]
        PROVE  Execution'
    <3>1. /\ \A d \in Calls : call[d].status = "running" => call'[d].status = "running"
          /\ \A d \in Calls : call'[d].status \in Unbegun => call[d].status \in Unbegun
      BY <2>3, QuietUpdate DEF Unbegun
    <3>. QED
      BY <1>0, <2>1, <3>1, QuietStep DEF Execution, Begun
  <2>4. ASSUME NEW c \in Calls, Approve(c) PROVE Execution'
    <3>1. PICK r \in {[Decided(c, "approve") EXCEPT !.status = "queued"]} \cup
                     {[Decided(c, "always_allow") EXCEPT !.status = "queued", !.auth = a] :
                        a \in Auths} :
            call' = [call EXCEPT ![c] = r]
      BY <2>4 DEF Approve
    <3>2. r.status = "queued"
      <4>1. call[c] \in Call
        BY DEF TInv, Rows
      <4>. QED
        BY <4>1 DEF Decided, Call
    <3>. QED
      BY <2>3, <2>4, <3>1, <3>2 DEF Approve
  <2>5. ASSUME NEW c \in Calls, Reject(c) PROVE Execution'
    <3>. DEFINE r == Answered([Decided(c, "reject") EXCEPT !.status = "rejected"], "result")
    <3>1. r.status = "rejected"
      <4>1. call[c] \in Call
        BY DEF TInv, Rows
      <4>. QED
        BY <4>1 DEF Answered, Decided, Call
    <3>2. call' = [call EXCEPT ![c] = r] /\ call[c].status = "pending"
      BY <2>5 DEF Reject
    <3>. HIDE DEF r
    <3>. QED
      BY <2>3, <3>1, <3>2
  <2>. QED
    BY <1>6, <2>2, <2>4, <2>5 DEF UserStep, Cancel, Expire, Revoke
<1>7. CASE RevokeStep
  <2>1. UNCHANGED <<writes, mode, loop, worker>>
    BY <1>7 DEF RevokeStep, RevokeList, RevokeRevert
  <2>2. CASE RevokeList
    BY <1>0, <2>1, <2>2, QuietStep DEF RevokeList, Execution, Begun
  <2>3. ASSUME NEW c \in Calls, RevokeRevert(c) PROVE Execution'
    <3>1. /\ \A d \in Calls : call[d].status = "running" => call'[d].status = "running"
          /\ \A d \in Calls : call'[d].status \in Unbegun => call[d].status \in Unbegun
      BY <2>3, RevertedStatus, QuietUpdate DEF Unbegun, RevokeRevert
    <3>. QED
      BY <1>0, <2>1, <3>1, QuietStep DEF Execution, Begun
  <2>. QED
    BY <1>7, <2>2, <2>3 DEF RevokeStep
<1>8. CASE Recovery
  <2>1. /\ UNCHANGED <<writes, loop, worker>>
        /\ loop.pc = "idle" /\ \A w \in Workers : worker[w].pc = "idle"
    BY <1>8 DEF Recovery, Recovered, RecoverRunning, RecoverQueued, Execution
  <2>2. \A c \in Calls : call'[c].status \in Unbegun => call[c].status \in Unbegun
    <3>1. CASE Recovered
      BY <3>1 DEF Recovered
    <3>2. ASSUME NEW c \in Calls, RecoverRunning(c)
          PROVE  \A d \in Calls : call'[d].status \in Unbegun => call[d].status \in Unbegun
      <4>1. TInv'
        BY <1>8, RecoveryType
      <4>2. call' = [call EXCEPT ![c] = Interrupted(c)]
        BY <3>2 DEF RecoverRunning
      <4>3. Interrupted(c).status = "failed"
        <5>1. call[c] \in Call
          BY DEF TInv, Rows
        <5>. QED
          BY <5>1 DEF Interrupted, Answered, Call
      <4>. QED
        BY <4>2, <4>3 DEF TInv, Rows, Unbegun
    <3>3. ASSUME NEW c \in Calls, RecoverQueued(c)
          PROVE  \A d \in Calls : call'[d].status \in Unbegun => call[d].status \in Unbegun
      BY <3>3, NotExecutedStatus, QuietUpdate DEF RecoverQueued, Unbegun
    <3>. QED
      BY <1>8, <3>1, <3>2, <3>3 DEF Recovery
  <2>. QED
    BY <2>1, <2>2 DEF Execution, Begun
<1>9. CASE Crash
  <2>1. /\ UNCHANGED <<call, writes>> /\ loop'.pc = "idle"
        /\ \A w \in Workers : worker'[w].pc = "idle"
    BY <1>9, LocalsAtRest DEF Crash
  <2>. QED
    BY <2>1 DEF Execution, Begun
<1>. QED
  BY <1>1, <1>2, <1>3, <1>4, <1>5, <1>6, <1>7, <1>8, <1>9 DEF CancelStep

LEMMA ExecutionStep == TInv /\ Execution /\ [Next]_vars => Execution'
<1> SUFFICES ASSUME TInv, Execution, [Next]_vars PROVE Execution'
  OBVIOUS
<1>1. CASE BuildFails \/ UNCHANGED vars
  BY <1>1 DEF BuildFails, vars, Execution, Cur
<1>. QED
  BY <1>1, CommitExecution, LoopExecution, WorkerExecution, OutsideExecution
  DEF Next, LoopStep, FaultStep

LEMMA ExecutionInvariant == Spec => [](TInv /\ Execution)
<1>1. Init => TInv /\ Execution
  BY TypeInit, ExecutionInit
<1>2. TInv /\ Execution /\ [Next]_vars => (TInv /\ Execution)'
  BY TypeStep, ExecutionStep
<1>. QED
  BY <1>1, <1>2, PTL DEF Spec

-----------------------------------------------------------------------------
(* The contract                                                            *)

LEMMA PhaseCases ==
  ASSUME NEW c \in Calls
  PROVE  /\ call[c].status = "none" => PhaseOf(c) = "none"
         /\ call[c].status \in {"pending", "queued"} => PhaseOf(c) = "open"
         /\ call[c].status = "running" => PhaseOf(c) = "running"
         /\ call[c].status \in Terminal => PhaseOf(c) = "settled"
  BY DEF PhaseOf, Terminal

LEMMA PhaseStays ==
  ASSUME NEW c \in Calls, call'[c].status = call[c].status
  PROVE  PhaseOf(c)' = PhaseOf(c)
  BY DEF PhaseOf

LEMMA PhaseCasesNext ==
  ASSUME NEW c \in Calls
  PROVE  /\ call'[c].status = "none" => PhaseOf(c)' = "none"
         /\ call'[c].status \in {"pending", "queued"} => PhaseOf(c)' = "open"
         /\ call'[c].status = "running" => PhaseOf(c)' = "running"
         /\ call'[c].status \in Terminal => PhaseOf(c)' = "settled"
  BY DEF PhaseOf, Terminal

(* The contract's variables, as the ledger has them.                       *)
phases  == [c \in Calls |-> PhaseOf(c)]
answers == [c \in Calls |-> call[c].answer]

ContractStep == Contract!Next \/ UNCHANGED <<phases, answers, writes>>

(* A step the contract does not see.                                       *)
LEMMA StutterStep ==
  ASSUME UNCHANGED writes,
         \A c \in Calls : call'[c].answer = call[c].answer /\ PhaseOf(c)' = PhaseOf(c)
  PROVE  ContractStep
  BY DEF ContractStep, phases, answers

LEMMA RowPhaseStep ==
  ASSUME TInv, UNCHANGED writes, NEW c \in Calls, NEW r, call' = [call EXCEPT ![c] = r],
         r.answer = call[c].answer,
         \/ r.status = call[c].status
         \/ r.status \in {"pending", "queued"} /\ call[c].status \in {"pending", "queued"}
  PROVE  ContractStep
<1>1. call'[c] = r /\ \A d \in Calls \ {c} : call'[d] = call[d]
  BY DEF TInv, Rows
<1>2. \A d \in Calls \ {c} : PhaseOf(d)' = PhaseOf(d)
  BY <1>1, PhaseStays
<1>3. PhaseOf(c)' = PhaseOf(c)
  BY <1>1, PhaseStays, PhaseCases, PhaseCasesNext
<1>. QED
  BY <1>1, <1>2, <1>3, StutterStep

LEMMA StartStep ==
  ASSUME TInv, UNCHANGED writes, NEW c \in Calls, Claimable(c),
         call' = [call EXCEPT ![c].status = "running", ![c].started = TRUE]
  PROVE  ContractStep
<1>1. /\ call'[c].status = "running" /\ call[c].status = "queued"
      /\ call'[c].answer = call[c].answer
      /\ \A d \in Calls \ {c} : call'[d] = call[d]
  <2>1. call[c] \in Call
    BY DEF TInv, Rows
  <2>. QED
    BY <2>1, StartStatus DEF Call
<1>2. /\ PhaseOf(c) = "open" /\ PhaseOf(c)' = "running"
      /\ \A d \in Calls \ {c} : PhaseOf(d)' = PhaseOf(d)
  BY <1>1, PhaseCases, PhaseCasesNext, PhaseStays
<1>3. phases' = [phases EXCEPT ![c] = "running"] /\ phases[c] = "open"
  BY <1>2 DEF phases
<1>4. UNCHANGED <<answers, writes>>
  <2>1. \A d \in Calls : call'[d].answer = call[d].answer
    BY <1>1
  <2>. QED
    BY <2>1 DEF answers
<1>5. Contract!Start(c)
  BY <1>3, <1>4 DEF Contract!Start, phases, answers
<1>. QED
  BY <1>5 DEF ContractStep, Contract!Next

LEMMA WriteStep ==
  ASSUME TInv, UNCHANGED call, NEW c \in Calls, call[c].status = "running", writes[c] = 0,
         writes' = [writes EXCEPT ![c] = @ + 1]
  PROVE  ContractStep
<1>1. PhaseOf(c) = "running" /\ \A d \in Calls : PhaseOf(d)' = PhaseOf(d)
  BY PhaseCases, PhaseStays
<1>2. phases[c] = "running" /\ UNCHANGED <<phases, answers>>
  BY <1>1 DEF phases, answers
<1>3. writes' = [writes EXCEPT ![c] = 1]
  BY DEF TInv, TypeOK
<1>4. Contract!Write(c)
  BY <1>2, <1>3 DEF Contract!Write, phases, answers
<1>. QED
  BY <1>4 DEF ContractStep, Contract!Next

LEMMA SettleStep ==
  ASSUME TInv, TInv', UNCHANGED writes, NEW c \in Calls, Open(c),
         NEW r, call' = [call EXCEPT ![c] = r], r.status \in Terminal
  PROVE  ContractStep
<1>1. call'[c] = r /\ \A d \in Calls \ {c} : call'[d] = call[d]
  BY DEF TInv, Rows
<1>2. r.answer \in {"reply", "result"}
  BY <1>1 DEF TInv, Rows, RowOK, Call
<1>3. /\ PhaseOf(c) \in {"open", "running"} /\ PhaseOf(c)' = "settled"
      /\ \A d \in Calls \ {c} : PhaseOf(d)' = PhaseOf(d)
  BY <1>1, PhaseCases, PhaseCasesNext, PhaseStays DEF Open
<1>4. phases' = [phases EXCEPT ![c] = "settled"] /\ phases[c] \in {"open", "running"}
  BY <1>3 DEF phases
<1>5. answers' = [answers EXCEPT ![c] = r.answer]
  <2>1. call'[c].answer = r.answer /\ \A d \in Calls \ {c} : call'[d].answer = call[d].answer
    BY <1>1
  <2>. QED
    BY <2>1 DEF answers
<1>6. Contract!Settle(c)
  BY <1>2, <1>4, <1>5 DEF Contract!Settle, Contract!Told, phases, answers
<1>. QED
  BY <1>6 DEF ContractStep, Contract!Next

LEMMA FinalizeStep ==
  ASSUME TInv, TInv', UNCHANGED writes, NEW c \in Calls,
         NEW out \in Outcome \cup {"cancelled", "recheck"},
         call' = [call EXCEPT ![c] = Finalized(c, out)]
  PROVE  ContractStep
<1>1. CASE call[c].status = "running"
  BY <1>1, FinalizedStatus, SettleStep DEF Open
<1>2. CASE call[c].status # "running"
  BY <1>2, FinalizedStatus, RowPhaseStep
<1>. QED
  BY <1>1, <1>2

LEMMA NotExecutedStep ==
  ASSUME TInv, TInv', UNCHANGED writes, NEW c \in Calls,
         call' = [call EXCEPT ![c] = NotExecuted(c)]
  PROVE  ContractStep
<1>1. CASE call[c].status = "queued"
  BY <1>1, NotExecutedStatus, SettleStep DEF Open, Terminal
<1>2. CASE call[c].status # "queued"
  BY <1>2, RowPhaseStep DEF NotExecuted
<1>. QED
  BY <1>1, <1>2

LEMMA RevertStep ==
  ASSUME TInv, UNCHANGED writes, NEW c \in Calls,
         call' = [call EXCEPT ![c] = Reverted(c)]
  PROVE  ContractStep
<1>1. call[c] \in Call
  BY DEF TInv, Rows
<1>2. Reverted(c).answer = call[c].answer
  BY <1>1 DEF Reverted, Call
<1>. QED
  BY <1>2, RevertedStatus, RowPhaseStep

LEMMA SameStep == ASSUME UNCHANGED <<call, writes>> PROVE ContractStep
  BY PhaseStays, StutterStep

LEMMA EffectStep ==
  ASSUME TInv, UNCHANGED call, NEW c \in Calls, call[c].status = "running", writes[c] = 0,
         NEW out, TookEffect(c, out)
  PROVE  ContractStep
  BY WriteStep, SameStep DEF TookEffect

LEMMA CommitStep == TInv /\ TInv' /\ Commit => ContractStep
<1> SUFFICES ASSUME TInv, TInv', Commit PROVE ContractStep
  OBVIOUS
<1>1. PICK s \in Orders :
        LET new == {s[i] : i \in DOMAIN s}
        IN \E f \in [new -> UNION {Accepted(c, loop.auth) : c \in new}] :
             /\ \A c \in new : f[c] \in Accepted(c, loop.auth)
             /\ call' = [c \in Calls |-> IF c \in new THEN f[c] ELSE call[c]]
  BY DEF Commit
<1>. DEFINE new == {s[i] : i \in DOMAIN s}
            p   == [c \in new |-> PhaseOf(c)']
<1>2. PICK f \in [new -> UNION {Accepted(c, loop.auth) : c \in new}] :
             /\ \A c \in new : f[c] \in Accepted(c, loop.auth)
             /\ call' = [c \in Calls |-> IF c \in new THEN f[c] ELSE call[c]]
  BY <1>1
<1>3. new \subseteq Calls /\ \A c \in new : call[c].status = "none"
  BY DEF Orders, Committed
<1>. HIDE DEF new
<1>4. loop.auth \in Auths \cup {NoAuth}
  BY DEF TInv, TypeOK, LoopLocals
<1>5. \A c \in new :
        /\ call'[c].status # "none" /\ call'[c] \in Call
        /\ IF call'[c].status \in Terminal THEN call'[c].answer = "reply"
                                           ELSE call'[c].answer = "none"
  <2>1. \A c \in new : call'[c] = f[c]
    BY <1>2, <1>3
  <2>2. ASSUME NEW c \in new
        PROVE  /\ call'[c].status # "none" /\ call'[c] \in Call
               /\ IF call'[c].status \in Terminal THEN call'[c].answer = "reply"
                                                  ELSE call'[c].answer = "none"
    <3>1. c \in Calls /\ call'[c] \in Accepted(c, loop.auth)
      BY <1>2, <1>3, <2>1
    <3>2. RowOK(c, call'[c]) /\ call'[c].status # "none" /\ call'[c].answer # "result"
      BY <1>4, <3>1, RowAccepted
    <3>. QED
      BY <3>2 DEF RowOK, Call
  <2>. QED
    BY <2>2
<1>6. \A c \in Calls \ new : call'[c] = call[c]
  BY <1>2
<1>7. \A c \in Calls \ new : PhaseOf(c)' = PhaseOf(c)
  BY <1>6, PhaseStays
<1>8. \A c \in new : /\ PhaseOf(c) = "none"
                     /\ PhaseOf(c)' \in Contract!Phase \ {"none"}
                     /\ PhaseOf(c)' = "settled" <=> call'[c].status \in Terminal
  <2>1. ASSUME NEW c \in new
        PROVE  /\ PhaseOf(c) = "none"
               /\ PhaseOf(c)' \in Contract!Phase \ {"none"}
               /\ PhaseOf(c)' = "settled" <=> call'[c].status \in Terminal
    <3>1. c \in Calls /\ call[c].status = "none"
      BY <1>3
    <3>2. call'[c].status \in {"pending", "queued", "running"} \cup Terminal
      BY <1>5 DEF Call, Status
    <3>3. PhaseOf(c) = "none"
      BY <3>1, PhaseCases
    <3>4. CASE call'[c].status \in Terminal
      <4>1. PhaseOf(c)' = "settled"
        BY <3>1, <3>4, PhaseCasesNext
      <4>. QED
        BY <3>3, <3>4, <4>1 DEF Contract!Phase
    <3>5. CASE call'[c].status \in {"pending", "queued", "running"}
      <4>1. PhaseOf(c)' \in {"open", "running"}
        BY <3>1, <3>5, PhaseCasesNext
      <4>. QED
        BY <3>3, <3>5, <4>1 DEF Contract!Phase, Terminal
    <3>. QED
      BY <3>2, <3>4, <3>5
  <2>. QED
    BY <2>1
<1>9. p \in [new -> Contract!Phase \ {"none"}]
  BY <1>8
<1>10. \A c \in new : phases[c] = "none"
  BY <1>3, <1>8 DEF phases
<1>11. phases' = [c \in Calls |-> IF c \in new THEN p[c] ELSE phases[c]]
  BY <1>7 DEF phases
<1>12. answers' = [c \in Calls |-> IF c \in new /\ p[c] = "settled"
                                   THEN "reply" ELSE answers[c]]
  <2>1. \A c \in new : call[c].answer = "none"
    BY <1>3 DEF TInv, Rows, RowOK, Terminal
  <2>2. \A c \in Calls :
          call'[c].answer = IF c \in new /\ p[c] = "settled" THEN "reply" ELSE call[c].answer
    BY <1>5, <1>6, <1>8, <2>1
  <2>. QED
    BY <2>2 DEF answers
<1>13. UNCHANGED writes
  BY DEF Commit
<1>14. Contract!Accept(new)
  <2>. HIDE DEF p
  <2>. QED
    BY <1>9, <1>10, <1>11, <1>12, <1>13 DEF Contract!Accept, phases, answers
<1>. QED
  BY <1>3, <1>14 DEF ContractStep, Contract!Next

LEMMA UnseenStep ==
  ASSUME \/ Evaluate \/ NoTurn \/ Look \/ CloseFails \/ CloseDone \/ ExecuteCancel
         \/ ExecuteCancelDone \/ FinishFails \/ Panic \/ BuildFails \/ Crash
         \/ RevokeList \/ Recovered \/ UNCHANGED vars
         \/ \E w \in Workers : \/ TakeWork(w) \/ Register(w) \/ CheckCancel(w) \/ Recheck(w)
                               \/ WorkerFinishFails(w)
         \/ \E k \in Users \cup {Own} : CancelSignal(k) \/ CancelReread(k)
         \/ \E c \in Calls : ScanQueued(c) \/ \E u \in Users : Cancel(u, c)
         \/ \E a \in Auths : Expire(a) \/ Revoke(a)
  PROVE  ContractStep
<1>1. UNCHANGED <<call, writes>>
  BY DEF Evaluate, NoTurn, Look, CloseFails, CloseDone, ExecuteCancel, ExecuteCancelDone,
         FinishFails, Panic, BuildFails, Crash, RevokeList, Recovered, vars, TakeWork,
         Register, CheckCancel, Recheck, WorkerFinishFails, CancelSignal, CancelReread,
         ScanQueued, Cancel, Expire, Revoke
<1>. QED
  BY <1>1, SameStep

LEMMA LedgerStep == TInv /\ Execution /\ TInv' /\ [Next]_vars => ContractStep
<1> SUFFICES ASSUME TInv, Execution, TInv', [Next]_vars PROVE ContractStep
  OBVIOUS
<1>. USE Holders
<1>1. CASE Commit
  BY <1>1, CommitStep
<1>2. CASE CloseOne
  <2>1. PICK c \in NextClosed : call' = [call EXCEPT ![c] = NotExecuted(c)]
    BY <1>2 DEF CloseOne
  <2>2. c \in Calls
    BY DEF NextClosed, TInv, TypeOK, LoopLocals
  <2>. QED
    BY <1>2, <2>1, <2>2, NotExecutedStep DEF CloseOne
<1>3. CASE Invoke
  <2>1. Cur \in Calls /\ UNCHANGED writes
    BY <1>3 DEF Invoke
  <2>2. CASE UNCHANGED call
    BY <2>1, <2>2, SameStep
  <2>3. CASE /\ Claimable(Cur)
             /\ call' = [call EXCEPT ![Cur].status = "running", ![Cur].started = TRUE]
    BY <2>1, <2>3, StartStep
  <2>. QED
    BY <1>3, <2>2, <2>3 DEF Invoke
<1>4. CASE Execute
  <2>1. Cur \in Calls /\ call[Cur].status = "running" /\ writes[Cur] = 0 /\ UNCHANGED call
    BY <1>4 DEF Execute, Execution
  <2>2. UNCHANGED writes \/ \E out \in Outcome : TookEffect(Cur, out)
    BY <1>4 DEF Execute
  <2>. QED
    BY <2>1, <2>2, EffectStep, SameStep
<1>5. CASE Finish
  <2>1. Cur \in Calls /\ loop.out \in Outcome
    BY <1>5 DEF Finish, TInv, TypeOK, LoopLocals
  <2>. QED
    BY <1>5, <2>1, FinalizeStep DEF Finish
<1>6. ASSUME NEW w \in Workers, Claim(w) PROVE ContractStep
  <2>1. worker[w].c \in Calls /\ UNCHANGED writes
    BY <1>6 DEF Claim, TInv, Busy, Calls
  <2>2. CASE UNCHANGED call
    BY <2>1, <2>2, SameStep
  <2>3. CASE /\ Claimable(worker[w].c)
             /\ call' = [call EXCEPT ![worker[w].c].status = "running",
                                     ![worker[w].c].started = TRUE]
    BY <2>1, <2>3, StartStep
  <2>. QED
    BY <1>6, <2>2, <2>3 DEF Claim
<1>7. ASSUME NEW w \in Workers, WorkerRevert(w) PROVE ContractStep
  <2>1. worker[w].c \in Calls
    BY <1>7 DEF WorkerRevert, TInv, Busy, Calls
  <2>. QED
    BY <1>7, <2>1, RevertStep DEF WorkerRevert
<1>8. ASSUME NEW w \in Workers, Write(w) PROVE ContractStep
  <2>1. /\ worker[w].c \in Calls /\ UNCHANGED call
        /\ call[worker[w].c].status = "running" /\ writes[worker[w].c] = 0
    BY <1>8 DEF Write, Execution, Begun
  <2>2. \E out \in Outcome : TookEffect(worker[w].c, out)
    BY <1>8 DEF Write
  <2>. QED
    BY <2>1, <2>2, EffectStep
<1>9. ASSUME NEW w \in Workers, WorkerFinish(w) PROVE ContractStep
  <2>1. worker[w].c \in Calls /\ worker[w].out \in Outcome \cup {"cancelled", "recheck"}
    BY <1>9 DEF WorkerFinish, Begun, TInv, TypeOK, WorkerLocals
  <2>. QED
    BY <1>9, <2>1, FinalizeStep DEF WorkerFinish
<1>10. ASSUME NEW k \in Users \cup {Own}, CancelTry(k) PROVE ContractStep
  <2>. DEFINE c == cancel[k].c
  <2>1. c \in Calls /\ cancel[k] \in CancelLocals /\ cancel[k].from # "none" /\ UNCHANGED writes
    BY <1>10 DEF CancelTry, TInv, Busy, Aimed, TypeOK
  <2>2. CASE UNCHANGED call
    BY <2>1, <2>2, SameStep
  <2>3. CASE call' = [call EXCEPT ![c].cancel = TRUE]
    <3>1. call[c] \in Call
      BY <2>1 DEF TInv, Rows
    <3>2. call' = [call EXCEPT ![c] = [call[c] EXCEPT !.cancel = TRUE]]
      BY <2>1, <2>3, <3>1 DEF Call
    <3>3. /\ [call[c] EXCEPT !.cancel = TRUE].answer = call[c].answer
          /\ [call[c] EXCEPT !.cancel = TRUE].status = call[c].status
      BY <3>1 DEF Call
    <3>. QED
      BY <2>1, <3>2, <3>3, RowPhaseStep
  <2>4. CASE /\ call[c].status = cancel[k].from
             /\ call' = [call EXCEPT ![c] = Ended(c, "cancelled")]
    <3>1. Open(c)
      BY <2>1, <2>4 DEF Open, CancelLocals
    <3>. QED
      BY <2>1, <2>4, <3>1, EndedStatus, SettleStep DEF Terminal
  <2>. QED
    BY <1>10, <2>2, <2>3, <2>4 DEF CancelTry
<1>11. ASSUME NEW c \in Calls, WaitEnds(c) PROVE ContractStep
  BY <1>11, FinalizeStep DEF WaitEnds
<1>12. ASSUME NEW c \in Calls, Approve(c) PROVE ContractStep
  <2>1. PICK r \in {[Decided(c, "approve") EXCEPT !.status = "queued"]} \cup
                   {[Decided(c, "always_allow") EXCEPT !.status = "queued", !.auth = a] :
                      a \in Auths} :
          call' = [call EXCEPT ![c] = r]
    BY <1>12 DEF Approve
  <2>2. r.status = "queued" /\ r.answer = call[c].answer
    <3>1. call[c] \in Call
      BY DEF TInv, Rows
    <3>. QED
      BY <3>1 DEF Decided, Call
  <2>. QED
    BY <1>12, <2>1, <2>2, RowPhaseStep DEF Approve
<1>13. ASSUME NEW c \in Calls, Reject(c) PROVE ContractStep
  <2>. DEFINE r == Answered([Decided(c, "reject") EXCEPT !.status = "rejected"], "result")
  <2>1. r.status = "rejected"
    <3>1. call[c] \in Call
      BY DEF TInv, Rows
    <3>. QED
      BY <3>1 DEF Answered, Decided, Call
  <2>2. call' = [call EXCEPT ![c] = r] /\ Open(c) /\ UNCHANGED writes
    BY <1>13 DEF Reject, Open
  <2>. HIDE DEF r
  <2>. QED
    BY <2>1, <2>2, SettleStep DEF Terminal
<1>14. ASSUME NEW c \in Calls, RevokeRevert(c) PROVE ContractStep
  BY <1>14, RevertStep DEF RevokeRevert
<1>15. ASSUME NEW c \in Calls, RecoverRunning(c) PROVE ContractStep
  <2>1. Interrupted(c).status = "failed"
    <3>1. call[c] \in Call
      BY DEF TInv, Rows
    <3>. QED
      BY <3>1 DEF Interrupted, Answered, Call
  <2>. QED
    BY <1>15, <2>1, SettleStep DEF RecoverRunning, Open, Terminal
<1>16. ASSUME NEW c \in Calls, RecoverQueued(c) PROVE ContractStep
  BY <1>16, NotExecutedStep DEF RecoverQueued
<1>. QED
  BY <1>1, <1>2, <1>3, <1>4, <1>5, <1>6, <1>7, <1>8, <1>9, <1>10, <1>11, <1>12, <1>13,
     <1>14, <1>15, <1>16, UnseenStep
  DEF Next, LoopStep, WorkerStep, CancelStep, UserStep, RevokeStep, Recovery, FaultStep

LEMMA ContractInit == Init => Contract!Init
  BY DEF Init, Contract!Init, PhaseOf, NewCall

(* KeepsContract: whatever the loop, the workers, the users and recovery   *)
(* do to a call between them, and wherever the process dies, it begins     *)
(* once and writes once at most, and ends once, in the step that tells it. *)
THEOREM LedgerKeepsContract == Spec => KeepsContract
<1>1. TInv /\ Execution /\ TInv' /\ [Next]_vars
        => [Contract!Next]_<<[c \in Calls |-> PhaseOf(c)], [c \in Calls |-> call[c].answer],
                             writes>>
  BY LedgerStep DEF ContractStep, phases, answers
<1>. QED
  BY <1>1, ContractInit, ExecutionInvariant, PTL DEF Spec, KeepsContract, Contract!Spec

-----------------------------------------------------------------------------
(* Cancellations                                                           *)

(* Who ends a call that runs, and with which outcome.                      *)
Ender(c, out) ==
  \/ c \notin Asyncs /\ out \in Outcome
  \/ \E w \in Workers : worker[w].pc = "finish" /\ worker[w].c = c /\ worker[w].out = out

(* All that may become of a row in a step.                                 *)
Becomes(c) ==
  \/ call'[c] = call[c]
  \/ call[c].status \in Unbegun /\ (call'[c].cancel => call[c].cancel)
  \/ /\ call[c].status = "running" /\ call'[c] = [call[c] EXCEPT !.cancel = TRUE]
     /\ \E k \in Users \cup {Own} : CancelTry(k) /\ cancel[k].c = c
  \/ /\ call[c].status = "running" /\ mode = "up"
     /\ \E out \in Outcome \cup {"cancelled", "recheck"} :
          Ender(c, out) /\ call'[c] = Finalized(c, out)
  \/ /\ call[c].status = "running" /\ mode = "recovery"
     /\ call'[c].status = "failed" /\ call'[c].cancel = call[c].cancel

LEMMA OnlyBecomes ==
  ASSUME TInv, NEW c \in Calls, NEW r, call' = [call EXCEPT ![c] = r],
         Becomes(c)
  PROVE  \A d \in Calls : Becomes(d)
<1>1. \A d \in Calls \ {c} : call'[d] = call[d]
  BY DEF TInv, Rows
<1>. QED
  BY <1>1 DEF Becomes

LEMMA UnbegunBecomes ==
  ASSUME TInv, NEW c \in Calls, NEW r, call' = [call EXCEPT ![c] = r],
         call[c].status \in Unbegun, r.cancel = call[c].cancel
  PROVE  \A d \in Calls : Becomes(d)
<1>1. call'[c] = r
  BY DEF TInv, Rows
<1>2. Becomes(c)
  BY <1>1 DEF Becomes
<1>. QED
  BY <1>2, OnlyBecomes

LEMMA NothingBecomes ==
  ASSUME UNCHANGED call PROVE \A d \in Calls : Becomes(d)
  BY DEF Becomes

LEMMA StartBecomes ==
  ASSUME TInv, NEW c \in Calls, Claimable(c),
         call' = [call EXCEPT ![c].status = "running", ![c].started = TRUE]
  PROVE  \A d \in Calls : Becomes(d)
<1>1. call[c] \in Call
  BY DEF TInv, Rows
<1>2. call' = [call EXCEPT ![c] = [call[c] EXCEPT !.status = "running", !.started = TRUE]]
  BY <1>1 DEF TInv, Rows, Call
<1>3. [call[c] EXCEPT !.status = "running", !.started = TRUE].cancel = call[c].cancel
  BY <1>1 DEF Call
<1>. QED
  BY <1>2, <1>3, UnbegunBecomes DEF Claimable, Unbegun

LEMMA NotExecutedBecomes ==
  ASSUME TInv, NEW c \in Calls, call' = [call EXCEPT ![c] = NotExecuted(c)]
  PROVE  \A d \in Calls : Becomes(d)
<1>1. call[c] \in Call
  BY DEF TInv, Rows
<1>2. CASE call[c].status = "queued"
  <2>1. NotExecuted(c).cancel = call[c].cancel
    BY <1>1, <1>2 DEF NotExecuted, Ended, Answered, Call
  <2>. QED
    BY <1>2, <2>1, UnbegunBecomes DEF Unbegun
<1>3. CASE call[c].status # "queued"
  <2>1. \A d \in Calls : call'[d] = call[d]
    BY <1>3 DEF NotExecuted, TInv, Rows
  <2>. QED
    BY <2>1 DEF Becomes
<1>. QED
  BY <1>2, <1>3

LEMMA RevertedBecomes ==
  ASSUME TInv, NEW c \in Calls, call' = [call EXCEPT ![c] = Reverted(c)]
  PROVE  \A d \in Calls : Becomes(d)
<1>1. call[c] \in Call
  BY DEF TInv, Rows
<1>2. CASE call[c].status = "queued"
  <2>1. Reverted(c).cancel = call[c].cancel
    BY <1>1, <1>2 DEF Reverted, Call
  <2>. QED
    BY <1>2, <2>1, UnbegunBecomes DEF Unbegun
<1>3. CASE call[c].status # "queued"
  <2>1. \A d \in Calls : call'[d] = call[d]
    BY <1>3 DEF Reverted, TInv, Rows
  <2>. QED
    BY <2>1 DEF Becomes
<1>. QED
  BY <1>2, <1>3

LEMMA FinalizedBecomes ==
  ASSUME TInv, NEW c \in Calls, NEW out \in Outcome \cup {"cancelled", "recheck"},
         mode = "up", Ender(c, out), call' = [call EXCEPT ![c] = Finalized(c, out)]
  PROVE  \A d \in Calls : Becomes(d)
<1>1. call'[c] = Finalized(c, out)
  BY DEF TInv, Rows
<1>2. Becomes(c)
  <2>1. CASE call[c].status = "running"
    BY <1>1, <2>1 DEF Becomes
  <2>2. CASE call[c].status # "running"
    BY <1>1, <2>2 DEF Becomes, Finalized
  <2>. QED
    BY <2>1, <2>2
<1>. QED
  BY <1>2, OnlyBecomes

LEMMA RowChanges == TInv /\ Execution /\ [Next]_vars => \A c \in Calls : Becomes(c)
<1> SUFFICES ASSUME TInv, Execution, [Next]_vars PROVE \A d \in Calls : Becomes(d)
  OBVIOUS
<1>. USE Holders
<1>1. CASE Commit
  <2>1. PICK s \in Orders :
          LET new == {s[i] : i \in DOMAIN s}
          IN \E f \in [new -> UNION {Accepted(c, loop.auth) : c \in new}] :
               /\ \A c \in new : f[c] \in Accepted(c, loop.auth)
               /\ call' = [c \in Calls |-> IF c \in new THEN f[c] ELSE call[c]]
    BY <1>1 DEF Commit
  <2>. DEFINE new == {s[i] : i \in DOMAIN s}
  <2>2. PICK f \in [new -> UNION {Accepted(c, loop.auth) : c \in new}] :
               /\ \A c \in new : f[c] \in Accepted(c, loop.auth)
               /\ call' = [c \in Calls |-> IF c \in new THEN f[c] ELSE call[c]]
    BY <2>1
  <2>3. \A c \in new : c \in Calls /\ call[c].status = "none"
    BY DEF Orders, Committed
  <2>4. loop.auth \in Auths \cup {NoAuth}
    BY DEF TInv, TypeOK, LoopLocals
  <2>5. \A c \in new : ~f[c].cancel
    BY <2>2, <2>3, <2>4, RowAccepted
  <2>. QED
    BY <2>2, <2>3, <2>5 DEF Becomes, Unbegun
<1>2. CASE CloseOne
  <2>1. PICK c \in NextClosed : call' = [call EXCEPT ![c] = NotExecuted(c)]
    BY <1>2 DEF CloseOne
  <2>2. c \in Calls
    BY DEF NextClosed, TInv, TypeOK, LoopLocals
  <2>. QED
    BY <2>1, <2>2, NotExecutedBecomes
<1>3. CASE Invoke
  <2>1. Cur \in Calls
    BY <1>3 DEF Invoke
  <2>2. CASE UNCHANGED call
    BY <2>2, NothingBecomes
  <2>3. CASE /\ Claimable(Cur)
             /\ call' = [call EXCEPT ![Cur].status = "running", ![Cur].started = TRUE]
    BY <2>1, <2>3, StartBecomes
  <2>. QED
    BY <1>3, <2>2, <2>3 DEF Invoke
<1>4. CASE Finish
  <2>1. Cur \in Calls /\ loop.out \in Outcome /\ Cur \in Syncs /\ mode = "up"
    BY <1>4 DEF Finish, TInv, TypeOK, LoopLocals, Execution
  <2>2. Ender(Cur, loop.out)
    BY <2>1, CallsAssumption DEF Ender
  <2>. QED
    BY <1>4, <2>1, <2>2, FinalizedBecomes DEF Finish
<1>5. ASSUME NEW w \in Workers, Claim(w) PROVE \A d \in Calls : Becomes(d)
  <2>1. worker[w].c \in Calls
    BY <1>5 DEF Claim, TInv, Busy, Calls
  <2>2. CASE UNCHANGED call
    BY <2>2, NothingBecomes
  <2>3. CASE /\ Claimable(worker[w].c)
             /\ call' = [call EXCEPT ![worker[w].c].status = "running",
                                     ![worker[w].c].started = TRUE]
    BY <2>1, <2>3, StartBecomes
  <2>. QED
    BY <1>5, <2>2, <2>3 DEF Claim
<1>6. ASSUME NEW w \in Workers, WorkerRevert(w) PROVE \A d \in Calls : Becomes(d)
  <2>1. worker[w].c \in Calls
    BY <1>6 DEF WorkerRevert, TInv, Busy, Calls
  <2>. QED
    BY <1>6, <2>1, RevertedBecomes DEF WorkerRevert
<1>7. ASSUME NEW w \in Workers, WorkerFinish(w) PROVE \A d \in Calls : Becomes(d)
  <2>1. /\ worker[w].c \in Calls /\ worker[w].out \in Outcome \cup {"cancelled", "recheck"}
        /\ mode = "up"
    BY <1>7 DEF WorkerFinish, Begun, TInv, TypeOK, WorkerLocals, Execution
  <2>2. Ender(worker[w].c, worker[w].out)
    BY <1>7 DEF Ender, WorkerFinish
  <2>. QED
    BY <1>7, <2>1, <2>2, FinalizedBecomes DEF WorkerFinish
<1>8. ASSUME NEW k \in Users \cup {Own}, CancelTry(k) PROVE \A d \in Calls : Becomes(d)
  <2>. DEFINE c == cancel[k].c
  <2>1. c \in Calls /\ cancel[k] \in CancelLocals /\ cancel[k].from # "none"
    BY <1>8 DEF CancelTry, TInv, Busy, Aimed, TypeOK
  <2>0. call[c] \in Call
    BY <2>1 DEF TInv, Rows
  <2>2. CASE UNCHANGED call
    BY <2>2, NothingBecomes
  <2>3. CASE call[c].status = "running" /\ call' = [call EXCEPT ![c].cancel = TRUE]
    <3>1. call' = [call EXCEPT ![c] = [call[c] EXCEPT !.cancel = TRUE]]
      BY <2>0, <2>1, <2>3 DEF Call
    <3>2. call'[c] = [call[c] EXCEPT !.cancel = TRUE]
      BY <2>1, <3>1 DEF TInv, Rows
    <3>3. Becomes(c)
      BY <1>8, <2>3, <3>2 DEF Becomes
    <3>. QED
      BY <2>1, <3>1, <3>3, OnlyBecomes
  <2>4. CASE /\ call[c].status = cancel[k].from /\ call[c].status # "running"
             /\ call' = [call EXCEPT ![c] = Ended(c, "cancelled")]
    <3>1. call[c].status \in Unbegun
      BY <2>1, <2>4 DEF Unbegun, CancelLocals
    <3>2. Ended(c, "cancelled").cancel = call[c].cancel
      BY <2>0 DEF Ended, Answered, Call
    <3>. QED
      BY <2>1, <2>4, <3>1, <3>2, UnbegunBecomes
  <2>. QED
    BY <1>8, <2>2, <2>3, <2>4 DEF CancelTry
<1>9. ASSUME NEW c \in Calls, WaitEnds(c) PROVE \A d \in Calls : Becomes(d)
  <2>1. PICK out \in Outcome : call' = [call EXCEPT ![c] = Finalized(c, out)]
    BY <1>9 DEF WaitEnds
  <2>2. mode = "up" /\ Ender(c, out)
    BY <1>9, CallsAssumption DEF WaitEnds, Ender
  <2>. QED
    BY <2>1, <2>2, FinalizedBecomes
<1>10. ASSUME NEW c \in Calls, Approve(c) \/ Reject(c) PROVE \A d \in Calls : Becomes(d)
  <2>0. call[c] \in Call /\ call[c].status = "pending"
    BY <1>10 DEF TInv, Rows, Approve, Reject
  <2>1. PICK r \in {[Decided(c, "approve") EXCEPT !.status = "queued"]} \cup
                   {[Decided(c, "always_allow") EXCEPT !.status = "queued", !.auth = a] :
                      a \in Auths} \cup
                   {Answered([Decided(c, "reject") EXCEPT !.status = "rejected"], "result")} :
          call' = [call EXCEPT ![c] = r]
    BY <1>10 DEF Approve, Reject
  <2>2. r.cancel = call[c].cancel
    BY <2>0 DEF Decided, Answered, Call
  <2>. QED
    BY <2>0, <2>1, <2>2, UnbegunBecomes DEF Unbegun
<1>11. ASSUME NEW c \in Calls, RevokeRevert(c) PROVE \A d \in Calls : Becomes(d)
  BY <1>11, RevertedBecomes DEF RevokeRevert
<1>12. ASSUME NEW c \in Calls, RecoverRunning(c) PROVE \A d \in Calls : Becomes(d)
  <2>1. Interrupted(c).status = "failed" /\ Interrupted(c).cancel = call[c].cancel
    <3>1. call[c] \in Call
      BY DEF TInv, Rows
    <3>. QED
      BY <3>1 DEF Interrupted, Answered, Call
  <2>2. call'[c] = Interrupted(c)
    BY <1>12 DEF RecoverRunning, TInv, Rows
  <2>3. Becomes(c)
    BY <1>12, <2>1, <2>2 DEF Becomes, RecoverRunning
  <2>. QED
    BY <1>12, <2>3, OnlyBecomes DEF RecoverRunning
<1>13. ASSUME NEW c \in Calls, RecoverQueued(c) PROVE \A d \in Calls : Becomes(d)
  BY <1>13, NotExecutedBecomes DEF RecoverQueued
<1>14. ASSUME \/ Evaluate \/ NoTurn \/ Look \/ CloseFails \/ CloseDone \/ ExecuteCancel
              \/ ExecuteCancelDone \/ FinishFails \/ Panic \/ BuildFails \/ Crash
              \/ RevokeList \/ Recovered \/ UNCHANGED vars \/ Execute
              \/ \E w \in Workers : \/ TakeWork(w) \/ Register(w) \/ CheckCancel(w)
                                    \/ Recheck(w) \/ Write(w) \/ WorkerFinishFails(w)
              \/ \E k \in Users \cup {Own} : CancelSignal(k) \/ CancelReread(k)
              \/ \E c \in Calls : ScanQueued(c) \/ \E u \in Users : Cancel(u, c)
              \/ \E a \in Auths : Expire(a) \/ Revoke(a)
       PROVE  \A d \in Calls : Becomes(d)
  <2>1. UNCHANGED call
    BY <1>14
    DEF Evaluate, NoTurn, Look, CloseFails, CloseDone, ExecuteCancel, ExecuteCancelDone,
        FinishFails, Panic, BuildFails, Crash, RevokeList, Recovered, vars, Execute, TakeWork,
        Register, CheckCancel, Recheck, Write, WorkerFinishFails, CancelSignal, CancelReread,
        ScanQueued, Cancel, Expire, Revoke
  <2>. QED
    BY <2>1, NothingBecomes
<1>. QED
  BY <1>1, <1>2, <1>3, <1>4, <1>5, <1>6, <1>7, <1>8, <1>9, <1>10, <1>11, <1>12, <1>13, <1>14
  DEF Next, LoopStep, WorkerStep, CancelStep, UserStep, RevokeStep, Recovery, FaultStep

LEMMA CancelWinsStep ==
  TInv /\ Execution /\ [Next]_vars =>
    \A c \in Calls :
      mode = "up" /\ call[c].status = "running" /\ call[c].cancel
        => call'[c].status \in {"running", "cancelled"}
<1> SUFFICES ASSUME TInv, Execution, [Next]_vars,
                    NEW c \in Calls,
                    mode = "up", call[c].status = "running", call[c].cancel
             PROVE  call'[c].status \in {"running", "cancelled"}
  OBVIOUS
<1>0. call[c] \in Call
  BY DEF TInv, Rows
<1>1. CASE call'[c] = call[c] \/ call'[c] = [call[c] EXCEPT !.cancel = TRUE]
  BY <1>0, <1>1 DEF Call
<1>2. ASSUME NEW out \in Outcome \cup {"cancelled", "recheck"}, call'[c] = Finalized(c, out)
      PROVE  call'[c].status = "cancelled"
  BY <1>0, <1>2 DEF Finalized, Ended, Answered, Call
<1>. QED
  BY <1>1, <1>2, RowChanges DEF Becomes, Unbegun

(* CancelWins: once a running call carries a mark, the outcome its goroutine *)
(* comes back with is not kept; the call ends cancelled.                   *)
THEOREM CancelIsKept == Spec => CancelWins
<1>1. TInv /\ Execution /\ [Next]_vars =>
        [\A c \in Calls :
           mode = "up" /\ call[c].status = "running" /\ call[c].cancel
             => call'[c].status \in {"running", "cancelled"}]_vars
  BY CancelWinsStep
<1>. QED
  BY <1>1, ExecutionInvariant, PTL DEF Spec, CancelWins

(* A worker that looks at the mark has registered its context, and the     *)
(* cancellation of fs_cancel is over before the loop begins another one.   *)
Signalled ==
  /\ CancelReaches
  /\ \A w \in Workers :
       worker[w].pc \in {"check", "recheck", "write"} => worker[w].ctx # "none"
  /\ loop.pc # "cancelling" => cancel[Own].pc = "idle"

CInv == TInv /\ Execution /\ Signalled

(* A signal under way stays until it is given.                             *)
SignalsStay ==
  \A k \in Users \cup {Own} :
    cancel[k].pc = "signal" => cancel'[k].pc = "signal" /\ cancel'[k].c = cancel[k].c

(* A worker before its write was there already, with its context.          *)
SameWork ==
  \A w \in Workers :
    worker'[w].pc \in {"check", "recheck", "write"} =>
      /\ worker'[w].c = worker[w].c /\ worker'[w].ctx = worker[w].ctx
      /\ worker[w].pc \in {"check", "recheck", "write"}
      /\ worker'[w].pc # "check" =>
           worker[w].pc \in {"recheck", "write"} \/ ~call[worker[w].c].cancel

LEMMA SignalledInit == Init => Signalled
  BY DEF Init, Signalled, CancelReaches, NoWork, NoCancel

LEMMA MarksKept ==
  ASSUME TInv, Execution, [Next]_vars,
         NEW c \in Calls, call'[c].cancel, ~call[c].cancel
  PROVE  \E k \in Users \cup {Own} : CancelTry(k) /\ cancel[k].c = c /\ call[c].status = "running"
<1>0. call[c] \in Call
  BY DEF TInv, Rows
<1>1. ASSUME NEW out \in Outcome \cup {"cancelled", "recheck"}, call'[c] = Finalized(c, out)
      PROVE  call'[c].cancel = call[c].cancel
  BY <1>0, <1>1 DEF Finalized, Ended, Answered, Call
<1>. QED
  BY <1>1, RowChanges DEF Becomes

LEMMA QuietSignals ==
  ASSUME CInv, \A c \in Calls : call'[c].cancel => call[c].cancel, SignalsStay, SameWork,
         loop'.pc # "cancelling" => cancel'[Own].pc = "idle",
         DOMAIN cancel' = Users \cup {Own}
  PROVE  Signalled'
<1>1. DOMAIN cancel = Users \cup {Own}
  BY DEF CInv, TInv, TypeOK
<1>2. \A w \in Workers : worker[w].pc \in {"check", "recheck", "write"} => worker[w].c \in Calls
  BY DEF CInv, TInv, Busy, Calls
<1>3. ASSUME NEW w \in Workers, worker'[w].pc \in {"recheck", "write"},
             call'[worker'[w].c].cancel
      PROVE  \/ worker'[w].ctx = "cancelled"
             \/ \E k \in DOMAIN cancel' : cancel'[k].pc = "signal" /\ cancel'[k].c = worker'[w].c
  <2>1. /\ worker'[w].c = worker[w].c /\ worker'[w].ctx = worker[w].ctx
        /\ worker[w].c \in Calls /\ call[worker[w].c].cancel
        /\ worker[w].pc \in {"recheck", "write"}
    BY <1>2, <1>3 DEF SameWork
  <2>. QED
    BY <1>1, <2>1 DEF CInv, Signalled, CancelReaches, SignalsStay
<1>4. CancelReaches'
  BY <1>3 DEF CancelReaches
<1>. QED
  BY <1>4 DEF CInv, Signalled, SameWork

(* Steps that touch neither a worker nor a cancellation.                   *)
LEMMA ElsewhereSignals ==
  ASSUME CInv, \A c \in Calls : call'[c].cancel => call[c].cancel,
         UNCHANGED <<worker, cancel>>,
         loop'.pc # "cancelling" => loop.pc # "cancelling" \/ cancel[Own].pc = "idle"
  PROVE  Signalled'
<1>1. SignalsStay /\ SameWork
  BY DEF SignalsStay, SameWork
<1>2. DOMAIN cancel' = Users \cup {Own}
  BY DEF CInv, TInv, TypeOK
<1>3. loop'.pc # "cancelling" => cancel'[Own].pc = "idle"
  BY DEF CInv, Signalled
<1>. QED
  BY <1>1, <1>2, <1>3, QuietSignals

LEMMA LoopSignals ==
  ASSUME CInv, \A c \in Calls : call'[c].cancel => call[c].cancel,
         \/ Evaluate \/ BuildFails \/ LoopStep \/ UserStep \/ RevokeStep \/ Recovery
         \/ \E c \in Calls : ScanQueued(c) \/ WaitEnds(c)
         \/ CloseFails \/ FinishFails \/ Panic \/ UNCHANGED vars
  PROVE  Signalled'
<1>0. cancel \in [Users \cup {Own} -> CancelLocals] /\ loop \in LoopLocals
  BY DEF CInv, TInv, TypeOK
<1>1. CASE ExecuteCancel
  <2>1. cancel[Own].pc = "idle"
    BY <1>1 DEF ExecuteCancel, CInv, Signalled
  <2>2. DOMAIN cancel' = Users \cup {Own} /\ \A k \in Users : cancel'[k] = cancel[k]
    BY <1>0, <1>1, CallsAssumption DEF ExecuteCancel
  <2>3. SignalsStay
    BY <2>1, <2>2 DEF SignalsStay
  <2>4. loop'.pc = "cancelling" /\ UNCHANGED <<call, worker>>
    BY <1>0, <1>1 DEF ExecuteCancel, LoopLocals
  <2>5. SameWork
    BY <2>4 DEF SameWork
  <2>. QED
    BY <2>2, <2>3, <2>4, <2>5, QuietSignals
<1>2. ASSUME NEW c \in Calls, NEW u \in Users, Cancel(u, c) PROVE Signalled'
  <2>1. cancel[u].pc = "idle" /\ cancel' = [cancel EXCEPT ![u] = Attempt(c, 3)]
        /\ UNCHANGED <<worker, loop>>
    BY <1>2 DEF Cancel
  <2>2. DOMAIN cancel' = Users \cup {Own} /\ \A k \in (Users \cup {Own}) \ {u} : cancel'[k] = cancel[k]
    BY <1>0, <2>1
  <2>3. u # Own
    BY CallsAssumption
  <2>4. SignalsStay /\ SameWork
    BY <2>1, <2>2 DEF SignalsStay, SameWork
  <2>5. loop'.pc # "cancelling" => cancel'[Own].pc = "idle"
    BY <2>1, <2>2, <2>3 DEF CInv, Signalled
  <2>. QED
    BY <2>2, <2>4, <2>5, QuietSignals
<1>3. CASE ExecuteCancelDone
  BY <1>3, ElsewhereSignals DEF ExecuteCancelDone
<1>4. CASE Evaluate \/ Commit \/ NoTurn \/ Look \/ CloseOne \/ CloseDone \/ Invoke
           \/ Execute \/ Finish \/ CloseFails \/ FinishFails \/ Panic
  <2>1. UNCHANGED <<worker, cancel>> /\ loop.pc # "cancelling"
    BY <1>4 DEF Evaluate, Commit, NoTurn, Look, CloseOne, CloseDone, Invoke, Execute,
                Finish, CloseFails, FinishFails, Panic
  <2>. QED
    BY <2>1, ElsewhereSignals
<1>5. CASE \/ BuildFails \/ RevokeStep \/ Recovery \/ UNCHANGED vars
           \/ \E c \in Calls : ScanQueued(c) \/ WaitEnds(c) \/ Approve(c) \/ Reject(c)
           \/ \E a \in Auths : Expire(a) \/ Revoke(a)
  <2>1. UNCHANGED <<worker, cancel, loop>>
    BY <1>5 DEF BuildFails, RevokeStep, RevokeList, RevokeRevert, Recovery, Recovered,
                RecoverRunning, RecoverQueued, vars, ScanQueued, WaitEnds, Approve, Reject,
                Expire, Revoke
  <2>. QED
    BY <2>1, ElsewhereSignals
<1>. QED
  BY <1>1, <1>2, <1>3, <1>4, <1>5 DEF LoopStep, UserStep

LEMMA WorkerSignals ==
  ASSUME CInv, \A c \in Calls : call'[c].cancel => call[c].cancel,
         NEW w \in Workers, WorkerStep(w) \/ WorkerFinishFails(w)
  PROVE  Signalled'
<1>. DEFINE Looks == {"check", "recheck", "write"}
<1>0. /\ UNCHANGED <<loop, cancel>>
      /\ worker \in [Workers -> WorkerLocals] /\ worker[w] \in WorkerLocals
      /\ cancel \in [Users \cup {Own} -> CancelLocals]
      /\ loop'.pc # "cancelling" => cancel'[Own].pc = "idle"
  BY DEF CInv, TInv, TypeOK, Signalled, WorkerStep, TakeWork, Claim, WorkerRevert, Register,
         CheckCancel, Recheck, Write, WorkerFinish, WorkerFinishFails
<1>1. \A v \in Workers \ {w} : worker'[v] = worker[v]
  BY <1>0 DEF WorkerStep, TakeWork, Claim, WorkerRevert, Register, CheckCancel, Recheck,
              Write, WorkerFinish, WorkerFinishFails
<1>2. SignalsStay /\ DOMAIN cancel' = Users \cup {Own}
  BY <1>0 DEF SignalsStay
<1>3. CASE worker'[w].pc \notin Looks
  <2>1. SameWork
    BY <1>1, <1>3 DEF SameWork
  <2>. QED
    BY <1>0, <1>2, <2>1, QuietSignals
<1>4. CASE /\ worker[w].pc \in Looks
           /\ worker'[w].c = worker[w].c /\ worker'[w].ctx = worker[w].ctx
           /\ worker'[w].pc # "check" =>
                worker[w].pc \in {"recheck", "write"} \/ ~call[worker[w].c].cancel
  <2>1. SameWork
    BY <1>1, <1>4 DEF SameWork
  <2>. QED
    BY <1>0, <1>2, <2>1, QuietSignals
<1>5. CASE Register(w)
  <2>1. worker'[w].pc = "check" /\ worker'[w].ctx = "live"
    BY <1>0, <1>5 DEF Register, WorkerLocals
  <2>2. UNCHANGED call
    BY <1>5 DEF Register
  <2>. QED
    BY <1>0, <1>1, <2>1, <2>2 DEF CInv, Signalled, CancelReaches
<1>6. CASE TakeWork(w) \/ Claim(w) \/ WorkerRevert(w) \/ WorkerFinish(w) \/ WorkerFinishFails(w)
  <2>1. worker'[w].pc \notin Looks
    <3>1. CASE TakeWork(w)
      BY <1>0, <3>1 DEF TakeWork, WorkerLocals
    <3>2. CASE Claim(w)
      BY <1>0, <3>2, LocalsAtRest DEF Claim, WorkerLocals
    <3>3. CASE WorkerRevert(w) \/ WorkerFinish(w) \/ WorkerFinishFails(w)
      BY <1>0, <3>3, LocalsAtRest DEF WorkerRevert, WorkerFinish, WorkerFinishFails
    <3>. QED
      BY <1>6, <3>1, <3>2, <3>3
  <2>. QED
    BY <1>3, <2>1
<1>7. CASE CheckCancel(w)
  <2>1. CASE call[worker[w].c].cancel
    <3>1. worker'[w].pc = "finish"
      BY <1>0, <1>7, <2>1 DEF CheckCancel, WorkerLocals
    <3>. QED
      BY <1>3, <3>1
  <2>2. CASE ~call[worker[w].c].cancel
    <3>1. worker'[w].c = worker[w].c /\ worker'[w].ctx = worker[w].ctx
      BY <1>0, <1>7, <2>2 DEF CheckCancel, WorkerLocals
    <3>. QED
      BY <1>4, <1>7, <2>2, <3>1 DEF CheckCancel
  <2>. QED
    BY <2>1, <2>2
<1>8. CASE Recheck(w)
  <2>1. CASE worker' = [worker EXCEPT ![w].pc = "write"]
    <3>1. /\ worker'[w].c = worker[w].c /\ worker'[w].ctx = worker[w].ctx
          /\ worker'[w].pc = "write" /\ worker[w].pc = "recheck"
      BY <1>0, <1>8, <2>1 DEF Recheck, WorkerLocals
    <3>. QED
      BY <1>4, <3>1
  <2>2. CASE worker' = [worker EXCEPT ![w].pc = "finish", ![w].out = "recheck"]
    <3>1. worker'[w].pc = "finish"
      BY <1>0, <2>2 DEF WorkerLocals
    <3>. QED
      BY <1>3, <3>1
  <2>. QED
    BY <1>8, <2>1, <2>2 DEF Recheck
<1>9. CASE Write(w)
  <2>1. worker'[w].pc = "finish"
    BY <1>0, <1>9 DEF Write, WorkerLocals
  <2>. QED
    BY <1>3, <2>1
<1>. QED
  BY <1>5, <1>6, <1>7, <1>8, <1>9 DEF WorkerStep

LEMMA CancelSignals ==
  ASSUME CInv, [Next]_vars, NEW k \in Users \cup {Own}, CancelStep(k)
  PROVE  Signalled'
<1>0. /\ cancel \in [Users \cup {Own} -> CancelLocals] /\ DOMAIN cancel = Users \cup {Own}
      /\ DOMAIN cancel' = Users \cup {Own}
      /\ \A i \in (Users \cup {Own}) \ {k} : cancel'[i] = cancel[i]
      /\ UNCHANGED loop /\ cancel[k].pc # "idle"
  BY DEF CInv, TInv, TypeOK, CancelStep, CancelTry, CancelSignal, CancelReread
<1>1. \A w \in Workers : worker[w].pc \in {"check", "recheck", "write"} => worker[w].c \in Calls
  BY DEF CInv, TInv, Busy, Calls
<1>2. loop'.pc # "cancelling" => cancel'[Own].pc = "idle"
  BY <1>0 DEF CInv, Signalled
<1>3. CASE CancelTry(k)
  <2>1. UNCHANGED worker /\ cancel[k].pc = "try"
    BY <1>3 DEF CancelTry
  <2>2. ASSUME NEW w \in Workers, worker[w].pc \in {"recheck", "write"}, call'[worker[w].c].cancel
        PROVE  \/ worker[w].ctx = "cancelled"
               \/ \E i \in DOMAIN cancel' : cancel'[i].pc = "signal" /\ cancel'[i].c = worker[w].c
    <3>. DEFINE c == worker[w].c
    <3>1. CASE call[c].cancel
      <4>1. \/ worker[w].ctx = "cancelled"
            \/ \E i \in DOMAIN cancel : cancel[i].pc = "signal" /\ cancel[i].c = c
        BY <2>2, <3>1 DEF CInv, Signalled, CancelReaches
      <4>. QED
        BY <1>0, <2>1, <4>1
    <3>2. CASE ~call[c].cancel
      <4>1. cancel[k].c = c /\ call[c].status = "running"
        <5>1. \A d \in Calls \ {cancel[k].c} : call'[d] = call[d]
          BY <1>3 DEF CancelTry, CInv, TInv, Rows
        <5>2. c = cancel[k].c
          BY <1>1, <2>2, <3>2, <5>1
        <5>3. call[c] \in Call
          BY <1>1, <2>2 DEF CInv, TInv, Rows
        <5>4. call[c].status = "running"
          <6>1. Ended(c, "cancelled").cancel = call[c].cancel
            BY <5>3 DEF Ended, Answered, Call
          <6>2. call' # [call EXCEPT ![c] = Ended(c, "cancelled")]
            BY <1>1, <2>2, <3>2, <6>1 DEF CInv, TInv, Rows
          <6>. QED
            BY <1>3, <2>2, <3>2, <5>2, <6>2 DEF CancelTry
        <5>. QED
          BY <5>2, <5>4
      <4>2. call[c].status = cancel[k].from
        BY <1>3, <2>2, <3>2, <4>1 DEF CancelTry
      <4>3. cancel'[k].pc = "signal" /\ cancel'[k].c = c
        BY <1>0, <1>3, <4>1, <4>2 DEF CancelTry, CancelLocals
      <4>. QED
        BY <1>0, <4>3
    <3>. QED
      BY <3>1, <3>2
  <2>. QED
    BY <1>2, <2>1, <2>2 DEF CInv, Signalled, CancelReaches
<1>4. CASE CancelSignal(k)
  <2>1. UNCHANGED call
    BY <1>4 DEF CancelSignal
  <2>2. \A w \in Workers :
          /\ worker'[w].pc = worker[w].pc /\ worker'[w].c = worker[w].c
          /\ worker'[w].ctx = IF worker[w].c = cancel[k].c /\ worker[w].ctx = "live"
                              THEN "cancelled" ELSE worker[w].ctx
          /\ worker[w].ctx \in {"none", "live", "cancelled"}
    BY <1>4 DEF CancelSignal, CInv, TInv, TypeOK, WorkerLocals
  <2>3. ASSUME NEW w \in Workers, worker[w].pc \in {"recheck", "write"}, call[worker[w].c].cancel
        PROVE  \/ worker'[w].ctx = "cancelled"
               \/ \E i \in DOMAIN cancel' : cancel'[i].pc = "signal" /\ cancel'[i].c = worker[w].c
    <3>1. \/ worker[w].ctx = "cancelled"
          \/ \E i \in DOMAIN cancel : cancel[i].pc = "signal" /\ cancel[i].c = worker[w].c
      BY <2>3 DEF CInv, Signalled, CancelReaches
    <3>2. worker[w].ctx # "none"
      BY <2>3 DEF CInv, Signalled
    <3>3. CASE worker[w].c = cancel[k].c
      BY <2>2, <3>2, <3>3
    <3>4. CASE worker[w].c # cancel[k].c
      BY <1>0, <2>2, <3>1, <3>4
    <3>. QED
      BY <3>3, <3>4
  <2>. QED
    BY <1>2, <2>1, <2>2, <2>3 DEF CInv, Signalled, CancelReaches
<1>5. CASE CancelReread(k)
  <2>1. UNCHANGED <<call, worker>> /\ cancel[k].pc = "reread"
    BY <1>5 DEF CancelReread
  <2>2. SignalsStay /\ SameWork
    BY <1>0, <2>1 DEF SignalsStay, SameWork
  <2>. QED
    BY <1>0, <1>2, <2>1, <2>2, QuietSignals
<1>. QED
  BY <1>3, <1>4, <1>5 DEF CancelStep

LEMMA SignalledStep == CInv /\ [Next]_vars => Signalled'
<1> SUFFICES ASSUME CInv, [Next]_vars PROVE Signalled'
  OBVIOUS
<1>1. CASE \E k \in Users \cup {Own} : CancelStep(k)
  BY <1>1, CancelSignals
<1>2. CASE Crash
  BY <1>2 DEF Crash, Signalled, CancelReaches, NoWork, NoCancel
<1>3. CASE ~ \E k \in Users \cup {Own} : CancelStep(k)
  <2>1. \A c \in Calls : call'[c].cancel => call[c].cancel
    BY <1>3, MarksKept DEF CInv, CancelStep
  <2>. QED
    BY <1>2, <1>3, <2>1, LoopSignals, WorkerSignals DEF Next, FaultStep
<1>. QED
  BY <1>1, <1>3

(* CancelReaches: between the claim and the registration of the context no *)
(* accepted cancel is lost, whatever the number of workers and users, and  *)
(* although fs_cancel and the users race for the same row.                 *)
THEOREM CancelsAreDelivered == Spec => []CancelReaches
<1>1. Init => CInv
  BY TypeInit, ExecutionInit, SignalledInit DEF CInv
<1>2. CInv /\ [Next]_vars => CInv'
  BY TypeStep, ExecutionStep, SignalledStep DEF CInv
<1>3. CInv => CancelReaches
  BY DEF CInv, Signalled
<1>. QED
  BY <1>1, <1>2, <1>3, PTL DEF Spec

(* A worker that comes back without having written says so, and a wait     *)
(* writes nothing.                                                         *)
Disclosed ==
  /\ CancelDisclosed
  /\ \A w \in Workers :
       worker[w].pc = "finish" /\ worker[w].out \in {"cancelled", "recheck"}
         => writes[worker[w].c] = 0
  /\ \A c \in Waits : writes[c] = 0

DInv == TInv /\ Execution /\ Disclosed

LEMMA WritesChange ==
  ASSUME TInv, Execution, [Next]_vars, writes' # writes
  PROVE  \/ /\ Execute /\ Cur \in Syncs /\ Cur \in Calls /\ UNCHANGED <<call, worker>>
            /\ call[Cur].status = "running"
            /\ \A c \in Calls \ {Cur} : writes'[c] = writes[c]
         \/ \E w \in Workers :
              /\ Write(w) /\ worker[w].c \in Asyncs /\ worker[w].c \in Calls /\ UNCHANGED call
              /\ worker[w].pc = "write" /\ call[worker[w].c].status = "running"
              /\ \A c \in Calls \ {worker[w].c} : writes'[c] = writes[c]
<1>1. Execute \/ \E w \in Workers : Write(w)
  BY DEF Next, LoopStep, WorkerStep, CancelStep, UserStep, RevokeStep, Recovery, FaultStep,
         Evaluate, BuildFails, Commit, NoTurn, Look, CloseOne, CloseFails, CloseDone, Invoke,
         ExecuteCancel, ExecuteCancelDone, Finish, FinishFails, Panic, Crash, TakeWork, Claim,
         WorkerRevert, Register, CheckCancel, Recheck, WorkerFinish, WorkerFinishFails,
         CancelTry, CancelSignal, CancelReread, ScanQueued, WaitEnds, Approve, Reject, Cancel,
         Expire, Revoke, RevokeList, RevokeRevert, Recovered, RecoverRunning, RecoverQueued, vars
<1>2. CASE Execute
  BY <1>2, Holders DEF Execute, TookEffect, Execution, TInv, TypeOK
<1>3. ASSUME NEW w \in Workers, Write(w)
      PROVE  /\ worker[w].c \in Asyncs /\ worker[w].c \in Calls /\ UNCHANGED call
             /\ worker[w].pc = "write" /\ call[worker[w].c].status = "running"
             /\ \A c \in Calls \ {worker[w].c} : writes'[c] = writes[c]
  BY <1>3, Holders DEF Write, TookEffect, Execution, TInv, TypeOK, Begun
<1>. QED
  BY <1>1, <1>2, <1>3

LEMMA WaitsUnwritten ==
  ASSUME DInv, [Next]_vars
  PROVE  \A c \in Waits : writes'[c] = 0
<1>1. \A c \in Waits : c \in Calls /\ c \notin Syncs /\ c \notin Asyncs
  BY CallsAssumption DEF Calls
<1>2. CASE writes' = writes
  BY <1>2 DEF DInv, Disclosed
<1>3. CASE writes' # writes
  BY <1>1, <1>3, WritesChange DEF DInv, Disclosed
<1>. QED
  BY <1>2, <1>3

LEMMA DisclosedRows ==
  ASSUME DInv, [Next]_vars
  PROVE  CancelDisclosed'
<1> SUFFICES ASSUME NEW c \in Calls, call'[c].status = "cancelled", writes'[c] > 0
             PROVE  call'[c].effect
  BY DEF CancelDisclosed
<1>0. call[c] \in Call
  BY DEF DInv, TInv, Rows
<1>1. writes'[c] = writes[c]
  <2>1. CASE writes' = writes
    BY <2>1
  <2>2. CASE writes' # writes
    BY <2>2, WritesChange DEF DInv
  <2>. QED
    BY <2>1, <2>2
<1>2. CASE call'[c] = call[c]
  BY <1>1, <1>2 DEF DInv, Disclosed, CancelDisclosed
<1>3. CASE call[c].status \in Unbegun
  BY <1>1, <1>3 DEF DInv, Execution
<1>4. CASE call[c].status = "running" /\ call'[c] = [call[c] EXCEPT !.cancel = TRUE]
  BY <1>0, <1>4 DEF Call
<1>5. ASSUME call[c].status = "running",
             NEW out \in Outcome \cup {"cancelled", "recheck"},
             Ender(c, out), call'[c] = Finalized(c, out)
      PROVE  call'[c].effect
  <2>1. out \notin {"cancelled", "recheck"}
    BY <1>1, <1>5 DEF Ender, Outcome, DInv, Disclosed
  <2>2. c \notin Waits
    BY <1>1 DEF DInv, Disclosed
  <2>3. Ended(c, out).status = out /\ Ended(c, "cancelled") \in Call
    BY <1>0, <1>5 DEF Ended, Answered, Kind, Call, Status, Terminal, Outcome
  <2>4. CASE ~call[c].cancel
    BY <1>5, <2>1, <2>3, <2>4 DEF Finalized
  <2>5. CASE call[c].cancel
    <3>1. call'[c] = [Ended(c, "cancelled") EXCEPT !.effect = TRUE]
      BY <1>5, <2>1, <2>2, <2>5 DEF Finalized
    <3>. QED
      BY <2>3, <3>1 DEF Call
  <2>. QED
    BY <1>0, <2>4, <2>5 DEF Call
<1>. QED
  BY <1>2, <1>3, <1>4, <1>5, RowChanges DEF Becomes, DInv

LEMMA DisclosedWorkers ==
  ASSUME DInv, [Next]_vars,
         NEW w \in Workers, worker'[w].pc = "finish",
         worker'[w].out \in {"cancelled", "recheck"}
  PROVE  writes'[worker'[w].c] = 0
<1>0. worker \in [Workers -> WorkerLocals] /\ worker[w] \in WorkerLocals
  BY DEF DInv, TInv, TypeOK
<1>1. \/ /\ worker[w].pc = "finish" /\ worker'[w].c = worker[w].c
         /\ worker'[w].out = worker[w].out
      \/ /\ CheckCancel(w) \/ Recheck(w)
         /\ worker'[w].c = worker[w].c
  <2>1. ASSUME NEW v \in Workers, WorkerStep(v) \/ WorkerFinishFails(v), v # w
        PROVE  worker'[w] = worker[w]
    BY <1>0, <2>1 DEF WorkerStep, TakeWork, Claim, WorkerRevert, Register, CheckCancel,
                      Recheck, Write, WorkerFinish, WorkerFinishFails
  <2>2. CASE TakeWork(w) \/ Claim(w) \/ WorkerRevert(w) \/ WorkerFinish(w) \/ WorkerFinishFails(w)
    <3>1. CASE TakeWork(w)
      BY <1>0, <3>1 DEF TakeWork, WorkerLocals
    <3>2. CASE Claim(w)
      BY <1>0, <3>2, LocalsAtRest DEF Claim, WorkerLocals
    <3>3. CASE WorkerRevert(w) \/ WorkerFinish(w) \/ WorkerFinishFails(w)
      BY <1>0, <3>3, LocalsAtRest DEF WorkerRevert, WorkerFinish, WorkerFinishFails
    <3>. QED
      BY <2>2, <3>1, <3>2, <3>3
  <2>3. CASE Register(w)
    BY <1>0, <2>3 DEF Register, WorkerLocals
  <2>4. CASE CheckCancel(w)
    BY <1>0, <2>4 DEF CheckCancel, WorkerLocals
  <2>5. CASE Recheck(w)
    BY <1>0, <2>5 DEF Recheck, WorkerLocals
  <2>6. CASE Write(w)
    BY <1>0, <2>6 DEF Write, WorkerLocals, Outcome
  <2>7. CASE Crash
    BY <2>7, LocalsAtRest DEF Crash
  <2>8. ASSUME NEW k \in Users \cup {Own}, CancelSignal(k)
        PROVE  /\ worker'[w].pc = worker[w].pc /\ worker'[w].c = worker[w].c
               /\ worker'[w].out = worker[w].out
    BY <1>0, <2>8 DEF CancelSignal, WorkerLocals
  <2>9. \/ worker' = worker \/ Crash
        \/ \E v \in Workers : WorkerStep(v) \/ WorkerFinishFails(v)
        \/ \E k \in Users \cup {Own} : CancelSignal(k)
    BY DEF Next, LoopStep, CancelStep, UserStep, RevokeStep, Recovery, FaultStep,
           Evaluate, BuildFails, Commit, NoTurn, Look, CloseOne, CloseFails, CloseDone, Invoke,
           Execute, ExecuteCancel, ExecuteCancelDone, Finish, FinishFails, Panic, CancelTry,
           CancelReread, ScanQueued, WaitEnds, Approve, Reject, Cancel, Expire, Revoke,
           RevokeList, RevokeRevert, Recovered, RecoverRunning, RecoverQueued, vars
  <2>. QED
    BY <2>1, <2>2, <2>3, <2>4, <2>5, <2>6, <2>7, <2>8, <2>9 DEF WorkerStep
<1>2. CASE CheckCancel(w) \/ Recheck(w)
  <2>1. worker[w].pc \in {"check", "recheck"} /\ UNCHANGED writes
    BY <1>2 DEF CheckCancel, Recheck
  <2>2. writes[worker[w].c] = 0
    BY <2>1 DEF DInv, Execution, Begun
  <2>3. worker'[w].c = worker[w].c
    BY <1>0, <1>2 DEF CheckCancel, Recheck, WorkerLocals
  <2>. QED
    BY <2>1, <2>2, <2>3
<1>3. CASE /\ worker[w].pc = "finish" /\ worker'[w].c = worker[w].c
           /\ worker'[w].out = worker[w].out
  <2>1. writes[worker[w].c] = 0
    BY <1>3 DEF DInv, Disclosed
  <2>2. worker[w].c \in Asyncs /\ worker[w].c \in Calls /\ worker[w].c \notin Syncs
    BY <1>3, Holders DEF DInv, Begun
  <2>3. ASSUME NEW v \in Workers, worker[v].pc = "write"
        PROVE  worker[v].c # worker[w].c
    BY <1>3, <2>3 DEF DInv, Execution, Begun
  <2>4. CASE writes' = writes
    BY <1>3, <2>1, <2>4
  <2>5. CASE writes' # writes
    BY <1>3, <2>1, <2>2, <2>3, <2>5, WritesChange DEF DInv
  <2>. QED
    BY <2>4, <2>5
<1>. QED
  BY <1>1, <1>2, <1>3

(* CancelDisclosed: a call that ended cancelled after its write took place *)
(* says that it may have, whoever ended it.                                *)
THEOREM EffectsAreDisclosed == Spec => []CancelDisclosed
<1>1. Init => DInv
  <2>1. Init => Disclosed
    BY DEF Init, Disclosed, CancelDisclosed, NewCall, NoWork, Calls
  <2>. QED
    BY <2>1, TypeInit, ExecutionInit DEF DInv
<1>2. DInv /\ [Next]_vars => DInv'
  <2>1. DInv /\ [Next]_vars => Disclosed'
    BY WaitsUnwritten, DisclosedRows, DisclosedWorkers DEF Disclosed
  <2>. QED
    BY <2>1, TypeStep, ExecutionStep DEF DInv
<1>3. DInv => CancelDisclosed
  BY DEF DInv, Disclosed
<1>. QED
  BY <1>1, <1>2, <1>3, PTL DEF Spec
=============================================================================
