------------------------------ MODULE BotCalls ------------------------------
(***************************************************************************)
(* The ledger of a bot's tool calls: how a turn of the model is committed, *)
(* how the main loop executes the synchronous calls of the turn and hands  *)
(* the asynchronous ones to the workers, how the user decides, cancels and *)
(* revokes meanwhile, and how recovery closes what a crash left open       *)
(* (service/bot_tool_runner.go, bot_authorization.go, bot_queries.go,      *)
(* bot_results.go, bot_recovery.go, repository/bot_tool_call.go).          *)
(*                                                                         *)
(* Every status change is a conditional UPDATE, so a transaction is one    *)
(* step; a row read before it may be stale when it is used.                *)
(***************************************************************************)
EXTENDS Naturals, Sequences, FiniteSets

CONSTANTS
  Reads,       \* synchronous calls that only read
  Writes,      \* synchronous calls that write: memory writes, and fs_cancel
  Cancels,     \* the calls of Writes that are fs_cancel
  Asyncs,      \* asynchronous calls, executed by the workers
  Waits,       \* fs_thread.wait calls, all on the same thread
  Workers, Users,
  Own,         \* the cancellation a call of fs_cancel performs
  Auths,       \* authorizations that are ever created, all of the same rule
  NoCall, NoAuth,
  Cap,         \* capacity of workCh
  MaxTurn,     \* bound: calls in one turn of the model
  MaxCancels,  \* bound: cancellations the users ever ask for
  Faults,      \* the kinds of fault that happen
  MaxFaults    \* bound: faults that ever happen

Syncs == Reads \cup Writes
Calls == Syncs \cup Asyncs \cup Waits

ASSUME CallsAssumption ==
  /\ Cancels \subseteq Writes
  /\ Syncs \cap (Asyncs \cup Waits) = {}
  /\ Reads \cap Writes = {}
  /\ Asyncs \cap Waits = {}
  /\ NoCall \notin Calls
  /\ NoAuth \notin Auths
  /\ Own \notin Users
  /\ Cap \in Nat \ {0}
  /\ MaxTurn \in Nat
  /\ MaxCancels \in Nat
  /\ Faults \subseteq {"tx", "panic", "crash", "expiry"}
  /\ MaxFaults \in Nat

VARIABLES
  (* rows of the database *)
  call,     \* bot_tool_calls, with the messages about each call
  auths,    \* bot_authorizations
  (* outside *)
  writes,   \* how often the call took effect outside
  (* memory of the process *)
  mode,     \* "up", or "recovery" before the workers are started
  work,     \* calls in workCh
  loop,     \* locals of the main loop
  worker,   \* locals of executeQueuedCall
  cancel,   \* cancellations under way
  revoke,   \* the revocation under way (bound: one at a time)
  (* bounds *)
  cancels, faults

vars == <<call, auths, writes, mode, work, loop, worker, cancel, revoke, cancels, faults>>

Terminal == {"succeeded", "failed", "cancelled", "rejected", "not_executed"}
Status   == {"none", "pending", "queued", "running"} \cup Terminal
Decision == {"none", "approve", "always_allow", "reject"}

Call == [status   : Status,
         auth     : Auths \cup {NoAuth},
         decision : Decision,
         started  : BOOLEAN,                     \* started_at
         cancel   : BOOLEAN,                     \* cancel_requested_at
         effect   : BOOLEAN,                     \* effect_may_have_occurred
         receipt  : BOOLEAN,                     \* message "receipt:<id>"
         answer   : {"none", "reply", "result"}] \* message "terminal:<id>"

NewCall == [status |-> "none", auth |-> NoAuth, decision |-> "none",
            started |-> FALSE, cancel |-> FALSE, effect |-> FALSE,
            receipt |-> FALSE, answer |-> "none"]

NoLoop   == [pc |-> "idle", auth |-> NoAuth, turn |-> <<>>, todo |-> <<>>,
             open |-> {}, close |-> {}, seen |-> FALSE, out |-> "failed"]
NoWork   == [pc |-> "idle", c |-> NoCall, auth |-> NoAuth, out |-> "failed",
             ctx |-> "none"]
NoCancel == [pc |-> "idle", c |-> NoCall, from |-> "none", left |-> 0]
NoRevoke == [pc |-> "idle", a |-> NoAuth, list |-> {}]

Committed == {c \in Calls : call[c].status # "none"}
Open(c)   == call[c].status \in {"pending", "queued", "running"}
Active    == {a \in Auths : auths[a] = "active"}
(* The worker takes an expired authorization for a revoked one. *)
Dead(a)   == a # NoAuth /\ auths[a] # "active"

(* Each provider_tool_call_id has its message, or no request can be built. *)
Closed(c)      == call[c].receipt \/ call[c].answer = "reply"
ProtocolClosed == \A c \in Committed : Closed(c)

Init ==
  /\ call = [c \in Calls |-> NewCall]
  /\ auths = [a \in Auths |-> "none"]
  /\ writes = [c \in Calls |-> 0]
  /\ mode = "up"
  /\ work = {}
  /\ loop = NoLoop
  /\ worker = [w \in Workers |-> NoWork]
  /\ cancel = [k \in Users \cup {Own} |-> NoCancel]
  /\ revoke = NoRevoke
  /\ cancels = 0
  /\ faults = 0

Fault(kind) == kind \in Faults /\ faults < MaxFaults /\ faults' = faults + 1

(* The unique key "terminal:<id>" keeps the first message of the two kinds. *)
Answered(r, kind) ==
  [r EXCEPT !.answer = IF r.answer = "none" THEN kind ELSE r.answer]

Kind(c) == IF c \in Syncs THEN "reply" ELSE "result"

(* A terminal status and the message that tells it, in one transaction. *)
Ended(c, st) == Answered([call[c] EXCEPT !.status = st], Kind(c))

(* Mutant: the outcome is written without asking for the cancel mark. *)
FinalizedLate(c, out) ==
  IF call[c].status # "running" THEN call[c]
  ELSE Ended(c, IF out = "recheck" THEN "failed" ELSE out)

(* Mutant: the effect of a cancelled call is not disclosed. *)
FinalizedQuiet(c, out) ==
  IF call[c].status # "running" THEN call[c]
  ELSE Ended(c, IF call[c].cancel THEN "cancelled" ELSE IF out = "recheck" THEN "failed" ELSE out)

(* Mutant: after the update that asked for no mark, the row is not read again. *)
FinalizedStuck(c, out) ==
  IF call[c].status # "running" \/ call[c].cancel THEN call[c]
  ELSE Ended(c, IF out = "recheck" THEN "failed" ELSE out)

(* What finalizeCall makes of a call: a cancel mark beats the outcome, and *)
(* a call that is no longer running is left alone.                         *)
Finalized(c, out) ==
  IF call[c].status # "running" THEN call[c]
  ELSE IF call[c].cancel
       THEN [Ended(c, "cancelled") EXCEPT !.effect = c \notin Waits /\ out # "recheck"]
       ELSE Ended(c, IF out = "recheck" THEN "failed" ELSE out)

(* Calls are pushed while there is room; the others are left to the scan. *)
Push(S) ==
  \E T \in SUBSET S :
    /\ work' = work \cup T
    /\ T = S \/ (Cardinality(work') = Cap /\ T \cap work = {})
    /\ Cardinality(work') <= Cap

(* The row as cancelBotCall is given it, and the attempts left. *)
Attempt(c, n) == [pc |-> "try", c |-> c, from |-> call[c].status, left |-> n]

Reverted(c) ==
  IF call[c].status = "queued"
  THEN [call[c] EXCEPT !.status = "pending", !.auth = NoAuth]
  ELSE call[c]

-----------------------------------------------------------------------------
(* The main loop: one turn of the model is evaluated, committed, executed. *)

Refused == [NewCall EXCEPT !.status = "failed", !.answer = "reply"]

(* The second wait on a thread ends at once.  Its receipt is written with  *)
(* the call already terminal, so under the key of the answer.              *)
Duplicate == [NewCall EXCEPT !.status = "succeeded", !.answer = "reply"]

(* What may become of a call in the turn: refused by its arguments, scope, *)
(* quota or policy, queued under the authorization or by the policy alone, *)
(* or left to the user.  A wait begins at once.                            *)
Accepted(c, a) ==
  LET receipted == [NewCall EXCEPT !.receipt = TRUE] IN
  {Refused} \cup
  (CASE c \in Syncs  -> {[NewCall EXCEPT !.status = "queued"]}
     [] c \in Asyncs -> {[receipted EXCEPT !.status = "queued", !.auth = b] : b \in {a, NoAuth}}
                        \cup {r \in {[receipted EXCEPT !.status = "pending"]} : a = NoAuth}
     [] c \in Waits  -> {[receipted EXCEPT !.status = "running", !.started = TRUE],
                         Duplicate})

Orders == {s \in UNION {[1..n -> Calls \ Committed] : n \in 1..MaxTurn} :
             \A i, j \in DOMAIN s : s[i] = s[j] => i = j}

(* The context of the request is built from closed tool blocks only; the   *)
(* authorization of the rule is looked up before the turn is committed.    *)
Evaluate ==
  /\ mode = "up" /\ loop.pc = "idle"
  /\ ProtocolClosed
  /\ \E a \in IF Active = {} THEN {NoAuth} ELSE Active :
       loop' = [NoLoop EXCEPT !.pc = "commit", !.auth = a]
  /\ UNCHANGED <<call, auths, writes, mode, work, worker, cancel, revoke, cancels, faults>>

(* A turn left open fails the run, and each run after it. *)
BuildFails ==
  /\ mode = "up" /\ loop.pc = "idle"
  /\ ~ProtocolClosed
  /\ UNCHANGED vars

WaitRunning == \E c \in Waits : call[c].status = "running"

(* A wait is a duplicate if another one runs, earlier in the turn or before. *)
Commit ==
  /\ loop.pc = "commit"
  /\ \E s \in Orders :
       LET new == {s[i] : i \in DOMAIN s}
       IN \E f \in [new -> UNION {Accepted(c, loop.auth) : c \in new}] :
            /\ \A c \in new : f[c] \in Accepted(c, loop.auth)
            /\ \A i \in DOMAIN s : s[i] \in Waits /\ f[s[i]] # Refused =>
                 (f[s[i]] = Duplicate <=>
                    \/ WaitRunning
                    \/ \E j \in 1..(i - 1) : s[j] \in Waits /\ f[s[j]].status = "running")
            /\ call' = [c \in Calls |-> IF c \in new THEN f[c] ELSE call[c]]
            /\ loop' = [loop EXCEPT !.pc = "look", !.turn = s, !.todo = s,
                                    !.open = {c \in new : f[c].status = "queued"}]
            /\ Push({c \in new \cap Asyncs : f[c].status = "queued"})
  /\ UNCHANGED <<auths, writes, mode, worker, cancel, revoke, cancels, faults>>

(* A turn without calls, or one that is not committed. *)
NoTurn ==
  /\ loop.pc = "commit"
  /\ loop' = NoLoop
  /\ UNCHANGED <<call, auths, writes, mode, work, worker, cancel, revoke, cancels, faults>>

(* Of the whole turn, the calls already passed included. *)

(* Mutant: a stop leaves the writes of the turn alone. *)
ClosedOnStopReads == loop.open \cap Reads

ClosedOnStop == loop.open \cap Syncs

(* Mutant: the asynchronous writes are left to the workers. *)
ClosedOnInputSyncs == loop.open \cap Writes

ClosedOnInput == loop.open \cap (Asyncs \cup Writes)

(* The asynchronous ones first, each kind in the order of the turn. *)
ClosedBefore(c, d) ==
  \/ c \in Asyncs /\ d \notin Asyncs
  \/ /\ c \in Asyncs <=> d \in Asyncs
     /\ \E i, j \in DOMAIN loop.turn : i < j /\ loop.turn[i] = c /\ loop.turn[j] = d

NextClosed == {c \in loop.close : \A d \in loop.close \ {c} : ClosedBefore(c, d)}

(* The safe point before each call.  A stop closes the synchronous calls   *)
(* nobody has begun; the first new input closes the writes among them, the *)
(* asynchronous ones first.                                                *)
Look ==
  /\ loop.pc = "look"
  /\ \/ loop' = [loop EXCEPT !.pc = "stopping", !.close = ClosedOnStop]
     \/ /\ ~loop.seen
        /\ loop' = [loop EXCEPT !.pc = "closing", !.seen = TRUE,
                                !.close = ClosedOnInput]
     \/ loop' = [loop EXCEPT !.pc = "invoke"]
  /\ UNCHANGED <<call, auths, writes, mode, work, worker, cancel, revoke, cancels, faults>>

(* Mutant: the call is closed without its reply. *)
NotExecutedSilent(c) ==
  IF call[c].status = "queued" THEN [call[c] EXCEPT !.status = "not_executed"] ELSE call[c]

NotExecuted(c) ==
  IF call[c].status = "queued" THEN Ended(c, "not_executed") ELSE call[c]

CloseOne ==
  /\ loop.pc \in {"closing", "stopping"}
  /\ \E c \in NextClosed :
       /\ call' = [call EXCEPT ![c] = NotExecuted(c)]
       /\ loop' = [loop EXCEPT !.close = @ \ {c},
                               !.open = IF call[c].status = "queued" THEN @ \ {c} ELSE @]
  /\ UNCHANGED <<auths, writes, mode, work, worker, cancel, revoke, cancels, faults>>

CloseFails ==
  /\ loop.pc \in {"closing", "stopping"}
  /\ Fault("tx")
  /\ \E c \in NextClosed : loop' = [loop EXCEPT !.close = @ \ {c}]
  /\ UNCHANGED <<call, auths, writes, mode, work, worker, cancel, revoke, cancels>>

CloseDone ==
  /\ loop.pc \in {"closing", "stopping"}
  /\ loop.close = {}
  /\ loop' = IF loop.pc = "stopping" THEN NoLoop ELSE [loop EXCEPT !.pc = "invoke"]
  /\ UNCHANGED <<call, auths, writes, mode, work, worker, cancel, revoke, cancels, faults>>

(* The call is dealt with: on to the next one of the turn, or to the next turn. *)
After(l) ==
  IF Len(l.todo) > 1 THEN [l EXCEPT !.pc = "look", !.todo = Tail(@)] ELSE NoLoop

(* Mutant: a call that has begun is claimed again. *)
ClaimableAgain(c) == call[c].status \in {"queued", "running"}

(* ClaimQueuedTx. *)
Claimable(c) == call[c].status = "queued"

Cur == Head(loop.todo)

(* Once new input was seen only the reads of the turn are executed.  The   *)
(* loop goes by its copy of the row, the claim by the row.                 *)
Invoke ==
  /\ loop.pc = "invoke"
  /\ IF Cur \notin loop.open \/ (loop.seen /\ Cur \notin Reads)
     THEN loop' = After(loop) /\ UNCHANGED <<call, work>>
     ELSE IF Cur \in Asyncs
     THEN loop' = After(loop) /\ Push({Cur}) /\ UNCHANGED call
     ELSE IF Claimable(Cur)
     THEN /\ call' = [call EXCEPT ![Cur].status = "running", ![Cur].started = TRUE]
          /\ loop' = [loop EXCEPT !.pc = "execute", !.open = @ \ {Cur}]
          /\ UNCHANGED work
     ELSE loop' = After(loop) /\ UNCHANGED <<call, work>>
  /\ UNCHANGED <<auths, writes, mode, worker, cancel, revoke, cancels, faults>>

Outcome == {"succeeded", "failed"}

(* A tool that fails may have written nevertheless. *)
TookEffect(c, out) ==
  \/ writes' = [writes EXCEPT ![c] = @ + 1]
  \/ out = "failed" /\ UNCHANGED writes

Execute ==
  /\ loop.pc = "execute"
  /\ \E out \in Outcome :
       /\ Cur \in Cancels => out = "failed"
       /\ loop' = [loop EXCEPT !.pc = "finish", !.out = out]
       /\ IF Cur \in Writes \ Cancels THEN TookEffect(Cur, out) ELSE UNCHANGED writes
  /\ UNCHANGED <<call, auths, mode, work, worker, cancel, revoke, cancels, faults>>

(* fs_cancel: the loop cancels a call of its own bot, with one attempt.    *)
ExecuteCancel ==
  /\ loop.pc = "execute"
  /\ Cur \in Cancels
  /\ \E c \in Committed :
       cancel' = [cancel EXCEPT ![Own] = IF Open(c) THEN Attempt(c, 1) ELSE NoCancel]
  /\ loop' = [loop EXCEPT !.pc = "cancelling", !.out = "succeeded"]
  /\ UNCHANGED <<call, auths, writes, mode, work, worker, revoke, cancels, faults>>

ExecuteCancelDone ==
  /\ loop.pc = "cancelling"
  /\ cancel[Own].pc = "idle"
  /\ loop' = [loop EXCEPT !.pc = "finish"]
  /\ UNCHANGED <<call, auths, writes, mode, work, worker, cancel, revoke, cancels, faults>>

(* finalizeCall of a synchronous call, with the protocol reply. *)
Finish ==
  /\ loop.pc = "finish"
  /\ call' = [call EXCEPT ![Cur] = Finalized(Cur, loop.out)]
  /\ loop' = After(loop)
  /\ UNCHANGED <<auths, writes, mode, work, worker, cancel, revoke, cancels, faults>>

FinishFails ==
  /\ loop.pc = "finish"
  /\ Fault("tx")
  /\ loop' = After(loop)
  /\ UNCHANGED <<call, auths, writes, mode, work, worker, cancel, revoke, cancels>>

(* The tool panics; runBotSlot ends the run and gives the slot back. *)
Panic ==
  /\ loop.pc = "execute"
  /\ Fault("panic")
  /\ loop' = NoLoop
  /\ UNCHANGED <<call, auths, writes, mode, work, worker, cancel, revoke, cancels>>

-----------------------------------------------------------------------------
(* The workers. *)

(* Mutant: nobody makes up for a dropped push. *)
ScanQueuedNever(c) == FALSE

(* Mutant: the scan does not ask for the mode of the call. *)
ScanQueuedAny(c) ==
  /\ mode = "up"
  /\ call[c].status = "queued"
  /\ c \notin work /\ Cardinality(work) < Cap
  /\ work' = work \cup {c}
  /\ UNCHANGED <<call, auths, writes, mode, loop, worker, cancel, revoke, cancels, faults>>

(* scanQueuedCalls, each 5 s: duplicates are harmless. *)
ScanQueued(c) ==
  /\ mode = "up"
  /\ c \in Asyncs /\ call[c].status = "queued"
  /\ c \notin work /\ Cardinality(work) < Cap
  /\ work' = work \cup {c}
  /\ UNCHANGED <<call, auths, writes, mode, loop, worker, cancel, revoke, cancels, faults>>

(* The row is read once; status and authorization are used until the claim. *)
TakeWork(w) ==
  /\ mode = "up" /\ worker[w].pc = "idle"
  /\ \E c \in work :
       /\ work' = work \ {c}
       /\ worker' = IF call[c].status = "queued"
                    THEN [worker EXCEPT ![w].pc = "claim", ![w].c = c,
                                        ![w].auth = call[c].auth]
                    ELSE worker
  /\ UNCHANGED <<call, auths, writes, mode, loop, cancel, revoke, cancels, faults>>

(* The authorization that was read is checked again in the claim. *)
Claim(w) ==
  LET c == worker[w].c IN
  /\ worker[w].pc = "claim"
  /\ IF Dead(worker[w].auth)
     THEN worker' = [worker EXCEPT ![w].pc = "revert"] /\ UNCHANGED call
     ELSE IF Claimable(c)
     THEN /\ call' = [call EXCEPT ![c].status = "running", ![c].started = TRUE]
          /\ worker' = [worker EXCEPT ![w].pc = "register"]
     ELSE worker' = [worker EXCEPT ![w] = NoWork] /\ UNCHANGED call
  /\ UNCHANGED <<auths, writes, mode, work, loop, cancel, revoke, cancels, faults>>

(* Revert looks at the status only, not at the authorization. *)
WorkerRevert(w) ==
  LET c == worker[w].c IN
  /\ worker[w].pc = "revert"
  /\ call' = [call EXCEPT ![c] = Reverted(c)]
  /\ worker' = [worker EXCEPT ![w] = NoWork]
  /\ UNCHANGED <<auths, writes, mode, work, loop, cancel, revoke, cancels, faults>>

Register(w) ==
  /\ worker[w].pc = "register"
  /\ worker' = [worker EXCEPT ![w].pc = "check", ![w].ctx = "live"]
  /\ UNCHANGED <<call, auths, writes, mode, work, loop, cancel, revoke, cancels, faults>>

(* Mutant: the mark is not looked at after the registration. *)
CheckCancelNever(w) ==
  /\ worker[w].pc = "check"
  /\ worker' = [worker EXCEPT ![w].pc = "recheck"]
  /\ UNCHANGED <<call, auths, writes, mode, work, loop, cancel, revoke, cancels, faults>>

(* A cancel that was marked before the context was registered had nothing  *)
(* to signal: the mark is looked at once more.                             *)
CheckCancel(w) ==
  /\ worker[w].pc = "check"
  /\ worker' = IF call[worker[w].c].cancel
               THEN [worker EXCEPT ![w].pc = "finish", ![w].out = "cancelled"]
               ELSE [worker EXCEPT ![w].pc = "recheck"]
  /\ UNCHANGED <<call, auths, writes, mode, work, loop, cancel, revoke, cancels, faults>>

(* The conditions of the write policy, evaluated anew; a standing           *)
(* authorization spares the call this.                                     *)
Recheck(w) ==
  /\ worker[w].pc = "recheck"
  /\ \/ worker' = [worker EXCEPT ![w].pc = "write"]
     \/ /\ worker[w].auth = NoAuth
        /\ worker' = [worker EXCEPT ![w].pc = "finish", ![w].out = "recheck"]
  /\ UNCHANGED <<call, auths, writes, mode, work, loop, cancel, revoke, cancels, faults>>

Write(w) ==
  /\ worker[w].pc = "write"
  /\ \E out \in Outcome :
       /\ worker' = [worker EXCEPT ![w].pc = "finish", ![w].out = out]
       /\ TookEffect(worker[w].c, out)
  /\ UNCHANGED <<call, auths, mode, work, loop, cancel, revoke, cancels, faults>>

WorkerFinish(w) ==
  LET c == worker[w].c IN
  /\ worker[w].pc = "finish"
  /\ call' = [call EXCEPT ![c] = Finalized(c, worker[w].out)]
  /\ worker' = [worker EXCEPT ![w] = NoWork]
  /\ UNCHANGED <<auths, writes, mode, work, loop, cancel, revoke, cancels, faults>>

WorkerFinishFails(w) ==
  /\ worker[w].pc = "finish"
  /\ Fault("tx")
  /\ worker' = [worker EXCEPT ![w] = NoWork]
  /\ UNCHANGED <<call, auths, writes, mode, work, loop, cancel, revoke, cancels>>

(* The evaluator of the waits ends one: fulfilled, timed out or cancelled. *)
WaitEnds(c) ==
  /\ mode = "up"
  /\ c \in Waits /\ call[c].status = "running"
  /\ \E out \in Outcome : call' = [call EXCEPT ![c] = Finalized(c, out)]
  /\ UNCHANGED <<auths, writes, mode, work, loop, worker, cancel, revoke, cancels, faults>>

-----------------------------------------------------------------------------
(* The user. *)

(* always_allow makes an authorization, or finds the one that is active;   *)
(* one that expired is revoked to make room for it.                        *)
Granted(a) ==
  /\ IF Active = {} THEN auths[a] = "none" ELSE a \in Active
  /\ auths' = [b \in Auths |-> IF b = a THEN "active"
                               ELSE IF auths[b] = "expired" THEN "revoked" ELSE auths[b]]

Decided(c, d) == [call[c] EXCEPT !.decision = d]

Approve(c) ==
  /\ mode = "up" /\ call[c].status = "pending"
  /\ \/ /\ call' = [call EXCEPT ![c] = [Decided(c, "approve") EXCEPT !.status = "queued"]]
        /\ UNCHANGED auths
     \/ \E a \in Auths :
          /\ Granted(a)
          /\ call' = [call EXCEPT ![c] = [Decided(c, "always_allow") EXCEPT
                                            !.status = "queued", !.auth = a]]
  /\ Push({c})
  /\ UNCHANGED <<writes, mode, loop, worker, cancel, revoke, cancels, faults>>

Reject(c) ==
  /\ mode = "up" /\ call[c].status = "pending"
  /\ call' = [call EXCEPT ![c] =
                Answered([Decided(c, "reject") EXCEPT !.status = "rejected"], "result")]
  /\ UNCHANGED <<auths, writes, mode, work, loop, worker, cancel, revoke, cancels, faults>>

Expire(a) ==
  /\ auths[a] = "active"
  /\ Fault("expiry")
  /\ auths' = [auths EXCEPT ![a] = "expired"]
  /\ UNCHANGED <<call, writes, mode, work, loop, worker, cancel, revoke, cancels>>

Revoke(a) ==
  /\ mode = "up" /\ revoke.pc = "idle"
  /\ auths[a] \in {"active", "expired"}
  /\ auths' = [auths EXCEPT ![a] = "revoked"]
  /\ revoke' = [pc |-> "list", a |-> a, list |-> {}]
  /\ UNCHANGED <<call, writes, mode, work, loop, worker, cancel, cancels, faults>>

RevokeList ==
  LET list == {c \in Calls : call[c].status = "queued" /\ call[c].auth = revoke.a} IN
  /\ revoke.pc = "list"
  /\ revoke' = IF list = {} THEN NoRevoke ELSE [revoke EXCEPT !.pc = "revert", !.list = list]
  /\ UNCHANGED <<call, auths, writes, mode, work, loop, worker, cancel, cancels, faults>>

RevokeRevert(c) ==
  /\ c \in revoke.list
  /\ call' = [call EXCEPT ![c] = Reverted(c)]
  /\ revoke' = IF revoke.list = {c} THEN NoRevoke ELSE [revoke EXCEPT !.list = @ \ {c}]
  /\ UNCHANGED <<auths, writes, mode, work, loop, worker, cancel, cancels, faults>>

(* CancelCall reads the row, then tries up to three times. *)
Cancel(u, c) ==
  /\ mode = "up" /\ cancel[u].pc = "idle"
  /\ cancels < MaxCancels
  /\ Open(c)
  /\ cancel' = [cancel EXCEPT ![u] = Attempt(c, 3)]
  /\ cancels' = cancels + 1
  /\ UNCHANGED <<call, auths, writes, mode, work, loop, worker, revoke, faults>>

(* A call nobody began ends at once; a running one is marked. *)
CancelTry(k) ==
  LET c == cancel[k].c IN
  /\ cancel[k].pc = "try"
  /\ IF call[c].status # cancel[k].from
     THEN cancel' = [cancel EXCEPT ![k].pc = "reread"] /\ UNCHANGED call
     ELSE IF call[c].status = "running"
     THEN /\ call' = [call EXCEPT ![c].cancel = TRUE]
          /\ cancel' = [cancel EXCEPT ![k].pc = "signal"]
     ELSE /\ call' = [call EXCEPT ![c] = Ended(c, "cancelled")]
          /\ cancel' = [cancel EXCEPT ![k] = NoCancel]
  /\ UNCHANGED <<auths, writes, mode, work, loop, worker, revoke, cancels, faults>>

CancelSignal(k) ==
  LET c == cancel[k].c IN
  /\ cancel[k].pc = "signal"
  /\ worker' = [w \in Workers |-> IF worker[w].c = c /\ worker[w].ctx = "live"
                                  THEN [worker[w] EXCEPT !.ctx = "cancelled"]
                                  ELSE worker[w]]
  /\ cancel' = [cancel EXCEPT ![k] = NoCancel]
  /\ UNCHANGED <<call, auths, writes, mode, work, loop, revoke, cancels, faults>>

(* An attempt that lost its race reads the row again; it gives up when the *)
(* status is the one it started from.                                      *)
CancelReread(k) ==
  LET c == cancel[k].c IN
  /\ cancel[k].pc = "reread"
  /\ cancel' = [cancel EXCEPT ![k] =
                  IF call[c].status # cancel[k].from /\ Open(c) /\ cancel[k].left > 1
                  THEN Attempt(c, cancel[k].left - 1) ELSE NoCancel]
  /\ UNCHANGED <<call, auths, writes, mode, work, loop, worker, revoke, cancels, faults>>

-----------------------------------------------------------------------------
(* A crash, and RecoverOnStartup, which ends before anything else starts.  *)

Crash ==
  /\ mode = "up"
  /\ Fault("crash")
  /\ mode' = "recovery"
  /\ work' = {}
  /\ loop' = NoLoop
  /\ worker' = [w \in Workers |-> NoWork]
  /\ cancel' = [k \in Users \cup {Own} |-> NoCancel]
  /\ revoke' = NoRevoke
  /\ UNCHANGED <<call, auths, writes, cancels>>

(* Whether an interrupted call may have had an effect: never a wait. *)
InterruptedEffect(c) == c \in Asyncs \cup (Writes \ Cancels)

(* The protocol reply, if it is missing, comes before the result: the key  *)
(* of the two is the same.                                                 *)
Interrupted(c) ==
  LET failed  == [call[c] EXCEPT !.status = "failed", !.effect = InterruptedEffect(c)]
      replied == IF call[c].receipt THEN failed ELSE Answered(failed, "reply")
  IN  Answered(replied, "result")

RecoverRunning(c) ==
  /\ mode = "recovery" /\ call[c].status = "running"
  /\ call' = [call EXCEPT ![c] = Interrupted(c)]
  /\ UNCHANGED <<auths, writes, mode, work, loop, worker, cancel, revoke, cancels, faults>>

RecoverQueued(c) ==
  /\ mode = "recovery" /\ c \in Syncs /\ call[c].status = "queued"
  /\ call' = [call EXCEPT ![c] = NotExecuted(c)]
  /\ UNCHANGED <<auths, writes, mode, work, loop, worker, cancel, revoke, cancels, faults>>

Recovered ==
  /\ mode = "recovery"
  /\ \A c \in Calls : call[c].status # "running" /\ (c \in Syncs => call[c].status # "queued")
  /\ mode' = "up"
  /\ UNCHANGED <<call, auths, writes, work, loop, worker, cancel, revoke, cancels, faults>>

-----------------------------------------------------------------------------
LoopStep ==
  \/ Commit \/ NoTurn \/ Look \/ CloseOne \/ CloseDone \/ Invoke
  \/ Execute \/ ExecuteCancel \/ ExecuteCancelDone \/ Finish

WorkerStep(w) ==
  \/ TakeWork(w) \/ Claim(w) \/ WorkerRevert(w) \/ Register(w) \/ CheckCancel(w)
  \/ Recheck(w) \/ Write(w) \/ WorkerFinish(w)

CancelStep(k) == CancelTry(k) \/ CancelSignal(k) \/ CancelReread(k)

Recovery == Recovered \/ \E c \in Calls : RecoverRunning(c) \/ RecoverQueued(c)

UserStep ==
  \/ \E c \in Calls : Approve(c) \/ Reject(c) \/ \E u \in Users : Cancel(u, c)
  \/ \E a \in Auths : Expire(a) \/ Revoke(a)

RevokeStep == RevokeList \/ \E c \in Calls : RevokeRevert(c)

FaultStep ==
  \/ CloseFails \/ FinishFails \/ Panic \/ Crash
  \/ \E w \in Workers : WorkerFinishFails(w)

Next ==
  \/ Evaluate \/ BuildFails
  \/ LoopStep
  \/ \E w \in Workers : WorkerStep(w)
  \/ \E k \in Users \cup {Own} : CancelStep(k)
  \/ \E c \in Calls : ScanQueued(c) \/ WaitEnds(c)
  \/ UserStep
  \/ RevokeStep
  \/ Recovery
  \/ FaultStep

Spec == Init /\ [][Next]_vars

(* Goroutines go on, tools and writes end by their timeouts, waits by      *)
(* theirs, the scan comes back; nobody has to ask for anything.            *)
FairSpec ==
  /\ Spec
  /\ WF_vars(LoopStep)
  /\ \A w \in Workers : WF_vars(WorkerStep(w))
  /\ \A k \in Users \cup {Own} : WF_vars(CancelStep(k))
  /\ \A c \in Calls : WF_vars(ScanQueued(c)) /\ WF_vars(WaitEnds(c))
  /\ WF_vars(RevokeStep)
  /\ WF_vars(Recovery)

-----------------------------------------------------------------------------
LoopLocals ==
  [pc    : {"idle", "commit", "look", "closing", "stopping", "invoke",
            "execute", "cancelling", "finish"},
   auth  : Auths \cup {NoAuth}, turn : Seq(Calls), todo : Seq(Calls),
   open  : SUBSET Calls, close : SUBSET Calls, seen : BOOLEAN, out : Outcome]

WorkerLocals ==
  [pc   : {"idle", "claim", "revert", "register", "check", "recheck", "write", "finish"},
   c    : Asyncs \cup {NoCall}, auth : Auths \cup {NoAuth},
   out  : Outcome \cup {"cancelled", "recheck"}, ctx : {"none", "live", "cancelled"}]

CancelLocals ==
  [pc   : {"idle", "try", "signal", "reread"}, c : Calls \cup {NoCall},
   from : {"none", "pending", "queued", "running"}, left : 0..3]

RevokeLocals ==
  [pc : {"idle", "list", "revert"}, a : Auths \cup {NoAuth}, list : SUBSET Calls]

(* Every variable has its type; the channel never holds more than Cap. *)
TypeOK ==
  /\ call \in [Calls -> Call]
  /\ auths \in [Auths -> {"none", "active", "expired", "revoked"}]
  /\ writes \in [Calls -> Nat]
  /\ mode \in {"up", "recovery"}
  /\ work \in SUBSET Asyncs /\ Cardinality(work) <= Cap
  /\ loop \in LoopLocals
  /\ worker \in [Workers -> WorkerLocals]
  /\ cancel \in [Users \cup {Own} -> CancelLocals]
  /\ revoke \in RevokeLocals
  /\ cancels \in 0..MaxCancels
  /\ faults \in 0..MaxFaults

(* A call has one protocol reply, either the receipt or its end; the end   *)
(* is told exactly when the status is terminal, and as a result only after *)
(* a receipt.  A result without a reply would leave the turn open for good.*)
OneReply ==
  \A c \in Calls :
    /\ call[c].answer # "none" <=> call[c].status \in Terminal
    /\ call[c].answer = "reply" => ~call[c].receipt
    /\ call[c].answer = "result" => call[c].receipt

(* Whenever the loop gets to build a context, the tool blocks are closed.  *)
(* Otherwise every request would fail until the next restart.              *)
BuildableWhenIdle == mode = "up" /\ loop.pc = "idle" => ProtocolClosed

(* A worker past its last look at the mark has a cancelled context, or is  *)
(* about to be signalled: no accepted cancel is lost between claim and     *)
(* registration.                                                           *)
CancelReaches ==
  \A w \in Workers :
    worker[w].pc \in {"recheck", "write"} /\ call[worker[w].c].cancel =>
      \/ worker[w].ctx = "cancelled"
      \/ \E k \in DOMAIN cancel : cancel[k].pc = "signal" /\ cancel[k].c = worker[w].c

(* A cancelled call that took effect says that it may have. *)
CancelDisclosed ==
  \A c \in Calls : call[c].status = "cancelled" /\ writes[c] > 0 => call[c].effect

(* After the loop saw new input and closed the writes of its turn, none of *)
(* them is left for a worker, unless the user approved it.                 *)
NewInputHolds ==
  loop.seen /\ loop.pc # "closing" =>
    \A i \in DOMAIN loop.turn :
      LET c == loop.turn[i] IN
      c \notin Reads /\ call[c].status = "queued" => call[c].decision # "none"

(* A running call with a cancel mark ends cancelled, whatever comes back.  *)
CancelWins ==
  [][\A c \in Calls :
       mode = "up" /\ call[c].status = "running" /\ call[c].cancel
         => call'[c].status \in {"running", "cancelled"}]_vars

(* The ledger keeps the contract: one beginning, one write at most, before *)
(* the end, and one end that is told in the same step.                     *)
PhaseOf(c) ==
  CASE call[c].status = "none"                  -> "none"
    [] call[c].status \in {"pending", "queued"} -> "open"
    [] call[c].status = "running"               -> "running"
    [] OTHER                                    -> "settled"

Contract == INSTANCE CallContract WITH
  phase <- [c \in Calls |-> PhaseOf(c)],
  told  <- [c \in Calls |-> call[c].answer],
  done  <- writes

KeepsContract == Contract!Spec

(* A queued call does not stay queued: it is claimed, closed, put back to  *)
(* the user, cancelled or recovered, also when its push was dropped.       *)
QueuedServed ==
  \A c \in Calls : call[c].status = "queued" ~> call[c].status # "queued"

(* A call that has begun ends. *)
RunningSettles ==
  \A c \in Calls : call[c].status = "running" ~> call[c].status \in Terminal

(* What a comment says of the claim: a revoked authorization moves no call *)
(* to running any more.                                                    *)
RevokedNeverClaims ==
  [][\A c \in Asyncs :
       call[c].status = "queued" /\ call[c].auth # NoAuth /\ auths[call[c].auth] = "revoked"
         => call'[c].status # "running"]_vars
=============================================================================
