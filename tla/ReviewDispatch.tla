--------------------------- MODULE ReviewDispatch ---------------------------
(* The code reviews of one pull request (service/review_*.go): the webhook  *)
(* handler that accepts a head and supersedes the runs of the old one, the  *)
(* tick of the scheduler that consumes the debounce row, opens a round,     *)
(* launches its runs in T3, times them out, publishes their outcome and     *)
(* archives their threads, the agent that submits a result, and the rerun   *)
(* by the user.  A transaction is one step; between the transactions and    *)
(* the remote calls of an operation everything else may happen.             *)
(*                                                                          *)
(* The sync compares its epoch with the one of the ledger and nothing else, *)
(* so `current` stands for both: the running sync still has the epoch of    *)
(* the ledger.  Visual runs, comments and worktrees are left out.           *)
EXTENDS Naturals, Sequences, FiniteSets, FiniteSetsExt

CONSTANTS Heads,         \* SHAs of the head of the pull request, 1 is the first
          Triggers,      \* actions the project has ticked
          Combos,        \* number of code combinations of the project
          MaxInflight,   \* reviewMaxInflightPerUser
          MaxTries,      \* reviewWorktreeMaxTries
          MaxRuns, MaxPushes, MaxToggles, MaxReruns,   \* bounds
          Faults, MaxFaults

Actions == {"opened", "synchronize", "reopened"}

ASSUME ReviewAssumption ==
  /\ Heads \subseteq Nat \ {0} /\ IsFiniteSet(Heads) /\ 1 \in Heads
  /\ Triggers \subseteq Actions
  /\ {Combos, MaxInflight, MaxTries} \subseteq Nat \ {0}
  /\ {MaxRuns, MaxPushes, MaxToggles, MaxReruns, MaxFaults} \subseteq Nat
  /\ Faults \subseteq {"crash", "read", "denied", "unready", "unsent", "unconfirmed",
                       "refused", "glitch"}

NoHead == 0
NoRun == 0
RunId == 1 .. MaxRuns
PR == 0     \* in a list of the tick: the pull request, or its user

Active == {"dispatched", "running"}
Unfinished == {"queued"} \cup Active
Terminal == {"completed", "failed", "timed_out", "cancelled"}
Code == {"", "superseded", "pr_closed", "dispatch_failed", "access_denied", "timeout"}
CommitStatus == {"", "pending", "error", "success"}

Stages == <<"debounce", "promote", "dispatch", "timeout", "interrupt", "sync", "archive">>

VARIABLES remote,      \* the pull request on the platform
          mail,        \* deliveries under way
          published,   \* the commit status of every head on the platform
          ledger,      \* the row of review_pull_requests
          current,     \* the running sync has the ledger's sync_epoch
          seen,        \* review_seen_shas: pr_updated_at of an accepted head
          debounce,    \* the row of review_debounces
          runs,        \* the rows of review_runs and their tokens
          thread,      \* the T3 thread of every run
          tries,       \* worktreeTries: failed attempts to archive it, in memory
          submit,      \* result requests of the agents under way
          rerun,       \* the head a rerun has read
          sched,       \* the tick of the scheduler
          used         \* what the bounds count

vars == <<remote, mail, published, ledger, current, seen, debounce, runs, thread,
          tries, submit, rerun, sched, used>>

Row == [status : {"none"} \cup Unfinished \cup Terminal, code : Code,
        head : Heads \cup {NoHead}, round : 0 .. MaxRuns,
        claim : {"no", "fresh", "old"},        \* dispatch_started_at
        launched : BOOLEAN,                    \* dispatched_at
        token : {"none", "live", "consumed"},
        overdue : BOOLEAN,                     \* deadline, or the wait for its thread
        stopped : BOOLEAN, archived : {"no", "yes", "failed"}]
NoRow == [status |-> "none", code |-> "", head |-> NoHead, round |-> 0, claim |-> "no",
          launched |-> FALSE, token |-> "none", overdue |-> FALSE, stopped |-> FALSE,
          archived |-> "no"]
NoTries == [refused |-> 0, missing |-> 0]
NoDebounce == [head |-> NoHead, due |-> FALSE]
Idle == [stage |-> 0, todo |-> {}, pc |-> "list", run |-> NoRun, head |-> NoHead,
         want |-> ""]

TypeOK ==
  /\ remote \in [head : Heads, open : BOOLEAN, at : Nat]
  /\ mail \subseteq [action : Actions \cup {"closed"}, head : Heads, at : Nat]
  /\ published \in [Heads -> CommitStatus]
  /\ ledger \in [head : Heads \cup {NoHead}, round : 0 .. MaxRuns, pending : BOOLEAN,
                 status : CommitStatus]
  /\ current \in BOOLEAN
  /\ current => ledger.pending /\ sched.stage # 0 /\ Stages[sched.stage] = "sync"
  /\ seen \in [Heads -> Nat]
  /\ debounce \in [head : Heads \cup {NoHead}, due : BOOLEAN]
  /\ runs \in [RunId -> Row]
  /\ thread \in [RunId -> {"none", "live", "stopped", "archived"}]
  /\ tries \in [RunId -> [refused : 0 .. MaxTries - 1, missing : 0 .. MaxTries - 1]]
  /\ submit \in [RunId -> {"none", "loaded", "fresh", "late", "stale"}]
  /\ rerun \in Heads \cup {NoHead}
  /\ sched \in [stage : 0 .. Len(Stages), todo : SUBSET (RunId \cup {PR}),
                pc : {"list", "open", "drop", "check", "token", "create", "confirm",
                      "read", "guard", "write", "record", "comment"},
                run : RunId \cup {NoRun}, head : Heads \cup {NoHead}, want : CommitStatus]
  /\ used \in [pushes : 0 .. MaxPushes, toggles : 0 .. MaxToggles,
               reruns : 0 .. MaxReruns, faults : 0 .. MaxFaults]

(* The pull request has just been opened.                                  *)
Init ==
  /\ remote = [head |-> 1, open |-> TRUE, at |-> 1]
  /\ mail = {[action |-> "opened", head |-> 1, at |-> 1]}
  /\ published = [h \in Heads |-> ""]
  /\ ledger = [head |-> NoHead, round |-> 0, pending |-> FALSE, status |-> ""]
  /\ current = FALSE
  /\ seen = [h \in Heads |-> 0]
  /\ debounce = NoDebounce
  /\ runs = [r \in RunId |-> NoRow]
  /\ thread = [r \in RunId |-> "none"]
  /\ tries = [r \in RunId |-> NoTries]
  /\ submit = [r \in RunId |-> "none"]
  /\ rerun = NoHead
  /\ sched = Idle
  /\ used = [pushes |-> 0, toggles |-> 0, reruns |-> 0, faults |-> 0]

Fault(f) == /\ f \in Faults
            /\ used.faults < MaxFaults
            /\ used' = [used EXCEPT !.faults = @ + 1]

--------------------------------------------------------------------------
(* Rows.                                                                   *)

InStatus(S) == {r \in RunId : runs[r].status \in S}
RunsOf(h) == {r \in RunId : runs[r].head = h}
RoundRuns == {r \in RunId : runs[r].head = ledger.head /\ runs[r].round = ledger.round}

(* The end of a run consumes its token; its deadline means no more.        *)
Ended(row, status, code) ==
  [row EXCEPT !.status = status, !.code = code, !.overdue = FALSE,
              !.token = IF @ = "live" THEN "consumed" ELSE @]

EndRun(r, status, code) == [runs EXCEPT ![r] = Ended(@, status, code)]

(* Every ending but a superseding one asks for a sync, at a new epoch.     *)
MarkPending == /\ ledger' = [ledger EXCEPT !.pending = TRUE]
               /\ current' = FALSE
EndAndMark(r, status, code) == runs' = EndRun(r, status, code) /\ MarkPending

(* An ending that finds the run ended already changes nothing.             *)
EndIf(r, from, status, code) ==
  IF runs[r].status \in from
  THEN EndAndMark(r, status, code)
  ELSE UNCHANGED <<runs, ledger, current>>

SupersedeActive ==
  [r \in RunId |-> IF runs[r].status \in Active
                   THEN Ended(runs[r], "cancelled", "superseded") ELSE runs[r]]

SupersedeRuns ==
  [r \in RunId |-> IF runs[r].status \in Unfinished
                   THEN Ended(runs[r], "cancelled", "superseded") ELSE runs[r]]

(* The oldest queued runs take the places of the user that are free.       *)
Promoted(rs) ==
  LET active == Cardinality({r \in RunId : rs[r].status \in Active})
      queued == {r \in RunId : rs[r].status = "queued"}
      first == {r \in queued : active + Cardinality({q \in queued : q < r}) < MaxInflight}
  IN [r \in RunId |-> IF r \in first THEN [rs[r] EXCEPT !.status = "dispatched"] ELSE rs[r]]

Latest(rs) == Max({rs[r].round : r \in RunId} \cup {0})

(* A rerun opens a new round always, a push only for a head without runs.  *)
NextRound(rs, h, manual) ==
  LET same == {r \in RunId : rs[r].head = h}
  IN IF ~manual /\ same # {} THEN rs[Min(same)].round ELSE Latest(rs) + 1

(* The rows of a round: one per combination, unless they are there.        *)
WithRound(rs, h, round) ==
  LET rows == {r \in RunId : rs[r].status # "none"}
      there == \E r \in rows : rs[r].head = h /\ rs[r].round = round
      new == IF there THEN {}
             ELSE (Cardinality(rows) + 1) .. (Cardinality(rows) + Combos)
  IN [r \in RunId |-> IF r \in new
                      THEN [NoRow EXCEPT !.status = "queued", !.head = h, !.round = round]
                      ELSE rs[r]]
Room == Cardinality(InStatus({"none"})) >= Combos     \* a bound

OpenRound(rs, h, manual) ==
  LET round == NextRound(rs, h, manual)
  IN /\ Room
     /\ runs' = Promoted(WithRound(rs, h, round))
     /\ ledger' = [head |-> h, round |-> round, pending |-> TRUE, status |-> ""]
     /\ current' = FALSE

--------------------------------------------------------------------------
(* The platform.                                                           *)

Becomes(pr) ==
  /\ remote' = pr
  /\ UNCHANGED <<published, ledger, current, seen, debounce, runs, thread,
                 tries, submit, rerun, sched>>
Send(action, pr) ==
  Becomes(pr) /\ mail' = mail \cup {[action |-> action, head |-> pr.head, at |-> pr.at]}
Lost(pr) == Becomes(pr) /\ UNCHANGED mail

Toggle == /\ used.toggles < MaxToggles
          /\ used' = [used EXCEPT !.toggles = @ + 1]

Push(h) ==
  /\ remote.open /\ h # remote.head
  /\ used.pushes < MaxPushes
  /\ used' = [used EXCEPT !.pushes = @ + 1]
  /\ Send("synchronize", [remote EXCEPT !.head = h, !.at = @ + 1])

(* Lost deliveries of a head are redelivered or polled, those of a closed  *)
(* pull request are not.                                                   *)
Close == /\ remote.open
         /\ Toggle
         /\ \/ Send("closed", [remote EXCEPT !.open = FALSE, !.at = @ + 1])
            \/ Lost([remote EXCEPT !.open = FALSE, !.at = @ + 1])

Reopen == /\ ~remote.open
          /\ Toggle
          /\ Send("reopened", [remote EXCEPT !.open = TRUE, !.at = @ + 1])

--------------------------------------------------------------------------
(* The webhook.  Deliveries may arrive in any order.                       *)

CurrentHead == IF debounce.head # NoHead THEN debounce.head ELSE ledger.head

(* Older than the accepted head, or, if that has no time, not what the     *)
(* platform says now.                                                      *)
Outdated(e) ==
  /\ CurrentHead # NoHead
  /\ IF seen[CurrentHead] # 0
     THEN IF e.head = CurrentHead THEN e.at <= seen[CurrentHead] ELSE e.at < seen[CurrentHead]
     ELSE e.head # CurrentHead /\ ~(remote.open /\ remote.head = e.head)

Known(e) ==
  \/ e.head # CurrentHead /\ seen[e.head] # 0
  \/ e.action = "opened" /\ CurrentHead # NoHead
  \/ RunsOf(e.head) # {}

AcceptHeadSameEpoch(h) ==
  IF h = CurrentHead
  THEN UNCHANGED <<ledger, current, runs>>
  ELSE /\ runs' = SupersedeRuns
       /\ ledger' = [ledger EXCEPT !.head = h, !.pending = FALSE]
       /\ UNCHANGED current

(* A new head ends the runs and the sync of the old one at once.           *)
AcceptHead(h) ==
  IF h = CurrentHead
  THEN UNCHANGED <<ledger, current, runs>>
  ELSE /\ runs' = SupersedeRuns
       /\ ledger' = [ledger EXCEPT !.head = h, !.pending = FALSE]
       /\ current' = FALSE

DebounceAfter(e) ==
  IF e.action \in Triggers THEN [head |-> e.head, due |-> FALSE]
  ELSE IF e.head = CurrentHead THEN debounce ELSE NoDebounce

HandleClosed(e) ==
  /\ e.action = "closed"
  /\ runs' = SupersedeRuns
  /\ debounce' = NoDebounce
  /\ ledger' = [ledger EXCEPT !.pending = FALSE]
  /\ current' = FALSE
  /\ UNCHANGED seen

HandleIgnored(e) ==
  /\ e.action # "closed"
  /\ Outdated(e) \/ Known(e)
  /\ UNCHANGED <<ledger, current, runs, debounce, seen>>

HandleAccepted(e) ==
  /\ e.action # "closed"
  /\ ~Outdated(e) /\ ~Known(e)
  /\ seen' = [seen EXCEPT ![e.head] = IF @ = 0 THEN e.at ELSE @]
  /\ AcceptHead(e.head)
  /\ debounce' = DebounceAfter(e)

Webhook(e) ==
  /\ e \in mail
  /\ mail' = mail \ {e}
  /\ HandleClosed(e) \/ HandleIgnored(e) \/ HandleAccepted(e)
  /\ UNCHANGED <<remote, published, thread, tries, submit, rerun, sched,
                 used>>

(* The user's rerun reads the head outside its transaction, which refuses  *)
(* a head the ledger has moved from.                                       *)
RerunRead ==
  /\ rerun = NoHead /\ remote.open
  /\ used.reruns < MaxReruns
  /\ used' = [used EXCEPT !.reruns = @ + 1]
  /\ rerun' = remote.head
  /\ UNCHANGED <<remote, mail, published, ledger, current, seen, debounce,
                 runs, thread, tries, submit, sched>>

RerunOpens ==
  /\ rerun # NoHead
  /\ rerun' = NoHead
  /\ IF CurrentHead \in {NoHead, rerun}
     THEN OpenRound(SupersedeRuns, rerun, TRUE) /\ debounce' = NoDebounce
     ELSE UNCHANGED <<ledger, current, runs, debounce>>
  /\ UNCHANGED <<remote, mail, published, seen, thread, tries, submit, sched,
                 used>>

--------------------------------------------------------------------------
(* The tick.  A stage lists its rows and then takes them one by one, each  *)
(* with a conditional write that checks the row again.  A stage without    *)
(* rows is passed over.                                                    *)

Undispatched(r) ==
  /\ runs[r].status = "dispatched"
  /\ runs[r].claim = "no" \/ (~runs[r].launched /\ runs[r].claim = "old")
  /\ runs[r].token = "none"

Expired(r) == runs[r].status \in Active /\ runs[r].overdue

Interruptible(r) ==
  runs[r].status = "cancelled" /\ runs[r].claim # "no" /\ ~runs[r].stopped

NeverLaunchedUnconfirmed(r) == ~runs[r].launched

(* No thread was made: its request never left, or was never written.       *)
NeverLaunched(r) == ~runs[r].launched /\ runs[r].code \in {"dispatch_failed", "pr_closed"}

Archivable(r) ==
  /\ runs[r].status \in Terminal /\ runs[r].claim # "no"
  /\ runs[r].archived = "no" /\ ~NeverLaunched(r)

Listed(stage) ==
  CASE stage = "debounce"  -> IF debounce.due THEN {PR} ELSE {}
    [] stage = "promote"   -> IF InStatus({"queued"}) # {} THEN {PR} ELSE {}
    [] stage = "dispatch"  -> {r \in RunId : Undispatched(r)}
    [] stage = "timeout"   -> {r \in RunId : Expired(r)}
    [] stage = "interrupt" -> {r \in RunId : Interruptible(r)}
    [] stage = "sync"      -> IF ledger.pending THEN {PR} ELSE {}
    [] stage = "archive"   -> {r \in RunId : Archivable(r)}

Tick ==
  LET later == {i \in sched.stage + 1 .. Len(Stages) : Listed(Stages[i]) # {}}
  IN /\ sched.pc = "list" /\ sched.todo = {}
     /\ later # {} \/ sched.stage # 0
     /\ sched' = IF later = {} THEN Idle
                 ELSE [Idle EXCEPT !.stage = Min(later), !.todo = Listed(Stages[Min(later)])]
     /\ current' = (later # {} /\ Stages[Min(later)] = "sync")
     /\ UNCHANGED <<remote, mail, published, ledger, seen, debounce, runs,
                    thread, tries, submit, rerun, used>>

Taking(stage, x) ==
  /\ sched.pc = "list" /\ sched.todo # {} /\ Stages[sched.stage] = stage
  /\ x = Min(sched.todo)
Took == [sched EXCEPT !.todo = @ \ {Min(@)}]
Goto(pc) == sched' = [sched EXCEPT !.pc = pc]
Back == [sched EXCEPT !.pc = "list", !.run = NoRun, !.head = NoHead, !.want = ""]
NoFault == UNCHANGED used

(* consumeDebounce reads the pull request before its transaction, which     *)
(* takes the row only if it is still due for the same head.  A row that     *)
(* cannot be read is put off, one that may not be read is dropped.          *)
DebounceRead ==
  /\ Taking("debounce", PR)
  /\ \/ /\ NoFault
        /\ sched' = IF debounce.due
                    THEN [Took EXCEPT !.head = debounce.head, !.pc =
                            IF remote.open /\ remote.head = debounce.head
                            THEN "open" ELSE "drop"]
                    ELSE Took
        /\ UNCHANGED debounce
     \/ /\ debounce.due /\ Fault("read")
        /\ debounce' = [debounce EXCEPT !.due = FALSE]
        /\ sched' = Took
     \/ /\ debounce.due /\ Fault("denied")
        /\ debounce' = NoDebounce
        /\ sched' = Took
  /\ UNCHANGED <<remote, mail, published, ledger, current, seen, runs, thread,
                 tries, submit, rerun>>

StillDue == debounce.due /\ debounce.head = sched.head

DebounceOpen ==
  /\ sched.pc \in {"open", "drop"}
  /\ debounce' = IF StillDue THEN NoDebounce ELSE debounce
  /\ IF StillDue /\ sched.pc = "open"
     THEN OpenRound(runs, sched.head, FALSE)
     ELSE UNCHANGED <<ledger, current, runs>>
  /\ sched' = Back
  /\ UNCHANGED <<remote, mail, published, seen, thread, tries, submit, rerun,
                 used>>

Promote ==
  /\ Taking("promote", PR)
  /\ runs' = Promoted(runs)
  /\ sched' = Took
  /\ UNCHANGED <<remote, mail, published, ledger, current, seen, debounce,
                 thread, tries, submit, rerun, used>>

(* Launching a run: claim, check the pull request, issue the token, create *)
(* the thread, record it.                                                  *)
Claim(r) ==
  /\ Taking("dispatch", r)
  /\ IF Undispatched(r)
     THEN /\ runs' = [runs EXCEPT ![r].claim = "fresh"]
          /\ sched' = [Took EXCEPT !.pc = "check", !.run = r]
     ELSE sched' = Took /\ UNCHANGED runs
  /\ UNCHANGED <<remote, mail, published, ledger, current, seen, debounce,
                 thread, tries, submit, rerun, used>>

(* How a launch ends before its token: without the binding, T3 or the      *)
(* public URL, or with a pull request that may not be read or was deleted. *)
LaunchEnds == {<<"unready", "failed", "dispatch_failed">>,
               <<"denied", "failed", "access_denied">>, <<"denied", "cancelled", "pr_closed">>}

(* A run that is not dispatched any more is left alone, one of a closed    *)
(* pull request is cancelled, and one whose pull request cannot be read    *)
(* just now waits, without a token, for its claim to grow old.             *)
LaunchCheck ==
  /\ sched.pc = "check"
  /\ LET r == sched.run IN
     \/ /\ runs[r].status # "dispatched"
        /\ NoFault /\ sched' = Back /\ UNCHANGED <<runs, ledger, current>>
     \/ /\ runs[r].status = "dispatched" /\ ~remote.open
        /\ NoFault /\ sched' = Back
        /\ EndIf(r, Unfinished, "cancelled", "pr_closed")
     \/ /\ runs[r].status = "dispatched" /\ remote.open
        /\ NoFault /\ Goto("token") /\ UNCHANGED <<runs, ledger, current>>
     \/ /\ runs[r].status = "dispatched"
        /\ Fault("read") /\ sched' = Back /\ UNCHANGED <<runs, ledger, current>>
     \/ /\ runs[r].status = "dispatched"
        /\ \E e \in LaunchEnds : Fault(e[1]) /\ EndIf(r, Unfinished, e[2], e[3])
        /\ sched' = Back
  /\ UNCHANGED <<remote, mail, published, seen, debounce, thread, tries,
                 submit, rerun>>

IssueToken ==
  /\ sched.pc = "token"
  /\ \/ /\ NoFault /\ Goto("create")
        /\ runs' = [runs EXCEPT ![sched.run].token = "live"]
        /\ UNCHANGED <<ledger, current>>
     \/ /\ Fault("unready") /\ sched' = Back
        /\ EndIf(sched.run, Unfinished, "failed", "dispatch_failed")
  /\ UNCHANGED <<remote, mail, published, seen, debounce, thread, tries, submit, rerun>>

(* A request that was not written fails the run; one without an answer,    *)
(* whether or not it made a thread, leaves it to its deadline.             *)
CreateThread ==
  /\ sched.pc = "create"
  /\ LET r == sched.run IN
     \/ /\ NoFault /\ Goto("confirm")
        /\ thread' = [thread EXCEPT ![r] = "live"]
        /\ UNCHANGED <<runs, ledger, current>>
     \/ /\ Fault("unsent") /\ sched' = Back
        /\ EndIf(r, Unfinished, "failed", "dispatch_failed")
        /\ UNCHANGED thread
     \/ /\ Fault("unconfirmed") /\ sched' = Back
        /\ thread' \in {thread, [thread EXCEPT ![r] = "live"]}
        /\ UNCHANGED <<runs, ledger, current>>
  /\ UNCHANGED <<remote, mail, published, seen, debounce, tries, submit,
                 rerun>>

(* Recorded whatever has become of the run.                                *)
ConfirmThread ==
  /\ sched.pc = "confirm"
  /\ runs' = [runs EXCEPT ![sched.run].launched = TRUE]
  /\ sched' = Back
  /\ UNCHANGED <<remote, mail, published, ledger, current, seen, debounce,
                 thread, tries, submit, rerun, used>>

MarkTimeout(r) ==
  /\ Taking("timeout", r)
  /\ IF Expired(r) THEN EndAndMark(r, "timed_out", "timeout")
     ELSE UNCHANGED <<runs, ledger, current>>
  /\ sched' = Took
  /\ UNCHANGED <<remote, mail, published, seen, debounce, thread, tries,
                 submit, rerun, used>>

StopThread(r) == [thread EXCEPT ![r] = IF @ = "live" THEN "stopped" ELSE @]

(* Tried once, whether or not T3 obeys.                                    *)
Interrupt(r) ==
  /\ Taking("interrupt", r)
  /\ runs' = [runs EXCEPT ![r].stopped = TRUE]
  /\ thread' \in {thread, StopThread(r)}
  /\ sched' = Took
  /\ UNCHANGED <<remote, mail, published, ledger, current, seen, debounce,
                 tries, submit, rerun, used>>

(* Publishing: the sync leaves a row that has a new epoch since it was     *)
(* listed, reads the pull request and the runs of the round, and checks    *)
(* the epoch before every write.                                           *)
SyncStart ==
  /\ Taking("sync", PR)
  /\ sched' = IF current THEN [Took EXCEPT !.pc = "read"] ELSE Took
  /\ UNCHANGED <<remote, mail, published, ledger, current, seen, debounce,
                 runs, thread, tries, submit, rerun, used>>

Summary(S) ==
  IF S = {} \/ \E r \in S : runs[r].status \notin Terminal THEN "pending"
  ELSE IF \E r \in S : runs[r].status # "completed" THEN "error" ELSE "success"

(* A closed pull request ends its sync and its runs; a head the webhook    *)
(* has not brought yet is waited for.                                      *)
SyncRead ==
  /\ sched.pc = "read"
  /\ \/ /\ NoFault /\ ~current
        /\ sched' = Back /\ UNCHANGED <<runs, ledger, current>>
     \/ /\ NoFault /\ current /\ ~remote.open
        /\ sched' = Back
        /\ runs' = SupersedeRuns
        /\ ledger' = [ledger EXCEPT !.pending = FALSE]
        /\ current' = FALSE
     \/ /\ NoFault /\ current /\ remote.open /\ remote.head # ledger.head
        /\ sched' = Back /\ current' = FALSE /\ UNCHANGED <<runs, ledger>>
     \/ /\ NoFault /\ current /\ remote.open /\ remote.head = ledger.head
        /\ sched' = [sched EXCEPT !.head = ledger.head, !.want = Summary(RoundRuns),
             !.pc = IF Summary(RoundRuns) = ledger.status THEN "comment" ELSE "guard"]
        /\ UNCHANGED <<runs, ledger, current>>
     \/ /\ Fault("read")
        /\ sched' = Back /\ current' = FALSE /\ UNCHANGED <<runs, ledger>>
  /\ UNCHANGED <<remote, mail, published, seen, debounce, thread, tries,
                 submit, rerun>>

SyncGuard ==
  /\ sched.pc = "guard"
  /\ IF current THEN Goto("write") ELSE sched' = Back
  /\ UNCHANGED <<remote, mail, published, ledger, current, seen, debounce,
                 runs, thread, tries, submit, rerun, used>>

SyncWrite ==
  /\ sched.pc = "write"
  /\ published' = [published EXCEPT ![sched.head] = sched.want]
  /\ Goto("record")
  /\ UNCHANGED <<remote, mail, ledger, current, seen, debounce, runs, thread,
                 tries, submit, rerun, used>>

SyncRecord ==
  /\ sched.pc = "record"
  /\ IF current
     THEN ledger' = [ledger EXCEPT !.status = sched.want] /\ Goto("comment")
     ELSE sched' = Back /\ UNCHANGED ledger
  /\ UNCHANGED <<remote, mail, published, current, seen, debounce, runs,
                 thread, tries, submit, rerun, used>>

(* The comments follow, and last the pending mark is cleared, if it is     *)
(* still the one the sync has seen.                                        *)
ClearedBlind == TRUE
Cleared == current

SyncFinish ==
  /\ sched.pc = "comment"
  /\ ledger' = IF Cleared THEN [ledger EXCEPT !.pending = FALSE] ELSE ledger
  /\ current' = FALSE
  /\ sched' = Back
  /\ UNCHANGED <<remote, mail, published, seen, debounce, runs, thread, tries,
                 submit, rerun, used>>

(* Archiving the thread of a run that has ended.  archived_at is set when  *)
(* it is archived, believed gone, or given up: what was counted of it is   *)
(* forgotten then.                                                         *)
Closes(r, how) ==
  /\ runs' = [runs EXCEPT ![r].archived = how, ![r].overdue = FALSE]
  /\ tries' = [tries EXCEPT ![r] = NoTries]
Counts(r, refused, missing) ==
  /\ tries' = [tries EXCEPT ![r] = [refused |-> refused, missing |-> missing]]
  /\ UNCHANGED runs

(* For a while it waits for the turn to settle; a sight of the thread      *)
(* breaks the row of answers that it is not there.                         *)
ArchiveWaits(r) ==
  /\ IF runs[r].overdue THEN Fault("read") ELSE NoFault
  /\ \/ Counts(r, tries[r].refused, tries[r].missing)
     \/ ~runs[r].overdue /\ thread[r] # "none" /\ Counts(r, tries[r].refused, 0)

(* T3 does not know it, or says so a few times of a thread it has.         *)
ArchiveMisses(r) ==
  LET n == tries[r].missing + 1 IN
    /\ \/ thread[r] = "none" /\ NoFault
       \/ /\ thread[r] # "none" /\ "glitch" \in Faults /\ n < MaxTries
          /\ IF n = 1 THEN Fault("glitch") ELSE NoFault
    /\ IF n = MaxTries THEN Closes(r, "yes") ELSE Counts(r, tries[r].refused, n)

ArchiveDone(r) == NoFault /\ thread[r] # "none" /\ Closes(r, "yes")

(* T3 refuses, and does not stop to refuse; the answer may be wrong.       *)
ArchiveRefused(r) ==
  LET n == tries[r].refused + 1 IN
    /\ "refused" \in Faults
    /\ IF n = 1 THEN Fault("refused") ELSE NoFault
    /\ \/ n < MaxTries /\ \E m \in {0, tries[r].missing} : Counts(r, n, m)
       \/ n = MaxTries /\ Closes(r, "failed")

Archived(r) == [thread EXCEPT ![r] = IF @ = "none" THEN @ ELSE "archived"]

(* A launch that was not confirmed is stopped before, if T3 obeys.         *)
Archive(r) ==
  /\ Taking("archive", r)
  /\ \/ ArchiveDone(r) /\ thread' = Archived(r)
     \/ ArchiveRefused(r) /\ thread' \in {thread, Archived(r)}
     \/ /\ ArchiveWaits(r) \/ ArchiveMisses(r)
        /\ thread' \in {thread, IF runs[r].launched THEN thread ELSE StopThread(r)}
  /\ sched' = Took
  /\ UNCHANGED <<remote, mail, published, ledger, current, seen, debounce, submit, rerun>>

--------------------------------------------------------------------------
(* The agents.  The first request with the token makes the run running.    *)

Authenticated(r) == [runs EXCEPT ![r].status = "running", ![r].launched = TRUE]
Authorized(r) == thread[r] = "live" /\ runs[r].token = "live" /\ runs[r].status \in Active

AgentReads(r) ==
  /\ Authorized(r) /\ runs[r].status = "dispatched"
  /\ runs' = Authenticated(r)
  /\ UNCHANGED <<remote, mail, published, ledger, current, seen, debounce,
                 thread, tries, submit, rerun, sched, used>>

(* AgentSubmitResult loads the run, reads the pull request, checks the     *)
(* files of the findings, reads the clock and the pull request again and   *)
(* writes; the last read counts.                                           *)
SubmitLoad(r) ==
  /\ Authorized(r) /\ submit[r] = "none"
  /\ runs' = Authenticated(r)
  /\ submit' = [submit EXCEPT ![r] = "loaded"]
  /\ UNCHANGED <<remote, mail, published, ledger, current, seen, debounce,
                 thread, tries, rerun, sched, used>>

SubmitRead(r) ==
  /\ submit[r] = "loaded"
  /\ submit' = [submit EXCEPT ![r] =
       IF ~remote.open \/ remote.head # runs[r].head THEN "stale"
       ELSE IF runs[r].overdue THEN "late" ELSE "fresh"]
  /\ UNCHANGED <<remote, mail, published, ledger, current, seen, debounce,
                 runs, thread, tries, rerun, sched, used>>

(* The mark of a stale result does not ask whether the run was active.     *)
SubmitStale(r) ==
  /\ submit[r] = "stale"
  /\ submit' = [submit EXCEPT ![r] = "none"]
  /\ MarkPending
  /\ runs' = IF runs[r].status \in Active
             THEN EndRun(r, "cancelled", "superseded") ELSE runs
  /\ UNCHANGED <<remote, mail, published, seen, debounce, thread, tries,
                 rerun, sched, used>>

CompletableEnded(r) == submit[r] = "fresh"

Completable(r) == submit[r] = "fresh" /\ runs[r].status \in Active

SubmitCommit(r) ==
  /\ submit[r] \in {"fresh", "late"}
  /\ submit' = [submit EXCEPT ![r] = "none"]
  /\ IF Completable(r) THEN EndAndMark(r, "completed", "")
     ELSE EndIf(r, IF submit[r] = "late" THEN Active ELSE {}, "timed_out", "timeout")
  /\ UNCHANGED <<remote, mail, published, seen, debounce, thread, tries,
                 rerun, sched, used>>

--------------------------------------------------------------------------
(* Time and the end of the process.                                        *)

DebounceFires ==
  /\ debounce.head # NoHead /\ ~debounce.due
  /\ debounce' = [debounce EXCEPT !.due = TRUE]
  /\ UNCHANGED <<remote, mail, published, ledger, current, seen, runs, thread,
                 tries, submit, rerun, sched, used>>

(* The age of a claim counts only while its run has no token.              *)
ClaimAges(r) ==
  /\ runs[r].claim = "fresh" /\ runs[r].status = "dispatched" /\ sched.run # r
  /\ runs[r].token = "none" /\ ~runs[r].launched
  /\ runs' = [runs EXCEPT ![r].claim = "old"]
  /\ UNCHANGED <<remote, mail, published, ledger, current, seen, debounce,
                 thread, tries, submit, rerun, sched, used>>

(* The deadline of a run, and after its end the wait for its thread.       *)
DeadlinePasses(r) ==
  /\ runs[r].status \in Active \/ Archivable(r)
  /\ ~runs[r].overdue
  /\ runs' = [runs EXCEPT ![r].overdue = TRUE]
  /\ UNCHANGED <<remote, mail, published, ledger, current, seen, debounce,
                 thread, tries, submit, rerun, sched, used>>

(* A restart drops the tick, the requests and the rerun under way, and     *)
(* what was counted of the threads.                                        *)
Crash ==
  /\ Fault("crash")
  /\ sched' = Idle
  /\ current' = FALSE
  /\ submit' = [r \in RunId |-> "none"]
  /\ rerun' = NoHead
  /\ tries' = [r \in RunId |-> NoTries]
  /\ UNCHANGED <<remote, mail, published, ledger, seen, debounce, runs, thread>>

--------------------------------------------------------------------------
Launch == LaunchCheck \/ IssueToken \/ CreateThread \/ ConfirmThread
Sync == SyncStart \/ SyncRead \/ SyncGuard \/ SyncWrite \/ SyncRecord \/ SyncFinish
Scheduler ==
  \/ Tick \/ DebounceRead \/ DebounceOpen \/ Promote \/ Launch \/ Sync
  \/ \E r \in RunId : Claim(r) \/ MarkTimeout(r) \/ Interrupt(r) \/ Archive(r)
Agent(r) == AgentReads(r) \/ SubmitLoad(r) \/ SubmitRead(r) \/ SubmitStale(r) \/ SubmitCommit(r)
Platform == (\E h \in Heads : Push(h)) \/ Close \/ Reopen
Time == DebounceFires \/ \E r \in RunId : ClaimAges(r) \/ DeadlinePasses(r)

Next ==
  \/ Platform \/ Scheduler \/ Time \/ Crash
  \/ \E e \in mail : Webhook(e)
  \/ RerunRead \/ RerunOpens
  \/ \E r \in RunId : Agent(r)

Spec == Init /\ [][Next]_vars

(* The ticker never stops and time passes; a delivery arrives at last.     *)
(* Nobody can count on the agents or on the user.                          *)
FairSpec ==
  /\ Spec
  /\ WF_vars(Scheduler)
  /\ WF_vars(DebounceFires)
  /\ WF_vars(\E e \in mail : Webhook(e))
  /\ \A r \in RunId : WF_vars(ClaimAges(r)) /\ WF_vars(DeadlinePasses(r))

--------------------------------------------------------------------------
(* Every run that has not ended is one of the ledger's round, for the head *)
(* that was accepted last, and the user never has more of them under way   *)
(* than allowed.                                                           *)
InFlight ==
  /\ \A r \in InStatus(Unfinished) : r \in RoundRuns
  /\ Cardinality(InStatus(Active)) <= MaxInflight

(* A run ends once: a result, a timeout, a failed launch and a new head    *)
(* may meet, and the first of them stays.                                  *)
EndIsFinal ==
  [][\A r \in RunId : runs[r].status \in Terminal =>
       runs'[r].status = runs[r].status /\ runs'[r].code = runs[r].code]_vars

(* The reviews keep the contract: the rows and the ledger as they are      *)
(* stored, and what the platform shows of every head, change only in the   *)
(* ways it allows, whatever the tick, the agents, the user, the deliveries *)
(* and a restart do in between.                                            *)
Contract == INSTANCE ReviewContract WITH
  Runs <- RunId, Limit <- MaxInflight,
  head <- ledger.head, round <- ledger.round, pending <- ledger.pending,
  status <- [r \in RunId |-> runs[r].status], code <- [r \in RunId |-> runs[r].code],
  of <- [r \in RunId |-> runs[r].head], number <- [r \in RunId |-> runs[r].round],
  shown <- published
KeepsContract == Contract!Spec

(* A sync clears the pending mark only if the platform shows the outcome   *)
(* of the round as it is then: what ends a run while the sync is under way *)
(* is not lost.  A head without runs has no outcome.                       *)
OutcomePublished ==
  [][sched.pc = "comment" /\ ledger.pending /\ ~ledger'.pending /\ mail' = mail =>
       RoundRuns = {} \/ published[ledger.head] = Summary(RoundRuns)]_vars

(* Everything settles again and again: the runs have ended, although       *)
(* places, deadlines and claims stand in each other's way; no thread has   *)
(* outlived its run, even if the answer to its creation was lost, the run  *)
(* was cancelled while it was created, or T3 denied its existence fewer    *)
(* times than are believed, unless T3 has refused so often that the row    *)
(* says it was given up; and what has ended is published unless the        *)
(* platform is ahead of the ledger.                                        *)
LeftThreads == {r \in RunId : /\ runs[r].status \in Terminal /\ runs[r].archived # "failed"
                              /\ thread[r] \in {"live", "stopped"}}
Quiet == /\ InStatus(Unfinished) = {}
         /\ LeftThreads = {}
         /\ ~ledger.pending \/ remote.head # ledger.head
Settles == []<>Quiet

(* review_webhook.go:321, review_engine_test.go:167: nothing is published  *)
(* about a head before its round has runs.                                 *)
NoEmptyRound == \A h \in Heads : published[h] # "" => RunsOf(h) # {}
=============================================================================
