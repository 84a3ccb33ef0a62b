----------------------------- MODULE ThreadWait -----------------------------
(* One fs_thread/wait call of a bot (service/bot_thread_wait.go): the       *)
(* thread it waits for, the view of the thread that the shell hub keeps in  *)
(* memory, the entry in the registry of waits, and the round of the scan    *)
(* that evaluates it, while the thread moves on, the hub loses and regains  *)
(* its connection, the call is cancelled, a write fails or the process dies.*)
(*                                                                          *)
(* Time is counted in rounds of the scan.  An instant that the code         *)
(* compares with the updated_at of the items is represented by the number   *)
(* of changes of the thread up to that instant.                             *)
EXTENDS Naturals

CONSTANTS Filters,      \* the values of "on": sets of conditions
          IdleStable, StartGrace, Timeout,    \* in rounds
          MaxRound, MaxItems, MaxRuns,        \* bounds
          Faults, MaxFaults

Conditions == {"idle", "needs_reply", "error"}

ASSUME WaitAssumption ==
  /\ Filters \subseteq SUBSET Conditions
  /\ {IdleStable, StartGrace, Timeout, MaxRound, MaxItems, MaxFaults} \subseteq Nat
  /\ MaxRuns \in Nat \ {0}      \* the thread may have run before
  /\ Faults \subseteq {"crash", "lost", "query", "peek", "bot", "write"}

VARIABLES thread,   \* the thread, as T3 has it
          view,     \* the view of the hub: connected, its archive, its copy of the thread
          call,     \* the row of bot_tool_calls
          attach,   \* what the goroutine that accepted the call has left to do
          entry,    \* the entry in s.waits
          scan,     \* locals of evaluateThreadWaits
          round, mode, faults

vars == <<thread, view, call, attach, entry, scan, round, mode, faults>>

Status == {"idle", "failed", "running", "waiting", "archived", "gone"}
Shell == [status : Status \cup {"absent"}, run : 0 .. MaxRuns]
Absent == [status |-> "absent", run |-> 0]
Outcome == {"triggered", "not_started", "thread_gone", "timeout_unchanged",
            "timeout_progressing", "watch_degraded", "cancelled", "server_restarted"}
Round == 0 .. MaxRound

(* What the hub has still to make of a thread that left the active face: it *)
(* has not marked the archive yet; it waits for a snapshot of the archive   *)
(* that holds the thread; or it has given up waiting for it.                *)
Left == {"no", "unmarked", "uncertain", "expired"}

(* by: who registered the entry, which tells an entry from its successor.   *)
Entry == [by : {"nobody", "attach", "adopt"}, at : Round, items : 0 .. MaxItems,
          base : Shell, started : BOOLEAN, idle : Round,
          ticks : 0 .. MaxRound + 1, bad : 0 .. MaxRound + 1]
NoEntry == [by |-> "nobody", at |-> 0, items |-> 0, base |-> Absent,
            started |-> FALSE, idle |-> 0, ticks |-> 0, bad |-> 0]
NoScan == [pc |-> "idle", e |-> NoEntry, ready |-> FALSE, archive |-> FALSE, verdict |-> "none"]

(* The evaluator holds an entry, the rounds it could not trust are rounds   *)
(* it has counted, and a verdict is written only for a call of the scan.    *)
TypeOK ==
  /\ thread \in [status : Status, run : 0 .. MaxRuns, items : 0 .. MaxItems]
  /\ view \in [ready : BOOLEAN, archive : BOOLEAN, shell : Shell,
               subscribed : BOOLEAN, left : Left]
  /\ view.left = "unmarked" => ~view.subscribed
  /\ view.left \in {"uncertain", "expired"} => view.subscribed
  /\ call \in [status : {"none", "running", "ended"}, on : Filters, at : Round,
               items : 0 .. MaxItems, cancel : BOOLEAN, outcome : Outcome \cup {"none"}]
  /\ attach \in {"no", "due"}
  /\ entry \in Entry
  /\ scan \in [pc : {"idle", "adopt", "evaluate", "read", "write"}, e : Entry,
               ready : BOOLEAN, archive : BOOLEAN,
               verdict : Outcome \cup {"none"}]
  /\ round \in Round /\ mode \in {"up", "recovery"} /\ faults \in 0 .. MaxFaults
  /\ entry.bad <= entry.ticks /\ entry.idle <= round
  /\ scan.pc \in {"evaluate", "read", "write"} => scan.e.by # "nobody"
  /\ call.outcome = "none" <=> call.status # "ended"

Init ==
  /\ \E s \in Status \ {"archived", "gone"}, r \in {0, 1} :
       /\ s # "idle" => r = 1
       /\ thread = [status |-> s, run |-> r, items |-> 0]
  /\ \E ready, subscribed \in BOOLEAN, shell \in {Absent, [status |-> thread.status, run |-> thread.run]} :
       /\ shell = Absent => ready
       /\ view = [ready |-> ready, archive |-> TRUE, shell |-> shell,
                  subscribed |-> subscribed, left |-> "no"]
  /\ \E on \in Filters :
       call = [status |-> "none", on |-> on, at |-> 0, items |-> 0, cancel |-> FALSE,
               outcome |-> "none"]
  /\ attach = "no" /\ entry = NoEntry /\ scan = NoScan
  /\ round = 0 /\ mode = "up" /\ faults = 0

Fault(kind) == kind \in Faults /\ faults < MaxFaults /\ faults' = faults + 1

-----------------------------------------------------------------------------
(* The thread: its runs, what they produce, and what other clients do.      *)

ThreadOnly == UNCHANGED <<view, call, attach, entry, scan, round, mode, faults>>
Becomes(status) == thread' = [thread EXCEPT !.status = status, !.items = @ + 1]

RunBegins ==
  /\ thread.status \in {"idle", "failed"} /\ thread.run < MaxRuns /\ thread.items < MaxItems
  /\ thread' = [status |-> "running", run |-> thread.run + 1, items |-> thread.items + 1]
  /\ ThreadOnly

RunWorks ==
  /\ thread.items < MaxItems
  /\ \/ thread.status = "running" /\ \E s \in {"running", "waiting", "idle", "failed"} : Becomes(s)
     \/ thread.status = "waiting" /\ Becomes("running")
  /\ ThreadOnly

(* Archiving and deleting touch no item.                                    *)
Leaves ==
  /\ thread.status \in {"idle", "failed", "archived"}
  /\ \E s \in {"archived", "gone"} \ {thread.status} : thread' = [thread EXCEPT !.status = s]
  /\ ThreadOnly

-----------------------------------------------------------------------------
(* The shell hub.  While it is connected its copy of the active face        *)
(* follows the thread, some changes at a time.  Of the archived threads it  *)
(* has a copy of its own: it subscribes to them, or reads a snapshot when   *)
(* it is asked to.  The copy may be used (archive) unless a thread that     *)
(* left the active face is unaccounted for.                                 *)

HubOnly == UNCHANGED <<thread, call, attach, entry, scan, round, mode, faults>>
Live == thread.status \notin {"archived", "gone"}
ShellNow == [status |-> thread.status, run |-> thread.run]

Archived == thread.status = "archived"
CopyActive == view.shell # Absent /\ view.shell.status # "archived"

(* What the archive holds of a thread that is not on the active face.       *)
Row == IF Archived THEN ShellNow ELSE Absent

HubFollows ==
  /\ Live \/ ~CopyActive
  /\ view' = [view EXCEPT !.ready = TRUE, !.shell = IF Live THEN ShellNow ELSE @]
  /\ view' # view /\ HubOnly

(* The thread leaves the copy of the active face; the copy of the archive   *)
(* may hold it by then.  A subscribed hub doubts its archive in the same    *)
(* critical section, unless the frame and the archive both have the row.    *)
HubRemoves ==
  /\ ~Live /\ CopyActive
  /\ \E shell \in {Absent, Row} :
       view' = [view EXCEPT !.ready = TRUE, !.shell = shell,
                  !.left = IF view.subscribed THEN "uncertain" ELSE "unmarked"]
  /\ HubOnly
HubRemovesProven ==
  /\ Archived /\ CopyActive /\ view.subscribed
  /\ view' = [view EXCEPT !.ready = TRUE, !.shell = ShellNow]
  /\ HubOnly

(* Another hub gives its archive up only after the frames were applied,     *)
(* when that has been seen by whoever looked.                               *)
HubMarks ==
  /\ view.left = "unmarked"
  /\ view' = [view EXCEPT !.left = "no", !.archive = FALSE]
  /\ HubOnly

HubLoses == view.ready /\ view' = [view EXCEPT !.ready = FALSE] /\ HubOnly

(* A snapshot of the archive that may be used; one that was taken before    *)
(* the hub marked the archive may lack the row.                             *)
ArchiveRead ==
  /\ ~view.archive \/ view.left \in {"uncertain", "expired"}
  /\ \E shell \in IF CopyActive THEN {view.shell}
                  ELSE {Row} \cup IF view.left = "unmarked" THEN {view.shell} ELSE {} :
       view' = [view EXCEPT !.archive = TRUE, !.shell = shell,
                  !.left = IF @ \in {"uncertain", "expired"} /\ shell # Absent THEN "no" ELSE @]
  /\ HubOnly

(* A row without trust: an update of the subscription, or a snapshot that   *)
(* was taken before the mark.                                               *)
ArchiveRow ==
  /\ ~CopyActive /\ view.shell # Row
  /\ \/ view.subscribed /\ Archived /\ view' = [view EXCEPT !.shell = Row]
     \/ ~view.subscribed /\ ~view.archive /\ view' = [view EXCEPT !.shell = Row]
  /\ HubOnly

(* A removal from the archive, which may be an old one, leaves the thread   *)
(* unaccounted for.                                                         *)
ArchiveRemoves ==
  /\ view.subscribed /\ view.shell.status = "archived"
  /\ view' = [view EXCEPT !.shell = Absent, !.left = "uncertain"]
  /\ HubOnly

(* The time of a snapshot is over; a subscription that ends takes its rows. *)
ArchiveLoses ==
  /\ view.archive
  /\ view' = [view EXCEPT !.archive = FALSE,
                !.shell = IF view.subscribed /\ ~CopyActive THEN Absent ELSE @]
  /\ HubOnly

(* The grace period ends: the archive is trusted again, without evidence.   *)
GraceExpires ==
  /\ view.left = "uncertain"
  /\ view' = [view EXCEPT !.left = "expired"]
  /\ HubOnly

ArchiveTrusted == view.archive /\ view.left # "uncertain"

-----------------------------------------------------------------------------
(* The call.                                                                *)

Accept ==
  /\ mode = "up" /\ call.status = "none"
  /\ call' = [call EXCEPT !.status = "running", !.at = round, !.items = thread.items]
  /\ attach' = "due"
  /\ UNCHANGED <<thread, view, entry, scan, round, mode, faults>>

(* What waitObserve finds: nothing when the view is not ready.              *)
Observed == IF view.ready THEN view.shell ELSE Absent
Known(shell) == shell # Absent
Active(shell) == shell.status \in {"running", "waiting", "failed"}

(* As if a round that could not be trusted were not a round.                *)
RegisteredUncounted(by, at, items) ==
  [by |-> by, at |-> at, items |-> items, base |-> Observed, started |-> Active(Observed),
   idle |-> 0, ticks |-> 0, bad |-> IF view.ready THEN 0 ELSE 1]

Registered(by, at, items) ==
  [by |-> by, at |-> at, items |-> items, base |-> Observed, started |-> Active(Observed),
   idle |-> 0, ticks |-> 1, bad |-> IF view.ready THEN 0 ELSE 1]

(* PeekShell fails: nothing is known, and no round is counted.              *)
Unseen(by, at, items) == [NoEntry EXCEPT !.by = by, !.at = at, !.items = items]

(* After the commit: it replaces what the scan may have adopted meanwhile,  *)
(* and comes too late when that one has ended the call.                     *)
Attach ==
  /\ attach = "due"
  /\ attach' = "no"
  /\ \/ entry' = Registered("attach", round, thread.items) /\ UNCHANGED faults
     \/ Fault("peek") /\ entry' = Unseen("attach", round, thread.items)
     \/ Fault("lost") /\ UNCHANGED entry
  /\ UNCHANGED <<thread, view, call, scan, round, mode>>

(* A running call is only marked.                                           *)
Cancel ==
  /\ mode = "up" /\ call.status = "running" /\ ~call.cancel
  /\ call' = [call EXCEPT !.cancel = TRUE]
  /\ UNCHANGED <<thread, view, attach, entry, scan, round, mode, faults>>

-----------------------------------------------------------------------------
(* The round of the scan.                                                   *)

ScanOnly == UNCHANGED <<thread, view, attach, round, mode>>
Evaluates(e) == scan' = [NoScan EXCEPT !.pc = "evaluate", !.e = e]

(* As if the scan only knew the waits that were registered.                 *)
ListedNever == FALSE

(* What the scan finds in the database.                                     *)
Listed == call.status = "running"

(* It reads the running waits, and adopts the one nobody has registered.    *)
StartRound ==
  /\ mode = "up" /\ scan.pc = "idle" /\ round < MaxRound
  /\ Listed \/ entry # NoEntry
  /\ round' = round + 1
  /\ IF entry # NoEntry THEN Evaluates(entry) ELSE scan' = [NoScan EXCEPT !.pc = "adopt"]
  /\ UNCHANGED <<thread, view, call, attach, entry, mode, faults>>

(* The entry that was attached in between is not replaced.                  *)
AdoptedEntry == IF entry # NoEntry THEN entry ELSE Registered("adopt", call.at, call.items)
Adopt ==
  /\ scan.pc = "adopt"
  /\ \/ entry' = AdoptedEntry /\ UNCHANGED faults
     \/ /\ entry = NoEntry /\ Fault("peek")
        /\ entry' = Unseen("adopt", call.at, call.items)
  /\ Evaluates(entry')
  /\ UNCHANGED call /\ ScanOnly

(* A view that is not ready, or that has lost the thread while its archive  *)
(* cannot be trusted, is a round that cannot be trusted.  A view that       *)
(* cannot be read counts as one that is not ready.                          *)
Blind == ~view.ready \/ (~Known(view.shell) /\ ~ArchiveTrusted)
Counted(e) ==
  [e EXCEPT !.ticks = @ + 1, !.bad = @ + (IF Blind THEN 1 ELSE 0),
            !.idle = IF Known(Observed) THEN @ ELSE 0]
Trusted(e, ready) == ready /\ e.bad * 2 <= e.ticks

(* The baseline is the first sight of the thread.  A wait has started when  *)
(* the thread is active, or has another run than the baseline.              *)
Based(e) == IF Known(e.base) THEN e ELSE [e EXCEPT !.base = Observed]
Sighted(e) ==
  IF ~Known(Observed) THEN e
  ELSE LET b == Based(e)
       IN  [b EXCEPT !.started = \/ @ \/ Active(Observed)
                                 \/ Observed.run # b.base.run]

Urgent == \/ "error" \in call.on /\ Observed.status = "failed"
          \/ "needs_reply" \in call.on /\ Observed.status = "waiting"
Resting == "idle" \in call.on /\ Observed.status \in {"idle", "failed"}

(* The time of idleness begins in a round that can be trusted, and ends     *)
(* with the first sight of anything else.                                   *)
Rested(e) ==
  IF ~Known(Observed) \/ ~e.started \/ Urgent THEN e
  ELSE IF ~Resting THEN [e EXCEPT !.idle = 0]
  ELSE IF Trusted(e, view.ready) /\ e.idle = 0 THEN [e EXCEPT !.idle = round] ELSE e
Triggered(e) ==
  /\ Known(Observed) /\ e.started
  /\ \/ Urgent
     \/ Resting /\ Trusted(e, view.ready) /\ round - e.idle >= IdleStable

(* As if a thread that the view lost were gone, whatever of the archive.    *)
MissingFromActive(e) ==
  /\ view.ready /\ ~Known(view.shell)
  /\ Known(e.base) \/ round - e.at >= StartGrace

(* A thread that was never seen may not have reached the view yet.          *)
Missing(e) ==
  /\ view.ready /\ ~Known(view.shell) /\ ArchiveTrusted
  /\ Known(e.base) \/ round - e.at >= StartGrace

(* The verdict of a round: the thread is gone, before a condition that      *)
(* holds, before a start that did not come, before the time-out, which      *)
(* asks again.                                                              *)
Verdict(e) ==
  IF Missing(e) THEN "thread_gone"
  ELSE IF Triggered(e) THEN "triggered"
  ELSE IF ~e.started /\ round - e.at >= StartGrace
       THEN IF Trusted(e, view.ready) THEN "not_started" ELSE "watch_degraded"
  ELSE "none"

Writes(e, verdict) == scan' = [scan EXCEPT !.pc = "write", !.e = e, !.verdict = verdict]

(* The evaluator holds the entry it has read, also when another has taken   *)
(* its place.                                                               *)
Kept(e) == entry' = IF entry.by = e.by THEN e ELSE entry

(* The row is read first.  One that has ended, or cannot be read, drops the *)
(* entry; one that was cancelled is ended.                                  *)
EvaluateRow ==
  /\ scan.pc = "evaluate"
  /\ \/ call.status = "ended" /\ UNCHANGED faults
     \/ Fault("query")
  /\ entry' = NoEntry /\ scan' = NoScan
  /\ UNCHANGED call /\ ScanOnly

EvaluateCancel ==
  /\ scan.pc = "evaluate" /\ call.status = "running" /\ call.cancel
  /\ Writes(scan.e, "cancelled")
  /\ UNCHANGED <<call, entry, faults>> /\ ScanOnly

Evaluate ==
  /\ scan.pc = "evaluate" /\ call.status = "running" /\ ~call.cancel
  /\ LET e == Rested(Sighted(Counted(scan.e))) IN
       /\ Kept(e)
       /\ IF Verdict(e) # "none" THEN Writes(e, Verdict(e))
          ELSE IF round > e.at + Timeout
          THEN scan' = [scan EXCEPT !.pc = "read", !.e = e,
                                    !.ready = view.ready, !.archive = ArchiveTrusted]
          ELSE scan' = NoScan
  /\ UNCHANGED <<call, faults>> /\ ScanOnly

Progressed(e) ==
  \/ Observed.status # e.base.status \/ Observed.run # e.base.run
  \/ thread.items > e.items

(* What the second look finds in view v; shell: the thread in it.           *)
Timed(e, ready, archive, shell, detail) ==
  IF ~Trusted(e, ready) THEN "watch_degraded"
  ELSE IF ~Known(shell) THEN IF archive THEN "thread_gone" ELSE "watch_degraded"
  ELSE IF ~detail THEN "watch_degraded"
  ELSE IF Progressed(e) THEN "timeout_progressing" ELSE "timeout_unchanged"

(* The view is looked at again, and the detail is read from T3, which may   *)
(* fail.  When the view cannot be read, the one of the round stands in for  *)
(* it, but what was seen in it does not.                                    *)
Read ==
  /\ scan.pc = "read"
  /\ \/ /\ \E detail \in {FALSE, thread.status # "gone"} :
             Writes(scan.e, Timed(scan.e, view.ready, ArchiveTrusted, Observed, detail))
        /\ UNCHANGED faults
     \/ /\ Fault("peek")
        /\ Writes(scan.e, Timed(scan.e, scan.ready, scan.archive, Absent, FALSE))
  /\ UNCHANGED <<call, entry>> /\ ScanOnly

(* finalizeCall: a mark that came since the row was read decides.           *)
Final == IF call.cancel THEN "cancelled" ELSE scan.verdict

(* The bot is read before the entry is dropped; the transaction that ends   *)
(* the call may fail after it.                                              *)
Write ==
  /\ scan.pc = "write"
  /\ \/ Fault("bot") /\ UNCHANGED <<call, entry>>
     \/ Fault("write") /\ entry' = NoEntry /\ UNCHANGED call
     \/ /\ entry' = NoEntry
        /\ call' = IF call.status = "running"
                   THEN [call EXCEPT !.status = "ended", !.outcome = Final] ELSE call
        /\ UNCHANGED faults
  /\ scan' = NoScan
  /\ ScanOnly

-----------------------------------------------------------------------------
(* A restart ends the wait: nothing of it was in the database but its row.  *)

Crash ==
  /\ mode = "up" /\ Fault("crash")
  /\ mode' = "recovery"
  /\ attach' = "no" /\ entry' = NoEntry /\ scan' = NoScan
  /\ view' = [view EXCEPT !.ready = FALSE, !.archive = FALSE, !.shell = Absent, !.left = "no"]
  /\ UNCHANGED <<thread, call, round>>

Recover ==
  /\ mode = "recovery"
  /\ mode' = "up"
  /\ call' = IF call.status = "running"
             THEN [call EXCEPT !.status = "ended", !.outcome = "server_restarted"] ELSE call
  /\ UNCHANGED <<thread, view, attach, entry, scan, round, faults>>

-----------------------------------------------------------------------------
Thread == RunBegins \/ RunWorks \/ Leaves
Hub == \/ HubFollows \/ HubRemoves \/ HubRemovesProven \/ HubMarks \/ HubLoses
       \/ ArchiveRead \/ ArchiveRow \/ ArchiveRemoves \/ ArchiveLoses \/ GraceExpires
Scan == StartRound \/ Adopt \/ EvaluateRow \/ EvaluateCancel \/ Evaluate \/ Read \/ Write

Next == Thread \/ Hub \/ Accept \/ Attach \/ Cancel \/ Scan \/ Crash \/ Recover

Spec == Init /\ [][Next]_vars

(* The scan comes round, the goroutine that accepted the call goes on, the  *)
(* process starts again.  Nothing is promised of the thread and of the hub. *)
FairSpec == Spec /\ WF_vars(Scan) /\ WF_vars(Attach) /\ WF_vars(Recover)

-----------------------------------------------------------------------------
Says(verdict) == scan.pc # "write" /\ scan'.pc = "write" /\ scan'.verdict = verdict

(* PeekShell fails at the second look of waitResolveTimeout.                *)
LookFails == scan.pc = "read" /\ faults' # faults

(* A wait that has seen its thread calls it gone only if it left the active *)
(* face, and one that was archived only before the hub has marked its       *)
(* archive, or after it has given up waiting for a snapshot that holds the  *)
(* thread: else an archived thread is found, or the archive not trusted     *)
(* (G1).  Only if the second look at the time-out fails, the verdict of a   *)
(* thread that never left may be thread_gone.                               *)
GoneTrue ==
  [][Says("thread_gone") /\ Known(scan.e.base) /\ ~LookFails =>
       /\ ~Live
       /\ view.left = "no" => thread.status = "gone"]_vars

(* A thread is called unchanged only if nothing was written in it since the *)
(* wait was attached, although the view lags behind the thread.             *)
UnchangedTrue == [][Says("timeout_unchanged") => thread.items = scan.e.items]_vars

(* A mark of cancellation, whenever it comes before the end, makes the end  *)
(* a cancellation; only a restart may end the wait otherwise.               *)
CancelKept ==
  [][call.cancel /\ call.status = "running" /\ call'.status = "ended" =>
       call'.outcome \in {"cancelled", "server_restarted"}]_vars

VerdictTrue == GoneTrue /\ UnchangedTrue /\ CancelKept

(* A wait that was accepted ends, although its entry was never attached or  *)
(* is lost, the hub is never ready, or the write of its end fails.          *)
WaitEnds == call.status = "running" ~> call.status = "ended"
=============================================================================
