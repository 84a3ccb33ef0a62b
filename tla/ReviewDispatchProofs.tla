------------------------ MODULE ReviewDispatchProofs ------------------------
(***************************************************************************)
(* Theorems about the reviews of a pull request, for every set of heads,   *)
(* every number of combinations, runs, places, pushes, reruns and toggles, *)
(* and every kind of fault.                                                *)
(***************************************************************************)
EXTENDS ReviewDispatch, FiniteSetTheorems, TLAPS

(* Rows are filled in their order, a row that is not filled is empty, and  *)
(* a round has no higher number than its rows.                             *)
Ordered(rs) ==
  /\ rs \in [RunId -> Row]
  /\ \A p, r \in RunId : p < r /\ rs[r].status # "none" => rs[p].status # "none"
  /\ \A r \in RunId : rs[r].status = "none" => rs[r].head = NoHead /\ rs[r].round = 0
  /\ \A r \in RunId : rs[r].round <= r

(* What the tick holds on to while it works on a row.                      *)
Holding ==
  /\ sched.pc \in {"check", "token", "create", "confirm"} => sched.run \in RunId
  /\ sched.pc \in {"open", "guard", "write", "record", "comment"} => sched.head \in Heads

(* While a head waits for its round, no run is under way.                  *)
Waiting ==
  /\ debounce.due => debounce.head # NoHead
  /\ debounce.head # NoHead => InStatus(Unfinished) = {}

(* The sync of the current epoch publishes the outcome as it is.           *)
SyncTrue ==
  current /\ sched.pc \in {"guard", "write", "record", "comment"} =>
    sched.head = ledger.head /\ sched.want = Summary(RoundRuns)
Written ==
  /\ sched.pc = "record" => published[sched.head] = sched.want
  /\ current /\ sched.pc = "comment" => ledger.status = sched.want
  /\ ledger.status # "" => ledger.head # NoHead

(* What the ledger has recorded is on the platform, unless the round has   *)
(* ended since; a sync that is about to write has something new to say.    *)
RecordTrue ==
  ledger.status # "" /\ RoundRuns # {} =>
    /\ ledger.status = Summary(RoundRuns) => published[ledger.head] = ledger.status
    /\ ledger.status \in {"error", "success"} => ledger.status = Summary(RoundRuns)
    /\ sched.pc \in {"guard", "write"} /\ sched.head = ledger.head =>
         ledger.status # Summary(RoundRuns)

(* The inductive invariant.                                                *)
RInv == TypeOK /\ Ordered(runs) /\ Holding /\ Waiting /\ InFlight
PInv == SyncTrue /\ Written /\ RecordTrue
Invariant == RInv /\ PInv

-----------------------------------------------------------------------------
(* Who writes what                                                         *)

LEMMA RemoteWritten ==
  [Next]_vars =>
    \/ UNCHANGED <<remote, mail>>
    \/ \E h \in Heads : Push(h)
    \/ \E e \in mail : Webhook(e)
    \/ Close \/ Reopen
  BY ZenonT(60) DEF Next, vars, Platform, Becomes, Send, Lost, Toggle, RerunRead,
     RerunOpens, Scheduler, Tick, DebounceRead, DebounceOpen, Promote, Launch,
     LaunchCheck, IssueToken, CreateThread, ConfirmThread, MarkTimeout, Interrupt,
     Sync, SyncStart, SyncRead, SyncGuard, SyncWrite, SyncRecord, SyncFinish, Claim,
     Archive, Agent, AgentReads, SubmitLoad, SubmitRead, SubmitStale, SubmitCommit,
     Time, DebounceFires, ClaimAges, DeadlinePasses, Crash

LEMMA PublishedWritten ==
  [Next]_vars =>
    \/ UNCHANGED published
    \/ SyncWrite
  BY ZenonT(60) DEF Next, vars, Platform, Becomes, Send, Lost, Toggle, Push, Close,
     Reopen, Webhook, RerunRead, RerunOpens, Scheduler, Tick, DebounceRead,
     DebounceOpen, Promote, Launch, LaunchCheck, IssueToken, CreateThread,
     ConfirmThread, MarkTimeout, Interrupt, Sync, SyncStart, SyncRead, SyncGuard,
     SyncRecord, SyncFinish, Claim, Archive, Agent, AgentReads, SubmitLoad,
     SubmitRead, SubmitStale, SubmitCommit, Time, DebounceFires, ClaimAges,
     DeadlinePasses, Crash

LEMMA LedgerWritten ==
  [Next]_vars =>
    \/ UNCHANGED ledger
    \/ \E e \in mail : Webhook(e)
    \/ RerunOpens \/ DebounceOpen \/ LaunchCheck \/ IssueToken \/ CreateThread
    \/ SyncRead \/ SyncRecord \/ SyncFinish
    \/ \E r \in RunId : MarkTimeout(r) \/ SubmitStale(r) \/ SubmitCommit(r)
  BY ZenonT(60) DEF Next, vars, Platform, Becomes, Send, Lost, Toggle, Push, Close,
     Reopen, RerunRead, Scheduler, Tick, DebounceRead, Promote, Launch,
     ConfirmThread, Interrupt, Sync, SyncStart, SyncGuard, SyncWrite, Claim,
     Archive, Agent, AgentReads, SubmitLoad, SubmitRead, Time, DebounceFires,
     ClaimAges, DeadlinePasses, Crash

LEMMA CurrentWritten ==
  [Next]_vars =>
    \/ UNCHANGED current
    \/ \E e \in mail : Webhook(e)
    \/ Tick \/ RerunOpens \/ DebounceOpen \/ LaunchCheck \/ IssueToken
    \/ CreateThread \/ SyncRead \/ SyncFinish \/ Crash
    \/ \E r \in RunId : MarkTimeout(r) \/ SubmitStale(r) \/ SubmitCommit(r)
  BY ZenonT(60) DEF Next, vars, Platform, Becomes, Send, Lost, Toggle, Push, Close,
     Reopen, RerunRead, Scheduler, DebounceRead, Promote, Launch,
     ConfirmThread, Interrupt, Sync, SyncStart, SyncGuard, SyncWrite, SyncRecord,
     Claim, Archive, Agent, AgentReads, SubmitLoad, SubmitRead, Time, DebounceFires,
     ClaimAges, DeadlinePasses

LEMMA SeenWritten ==
  [Next]_vars =>
    \/ UNCHANGED seen
    \/ \E e \in mail : Webhook(e)
  BY ZenonT(60) DEF Next, vars, Platform, Becomes, Send, Lost, Toggle, Push, Close,
     Reopen, RerunRead, RerunOpens, Scheduler, Tick, DebounceRead, DebounceOpen,
     Promote, Launch, LaunchCheck, IssueToken, CreateThread, ConfirmThread,
     MarkTimeout, Interrupt, Sync, SyncStart, SyncRead, SyncGuard, SyncWrite,
     SyncRecord, SyncFinish, Claim, Archive, Agent, AgentReads, SubmitLoad,
     SubmitRead, SubmitStale, SubmitCommit, Time, DebounceFires, ClaimAges,
     DeadlinePasses, Crash

LEMMA DebounceWritten ==
  [Next]_vars =>
    \/ UNCHANGED debounce
    \/ \E e \in mail : Webhook(e)
    \/ RerunOpens \/ DebounceRead \/ DebounceOpen \/ DebounceFires
  BY ZenonT(60) DEF Next, vars, Platform, Becomes, Send, Lost, Toggle, Push, Close,
     Reopen, RerunRead, Scheduler, Tick, Promote, Launch, LaunchCheck, IssueToken,
     CreateThread, ConfirmThread, MarkTimeout, Interrupt, Sync, SyncStart, SyncRead,
     SyncGuard, SyncWrite, SyncRecord, SyncFinish, Claim, Archive, Agent,
     AgentReads, SubmitLoad, SubmitRead, SubmitStale, SubmitCommit, Time, ClaimAges,
     DeadlinePasses, Crash

LEMMA RunsWritten ==
  [Next]_vars =>
    \/ UNCHANGED runs
    \/ \E e \in mail : Webhook(e)
    \/ RerunOpens \/ DebounceOpen \/ Promote \/ LaunchCheck \/ IssueToken
    \/ CreateThread \/ ConfirmThread \/ SyncRead
    \/ \E r \in RunId : \/ Claim(r) \/ MarkTimeout(r) \/ Interrupt(r) \/ Archive(r)
                        \/ AgentReads(r) \/ SubmitLoad(r) \/ SubmitStale(r) \/ SubmitCommit(r)
                        \/ ClaimAges(r) \/ DeadlinePasses(r)
  BY ZenonT(60) DEF Next, vars, Platform, Becomes, Send, Lost, Toggle, Push, Close,
     Reopen, RerunRead, Scheduler, Tick, DebounceRead, Launch, Sync, SyncStart,
     SyncGuard, SyncWrite, SyncRecord, SyncFinish, Agent, SubmitRead, Time,
     DebounceFires, Crash

LEMMA ThreadWritten ==
  [Next]_vars =>
    \/ UNCHANGED thread
    \/ CreateThread
    \/ \E r \in RunId : Interrupt(r) \/ Archive(r)
  BY ZenonT(60) DEF Next, vars, Platform, Becomes, Send, Lost, Toggle, Push, Close,
     Reopen, Webhook, RerunRead, RerunOpens, Scheduler, Tick, DebounceRead,
     DebounceOpen, Promote, Launch, LaunchCheck, IssueToken, ConfirmThread,
     MarkTimeout, Sync, SyncStart, SyncRead, SyncGuard, SyncWrite, SyncRecord,
     SyncFinish, Claim, Agent, AgentReads, SubmitLoad, SubmitRead, SubmitStale,
     SubmitCommit, Time, DebounceFires, ClaimAges, DeadlinePasses, Crash

LEMMA TriesWritten ==
  [Next]_vars =>
    \/ UNCHANGED tries
    \/ Crash
    \/ \E r \in RunId : Archive(r)
  BY ZenonT(60) DEF Next, vars, Platform, Becomes, Send, Lost, Toggle, Push, Close,
     Reopen, Webhook, RerunRead, RerunOpens, Scheduler, Tick, DebounceRead,
     DebounceOpen, Promote, Launch, LaunchCheck, IssueToken, CreateThread,
     ConfirmThread, MarkTimeout, Interrupt, Sync, SyncStart, SyncRead, SyncGuard,
     SyncWrite, SyncRecord, SyncFinish, Claim, Agent, AgentReads, SubmitLoad,
     SubmitRead, SubmitStale, SubmitCommit, Time, DebounceFires, ClaimAges,
     DeadlinePasses

LEMMA SubmitWritten ==
  [Next]_vars =>
    \/ UNCHANGED submit
    \/ Crash
    \/ \E r \in RunId : SubmitLoad(r) \/ SubmitRead(r) \/ SubmitStale(r) \/ SubmitCommit(r)
  BY ZenonT(60) DEF Next, vars, Platform, Becomes, Send, Lost, Toggle, Push, Close,
     Reopen, Webhook, RerunRead, RerunOpens, Scheduler, Tick, DebounceRead,
     DebounceOpen, Promote, Launch, LaunchCheck, IssueToken, CreateThread,
     ConfirmThread, MarkTimeout, Interrupt, Sync, SyncStart, SyncRead, SyncGuard,
     SyncWrite, SyncRecord, SyncFinish, Claim, Archive, Agent, AgentReads, Time,
     DebounceFires, ClaimAges, DeadlinePasses

LEMMA RerunWritten ==
  [Next]_vars =>
    \/ UNCHANGED rerun
    \/ RerunRead \/ RerunOpens \/ Crash
  BY ZenonT(60) DEF Next, vars, Platform, Becomes, Send, Lost, Toggle, Push, Close,
     Reopen, Webhook, Scheduler, Tick, DebounceRead, DebounceOpen, Promote, Launch,
     LaunchCheck, IssueToken, CreateThread, ConfirmThread, MarkTimeout, Interrupt,
     Sync, SyncStart, SyncRead, SyncGuard, SyncWrite, SyncRecord, SyncFinish, Claim,
     Archive, Agent, AgentReads, SubmitLoad, SubmitRead, SubmitStale, SubmitCommit,
     Time, DebounceFires, ClaimAges, DeadlinePasses

LEMMA SchedWritten ==
  [Next]_vars =>
    \/ UNCHANGED sched
    \/ Tick \/ DebounceRead \/ DebounceOpen \/ Promote \/ Launch
    \/ Sync \/ Crash
    \/ \E r \in RunId : Claim(r) \/ MarkTimeout(r) \/ Interrupt(r) \/ Archive(r)
  BY ZenonT(60) DEF Next, vars, Platform, Becomes, Send, Lost, Toggle, Push, Close,
     Reopen, Webhook, RerunRead, RerunOpens, Scheduler, LaunchCheck, IssueToken,
     CreateThread, ConfirmThread, SyncStart, SyncRead, SyncGuard, SyncWrite,
     SyncRecord, SyncFinish, Agent, AgentReads, SubmitLoad, SubmitRead, SubmitStale,
     SubmitCommit, Time, DebounceFires, ClaimAges, DeadlinePasses

-----------------------------------------------------------------------------
(* Numbers                                                                 *)

LEMMA Bounds ==
  /\ MaxRuns \in Nat /\ MaxPushes \in Nat /\ MaxToggles \in Nat /\ MaxReruns \in Nat
  /\ MaxFaults \in Nat /\ Combos \in Nat \ {0} /\ MaxInflight \in Nat \ {0}
  /\ Heads \subseteq Nat \ {0} /\ 1 \in Heads /\ NoHead \notin Heads
  BY ReviewAssumption DEF NoHead

LEMMA Interval ==
  ASSUME NEW n \in Nat
  PROVE  IsFiniteSet(1 .. n) /\ Cardinality(1 .. n) = n
<1>1. IsFiniteSet(1 .. n) /\ Cardinality(1 .. n) = IF 1 > n THEN 0 ELSE n - 1 + 1
  <2>1. 1 \in Int /\ n \in Int
    OBVIOUS
  <2>. QED
    BY <2>1, FS_Interval
<1>. QED
  BY <1>1

LEMMA RunIds == RunId \subseteq Nat /\ IsFiniteSet(RunId) /\ Cardinality(RunId) = MaxRuns
  BY Bounds, Interval DEF RunId

LEMMA Least ==
  ASSUME NEW T \in SUBSET Nat, T # {}
  PROVE  Min(T) \in T /\ \A y \in T : Min(T) <= y
<1>1. PICK x \in T : \A y \in T : ~(<<y, x>> \in OpToRel(<, Nat))
  <2>1. IsWellFoundedOn(OpToRel(<, Nat), Nat)
    BY NatLessThanWellFounded
  <2>. DEFINE R == OpToRel(<, Nat)
  <2>. HIDE DEF R
  <2>. QED
    BY <2>1, WFMin DEF R
<1>2. \A y \in T : ~(y < x)
  BY <1>1 DEF OpToRel
<1>3. \A y \in T : x <= y
  BY <1>2
<1>. QED
  BY <1>3 DEF Min

LEMMA Greatest ==
  ASSUME NEW T \in SUBSET Nat, T # {}, NEW n \in Nat, \A x \in T : x <= n
  PROVE  Max(T) \in T /\ \A y \in T : Max(T) >= y
<1>. DEFINE U == {u \in Nat : \A x \in T : x <= u}
            m == Min(U)
<1>1. m \in U /\ \A u \in U : m <= u
  <2>1. n \in U /\ U \in SUBSET Nat
    OBVIOUS
  <2>. HIDE DEF U
  <2>. QED
    BY <2>1, Least
<1>2. m \in T
  <2>. SUFFICES ASSUME m \notin T PROVE FALSE
    OBVIOUS
  <2>1. PICK x \in T : x <= m
    BY <1>1
  <2>2. m > 0
    BY <1>1, <2>1
  <2>3. m - 1 \in U
    BY <1>1, <2>2
  <2>. QED
    BY <1>1, <2>3
<1>3. m \in T /\ \A y \in T : m >= y
  BY <1>1, <1>2
<1>. HIDE DEF m
<1>. QED
  BY <1>3 DEF Max

-----------------------------------------------------------------------------
(* Tables of rows                                                          *)

LEMMA RowFields ==
  ASSUME NEW row \in Row
  PROVE  /\ row.status \in {"none"} \cup Unfinished \cup Terminal /\ row.code \in Code
         /\ row.head \in Heads \cup {NoHead} /\ row.round \in 0 .. MaxRuns
         /\ row.claim \in {"no", "fresh", "old"} /\ row.launched \in BOOLEAN
         /\ row.token \in {"none", "live", "consumed"}
         /\ row.overdue \in BOOLEAN /\ row.stopped \in BOOLEAN
         /\ row.archived \in {"no", "yes", "failed"}
  BY DEF Row

(* A row with one field written is a row.                                  *)
LEMMA RowWritten ==
  ASSUME NEW row \in Row
  PROVE  /\ \A x \in Unfinished \cup Terminal : [row EXCEPT !.status = x] \in Row
         /\ \A x \in Code : [row EXCEPT !.code = x] \in Row
         /\ \A x \in {"no", "fresh", "old"} : [row EXCEPT !.claim = x] \in Row
         /\ \A x \in {"none", "live", "consumed"} : [row EXCEPT !.token = x] \in Row
         /\ \A x \in BOOLEAN : /\ [row EXCEPT !.launched = x] \in Row
                               /\ [row EXCEPT !.overdue = x] \in Row
                               /\ [row EXCEPT !.stopped = x] \in Row
         /\ \A x \in {"yes", "failed"} :
              [row EXCEPT !.archived = x, !.overdue = FALSE] \in Row
<1>1. \A x \in Unfinished \cup Terminal : [row EXCEPT !.status = x] \in Row
  BY DEF Row
<1>2. \A x \in Code : [row EXCEPT !.code = x] \in Row
  BY DEF Row
<1>3. \A x \in {"no", "fresh", "old"} : [row EXCEPT !.claim = x] \in Row
  BY DEF Row
<1>4. \A x \in {"none", "live", "consumed"} : [row EXCEPT !.token = x] \in Row
  BY DEF Row
<1>5. \A x \in BOOLEAN : [row EXCEPT !.launched = x] \in Row
  BY DEF Row
<1>6. \A x \in BOOLEAN : [row EXCEPT !.overdue = x] \in Row
  BY DEF Row
<1>7. \A x \in BOOLEAN : [row EXCEPT !.stopped = x] \in Row
  BY DEF Row
<1>8. \A x \in {"yes", "failed"} : [row EXCEPT !.archived = x, !.overdue = FALSE] \in Row
  BY DEF Row
<1>. QED
  BY <1>1, <1>2, <1>3, <1>4, <1>5, <1>6, <1>7, <1>8

LEMMA EndedRow ==
  ASSUME NEW row \in Row, NEW status \in Terminal, NEW code \in Code
  PROVE  /\ Ended(row, status, code) \in Row
         /\ Ended(row, status, code).status = status
         /\ Ended(row, status, code).head = row.head /\ Ended(row, status, code).round = row.round
<1>. DEFINE token == IF row.token = "live" THEN "consumed" ELSE row.token
            r1 == [row EXCEPT !.status = status]
            r2 == [r1 EXCEPT !.code = code]
            r3 == [r2 EXCEPT !.overdue = FALSE]
            r4 == [r3 EXCEPT !.token = token]
<1>1. token \in {"none", "live", "consumed"}
  BY RowFields
<1>2. Ended(row, status, code) = [row EXCEPT !.status = status, !.code = code, !.overdue = FALSE, !.token = token]
  BY DEF Ended, Row
<1>. HIDE DEF token
<1>3. [row EXCEPT !.status = status, !.code = code, !.overdue = FALSE, !.token = token] = r4
  BY DEF Row
<1>4. r1 \in Row
  BY RowWritten
<1>. HIDE DEF r1
<1>5. r2 \in Row
  BY <1>4, RowWritten
<1>. HIDE DEF r2
<1>6. r3 \in Row
  BY <1>5, RowWritten
<1>. HIDE DEF r3
<1>7. r4 \in Row
  BY <1>1, <1>6, RowWritten
<1>8. /\ r4.status = r3.status /\ r4.head = r3.head /\ r4.round = r3.round
      /\ r3.status = r2.status /\ r3.head = r2.head /\ r3.round = r2.round
  BY <1>5, <1>6 DEF Row, r3
<1>9. /\ r2.status = r1.status /\ r2.head = r1.head /\ r2.round = r1.round
      /\ r1.status = status /\ r1.head = row.head /\ r1.round = row.round
  BY <1>4 DEF Row, r2, r1
<1>. QED
  BY <1>2, <1>3, <1>7, <1>8, <1>9

LEMMA SameShape ==
  ASSUME NEW rs, Ordered(rs), NEW rt, rt = [r \in RunId |-> rt[r]],
         \A r \in RunId : /\ rt[r] \in Row
                          /\ rt[r].head = rs[r].head /\ rt[r].round = rs[r].round
                          /\ rt[r].status = "none" <=> rs[r].status = "none"
  PROVE  Ordered(rt)
<1>1. rt \in [RunId -> Row]
  <2>. HIDE DEF Row
  <2>. QED
    OBVIOUS
<1>. QED
  BY <1>1 DEF Ordered

LEMMA FilledRows ==
  ASSUME NEW rs, Ordered(rs)
  PROVE  LET k == Cardinality({r \in RunId : rs[r].status # "none"})
         IN  /\ k \in 0 .. MaxRuns
             /\ \A r \in RunId : rs[r].status # "none" <=> r <= k
             /\ (\E r \in RunId : rs[r].status = "none") => k < MaxRuns
<1>. DEFINE T == {r \in RunId : rs[r].status = "none"}
            R == {r \in RunId : rs[r].status # "none"}
            k == Cardinality(R)
<1>. SUFFICES /\ k \in 0 .. MaxRuns
              /\ \A r \in RunId : rs[r].status # "none" <=> r <= k
              /\ (\E r \in RunId : rs[r].status = "none") => k < MaxRuns
  OBVIOUS
<1>1. CASE T = {}
  <2>1. R = RunId
    BY <1>1
  <2>2. k = MaxRuns
    BY <2>1, RunIds
  <2>3. \A r \in RunId : rs[r].status # "none" /\ r <= MaxRuns
    BY <1>1 DEF RunId
  <2>. HIDE DEF k
  <2>. QED
    BY <2>2, <2>3, Bounds
<1>2. CASE T # {}
  <2>. DEFINE m == Min(T)
  <2>1. m \in T /\ \A r \in T : m <= r
    <3>1. T \in SUBSET Nat
      BY RunIds
    <3>. HIDE DEF T
    <3>. QED
      BY <1>2, <3>1, Least
  <2>2. m \in 1 .. MaxRuns
    BY <2>1 DEF RunId
  <2>. HIDE DEF m
  <2>3. R = 1 .. (m - 1)
    <3>1. ASSUME NEW r \in R PROVE r \in 1 .. (m - 1)
      BY <2>1, <2>2, <3>1, RunIds DEF Ordered, RunId
    <3>2. ASSUME NEW r \in 1 .. (m - 1) PROVE r \in R
      BY <2>1, <2>2, <3>2, Bounds DEF RunId
    <3>. QED
      BY <3>1, <3>2
  <2>4. m - 1 \in Nat /\ Cardinality(1 .. (m - 1)) = m - 1
    <3>1. m - 1 \in Nat
      BY <2>2, Bounds
    <3>. QED
      BY <3>1, Interval
  <2>5. \A r \in RunId : r \in R <=> r <= m - 1
    BY <2>2, <2>3, Bounds DEF RunId
  <2>6. k = m - 1
    BY <2>3, <2>4
  <2>7. \A r \in RunId : rs[r].status # "none" <=> r <= k
    BY <2>5, <2>6
  <2>. HIDE DEF k
  <2>. QED
    BY <2>2, <2>6, <2>7, Bounds
<1>. QED
  BY <1>1, <1>2

LEMMA RoundNumber ==
  ASSUME NEW rs, Ordered(rs), \E r \in RunId : rs[r].status = "none",
         NEW h \in Heads, NEW manual \in BOOLEAN
  PROVE  /\ NextRound(rs, h, manual) \in 0 .. MaxRuns
         /\ NextRound(rs, h, manual) <= Cardinality({r \in RunId : rs[r].status # "none"}) + 1
<1>. DEFINE k == Cardinality({r \in RunId : rs[r].status # "none"})
            same == {r \in RunId : rs[r].head = h}
            T == {rs[r].round : r \in RunId} \cup {0}
<1>1. k \in Nat /\ k < MaxRuns /\ \A r \in RunId : rs[r].status # "none" <=> r <= k
  BY FilledRows, Bounds
<1>. HIDE DEF k
<1>2. Latest(rs) \in 0 .. k
  <2>1. T \in SUBSET Nat /\ T # {}
    BY DEF Ordered, Row
  <2>2. \A x \in T : x <= k
    <3>1. ASSUME NEW r \in RunId PROVE rs[r].round <= k
      <4>1. CASE rs[r].status = "none"
        BY <1>1, <4>1 DEF Ordered
      <4>2. CASE rs[r].status # "none"
        <5>1. r <= k /\ rs[r].round <= r /\ rs[r].round \in Nat
          BY <1>1, <4>2 DEF Ordered, Row
        <5>. QED
          BY <1>1, <5>1, RunIds
      <4>. QED
        BY <4>1, <4>2
    <3>. QED
      BY <1>1, <3>1
  <2>3. Max(T) \in T
    <3>. HIDE DEF T
    <3>. QED
      BY <1>1, <2>1, <2>2, Greatest
  <2>. QED
    BY <1>1, <2>1, <2>2, <2>3 DEF Latest
<1>3. CASE ~manual /\ same # {}
  <2>1. Min(same) \in same
    <3>1. same \in SUBSET Nat
      BY RunIds
    <3>. HIDE DEF same
    <3>. QED
      BY <1>3, <3>1, Least
  <2>. DEFINE m == Min(same)
  <2>2. m \in RunId /\ rs[m].head = h
    BY <2>1
  <2>3. NextRound(rs, h, manual) = rs[m].round
    BY <1>3 DEF NextRound
  <2>. HIDE DEF m
  <2>4. m <= k
    BY <1>1, <2>2, Bounds DEF Ordered
  <2>5. rs[m].round \in 0 .. MaxRuns /\ rs[m].round <= m
    BY <2>2 DEF Ordered, Row
  <2>. QED
    BY <1>1, <2>2, <2>3, <2>4, <2>5, RunIds, Bounds DEF k
<1>4. CASE manual \/ same = {}
  <2>1. NextRound(rs, h, manual) = Latest(rs) + 1
    BY <1>4 DEF NextRound
  <2>. QED
    BY <1>1, <1>2, <2>1, Bounds DEF k
<1>. QED
  BY <1>3, <1>4

QueuedRow(h, round) == [NoRow EXCEPT !.status = "queued", !.head = h, !.round = round]

LEMMA NoRowType == NoRow \in Row
<1>1. "none" \in {"none"} \cup Unfinished \cup Terminal /\ "" \in Code /\ 0 \in 0 .. MaxRuns
  BY Bounds DEF Code
<1>. QED
  BY <1>1 DEF Row, NoRow

LEMMA QueuedRowType ==
  ASSUME NEW h \in Heads, NEW round \in 0 .. MaxRuns
  PROVE  /\ QueuedRow(h, round) \in Row
         /\ QueuedRow(h, round).status = "queued" /\ QueuedRow(h, round).head = h
         /\ QueuedRow(h, round).round = round
<1>. DEFINE r1 == [NoRow EXCEPT !.status = "queued"]
            r2 == [r1 EXCEPT !.head = h]
            r3 == [r2 EXCEPT !.round = round]
<1>0. "queued" \in Unfinished
  BY DEF Unfinished
<1>1. r1 \in Row /\ r1.status = "queued"
  <2>1. r1 \in Row
    BY <1>0, NoRowType, RowWritten
  <2>. QED
    BY <2>1, NoRowType DEF Row
<1>2. QueuedRow(h, round) = r3
  BY NoRowType DEF Row, QueuedRow
<1>. HIDE DEF r1
<1>3. r2 \in Row /\ r2.status = "queued" /\ r2.head = h
  BY <1>1 DEF Row
<1>. HIDE DEF r2
<1>4. r3 \in Row /\ r3.status = "queued" /\ r3.head = h /\ r3.round = round
  BY <1>3 DEF Row
<1>. QED
  BY <1>2, <1>4

(* A new round takes rows that are not filled, in their order.             *)
LEMMA RoundRows ==
  ASSUME NEW rs, Ordered(rs), \E r \in RunId : rs[r].status = "none",
         NEW h \in Heads, NEW manual \in BOOLEAN
  PROVE  LET round == NextRound(rs, h, manual)
             rt == WithRound(rs, h, round)
         IN  /\ Ordered(rt)
             /\ \A r \in RunId : \/ rt[r] = rs[r]
                                 \/ rs[r].status = "none" /\ rt[r] = QueuedRow(h, round)
<1>. DEFINE round == NextRound(rs, h, manual)
            rt == WithRound(rs, h, round)
            rows == {r \in RunId : rs[r].status # "none"}
            k == Cardinality(rows)
<1>1. k \in Nat /\ k < MaxRuns /\ \A r \in RunId : rs[r].status # "none" <=> r <= k
  BY FilledRows, Bounds
<1>2. round \in 0 .. MaxRuns /\ round <= k + 1
  BY RoundNumber
<1>3. PICK new \in {{}, (k + 1) .. (k + Combos)} :
        rt = [r \in RunId |-> IF r \in new THEN QueuedRow(h, round) ELSE rs[r]]
  <2>1. rt = [r \in RunId |->
                IF r \in IF \E q \in rows : rs[q].head = h /\ rs[q].round = round THEN {}
                         ELSE (k + 1) .. (k + Combos)
                THEN QueuedRow(h, round) ELSE rs[r]]
    BY DEF WithRound, QueuedRow
  <2>. HIDE DEF rt, round, k, rows
  <2>. QED
    BY <2>1
<1>. HIDE DEF round, rt, k
<1>4. ASSUME NEW r \in RunId PROVE rt[r] = rs[r] \/ (rs[r].status = "none" /\ rt[r] = QueuedRow(h, round))
  <2>1. CASE r \in new
    BY <1>1, <1>3, <2>1, Bounds, RunIds
  <2>2. CASE r \notin new
    BY <1>3, <2>2
  <2>. QED
    BY <2>1, <2>2
<1>5. Ordered(rt)
  <2>0. /\ QueuedRow(h, round) \in Row /\ QueuedRow(h, round).status = "queued"
        /\ QueuedRow(h, round).head = h /\ QueuedRow(h, round).round = round
    BY <1>2, QueuedRowType
  <2>1. rt \in [RunId -> Row]
    BY <1>3, <2>0 DEF Ordered
  <2>2. ASSUME NEW p \in RunId, NEW r \in RunId, p < r, rt[r].status # "none"
        PROVE  rt[p].status # "none"
    <3>1. CASE r \in new
      <4>1. r \in (k + 1) .. (k + Combos) /\ new = (k + 1) .. (k + Combos)
        BY <1>3, <3>1
      <4>2. p <= k \/ p \in new
        BY <1>1, <2>2, <4>1, RunIds, Bounds
      <4>. QED
        BY <1>1, <1>3, <2>0, <4>2
    <3>2. CASE r \notin new
      <4>1. rs[p].status # "none"
        BY <1>3, <2>2, <3>2 DEF Ordered
      <4>. QED
        BY <1>4, <4>1
    <3>. QED
      BY <3>1, <3>2
  <2>3. ASSUME NEW r \in RunId
        PROVE  /\ rt[r].status = "none" => rt[r].head = NoHead /\ rt[r].round = 0
               /\ rt[r].round <= r
    <3>1. CASE r \in new
      <4>1. r \in (k + 1) .. (k + Combos)
        BY <1>3, <3>1
      <4>2. rt[r] = QueuedRow(h, round)
        BY <1>3, <3>1
      <4>. QED
        BY <1>1, <1>2, <2>0, <4>1, <4>2, Bounds
    <3>2. CASE r \notin new
      BY <1>3, <3>2 DEF Ordered
    <3>. QED
      BY <3>1, <3>2
  <2>. QED
    BY <2>1, <2>2, <2>3 DEF Ordered
<1>. QED
  BY <1>4, <1>5 DEF rt, round

ActiveIn(rs) == {r \in RunId : rs[r].status \in Active}

(* A promotion fills the places of the user, and no more.                  *)
LEMMA Promotion ==
  ASSUME NEW rs, Ordered(rs)
  PROVE  /\ Ordered(Promoted(rs))
         /\ \A r \in RunId : \/ Promoted(rs)[r] = rs[r]
                             \/ /\ rs[r].status = "queued"
                                /\ Promoted(rs)[r] = [rs[r] EXCEPT !.status = "dispatched"]
         /\ Cardinality(ActiveIn(rs)) <= MaxInflight =>
              Cardinality(ActiveIn(Promoted(rs))) <= MaxInflight
<1>. DEFINE active == Cardinality(ActiveIn(rs))
            queued == {r \in RunId : rs[r].status = "queued"}
            Before(r) == {q \in queued : q < r}
            first == {r \in queued : active + Cardinality(Before(r)) < MaxInflight}
            rt == Promoted(rs)
<1>1. rt = [r \in RunId |-> IF r \in first THEN [rs[r] EXCEPT !.status = "dispatched"] ELSE rs[r]]
  BY DEF Promoted, ActiveIn
<1>. HIDE DEF rt
<1>2. \A r \in RunId : \/ rt[r] = rs[r]
                       \/ rs[r].status = "queued" /\ rt[r] = [rs[r] EXCEPT !.status = "dispatched"]
  BY <1>1
<1>3. Ordered(rt)
  <2>1. ASSUME NEW r \in RunId
        PROVE  /\ rt[r] \in Row /\ rt[r].head = rs[r].head /\ rt[r].round = rs[r].round
               /\ rt[r].status = "none" <=> rs[r].status = "none"
    <3>1. rs[r] \in Row
      BY DEF Ordered
    <3>2. LET row == [rs[r] EXCEPT !.status = "dispatched"]
          IN  row \in Row /\ row.head = rs[r].head /\ row.round = rs[r].round /\ row.status = "dispatched"
      <4>1. "dispatched" \in Unfinished
        BY DEF Unfinished, Active
      <4>2. [rs[r] EXCEPT !.status = "dispatched"] \in Row
        BY <3>1, <4>1, RowWritten
      <4>. QED
        BY <3>1, <4>2 DEF Row
    <3>. QED
      BY <1>2, <3>1, <3>2
  <2>2. rt = [r \in RunId |-> rt[r]]
    BY <1>1
  <2>. QED
    BY <2>1, <2>2, SameShape
<1>4. ASSUME active <= MaxInflight
      PROVE  Cardinality(ActiveIn(rt)) <= MaxInflight
  <2>1. ActiveIn(rt) \subseteq ActiveIn(rs) \cup first
    BY <1>1 DEF ActiveIn
  <2>2. /\ IsFiniteSet(ActiveIn(rs)) /\ IsFiniteSet(first) /\ first \in SUBSET Nat
        /\ IsFiniteSet(ActiveIn(rt)) /\ \A r \in RunId : IsFiniteSet(Before(r))
    <3>1. /\ ActiveIn(rs) \subseteq RunId /\ ActiveIn(rt) \subseteq RunId /\ first \subseteq RunId
          /\ \A r \in RunId : Before(r) \subseteq RunId
      BY DEF ActiveIn
    <3>. HIDE DEF first, Before
    <3>. QED
      BY <3>1, RunIds, FS_Subset
  <2>. HIDE DEF active
  <2>3. active \in Nat /\ Cardinality(first) \in Nat /\ Cardinality(ActiveIn(rt)) \in Nat
    BY <2>2, FS_CardinalityType DEF active
  <2>4. Cardinality(ActiveIn(rt)) <= active + Cardinality(first)
    <3>. HIDE DEF first
    <3>1. /\ IsFiniteSet(ActiveIn(rs) \cup first)
          /\ Cardinality(ActiveIn(rs) \cup first) =
               active + Cardinality(first) - Cardinality(ActiveIn(rs) \cap first)
      BY <2>2, FS_Union DEF active
    <3>2. Cardinality(ActiveIn(rs) \cap first) \in Nat
      BY <2>2, FS_Intersection, FS_CardinalityType
    <3>3. Cardinality(ActiveIn(rt)) <= Cardinality(ActiveIn(rs) \cup first)
      BY <2>1, <3>1, FS_Subset
    <3>. QED
      BY <2>3, <3>1, <3>2, <3>3
  <2>5. CASE first = {}
    <3>1. Cardinality(first) = 0
      BY <2>5, FS_EmptySet
    <3>2. active <= MaxInflight
      BY <1>4 DEF active
    <3>. HIDE DEF first
    <3>. QED
      BY <2>3, <2>4, <3>1, <3>2, Bounds
  <2>6. CASE first # {}
    <3>. DEFINE m == Max(first)
    <3>1. m \in first /\ \A r \in first : m >= r
      <4>1. \A r \in first : r <= MaxRuns
        BY DEF RunId
      <4>. HIDE DEF first
      <4>. QED
        BY <2>2, <2>6, <4>1, Bounds, Greatest
    <3>. HIDE DEF m
    <3>2. m \in RunId /\ active + Cardinality(Before(m)) < MaxInflight
      BY <3>1
    <3>3. first \subseteq Before(m) \cup {m}
      <4>1. ASSUME NEW r \in first, r # m PROVE r \in queued /\ r < m
        BY <3>1, <3>2, <4>1, RunIds
      <4>. QED
        BY <4>1
    <3>4. Cardinality(first) <= Cardinality(Before(m)) + 1 /\ Cardinality(Before(m)) \in Nat
      <4>. HIDE DEF Before, first
      <4>1. IsFiniteSet(Before(m)) /\ Cardinality(Before(m)) \in Nat
        BY <2>2, <3>2, FS_CardinalityType
      <4>2. /\ IsFiniteSet(Before(m) \cup {m})
            /\ Cardinality(Before(m) \cup {m}) \in {Cardinality(Before(m)), Cardinality(Before(m)) + 1}
        BY <4>1, FS_AddElement
      <4>3. Cardinality(first) <= Cardinality(Before(m) \cup {m})
        BY <3>3, <4>2, FS_Subset
      <4>. QED
        BY <2>3, <4>1, <4>2, <4>3
    <3>. HIDE DEF Before, first
    <3>. QED
      BY <2>3, <2>4, <3>2, <3>4, Bounds
  <2>. QED
    BY <2>5, <2>6
<1>. QED
  BY <1>2, <1>3, <1>4 DEF rt

-----------------------------------------------------------------------------
(* The rows of a step                                                      *)

(* What a superseding end, another end and a written field leave of a      *)
(* table.                                                                  *)
LEMMA SupersededRows ==
  ASSUME Ordered(runs)
  PROVE  /\ Ordered(SupersedeRuns)
         /\ \A r \in RunId :
              \/ runs[r].status \notin Unfinished /\ SupersedeRuns[r] = runs[r]
              \/ /\ runs[r].status \in Unfinished /\ SupersedeRuns[r].status \in Terminal
                 /\ SupersedeRuns[r].head = runs[r].head
                 /\ SupersedeRuns[r].round = runs[r].round
<1>. DEFINE rt == SupersedeRuns
<1>1. \A r \in RunId : runs[r] \in Row
  BY DEF Ordered
<1>2. "cancelled" \in Terminal /\ "superseded" \in Code
  BY DEF Terminal, Code
<1>3. ASSUME NEW r \in RunId
      PROVE  \/ runs[r].status \notin Unfinished /\ rt[r] = runs[r]
             \/ /\ runs[r].status \in Unfinished /\ rt[r] \in Row
                /\ rt[r].status \in Terminal
                /\ rt[r].head = runs[r].head /\ rt[r].round = runs[r].round
  <2>1. CASE runs[r].status \in Unfinished
    <3>1. rt[r] = Ended(runs[r], "cancelled", "superseded")
      BY <2>1 DEF SupersedeRuns
    <3>. QED
      BY <1>1, <1>2, <2>1, <3>1, EndedRow
  <2>2. CASE runs[r].status \notin Unfinished
    BY <2>2 DEF SupersedeRuns
  <2>. QED
    BY <2>1, <2>2
<1>4. rt = [r \in RunId |-> rt[r]]
  BY DEF SupersedeRuns
<1>. HIDE DEF rt
<1>5. "none" \notin Unfinished /\ "none" \notin Terminal
  BY DEF Unfinished, Active, Terminal
<1>6. \A r \in RunId : /\ rt[r] \in Row
                       /\ rt[r].head = runs[r].head /\ rt[r].round = runs[r].round
                       /\ rt[r].status = "none" <=> runs[r].status = "none"
  BY <1>1, <1>3, <1>5
<1>7. Ordered(rt)
  BY <1>4, <1>6, SameShape
<1>. QED
  BY <1>3, <1>7 DEF rt

LEMMA OneRow ==
  ASSUME Ordered(runs), NEW r \in RunId, NEW row \in Row,
         row.head = runs[r].head, row.round = runs[r].round,
         row.status = "none" <=> runs[r].status = "none"
  PROVE  Ordered([runs EXCEPT ![r] = row])
<1>. DEFINE rt == [runs EXCEPT ![r] = row]
<1>1. runs \in [RunId -> Row]
  BY DEF Ordered
<1>2. rt = [q \in RunId |-> rt[q]]
  BY <1>1
<1>3. \A q \in RunId : rt[q] = IF q = r THEN row ELSE runs[q]
  BY <1>1
<1>. HIDE DEF rt
<1>4. \A q \in RunId : /\ rt[q] \in Row
                       /\ rt[q].head = runs[q].head /\ rt[q].round = runs[q].round
                       /\ rt[q].status = "none" <=> runs[q].status = "none"
  BY <1>1, <1>3
<1>5. Ordered(rt)
  BY <1>2, <1>4, SameShape
<1>. QED
  BY <1>5 DEF rt

LEMMA EndedRows ==
  ASSUME Ordered(runs), NEW r \in RunId, runs[r].status \in Unfinished,
         NEW status \in Terminal, NEW code \in Code
  PROVE  /\ Ordered(EndRun(r, status, code))
         /\ \A q \in RunId :
              \/ EndRun(r, status, code)[q] = runs[q]
              \/ /\ runs[q].status \in Unfinished
                 /\ EndRun(r, status, code)[q].status \in Terminal
                 /\ EndRun(r, status, code)[q].head = runs[q].head
                 /\ EndRun(r, status, code)[q].round = runs[q].round
<1>. DEFINE row == Ended(runs[r], status, code)
<1>1. runs \in [RunId -> Row] /\ runs[r] \in Row
  BY DEF Ordered
<1>2. /\ row \in Row /\ row.status = status
      /\ row.head = runs[r].head /\ row.round = runs[r].round
  BY <1>1, EndedRow
<1>3. EndRun(r, status, code) = [runs EXCEPT ![r] = row]
  BY <1>1 DEF EndRun
<1>. HIDE DEF row
<1>4. "none" \notin Unfinished /\ "none" \notin Terminal
  BY DEF Unfinished, Active, Terminal
<1>5. Ordered([runs EXCEPT ![r] = row])
  BY <1>2, <1>4, OneRow
<1>. QED
  BY <1>1, <1>2, <1>3, <1>5

(* The steps that write rows: they launch a run or note something of it,   *)
(* end runs, end them all for another head, or open a round.               *)
Kept(r) ==
  /\ runs'[r].head = runs[r].head /\ runs'[r].round = runs[r].round
  /\ runs'[r].code = runs[r].code
  /\ \/ runs'[r].status = runs[r].status
     \/ runs[r].status \in Active /\ runs'[r].status \in Active
Finished(r) ==
  /\ runs'[r].head = runs[r].head /\ runs'[r].round = runs[r].round
  /\ runs[r].status \in Unfinished /\ runs'[r].status \in Terminal
Entered(r) ==
  /\ runs[r].status = "none" /\ runs'[r].status \in Unfinished
  /\ runs'[r].head = ledger'.head /\ runs'[r].round = ledger'.round

SameRound == ledger'.head = ledger.head /\ ledger'.round = ledger.round
Notes == (\A r \in RunId : Kept(r)) /\ SameRound
Promotes == runs' = Promoted(runs) /\ UNCHANGED <<ledger, current, published>>
Finishes ==
  /\ \A r \in RunId : Kept(r) \/ Finished(r)
  /\ SameRound /\ ledger'.status = ledger.status /\ ~current'
  /\ UNCHANGED published
Moves ==
  /\ \A r \in RunId : Kept(r) \/ Finished(r)
  /\ \A r \in RunId : runs'[r].status \notin Unfinished
  /\ RunsOf(ledger'.head) = {} /\ ledger'.head # NoHead /\ ~current'
Opens ==
  /\ \A r \in RunId : \/ Kept(r) /\ runs[r].status \notin Unfinished
                      \/ Finished(r) \/ Entered(r)
  /\ Cardinality(ActiveIn(runs')) <= MaxInflight
  /\ ledger'.status = "" /\ ~current' /\ debounce' = NoDebounce

(* A table with other rows than before, but the same rounds.               *)
LEMMA Noted ==
  ASSUME Ordered(runs), NEW r \in RunId, NEW row \in Row,
         row.head = runs[r].head, row.round = runs[r].round, row.code = runs[r].code,
         \/ row.status = runs[r].status
         \/ runs[r].status \in Active /\ row.status \in Active,
         runs' = [runs EXCEPT ![r] = row], SameRound
  PROVE  Ordered(runs') /\ Notes
<1>1. runs \in [RunId -> Row]
  BY DEF Ordered
<1>2. "none" \notin Active
  BY DEF Active
<1>3. Ordered([runs EXCEPT ![r] = row])
  BY <1>2, OneRow
<1>4. \A q \in RunId : runs'[q] = IF q = r THEN row ELSE runs[q]
  BY <1>1
<1>. QED
  BY <1>3, <1>4 DEF Notes, Kept

LEMMA Untouched ==
  ASSUME Ordered(runs), UNCHANGED runs, SameRound
  PROVE  Ordered(runs') /\ Notes
  BY DEF Notes, Kept

LEMMA Superseding ==
  ASSUME Ordered(runs), runs' = SupersedeRuns
  PROVE  /\ Ordered(runs')
         /\ \A r \in RunId : Kept(r) \/ Finished(r)
         /\ \A r \in RunId : runs'[r].status \notin Unfinished
<1>1. \A x \in Terminal : x \notin Unfinished
  BY DEF Terminal, Unfinished, Active
<1>2. Ordered(runs')
  BY SupersededRows
<1>3. ASSUME NEW r \in RunId
      PROVE  (Kept(r) \/ Finished(r)) /\ runs'[r].status \notin Unfinished
  <2>1. \/ runs[r].status \notin Unfinished /\ runs'[r] = runs[r]
        \/ /\ runs[r].status \in Unfinished /\ runs'[r].status \in Terminal
           /\ runs'[r].head = runs[r].head /\ runs'[r].round = runs[r].round
    BY SupersededRows
  <2>. QED
    BY <1>1, <2>1 DEF Kept, Finished
<1>. QED
  BY <1>2, <1>3

LEMMA LedgerFields ==
  ASSUME TypeOK
  PROVE  /\ \A x \in BOOLEAN :
              LET row == [ledger EXCEPT !.pending = x]
              IN  /\ row.head = ledger.head /\ row.round = ledger.round
                  /\ row.status = ledger.status /\ row.pending = x
         /\ \A x \in CommitStatus :
              LET row == [ledger EXCEPT !.status = x]
              IN  /\ row.head = ledger.head /\ row.round = ledger.round
                  /\ row.status = x /\ row.pending = ledger.pending
         /\ \A h \in Heads :
              LET row == [ledger EXCEPT !.head = h, !.pending = FALSE]
              IN  /\ row.head = h /\ row.round = ledger.round
                  /\ row.status = ledger.status /\ row.pending = FALSE
  BY DEF TypeOK

(* A run that ends, and the end that comes too late.                       *)
LEMMA Ending ==
  ASSUME TypeOK, Ordered(runs), NEW r \in RunId, NEW status \in Terminal, NEW code \in Code,
         runs[r].status \in Unfinished, runs' = EndRun(r, status, code), MarkPending,
         UNCHANGED published
  PROVE  Ordered(runs') /\ Finishes
<1>1. /\ Ordered(runs')
      /\ \A q \in RunId : Kept(q) \/ Finished(q)
  BY EndedRows DEF Kept, Finished
<1>2. SameRound /\ ledger'.status = ledger.status /\ ~current'
  BY LedgerFields DEF MarkPending, SameRound
<1>. QED
  BY <1>1, <1>2 DEF Finishes

LEMMA EndingIf ==
  ASSUME TypeOK, Ordered(runs), NEW r \in RunId, NEW status \in Terminal, NEW code \in Code,
         NEW from \in SUBSET Unfinished, EndIf(r, from, status, code), UNCHANGED published
  PROVE  Ordered(runs') /\ (Notes \/ Finishes)
<1>1. CASE runs[r].status \in from
  <2>1. runs' = EndRun(r, status, code) /\ MarkPending
    BY <1>1 DEF EndIf, EndAndMark
  <2>2. runs[r].status \in Unfinished
    BY <1>1
  <2>. QED
    BY <2>1, <2>2, Ending
<1>2. CASE runs[r].status \notin from
  <2>1. UNCHANGED runs /\ SameRound
    BY <1>2 DEF EndIf, SameRound
  <2>. QED
    BY <2>1, Untouched
<1>. QED
  BY <1>1, <1>2

(* A row with a mark, and a run with a result or a request.                *)
LEMMA Marking ==
  ASSUME Ordered(runs), NEW r \in RunId, SameRound,
         \/ \E x \in {"no", "fresh", "old"} : runs' = [runs EXCEPT ![r].claim = x]
         \/ \E x \in {"none", "live", "consumed"} : runs' = [runs EXCEPT ![r].token = x]
         \/ \E x \in BOOLEAN : \/ runs' = [runs EXCEPT ![r].launched = x]
                               \/ runs' = [runs EXCEPT ![r].overdue = x]
                               \/ runs' = [runs EXCEPT ![r].stopped = x]
         \/ \E x \in {"yes", "failed"} :
              runs' = [runs EXCEPT ![r] = [@ EXCEPT !.archived = x, !.overdue = FALSE]]
  PROVE  Ordered(runs') /\ Notes
<1>1. runs \in [RunId -> Row] /\ runs[r] \in Row
  BY DEF Ordered
<1>2. PICK row \in Row :
        /\ row.head = runs[r].head /\ row.round = runs[r].round /\ row.code = runs[r].code
        /\ row.status = runs[r].status
        /\ runs' = [runs EXCEPT ![r] = row]
  <2>1. CASE \E x \in {"no", "fresh", "old"} : runs' = [runs EXCEPT ![r].claim = x]
    <3>1. PICK x \in {"no", "fresh", "old"} : runs' = [runs EXCEPT ![r].claim = x]
      BY <2>1
    <3>2. [runs[r] EXCEPT !.claim = x] \in Row
      BY <1>1, <3>1, RowWritten
    <3>. WITNESS [runs[r] EXCEPT !.claim = x] \in Row
    <3>. QED
      BY <1>1, <3>1 DEF Row
  <2>2. CASE \E x \in {"none", "live", "consumed"} : runs' = [runs EXCEPT ![r].token = x]
    <3>1. PICK x \in {"none", "live", "consumed"} : runs' = [runs EXCEPT ![r].token = x]
      BY <2>2
    <3>2. [runs[r] EXCEPT !.token = x] \in Row
      BY <1>1, <3>1, RowWritten
    <3>. WITNESS [runs[r] EXCEPT !.token = x] \in Row
    <3>. QED
      BY <1>1, <3>1 DEF Row
  <2>3. CASE \E x \in BOOLEAN : runs' = [runs EXCEPT ![r].launched = x]
    <3>1. PICK x \in BOOLEAN : runs' = [runs EXCEPT ![r].launched = x]
      BY <2>3
    <3>2. [runs[r] EXCEPT !.launched = x] \in Row
      BY <1>1, <3>1, RowWritten
    <3>. WITNESS [runs[r] EXCEPT !.launched = x] \in Row
    <3>. QED
      BY <1>1, <3>1 DEF Row
  <2>4. CASE \E x \in BOOLEAN : runs' = [runs EXCEPT ![r].overdue = x]
    <3>1. PICK x \in BOOLEAN : runs' = [runs EXCEPT ![r].overdue = x]
      BY <2>4
    <3>2. [runs[r] EXCEPT !.overdue = x] \in Row
      BY <1>1, <3>1, RowWritten
    <3>. WITNESS [runs[r] EXCEPT !.overdue = x] \in Row
    <3>. QED
      BY <1>1, <3>1 DEF Row
  <2>5. CASE \E x \in BOOLEAN : runs' = [runs EXCEPT ![r].stopped = x]
    <3>1. PICK x \in BOOLEAN : runs' = [runs EXCEPT ![r].stopped = x]
      BY <2>5
    <3>2. [runs[r] EXCEPT !.stopped = x] \in Row
      BY <1>1, <3>1, RowWritten
    <3>. WITNESS [runs[r] EXCEPT !.stopped = x] \in Row
    <3>. QED
      BY <1>1, <3>1 DEF Row
  <2>6. CASE \E x \in {"yes", "failed"} :
               runs' = [runs EXCEPT ![r] = [@ EXCEPT !.archived = x, !.overdue = FALSE]]
    <3>1. PICK x \in {"yes", "failed"} :
            runs' = [runs EXCEPT ![r] = [@ EXCEPT !.archived = x, !.overdue = FALSE]]
      BY <2>6
    <3>2. [runs[r] EXCEPT !.archived = x, !.overdue = FALSE] \in Row
      BY <1>1, <3>1, RowWritten
    <3>. WITNESS [runs[r] EXCEPT !.archived = x, !.overdue = FALSE] \in Row
    <3>. QED
      BY <1>1, <3>1 DEF Row
  <2>. QED
    BY <2>1, <2>2, <2>3, <2>4, <2>5, <2>6
<1>. QED
  BY <1>2, Noted

LEMMA Authenticating ==
  ASSUME Ordered(runs), NEW r \in RunId, SameRound, runs[r].status \in Active,
         runs' = Authenticated(r)
  PROVE  Ordered(runs') /\ Notes
<1>. DEFINE row == [runs[r] EXCEPT !.status = "running", !.launched = TRUE]
            r1 == [runs[r] EXCEPT !.status = "running"]
            r2 == [r1 EXCEPT !.launched = TRUE]
<1>1. runs \in [RunId -> Row] /\ runs[r] \in Row
  BY DEF Ordered
<1>2. runs' = [runs EXCEPT ![r] = row]
  BY <1>1 DEF Authenticated, Row
<1>3. r1 \in Row /\ "running" \in Active
  BY <1>1, RowWritten DEF Unfinished, Active
<1>4. row = r2
  BY <1>1 DEF Row
<1>5. /\ r1.head = runs[r].head /\ r1.round = runs[r].round /\ r1.code = runs[r].code
      /\ r1.status = "running"
  BY <1>1 DEF Row
<1>. HIDE DEF r1
<1>6. r2 \in Row /\ r2.head = r1.head /\ r2.round = r1.round /\ r2.code = r1.code /\ r2.status = r1.status
  BY <1>3 DEF Row
<1>. HIDE DEF r2, row
<1>7. /\ r2 \in Row
      /\ r2.head = runs[r].head /\ r2.round = runs[r].round /\ r2.code = runs[r].code
      /\ r2.status \in Active
  BY <1>3, <1>5, <1>6, Zenon
<1>8. runs' = [runs EXCEPT ![r] = r2]
  BY <1>2, <1>4, Zenon
<1>. QED
  BY <1>7, <1>8, Noted, Zenon

LEMMA Opening ==
  ASSUME NEW rs, Ordered(rs),
         \A r \in RunId :
           \/ rs[r] = runs[r] /\ runs[r].status \notin Unfinished
           \/ /\ runs[r].status \in Unfinished /\ rs[r].status \in Terminal
              /\ rs[r].head = runs[r].head /\ rs[r].round = runs[r].round,
         NEW h \in Heads, NEW manual \in BOOLEAN, OpenRound(rs, h, manual),
         debounce' = NoDebounce
  PROVE  Ordered(runs') /\ Opens /\ ledger'.round \in 0 .. MaxRuns
<1>. DEFINE round == NextRound(rs, h, manual)
            rt == WithRound(rs, h, round)
<1>1. /\ ledger' = [head |-> h, round |-> round, pending |-> TRUE, status |-> ""]
      /\ runs' = Promoted(rt) /\ ~current' /\ Room
  BY DEF OpenRound
<1>2. /\ ledger'.head = h /\ ledger'.round = round /\ ledger'.status = ""
  <2>. HIDE DEF round
  <2>. QED
    BY <1>1
<1>3. \A x \in Terminal : x \notin Unfinished /\ x # "none"
  BY DEF Terminal, Unfinished, Active
<1>4. \A r \in RunId : rs[r].status \notin Unfinished
  BY <1>3
<1>5. \E r \in RunId : rs[r].status = "none"
  <2>1. Cardinality(InStatus({"none"})) >= Combos
    BY <1>1 DEF Room
  <2>2. InStatus({"none"}) # {}
    <3>. SUFFICES ASSUME InStatus({"none"}) = {} PROVE FALSE
      OBVIOUS
    <3>1. Cardinality(InStatus({"none"})) = 0
      BY FS_EmptySet
    <3>. QED
      BY <2>1, <3>1, Bounds
  <2>3. PICK r \in RunId : runs[r].status = "none"
    BY <2>2 DEF InStatus
  <2>4. "none" \notin Unfinished
    BY DEF Unfinished, Active
  <2>. QED
    BY <2>3, <2>4
<1>6. round \in 0 .. MaxRuns
  BY <1>5, RoundNumber
<1>7. /\ Ordered(rt)
      /\ \A r \in RunId : \/ rt[r] = rs[r]
                          \/ rs[r].status = "none" /\ rt[r] = QueuedRow(h, round)
  BY <1>5, RoundRows
<1>8. /\ QueuedRow(h, round).status = "queued" /\ QueuedRow(h, round).head = h
      /\ QueuedRow(h, round).round = round
  BY <1>6, QueuedRowType
<1>. HIDE DEF rt, round
<1>9. /\ Ordered(runs')
      /\ \A r \in RunId : \/ runs'[r] = rt[r]
                          \/ rt[r].status = "queued" /\ runs'[r] = [rt[r] EXCEPT !.status = "dispatched"]
      /\ Cardinality(ActiveIn(rt)) <= MaxInflight => Cardinality(ActiveIn(runs')) <= MaxInflight
  <2>1. /\ Ordered(Promoted(rt))
        /\ \A r \in RunId : \/ Promoted(rt)[r] = rt[r]
                            \/ /\ rt[r].status = "queued"
                               /\ Promoted(rt)[r] = [rt[r] EXCEPT !.status = "dispatched"]
        /\ Cardinality(ActiveIn(rt)) <= MaxInflight =>
             Cardinality(ActiveIn(Promoted(rt))) <= MaxInflight
    BY <1>7, Promotion
  <2>. QED
    BY <1>1, <2>1
<1>10. Cardinality(ActiveIn(runs')) <= MaxInflight
  <2>1. "queued" \notin Active /\ Active \subseteq Unfinished
    BY DEF Active, Unfinished
  <2>2. ActiveIn(rt) = {}
    BY <1>4, <1>7, <1>8, <2>1 DEF ActiveIn
  <2>3. Cardinality(ActiveIn(rt)) = 0
    BY <2>2, FS_EmptySet
  <2>. QED
    BY <1>9, <2>3, Bounds
<1>11. ASSUME NEW r \in RunId
       PROVE  \/ Kept(r) /\ runs[r].status \notin Unfinished
              \/ Finished(r) \/ Entered(r)
  <2>1. CASE rs[r].status = "none" /\ rt[r] = QueuedRow(h, round)
    <3>1. runs[r].status = "none"
      BY <1>3, <2>1
    <3>2. rt[r] \in Row /\ rt[r].status = "queued" /\ rt[r].head = h /\ rt[r].round = round
      BY <1>7, <1>8, <2>1 DEF Ordered
    <3>3. /\ runs'[r].head = rt[r].head /\ runs'[r].round = rt[r].round
          /\ runs'[r].status \in {"queued", "dispatched"}
      BY <1>9, <3>2 DEF Row
    <3>4. runs'[r].status \in Unfinished
      BY <3>3 DEF Unfinished, Active
    <3>. QED
      BY <1>2, <3>1, <3>2, <3>3, <3>4 DEF Entered
  <2>2. CASE rt[r] = rs[r]
    <3>1. "queued" \in Unfinished
      BY DEF Unfinished
    <3>2. rt[r].status # "queued"
      BY <1>4, <2>2, <3>1
    <3>3. runs'[r] = rs[r]
      <4>1. runs'[r] = rt[r]
        BY Zenon, <1>9, <3>2
      <4>. QED
        BY Zenon, <2>2, <4>1
    <3>. QED
      BY <3>3 DEF Kept, Finished
  <2>. QED
    BY <1>7, <2>1, <2>2
<1>. QED
  BY <1>1, <1>2, <1>6, <1>9, <1>10, <1>11 DEF Opens

LEMMA WebhookStep ==
  ASSUME TypeOK, Ordered(runs), NEW e \in mail, Webhook(e)
  PROVE  Ordered(runs') /\ (Notes \/ Finishes \/ Moves)
<1>0. UNCHANGED published
  BY DEF Webhook
<1>1. CASE HandleClosed(e)
  <2>1. /\ runs' = SupersedeRuns /\ ~current'
        /\ ledger' = [ledger EXCEPT !.pending = FALSE]
    BY <1>1 DEF HandleClosed
  <2>2. SameRound /\ ledger'.status = ledger.status
    BY <2>1, LedgerFields DEF SameRound
  <2>. QED
    BY <1>0, <2>1, <2>2, Superseding DEF Finishes
<1>2. CASE HandleIgnored(e)
  <2>1. UNCHANGED runs /\ SameRound
    BY <1>2 DEF HandleIgnored, SameRound
  <2>. QED
    BY <2>1, Untouched
<1>3. CASE HandleAccepted(e)
  <2>1. CASE e.head = CurrentHead
    <3>1. UNCHANGED runs /\ SameRound
      BY <1>3, <2>1 DEF HandleAccepted, AcceptHead, SameRound
    <3>. QED
      BY <3>1, Untouched
  <2>2. CASE e.head # CurrentHead
    <3>1. /\ runs' = SupersedeRuns /\ ~current'
          /\ ledger' = [ledger EXCEPT !.head = e.head, !.pending = FALSE]
      BY <1>3, <2>2 DEF HandleAccepted, AcceptHead
    <3>2. RunsOf(e.head) = {}
      BY <1>3 DEF HandleAccepted, Known
    <3>3. e.head \in Heads
      BY DEF TypeOK
    <3>4. ledger'.head = e.head
      BY <3>1, <3>3, LedgerFields
    <3>. QED
      BY <3>1, <3>2, <3>3, <3>4, Bounds, Superseding DEF Moves
  <2>. QED
    BY <2>1, <2>2
<1>. QED
  BY <1>1, <1>2, <1>3 DEF Webhook

LEMMA RerunStep ==
  ASSUME TypeOK, Ordered(runs), RerunOpens
  PROVE  Ordered(runs') /\ (Notes \/ (Opens /\ ledger'.round \in 0 .. MaxRuns))
<1>1. CASE CurrentHead \in {NoHead, rerun}
  <2>1. rerun \in Heads /\ OpenRound(SupersedeRuns, rerun, TRUE) /\ debounce' = NoDebounce
    BY <1>1 DEF RerunOpens, TypeOK
  <2>. QED
    BY <2>1, SupersededRows, Opening
<1>2. CASE CurrentHead \notin {NoHead, rerun}
  <2>1. UNCHANGED runs /\ SameRound
    BY <1>2 DEF RerunOpens, SameRound
  <2>. QED
    BY <2>1, Untouched
<1>. QED
  BY <1>1, <1>2

LEMMA DebounceStep ==
  ASSUME RInv, DebounceOpen
  PROVE  Ordered(runs') /\ (Notes \/ (Opens /\ ledger'.round \in 0 .. MaxRuns))
<1>0. Ordered(runs)
  BY DEF RInv
<1>1. CASE StillDue /\ sched.pc = "open"
  <2>1. sched.head \in Heads /\ OpenRound(runs, sched.head, FALSE) /\ debounce' = NoDebounce
    BY <1>1 DEF DebounceOpen, RInv, Holding
  <2>2. \A r \in RunId : runs[r].status \notin Unfinished
    BY <1>1, <2>1, Bounds DEF StillDue, RInv, Waiting, InStatus
  <2>. QED
    BY <1>0, <2>1, <2>2, Opening
<1>2. CASE ~(StillDue /\ sched.pc = "open")
  <2>1. UNCHANGED runs /\ SameRound
    BY <1>2 DEF DebounceOpen, SameRound
  <2>. QED
    BY <1>0, <2>1, Untouched
<1>. QED
  BY <1>1, <1>2

(* What a launch that goes no further has written, and what archiving has. *)
LEMMA LaunchWrites ==
  ASSUME LaunchCheck
  PROVE  \/ UNCHANGED <<runs, ledger, current>>
         \/ EndIf(sched.run, Unfinished, "cancelled", "pr_closed")
         \/ EndIf(sched.run, Unfinished, "failed", "dispatch_failed")
         \/ EndIf(sched.run, Unfinished, "failed", "access_denied")
  BY DEF LaunchCheck, LaunchEnds

LEMMA TokenWrites ==
  ASSUME IssueToken
  PROVE  \/ /\ sched' = [sched EXCEPT !.pc = "create"]
            /\ runs' = [runs EXCEPT ![sched.run].token = "live"]
            /\ UNCHANGED <<ledger, current>>
         \/ sched' = Back /\ EndIf(sched.run, Unfinished, "failed", "dispatch_failed")
  BY DEF IssueToken, Goto

LEMMA ArchiveWrites ==
  ASSUME Ordered(runs), NEW r \in RunId, Archive(r)
  PROVE  /\ \/ UNCHANGED runs
            \/ \E x \in {"yes", "failed"} :
                 runs' = [runs EXCEPT ![r] = [@ EXCEPT !.archived = x, !.overdue = FALSE]]
         /\ \/ UNCHANGED thread
            \/ thread' = [thread EXCEPT ![r] = IF @ = "live" THEN "stopped" ELSE @]
            \/ thread' = [thread EXCEPT ![r] = IF @ = "none" THEN @ ELSE "archived"]
<1>1. \/ UNCHANGED runs
      \/ \E x \in {"yes", "failed"} : runs' = [runs EXCEPT ![r].archived = x, ![r].overdue = FALSE]
  BY DEF Archive, ArchiveDone, ArchiveRefused, ArchiveWaits, ArchiveMisses, Closes, Counts
<1>2. ASSUME NEW x
      PROVE  [runs EXCEPT ![r].archived = x, ![r].overdue = FALSE]
               = [runs EXCEPT ![r] = [@ EXCEPT !.archived = x, !.overdue = FALSE]]
  <2>1. runs \in [RunId -> Row] /\ runs[r] \in Row
    BY DEF Ordered
  <2>. QED
    BY <2>1 DEF Row
<1>3. \/ UNCHANGED thread
      \/ thread' = [thread EXCEPT ![r] = IF @ = "live" THEN "stopped" ELSE @]
      \/ thread' = [thread EXCEPT ![r] = IF @ = "none" THEN @ ELSE "archived"]
  BY DEF Archive, Archived, StopThread
<1>. QED
  BY <1>1, <1>2, <1>3

LEMMA LaunchSteps ==
  ASSUME RInv, LaunchCheck \/ IssueToken \/ CreateThread \/ ConfirmThread
  PROVE  Ordered(runs') /\ (Notes \/ Finishes)
<1>0. Ordered(runs) /\ TypeOK /\ sched.run \in RunId
  BY DEF RInv, Holding, LaunchCheck, IssueToken, CreateThread, ConfirmThread
<1>1. /\ "cancelled" \in Terminal /\ "failed" \in Terminal
      /\ {"pr_closed", "dispatch_failed", "access_denied"} \subseteq Code
  BY DEF Terminal, Code
<1>2. CASE LaunchCheck
  <2>1. UNCHANGED published
    BY <1>2 DEF LaunchCheck
  <2>2. \/ \E status \in {"cancelled", "failed"},
              code \in {"pr_closed", "dispatch_failed", "access_denied"} :
             EndIf(sched.run, Unfinished, status, code)
        \/ UNCHANGED runs /\ SameRound
    BY <1>2, <2>1, LaunchWrites DEF SameRound
  <2>. QED
    BY <1>0, <1>1, <2>1, <2>2, EndingIf, Untouched
<1>3. CASE IssueToken
  <2>1. UNCHANGED published
    BY <1>3 DEF IssueToken
  <2>2. \/ EndIf(sched.run, Unfinished, "failed", "dispatch_failed")
        \/ runs' = [runs EXCEPT ![sched.run].token = "live"] /\ SameRound
    BY <1>3, <2>1, TokenWrites DEF SameRound
  <2>. QED
    BY <1>0, <1>1, <2>1, <2>2, EndingIf, Marking
<1>4. CASE CreateThread
  <2>1. UNCHANGED published
    BY <1>4 DEF CreateThread
  <2>2. \/ EndIf(sched.run, Unfinished, "failed", "dispatch_failed")
        \/ UNCHANGED runs /\ SameRound
    BY <1>4 DEF CreateThread, SameRound
  <2>. QED
    BY <1>0, <1>1, <2>1, <2>2, EndingIf, Untouched
<1>5. CASE ConfirmThread
  <2>1. runs' = [runs EXCEPT ![sched.run].launched = TRUE] /\ SameRound
    BY <1>5 DEF ConfirmThread, SameRound
  <2>. QED
    BY <1>0, <2>1, Marking
<1>. QED
  BY <1>2, <1>3, <1>4, <1>5

LEMMA SyncReadStep ==
  ASSUME TypeOK, Ordered(runs), SyncRead
  PROVE  Ordered(runs') /\ (Notes \/ Finishes)
<1>1. UNCHANGED published
  BY DEF SyncRead
<1>2. \/ /\ runs' = SupersedeRuns /\ ~current'
         /\ ledger' = [ledger EXCEPT !.pending = FALSE]
      \/ UNCHANGED runs /\ SameRound
  BY DEF SyncRead, SameRound
<1>3. CASE /\ runs' = SupersedeRuns /\ ~current'
           /\ ledger' = [ledger EXCEPT !.pending = FALSE]
  <2>1. SameRound /\ ledger'.status = ledger.status
    BY <1>3, LedgerFields DEF SameRound
  <2>. QED
    BY <1>1, <1>3, <2>1, Superseding DEF Finishes
<1>. QED
  BY <1>2, <1>3, Untouched

LEMMA RowSteps ==
  ASSUME TypeOK, Ordered(runs), NEW r \in RunId,
         \/ Claim(r) \/ MarkTimeout(r) \/ Interrupt(r) \/ Archive(r) \/ AgentReads(r)
         \/ SubmitLoad(r) \/ SubmitStale(r) \/ SubmitCommit(r) \/ ClaimAges(r)
         \/ DeadlinePasses(r)
  PROVE  Ordered(runs') /\ (Notes \/ Finishes)
<1>0. Active \subseteq Unfinished
  BY DEF Unfinished
<1>1. /\ "cancelled" \in Terminal /\ "timed_out" \in Terminal /\ "completed" \in Terminal
      /\ "superseded" \in Code /\ "timeout" \in Code /\ "" \in Code
  BY DEF Terminal, Code
<1>2. CASE Claim(r)
  <2>1. SameRound /\ (UNCHANGED runs \/ runs' = [runs EXCEPT ![r].claim = "fresh"])
    BY <1>2 DEF Claim, SameRound
  <2>. QED
    BY <2>1, Untouched, Marking
<1>3. CASE MarkTimeout(r)
  <2>1. UNCHANGED published
    BY <1>3 DEF MarkTimeout
  <2>2. \/ /\ runs[r].status \in Unfinished
           /\ runs' = EndRun(r, "timed_out", "timeout") /\ MarkPending
        \/ UNCHANGED runs /\ SameRound
    BY <1>0, <1>3 DEF MarkTimeout, Expired, EndAndMark, SameRound
  <2>. QED
    BY <1>1, <2>1, <2>2, Ending, Untouched
<1>4. CASE Interrupt(r)
  <2>1. SameRound /\ runs' = [runs EXCEPT ![r].stopped = TRUE]
    BY <1>4 DEF Interrupt, SameRound
  <2>. QED
    BY <2>1, Marking
<1>5. CASE Archive(r)
  <2>1. SameRound
    BY <1>5 DEF Archive, SameRound
  <2>. QED
    BY <1>5, <2>1, ArchiveWrites, Untouched, Marking
<1>6. CASE AgentReads(r) \/ SubmitLoad(r)
  <2>1. SameRound /\ runs[r].status \in Active /\ runs' = Authenticated(r)
    BY <1>6 DEF AgentReads, SubmitLoad, Authorized, SameRound
  <2>. QED
    BY <2>1, Authenticating
<1>7. CASE SubmitStale(r)
  <2>1. UNCHANGED published /\ MarkPending
    BY <1>7 DEF SubmitStale
  <2>2. \/ runs[r].status \in Unfinished /\ runs' = EndRun(r, "cancelled", "superseded")
        \/ UNCHANGED runs
    BY <1>0, <1>7 DEF SubmitStale
  <2>3. SameRound
    BY <2>1, LedgerFields DEF MarkPending, SameRound
  <2>. QED
    BY <1>1, <2>1, <2>2, <2>3, Ending, Untouched
<1>8. CASE SubmitCommit(r)
  <2>1. UNCHANGED published
    BY <1>8 DEF SubmitCommit
  <2>2. \/ /\ runs[r].status \in Unfinished
           /\ runs' = EndRun(r, "completed", "") /\ MarkPending
        \/ \E from \in SUBSET Unfinished : EndIf(r, from, "timed_out", "timeout")
    BY <1>0, <1>8 DEF SubmitCommit, Completable, EndAndMark
  <2>. QED
    BY <1>1, <2>1, <2>2, Ending, EndingIf
<1>9. CASE ClaimAges(r)
  <2>1. SameRound /\ runs' = [runs EXCEPT ![r].claim = "old"]
    BY <1>9 DEF ClaimAges, SameRound
  <2>. QED
    BY <2>1, Marking
<1>10. CASE DeadlinePasses(r)
  <2>1. SameRound /\ runs' = [runs EXCEPT ![r].overdue = TRUE]
    BY <1>10 DEF DeadlinePasses, SameRound
  <2>. QED
    BY <2>1, Marking
<1>. QED
  BY <1>2, <1>3, <1>4, <1>5, <1>6, <1>7, <1>8, <1>9, <1>10

LEMMA SyncRounds ==
  ASSUME TypeOK, SyncRecord \/ SyncFinish
  PROVE  SameRound
<1>1. \/ ledger' = ledger
      \/ ledger' = [ledger EXCEPT !.pending = FALSE]
      \/ ledger' = [ledger EXCEPT !.status = sched.want]
  BY DEF SyncRecord, SyncFinish
<1>2. sched.want \in CommitStatus
  BY DEF TypeOK
<1>3. CASE ledger' = ledger
  BY <1>3 DEF SameRound
<1>4. CASE ledger' = [ledger EXCEPT !.pending = FALSE]
  BY <1>4, LedgerFields, Zenon DEF SameRound
<1>5. CASE ledger' = [ledger EXCEPT !.status = sched.want]
  BY <1>2, <1>5, LedgerFields, Zenon DEF SameRound
<1>. QED
  BY <1>1, <1>3, <1>4, <1>5

(* Only a delivery, a rerun and a debounce that is due change the round;   *)
(* every step is one of these.                                             *)
ChangesRound == (\E e \in mail : Webhook(e)) \/ RerunOpens \/ DebounceOpen

LEMMA SameRounds ==
  ASSUME RInv, [Next]_vars, ~ChangesRound
  PROVE  Ordered(runs') /\ (Notes \/ Promotes \/ Finishes)
<1>0. TypeOK /\ Ordered(runs)
  BY DEF RInv
<1>1. CASE UNCHANGED runs /\ SameRound
  BY <1>0, <1>1, Untouched
<1>2. CASE Promote
  <2>1. Promotes
    BY <1>2 DEF Promote, Promotes
  <2>. QED
    BY <1>0, <2>1, Promotion DEF Promotes
<1>3. CASE LaunchCheck \/ IssueToken \/ CreateThread \/ ConfirmThread
  BY <1>3, LaunchSteps
<1>4. CASE SyncRead
  BY <1>0, <1>4, SyncReadStep
<1>5. CASE \E r \in RunId :
             \/ Claim(r) \/ MarkTimeout(r) \/ Interrupt(r) \/ Archive(r) \/ AgentReads(r)
             \/ SubmitLoad(r) \/ SubmitStale(r) \/ SubmitCommit(r) \/ ClaimAges(r)
             \/ DeadlinePasses(r)
  BY <1>0, <1>5, RowSteps
<1>6. CASE SyncRecord \/ SyncFinish
  <2>1. UNCHANGED runs
    BY <1>6 DEF SyncRecord, SyncFinish
  <2>. QED
    BY <1>0, <1>6, <2>1, SyncRounds, Untouched
<1>7. CASE UNCHANGED runs /\ ~SameRound
  <2>1. ledger' # ledger
    BY <1>7 DEF SameRound
  <2>. QED
    BY Zenon, <2>1, LedgerWritten, <1>3, <1>4, <1>5, <1>6 DEF ChangesRound
<1>. QED
  BY Zenon, RunsWritten, <1>1, <1>2, <1>3, <1>4, <1>5, <1>6, <1>7 DEF ChangesRound

LEMMA RunSteps ==
  ASSUME RInv, [Next]_vars
  PROVE  /\ Ordered(runs')
         /\ Notes \/ Promotes \/ Finishes \/ Moves \/ (Opens /\ ledger'.round \in 0 .. MaxRuns)
<1>0. TypeOK /\ Ordered(runs)
  BY DEF RInv
<1>1. CASE \E e \in mail : Webhook(e)
  BY <1>0, <1>1, WebhookStep
<1>2. CASE RerunOpens
  BY <1>0, <1>2, RerunStep
<1>3. CASE DebounceOpen
  BY <1>3, DebounceStep
<1>4. CASE ~ChangesRound
  BY <1>4, SameRounds
<1>. QED
  BY <1>1, <1>2, <1>3, <1>4 DEF ChangesRound

-----------------------------------------------------------------------------
(* The runs under way                                                      *)

LEMMA Statuses ==
  /\ Active \subseteq Unfinished /\ "none" \notin Unfinished /\ "none" \notin Terminal
  /\ \A x \in Terminal : x \notin Unfinished
  BY DEF Terminal, Unfinished, Active

(* A promotion keeps rounds and ends, and what is under way was under way. *)
LEMMA PromotedRows ==
  ASSUME Ordered(runs), Promotes
  PROVE  \A r \in RunId :
           /\ runs'[r].head = runs[r].head /\ runs'[r].round = runs[r].round
           /\ runs'[r].code = runs[r].code
           /\ \/ runs'[r].status = runs[r].status
              \/ runs[r].status \in Unfinished /\ runs'[r].status \in Unfinished
<1>1. ASSUME NEW r \in RunId
      PROVE  \/ runs'[r] = runs[r]
             \/ runs[r].status = "queued" /\ runs'[r] = [runs[r] EXCEPT !.status = "dispatched"]
  BY Promotion DEF Promotes
<1>2. "queued" \in Unfinished /\ "dispatched" \in Unfinished
  BY DEF Unfinished, Active
<1>3. \A r \in RunId : runs[r] \in Row
  BY DEF Ordered
<1>4. ASSUME NEW r \in RunId, runs'[r] = [runs[r] EXCEPT !.status = "dispatched"]
      PROVE  /\ runs'[r].head = runs[r].head /\ runs'[r].round = runs[r].round
             /\ runs'[r].code = runs[r].code /\ runs'[r].status = "dispatched"
  BY <1>3, <1>4 DEF Row
<1>. QED
  BY <1>1, <1>2, <1>4

LEMMA PlacesStep ==
  ASSUME RInv, [Next]_vars
  PROVE  Cardinality(ActiveIn(runs')) <= MaxInflight
<1>0. Ordered(runs) /\ Cardinality(ActiveIn(runs)) <= MaxInflight
  BY DEF RInv, InFlight, InStatus, ActiveIn
<1>1. ASSUME ActiveIn(runs') \subseteq ActiveIn(runs)
      PROVE  Cardinality(ActiveIn(runs')) <= MaxInflight
  <2>1. ActiveIn(runs) \subseteq RunId
    BY DEF ActiveIn
  <2>2. IsFiniteSet(ActiveIn(runs))
    BY <2>1, RunIds, FS_Subset
  <2>3. /\ Cardinality(ActiveIn(runs')) <= Cardinality(ActiveIn(runs))
        /\ IsFiniteSet(ActiveIn(runs'))
    BY <1>1, <2>2, FS_Subset
  <2>4. Cardinality(ActiveIn(runs')) \in Nat /\ Cardinality(ActiveIn(runs)) \in Nat
    BY <2>2, <2>3, FS_CardinalityType
  <2>. QED
    BY <1>0, <2>3, <2>4, Bounds
<1>2. CASE Notes
  BY <1>1, <1>2 DEF Notes, Kept, ActiveIn
<1>3. CASE Promotes
  <2>1. Cardinality(ActiveIn(Promoted(runs))) <= MaxInflight
    BY <1>0, Promotion
  <2>. QED
    BY <1>3, <2>1 DEF Promotes
<1>4. CASE Finishes \/ Moves
  <2>1. \A r \in RunId : Kept(r) \/ Finished(r)
    BY <1>4 DEF Finishes, Moves
  <2>2. ActiveIn(runs') \subseteq ActiveIn(runs)
    BY <2>1, Statuses DEF Kept, Finished, ActiveIn
  <2>. QED
    BY <1>1, <2>2
<1>5. CASE Opens
  BY <1>5 DEF Opens
<1>. QED
  BY RunSteps, <1>2, <1>3, <1>4, <1>5

LEMMA InFlightStep ==
  ASSUME RInv, [Next]_vars
  PROVE  InFlight'
<1>0. Ordered(runs) /\ \A r \in RunId : runs[r].status \in Unfinished =>
                          runs[r].head = ledger.head /\ runs[r].round = ledger.round
  BY DEF RInv, InFlight, InStatus, RoundRuns
<1>1. ASSUME NEW r \in RunId, runs'[r].status \in Unfinished
      PROVE  runs'[r].head = ledger'.head /\ runs'[r].round = ledger'.round
  <2>1. CASE Notes
    BY <1>0, <1>1, <2>1, Statuses DEF Notes, Kept, SameRound
  <2>2. CASE Promotes
    <3>1. runs[r].status \in Unfinished
      BY <1>0, <1>1, <2>2, PromotedRows
    <3>2. runs'[r].head = runs[r].head /\ runs'[r].round = runs[r].round /\ ledger' = ledger
      BY <1>0, <2>2, PromotedRows DEF Promotes
    <3>. QED
      BY <1>0, <3>1, <3>2
  <2>3. CASE Finishes
    BY <1>0, <1>1, <2>3, Statuses DEF Finishes, Kept, Finished, SameRound
  <2>4. CASE Moves
    BY <1>1, <2>4 DEF Moves
  <2>5. CASE Opens
    BY <1>1, <2>5, Statuses DEF Opens, Kept, Finished, Entered
  <2>. QED
    BY RunSteps, <2>1, <2>2, <2>3, <2>4, <2>5
<1>2. Cardinality(ActiveIn(runs')) <= MaxInflight
  BY PlacesStep
<1>. QED
  BY <1>1, <1>2 DEF InFlight, InStatus, RoundRuns, ActiveIn

(* A delivery that is accepted finds no run under way, or ends them all.   *)
LEMMA AcceptedStep ==
  ASSUME RInv, NEW e \in mail, HandleAccepted(e)
  PROVE  \A r \in RunId : runs'[r].status \notin Unfinished
<1>0. Ordered(runs) /\ e.head \in Heads
  BY DEF RInv, TypeOK
<1>1. CASE e.head # CurrentHead
  <2>1. runs' = SupersedeRuns
    BY <1>1 DEF HandleAccepted, AcceptHead
  <2>. QED
    BY <1>0, <2>1, Superseding
<1>2. CASE e.head = CurrentHead
  <2>1. runs' = runs
    BY <1>2 DEF HandleAccepted, AcceptHead
  <2>2. CASE debounce.head # NoHead
    BY <2>1, <2>2 DEF RInv, Waiting, InStatus
  <2>3. CASE debounce.head = NoHead
    <3>1. e.head = ledger.head
      BY <1>2, <2>3 DEF CurrentHead
    <3>2. \A r \in RunId : runs[r].head # ledger.head
      BY <3>1 DEF HandleAccepted, Known, RunsOf
    <3>. QED
      BY <2>1, <3>2 DEF RInv, InFlight, InStatus, RoundRuns
  <2>. QED
    BY <2>2, <2>3
<1>. QED
  BY <1>1, <1>2

LEMMA DebounceFields ==
  ASSUME TypeOK
  PROVE  /\ debounce.head \in Heads \cup {NoHead} /\ debounce.due \in BOOLEAN
         /\ \A x \in BOOLEAN :
              [debounce EXCEPT !.due = x] = [head |-> debounce.head, due |-> x]
  BY DEF TypeOK

(* The row of the debounce waits on, or for a head that is accepted, or is *)
(* gone.                                                                   *)
LEMMA DebounceSteps ==
  ASSUME TypeOK, [Next]_vars
  PROVE  \/ debounce'.head = debounce.head /\ (debounce'.due => debounce.head # NoHead \/ debounce.due)
         \/ debounce' = NoDebounce
         \/ \E e \in mail : HandleAccepted(e) /\ debounce' = [head |-> e.head, due |-> FALSE]
<1>1. CASE \E e \in mail : Webhook(e)
  <2>1. PICK e \in mail : Webhook(e)
    BY <1>1
  <2>. QED
    BY <2>1 DEF Webhook, HandleClosed, HandleIgnored, HandleAccepted, DebounceAfter
<1>2. CASE RerunOpens
  BY <1>2 DEF RerunOpens
<1>3. CASE DebounceRead
  <2>1. \/ debounce' = debounce \/ debounce' = NoDebounce
        \/ debounce' = [debounce EXCEPT !.due = FALSE]
    BY <1>3 DEF DebounceRead
  <2>. QED
    BY <2>1, DebounceFields
<1>4. CASE DebounceOpen
  BY <1>4 DEF DebounceOpen
<1>5. CASE DebounceFires
  <2>1. debounce.head # NoHead /\ debounce' = [debounce EXCEPT !.due = TRUE]
    BY <1>5 DEF DebounceFires
  <2>. QED
    BY <2>1, DebounceFields
<1>. QED
  BY DebounceWritten, <1>1, <1>2, <1>3, <1>4, <1>5

LEMMA WaitingStep ==
  ASSUME RInv, [Next]_vars
  PROVE  Waiting'
<1>0. Ordered(runs) /\ TypeOK
  BY DEF RInv
<1>1. CASE debounce' = NoDebounce
  BY <1>1 DEF Waiting, NoDebounce
<1>2. CASE \E e \in mail : HandleAccepted(e) /\ debounce' = [head |-> e.head, due |-> FALSE]
  BY <1>2, AcceptedStep DEF Waiting, InStatus
<1>3. CASE /\ debounce'.head = debounce.head
           /\ debounce'.due => debounce.head # NoHead \/ debounce.due
  <2>1. debounce'.due => debounce'.head # NoHead
    BY <1>3 DEF RInv, Waiting
  <2>2. ASSUME debounce.head # NoHead, NEW r \in RunId
        PROVE  runs'[r].status \notin Unfinished
    <3>0. \A q \in RunId : runs[q].status \notin Unfinished
      BY <2>2 DEF RInv, Waiting, InStatus
    <3>1. CASE Notes \/ Finishes
      BY <3>0, <3>1, Statuses DEF Notes, Finishes, Kept, Finished
    <3>2. CASE Promotes
      BY <1>0, <3>0, <3>2, PromotedRows
    <3>3. CASE Moves
      BY <3>3 DEF Moves
    <3>4. CASE Opens
      BY <1>3, <2>2, <3>4 DEF Opens, NoDebounce
    <3>. QED
      BY RunSteps, <3>1, <3>2, <3>3, <3>4
  <2>. QED
    BY <1>3, <2>1, <2>2 DEF Waiting, InStatus
<1>. QED
  BY <1>0, <1>1, <1>2, <1>3, DebounceSteps

-----------------------------------------------------------------------------
(* Types                                                                   *)

PullRequest == [head : Heads, open : BOOLEAN, at : Nat]

LEMMA NextRemote ==
  ASSUME remote \in PullRequest
  PROVE  /\ \A h \in Heads : [remote EXCEPT !.head = h, !.at = @ + 1] \in PullRequest
         /\ \A x \in BOOLEAN : [remote EXCEPT !.open = x, !.at = @ + 1] \in PullRequest
<1>0. remote.at + 1 \in Nat
  BY DEF PullRequest
<1>. DEFINE n == remote.at + 1
<1>1. ASSUME NEW pr \in PullRequest, NEW k \in Nat PROVE [pr EXCEPT !.at = k] \in PullRequest
  BY DEF PullRequest
<1>. HIDE DEF n
<1>2. ASSUME NEW h \in Heads PROVE [remote EXCEPT !.head = h, !.at = n] \in PullRequest
  <2>. DEFINE pr == [remote EXCEPT !.head = h]
  <2>1. pr \in PullRequest
    BY DEF PullRequest
  <2>2. [remote EXCEPT !.head = h, !.at = n] = [pr EXCEPT !.at = n]
    BY DEF PullRequest
  <2>. HIDE DEF pr
  <2>3. [pr EXCEPT !.at = n] \in PullRequest
    BY <1>0, <1>1, <2>1 DEF n
  <2>. QED
    BY <2>2, <2>3
<1>3. ASSUME NEW x \in BOOLEAN PROVE [remote EXCEPT !.open = x, !.at = n] \in PullRequest
  <2>. DEFINE pr == [remote EXCEPT !.open = x]
  <2>1. pr \in PullRequest
    BY DEF PullRequest
  <2>2. [remote EXCEPT !.open = x, !.at = n] = [pr EXCEPT !.at = n]
    BY DEF PullRequest
  <2>. HIDE DEF pr
  <2>3. [pr EXCEPT !.at = n] \in PullRequest
    BY <1>0, <1>1, <2>1 DEF n
  <2>. QED
    BY <2>2, <2>3
<1>. QED
  BY <1>2, <1>3 DEF n

LEMMA RemoteTyped ==
  ASSUME TypeOK, [Next]_vars
  PROVE  /\ remote' \in PullRequest
         /\ mail' \subseteq [action : Actions \cup {"closed"}, head : Heads, at : Nat]
<1>0. /\ remote \in PullRequest
      /\ mail \subseteq [action : Actions \cup {"closed"}, head : Heads, at : Nat]
  BY DEF TypeOK, PullRequest
<1>1. ASSUME NEW pr \in PullRequest,
             NEW action \in Actions \cup {"closed"}, Send(action, pr) \/ Lost(pr)
      PROVE  /\ remote' \in PullRequest
             /\ mail' \subseteq [action : Actions \cup {"closed"}, head : Heads, at : Nat]
  <2>1. remote' = pr
    BY <1>1 DEF Send, Lost, Becomes
  <2>2. pr.head \in Heads /\ pr.at \in Nat
    BY DEF PullRequest
  <2>3. [action |-> action, head |-> pr.head, at |-> pr.at]
          \in [action : Actions \cup {"closed"}, head : Heads, at : Nat]
    BY <2>2
  <2>4. \/ mail' = mail \cup {[action |-> action, head |-> pr.head, at |-> pr.at]}
        \/ mail' = mail
    BY <1>1 DEF Send, Lost
  <2>. QED
    BY <1>0, <2>1, <2>3, <2>4
<1>2. CASE \E h \in Heads : Push(h)
  <2>1. PICK h \in Heads : Send("synchronize", [remote EXCEPT !.head = h, !.at = @ + 1])
    BY <1>2 DEF Push
  <2>2. [remote EXCEPT !.head = h, !.at = @ + 1] \in PullRequest
    BY <1>0, NextRemote
  <2>3. "synchronize" \in Actions
    BY DEF Actions
  <2>. QED
    BY <1>1, <2>1, <2>2, <2>3
<1>3. CASE Close
  <2>1. [remote EXCEPT !.open = FALSE, !.at = @ + 1] \in PullRequest
    BY <1>0, NextRemote
  <2>. QED
    BY <1>1, <1>3, <2>1 DEF Close
<1>4. CASE Reopen
  <2>1. [remote EXCEPT !.open = TRUE, !.at = @ + 1] \in PullRequest
    BY <1>0, NextRemote
  <2>2. "reopened" \in Actions
    BY DEF Actions
  <2>. QED
    BY <1>1, <1>4, <2>1, <2>2 DEF Reopen
<1>5. CASE \E e \in mail : Webhook(e)
  BY <1>0, <1>5 DEF Webhook
<1>. QED
  BY <1>0, <1>2, <1>3, <1>4, <1>5, RemoteWritten

LEMMA SeenTyped ==
  ASSUME TypeOK, [Next]_vars
  PROVE  seen' \in [Heads -> Nat] /\ debounce' \in [head : Heads \cup {NoHead}, due : BOOLEAN]
<1>1. seen' \in [Heads -> Nat]
  <2>1. ASSUME NEW e \in mail, Webhook(e) PROVE seen' \in [Heads -> Nat]
    <3>1. e.head \in Heads /\ e.at \in Nat /\ seen \in [Heads -> Nat]
      BY DEF TypeOK
    <3>2. \/ seen' = seen
          \/ seen' = [seen EXCEPT ![e.head] = IF @ = 0 THEN e.at ELSE @]
      BY <2>1 DEF Webhook, HandleClosed, HandleIgnored, HandleAccepted
    <3>. QED
      BY <3>1, <3>2
  <2>. QED
    BY <2>1, SeenWritten DEF TypeOK
<1>2. debounce' \in [head : Heads \cup {NoHead}, due : BOOLEAN]
  <2>0. /\ \A h \in Heads \cup {NoHead}, x \in BOOLEAN :
             [head |-> h, due |-> x] \in [head : Heads \cup {NoHead}, due : BOOLEAN]
        /\ debounce \in [head : Heads \cup {NoHead}, due : BOOLEAN]
    BY DEF TypeOK
  <2>1. CASE \E e \in mail : Webhook(e)
    <3>1. PICK e \in mail : Webhook(e)
      BY <2>1
    <3>2. e.head \in Heads
      BY DEF TypeOK
    <3>3. debounce' = debounce \/ debounce' = [head |-> e.head, due |-> FALSE] \/ debounce' = NoDebounce
      BY <3>1 DEF Webhook, HandleClosed, HandleIgnored, HandleAccepted, DebounceAfter
    <3>. QED
      BY <2>0, <3>2, <3>3 DEF NoDebounce
  <2>2. CASE RerunOpens \/ DebounceOpen
    <3>1. debounce' = debounce \/ debounce' = NoDebounce
      BY <2>2 DEF RerunOpens, DebounceOpen
    <3>. QED
      BY <2>0, <3>1 DEF NoDebounce
  <2>3. CASE DebounceRead \/ DebounceFires
    <3>1. \/ debounce' = debounce \/ debounce' = NoDebounce
          \/ \E x \in BOOLEAN : debounce' = [debounce EXCEPT !.due = x]
      BY <2>3 DEF DebounceRead, DebounceFires
    <3>. QED
      BY <2>0, <3>1, DebounceFields DEF NoDebounce
  <2>. QED
    BY <2>0, <2>1, <2>2, <2>3, DebounceWritten
<1>. QED
  BY <1>1, <1>2

Ledger == [head : Heads \cup {NoHead}, round : 0 .. MaxRuns, pending : BOOLEAN,
           status : CommitStatus]

LEMMA PendingTyped ==
  ASSUME ledger \in Ledger, NEW x \in BOOLEAN
  PROVE  [ledger EXCEPT !.pending = x] \in Ledger
  BY DEF Ledger

LEMMA LedgerTyped ==
  ASSUME RInv, [Next]_vars
  PROVE  ledger' \in Ledger
<1>0. ledger \in Ledger /\ TypeOK /\ Ordered(runs)
  BY DEF RInv, TypeOK, Ledger
<1>1. ASSUME MarkPending PROVE ledger' \in Ledger
  BY <1>0, <1>1, PendingTyped DEF MarkPending
<1>2. ASSUME NEW r, NEW from, NEW status, NEW code, EndIf(r, from, status, code)
      PROVE  ledger' \in Ledger
  BY <1>0, <1>1, <1>2 DEF EndIf, EndAndMark
<1>3. ASSUME NEW rs, NEW h \in Heads, NEW manual, OpenRound(rs, h, manual),
             ledger'.round \in 0 .. MaxRuns
      PROVE  ledger' \in Ledger
  <2>. DEFINE round == NextRound(rs, h, manual)
  <2>1. ledger' = [head |-> h, round |-> round, pending |-> TRUE, status |-> ""]
    BY <1>3 DEF OpenRound
  <2>. HIDE DEF round
  <2>2. round \in 0 .. MaxRuns /\ "" \in CommitStatus
    BY <1>3, <2>1 DEF CommitStatus
  <2>. QED
    BY <2>1, <2>2 DEF Ledger
<1>4. CASE \E e \in mail : Webhook(e)
  <2>1. PICK e \in mail : Webhook(e)
    BY <1>4
  <2>2. e.head \in Heads
    BY <1>0 DEF TypeOK
  <2>3. \/ ledger' = ledger
        \/ ledger' = [ledger EXCEPT !.pending = FALSE]
        \/ ledger' = [ledger EXCEPT !.head = e.head, !.pending = FALSE]
    BY <2>1 DEF Webhook, HandleClosed, HandleIgnored, HandleAccepted, AcceptHead
  <2>4. [ledger EXCEPT !.head = e.head, !.pending = FALSE] \in Ledger
    BY <1>0, <2>2 DEF Ledger
  <2>. QED
    BY <1>0, <2>3, <2>4, PendingTyped
<1>5. CASE RerunOpens
  <2>1. CASE CurrentHead \in {NoHead, rerun}
    <3>1. rerun \in Heads /\ OpenRound(SupersedeRuns, rerun, TRUE) /\ debounce' = NoDebounce
      BY <1>0, <1>5, <2>1 DEF RerunOpens, TypeOK
    <3>2. ledger'.round \in 0 .. MaxRuns
      BY <1>0, <3>1, SupersededRows, Opening
    <3>. QED
      BY <1>3, <3>1, <3>2
  <2>2. CASE CurrentHead \notin {NoHead, rerun}
    BY <1>0, <1>5, <2>2 DEF RerunOpens
  <2>. QED
    BY <2>1, <2>2
<1>6. CASE DebounceOpen
  <2>1. CASE StillDue /\ sched.pc = "open"
    <3>1. sched.head \in Heads /\ OpenRound(runs, sched.head, FALSE) /\ debounce' = NoDebounce
      BY <1>6, <2>1 DEF DebounceOpen, RInv, Holding
    <3>2. \A r \in RunId : runs[r].status \notin Unfinished
      BY <2>1, <3>1, Bounds DEF StillDue, RInv, Waiting, InStatus
    <3>3. ledger'.round \in 0 .. MaxRuns
      BY <1>0, <3>1, <3>2, Opening
    <3>. QED
      BY <1>3, <3>1, <3>3
  <2>2. CASE ~(StillDue /\ sched.pc = "open")
    BY <1>0, <1>6, <2>2 DEF DebounceOpen
  <2>. QED
    BY <2>1, <2>2
<1>7. CASE LaunchCheck \/ IssueToken
  BY <1>0, <1>2, <1>7, LaunchWrites, TokenWrites
<1>8. CASE CreateThread
  BY <1>0, <1>2, <1>8 DEF CreateThread
<1>9. CASE SyncRead \/ SyncFinish
  <2>1. ledger' = ledger \/ ledger' = [ledger EXCEPT !.pending = FALSE]
    BY <1>9 DEF SyncRead, SyncFinish
  <2>. QED
    BY <1>0, <2>1, PendingTyped
<1>10. CASE SyncRecord
  <2>1. ledger' = ledger \/ ledger' = [ledger EXCEPT !.status = sched.want]
    BY <1>10 DEF SyncRecord
  <2>2. sched.want \in CommitStatus
    BY <1>0 DEF TypeOK
  <2>. QED
    BY <1>0, <2>1, <2>2 DEF Ledger
<1>11. CASE \E r \in RunId : MarkTimeout(r) \/ SubmitStale(r) \/ SubmitCommit(r)
  BY <1>0, <1>1, <1>2, <1>11 DEF MarkTimeout, SubmitStale, SubmitCommit, EndAndMark
<1>. QED
  BY Zenon, LedgerWritten, <1>0, <1>4, <1>5, <1>6, <1>7, <1>8, <1>9, <1>10, <1>11

LEMMA SummaryTyped == \A S : Summary(S) \in {"pending", "error", "success"}
  BY DEF Summary

Tries == [refused : 0 .. MaxTries - 1, missing : 0 .. MaxTries - 1]

LEMMA TriesTyped ==
  ASSUME RInv, [Next]_vars
  PROVE  tries' \in [RunId -> Tries]
<1>1. tries \in [RunId -> Tries] /\ MaxTries \in Nat \ {0}
  BY ReviewAssumption DEF RInv, TypeOK, Tries
<1>2. NoTries \in Tries
  BY <1>1 DEF NoTries, Tries
<1>3. CASE Crash
  BY <1>2, <1>3 DEF Crash
<1>4. CASE \E r \in RunId : Archive(r)
  <2>1. PICK r \in RunId : Archive(r)
    BY <1>4
  <2>2. tries[r] \in Tries
    BY <1>1
  <2>3. tries[r].refused \in 0 .. MaxTries - 1 /\ tries[r].missing \in 0 .. MaxTries - 1
    BY <2>2 DEF Tries
  <2>4. 0 \in 0 .. MaxTries - 1
    BY <1>1
  <2>5. \E t \in Tries : tries' = [tries EXCEPT ![r] = t]
    <3>1. CASE ArchiveDone(r)
      BY <1>2, <3>1 DEF ArchiveDone, Closes
    <3>2. CASE ArchiveRefused(r)
      <4>1. tries[r].refused + 1 < MaxTries => tries[r].refused + 1 \in 0 .. MaxTries - 1
        BY <1>1, <2>3
      <4>2. CASE Closes(r, "failed")
        BY <1>2, <4>2 DEF Closes
      <4>3. CASE /\ tries[r].refused + 1 < MaxTries
                 /\ \E m \in {0, tries[r].missing} : Counts(r, tries[r].refused + 1, m)
        BY <2>3, <2>4, <4>1, <4>3 DEF Counts, Tries
      <4>. QED
        BY <3>2, <4>2, <4>3 DEF ArchiveRefused
    <3>3. CASE ArchiveWaits(r)
      BY <2>3, <2>4, <3>3 DEF ArchiveWaits, Counts, Tries
    <3>4. CASE ArchiveMisses(r)
      <4>1. tries[r].missing + 1 # MaxTries => tries[r].missing + 1 \in 0 .. MaxTries - 1
        BY <1>1, <2>3
      <4>2. CASE Closes(r, "yes")
        BY <1>2, <4>2 DEF Closes
      <4>3. CASE /\ tries[r].missing + 1 # MaxTries
                 /\ Counts(r, tries[r].refused, tries[r].missing + 1)
        BY <2>3, <4>1, <4>3 DEF Counts, Tries
      <4>. QED
        BY <3>4, <4>2, <4>3 DEF ArchiveMisses
    <3>. QED
      BY <2>1, <3>1, <3>2, <3>3, <3>4 DEF Archive
  <2>. QED
    BY <1>1, <2>5
<1>. QED
  BY <1>1, <1>3, <1>4, TriesWritten

LEMMA TablesTyped ==
  ASSUME RInv, [Next]_vars
  PROVE  /\ published' \in [Heads -> CommitStatus]
         /\ thread' \in [RunId -> {"none", "live", "stopped", "archived"}]
         /\ submit' \in [RunId -> {"none", "loaded", "fresh", "late", "stale"}]
         /\ rerun' \in Heads \cup {NoHead}
         /\ tries' \in [RunId -> Tries]
<1>0. /\ published \in [Heads -> CommitStatus]
      /\ thread \in [RunId -> {"none", "live", "stopped", "archived"}]
      /\ submit \in [RunId -> {"none", "loaded", "fresh", "late", "stale"}]
      /\ rerun \in Heads \cup {NoHead} /\ remote.head \in Heads /\ sched.want \in CommitStatus
      /\ Holding /\ Ordered(runs)
  BY DEF RInv, TypeOK
<1>1. published' \in [Heads -> CommitStatus]
  BY <1>0, PublishedWritten DEF SyncWrite
<1>2. thread' \in [RunId -> {"none", "live", "stopped", "archived"}]
  <2>1. CASE CreateThread
    <3>1. thread' = thread \/ thread' = [thread EXCEPT ![sched.run] = "live"]
      BY <2>1 DEF CreateThread
    <3>. QED
      BY <1>0, <3>1
  <2>2. CASE \E r \in RunId : Interrupt(r) \/ Archive(r)
    <3>1. PICK r \in RunId :
            \/ UNCHANGED thread
            \/ thread' = [thread EXCEPT ![r] = IF @ = "live" THEN "stopped" ELSE @]
            \/ thread' = [thread EXCEPT ![r] = IF @ = "none" THEN @ ELSE "archived"]
      BY <1>0, <2>2, ArchiveWrites DEF Interrupt, StopThread
    <3>. QED
      BY <1>0, <3>1
  <2>. QED
    BY <1>0, <2>1, <2>2, ThreadWritten
<1>3. submit' \in [RunId -> {"none", "loaded", "fresh", "late", "stale"}]
  <2>1. ASSUME NEW r \in RunId, NEW x \in {"none", "loaded", "fresh", "late", "stale"},
               submit' = [submit EXCEPT ![r] = x]
        PROVE  submit' \in [RunId -> {"none", "loaded", "fresh", "late", "stale"}]
    BY <1>0, <2>1
  <2>2. CASE Crash
    BY <2>2 DEF Crash
  <2>3. CASE \E r \in RunId : SubmitLoad(r) \/ SubmitRead(r) \/ SubmitStale(r) \/ SubmitCommit(r)
    <3>1. PICK r \in RunId : SubmitLoad(r) \/ SubmitRead(r) \/ SubmitStale(r) \/ SubmitCommit(r)
      BY <2>3
    <3>2. \E x \in {"none", "loaded", "fresh", "late", "stale"} : submit' = [submit EXCEPT ![r] = x]
      BY <3>1 DEF SubmitLoad, SubmitRead, SubmitStale, SubmitCommit
    <3>. QED
      BY <2>1, <3>2
  <2>. QED
    BY <1>0, <2>2, <2>3, SubmitWritten
<1>4. rerun' \in Heads \cup {NoHead}
  BY <1>0, RerunWritten DEF RerunRead, RerunOpens, Crash
<1>. QED
  BY <1>1, <1>2, <1>3, <1>4, TriesTyped

Used == [pushes : 0 .. MaxPushes, toggles : 0 .. MaxToggles,
         reruns : 0 .. MaxReruns, faults : 0 .. MaxFaults]

LEMMA UsedWritten ==
  [Next]_vars =>
    \/ UNCHANGED used
    \/ \E h \in Heads : Push(h)
    \/ Toggle \/ RerunRead
    \/ \E f : Fault(f)
<1>1. ASSUME NEW r \in RunId, Archive(r)
      PROVE  UNCHANGED used \/ \E f : Fault(f)
  BY <1>1 DEF Archive, ArchiveDone, ArchiveRefused, ArchiveWaits, ArchiveMisses, NoFault
<1>2. [Next]_vars =>
        \/ UNCHANGED used
        \/ \E h \in Heads : Push(h)
        \/ Toggle \/ RerunRead
        \/ \E f : Fault(f)
        \/ \E r \in RunId : Archive(r)
  BY ZenonT(60) DEF Next, vars, Platform, Becomes, Send, Lost, Close, Reopen, Webhook,
     RerunOpens, Scheduler, Tick, DebounceRead, DebounceOpen, Promote, Launch, LaunchCheck,
     IssueToken, CreateThread, ConfirmThread, MarkTimeout, Interrupt, Sync, SyncStart,
     SyncRead, SyncGuard, SyncWrite, SyncRecord, SyncFinish, Claim, Agent,
     AgentReads, SubmitLoad, SubmitRead, SubmitStale, SubmitCommit, Time, DebounceFires,
     ClaimAges, DeadlinePasses, Crash, NoFault
<1>. QED
  BY <1>1, <1>2, Zenon

LEMMA UsedTyped ==
  ASSUME TypeOK, [Next]_vars
  PROVE  used' \in Used
<1>0. used \in Used
  BY DEF TypeOK, Used
<1>1. CASE \E h \in Heads : Push(h)
  BY <1>0, <1>1, Bounds DEF Push, Used
<1>2. CASE Toggle
  BY <1>0, <1>2, Bounds DEF Toggle, Used
<1>3. CASE RerunRead
  BY <1>0, <1>3, Bounds DEF RerunRead, Used
<1>4. CASE \E f : Fault(f)
  BY <1>0, <1>4, Bounds DEF Fault, Used
<1>. QED
  BY <1>0, <1>1, <1>2, <1>3, <1>4, UsedWritten

(* The tick                                                                *)

Pc == {"list", "open", "drop", "check", "token", "create", "confirm",
       "read", "guard", "write", "record", "comment"}
Sched == [stage : 0 .. Len(Stages), todo : SUBSET (RunId \cup {PR}), pc : Pc,
          run : RunId \cup {NoRun}, head : Heads \cup {NoHead}, want : CommitStatus]

LEMMA StageList ==
  /\ Len(Stages) = 7
  /\ \A i \in 1 .. 7 : Stages[i] \in {"debounce", "promote", "dispatch", "timeout",
                                      "interrupt", "sync", "archive"}
  BY DEF Stages

LEMMA ListTyped ==
  ASSUME NEW i \in 1 .. 7
  PROVE  /\ Listed(Stages[i]) \in SUBSET (RunId \cup {PR})
         /\ Stages[i] = "sync" /\ Listed(Stages[i]) # {} => ledger.pending
<1>. DEFINE x == Stages[i]
<1>1. x \in {"debounce", "promote", "dispatch", "timeout", "interrupt", "sync", "archive"}
  BY StageList
<1>. HIDE DEF x
<1>2. Listed(x) \in SUBSET (RunId \cup {PR}) /\ (x = "sync" /\ Listed(x) # {} => ledger.pending)
  BY <1>1 DEF Listed
<1>. QED
  BY <1>2 DEF x

LEMMA SchedWrites ==
  ASSUME NEW row \in Sched
  PROVE  /\ \A x \in 0 .. Len(Stages) : [row EXCEPT !.stage = x] \in Sched
         /\ \A x \in SUBSET (RunId \cup {PR}) : [row EXCEPT !.todo = x] \in Sched
         /\ \A x \in Pc : [row EXCEPT !.pc = x] \in Sched
         /\ \A x \in RunId \cup {NoRun} : [row EXCEPT !.run = x] \in Sched
         /\ \A x \in Heads \cup {NoHead} : [row EXCEPT !.head = x] \in Sched
         /\ \A x \in CommitStatus : [row EXCEPT !.want = x] \in Sched
<1>1. \A x \in 0 .. Len(Stages) : [row EXCEPT !.stage = x] \in Sched
  BY DEF Sched
<1>2. \A x \in SUBSET (RunId \cup {PR}) : [row EXCEPT !.todo = x] \in Sched
  BY DEF Sched
<1>3. \A x \in Pc : [row EXCEPT !.pc = x] \in Sched
  BY DEF Sched
<1>4. \A x \in RunId \cup {NoRun} : [row EXCEPT !.run = x] \in Sched
  BY DEF Sched
<1>5. \A x \in Heads \cup {NoHead} : [row EXCEPT !.head = x] \in Sched
  BY DEF Sched
<1>6. \A x \in CommitStatus : [row EXCEPT !.want = x] \in Sched
  BY DEF Sched
<1>. QED
  BY <1>1, <1>2, <1>3, <1>4, <1>5, <1>6

LEMMA SchedRows ==
  ASSUME sched \in Sched
  PROVE  /\ Idle \in Sched /\ Idle.pc = "list"
         /\ Took \in Sched /\ Took.pc = sched.pc /\ Took.stage = sched.stage
         /\ Back \in Sched /\ Back.pc = "list" /\ Back.stage = sched.stage
         /\ \A x \in Pc : LET row == [sched EXCEPT !.pc = x]
                          IN  /\ row \in Sched /\ row.pc = x /\ row.stage = sched.stage
                              /\ row.run = sched.run /\ row.head = sched.head
                              /\ row.want = sched.want
<1>0. "list" \in Pc /\ "" \in CommitStatus /\ 0 \in 0 .. Len(Stages)
  BY StageList DEF Pc, CommitStatus
<1>1. Idle \in Sched /\ Idle.pc = "list"
  BY <1>0 DEF Idle, Sched
<1>2. Took \in Sched /\ Took.pc = sched.pc /\ Took.stage = sched.stage
  <2>1. Took = [sched EXCEPT !.todo = sched.todo \ {Min(sched.todo)}]
    BY DEF Took, Sched
  <2>2. sched.todo \ {Min(sched.todo)} \in SUBSET (RunId \cup {PR})
    BY DEF Sched
  <2>. DEFINE todo == sched.todo \ {Min(sched.todo)}
  <2>3. todo \in SUBSET (RunId \cup {PR})
    BY <2>2
  <2>. HIDE DEF todo
  <2>4. [sched EXCEPT !.todo = todo] \in Sched
    BY <2>3, SchedWrites
  <2>5. [sched EXCEPT !.todo = todo].pc = sched.pc /\ [sched EXCEPT !.todo = todo].stage = sched.stage
    BY DEF Sched
  <2>. QED
    BY <2>1, <2>4, <2>5 DEF todo
<1>3. Back \in Sched /\ Back.pc = "list" /\ Back.stage = sched.stage
  <2>. DEFINE r1 == [sched EXCEPT !.pc = "list"]
              r2 == [r1 EXCEPT !.run = NoRun]
              r3 == [r2 EXCEPT !.head = NoHead]
              r4 == [r3 EXCEPT !.want = ""]
  <2>1. Back = r4
    BY DEF Sched, Back
  <2>2. r1 \in Sched /\ r1.pc = "list" /\ r1.stage = sched.stage
    BY <1>0, SchedWrites DEF Sched
  <2>. HIDE DEF r1
  <2>3. r2 \in Sched /\ r2.pc = "list" /\ r2.stage = sched.stage
    BY <2>2, SchedWrites DEF Sched
  <2>. HIDE DEF r2
  <2>4. r3 \in Sched /\ r3.pc = "list" /\ r3.stage = sched.stage
    BY <2>3, SchedWrites DEF Sched
  <2>. HIDE DEF r3
  <2>5. r4 \in Sched /\ r4.pc = "list" /\ r4.stage = sched.stage
    BY <1>0, <2>4, SchedWrites DEF Sched
  <2>. QED
    BY <2>1, <2>5
<1>4. ASSUME NEW x \in Pc
      PROVE  LET row == [sched EXCEPT !.pc = x]
             IN  /\ row \in Sched /\ row.pc = x /\ row.stage = sched.stage
                 /\ row.run = sched.run /\ row.head = sched.head /\ row.want = sched.want
  <2>1. [sched EXCEPT !.pc = x] \in Sched
    BY SchedWrites
  <2>. QED
    BY <2>1 DEF Sched
<1>. QED
  BY <1>1, <1>2, <1>3, <1>4

(* What a step does to the tick: it goes on to its list or to a read, holds *)
(* a head or a run, or goes on with what it holds.                         *)
Halts == sched'.pc \in {"list", "read"}
TakesHead == sched'.pc \in {"open", "drop"} /\ sched'.head \in Heads
TakesRun ==
  \E r \in RunId : Claim(r) /\ Undispatched(r) /\ sched'.pc = "check" /\ sched'.run = r
Launching(pc) ==
  \/ sched.pc = "check" /\ pc = "token"
  \/ IssueToken /\ pc = "create"
  \/ sched.pc = "create" /\ pc = "confirm"
Launches == Launching(sched'.pc) /\ sched'.run = sched.run
Publishes ==
  /\ \/ SyncGuard /\ sched'.pc = "write"
     \/ SyncWrite /\ sched'.pc = "record"
     \/ SyncRecord /\ current /\ sched'.pc = "comment"
  /\ sched'.head = sched.head /\ sched'.want = sched.want
ReadsRound ==
  /\ current /\ sched.pc = "read" /\ UNCHANGED <<runs, ledger, current, published>>
  /\ ledger.head \in Heads
  /\ sched'.head = ledger.head /\ sched'.want = Summary(RoundRuns)
  /\ sched'.pc = IF Summary(RoundRuns) = ledger.status THEN "comment" ELSE "guard"
TickStep ==
  /\ sched' \in Sched
  /\ \/ UNCHANGED sched
     \/ Halts \/ TakesHead \/ TakesRun \/ Launches \/ Publishes \/ ReadsRound

LEMMA Ticks ==
  ASSUME sched \in Sched, Tick
  PROVE  /\ sched' \in Sched /\ sched'.pc = "list"
         /\ current' => ledger.pending /\ sched'.stage # 0 /\ Stages[sched'.stage] = "sync"
<1>. DEFINE later == {i \in sched.stage + 1 .. Len(Stages) : Listed(Stages[i]) # {}}
<1>1. /\ sched' = IF later = {} THEN Idle
                  ELSE [Idle EXCEPT !.stage = Min(later), !.todo = Listed(Stages[Min(later)])]
      /\ current' = (later # {} /\ Stages[Min(later)] = "sync")
  BY DEF Tick
<1>2. CASE later = {}
  BY <1>1, <1>2, SchedRows
<1>3. CASE later # {}
  <2>. DEFINE m == Min(later)
              todo == Listed(Stages[m])
              r1 == [Idle EXCEPT !.stage = m]
              r2 == [r1 EXCEPT !.todo = todo]
  <2>1. later \in SUBSET Nat /\ \A i \in later : i \in 1 .. 7 /\ Listed(Stages[i]) # {}
    <3>1. sched.stage \in 0 .. 7
      BY StageList DEF Sched
    <3>. QED
      BY <3>1, StageList
  <2>2. m \in later
    <3>. HIDE DEF later
    <3>. QED
      BY <1>3, <2>1, Least
  <2>3. m \in 1 .. 7 /\ todo # {} /\ m # 0
    <3>. HIDE DEF m, later
    <3>. QED
      BY <2>1, <2>2
  <2>4. todo \in SUBSET (RunId \cup {PR}) /\ (Stages[m] = "sync" => ledger.pending)
    <3>. HIDE DEF m
    <3>. QED
      BY <2>3, ListTyped
  <2>5. sched' = [Idle EXCEPT !.stage = m, !.todo = todo]
    BY <1>1, <1>3
  <2>6. current' => Stages[m] = "sync"
    BY <1>1
  <2>. HIDE DEF later, m, todo
  <2>7. Idle \in Sched /\ Idle.pc = "list"
    BY SchedRows
  <2>8. r1 \in Sched /\ r1.pc = "list" /\ r1.stage = m
    <3>0. m \in 0 .. Len(Stages)
      BY <2>3, StageList
    <3>1. r1 \in Sched
      BY <2>7, <3>0, SchedWrites
    <3>. QED
      BY <2>7, <3>1 DEF Sched
  <2>9. [Idle EXCEPT !.stage = m, !.todo = todo] = r2
    BY <2>7 DEF Sched
  <2>. HIDE DEF r1
  <2>10. r2 \in Sched /\ r2.pc = "list" /\ r2.stage = m
    <3>1. r2 \in Sched
      BY <2>4, <2>8, SchedWrites
    <3>. QED
      BY <2>8, <3>1 DEF Sched
  <2>. QED
    BY <2>3, <2>4, <2>5, <2>6, <2>9, <2>10
<1>. QED
  BY <1>2, <1>3

LEMMA SyncTicks ==
  ASSUME RInv, sched \in Sched, Sync
  PROVE  TickStep /\ sched'.stage = sched.stage
<1>0. /\ ledger.head \in Heads \cup {NoHead} /\ remote.head \in Heads
      /\ \A S : Summary(S) \in CommitStatus
  BY SummaryTyped DEF RInv, TypeOK, CommitStatus
<1>1. {"read", "guard", "write", "record", "comment"} \subseteq Pc
  BY DEF Pc
<1>2. CASE SyncStart
  <2>1. \/ sched' = Took /\ sched.pc = "list"
        \/ sched' = [Took EXCEPT !.pc = "read"]
    BY <1>2 DEF SyncStart, Taking
  <2>. DEFINE took == Took
  <2>2. took \in Sched /\ took.stage = sched.stage /\ took.pc = sched.pc
    BY SchedRows
  <2>3. \/ sched' = took /\ sched.pc = "list"
        \/ sched' = [took EXCEPT !.pc = "read"]
    BY <2>1
  <2>. HIDE DEF took
  <2>4. [took EXCEPT !.pc = "read"] \in Sched
    BY <1>1, <2>2, SchedWrites
  <2>5. [took EXCEPT !.pc = "read"].pc = "read" /\ [took EXCEPT !.pc = "read"].stage = took.stage
    BY <2>2 DEF Sched
  <2>. QED
    BY <2>2, <2>3, <2>4, <2>5 DEF TickStep, Halts
<1>3. CASE SyncRead
  <2>1. \/ sched' = Back
        \/ /\ current /\ UNCHANGED <<runs, ledger, current, published>> /\ remote.head = ledger.head
           /\ sched' = [sched EXCEPT !.head = ledger.head, !.want = Summary(RoundRuns),
                          !.pc = IF Summary(RoundRuns) = ledger.status THEN "comment" ELSE "guard"]
    BY <1>3 DEF SyncRead
  <2>2. CASE sched' = Back
    BY <2>2, SchedRows DEF TickStep, Halts
  <2>3. CASE /\ current /\ UNCHANGED <<runs, ledger, current, published>> /\ remote.head = ledger.head
             /\ sched' = [sched EXCEPT !.head = ledger.head, !.want = Summary(RoundRuns),
                            !.pc = IF Summary(RoundRuns) = ledger.status THEN "comment" ELSE "guard"]
    <3>. DEFINE pc == IF Summary(RoundRuns) = ledger.status THEN "comment" ELSE "guard"
                want == Summary(RoundRuns)
                r1 == [sched EXCEPT !.head = ledger.head]
                r2 == [r1 EXCEPT !.want = want]
                r3 == [r2 EXCEPT !.pc = pc]
    <3>1. pc \in Pc /\ want \in CommitStatus /\ ledger.head \in Heads
      BY <1>0, <1>1, <2>3
    <3>2. sched' = [sched EXCEPT !.head = ledger.head, !.want = want, !.pc = pc]
      BY <2>3
    <3>. HIDE DEF want, pc
    <3>3. sched' = r3
      BY <3>2 DEF Sched
    <3>4. r1 \in Sched /\ r1.head = ledger.head /\ r1.stage = sched.stage
      BY <1>0, SchedWrites DEF Sched
    <3>. HIDE DEF r1
    <3>5. r2 \in Sched /\ r2.head = ledger.head /\ r2.stage = sched.stage /\ r2.want = want
      BY <3>1, <3>4, SchedWrites DEF Sched
    <3>. HIDE DEF r2
    <3>6. /\ r3 \in Sched /\ r3.head = ledger.head /\ r3.stage = sched.stage /\ r3.want = want
          /\ r3.pc = pc
      BY <3>1, <3>5, SchedWrites DEF Sched
    <3>. HIDE DEF r3
    <3>7. sched.pc = "read"
      BY <1>3 DEF SyncRead
    <3>8. ReadsRound
      BY <2>3, <3>1, <3>3, <3>6, <3>7 DEF ReadsRound, want, pc
    <3>. QED
      BY <3>3, <3>6, <3>8 DEF TickStep
  <2>. QED
    BY <2>1, <2>2, <2>3
<1>4. CASE SyncGuard
  <2>1. sched' = Back \/ sched' = [sched EXCEPT !.pc = "write"]
    BY <1>4 DEF SyncGuard, Goto
  <2>2. CASE sched' = Back
    <3>. DEFINE back == Back
    <3>1. back \in Sched /\ back.pc = "list" /\ back.stage = sched.stage
      BY SchedRows
    <3>2. sched' = back
      BY <2>2
    <3>. HIDE DEF back
    <3>. QED
      BY <3>1, <3>2 DEF TickStep, Halts
  <2>3. CASE sched' = [sched EXCEPT !.pc = "write"]
    <3>1. "write" \in Pc
      BY DEF Pc
    <3>. DEFINE row == [sched EXCEPT !.pc = "write"]
    <3>2. /\ row \in Sched /\ row.pc = "write" /\ row.stage = sched.stage
          /\ row.head = sched.head /\ row.want = sched.want
      BY <3>1, SchedRows
    <3>3. sched' = row
      BY <2>3
    <3>. HIDE DEF row
    <3>. QED
      BY <1>4, <3>2, <3>3 DEF TickStep, Publishes
  <2>. QED
    BY <2>1, <2>2, <2>3
<1>5. CASE SyncWrite
  <2>1. sched' = [sched EXCEPT !.pc = "record"]
    BY <1>5 DEF SyncWrite, Goto
  <2>. QED
    BY <1>1, <1>5, <2>1, SchedRows DEF TickStep, Publishes
<1>6. CASE SyncRecord
  <2>1. sched' = Back \/ (current /\ sched' = [sched EXCEPT !.pc = "comment"])
    BY <1>6 DEF SyncRecord, Goto
  <2>. QED
    BY <1>1, <1>6, <2>1, SchedRows DEF TickStep, Halts, Publishes
<1>7. CASE SyncFinish
  <2>1. sched' = Back
    BY <1>7 DEF SyncFinish
  <2>. QED
    BY <2>1, SchedRows DEF TickStep, Halts
<1>. QED
  BY <1>2, <1>3, <1>4, <1>5, <1>6, <1>7 DEF Sync

LEMMA LaunchTicks ==
  ASSUME RInv, sched \in Sched, Launch
  PROVE  TickStep /\ sched'.stage = sched.stage
<1>1. {"check", "token", "create", "confirm"} \subseteq Pc
  BY DEF Pc
<1>2. \/ sched' = Back
      \/ \E x \in {"token", "create", "confirm"} :
           Launching(x) /\ sched' = [sched EXCEPT !.pc = x]
  <2>1. CASE LaunchCheck
    BY <2>1 DEF LaunchCheck, Goto, Launching
  <2>2. CASE IssueToken
    <3>1. sched' = Back \/ sched' = [sched EXCEPT !.pc = "create"]
      BY <2>2, TokenWrites
    <3>. QED
      BY <2>2, <3>1 DEF Launching
  <2>3. CASE CreateThread
    BY <2>3 DEF CreateThread, Goto, Launching
  <2>4. CASE ConfirmThread
    BY <2>4 DEF ConfirmThread
  <2>. QED
    BY <2>1, <2>2, <2>3, <2>4 DEF Launch
<1>3. CASE sched' = Back
  BY <1>3, SchedRows DEF TickStep, Halts
<1>4. CASE \E x \in {"token", "create", "confirm"} :
             Launching(x) /\ sched' = [sched EXCEPT !.pc = x]
  <2>1. PICK x \in {"token", "create", "confirm"} :
          Launching(x) /\ sched' = [sched EXCEPT !.pc = x]
    BY <1>4
  <2>2. sched' \in Sched /\ sched'.pc = x /\ sched'.run = sched.run /\ sched'.stage = sched.stage
    BY <1>1, <2>1, SchedRows
  <2>3. Launches
    BY <2>1, <2>2 DEF Launches
  <2>. QED
    BY <2>2, <2>3 DEF TickStep
<1>. QED
  BY <1>2, <1>3, <1>4

LEMMA ListTicks ==
  ASSUME RInv, sched \in Sched,
         \/ DebounceRead \/ DebounceOpen \/ Promote
         \/ \E r \in RunId : Claim(r) \/ MarkTimeout(r) \/ Interrupt(r) \/ Archive(r)
  PROVE  TickStep /\ sched'.stage = sched.stage
<1>. DEFINE took == Took
<1>1. took \in Sched /\ took.pc = sched.pc /\ took.stage = sched.stage
  BY SchedRows
<1>2. \/ sched' = Back
      \/ sched' = took /\ sched.pc = "list"
      \/ /\ debounce.due
         /\ \E x \in {"open", "drop"} : sched' = [took EXCEPT !.head = debounce.head, !.pc = x]
      \/ \E r \in RunId : /\ Claim(r) /\ Undispatched(r)
                          /\ sched' = [took EXCEPT !.pc = "check", !.run = r]
  <2>1. CASE DebounceRead
    BY <2>1 DEF DebounceRead, Taking
  <2>2. CASE DebounceOpen \/ Promote
    BY <2>2 DEF DebounceOpen, Promote, Taking
  <2>3. CASE \E r \in RunId : Claim(r)
    <3>1. PICK r \in RunId : Claim(r)
      BY <2>3
    <3>2. \/ sched' = took /\ sched.pc = "list"
          \/ Undispatched(r) /\ sched' = [took EXCEPT !.pc = "check", !.run = r]
      BY <3>1 DEF Claim, Taking
    <3>. HIDE DEF took
    <3>. QED
      BY <3>1, <3>2
  <2>4. CASE \E r \in RunId : MarkTimeout(r) \/ Interrupt(r) \/ Archive(r)
    BY <2>4 DEF MarkTimeout, Interrupt, Archive, Taking
  <2>. QED
    BY <2>1, <2>2, <2>3, <2>4
<1>. HIDE DEF took
<1>3. CASE sched' = Back
  BY <1>3, SchedRows DEF TickStep, Halts
<1>4. CASE sched' = took /\ sched.pc = "list"
  BY <1>1, <1>4 DEF TickStep, Halts
<1>5. CASE /\ debounce.due
           /\ \E x \in {"open", "drop"} : sched' = [took EXCEPT !.head = debounce.head, !.pc = x]
  <2>1. PICK x \in {"open", "drop"} : sched' = [took EXCEPT !.head = debounce.head, !.pc = x]
    BY <1>5
  <2>2. x \in Pc /\ debounce.head \in Heads
    BY <1>5 DEF Pc, RInv, Waiting, TypeOK
  <2>. DEFINE r1 == [took EXCEPT !.head = debounce.head]
              r2 == [r1 EXCEPT !.pc = x]
  <2>3. sched' = r2
    BY <1>1, <2>1 DEF Sched
  <2>4. r1 \in Sched /\ r1.head = debounce.head /\ r1.stage = took.stage
    BY <1>1, <2>2, SchedWrites DEF Sched
  <2>. HIDE DEF r1
  <2>5. r2 \in Sched /\ r2.head = r1.head /\ r2.stage = r1.stage /\ r2.pc = x
    BY <2>2, <2>4, SchedWrites DEF Sched
  <2>. HIDE DEF r2
  <2>. QED
    BY <1>1, <2>2, <2>3, <2>4, <2>5 DEF TickStep, TakesHead
<1>6. CASE \E r \in RunId : /\ Claim(r) /\ Undispatched(r)
                          /\ sched' = [took EXCEPT !.pc = "check", !.run = r]
  <2>1. PICK r \in RunId : /\ Claim(r) /\ Undispatched(r)
                          /\ sched' = [took EXCEPT !.pc = "check", !.run = r]
    BY <1>6
  <2>2. "check" \in Pc
    BY DEF Pc
  <2>. DEFINE r1 == [took EXCEPT !.pc = "check"]
              r2 == [r1 EXCEPT !.run = r]
  <2>3. sched' = r2
    BY <1>1, <2>1 DEF Sched
  <2>4. r1 \in Sched /\ r1.pc = "check" /\ r1.stage = took.stage
    BY <1>1, <2>2, SchedWrites DEF Sched
  <2>. HIDE DEF r1
  <2>5. r2 \in Sched /\ r2.pc = r1.pc /\ r2.stage = r1.stage /\ r2.run = r
    BY <2>4, SchedWrites DEF Sched
  <2>. HIDE DEF r2
  <2>6. TakesRun
    BY <2>1, <2>3, <2>4, <2>5 DEF TakesRun
  <2>. QED
    BY <1>1, <2>3, <2>4, <2>5, <2>6 DEF TickStep
<1>. QED
  BY <1>2, <1>3, <1>4, <1>5, <1>6

LEMMA SchedSteps ==
  ASSUME RInv, [Next]_vars
  PROVE  TickStep /\ (sched'.stage = sched.stage \/ Tick \/ Crash)
<1>0. sched \in Sched
  BY DEF RInv, TypeOK, Sched, Pc
<1>1. CASE Tick
  BY <1>0, <1>1, Ticks DEF TickStep, Halts
<1>2. CASE Crash
  <2>1. sched' = Idle
    BY <1>2 DEF Crash
  <2>. QED
    BY <1>0, <1>2, <2>1, SchedRows DEF TickStep, Halts
<1>3. CASE UNCHANGED sched
  BY <1>0, <1>3 DEF TickStep
<1>. QED
  BY <1>0, <1>1, <1>2, <1>3, SchedWritten, ListTicks, LaunchTicks, SyncTicks

LEMMA HoldingStep ==
  ASSUME RInv, [Next]_vars
  PROVE  Holding'
<1>1. Holding /\ TickStep
  BY SchedSteps DEF RInv
<1>2. CASE UNCHANGED sched
  BY <1>1, <1>2 DEF Holding
<1>3. CASE Halts
  BY <1>3 DEF Holding, Halts
<1>4. CASE TakesHead
  BY <1>4 DEF Holding, TakesHead
<1>5. CASE TakesRun
  BY <1>5 DEF Holding, TakesRun
<1>6. CASE Launches
  <2>1. sched.pc \in {"check", "token", "create"} /\ sched'.pc \in {"token", "create", "confirm"}
    BY <1>6 DEF Launches, Launching, IssueToken
  <2>. QED
    BY <1>1, <1>6, <2>1 DEF Holding, Launches
<1>7. CASE Publishes
  BY <1>1, <1>7 DEF Holding, Publishes, SyncGuard, SyncWrite, SyncRecord
<1>8. CASE ReadsRound
  <2>1. sched'.pc \in {"comment", "guard"} /\ sched'.head \in Heads
    BY <1>8 DEF ReadsRound
  <2>. QED
    BY <2>1 DEF Holding
<1>. QED
  BY <1>1, <1>2, <1>3, <1>4, <1>5, <1>6, <1>7, <1>8 DEF TickStep

(* The epoch of the ledger stays the one of the sync only while nobody     *)
(* asks for a sync.                                                        *)
LEMMA EpochStep ==
  ASSUME TypeOK, [Next]_vars, current'
  PROVE  \/ Tick
         \/ current /\ ledger'.pending = ledger.pending /\ ~Crash
<1>. SUFFICES Tick \/ (current /\ ledger'.pending = ledger.pending)
  BY DEF Crash
<1>1. ASSUME NEW r, NEW from, NEW status, NEW code, EndIf(r, from, status, code)
      PROVE  UNCHANGED <<ledger, current>>
  BY <1>1 DEF EndIf, EndAndMark, MarkPending
<1>2. CASE \E e \in mail : Webhook(e)
  BY <1>2 DEF Webhook, HandleClosed, HandleIgnored, HandleAccepted, AcceptHead
<1>3. CASE RerunOpens \/ DebounceOpen
  BY <1>3 DEF RerunOpens, DebounceOpen, OpenRound
<1>4. CASE LaunchCheck \/ IssueToken \/ CreateThread
  BY <1>1, <1>4, LaunchWrites, TokenWrites DEF CreateThread
<1>5. CASE SyncRead \/ SyncFinish \/ Crash
  BY <1>5 DEF SyncRead, SyncFinish, Crash
<1>6. CASE SyncRecord
  <2>1. ledger' = ledger \/ ledger' = [ledger EXCEPT !.status = sched.want]
    BY <1>6 DEF SyncRecord
  <2>2. sched.want \in CommitStatus /\ current
    BY <1>6 DEF TypeOK, SyncRecord
  <2>3. CASE ledger' = [ledger EXCEPT !.status = sched.want]
    BY <2>2, <2>3, LedgerFields, Zenon
  <2>. QED
    BY <2>1, <2>2, <2>3
<1>7. CASE \E r \in RunId : MarkTimeout(r) \/ SubmitStale(r) \/ SubmitCommit(r)
  <2>1. UNCHANGED <<ledger, current>>
    BY <1>1, <1>7 DEF MarkTimeout, SubmitStale, SubmitCommit, EndAndMark, MarkPending
  <2>. QED
    BY <2>1
<1>8. CASE UNCHANGED <<ledger, current>>
  BY <1>8
<1>. QED
  BY Zenon, LedgerWritten, CurrentWritten, <1>2, <1>3, <1>4, <1>5, <1>6, <1>7, <1>8

LEMMA CurrentTyped ==
  ASSUME RInv, [Next]_vars
  PROVE  /\ current' \in BOOLEAN
         /\ current' => ledger'.pending /\ sched'.stage # 0 /\ Stages[sched'.stage] = "sync"
<1>0. TypeOK /\ sched \in Sched
  BY DEF RInv, TypeOK, Sched, Pc
<1>1. ASSUME current'
      PROVE  ledger'.pending /\ sched'.stage # 0 /\ Stages[sched'.stage] = "sync"
  <2>1. CASE Tick
    <3>1. ledger' = ledger
      BY <2>1 DEF Tick
    <3>. QED
      BY <1>0, <1>1, <2>1, <3>1, Ticks
  <2>2. CASE ~Tick
    <3>1. current /\ ledger'.pending = ledger.pending /\ sched'.stage = sched.stage
      BY <1>0, <1>1, <2>2, EpochStep, SchedSteps
    <3>. QED
      BY <1>0, <3>1 DEF TypeOK
  <2>. QED
    BY <2>1, <2>2
<1>2. current' \in BOOLEAN
  <2>1. ASSUME NEW r, NEW from, NEW status, NEW code, EndIf(r, from, status, code)
        PROVE  current' = current \/ current' = FALSE
    BY <2>1 DEF EndIf, EndAndMark, MarkPending
  <2>2. CASE Tick
    BY <2>2 DEF Tick
  <2>3. CASE ~Tick
    <3>1. current' = current \/ current' = FALSE
      BY <2>1, <2>3, CurrentWritten, LaunchWrites, TokenWrites
      DEF Webhook, HandleClosed, HandleIgnored, HandleAccepted, AcceptHead, RerunOpens,
         DebounceOpen, OpenRound, CreateThread, SyncRead, SyncFinish, Crash, MarkTimeout, SubmitStale, SubmitCommit, EndAndMark, MarkPending
    <3>. QED
      BY <1>0, <3>1 DEF TypeOK
  <2>. QED
    BY <2>2, <2>3
<1>. QED
  BY <1>1, <1>2

LEMMA TypeStep ==
  ASSUME RInv, [Next]_vars
  PROVE  TypeOK'
<1>0. TypeOK
  BY DEF RInv
<1>1. remote' \in PullRequest
      /\ mail' \subseteq [action : Actions \cup {"closed"}, head : Heads, at : Nat]
  BY <1>0, RemoteTyped
<1>2. ledger' \in Ledger /\ runs' \in [RunId -> Row]
  BY LedgerTyped, RunSteps DEF Ordered
<1>3. sched' \in Sched /\ used' \in Used
  BY <1>0, SchedSteps, UsedTyped DEF TickStep
<1>. QED
  BY <1>0, <1>1, <1>2, <1>3, TablesTyped, SeenTyped, CurrentTyped
     DEF TypeOK, PullRequest, Ledger, Sched, Pc, Used, Tries

-----------------------------------------------------------------------------
(* The outcome of a round and what the platform shows                      *)

LEMMA SameOutcome ==
  ASSUME SameRound,
         \A r \in RunId : /\ runs'[r].head = runs[r].head /\ runs'[r].round = runs[r].round
                          /\ \/ runs'[r].status = runs[r].status
                             \/ runs[r].status \notin Terminal /\ runs'[r].status \notin Terminal
  PROVE  RoundRuns' = RoundRuns /\ Summary(RoundRuns)' = Summary(RoundRuns)
<1>1. RoundRuns' = RoundRuns
  BY DEF RoundRuns, SameRound
<1>2. \A r \in RoundRuns : r \in RunId
  BY DEF RoundRuns
<1>3. "completed" \in Terminal
  BY DEF Terminal
<1>4. /\ (\E r \in RoundRuns : runs'[r].status \notin Terminal)
           <=> (\E r \in RoundRuns : runs[r].status \notin Terminal)
      /\ ~(\E r \in RoundRuns : runs[r].status \notin Terminal) =>
           ((\E r \in RoundRuns : runs'[r].status # "completed")
              <=> (\E r \in RoundRuns : runs[r].status # "completed"))
  BY <1>2, <1>3
<1>. QED
  BY <1>1, <1>4 DEF Summary

(* A round that has an outcome keeps it: ends come to what is under way.   *)
LEMMA OutcomeKept ==
  ASSUME SameRound, \A r \in RunId : Kept(r) \/ Finished(r)
  PROVE  /\ RoundRuns' = RoundRuns
         /\ RoundRuns # {} /\ Summary(RoundRuns) # "pending" =>
              Summary(RoundRuns)' = Summary(RoundRuns)
         /\ Summary(RoundRuns)' = "pending" => Summary(RoundRuns) = "pending"
<1>1. RoundRuns' = RoundRuns
  BY DEF RoundRuns, SameRound, Kept, Finished
<1>2. \A r \in RoundRuns : r \in RunId
  BY DEF RoundRuns
<1>3. \A r \in RoundRuns :
        /\ runs[r].status \in Terminal => runs'[r].status = runs[r].status
        /\ runs'[r].status \notin Terminal => runs[r].status \notin Terminal
  BY <1>2, Statuses DEF Kept, Finished
<1>4. ASSUME RoundRuns # {}, Summary(RoundRuns) # "pending"
      PROVE  Summary(RoundRuns)' = Summary(RoundRuns)
  <2>1. \A r \in RoundRuns : runs[r].status \in Terminal
    BY <1>4 DEF Summary
  <2>. QED
    BY <1>1, <1>3, <2>1 DEF Summary
<1>5. ASSUME Summary(RoundRuns)' = "pending"
      PROVE  Summary(RoundRuns) = "pending"
  <2>1. RoundRuns = {} \/ \E r \in RoundRuns : runs'[r].status \notin Terminal
    BY <1>1, <1>5 DEF Summary
  <2>. QED
    BY <1>3, <2>1 DEF Summary
<1>. QED
  BY <1>1, <1>4, <1>5

LEMMA NotesOutcome ==
  ASSUME Ordered(runs), Notes \/ Promotes
  PROVE  SameRound /\ RoundRuns' = RoundRuns /\ Summary(RoundRuns)' = Summary(RoundRuns)
<1>1. \A x \in Unfinished : x \notin Terminal
  BY DEF Unfinished, Active, Terminal
<1>2. SameRound
  BY DEF Notes, Promotes, SameRound
<1>3. \A r \in RunId : /\ runs'[r].head = runs[r].head /\ runs'[r].round = runs[r].round
                       /\ \/ runs'[r].status = runs[r].status
                          \/ runs[r].status \notin Terminal /\ runs'[r].status \notin Terminal
  BY <1>1, Statuses, PromotedRows DEF Notes, Kept
<1>. QED
  BY <1>2, <1>3, SameOutcome

LEMMA StatusSteps ==
  ASSUME TypeOK, [Next]_vars
  PROVE  \/ ledger'.status = ledger.status
         \/ SyncRecord /\ current
         \/ ledger'.status = "" /\ ~current'
<1>1. ASSUME NEW r, NEW from, NEW status, NEW code, EndIf(r, from, status, code)
      PROVE  ledger'.status = ledger.status
  BY <1>1, LedgerFields DEF EndIf, EndAndMark, MarkPending
<1>2. ASSUME NEW rs, NEW h, NEW manual, OpenRound(rs, h, manual)
      PROVE  ledger'.status = "" /\ ~current'
  <2>. DEFINE round == NextRound(rs, h, manual)
  <2>1. ledger' = [head |-> h, round |-> round, pending |-> TRUE, status |-> ""] /\ ~current'
    BY <1>2 DEF OpenRound
  <2>. HIDE DEF round
  <2>. QED
    BY <2>1
<1>3. CASE \E e \in mail : Webhook(e)
  <2>1. PICK e \in mail : Webhook(e)
    BY <1>3
  <2>2. e.head \in Heads
    BY DEF TypeOK
  <2>3. \/ ledger' = ledger
        \/ ledger' = [ledger EXCEPT !.pending = FALSE]
        \/ ledger' = [ledger EXCEPT !.head = e.head, !.pending = FALSE]
    BY <2>1 DEF Webhook, HandleClosed, HandleIgnored, HandleAccepted, AcceptHead
  <2>4. CASE ledger' = [ledger EXCEPT !.pending = FALSE]
    BY <2>4, LedgerFields, Zenon
  <2>5. CASE ledger' = [ledger EXCEPT !.head = e.head, !.pending = FALSE]
    BY <2>2, <2>5, LedgerFields, Zenon
  <2>. QED
    BY <2>3, <2>4, <2>5
<1>4. CASE RerunOpens \/ DebounceOpen
  BY <1>2, <1>4 DEF RerunOpens, DebounceOpen
<1>5. CASE LaunchCheck \/ IssueToken \/ CreateThread
  BY <1>1, <1>5, LaunchWrites, TokenWrites DEF CreateThread
<1>6. CASE SyncRead \/ SyncFinish
  <2>1. ledger' = ledger \/ ledger' = [ledger EXCEPT !.pending = FALSE]
    BY <1>6 DEF SyncRead, SyncFinish
  <2>. QED
    BY <2>1, LedgerFields
<1>7. CASE SyncRecord
  BY <1>7 DEF SyncRecord
<1>8. CASE \E r \in RunId : MarkTimeout(r) \/ SubmitStale(r) \/ SubmitCommit(r)
  <2>1. MarkPending \/ ledger' = ledger \/ ledger'.status = ledger.status
    BY <1>1, <1>8 DEF MarkTimeout, SubmitStale, SubmitCommit, EndAndMark
  <2>. QED
    BY <2>1, LedgerFields DEF MarkPending
<1>. QED
  BY Zenon, LedgerWritten, <1>3, <1>4, <1>5, <1>6, <1>7, <1>8

LEMMA SyncTrueStep ==
  ASSUME RInv, PInv, [Next]_vars
  PROVE  SyncTrue'
<1>0. TypeOK /\ Ordered(runs) /\ SyncTrue /\ sched \in Sched
  BY DEF RInv, PInv, TypeOK, Sched, Pc
<1>. SUFFICES ASSUME current', sched'.pc \in {"guard", "write", "record", "comment"}
              PROVE  sched'.head = ledger'.head /\ sched'.want = Summary(RoundRuns)'
  BY DEF SyncTrue
<1>1. ~Tick
  BY <1>0, Ticks
<1>2. current
  BY <1>0, <1>1, EpochStep
<1>3. Notes \/ Promotes
  BY RunSteps DEF Finishes, Moves, Opens
<1>4. SameRound /\ Summary(RoundRuns)' = Summary(RoundRuns)
  BY <1>0, <1>3, NotesOutcome
<1>5. UNCHANGED sched \/ Publishes \/ ReadsRound
  BY SchedSteps DEF TickStep, Halts, TakesHead, TakesRun, Launches, Launching
<1>6. CASE UNCHANGED sched
  BY <1>0, <1>2, <1>4, <1>6 DEF SyncTrue, SameRound
<1>7. CASE Publishes
  <2>1. sched.pc \in {"guard", "write", "record"} /\ sched'.head = sched.head /\ sched'.want = sched.want
    BY <1>7 DEF Publishes, SyncGuard, SyncWrite, SyncRecord
  <2>. QED
    BY <1>0, <1>2, <1>4, <2>1 DEF SyncTrue, SameRound
<1>8. CASE ReadsRound
  BY <1>4, <1>8 DEF ReadsRound, SameRound
<1>. QED
  BY <1>5, <1>6, <1>7, <1>8

LEMMA WrittenStep ==
  ASSUME RInv, PInv, [Next]_vars
  PROVE  Written'
<1>0. /\ TypeOK /\ Written /\ sched \in Sched /\ Holding
      /\ published \in [Heads -> CommitStatus]
  BY DEF RInv, PInv, TypeOK, Sched, Pc
<1>1. ASSUME sched'.pc = "record" PROVE published'[sched'.head] = sched'.want
  <2>1. UNCHANGED sched \/ (SyncWrite /\ sched'.head = sched.head /\ sched'.want = sched.want)
    BY <1>1, SchedSteps DEF TickStep, Halts, TakesHead, TakesRun, Launches, Launching, Publishes, ReadsRound
  <2>2. CASE SyncWrite
    <3>1. sched.head \in Heads /\ published' = [published EXCEPT ![sched.head] = sched.want]
      BY <1>0, <2>2 DEF SyncWrite, Holding
    <3>2. sched'.head = sched.head /\ sched'.want = sched.want
      BY <2>1
    <3>. QED
      BY <1>0, <3>1, <3>2
  <2>3. CASE UNCHANGED sched /\ ~SyncWrite
    <3>1. published' = published
      BY <2>3, PublishedWritten
    <3>. QED
      BY <1>0, <1>1, <2>3, <3>1 DEF Written
  <2>. QED
    BY <2>1, <2>2, <2>3
<1>2. ASSUME current', sched'.pc = "comment" PROVE ledger'.status = sched'.want
  <2>1. ~Tick
    BY <1>0, <1>2, Ticks
  <2>2. current
    BY <1>0, <1>2, <2>1, EpochStep
  <2>3. UNCHANGED sched \/ Publishes \/ ReadsRound
    BY <1>2, SchedSteps DEF TickStep, Halts, TakesHead, TakesRun, Launches, Launching
  <2>4. CASE UNCHANGED sched
    <3>1. ~SyncRecord
      BY <1>2, <2>4 DEF SyncRecord
    <3>2. ledger'.status = ledger.status
      BY <1>0, <1>2, <3>1, StatusSteps
    <3>. QED
      BY <1>0, <1>2, <2>2, <2>4, <3>2 DEF Written
  <2>5. CASE Publishes
    <3>1. SyncRecord /\ sched'.want = sched.want
      BY <1>2, <2>5 DEF Publishes
    <3>2. ledger' = [ledger EXCEPT !.status = sched.want] /\ sched.want \in CommitStatus
      BY <1>0, <2>2, <3>1 DEF SyncRecord, TypeOK
    <3>. QED
      BY <1>0, <3>1, <3>2, LedgerFields
  <2>6. CASE ReadsRound
    BY <1>2, <2>6 DEF ReadsRound
  <2>. QED
    BY <2>3, <2>4, <2>5, <2>6
<1>3. ASSUME ledger'.status # "" PROVE ledger'.head # NoHead
  <2>1. CASE SyncRecord /\ current
    <3>1. sched.pc = "record"
      BY <2>1 DEF SyncRecord
    <3>2. SameRound /\ sched.head = ledger.head /\ sched.head \in Heads
      BY <1>0, <2>1, <3>1, SyncRounds DEF PInv, SyncTrue, Holding
    <3>. QED
      BY <3>2, Bounds DEF SameRound
  <2>2. CASE ~(SyncRecord /\ current)
    <3>1. ledger.head # NoHead
      BY <1>0, <1>3, <2>2, StatusSteps DEF Written
    <3>2. ledger'.head = ledger.head \/ ledger'.head # NoHead
      BY <1>3, RunSteps DEF Notes, Promotes, Finishes, Moves, Opens, SameRound
    <3>. QED
      BY <3>1, <3>2
  <2>. QED
    BY <2>1, <2>2
<1>. QED
  BY <1>1, <1>2, <1>3 DEF Written

LEMMA RecordTrueStep ==
  ASSUME RInv, PInv, [Next]_vars
  PROVE  RecordTrue'
<1>0. /\ TypeOK /\ Ordered(runs) /\ SyncTrue /\ Written /\ RecordTrue /\ sched \in Sched
      /\ Holding /\ published \in [Heads -> CommitStatus] /\ ledger.status \in CommitStatus
  BY DEF RInv, PInv, TypeOK, Sched, Pc
<1>. SUFFICES ASSUME ledger'.status # "", RoundRuns' # {}
              PROVE  /\ ledger'.status = Summary(RoundRuns)' =>
                          published'[ledger'.head] = ledger'.status
                     /\ ledger'.status \in {"error", "success"} =>
                          ledger'.status = Summary(RoundRuns)'
                     /\ sched'.pc \in {"guard", "write"} /\ sched'.head = ledger'.head =>
                          ledger'.status # Summary(RoundRuns)'
  BY DEF RecordTrue
<1>1. CASE SyncRecord /\ current
  <2>1. /\ ledger' = [ledger EXCEPT !.status = sched.want] /\ sched.want \in CommitStatus
        /\ sched' = [sched EXCEPT !.pc = "comment"] /\ sched.pc = "record"
        /\ UNCHANGED <<runs, published>>
    BY <1>0, <1>1 DEF SyncRecord, Goto, TypeOK
  <2>2. ledger'.status = sched.want /\ SameRound
    BY <1>0, <2>1, LedgerFields DEF SameRound
  <2>3. sched'.pc = "comment"
    BY <1>0, <2>1, SchedRows DEF Pc
  <2>4. Summary(RoundRuns)' = Summary(RoundRuns)
    BY <2>1, <2>2, SameOutcome
  <2>5. sched.want = Summary(RoundRuns) /\ published[ledger.head] = sched.want
    BY <1>0, <1>1, <2>1 DEF SyncTrue, Written
  <2>. QED
    BY <2>1, <2>2, <2>3, <2>4, <2>5 DEF SameRound
<1>2. CASE ~(SyncRecord /\ current)
  <2>1. ledger'.status = ledger.status
    BY <1>0, <1>2, StatusSteps
  <2>2. Notes \/ Promotes \/ Finishes
    <3>1. ~Opens
      BY DEF Opens
    <3>2. ~Moves
      <4>. SUFFICES ASSUME Moves PROVE FALSE
        OBVIOUS
      <4>1. PICK r \in RunId : runs'[r].head = ledger'.head
        BY DEF RoundRuns
      <4>2. runs[r].head = ledger'.head
        BY <4>1 DEF Moves, Kept, Finished
      <4>. QED
        BY <4>2 DEF Moves, RunsOf
    <3>. QED
      BY <3>1, <3>2, RunSteps
  <2>3. SameRound /\ RoundRuns' = RoundRuns
    BY <1>0, <2>2, NotesOutcome, OutcomeKept DEF Finishes
  <2>4. /\ ledger.status \in {"error", "success"} => Summary(RoundRuns)' = ledger.status
        /\ Summary(RoundRuns)' = ledger.status => Summary(RoundRuns) = ledger.status
    <3>1. ledger.status # "" /\ RoundRuns # {}
      BY <2>1, <2>3
    <3>2. ledger.status \in {"error", "success"} => ledger.status = Summary(RoundRuns)
      BY <1>0, <3>1 DEF RecordTrue
    <3>3. CASE Notes \/ Promotes
      BY <1>0, <3>2, <3>3, NotesOutcome
    <3>4. CASE Finishes
      <4>1. /\ Summary(RoundRuns) # "pending" => Summary(RoundRuns)' = Summary(RoundRuns)
            /\ Summary(RoundRuns)' = "pending" => Summary(RoundRuns) = "pending"
        BY <2>3, <3>1, <3>4, OutcomeKept DEF Finishes
      <4>2. ledger.status \in {"pending", "error", "success"}
        BY <1>0, <3>1 DEF CommitStatus
      <4>. QED
        BY <3>2, <4>1, <4>2
    <3>. QED
      BY <2>2, <3>3, <3>4
  <2>5. /\ ledger.status = Summary(RoundRuns) => published[ledger.head] = ledger.status
        /\ sched.pc \in {"guard", "write"} /\ sched.head = ledger.head =>
             ledger.status # Summary(RoundRuns)
    BY <1>0, <2>1, <2>3 DEF RecordTrue
  <2>6. ASSUME Summary(RoundRuns)' = ledger.status
        PROVE  published'[ledger.head] = ledger.status
    <3>1. Summary(RoundRuns) = ledger.status /\ published[ledger.head] = ledger.status
      BY <2>4, <2>5, <2>6
    <3>2. CASE SyncWrite
      <4>1. /\ sched.head # ledger.head /\ sched.head \in Heads
            /\ published' = [published EXCEPT ![sched.head] = sched.want]
        BY <1>0, <2>5, <3>1, <3>2 DEF SyncWrite, Holding
      <4>2. ledger.head \in Heads
        BY <1>0, <2>1 DEF Written, TypeOK
      <4>3. published'[ledger.head] = published[ledger.head]
        BY <1>0, <4>1, <4>2
      <4>. QED
        BY <3>1, <4>3
    <3>3. CASE ~SyncWrite
      BY <3>1, <3>3, PublishedWritten
    <3>. QED
      BY <3>2, <3>3
  <2>7. ASSUME sched'.pc \in {"guard", "write"}, sched'.head = ledger.head
        PROVE  ledger.status # Summary(RoundRuns)'
    <3>1. UNCHANGED sched \/ Publishes \/ ReadsRound
      BY <2>7, SchedSteps DEF TickStep, Halts, TakesHead, TakesRun, Launches, Launching
    <3>2. CASE UNCHANGED sched
      BY <2>4, <2>5, <2>7, <3>2
    <3>3. CASE Publishes
      <4>1. sched.pc = "guard" /\ sched.head = ledger.head
        BY <2>7, <3>3 DEF Publishes, SyncGuard
      <4>. QED
        BY <2>4, <2>5, <4>1
    <3>4. CASE ReadsRound
      BY <2>4, <2>7, <3>4 DEF ReadsRound
    <3>. QED
      BY <3>1, <3>2, <3>3, <3>4
  <2>. QED
    BY <2>1, <2>3, <2>4, <2>6, <2>7 DEF SameRound
<1>. QED
  BY <1>1, <1>2

-----------------------------------------------------------------------------
(* The invariant                                                           *)

LEMMA Initially == Init => Invariant
<1>. SUFFICES ASSUME Init PROVE Invariant
  OBVIOUS
<1>1. /\ remote = [head |-> 1, open |-> TRUE, at |-> 1]
      /\ mail = {[action |-> "opened", head |-> 1, at |-> 1]}
      /\ published = [h \in Heads |-> ""]
      /\ ledger = [head |-> NoHead, round |-> 0, pending |-> FALSE, status |-> ""]
      /\ current = FALSE
      /\ seen = [h \in Heads |-> 0]
      /\ debounce = NoDebounce
      /\ runs = [r \in RunId |-> NoRow]
      /\ thread = [r \in RunId |-> "none"]
      /\ submit = [r \in RunId |-> "none"]
      /\ rerun = NoHead
      /\ sched = Idle
      /\ used = [pushes |-> 0, toggles |-> 0, reruns |-> 0, faults |-> 0]
  BY DEF Init
<1>2. NoRow \in Row /\ NoRow.status = "none" /\ NoRow.head = NoHead /\ NoRow.round = 0
  BY NoRowType DEF NoRow
<1>3. Ordered(runs)
  <2>1. \A r \in RunId : 0 <= r
    BY RunIds
  <2>. QED
    BY <1>1, <1>2, <2>1 DEF Ordered
<1>4. "none" \notin Active /\ "none" \notin Unfinished
  BY DEF Active, Unfinished
<1>5. \A r \in RunId : runs[r].status = "none"
  BY <1>1, <1>2
<1>6. InFlight
  <2>1. InStatus(Active) = {} /\ InStatus(Unfinished) = {}
    BY <1>4, <1>5 DEF InStatus
  <2>2. Cardinality(InStatus(Active)) = 0
    BY <2>1, FS_EmptySet
  <2>. QED
    BY <2>1, <2>2, Bounds DEF InFlight
<1>7. Idle \in Sched /\ Idle.pc = "list"
  <2>1. "list" \in Pc /\ "" \in CommitStatus /\ 0 \in 0 .. Len(Stages)
    BY StageList DEF Pc, CommitStatus
  <2>. QED
    BY <2>1 DEF Idle, Sched
<1>8. ledger.status = "" /\ debounce.due = FALSE /\ debounce.head = NoHead
  BY <1>1 DEF NoDebounce
<1>9. Holding /\ Waiting /\ PInv
  BY <1>1, <1>7, <1>8 DEF Holding, Waiting, PInv, SyncTrue, Written, RecordTrue
<1>10. TypeOK
  <2>1. remote \in PullRequest
    BY <1>1, Bounds DEF PullRequest
  <2>2. mail \subseteq [action : Actions \cup {"closed"}, head : Heads, at : Nat]
    <3>1. "opened" \in Actions \cup {"closed"} /\ 1 \in Heads /\ 1 \in Nat
      BY Bounds DEF Actions
    <3>2. [action |-> "opened", head |-> 1, at |-> 1]
            \in [action : Actions \cup {"closed"}, head : Heads, at : Nat]
      BY <3>1
    <3>. QED
      BY <1>1, <3>2
  <2>3. ledger \in Ledger /\ published \in [Heads -> CommitStatus]
    <3>1. "" \in CommitStatus /\ 0 \in 0 .. MaxRuns
      BY Bounds DEF CommitStatus
    <3>. QED
      BY <1>1, <3>1 DEF Ledger
  <2>4. debounce \in [head : Heads \cup {NoHead}, due : BOOLEAN]
    BY <1>1 DEF NoDebounce
  <2>5. used \in Used
    <3>1. 0 \in 0 .. MaxPushes /\ 0 \in 0 .. MaxToggles /\ 0 \in 0 .. MaxReruns /\ 0 \in 0 .. MaxFaults
      BY Bounds
    <3>. QED
      BY <1>1, <3>1 DEF Used
  <2>6. runs \in [RunId -> Row] /\ sched \in Sched
    BY <1>1, <1>3, <1>7 DEF Ordered
  <2>7. tries \in [RunId -> [refused : 0 .. MaxTries - 1, missing : 0 .. MaxTries - 1]]
    <3>1. 0 \in 0 .. MaxTries - 1
      BY ReviewAssumption
    <3>2. NoTries \in [refused : 0 .. MaxTries - 1, missing : 0 .. MaxTries - 1]
      BY <3>1 DEF NoTries
    <3>3. tries = [r \in RunId |-> NoTries]
      BY DEF Init
    <3>. QED
      BY <3>2, <3>3
  <2>. QED
    BY <1>1, <2>1, <2>2, <2>3, <2>4, <2>5, <2>6, <2>7 DEF TypeOK, PullRequest, Ledger, Used, Sched, Pc
<1>. QED
  BY <1>3, <1>6, <1>9, <1>10 DEF Invariant, RInv

LEMMA Preserved == Invariant /\ [Next]_vars => Invariant'
<1>. SUFFICES ASSUME Invariant, [Next]_vars PROVE Invariant'
  OBVIOUS
<1>. RInv /\ PInv
  BY DEF Invariant
<1>1. TypeOK' /\ Ordered(runs') /\ Holding' /\ Waiting' /\ InFlight'
  BY TypeStep, RunSteps, HoldingStep, WaitingStep, InFlightStep
<1>2. SyncTrue' /\ Written' /\ RecordTrue'
  BY SyncTrueStep, WrittenStep, RecordTrueStep
<1>. QED
  BY <1>1, <1>2 DEF Invariant, RInv, PInv

LEMMA Inductive == Spec => []Invariant
  BY Initially, Preserved, PTL DEF Spec

-----------------------------------------------------------------------------
(* Every state has its type: a tick holds on to a run that is there and a  *)
(* head that was pushed, and a round has a row for each of its runs        *)
(* (review_scheduler.go, review_rounds.go).                                *)
THEOREM ReviewTypes == Spec => []TypeOK
<1>1. Invariant => TypeOK
  BY DEF Invariant, RInv
<1>. QED
  BY <1>1, Inductive, PTL

(* A run that has not ended is one of the accepted head and its last round, *)
(* whatever pushes, reruns, deliveries out of order and ends meet, and no  *)
(* user has more runs under way than allowed (handleReviewTriggerTx,       *)
(* openRoundTx, promoteQueuedRunsTx).                                      *)
THEOREM RunsAreOfTheRound == Spec => []InFlight
<1>1. Invariant => InFlight
  BY DEF Invariant, RInv
<1>. QED
  BY <1>1, Inductive, PTL

(* What ends a run stays: a result, a time-out, a launch that fails and a  *)
(* new head may meet on a run, and the first of them counts (the           *)
(* conditional updates of review_runs).                                    *)
THEOREM EndsAreFinal == Spec => EndIsFinal
<1>1. ASSUME Invariant, [Next]_vars
      PROVE  [\A r \in RunId : runs[r].status \in Terminal =>
                runs'[r].status = runs[r].status /\ runs'[r].code = runs[r].code]_vars
  <2>0. RInv /\ Ordered(runs)
    BY <1>1 DEF Invariant, RInv
  <2>1. ASSUME NEW r \in RunId, runs[r].status \in Terminal
        PROVE  runs'[r].status = runs[r].status /\ runs'[r].code = runs[r].code
    <3>1. runs[r].status \notin Unfinished /\ runs[r].status # "none"
      BY <2>1, Statuses
    <3>2. CASE Promotes
      BY <2>0, <3>1, <3>2, PromotedRows
    <3>3. CASE ~Promotes
      <4>1. Kept(r)
        BY <1>1, <2>0, <3>1, <3>3, RunSteps DEF Notes, Finishes, Moves, Opens, Finished, Entered
      <4>. QED
        BY <3>1, <4>1, Statuses DEF Kept
    <3>. QED
      BY <3>2, <3>3
  <2>. QED
    BY <2>1
<1>. QED
  BY <1>1, Inductive, PTL DEF Spec, EndIsFinal

LEMMA ClearedSteps ==
  ASSUME TypeOK, [Next]_vars, ledger.pending, ~ledger'.pending, mail' = mail,
         sched.pc = "comment"
  PROVE  SyncFinish /\ current
<1>1. ASSUME NEW r, NEW from, NEW status, NEW code, EndIf(r, from, status, code)
      PROVE  FALSE
  BY <1>1, LedgerFields DEF EndIf, EndAndMark, MarkPending
<1>2. ASSUME NEW rs, NEW h, NEW manual, OpenRound(rs, h, manual)
      PROVE  FALSE
  <2>. DEFINE round == NextRound(rs, h, manual)
  <2>1. ledger' = [head |-> h, round |-> round, pending |-> TRUE, status |-> ""]
    BY <1>2 DEF OpenRound
  <2>. HIDE DEF round
  <2>. QED
    BY <2>1
<1>3. ASSUME NEW e \in mail, Webhook(e) PROVE FALSE
  BY <1>3 DEF Webhook
<1>4. ASSUME RerunOpens \/ DebounceOpen PROVE FALSE
  BY <1>2, <1>4 DEF RerunOpens, DebounceOpen
<1>5. ASSUME LaunchCheck \/ IssueToken \/ CreateThread \/ SyncRead \/ SyncRecord PROVE FALSE
  BY <1>5 DEF LaunchCheck, IssueToken, CreateThread, SyncRead, SyncRecord
<1>6. ASSUME NEW r \in RunId, MarkTimeout(r) \/ SubmitStale(r) \/ SubmitCommit(r) PROVE FALSE
  <2>1. \/ MarkPending \/ ledger' = ledger
        \/ \E from, status, code : EndIf(r, from, status, code)
    BY <1>6 DEF MarkTimeout, SubmitStale, SubmitCommit, EndAndMark
  <2>. QED
    BY <1>1, <2>1, LedgerFields DEF MarkPending
<1>7. SyncFinish
  BY LedgerWritten, <1>3, <1>4, <1>5, <1>6
<1>. QED
  BY <1>7 DEF SyncFinish, Cleared

(* The mark of a sync that is asked for is cleared only when the platform  *)
(* shows the outcome of the round as it is at that moment: no end that     *)
(* comes while a sync is under way is left unpublished (doSyncPR,          *)
(* syncOnePR).                                                             *)
THEOREM OutcomesArePublished == Spec => OutcomePublished
<1>1. ASSUME Invariant, [Next]_vars
      PROVE  [sched.pc = "comment" /\ ledger.pending /\ ~ledger'.pending /\ mail' = mail =>
                RoundRuns = {} \/ published[ledger.head] = Summary(RoundRuns)]_vars
  <2>. SUFFICES ASSUME sched.pc = "comment", ledger.pending, ~ledger'.pending, mail' = mail,
                       RoundRuns # {}
                PROVE  published[ledger.head] = Summary(RoundRuns)
    OBVIOUS
  <2>1. TypeOK /\ SyncTrue /\ Written /\ RecordTrue
    BY <1>1 DEF Invariant, RInv, PInv
  <2>2. current
    BY <1>1, <2>1, ClearedSteps
  <2>3. ledger.status = sched.want /\ sched.want = Summary(RoundRuns)
    BY <2>1, <2>2 DEF SyncTrue, Written
  <2>4. ledger.status # ""
    BY <2>3, SummaryTyped
  <2>. QED
    BY <2>1, <2>3, <2>4 DEF RecordTrue
<1>. QED
  BY <1>1, Inductive, PTL DEF Spec, OutcomePublished

-----------------------------------------------------------------------------
(* The contract of the reviews                                             *)

(* A verdict about to be published is the outcome of a round that ended.   *)
RoundOf(r) == {q \in RunId : runs[q].head = runs[r].head /\ runs[q].round = runs[r].round}
Backed ==
  sched.pc \in {"guard", "write"} /\ sched.want # "pending" =>
    \E r \in RunId : /\ runs[r].head = sched.head /\ sched.want = Summary(RoundOf(r))
                     /\ \A q \in RoundOf(r) : runs[q].status \in Terminal

(* A result comes from a run that its agent has begun.                     *)
Submitting ==
  \A r \in RunId : submit[r] # "none" => runs[r].status \in {"running"} \cup Terminal

(* An agent has a token, and a run in the hands of the launch has no agent. *)
Tokens == \A r \in RunId : thread[r] # "none" => runs[r].token # "none"
InHand ==
  /\ sched.pc \in {"check", "token", "create"} =>
       runs[sched.run].status \in {"dispatched"} \cup Terminal
  /\ sched.pc \in {"check", "token"} => runs[sched.run].token = "none"
  /\ sched.pc = "create" => thread[sched.run] = "none" /\ runs[sched.run].token # "none"

(* The head that waits for its round is the accepted one and has no runs.  *)
Awaited ==
  debounce.head # NoHead => debounce.head = ledger.head /\ RunsOf(debounce.head) = {}

Blank == \A r \in RunId : runs[r].status = "none" => runs[r].code = "" /\ runs[r].token = "none"

KInv == Invariant /\ Backed /\ Submitting /\ Tokens /\ InHand /\ Awaited /\ Blank

(* What the contract sees.                                                 *)
statuses == [r \in RunId |-> runs[r].status]
codes == [r \in RunId |-> runs[r].code]
reviewed == [r \in RunId |-> runs[r].head]
rounds == [r \in RunId |-> runs[r].round]
shown == <<ledger.head, ledger.round, ledger.pending, <<statuses, codes, reviewed, rounds>>,
           published>>
ContractStep == [Contract!Next]_shown

(* A row that turns to a status, and what becomes of a row in a step.      *)
Turned(a, b, status, code) ==
  /\ b.status = status /\ b.code = code /\ b.head = a.head /\ b.round = a.round
  /\ b.token = "none" <=> a.token = "none"
Turns(r, status, code) == Turned(runs[r], runs'[r], status, code)
Stays(r) == Turns(r, runs[r].status, runs[r].code)
Shows(r) ==
  /\ runs'[r].status = runs[r].status /\ runs'[r].code = runs[r].code
  /\ runs'[r].head = runs[r].head /\ runs'[r].round = runs[r].round
Appears(r) ==
  /\ runs[r].status = "none" /\ runs'[r].status \in {"queued", "dispatched"}
  /\ runs'[r].code = "" /\ runs'[r].token = "none"
  /\ \A q \in RunId : runs[q].round < runs'[r].round
RowMove(r) ==
  \/ Stays(r)
  \/ IssueToken /\ r = sched.run /\ Shows(r) /\ runs'[r].token # "none"
  \/ Authorized(r) /\ Turns(r, "running", runs[r].code)
  \/ runs[r].status = "queued" /\ Turns(r, "dispatched", runs[r].code)
  \/ runs[r].status \in Unfinished /\ \E s \in Terminal, c \in Code : Turns(r, s, c)
  \/ Appears(r)
RowMoves == \A r \in RunId : RowMove(r)

Only(r, status, code) ==
  Turns(r, status, code) /\ \A q \in RunId \ {r} : Stays(q)

LEMMA WrittenRow ==
  ASSUME NEW row \in Row
  PROVE  /\ \A x : /\ Turned(row, [row EXCEPT !.claim = x], row.status, row.code)
                   /\ Turned(row, [row EXCEPT !.launched = x], row.status, row.code)
                   /\ Turned(row, [row EXCEPT !.overdue = x], row.status, row.code)
                   /\ Turned(row, [row EXCEPT !.stopped = x], row.status, row.code)
                   /\ Turned(row, [row EXCEPT !.archived = x, !.overdue = FALSE],
                             row.status, row.code)
         /\ \A x : Turned(row, [row EXCEPT !.status = x], x, row.code)
         /\ Turned(row, [row EXCEPT !.status = "running", !.launched = TRUE], "running", row.code)
         /\ \A s, c : Turned(row, Ended(row, s, c), s, c)
<1>1. \A x : /\ Turned(row, [row EXCEPT !.claim = x], row.status, row.code)
             /\ Turned(row, [row EXCEPT !.launched = x], row.status, row.code)
  BY DEF Row, Turned
<1>2. \A x : /\ Turned(row, [row EXCEPT !.overdue = x], row.status, row.code)
             /\ Turned(row, [row EXCEPT !.stopped = x], row.status, row.code)
             /\ Turned(row, [row EXCEPT !.archived = x, !.overdue = FALSE], row.status, row.code)
  BY DEF Row, Turned
<1>3. \A x : Turned(row, [row EXCEPT !.status = x], x, row.code)
  BY DEF Row, Turned
<1>4. Turned(row, [row EXCEPT !.status = "running", !.launched = TRUE], "running", row.code)
  BY DEF Row, Turned
<1>5. ASSUME NEW s, NEW c PROVE Turned(row, Ended(row, s, c), s, c)
  BY DEF Row, Turned, Ended
<1>. QED
  BY <1>1, <1>2, <1>3, <1>4, <1>5

LEMMA OneTurns ==
  ASSUME Ordered(runs), NEW r \in RunId, NEW row, runs' = [runs EXCEPT ![r] = row],
         NEW status, NEW code, Turned(runs[r], row, status, code)
  PROVE  Only(r, status, code)
<1>1. \A q \in RunId : runs'[q] = IF q = r THEN row ELSE runs[q]
  BY DEF Ordered
<1>. QED
  BY <1>1 DEF Only, Turns, Stays, Turned

LEMMA SameShown ==
  ASSUME \A r \in RunId : Shows(r)
  PROVE  UNCHANGED <<statuses, codes, reviewed, rounds>>
  BY DEF Shows, statuses, codes, reviewed, rounds

LEMMA OneShown ==
  ASSUME NEW r \in RunId, NEW status, NEW code, Only(r, status, code)
  PROVE  /\ statuses' = [statuses EXCEPT ![r] = status]
         /\ codes' = [codes EXCEPT ![r] = code]
         /\ UNCHANGED <<reviewed, rounds>>
<1>1. \A q \in RunId :
        /\ runs'[q].status = IF q = r THEN status ELSE runs[q].status
        /\ runs'[q].code = IF q = r THEN code ELSE runs[q].code
        /\ runs'[q].head = runs[q].head /\ runs'[q].round = runs[q].round
  BY DEF Only, Turns, Stays, Turned
<1>2. statuses' = [statuses EXCEPT ![r] = status]
  BY <1>1 DEF statuses
<1>3. codes' = [codes EXCEPT ![r] = code]
  BY <1>1 DEF codes
<1>4. UNCHANGED <<reviewed, rounds>>
  BY <1>1 DEF reviewed, rounds
<1>. QED
  BY <1>2, <1>3, <1>4

LedgerShown == <<ledger.head, ledger.round, ledger.pending>>

LEMMA Stutters ==
  ASSUME \A r \in RunId : Shows(r), UNCHANGED <<LedgerShown, published>>
  PROVE  ContractStep
  BY SameShown DEF ContractStep, shown, LedgerShown

LEMMA Untouching ==
  ASSUME UNCHANGED <<runs, LedgerShown, published>>
  PROVE  ContractStep /\ RowMoves
<1>1. \A r \in RunId : Shows(r) /\ Stays(r)
  BY DEF Shows, Stays, Turns, Turned
<1>. QED
  BY <1>1, Stutters DEF RowMoves, RowMove

LEMMA Marked ==
  ASSUME Ordered(runs), NEW r \in RunId, NEW row,
         runs' = [runs EXCEPT ![r] = row], Turned(runs[r], row, runs[r].status, runs[r].code),
         UNCHANGED <<LedgerShown, published>>
  PROVE  ContractStep /\ RowMoves
<1>1. Only(r, runs[r].status, runs[r].code)
  BY OneTurns
<1>2. \A q \in RunId : Stays(q) /\ Shows(q)
  BY <1>1 DEF Only, Stays, Shows, Turns, Turned
<1>. QED
  BY <1>2, Stutters DEF RowMoves, RowMove

(* An agent that begins, or goes on with, its run.                         *)
LEMMA Beginning ==
  ASSUME Ordered(runs), NEW r \in RunId, Authorized(r), runs' = Authenticated(r),
         UNCHANGED <<ledger, published>>
  PROVE  ContractStep /\ RowMoves
<1>. DEFINE row == [runs[r] EXCEPT !.status = "running", !.launched = TRUE]
<1>1. runs' = [runs EXCEPT ![r] = row] /\ Turned(runs[r], row, "running", runs[r].code)
  BY WrittenRow DEF Authenticated, Ordered, Row
<1>. HIDE DEF row
<1>2. Only(r, "running", runs[r].code)
  BY <1>1, OneTurns
<1>3. RowMoves
  BY <1>2 DEF Only, RowMoves, RowMove
<1>4. CASE runs[r].status = "dispatched"
  <2>1. statuses[r] = "dispatched" /\ codes[r] = runs[r].code
    BY <1>4 DEF statuses, codes
  <2>2. /\ statuses' = [statuses EXCEPT ![r] = "running"]
        /\ UNCHANGED <<reviewed, rounds>>
        /\ codes' = codes
    <3>1. codes' = [codes EXCEPT ![r] = codes[r]]
      BY <1>2, <2>1, OneShown
    <3>2. codes' = codes
      BY <3>1 DEF codes
    <3>. QED
      BY <1>2, <3>2, OneShown
  <2>3. Contract!Begin(r)
    BY <2>1, <2>2 DEF Contract!Begin, statuses, codes, reviewed, rounds
  <2>. QED
    BY <1>3, <2>3 DEF Contract!Next, ContractStep
<1>5. CASE runs[r].status = "running"
  <2>1. \A q \in RunId : Shows(q)
    BY <1>2, <1>5 DEF Only, Stays, Turns, Turned, Shows
  <2>. QED
    BY <1>3, <2>1, Stutters DEF LedgerShown
<1>. QED
  BY <1>4, <1>5 DEF Authorized, Active

LEMMA Pended ==
  ASSUME TypeOK, MarkPending
  PROVE  ledger'.head = ledger.head /\ ledger'.round = ledger.round /\ ledger'.pending = TRUE
  BY LedgerFields DEF MarkPending

(* A run that ends, and an end that finds it ended.                        *)
LEMMA EndsRun ==
  ASSUME TypeOK, Ordered(runs), NEW r \in RunId, NEW status \in Terminal, NEW code \in Code,
         <<runs[r].status, status, code>> \in Contract!Ends,
         runs' = EndRun(r, status, code), MarkPending, UNCHANGED published
  PROVE  ContractStep /\ RowMoves
<1>. DEFINE row == Ended(runs[r], status, code)
<1>1. runs' = [runs EXCEPT ![r] = row] /\ Turned(runs[r], row, status, code)
  BY WrittenRow DEF EndRun, Ordered
<1>. HIDE DEF row
<1>2. Only(r, status, code)
  BY <1>1, OneTurns
<1>3. runs[r].status \in Unfinished
  BY DEF Contract!Ends, Contract!Active, Unfinished, Active
<1>4. RowMoves
  BY <1>2, <1>3 DEF Only, RowMoves, RowMove
<1>5. /\ statuses' = [statuses EXCEPT ![r] = status]
      /\ codes' = [codes EXCEPT ![r] = code]
      /\ UNCHANGED <<reviewed, rounds>> /\ statuses[r] = runs[r].status
  BY <1>2, OneShown DEF statuses
<1>6. Contract!End(r)
  <2>. DEFINE e == <<runs[r].status, status, code>>
  <2>1. e \in Contract!Ends /\ statuses[r] = e[1] /\ statuses' = [statuses EXCEPT ![r] = e[2]]
        /\ codes' = [codes EXCEPT ![r] = e[3]]
    BY <1>5
  <2>. QED
    BY <1>5, <2>1, Pended DEF Contract!End, statuses, codes, reviewed, rounds
<1>. QED
  BY <1>4, <1>6 DEF Contract!Next, ContractStep

LEMMA Asks ==
  ASSUME TypeOK, UNCHANGED <<runs, published>>, MarkPending
  PROVE  ContractStep /\ RowMoves
<1>1. \A r \in RunId : Shows(r) /\ Stays(r)
  BY DEF Shows, Stays, Turns, Turned
<1>2. UNCHANGED <<statuses, codes, reviewed, rounds>>
  BY <1>1, SameShown
<1>3. Contract!Ask
  BY <1>2, Pended DEF Contract!Ask, Contract!rows, statuses, codes, reviewed, rounds
<1>. QED
  BY <1>1, <1>3 DEF Contract!Next, ContractStep, RowMoves, RowMove

(* All the runs that have not ended are cancelled.                         *)
LEMMA Cancels ==
  ASSUME Ordered(runs), runs' = SupersedeRuns
  PROVE  Contract!Supersede /\ RowMoves
<1>1. ASSUME NEW r \in RunId
      PROVE  /\ runs[r].status \in Unfinished => Turns(r, "cancelled", "superseded")
             /\ runs[r].status \notin Unfinished => Stays(r)
  <2>1. runs[r] \in Row /\ "cancelled" \in Terminal /\ "superseded" \in Code
    BY DEF Ordered, Terminal, Code
  <2>2. runs'[r] = IF runs[r].status \in Unfinished
                   THEN Ended(runs[r], "cancelled", "superseded") ELSE runs[r]
    BY DEF SupersedeRuns
  <2>. QED
    BY <2>1, <2>2, WrittenRow DEF Turns, Stays, Turned
<1>2. Contract!Unfinished = Unfinished
  BY DEF Contract!Unfinished, Contract!Active, Unfinished, Active
<1>3. Contract!Supersede
  <2>1. statuses' = [r \in RunId |-> IF statuses[r] \in Unfinished THEN "cancelled" ELSE statuses[r]]
    BY <1>1 DEF statuses, Turns, Stays, Turned
  <2>2. codes' = [r \in RunId |-> IF statuses[r] \in Unfinished THEN "superseded" ELSE codes[r]]
    BY <1>1 DEF statuses, codes, Turns, Stays, Turned
  <2>3. UNCHANGED <<reviewed, rounds>>
    BY <1>1 DEF reviewed, rounds, Turns, Stays, Turned
  <2>. QED
    BY <1>2, <2>1, <2>2, <2>3
    DEF Contract!Supersede, Contract!Left, Contract!LeftCode, statuses, codes, reviewed, rounds
<1>4. RowMoves
  <2>1. "cancelled" \in Terminal /\ "superseded" \in Code
    BY DEF Terminal, Code
  <2>. QED
    BY <1>1, <2>1 DEF RowMoves, RowMove
<1>. QED
  BY <1>3, <1>4

LEMMA Withdrawn ==
  ASSUME TypeOK, Ordered(runs), runs' = SupersedeRuns,
         ledger' = [ledger EXCEPT !.pending = FALSE], UNCHANGED published
  PROVE  ContractStep /\ RowMoves
<1>1. ledger'.head = ledger.head /\ ledger'.round = ledger.round /\ ledger'.pending = FALSE
  BY LedgerFields
<1>2. Contract!Withdraw
  BY <1>1, Cancels DEF Contract!Withdraw
<1>. QED
  BY <1>2, Cancels DEF Contract!Next, ContractStep

LEMMA WebhookShown ==
  ASSUME KInv, NEW e \in mail, Webhook(e)
  PROVE  ContractStep /\ RowMoves
<1>0. TypeOK /\ Ordered(runs) /\ UNCHANGED published /\ e.head \in Heads
  BY DEF KInv, Invariant, RInv, TypeOK, Webhook
<1>1. CASE HandleClosed(e)
  BY <1>0, <1>1, Withdrawn DEF HandleClosed
<1>2. CASE HandleIgnored(e)
  BY <1>0, <1>2, Untouching DEF HandleIgnored, LedgerShown
<1>3. CASE HandleAccepted(e) /\ e.head = CurrentHead
  BY <1>0, <1>3, Untouching DEF HandleAccepted, AcceptHead, LedgerShown
<1>4. CASE HandleAccepted(e) /\ e.head # CurrentHead
  <2>1. /\ runs' = SupersedeRuns
        /\ ledger' = [ledger EXCEPT !.head = e.head, !.pending = FALSE]
    BY <1>4 DEF HandleAccepted, AcceptHead
  <2>2. ledger'.head = e.head /\ ledger'.round = ledger.round /\ ledger'.pending = FALSE
    BY <1>0, <2>1, LedgerFields
  <2>3. \A r \in RunId : reviewed[r] # e.head
    BY <1>4 DEF HandleAccepted, Known, RunsOf, reviewed
  <2>4. Contract!Accept(e.head)
    BY <1>0, <2>1, <2>2, <2>3, Cancels DEF Contract!Accept, reviewed
  <2>. QED
    BY <1>0, <2>1, <2>4, Cancels DEF Contract!Next, ContractStep
<1>. QED
  BY <1>1, <1>2, <1>3, <1>4 DEF Webhook

(* A round that is opened for a head without runs, or by the user, has a   *)
(* new number and at least one run.                                        *)
LEMMA Highest ==
  ASSUME NEW rs, Ordered(rs)
  PROVE  Latest(rs) \in Nat /\ \A r \in RunId : rs[r].round <= Latest(rs)
<1>. DEFINE T == {rs[r].round : r \in RunId} \cup {0}
<1>1. T \in SUBSET Nat /\ T # {} /\ \A x \in T : x <= MaxRuns
  BY Bounds DEF Ordered, Row
<1>2. Max(T) \in T /\ \A y \in T : Max(T) >= y
  <2>. HIDE DEF T
  <2>. QED
    BY <1>1, Bounds, Greatest
<1>3. Max(T) \in Nat /\ \A r \in RunId : rs[r].round \in Nat /\ rs[r].round <= Max(T)
  <2>1. \A r \in RunId : rs[r].round \in T
    OBVIOUS
  <2>. HIDE DEF T
  <2>. QED
    BY <1>1, <1>2, <2>1
<1>. QED
  BY <1>3 DEF Latest

LEMMA NewRows ==
  ASSUME NEW rs, Ordered(rs), \E r \in RunId : rs[r].status = "none",
         NEW h \in Heads, NEW manual \in BOOLEAN, manual \/ \A r \in RunId : rs[r].head # h
  PROVE  LET round == NextRound(rs, h, manual)
         IN  /\ \A r \in RunId : rs[r].round < round
             /\ \E new \in SUBSET {r \in RunId : rs[r].status = "none"} :
                  /\ new # {}
                  /\ WithRound(rs, h, round) =
                       [r \in RunId |-> IF r \in new THEN QueuedRow(h, round) ELSE rs[r]]
<1>. DEFINE round == NextRound(rs, h, manual)
            rows == {r \in RunId : rs[r].status # "none"}
            k == Cardinality(rows)
            new == {r \in RunId : r \in (k + 1) .. (k + Combos)}
<1>1. round = Latest(rs) + 1
  <2>1. ~(~manual /\ {r \in RunId : rs[r].head = h} # {})
    OBVIOUS
  <2>. QED
    BY <2>1 DEF NextRound
<1>2. \A r \in RunId : rs[r].round \in Nat /\ rs[r].round < round
  <2>1. \A r \in RunId : rs[r].round \in Nat
    BY Bounds DEF Ordered, Row
  <2>. HIDE DEF round
  <2>. QED
    BY <1>1, <2>1, Highest
<1>3. k \in Nat /\ k < MaxRuns /\ \A r \in RunId : rs[r].status # "none" <=> r <= k
  BY FilledRows, Bounds
<1>. HIDE DEF round, k
<1>4. new # {} /\ new \in SUBSET {r \in RunId : rs[r].status = "none"}
  <2>1. k + 1 \in RunId /\ k + 1 \in (k + 1) .. (k + Combos)
    BY <1>3, Bounds DEF RunId
  <2>2. ASSUME NEW r \in new PROVE r \in RunId /\ ~(r <= k)
    <3>1. r \in RunId /\ r \in Nat /\ r \in (k + 1) .. (k + Combos)
      BY RunIds
    <3>2. k + 1 <= r
      BY <1>3, <3>1, Bounds
    <3>. QED
      BY <1>3, <3>1, <3>2
  <2>. QED
    BY <1>3, <2>1, <2>2
<1>5. WithRound(rs, h, round) = [r \in RunId |-> IF r \in new THEN QueuedRow(h, round) ELSE rs[r]]
  <2>1. ~(\E r \in rows : rs[r].head = h /\ rs[r].round = round)
    BY <1>2
  <2>2. WithRound(rs, h, round) =
          [r \in RunId |-> IF r \in (k + 1) .. (k + Combos) THEN QueuedRow(h, round) ELSE rs[r]]
    BY <2>1 DEF WithRound, QueuedRow, k
  <2>. QED
    BY <2>2
<1>. QED
  BY <1>2, <1>4, <1>5 DEF round

(* The contract counts as the reviews do.                                  *)
LEMMA SameCount == \A S : Contract!Cardinality(S) = Cardinality(S)
  BY Zenon DEF Contract!Cardinality, Cardinality

LEMMA OpenShown ==
  ASSUME KInv, NEW rs, Ordered(rs),
         rs = SupersedeRuns \/ (rs = runs /\ \A r \in RunId : runs[r].status \notin Unfinished),
         NEW h \in Heads, NEW manual \in BOOLEAN, manual \/ \A r \in RunId : rs[r].head # h,
         ledger.head \in {NoHead, h}, OpenRound(rs, h, manual),
         debounce' = NoDebounce, UNCHANGED published
  PROVE  ContractStep /\ RowMoves
<1>0. Ordered(runs) /\ Blank
  BY DEF KInv, Invariant, RInv
<1>. DEFINE round == NextRound(rs, h, manual)
            rt == WithRound(rs, h, round)
<1>1. /\ runs' = Promoted(rt) /\ Room
      /\ ledger' = [head |-> h, round |-> round, pending |-> TRUE, status |-> ""]
  BY DEF OpenRound
<1>2. ledger'.head = h /\ ledger'.round = round /\ ledger'.pending = TRUE
  <2>. HIDE DEF round
  <2>. QED
    BY <1>1
<1>3. ASSUME NEW r \in RunId
      PROVE  /\ runs[r].status \in Unfinished => Turned(runs[r], rs[r], "cancelled", "superseded")
             /\ runs[r].status \notin Unfinished => rs[r] = runs[r]
             /\ rs[r].status \notin Unfinished
             /\ rs[r].head = runs[r].head /\ rs[r].round = runs[r].round
             /\ rs[r].status = "none" <=> runs[r].status = "none"
  <2>1. CASE rs = runs /\ runs[r].status \notin Unfinished
    BY <2>1
  <2>2. CASE rs = SupersedeRuns
    <3>1. rs[r] = IF runs[r].status \in Unfinished
                  THEN Ended(runs[r], "cancelled", "superseded") ELSE runs[r]
      BY <2>2 DEF SupersedeRuns
    <3>2. Turned(runs[r], Ended(runs[r], "cancelled", "superseded"), "cancelled", "superseded")
      BY <1>0, WrittenRow DEF Ordered
    <3>3. "cancelled" \notin Unfinished /\ "none" \notin Unfinished
      BY DEF Unfinished, Active
    <3>. QED
      BY <3>1, <3>2, <3>3 DEF Turned
  <2>. QED
    BY <2>1, <2>2
<1>4. \E r \in RunId : rs[r].status = "none"
  <2>1. Cardinality(InStatus({"none"})) >= Combos
    BY <1>1 DEF Room
  <2>2. InStatus({"none"}) # {}
    <3>. SUFFICES ASSUME InStatus({"none"}) = {} PROVE FALSE
      OBVIOUS
    <3>1. Cardinality(InStatus({"none"})) = 0
      BY FS_EmptySet
    <3>. QED
      BY <2>1, <3>1, Bounds
  <2>. QED
    BY <1>3, <2>2 DEF InStatus
<1>5. PICK new \in SUBSET {r \in RunId : rs[r].status = "none"} :
        new # {} /\ rt = [r \in RunId |-> IF r \in new THEN QueuedRow(h, round) ELSE rs[r]]
  BY <1>4, NewRows
<1>6. \A r \in RunId : runs[r].round < round
  BY <1>3, <1>4, NewRows
<1>7. round \in 0 .. MaxRuns
  BY <1>4, RoundNumber
<1>8. Ordered(rt)
  BY <1>4, RoundRows
<1>9. /\ QueuedRow(h, round).status = "queued" /\ QueuedRow(h, round).head = h
      /\ QueuedRow(h, round).round = round /\ QueuedRow(h, round) \in Row
      /\ QueuedRow(h, round).code = "" /\ QueuedRow(h, round).token = "none"
  <2>1. /\ QueuedRow(h, round).status = "queued" /\ QueuedRow(h, round).head = h
        /\ QueuedRow(h, round).round = round /\ QueuedRow(h, round) \in Row
    BY <1>7, QueuedRowType
  <2>. HIDE DEF round
  <2>2. QueuedRow(h, round).code = "" /\ QueuedRow(h, round).token = "none"
    BY DEF QueuedRow, NoRow
  <2>. QED
    BY <2>1, <2>2 DEF round
<1>10. Cardinality(ActiveIn(runs')) <= MaxInflight
  <2>1. \A r \in RunId :
           \/ rs[r] = runs[r] /\ runs[r].status \notin Unfinished
           \/ /\ runs[r].status \in Unfinished /\ rs[r].status \in Terminal
              /\ rs[r].head = runs[r].head /\ rs[r].round = runs[r].round
    <3>1. "cancelled" \in Terminal
      BY DEF Terminal
    <3>. QED
      BY <1>3, <3>1 DEF Turned
  <2>. QED
    BY <2>1, Opening DEF Opens
<1>. HIDE DEF round, rt
<1>11. \A r \in RunId : \/ runs'[r] = rt[r]
                        \/ rt[r].status = "queued" /\ runs'[r] = [rt[r] EXCEPT !.status = "dispatched"]
  BY <1>1, <1>8, Promotion
<1>12. ASSUME NEW r \in new
       PROVE  /\ runs'[r].status \in {"queued", "dispatched"} /\ runs'[r].code = ""
              /\ runs'[r].token = "none" /\ runs'[r].head = h /\ runs'[r].round = round
              /\ runs[r].status = "none" /\ r \in RunId
  <2>. DEFINE row == QueuedRow(h, round)
  <2>1. rt[r] = row /\ r \in RunId /\ runs[r].status = "none"
    BY <1>3, <1>5
  <2>2. runs'[r] = row \/ runs'[r] = [row EXCEPT !.status = "dispatched"]
    BY <1>11, <2>1
  <2>3. /\ row.status = "queued" /\ row.head = h /\ row.round = round /\ row \in Row
        /\ row.code = "" /\ row.token = "none"
    BY <1>9
  <2>. HIDE DEF row
  <2>4. Turned(row, [row EXCEPT !.status = "dispatched"], "dispatched", row.code)
    BY <2>3, WrittenRow
  <2>. QED
    BY <2>1, <2>2, <2>3, <2>4 DEF Turned
<1>13. ASSUME NEW r \in RunId, r \notin new
       PROVE  runs'[r] = rs[r]
  <2>1. rt[r] = rs[r]
    BY <1>5, <1>13
  <2>2. rt[r].status # "queued"
    BY <1>3, <2>1 DEF Unfinished
  <2>. QED
    BY Zenon, <1>11, <2>1, <2>2
<1>14. RowMoves
  <2>1. ASSUME NEW r \in new PROVE Appears(r)
    BY <1>6, <1>12 DEF Appears
  <2>2. ASSUME NEW r \in RunId, r \notin new PROVE RowMove(r)
    <3>1. "cancelled" \in Terminal /\ "superseded" \in Code
      BY DEF Terminal, Code
    <3>2. CASE runs[r].status \in Unfinished
      BY <1>3, <1>13, <2>2, <3>1, <3>2 DEF RowMove, Turns
    <3>3. CASE runs[r].status \notin Unfinished
      BY <1>3, <1>13, <2>2, <3>3 DEF RowMove, Stays, Turns, Turned
    <3>. QED
      BY <3>2, <3>3
  <2>. QED
    BY <2>1, <2>2 DEF RowMoves, RowMove
<1>15. Contract!Open(h)
  <2>. DEFINE first == {r \in new : runs'[r].status = "dispatched"}
  <2>1. Contract!Unfinished = Unfinished
    BY DEF Contract!Unfinished, Contract!Active, Unfinished, Active
  <2>2. new \in SUBSET {r \in RunId : statuses[r] = "none"} /\ first \in SUBSET new
    BY <1>12 DEF statuses
  <2>3. Contract!Cardinality(first) <= MaxInflight
    <3>1. ActiveIn(runs') = first
      <4>1. "queued" \notin Active /\ "dispatched" \in Active /\ Active \subseteq Unfinished
        BY DEF Active, Unfinished
      <4>2. ASSUME NEW r \in new PROVE runs'[r].status \in Active <=> r \in first
        BY <1>12, <4>1 DEF Active
      <4>3. ASSUME NEW r \in RunId, r \notin new PROVE runs'[r].status \notin Active
        <5>1. runs'[r].status = rs[r].status
          BY <1>13, <4>3
        <5>. QED
          BY <1>3, <4>1, <5>1
      <4>4. new \subseteq RunId
        OBVIOUS
      <4>. QED
        BY <4>2, <4>3, <4>4 DEF ActiveIn
    <3>. QED
      BY <1>10, <3>1, SameCount
  <2>4. statuses' = [r \in RunId |-> IF r \in first THEN "dispatched"
                                     ELSE IF r \in new THEN "queued" ELSE Contract!Left(r)]
    <3>1. ASSUME NEW r \in RunId
          PROVE  runs'[r].status = IF r \in first THEN "dispatched"
                                   ELSE IF r \in new THEN "queued" ELSE Contract!Left(r)
      <4>1. Contract!Left(r) = IF runs[r].status \in Unfinished THEN "cancelled" ELSE runs[r].status
        BY <2>1 DEF Contract!Left
      <4>2. CASE r \in new
        BY <1>12, <4>2
      <4>3. CASE r \notin new
        BY <1>3, <1>13, <4>1, <4>3 DEF Turned
      <4>. QED
        BY <4>2, <4>3
    <3>. QED
      BY <3>1 DEF statuses
  <2>5. codes' = [r \in RunId |-> Contract!LeftCode(r)]
    <3>1. ASSUME NEW r \in RunId
          PROVE  runs'[r].code = Contract!LeftCode(r)
      <4>1. Contract!LeftCode(r) = IF runs[r].status \in Unfinished THEN "superseded" ELSE runs[r].code
        BY <2>1 DEF Contract!LeftCode
      <4>2. CASE r \in new
        BY <1>0, <1>12, <4>1, <4>2, Statuses DEF Blank
      <4>3. CASE r \notin new
        BY <1>3, <1>13, <4>1, <4>3 DEF Turned
      <4>. QED
        BY <4>2, <4>3
    <3>. QED
      BY <3>1 DEF codes
  <2>6. /\ reviewed' = [r \in RunId |-> IF r \in new THEN h ELSE reviewed[r]]
        /\ rounds' = [r \in RunId |-> IF r \in new THEN round ELSE rounds[r]]
    <3>1. ASSUME NEW r \in RunId
          PROVE  /\ runs'[r].head = IF r \in new THEN h ELSE runs[r].head
                 /\ runs'[r].round = IF r \in new THEN round ELSE runs[r].round
      <4>1. CASE r \in new
        BY <1>12, <4>1
      <4>2. CASE r \notin new
        BY <1>3, <1>13, <4>2
      <4>. QED
        BY <4>1, <4>2
    <3>. QED
      BY <3>1 DEF reviewed, rounds
  <2>7. \A r \in RunId : rounds[r] < round
    BY <1>6 DEF rounds
  <2>. HIDE DEF first
  <2>8. \E x \in SUBSET {r \in RunId : statuses[r] = "none"} :
          /\ x # {}
          /\ \E y \in SUBSET x :
               /\ Contract!Cardinality(y) <= MaxInflight
               /\ statuses' = [r \in RunId |-> IF r \in y THEN "dispatched"
                                               ELSE IF r \in x THEN "queued" ELSE Contract!Left(r)]
          /\ codes' = [r \in RunId |-> Contract!LeftCode(r)]
          /\ reviewed' = [r \in RunId |-> IF r \in x THEN h ELSE reviewed[r]]
          /\ rounds' = [r \in RunId |-> IF r \in x THEN ledger'.round ELSE rounds[r]]
    BY <1>2, <1>5, <2>2, <2>3, <2>4, <2>5, <2>6, Zenon
  <2>9. \A r \in RunId : rounds[r] < ledger'.round
    BY <1>2, <2>7
  <2>. QED
    BY <1>2, <2>8, <2>9 DEF Contract!Open, NoHead, statuses, codes, reviewed, rounds
<1>. QED
  BY <1>14, <1>15 DEF Contract!Next, ContractStep

LEMMA RoundsShown ==
  ASSUME KInv, RerunOpens \/ DebounceOpen
  PROVE  ContractStep /\ RowMoves
<1>0. TypeOK /\ Ordered(runs) /\ Awaited /\ Holding /\ Waiting /\ UNCHANGED published
  BY DEF KInv, Invariant, RInv, RerunOpens, DebounceOpen
<1>1. CASE RerunOpens /\ CurrentHead \in {NoHead, rerun}
  <2>1. /\ rerun \in Heads /\ OpenRound(SupersedeRuns, rerun, TRUE) /\ debounce' = NoDebounce
        /\ Ordered(SupersedeRuns)
    BY <1>0, <1>1, SupersededRows DEF RerunOpens, TypeOK
  <2>2. ledger.head \in {NoHead, rerun}
    BY <1>0, <1>1 DEF CurrentHead, Awaited
  <2>. QED
    BY <1>0, <2>1, <2>2, OpenShown
<1>2. CASE DebounceOpen /\ StillDue /\ sched.pc = "open"
  <2>1. sched.head \in Heads /\ OpenRound(runs, sched.head, FALSE) /\ debounce' = NoDebounce
    BY <1>0, <1>2 DEF DebounceOpen, Holding
  <2>2. debounce.head = sched.head /\ debounce.head # NoHead
    BY <1>2, <2>1, Bounds DEF StillDue
  <2>3. ledger.head = sched.head /\ \A r \in RunId : runs[r].head # sched.head
    BY <1>0, <2>2 DEF Awaited, RunsOf
  <2>4. \A r \in RunId : runs[r].status \notin Unfinished
    BY <1>0, <2>2 DEF Waiting, InStatus
  <2>. QED
    BY <1>0, <2>1, <2>3, <2>4, OpenShown
<1>3. CASE UNCHANGED <<ledger, runs>>
  BY <1>0, <1>3, Untouching DEF LedgerShown
<1>4. CASE RerunOpens
  <2>1. CurrentHead \in {NoHead, rerun} \/ UNCHANGED <<ledger, runs>>
    BY <1>4 DEF RerunOpens
  <2>. QED
    BY <1>1, <1>3, <1>4, <2>1
<1>5. CASE DebounceOpen
  <2>1. (StillDue /\ sched.pc = "open") \/ UNCHANGED <<ledger, runs>>
    BY <1>5 DEF DebounceOpen
  <2>. QED
    BY <1>2, <1>3, <1>5, <2>1
<1>. QED
  BY <1>4, <1>5

LEMMA PromoteShown ==
  ASSUME KInv, [Next]_vars, Promote
  PROVE  ContractStep /\ RowMoves
<1>0. RInv /\ Ordered(runs) /\ runs' = Promoted(runs) /\ UNCHANGED <<ledger, published>>
  BY DEF KInv, Invariant, RInv, Promote
<1>1. ASSUME NEW r \in RunId
      PROVE  Stays(r) \/ (runs[r].status = "queued" /\ Turns(r, "dispatched", runs[r].code))
  <2>1. \/ runs'[r] = runs[r]
        \/ runs[r].status = "queued" /\ runs'[r] = [runs[r] EXCEPT !.status = "dispatched"]
    BY <1>0, Promotion
  <2>2. CASE runs'[r] = runs[r]
    BY <2>2 DEF Stays, Turns, Turned
  <2>3. CASE runs[r].status = "queued" /\ runs'[r] = [runs[r] EXCEPT !.status = "dispatched"]
    <3>1. runs[r] \in Row
      BY <1>0 DEF Ordered
    <3>2. Turned(runs[r], [runs[r] EXCEPT !.status = "dispatched"], "dispatched", runs[r].code)
      BY <3>1, WrittenRow
    <3>. QED
      BY <2>3, <3>2 DEF Turns
  <2>. QED
    BY <2>1, <2>2, <2>3
<1>2. Contract!Start
  <2>1. \A r \in RunId : statuses'[r] # statuses[r] => statuses[r] = "queued" /\ statuses'[r] = "dispatched"
    BY <1>1 DEF statuses, Stays, Turns, Turned
  <2>2. statuses' = [r \in RunId |-> statuses'[r]]
    BY DEF statuses
  <2>3. Contract!Cardinality({r \in RunId : statuses'[r] \in Contract!Active}) <= MaxInflight
    <3>1. {r \in RunId : statuses'[r] \in Contract!Active} = ActiveIn(runs')
      BY DEF statuses, ActiveIn, Contract!Active, Active
    <3>. QED
      BY <1>0, <3>1, PlacesStep, SameCount
  <2>4. UNCHANGED <<codes, reviewed, rounds>>
    BY <1>1 DEF codes, reviewed, rounds, Stays, Turns, Turned
  <2>. QED
    BY <1>0, <2>1, <2>2, <2>3, <2>4 DEF Contract!Start, statuses, codes, reviewed, rounds
<1>. QED
  BY <1>1, <1>2 DEF Contract!Next, ContractStep, RowMoves, RowMove

LEMMA EndNames ==
  /\ {"completed", "cancelled", "failed", "timed_out"} \subseteq Terminal
  /\ {"", "superseded", "dispatch_failed", "access_denied", "pr_closed", "timeout"}
       \subseteq Code
  BY DEF Terminal, Code

(* An end that is written if the run has not ended, or asks for nothing.   *)
LEMMA EndsIf ==
  ASSUME TypeOK, Ordered(runs), NEW r \in RunId, NEW status \in Terminal, NEW code \in Code,
         NEW from, EndIf(r, from, status, code), UNCHANGED published,
         runs[r].status \in from => <<runs[r].status, status, code>> \in Contract!Ends
  PROVE  ContractStep /\ RowMoves
<1>1. CASE runs[r].status \in from
  BY <1>1, EndsRun DEF EndIf, EndAndMark
<1>2. CASE runs[r].status \notin from
  BY <1>2, Untouching DEF EndIf, LedgerShown
<1>. QED
  BY <1>1, <1>2

LEMMA LaunchShown ==
  ASSUME KInv, LaunchCheck \/ IssueToken \/ CreateThread \/ ConfirmThread
  PROVE  ContractStep /\ RowMoves
<1>0. /\ TypeOK /\ Ordered(runs) /\ InHand /\ UNCHANGED published /\ sched.run \in RunId
      /\ runs[sched.run] \in Row
  BY DEF KInv, Invariant, RInv, Holding, Ordered, LaunchCheck, IssueToken, CreateThread,
     ConfirmThread
<1>1. ASSUME sched.pc \in {"check", "token", "create"}, runs[sched.run].status \in Unfinished
      PROVE  runs[sched.run].status = "dispatched"
  BY <1>0, <1>1, Statuses DEF InHand
<1>2. CASE LaunchCheck
  <2>1. \/ UNCHANGED <<runs, ledger>>
        \/ EndIf(sched.run, Unfinished, "cancelled", "pr_closed")
        \/ EndIf(sched.run, Unfinished, "failed", "dispatch_failed")
        \/ EndIf(sched.run, Unfinished, "failed", "access_denied")
    BY <1>2, LaunchWrites
  <2>2. runs[sched.run].status \in Unfinished =>
          /\ <<runs[sched.run].status, "cancelled", "pr_closed">> \in Contract!Ends
          /\ <<runs[sched.run].status, "failed", "dispatch_failed">> \in Contract!Ends
          /\ <<runs[sched.run].status, "failed", "access_denied">> \in Contract!Ends
    BY <1>1, <1>2 DEF LaunchCheck, Contract!Ends
  <2>. QED
    BY <1>0, <2>1, <2>2, EndNames, EndsIf, Untouching DEF LedgerShown
<1>3. CASE /\ IssueToken /\ UNCHANGED ledger
           /\ runs' = [runs EXCEPT ![sched.run].token = "live"]
  <2>. DEFINE row == [runs[sched.run] EXCEPT !.token = "live"]
  <2>1. runs' = [runs EXCEPT ![sched.run] = row] /\ UNCHANGED ledger
    BY <1>0, <1>3 DEF Ordered
  <2>2. /\ row.status = runs[sched.run].status /\ row.code = runs[sched.run].code
        /\ row.head = runs[sched.run].head /\ row.round = runs[sched.run].round
        /\ row.token = "live"
    BY <1>0 DEF Row
  <2>. HIDE DEF row
  <2>3. \A r \in RunId : runs'[r] = IF r = sched.run THEN row ELSE runs[r]
    BY <1>0, <2>1 DEF Ordered
  <2>4. \A r \in RunId : Shows(r) /\ (r # sched.run => Stays(r))
    BY <2>2, <2>3 DEF Shows, Stays, Turns, Turned
  <2>5. runs'[sched.run].token # "none"
    BY <1>0, <2>2, <2>3
  <2>6. RowMoves
    BY <1>3, <2>4, <2>5 DEF RowMoves, RowMove
  <2>. QED
    BY <1>0, <2>1, <2>4, <2>6, Stutters DEF LedgerShown
<1>4. CASE CreateThread
  <2>1. \/ UNCHANGED <<runs, ledger>>
        \/ EndIf(sched.run, Unfinished, "failed", "dispatch_failed")
    BY <1>4 DEF CreateThread
  <2>2. runs[sched.run].status \in Unfinished =>
          <<runs[sched.run].status, "failed", "dispatch_failed">> \in Contract!Ends
    BY <1>1, <1>4 DEF CreateThread, Contract!Ends
  <2>. QED
    BY <1>0, <2>1, <2>2, EndNames, EndsIf, Untouching DEF LedgerShown
<1>5. CASE ConfirmThread
  <2>1. runs' = [runs EXCEPT ![sched.run] = [runs[sched.run] EXCEPT !.launched = TRUE]]
        /\ UNCHANGED ledger
    BY <1>0, <1>5 DEF ConfirmThread, Ordered
  <2>. QED
    BY <1>0, <2>1, WrittenRow, Marked DEF LedgerShown
<1>6. CASE IssueToken /\ EndIf(sched.run, Unfinished, "failed", "dispatch_failed")
  <2>1. runs[sched.run].status \in Unfinished =>
          <<runs[sched.run].status, "failed", "dispatch_failed">> \in Contract!Ends
    BY <1>1, <1>6 DEF IssueToken, Contract!Ends
  <2>. QED
    BY <1>0, <1>6, <2>1, EndNames, EndsIf
<1>. QED
  BY <1>2, <1>3, <1>4, <1>5, <1>6, TokenWrites

LEMMA RunShown ==
  ASSUME KInv, NEW r \in RunId,
         \/ Claim(r) \/ MarkTimeout(r) \/ Interrupt(r) \/ Archive(r) \/ AgentReads(r)
         \/ SubmitLoad(r) \/ SubmitStale(r) \/ SubmitCommit(r) \/ ClaimAges(r)
         \/ DeadlinePasses(r)
  PROVE  ContractStep /\ RowMoves
<1>0. /\ TypeOK /\ Ordered(runs) /\ Submitting /\ runs[r] \in Row
      /\ runs \in [RunId -> Row] /\ UNCHANGED published
  BY DEF KInv, Invariant, RInv, Ordered, Claim, MarkTimeout, Interrupt, Archive, AgentReads,
     SubmitLoad, SubmitStale, SubmitCommit, ClaimAges, DeadlinePasses
<1>1. CASE Claim(r)
  <2>1. /\ UNCHANGED ledger
        /\ UNCHANGED runs \/ runs' = [runs EXCEPT ![r] = [runs[r] EXCEPT !.claim = "fresh"]]
    BY <1>0, <1>1 DEF Claim
  <2>. QED
    BY <1>0, <2>1, WrittenRow, Marked, Untouching DEF LedgerShown
<1>2. CASE Interrupt(r) \/ Archive(r)
  <2>1. UNCHANGED ledger
    BY <1>2 DEF Interrupt, Archive
  <2>2. \/ UNCHANGED runs
        \/ runs' = [runs EXCEPT ![r] = [runs[r] EXCEPT !.stopped = TRUE]]
        \/ \E x : runs' = [runs EXCEPT ![r] = [runs[r] EXCEPT !.archived = x, !.overdue = FALSE]]
    BY <1>0, <1>2, ArchiveWrites DEF Interrupt
  <2>. QED
    BY <1>0, <2>1, <2>2, WrittenRow, Marked, Untouching DEF LedgerShown
<1>3. CASE ClaimAges(r) \/ DeadlinePasses(r)
  <2>1. /\ UNCHANGED ledger
        /\ \/ runs' = [runs EXCEPT ![r] = [runs[r] EXCEPT !.claim = "old"]]
           \/ runs' = [runs EXCEPT ![r] = [runs[r] EXCEPT !.overdue = TRUE]]
    BY <1>0, <1>3 DEF ClaimAges, DeadlinePasses
  <2>. QED
    BY <1>0, <2>1, WrittenRow, Marked DEF LedgerShown
<1>4. CASE AgentReads(r) \/ SubmitLoad(r)
  BY <1>0, <1>4, Beginning DEF AgentReads, SubmitLoad
<1>5. CASE MarkTimeout(r)
  <2>1. CASE Expired(r)
    <3>1. <<runs[r].status, "timed_out", "timeout">> \in Contract!Ends
      BY <2>1 DEF Expired, Active, Contract!Ends, Contract!Active
    <3>. QED
      BY <1>0, <1>5, <2>1, <3>1, EndNames, EndsRun DEF MarkTimeout, EndAndMark
  <2>2. CASE ~Expired(r)
    BY <1>0, <1>5, <2>2, Untouching DEF MarkTimeout, LedgerShown
  <2>. QED
    BY <2>1, <2>2
<1>6. ASSUME submit[r] # "none", runs[r].status \in Active
      PROVE  /\ <<runs[r].status, "completed", "">> \in Contract!Ends
             /\ <<runs[r].status, "cancelled", "superseded">> \in Contract!Ends
             /\ <<runs[r].status, "timed_out", "timeout">> \in Contract!Ends
  <2>1. runs[r].status = "running"
    BY <1>0, <1>6, Statuses DEF Submitting
  <2>. QED
    BY <2>1 DEF Contract!Ends, Contract!Active
<1>7. CASE SubmitStale(r)
  <2>1. submit[r] # "none" /\ MarkPending
    BY <1>7 DEF SubmitStale
  <2>2. CASE runs[r].status \in Active
    BY <1>0, <1>6, <1>7, <2>1, <2>2, EndNames, EndsRun DEF SubmitStale
  <2>3. CASE runs[r].status \notin Active
    BY <1>0, <1>7, <2>1, <2>3, Asks DEF SubmitStale
  <2>. QED
    BY <2>2, <2>3
<1>8. CASE SubmitCommit(r)
  <2>1. submit[r] # "none"
    BY <1>8 DEF SubmitCommit
  <2>2. CASE Completable(r)
    <3>1. runs[r].status \in Active /\ runs' = EndRun(r, "completed", "") /\ MarkPending
      BY <1>8, <2>2 DEF SubmitCommit, Completable, EndAndMark
    <3>. QED
      BY <1>0, <1>6, <2>1, <3>1, EndNames, EndsRun
  <2>3. CASE ~Completable(r)
    <3>1. PICK from \in SUBSET Active : EndIf(r, from, "timed_out", "timeout")
      BY <1>8, <2>3 DEF SubmitCommit
    <3>2. runs[r].status \in from => <<runs[r].status, "timed_out", "timeout">> \in Contract!Ends
      BY <1>6, <2>1
    <3>. QED
      BY <1>0, <3>1, <3>2, EndNames, EndsIf
  <2>. QED
    BY <2>2, <2>3
<1>. QED
  BY <1>1, <1>2, <1>3, <1>4, <1>5, <1>7, <1>8

LEMMA SyncReadShown ==
  ASSUME KInv, SyncRead
  PROVE  ContractStep /\ RowMoves
<1>0. TypeOK /\ Ordered(runs) /\ UNCHANGED published
  BY DEF KInv, Invariant, RInv, SyncRead
<1>1. \/ UNCHANGED <<runs, ledger>>
      \/ runs' = SupersedeRuns /\ ledger' = [ledger EXCEPT !.pending = FALSE]
  BY DEF SyncRead
<1>. QED
  BY <1>0, <1>1, Withdrawn, Untouching DEF LedgerShown

LEMMA OutcomeFilled ==
  ASSUME Ordered(runs), NEW S \in SUBSET RunId, \A r \in S : runs[r].head # NoHead
  PROVE  Contract!Outcome(S) = Summary(S)
<1>1. ASSUME NEW r \in S
      PROVE  /\ statuses[r] = runs[r].status
             /\ runs[r].status \in Contract!Unfinished <=> runs[r].status \notin Terminal
  <2>1. runs[r].status \in Unfinished \cup Terminal
    BY RowFields DEF Ordered
  <2>2. Contract!Unfinished = Unfinished
    BY DEF Contract!Unfinished, Contract!Active, Unfinished, Active
  <2>. QED
    BY <2>1, <2>2, Statuses DEF statuses
<1>. QED
  BY <1>1 DEF Contract!Outcome, Summary, statuses

LEMMA RoundFilled ==
  ASSUME Ordered(runs), NEW h, h # NoHead, NEW n
  PROVE  Contract!Outcome(Contract!Round(h, n)) =
           Summary({r \in RunId : runs[r].head = h /\ runs[r].round = n})
<1>. DEFINE S == {r \in RunId : runs[r].head = h /\ runs[r].round = n}
<1>1. Contract!Round(h, n) = S
  BY DEF Contract!Round
<1>2. S \in SUBSET RunId /\ \A r \in S : runs[r].head # NoHead
  OBVIOUS
<1>. HIDE DEF S
<1>3. Contract!Outcome(S) = Summary(S)
  BY <1>2, OutcomeFilled
<1>. QED
  BY <1>1, <1>3 DEF S

(* What the sync writes, and what it leaves as settled.                    *)
LEMMA WriteShown ==
  ASSUME KInv, SyncWrite
  PROVE  ContractStep /\ RowMoves
<1>0. /\ Ordered(runs) /\ sched.head \in Heads /\ Backed /\ sched.pc = "write"
      /\ published' = [published EXCEPT ![sched.head] = sched.want]
      /\ UNCHANGED <<runs, ledger>>
  BY DEF KInv, Invariant, RInv, Holding, SyncWrite
<1>1. \A r \in RunId : Shows(r) /\ Stays(r)
  BY <1>0 DEF Shows, Stays, Turns, Turned
<1>2. UNCHANGED <<statuses, codes, reviewed, rounds>>
  BY <1>1, SameShown
<1>3. CASE sched.want = "pending"
  <2>1. Contract!Publish(sched.head)
    BY <1>0, <1>2, <1>3 DEF Contract!Publish, Contract!rows, statuses, codes, reviewed, rounds
  <2>. QED
    BY <1>0, <1>1, <2>1 DEF Contract!Next, ContractStep, RowMoves, RowMove
<1>4. CASE sched.want # "pending"
  <2>1. PICK r \in RunId :
          /\ runs[r].head = sched.head
          /\ sched.want = Summary({q \in RunId : runs[q].head = runs[r].head
                                                 /\ runs[q].round = runs[r].round})
    BY <1>0, <1>4 DEF Backed, RoundOf
  <2>2. reviewed[r] = sched.head /\ rounds[r] = runs[r].round
    BY <2>1 DEF reviewed, rounds
  <2>3. sched.want = Contract!Outcome(Contract!Round(sched.head, rounds[r]))
    BY <1>0, <2>1, <2>2, Bounds, RoundFilled
  <2>4. Contract!Publish(sched.head)
    BY <1>0, <1>2, <2>2, <2>3
    DEF Contract!Publish, Contract!rows, statuses, codes, reviewed, rounds
  <2>. QED
    BY <1>0, <1>1, <2>4 DEF Contract!Next, ContractStep, RowMoves, RowMove
<1>. QED
  BY <1>3, <1>4

LEMMA SettleShown ==
  ASSUME KInv, SyncRecord \/ SyncFinish
  PROVE  ContractStep /\ RowMoves
<1>0. TypeOK /\ Ordered(runs) /\ PInv /\ Holding /\ UNCHANGED <<runs, published>>
  BY DEF KInv, Invariant, RInv, SyncRecord, SyncFinish
<1>1. \A r \in RunId : Shows(r) /\ Stays(r)
  BY <1>0 DEF Shows, Stays, Turns, Turned
<1>2. RowMoves
  BY <1>1 DEF RowMoves, RowMove
<1>3. SameRound
  BY <1>0, SyncRounds
<1>4. CASE ledger'.pending = ledger.pending
  BY <1>0, <1>1, <1>2, <1>3, <1>4, Stutters DEF LedgerShown, SameRound
<1>5. CASE ledger'.pending # ledger.pending
  <2>1. /\ current /\ sched.pc = "comment" /\ ledger.pending = TRUE
        /\ ledger'.pending = FALSE
    <3>1. \/ ledger' = ledger
          \/ ledger' = [ledger EXCEPT !.status = sched.want]
          \/ current /\ sched.pc = "comment" /\ ledger' = [ledger EXCEPT !.pending = FALSE]
      BY DEF SyncRecord, SyncFinish, Cleared
    <3>2. sched.want \in CommitStatus /\ ledger.pending \in BOOLEAN
      BY <1>0 DEF TypeOK
    <3>3. ledger' # [ledger EXCEPT !.status = sched.want]
      BY <1>0, <1>5, <3>2, LedgerFields
    <3>4. [ledger EXCEPT !.pending = FALSE].pending = FALSE
      BY <1>0, LedgerFields
    <3>. QED
      BY <1>5, <3>1, <3>2, <3>3, <3>4
  <2>2. ledger.head \in Heads /\ ledger.head # NoHead
    BY <1>0, <2>1, Bounds DEF PInv, SyncTrue, Holding
  <2>3. Contract!Round(ledger.head, ledger.round) = RoundRuns
    BY DEF Contract!Round, RoundRuns
  <2>4. Contract!Outcome(Contract!Round(ledger.head, ledger.round)) = Summary(RoundRuns)
    <3>1. RoundRuns \in SUBSET RunId /\ \A r \in RoundRuns : runs[r].head # NoHead
      BY <2>2 DEF RoundRuns
    <3>2. Contract!Outcome(RoundRuns) = Summary(RoundRuns)
      BY <1>0, <3>1, OutcomeFilled
    <3>. QED
      BY <2>3, <3>2
  <2>5. RoundRuns = {} \/ published[ledger.head] = Summary(RoundRuns)
    <3>1. ledger.status = sched.want /\ sched.want = Summary(RoundRuns)
      BY <1>0, <2>1 DEF PInv, SyncTrue, Written
    <3>2. ledger.status # ""
      BY <3>1, SummaryTyped
    <3>. QED
      BY <1>0, <3>1, <3>2 DEF PInv, RecordTrue
  <2>6. UNCHANGED <<statuses, codes, reviewed, rounds>>
    BY <1>1, SameShown
  <2>7. Contract!Settle
    BY <1>0, <1>3, <2>1, <2>3, <2>4, <2>5, <2>6
    DEF Contract!Settle, Contract!rows, SameRound, statuses, codes, reviewed, rounds
  <2>. QED
    BY <1>2, <2>7 DEF Contract!Next, ContractStep
<1>. QED
  BY <1>4, <1>5

LEMMA ContractSteps ==
  ASSUME KInv, [Next]_vars
  PROVE  ContractStep /\ RowMoves
<1>1. CASE UNCHANGED <<runs, ledger, published>>
  BY <1>1, Untouching DEF LedgerShown
<1>2. CASE \E e \in mail : Webhook(e)
  BY <1>2, WebhookShown
<1>3. CASE RerunOpens \/ DebounceOpen
  BY <1>3, RoundsShown
<1>4. CASE Promote
  BY <1>4, PromoteShown
<1>5. CASE LaunchCheck \/ IssueToken \/ CreateThread \/ ConfirmThread
  BY <1>5, LaunchShown
<1>6. CASE SyncRead
  BY <1>6, SyncReadShown
<1>7. CASE SyncWrite
  BY <1>7, WriteShown
<1>8. CASE SyncRecord \/ SyncFinish
  BY <1>8, SettleShown
<1>9. CASE \E r \in RunId :
             \/ Claim(r) \/ MarkTimeout(r) \/ Interrupt(r) \/ Archive(r) \/ AgentReads(r)
             \/ SubmitLoad(r) \/ SubmitStale(r) \/ SubmitCommit(r) \/ ClaimAges(r)
             \/ DeadlinePasses(r)
  BY <1>9, RunShown
<1>. QED
  BY Zenon, RunsWritten, LedgerWritten, PublishedWritten,
     <1>1, <1>2, <1>3, <1>4, <1>5, <1>6, <1>7, <1>8, <1>9
(* What becomes of a row, given what the contract's invariant knows.       *)
LEMMA RowGoes ==
  ASSUME KInv, RowMoves, NEW r \in RunId
  PROVE  /\ runs[r].status \in Terminal =>
              runs'[r].status = runs[r].status /\ runs'[r].code = runs[r].code
         /\ runs[r].status = "running" => runs'[r].status \in {"running"} \cup Terminal
         /\ runs[r].status = "dispatched" /\ ~Authorized(r) =>
              runs'[r].status \in {"dispatched"} \cup Terminal
         /\ runs[r].status # "none" =>
              /\ runs'[r].head = runs[r].head /\ runs'[r].round = runs[r].round
              /\ runs'[r].status # "none"
         /\ runs[r].status = "none" => Stays(r) \/ Appears(r)
         /\ runs[r].token # "none" => runs'[r].token # "none"
         /\ runs[r].token = "none" /\ ~IssueToken => runs'[r].token = "none"
<1>0. RowMove(r) /\ Blank /\ InHand
  BY DEF KInv, RowMoves
<1>1. /\ "running" \notin Terminal /\ "dispatched" \notin Terminal /\ "none" \notin Terminal
      /\ "queued" \notin Terminal /\ "queued" \notin {"dispatched", "running"}
      /\ "none" \notin Unfinished /\ \A s \in Terminal : s \notin Unfinished
      /\ Active = {"dispatched", "running"}
  BY DEF Terminal, Unfinished, Active
<1>2. CASE Stays(r)
  BY <1>1, <1>2 DEF Stays, Turns, Turned
<1>3. CASE IssueToken /\ r = sched.run /\ Shows(r) /\ runs'[r].token # "none"
  <2>1. runs[r].status \in {"dispatched"} \cup Terminal
    BY <1>0, <1>3 DEF InHand, IssueToken
  <2>. QED
    BY <1>1, <1>3, <2>1 DEF Shows
<1>4. CASE Authorized(r) /\ Turns(r, "running", runs[r].code)
  BY <1>1, <1>4 DEF Authorized, Turns, Turned
<1>5. CASE runs[r].status = "queued" /\ Turns(r, "dispatched", runs[r].code)
  BY <1>1, <1>5 DEF Turns, Turned
<1>6. CASE runs[r].status \in Unfinished /\ \E s \in Terminal, c \in Code : Turns(r, s, c)
  BY <1>1, <1>6 DEF Turns, Turned
<1>7. CASE Appears(r)
  BY <1>0, <1>1, <1>7 DEF Appears, Blank
<1>. QED
  BY <1>0, <1>2, <1>3, <1>4, <1>5, <1>6, <1>7 DEF RowMove

LEMMA BlankStep ==
  ASSUME KInv, RowMoves
  PROVE  Blank'
<1>. SUFFICES ASSUME NEW r \in RunId, runs'[r].status = "none"
              PROVE  runs'[r].code = "" /\ runs'[r].token = "none"
  BY DEF Blank
<1>1. runs[r].status = "none" /\ (Stays(r) \/ Appears(r))
  BY RowGoes
<1>2. Stays(r)
  BY <1>1 DEF Appears
<1>. QED
  BY <1>1, <1>2 DEF KInv, Blank, Stays, Turns, Turned

LEMMA SubmittingStep ==
  ASSUME KInv, [Next]_vars, RowMoves
  PROVE  Submitting'
<1>0. TypeOK /\ Ordered(runs) /\ Submitting
  BY DEF KInv, Invariant, RInv
<1>1. \A r \in RunId : submit[r] # "none" => runs'[r].status \in {"running"} \cup Terminal
  BY <1>0, RowGoes DEF Submitting
<1>2. CASE UNCHANGED submit
  BY <1>1, <1>2 DEF Submitting
<1>3. CASE Crash
  BY <1>3 DEF Crash, Submitting
<1>4. CASE \E r \in RunId : SubmitLoad(r)
  <2>1. PICK r \in RunId : SubmitLoad(r)
    BY <1>4
  <2>2. /\ submit' = [submit EXCEPT ![r] = "loaded"]
        /\ runs' = [runs EXCEPT ![r].status = "running", ![r].launched = TRUE]
    BY <2>1 DEF SubmitLoad, Authenticated
  <2>3. runs'[r].status = "running"
    BY <1>0, <2>2 DEF Ordered, Row
  <2>4. \A q \in RunId \ {r} : submit'[q] = submit[q]
    BY <1>0, <2>2 DEF TypeOK
  <2>. QED
    BY <1>1, <2>3, <2>4 DEF Submitting
<1>5. CASE \E r \in RunId : SubmitRead(r) \/ SubmitStale(r) \/ SubmitCommit(r)
  <2>1. PICK r \in RunId : SubmitRead(r) \/ SubmitStale(r) \/ SubmitCommit(r)
    BY <1>5
  <2>2. submit[r] # "none" /\ \E x : submit' = [submit EXCEPT ![r] = x]
    BY <2>1 DEF SubmitRead, SubmitStale, SubmitCommit
  <2>3. \A q \in RunId \ {r} : submit'[q] = submit[q]
    BY <1>0, <2>2 DEF TypeOK
  <2>. QED
    BY <1>1, <2>2, <2>3 DEF Submitting
<1>. QED
  BY <1>2, <1>3, <1>4, <1>5, SubmitWritten

(* A thread appears only where a run was created, and no other step makes  *)
(* one out of nothing.                                                     *)
LEMMA ThreadAppears ==
  ASSUME TypeOK, Ordered(runs), [Next]_vars, NEW r \in RunId, thread[r] = "none",
         thread'[r] # "none"
  PROVE  CreateThread /\ r = sched.run
<1>0. thread \in [RunId -> {"none", "live", "stopped", "archived"}]
  BY DEF TypeOK
<1>1. CASE CreateThread
  <2>1. thread' = thread \/ thread' = [thread EXCEPT ![sched.run] = "live"]
    BY <1>1 DEF CreateThread
  <2>. QED
    BY <1>0, <1>1, <2>1
<1>2. CASE \E q \in RunId : Interrupt(q) \/ Archive(q)
  <2>1. PICK q \in RunId : Interrupt(q) \/ Archive(q)
    BY <1>2
  <2>2. \/ UNCHANGED thread
        \/ thread' = [thread EXCEPT ![q] = IF @ = "live" THEN "stopped" ELSE @]
        \/ thread' = [thread EXCEPT ![q] = IF @ = "none" THEN @ ELSE "archived"]
    BY <2>1, ArchiveWrites DEF Interrupt, StopThread
  <2>. QED
    BY <1>0, <2>2
<1>. QED
  BY <1>1, <1>2, ThreadWritten

LEMMA TokensStep ==
  ASSUME KInv, [Next]_vars, RowMoves
  PROVE  Tokens'
<1>0. TypeOK /\ Ordered(runs) /\ Tokens /\ InHand
  BY DEF KInv, Invariant, RInv
<1>. SUFFICES ASSUME NEW r \in RunId, thread'[r] # "none"
              PROVE  runs'[r].token # "none"
  BY DEF Tokens
<1>1. CASE thread[r] # "none"
  BY <1>0, <1>1, RowGoes DEF Tokens
<1>2. CASE thread[r] = "none"
  <2>1. sched.pc = "create" /\ r = sched.run
    BY <1>0, <1>2, ThreadAppears DEF CreateThread
  <2>. QED
    BY <1>0, <2>1, RowGoes DEF InHand
<1>. QED
  BY <1>1, <1>2

LEMMA InHandStep ==
  ASSUME KInv, [Next]_vars, RowMoves
  PROVE  InHand'
<1>0. TypeOK /\ Ordered(runs) /\ Tokens /\ InHand /\ Holding /\ RInv
  BY DEF KInv, Invariant, RInv
<1>. DEFINE r == sched.run
<1>1. ASSUME sched.pc \in {"check", "token", "create"}
      PROVE  r \in RunId /\ runs'[r].status \in {"dispatched"} \cup Terminal
  <2>1. r \in RunId /\ runs[r].status \in {"dispatched"} \cup Terminal
    BY <1>0, <1>1 DEF Holding, InHand
  <2>2. ~Authorized(r)
    BY <1>0, <1>1 DEF InHand, Authorized
  <2>. QED
    BY <2>1, <2>2, RowGoes
<1>2. CASE UNCHANGED sched
  <2>1. ~IssueToken /\ ~CreateThread
    <3>1. sched.pc = "token" => sched # [sched EXCEPT !.pc = "create"] /\ sched # Back
      BY <1>0, SchedRows DEF TypeOK, Sched, Pc
    <3>2. sched.pc = "create" => sched # [sched EXCEPT !.pc = "confirm"] /\ sched # Back
      BY <1>0, SchedRows DEF TypeOK, Sched, Pc
    <3>. QED
      BY <1>2, <3>1, <3>2, TokenWrites DEF IssueToken, CreateThread, Goto
  <2>2. sched.pc \in {"check", "token"} => runs'[r].token = "none"
    BY <1>0, <1>1, <2>1, RowGoes DEF InHand
  <2>3. sched.pc = "create" => thread'[r] = "none" /\ runs'[r].token # "none"
    BY <1>0, <1>1, <2>1, RowGoes, ThreadAppears DEF InHand
  <2>. QED
    BY <1>1, <1>2, <2>2, <2>3 DEF InHand
<1>3. CASE TakesRun
  <2>1. PICK q \in RunId : Claim(q) /\ Undispatched(q) /\ sched'.pc = "check" /\ sched'.run = q
    BY <1>3 DEF TakesRun
  <2>2. runs' = [runs EXCEPT ![q].claim = "fresh"]
    BY <2>1 DEF Claim
  <2>3. runs'[q].status = "dispatched" /\ runs'[q].token = "none"
    BY <1>0, <2>1, <2>2 DEF Undispatched, Ordered, Row
  <2>. QED
    BY <2>1, <2>3 DEF InHand
<1>4. CASE Launches
  <2>1. CASE sched.pc = "check" /\ sched'.pc = "token"
    <3>1. ~IssueToken
      BY <2>1 DEF IssueToken
    <3>2. runs'[r].token = "none"
      BY <1>0, <1>1, <2>1, <3>1, RowGoes DEF InHand
    <3>. QED
      BY <1>1, <1>4, <2>1, <3>2 DEF InHand, Launches
  <2>2. CASE IssueToken /\ sched'.pc = "create"
    <3>0. sched \in Sched
      BY <1>0 DEF TypeOK, Sched, Pc
    <3>1. /\ sched.pc = "token" /\ thread' = thread
          /\ runs' = [runs EXCEPT ![r].token = "live"]
      BY <2>2, <3>0, TokenWrites, SchedRows DEF IssueToken
    <3>2. r \in RunId
      BY <1>1, <3>1
    <3>3. runs'[r].token = "live"
      BY <1>0, <3>1, <3>2 DEF Ordered, Row
    <3>4. thread'[r] = "none"
      BY <1>0, <3>1, <3>2 DEF InHand, Tokens
    <3>. QED
      BY <1>1, <1>4, <2>2, <3>1, <3>3, <3>4 DEF InHand, Launches
  <2>3. CASE sched'.pc = "confirm"
    BY <2>3 DEF InHand
  <2>. QED
    BY <1>4, <2>1, <2>2, <2>3 DEF Launches, Launching
<1>5. CASE Halts \/ TakesHead \/ Publishes \/ ReadsRound
  BY <1>5 DEF InHand, Halts, TakesHead, Publishes, ReadsRound
<1>. QED
  BY <1>0, <1>2, <1>3, <1>4, <1>5, SchedSteps DEF TickStep

LEMMA AwaitedStep ==
  ASSUME KInv, [Next]_vars
  PROVE  Awaited'
<1>0. TypeOK /\ Ordered(runs) /\ Awaited /\ RInv
  BY DEF KInv, Invariant, RInv
<1>1. ASSUME \/ debounce' = debounce \/ debounce' = NoDebounce
             \/ debounce'.head = debounce.head,
             ledger'.head = ledger.head,
             \A r \in RunId : runs'[r].head = runs[r].head
      PROVE  Awaited'
  <2>1. debounce'.head \in {debounce.head, NoHead}
    BY <1>1 DEF NoDebounce
  <2>2. RunsOf(debounce.head)' = {r \in RunId : runs[r].head = debounce'.head}
    BY <1>1 DEF RunsOf
  <2>. QED
    BY <1>0, <1>1, <2>1 DEF Awaited, RunsOf
<1>2. CASE debounce' = NoDebounce
  BY <1>2 DEF Awaited, NoDebounce
<1>3. CASE UNCHANGED <<debounce, ledger, runs>>
  BY <1>1, <1>3
<1>4. CASE \E e \in mail : Webhook(e)
  <2>1. PICK e \in mail : Webhook(e)
    BY <1>4
  <2>2. CASE HandleClosed(e) \/ HandleIgnored(e)
    BY <1>2, <1>3, <2>2 DEF HandleClosed, HandleIgnored
  <2>3. CASE HandleAccepted(e)
    <3>1. \A r \in RunId : runs[r].head # e.head
      BY <2>3 DEF HandleAccepted, Known, RunsOf
    <3>2. \A r \in RunId : runs'[r].head = runs[r].head
      BY <1>0, <2>3, SupersededRows DEF HandleAccepted, AcceptHead
    <3>3. ledger'.head = e.head
      <4>1. CASE e.head = CurrentHead
        <5>1. ledger' = ledger
          BY <2>3, <4>1 DEF HandleAccepted, AcceptHead
        <5>2. ledger.head = CurrentHead
          BY <1>0 DEF CurrentHead, Awaited
        <5>. QED
          BY <4>1, <5>1, <5>2
      <4>2. CASE e.head # CurrentHead
        <5>1. ledger' = [ledger EXCEPT !.head = e.head, !.pending = FALSE]
          BY <2>3, <4>2 DEF HandleAccepted, AcceptHead
        <5>. QED
          BY <1>0, <5>1 DEF TypeOK
      <4>. QED
        BY <4>1, <4>2
    <3>4. debounce'.head \in {e.head, NoHead}
      BY <2>3 DEF HandleAccepted, DebounceAfter, CurrentHead, NoDebounce
    <3>. QED
      BY <3>1, <3>2, <3>3, <3>4 DEF Awaited, RunsOf
  <2>. QED
    BY <2>1, <2>2, <2>3 DEF Webhook
<1>5. CASE RerunOpens
  BY <1>2, <1>3, <1>5 DEF RerunOpens
<1>6. CASE DebounceOpen
  BY <1>2, <1>3, <1>6 DEF DebounceOpen
<1>7. CASE ~ChangesRound
  <2>1. Notes \/ Promotes \/ Finishes
    BY <1>0, <1>7, SameRounds
  <2>2. ledger'.head = ledger.head
    BY <2>1 DEF Notes, Promotes, Finishes, SameRound
  <2>3. \A r \in RunId : runs'[r].head = runs[r].head
    BY <1>0, <2>1, PromotedRows DEF Notes, Finishes, Kept, Finished
  <2>4. debounce'.head = debounce.head \/ debounce' = NoDebounce
    <3>1. \/ debounce' = debounce \/ debounce' = NoDebounce
          \/ \E x \in BOOLEAN : debounce' = [debounce EXCEPT !.due = x]
      BY <1>7, DebounceWritten DEF ChangesRound, DebounceRead, DebounceFires
    <3>. QED
      BY <1>0, <3>1, DebounceFields
  <2>. QED
    BY <1>1, <1>2, <2>2, <2>3, <2>4
<1>. QED
  BY <1>4, <1>5, <1>6, <1>7 DEF ChangesRound

(* The runs of a round that has ended stay as they are, and a later round  *)
(* has another number.                                                     *)
LEMMA EndedRound ==
  ASSUME KInv, RowMoves, NEW r \in RunId, runs[r].head # NoHead,
         \A q \in RoundOf(r) : runs[q].status \in Terminal
  PROVE  /\ runs'[r].head = runs[r].head
         /\ RoundOf(r)' = RoundOf(r) /\ Summary(RoundOf(r))' = Summary(RoundOf(r))
         /\ \A q \in RoundOf(r) : runs'[q].status \in Terminal
<1>0. Ordered(runs) /\ "none" \notin Terminal
  BY DEF KInv, Invariant, RInv, Terminal
<1>1. runs'[r].head = runs[r].head /\ runs'[r].round = runs[r].round /\ runs[r].round \in Nat
  BY <1>0, RowGoes, Bounds, RowFields DEF Ordered
<1>2. ASSUME NEW q \in RunId
      PROVE  runs'[q].head = runs'[r].head /\ runs'[q].round = runs'[r].round
               <=> runs[q].head = runs[r].head /\ runs[q].round = runs[r].round
  <2>1. CASE runs[q].status # "none"
    BY <1>1, <2>1, RowGoes
  <2>2. CASE runs[q].status = "none"
    <3>1. runs[q].head # runs[r].head
      BY <1>0, <2>2 DEF Ordered
    <3>2. Stays(q) \/ Appears(q)
      BY <2>2, RowGoes
    <3>3. CASE Stays(q)
      BY <1>1, <3>1, <3>3 DEF Stays, Turns, Turned
    <3>4. CASE Appears(q)
      <4>1. runs[r].round < runs'[q].round
        BY <3>4 DEF Appears
      <4>2. \A n \in Nat : ~(n < n)
        OBVIOUS
      <4>3. runs'[q].round # runs'[r].round
        BY ZenonT(30), <1>1, <4>1, <4>2
      <4>. QED
        BY <3>1, <4>3
    <3>. QED
      BY <3>2, <3>3, <3>4
  <2>. QED
    BY <2>1, <2>2
<1>3. RoundOf(r)' = RoundOf(r)
  BY <1>2 DEF RoundOf
<1>4. \A q \in RoundOf(r) : runs'[q].status = runs[q].status
  BY RowGoes DEF RoundOf
<1>5. Summary(RoundOf(r))' = Summary(RoundOf(r))
  BY <1>3, <1>4 DEF Summary
<1>. QED
  BY <1>1, <1>3, <1>4, <1>5

LEMMA BackedStep ==
  ASSUME KInv, [Next]_vars, RowMoves
  PROVE  Backed'
<1>0. TypeOK /\ Ordered(runs) /\ RInv /\ Backed /\ Holding
  BY DEF KInv, Invariant, RInv
<1>1. ASSUME sched.pc \in {"guard", "write"}, sched'.head = sched.head, sched'.want = sched.want
      PROVE  Backed'
  <2>1. CASE sched.want = "pending"
    BY <1>1, <2>1 DEF Backed
  <2>2. CASE sched.want # "pending"
    <3>1. PICK r \in RunId : /\ runs[r].head = sched.head /\ sched.want = Summary(RoundOf(r))
                             /\ \A q \in RoundOf(r) : runs[q].status \in Terminal
      BY <1>0, <1>1, <2>2 DEF Backed
    <3>2. runs[r].head # NoHead
      BY <1>0, <1>1, <3>1, Bounds DEF Holding
    <3>3. /\ runs'[r].head = sched'.head /\ sched'.want = Summary(RoundOf(r))'
          /\ \A q \in RoundOf(r)' : runs'[q].status \in Terminal
      BY <1>1, <3>1, <3>2, EndedRound
    <3>. QED
      BY <3>3 DEF Backed
  <2>. QED
    BY <2>1, <2>2
<1>2. CASE UNCHANGED sched
  <2>1. sched.pc \notin {"guard", "write"} => Backed'
    BY <1>2 DEF Backed
  <2>. QED
    BY <1>1, <1>2, <2>1
<1>3. CASE Halts \/ TakesHead \/ TakesRun \/ Launches
  BY <1>3 DEF Backed, Halts, TakesHead, TakesRun, Launches, Launching
<1>4. CASE Publishes
  <2>1. CASE SyncGuard /\ sched'.pc = "write"
    BY <1>1, <1>4, <2>1 DEF Publishes, SyncGuard
  <2>2. CASE sched'.pc \in {"record", "comment"}
    BY <2>2 DEF Backed
  <2>. QED
    BY <1>4, <2>1, <2>2 DEF Publishes
<1>5. CASE ReadsRound
  <2>1. /\ UNCHANGED <<runs, ledger>>
        /\ sched'.head = ledger.head /\ sched'.want = Summary(RoundRuns)
    BY <1>5 DEF ReadsRound
  <2>2. CASE Summary(RoundRuns) = "pending"
    BY <2>1, <2>2 DEF Backed
  <2>3. CASE Summary(RoundRuns) # "pending"
    <3>1. RoundRuns # {} /\ \A r \in RoundRuns : runs[r].status \in Terminal
      BY <2>3 DEF Summary
    <3>2. PICK r \in RoundRuns : TRUE
      BY <3>1
    <3>3. r \in RunId /\ runs[r].head = ledger.head /\ RoundRuns = RoundOf(r)
      BY <3>2 DEF RoundRuns, RoundOf
    <3>4. RoundOf(r)' = RoundOf(r) /\ Summary(RoundOf(r))' = Summary(RoundOf(r))
      BY <2>1 DEF RoundOf, Summary
    <3>5. /\ runs'[r].head = sched'.head /\ sched'.want = Summary(RoundOf(r))'
          /\ \A q \in RoundOf(r)' : runs'[q].status \in Terminal
      BY <2>1, <3>1, <3>3, <3>4
    <3>. QED
      BY <3>3, <3>5 DEF Backed
  <2>. QED
    BY <2>2, <2>3
<1>. QED
  BY <1>0, <1>2, <1>3, <1>4, <1>5, SchedSteps DEF TickStep

(* The invariant of the contract: what the reviews publish, submit, launch *)
(* and wait for fits the rows.                                             *)
LEMMA KInvInitially == Init => KInv
<1>. SUFFICES ASSUME Init PROVE KInv
  OBVIOUS
<1>1. Invariant
  BY Initially
<1>2. /\ \A r \in RunId : runs[r] = NoRow /\ thread[r] = "none" /\ submit[r] = "none"
      /\ debounce = NoDebounce /\ sched = Idle
  BY DEF Init
<1>3. Backed /\ InHand
  BY <1>2 DEF Backed, InHand, Idle
<1>4. Submitting /\ Tokens
  BY <1>2 DEF Submitting, Tokens
<1>5. Awaited
  BY <1>2 DEF Awaited, NoDebounce
<1>6. Blank
  <2>1. NoRow.code = "" /\ NoRow.token = "none"
    BY DEF NoRow
  <2>. QED
    BY <1>2, <2>1 DEF Blank
<1>. QED
  BY <1>1, <1>3, <1>4, <1>5, <1>6 DEF KInv

LEMMA KPreserved == KInv /\ [Next]_vars => KInv'
<1>. SUFFICES ASSUME KInv, [Next]_vars PROVE KInv'
  OBVIOUS
<1>1. Invariant' /\ RowMoves
  BY Preserved, ContractSteps DEF KInv
<1>2. Backed' /\ Submitting' /\ Tokens' /\ InHand' /\ Awaited' /\ Blank'
  BY <1>1, BackedStep, SubmittingStep, TokensStep, InHandStep, AwaitedStep, BlankStep
<1>. QED
  BY <1>1, <1>2 DEF KInv

LEMMA KInductive == Spec => []KInv
  BY KInvInitially, KPreserved, PTL DEF Spec

LEMMA ContractInitially == Init => Contract!Init
<1>. SUFFICES ASSUME Init PROVE Contract!Init
  OBVIOUS
<1>1. /\ ledger.head = 0 /\ ledger.round = 0 /\ ledger.pending = FALSE
      /\ runs = [r \in RunId |-> NoRow] /\ published = [h \in Heads |-> ""]
  BY DEF Init, NoHead
<1>2. NoRow.status = "none" /\ NoRow.code = "" /\ NoRow.head = 0 /\ NoRow.round = 0
  BY DEF NoRow, NoHead
<1>. QED
  BY <1>1, <1>2 DEF Contract!Init

(* Whatever the tick, the agents, the user, the deliveries and a restart   *)
(* do between each other's steps, the rows, the ledger and the platform    *)
(* change only as the contract of the reviews allows: a run ends once, a   *)
(* result comes from a run that was begun, the runs of a round stay those  *)
(* of its head, an outcome is published only if it is the one of a round,  *)
(* and the pending mark goes only when it is shown (review_scheduler.go,   *)
(* review_rounds.go, review_webhook.go, review_sync.go).                   *)
THEOREM ReviewKeepsContract == Spec => KeepsContract
<1>1. KInv /\ [Next]_vars =>
        [Contract!Next]_<<ledger.head, ledger.round, ledger.pending,
                          <<[r \in RunId |-> runs[r].status], [r \in RunId |-> runs[r].code],
                            [r \in RunId |-> runs[r].head], [r \in RunId |-> runs[r].round]>>,
                          published>>
  BY ContractSteps DEF ContractStep, shown, statuses, codes, reviewed, rounds
<1>. QED
  BY <1>1, ContractInitially, KInductive, PTL
  DEF Spec, KeepsContract, Contract!Spec, Contract!vars, Contract!rows
=============================================================================
