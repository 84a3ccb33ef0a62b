--------------------------- MODULE ThreadWaitProofs ---------------------------
(***************************************************************************)
(* Theorems about one wait for a thread, for every filter, every length of *)
(* the time-outs, every behaviour of the thread and of the hub, and every  *)
(* kind of fault.                                                          *)
(***************************************************************************)
EXTENDS ThreadWait, TLAPS

(* An entry counts one round at most for every round of the scan, and the  *)
(* one the evaluator holds has not counted this one yet.                   *)
RoundsCounted ==
  /\ entry.by = "nobody" => entry = NoEntry
  /\ entry.ticks <= round + 1
  /\ entry.idle <= round /\ scan.e.idle <= round
  /\ scan.e.ticks <= round + 1 /\ scan.e.bad <= scan.e.ticks
  /\ scan.pc = "adopt" => round > 0 /\ entry.ticks <= 1
  /\ scan.pc = "evaluate" => scan.e.ticks <= round

(* What is written is an outcome.                                          *)
OutcomeFound == scan.pc = "write" => scan.verdict # "none"

(* The writes that were there when the wait was attached are still there.  *)
ItemsKept ==
  /\ call.items <= thread.items
  /\ entry.items <= thread.items
  /\ scan.e.items <= thread.items

(* A thread that was once seen and is not in the view any more has left the *)
(* active face; if the archive can be trusted and nothing of it is          *)
(* unaccounted for, it was deleted.  What the archive holds has left, too.  *)
Seen == Known(entry.base) \/ Known(scan.e.base)
Lost ==
  ~Known(view.shell) =>
    /\ ~Live
    /\ view.archive /\ view.left = "no" => thread.status = "gone"
Housed == view.shell.status = "archived" => ~Live
LostFromView == (Seen => Lost) /\ Housed

IInv == TypeOK /\ RoundsCounted /\ OutcomeFound
VInv == IInv /\ ItemsKept /\ LostFromView

-----------------------------------------------------------------------------
(* Entries                                                                 *)

LEMMA Bounds ==
  /\ MaxRound \in Nat /\ MaxItems \in Nat /\ MaxRuns \in Nat \ {0} /\ MaxFaults \in Nat
  /\ Timeout \in Nat /\ StartGrace \in Nat /\ IdleStable \in Nat
  BY WaitAssumption

LEMMA NullTypes ==
  /\ Absent \in Shell
  /\ NoEntry \in Entry
  /\ NoScan \in [pc : {"idle", "adopt", "evaluate", "read", "write"}, e : Entry,
                 ready : BOOLEAN, archive : BOOLEAN, verdict : Outcome \cup {"none"}]
<1>1. Absent \in Shell
  BY Bounds DEF Absent, Shell
<1>2. NoEntry \in Entry
  BY <1>1, Bounds DEF NoEntry, Entry, Round
<1>. QED
  BY <1>1, <1>2 DEF NoScan

LEMMA NullFields ==
  /\ NoEntry.by = "nobody" /\ NoEntry.base = Absent /\ NoEntry.items = 0
  /\ NoEntry.ticks = 0 /\ NoEntry.bad = 0 /\ NoEntry.idle = 0
  /\ NoScan.pc = "idle" /\ NoScan.e = NoEntry
  BY DEF NoEntry, NoScan

LEMMA ObservedType == TypeOK => Observed \in Shell
  BY NullTypes DEF TypeOK, Observed

LEMMA ShellNowType ==
  ASSUME TypeOK
  PROVE  ShellNow \in Shell /\ Known(ShellNow)
<1>1. /\ thread.status \in Status /\ thread.run \in 0 .. MaxRuns
      /\ thread.status # "absent"
  BY DEF TypeOK, Status
<1>. QED
  BY <1>1 DEF ShellNow, Shell, Known, Absent

LEMMA RegisteredType ==
  ASSUME TypeOK, NEW by \in {"attach", "adopt"}, NEW at \in Round, NEW items \in 0 .. MaxItems
  PROVE  /\ Registered(by, at, items) \in Entry
         /\ Registered(by, at, items).by = by
         /\ Registered(by, at, items).items = items
         /\ Registered(by, at, items).base = Observed
         /\ Registered(by, at, items).ticks = 1
         /\ Registered(by, at, items).bad \in 0 .. 1
         /\ Registered(by, at, items).idle = 0
         /\ Unseen(by, at, items) \in Entry
         /\ Unseen(by, at, items).by = by
         /\ Unseen(by, at, items).items = items
         /\ Unseen(by, at, items).base = Absent
         /\ Unseen(by, at, items).ticks = 0
         /\ Unseen(by, at, items).bad = 0
         /\ Unseen(by, at, items).idle = 0
<1>1. Observed \in Shell
  BY ObservedType
<1>2. /\ Active(Observed) \in BOOLEAN
      /\ 0 \in Round /\ 0 \in 0 .. MaxRound + 1 /\ 1 \in 0 .. MaxRound + 1
  BY Bounds DEF Active, Round
<1>3. /\ Registered(by, at, items) \in Entry
      /\ Registered(by, at, items).by = by
      /\ Registered(by, at, items).items = items
      /\ Registered(by, at, items).base = Observed
      /\ Registered(by, at, items).ticks = 1
      /\ Registered(by, at, items).bad \in 0 .. 1
      /\ Registered(by, at, items).idle = 0
  BY <1>1, <1>2 DEF Registered, Entry
<1>4. NoEntry \in Entry
  BY <1>2, NullTypes DEF NoEntry, Entry
<1>5. Unseen(by, at, items) \in Entry
  BY <1>4 DEF Unseen, Entry
<1>6. /\ Unseen(by, at, items).by = by /\ Unseen(by, at, items).items = items
      /\ Unseen(by, at, items).base = Absent /\ Unseen(by, at, items).ticks = 0
      /\ Unseen(by, at, items).bad = 0 /\ Unseen(by, at, items).idle = 0
  BY DEF Unseen, NoEntry
<1>. QED
  BY <1>3, <1>5, <1>6

(* What a round makes of the entry it evaluates.                           *)
Round1(e) == Rested(Sighted(Counted(e)))

LEMMA CountedType ==
  ASSUME NEW e \in Entry, e.ticks <= MaxRound, e.bad <= e.ticks
  PROVE  /\ Counted(e) \in Entry
         /\ Counted(e).by = e.by /\ Counted(e).at = e.at
         /\ Counted(e).items = e.items /\ Counted(e).base = e.base
         /\ Counted(e).ticks = e.ticks + 1 /\ Counted(e).bad <= e.ticks + 1
         /\ Counted(e).idle <= e.idle
<1>1. /\ e.ticks \in 0 .. MaxRound + 1 /\ e.bad \in 0 .. MaxRound + 1 /\ e.idle \in 0 .. MaxRound
  BY DEF Entry, Round
<1>2. /\ e.ticks + 1 \in 0 .. MaxRound + 1
      /\ e.bad + (IF Blind THEN 1 ELSE 0) \in 0 .. MaxRound + 1
      /\ e.bad + (IF Blind THEN 1 ELSE 0) <= e.ticks + 1
      /\ 0 <= e.idle /\ 0 \in 0 .. MaxRound
  BY <1>1, Bounds
<1>. DEFINE bad == e.bad + (IF Blind THEN 1 ELSE 0)
            idle == IF Known(Observed) THEN e.idle ELSE 0
<1>3. idle \in 0 .. MaxRound /\ idle <= e.idle
  BY <1>1, <1>2
<1>4. Counted(e) = [e EXCEPT !.ticks = e.ticks + 1, !.bad = bad, !.idle = idle]
  BY DEF Counted
<1>. HIDE DEF bad, idle
<1>. QED
  BY <1>2, <1>3, <1>4 DEF Entry, Round, bad

LEMMA SightedType ==
  ASSUME TypeOK, NEW e \in Entry
  PROVE  /\ Sighted(e) \in Entry
         /\ Sighted(e).by = e.by /\ Sighted(e).at = e.at
         /\ Sighted(e).items = e.items /\ Sighted(e).idle = e.idle
         /\ Sighted(e).ticks = e.ticks /\ Sighted(e).bad = e.bad
         /\ Sighted(e).base \in {e.base, Observed}
<1>1. Observed \in Shell
  BY ObservedType
<1>2. /\ Based(e) \in Entry
      /\ Based(e).by = e.by /\ Based(e).at = e.at
      /\ Based(e).items = e.items /\ Based(e).idle = e.idle
      /\ Based(e).ticks = e.ticks /\ Based(e).bad = e.bad
      /\ Based(e).base \in {e.base, Observed}
  BY <1>1 DEF Based, Entry
<1>. DEFINE b == Based(e)
            started == \/ b.started \/ Active(Observed) \/ Observed.run # b.base.run
<1>3. Sighted(e) = IF ~Known(Observed) THEN e ELSE [b EXCEPT !.started = started]
  BY <1>2 DEF Sighted, Entry
<1>4. b.started \in BOOLEAN
  BY <1>2 DEF Entry
<1>5. started \in BOOLEAN
  BY <1>4 DEF Active
<1>. HIDE DEF started, b
<1>. QED
  BY <1>2, <1>3, <1>5 DEF Entry, b

LEMMA RestedType ==
  ASSUME NEW e \in Entry, e.idle <= round, round \in Round
  PROVE  /\ Rested(e) \in Entry
         /\ Rested(e).by = e.by /\ Rested(e).at = e.at
         /\ Rested(e).items = e.items /\ Rested(e).base = e.base
         /\ Rested(e).ticks = e.ticks /\ Rested(e).bad = e.bad
         /\ Rested(e).idle <= round
<1>1. 0 \in Round /\ 0 <= round /\ round <= round
  BY Bounds DEF Round
<1>2. PICK i \in Round : i <= round /\ (Rested(e) = e \/ Rested(e) = [e EXCEPT !.idle = i])
  BY <1>1 DEF Rested
<1>. QED
  BY <1>2 DEF Entry

LEMMA RoundType ==
  ASSUME TypeOK, RoundsCounted, NEW e \in Entry,
         e.ticks <= round, e.bad <= e.ticks, e.idle <= round
  PROVE  /\ Round1(e) \in Entry
         /\ Round1(e).by = e.by /\ Round1(e).items = e.items
         /\ Round1(e).base \in {e.base, Observed}
         /\ Round1(e).ticks = e.ticks + 1 /\ Round1(e).bad <= e.ticks + 1
         /\ Round1(e).idle <= round
<1>1. round \in Round /\ round <= MaxRound /\ e.ticks <= MaxRound
  BY Bounds DEF TypeOK, Round, Entry
<1>. DEFINE c == Counted(e)
            s == Sighted(c)
<1>2. /\ c \in Entry /\ c.by = e.by /\ c.items = e.items /\ c.base = e.base
      /\ c.ticks = e.ticks + 1 /\ c.bad <= e.ticks + 1 /\ c.idle <= e.idle
  BY <1>1, CountedType
<1>3. c.idle <= round
  BY <1>1, <1>2 DEF Entry, Round
<1>. HIDE DEF c
<1>4. /\ s \in Entry /\ s.by = c.by /\ s.items = c.items /\ s.idle = c.idle
      /\ s.ticks = c.ticks /\ s.bad = c.bad /\ s.base \in {c.base, Observed}
  BY <1>2, SightedType
<1>. HIDE DEF s
<1>5. Round1(e) = Rested(s)
  BY DEF Round1, s, c
<1>. QED
  BY <1>1, <1>2, <1>3, <1>4, <1>5, RestedType

-----------------------------------------------------------------------------
(* Types                                                                   *)

ScanLocals == [pc : {"idle", "adopt", "evaluate", "read", "write"}, e : Entry,
               ready : BOOLEAN, archive : BOOLEAN, verdict : Outcome \cup {"none"}]

(* IInv, by what it is about.                                              *)
ThreadOK == thread \in [status : Status, run : 0 .. MaxRuns, items : 0 .. MaxItems]
ViewOK ==
  /\ view \in [ready : BOOLEAN, archive : BOOLEAN, shell : Shell,
               subscribed : BOOLEAN, left : Left]
  /\ view.left = "unmarked" => ~view.subscribed
  /\ view.left \in {"uncertain", "expired"} => view.subscribed
CallOK ==
  /\ call \in [status : {"none", "running", "ended"}, on : Filters, at : Round,
               items : 0 .. MaxItems, cancel : BOOLEAN, outcome : Outcome \cup {"none"}]
  /\ call.outcome = "none" <=> call.status # "ended"
EntryOK ==
  /\ entry \in Entry
  /\ entry.bad <= entry.ticks /\ entry.idle <= round /\ entry.ticks <= round + 1
  /\ entry.by = "nobody" => entry = NoEntry
ScanOK ==
  /\ scan \in ScanLocals
  /\ scan.e.bad <= scan.e.ticks /\ scan.e.idle <= round /\ scan.e.ticks <= round + 1
  /\ scan.pc \in {"evaluate", "read", "write"} => scan.e.by # "nobody"
  /\ scan.pc = "adopt" => round > 0 /\ entry.ticks <= 1
  /\ scan.pc = "evaluate" => scan.e.ticks <= round
  /\ scan.pc = "write" => scan.verdict # "none"
RestOK ==
  /\ attach \in {"no", "due"} /\ mode \in {"up", "recovery"}
  /\ round \in Round /\ faults \in 0 .. MaxFaults

LEMMA Parts == IInv <=> ThreadOK /\ ViewOK /\ CallOK /\ EntryOK /\ ScanOK /\ RestOK
<1>1. IInv => ThreadOK /\ ViewOK /\ CallOK /\ EntryOK /\ ScanOK /\ RestOK
  BY DEF IInv, TypeOK, RoundsCounted, OutcomeFound, ThreadOK, ViewOK, CallOK, EntryOK, ScanOK, RestOK, ScanLocals
<1>2. ThreadOK /\ ViewOK /\ CallOK /\ EntryOK /\ ScanOK /\ RestOK => TypeOK
  BY DEF TypeOK, ThreadOK, ViewOK, CallOK, EntryOK, ScanOK, RestOK, ScanLocals
<1>3. ThreadOK /\ ViewOK /\ CallOK /\ EntryOK /\ ScanOK /\ RestOK 
     => RoundsCounted /\ OutcomeFound
  BY DEF RoundsCounted, OutcomeFound, EntryOK, ScanOK
<1>. QED
  BY <1>1, <1>2, <1>3 DEF IInv

LEMMA PartsNext ==
  ASSUME ThreadOK', ViewOK', CallOK', EntryOK', ScanOK', RestOK'
  PROVE  IInv'
<1>1. TypeOK'
  BY DEF TypeOK, ThreadOK, ViewOK, CallOK, EntryOK, ScanOK, RestOK, ScanLocals
<1>2. RoundsCounted' /\ OutcomeFound'
  BY DEF RoundsCounted, OutcomeFound, EntryOK, ScanOK
<1>. QED
  BY <1>1, <1>2 DEF IInv

LEMMA Numbers ==
  ASSUME IInv
  PROVE  /\ round \in Nat /\ round <= MaxRound
         /\ thread.items \in Nat /\ thread.run \in Nat
         /\ \A e \in Entry : /\ e.ticks \in Nat /\ e.bad \in Nat /\ e.idle \in Nat
                             /\ e.items \in Nat
  BY Bounds DEF IInv, TypeOK, Round, Entry

LEMMA NullOK ==
  ASSUME round' \in Nat
  PROVE  /\ entry' = NoEntry => EntryOK'
         /\ scan' = NoScan => ScanOK'
<1>1. entry' = NoEntry => EntryOK'
  BY NullTypes, NullFields DEF EntryOK
<1>2. scan' = NoScan => ScanOK'
  BY NullTypes, NullFields DEF ScanOK, ScanLocals
<1>. QED
  BY <1>1, <1>2

LEMMA IInvInit == Init => IInv
<1> SUFFICES ASSUME Init PROVE IInv
  OBVIOUS
<1>1. /\ 0 \in Round /\ {0, 1} \subseteq 0 .. MaxRuns
      /\ 0 \in 0 .. MaxItems /\ 0 \in 0 .. MaxFaults
  BY Bounds DEF Round
<1>2. ThreadOK /\ thread.status \in Status /\ thread.run \in 0 .. MaxRuns
  BY <1>1 DEF Init, ThreadOK
<1>3. ViewOK
  <2>1. [status |-> thread.status, run |-> thread.run] \in Shell
    BY <1>2 DEF Shell
  <2>2. PICK ready \in BOOLEAN, subscribed \in BOOLEAN, shell \in Shell :
          view = [ready |-> ready, archive |-> TRUE, shell |-> shell,
                  subscribed |-> subscribed, left |-> "no"]
    BY <2>1, NullTypes DEF Init
  <2>. QED
    BY <2>2 DEF ViewOK, Left
<1>4. CallOK
  BY <1>1 DEF Init, CallOK
<1>5. EntryOK /\ ScanOK
  BY NullTypes, NullFields DEF Init, EntryOK, ScanOK, ScanLocals
<1>6. RestOK
  BY <1>1 DEF Init, RestOK
<1>. QED
  BY <1>2, <1>3, <1>4, <1>5, <1>6, Parts

LEMMA HubFrame == Hub => HubOnly
  BY DEF Hub, HubFollows, HubRemoves, HubRemovesProven, HubMarks, HubLoses,
     ArchiveRead, ArchiveRow, ArchiveRemoves, ArchiveLoses, GraceExpires

(* What a step of the hub may make of its view.                            *)
LEMMA HubView ==
  ASSUME ViewOK, ShellNow \in Shell, Hub
  PROVE  ViewOK'
<1>1. Row \in Shell /\ Absent \in Shell
  BY NullTypes DEF Row
<1>2. CASE HubFollows
  BY <1>2 DEF HubFollows, ViewOK
<1>3. CASE HubRemoves
  <2>1. PICK shell \in Shell :
          view' = [view EXCEPT !.ready = TRUE, !.shell = shell,
                     !.left = IF view.subscribed THEN "uncertain" ELSE "unmarked"]
    BY <1>1, <1>3 DEF HubRemoves
  <2>. QED
    BY <2>1 DEF ViewOK, Left
<1>4. CASE HubRemovesProven \/ HubLoses
  BY <1>4 DEF HubRemovesProven, HubLoses, ViewOK
<1>5. CASE HubMarks \/ GraceExpires
  BY <1>5 DEF HubMarks, GraceExpires, ViewOK, Left
<1>6. CASE ArchiveRead
  <2>1. PICK shell \in Shell :
          view' = [view EXCEPT !.archive = TRUE, !.shell = shell,
                     !.left = IF @ \in {"uncertain", "expired"} /\ shell # Absent
                              THEN "no" ELSE @]
    BY <1>1, <1>6 DEF ArchiveRead, ViewOK
  <2>. QED
    BY <2>1 DEF ViewOK, Left
<1>7. CASE ArchiveRow \/ ArchiveRemoves \/ ArchiveLoses
  BY <1>1, <1>7 DEF ArchiveRow, ArchiveRemoves, ArchiveLoses, ViewOK, Left
<1>. QED
  BY <1>2, <1>3, <1>4, <1>5, <1>6, <1>7 DEF Hub

LEMMA IInvStep == IInv /\ [Next]_vars => IInv'
<1> SUFFICES ASSUME IInv, ThreadOK, ViewOK, CallOK, EntryOK, ScanOK, RestOK, [Next]_vars
             PROVE  ThreadOK' /\ ViewOK' /\ CallOK' /\ EntryOK' /\ ScanOK' /\ RestOK'
  BY Parts, PartsNext
<1>. DEFINE Frame == /\ UNCHANGED thread => ThreadOK'
                     /\ UNCHANGED view => ViewOK'
                     /\ UNCHANGED call => CallOK'
                     /\ UNCHANGED <<entry, round>> => EntryOK'
                     /\ UNCHANGED <<entry, scan, round>> => ScanOK'
                     /\ UNCHANGED <<attach, round, mode, faults>> => RestOK'
<1>0. Frame
  BY DEF ThreadOK, ViewOK, CallOK, EntryOK, ScanOK, RestOK
<1>. HIDE DEF Frame
<1>1. CASE UNCHANGED vars
  BY <1>0, <1>1 DEF Frame, vars
<1>2. CASE Thread
  <2>1. /\ thread.run + 1 \in Nat /\ thread.items + 1 \in Nat
        /\ thread.run < MaxRuns => thread.run + 1 \in 0 .. MaxRuns
        /\ thread.items < MaxItems => thread.items + 1 \in 0 .. MaxItems
    BY Numbers, Bounds
  <2>2. ThreadOK'
    <3>1. CASE RunBegins
      BY <2>1, <3>1 DEF RunBegins, Status, ThreadOK
    <3>2. CASE RunWorks
      BY <2>1, <3>2 DEF RunWorks, Becomes, Status, ThreadOK
    <3>3. CASE Leaves
      BY <3>3 DEF Leaves, Status, ThreadOK
    <3>. QED
      BY <1>2, <3>1, <3>2, <3>3 DEF Thread
  <2>3. UNCHANGED <<view, call, attach, entry, scan, round, mode, faults>>
    BY <1>2 DEF Thread, RunBegins, RunWorks, Leaves, ThreadOnly
  <2>. QED
    BY <1>0, <2>2, <2>3 DEF Frame
<1>3. CASE Hub
  <2>1. ShellNow \in Shell
    BY ShellNowType DEF IInv
  <2>2. ViewOK'
    BY <1>3, <2>1, HubView
  <2>3. UNCHANGED <<thread, call, attach, entry, scan, round, mode, faults>>
    BY <1>3, HubFrame DEF HubOnly
  <2>. QED
    BY <1>0, <2>2, <2>3 DEF Frame
<1>4. CASE Accept
  <2>1. CallOK'
    BY <1>4 DEF Accept, CallOK, RestOK, ThreadOK
  <2>2. RestOK'
    BY <1>4 DEF Accept, RestOK
  <2>. QED
    BY <1>0, <1>4, <2>1, <2>2 DEF Frame, Accept
<1>5. CASE Attach
  <2>1. UNCHANGED <<thread, view, call, scan, round, mode>>
    BY <1>5 DEF Attach
  <2>2. RestOK'
    BY <1>5, Bounds DEF Attach, RestOK, Fault
  <2>3. CASE entry' \in {Registered("attach", round, thread.items),
                          Unseen("attach", round, thread.items)}
    <3>1. round \in Round /\ thread.items \in 0 .. MaxItems
      BY DEF RestOK, ThreadOK
    <3>2. /\ entry' \in Entry /\ entry'.by = "attach" /\ entry'.ticks \in 0 .. 1
          /\ entry'.bad \in 0 .. entry'.ticks /\ entry'.idle = 0
      BY <2>3, <3>1, RegisteredType DEF IInv
    <3>3. EntryOK' /\ ScanOK'
      BY <2>1, <3>2, Numbers DEF EntryOK, ScanOK
    <3>. QED
      BY <1>0, <2>1, <2>2, <3>3 DEF Frame
  <2>4. CASE UNCHANGED entry
    BY <1>0, <2>1, <2>2, <2>4 DEF Frame
  <2>. QED
    BY <1>5, <2>3, <2>4 DEF Attach
<1>6. CASE Cancel
  <2>1. CallOK'
    BY <1>6 DEF Cancel, CallOK
  <2>. QED
    BY <1>0, <1>6, <2>1 DEF Frame, Cancel
<1>7. CASE StartRound
  <2>1. /\ round' = round + 1 /\ round' \in Round /\ round \in Nat
        /\ UNCHANGED <<thread, view, call, attach, entry, mode, faults>>
    BY <1>7, Numbers, Bounds DEF StartRound, Round
  <2>2. entry \in Entry /\ entry.ticks \in Nat /\ entry.idle \in Nat
    BY Numbers DEF EntryOK
  <2>3. EntryOK' /\ RestOK'
    BY <2>1, <2>2 DEF EntryOK, RestOK
  <2>4. ScanOK'
    <3>1. CASE entry # NoEntry /\ Evaluates(entry)
      <4>1. scan' \in ScanLocals /\ scan'.pc = "evaluate" /\ scan'.e = entry
        BY <2>2, <3>1, NullTypes DEF Evaluates, ScanLocals
      <4>. QED
        BY <2>1, <2>2, <3>1, <4>1 DEF EntryOK, ScanOK
    <3>2. CASE entry = NoEntry /\ scan' = [NoScan EXCEPT !.pc = "adopt"]
      <4>1. scan' \in ScanLocals /\ scan'.pc = "adopt" /\ scan'.e = NoEntry
        BY <3>2, NullTypes, NullFields DEF ScanLocals
      <4>. QED
        BY <2>1, <2>2, <3>2, <4>1, NullFields DEF ScanOK
    <3>. QED
      BY <1>7, <3>1, <3>2 DEF StartRound
  <2>. QED
    BY <1>0, <2>1, <2>3, <2>4 DEF Frame
<1>8. CASE Adopt
  <2>1. /\ UNCHANGED <<thread, view, call, attach, round, mode>>
        /\ round \in Nat /\ round > 0 /\ entry \in Entry /\ entry.ticks <= 1
    BY <1>8, Numbers DEF Adopt, ScanOnly, ScanOK, EntryOK
  <2>2. /\ entry' \in Entry /\ entry'.by # "nobody"
        /\ entry'.ticks <= 1 /\ entry'.bad <= entry'.ticks /\ entry'.idle <= round
    <3>1. CASE entry = NoEntry
      <4>1. call.at \in Round /\ call.items \in 0 .. MaxItems
        BY DEF CallOK
      <4>2. entry' \in {Registered("adopt", call.at, call.items),
                         Unseen("adopt", call.at, call.items)}
        BY <1>8, <3>1 DEF Adopt, AdoptedEntry
      <4>. QED
        BY <2>1, <4>1, <4>2, RegisteredType DEF IInv
    <3>2. CASE entry # NoEntry
      <4>1. entry' = entry /\ entry.ticks \in Nat
        BY <1>8, <2>1, <3>2, Numbers DEF Adopt, AdoptedEntry
      <4>. QED
        BY <2>1, <3>2, <4>1 DEF EntryOK
    <3>. QED
      BY <3>1, <3>2
  <2>3. scan' = [NoScan EXCEPT !.pc = "evaluate", !.e = entry']
    BY <1>8 DEF Adopt, Evaluates
  <2>4. EntryOK'
    <3>1. entry'.ticks \in Nat
      BY <2>2, Numbers
    <3>. QED
      BY <2>1, <2>2, <3>1 DEF EntryOK
  <2>5. ScanOK'
    <3>1. scan' \in ScanLocals /\ scan'.pc = "evaluate" /\ scan'.e = entry'
      BY <2>2, <2>3, NullTypes DEF ScanLocals
    <3>2. entry'.ticks \in Nat
      BY <2>2, Numbers
    <3>. QED
      BY <2>1, <2>2, <3>1, <3>2 DEF ScanOK
  <2>6. RestOK'
    BY <1>8, <2>1, Bounds DEF Adopt, Fault, RestOK
  <2>. QED
    BY <1>0, <2>1, <2>4, <2>5, <2>6 DEF Frame
<1>9. CASE EvaluateRow
  <2>1. /\ UNCHANGED <<thread, view, call, attach, round, mode>>
        /\ entry' = NoEntry /\ scan' = NoScan /\ round' \in Nat
    BY <1>9, Numbers DEF EvaluateRow, ScanOnly
  <2>2. RestOK'
    BY <1>9, <2>1, Bounds DEF EvaluateRow, Fault, RestOK
  <2>3. EntryOK' /\ ScanOK'
    BY <2>1, NullOK
  <2>. QED
    BY <1>0, <2>1, <2>2, <2>3 DEF Frame
<1>10. CASE EvaluateCancel
  <2>1. UNCHANGED <<thread, view, call, attach, entry, round, mode, faults>>
    BY <1>10 DEF EvaluateCancel, ScanOnly
  <2>2. ScanOK'
    BY <1>10, <2>1 DEF EvaluateCancel, Writes, ScanOK, ScanLocals, Outcome
  <2>. QED
    BY <1>0, <2>1, <2>2 DEF Frame
<1>11. CASE Evaluate
  <2>. DEFINE e == Round1(scan.e)
  <2>1. /\ UNCHANGED <<thread, view, call, attach, round, mode, faults>>
        /\ scan.e \in Entry /\ scan.e.by # "nobody" /\ entry \in Entry
        /\ scan.e.ticks <= round /\ scan.e.bad <= scan.e.ticks /\ scan.e.idle <= round
    BY <1>11 DEF Evaluate, ScanOnly, ScanOK, ScanLocals, EntryOK
  <2>2. /\ e \in Entry /\ e.by = scan.e.by
        /\ e.ticks = scan.e.ticks + 1 /\ e.bad <= scan.e.ticks + 1 /\ e.idle <= round
    BY <2>1, RoundType DEF IInv
  <2>3. /\ entry' = IF entry.by = e.by THEN e ELSE entry
        /\ \/ Verdict(e) # "none" /\ Writes(e, Verdict(e))
           \/ scan' = [scan EXCEPT !.pc = "read", !.e = e,
                                   !.ready = view.ready, !.archive = ArchiveTrusted]
           \/ scan' = NoScan
    BY <1>11 DEF Evaluate, Kept, Round1
  <2>4. Verdict(e) \in Outcome \cup {"none"} /\ ArchiveTrusted \in BOOLEAN
    BY DEF Verdict, Outcome, ArchiveTrusted, ViewOK
  <2>5. /\ scan.e.ticks \in Nat /\ round \in Nat
        /\ e.ticks <= round + 1 /\ e.bad <= e.ticks /\ e.ticks > 0
    BY <2>1, <2>2, Numbers
  <2>. HIDE DEF e
  <2>6. EntryOK'
    BY <2>1, <2>2, <2>3, <2>5 DEF EntryOK
  <2>7. CASE scan' = NoScan
    BY <1>0, <2>1, <2>5, <2>6, <2>7, NullOK DEF Frame
  <2>8. CASE scan' # NoScan
    <3>1. /\ scan' \in ScanLocals /\ scan'.pc \in {"read", "write"} /\ scan'.e = e
          /\ scan'.pc = "write" => scan'.verdict # "none"
      BY <2>2, <2>3, <2>4, <2>8 DEF Writes, ScanOK, ScanLocals, ViewOK
    <3>2. ScanOK'
      BY <2>1, <2>2, <2>5, <3>1 DEF ScanOK
    <3>. QED
      BY <1>0, <2>1, <2>6, <3>2 DEF Frame
  <2>. QED
    BY <2>7, <2>8
<1>12. CASE Read
  <2>1. \A ready, archive, detail : \A shell :
          Timed(scan.e, ready, archive, shell, detail) \in Outcome
    BY DEF Timed, Outcome
  <2>. "none" \notin Outcome
    BY DEF Outcome
  <2>2. PICK v \in Outcome : Writes(scan.e, v)
    BY <1>12, <2>1 DEF Read
  <2>3. UNCHANGED <<thread, view, call, attach, entry, round, mode>>
    BY <1>12 DEF Read, ScanOnly
  <2>4. RestOK'
    <3>1. UNCHANGED faults \/ Fault("peek")
      BY <1>12 DEF Read
    <3>. QED
      BY <2>3, <3>1, Bounds DEF Fault, RestOK, Read
  <2>5. ScanOK'
    BY <1>12, <2>2, <2>3 DEF Read, Writes, ScanOK, ScanLocals
  <2>. QED
    BY <1>0, <2>3, <2>4, <2>5 DEF Frame
<1>13. CASE Write
  <2>1. /\ UNCHANGED <<thread, view, attach, round, mode>> /\ scan' = NoScan
        /\ entry' \in {entry, NoEntry} /\ round' \in Nat
    BY <1>13, Numbers DEF Write, ScanOnly
  <2>2. RestOK'
    BY <1>13, <2>1, Bounds DEF Write, Fault, RestOK
  <2>3. CallOK'
    <3>1. \/ UNCHANGED call
          \/ call' = [call EXCEPT !.status = "ended", !.outcome = Final]
      BY <1>13 DEF Write
    <3>2. Final \in Outcome
      BY <1>13 DEF Final, Outcome, Write, ScanOK, ScanLocals
    <3>3. "none" \notin Outcome
      BY DEF Outcome
    <3>. QED
      BY <3>1, <3>2, <3>3 DEF CallOK
  <2>4. EntryOK' /\ ScanOK'
    BY <1>0, <2>1, NullOK DEF Frame
  <2>. QED
    BY <1>0, <2>1, <2>2, <2>3, <2>4 DEF Frame
<1>14. CASE Crash
  <2>1. /\ UNCHANGED <<thread, call, round>>
        /\ entry' = NoEntry /\ scan' = NoScan /\ round' \in Nat
    BY <1>14, Numbers DEF Crash
  <2>2. RestOK'
    BY <1>14, Bounds DEF Crash, Fault, RestOK
  <2>3. ViewOK'
    BY <1>14, NullTypes DEF Crash, ViewOK, Left
  <2>. QED
    BY <1>0, <2>1, <2>2, <2>3, NullOK DEF Frame
<1>15. CASE Recover
  <2>1. CallOK' /\ RestOK'
    BY <1>15 DEF Recover, CallOK, RestOK, Outcome
  <2>. QED
    BY <1>0, <1>15, <2>1 DEF Frame, Recover
<1>. QED
  BY <1>1, <1>2, <1>3, <1>4, <1>5, <1>6, <1>7, <1>8, <1>9, <1>10, <1>11, <1>12,
     <1>13, <1>14, <1>15 DEF Next, Scan

(* The row of the call, the view of the hub, the entry and the locals of   *)
(* the scan keep their types, an entry never counts more rounds than the   *)
(* scan has made, and a verdict is written for an entry of the registry.   *)
THEOREM WaitTypes == Spec => []TypeOK
<1>1. IInv => TypeOK
  BY DEF IInv
<1>. QED
  BY IInvInit, IInvStep, <1>1, PTL DEF Spec

-----------------------------------------------------------------------------
(* What the wait has seen of its thread                                    *)

(* Where the entries of the next state come from: they are the ones of this *)
(* state, registered or sighted in it, or dropped.                         *)
Origin(e) ==
  /\ e.base \in {Absent, entry.base, scan.e.base, Observed}
  /\ e.items \in {0, entry.items, scan.e.items, call.items, thread.items}

LEMMA Origins ==
  ASSUME IInv, [Next]_vars
  PROVE  Origin(entry') /\ Origin(scan'.e)
<1>1. Origin(entry) /\ Origin(scan.e) /\ Origin(NoEntry)
  BY NullFields DEF Origin
<1>2. scan \in ScanLocals /\ scan.e \in Entry
  BY Parts DEF ScanOK, ScanLocals
<1>3. CASE UNCHANGED <<entry, scan>>
  BY <1>1, <1>3
<1>4. CASE Attach
  <2>1. round \in Round /\ thread.items \in 0 .. MaxItems
    BY Parts DEF RestOK, ThreadOK
  <2>2. /\ Origin(Registered("attach", round, thread.items))
        /\ Origin(Unseen("attach", round, thread.items))
    BY <2>1, RegisteredType DEF Origin, IInv
  <2>. QED
    BY <1>1, <1>4, <2>2 DEF Attach
<1>5. CASE StartRound
  <2>1. scan'.e \in {entry, NoEntry} /\ entry' = entry
    BY <1>5, NullTypes, NullFields DEF StartRound, Evaluates
  <2>. QED
    BY <1>1, <2>1
<1>6. CASE Adopt
  <2>1. call.at \in Round /\ call.items \in 0 .. MaxItems
    BY Parts DEF CallOK
  <2>2. /\ Origin(Registered("adopt", call.at, call.items))
        /\ Origin(Unseen("adopt", call.at, call.items))
    BY <2>1, RegisteredType DEF Origin, IInv
  <2>3. Origin(entry')
    BY <1>1, <1>6, <2>2 DEF Adopt, AdoptedEntry
  <2>4. scan'.e = entry'
    BY <1>6, NullTypes DEF Adopt, Evaluates
  <2>. QED
    BY <2>3, <2>4
<1>7. CASE EvaluateRow
  BY <1>1, <1>7, NullFields DEF EvaluateRow
<1>8. CASE EvaluateCancel
  <2>1. entry' = entry /\ scan'.e = scan.e
    BY <1>2, <1>8 DEF EvaluateCancel, Writes, ScanLocals
  <2>. QED
    BY <1>1, <2>1
<1>9. CASE Evaluate
  <2>. DEFINE e == Round1(scan.e)
  <2>1. e.base \in {scan.e.base, Observed} /\ e.items = scan.e.items
    BY <1>9, <1>2, Parts, RoundType DEF Evaluate, ScanOK, IInv
  <2>2. Origin(e)
    BY <2>1 DEF Origin
  <2>3. /\ entry' \in {e, entry}
        /\ \/ \E v : Writes(e, v)
           \/ scan' = [scan EXCEPT !.pc = "read", !.e = e,
                                   !.ready = view.ready, !.archive = ArchiveTrusted]
           \/ scan' = NoScan
    BY <1>9 DEF Evaluate, Kept, Round1
  <2>. HIDE DEF e
  <2>4. scan'.e \in {e, NoEntry}
    BY <1>2, <2>3, NullFields DEF Writes, ScanLocals
  <2>. QED
    BY <1>1, <2>2, <2>3, <2>4
<1>10. CASE Read
  <2>1. entry' = entry /\ \E v : Writes(scan.e, v)
    BY <1>10 DEF Read
  <2>2. scan'.e = scan.e
    BY <1>2, <2>1 DEF Writes, ScanLocals
  <2>. QED
    BY <1>1, <2>1, <2>2
<1>11. CASE Write
  BY <1>1, <1>11, NullFields DEF Write
<1>12. CASE Crash
  BY <1>1, <1>12, NullFields DEF Crash
<1>13. CASE UNCHANGED vars \/ Thread \/ Hub \/ Accept \/ Cancel \/ Recover
  BY <1>3, <1>13, HubFrame DEF vars, Thread, RunBegins, RunWorks, Leaves, ThreadOnly,
     HubOnly, Accept, Cancel, Recover
<1>. QED
  BY <1>4, <1>5, <1>6, <1>7, <1>8, <1>9, <1>10, <1>11, <1>12, <1>13 DEF Next, Scan

(* The thread grows, and what has left the active face never comes back.   *)
LEMMA ThreadGrows ==
  ASSUME IInv, [Next]_vars
  PROVE  /\ thread.items <= thread'.items
         /\ ~Live => ~Live'
         /\ thread.status = "gone" => thread'.status = "gone"
<1>1. thread.items \in Nat /\ ThreadOK
  BY Numbers, Parts
<1>2. CASE UNCHANGED thread
  BY <1>1, <1>2 DEF Live
<1>3. CASE RunBegins
  BY <1>1, <1>3 DEF RunBegins, Live
<1>4. CASE RunWorks
  <2>1. thread.status \in {"running", "waiting"} /\ \E status : Becomes(status)
    BY <1>4 DEF RunWorks
  <2>2. thread'.items = thread.items + 1
    BY <1>1, <2>1 DEF Becomes, ThreadOK
  <2>. QED
    BY <1>1, <2>1, <2>2 DEF Live
<1>5. CASE Leaves
  BY <1>1, <1>5 DEF Leaves, Live, ThreadOK
<1>6. CASE UNCHANGED vars \/ Hub \/ Accept \/ Attach \/ Cancel \/ Scan \/ Crash \/ Recover
  <2>1. UNCHANGED thread
    BY <1>6, HubFrame DEF vars, HubOnly, Accept, Attach, Cancel, Scan, StartRound, Adopt,
       EvaluateRow, EvaluateCancel, Evaluate, Read, Write, ScanOnly, Crash, Recover
  <2>. QED
    BY <1>2, <2>1
<1>. QED
  BY <1>3, <1>4, <1>5, <1>6 DEF Next, Thread

LEMMA ItemsStep ==
  ASSUME IInv, IInv', ItemsKept, [Next]_vars
  PROVE  ItemsKept'
<1>1. /\ thread.items \in Nat /\ thread'.items \in Nat /\ thread.items <= thread'.items
  <2>1. ThreadOK'
    BY DEF IInv, TypeOK, ThreadOK
  <2>. QED
    BY <2>1, Numbers, ThreadGrows, Bounds DEF ThreadOK
<1>2. /\ entry.items \in Nat /\ scan.e.items \in Nat /\ call.items \in Nat
  BY Parts, Numbers DEF EntryOK, ScanOK, ScanLocals, CallOK
<1>3. \A n \in {0, entry.items, scan.e.items, call.items, thread.items} : n <= thread'.items
  BY <1>1, <1>2 DEF ItemsKept
<1>4. entry'.items <= thread'.items /\ scan'.e.items <= thread'.items
  BY <1>3, Origins DEF Origin
<1>5. call'.items \in {call.items, thread.items}
  BY Parts, HubFrame DEF CallOK, Next, vars, Thread, RunBegins, RunWorks, Leaves, ThreadOnly,
     HubOnly, Accept, Attach, Cancel, Scan, StartRound,
     Adopt, EvaluateRow, EvaluateCancel, Evaluate, Read, Write, ScanOnly, Crash, Recover
<1>. QED
  BY <1>3, <1>4, <1>5 DEF ItemsKept

(* A step of the hub that loses sight of the thread accounts for it.       *)
LEMMA ViewFacts ==
  ASSUME IInv
  PROVE  /\ view \in [ready : BOOLEAN, archive : BOOLEAN, shell : Shell,
                     subscribed : BOOLEAN, left : Left]
         /\ view.left \in {"uncertain", "expired"} => view.subscribed
         /\ ShellNow # Absent /\ ShellNow.status = thread.status
         /\ Absent.status = "absent"
         /\ Archived => ~Live /\ Row = ShellNow
         /\ ~Archived => Row = Absent
         /\ ~Live /\ ~Archived => thread.status = "gone"
  BY Parts, ShellNowType DEF ViewOK, IInv, ShellNow, Absent, Known, Archived, Live, Row

LEMMA HubHoused ==
  ASSUME IInv, Housed, Hub
  PROVE  Housed'
<1>1. UNCHANGED thread /\ (Live' <=> Live)
  BY HubFrame DEF HubOnly, Live
<1>2. view'.shell = view.shell \/ view'.shell = ShellNow \/ view'.shell = Absent
  BY ViewFacts DEF Hub, HubFollows, HubRemoves, HubRemovesProven, HubMarks, HubLoses,
     ArchiveRead, ArchiveRow, ArchiveRemoves, ArchiveLoses, GraceExpires, Row
<1>. QED
  BY <1>1, <1>2, ViewFacts DEF Housed, Live

(* A step of the hub that loses sight of the thread accounts for it.       *)
LEMMA HubLost ==
  ASSUME IInv, Housed, Lost, Hub
  PROVE  Lost'
<1>1. UNCHANGED thread /\ (Live' <=> Live)
  BY HubFrame DEF HubOnly, Live
<1>2. /\ view \in [ready : BOOLEAN, archive : BOOLEAN, shell : Shell,
                   subscribed : BOOLEAN, left : Left]
      /\ view.left \in {"uncertain", "expired"} => view.subscribed
  BY ViewFacts
<1>3. /\ ShellNow # Absent /\ ShellNow.status = thread.status
      /\ Absent.status = "absent"
      /\ Archived => ~Live /\ Row = ShellNow
      /\ ~Archived => Row = Absent
      /\ ~Live /\ ~Archived => thread.status = "gone"
  BY ViewFacts
<1>5. /\ view.shell = Absent => ~Live
      /\ view.shell = Absent /\ view.archive /\ view.left = "no" => thread.status = "gone"
      /\ view.shell.status = "archived" => ~Live
  BY DEF Lost, Housed, Known
<1>4. CopyActive \/ ~Live
  BY <1>5, <1>3 DEF CopyActive, Housed, Lost, Known
<1> SUFFICES ASSUME view'.shell = Absent
             PROVE  ~Live /\ (view'.archive /\ view'.left = "no" => thread.status = "gone")
  BY <1>1 DEF Lost, Known
<1>6. CASE HubFollows
  <2>1. \/ Live /\ view'.shell = ShellNow
        \/ /\ view'.shell = view.shell /\ view'.archive = view.archive
           /\ view'.left = view.left
    BY <1>2, <1>6 DEF HubFollows
  <2>. QED
    BY <1>3, <1>5, <2>1
<1>7. CASE HubRemoves
  <2>1. ~Live /\ view'.left # "no"
    BY <1>2, <1>7 DEF HubRemoves
  <2>. QED
    BY <2>1
<1>8. CASE HubRemovesProven
  BY <1>2, <1>3, <1>8 DEF HubRemovesProven
<1>9. CASE HubMarks \/ HubLoses \/ GraceExpires
  <2>1. /\ view'.shell = view.shell
        /\ \/ view'.archive = FALSE
           \/ view'.archive = view.archive /\ view'.left = view.left
           \/ view'.left = "expired"
    BY <1>2, <1>9 DEF HubMarks, HubLoses, GraceExpires
  <2>. QED
    BY <1>5, <2>1
<1>10. CASE ArchiveRead
  <2>1. PICK shell \in IF CopyActive THEN {view.shell}
                       ELSE {Row} \cup IF view.left = "unmarked" THEN {view.shell} ELSE {} :
          view' = [view EXCEPT !.archive = TRUE, !.shell = shell,
                     !.left = IF @ \in {"uncertain", "expired"} /\ shell # Absent
                              THEN "no" ELSE @]
    BY <1>10 DEF ArchiveRead
  <2>2. shell = Absent /\ view'.left = view.left
    BY <1>2, <2>1
  <2>3. ~CopyActive
    BY <2>1, <2>2 DEF CopyActive
  <2>4. view.left = "unmarked" \/ ~Archived
    BY <1>3, <2>1, <2>2, <2>3
  <2>. QED
    BY <1>3, <1>4, <2>2, <2>3, <2>4
<1>11. CASE ArchiveRow \/ ArchiveRemoves
  <2>1. ~CopyActive /\ (view'.archive /\ view'.left = "no" => view'.shell = ShellNow)
    BY <1>2, <1>3, <1>11 DEF ArchiveRow, ArchiveRemoves, CopyActive
  <2>. QED
    BY <1>3, <1>4, <2>1
<1>12. CASE ArchiveLoses
  <2>1. view'.archive = FALSE /\ (CopyActive => view'.shell = view.shell)
    BY <1>2, <1>12 DEF ArchiveLoses
  <2>. QED
    BY <1>4, <2>1 DEF CopyActive
<1>. QED
  BY <1>6, <1>7, <1>8, <1>9, <1>10, <1>11, <1>12 DEF Hub

LEMMA LostStep ==
  ASSUME IInv, LostFromView, [Next]_vars
  PROVE  LostFromView'
<1>1. Seen' => Seen \/ Known(Observed)
  BY Origins DEF Seen, Origin, Known
<1>2. Known(Observed) => Known(view.shell)
  BY DEF Observed, Known
<1>3. CASE Hub
  <2>1. UNCHANGED <<entry, scan>>
    BY <1>3, HubFrame DEF HubOnly
  <2>2. Seen' => Seen
    BY <2>1 DEF Seen, Known
  <2>. QED
    BY <1>3, <2>2, HubHoused, HubLost DEF LostFromView
<1>4. CASE Crash
  <2>1. entry' = NoEntry /\ scan' = NoScan
    BY <1>4 DEF Crash
  <2>2. view'.shell = Absent
    BY <1>4, ViewFacts DEF Crash
  <2>. QED
    BY <2>1, <2>2, NullFields, ViewFacts DEF LostFromView, Seen, Housed, Known
<1>5. CASE UNCHANGED view
  <2>1. Housed'
    BY <1>5, ThreadGrows DEF LostFromView, Housed
  <2>2. Seen' /\ ~Known(view'.shell) => Seen /\ ~Known(view.shell)
    BY <1>1, <1>2, <1>5 DEF Known
  <2>3. Seen' => Lost'
    BY <1>5, <2>2, ThreadGrows DEF LostFromView, Lost
  <2>. QED
    BY <2>1, <2>3 DEF LostFromView
<1>6. UNCHANGED view \/ Hub \/ Crash
  BY DEF Next, vars, Thread, RunBegins, RunWorks, Leaves, ThreadOnly,
     Accept, Attach, Cancel, Scan, StartRound, Adopt, EvaluateRow, EvaluateCancel,
     Evaluate, Read, Write, ScanOnly, Recover
<1>. QED
  BY <1>3, <1>4, <1>5, <1>6

LEMMA VInvInit == Init => VInv
<1> SUFFICES ASSUME Init PROVE ItemsKept /\ LostFromView
  BY IInvInit DEF VInv
<1>1. thread.items = 0 /\ call.items = 0 /\ entry = NoEntry /\ scan = NoScan
  BY DEF Init
<1>2. view.shell = Absent \/ (view.shell.status = thread.status /\ Live)
  BY DEF Init, Live
<1>3. Absent.status # "archived"
  BY DEF Absent
<1>. QED
  BY <1>1, <1>2, <1>3, NullFields DEF ItemsKept, LostFromView, Seen, Known, Housed, Live

LEMMA VInvStep == VInv /\ [Next]_vars => VInv'
  BY IInvStep, ItemsStep, LostStep DEF VInv

-----------------------------------------------------------------------------
(* What a verdict says is true                                             *)

(* Only the evaluation of a row and the second look at the time-out say    *)
(* anything but a cancellation.                                            *)
LEMMA WhoSays ==
  ASSUME IInv, [Next]_vars, NEW v \in Outcome \ {"cancelled"}, Says(v)
  PROVE  \/ Evaluate /\ v = Verdict(Round1(scan.e))
         \/ Read /\ \E detail \in BOOLEAN :
                      v = Timed(scan.e, view.ready, ArchiveTrusted, Observed, detail)
         \/ /\ Read /\ Fault("peek")
            /\ v = Timed(scan.e, scan.ready, scan.archive, Absent, FALSE)
<1>1. scan \in ScanLocals
  BY Parts DEF ScanOK
<1>2. scan'.pc = "write" /\ scan.pc # "write" /\ scan'.verdict = v
  BY DEF Says
<1>3. CASE Evaluate
  <2>1. Writes(Round1(scan.e), Verdict(Round1(scan.e)))
    <3>1. \/ Writes(Round1(scan.e), Verdict(Round1(scan.e)))
          \/ scan' = [scan EXCEPT !.pc = "read", !.e = Round1(scan.e),
                                  !.ready = view.ready, !.archive = ArchiveTrusted]
          \/ scan' = NoScan
      BY <1>3 DEF Evaluate, Round1
    <3>. QED
      BY <1>1, <1>2, <3>1, NullFields DEF ScanLocals
  <2>. QED
    BY <1>1, <1>2, <1>3, <2>1 DEF Writes, ScanLocals
<1>4. CASE Read
  <2>1. CASE Fault("peek") /\ Writes(scan.e, Timed(scan.e, scan.ready, scan.archive, Absent, FALSE))
    BY <1>1, <1>2, <1>4, <2>1 DEF Writes, ScanLocals
  <2>2. CASE \E detail \in {FALSE, thread.status # "gone"} :
               Writes(scan.e, Timed(scan.e, view.ready, ArchiveTrusted, Observed, detail))
    <3>1. PICK detail \in BOOLEAN :
            Writes(scan.e, Timed(scan.e, view.ready, ArchiveTrusted, Observed, detail))
      BY <2>2
    <3>2. v = Timed(scan.e, view.ready, ArchiveTrusted, Observed, detail)
      BY <1>1, <1>2, <3>1 DEF Writes, ScanLocals
    <3>. QED
      BY <1>4, <3>2
  <2>. QED
    BY <1>4, <2>1, <2>2 DEF Read
<1>5. CASE EvaluateCancel
  <2>1. scan'.verdict = "cancelled"
    BY <1>1, <1>5 DEF EvaluateCancel, Writes, ScanLocals
  <2>. QED
    BY <1>2, <2>1
<1>6. CASE UNCHANGED scan
  BY <1>2, <1>6
<1>7. CASE StartRound \/ Adopt \/ EvaluateRow \/ Write \/ Crash
  <2>1. scan'.pc # "write"
    BY <1>7, NullTypes, NullFields
       DEF StartRound, Adopt, Evaluates, EvaluateRow, Write, Crash, ScanLocals
  <2>. QED
    BY <1>2, <2>1
<1>8. CASE UNCHANGED vars \/ Thread \/ Hub \/ Accept \/ Attach \/ Cancel \/ Recover
  BY <1>6, <1>8, HubFrame DEF vars, Thread, RunBegins, RunWorks, Leaves, ThreadOnly,
     HubOnly, Accept, Attach, Cancel, Recover
<1>. QED
  BY <1>3, <1>4, <1>5, <1>7, <1>8 DEF Next, Scan

LEMMA GoneStep ==
  ASSUME VInv, [Next]_vars, Says("thread_gone"), Known(scan.e.base), ~LookFails
  PROVE  ~Live /\ (view.left = "no" => thread.status = "gone")
<1>1. "thread_gone" \in Outcome \ {"cancelled"}
  BY DEF Outcome
<1>2. ~Known(view.shell) /\ view.archive
  <2>1. CASE "thread_gone" = Verdict(Round1(scan.e))
    BY <2>1 DEF Verdict, Missing, ArchiveTrusted
  <2>2. ASSUME NEW detail \in BOOLEAN,
               "thread_gone" = Timed(scan.e, view.ready, ArchiveTrusted, Observed, detail)
        PROVE  ~Known(view.shell) /\ view.archive
    <3>1. Trusted(scan.e, view.ready) /\ ~Known(Observed) /\ ArchiveTrusted
      BY <2>2 DEF Timed
    <3>. QED
      BY <3>1 DEF Trusted, Observed, ArchiveTrusted
  <2>3. ~(Read /\ Fault("peek"))
    <3>1. faults \in Nat
      BY Parts, Bounds DEF VInv, RestOK
    <3>2. Read => scan.pc = "read"
      BY DEF Read
    <3>3. Fault("peek") => faults' = faults + 1
      BY DEF Fault
    <3>. QED
      BY <3>1, <3>2, <3>3 DEF LookFails
  <2>. QED
    BY <1>1, <2>1, <2>2, <2>3, WhoSays DEF VInv
<1>. QED
  BY <1>2 DEF VInv, LostFromView, Lost, Seen

LEMMA UnchangedStep ==
  ASSUME VInv, [Next]_vars, Says("timeout_unchanged")
  PROVE  thread.items = scan.e.items
<1>1. "timeout_unchanged" \in Outcome \ {"cancelled"}
  BY DEF Outcome
<1>2. ~Progressed(scan.e)
  <2>1. "timeout_unchanged" # Verdict(Round1(scan.e))
    BY DEF Verdict
  <2>2. "timeout_unchanged" # Timed(scan.e, scan.ready, scan.archive, Absent, FALSE)
    BY DEF Timed, Known
  <2>3. PICK detail \in BOOLEAN :
          "timeout_unchanged" = Timed(scan.e, view.ready, ArchiveTrusted, Observed, detail)
    BY <1>1, <2>1, <2>2, WhoSays DEF VInv
  <2>. QED
    BY <2>3 DEF Timed
<1>3. scan.e.items \in Nat /\ thread.items \in Nat /\ scan.e.items <= thread.items
  BY Parts, Numbers DEF VInv, ItemsKept, ScanOK, ScanLocals
<1>. QED
  BY <1>2, <1>3 DEF Progressed

LEMMA CancelStep ==
  ASSUME IInv, [Next]_vars, call.cancel, call.status = "running", call'.status = "ended"
  PROVE  call'.outcome \in {"cancelled", "server_restarted"}
<1>1. CallOK
  BY Parts
<1>2. CASE Write
  BY <1>1, <1>2 DEF Write, Final, CallOK
<1>3. CASE Recover
  BY <1>1, <1>3 DEF Recover, CallOK
<1>4. CASE UNCHANGED call
  BY <1>4
<1>5. UNCHANGED call \/ Write \/ Recover
  BY HubFrame DEF Next, vars, Thread, RunBegins, RunWorks, Leaves, ThreadOnly,
     HubOnly, Accept, Attach, Cancel, Scan,
     StartRound, Adopt, EvaluateRow, EvaluateCancel, Evaluate, Read, ScanOnly, Crash
<1>. QED
  BY <1>2, <1>3, <1>4, <1>5

(* A wait that has seen its thread calls it gone only if it left the active *)
(* face, and one that was archived only in the window before the hub marks *)
(* its archive or after the grace period; a thread is called unchanged only *)
(* if nothing was written in it since the wait was attached; and a mark of *)
(* cancellation decides how the wait ends.  All of it whatever fails: the  *)
(* registration, a read, a write, the hub or the process; but of the first *)
(* nothing is said when the second look of waitResolveTimeout fails.       *)
THEOREM VerdictsHold == Spec => VerdictTrue
<1>1. VInv /\ [Next]_vars =>
        (Says("thread_gone") /\ Known(scan.e.base) /\ ~LookFails =>
           /\ ~Live
           /\ view.left = "no" => thread.status = "gone")
  BY GoneStep
<1>2. VInv /\ [Next]_vars => (Says("timeout_unchanged") => thread.items = scan.e.items)
  BY UnchangedStep
<1>3. VInv /\ [Next]_vars =>
        (call.cancel /\ call.status = "running" /\ call'.status = "ended" =>
           call'.outcome \in {"cancelled", "server_restarted"})
  BY CancelStep DEF VInv
<1>4. Spec => GoneTrue /\ UnchangedTrue /\ CancelKept
  BY <1>1, <1>2, <1>3, VInvInit, VInvStep, PTL DEF Spec, GoneTrue, UnchangedTrue, CancelKept
<1>. QED
  BY <1>4 DEF VerdictTrue

=============================================================================
