---------------------------- MODULE TaskContract ----------------------------
(***************************************************************************)
(* What a schedule task promises to the user and to the main line: a plan  *)
(* has one run, executed or skipped; one run of the task is executed at a  *)
(* time; a run ends once, in the step that tells of it; a run that was     *)
(* asked to stop ends as stopped, unless the process has died; and nothing *)
(* new begins before every run the process left behind is dealt with.      *)
(***************************************************************************)
EXTENDS Naturals

CONSTANTS Runs, Plans, NoPlan

VARIABLES
  phase,  \* how far a run is
  plan,   \* the plan it has, if it is not by hand
  stop,   \* whether it was asked to stop
  told,   \* how often the main line was told of it
  up      \* whether the process serves, or deals with what it left behind

Init ==
  /\ phase = [r \in Runs |-> "none"] /\ plan = [r \in Runs |-> NoPlan]
  /\ stop = [r \in Runs |-> FALSE] /\ told = [r \in Runs |-> 0]
  /\ up = TRUE

Running == {r \in Runs : phase[r] = "running"}

New(r, how, p, n) ==
  /\ up /\ phase[r] = "none"
  /\ phase' = [phase EXCEPT ![r] = how] /\ plan' = [plan EXCEPT ![r] = p]
  /\ stop' = [stop EXCEPT ![r] = FALSE] /\ told' = [told EXCEPT ![r] = n]
  /\ UNCHANGED up

Unused(p) == \A r \in Runs : plan[r] # p

Dispatch(r, p) == Unused(p) /\ Running = {} /\ New(r, "running", p, 0)
Skip(r, p) == Unused(p) /\ \E n \in {0, 1} : New(r, "skipped", p, n)
Order(r) == Running = {} /\ New(r, "running", NoPlan, 0)

AskStop(S) ==
  /\ up /\ S \subseteq Running
  /\ UNCHANGED <<phase, plan, told, up>>
  /\ stop' = [r \in Runs |-> r \in S \/ stop[r]]

Ends(r, how, n) ==
  /\ r \in Running
  /\ phase' = [phase EXCEPT ![r] = how] /\ told' = [told EXCEPT ![r] = n]
  /\ UNCHANGED <<plan, stop, up>>

Complete(r) == up /\ ~stop[r] /\ \E n \in {0, 1} : Ends(r, "completed", n)
Fail(r) == ~(up /\ stop[r]) /\ Ends(r, "failed", 1)
Stop(r) == up /\ stop[r] /\ Ends(r, "stopped", 0)

Die == up' = FALSE /\ UNCHANGED <<phase, plan, stop, told>>
Restart == ~up /\ Running = {} /\ up' = TRUE /\ UNCHANGED <<phase, plan, stop, told>>

Next ==
  \/ Die \/ Restart \/ \E S \in SUBSET Runs : AskStop(S)
  \/ \E r \in Runs : \/ Order(r) \/ Complete(r) \/ Fail(r) \/ Stop(r)
                     \/ \E p \in Plans : Dispatch(r, p) \/ Skip(r, p)

Spec == Init /\ [][Next]_<<phase, plan, stop, told, up>>
=============================================================================
