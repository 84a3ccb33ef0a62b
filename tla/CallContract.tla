---------------------------- MODULE CallContract ----------------------------
(***************************************************************************)
(* What the ledger of tool calls promises to the model and to the user: a  *)
(* call is accepted once, is begun once at most, writes once at most and   *)
(* only between its beginning and its end, and ends once, in the same step *)
(* that tells the model.                                                   *)
(***************************************************************************)
EXTENDS Naturals

CONSTANT Calls

VARIABLES
  phase,  \* how far a call is
  told,   \* the message that told its end
  done    \* how often the call had an effect outside

Phase == {"none", "open", "running", "settled"}
Told  == {"none", "reply", "result"}

Init ==
  /\ phase = [c \in Calls |-> "none"]
  /\ told  = [c \in Calls |-> "none"]
  /\ done  = [c \in Calls |-> 0]

(* A turn of the model brings calls; some are refused at once, some begin at once. *)
Accept(S) ==
  /\ \A c \in S : phase[c] = "none"
  /\ \E p \in [S -> Phase \ {"none"}] :
       /\ phase' = [c \in Calls |-> IF c \in S THEN p[c] ELSE phase[c]]
       /\ told'  = [c \in Calls |-> IF c \in S /\ p[c] = "settled"
                                    THEN "reply" ELSE told[c]]
  /\ UNCHANGED done

Start(c) ==
  /\ phase[c] = "open"
  /\ phase' = [phase EXCEPT ![c] = "running"]
  /\ UNCHANGED <<told, done>>

Write(c) ==
  /\ phase[c] = "running"
  /\ done[c] = 0
  /\ done' = [done EXCEPT ![c] = 1]
  /\ UNCHANGED <<phase, told>>

Settle(c) ==
  /\ phase[c] \in {"open", "running"}
  /\ phase' = [phase EXCEPT ![c] = "settled"]
  /\ \E t \in Told \ {"none"} : told' = [told EXCEPT ![c] = t]
  /\ UNCHANGED done

Next ==
  \/ \E S \in SUBSET Calls : Accept(S)
  \/ \E c \in Calls : Start(c) \/ Write(c) \/ Settle(c)

Spec == Init /\ [][Next]_<<phase, told, done>>
=============================================================================
