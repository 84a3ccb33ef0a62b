--------------------------- MODULE MCBotSchedule ---------------------------
EXTENDS BotSchedule, TLC

(* What users, the bot and faults do beside the schedule.  While the       *)
(* provider stays as it is: one thing, with two plans that come due, or    *)
(* with a card or a change of the task and one plan (time goes on when     *)
(* every run is over: two failures meet at the circuit); a card and the    *)
(* change of the task together, with one plan; or two cards with the       *)
(* change, before the plan is due.  While the credentials are replaced or  *)
(* probed: two plans, and nothing else.                                    *)
Shown == Cardinality({c \in Cards : card[c].pc # "none"})
Stops == IF task.exists THEN Cardinality({r \in RunId : runs[r].stop}) ELSE 0
Disturbed == Shown + Stops + faults + task.rev
Over == Unfinished = {} /\ tick.pc = "idle"
Calm == task.rev = 0 /\ (Shown = 0 \/ Over)
Scenario ==
  \/ /\ provider'.version = 0 /\ probe'.pc = "idle"
     /\ \/ Disturbed' <= 1 /\ (now' <= 1 \/ Calm')
        \/ Stops' + faults' = 0 /\ now' <= (IF Shown' <= 1 THEN 1 ELSE 0)
  \/ Disturbed' = 0
=============================================================================
