-------------------------- MODULE MainlineContract --------------------------
(***************************************************************************)
(* What the main conversation of a bot promises to those who write to it:  *)
(* messages are numbered in the order of their arrival; one run at a time  *)
(* answers them, by requests that never contain less than what has been    *)
(* handed to the model before; a message counts as handed over only        *)
(* because of a request that contains it or of a stop that came no earlier *)
(* and was carried out; a run ends once, by itself only when nothing is    *)
(* left to hand over; and a run that was asked to stop sends nothing more  *)
(* and ends as stopped, unless the process dies.                           *)
(***************************************************************************)
EXTENDS Integers, Sequences

CONSTANTS
  Runs,
  GivesUp  \* whether input that fits no context may be given up, with a notice

VARIABLES
  last,    \* the last number that was given to a message
  inputs,  \* the numbers of the messages to be handed to the model
  offered, \* up to where they count as handed over
  status,  \* how far a run is
  asked,   \* the number of the message that asks it to stop, 0 if there is none
  stop,    \* whether it has to stop
  reqs,    \* up to where each of its requests contains the messages
  up       \* whether the process serves, or has yet to deal with what it left

vars == <<last, inputs, offered, status, asked, stop, reqs, up>>

Init ==
  /\ last = 0 /\ inputs = {} /\ offered = 0
  /\ status = [r \in Runs |-> "none"] /\ asked = [r \in Runs |-> 0]
  /\ stop = [r \in Runs |-> FALSE] /\ reqs = [r \in Runs |-> <<>>]
  /\ up = TRUE

Running == {r \in Runs : status[r] = "running"}

(* Messages: of the bot itself, to the bot, and to stop one of its runs.   *)
Note ==
  /\ up /\ last' = last + 1
  /\ UNCHANGED <<inputs, offered, status, asked, stop, reqs, up>>

Arrive ==
  /\ up /\ last' = last + 1 /\ inputs' = inputs \cup {last'}
  /\ UNCHANGED <<offered, status, asked, stop, reqs, up>>

AskStop(r) ==
  /\ up /\ r \in Running /\ asked[r] = 0
  /\ last' = last + 1 /\ inputs' = inputs \cup {last'}
  /\ asked' = [asked EXCEPT ![r] = last']
  /\ UNCHANGED <<offered, status, stop, reqs, up>>

(* A run has to stop because it was asked to, or because the model said so. *)
MustStop(r) ==
  /\ up /\ r \in Running /\ (asked[r] # 0 \/ reqs[r] # <<>>)
  /\ stop' = [stop EXCEPT ![r] = TRUE]
  /\ UNCHANGED <<last, inputs, offered, status, asked, reqs, up>>

Request(r) ==
  /\ up /\ r \in Running /\ ~stop[r]
  /\ \E n \in offered .. last : reqs' = [reqs EXCEPT ![r] = Append(@, n)]
  /\ UNCHANGED <<last, inputs, offered, status, asked, stop, up>>

(* The messages that a request of the run ends with, or its stop.          *)
HandedBy(r) == {reqs[r][i] : i \in DOMAIN reqs[r]} \cup (IF stop[r] THEN {asked[r]} ELSE {})

Offer ==
  /\ up /\ offered' > offered
  /\ \/ \E r \in Runs : offered' \in HandedBy(r)
     \/ GivesUp /\ offered' \in 1 .. last
  /\ UNCHANGED <<last, inputs, status, asked, stop, reqs, up>>

Turns(r, from, to) ==
  /\ up /\ status[r] = from
  /\ status' = [status EXCEPT ![r] = to]
  /\ UNCHANGED <<last, inputs, offered, asked, stop, reqs, up>>

Begin(r) == Running = {} /\ Turns(r, "none", "running")
Complete(r) == ~stop[r] /\ (\A n \in inputs : n <= offered) /\ Turns(r, "running", "completed")
Stop(r) == stop[r] /\ Turns(r, "running", "stopped")
Fail(r) == ~stop[r] /\ Turns(r, "running", "failed")

Die == up' = FALSE /\ UNCHANGED <<last, inputs, offered, status, asked, stop, reqs>>

Restart ==
  /\ ~up /\ up' = TRUE
  /\ status' = [r \in Runs |-> IF r \in Running THEN "failed" ELSE status[r]]
  /\ UNCHANGED <<last, inputs, offered, asked, stop, reqs>>

Next ==
  \/ Note \/ Arrive \/ Offer \/ Die \/ Restart
  \/ \E r \in Runs : \/ AskStop(r) \/ MustStop(r) \/ Request(r)
                     \/ Begin(r) \/ Complete(r) \/ Stop(r) \/ Fail(r)

Spec == Init /\ [][Next]_vars
=============================================================================
