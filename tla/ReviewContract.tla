--------------------------- MODULE ReviewContract ---------------------------
(***************************************************************************)
(* What the reviews of a pull request promise to the one who reads its     *)
(* status: the runs of a round belong to one head and number, and to no    *)
(* other ever; no more of them are under way than allowed; a run ends      *)
(* once, with a result only if an agent has begun it, and its end asks for *)
(* the status to be published; a head is told to be good or bad only if    *)
(* all the runs of a round of it have ended so; and what was asked for is  *)
(* settled only when the status shown is the outcome of the round, or when *)
(* a new head or the end of the pull request makes it pointless.           *)
(***************************************************************************)
EXTENDS Naturals, FiniteSets

CONSTANTS Runs, Heads, Limit

VARIABLES
  head,     \* the head that was accepted last, 0 if none was
  round,    \* the number of its round
  pending,  \* whether the status has to be published
  status,   \* how far a run is,
  code,     \* why it ended,
  of,       \* the head it reviews
  number,   \* and the number of its round
  shown     \* the status of every head

rows == <<status, code, of, number>>
vars == <<head, round, pending, rows, shown>>

Init ==
  /\ head = 0 /\ round = 0 /\ pending = FALSE
  /\ status = [r \in Runs |-> "none"] /\ code = [r \in Runs |-> ""]
  /\ of = [r \in Runs |-> 0] /\ number = [r \in Runs |-> 0]
  /\ shown = [h \in Heads |-> ""]

Active == {"dispatched", "running"}
Unfinished == {"queued"} \cup Active

Round(h, n) == {r \in Runs : of[r] = h /\ number[r] = n}

Outcome(S) ==
  IF S = {} \/ (\E r \in S : status[r] \in Unfinished) THEN "pending"
  ELSE IF \E r \in S : status[r] # "completed" THEN "error" ELSE "success"

(* The runs that have not ended are cancelled.                             *)
Left(r) == IF status[r] \in Unfinished THEN "cancelled" ELSE status[r]
LeftCode(r) == IF status[r] \in Unfinished THEN "superseded" ELSE code[r]
Supersede ==
  /\ status' = [r \in Runs |-> Left(r)] /\ code' = [r \in Runs |-> LeftCode(r)]
  /\ UNCHANGED <<of, number>>

Accept(h) ==
  /\ \A r \in Runs : of[r] # h
  /\ Supersede /\ head' = h /\ pending' = FALSE
  /\ UNCHANGED <<round, shown>>

Withdraw == Supersede /\ pending' = FALSE /\ UNCHANGED <<head, round, shown>>

(* A round replaces the one before; its first runs may start at once.      *)
Open(h) ==
  /\ head \in {0, h} /\ head' = h /\ pending' = TRUE
  /\ \A r \in Runs : number[r] < round'
  /\ \E new \in SUBSET {r \in Runs : status[r] = "none"} :
       /\ new # {}
       /\ \E first \in SUBSET new :
            /\ Cardinality(first) <= Limit
            /\ status' = [r \in Runs |-> IF r \in first THEN "dispatched"
                                         ELSE IF r \in new THEN "queued" ELSE Left(r)]
       /\ code' = [r \in Runs |-> LeftCode(r)]
       /\ of' = [r \in Runs |-> IF r \in new THEN h ELSE of[r]]
       /\ number' = [r \in Runs |-> IF r \in new THEN round' ELSE number[r]]
  /\ UNCHANGED shown

Start ==
  /\ \A r \in Runs : status'[r] # status[r] => status[r] = "queued" /\ status'[r] = "dispatched"
  /\ status' = [r \in Runs |-> status'[r]]
  /\ Cardinality({r \in Runs : status'[r] \in Active}) <= Limit
  /\ UNCHANGED <<head, round, pending, code, of, number, shown>>

Begin(r) ==
  /\ status[r] = "dispatched" /\ status' = [status EXCEPT ![r] = "running"]
  /\ UNCHANGED <<head, round, pending, code, of, number, shown>>

(* From where a run ends how, and why.                                     *)
Ends ==
  {<<"running", "completed", "">>, <<"running", "cancelled", "superseded">>,
   <<"dispatched", "failed", "dispatch_failed">>, <<"dispatched", "failed", "access_denied">>,
   <<"dispatched", "cancelled", "pr_closed">>}
    \cup {<<s, "timed_out", "timeout">> : s \in Active}

End(r) ==
  /\ \E e \in Ends : /\ status[r] = e[1]
                     /\ status' = [status EXCEPT ![r] = e[2]]
                     /\ code' = [code EXCEPT ![r] = e[3]]
  /\ pending' = TRUE
  /\ UNCHANGED <<head, round, of, number, shown>>

Ask == pending' = TRUE /\ UNCHANGED <<head, round, rows, shown>>

Publish(h) ==
  /\ \/ shown' = [shown EXCEPT ![h] = "pending"]
     \/ \E r \in Runs :
          of[r] = h /\ shown' = [shown EXCEPT ![h] = Outcome(Round(h, number[r]))]
  /\ UNCHANGED <<head, round, pending, rows>>

Settle ==
  /\ pending /\ pending' = FALSE
  /\ Round(head, round) = {} \/ shown[head] = Outcome(Round(head, round))
  /\ UNCHANGED <<head, round, rows, shown>>

Next ==
  \/ Withdraw \/ Start \/ Ask \/ Settle
  \/ \E h \in Heads : Accept(h) \/ Open(h) \/ Publish(h)
  \/ \E r \in Runs : Begin(r) \/ End(r)

Spec == Init /\ [][Next]_vars
=============================================================================
