--------------------------- MODULE MCThreadWait ---------------------------
EXTENDS ThreadWait

(* Until the wait is over: nothing happens to what nobody waits for any     *)
(* more.                                                                    *)
Over == call.status = "ended" /\ attach = "no" /\ entry = NoEntry /\ scan.pc = "idle"

(* The thread and the hub move when the wait is about to look at them: what *)
(* they did since it looked last may as well be done then.                  *)
Looks == attach = "due" \/ scan.pc \in {"adopt", "evaluate", "read"}
Timely == thread' # thread \/ (view' # view /\ mode' = "up") => Looks

(* The copy of the archive matters when the thread is not on the active     *)
(* face, and the filter when it has not left.                               *)
Relevant ==
  /\ view'.archive # view.archive /\ mode' = "up" => ~CopyActive
  /\ ~Live' => "idle" \in call.on

(* The goroutine attaches within a round.  A fault, a thread that leaves,   *)
(* and a hub out of touch come while the thread has moved once at most; a   *)
(* cancellation comes without a fault, to a thread that has not left.       *)
Few ==
  /\ attach' = "due" => round' <= 1
  /\ thread'.items <= 1 \/ (faults' = 0 /\ Live' /\ view'.ready)
  /\ call'.cancel => faults' = 0 /\ Live'

(* Nothing of this holds back a step that the fairness promises.            *)
Scenario == ~Over /\ Timely /\ Relevant /\ Few
=============================================================================
