------------------------- MODULE MCReviewDispatch -------------------------
EXTENDS ReviewDispatch

(* One push, rerun or fault, or a pull request that is closed and reopened. *)
(* After a push or a rerun the agents submit and do not read before (after  *)
(* a push one at a time), and T3 obeys and settles at once: it is slow, or  *)
(* ignores a stop, only where there is neither.                             *)
Calm == used.pushes + used.reruns = 0
Moves == \/ used'.toggles = 0 /\ used'.pushes + used'.reruns + used'.faults <= 1
         \/ used'.pushes + used'.reruns + used'.faults = 0
Submits(r) ==
  runs[r].status = "dispatched" /\ runs'[r].status = "running" =>
    /\ submit'[r] = "loaded"
    /\ used.pushes > 0 => \A q \in RunId \ {r} : submit[q] = "none"
Obeys(r) ==
  /\ runs'[r].overdue => runs[r].overdue \/ runs[r].status \notin Terminal
  /\ runs'[r].stopped /\ ~runs[r].stopped => thread'[r] # "live"
  /\ sched.stage = Len(Stages) /\ r \in sched.todo \ sched'.todo =>
       runs'[r].archived # "no" \/ tries'[r] # tries[r]
Scenario == Moves /\ (Calm \/ \A r \in RunId : Submits(r) /\ Obeys(r))
=============================================================================
