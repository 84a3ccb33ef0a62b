--------------------------- MODULE MCBotMainline ---------------------------
EXTENDS BotMainline, TLC

Symmetry == Permutations(Gs)

(* Locals that are overwritten before they are read again do not tell       *)
(* states apart.                                                            *)
LiveBuilt == [p \in Gs |-> IF pc[p] \in {"begin", "advRun", "advBot", "stream"}
                           THEN built[p] ELSE 0]
LiveWake == [p \in Gs |->
  IF \/ pc[p] \in {"ensure", "create", "steal", "reacquire"}
     \/ slot.requeue
     \/ \E q \in Gs : pc[q] = "steal"
  THEN wake[p] ELSE NoWake]

View == <<dbVars, slot, wakes, stops, phase, noticeSeq, faults,
          pc, LiveWake, cur, seen, LiveBuilt, next, cancelled>>

(* Two calls of wakeRuntime at a time race each other and the slot.         *)
FewWakes == Cardinality(wakes') <= 2

(* Two goroutines, two runs, which request once for each input, and two     *)
(* wake-ups at a time, without faults; or one goroutine and one run, with   *)
(* retries and tool calls once the wake-ups have been dealt with.  The      *)
(* transaction that ends the run may be lost if only one message arrives.   *)
Scenario ==
  \/ /\ faults = 0 /\ Cardinality(wakes) <= 2
     /\ \A p \in Gs : pc[p] \in {"top", "build", "begin", "calls"} =>
          runs[cur[p]].reqs = <<>> \/ InputSince(seen[p]) \/ runs[cur[p]].stop
  \/ /\ faults = 0 \/ Cardinality(inputs) <= 1
     /\ \A r \in RunId \ {1} : runs[r].status = "none"
     /\ Cardinality({p \in Gs : pc[p] # "idle"}) <= 1 /\ wakes = {}

(* Only arrivals and faults are held back, and nothing promises those:     *)
(* two inputs without a fault, or one input and one fault.                 *)
InputOrFault == faults' = 0 \/ Cardinality(inputs') <= 1
=============================================================================
