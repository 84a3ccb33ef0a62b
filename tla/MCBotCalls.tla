----------------------------- MODULE MCBotCalls -----------------------------
EXTENDS BotCalls, TLC

(* The workers are interchangeable, and so are the waits of one thread.    *)
Symmetry == Permutations(Workers) \cup Permutations(Waits)

(* Synchronous calls next to an asynchronous one, without a crash; or next  *)
(* to two waits, with one.                                                 *)
TurnScenario ==
  \/ faults = 0 /\ Committed \cap Waits = {}
  \/ Committed \cap Asyncs = {}

(* Two workers race for the calls of the users; or the loop cancels a call *)
(* of its own turn that one worker executes.                               *)
WorkerScenario ==
  \/ Committed \cap Writes = {} /\ Len(loop.turn) <= 1
  \/ /\ faults <= 1 /\ mode = "up" /\ \A a \in Auths : auths[a] # "expired"
     /\ Cardinality({w \in Workers : worker[w].pc # "idle"}) <= 1
=============================================================================
