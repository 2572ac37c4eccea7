------------------------------ MODULE MCAiWorker ------------------------------
(* Instances of AiWorker for TLC: the first email is the least urgent.       *)
EXTENDS AiWorker, TLC

CONSTANTS e1, e2

Urgency2 == (e1 :> 1 @@ e2 :> 2)
WorkerSymmetry == Permutations(Workers)
=============================================================================
