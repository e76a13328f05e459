----------------------------- MODULE MCKafkaQueue -----------------------------
(***************************************************************************)
(* Small queues for the model checker.  Workers do not differ, and neither *)
(* do producers.                                                           *)
(***************************************************************************)
EXTENDS KafkaQueue, TLC

Symmetry == Permutations(Worker) \cup Permutations(Producer)

=============================================================================
