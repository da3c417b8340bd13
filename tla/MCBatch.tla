------------------------------- MODULE MCBatch -------------------------------
(* Values of the constants of Batch for TLC. *)
EXTENDS AnswerInvariant, TLC

(* Every thread has a batch; with one thread it has them all. *)
MCOwner ==
    CHOOSE f \in [Batches -> Threads] : \A t \in Threads : \E b \in Batches : f[b] = t

(* The second command run through a batch fails. *)
MCErrorAnswers == {c \in Commands : c[2] = 2}

(* Threads are alike, and so are batches, as long as each batch stays with *)
(* its owner.                                                              *)
MCSymmetry ==
    {p \in Permutations(Threads \cup Batches) :
        \A b \in Batches : p[b] \in Batches /\ p[Owner[b]] = Owner[p[b]]}
=============================================================================
