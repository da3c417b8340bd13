--------------------------- MODULE AnswerInvariant ---------------------------
(* What becomes inductive once IndInv is known: the way of an answer from  *)
(* the socket to the node of its command, and from there to the verdict.   *)
EXTENDS BatchInvariant

(* A command that a thread is about to push, that hiredis holds or whose   *)
(* callback is under way has its node in the list of its batch.            *)
NodeInv ==
    /\ \A c \in InStage({"hiredis", "called"}) : c \in ToSet(replies[BatchOf(c)].nodes)
    /\ \A t \in Threads :
          pc[t] = "push" => CurCmd(t) \in ToSet(replies[cur[t]].nodes)

(* A callback holds the answer to its own command, or none because the     *)
(* connection fails, which only a server that closes makes it do.          *)
PairInv ==
    /\ cb.at # "idle" => cb.ans = cb.cmd \/ (cb.ans = None /\ link = "failing")
    /\ link # "up" => CanLoseLink

(* A node is left without a reply only by a lost connection, and only      *)
(* without assertions.                                                     *)
Answered(c) == value[c] = c \/ (link \in {"failing", "freed"} /\ Ndebug)

AnswerInv ==
    \A c \in Commands :
        stage[c] \in {"settled", "deleted"} \/ (cb.at = "settle" /\ cb.cmd = c)
            => Answered(c)

(* A verdict is of a batch at rest. *)
VerdictInv ==
    \A b \in Batches :
        verdict[b] # "none" =>
            /\ local_pending[b] = 0
            /\ \A t \in Threads : pc[t] # "idle" => cur[t] # b

(* One command is called at a time, by the callback under way. *)
CalledInv ==
    \A c \in InStage({"called"}) :
        cb.at \in {"notify_slot", "store", "settle"} /\ cb.cmd = c

(* On the way to redisAsyncCommandArgv(). *)
Unpushed(t) == pc[t] \in InRun \ {"append"}

(* A command that hiredis has not taken is its thread's last, unless that  *)
(* thread found the context freed and went on.                             *)
UnpushedInv ==
    \A c \in InStage({"local", "held"}) :
        link = "freed" \/ \E t \in Threads : Unpushed(t) /\ CurCmd(t) = c

Taken == {"hiredis", "called", "settled", "deleted"}
Called == {"called", "settled", "deleted"}

(* The commands of a batch are taken, and called, in their order. *)
StageOrder ==
    \A c, d \in Commands :
        BatchOf(c) = BatchOf(d) /\ d[2] < c[2] =>
            /\ stage[c] \in Taken => stage[d] \in Taken
            /\ stage[c] \in Called => stage[d] \in Called

CallbackOrder ==
    \A i, j \in 1..Len(callbacks) :
        i < j /\ BatchOf(callbacks[i]) = BatchOf(callbacks[j]) =>
            callbacks[i][2] < callbacks[j][2]

OrderInv == CalledInv /\ UnpushedInv /\ StageOrder /\ CallbackOrder

(* A reply is stored once, by the callback of its command, and an answer   *)
(* is delivered only before the connection fails.                          *)
ValueInv ==
    /\ \A c \in Commands :
          value[c] # None =>
              stage[c] \in {"settled", "deleted"} \/ (cb.at = "settle" /\ cb.cmd = c)
    /\ cb.at \in {"notify_slot", "store"} /\ cb.ans # None => link \in {"up", "closed"}

AnswerIndInv ==
    /\ ListInOrder
    /\ NodeInv
    /\ PipelineAligned
    /\ PairInv
    /\ AnswersReachTheirSlot
    /\ AnswerInv
    /\ VerdictInv
    /\ OrderInv
    /\ ValueInv
=============================================================================
