--------------------------- MODULE BatchProperties ---------------------------
(* What Batch guarantees, and at the end what the repository says of it    *)
(* and the code does not keep.                                             *)
EXTENDS Batch

InStage(stages) == {c \in Commands : stage[c] \in stages}

ThreadTypeOK ==
    /\ pc \in [Threads -> {"idle", "count", "slot_check", "slot_park",
                           "slot_asleep", "add", "push", "append", "wake",
                           "wake_send", "done_check", "done_park",
                           "done_asleep", "return"}]
    /\ op \in [Threads -> Operations \cup {None}]
    /\ cur \in [Threads -> Batches \cup {None}]

DataTypeOK ==
    /\ issued \in [Batches -> 0..MaxCommands]
    /\ life \in [Batches -> {"none", "live", "dead"}]
    /\ local_pending \in [Batches -> Nat]
    /\ pending_futures \in Nat
    /\ replies \in [Batches -> [nodes : Seq(Commands),
                                next  : Nat \cup {End},
                                size  : Nat]]
    /\ value \in [Commands -> Commands \cup {None}]
    /\ stage \in [Commands -> {"unborn", "local", "held", "hiredis", "called",
                               "settled", "deleted"}]
    /\ cb \in [at  : {"idle", "notify_slot", "store", "settle", "notify_done"},
               cmd : Commands \cup {None},
               ans : Commands \cup {None}]
    /\ verdict \in [Batches -> {"none", "ok", "threw"}]
    /\ crashed \in BOOLEAN

(* Every variable has its type: no counter passes below zero, no command   *)
(* is numbered beyond those run, no queue holds anything but commands.     *)
TypeOK == LoopTypeOK(Commands) /\ ThreadTypeOK /\ DataTypeOK

-----------------------------------------------------------------------------
(* The commands run through a batch whose replies are not stored yet. *)
Unsettled(b) ==
    {c \in InStage({"local", "held", "hiredis", "called"}) : BatchOf(c) = b}

(* The two atomic counters agree with the commands they count whatever the *)
(* order in which run_pvt() and the callback change them: the context's    *)
(* counts what was counted and not answered, a batch's what was run        *)
(* through it and whose reply is not stored yet.                           *)
CountersExact ==
    /\ pending_futures = Cardinality(InStage({"held", "hiredis"}))
    /\ \A b \in Batches : local_pending[b] = Cardinality(Unsettled(b))

(* The commands hiredis has not answered and those of the threads past the *)
(* flow control of run_pvt(), about to be pushed.                          *)
Admitted ==
    {c \in Commands :
        \/ stage[c] = "hiredis"
        \/ \E t \in Threads : pc[t] \in {"add", "push"} /\ c = CurCmd(t)}

(* The flow control works although each thread counts its own command      *)
(* before it tests the counter and tests it without a lock: hiredis never  *)
(* holds more than g_max_redis_unanswered_commands unanswered commands,    *)
(* those of the threads let through included.                              *)
UnansweredBound == Cardinality(Admitted) <= MaxUnanswered

(* The command whose callback is listed, its bytes still to be appended.   *)
HalfPushed ==
    {CurCmd(t) : t \in {u \in Threads : pc[u] = "append"}}

(* The callbacks hiredis lists are those of the answers on their way back, *)
(* in order: event_mutex() keeps two run_pvt() from interleaving between   *)
(* listing the callback and appending the command, and the loop from       *)
(* reading in between.                                                     *)
PipelineAligned ==
    link \in {"up", "closed"} =>
        LET inFlight == inbuf \o wire \o obuf
        IN  \/ HalfPushed = {} /\ callbacks = inFlight
            \/ \E c \in HalfPushed : callbacks = Append(inFlight, c)

(* The node of a command never receives the answer to another command.     *)
AnswersReachTheirSlot == \A c \in Commands : value[c] \in {None, c}

(* A callback that has yet to store its reply finds the batch alive and    *)
(* its node in the list: reset() and ~Batch() waited for it.               *)
StoresFindTheirNode ==
    \A c \in InStage({"hiredis", "called"}) :
        /\ life[BatchOf(c)] = "live"
        /\ c \in ToSet(replies[BatchOf(c)].nodes)

(* replies() returns with every reply of the batch in place, unless the    *)
(* connection was lost.                                                    *)
RepliesComplete ==
    \A t \in Threads :
        pc[t] = "return" /\ link = "up" =>
            \A c \in ToSet(replies[cur[t]].nodes) : value[c] = c

(* The commands a batch has listed so far: not yet that of a run_pvt() on  *)
(* its way to add().                                                       *)
Ran(b) ==
    IF \E t \in Threads :
          /\ cur[t] = b
          /\ pc[t] \in {"count", "slot_check", "slot_park", "slot_asleep", "add"}
    THEN issued[b] - 1 ELSE issued[b]

(* The replies are listed in the order of the commands that generated them *)
(* and none is missing, up to the command being run: what the node         *)
(* iterator and the size that ReplyList keeps apart add up to.             *)
ListInOrder ==
    \A b \in Batches :
        LET list == replies[b]
        IN  /\ list.size = Len(list.nodes)
            /\ \A i \in 1..list.size : list.nodes[i] = <<b, Ran(b) - list.size + i>>

(* throw_if_failed() throws exactly if a command of the batch failed; a    *)
(* command never answered is one that failed.                              *)
ThrowVerdict ==
    \A b \in Batches :
        /\ verdict[b] = "ok" =>
              \A c \in ToSet(replies[b].nodes) : value[c] = c /\ c \notin ErrorAnswers
        /\ verdict[b] = "threw" =>
              \E c \in ErrorAnswers : BatchOf(c) = b /\ value[c] = c

(* A command appended while the loop is blocked does not stay in the       *)
(* buffer: the kernel watches the socket for it, or a wakeup was sent, or  *)
(* the thread that appended it is about to send one, although that thread  *)
(* reads the flag without the mutex.                                       *)
LoopWillWrite ==
    phase = "poll" /\ obuf # <<>> =>
        \/ armed
        \/ wakeup_sent
        \/ \E t \in Threads : pc[t] \in {"wake", "wake_send"}

(* Every command hiredis has taken is answered, or loses its connection,   *)
(* and is counted off and forgotten, whichever threads call whatever       *)
(* meanwhile; only a crash prevents it.                                    *)
EveryCommandCompletes ==
    \A c \in Commands :
        stage[c] = "hiredis" ~> (stage[c] = "deleted" \/ crashed)

ResultOf(c) ==
    IF value[c] # None THEN "answered"
    ELSE IF stage[c] \in {"settled", "deleted"} THEN "lost"
    ELSE "pending"

Log == INSTANCE CommandLog WITH
    batch  <- life,
    ran    <- [b \in Batches |-> Ran(b)],
    log    <- [b \in Batches |-> replies[b].nodes],
    result <- [c \in Commands |-> ResultOf(c)]

(* The machinery of counters, queues, waits and callbacks implements a log *)
(* of commands: each batch lists its commands in order, each is answered   *)
(* once or lost with all after it, in the order of the list, and           *)
(* throw_if_failed(), reset() and the destructor act on settled lists      *)
(* only.                                                                   *)
ImplementsCommandLog == Log!Spec

-----------------------------------------------------------------------------
(* "The following line will block until all commands are executed"         *)
(* (README.md): a thread that waits for its replies gets them.  The        *)
(* callback notifies without pending_futures_mutex, so its notify can fall *)
(* between the check of the predicate and the park and reach nobody.       *)
RepliesReturns ==
    \A t \in Threads :
        pc[t] = "done_check" ~> (pc[t] = "return" \/ crashed)

(* "Run your commands on it - feel free to flood it if needed!"            *)
(* (README.md): a slot that becomes free goes to a command waiting for it. *)
(* The callback notifies the free_cmd_slot of the batch it has an answer   *)
(* for, the commands wait each on the free_cmd_slot of their own batch.    *)
FreedSlotWakesAWaiter ==
    [][ (/\ cb.at = "notify_slot" /\ cb'.at = "store"
         /\ \E t \in Threads : pc[t] = "slot_asleep")
        => \E t \in Threads : pc[t] = "slot_asleep" /\ pc'[t] = "slot_check" ]_vars

(* "force waiting for any pending jobs" (comment in reset(), which ~Batch()*)
(* calls): a callback under way belongs to a batch that still exists.  The *)
(* counter that reset() waits for reaches zero before the last callback    *)
(* notifies through the batch's condition variable.                        *)
NoCallbackAfterBatch ==
    cb.at # "idle" => life[BatchOf(cb.cmd)] = "live"

(* "request a batch object, run your commands through it and let the       *)
(* library sort out the details" (README.md): running commands does not    *)
(* crash while the connection is up.  After reset() the next node goes     *)
(* after end().                                                            *)
NoCrash == link = "up" => ~crashed
=============================================================================
