-------------------------------- MODULE Batch --------------------------------
(***************************************************************************)
(* redis::Batch over one established AsyncConnection: user threads run     *)
(* commands through their batches and wait for the replies, the event-loop *)
(* thread of EventLoop calls hiredis_run_callback() for each answer.       *)
(*                                                                         *)
(* Every access to an atomic counter, every critical section and every     *)
(* check/park/notify on a condition variable is a step of its own.  The    *)
(* two mutexes the waits are done under (futures_mutex and                 *)
(* pending_futures_mutex) are locked by the waiter only, never by the      *)
(* callback that notifies, and a batch has one user: they exclude nobody   *)
(* and are left out.                                                       *)
(***************************************************************************)
EXTENDS EventLoop, ReplyList

CONSTANTS
    Batches,
    Owner,          \* the thread that uses each batch
    MaxUnanswered,  \* g_max_redis_unanswered_commands, 1000 in the code
    MaxCommands,    \* bound: commands run through one batch
    Ndebug,         \* TRUE in a build without assertions
    None            \* no batch, no command, a null or default Reply

(* A command is named by its batch and its number among the batch's. *)
Commands == Batches \X (1..MaxCommands)

CONSTANT ErrorAnswers   \* the commands the server answers with an error

ASSUME BatchAssumption ==
    /\ IsFiniteSet(Threads)
    /\ IsFiniteSet(Batches)
    /\ Owner \in [Batches -> Threads]
    /\ MaxUnanswered \in Nat
    /\ MaxUnanswered > Cardinality(Threads)
    /\ MaxCommands \in Nat
    /\ Ndebug \in BOOLEAN
    /\ None \notin Batches \cup Commands
    /\ ErrorAnswers \subseteq Commands

BatchOf(c) == c[1]

VARIABLES
    pc,              \* where each thread is in the member function it called
    op,              \* what it does once the replies are in
    cur,             \* the batch it was called on
    issued,          \* commands run through each batch so far
    life,            \* the batch object
    local_pending,   \* LocalData::local_pending_futures, of each batch
    pending_futures, \* ThreadContext::pending_futures
    replies,         \* LocalData::replies, of each batch
    value,           \* the Reply in the node of each command
    stage,           \* how far the HiredisCallbackData of each command got
    cb,              \* the call of hiredis_run_callback() under way
    verdict,         \* how throw_if_failed() ended, until the batch's next call
    crashed          \* an assertion failed, or a null iterator was used

threadVars == <<pc, op, cur>>
dataVars == <<issued, life, local_pending, pending_futures, replies, value,
              stage, cb, verdict>>
batchVars == <<threadVars, dataVars, crashed>>
vars == <<loopVars, pipeVars, batchVars>>

Operations == {"replies", "throw", "reset", "destroy"}
NoCall == [at |-> "idle", cmd |-> None, ans |-> None]

At(t, s) == ~crashed /\ pc[t] = s
Goto(t, s) == pc' = [pc EXCEPT ![t] = s]
CurCmd(t) == <<cur[t], issued[cur[t]]>>
SetStage(c, s) == stage' = [stage EXCEPT ![c] = s]
Crash == crashed' = TRUE

Finish(t) ==
    /\ Goto(t, "idle")
    /\ op' = [op EXCEPT ![t] = None]
    /\ cur' = [cur EXCEPT ![t] = None]

-----------------------------------------------------------------------------
(* Command::make_batch(), which asserts is_connected(): in a build with    *)
(* assertions it fails once the context has an error or is gone.           *)
MakeBatch(t, b) ==
    /\ At(t, "idle")
    /\ Owner[b] = t
    /\ life[b] = "none"
    /\ \/ /\ link \in {"up", "closed"} \/ Ndebug
          /\ life' = [life EXCEPT ![b] = "live"]
          /\ UNCHANGED crashed
       \/ /\ link \in {"failing", "freed"} /\ ~Ndebug
          /\ Crash
          /\ UNCHANGED life
    /\ UNCHANGED <<loopVars, pipeVars, threadVars, issued, local_pending,
                   pending_futures, replies, value, stage, cb, verdict>>

-----------------------------------------------------------------------------
(* run_pvt(), up to the critical section.                                  *)

(* The command is counted in its batch ... *)
BeginRun(t, b) ==
    /\ At(t, "idle")
    /\ Owner[b] = t
    /\ life[b] = "live"
    /\ issued[b] < MaxCommands
    /\ Goto(t, "count")
    /\ cur' = [cur EXCEPT ![t] = b]
    /\ issued' = [issued EXCEPT ![b] = @ + 1]
    /\ local_pending' = [local_pending EXCEPT ![b] = @ + 1]
    /\ SetStage(<<b, issued[b] + 1>>, "local")
    /\ verdict' = [verdict EXCEPT ![b] = "none"]
    /\ UNCHANGED <<loopVars, pipeVars, op, life, pending_futures, replies,
                   value, cb, crashed>>

(* Mutant: the command is not counted. *)
CountCommand_NotCounted(t) ==
    /\ At(t, "count")
    /\ SetStage(CurCmd(t), "held")
    /\ Goto(t, IF pending_futures >= MaxUnanswered THEN "slot_check" ELSE "add")
    /\ UNCHANGED <<loopVars, pipeVars, op, cur, issued, life, local_pending,
                   pending_futures, replies, value, cb, verdict, crashed>>

(* Mutant: > for >=. *)
CountCommand_OffByOne(t) ==
    /\ At(t, "count")
    /\ pending_futures' = pending_futures + 1
    /\ SetStage(CurCmd(t), "held")
    /\ Goto(t, IF pending_futures > MaxUnanswered THEN "slot_check" ELSE "add")
    /\ UNCHANGED <<loopVars, pipeVars, op, cur, issued, life, local_pending,
                   replies, value, cb, verdict, crashed>>

(* ... then among those of the thread context, and it may have to wait for *)
(* a free slot.                                                            *)
CountCommand(t) ==
    /\ At(t, "count")
    /\ pending_futures' = pending_futures + 1
    /\ SetStage(CurCmd(t), "held")
    /\ Goto(t, IF pending_futures >= MaxUnanswered THEN "slot_check" ELSE "add")
    /\ UNCHANGED <<loopVars, pipeVars, op, cur, issued, life, local_pending,
                   replies, value, cb, verdict, crashed>>

(* free_cmd_slot.wait(): the predicate is evaluated, ... *)
CheckSlot(t) ==
    /\ At(t, "slot_check")
    /\ Goto(t, IF pending_futures < MaxUnanswered THEN "add" ELSE "slot_park")
    /\ UNCHANGED <<loopVars, pipeVars, op, cur, dataVars, crashed>>

(* ... and only then the thread joins the waiters, whom a notify reaches. *)
ParkForSlot(t) ==
    /\ At(t, "slot_park")
    /\ Goto(t, "slot_asleep")
    /\ UNCHANGED <<loopVars, pipeVars, op, cur, dataVars, crashed>>

(* replies.add(): the node the answer will be stored in. *)
AddNode(t) ==
    LET b == cur[t] IN
    /\ At(t, "add")
    /\ IF CanAdd(replies[b])
       THEN /\ replies' = [replies EXCEPT ![b] = AddReply(@, CurCmd(t))]
            /\ Goto(t, "push")
            /\ UNCHANGED crashed
       ELSE Crash /\ UNCHANGED <<replies, pc>>
    /\ UNCHANGED <<loopVars, pipeVars, op, cur, issued, life, local_pending,
                   pending_futures, value, stage, cb, verdict>>

-----------------------------------------------------------------------------
(* run_pvt(), the critical section and the wakeup.                         *)

(* redisAsyncCommandArgv() takes the callback, then the command. *)
PushCommand(t) ==
    /\ At(t, "push")
    /\ LockLibev(t)
    /\ link \in {"up", "closed"}
    /\ PushCallback(CurCmd(t))
    /\ SetStage(CurCmd(t), "hiredis")
    /\ Goto(t, "append")
    /\ UNCHANGED <<phase, ready, wakeup_sent, armed, obuf, wire, inbuf, link,
                   op, cur, issued, life, local_pending, pending_futures,
                   replies, value, cb, verdict, crashed>>

(* m_conn points to a context hiredis has freed: reading it may crash, or  *)
(* find the flags the context died with and return REDIS_ERR, which        *)
(* nothing looks at once the assertion is compiled out.                    *)
PushToFreed(t) ==
    /\ At(t, "push")
    /\ libev_mutex = Nobody
    /\ link = "freed"
    /\ \/ Crash /\ UNCHANGED pc
       \/ Ndebug /\ Goto(t, "wake") /\ UNCHANGED crashed
    /\ UNCHANGED <<loopVars, pipeVars, op, cur, dataVars>>

(* Mutant: wakeup_event_thread() is not called. *)
AppendAndUnlock_NoWakeup(t) ==
    /\ At(t, "append")
    /\ AppendCommand(CurCmd(t))
    /\ UnlockLibev(t)
    /\ Finish(t)
    /\ UNCHANGED <<phase, ready, wakeup_sent, armed, callbacks, wire, inbuf,
                   link, dataVars, crashed>>

AppendAndUnlock(t) ==
    /\ At(t, "append")
    /\ AppendCommand(CurCmd(t))
    /\ UnlockLibev(t)
    /\ Goto(t, "wake")
    /\ UNCHANGED <<phase, ready, wakeup_sent, armed, callbacks, wire, inbuf,
                   link, op, cur, dataVars, crashed>>

(* wakeup_event_thread(): ev_async_pending() is read without the mutex. *)
TestWakeup(t) ==
    /\ At(t, "wake")
    /\ IF wakeup_sent THEN Finish(t)
       ELSE Goto(t, "wake_send") /\ UNCHANGED <<op, cur>>
    /\ UNCHANGED <<loopVars, pipeVars, dataVars, crashed>>

WakeLoop(t) ==
    /\ At(t, "wake_send")
    /\ SendWakeup
    /\ Finish(t)
    /\ UNCHANGED <<libev_mutex, phase, ready, armed, pipeVars, dataVars, crashed>>

-----------------------------------------------------------------------------
(* replies(), and throw_if_failed(), reset() and ~Batch(), which all begin *)
(* with a call of it.                                                      *)

CallReplies(t, b, o) ==
    /\ At(t, "idle")
    /\ Owner[b] = t
    /\ life[b] = "live"
    /\ Goto(t, IF local_pending[b] = 0 THEN "return" ELSE "done_check")
    /\ op' = [op EXCEPT ![t] = o]
    /\ cur' = [cur EXCEPT ![t] = b]
    /\ verdict' = [verdict EXCEPT ![b] = "none"]
    /\ UNCHANGED <<loopVars, pipeVars, issued, life, local_pending,
                   pending_futures, replies, value, stage, cb, crashed>>

(* Mutant: the wait ends one reply early. *)
CheckDone_OneEarly(t) ==
    /\ At(t, "done_check")
    /\ Goto(t, IF local_pending[cur[t]] <= 1 THEN "return" ELSE "done_park")
    /\ UNCHANGED <<loopVars, pipeVars, op, cur, dataVars, crashed>>

(* no_more_pending_futures.wait(): the predicate, then the park. *)
CheckDone(t) ==
    /\ At(t, "done_check")
    /\ Goto(t, IF local_pending[cur[t]] = 0 THEN "return" ELSE "done_park")
    /\ UNCHANGED <<loopVars, pipeVars, op, cur, dataVars, crashed>>

ParkForReplies(t) ==
    /\ At(t, "done_park")
    /\ Goto(t, "done_asleep")
    /\ UNCHANGED <<loopVars, pipeVars, op, cur, dataVars, crashed>>

ReturnReplies(t) ==
    /\ At(t, "return") /\ op[t] = "replies"
    /\ Finish(t)
    /\ UNCHANGED <<loopVars, pipeVars, dataVars, crashed>>

(* Mutant: only the first reply is looked at. *)
AnyError_FirstOnly(list) ==
    RepliesOf(list) # <<>> /\ value[Head(RepliesOf(list))] \in ErrorAnswers

(* array_throw_if_failed() found an error among the replies. *)
AnyError(list) == \E c \in ToSet(RepliesOf(list)) : value[c] \in ErrorAnswers

ReturnThrowIfFailed(t) ==
    LET b == cur[t] IN
    /\ At(t, "return") /\ op[t] = "throw"
    /\ verdict' = [verdict EXCEPT ![b] =
                     IF AnyError(replies[b]) THEN "threw" ELSE "ok"]
    /\ Finish(t)
    /\ UNCHANGED <<loopVars, pipeVars, issued, life, local_pending,
                   pending_futures, replies, value, stage, cb, crashed>>

ReturnReset(t) ==
    /\ At(t, "return") /\ op[t] = "reset"
    /\ replies' = [replies EXCEPT ![cur[t]] = ClearReplies]
    /\ Finish(t)
    /\ UNCHANGED <<loopVars, pipeVars, issued, life, local_pending,
                   pending_futures, value, stage, cb, verdict, crashed>>

(* ~Batch() resets, then the LocalData goes with its counter and its       *)
(* condition variables.                                                    *)
ReturnDestroy(t) ==
    /\ At(t, "return") /\ op[t] = "destroy"
    /\ replies' = [replies EXCEPT ![cur[t]] = ClearReplies]
    /\ life' = [life EXCEPT ![cur[t]] = "dead"]
    /\ Finish(t)
    /\ UNCHANGED <<loopVars, pipeVars, issued, local_pending,
                   pending_futures, value, stage, cb, verdict, crashed>>

(* A wait may end without a notify; the predicate is evaluated again. *)
SpuriousWakeup(t) ==
    /\ \/ At(t, "slot_asleep") /\ Goto(t, "slot_check")
       \/ At(t, "done_asleep") /\ Goto(t, "done_check")
    /\ UNCHANGED <<loopVars, pipeVars, op, cur, dataVars, crashed>>

-----------------------------------------------------------------------------
(* hiredis_run_callback(), on the loop thread.                             *)

CallbackAt(s) == ~crashed /\ cb.at = s

(* hiredis takes the first callback off its list and calls it with the     *)
(* first answer it has, or with a null reply if the connection is lost;    *)
(* the thread context has one pending command less.                        *)
StartCallback ==
    /\ CallbackAt("idle")
    /\ phase = "dispatch"
    /\ callbacks # <<>>
    /\ callbacks' = Tail(callbacks)
    /\ \E ans \in Commands \cup {None} :
          /\ \/ /\ link \in {"up", "closed"}
                /\ "read" \in ready
                /\ inbuf # <<>>
                /\ ans = Head(inbuf)
                /\ inbuf' = Tail(inbuf)
             \/ link = "failing" /\ ans = None /\ UNCHANGED inbuf
          /\ cb' = [at  |-> IF pending_futures = MaxUnanswered
                            THEN "notify_slot" ELSE "store",
                    cmd |-> Head(callbacks),
                    ans |-> ans]
    /\ pending_futures' = pending_futures - 1
    /\ SetStage(Head(callbacks), "called")
    /\ UNCHANGED <<loopVars, obuf, wire, link, threadVars, issued, life,
                   local_pending, replies, value, verdict, crashed>>

(* notify_one() on a condition variable of b that one thread at most waits *)
(* on, the user of b.                                                      *)
Notify(b, asleep, awake) ==
    pc' = [t \in Threads |->
             IF pc[t] = asleep /\ cur[t] = b THEN awake ELSE pc[t]]

(* The free_cmd_slot of the batch whose answer it is. *)
NotifySlot ==
    /\ CallbackAt("notify_slot")
    /\ Notify(BatchOf(cb.cmd), "slot_asleep", "slot_check")
    /\ cb' = [cb EXCEPT !.at = "store"]
    /\ UNCHANGED <<loopVars, pipeVars, op, cur, issued, life, local_pending,
                   pending_futures, replies, value, stage, verdict, crashed>>

(* The reply goes to the node add() returned.  A null reply fails an       *)
(* assertion, or leaves the node as it was built.                          *)
StoreReply ==
    /\ CallbackAt("store")
    /\ \/ /\ cb.ans # None
          /\ value' = [value EXCEPT ![cb.cmd] = cb.ans]
          /\ cb' = [cb EXCEPT !.at = "settle"]
          /\ UNCHANGED crashed
       \/ /\ cb.ans = None /\ Ndebug
          /\ cb' = [cb EXCEPT !.at = "settle"]
          /\ UNCHANGED <<value, crashed>>
       \/ /\ cb.ans = None /\ ~Ndebug
          /\ Crash
          /\ UNCHANGED <<value, cb>>
    /\ UNCHANGED <<loopVars, pipeVars, threadVars, issued, life,
                   local_pending, pending_futures, replies, stage, verdict>>

(* The batch has one pending command less.  Unless it was the last, the    *)
(* HiredisCallbackData is deleted and the callback returns.                *)
SettleReply ==
    LET b == BatchOf(cb.cmd) IN
    /\ CallbackAt("settle")
    /\ local_pending' = [local_pending EXCEPT ![b] = @ - 1]
    /\ IF local_pending[b] = 1
       THEN cb' = [cb EXCEPT !.at = "notify_done"] /\ SetStage(cb.cmd, "settled")
       ELSE cb' = NoCall /\ SetStage(cb.cmd, "deleted")
    /\ UNCHANGED <<loopVars, pipeVars, threadVars, issued, life,
                   pending_futures, replies, value, verdict, crashed>>

(* The no_more_pending_futures of the batch, which its user may have       *)
(* destroyed since the counter reached zero.                               *)
NotifyDone ==
    /\ CallbackAt("notify_done")
    /\ Notify(BatchOf(cb.cmd), "done_asleep", "done_check")
    /\ cb' = NoCall
    /\ SetStage(cb.cmd, "deleted")
    /\ UNCHANGED <<loopVars, pipeVars, op, cur, issued, life, local_pending,
                   pending_futures, replies, value, verdict, crashed>>

-----------------------------------------------------------------------------
Init ==
    /\ LoopInit
    /\ pc = [t \in Threads |-> "idle"]
    /\ op = [t \in Threads |-> None]
    /\ cur = [t \in Threads |-> None]
    /\ issued = [b \in Batches |-> 0]
    /\ life = [b \in Batches |-> "none"]
    /\ local_pending = [b \in Batches |-> 0]
    /\ pending_futures = 0
    /\ replies = [b \in Batches |-> NewReplyList]
    /\ value = [c \in Commands |-> None]
    /\ stage = [c \in Commands |-> "unborn"]
    /\ cb = NoCall
    /\ verdict = [b \in Batches |-> "none"]
    /\ crashed = FALSE

(* What a thread does on its own once it has entered a member function. *)
Proceed(t) ==
    \/ CountCommand(t) \/ CheckSlot(t) \/ ParkForSlot(t) \/ AddNode(t)
    \/ PushCommand(t) \/ PushToFreed(t) \/ AppendAndUnlock(t)
    \/ TestWakeup(t) \/ WakeLoop(t)
    \/ CheckDone(t) \/ ParkForReplies(t)
    \/ ReturnReplies(t) \/ ReturnThrowIfFailed(t)
    \/ ReturnReset(t) \/ ReturnDestroy(t)

(* What the program asks of the library. *)
UserCall(t) == \E b \in Batches :
    \/ MakeBatch(t, b)
    \/ BeginRun(t, b)
    \/ \E o \in Operations : CallReplies(t, b, o)

RunCallback ==
    StartCallback \/ NotifySlot \/ StoreReply \/ SettleReply \/ NotifyDone

TurnLoop ==
    /\ CallbackAt("idle")
    /\ \/ FdReify \/ PollReturns \/ AcquireMutex
       \/ HandleWakeup \/ HandleWrite \/ SocketFails \/ FreeContext
       \/ ReadDone \/ EndDispatch
    /\ UNCHANGED batchVars

Serve == ~crashed /\ ServerAnswers /\ UNCHANGED batchVars

LoseLink == ~crashed /\ ServerCloses /\ UNCHANGED batchVars

(* The program may have ended: it crashed, or no batch is left and the     *)
(* loop has nothing to wait for but the halt that disconnect() sends.      *)
Ended ==
    /\ crashed \/ \A b \in Batches : life[b] # "live"
    /\ UNCHANGED vars

Next ==
    \/ \E t \in Threads : UserCall(t) \/ Proceed(t) \/ SpuriousWakeup(t)
    \/ RunCallback
    \/ TurnLoop
    \/ Serve
    \/ LoseLink
    \/ Ended

Spec == Init /\ [][Next]_vars

(* A running thread runs, and so do the loop thread and the server.  No    *)
(* user is made to call anything, no wait to end without its notify and no *)
(* connection to fail.                                                     *)
Fairness ==
    /\ \A t \in Threads : WF_vars(Proceed(t))
    /\ WF_vars(RunCallback)
    /\ WF_vars(TurnLoop)
    /\ WF_vars(Serve)

FairSpec == Spec /\ Fairness
=============================================================================
