----------------------------- MODULE AnswerProofs -----------------------------
(* Proofs about the way of an answer, on top of the invariant of           *)
(* BatchProofs.                                                            *)
EXTENDS AnswerInvariant, BatchProofs

USE DEF BatchOf

-----------------------------------------------------------------------------
(* The wakeup.                                                             *)

LEMMA WillWriteStep ==
  ASSUME IndInv, LoopWillWrite, [Next]_vars
  PROVE  LoopWillWrite'
  <1> USE DEF LoopWillWrite, At, Goto, Finish, loopVars, pipeVars, dataVars
  <1>0. ThreadTypeOK
    BY DEF IndInv, TypeOK
  <1>1. ASSUME NEW t \in Threads, UserCall(t)
        PROVE  LoopWillWrite'
    BY <1>0, <1>1 DEF UserCall, MakeBatch, BeginRun, CallReplies, ThreadTypeOK, threadVars
  <1>2. ASSUME NEW t \in Threads, Proceed(t)
        PROVE  LoopWillWrite'
    <2>1. CASE AppendAndUnlock(t)
      BY <1>0, <2>1 DEF AppendAndUnlock, ThreadTypeOK
    <2>2. CASE TestWakeup(t)
      BY <1>0, <2>2 DEF TestWakeup, ThreadTypeOK
    <2>3. CASE WakeLoop(t)
      BY <2>3 DEF WakeLoop, SendWakeup
    <2>4. CASE CountCommand(t) \/ CheckSlot(t) \/ ParkForSlot(t) \/ AddNode(t)
      BY <1>0, <2>4 DEF CountCommand, CheckSlot, ParkForSlot, AddNode, ThreadTypeOK
    <2>5. CASE PushCommand(t) \/ PushToFreed(t) \/ CheckDone(t) \/ ParkForReplies(t)
      BY <1>0, <2>5
      DEF PushCommand, PushToFreed, CheckDone, ParkForReplies, ThreadTypeOK
    <2>6. CASE ReturnReplies(t) \/ ReturnThrowIfFailed(t) \/ ReturnReset(t) \/ ReturnDestroy(t)
      BY <1>0, <2>6
      DEF ReturnReplies, ReturnThrowIfFailed, ReturnReset, ReturnDestroy, ThreadTypeOK
    <2> QED
      BY <1>2, <2>1, <2>2, <2>3, <2>4, <2>5, <2>6 DEF Proceed
  <1>3. ASSUME NEW t \in Threads, SpuriousWakeup(t)
        PROVE  LoopWillWrite'
    BY <1>0, <1>3 DEF SpuriousWakeup, ThreadTypeOK
  <1>4. CASE RunCallback
    <2>1. \A t \in Threads : pc[t] \in {"wake", "wake_send"} => pc'[t] = pc[t]
      BY <1>4 DEF RunCallback, StartCallback, NotifySlot, StoreReply, SettleReply,
                  NotifyDone, Notify, threadVars
    <2>2. UNCHANGED <<phase, obuf, armed, wakeup_sent>>
      BY <1>4 DEF RunCallback, StartCallback, NotifySlot, StoreReply, SettleReply,
                  NotifyDone
    <2> QED
      BY <2>1, <2>2
  <1>5. CASE TurnLoop
    <2>1. pc' = pc
      BY <1>5 DEF TurnLoop, batchVars, threadVars
    <2>2. CASE FdReify
      BY <2>1, <2>2 DEF FdReify
    <2>3. CASE ~FdReify
      BY <1>5, <2>1, <2>3
      DEF TurnLoop, PollReturns, AcquireMutex, HandleWakeup, HandleWrite,
          SocketFails, FreeContext, ReadDone, EndDispatch
    <2> QED
      BY <2>2, <2>3
  <1>6. CASE Serve \/ LoseLink \/ UNCHANGED vars
    BY <1>6 DEF Serve, LoseLink, ServerAnswers, ServerCloses, vars, batchVars, threadVars
  <1> QED
    BY <1>1, <1>2, <1>3, <1>4, <1>5, <1>6 DEF Next, Ended

(* A command appended while the loop is blocked never stays in the buffer  *)
(* unnoticed, whichever thread reads the flag of the wakeup when.          *)
THEOREM WakeupReachesLoop == Spec => []LoopWillWrite
  <1>1. Init => LoopWillWrite
    BY DEF Init, LoopInit, LoopWillWrite
  <1>2. IndInv /\ LoopWillWrite /\ [Next]_vars => LoopWillWrite'
    BY WillWriteStep
  <1> QED
    BY <1>1, <1>2, Invariance, PTL DEF Spec

-----------------------------------------------------------------------------
(* The list.                                                               *)

(* A thread in run_pvt() whose command is not listed yet. *)
Listing(t) == pc[t] \in {"count", "slot_check", "slot_park", "slot_asleep", "add"}

LEMMA RanIs ==
  ASSUME NEW b
  PROVE  /\ Ran(b) = IF \E t \in Threads : cur[t] = b /\ Listing(t)
                     THEN issued[b] - 1 ELSE issued[b]
         /\ Ran(b)' = IF \E t \in Threads : cur'[t] = b /\ Listing(t)'
                      THEN issued'[b] - 1 ELSE issued'[b]
  BY DEF Ran, Listing

(* Steps that list nothing. *)
LEMMA ListKept ==
  ASSUME ListInOrder, UNCHANGED <<issued, replies>>,
         \A t \in Threads : Listing(t)' <=> Listing(t),
         \A t \in Threads : Listing(t) => cur'[t] = cur[t]
  PROVE  ListInOrder'
  <1>1. \A b \in Batches : Ran(b)' = Ran(b)
    BY RanIs
  <1> QED
    BY <1>1 DEF ListInOrder

(* A thread in a member function has its batch to itself.                  *)
LEMMA OwnBatch ==
  ASSUME IndInv, NEW t \in Threads, pc[t] # "idle"
  PROVE  /\ cur[t] \in Batches
         /\ \A u \in Threads : pc[u] # "idle" /\ u # t => cur[u] # cur[t]
  BY OwnCommand DEF IndInv, ThreadInv, ThreadOK

LEMMA AddNodeLists ==
  ASSUME IndInv, NEW t \in Threads, AddNode(t), CanAdd(replies[cur[t]])
  PROVE  /\ cur[t] \in Batches /\ CurCmd(t) \in Commands
         /\ replies[cur[t]].nodes \in Seq(Commands)
         /\ replies' = [replies EXCEPT ![cur[t]] =
               [nodes |-> Append(replies[cur[t]].nodes, CurCmd(t)),
                next  |-> Len(replies[cur[t]].nodes) + 1,
                size  |-> Len(replies[cur[t]].nodes) + 1]]
         /\ pc[t] = "add" /\ pc' = [pc EXCEPT ![t] = "push"]
         /\ UNCHANGED <<cur, issued, stage>>
  <1> DEFINE b == cur[t]
             c == CurCmd(t)
  <1>1. c \in Commands /\ b \in Batches
    BY OwnCommand DEF IndInv, ThreadInv, ThreadOK, InRun, AddNode, At
  <1>2. /\ replies[b].nodes \in Seq(Commands)
        /\ replies[b].size = Len(replies[b].nodes)
        /\ replies[b].next = Len(replies[b].nodes)
    BY <1>1 DEF IndInv, TypeOK, DataTypeOK, ListInv, CanAdd
  <1>3. AddReply(replies[b], c) =
             [nodes |-> Append(replies[b].nodes, c),
              next  |-> Len(replies[b].nodes) + 1,
              size  |-> Len(replies[b].nodes) + 1]
    BY <1>1, <1>2, AddsAtEnd DEF AddReply
  <1> QED
    BY <1>1, <1>2, <1>3 DEF AddNode, At, Goto

LEMMA ListClears ==
  ASSUME IndInv, ListInOrder, NEW t \in Threads, pc[t] = "return",
         replies' = [replies EXCEPT ![cur[t]] = ClearReplies],
         issued' = issued, Finish(t)
  PROVE  ListInOrder'
  <1>1. \A b \in Batches \ {cur[t]} : Ran(b)' = Ran(b)
    BY RanIs DEF IndInv, TypeOK, ThreadTypeOK, Listing, Finish, Goto
  <1>2. replies \in [Batches -> [nodes : Seq(Commands), next : Nat \cup {End}, size : Nat]]
    BY DEF IndInv, TypeOK, DataTypeOK
  <1> SUFFICES ASSUME NEW b \in Batches PROVE ListInOrder!(b)'
    BY DEF ListInOrder
  <1>3. CASE b = cur[t]
    BY <1>2, <1>3, EmptySeq DEF ListInOrder, ClearReplies
  <1>4. CASE b # cur[t]
    BY <1>1, <1>2, <1>4 DEF ListInOrder
  <1> QED
    BY <1>3, <1>4

LEMMA ListStep ==
  ASSUME IndInv, ListInOrder, [Next]_vars
  PROVE  ListInOrder'
  <1> USE DEF At, Goto, Finish, dataVars, threadVars
  <1>0. ThreadTypeOK /\ DataTypeOK
    BY DEF IndInv, TypeOK
  <1>1. ASSUME NEW t \in Threads, NEW b \in Batches, BeginRun(t, b)
        PROVE  ListInOrder'
    <2>1. \A u \in Threads : pc[u] # "idle" => cur[u] # b
      BY <1>1 DEF BeginRun, IndInv, ThreadInv, ThreadOK
    <2>2. /\ pc' = [pc EXCEPT ![t] = "count"] /\ cur' = [cur EXCEPT ![t] = b]
          /\ issued' = [issued EXCEPT ![b] = issued[b] + 1] /\ pc[t] = "idle"
          /\ replies' = replies
      BY <1>1 DEF BeginRun
    <2>3. Ran(b)' = Ran(b)
      <3>1. Ran(b) = issued[b]
        BY <2>1, RanIs DEF Listing
      <3>2. cur'[t] = b /\ Listing(t)'
        BY <1>0, <2>2 DEF ThreadTypeOK, Listing
      <3>3. Ran(b)' = issued'[b] - 1
        BY <3>2, RanIs
      <3> QED
        BY <1>0, <2>2, <3>1, <3>3 DEF DataTypeOK
    <2>4. ASSUME NEW a \in Batches, a # b PROVE Ran(a)' = Ran(a)
      <3>1. issued'[a] = issued[a]
        BY <1>0, <2>2, <2>4 DEF DataTypeOK
      <3>2. \A u \in Threads : cur'[u] = a /\ Listing(u)' <=> cur[u] = a /\ Listing(u)
        BY <1>0, <2>2, <2>4 DEF ThreadTypeOK, Listing
      <3> QED
        BY <3>1, <3>2, RanIs
    <2> QED
      BY <2>2, <2>3, <2>4 DEF ListInOrder
  <1>2. ASSUME NEW t \in Threads, UserCall(t)
        PROVE  ListInOrder'
    <2>1. ASSUME NEW b \in Batches, MakeBatch(t, b)
          PROVE  ListInOrder'
      BY <2>1, ListKept DEF MakeBatch, Listing
    <2>2. ASSUME NEW b \in Batches, NEW o \in Operations, CallReplies(t, b, o)
          PROVE  ListInOrder'
      BY <1>0, <2>2, ListKept DEF CallReplies, ThreadTypeOK, Listing
    <2> QED
      BY <1>1, <1>2, <2>1, <2>2 DEF UserCall
  <1>3. ASSUME NEW t \in Threads, AddNode(t)
        PROVE  ListInOrder'
    <2>1. CASE ~CanAdd(replies[cur[t]])
      BY <1>3, <2>1, ListKept DEF AddNode, Listing
    <2>2. CASE CanAdd(replies[cur[t]])
      <3>0. PICK b \in Batches : b = cur[t]
        BY <1>3, <2>2, AddNodeLists
      <3> DEFINE s == replies[b].nodes
      <3>1. /\ b \in Batches /\ CurCmd(t) \in Commands /\ s \in Seq(Commands)
            /\ replies' = [replies EXCEPT ![b] =
                  [nodes |-> Append(s, CurCmd(t)),
                   next  |-> Len(s) + 1, size  |-> Len(s) + 1]]
            /\ pc[t] = "add" /\ pc' = [pc EXCEPT ![t] = "push"]
            /\ UNCHANGED <<cur, issued>>
        BY <1>3, <2>2, <3>0, AddNodeLists
      <3>2. \A u \in Threads : pc[u] # "idle" /\ u # t => cur[u] # b
        BY <3>0, <3>1, OwnBatch
      <3>3. Ran(b) = issued[b] - 1 /\ Ran(b)' = issued[b] /\ issued[b] \in Nat
        <4>1. Ran(b) = issued[b] - 1
          BY <3>0, <3>1, RanIs DEF Listing
        <4>2. ~\E u \in Threads : cur'[u] = b /\ Listing(u)'
          BY <1>0, <3>0, <3>1, <3>2 DEF ThreadTypeOK, Listing
        <4>3. Ran(b)' = issued'[b]
          BY <4>2, RanIs
        <4> QED
          BY <1>0, <3>1, <4>1, <4>3, BatchAssumption DEF DataTypeOK
      <3>4. ASSUME NEW a \in Batches, a # b PROVE Ran(a)' = Ran(a)
        <4>1. \A u \in Threads : cur'[u] = a /\ Listing(u)' <=> cur[u] = a /\ Listing(u)
          BY <1>0, <3>0, <3>1, <3>4 DEF ThreadTypeOK, Listing
        <4> QED
          BY <3>1, <4>1, RanIs
      <3>5. /\ Len(Append(s, CurCmd(t))) = Len(s) + 1
            /\ \A i \in 1..Len(s) : Append(s, CurCmd(t))[i] = s[i]
            /\ Append(s, CurCmd(t))[Len(s) + 1] = <<b, issued[b]>>
            /\ Len(s) \in Nat
        BY <3>0, <3>1, AppendProperties, LenProperties DEF CurCmd
      <3>6. /\ replies[b].size = Len(s)
            /\ \A i \in 1..Len(s) : s[i] = <<b, Ran(b) - Len(s) + i>>
        BY <3>1 DEF ListInOrder
      <3>7. \A i \in 1..(Len(s) + 1) :
               Append(s, CurCmd(t))[i] = <<b, issued[b] - (Len(s) + 1) + i>>
        <4> TAKE i \in 1..(Len(s) + 1)
        <4>1. CASE i = Len(s) + 1
          <5>1. issued[b] - (Len(s) + 1) + i = issued[b]
            BY <3>3, <3>5, <4>1
          <5> QED
            BY <3>5, <4>1, <5>1
        <4>2. CASE i # Len(s) + 1
          <5>1. i \in 1..Len(s)
            BY <3>5, <4>2
          <5>2. (issued[b] - 1) - Len(s) + i = issued[b] - (Len(s) + 1) + i
            <6>1. i \in Nat /\ Len(s) \in Nat /\ issued[b] \in Nat
              BY <3>3, <3>5
            <6> HIDE DEF s
            <6> QED
              BY <6>1
          <5> QED
            BY <3>3, <3>5, <3>6, <5>1, <5>2
        <4> QED
          BY <4>1, <4>2
      <3> SUFFICES ASSUME NEW a \in Batches PROVE ListInOrder!(a)'
        BY DEF ListInOrder
      <3>8. CASE a = b
        <4>1. replies'[b] = [nodes |-> Append(s, CurCmd(t)),
                             next  |-> Len(s) + 1, size  |-> Len(s) + 1]
          BY <1>0, <3>1 DEF DataTypeOK
        <4>2. /\ replies'[a].nodes = Append(s, CurCmd(t))
              /\ replies'[a].size = Len(s) + 1
              /\ Ran(a)' = issued[b]
          BY <3>3, <3>8, <4>1
        <4> QED
          BY <3>5, <3>7, <3>8, <4>2
      <3>9. CASE a # b
        BY <1>0, <3>1, <3>4, <3>9 DEF DataTypeOK, ListInOrder
      <3> QED
        BY <3>8, <3>9
    <2> QED
      BY <2>1, <2>2
  <1>4. ASSUME NEW t \in Threads, Proceed(t)
        PROVE  ListInOrder'
    <2>1. CASE CountCommand(t) \/ CheckSlot(t) \/ ParkForSlot(t)
      BY <1>0, <2>1, ListKept
      DEF CountCommand, CheckSlot, ParkForSlot, ThreadTypeOK, Listing
    <2>2. CASE PushCommand(t) \/ PushToFreed(t) \/ AppendAndUnlock(t)
      BY <1>0, <2>2, ListKept
      DEF PushCommand, PushToFreed, AppendAndUnlock, ThreadTypeOK, Listing
    <2>3. CASE TestWakeup(t) \/ WakeLoop(t) \/ CheckDone(t) \/ ParkForReplies(t)
      BY <1>0, <2>3, ListKept
      DEF TestWakeup, WakeLoop, CheckDone, ParkForReplies, ThreadTypeOK, Listing
    <2>4. CASE ReturnReplies(t) \/ ReturnThrowIfFailed(t)
      BY <1>0, <2>4, ListKept
      DEF ReturnReplies, ReturnThrowIfFailed, ThreadTypeOK, Listing
    <2>5. CASE ReturnReset(t) \/ ReturnDestroy(t)
      BY <2>5, ListClears DEF ReturnReset, ReturnDestroy
    <2> QED
      BY <1>3, <1>4, <2>1, <2>2, <2>3, <2>4, <2>5 DEF Proceed
  <1>5. ASSUME NEW t \in Threads, SpuriousWakeup(t)
        PROVE  ListInOrder'
    BY <1>0, <1>5, ListKept DEF SpuriousWakeup, ThreadTypeOK, Listing
  <1>6. CASE RunCallback
    BY <1>0, <1>6, ListKept
    DEF RunCallback, StartCallback, NotifySlot, StoreReply, SettleReply,
        NotifyDone, Notify, ThreadTypeOK, Listing
  <1>7. CASE TurnLoop \/ Serve \/ LoseLink \/ UNCHANGED vars
    BY <1>7, ListKept DEF TurnLoop, Serve, LoseLink, vars, batchVars, Listing
  <1> QED
    BY <1>2, <1>4, <1>5, <1>6, <1>7 DEF Next, Ended

(* The list of a batch is its commands in the order they were run, none    *)
(* missing, whatever the other threads do.                                 *)
THEOREM ListsInOrder == Spec => []ListInOrder
  <1>1. Init => ListInOrder
    BY EmptySeq DEF Init, ListInOrder, NewReplyList
  <1>2. IndInv /\ ListInOrder /\ [Next]_vars => ListInOrder'
    BY ListStep
  <1> QED
    BY <1>1, <1>2, Invariance, PTL DEF Spec

-----------------------------------------------------------------------------
(* The nodes.                                                              *)

LEMMA SetOfAppend ==
  ASSUME NEW s \in Seq(Commands), NEW c \in Commands
  PROVE  ToSet(Append(s, c)) = ToSet(s) \cup {c}
  <1>1. /\ DOMAIN s = 1..Len(s) /\ Len(s) \in Nat
        /\ DOMAIN Append(s, c) = 1..(Len(s) + 1)
        /\ \A i \in 1..Len(s) : Append(s, c)[i] = s[i]
        /\ Append(s, c)[Len(s) + 1] = c
    BY AppendProperties, LenProperties
  <1>2. 1..(Len(s) + 1) = (1..Len(s)) \cup {Len(s) + 1}
    BY <1>1
  <1> QED
    BY <1>1, <1>2 DEF ToSet

(* A batch that counts no command has none under way. *)
LEMMA AtRest ==
  ASSUME IndInv, NEW c \in Commands, local_pending[c[1]] = 0
  PROVE  stage[c] \in {"unborn", "settled", "deleted"}
  <1>1. stage[c] \in Stages
    BY DEF IndInv, TypeOK, DataTypeOK, Stages
  <1> QED
    BY <1>1, CountersPositive DEF IndInv, Stages

(* The first callback hiredis lists is of a command it holds. *)
LEMMA FirstIsHiredis ==
  ASSUME IndInv, callbacks # <<>>
  PROVE  Head(callbacks) \in Commands /\ stage[Head(callbacks)] = "hiredis"
  <1>1. /\ Head(callbacks) \in Commands /\ Head(callbacks) = callbacks[1]
        /\ Len(callbacks) \in Nat /\ Len(callbacks) >= 1
    BY HeadTailProperties, EmptySeq DEF IndInv, TypeOK, LoopTypeOK
  <1> QED
    BY <1>1 DEF IndInv, QueueInv

LEMMA NodesKept ==
  ASSUME NodeInv, UNCHANGED replies,
         \A c \in Commands : stage'[c] \in {"hiredis", "called"} =>
             stage[c] \in {"hiredis", "called"},
         \A t \in Threads : pc'[t] = "push" =>
             pc[t] = "push" /\ cur'[t] = cur[t] /\ issued'[cur[t]] = issued[cur[t]]
  PROVE  NodeInv'
  BY DEF NodeInv, InStage, CurCmd

LEMMA NodesClear ==
  ASSUME IndInv, NodeInv, NEW t \in Threads, pc[t] = "return",
         replies' = [replies EXCEPT ![cur[t]] = ClearReplies],
         UNCHANGED <<issued, stage>>, Finish(t)
  PROVE  NodeInv'
  <1>1. /\ cur[t] \in Batches /\ local_pending[cur[t]] = 0
        /\ \A u \in Threads : pc[u] # "idle" /\ u # t => cur[u] # cur[t]
    BY OwnBatch DEF IndInv, ThreadInv, ThreadOK
  <1>2. ASSUME NEW c \in InStage({"hiredis", "called"})
        PROVE  c[1] # cur[t] /\ c[1] \in Batches /\ c \in Commands
    BY <1>1, <1>2, AtRest DEF InStage, Commands
  <1>3. InStage({"hiredis", "called"})' = InStage({"hiredis", "called"})
    BY DEF InStage
  <1>4. \A b \in Batches : b # cur[t] => replies'[b] = replies[b]
    BY DEF IndInv, TypeOK, DataTypeOK
  <1>5. \A c \in InStage({"hiredis", "called"})' : c \in ToSet(replies[BatchOf(c)].nodes)'
    BY <1>2, <1>3, <1>4 DEF NodeInv
  <1>6. ASSUME NEW u \in Threads, pc'[u] = "push"
        PROVE  CurCmd(u)' \in ToSet(replies[cur[u]].nodes)'
    <2>1. u # t /\ pc[u] = "push" /\ cur'[u] = cur[u]
      BY <1>6 DEF Finish, Goto, IndInv, TypeOK, ThreadTypeOK
    <2>2. cur[u] # cur[t] /\ cur[u] \in Batches
      BY <1>1, <2>1, OwnBatch
    <2> QED
      BY <1>4, <2>1, <2>2 DEF NodeInv, CurCmd
  <1> QED
    BY <1>5, <1>6 DEF NodeInv

LEMMA NodeStep ==
  ASSUME IndInv, NodeInv, [Next]_vars
  PROVE  NodeInv'
  <1> USE DEF At, Goto, Finish, dataVars, threadVars
  <1>0. ThreadTypeOK /\ DataTypeOK
    BY DEF IndInv, TypeOK
  <1>1. ASSUME NEW t \in Threads, UserCall(t)
        PROVE  NodeInv'
    <2>1. ASSUME NEW b \in Batches, MakeBatch(t, b)
          PROVE  NodeInv'
      BY <2>1, NodesKept DEF MakeBatch
    <2>2. ASSUME NEW b \in Batches, NEW o \in Operations, CallReplies(t, b, o)
          PROVE  NodeInv'
      BY <1>0, <2>2, NodesKept DEF CallReplies, ThreadTypeOK
    <2>3. ASSUME NEW b \in Batches, BeginRun(t, b)
          PROVE  NodeInv'
      <3>1. \A u \in Threads : pc[u] # "idle" => cur[u] \in Batches /\ cur[u] # b
        BY <2>3 DEF BeginRun, IndInv, ThreadInv, ThreadOK
      <3>2. \A c \in Commands : stage'[c] \in {"hiredis", "called"} =>
               stage[c] \in {"hiredis", "called"}
        BY <1>0, <2>3 DEF BeginRun, DataTypeOK, SetStage
      <3>3. \A u \in Threads : pc'[u] = "push" =>
               pc[u] = "push" /\ cur'[u] = cur[u] /\ issued'[cur[u]] = issued[cur[u]]
        BY <1>0, <2>3, <3>1 DEF BeginRun, ThreadTypeOK, DataTypeOK
      <3> QED
        BY <2>3, <3>2, <3>3, NodesKept DEF BeginRun
    <2> QED
      BY <1>1, <2>1, <2>2, <2>3 DEF UserCall
  <1>2. ASSUME NEW t \in Threads, AddNode(t)
        PROVE  NodeInv'
    <2>1. CASE ~CanAdd(replies[cur[t]])
      BY <1>2, <2>1, NodesKept DEF AddNode
    <2>2. CASE CanAdd(replies[cur[t]])
      <3>1. PICK b \in Batches : b = cur[t]
        BY <1>2, <2>2, AddNodeLists
      <3> DEFINE s == replies[b].nodes
      <3>2. /\ CurCmd(t) \in Commands /\ s \in Seq(Commands)
            /\ replies' = [replies EXCEPT ![b] =
                  [nodes |-> Append(s, CurCmd(t)),
                   next  |-> Len(s) + 1, size  |-> Len(s) + 1]]
            /\ pc[t] = "add" /\ pc' = [pc EXCEPT ![t] = "push"]
            /\ UNCHANGED <<cur, issued, stage>>
        BY <1>2, <2>2, <3>1, AddNodeLists
      <3>3. replies'[b].nodes = Append(s, CurCmd(t))
        BY <1>0, <3>2 DEF DataTypeOK
      <3>4. ToSet(replies'[b].nodes) = ToSet(s) \cup {CurCmd(t)}
        BY <3>2, <3>3, SetOfAppend
      <3>5. \A a \in Batches : a # b => replies'[a] = replies[a]
        BY <1>0, <3>2 DEF DataTypeOK
      <3>6. \A a \in Batches : ToSet(replies[a].nodes) \subseteq ToSet(replies'[a].nodes)
        BY <3>4, <3>5
      <3>7. \A c \in InStage({"hiredis", "called"})' :
               c \in ToSet(replies'[BatchOf(c)].nodes)
        BY <3>2, <3>6 DEF NodeInv, InStage, Commands
      <3>8. ASSUME NEW u \in Threads, pc'[u] = "push"
            PROVE  CurCmd(u)' \in ToSet(replies'[cur'[u]].nodes)
        <4>1. CurCmd(u)' = CurCmd(u) /\ cur'[u] = cur[u]
          BY <3>2 DEF CurCmd
        <4>2. CASE u = t
          BY <3>1, <3>4, <4>1, <4>2
        <4>3. CASE u # t
          <5>1. pc[u] = "push"
            BY <1>0, <3>2, <3>8, <4>3 DEF ThreadTypeOK
          <5>2. cur[u] \in Batches
            BY <5>1, OwnBatch
          <5> QED
            BY <3>6, <4>1, <5>1, <5>2 DEF NodeInv
        <4> QED
          BY <4>2, <4>3
      <3> QED
        BY <3>7, <3>8 DEF NodeInv
    <2> QED
      BY <2>1, <2>2
  <1>3. ASSUME NEW t \in Threads, PushCommand(t)
        PROVE  NodeInv'
    <2>1. /\ CurCmd(t) \in Commands /\ CurCmd(t)[1] = cur[t]
          /\ CurCmd(t) \in ToSet(replies[cur[t]].nodes)
      BY <1>3, OwnCommand DEF PushCommand, IndInv, InRun, NodeInv
    <2>2. /\ \A c \in Commands : stage'[c] = IF c = CurCmd(t) THEN "hiredis" ELSE stage[c]
          /\ UNCHANGED <<replies, issued, cur>>
      BY <1>0, <1>3, <2>1 DEF PushCommand, DataTypeOK, SetStage
    <2>3. \A u \in Threads : pc'[u] = "push" => pc[u] = "push"
      BY <1>0, <1>3 DEF PushCommand, ThreadTypeOK
    <2> QED
      BY <2>1, <2>2, <2>3 DEF NodeInv, InStage, CurCmd
  <1>4. ASSUME NEW t \in Threads, Proceed(t)
        PROVE  NodeInv'
    <2>1. CASE CountCommand(t)
      <3>1. \A c \in Commands : stage'[c] \in {"hiredis", "called"} =>
               stage[c] \in {"hiredis", "called"}
        BY <1>0, <2>1 DEF CountCommand, DataTypeOK, SetStage
      <3> QED
        BY <1>0, <2>1, <3>1, NodesKept DEF CountCommand, ThreadTypeOK
    <2>2. CASE CheckSlot(t) \/ ParkForSlot(t) \/ CheckDone(t) \/ ParkForReplies(t)
      BY <1>0, <2>2, NodesKept
      DEF CheckSlot, ParkForSlot, CheckDone, ParkForReplies, ThreadTypeOK
    <2>3. CASE PushToFreed(t) \/ AppendAndUnlock(t) \/ TestWakeup(t) \/ WakeLoop(t)
      BY <1>0, <2>3, NodesKept
      DEF PushToFreed, AppendAndUnlock, TestWakeup, WakeLoop, ThreadTypeOK
    <2>4. CASE ReturnReplies(t) \/ ReturnThrowIfFailed(t)
      BY <1>0, <2>4, NodesKept
      DEF ReturnReplies, ReturnThrowIfFailed, ThreadTypeOK
    <2>5. CASE ReturnReset(t) \/ ReturnDestroy(t)
      BY <2>5, NodesClear DEF ReturnReset, ReturnDestroy
    <2> QED
      BY <1>2, <1>3, <1>4, <2>1, <2>2, <2>3, <2>4, <2>5 DEF Proceed
  <1>5. ASSUME NEW t \in Threads, SpuriousWakeup(t)
        PROVE  NodeInv'
    BY <1>0, <1>5, NodesKept DEF SpuriousWakeup, ThreadTypeOK
  <1>6. CASE RunCallback
    <2>1. \A c \in Commands : stage'[c] \in {"hiredis", "called"} =>
             stage[c] \in {"hiredis", "called"}
      <3>1. CASE StartCallback
        <4>1. Head(callbacks) \in Commands /\ stage[Head(callbacks)] = "hiredis"
          BY <3>1, FirstIsHiredis DEF StartCallback
        <4> QED
          BY <1>0, <3>1, <4>1 DEF StartCallback, DataTypeOK, SetStage
      <3>2. CASE NotifySlot \/ StoreReply
        BY <3>2 DEF NotifySlot, StoreReply
      <3>3. CASE SettleReply \/ NotifyDone
        BY <1>0, <3>3 DEF SettleReply, NotifyDone, DataTypeOK, SetStage
      <3> QED
        BY <1>6, <3>1, <3>2, <3>3 DEF RunCallback
    <2>2. UNCHANGED <<replies, issued, cur>> /\ \A t \in Threads : pc'[t] = "push" => pc[t] = "push"
      BY <1>6 DEF RunCallback, StartCallback, NotifySlot, StoreReply, SettleReply,
                  NotifyDone, Notify
    <2> QED
      BY <2>1, <2>2, NodesKept
  <1>7. CASE TurnLoop \/ Serve \/ LoseLink \/ UNCHANGED vars
    BY <1>7, NodesKept DEF TurnLoop, Serve, LoseLink, vars, batchVars
  <1> QED
    BY <1>1, <1>4, <1>5, <1>6, <1>7 DEF Next, Ended

(* A callback that stores its reply finds the node add() returned and the  *)
(* batch alive, for reset() and ~Batch() have waited for it.               *)
THEOREM NodesOutliveCallbacks == Spec => []StoresFindTheirNode
  <1>1. Init => NodeInv
    BY DEF Init, NodeInv, InStage
  <1>2. IndInv /\ NodeInv /\ [Next]_vars => NodeInv'
    BY NodeStep
  <1>3. IndInv /\ NodeInv => StoresFindTheirNode
    BY DEF IndInv, StageInv, NodeInv, StoresFindTheirNode, InStage
  <1> QED
    BY <1>1, <1>2, <1>3, Invariance, PTL DEF Spec

-----------------------------------------------------------------------------
(* The pipeline.                                                           *)

InFlight == inbuf \o wire \o obuf

LEMMA InFlightType ==
  ASSUME IndInv
  PROVE  /\ inbuf \in Seq(Commands) /\ wire \in Seq(Commands) /\ obuf \in Seq(Commands)
         /\ callbacks \in Seq(Commands)
         /\ inbuf \o wire \in Seq(Commands)
         /\ InFlight \in Seq(Commands)
  BY ConcatProperties DEF IndInv, TypeOK, LoopTypeOK, InFlight

(* The head of a sequence moves to the end of the one before it. *)
LEMMA HeadMoves ==
  ASSUME NEW s \in Seq(Commands), NEW u \in Seq(Commands), u # <<>>
  PROVE  /\ Append(s, Head(u)) \in Seq(Commands) /\ Tail(u) \in Seq(Commands)
         /\ Append(s, Head(u)) \o Tail(u) = s \o u
  <1>1. /\ Head(u) \in Commands /\ Head(u) = u[1] /\ Tail(u) \in Seq(Commands)
        /\ Len(Tail(u)) = Len(u) - 1
        /\ \A i \in 1..Len(Tail(u)) : Tail(u)[i] = u[i + 1]
        /\ Len(u) \in Nat \ {0} /\ Len(s) \in Nat
    BY HeadTailProperties, EmptySeq, LenProperties
  <1> DEFINE a == Append(s, Head(u))
  <1>2. /\ a \in Seq(Commands) /\ Len(a) = Len(s) + 1
        /\ \A i \in 1..Len(s) : a[i] = s[i]
        /\ a[Len(s) + 1] = u[1]
    BY <1>1, AppendProperties
  <1>3. /\ a \o Tail(u) \in Seq(Commands)
        /\ Len(a \o Tail(u)) = Len(a) + Len(Tail(u))
        /\ \A i \in 1..(Len(a) + Len(Tail(u))) :
              (a \o Tail(u))[i] = IF i <= Len(a) THEN a[i] ELSE Tail(u)[i - Len(a)]
    BY <1>1, <1>2, ConcatProperties
  <1>4. /\ s \o u \in Seq(Commands)
        /\ Len(s \o u) = Len(s) + Len(u)
        /\ \A i \in 1..(Len(s) + Len(u)) :
              (s \o u)[i] = IF i <= Len(s) THEN s[i] ELSE u[i - Len(s)]
    BY ConcatProperties
  <1>5. ASSUME NEW i \in 1..(Len(s) + Len(u))
        PROVE  (a \o Tail(u))[i] = (s \o u)[i]
    <2>1. (a \o Tail(u))[i] = IF i <= Len(a) THEN a[i] ELSE Tail(u)[i - Len(a)]
      BY <1>1, <1>2, <1>3
    <2>2. (s \o u)[i] = IF i <= Len(s) THEN s[i] ELSE u[i - Len(s)]
      BY <1>4
    <2> HIDE DEF a
    <2>3. CASE i <= Len(s)
      BY <1>1, <1>2, <2>1, <2>2, <2>3
    <2>4. CASE i = Len(s) + 1
      BY <1>1, <1>2, <2>1, <2>2, <2>4
    <2>5. CASE i > Len(s) + 1
      <3>1. i - Len(a) \in 1..Len(Tail(u)) /\ (i - Len(a)) + 1 = i - Len(s)
        BY <1>1, <1>2, <2>5
      <3>2. Tail(u)[i - Len(a)] = u[(i - Len(a)) + 1]
        BY <1>1, <3>1
      <3> QED
        BY <1>1, <1>2, <2>1, <2>2, <2>5, <3>1, <3>2
    <2>6. i <= Len(s) \/ i = Len(s) + 1 \/ i > Len(s) + 1
      BY <1>1
    <2> QED
      BY <2>3, <2>4, <2>5, <2>6
  <1>6. Len(a \o Tail(u)) = Len(s \o u)
    BY <1>1, <1>2, <1>3, <1>4
  <1>7. a \o Tail(u) = s \o u
    BY <1>3, <1>4, <1>5, <1>6, SeqEqual
  <1> QED
    BY <1>1, <1>2, <1>7

LEMMA Associative ==
  ASSUME NEW r \in Seq(Commands), NEW s \in Seq(Commands), NEW u \in Seq(Commands)
  PROVE  (r \o s) \o u = r \o (s \o u)
  BY ConcatAssociative

LEMMA HeadMovesBehind ==
  ASSUME NEW r \in Seq(Commands), NEW s \in Seq(Commands), NEW u \in Seq(Commands),
         u # <<>>
  PROVE  (r \o Append(s, Head(u))) \o Tail(u) = (r \o s) \o u
  <1>1. PICK a \in Seq(Commands), v \in Seq(Commands) :
           a = Append(s, Head(u)) /\ v = Tail(u) /\ a \o v = s \o u
    BY HeadMoves
  <1>2. (r \o a) \o v = r \o (a \o v)
    BY Associative, Zenon
  <1>3. (r \o s) \o u = r \o (s \o u)
    BY Associative, Zenon
  <1> QED
    BY <1>1, <1>2, <1>3, Zenon

(* The first element of the whole is that of its first part. *)
LEMMA HeadOfConcat ==
  ASSUME NEW s \in Seq(Commands), NEW u \in Seq(Commands), s # <<>>
  PROVE  /\ s \o u # <<>> /\ Head(s \o u) = Head(s)
         /\ Tail(s \o u) = Tail(s) \o u
  <1>1. /\ Len(s) \in Nat \ {0} /\ Len(u) \in Nat
        /\ Tail(s) \in Seq(Commands) /\ Len(Tail(s)) = Len(s) - 1
        /\ \A i \in 1..Len(Tail(s)) : Tail(s)[i] = s[i + 1]
    BY EmptySeq, LenProperties, HeadTailProperties
  <1>2. /\ s \o u \in Seq(Commands) /\ Len(s \o u) = Len(s) + Len(u)
        /\ \A i \in 1..(Len(s) + Len(u)) :
              (s \o u)[i] = IF i <= Len(s) THEN s[i] ELSE u[i - Len(s)]
    BY ConcatProperties
  <1>3. s \o u # <<>>
    BY <1>1, <1>2, EmptySeq
  <1>4. Head(s \o u) = Head(s)
    BY <1>1, <1>2, <1>3
  <1>5. /\ Tail(s \o u) \in Seq(Commands)
        /\ Len(Tail(s \o u)) = Len(s \o u) - 1
        /\ \A i \in 1..Len(Tail(s \o u)) : Tail(s \o u)[i] = (s \o u)[i + 1]
    BY <1>2, <1>3, HeadTailProperties
  <1>6. /\ Tail(s) \o u \in Seq(Commands)
        /\ Len(Tail(s) \o u) = Len(Tail(s)) + Len(u)
        /\ \A i \in 1..(Len(Tail(s)) + Len(u)) :
              (Tail(s) \o u)[i] = IF i <= Len(Tail(s)) THEN Tail(s)[i]
                                  ELSE u[i - Len(Tail(s))]
    BY <1>1, ConcatProperties
  <1>7. ASSUME NEW i \in 1..Len(Tail(s \o u))
        PROVE  Tail(s \o u)[i] = (Tail(s) \o u)[i]
    <2>1. /\ i + 1 \in 1..(Len(s) + Len(u)) /\ i \in 1..(Len(Tail(s)) + Len(u))
          /\ (i + 1) - Len(s) = i - Len(Tail(s))
          /\ i + 1 <= Len(s) <=> i <= Len(Tail(s))
          /\ i <= Len(Tail(s)) => i \in 1..Len(Tail(s))
      BY <1>1, <1>2, <1>5
    <2>2. Tail(s \o u)[i] = IF i + 1 <= Len(s) THEN s[i + 1] ELSE u[(i + 1) - Len(s)]
      BY <1>2, <1>5, <2>1
    <2>3. (Tail(s) \o u)[i] = IF i <= Len(Tail(s)) THEN Tail(s)[i] ELSE u[i - Len(Tail(s))]
      BY <1>6, <2>1
    <2> QED
      BY <1>1, <2>1, <2>2, <2>3
  <1>8. Len(Tail(s \o u)) = Len(Tail(s) \o u)
    BY <1>1, <1>2, <1>5, <1>6
  <1>9. Tail(s \o u) = Tail(s) \o u
    BY <1>5, <1>6, <1>7, <1>8, SeqEqual
  <1> QED
    BY <1>3, <1>4, <1>9

LEMMA AlignedIs ==
  PipelineAligned <=>
      (link \in {"up", "closed"} =>
          \/ HalfPushed = {} /\ callbacks = InFlight
          \/ \E c \in HalfPushed : callbacks = Append(InFlight, c))
  BY DEF PipelineAligned, InFlight

(* Steps that move bytes along, at most. *)
LEMMA AlignedKept ==
  ASSUME PipelineAligned, callbacks' = callbacks, InFlight' = InFlight,
         link' \in {"up", "closed"} => link \in {"up", "closed"},
         \A t \in Threads : pc'[t] = "append" <=> pc[t] = "append",
         \A t \in Threads : pc[t] = "append" =>
             cur'[t] = cur[t] /\ issued'[cur[t]] = issued[cur[t]]
  PROVE  PipelineAligned'
  <1>1. HalfPushed' = HalfPushed
    BY DEF HalfPushed, CurCmd
  <1> QED
    BY <1>1 DEF PipelineAligned, InFlight

LEMMA QuietPipe ==
  ASSUME UNCHANGED pipeVars
  PROVE  /\ callbacks' = callbacks /\ InFlight' = InFlight
         /\ link' \in {"up", "closed"} => link \in {"up", "closed"}
  BY DEF pipeVars, InFlight

LEMMA AlignedStep ==
  ASSUME IndInv, PipelineAligned, [Next]_vars
  PROVE  PipelineAligned'
  <1> USE DEF At, Goto, Finish, dataVars, threadVars
  <1>0. ThreadTypeOK /\ DataTypeOK
    BY DEF IndInv, TypeOK
  <1>1. ASSUME NEW t \in Threads, UserCall(t)
        PROVE  PipelineAligned'
    <2>1. ASSUME NEW b \in Batches, MakeBatch(t, b)
          PROVE  PipelineAligned'
      BY <2>1, AlignedKept, QuietPipe DEF MakeBatch
    <2>2. ASSUME NEW b \in Batches, NEW o \in Operations, CallReplies(t, b, o)
          PROVE  PipelineAligned'
      BY <1>0, <2>2, AlignedKept, QuietPipe DEF CallReplies, ThreadTypeOK
    <2>3. ASSUME NEW b \in Batches, BeginRun(t, b)
          PROVE  PipelineAligned'
      <3>1. \A u \in Threads : pc[u] # "idle" => cur[u] \in Batches /\ cur[u] # b
        BY <2>3 DEF BeginRun, IndInv, ThreadInv, ThreadOK
      <3>2. \A u \in Threads : /\ pc'[u] = "append" <=> pc[u] = "append"
                               /\ pc[u] = "append" =>
                                     cur'[u] = cur[u] /\ issued'[cur[u]] = issued[cur[u]]
        BY <1>0, <2>3, <3>1 DEF BeginRun, ThreadTypeOK, DataTypeOK
      <3> QED
        BY <2>3, <3>2, AlignedKept, QuietPipe DEF BeginRun
    <2> QED
      BY <1>1, <2>1, <2>2, <2>3 DEF UserCall
  <1>2. ASSUME NEW t \in Threads, PushCommand(t)
        PROVE  PipelineAligned'
    <2>1. \A u \in Threads : pc[u] # "append"
      BY <1>2, LoopAssumption DEF PushCommand, LockLibev, IndInv, MutexInv
    <2>2. HalfPushed = {}
      BY <2>1 DEF HalfPushed
    <2>3. callbacks = InFlight
      BY <1>2, <2>2, AlignedIs DEF PushCommand
    <2>4. InFlight' = InFlight /\ callbacks' = Append(callbacks, CurCmd(t))
      BY <1>2 DEF PushCommand, PushCallback, InFlight
    <2>5. pc'[t] = "append" /\ CurCmd(t)' = CurCmd(t)
      BY <1>0, <1>2 DEF PushCommand, ThreadTypeOK, CurCmd
    <2>6. CurCmd(t)' \in HalfPushed'
      BY <2>5 DEF HalfPushed
    <2>7. \E c \in HalfPushed' : callbacks' = Append(InFlight', c)
      BY <2>3, <2>4, <2>5, <2>6
    <2> QED
      BY <2>7 DEF PipelineAligned, InFlight
  <1>3. ASSUME NEW t \in Threads, AppendAndUnlock(t)
        PROVE  PipelineAligned'
    <2>1. \A u \in Threads : pc[u] = "append" <=> u = t
      BY <1>3 DEF AppendAndUnlock, UnlockLibev, IndInv, MutexInv
    <2>2. HalfPushed = {CurCmd(t)} /\ CurCmd(t) \in Commands
      BY <1>3, <2>1, OwnCommand DEF HalfPushed, IndInv, InRun, AppendAndUnlock
    <2>3. HalfPushed' = {}
      BY <1>0, <1>3, <2>1 DEF AppendAndUnlock, HalfPushed, ThreadTypeOK
    <2>4. InFlight' = Append(InFlight, CurCmd(t))
      <3>1. /\ obuf' = obuf \o <<CurCmd(t)>> /\ inbuf' = inbuf /\ wire' = wire
            /\ <<CurCmd(t)>> \in Seq(Commands)
        BY <1>3, <2>2, InFlightType, AppendIsConcat DEF AppendAndUnlock, AppendCommand
      <3>2. (inbuf \o wire) \o (obuf \o <<CurCmd(t)>>) =
                ((inbuf \o wire) \o obuf) \o <<CurCmd(t)>>
        BY <3>1, InFlightType, ConcatAssociative
      <3>3. InFlight \o <<CurCmd(t)>> = Append(InFlight, CurCmd(t))
        BY <2>2, InFlightType, AppendIsConcat
      <3> QED
        BY <3>1, <3>2, <3>3 DEF InFlight
    <2>5. link' = link /\ callbacks' = callbacks
      BY <1>3 DEF AppendAndUnlock
    <2>6. link' \in {"up", "closed"} => callbacks' = InFlight'
      BY <2>2, <2>4, <2>5, AlignedIs
    <2> QED
      BY <2>3, <2>6 DEF PipelineAligned, InFlight
  <1>4. ASSUME NEW t \in Threads, Proceed(t)
        PROVE  PipelineAligned'
    <2>1. CASE CountCommand(t) \/ CheckSlot(t) \/ ParkForSlot(t) \/ AddNode(t)
      BY <1>0, <2>1, AlignedKept, QuietPipe
      DEF CountCommand, CheckSlot, ParkForSlot, AddNode, ThreadTypeOK
    <2>2. CASE CheckDone(t) \/ ParkForReplies(t) \/ PushToFreed(t)
      BY <1>0, <2>2, AlignedKept, QuietPipe
      DEF CheckDone, ParkForReplies, PushToFreed, ThreadTypeOK
    <2>3. CASE TestWakeup(t) \/ WakeLoop(t)
      BY <1>0, <2>3, AlignedKept, QuietPipe DEF TestWakeup, WakeLoop, ThreadTypeOK
    <2>4. CASE ReturnReplies(t) \/ ReturnThrowIfFailed(t) \/ ReturnReset(t) \/ ReturnDestroy(t)
      BY <1>0, <2>4, AlignedKept, QuietPipe
      DEF ReturnReplies, ReturnThrowIfFailed, ReturnReset, ReturnDestroy, ThreadTypeOK
    <2> QED
      BY <1>2, <1>3, <1>4, <2>1, <2>2, <2>3, <2>4 DEF Proceed
  <1>5. ASSUME NEW t \in Threads, SpuriousWakeup(t)
        PROVE  PipelineAligned'
    BY <1>0, <1>5, AlignedKept, QuietPipe DEF SpuriousWakeup, ThreadTypeOK
  <1>6. CASE StartCallback
    <2>1. HalfPushed = {} /\ HalfPushed' = {}
      BY <1>6, LoopAssumption DEF StartCallback, IndInv, MutexInv, HalfPushed
    <2>2. CASE link = "failing"
      BY <1>6, <2>2 DEF StartCallback, PipelineAligned
    <2>3. CASE link # "failing"
      <3>1. /\ link \in {"up", "closed"} /\ inbuf # <<>> /\ inbuf' = Tail(inbuf)
            /\ callbacks' = Tail(callbacks) /\ UNCHANGED <<wire, obuf>>
        BY <1>6, <2>3 DEF StartCallback
      <3>2. callbacks = InFlight
        BY <2>1, <3>1, AlignedIs
      <3>3. /\ Tail(inbuf \o wire) = Tail(inbuf) \o wire
            /\ inbuf \o wire # <<>>
        BY <3>1, InFlightType, HeadOfConcat
      <3>4. Tail((inbuf \o wire) \o obuf) = Tail(inbuf \o wire) \o obuf
        BY <3>3, InFlightType, HeadOfConcat
      <3>5. callbacks' = InFlight'
        BY <3>1, <3>2, <3>3, <3>4 DEF InFlight
      <3> QED
        BY <2>1, <3>5 DEF PipelineAligned, InFlight
    <2> QED
      BY <2>2, <2>3
  <1>7. CASE NotifySlot \/ StoreReply \/ SettleReply \/ NotifyDone
    <2>1. UNCHANGED pipeVars /\ UNCHANGED <<cur, issued>>
      BY <1>7 DEF NotifySlot, StoreReply, SettleReply, NotifyDone
    <2>2. \A t \in Threads : pc'[t] = "append" <=> pc[t] = "append"
      BY <1>0, <1>7 DEF NotifySlot, StoreReply, SettleReply, NotifyDone, Notify, ThreadTypeOK
    <2> QED
      BY <2>1, <2>2, AlignedKept, QuietPipe
  <1>8. CASE TurnLoop
    <2>0. UNCHANGED <<pc, cur, issued>>
      BY <1>8 DEF TurnLoop, batchVars
    <2>1. CASE HandleWrite
      <3>1. /\ wire' = Append(wire, Head(obuf)) /\ obuf' = Tail(obuf) /\ obuf # <<>>
            /\ UNCHANGED <<inbuf, callbacks, link>>
        BY <2>1 DEF HandleWrite
      <3>2. (inbuf \o Append(wire, Head(obuf))) \o Tail(obuf) = (inbuf \o wire) \o obuf
        BY <3>1, InFlightType, HeadMovesBehind
      <3>3. InFlight' = InFlight
        BY <3>1, <3>2, Zenon DEF InFlight
      <3> QED
        BY <2>0, <3>1, <3>3, AlignedKept
    <2>2. CASE SocketFails \/ FreeContext
      BY <2>2 DEF SocketFails, FreeContext, PipelineAligned
    <2>3. CASE FdReify \/ PollReturns \/ AcquireMutex \/ HandleWakeup \/ ReadDone \/ EndDispatch
      <3>1. UNCHANGED pipeVars
        BY <2>3 DEF FdReify, PollReturns, AcquireMutex, HandleWakeup, ReadDone, EndDispatch
      <3> QED
        BY <2>0, <3>1, AlignedKept, QuietPipe
    <2> QED
      BY <1>8, <2>1, <2>2, <2>3 DEF TurnLoop
  <1>9. CASE Serve
    <2>0. UNCHANGED <<pc, cur, issued>>
      BY <1>9 DEF Serve, batchVars
    <2>1. /\ inbuf' = Append(inbuf, Head(wire)) /\ wire' = Tail(wire) /\ wire # <<>>
          /\ UNCHANGED <<obuf, callbacks, link>>
      BY <1>9 DEF Serve, ServerAnswers
    <2>2. Append(inbuf, Head(wire)) \o Tail(wire) = inbuf \o wire
      BY <2>1, InFlightType, HeadMoves
    <2>3. InFlight' = InFlight
      BY <2>1, <2>2 DEF InFlight
    <2> QED
      BY <2>0, <2>1, <2>3, AlignedKept
  <1>10. CASE LoseLink
    <2>1. UNCHANGED <<pc, cur, issued, callbacks, inbuf, wire, obuf>> /\ link = "up"
      BY <1>10 DEF LoseLink, ServerCloses, batchVars
    <2> QED
      BY <2>1, AlignedKept DEF InFlight
  <1>11. CASE UNCHANGED vars
    BY <1>11, AlignedKept, QuietPipe DEF vars, batchVars
  <1> QED
    BY <1>1, <1>4, <1>5, <1>6, <1>7, <1>8, <1>9, <1>10, <1>11 DEF Next, Ended, RunCallback

LEMMA InitAligned == Init => PipelineAligned
  <1> SUFFICES ASSUME Init PROVE PipelineAligned
    OBVIOUS
  <1>1. <<>> \in Seq(Commands) /\ InFlight = <<>> /\ HalfPushed = {} /\ callbacks = <<>>
    BY EmptySeq, ConcatEmptySeq DEF Init, LoopInit, InFlight, HalfPushed
  <1> QED
    BY <1>1, AlignedIs

(* The callbacks hiredis lists match the answers on their way, in order,   *)
(* however the threads that run commands and the loop interleave.          *)
THEOREM PipelineStaysAligned == Spec => []PipelineAligned
  <1>1. Init => PipelineAligned
    BY InitAligned
  <1>2. IndInv /\ PipelineAligned /\ [Next]_vars => PipelineAligned'
    BY AlignedStep
  <1> QED
    BY <1>1, <1>2, Invariance, PTL DEF Spec

-----------------------------------------------------------------------------
(* The answers.                                                            *)

(* Callbacks apart, no step touches a callback or a reply.                 *)
LEMMA OnlyCallbacks ==
  ASSUME [Next]_vars, ~RunCallback
  PROVE  cb' = cb /\ value' = value
  <1> USE DEF dataVars, threadVars
  <1>1. ASSUME NEW t \in Threads, UserCall(t)
        PROVE  cb' = cb /\ value' = value
    BY <1>1 DEF UserCall, MakeBatch, BeginRun, CallReplies
  <1>2. ASSUME NEW t \in Threads, Proceed(t)
        PROVE  cb' = cb /\ value' = value
    BY <1>2
    DEF Proceed, CountCommand, CheckSlot, ParkForSlot, AddNode, PushCommand,
        PushToFreed, AppendAndUnlock, TestWakeup, WakeLoop, CheckDone,
        ParkForReplies, ReturnReplies, ReturnThrowIfFailed, ReturnReset,
        ReturnDestroy
  <1>3. CASE \E t \in Threads : SpuriousWakeup(t)
    BY <1>3 DEF SpuriousWakeup
  <1>4. CASE TurnLoop \/ Serve \/ LoseLink \/ UNCHANGED vars
    BY <1>4 DEF TurnLoop, Serve, LoseLink, vars, batchVars
  <1> QED
    BY <1>1, <1>2, <1>3, <1>4 DEF Next, Ended

(* A context never comes back, and fails only if the server may close.     *)
LEMMA LinkOnlyFails ==
  ASSUME IndInv, [Next]_vars
  PROVE  /\ link' = link \/ (link = "up" /\ link' = "closed" /\ CanLoseLink)
                         \/ (link = "closed" /\ link' = "failing")
                         \/ (link = "failing" /\ link' = "freed")
         /\ cb.at # "idle" /\ link = "failing" => link' = "failing"
  <1> USE DEF pipeVars, dataVars
  <1>1. ASSUME NEW t \in Threads, UserCall(t)
        PROVE  link' = link
    BY <1>1 DEF UserCall, MakeBatch, BeginRun, CallReplies
  <1>2. ASSUME NEW t \in Threads, Proceed(t)
        PROVE  link' = link
    BY <1>2
    DEF Proceed, CountCommand, CheckSlot, ParkForSlot, AddNode, PushCommand,
        PushToFreed, AppendAndUnlock, TestWakeup, WakeLoop, CheckDone,
        ParkForReplies, ReturnReplies, ReturnThrowIfFailed, ReturnReset,
        ReturnDestroy
  <1>3. CASE \E t \in Threads : SpuriousWakeup(t)
    BY <1>3 DEF SpuriousWakeup
  <1>4. CASE RunCallback
    BY <1>4 DEF RunCallback, StartCallback, NotifySlot, StoreReply, SettleReply, NotifyDone
  <1>5. CASE TurnLoop
    <2>1. cb.at = "idle"
      BY <1>5 DEF TurnLoop, CallbackAt
    <2>2. \/ link' = link
          \/ link = "closed" /\ link' = "failing"
          \/ link = "failing" /\ link' = "freed"
      BY <1>5 DEF TurnLoop, FdReify, PollReturns, AcquireMutex, HandleWakeup,
                  HandleWrite, SocketFails, FreeContext, ReadDone, EndDispatch
    <2> QED
      BY <2>1, <2>2
  <1>6. CASE Serve \/ LoseLink \/ UNCHANGED vars
    BY <1>6 DEF Serve, LoseLink, ServerAnswers, ServerCloses, vars
  <1> QED
    BY <1>1, <1>2, <1>3, <1>4, <1>5, <1>6 DEF Next, Ended

LEMMA PairStep ==
  ASSUME IndInv, PipelineAligned, PairInv, AnswersReachTheirSlot, [Next]_vars
  PROVE  PairInv' /\ AnswersReachTheirSlot'
  <1>0. /\ value \in [Commands -> Commands \cup {None}]
        /\ cb \in [at  : {"idle", "notify_slot", "store", "settle", "notify_done"},
                   cmd : Commands \cup {None}, ans : Commands \cup {None}]
    BY DEF IndInv, TypeOK, DataTypeOK
  <1>1. (link # "up" => CanLoseLink)'
    BY LinkOnlyFails DEF PairInv
  <1>2. cb.at # "idle" /\ link = "failing" => link' = "failing"
    BY LinkOnlyFails
  <1>3. CASE ~RunCallback
    BY <1>1, <1>2, <1>3, OnlyCallbacks DEF PairInv, AnswersReachTheirSlot
  <1>4. CASE StartCallback
    <2>1. PICK ans \in Commands \cup {None} :
             /\ \/ link \in {"up", "closed"} /\ inbuf # <<>> /\ ans = Head(inbuf)
                \/ link = "failing" /\ ans = None
             /\ cb'.cmd = Head(callbacks) /\ cb'.ans = ans
      BY <1>4 DEF StartCallback
    <2>2. link' = link /\ value' = value
      BY <1>4 DEF StartCallback
    <2>3. ASSUME link \in {"up", "closed"}, inbuf # <<>>
          PROVE  Head(callbacks) = Head(inbuf)
      <3>1. HalfPushed = {}
        BY <1>4, LoopAssumption DEF StartCallback, IndInv, MutexInv, HalfPushed
      <3>2. callbacks = (inbuf \o wire) \o obuf
        BY <2>3, <3>1, AlignedIs DEF InFlight
      <3>3. inbuf \o wire # <<>> /\ Head(inbuf \o wire) = Head(inbuf)
        BY <2>3, InFlightType, HeadOfConcat
      <3>4. Head((inbuf \o wire) \o obuf) = Head(inbuf \o wire)
        BY <3>3, InFlightType, HeadOfConcat
      <3> QED
        BY <3>2, <3>3, <3>4
    <2>4. cb'.ans = cb'.cmd \/ (cb'.ans = None /\ link' = "failing")
      BY <2>1, <2>2, <2>3
    <2> QED
      BY <1>1, <2>2, <2>4 DEF PairInv, AnswersReachTheirSlot
  <1>5. CASE StoreReply
    <2>1. /\ cb' = [cb EXCEPT !.at = "settle"] \/ cb' = cb
          /\ cb.at # "idle"
          /\ value' = value \/ value' = [value EXCEPT ![cb.cmd] = cb.ans]
      BY <1>5 DEF StoreReply, CallbackAt
    <2>2. cb'.cmd = cb.cmd /\ cb'.ans = cb.ans
      BY <1>0, <2>1
    <2>3. PairInv'
      BY <1>1, <1>2, <2>1, <2>2 DEF PairInv
    <2>4. AnswersReachTheirSlot'
      BY <1>0, <2>1 DEF PairInv, AnswersReachTheirSlot
    <2> QED
      BY <2>3, <2>4
  <1>6. CASE NotifySlot
    <2>1. cb' = [cb EXCEPT !.at = "store"] /\ value' = value /\ cb.at # "idle"
      BY <1>6 DEF NotifySlot, CallbackAt
    <2>2. cb'.cmd = cb.cmd /\ cb'.ans = cb.ans
      BY <1>0, <2>1
    <2> QED
      BY <1>1, <1>2, <2>1, <2>2 DEF PairInv, AnswersReachTheirSlot
  <1>7. CASE SettleReply
    <2>1. /\ cb' = [cb EXCEPT !.at = "notify_done"] \/ cb'.at = "idle"
          /\ value' = value /\ cb.at # "idle"
      BY <1>7 DEF SettleReply, CallbackAt, NoCall
    <2>2. cb'.at # "idle" => cb'.cmd = cb.cmd /\ cb'.ans = cb.ans
      BY <1>0, <2>1
    <2> QED
      BY <1>1, <1>2, <2>1, <2>2 DEF PairInv, AnswersReachTheirSlot
  <1>8. CASE NotifyDone
    BY <1>1, <1>8 DEF NotifyDone, NoCall, PairInv, AnswersReachTheirSlot
  <1> QED
    BY <1>3, <1>4, <1>5, <1>6, <1>7, <1>8 DEF RunCallback

LEMMA InitPair == Init => PairInv /\ AnswersReachTheirSlot
  BY DEF Init, LoopInit, NoCall, PairInv, AnswersReachTheirSlot

(* The order of the callbacks is that of the answers, and each stores into *)
(* the node of its own command: no reply ends up in another's.             *)
THEOREM AnswersToTheirCommands == Spec => []AnswersReachTheirSlot
  <1>1. Init => PairInv /\ AnswersReachTheirSlot
    BY InitPair
  <1>2. IndInv /\ PipelineAligned /\ PairInv /\ AnswersReachTheirSlot /\ [Next]_vars
           => (PairInv /\ AnswersReachTheirSlot)'
    BY PairStep
  <1> QED
    BY <1>1, <1>2, Invariance, PipelineStaysAligned, PTL DEF Spec

-----------------------------------------------------------------------------
(* The replies.                                                            *)

LEMMA AnsweredStays ==
  ASSUME IndInv, [Next]_vars, NEW c, Answered(c), value'[c] = value[c]
  PROVE  Answered(c)'
  BY LinkOnlyFails DEF Answered

(* Only callbacks complete a command. *)
LEMMA CompletedByCallback ==
  ASSUME IndInv, [Next]_vars, ~RunCallback
  PROVE  \A c \in Commands : stage'[c] \in {"settled", "deleted"} => stage'[c] = stage[c]
  <1> USE DEF dataVars, threadVars, SetStage
  <1>0. stage \in [Commands -> Stages]
    BY DEF IndInv, TypeOK, DataTypeOK, Stages
  <1>1. ASSUME NEW t \in Threads, UserCall(t)
        PROVE  stage' = stage \/ \E d : stage' = [stage EXCEPT ![d] = "local"]
    BY <1>1 DEF UserCall, MakeBatch, BeginRun, CallReplies
  <1>2. ASSUME NEW t \in Threads, Proceed(t)
        PROVE  \/ stage' = stage
               \/ stage' = [stage EXCEPT ![CurCmd(t)] = "held"]
               \/ stage' = [stage EXCEPT ![CurCmd(t)] = "hiredis"]
    BY <1>2
    DEF Proceed, CountCommand, CheckSlot, ParkForSlot, AddNode, PushCommand,
        PushToFreed, AppendAndUnlock, TestWakeup, WakeLoop, CheckDone,
        ParkForReplies, ReturnReplies, ReturnThrowIfFailed, ReturnReset,
        ReturnDestroy
  <1>3. CASE (\E t \in Threads : SpuriousWakeup(t)) \/ TurnLoop \/ Serve \/ LoseLink
             \/ UNCHANGED vars
    BY <1>3 DEF SpuriousWakeup, TurnLoop, Serve, LoseLink, vars, batchVars
  <1> QED
    BY <1>0, <1>1, <1>2, <1>3 DEF Next, Ended

LEMMA AnswerStep ==
  ASSUME IndInv, PairInv, AnswerInv, [Next]_vars
  PROVE  AnswerInv'
  <1>0. /\ value \in [Commands -> Commands \cup {None}]
        /\ stage \in [Commands -> Stages]
        /\ cb \in [at  : {"idle", "notify_slot", "store", "settle", "notify_done"},
                   cmd : Commands \cup {None}, ans : Commands \cup {None}]
    BY DEF IndInv, TypeOK, DataTypeOK, Stages
  <1>1. CASE ~RunCallback
    <2>1. cb' = cb /\ value' = value
      BY <1>1, OnlyCallbacks
    <2> QED
      BY <1>1, <2>1, CompletedByCallback, AnsweredStays DEF AnswerInv
  <1>2. CASE StartCallback
    <2>1. /\ Head(callbacks) \in Commands /\ value' = value
          /\ stage' = [stage EXCEPT ![Head(callbacks)] = "called"]
          /\ cb'.at \in {"notify_slot", "store"}
      BY <1>2, FirstIsHiredis DEF StartCallback, SetStage
    <2> QED
      BY <1>0, <2>1, AnsweredStays DEF AnswerInv
  <1>3. CASE NotifySlot
    <2>1. cb'.at = "store" /\ value' = value /\ stage' = stage
      BY <1>0, <1>3 DEF NotifySlot
    <2> QED
      BY <2>1, AnsweredStays DEF AnswerInv
  <1>4. CASE StoreReply
    <2>1. /\ cb.at = "store" /\ cb.cmd \in Commands /\ stage[cb.cmd] = "called"
          /\ stage' = stage
      BY <1>4 DEF StoreReply, CallbackAt, IndInv, CallbackInv
    <2>2. \/ /\ cb.ans # None /\ value' = [value EXCEPT ![cb.cmd] = cb.ans]
             /\ cb' = [cb EXCEPT !.at = "settle"]
          \/ /\ cb.ans = None /\ Ndebug /\ value' = value
             /\ cb' = [cb EXCEPT !.at = "settle"]
          \/ cb' = cb /\ value' = value
      BY <1>4 DEF StoreReply
    <2>3. \A c \in Commands : c # cb.cmd => value'[c] = value[c]
      BY <1>0, <2>2
    <2>4. cb'.cmd = cb.cmd
      BY <1>0, <2>2
    <2>5. cb'.at = "settle" => Answered(cb.cmd)'
      <3>1. CASE cb.ans # None /\ value' = [value EXCEPT ![cb.cmd] = cb.ans]
        <4>1. cb.ans = cb.cmd
          BY <2>1, <3>1 DEF PairInv
        <4>2. value'[cb.cmd] = cb.cmd /\ cb'.cmd = cb.cmd
          BY <1>0, <2>1, <2>4, <3>1, <4>1
        <4> QED
          BY <4>2 DEF Answered
      <3>2. CASE cb.ans = None /\ Ndebug
        <4>1. link = "failing" /\ link' = "failing"
          BY <2>1, <3>2, LinkOnlyFails, BatchAssumption DEF PairInv, Commands
        <4> QED
          BY <3>2, <4>1 DEF Answered
      <3>3. CASE cb' = cb
        BY <2>1, <3>3
      <3> QED
        BY <2>2, <3>1, <3>2, <3>3
    <2>6. ASSUME NEW c \in Commands, stage'[c] \in {"settled", "deleted"}
          PROVE  Answered(c)'
      BY <2>1, <2>3, <2>6, AnsweredStays DEF AnswerInv
    <2> QED
      BY <2>4, <2>5, <2>6 DEF AnswerInv
  <1>5. CASE SettleReply \/ NotifyDone
    <2>1. /\ cb.cmd \in Commands /\ value' = value /\ cb'.at # "settle"
          /\ stage' = [stage EXCEPT ![cb.cmd] = "settled"]
               \/ stage' = [stage EXCEPT ![cb.cmd] = "deleted"]
          /\ cb.at = "settle" \/ stage[cb.cmd] = "settled"
      BY <1>0, <1>5
      DEF SettleReply, NotifyDone, CallbackAt, NoCall, SetStage, IndInv, CallbackInv
    <2>2. \A c \in Commands : stage'[c] \in {"settled", "deleted"} => Answered(c)
      BY <1>0, <2>1 DEF AnswerInv
    <2> QED
      BY <2>1, <2>2, AnsweredStays DEF AnswerInv
  <1> QED
    BY <1>1, <1>2, <1>3, <1>4, <1>5 DEF RunCallback

(* A command in the list of a batch was run through it.                    *)
LEMMA ListedWasRun ==
  ASSUME IndInv, ListInOrder, NEW b \in Batches, NEW c \in ToSet(replies[b].nodes)
  PROVE  c \in Commands /\ BatchOf(c) = b /\ stage[c] # "unborn"
  <1>1. /\ replies[b].nodes \in Seq(Commands)
        /\ replies[b].size = Len(replies[b].nodes)
        /\ issued[b] \in Nat
    BY BatchAssumption DEF IndInv, TypeOK, DataTypeOK, ListInOrder
  <1>2. PICK i \in 1..Len(replies[b].nodes) : c = replies[b].nodes[i]
    BY <1>1, LenProperties DEF ToSet
  <1>3. c \in Commands /\ c = <<b, Ran(b) - Len(replies[b].nodes) + i>>
    BY <1>1, <1>2, ElementOfSeq DEF ListInOrder
  <1>4. Ran(b) \in Int /\ Ran(b) <= issued[b]
    BY <1>1, RanIs
  <1>5. c[1] = b /\ c[2] <= issued[b]
    BY <1>1, <1>3, <1>4, LenProperties
  <1>6. c[2] \in Nat
    BY <1>3 DEF Commands
  <1> QED
    BY <1>1, <1>3, <1>5, <1>6 DEF IndInv, StageInv

(* In a batch at rest it is completed. *)
LEMMA ListedAtRest ==
  ASSUME IndInv, ListInOrder, AnswerInv,
         NEW b \in Batches, local_pending[b] = 0,
         NEW c \in ToSet(replies[b].nodes)
  PROVE  c \in Commands /\ BatchOf(c) = b /\ Answered(c)
  <1>1. c \in Commands /\ BatchOf(c) = b /\ stage[c] # "unborn"
    BY ListedWasRun
  <1>2. stage[c] \in {"settled", "deleted"}
    BY <1>1, AtRest
  <1> QED
    BY <1>1, <1>2 DEF AnswerInv

LEMMA InitAnswer == Init => AnswerInv
  BY DEF Init, NoCall, AnswerInv

(* A command that is done with was answered, unless the connection failed  *)
(* in a build without assertions.                                          *)
THEOREM AnswersStored == Spec => [](PairInv /\ AnswerInv)
  <1>1. Init => PairInv /\ AnswersReachTheirSlot /\ AnswerInv
    BY InitPair, InitAnswer
  <1>2. IndInv /\ PipelineAligned /\ PairInv /\ AnswersReachTheirSlot /\ AnswerInv /\ [Next]_vars
           => (PairInv /\ AnswersReachTheirSlot /\ AnswerInv)'
    BY PairStep, AnswerStep
  <1> QED
    BY <1>1, <1>2, Invariance, PipelineStaysAligned, PTL DEF Spec

(* replies() returns with every reply of its batch in place while the      *)
(* connection stands, without a lock between it and the callbacks.         *)
THEOREM RepliesAreComplete == Spec => []RepliesComplete
  <1>1. IndInv /\ ListInOrder /\ AnswerInv => RepliesComplete
    <2> SUFFICES ASSUME IndInv, ListInOrder, AnswerInv, NEW t \in Threads,
                        pc[t] = "return", link = "up",
                        NEW c \in ToSet(replies[cur[t]].nodes)
                 PROVE  value[c] = c
      BY DEF RepliesComplete
    <2>1. PICK b \in Batches : b = cur[t] /\ local_pending[b] = 0
      BY OwnBatch DEF IndInv, ThreadInv, ThreadOK
    <2>2. Answered(c)
      BY <2>1, ListedAtRest
    <2> QED
      BY <2>2 DEF Answered
  <1> QED
    BY <1>1, Invariance, ListsInOrder, AnswersStored, PTL

-----------------------------------------------------------------------------
(* The verdict of throw_if_failed().                                       *)

LEMMA VerdictKept ==
  ASSUME IndInv, VerdictInv, verdict' = verdict,
         \A b \in Batches : local_pending[b] = 0 => local_pending'[b] = 0,
         \A t \in Threads : pc'[t] # "idle" => pc[t] # "idle" /\ cur'[t] = cur[t]
  PROVE  VerdictInv'
  BY DEF VerdictInv

(* A thread calls a member function of b, whose verdict is forgotten. *)
LEMMA VerdictForgotten ==
  ASSUME IndInv, VerdictInv, NEW t \in Threads, NEW b \in Batches,
         verdict' = [verdict EXCEPT ![b] = "none"],
         \A a \in Batches : a # b => local_pending'[a] = local_pending[a],
         cur' = [cur EXCEPT ![t] = b],
         \A u \in Threads : u # t => pc'[u] = pc[u]
  PROVE  VerdictInv'
  <1>1. cur \in [Threads -> Batches \cup {None}] /\ verdict \in [Batches -> {"none", "ok", "threw"}]
    BY DEF IndInv, TypeOK, ThreadTypeOK, DataTypeOK
  <1>2. ASSUME NEW a \in Batches, verdict'[a] # "none"
        PROVE  a # b /\ verdict[a] # "none"
    BY <1>1, <1>2
  <1> QED
    BY <1>1, <1>2 DEF VerdictInv

(* Where the verdict comes from, and what it was given for. *)
LEMMA VerdictStep ==
  ASSUME IndInv, VerdictInv, [Next]_vars
  PROVE  VerdictInv'
  <1> USE DEF At, Goto, Finish, dataVars, threadVars
  <1>0. ThreadTypeOK /\ DataTypeOK
    BY DEF IndInv, TypeOK
  <1>1. ASSUME NEW t \in Threads, UserCall(t)
        PROVE  VerdictInv'
    <2>1. ASSUME NEW b \in Batches, MakeBatch(t, b)
          PROVE  VerdictInv'
      BY <2>1, VerdictKept DEF MakeBatch
    <2>2. ASSUME NEW b \in Batches, NEW o \in Operations, CallReplies(t, b, o)
          PROVE  VerdictInv'
      BY <1>0, <2>2, VerdictForgotten DEF CallReplies, ThreadTypeOK
    <2>3. ASSUME NEW b \in Batches, BeginRun(t, b)
          PROVE  VerdictInv'
      BY <1>0, <2>3, VerdictForgotten DEF BeginRun, ThreadTypeOK, DataTypeOK
    <2> QED
      BY <1>1, <2>1, <2>2, <2>3 DEF UserCall
  <1>2. ASSUME NEW t \in Threads, ReturnThrowIfFailed(t)
        PROVE  VerdictInv'
    <2>1. PICK b \in Batches : b = cur[t] /\ local_pending[b] = 0
      BY <1>2, OwnBatch DEF ReturnThrowIfFailed, IndInv, ThreadInv, ThreadOK
    <2>2. \A u \in Threads : pc[u] # "idle" /\ u # t => cur[u] # b
      BY <1>2, <2>1, OwnBatch DEF ReturnThrowIfFailed
    <2>3. \A u \in Threads : pc'[u] # "idle" => u # t /\ pc[u] # "idle" /\ cur'[u] = cur[u]
      BY <1>0, <1>2 DEF ReturnThrowIfFailed, ThreadTypeOK
    <2>4. /\ \A a \in Batches : a # b => verdict'[a] = verdict[a]
          /\ local_pending' = local_pending
      BY <1>0, <1>2, <2>1 DEF ReturnThrowIfFailed, DataTypeOK
    <2> QED
      BY <2>1, <2>2, <2>3, <2>4 DEF VerdictInv
  <1>3. ASSUME NEW t \in Threads, Proceed(t)
        PROVE  VerdictInv'
    <2>1. CASE CountCommand(t) \/ CheckSlot(t) \/ ParkForSlot(t) \/ AddNode(t)
      BY <1>0, <2>1, VerdictKept
      DEF CountCommand, CheckSlot, ParkForSlot, AddNode, ThreadTypeOK
    <2>2. CASE PushCommand(t) \/ PushToFreed(t) \/ AppendAndUnlock(t)
      BY <1>0, <2>2, VerdictKept
      DEF PushCommand, PushToFreed, AppendAndUnlock, ThreadTypeOK
    <2>3. CASE TestWakeup(t) \/ WakeLoop(t) \/ CheckDone(t) \/ ParkForReplies(t)
      BY <1>0, <2>3, VerdictKept
      DEF TestWakeup, WakeLoop, CheckDone, ParkForReplies, ThreadTypeOK
    <2>4. CASE ReturnReplies(t) \/ ReturnReset(t) \/ ReturnDestroy(t)
      BY <1>0, <2>4, VerdictKept
      DEF ReturnReplies, ReturnReset, ReturnDestroy, ThreadTypeOK
    <2> QED
      BY <1>2, <1>3, <2>1, <2>2, <2>3, <2>4 DEF Proceed
  <1>4. ASSUME NEW t \in Threads, SpuriousWakeup(t)
        PROVE  VerdictInv'
    BY <1>0, <1>4, VerdictKept DEF SpuriousWakeup, ThreadTypeOK
  <1>5. CASE SettleReply
    <2>1. PICK b \in Batches : b = BatchOf(cb.cmd) /\ local_pending[b] >= 1
      BY <1>5, CountersPositive DEF SettleReply, CallbackAt, IndInv, CallbackInv
    <2>2. /\ local_pending' = [local_pending EXCEPT ![b] = local_pending[b] - 1]
          /\ UNCHANGED <<verdict, pc, cur>>
      BY <1>5, <2>1 DEF SettleReply
    <2>3. \A a \in Batches : local_pending[a] = 0 => local_pending'[a] = 0
      BY <1>0, <2>1, <2>2 DEF DataTypeOK
    <2> QED
      BY <2>2, <2>3, VerdictKept
  <1>6. CASE StartCallback \/ NotifySlot \/ StoreReply \/ NotifyDone
    BY <1>0, <1>6, VerdictKept
    DEF StartCallback, NotifySlot, StoreReply, NotifyDone, Notify, ThreadTypeOK
  <1>7. CASE TurnLoop \/ Serve \/ LoseLink \/ UNCHANGED vars
    BY <1>7, VerdictKept DEF TurnLoop, Serve, LoseLink, vars, batchVars
  <1> QED
    BY <1>1, <1>3, <1>4, <1>5, <1>6, <1>7 DEF Next, Ended, RunCallback

(* A verdict and what it is about. *)
VerdictOf(b) ==
    /\ verdict[b] = "ok" =>
          \A c \in ToSet(replies[b].nodes) : value[c] = c /\ c \notin ErrorAnswers
    /\ verdict[b] = "threw" =>
          \E c \in ErrorAnswers : BatchOf(c) = b /\ value[c] = c

LEMMA ThrowVerdictIs == ThrowVerdict <=> \A b \in Batches : VerdictOf(b)
  BY DEF ThrowVerdict, VerdictOf

(* What a verdict is about stays while it stands. *)
LEMMA VerdictStands ==
  ASSUME IndInv, ListInOrder, VerdictInv, [Next]_vars, NEW b \in Batches,
         VerdictOf(b), verdict'[b] = verdict[b], verdict[b] # "none"
  PROVE  VerdictOf(b)'
  <1>0. ThreadTypeOK /\ DataTypeOK
    BY DEF IndInv, TypeOK
  <1>1. local_pending[b] = 0 /\ \A t \in Threads : pc[t] # "idle" => cur[t] # b
    BY DEF VerdictInv
  <1>2. ASSUME NEW c \in Commands, BatchOf(c) = b PROVE value'[c] = value[c]
    <2>1. CASE ~RunCallback
      BY <2>1, OnlyCallbacks
    <2>2. CASE StoreReply
      <3>1. cb.cmd \in Commands /\ stage[cb.cmd] = "called"
        BY <2>2 DEF StoreReply, CallbackAt, IndInv, CallbackInv
      <3>2. cb.cmd # c
        BY <1>1, <1>2, <3>1, AtRest
      <3>3. value' = value \/ value' = [value EXCEPT ![cb.cmd] = cb.ans]
        BY <2>2 DEF StoreReply
      <3> QED
        BY <1>0, <3>2, <3>3 DEF DataTypeOK
    <2>3. CASE StartCallback \/ NotifySlot \/ SettleReply \/ NotifyDone
      BY <2>3 DEF StartCallback, NotifySlot, SettleReply, NotifyDone
    <2> QED
      BY <2>1, <2>2, <2>3 DEF RunCallback
  <1>3. replies'[b] = replies[b]
    <2> USE DEF At, Goto, Finish, dataVars, threadVars
    <2>1. ASSUME NEW t \in Threads, UserCall(t)
          PROVE  replies' = replies
      BY <2>1 DEF UserCall, MakeBatch, BeginRun, CallReplies
    <2>2. ASSUME NEW t \in Threads, Proceed(t)
          PROVE  replies'[b] = replies[b]
      <3>1. CASE AddNode(t) \/ ReturnReset(t) \/ ReturnDestroy(t)
        <4>1. pc[t] # "idle"
          BY <3>1 DEF AddNode, ReturnReset, ReturnDestroy
        <4>2. cur[t] # b
          BY <1>1, <4>1
        <4> QED
          BY <1>0, <3>1, <4>2 DEF AddNode, ReturnReset, ReturnDestroy, DataTypeOK
      <3>2. CASE ~(AddNode(t) \/ ReturnReset(t) \/ ReturnDestroy(t))
        BY <2>2, <3>2
        DEF Proceed, CountCommand, CheckSlot, ParkForSlot, PushCommand,
            PushToFreed, AppendAndUnlock, TestWakeup, WakeLoop, CheckDone,
            ParkForReplies, ReturnReplies, ReturnThrowIfFailed
      <3> QED
        BY <3>1, <3>2
    <2>3. CASE (\E t \in Threads : SpuriousWakeup(t)) \/ TurnLoop \/ Serve \/ LoseLink
               \/ UNCHANGED vars
      BY <2>3 DEF SpuriousWakeup, TurnLoop, Serve, LoseLink, vars, batchVars
    <2>4. CASE RunCallback
      BY <2>4 DEF RunCallback, StartCallback, NotifySlot, StoreReply, SettleReply, NotifyDone
    <2> QED
      BY <2>1, <2>2, <2>3, <2>4 DEF Next, Ended
  <1>4. ASSUME verdict[b] = "ok", NEW c \in ToSet(replies[b].nodes)
        PROVE  value'[c] = c /\ c \notin ErrorAnswers
    <2>1. c = value[c] /\ c \notin ErrorAnswers
      BY <1>4 DEF VerdictOf
    <2>2. c \in Commands /\ BatchOf(c) = b
      BY ListedWasRun
    <2> QED
      BY <1>2, <2>1, <2>2
  <1> QED
    BY <1>2, <1>3, <1>4, BatchAssumption DEF VerdictOf

(* Only throw_if_failed() gives a verdict. *)
LEMMA VerdictGiven ==
  ASSUME IndInv, [Next]_vars, NEW b \in Batches,
         verdict'[b] # "none", verdict'[b] # verdict[b]
  PROVE  \E t \in Threads : ReturnThrowIfFailed(t) /\ cur[t] = b
  <1> USE DEF dataVars, threadVars
  <1>0. verdict \in [Batches -> {"none", "ok", "threw"}]
    BY DEF IndInv, TypeOK, DataTypeOK
  <1>1. ASSUME NEW t \in Threads, UserCall(t) PROVE FALSE
    BY <1>0, <1>1 DEF UserCall, MakeBatch, BeginRun, CallReplies
  <1>2. ASSUME NEW t \in Threads, Proceed(t), ~ReturnThrowIfFailed(t) PROVE FALSE
    BY <1>2
    DEF Proceed, CountCommand, CheckSlot, ParkForSlot, AddNode, PushCommand,
        PushToFreed, AppendAndUnlock, TestWakeup, WakeLoop, CheckDone,
        ParkForReplies, ReturnReplies, ReturnReset, ReturnDestroy
  <1>3. ASSUME NEW t \in Threads, ReturnThrowIfFailed(t) PROVE cur[t] = b
    <2>1. \A a : a # cur[t] /\ a \in Batches => verdict'[a] = verdict[a]
      BY <1>0, <1>3 DEF ReturnThrowIfFailed
    <2> QED
      BY <2>1
  <1>4. ~((\E t \in Threads : SpuriousWakeup(t)) \/ TurnLoop \/ Serve \/ LoseLink
            \/ RunCallback \/ UNCHANGED vars)
    BY DEF SpuriousWakeup, TurnLoop, Serve, LoseLink, RunCallback, StartCallback,
           NotifySlot, StoreReply, SettleReply, NotifyDone, vars, batchVars
  <1> QED
    BY <1>1, <1>2, <1>3, <1>4 DEF Next, Ended

LEMMA ThrowVerdictStep ==
  ASSUME ~(CanLoseLink /\ Ndebug),
         IndInv, ListInOrder, PairInv, AnswerInv, VerdictInv, ThrowVerdict, [Next]_vars
  PROVE  ThrowVerdict'
  <1> SUFFICES ASSUME NEW b \in Batches PROVE VerdictOf(b)'
    BY DEF ThrowVerdict, VerdictOf
  <1>1. CASE verdict'[b] = "none"
    BY <1>1 DEF VerdictOf
  <1>2. CASE verdict'[b] # "none" /\ verdict'[b] = verdict[b]
    BY <1>2, VerdictStands, ThrowVerdictIs
  <1>3. CASE verdict'[b] # "none" /\ verdict'[b] # verdict[b]
    <2>1. PICK t \in Threads : ReturnThrowIfFailed(t) /\ cur[t] = b
      BY <1>3, VerdictGiven
    <2>2. /\ UNCHANGED <<replies, value>> /\ pc[t] = "return"
          /\ verdict' = [verdict EXCEPT ![b] = IF AnyError(replies[b]) THEN "threw" ELSE "ok"]
      BY <2>1 DEF ReturnThrowIfFailed, At
    <2>3. local_pending[b] = 0
      BY <2>1, <2>2 DEF IndInv, ThreadInv, ThreadOK
    <2>4. \A c \in ToSet(replies[b].nodes) :
             c \in Commands /\ BatchOf(c) = b /\ value[c] = c
      BY <2>3, ListedAtRest DEF PairInv, Answered
    <2>5. verdict'[b] = IF AnyError(replies[b]) THEN "threw" ELSE "ok"
      BY <2>2 DEF IndInv, TypeOK, DataTypeOK
    <2>6. CASE AnyError(replies[b])
      <3>1. PICK c \in ToSet(replies[b].nodes) : value[c] \in ErrorAnswers
        BY <2>6 DEF AnyError, RepliesOf
      <3> QED
        BY <2>2, <2>4, <2>5, <2>6, <3>1 DEF VerdictOf
    <2>7. CASE ~AnyError(replies[b])
      <3>1. \A c \in ToSet(replies[b].nodes) : value[c] \notin ErrorAnswers
        BY <2>7 DEF AnyError, RepliesOf
      <3> QED
        BY <2>2, <2>4, <2>5, <2>7, <3>1 DEF VerdictOf
    <2> QED
      BY <2>6, <2>7
  <1> QED
    BY <1>1, <1>2, <1>3

(* throw_if_failed() throws exactly if a command of its batch failed: with *)
(* assertions whatever becomes of the connection, without them as long as  *)
(* the server does not close it.                                           *)
THEOREM VerdictIsRight ==
  ASSUME ~(CanLoseLink /\ Ndebug)
  PROVE  Spec => []ThrowVerdict
  <1>1. Init => VerdictInv /\ ThrowVerdict
    BY DEF Init, VerdictInv, ThrowVerdict
  <1>2. IndInv /\ ListInOrder /\ (PairInv /\ AnswerInv) /\ VerdictInv /\ ThrowVerdict /\ [Next]_vars
           => (VerdictInv /\ ThrowVerdict)'
    BY VerdictStep, ThrowVerdictStep
  <1> QED
    BY <1>1, <1>2, Invariance, ListsInOrder, AnswersStored, PTL DEF Spec
=============================================================================
