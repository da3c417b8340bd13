------------------------------ MODULE LogProofs ------------------------------
(* That Batch implements CommandLog, on top of the invariants of           *)
(* BatchProofs and AnswerProofs.                                           *)
EXTENDS AnswerProofs

USE DEF BatchOf

-----------------------------------------------------------------------------
(* How the commands go from stage to stage.                                *)

(* Callbacks apart, a command moves only up to hiredis.                    *)
LEMMA StageMoves ==
  ASSUME IndInv, [Next]_vars, ~RunCallback, NEW c \in Commands
  PROVE  \/ stage'[c] = stage[c]
         \/ stage[c] \in {"unborn", "local", "held"}
            /\ stage'[c] \in {"local", "held", "hiredis"}
  <1> USE DEF dataVars, threadVars, SetStage, At
  <1>0. stage \in [Commands -> Stages]
    BY DEF IndInv, TypeOK, DataTypeOK, Stages
  <1>1. ASSUME NEW t \in Threads, UserCall(t)
        PROVE  stage' = stage \/ \E b \in Batches : BeginRun(t, b)
    BY <1>1 DEF UserCall, MakeBatch, CallReplies
  <1>2. ASSUME NEW t \in Threads, Proceed(t)
        PROVE  \/ stage' = stage
               \/ /\ pc[t] \in {"count", "push"}
                  /\ \/ stage' = [stage EXCEPT ![CurCmd(t)] = "held"]
                     \/ stage' = [stage EXCEPT ![CurCmd(t)] = "hiredis"]
    BY <1>2
    DEF Proceed, CountCommand, CheckSlot, ParkForSlot, AddNode, PushCommand,
        PushToFreed, AppendAndUnlock, TestWakeup, WakeLoop, CheckDone,
        ParkForReplies, ReturnReplies, ReturnThrowIfFailed, ReturnReset,
        ReturnDestroy
  <1>3. ASSUME NEW t \in Threads, pc[t] \in {"count", "push"}
        PROVE  stage[CurCmd(t)] \in {"local", "held"}
    BY <1>3 DEF IndInv, ThreadInv, ThreadOK
  <1>4. ASSUME NEW t \in Threads, NEW b \in Batches, BeginRun(t, b)
        PROVE  stage'[c] = stage[c] \/ (stage[c] = "unborn" /\ stage'[c] = "local")
    <2>1. stage' = [stage EXCEPT ![<<b, issued[b] + 1>>] = "local"] /\ issued[b] \in Nat
      BY <1>4, BatchAssumption DEF BeginRun, IndInv, TypeOK, DataTypeOK
    <2>2. c = <<b, issued[b] + 1>> => stage[c] = "unborn"
      BY <2>1 DEF IndInv, StageInv
    <2> QED
      BY <1>0, <2>1, <2>2
  <1>5. CASE (\E t \in Threads : SpuriousWakeup(t)) \/ TurnLoop \/ Serve \/ LoseLink
             \/ UNCHANGED vars
    BY <1>5 DEF SpuriousWakeup, TurnLoop, Serve, LoseLink, vars, batchVars
  <1>6. ASSUME NEW t \in Threads, UserCall(t)
        PROVE  stage'[c] = stage[c] \/ (stage[c] = "unborn" /\ stage'[c] = "local")
    BY <1>1, <1>4, <1>6
  <1>7. ASSUME NEW t \in Threads, Proceed(t)
        PROVE  \/ stage'[c] = stage[c]
               \/ stage[c] \in {"local", "held"} /\ stage'[c] \in {"held", "hiredis"}
    BY <1>0, <1>2, <1>3, <1>7
  <1> QED
    BY <1>5, <1>6, <1>7 DEF Next, Ended

(* Steps that leave the stages and the callbacks alone.                    *)
LEMMA OrderKept ==
  ASSUME OrderInv, UNCHANGED <<stage, callbacks, issued>>,
         cb.at \in {"notify_slot", "store", "settle"} =>
             cb'.at \in {"notify_slot", "store", "settle"} /\ cb'.cmd = cb.cmd,
         link = "freed" => link' = "freed",
         \A t \in Threads : Unpushed(t) =>
             link = "freed" \/ (Unpushed(t)' /\ cur'[t] = cur[t])
  PROVE  OrderInv'
  <1>1. CalledInv'
    BY DEF OrderInv, CalledInv, InStage
  <1>2. UnpushedInv'
    BY DEF OrderInv, UnpushedInv, InStage, CurCmd
  <1>3. StageOrder' /\ CallbackOrder'
    BY DEF OrderInv, StageOrder, CallbackOrder
  <1> QED
    BY <1>1, <1>2, <1>3 DEF OrderInv
(* The command of a thread past the flow control is the next of its batch. *)
LEMMA PushOrder ==
  ASSUME IndInv, OrderInv, NEW t \in Threads, PushCommand(t)
  PROVE  OrderInv'
  <1> DEFINE c == CurCmd(t)
             n == Len(callbacks)
  <1>0. stage \in [Commands -> Stages] /\ ThreadTypeOK /\ callbacks \in Seq(Commands)
    BY DEF IndInv, TypeOK, DataTypeOK, LoopTypeOK, Stages
  <1>1. /\ c \in Commands /\ c[1] = cur[t] /\ c[2] = issued[cur[t]]
        /\ cur[t] \in Batches /\ stage[c] = "held" /\ pc[t] = "push"
        /\ \A u \in Threads : pc[u] # "idle" /\ u # t => cur[u] # cur[t]
    BY OwnCommand DEF PushCommand, At, IndInv, InRun, ThreadInv, ThreadOK
  <1>2. /\ \A d \in Commands : stage'[d] = IF d = c THEN "hiredis" ELSE stage[d]
        /\ callbacks' = Append(callbacks, c)
        /\ link \in {"up", "closed"}
        /\ \A u \in Threads : u # t => pc'[u] = pc[u]
        /\ UNCHANGED <<cb, cur, issued>>
    BY <1>0, <1>1 DEF PushCommand, PushCallback, SetStage, Goto, ThreadTypeOK
  <1>3. CalledInv'
    BY <1>2 DEF OrderInv, CalledInv, InStage
  <1>4. UnpushedInv'
    <2> SUFFICES ASSUME NEW d \in Commands, stage'[d] \in {"local", "held"}
                 PROVE  \E u \in Threads : Unpushed(u)' /\ CurCmd(u)' = d
      BY DEF UnpushedInv, InStage
    <2>1. d # c /\ stage[d] \in {"local", "held"}
      BY <1>2
    <2>2. PICK u \in Threads : Unpushed(u) /\ CurCmd(u) = d
      BY <1>2, <2>1 DEF OrderInv, UnpushedInv, InStage
    <2> QED
      BY <1>2, <2>1, <2>2 DEF Unpushed, CurCmd
  <1>5. ASSUME NEW d \in Commands, d[1] = c[1], d[2] < c[2]
        PROVE  stage[d] \in Taken
    <2>1. stage[d] # "unborn"
      BY <1>1, <1>5 DEF IndInv, StageInv, TypeOK, DataTypeOK, Commands
    <2>2. stage[d] \notin {"local", "held"}
      <3> SUFFICES ASSUME stage[d] \in {"local", "held"} PROVE FALSE
        OBVIOUS
      <3>1. PICK u \in Threads : Unpushed(u) /\ CurCmd(u) = d
        BY <1>2 DEF OrderInv, UnpushedInv, InStage
      <3>2. cur[u] = d[1] /\ pc[u] # "idle"
        BY <3>1 DEF CurCmd, Unpushed, InRun
      <3>3. u = t
        BY <1>1, <1>5, <3>2
      <3> QED
        BY <1>1, <1>5, <3>1, <3>3 DEF Commands
    <2> QED
      BY <1>0, <2>1, <2>2 DEF Stages, Taken
  <1>6. ASSUME NEW e \in Commands, e[1] = c[1], c[2] < e[2]
        PROVE  stage[e] = "unborn"
    BY <1>1, <1>6 DEF IndInv, StageInv
  <1>7. StageOrder'
    <2> SUFFICES ASSUME NEW e \in Commands, NEW d \in Commands, e[1] = d[1], d[2] < e[2]
                 PROVE  /\ stage'[e] \in Taken => stage'[d] \in Taken
                        /\ stage'[e] \in Called => stage'[d] \in Called
      BY DEF StageOrder
    <2>1. CASE e = c
      BY <1>2, <1>5, <2>1 DEF Taken, Called
    <2>2. CASE d = c
      BY <1>2, <1>6, <2>2 DEF Taken, Called
    <2>3. CASE e # c /\ d # c
      BY <1>2, <2>3 DEF OrderInv, StageOrder
    <2> QED
      BY <2>1, <2>2, <2>3
  <1>8. CallbackOrder'
    <2>1. /\ n \in Nat /\ Len(callbacks') = n + 1 /\ callbacks'[n + 1] = c
          /\ \A i \in 1..n : callbacks'[i] = callbacks[i]
      BY <1>0, <1>1, <1>2, AppendProperties, LenProperties
    <2> SUFFICES ASSUME NEW i \in 1..(n + 1), NEW j \in 1..(n + 1), i < j,
                        callbacks'[i][1] = callbacks'[j][1]
                 PROVE  callbacks'[i][2] < callbacks'[j][2]
      BY <2>1 DEF CallbackOrder
    <2>2. i \in 1..n /\ callbacks'[i] = callbacks[i]
      BY <2>1
    <2>3. CASE j \in 1..n
      BY <2>1, <2>2, <2>3 DEF OrderInv, CallbackOrder
    <2>4. CASE j = n + 1
      <3>1. PICK d \in Commands : d = callbacks[i]
        BY <1>0, <2>2, ElementOfSeq
      <3>2. stage[d] = "hiredis"
        BY <2>1, <2>2, <3>1 DEF IndInv, QueueInv
      <3>3. d # c /\ d[1] = c[1]
        BY <1>1, <2>1, <2>2, <2>4, <3>1, <3>2
      <3>4. ~(c[2] < d[2])
        BY <1>6, <3>2, <3>3
      <3>5. d[2] < c[2]
        BY <1>1, <3>3, <3>4 DEF Commands
      <3> QED
        BY <2>1, <2>2, <2>4, <3>1, <3>5
    <2> QED
      BY <2>1, <2>3, <2>4
  <1> QED
    BY <1>3, <1>4, <1>7, <1>8 DEF OrderInv

(* hiredis calls the callbacks from the head of its list.                  *)
LEMMA StartOrder ==
  ASSUME IndInv, OrderInv, StartCallback
  PROVE  OrderInv'
  <1> DEFINE c == Head(callbacks)
             n == Len(callbacks)
  <1>0. stage \in [Commands -> Stages] /\ callbacks \in Seq(Commands)
    BY DEF IndInv, TypeOK, DataTypeOK, LoopTypeOK, Stages
  <1>1. /\ c \in Commands /\ stage[c] = "hiredis" /\ cb.at = "idle"
        /\ callbacks # <<>>
    BY FirstIsHiredis DEF StartCallback, CallbackAt
  <1>2. /\ \A d \in Commands : stage'[d] = IF d = c THEN "called" ELSE stage[d]
        /\ callbacks' = Tail(callbacks)
        /\ cb'.at \in {"notify_slot", "store"} /\ cb'.cmd = c
        /\ UNCHANGED <<pc, cur, issued, link>>
    BY <1>0, <1>1 DEF StartCallback, SetStage, threadVars
  <1>3. /\ n \in Nat \ {0} /\ c = callbacks[1] /\ Len(Tail(callbacks)) = n - 1
        /\ \A i \in 1..(n - 1) : Tail(callbacks)[i] = callbacks[i + 1]
    BY <1>0, <1>1, HeadTailProperties, EmptySeq, LenProperties
  <1>4. CalledInv'
    BY <1>1, <1>2 DEF OrderInv, CalledInv, InStage
  <1>5. UnpushedInv'
    BY <1>2 DEF OrderInv, UnpushedInv, InStage, Unpushed, CurCmd
  <1>6. ASSUME NEW d \in Commands, d[1] = c[1], d[2] < c[2]
        PROVE  stage[d] \in Called
    <2>1. stage[d] \in Taken
      BY <1>1, <1>6 DEF OrderInv, StageOrder, Taken
    <2>2. stage[d] # "hiredis"
      <3> SUFFICES ASSUME stage[d] = "hiredis" PROVE FALSE
        OBVIOUS
      <3>1. PICK i \in 1..n : callbacks[i] = d
        BY DEF IndInv, QueueInv
      <3>2. i # 1
        BY <1>3, <1>6, <3>1 DEF Commands
      <3>3. callbacks[1][2] < callbacks[i][2]
        BY <1>3, <1>6, <3>1, <3>2 DEF OrderInv, CallbackOrder
      <3> QED
        BY <1>1, <1>3, <1>6, <3>1, <3>3 DEF Commands
    <2> QED
      BY <2>1, <2>2 DEF Taken, Called
  <1>7. StageOrder'
    <2> SUFFICES ASSUME NEW e \in Commands, NEW d \in Commands, e[1] = d[1], d[2] < e[2]
                 PROVE  /\ stage'[e] \in Taken => stage'[d] \in Taken
                        /\ stage'[e] \in Called => stage'[d] \in Called
      BY DEF StageOrder
    <2>1. CASE e = c
      BY <1>2, <1>6, <2>1 DEF Taken, Called
    <2>2. CASE d = c
      BY <1>2, <2>2 DEF Taken, Called
    <2>3. CASE e # c /\ d # c
      BY <1>2, <2>3 DEF OrderInv, StageOrder
    <2> QED
      BY <2>1, <2>2, <2>3
  <1>8. CallbackOrder'
    <2> SUFFICES ASSUME NEW i \in 1..(n - 1), NEW j \in 1..(n - 1), i < j,
                        callbacks'[i][1] = callbacks'[j][1]
                 PROVE  callbacks'[i][2] < callbacks'[j][2]
      BY <1>2, <1>3 DEF CallbackOrder
    <2>1. /\ i + 1 \in 1..n /\ j + 1 \in 1..n /\ i + 1 < j + 1
          /\ callbacks'[i] = callbacks[i + 1] /\ callbacks'[j] = callbacks[j + 1]
      BY <1>2, <1>3
    <2> QED
      BY <2>1 DEF OrderInv, CallbackOrder
  <1> QED
    BY <1>4, <1>5, <1>7, <1>8 DEF OrderInv

(* A command that is done with was the one called. *)
LEMMA SettleOrder ==
  ASSUME IndInv, OrderInv, SettleReply \/ NotifyDone
  PROVE  OrderInv'
  <1>0. stage \in [Commands -> Stages]
    BY DEF IndInv, TypeOK, DataTypeOK, Stages
  <1>1. PICK c \in Commands : c = cb.cmd /\ stage[c] \in {"called", "settled"}
    BY DEF SettleReply, NotifyDone, CallbackAt, IndInv, CallbackInv
  <1>2. /\ \A d \in Commands : d # c => stage'[d] = stage[d]
        /\ stage'[c] \in {"settled", "deleted"}
        /\ UNCHANGED <<callbacks, cur, issued, link>>
    BY <1>0, <1>1 DEF SettleReply, NotifyDone, SetStage, pipeVars, threadVars
  <1>3. \A t \in Threads : Unpushed(t) => Unpushed(t)'
    BY DEF SettleReply, NotifyDone, threadVars, Notify, Unpushed, InRun
  <1>4. CalledInv'
    BY <1>1, <1>2 DEF OrderInv, CalledInv, InStage, SettleReply, NotifyDone, CallbackAt
  <1>5. UnpushedInv'
    BY <1>1, <1>2, <1>3 DEF OrderInv, UnpushedInv, InStage, CurCmd
  <1>6. StageOrder'
    BY <1>1, <1>2 DEF OrderInv, StageOrder, Taken, Called
  <1>7. CallbackOrder'
    BY <1>2 DEF OrderInv, CallbackOrder
  <1> QED
    BY <1>4, <1>5, <1>6, <1>7 DEF OrderInv

LEMMA OrderStep ==
  ASSUME IndInv, OrderInv, [Next]_vars
  PROVE  OrderInv'
  <1> USE DEF At, Goto, Finish, dataVars, threadVars
  <1>0. ThreadTypeOK /\ DataTypeOK
    BY DEF IndInv, TypeOK
  <1>a. link = "freed" => link' = "freed"
    BY LinkOnlyFails
  <1>1. ASSUME NEW t \in Threads, UserCall(t)
        PROVE  OrderInv'
    <2>1. ASSUME NEW b \in Batches, MakeBatch(t, b)
          PROVE  OrderInv'
      BY <1>a, <2>1, OrderKept DEF MakeBatch, pipeVars, Unpushed
    <2>2. ASSUME NEW b \in Batches, NEW o \in Operations, CallReplies(t, b, o)
          PROVE  OrderInv'
      BY <1>0, <1>a, <2>2, OrderKept DEF CallReplies, pipeVars, ThreadTypeOK, Unpushed, InRun
    <2>3. ASSUME NEW b \in Batches, BeginRun(t, b)
          PROVE  OrderInv'
      <3> DEFINE c == <<b, issued[b] + 1>>
      <3>1. /\ issued[b] \in Nat /\ issued[b] + 1 > issued[b] /\ c \in Commands
            /\ stage[c] = "unborn"
            /\ \A e \in Commands : e[1] = b /\ c[2] < e[2] => stage[e] = "unborn"
        BY <1>0, <2>3, BatchAssumption DEF BeginRun, DataTypeOK, IndInv, StageInv, Commands
      <3>2. /\ \A d \in Commands : stage'[d] = IF d = c THEN "local" ELSE stage[d]
            /\ UNCHANGED <<callbacks, link, cb>>
            /\ pc[t] = "idle" /\ pc'[t] = "count" /\ cur'[t] = b /\ issued'[b] = c[2]
            /\ \A u \in Threads : u # t => pc'[u] = pc[u] /\ cur'[u] = cur[u]
            /\ \A a \in Batches : a # b => issued'[a] = issued[a]
        BY <1>0, <2>3, <3>1 DEF BeginRun, SetStage, ThreadTypeOK, DataTypeOK, pipeVars
      <3>3. \A u \in Threads : pc[u] # "idle" => cur[u] \in Batches /\ cur[u] # b
        BY <2>3 DEF BeginRun, IndInv, ThreadInv, ThreadOK
      <3>4. CalledInv'
        BY <3>2 DEF OrderInv, CalledInv, InStage
      <3>5. UnpushedInv'
        <4> SUFFICES ASSUME NEW d \in Commands, stage'[d] \in {"local", "held"}, link # "freed"
                     PROVE  \E u \in Threads : Unpushed(u)' /\ CurCmd(u)' = d
          BY <3>2 DEF UnpushedInv, InStage
        <4>1. CASE d = c
          BY <3>2, <4>1 DEF Unpushed, InRun, CurCmd
        <4>2. CASE d # c
          <5>1. PICK u \in Threads : Unpushed(u) /\ CurCmd(u) = d
            BY <3>2, <4>2 DEF OrderInv, UnpushedInv, InStage
          <5>2. u # t /\ cur[u] \in Batches /\ cur[u] # b
            BY <3>2, <3>3, <5>1 DEF Unpushed, InRun
          <5> QED
            BY <3>2, <5>1, <5>2 DEF Unpushed, CurCmd
        <4> QED
          BY <4>1, <4>2
      <3>6. StageOrder'
        <4> SUFFICES ASSUME NEW e \in Commands, NEW d \in Commands, e[1] = d[1], d[2] < e[2]
                     PROVE  /\ stage'[e] \in Taken => stage'[d] \in Taken
                            /\ stage'[e] \in Called => stage'[d] \in Called
          BY DEF StageOrder
        <4> QED
          BY <3>1, <3>2 DEF OrderInv, StageOrder, Taken, Called
      <3>7. CallbackOrder'
        BY <3>2 DEF OrderInv, CallbackOrder
      <3> QED
        BY <3>4, <3>5, <3>6, <3>7 DEF OrderInv
    <2> QED
      BY <1>1, <2>1, <2>2, <2>3 DEF UserCall
  <1>2. ASSUME NEW t \in Threads, CountCommand(t)
        PROVE  OrderInv'
    <2> DEFINE c == CurCmd(t)
    <2>1. c \in Commands /\ stage[c] = "local" /\ pc[t] = "count"
      BY <1>2, OwnCommand DEF CountCommand, IndInv, InRun, ThreadInv, ThreadOK
    <2>2. /\ \A d \in Commands : stage'[d] = IF d = c THEN "held" ELSE stage[d]
          /\ UNCHANGED <<callbacks, link, cb, cur, issued>>
          /\ pc'[t] \in {"slot_check", "add"}
          /\ \A u \in Threads : u # t => pc'[u] = pc[u]
      BY <1>0, <1>2, <2>1 DEF CountCommand, SetStage, ThreadTypeOK, DataTypeOK, pipeVars
    <2>3. CalledInv'
      BY <2>2 DEF OrderInv, CalledInv, InStage
    <2>4. UnpushedInv'
      BY <2>1, <2>2 DEF OrderInv, UnpushedInv, InStage, Unpushed, InRun, CurCmd
    <2>5. StageOrder'
      BY <2>1, <2>2 DEF OrderInv, StageOrder, Taken, Called
    <2>6. CallbackOrder'
      BY <2>2 DEF OrderInv, CallbackOrder
    <2> QED
      BY <2>3, <2>4, <2>5, <2>6 DEF OrderInv
  <1>3. ASSUME NEW t \in Threads, Proceed(t)
        PROVE  OrderInv'
    <2>1. CASE CheckSlot(t) \/ ParkForSlot(t) \/ AddNode(t)
      BY <1>0, <1>a, <2>1, OrderKept
      DEF CheckSlot, ParkForSlot, AddNode, pipeVars, ThreadTypeOK, Unpushed, InRun
    <2>2. CASE PushToFreed(t) \/ AppendAndUnlock(t) \/ TestWakeup(t) \/ WakeLoop(t)
      BY <1>0, <1>a, <2>2, OrderKept
      DEF PushToFreed, AppendAndUnlock, TestWakeup, WakeLoop, pipeVars, ThreadTypeOK,
          Unpushed, InRun
    <2>3. CASE CheckDone(t) \/ ParkForReplies(t)
      BY <1>0, <1>a, <2>3, OrderKept
      DEF CheckDone, ParkForReplies, pipeVars, ThreadTypeOK, Unpushed, InRun
    <2>4. CASE ReturnReplies(t) \/ ReturnThrowIfFailed(t) \/ ReturnReset(t) \/ ReturnDestroy(t)
      BY <1>0, <1>a, <2>4, OrderKept
      DEF ReturnReplies, ReturnThrowIfFailed, ReturnReset, ReturnDestroy, pipeVars,
          ThreadTypeOK, Unpushed, InRun
    <2> QED
      BY <1>2, <1>3, <2>1, <2>2, <2>3, <2>4, PushOrder DEF Proceed
  <1>4. ASSUME NEW t \in Threads, SpuriousWakeup(t)
        PROVE  OrderInv'
    BY <1>0, <1>a, <1>4, OrderKept DEF SpuriousWakeup, pipeVars, ThreadTypeOK, Unpushed, InRun
  <1>5. CASE NotifySlot \/ StoreReply
    <2>1. cb.at \in {"notify_slot", "store", "settle"} =>
             cb'.at \in {"notify_slot", "store", "settle"} /\ cb'.cmd = cb.cmd
      BY <1>0, <1>5 DEF NotifySlot, StoreReply, DataTypeOK
    <2>2. \A t \in Threads : Unpushed(t) => Unpushed(t)'
      BY <1>5 DEF NotifySlot, StoreReply, Notify, Unpushed, InRun
    <2> QED
      BY <1>5, <1>a, <2>1, <2>2, OrderKept DEF NotifySlot, StoreReply, pipeVars
  <1>6. CASE TurnLoop
    <2>1. callbacks' = callbacks
      BY <1>6 DEF TurnLoop, FdReify, PollReturns, AcquireMutex, HandleWakeup,
                  HandleWrite, SocketFails, FreeContext, ReadDone, EndDispatch, pipeVars
    <2> QED
      BY <1>6, <1>a, <2>1, OrderKept DEF TurnLoop, batchVars, Unpushed
  <1>7. CASE Serve \/ LoseLink \/ UNCHANGED vars
    BY <1>7, <1>a, OrderKept
    DEF Serve, LoseLink, ServerAnswers, ServerCloses, vars, batchVars, pipeVars, Unpushed
  <1> QED
    BY <1>1, <1>3, <1>4, <1>5, <1>6, <1>7, StartOrder, SettleOrder DEF Next, Ended, RunCallback

LEMMA ValueStep ==
  ASSUME IndInv, ValueInv, [Next]_vars
  PROVE  ValueInv'
  <1>0. DataTypeOK /\ stage \in [Commands -> Stages]
    BY DEF IndInv, TypeOK, DataTypeOK, Stages
  <1>1. cb.at # "idle" /\ link \in {"up", "closed"} /\ RunCallback => link' = link
    BY DEF RunCallback, StartCallback, NotifySlot, StoreReply, SettleReply, NotifyDone, pipeVars
  <1>2. CASE ~RunCallback
    <2>1. cb' = cb /\ value' = value
      BY <1>2, OnlyCallbacks
    <2>2. \A c \in Commands : stage[c] \in {"settled", "deleted"} => stage'[c] = stage[c]
      BY <1>2, StageMoves
    <2>3. cb.at # "idle" /\ link \in {"up", "closed"} => link' \in {"up", "closed"}
      <3>1. cb.at # "idle" => ~TurnLoop
        BY DEF TurnLoop, CallbackAt
      <3>2. ASSUME NEW t \in Threads, UserCall(t) PROVE link' = link
        BY <3>2 DEF UserCall, MakeBatch, BeginRun, CallReplies, pipeVars
      <3>3. ASSUME NEW t \in Threads, Proceed(t) PROVE link' = link
        BY <3>3
        DEF Proceed, CountCommand, CheckSlot, ParkForSlot, AddNode, PushCommand,
            PushToFreed, AppendAndUnlock, TestWakeup, WakeLoop, CheckDone,
            ParkForReplies, ReturnReplies, ReturnThrowIfFailed, ReturnReset,
            ReturnDestroy, pipeVars
      <3>4. ASSUME NEW t \in Threads, SpuriousWakeup(t) PROVE link' = link
        BY <3>4 DEF SpuriousWakeup, pipeVars
      <3>5. Serve \/ LoseLink \/ UNCHANGED vars => link' = link \/ link' = "closed"
        BY DEF Serve, LoseLink, ServerAnswers, ServerCloses, vars, pipeVars
      <3> QED
        BY <1>2, <3>1, <3>2, <3>3, <3>4, <3>5 DEF Next, Ended
    <2> QED
      BY <2>1, <2>2, <2>3 DEF ValueInv
  <1>3. CASE StartCallback
    <2>1. /\ Head(callbacks) \in Commands /\ value' = value
          /\ stage[Head(callbacks)] = "hiredis"
          /\ stage' = [stage EXCEPT ![Head(callbacks)] = "called"]
          /\ cb.at = "idle"
          /\ cb'.ans # None => link' \in {"up", "closed"}
      BY <1>3, FirstIsHiredis DEF StartCallback, SetStage, CallbackAt
    <2> QED
      BY <1>0, <2>1 DEF ValueInv
  <1>4. CASE NotifySlot
    <2>1. /\ cb.at = "notify_slot" /\ cb'.ans = cb.ans /\ cb'.cmd = cb.cmd
          /\ UNCHANGED <<value, stage, link>>
      BY <1>0, <1>4 DEF NotifySlot, CallbackAt, DataTypeOK, pipeVars
    <2> QED
      BY <2>1 DEF ValueInv
  <1>5. CASE StoreReply
    <2>1. /\ cb.at = "store" /\ cb.cmd \in Commands /\ UNCHANGED <<stage, link>>
          /\ \/ cb' = cb /\ value' = value
             \/ cb'.at = "settle" /\ cb'.cmd = cb.cmd
          /\ \A c \in Commands : c # cb.cmd => value'[c] = value[c]
      BY <1>0, <1>5 DEF StoreReply, CallbackAt, IndInv, CallbackInv, DataTypeOK, pipeVars
    <2> QED
      BY <2>1 DEF ValueInv
  <1>6. CASE SettleReply \/ NotifyDone
    <2>1. /\ cb.cmd \in Commands /\ value' = value /\ cb'.at \notin {"notify_slot", "store", "settle"}
          /\ \A c \in Commands : c # cb.cmd => stage'[c] = stage[c]
          /\ stage'[cb.cmd] \in {"settled", "deleted"}
      BY <1>0, <1>6
      DEF SettleReply, NotifyDone, CallbackAt, NoCall, SetStage, IndInv, CallbackInv, DataTypeOK
    <2> QED
      BY <2>1 DEF ValueInv
  <1> QED
    BY <1>2, <1>3, <1>4, <1>5, <1>6 DEF RunCallback

(* The way of an answer from the socket to its node, for every order of    *)
(* the threads and the loop.                                               *)
THEOREM AnswerInvariance == Spec => []AnswerIndInv
  <1>1. Init => AnswerIndInv
    <2> SUFFICES ASSUME Init PROVE AnswerIndInv
      OBVIOUS
    <2>1. ListInOrder
      BY EmptySeq DEF Init, ListInOrder, NewReplyList
    <2>2. NodeInv /\ AnswerInv /\ VerdictInv
      BY InitAnswer DEF Init, NodeInv, InStage, VerdictInv
    <2>3. OrderInv
      BY EmptySeq DEF Init, LoopInit, OrderInv, CalledInv, UnpushedInv, InStage,
                      StageOrder, Taken, Called, CallbackOrder
    <2>4. ValueInv
      BY DEF Init, NoCall, ValueInv
    <2> QED
      BY <2>1, <2>2, <2>3, <2>4, InitPair, InitAligned DEF AnswerIndInv
  <1>2. IndInv /\ AnswerIndInv /\ [Next]_vars => AnswerIndInv'
    BY ListStep, NodeStep, AlignedStep, PairStep, AnswerStep, VerdictStep, OrderStep, ValueStep
    DEF AnswerIndInv
  <1> QED
    BY <1>1, <1>2, Invariance, PTL DEF Spec

-----------------------------------------------------------------------------
(* What each step is to the log.                                           *)

LEMMA Hides ==
  ASSUME UNCHANGED <<life, replies, verdict>>,
         \A b \in Batches : Ran(b)' = Ran(b),
         \A c \in Commands : ResultOf(c)' = ResultOf(c)
  PROVE  UNCHANGED Log!vars
  BY DEF Log!vars

(* Callbacks apart, no step gives a command its result. *)
LEMMA ResultsStay ==
  ASSUME IndInv, [Next]_vars, ~RunCallback
  PROVE  \A c \in Commands : ResultOf(c)' = ResultOf(c)
  <1>1. value' = value
    BY OnlyCallbacks
  <1>2. \A c \in Commands :
           stage'[c] \in {"settled", "deleted"} <=> stage[c] \in {"settled", "deleted"}
    BY StageMoves
  <1> QED
    BY <1>1, <1>2 DEF ResultOf

LEMMA RanStays ==
  ASSUME issued' = issued,
         \A t \in Threads : Listing(t)' <=> Listing(t),
         \A t \in Threads : Listing(t) => cur'[t] = cur[t]
  PROVE  \A b \in Batches : Ran(b)' = Ran(b)
  BY RanIs

(* What the log holds of a batch. *)
LEMMA LogIs ==
  ASSUME IndInv, NEW b \in Batches
  PROVE  /\ Log!Listed(b) = ToSet(replies[b].nodes)
         /\ Log!Settled(b) <=>
               \A c \in ToSet(replies[b].nodes) \cap Commands : ResultOf(c) # "pending"
         /\ ToSet(replies[b].nodes) \subseteq Commands
  <1>1. replies[b].nodes \in Seq(Commands)
    BY DEF IndInv, TypeOK, DataTypeOK
  <1>2. Log!Listed(b) = ToSet(replies[b].nodes)
    <2>1. DOMAIN replies[b].nodes = 1..Len(replies[b].nodes)
      BY <1>1, LenProperties
    <2> QED
      BY <2>1 DEF Log!Listed, ToSet
  <1>3. ToSet(replies[b].nodes) \subseteq Commands
    BY <1>1, ElementOfSeq DEF ToSet
  <1> QED
    BY <1>2, <1>3 DEF Log!Settled

(* A batch whose counter is zero has settled its list. *)
LEMMA SettledAtRest ==
  ASSUME IndInv, ListInOrder, NEW b \in Batches, local_pending[b] = 0
  PROVE  Log!Settled(b)
  <1>1. ASSUME NEW c \in ToSet(replies[b].nodes) PROVE ResultOf(c) # "pending"
    <2>1. c \in Commands /\ c[1] = b /\ stage[c] # "unborn"
      BY ListedWasRun
    <2>2. stage[c] \in {"settled", "deleted"}
      BY <2>1, AtRest
    <2> QED
      BY <2>2 DEF ResultOf
  <1> QED
    BY <1>1, LogIs

(* The calls of the program.                                               *)
LEMMA UserCallLogs ==
  ASSUME IndInv, [Next]_vars, ~RunCallback, NEW t \in Threads, UserCall(t)
  PROVE  [Log!Next]_(Log!vars)
  <1> USE DEF At, Goto, dataVars, threadVars
  <1>0. ThreadTypeOK /\ DataTypeOK
    BY DEF IndInv, TypeOK
  <1>1. \A c \in Commands : ResultOf(c)' = ResultOf(c)
    BY ResultsStay
  <1>2. ASSUME NEW b \in Batches, MakeBatch(t, b)
        PROVE  [Log!Next]_(Log!vars)
    <2>1. \A a \in Batches : Ran(a)' = Ran(a)
      BY <1>2, RanStays DEF MakeBatch, Listing
    <2>2. CASE life' = life
      BY <1>1, <1>2, <2>1, <2>2, Hides DEF MakeBatch
    <2>3. CASE life[b] = "none" /\ life' = [life EXCEPT ![b] = "live"]
      <3>1. Log!Open(b)
        BY <1>1, <1>2, <2>1, <2>3 DEF Log!Open, MakeBatch
      <3> QED
        BY <3>1 DEF Log!Next
    <2> QED
      BY <1>2, <2>2, <2>3 DEF MakeBatch
  <1>3. ASSUME NEW b \in Batches, NEW o \in Operations, CallReplies(t, b, o)
        PROVE  [Log!Next]_(Log!vars)
    <2>1. \A a \in Batches : Ran(a)' = Ran(a)
      BY <1>0, <1>3, RanStays DEF CallReplies, Listing, ThreadTypeOK
    <2>2. Log!Forget(b)
      BY <1>1, <1>3, <2>1 DEF Log!Forget, CallReplies
    <2> QED
      BY <2>2 DEF Log!Next
  <1>4. ASSUME NEW b \in Batches, BeginRun(t, b)
        PROVE  [Log!Next]_(Log!vars)
    <2>1. /\ pc[t] = "idle" /\ pc'[t] = "count" /\ cur'[t] = b
          /\ \A u \in Threads : u # t => pc'[u] = pc[u] /\ cur'[u] = cur[u]
          /\ issued[b] \in Nat /\ issued'[b] = issued[b] + 1
          /\ \A a \in Batches : a # b => issued'[a] = issued[a]
      BY <1>0, <1>4, BatchAssumption DEF BeginRun, ThreadTypeOK, DataTypeOK
    <2>2. \A u \in Threads : pc[u] # "idle" => cur[u] # b
      BY <1>4 DEF BeginRun, IndInv, ThreadInv, ThreadOK
    <2>3. Ran(b) = issued[b] /\ Ran(b)' = issued'[b] - 1
      BY <2>1, <2>2, RanIs DEF Listing
    <2>4. \A a \in Batches : a # b => Ran(a)' = Ran(a)
      BY <2>1, RanIs DEF Listing
    <2>5. \A a \in Batches : Ran(a)' = Ran(a)
      BY <2>1, <2>3, <2>4
    <2>6. Log!Forget(b)
      BY <1>1, <1>4, <2>5 DEF Log!Forget, BeginRun
    <2> QED
      BY <2>6 DEF Log!Next
  <1> QED
    BY <1>2, <1>3, <1>4 DEF UserCall

(* add() lists the command. *)
LEMMA AddNodeLogs ==
  ASSUME IndInv, AnswerIndInv, [Next]_vars, NEW t \in Threads, AddNode(t)
  PROVE  [Log!Next]_(Log!vars)
  <1>0. ThreadTypeOK /\ DataTypeOK
    BY DEF IndInv, TypeOK
  <1>1. \A c \in Commands : ResultOf(c)' = ResultOf(c)
    BY DEF AddNode, ResultOf
  <1>2. CASE ~CanAdd(replies[cur[t]])
    <2>1. \A a \in Batches : Ran(a)' = Ran(a)
      BY <1>2, RanStays DEF AddNode, Listing
    <2> QED
      BY <1>1, <1>2, <2>1, Hides DEF AddNode
  <1>3. CASE CanAdd(replies[cur[t]])
    <2>1. PICK b \in Batches : b = cur[t]
      BY <1>3, AddNodeLists
    <2> DEFINE c == CurCmd(t)
               s == replies[b].nodes
    <2>2. /\ c \in Commands /\ c = <<b, issued[b]>> /\ s \in Seq(Commands)
          /\ replies' = [replies EXCEPT ![b] =
                [nodes |-> Append(s, c), next |-> Len(s) + 1, size |-> Len(s) + 1]]
          /\ pc[t] = "add" /\ pc' = [pc EXCEPT ![t] = "push"]
          /\ UNCHANGED <<cur, issued, stage>>
      BY <1>3, <2>1, AddNodeLists DEF CurCmd
    <2>3. /\ pc'[t] = "push" /\ \A u \in Threads : u # t => pc'[u] = pc[u]
          /\ \A u \in Threads : u # t /\ pc[u] # "idle" => cur[u] # b
      BY <1>0, <2>1, <2>2, OwnBatch DEF ThreadTypeOK
    <2>4. Ran(b) = issued[b] - 1 /\ Ran(b)' = issued[b] /\ issued[b] \in Int
      <3>1. Ran(b) = issued[b] - 1
        BY <2>1, <2>2, RanIs DEF Listing
      <3>2. ~\E u \in Threads : cur'[u] = b /\ Listing(u)'
        BY <2>2, <2>3 DEF Listing
      <3>3. Ran(b)' = issued[b]
        BY <2>2, <3>2, RanIs
      <3> QED
        BY <1>0, <2>1, <3>1, <3>3, AddNodeLists, <1>3, BatchAssumption DEF DataTypeOK
    <2>5. \A a \in Batches : a # b => Ran(a)' = Ran(a)
      BY <2>1, <2>2, <2>3, RanIs DEF Listing
    <2>6. life[b] = "live" /\ stage[c] = "held"
      BY <2>1, <2>2 DEF IndInv, ThreadInv, ThreadOK
    <2>7. verdict[b] = "none"
      BY <2>1, <2>2 DEF AnswerIndInv, VerdictInv
    <2>8. ResultOf(c) = "pending"
      <3>1. cb.at = "settle" => stage[cb.cmd] = "called"
        BY DEF IndInv, CallbackInv
      <3> QED
        BY <2>2, <2>6, <3>1 DEF AnswerIndInv, ValueInv, ResultOf
    <2>9. UNCHANGED <<life, verdict>>
      BY <1>3 DEF AddNode
    <2>10. /\ replies'[b].nodes = Append(s, c)
           /\ \A a \in Batches : a # b => replies'[a] = replies[a]
      BY <1>0, <2>2 DEF DataTypeOK
    <2>11. Log!Run(b)
      <3>1. c = <<b, Ran(b) + 1>>
        BY <2>2, <2>4
      <3>2. [a \in Batches |-> Ran(a)]' = [[a \in Batches |-> Ran(a)] EXCEPT ![b] = Ran(b) + 1]
        <4>1. Ran(b)' = Ran(b) + 1
          BY <2>4
        <4>2. \A a \in Batches : Ran(a)' = IF a = b THEN Ran(b) + 1 ELSE Ran(a)
          BY <2>5, <4>1
        <4> QED
          BY <4>2
      <3>3. [a \in Batches |-> replies[a].nodes]'
               = [[a \in Batches |-> replies[a].nodes] EXCEPT ![b] = Append(s, c)]
        BY <2>10
      <3>4. [d \in Commands |-> ResultOf(d)]' = [d \in Commands |-> ResultOf(d)]
        BY <1>1
      <3> HIDE DEF c, s
      <3> QED
        BY <2>2, <2>6, <2>7, <2>8, <2>9, <3>1, <3>2, <3>3, <3>4 DEF Log!Run, s
    <2> QED
      BY <2>11 DEF Log!Next
  <1> QED
    BY <1>2, <1>3

(* throw_if_failed(), reset() and ~Batch() end.                            *)
LEMMA ReturnLogs ==
  ASSUME IndInv, AnswerIndInv, [Next]_vars, NEW t \in Threads,
         ReturnThrowIfFailed(t) \/ ReturnReset(t) \/ ReturnDestroy(t)
  PROVE  [Log!Next]_(Log!vars)
  <1>0. ThreadTypeOK /\ DataTypeOK
    BY DEF IndInv, TypeOK
  <1>1. \A c \in Commands : ResultOf(c)' = ResultOf(c)
    BY DEF ReturnThrowIfFailed, ReturnReset, ReturnDestroy, ResultOf
  <1>2. pc[t] = "return" /\ Finish(t) /\ issued' = issued
    BY DEF ReturnThrowIfFailed, ReturnReset, ReturnDestroy, At
  <1>3. \A a \in Batches : Ran(a)' = Ran(a)
    BY <1>0, <1>2, RanStays DEF Finish, Goto, Listing, ThreadTypeOK
  <1>4. PICK b \in Batches : b = cur[t] /\ local_pending[b] = 0 /\ life[b] = "live"
    BY <1>2, OwnBatch DEF IndInv, ThreadInv, ThreadOK
  <1>5. Log!Settled(b)
    BY <1>4, SettledAtRest DEF AnswerIndInv
  <1>6. /\ [a \in Batches |-> Ran(a)]' = [a \in Batches |-> Ran(a)]
        /\ [c \in Commands |-> ResultOf(c)]' = [c \in Commands |-> ResultOf(c)]
    BY <1>1, <1>3
  <1>7. CASE ReturnThrowIfFailed(t)
    <2>1. AnyError(replies[b]) <=>
             \E c \in Log!Listed(b) \cap ErrorAnswers : ResultOf(c) = "answered"
      <3>1. ASSUME NEW c \in ToSet(replies[b].nodes)
            PROVE  value[c] \in ErrorAnswers <=> c \in ErrorAnswers /\ ResultOf(c) = "answered"
        <4>1. c \in Commands /\ value[c] \in {None, c}
          BY LogIs DEF AnswerIndInv, AnswersReachTheirSlot
        <4>2. None \notin ErrorAnswers /\ c # None
          BY <4>1, BatchAssumption
        <4> QED
          BY <4>1, <4>2 DEF ResultOf
      <3> QED
        BY <3>1, LogIs DEF AnyError, RepliesOf
    <2>2. AnyError(replies[b]) <=>
             \E c \in Log!Listed(b) \cap ErrorAnswers :
                [d \in Commands |-> ResultOf(d)][c] = "answered"
      BY <2>1, LogIs
    <2>3. /\ verdict' = [verdict EXCEPT ![b] = IF AnyError(replies[b]) THEN "threw" ELSE "ok"]
          /\ UNCHANGED <<life, replies>>
      BY <1>4, <1>7 DEF ReturnThrowIfFailed
    <2>4. Log!Judge(b)
      BY <1>4, <1>5, <1>6, <2>2, <2>3 DEF Log!Judge
    <2> QED
      BY <2>4 DEF Log!Next
  <1>8. CASE ReturnReset(t) \/ ReturnDestroy(t)
    <2>1. /\ replies' = [replies EXCEPT ![b] = ClearReplies]
          /\ verdict' = verdict
          /\ \/ life' = [life EXCEPT ![b] = "live"]
             \/ life' = [life EXCEPT ![b] = "dead"]
      BY <1>0, <1>4, <1>8 DEF ReturnReset, ReturnDestroy, DataTypeOK
    <2>2. [a \in Batches |-> replies[a].nodes]'
             = [[a \in Batches |-> replies[a].nodes] EXCEPT ![b] = <<>>]
      BY <1>0, <2>1 DEF ClearReplies, DataTypeOK
    <2>3. Log!Clear(b, "live") \/ Log!Clear(b, "dead")
      BY <1>4, <1>5, <1>6, <2>1, <2>2 DEF Log!Clear
    <2> QED
      BY <2>3 DEF Log!Next
  <1> QED
    BY <1>7, <1>8

(* What came before the command of the callback is settled. *)
LEMMA SettlesInOrder ==
  ASSUME IndInv, AnswerIndInv, NEW c \in Commands, stage[c] = "called",
         NEW d \in Log!Listed(c[1]), d[2] < c[2]
  PROVE  ResultOf(d) # "pending"
  <1>1. d \in Commands /\ d[1] = c[1]
    BY LogIs, ListedWasRun DEF AnswerIndInv, Commands
  <1>2. stage[d] \in Called
    BY <1>1 DEF AnswerIndInv, OrderInv, StageOrder, Called
  <1>3. stage[d] # "called"
    BY <1>1 DEF AnswerIndInv, OrderInv, CalledInv, InStage, Commands
  <1> QED
    BY <1>2, <1>3 DEF Called, ResultOf

(* A callback gives its command a result. *)
LEMMA ResultGiven ==
  ASSUME IndInv, AnswerIndInv, NEW c \in Commands, NEW r \in {"answered", "lost"},
         stage[c] = "called", ResultOf(c) = "pending", ResultOf(c)' = r,
         r = "answered" => link \in {"up", "closed"},
         \A d \in Commands : d # c => ResultOf(d)' = ResultOf(d),
         \A b \in Batches : Ran(b)' = Ran(b),
         UNCHANGED <<life, replies, verdict>>
  PROVE  Log!Next
  <1>1. life[c[1]] = "live" /\ c[1] \in Batches
    BY DEF IndInv, StageInv, Commands
  <1>2. c \in Log!Listed(c[1])
    BY <1>1, LogIs DEF AnswerIndInv, NodeInv, InStage
  <1>3. \A d \in {e \in Log!Listed(c[1]) : e[2] < c[2]} :
           [e \in Commands |-> ResultOf(e)][d] # "pending"
    BY <1>1, LogIs, SettlesInOrder
  <1>4. ASSUME r = "answered", NEW d \in Commands
        PROVE  ResultOf(d) # "lost"
    <2>1. stage[d] \in {"settled", "deleted"} => value[d] = d
      BY <1>4 DEF AnswerIndInv, AnswerInv, Answered
    <2> QED
      BY <2>1, BatchAssumption DEF ResultOf
  <1>5. [d \in Commands |-> ResultOf(d)]'
           = [[d \in Commands |-> ResultOf(d)] EXCEPT ![c] = r]
    OBVIOUS
  <1>6. [b \in Batches |-> Ran(b)]' = [b \in Batches |-> Ran(b)]
    OBVIOUS
  <1>7. Log!Settle(c, r)
    BY <1>1, <1>2, <1>3, <1>4, <1>5, <1>6 DEF Log!Settle
  <1> QED
    BY <1>7 DEF Log!Next

(* The callback.                                                           *)
LEMMA CallbackLogs ==
  ASSUME IndInv, AnswerIndInv, [Next]_vars, RunCallback
  PROVE  [Log!Next]_(Log!vars)
  <1>0. DataTypeOK /\ stage \in [Commands -> Stages]
    BY DEF IndInv, TypeOK, DataTypeOK, Stages
  <1>1. \A b \in Batches : Ran(b)' = Ran(b)
    <2>1. issued' = issued /\ cur' = cur
      BY DEF RunCallback, StartCallback, NotifySlot, StoreReply, SettleReply, NotifyDone, threadVars
    <2>2. \A t \in Threads : Listing(t)' <=> Listing(t)
      BY DEF RunCallback, StartCallback, NotifySlot, StoreReply, SettleReply, NotifyDone,
             Notify, threadVars, Listing
    <2> QED
      BY <2>1, <2>2, RanStays
  <1>2. UNCHANGED <<life, replies, verdict>>
    BY DEF RunCallback, StartCallback, NotifySlot, StoreReply, SettleReply, NotifyDone
  <1>3. CASE StartCallback
    <2>1. /\ Head(callbacks) \in Commands /\ stage[Head(callbacks)] = "hiredis"
          /\ stage' = [stage EXCEPT ![Head(callbacks)] = "called"] /\ value' = value
      BY <1>3, FirstIsHiredis DEF StartCallback, SetStage
    <2>2. \A c \in Commands : ResultOf(c)' = ResultOf(c)
      BY <1>0, <2>1 DEF ResultOf
    <2> QED
      BY <1>1, <1>2, <2>2, Hides
  <1>4. CASE NotifySlot
    <2>1. \A c \in Commands : ResultOf(c)' = ResultOf(c)
      BY <1>4 DEF NotifySlot, ResultOf
    <2> QED
      BY <1>1, <1>2, <2>1, Hides
  <1>5. CASE StoreReply
    <2>1. cb.at = "store" /\ cb.cmd \in Commands /\ stage[cb.cmd] = "called" /\ stage' = stage
      BY <1>5 DEF StoreReply, CallbackAt, IndInv, CallbackInv
    <2>2. CASE value' = value
      <3>1. \A c \in Commands : ResultOf(c)' = ResultOf(c)
        BY <2>1, <2>2 DEF ResultOf
      <3> QED
        BY <1>1, <1>2, <3>1, Hides
    <2>3. CASE cb.ans # None /\ value' = [value EXCEPT ![cb.cmd] = cb.ans]
      <3>1. value[cb.cmd] = None
        BY <2>1 DEF AnswerIndInv, ValueInv
      <3>2. link \in {"up", "closed"}
        BY <2>1, <2>3 DEF AnswerIndInv, ValueInv
      <3>3. /\ value'[cb.cmd] # None
            /\ \A c \in Commands : c # cb.cmd => value'[c] = value[c]
        BY <1>0, <2>1, <2>3 DEF DataTypeOK
      <3>4. /\ ResultOf(cb.cmd) = "pending"
            /\ \A c \in Commands : c # cb.cmd => ResultOf(c)' = ResultOf(c)
        BY <2>1, <3>1, <3>3 DEF ResultOf
      <3>5. PICK c \in Commands : c = cb.cmd
        BY <2>1
      <3>6. ResultOf(c)' = "answered"
        BY <2>1, <3>3, <3>5 DEF ResultOf
      <3> QED
        BY <1>1, <1>2, <2>1, <3>2, <3>4, <3>5, <3>6, ResultGiven
    <2> QED
      BY <1>5, <2>2, <2>3 DEF StoreReply
  <1>6. CASE SettleReply
    <2>1. PICK c \in Commands : c = cb.cmd
      BY <1>6 DEF SettleReply, CallbackAt, IndInv, CallbackInv
    <2>2. /\ stage[c] = "called" /\ value' = value
          /\ stage'[c] \in {"settled", "deleted"}
          /\ \A d \in Commands : d # c => stage'[d] = stage[d]
      BY <1>0, <1>6, <2>1 DEF SettleReply, CallbackAt, SetStage, IndInv, CallbackInv
    <2>3. \A d \in Commands : d # c => ResultOf(d)' = ResultOf(d)
      BY <2>2 DEF ResultOf
    <2>4. CASE value[c] # None
      <3>1. ResultOf(c)' = ResultOf(c)
        BY <2>2, <2>4 DEF ResultOf
      <3> QED
        BY <1>1, <1>2, <2>3, <3>1, Hides
    <2>5. CASE value[c] = None
      <3>1. ResultOf(c) = "pending" /\ ResultOf(c)' = "lost"
        BY <2>2, <2>5 DEF ResultOf
      <3> QED
        BY <1>1, <1>2, <2>2, <2>3, <3>1, ResultGiven
    <2> QED
      BY <2>4, <2>5
  <1>7. CASE NotifyDone
    <2>1. /\ cb.cmd \in Commands /\ stage[cb.cmd] = "settled" /\ value' = value
          /\ stage' = [stage EXCEPT ![cb.cmd] = "deleted"]
      BY <1>7 DEF NotifyDone, CallbackAt, SetStage, IndInv, CallbackInv
    <2>2. \A c \in Commands : ResultOf(c)' = ResultOf(c)
      BY <1>0, <2>1 DEF ResultOf
    <2> QED
      BY <1>1, <1>2, <2>2, Hides
  <1> QED
    BY <1>3, <1>4, <1>5, <1>6, <1>7 DEF RunCallback

(* The rest of what a thread does is not seen in the log. *)
LEMMA ProceedLogs ==
  ASSUME IndInv, AnswerIndInv, [Next]_vars, ~RunCallback, NEW t \in Threads, Proceed(t)
  PROVE  [Log!Next]_(Log!vars)
  <1> USE DEF At, Goto, Finish, dataVars, Listing
  <1>0. ThreadTypeOK
    BY DEF IndInv, TypeOK
  <1>1. \A c \in Commands : ResultOf(c)' = ResultOf(c)
    BY ResultsStay
  <1>2. CASE CountCommand(t) \/ CheckSlot(t) \/ ParkForSlot(t) \/ PushCommand(t)
    <2>1. \A b \in Batches : Ran(b)' = Ran(b)
      BY <1>0, <1>2, RanStays DEF CountCommand, CheckSlot, ParkForSlot, PushCommand, ThreadTypeOK
    <2> QED
      BY <1>1, <1>2, <2>1, Hides DEF CountCommand, CheckSlot, ParkForSlot, PushCommand
  <1>3. CASE PushToFreed(t) \/ AppendAndUnlock(t) \/ TestWakeup(t) \/ WakeLoop(t)
    <2>1. \A b \in Batches : Ran(b)' = Ran(b)
      BY <1>0, <1>3, RanStays
      DEF PushToFreed, AppendAndUnlock, TestWakeup, WakeLoop, ThreadTypeOK
    <2> QED
      BY <1>1, <1>3, <2>1, Hides DEF PushToFreed, AppendAndUnlock, TestWakeup, WakeLoop
  <1>4. CASE CheckDone(t) \/ ParkForReplies(t) \/ ReturnReplies(t)
    <2>1. \A b \in Batches : Ran(b)' = Ran(b)
      BY <1>0, <1>4, RanStays DEF CheckDone, ParkForReplies, ReturnReplies, ThreadTypeOK
    <2> QED
      BY <1>1, <1>4, <2>1, Hides DEF CheckDone, ParkForReplies, ReturnReplies
  <1> QED
    BY <1>2, <1>3, <1>4, AddNodeLogs, ReturnLogs DEF Proceed

LEMMA NextLogs == IndInv /\ AnswerIndInv /\ [Next]_vars => [Log!Next]_(Log!vars)
  <1> SUFFICES ASSUME IndInv, AnswerIndInv, [Next]_vars
               PROVE  [Log!Next]_(Log!vars)
    OBVIOUS
  <1>1. CASE RunCallback
    BY <1>1, CallbackLogs
  <1>2. CASE ~RunCallback
    <2>1. ASSUME NEW t \in Threads, SpuriousWakeup(t)
          PROVE  [Log!Next]_(Log!vars)
      <3>1. \A b \in Batches : Ran(b)' = Ran(b)
        BY <2>1, RanStays
        DEF SpuriousWakeup, At, Goto, dataVars, Listing, IndInv, TypeOK, ThreadTypeOK
      <3> QED
        BY <1>2, <2>1, <3>1, ResultsStay, Hides DEF SpuriousWakeup, dataVars
    <2>2. CASE TurnLoop \/ Serve \/ LoseLink \/ UNCHANGED vars
      <3>1. UNCHANGED batchVars
        BY <2>2 DEF TurnLoop, Serve, LoseLink, vars
      <3>2. \A b \in Batches : Ran(b)' = Ran(b)
        BY <3>1, RanStays DEF batchVars, threadVars, dataVars, Listing
      <3> QED
        BY <1>2, <3>1, <3>2, ResultsStay, Hides DEF batchVars, dataVars
    <2> QED
      BY <1>2, <2>1, <2>2, UserCallLogs, ProceedLogs DEF Next, Ended
  <1> QED
    BY <1>1, <1>2

LEMMA InitLogs == Init => Log!Init
  <1> SUFFICES ASSUME Init PROVE Log!Init
    OBVIOUS
  <1>1. \A b \in Batches : Ran(b) = 0
    BY DEF Init, Ran
  <1>2. \A c \in Commands : ResultOf(c) = "pending"
    BY DEF Init, ResultOf
  <1> QED
    BY <1>1, <1>2 DEF Init, NewReplyList, Log!Init

(* Batch implements CommandLog: counters, queues, waits and callbacks add  *)
(* up to lists of commands settled once and in order, for any number of    *)
(* threads and batches and with or without a lost connection.              *)
THEOREM Refinement == Spec => ImplementsCommandLog
  <1>1. ImplementsCommandLog <=> Log!Init /\ [][Log!Next]_(Log!vars)
    BY DEF ImplementsCommandLog, Log!Spec
  <1> QED
    BY <1>1, InitLogs, NextLogs, Invariance, AnswerInvariance, PTL DEF Spec
=============================================================================
