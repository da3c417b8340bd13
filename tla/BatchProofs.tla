----------------------------- MODULE BatchProofs -----------------------------
(* Proofs of the invariants of Batch for every number of threads, batches  *)
(* and commands, every limit and both builds.                              *)
EXTENDS BatchInvariant, TLAPS, FiniteSetTheorems, SequenceTheorems

USE DEF BatchOf

-----------------------------------------------------------------------------
(* Commands and their stages.                                              *)

Stages == {"unborn", "local", "held", "hiredis", "called", "settled", "deleted"}

LEMMA CommandsFinite == IsFiniteSet(Commands)
  <1>1. IsFiniteSet(1..MaxCommands)
    BY FS_Interval, BatchAssumption
  <1> QED
    BY <1>1, FS_Product, BatchAssumption DEF Commands

LEMMA InStageFinite ==
  ASSUME NEW P
  PROVE  IsFiniteSet(InStage(P)) /\ Cardinality(InStage(P)) \in Nat
  <1>1. InStage(P) \in SUBSET Commands
    BY DEF InStage
  <1> QED
    BY <1>1, CommandsFinite, FS_Subset, FS_CardinalityType

LEMMA UnsettledFinite ==
  ASSUME NEW b
  PROVE  IsFiniteSet(Unsettled(b)) /\ Cardinality(Unsettled(b)) \in Nat
  <1>1. Unsettled(b) \in SUBSET Commands
    BY DEF Unsettled, InStage
  <1> QED
    BY <1>1, CommandsFinite, FS_Subset, FS_CardinalityType

LEMMA CountAfter ==
  ASSUME NEW S, IsFiniteSet(S), NEW x
  PROVE  /\ Cardinality(S) \in Nat
         /\ Cardinality(S \cup {x}) = Cardinality(S) + (IF x \in S THEN 0 ELSE 1)
         /\ Cardinality(S \ {x}) = Cardinality(S) - (IF x \in S THEN 1 ELSE 0)
  <1>1. Cardinality(S) \in Nat
    BY FS_CardinalityType
  <1>2. Cardinality(S \cup {x}) = IF x \in S THEN Cardinality(S) ELSE Cardinality(S) + 1
    BY FS_AddElement
  <1>3. Cardinality(S \ {x}) = IF x \in S THEN Cardinality(S) - 1 ELSE Cardinality(S)
    BY FS_RemoveElement
  <1> QED
    BY <1>1, <1>2, <1>3

(* When a command changes stage, a count of stages changes by that command. *)
LEMMA StageMoved ==
  ASSUME stage \in [Commands -> Stages], NEW c \in Commands, NEW s \in Stages,
         SetStage(c, s), NEW P
  PROVE  Cardinality(InStage(P)') =
             Cardinality(InStage(P)) + (IF s \in P THEN 1 ELSE 0)
                                     - (IF stage[c] \in P THEN 1 ELSE 0)
  <1>1. InStage(P)' = IF s \in P THEN InStage(P) \cup {c} ELSE InStage(P) \ {c}
    BY DEF InStage, SetStage
  <1>2. c \in InStage(P) <=> stage[c] \in P
    BY DEF InStage
  <1>5. /\ Cardinality(InStage(P)) \in Nat
        /\ Cardinality(InStage(P) \cup {c}) =
             Cardinality(InStage(P)) + (IF c \in InStage(P) THEN 0 ELSE 1)
        /\ Cardinality(InStage(P) \ {c}) =
             Cardinality(InStage(P)) - (IF c \in InStage(P) THEN 1 ELSE 0)
    BY InStageFinite, CountAfter
  <1>3. CASE s \in P
    BY <1>1, <1>2, <1>3, <1>5
  <1>4. CASE s \notin P
    BY <1>1, <1>2, <1>4, <1>5
  <1> QED
    BY <1>3, <1>4

LEMMA UnsettledMoved ==
  ASSUME stage \in [Commands -> Stages], NEW c \in Commands, NEW s \in Stages,
         SetStage(c, s), NEW b
  PROVE  Cardinality(Unsettled(b)') =
             Cardinality(Unsettled(b))
               + (IF b = c[1] /\ s \in {"local", "held", "hiredis", "called"}
                  THEN 1 ELSE 0)
               - (IF b = c[1] /\ stage[c] \in {"local", "held", "hiredis", "called"}
                  THEN 1 ELSE 0)
  <1> DEFINE P == {"local", "held", "hiredis", "called"}
  <1>1. Unsettled(b)' = IF b = c[1] /\ s \in P THEN Unsettled(b) \cup {c}
                        ELSE Unsettled(b) \ {c}
    BY DEF Unsettled, InStage, SetStage
  <1>2. c \in Unsettled(b) <=> b = c[1] /\ stage[c] \in P
    BY DEF Unsettled, InStage
  <1>5. /\ Cardinality(Unsettled(b)) \in Nat
        /\ Cardinality(Unsettled(b) \cup {c}) =
             Cardinality(Unsettled(b)) + (IF c \in Unsettled(b) THEN 0 ELSE 1)
        /\ Cardinality(Unsettled(b) \ {c}) =
             Cardinality(Unsettled(b)) - (IF c \in Unsettled(b) THEN 1 ELSE 0)
    BY UnsettledFinite, CountAfter
  <1>3. CASE b = c[1] /\ s \in P
    BY <1>1, <1>2, <1>3, <1>5
  <1>4. CASE ~(b = c[1] /\ s \in P)
    BY <1>1, <1>2, <1>4, <1>5
  <1> QED
    BY <1>3, <1>4

LEMMA StageKept ==
  ASSUME UNCHANGED stage
  PROVE  /\ \A P : InStage(P)' = InStage(P)
         /\ \A b : Unsettled(b)' = Unsettled(b)
  BY DEF InStage, Unsettled

-----------------------------------------------------------------------------
(* The command of a thread in run_pvt() is its own.                        *)
LEMMA OwnCommand ==
  ASSUME TypeOK, ThreadInv
  PROVE  /\ \A t \in Threads : pc[t] \in InRun =>
               /\ CurCmd(t) \in Commands
               /\ CurCmd(t)[1] = cur[t]
               /\ CurCmd(t)[2] = issued[cur[t]]
               /\ cur[t] \in Batches
         /\ \A t, u \in Threads :
               pc[t] # "idle" /\ pc[u] # "idle" /\ t # u => cur[t] # cur[u]
  <1>1. ASSUME NEW t \in Threads, pc[t] \in InRun
        PROVE  /\ CurCmd(t) \in Commands
               /\ CurCmd(t)[1] = cur[t]
               /\ CurCmd(t)[2] = issued[cur[t]]
               /\ cur[t] \in Batches
    <2>1. cur[t] \in Batches /\ issued[cur[t]] >= 1
      BY <1>1 DEF ThreadInv, ThreadOK, InRun
    <2>2. issued[cur[t]] \in 0..MaxCommands
      BY <2>1 DEF TypeOK, DataTypeOK
    <2> QED
      BY <2>1, <2>2, BatchAssumption DEF CurCmd, Commands
  <1>2. \A t, u \in Threads :
           pc[t] # "idle" /\ pc[u] # "idle" /\ t # u => cur[t] # cur[u]
    BY DEF ThreadInv, ThreadOK
  <1> QED
    BY <1>1, <1>2

(* What a step leaves alone when it changes neither the data of the batches *)
(* nor the callbacks and the phase of the loop.                            *)
LEMMA DataKept ==
  ASSUME IndInv,
         UNCHANGED <<issued, life, local_pending, pending_futures, replies,
                     stage, cb, callbacks, phase>>
  PROVE  QueueInv' /\ StageInv' /\ CallbackInv' /\ ListInv' /\ CountersExact'
  <1> USE DEF IndInv
  <1>1. QueueInv'
    BY DEF QueueInv
  <1>2. StageInv'
    BY DEF StageInv
  <1>3. CallbackInv'
    BY DEF CallbackInv
  <1>4. ListInv'
    BY DEF ListInv
  <1>5. CountersExact'
    BY StageKept DEF CountersExact
  <1> QED
    BY <1>1, <1>2, <1>3, <1>4, <1>5

(* A thread that moves outside the critical section disturbs nobody.       *)
LEMMA ControlStep ==
  ASSUME IndInv, TypeOK', NEW t \in Threads,
         UNCHANGED <<issued, life, local_pending, pending_futures, replies,
                     stage, cb, callbacks, phase, libev_mutex>>,
         \A u \in Threads \ {t} : pc'[u] = pc[u] /\ cur'[u] = cur[u],
         pc[t] # "append", pc'[t] # "append", ThreadOK(t)'
  PROVE  IndInv'
  <1> USE DEF IndInv
  <1>1. QueueInv' /\ StageInv' /\ CallbackInv' /\ ListInv' /\ CountersExact'
    BY DataKept
  <1>2. ThreadInv'
    <2>1. ASSUME NEW u \in Threads, u # t PROVE ThreadOK(u)'
      BY <2>1 DEF ThreadInv, ThreadOK, CurCmd
    <2> QED
      BY <2>1 DEF ThreadInv
  <1>3. MutexInv'
    BY DEF MutexInv
  <1> QED
    BY <1>1, <1>2, <1>3

LEMMA CountCommandStep ==
  ASSUME IndInv, NEW t \in Threads, CountCommand(t)
  PROVE  IndInv'
  <1> USE DEF IndInv
  <1> DEFINE c == CurCmd(t)
  <1>1. /\ c \in Commands /\ cur[t] \in Batches /\ c[1] = cur[t]
        /\ stage[c] = "local"
        /\ \A u \in Threads : pc[u] # "idle" /\ u # t => cur[u] # cur[t]
    BY OwnCommand DEF CountCommand, ThreadInv, ThreadOK, InRun, At
  <1>2. TypeOK'
    BY <1>1 DEF TypeOK, LoopTypeOK, ThreadTypeOK, DataTypeOK, CountCommand, At, Goto, SetStage, loopVars, pipeVars
  <1>3. ThreadInv'
    <2> SUFFICES ASSUME NEW u \in Threads PROVE ThreadOK(u)'
      BY DEF ThreadInv
    <2>1. ThreadOK(u)
      BY DEF ThreadInv
    <2>2. CASE u = t
      BY <1>1, <2>1, <2>2 DEF TypeOK, ThreadTypeOK, DataTypeOK, ThreadOK, CountCommand, At, Goto, SetStage, CurCmd, InRun
    <2>3. CASE u # t
      BY <1>1, <2>1, <2>3 DEF TypeOK, ThreadTypeOK, DataTypeOK, ThreadOK, CountCommand, At, Goto, SetStage, CurCmd, InRun
    <2> QED
      BY <2>2, <2>3
  <1>4. MutexInv'
    BY DEF TypeOK, ThreadTypeOK, MutexInv, CountCommand, At, Goto, loopVars
  <1>5. QueueInv'
    BY <1>1 DEF TypeOK, DataTypeOK, QueueInv, CountCommand, SetStage, pipeVars
  <1>6. StageInv'
    BY <1>1 DEF TypeOK, DataTypeOK, StageInv, CountCommand, SetStage
  <1>7. CallbackInv'
    BY <1>1 DEF TypeOK, DataTypeOK, CallbackInv, CountCommand, SetStage, loopVars
  <1>8. ListInv'
    BY DEF ListInv, CountCommand
  <1>9. CountersExact'
    <2>1. SetStage(c, "held") /\ stage \in [Commands -> Stages]
      BY DEF TypeOK, DataTypeOK, CountCommand, Stages
    <2>2. Cardinality(InStage({"held", "hiredis"}))' =
             Cardinality(InStage({"held", "hiredis"})) + 1 - 0
      BY <1>1, <2>1, StageMoved DEF Stages
    <2>3. \A b : Cardinality(Unsettled(b)') = Cardinality(Unsettled(b)) + 0
      BY <1>1, <2>1, UnsettledMoved, UnsettledFinite DEF Stages
    <2> QED
      BY <2>2, <2>3, UnsettledFinite, InStageFinite DEF TypeOK, DataTypeOK, CountersExact, CountCommand
  <1> QED
    BY <1>2, <1>3, <1>4, <1>5, <1>6, <1>7, <1>8, <1>9

LEMMA CheckSlotStep ==
  ASSUME IndInv, NEW t \in Threads, CheckSlot(t)
  PROVE  IndInv'
  <1> USE DEF IndInv, CheckSlot, At, Goto, Crash, loopVars, pipeVars, dataVars
  <1>1. TypeOK'
    <2>1. LoopTypeOK(Commands)'
      BY DEF TypeOK, LoopTypeOK
    <2>2. ThreadTypeOK'
      BY DEF TypeOK, ThreadTypeOK
    <2>3. DataTypeOK'
      BY DEF TypeOK, DataTypeOK
    <2> QED
      BY <2>1, <2>2, <2>3 DEF TypeOK
  <1>2. ThreadOK(t)'
    BY DEF TypeOK, ThreadTypeOK, ThreadInv, ThreadOK, CurCmd, InRun
  <1> QED
    BY <1>1, <1>2, ControlStep DEF TypeOK, ThreadTypeOK

LEMMA ParkForSlotStep ==
  ASSUME IndInv, NEW t \in Threads, ParkForSlot(t)
  PROVE  IndInv'
  <1> USE DEF IndInv, ParkForSlot, At, Goto, Crash, loopVars, pipeVars, dataVars
  <1>1. TypeOK'
    <2>1. LoopTypeOK(Commands)'
      BY DEF TypeOK, LoopTypeOK
    <2>2. ThreadTypeOK'
      BY DEF TypeOK, ThreadTypeOK
    <2>3. DataTypeOK'
      BY DEF TypeOK, DataTypeOK
    <2> QED
      BY <2>1, <2>2, <2>3 DEF TypeOK
  <1>2. ThreadOK(t)'
    BY DEF TypeOK, ThreadTypeOK, ThreadInv, ThreadOK, CurCmd, InRun
  <1> QED
    BY <1>1, <1>2, ControlStep DEF TypeOK, ThreadTypeOK

LEMMA TestWakeupStep ==
  ASSUME IndInv, NEW t \in Threads, TestWakeup(t)
  PROVE  IndInv'
  <1> USE DEF IndInv, TestWakeup, Finish, At, Goto, Crash, loopVars, pipeVars, dataVars
  <1>1. TypeOK'
    <2>1. LoopTypeOK(Commands)'
      BY DEF TypeOK, LoopTypeOK
    <2>2. ThreadTypeOK'
      BY DEF TypeOK, ThreadTypeOK
    <2>3. DataTypeOK'
      BY DEF TypeOK, DataTypeOK
    <2> QED
      BY <2>1, <2>2, <2>3 DEF TypeOK
  <1>2. ThreadOK(t)'
    BY DEF TypeOK, ThreadTypeOK, ThreadInv, ThreadOK, CurCmd, InRun
  <1> QED
    BY <1>1, <1>2, ControlStep DEF TypeOK, ThreadTypeOK

LEMMA WakeLoopStep ==
  ASSUME IndInv, NEW t \in Threads, WakeLoop(t)
  PROVE  IndInv'
  <1> USE DEF IndInv, WakeLoop, Finish, SendWakeup, At, Goto, Crash, loopVars, pipeVars, dataVars
  <1>1. TypeOK'
    <2>1. LoopTypeOK(Commands)'
      BY DEF TypeOK, LoopTypeOK
    <2>2. ThreadTypeOK'
      BY DEF TypeOK, ThreadTypeOK
    <2>3. DataTypeOK'
      BY DEF TypeOK, DataTypeOK
    <2> QED
      BY <2>1, <2>2, <2>3 DEF TypeOK
  <1>2. ThreadOK(t)'
    BY DEF TypeOK, ThreadTypeOK, ThreadInv, ThreadOK, CurCmd, InRun
  <1> QED
    BY <1>1, <1>2, ControlStep DEF TypeOK, ThreadTypeOK

LEMMA CheckDoneStep ==
  ASSUME IndInv, NEW t \in Threads, CheckDone(t)
  PROVE  IndInv'
  <1> USE DEF IndInv, CheckDone, At, Goto, Crash, loopVars, pipeVars, dataVars
  <1>1. TypeOK'
    <2>1. LoopTypeOK(Commands)'
      BY DEF TypeOK, LoopTypeOK
    <2>2. ThreadTypeOK'
      BY DEF TypeOK, ThreadTypeOK
    <2>3. DataTypeOK'
      BY DEF TypeOK, DataTypeOK
    <2> QED
      BY <2>1, <2>2, <2>3 DEF TypeOK
  <1>2. ThreadOK(t)'
    BY DEF TypeOK, ThreadTypeOK, ThreadInv, ThreadOK, CurCmd, InRun
  <1> QED
    BY <1>1, <1>2, ControlStep DEF TypeOK, ThreadTypeOK

LEMMA ParkForRepliesStep ==
  ASSUME IndInv, NEW t \in Threads, ParkForReplies(t)
  PROVE  IndInv'
  <1> USE DEF IndInv, ParkForReplies, At, Goto, Crash, loopVars, pipeVars, dataVars
  <1>1. TypeOK'
    <2>1. LoopTypeOK(Commands)'
      BY DEF TypeOK, LoopTypeOK
    <2>2. ThreadTypeOK'
      BY DEF TypeOK, ThreadTypeOK
    <2>3. DataTypeOK'
      BY DEF TypeOK, DataTypeOK
    <2> QED
      BY <2>1, <2>2, <2>3 DEF TypeOK
  <1>2. ThreadOK(t)'
    BY DEF TypeOK, ThreadTypeOK, ThreadInv, ThreadOK, CurCmd, InRun
  <1> QED
    BY <1>1, <1>2, ControlStep DEF TypeOK, ThreadTypeOK

LEMMA ReturnRepliesStep ==
  ASSUME IndInv, NEW t \in Threads, ReturnReplies(t)
  PROVE  IndInv'
  <1> USE DEF IndInv, ReturnReplies, Finish, At, Goto, Crash, loopVars, pipeVars, dataVars
  <1>1. TypeOK'
    <2>1. LoopTypeOK(Commands)'
      BY DEF TypeOK, LoopTypeOK
    <2>2. ThreadTypeOK'
      BY DEF TypeOK, ThreadTypeOK
    <2>3. DataTypeOK'
      BY DEF TypeOK, DataTypeOK
    <2> QED
      BY <2>1, <2>2, <2>3 DEF TypeOK
  <1>2. ThreadOK(t)'
    BY DEF TypeOK, ThreadTypeOK, ThreadInv, ThreadOK, CurCmd, InRun
  <1> QED
    BY <1>1, <1>2, ControlStep DEF TypeOK, ThreadTypeOK

LEMMA ReturnThrowIfFailedStep ==
  ASSUME IndInv, NEW t \in Threads, ReturnThrowIfFailed(t)
  PROVE  IndInv'
  <1> USE DEF IndInv, ReturnThrowIfFailed, Finish, At, Goto, Crash, loopVars, pipeVars, dataVars
  <1>1. TypeOK'
    <2>1. LoopTypeOK(Commands)'
      BY DEF TypeOK, LoopTypeOK
    <2>2. ThreadTypeOK'
      BY DEF TypeOK, ThreadTypeOK
    <2>3. DataTypeOK'
      BY DEF TypeOK, DataTypeOK
    <2> QED
      BY <2>1, <2>2, <2>3 DEF TypeOK
  <1>2. ThreadOK(t)'
    BY DEF TypeOK, ThreadTypeOK, ThreadInv, ThreadOK, CurCmd, InRun
  <1> QED
    BY <1>1, <1>2, ControlStep DEF TypeOK, ThreadTypeOK

LEMMA SpuriousWakeupStep ==
  ASSUME IndInv, NEW t \in Threads, SpuriousWakeup(t)
  PROVE  IndInv'
  <1> USE DEF IndInv, SpuriousWakeup, At, Goto, Crash, loopVars, pipeVars, dataVars
  <1>1. TypeOK'
    <2>1. LoopTypeOK(Commands)'
      BY DEF TypeOK, LoopTypeOK
    <2>2. ThreadTypeOK'
      BY DEF TypeOK, ThreadTypeOK
    <2>3. DataTypeOK'
      BY DEF TypeOK, DataTypeOK
    <2> QED
      BY <2>1, <2>2, <2>3 DEF TypeOK
  <1>2. ThreadOK(t)'
    BY DEF TypeOK, ThreadTypeOK, ThreadInv, ThreadOK, CurCmd, InRun
  <1> QED
    BY <1>1, <1>2, ControlStep DEF TypeOK, ThreadTypeOK

LEMMA PushToFreedStep ==
  ASSUME IndInv, NEW t \in Threads, PushToFreed(t)
  PROVE  IndInv'
  <1> USE DEF IndInv, PushToFreed, At, Goto, Crash, loopVars, pipeVars, dataVars
  <1>1. TypeOK'
    <2>1. LoopTypeOK(Commands)'
      BY DEF TypeOK, LoopTypeOK
    <2>2. ThreadTypeOK'
      BY DEF TypeOK, ThreadTypeOK
    <2>3. DataTypeOK'
      BY DEF TypeOK, DataTypeOK
    <2> QED
      BY <2>1, <2>2, <2>3 DEF TypeOK
  <1>2. ThreadOK(t)'
    BY DEF TypeOK, ThreadTypeOK, ThreadInv, ThreadOK, CurCmd, InRun
  <1> QED
    BY <1>1, <1>2, ControlStep DEF TypeOK, ThreadTypeOK

LEMMA CallRepliesStep ==
  ASSUME IndInv, NEW t \in Threads, NEW b \in Batches, NEW o \in Operations,
         CallReplies(t, b, o)
  PROVE  IndInv'
  <1> USE DEF IndInv, CallReplies, At, Goto, loopVars, pipeVars, dataVars
  <1>1. TypeOK'
    <2>1. LoopTypeOK(Commands)'
      BY DEF TypeOK, LoopTypeOK
    <2>2. ThreadTypeOK'
      BY DEF TypeOK, ThreadTypeOK
    <2>3. DataTypeOK'
      BY DEF TypeOK, DataTypeOK
    <2> QED
      BY <2>1, <2>2, <2>3 DEF TypeOK
  <1>2. ThreadOK(t)'
    BY DEF TypeOK, ThreadTypeOK, ThreadInv, ThreadOK, CurCmd, InRun
  <1> QED
    BY <1>1, <1>2, ControlStep DEF TypeOK, ThreadTypeOK

LEMMA MakeBatchStep ==
  ASSUME IndInv, NEW t \in Threads, NEW b \in Batches, MakeBatch(t, b)
  PROVE  IndInv'
  <1> USE DEF IndInv, loopVars, pipeVars, threadVars
  <1>0. /\ life' = life \/ life' = [life EXCEPT ![b] = "live"]
        /\ crashed' \in BOOLEAN
        /\ life[b] = "none"
        /\ UNCHANGED <<loopVars, pipeVars, threadVars, issued, local_pending,
                       pending_futures, replies, value, stage, cb, verdict>>
    <2>1. crashed' \in BOOLEAN
      BY DEF MakeBatch, Crash, TypeOK, DataTypeOK
    <2>2. /\ life' = life \/ life' = [life EXCEPT ![b] = "live"]
          /\ life[b] = "none"
          /\ UNCHANGED <<loopVars, pipeVars, threadVars, issued, local_pending,
                         pending_futures, replies, value, stage, cb, verdict>>
      BY Zenon DEF MakeBatch
    <2> QED
      BY <2>1, <2>2
  <1>1. TypeOK'
    <2>1. LoopTypeOK(Commands)'
      BY <1>0 DEF TypeOK, LoopTypeOK
    <2>2. ThreadTypeOK'
      BY <1>0 DEF TypeOK, ThreadTypeOK
    <2>3. DataTypeOK'
      BY <1>0 DEF TypeOK, DataTypeOK
    <2> QED
      BY <2>1, <2>2, <2>3 DEF TypeOK
  <1>2. ThreadInv'
    BY <1>0 DEF TypeOK, DataTypeOK, ThreadInv, ThreadOK, CurCmd, InRun
  <1>3. MutexInv' /\ QueueInv' /\ CallbackInv' /\ ListInv'
    BY <1>0 DEF MutexInv, QueueInv, CallbackInv, ListInv
  <1>4. StageInv'
    <2>1. ASSUME NEW c \in Commands, life[BatchOf(c)] = "live"
          PROVE  life'[BatchOf(c)] = "live"
      <3>1. BatchOf(c) \in Batches /\ BatchOf(c) # b
        BY <1>0, <2>1 DEF BatchOf, Commands
      <3> QED
        BY <1>0, <2>1, <3>1 DEF TypeOK, DataTypeOK
    <2> QED
      BY <1>0, <2>1 DEF StageInv
  <1>5. CountersExact'
    BY <1>0, StageKept DEF CountersExact
  <1> QED
    BY <1>1, <1>2, <1>3, <1>4, <1>5

LEMMA BeginRunStep ==
  ASSUME IndInv, NEW t \in Threads, NEW b \in Batches, BeginRun(t, b)
  PROVE  IndInv'
  <1> USE DEF IndInv, BeginRun, At, Goto, loopVars, pipeVars
  <1> DEFINE c == <<b, issued[b] + 1>>
  <1>1. /\ c \in Commands /\ stage[c] = "unborn" /\ c[1] = b
        /\ issued[b] + 1 \in 1..MaxCommands
    BY BatchAssumption DEF TypeOK, DataTypeOK, StageInv, Commands
  <1>2. \A u \in Threads : pc[u] # "idle" => cur[u] # b
    BY DEF ThreadInv, ThreadOK
  <1>3. TypeOK'
    <2>1. LoopTypeOK(Commands)'
      BY <1>1, BatchAssumption DEF TypeOK, LoopTypeOK
    <2>2. ThreadTypeOK'
      BY <1>1, BatchAssumption DEF TypeOK, ThreadTypeOK
    <2>3. DataTypeOK'
      BY <1>1, BatchAssumption DEF TypeOK, DataTypeOK, SetStage
    <2> QED
      BY <2>1, <2>2, <2>3 DEF TypeOK
  <1>4. ThreadInv'
    <2> SUFFICES ASSUME NEW u \in Threads PROVE ThreadOK(u)'
      BY DEF ThreadInv
    <2>1. ThreadOK(u)
      BY DEF ThreadInv
    <2>2. CASE u = t
      BY <1>1, <1>2, <2>1, <2>2 DEF TypeOK, ThreadTypeOK, DataTypeOK, ThreadOK, CurCmd, InRun, SetStage
    <2>3. CASE u # t
      <3>1. pc[u] # "idle" => CurCmd(u) # c
        BY <1>2 DEF CurCmd
      <3>2. /\ pc'[u] = pc[u] /\ cur'[u] = cur[u]
            /\ pc[u] # "idle" =>
                  /\ issued'[cur[u]] = issued[cur[u]]
                  /\ local_pending'[cur[u]] = local_pending[cur[u]]
                  /\ stage'[CurCmd(u)] = stage[CurCmd(u)]
        BY <1>2, <2>3, <3>1 DEF TypeOK, ThreadTypeOK, DataTypeOK, SetStage
      <3> QED
        BY <2>1, <3>2 DEF ThreadOK, CurCmd, InRun
    <2> QED
      BY <2>2, <2>3
  <1>5. MutexInv'
    BY DEF TypeOK, ThreadTypeOK, MutexInv
  <1>6. QueueInv'
    <2>1. \A d \in Commands : stage'[d] = "hiredis" <=> stage[d] = "hiredis"
      BY <1>1 DEF TypeOK, DataTypeOK, SetStage
    <2> QED
      BY <2>1 DEF QueueInv
  <1>7. StageInv'
    <2> SUFFICES ASSUME NEW d \in Commands PROVE StageInv!(d)'
      BY DEF StageInv
    <2>1. d[1] \in Batches /\ d[2] \in Nat /\ issued[d[1]] \in Nat /\ d = <<d[1], d[2]>>
      BY BatchAssumption DEF Commands, TypeOK, DataTypeOK
    <2> QED
      BY <1>1, <2>1 DEF TypeOK, DataTypeOK, StageInv, SetStage
  <1>8. CallbackInv'
    BY <1>1 DEF TypeOK, DataTypeOK, CallbackInv, SetStage
  <1>9. ListInv'
    BY DEF ListInv
  <1>10. CountersExact'
    <2>1. SetStage(c, "local") /\ stage \in [Commands -> Stages]
      BY DEF TypeOK, DataTypeOK, Stages
    <2>2. Cardinality(InStage({"held", "hiredis"}))' =
             Cardinality(InStage({"held", "hiredis"})) + 0 - 0
      BY <1>1, <2>1, StageMoved DEF Stages
    <2>3. \A x : Cardinality(Unsettled(x)') =
                    Cardinality(Unsettled(x)) + (IF x = b THEN 1 ELSE 0) - 0
      BY <1>1, <2>1, UnsettledMoved DEF Stages
    <2> QED
      BY <2>2, <2>3, UnsettledFinite, InStageFinite DEF TypeOK, DataTypeOK, CountersExact
  <1> QED
    BY <1>3, <1>4, <1>5, <1>6, <1>7, <1>8, <1>9, <1>10

LEMMA InsertAtSplit ==
  ASSUME NEW s, NEW i, NEW e
  PROVE  InsertAt(s, i, e) = SubSeq(s, 1, i - 1) \o <<e>> \o SubSeq(s, i, Len(s))
  BY DEF InsertAt

(* A node goes to the end of the list as long as reset() has not cleared   *)
(* it.                                                                     *)
LEMMA AddsAtEnd ==
  ASSUME NEW list, list.nodes \in Seq(Commands), list.next = Len(list.nodes),
         NEW c \in Commands
  PROVE  AddReply(list, c).nodes = Append(list.nodes, c)
  <1> SUFFICES ASSUME NEW s \in Seq(Commands), NEW i, i = Len(s) + 1
               PROVE  InsertAt(s, i, c) = Append(s, c)
    BY DEF AddReply
  <1>1. Len(s) \in Nat /\ i - 1 = Len(s) /\ i \in Int
    BY LenProperties
  <1>2. SubSeq(s, 1, i - 1) = s
    BY <1>1, SubSeqFull
  <1>3. SubSeq(s, i, Len(s)) = <<>>
    BY <1>1, SubSeqEmpty
  <1>4. InsertAt(s, i, c) = s \o <<c>> \o <<>>
    BY <1>2, <1>3, InsertAtSplit
  <1>5. s \o <<c>> = Append(s, c) /\ Append(s, c) \in Seq(Commands)
    BY AppendIsConcat, AppendProperties
  <1> QED
    BY <1>4, <1>5, ConcatEmptySeq

LEMMA AddNodeStep ==
  ASSUME IndInv, NEW t \in Threads, AddNode(t)
  PROVE  IndInv'
  <1> USE DEF IndInv, AddNode, At, Goto, Crash, CanAdd, loopVars, pipeVars
  <1> DEFINE b == cur[t]
             c == CurCmd(t)
  <1>1. c \in Commands /\ b \in Batches
    BY OwnCommand DEF ThreadInv, ThreadOK, InRun
  <1>2. replies[b].nodes \in Seq(Commands) /\ replies[b].size = Len(replies[b].nodes)
    BY <1>1 DEF TypeOK, DataTypeOK, ListInv
  <1>3. CASE CanAdd(replies[b])
    <2>1. replies[b].next = Len(replies[b].nodes)
      BY <1>1, <1>3 DEF ListInv
    <2>2. AddReply(replies[b], c) =
             [nodes |-> Append(replies[b].nodes, c),
              next  |-> Len(replies[b].nodes) + 1,
              size  |-> Len(replies[b].nodes) + 1]
      BY <1>1, <1>2, <2>1, AddsAtEnd DEF AddReply
    <2>3. /\ Append(replies[b].nodes, c) \in Seq(Commands)
          /\ Len(Append(replies[b].nodes, c)) = Len(replies[b].nodes) + 1
          /\ Len(replies[b].nodes) \in Nat
      BY <1>1, <1>2, AppendProperties, LenProperties
    <2>4. replies' = [replies EXCEPT ![b] = AddReply(replies[b], c)]
      BY <1>3
    <2>5. LoopTypeOK(Commands)'
      BY DEF TypeOK, LoopTypeOK
    <2>6. ThreadTypeOK'
      BY <1>3 DEF TypeOK, ThreadTypeOK
    <2>7. DataTypeOK'
      BY <1>1, <1>3, <2>2, <2>3, <2>4 DEF TypeOK, DataTypeOK
    <2>8. ThreadInv'
      BY <1>3 DEF TypeOK, ThreadTypeOK, ThreadInv, ThreadOK, CurCmd, InRun
    <2>9. MutexInv' /\ QueueInv' /\ StageInv' /\ CallbackInv'
      BY <1>3 DEF TypeOK, ThreadTypeOK, MutexInv, QueueInv, StageInv, CallbackInv
    <2>10. ListInv'
      BY <1>1, <2>2, <2>3, <2>4 DEF TypeOK, DataTypeOK, ListInv
    <2>11. CountersExact'
      BY StageKept DEF CountersExact
    <2> QED
      BY <2>5, <2>6, <2>7, <2>8, <2>9, <2>10, <2>11 DEF TypeOK
  <1>4. CASE ~CanAdd(replies[b])
    <2>1. TypeOK'
      BY <1>4 DEF TypeOK, LoopTypeOK, ThreadTypeOK, DataTypeOK
    <2>2. ThreadOK(t)'
      BY <1>4 DEF ThreadInv, ThreadOK, CurCmd
    <2> QED
      BY <1>4, <2>1, <2>2, ControlStep
  <1> QED
    BY <1>3, <1>4

LEMMA PushCommandStep ==
  ASSUME IndInv, NEW t \in Threads, PushCommand(t)
  PROVE  IndInv'
  <1> USE DEF IndInv, PushCommand, At, Goto, LockLibev, PushCallback
  <1> DEFINE c == CurCmd(t)
  <1>1. /\ c \in Commands /\ cur[t] \in Batches /\ c[1] = cur[t]
        /\ stage[c] = "held"
        /\ \A u \in Threads : pc[u] # "idle" /\ u # t => cur[u] # cur[t]
    BY OwnCommand DEF ThreadInv, ThreadOK, InRun
  <1>2. /\ callbacks \in Seq(Commands)
        /\ callbacks' \in Seq(Commands)
        /\ Len(callbacks) \in Nat
        /\ Len(callbacks') = Len(callbacks) + 1
        /\ \A i \in 1..Len(callbacks) : callbacks'[i] = callbacks[i]
        /\ callbacks'[Len(callbacks) + 1] = c
    BY <1>1, AppendProperties, LenProperties DEF TypeOK, LoopTypeOK
  <1>3. TypeOK'
    <2>1. LoopTypeOK(Commands)'
      BY <1>1, <1>2 DEF TypeOK, LoopTypeOK
    <2>2. ThreadTypeOK'
      BY <1>1, <1>2 DEF TypeOK, ThreadTypeOK
    <2>3. DataTypeOK'
      BY <1>1, <1>2 DEF TypeOK, DataTypeOK, SetStage
    <2> QED
      BY <2>1, <2>2, <2>3 DEF TypeOK
  <1>4. ThreadInv'
    <2> SUFFICES ASSUME NEW u \in Threads PROVE ThreadOK(u)'
      BY DEF ThreadInv
    <2>1. ThreadOK(u)
      BY DEF ThreadInv
    <2>2. CASE u = t
      BY <1>1, <2>1, <2>2 DEF TypeOK, ThreadTypeOK, DataTypeOK, ThreadOK, SetStage, CurCmd, InRun
    <2>3. CASE u # t
      BY <1>1, <2>1, <2>3 DEF TypeOK, ThreadTypeOK, DataTypeOK, ThreadOK, SetStage, CurCmd, InRun
    <2> QED
      BY <2>2, <2>3
  <1>5. MutexInv'
    BY LoopAssumption DEF TypeOK, LoopTypeOK, ThreadTypeOK, MutexInv
  <1>6. QueueInv'
    <2>1. \A i \in 1..Len(callbacks) : callbacks[i] \in Commands /\ callbacks[i] # c
      BY <1>1, <1>2, ElementOfSeq DEF QueueInv
    <2>2. \A d \in Commands : stage'[d] = "hiredis" <=> stage[d] = "hiredis" \/ d = c
      BY <1>1 DEF TypeOK, DataTypeOK, SetStage
    <2>3. 1..Len(callbacks') = (1..Len(callbacks)) \cup {Len(callbacks) + 1}
      BY <1>2
    <2>4. \A d \in Commands :
             stage'[d] = "hiredis" <=> \E i \in 1..Len(callbacks') : callbacks'[i] = d
      BY <1>2, <2>2, <2>3 DEF QueueInv
    <2>5. \A i, j \in 1..Len(callbacks') : callbacks'[i] = callbacks'[j] => i = j
      BY <1>2, <2>1, <2>3 DEF QueueInv
    <2> QED
      BY <2>4, <2>5 DEF QueueInv
  <1>7. StageInv'
    BY <1>1 DEF TypeOK, DataTypeOK, StageInv, SetStage
  <1>8. CallbackInv'
    BY <1>1 DEF TypeOK, DataTypeOK, CallbackInv, SetStage
  <1>9. ListInv'
    BY DEF ListInv
  <1>10. CountersExact'
    <2>1. SetStage(c, "hiredis") /\ stage \in [Commands -> Stages]
      BY DEF TypeOK, DataTypeOK, Stages
    <2>2. Cardinality(InStage({"held", "hiredis"}))' =
             Cardinality(InStage({"held", "hiredis"})) + 1 - 1
      BY <1>1, <2>1, StageMoved DEF Stages
    <2>3. \A x : Cardinality(Unsettled(x)') = Cardinality(Unsettled(x))
      BY <1>1, <2>1, UnsettledMoved, UnsettledFinite DEF Stages
    <2> QED
      BY <1>1, <2>2, <2>3, UnsettledFinite, InStageFinite DEF TypeOK, DataTypeOK, CountersExact
  <1> QED
    BY <1>3, <1>4, <1>5, <1>6, <1>7, <1>8, <1>9, <1>10

LEMMA AppendAndUnlockStep ==
  ASSUME IndInv, NEW t \in Threads, AppendAndUnlock(t)
  PROVE  IndInv'
  <1> USE DEF IndInv, AppendAndUnlock, At, Goto, UnlockLibev, AppendCommand, dataVars
  <1>1. CurCmd(t) \in Commands
    BY OwnCommand DEF InRun
  <1>2. obuf' \in Seq(Commands)
    BY <1>1, AppendProperties DEF TypeOK, LoopTypeOK
  <1>3. TypeOK'
    <2>1. LoopTypeOK(Commands)'
      BY <1>2 DEF TypeOK, LoopTypeOK
    <2>2. ThreadTypeOK'
      BY <1>2 DEF TypeOK, ThreadTypeOK
    <2>3. DataTypeOK'
      BY <1>2 DEF TypeOK, DataTypeOK
    <2> QED
      BY <2>1, <2>2, <2>3 DEF TypeOK
  <1>4. ThreadInv'
    BY DEF TypeOK, ThreadTypeOK, ThreadInv, ThreadOK, CurCmd, InRun
  <1>5. MutexInv'
    BY LoopAssumption DEF TypeOK, ThreadTypeOK, MutexInv
  <1>6. QueueInv' /\ StageInv' /\ CallbackInv' /\ ListInv' /\ CountersExact'
    BY DataKept
  <1> QED
    BY <1>3, <1>4, <1>5, <1>6

LEMMA ReturnResetStep ==
  ASSUME IndInv, NEW t \in Threads, ReturnReset(t)
  PROVE  IndInv'
  <1> USE DEF IndInv, ReturnReset, At, Goto, Finish, ClearReplies, BeginOf, loopVars, pipeVars
  <1> DEFINE b == cur[t]
  <1>1. /\ b \in Batches
        /\ \A u \in Threads : pc[u] # "idle" /\ u # t => cur[u] # b
    BY OwnCommand DEF ThreadInv, ThreadOK
  <1>2. TypeOK'
    <2>1. LoopTypeOK(Commands)'
      BY <1>1, EmptySeq DEF TypeOK, LoopTypeOK
    <2>2. ThreadTypeOK'
      BY <1>1, EmptySeq DEF TypeOK, ThreadTypeOK
    <2>3. DataTypeOK'
      BY <1>1, EmptySeq DEF TypeOK, DataTypeOK, End
    <2> QED
      BY <2>1, <2>2, <2>3 DEF TypeOK
  <1>3. ThreadInv'
    BY <1>1 DEF TypeOK, ThreadTypeOK, DataTypeOK, ThreadInv, ThreadOK, CurCmd, InRun
  <1>4. MutexInv' /\ QueueInv' /\ CallbackInv'
    BY DEF TypeOK, ThreadTypeOK, MutexInv, QueueInv, CallbackInv
  <1>5. StageInv'
    BY DEF StageInv
  <1>6. ListInv'
    BY <1>1, EmptySeq DEF TypeOK, DataTypeOK, ListInv, End
  <1>7. CountersExact'
    BY StageKept DEF CountersExact
  <1> QED
    BY <1>2, <1>3, <1>4, <1>5, <1>6, <1>7

LEMMA ReturnDestroyStep ==
  ASSUME IndInv, NEW t \in Threads, ReturnDestroy(t)
  PROVE  IndInv'
  <1> USE DEF IndInv, ReturnDestroy, At, Goto, Finish, ClearReplies, BeginOf, loopVars, pipeVars
  <1> DEFINE b == cur[t]
  <1>1. /\ b \in Batches
        /\ \A u \in Threads : pc[u] # "idle" /\ u # t => cur[u] # b
    BY OwnCommand DEF ThreadInv, ThreadOK
  <1>2. TypeOK'
    <2>1. LoopTypeOK(Commands)'
      BY <1>1, EmptySeq DEF TypeOK, LoopTypeOK
    <2>2. ThreadTypeOK'
      BY <1>1, EmptySeq DEF TypeOK, ThreadTypeOK
    <2>3. DataTypeOK'
      BY <1>1, EmptySeq DEF TypeOK, DataTypeOK, End
    <2> QED
      BY <2>1, <2>2, <2>3 DEF TypeOK
  <1>3. ThreadInv'
    BY <1>1 DEF TypeOK, ThreadTypeOK, DataTypeOK, ThreadInv, ThreadOK, CurCmd, InRun
  <1>4. MutexInv' /\ QueueInv' /\ CallbackInv'
    BY DEF TypeOK, ThreadTypeOK, MutexInv, QueueInv, CallbackInv
  <1>5. StageInv'
    <2>1. Unsettled(b) = {}
      BY <1>1, UnsettledFinite, FS_EmptySet DEF ThreadInv, ThreadOK, CountersExact
    <2>2. \A c \in Commands :
             stage[c] \in {"local", "held", "hiredis", "called"} => c[1] # b
      BY <2>1 DEF Unsettled, InStage
    <2> QED
      BY <2>2, BatchAssumption DEF TypeOK, DataTypeOK, StageInv, Commands
  <1>6. ListInv'
    BY <1>1, EmptySeq DEF TypeOK, DataTypeOK, ListInv, End
  <1>7. CountersExact'
    BY StageKept DEF CountersExact
  <1> QED
    BY <1>2, <1>3, <1>4, <1>5, <1>6, <1>7

(* A command counted somewhere keeps the counter above zero.               *)
LEMMA CountersPositive ==
  ASSUME TypeOK, CountersExact, NEW c \in Commands
  PROVE  /\ stage[c] \in {"held", "hiredis"} => pending_futures >= 1
         /\ stage[c] \in {"local", "held", "hiredis", "called"} =>
               c[1] \in Batches /\ local_pending[c[1]] >= 1
  <1>1. ASSUME stage[c] \in {"held", "hiredis"} PROVE pending_futures >= 1
    <2>1. c \in InStage({"held", "hiredis"})
      BY <1>1 DEF InStage
    <2> QED
      BY <2>1, InStageFinite, FS_EmptySet DEF TypeOK, DataTypeOK, CountersExact
  <1>2. ASSUME stage[c] \in {"local", "held", "hiredis", "called"}
        PROVE  c[1] \in Batches /\ local_pending[c[1]] >= 1
    <2>1. c[1] \in Batches
      BY DEF Commands
    <2>2. c \in Unsettled(c[1])
      BY <1>2 DEF Unsettled, InStage
    <2> QED
      BY <2>1, <2>2, UnsettledFinite, FS_EmptySet DEF TypeOK, DataTypeOK, CountersExact
  <1> QED
    BY <1>1, <1>2

(* The stage of a command hiredis has moves without touching a thread in   *)
(* run_pvt().                                                              *)
LEMMA CallbackThreads ==
  ASSUME IndInv, NEW c \in Commands, NEW s,
         stage[c] \in {"hiredis", "called", "settled"},
         phase = "dispatch",
         SetStage(c, s), UNCHANGED <<threadVars, issued, life>>,
         \A b \in Batches : local_pending[b] = 0 => local_pending'[b] = 0
  PROVE  ThreadInv'
  <1> SUFFICES ASSUME NEW u \in Threads PROVE ThreadOK(u)'
    BY DEF ThreadInv
  <1>1. ThreadOK(u) /\ pc[u] # "append"
    BY LoopAssumption DEF IndInv, ThreadInv, MutexInv
  <1>2. pc[u] \in InRun => CurCmd(u) # c /\ CurCmd(u) \in Commands
    BY <1>1, OwnCommand DEF IndInv, ThreadOK, InRun
  <1> QED
    BY <1>1, <1>2 DEF IndInv, TypeOK, DataTypeOK, ThreadOK, SetStage, threadVars, InRun, CurCmd

LEMMA StartCallbackStep ==
  ASSUME IndInv, StartCallback
  PROVE  IndInv'
  <1> USE DEF IndInv, StartCallback, CallbackAt, loopVars, threadVars
  <1> DEFINE c == Head(callbacks)
  <1>1. /\ c \in Commands /\ c = callbacks[1]
        /\ callbacks' \in Seq(Commands)
        /\ Len(callbacks) \in Nat /\ Len(callbacks) >= 1
        /\ Len(callbacks') = Len(callbacks) - 1
        /\ \A i \in 1..Len(callbacks') : callbacks'[i] = callbacks[i + 1]
    BY HeadTailProperties, EmptySeq DEF TypeOK, LoopTypeOK
  <1>2. stage[c] = "hiredis"
    BY <1>1 DEF QueueInv
  <1>3. pending_futures >= 1
    BY <1>1, <1>2, CountersPositive
  <1>4. PICK ans \in Commands \cup {None} :
          /\ \/ inbuf # <<>> /\ inbuf' = Tail(inbuf)
             \/ UNCHANGED inbuf
          /\ cb' = [at  |-> IF pending_futures = MaxUnanswered
                            THEN "notify_slot" ELSE "store",
                    cmd |-> c, ans |-> ans]
    OBVIOUS
  <1>5. inbuf' \in Seq(Commands)
    BY <1>4, HeadTailProperties DEF TypeOK, LoopTypeOK
  <1>6. TypeOK'
    <2>1. LoopTypeOK(Commands)'
      BY <1>1, <1>3, <1>4, <1>5 DEF TypeOK, LoopTypeOK
    <2>2. ThreadTypeOK'
      BY <1>1, <1>3, <1>4, <1>5 DEF TypeOK, ThreadTypeOK
    <2>3. DataTypeOK'
      BY <1>1, <1>3, <1>4, <1>5 DEF TypeOK, DataTypeOK, SetStage
    <2> QED
      BY <2>1, <2>2, <2>3 DEF TypeOK
  <1>7. ThreadInv'
    BY <1>1, <1>2, CallbackThreads
  <1>8. MutexInv'
    BY DEF MutexInv
  <1>9. QueueInv'
    <2>1. \A d \in Commands : stage'[d] = "hiredis" <=> stage[d] = "hiredis" /\ d # c
      BY <1>1 DEF TypeOK, DataTypeOK, SetStage
    <2>2. ASSUME NEW d \in Commands
          PROVE  stage'[d] = "hiredis" <=> \E i \in 1..Len(callbacks') : callbacks'[i] = d
      <3>1. ASSUME stage'[d] = "hiredis"
            PROVE  \E i \in 1..Len(callbacks') : callbacks'[i] = d
        <4>1. PICK i \in 1..Len(callbacks) : callbacks[i] = d
          BY <2>1, <3>1 DEF QueueInv
        <4>2. i # 1 /\ i - 1 \in 1..Len(callbacks') /\ callbacks'[i - 1] = d
          BY <1>1, <2>1, <3>1, <4>1
        <4> QED
          BY <4>2
      <3>2. ASSUME NEW i \in 1..Len(callbacks'), callbacks'[i] = d
            PROVE  stage'[d] = "hiredis"
        <4>1. i + 1 \in 1..Len(callbacks) /\ callbacks[i + 1] = d /\ i + 1 # 1
          BY <1>1, <3>2
        <4> QED
          BY <1>1, <2>1, <4>1 DEF QueueInv
      <3> QED
        BY <3>1, <3>2
    <2>3. ASSUME NEW i \in 1..Len(callbacks'), NEW j \in 1..Len(callbacks'),
                 callbacks'[i] = callbacks'[j]
          PROVE  i = j
      <3>1. /\ i + 1 \in 1..Len(callbacks) /\ j + 1 \in 1..Len(callbacks)
            /\ callbacks[i + 1] = callbacks[j + 1]
        BY <1>1, <2>3
      <3> QED
        BY <3>1 DEF QueueInv
    <2> QED
      BY <2>2, <2>3 DEF QueueInv
  <1>10. StageInv'
    BY <1>1, <1>2 DEF TypeOK, DataTypeOK, StageInv, SetStage
  <1>11. CallbackInv'
    BY <1>1, <1>4 DEF TypeOK, DataTypeOK, CallbackInv, SetStage
  <1>12. ListInv'
    BY DEF ListInv
  <1>13. CountersExact'
    <2>1. SetStage(c, "called") /\ stage \in [Commands -> Stages]
      BY DEF TypeOK, DataTypeOK, Stages
    <2>2. Cardinality(InStage({"held", "hiredis"}))' =
             Cardinality(InStage({"held", "hiredis"})) + 0 - 1
      BY <1>1, <1>2, <2>1, StageMoved DEF Stages
    <2>3. \A x : Cardinality(Unsettled(x)') = Cardinality(Unsettled(x))
      BY <1>1, <1>2, <2>1, UnsettledMoved, UnsettledFinite DEF Stages
    <2> QED
      BY <1>1, <1>2, <2>2, <2>3, UnsettledFinite, InStageFinite DEF TypeOK, DataTypeOK, CountersExact
  <1> QED
    BY <1>6, <1>7, <1>8, <1>9, <1>10, <1>11, <1>12, <1>13

LEMMA NotifySlotStep ==
  ASSUME IndInv, NotifySlot
  PROVE  IndInv'
  <1> USE DEF IndInv, NotifySlot, CallbackAt, Notify, loopVars, pipeVars
  <1>1. TypeOK'
    <2>1. LoopTypeOK(Commands)'
      BY DEF TypeOK, LoopTypeOK
    <2>2. ThreadTypeOK'
      BY DEF TypeOK, ThreadTypeOK
    <2>3. DataTypeOK'
      BY DEF TypeOK, DataTypeOK
    <2> QED
      BY <2>1, <2>2, <2>3 DEF TypeOK
  <1>2. ThreadInv'
    BY DEF TypeOK, ThreadTypeOK, ThreadInv, ThreadOK, CurCmd, InRun
  <1>3. MutexInv'
    BY DEF TypeOK, ThreadTypeOK, MutexInv
  <1>4. QueueInv' /\ StageInv' /\ ListInv'
    BY DEF QueueInv, StageInv, ListInv
  <1>5. CallbackInv'
    BY DEF TypeOK, DataTypeOK, CallbackInv
  <1>6. CountersExact'
    BY StageKept DEF CountersExact
  <1> QED
    BY <1>1, <1>2, <1>3, <1>4, <1>5, <1>6

LEMMA StoreReplyStep ==
  ASSUME IndInv, StoreReply
  PROVE  IndInv'
  <1> USE DEF IndInv, StoreReply, CallbackAt, Crash, loopVars, pipeVars, threadVars
  <1>1. TypeOK'
    <2>1. LoopTypeOK(Commands)'
      BY DEF TypeOK, LoopTypeOK
    <2>2. ThreadTypeOK'
      BY DEF TypeOK, ThreadTypeOK
    <2>3. DataTypeOK'
      BY DEF TypeOK, DataTypeOK
    <2> QED
      BY <2>1, <2>2, <2>3 DEF TypeOK
  <1>2. ThreadInv'
    BY DEF ThreadInv, ThreadOK, CurCmd
  <1>3. MutexInv' /\ QueueInv' /\ StageInv' /\ ListInv'
    BY DEF MutexInv, QueueInv, StageInv, ListInv
  <1>4. CallbackInv'
    BY DEF TypeOK, DataTypeOK, CallbackInv
  <1>5. CountersExact'
    BY StageKept DEF CountersExact
  <1> QED
    BY <1>1, <1>2, <1>3, <1>4, <1>5

LEMMA SettleReplyStep ==
  ASSUME IndInv, SettleReply
  PROVE  IndInv'
  <1> USE DEF IndInv, SettleReply, CallbackAt, NoCall, loopVars, pipeVars, threadVars
  <1> DEFINE c == cb.cmd
             b == BatchOf(c)
             s == IF local_pending[b] = 1 THEN "settled" ELSE "deleted"
  <1>1. /\ c \in Commands /\ stage[c] = "called" /\ phase = "dispatch"
        /\ b \in Batches /\ local_pending[b] >= 1 /\ local_pending[b] \in Nat
    BY CountersPositive DEF CallbackInv, TypeOK, DataTypeOK
  <1>2. SetStage(c, s) /\ s \in Stages /\ stage \in [Commands -> Stages]
    BY DEF TypeOK, DataTypeOK, Stages
  <1>3. local_pending' = [local_pending EXCEPT ![b] = local_pending[b] - 1]
    OBVIOUS
  <1>4. TypeOK'
    <2>1. LoopTypeOK(Commands)'
      BY <1>1, <1>2, <1>3 DEF TypeOK, LoopTypeOK
    <2>2. ThreadTypeOK'
      BY <1>1, <1>2, <1>3 DEF TypeOK, ThreadTypeOK
    <2>3. DataTypeOK'
      <3>1. local_pending' \in [Batches -> Nat]
        BY <1>1, <1>3 DEF TypeOK, DataTypeOK
      <3>2. stage' \in [Commands -> Stages]
        BY <1>1, <1>2 DEF SetStage
      <3>3. cb' = [cb EXCEPT !.at = "notify_done"] \/ cb' = NoCall
        OBVIOUS
      <3> DEFINE Calls == [at  : {"idle", "notify_slot", "store", "settle", "notify_done"},
                           cmd : Commands \cup {None},
                           ans : Commands \cup {None}]
      <3>4. cb \in Calls
        BY DEF TypeOK, DataTypeOK
      <3>5. NoCall \in Calls
        OBVIOUS
      <3>6. [cb EXCEPT !.at = "notify_done"] \in Calls
        BY <3>4
      <3>7. cb' \in Calls
        BY <3>3, <3>5, <3>6
      <3> QED
        BY <3>1, <3>2, <3>7 DEF TypeOK, DataTypeOK, Stages
    <2> QED
      BY <2>1, <2>2, <2>3 DEF TypeOK
  <1>5. ThreadInv'
    <2>1. \A x \in Batches : local_pending[x] = 0 => local_pending'[x] = 0
      BY <1>1, <1>3 DEF TypeOK, DataTypeOK
    <2> QED
      BY <1>1, <1>2, <2>1, CallbackThreads
  <1>6. MutexInv' /\ ListInv'
    BY DEF MutexInv, ListInv
  <1>7. \A d \in Commands : stage'[d] = IF d = c THEN s ELSE stage[d]
    BY <1>1, <1>2 DEF SetStage
  <1>8. QueueInv'
    BY <1>1, <1>7 DEF QueueInv
  <1>9. StageInv'
    BY <1>1, <1>7 DEF StageInv
  <1>10. CallbackInv'
    <2>1. CASE local_pending[b] = 1
      <3>1. cb' = [cb EXCEPT !.at = "notify_done"]
        BY <2>1
      <3>2. cb'.at = "notify_done" /\ cb'.cmd = c
        BY <3>1 DEF TypeOK, DataTypeOK
      <3> QED
        BY <1>1, <1>7, <2>1, <3>2 DEF CallbackInv
    <2>2. CASE local_pending[b] # 1
      BY <2>2 DEF CallbackInv
    <2> QED
      BY <2>1, <2>2
  <1>11. CountersExact'
    <2>1. Cardinality(InStage({"held", "hiredis"}))' =
             Cardinality(InStage({"held", "hiredis"})) + 0 - 0
      BY <1>1, <1>2, StageMoved DEF Stages
    <2>2. \A x : Cardinality(Unsettled(x)') =
                    Cardinality(Unsettled(x)) + 0 - (IF x = b THEN 1 ELSE 0)
      BY <1>1, <1>2, UnsettledMoved DEF Stages
    <2> QED
      BY <1>1, <1>3, <2>1, <2>2, UnsettledFinite, InStageFinite
      DEF TypeOK, DataTypeOK, CountersExact
  <1> QED
    BY <1>4, <1>5, <1>6, <1>8, <1>9, <1>10, <1>11

LEMMA NotifyDoneStep ==
  ASSUME IndInv, NotifyDone
  PROVE  IndInv'
  <1> USE DEF IndInv, NotifyDone, CallbackAt, Notify, NoCall, loopVars, pipeVars
  <1> DEFINE c == cb.cmd
  <1>1. c \in Commands /\ stage[c] = "settled" /\ phase = "dispatch"
    BY DEF CallbackInv
  <1>2. TypeOK'
    <2>1. LoopTypeOK(Commands)'
      BY <1>1 DEF TypeOK, LoopTypeOK
    <2>2. ThreadTypeOK'
      BY <1>1 DEF TypeOK, ThreadTypeOK
    <2>3. DataTypeOK'
      BY <1>1 DEF TypeOK, DataTypeOK, SetStage
    <2> QED
      BY <2>1, <2>2, <2>3 DEF TypeOK
  <1>3. \A d \in Commands : stage'[d] = IF d = c THEN "deleted" ELSE stage[d]
    BY <1>1 DEF TypeOK, DataTypeOK, SetStage
  <1>4. ThreadInv'
    <2> SUFFICES ASSUME NEW u \in Threads PROVE ThreadOK(u)'
      BY DEF ThreadInv
    <2>1. ThreadOK(u)
      BY DEF ThreadInv
    <2>2. pc[u] \in InRun => CurCmd(u) # c /\ CurCmd(u) \in Commands
      BY <1>1, <2>1, OwnCommand DEF ThreadOK, InRun
    <2> QED
      BY <1>3, <2>1, <2>2 DEF TypeOK, ThreadTypeOK, ThreadOK, CurCmd, InRun
  <1>5. MutexInv'
    BY DEF TypeOK, ThreadTypeOK, MutexInv
  <1>6. QueueInv' /\ StageInv' /\ ListInv'
    BY <1>1, <1>3 DEF QueueInv, StageInv, ListInv
  <1>7. CallbackInv'
    BY DEF CallbackInv
  <1>8. CountersExact'
    <2>1. SetStage(c, "deleted") /\ stage \in [Commands -> Stages]
      BY DEF TypeOK, DataTypeOK, Stages
    <2>2. Cardinality(InStage({"held", "hiredis"}))' =
             Cardinality(InStage({"held", "hiredis"})) + 0 - 0
      BY <1>1, <2>1, StageMoved DEF Stages
    <2>3. \A x : Cardinality(Unsettled(x)') = Cardinality(Unsettled(x))
      BY <1>1, <2>1, UnsettledMoved, UnsettledFinite DEF Stages
    <2> QED
      BY <1>1, <2>2, <2>3, UnsettledFinite, InStageFinite DEF TypeOK, DataTypeOK, CountersExact
  <1> QED
    BY <1>2, <1>4, <1>5, <1>6, <1>7, <1>8

-----------------------------------------------------------------------------
(* The loop and the server, between two callbacks.                         *)

LEMMA LoopStep ==
  ASSUME IndInv, UNCHANGED batchVars, callbacks' = callbacks,
         LoopTypeOK(Commands)', MutexInv', cb.at = "idle" \/ phase' = phase
  PROVE  IndInv'
  <1> USE DEF IndInv, batchVars, threadVars, dataVars
  <1>1. TypeOK'
    BY DEF TypeOK, ThreadTypeOK, DataTypeOK
  <1>2. ThreadInv'
    BY DEF ThreadInv, ThreadOK, CurCmd
  <1>3. QueueInv' /\ StageInv' /\ ListInv'
    BY DEF QueueInv, StageInv, ListInv
  <1>4. CallbackInv'
    BY DEF CallbackInv
  <1>5. CountersExact'
    BY StageKept DEF CountersExact
  <1> QED
    BY <1>1, <1>2, <1>3, <1>4, <1>5

LEMMA TurnLoopStep ==
  ASSUME IndInv, TurnLoop
  PROVE  IndInv'
  <1> USE DEF IndInv, loopVars, pipeVars, LockLibev, UnlockLibev
  <1>1. LoopTypeOK(Commands) /\ MutexInv /\ cb.at = "idle"
    BY DEF TypeOK, TurnLoop, CallbackAt
  <1>2. UNCHANGED batchVars /\ pc' = pc
    BY DEF TurnLoop, batchVars, threadVars
  <1>3. CASE FdReify
    <2>1. LoopTypeOK(Commands)'
      BY <1>1, <1>3 DEF FdReify, LoopTypeOK
    <2>2. MutexInv'
      BY <1>1, <1>2, <1>3, LoopAssumption DEF FdReify, MutexInv
    <2> QED
      BY <1>1, <1>2, <1>3, <2>1, <2>2, LoopStep DEF FdReify
  <1>4. CASE PollReturns
    <2>1. LoopTypeOK(Commands)'
      BY <1>1, <1>4 DEF PollReturns, PollEvents, LoopTypeOK, Events
    <2>2. MutexInv'
      BY <1>1, <1>2, <1>4 DEF PollReturns, MutexInv
    <2> QED
      BY <1>1, <1>2, <1>4, <2>1, <2>2, LoopStep DEF PollReturns
  <1>5. CASE AcquireMutex
    <2>1. LoopTypeOK(Commands)'
      BY <1>1, <1>5 DEF AcquireMutex, LoopTypeOK
    <2>2. MutexInv'
      BY <1>1, <1>2, <1>5, LoopAssumption DEF AcquireMutex, MutexInv
    <2> QED
      BY <1>1, <1>2, <1>5, <2>1, <2>2, LoopStep DEF AcquireMutex
  <1>6. CASE HandleWakeup
    <2>1. LoopTypeOK(Commands)'
      BY <1>1, <1>6 DEF HandleWakeup, LoopTypeOK
    <2>2. MutexInv'
      BY <1>1, <1>2, <1>6 DEF HandleWakeup, MutexInv
    <2> QED
      BY <1>1, <1>2, <1>6, <2>1, <2>2, LoopStep DEF HandleWakeup
  <1>7. CASE HandleWrite
    <2>1. /\ Head(obuf) \in Commands
          /\ Tail(obuf) \in Seq(Commands)
          /\ Append(wire, Head(obuf)) \in Seq(Commands)
      BY <1>1, <1>7, HeadTailProperties, AppendProperties DEF HandleWrite, LoopTypeOK
    <2>2. LoopTypeOK(Commands)'
      BY <1>1, <1>7, <2>1 DEF HandleWrite, LoopTypeOK
    <2>3. MutexInv'
      BY <1>1, <1>2, <1>7 DEF HandleWrite, MutexInv
    <2> QED
      BY <1>1, <1>2, <1>7, <2>2, <2>3, LoopStep DEF HandleWrite
  <1>8. CASE SocketFails
    <2>1. LoopTypeOK(Commands)'
      BY <1>1, <1>8 DEF SocketFails, LoopTypeOK
    <2>2. MutexInv'
      BY <1>1, <1>2, <1>8 DEF SocketFails, MutexInv
    <2> QED
      BY <1>1, <1>2, <1>8, <2>1, <2>2, LoopStep DEF SocketFails
  <1>9. CASE FreeContext
    <2>1. LoopTypeOK(Commands)'
      BY <1>1, <1>9, EmptySeq DEF FreeContext, LoopTypeOK
    <2>2. MutexInv'
      BY <1>1, <1>2, <1>9 DEF FreeContext, MutexInv
    <2> QED
      BY <1>1, <1>2, <1>9, <2>1, <2>2, LoopStep DEF FreeContext
  <1>10. CASE ReadDone
    <2>1. LoopTypeOK(Commands)'
      BY <1>1, <1>10 DEF ReadDone, LoopTypeOK
    <2>2. MutexInv'
      BY <1>1, <1>2, <1>10 DEF ReadDone, MutexInv
    <2> QED
      BY <1>1, <1>2, <1>10, <2>1, <2>2, LoopStep DEF ReadDone
  <1>11. CASE EndDispatch
    <2>1. LoopTypeOK(Commands)'
      BY <1>1, <1>11 DEF EndDispatch, LoopTypeOK
    <2>2. MutexInv'
      BY <1>1, <1>2, <1>11 DEF EndDispatch, MutexInv
    <2> QED
      BY <1>1, <1>2, <1>11, <2>1, <2>2, LoopStep DEF EndDispatch
  <1> QED
    BY <1>3, <1>4, <1>5, <1>6, <1>7, <1>8, <1>9, <1>10, <1>11 DEF TurnLoop

LEMMA ServerStep ==
  ASSUME IndInv, Serve \/ LoseLink
  PROVE  IndInv'
  <1> USE DEF IndInv, loopVars
  <1>1. LoopTypeOK(Commands) /\ MutexInv
    BY DEF TypeOK
  <1>2. UNCHANGED batchVars /\ pc' = pc
    BY DEF Serve, LoseLink, batchVars, threadVars
  <1>3. CASE Serve
    <2>1. /\ Head(wire) \in Commands
          /\ Tail(wire) \in Seq(Commands)
          /\ Append(inbuf, Head(wire)) \in Seq(Commands)
      BY <1>1, <1>3, HeadTailProperties, AppendProperties
      DEF Serve, ServerAnswers, LoopTypeOK
    <2>2. LoopTypeOK(Commands)'
      BY <1>1, <1>3, <2>1 DEF Serve, ServerAnswers, LoopTypeOK
    <2>3. MutexInv'
      BY <1>1, <1>2, <1>3 DEF Serve, ServerAnswers, MutexInv
    <2> QED
      BY <1>2, <1>3, <2>2, <2>3, LoopStep DEF Serve, ServerAnswers
  <1>4. CASE LoseLink
    <2>1. LoopTypeOK(Commands)'
      BY <1>1, <1>4 DEF LoseLink, ServerCloses, LoopTypeOK
    <2>2. MutexInv'
      BY <1>1, <1>2, <1>4 DEF LoseLink, ServerCloses, MutexInv
    <2> QED
      BY <1>2, <1>4, <2>1, <2>2, LoopStep DEF LoseLink, ServerCloses
  <1> QED
    BY <1>3, <1>4

-----------------------------------------------------------------------------
LEMMA InitIndInv ==
  ASSUME Init
  PROVE  IndInv
  <1> USE DEF Init, LoopInit, NoCall, NewReplyList, BeforeBegin
  <1>1. TypeOK
    <2>1. LoopTypeOK(Commands)
      BY EmptySeq DEF LoopTypeOK
    <2>2. ThreadTypeOK
      BY DEF ThreadTypeOK
    <2>3. DataTypeOK
      <3>1. /\ issued \in [Batches -> 0..MaxCommands]
            /\ local_pending \in [Batches -> Nat]
            /\ pending_futures \in Nat
        BY BatchAssumption
      <3>2. replies \in [Batches -> [nodes : Seq(Commands),
                                    next  : Nat \cup {End},
                                    size  : Nat]]
        BY EmptySeq
      <3>3. cb \in [at  : {"idle", "notify_slot", "store", "settle", "notify_done"},
                   cmd : Commands \cup {None},
                   ans : Commands \cup {None}]
        OBVIOUS
      <3> QED
        BY <3>1, <3>2, <3>3 DEF DataTypeOK
    <2> QED
      BY <2>1, <2>2, <2>3 DEF TypeOK
  <1>2. ThreadInv
    BY DEF ThreadInv, ThreadOK, InRun
  <1>3. MutexInv
    BY LoopAssumption DEF MutexInv
  <1>4. QueueInv
    BY EmptySeq DEF QueueInv
  <1>5. StageInv
    <2>1. \A c \in Commands : c[1] \in Batches /\ c[2] > 0
      BY BatchAssumption DEF Commands
    <2> QED
      BY <2>1 DEF StageInv
  <1>6. CallbackInv
    BY DEF CallbackInv
  <1>7. ListInv
    BY EmptySeq DEF ListInv
  <1>8. CountersExact
    <2>1. InStage({"held", "hiredis"}) = {} /\ \A b \in Batches : Unsettled(b) = {}
      BY DEF InStage, Unsettled
    <2> QED
      BY <2>1, FS_EmptySet DEF CountersExact
  <1> QED
    BY <1>1, <1>2, <1>3, <1>4, <1>5, <1>6, <1>7, <1>8 DEF IndInv

LEMMA NextIndInv ==
  ASSUME IndInv, [Next]_vars
  PROVE  IndInv'
  <1>1. ASSUME NEW t \in Threads, UserCall(t)
        PROVE  IndInv'
    BY <1>1, MakeBatchStep, BeginRunStep, CallRepliesStep DEF UserCall
  <1>2. ASSUME NEW t \in Threads, Proceed(t)
        PROVE  IndInv'
    BY <1>2, CountCommandStep, CheckSlotStep, ParkForSlotStep, AddNodeStep,
       PushCommandStep, PushToFreedStep, AppendAndUnlockStep, TestWakeupStep,
       WakeLoopStep, CheckDoneStep, ParkForRepliesStep, ReturnRepliesStep,
       ReturnThrowIfFailedStep, ReturnResetStep, ReturnDestroyStep DEF Proceed
  <1>3. CASE RunCallback
    BY <1>3, StartCallbackStep, NotifySlotStep, StoreReplyStep, SettleReplyStep,
       NotifyDoneStep DEF RunCallback
  <1>4. CASE UNCHANGED vars
    <2>1. UNCHANGED batchVars /\ callbacks' = callbacks /\ phase' = phase
      BY <1>4 DEF vars, pipeVars, loopVars
    <2>2. LoopTypeOK(Commands)'
      BY <1>4 DEF IndInv, TypeOK, LoopTypeOK, vars, loopVars, pipeVars
    <2>3. MutexInv'
      BY <1>4 DEF IndInv, MutexInv, vars, loopVars, batchVars, threadVars
    <2> QED
      BY <2>1, <2>2, <2>3, LoopStep
  <1> QED
    BY <1>1, <1>2, <1>3, <1>4, SpuriousWakeupStep, TurnLoopStep, ServerStep
    DEF Next, Ended

(* The inductive invariant: in every reachable state each command, thread  *)
(* and callback is where the counters, the callback list and the mutex say.*)
THEOREM Invariance == Spec => []IndInv
  <1>1. Init => IndInv
    BY InitIndInv
  <1>2. IndInv /\ [Next]_vars => IndInv'
    BY NextIndInv
  <1> QED
    BY <1>1, <1>2, PTL DEF Spec

(* Type correctness of Batch; in particular neither atomic counter, an     *)
(* unsigned integer in the code, is ever decremented below zero, which is  *)
(* what hiredis_run_callback() asserts of both.                            *)
THEOREM TypeCorrect == Spec => []TypeOK
  <1>1. IndInv => TypeOK
    BY DEF IndInv
  <1> QED
    BY <1>1, Invariance, PTL

(* pending_futures and local_pending_futures agree with the commands they  *)
(* count, for any number of threads and batches sharing the connection.    *)
THEOREM CountersCorrect == Spec => []CountersExact
  <1>1. IndInv => CountersExact
    BY DEF IndInv
  <1> QED
    BY <1>1, Invariance, PTL

-----------------------------------------------------------------------------
(* The flow control.                                                       *)

LEMMA AdmittedCounted ==
  ASSUME IndInv
  PROVE  /\ IsFiniteSet(Admitted)
         /\ Cardinality(Admitted) \in Nat
         /\ Cardinality(Admitted) <= pending_futures
  <1>1. Admitted \in SUBSET InStage({"held", "hiredis"})
    BY DEF IndInv, ThreadInv, ThreadOK, Admitted, InStage
  <1> QED
    BY <1>1, InStageFinite, FS_Subset, FS_CardinalityType DEF IndInv, CountersExact

(* No step but the two that let a thread through admits a command, and     *)
(* those have seen the counter below the limit.                            *)
LEMMA QuietStep ==
  ASSUME UNCHANGED <<stage, issued>>,
         \A t \in Threads : pc'[t] \in {"add", "push"} =>
             pc[t] \in {"add", "push"} /\ cur'[t] = cur[t]
  PROVE  Admitted' \subseteq Admitted
  BY DEF Admitted, CurCmd

LEMMA OthersAdmitted ==
  ASSUME IndInv, NEW c \in Commands, NEW s,
         SetStage(c, s), s = "hiredis" => c \in Admitted,
         \A t \in Threads : pc'[t] \in {"add", "push"} =>
             /\ pc[t] \in {"add", "push"} /\ cur'[t] = cur[t]
             /\ issued'[cur[t]] = issued[cur[t]]
  PROVE  Admitted' \subseteq Admitted
  <1>1. \A d \in Commands : stage'[d] = IF d = c THEN s ELSE stage[d]
    BY DEF IndInv, TypeOK, DataTypeOK, SetStage
  <1> QED
    BY <1>1 DEF Admitted, CurCmd

LEMMA AdmittedStep ==
  ASSUME IndInv, [Next]_vars
  PROVE  Admitted' \subseteq Admitted \/ pending_futures' <= MaxUnanswered
  <1> USE DEF At, Goto, Finish, dataVars
  <1>0. ThreadTypeOK /\ DataTypeOK
    BY DEF IndInv, TypeOK
  <1>1. ASSUME NEW t \in Threads, NEW b \in Batches, BeginRun(t, b)
        PROVE  Admitted' \subseteq Admitted
    <2> DEFINE c == <<b, issued[b] + 1>>
    <2>1. c \in Commands
      BY <1>0, <1>1, BatchAssumption DEF BeginRun, DataTypeOK, Commands
    <2>2. \A u \in Threads : pc[u] # "idle" => cur[u] # b
      BY <1>1 DEF BeginRun, IndInv, ThreadInv, ThreadOK
    <2>3. SetStage(c, "local")
      BY <1>1 DEF BeginRun
    <2>4. ASSUME NEW u \in Threads, pc'[u] \in {"add", "push"}
          PROVE  /\ pc[u] \in {"add", "push"} /\ cur'[u] = cur[u]
                 /\ issued'[cur[u]] = issued[cur[u]]
      <3>1. u # t /\ pc[u] \in {"add", "push"} /\ cur'[u] = cur[u]
        BY <1>0, <1>1, <2>4 DEF BeginRun, ThreadTypeOK
      <3>2. cur[u] # b
        BY <2>2, <3>1
      <3> QED
        BY <1>0, <1>1, <3>1, <3>2 DEF BeginRun, ThreadTypeOK, DataTypeOK
    <2> QED
      BY <2>1, <2>3, <2>4, OthersAdmitted
  <1>2. ASSUME NEW t \in Threads, CountCommand(t)
        PROVE  Admitted' \subseteq Admitted \/ pending_futures' <= MaxUnanswered
    <2>1. CASE pending_futures >= MaxUnanswered
      <3>1. CurCmd(t) \in Commands
        BY <1>2, OwnCommand DEF CountCommand, IndInv, InRun
      <3> QED
        BY <1>0, <1>2, <2>1, <3>1, OthersAdmitted DEF CountCommand, ThreadTypeOK
    <2>2. CASE ~(pending_futures >= MaxUnanswered)
      BY <1>0, <1>2, <2>2, BatchAssumption DEF CountCommand, DataTypeOK
    <2> QED
      BY <2>1, <2>2
  <1>3. ASSUME NEW t \in Threads, CheckSlot(t)
        PROVE  Admitted' \subseteq Admitted \/ pending_futures' <= MaxUnanswered
    <2>1. CASE pending_futures < MaxUnanswered
      BY <1>0, <1>3, <2>1, BatchAssumption DEF CheckSlot, DataTypeOK
    <2>2. CASE ~(pending_futures < MaxUnanswered)
      BY <1>0, <1>3, <2>2, QuietStep DEF CheckSlot, ThreadTypeOK
    <2> QED
      BY <2>1, <2>2
  <1>4. ASSUME NEW t \in Threads, PushCommand(t)
        PROVE  Admitted' \subseteq Admitted
    <2>1. CurCmd(t) \in Commands /\ CurCmd(t) \in Admitted
      BY <1>4, OwnCommand DEF PushCommand, IndInv, InRun, Admitted
    <2> QED
      BY <1>0, <1>4, <2>1, OthersAdmitted DEF PushCommand, ThreadTypeOK
  <1>5. ASSUME NEW t \in Threads, Proceed(t)
        PROVE  Admitted' \subseteq Admitted \/ pending_futures' <= MaxUnanswered
    <2>1. CASE AddNode(t)
      BY <1>0, <2>1, QuietStep DEF AddNode, ThreadTypeOK
    <2>2. CASE PushToFreed(t) \/ AppendAndUnlock(t) \/ TestWakeup(t) \/ WakeLoop(t)
      BY <1>0, <2>2, QuietStep
      DEF PushToFreed, AppendAndUnlock, TestWakeup, WakeLoop, ThreadTypeOK
    <2>3. CASE ParkForSlot(t) \/ CheckDone(t) \/ ParkForReplies(t)
      BY <1>0, <2>3, QuietStep DEF ParkForSlot, CheckDone, ParkForReplies, ThreadTypeOK
    <2>4. CASE ReturnReplies(t) \/ ReturnThrowIfFailed(t) \/ ReturnReset(t) \/ ReturnDestroy(t)
      BY <1>0, <2>4, QuietStep
      DEF ReturnReplies, ReturnThrowIfFailed, ReturnReset, ReturnDestroy, ThreadTypeOK
    <2> QED
      BY <1>2, <1>3, <1>4, <1>5, <2>1, <2>2, <2>3, <2>4 DEF Proceed
  <1>6. ASSUME NEW t \in Threads, UserCall(t)
        PROVE  Admitted' \subseteq Admitted
    <2>1. ASSUME NEW b \in Batches, MakeBatch(t, b)
          PROVE  Admitted' \subseteq Admitted
      BY <2>1, QuietStep DEF MakeBatch, threadVars
    <2>2. ASSUME NEW b \in Batches, NEW o \in Operations, CallReplies(t, b, o)
          PROVE  Admitted' \subseteq Admitted
      BY <1>0, <2>2, QuietStep DEF CallReplies, ThreadTypeOK
    <2> QED
      BY <1>1, <1>6, <2>1, <2>2 DEF UserCall
  <1>7. ASSUME NEW t \in Threads, SpuriousWakeup(t)
        PROVE  Admitted' \subseteq Admitted
    BY <1>0, <1>7, QuietStep DEF SpuriousWakeup, ThreadTypeOK
  <1>8. CASE RunCallback
    <2>1. CASE StartCallback
      <3>1. Head(callbacks) \in Commands
        BY <2>1, HeadTailProperties DEF StartCallback, IndInv, TypeOK, LoopTypeOK
      <3> QED
        BY <2>1, <3>1, OthersAdmitted DEF StartCallback, threadVars
    <2>2. CASE NotifySlot
      BY <1>0, <2>2, QuietStep DEF NotifySlot, Notify, ThreadTypeOK
    <2>3. CASE StoreReply
      BY <2>3, QuietStep DEF StoreReply, threadVars
    <2>4. CASE SettleReply
      <3>1. /\ cb.cmd \in Commands
            /\ SetStage(cb.cmd, "settled") \/ SetStage(cb.cmd, "deleted")
        BY <2>4 DEF SettleReply, CallbackAt, IndInv, CallbackInv
      <3>2. UNCHANGED <<pc, cur, issued>>
        BY <2>4 DEF SettleReply, threadVars
      <3> QED
        BY <3>1, <3>2, OthersAdmitted
    <2>5. CASE NotifyDone
      <3>1. cb.cmd \in Commands
        BY <2>5 DEF NotifyDone, CallbackAt, IndInv, CallbackInv
      <3> QED
        BY <1>0, <2>5, <3>1, OthersAdmitted DEF NotifyDone, Notify, ThreadTypeOK
    <2> QED
      BY <1>8, <2>1, <2>2, <2>3, <2>4, <2>5 DEF RunCallback
  <1>9. CASE TurnLoop \/ Serve \/ LoseLink \/ UNCHANGED vars
    BY <1>9, QuietStep DEF TurnLoop, Serve, LoseLink, vars, batchVars, threadVars
  <1> QED
    BY <1>5, <1>6, <1>7, <1>8, <1>9 DEF Next, Ended

(* hiredis never holds more than g_max_redis_unanswered_commands commands  *)
(* without an answer, however many threads run commands at once: although  *)
(* each counts its own command first and tests the counter without a lock, *)
(* those let through never exceed the limit together.                      *)
THEOREM FlowControl == Spec => []UnansweredBound
  <1> DEFINE Counted == /\ IsFiniteSet(Admitted)
                        /\ Cardinality(Admitted) \in Nat
                        /\ Cardinality(Admitted) <= pending_futures
                        /\ pending_futures \in Nat
  <1>0. IndInv => Counted
    BY AdmittedCounted DEF IndInv, TypeOK, DataTypeOK
  <1>1. Init => UnansweredBound
    <2> SUFFICES ASSUME Init PROVE UnansweredBound
      OBVIOUS
    <2>1. IndInv /\ pending_futures = 0
      BY InitIndInv DEF Init
    <2> QED
      BY <2>1, AdmittedCounted, BatchAssumption DEF UnansweredBound
  <1>2. IndInv /\ Counted' /\ UnansweredBound /\ [Next]_vars => UnansweredBound'
    <2> SUFFICES ASSUME IndInv, Counted', UnansweredBound, [Next]_vars
                 PROVE  UnansweredBound'
      OBVIOUS
    <2>1. /\ Cardinality(Admitted') \in Nat
          /\ Cardinality(Admitted') <= pending_futures'
          /\ pending_futures' \in Nat
      OBVIOUS
    <2>2. CASE Admitted' \subseteq Admitted
      <3>1. Cardinality(Admitted') <= Cardinality(Admitted)
        BY <2>2, AdmittedCounted, FS_Subset
      <3> QED
        BY <2>1, <3>1, AdmittedCounted, BatchAssumption DEF UnansweredBound
    <2>3. CASE pending_futures' <= MaxUnanswered
      BY <2>1, <2>3, BatchAssumption DEF UnansweredBound
    <2> QED
      BY <2>2, <2>3, AdmittedStep
  <1> HIDE DEF Counted
  <1> QED
    BY <1>0, <1>1, <1>2, Invariance, PTL DEF Spec
=============================================================================
