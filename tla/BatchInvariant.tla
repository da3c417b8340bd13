--------------------------- MODULE BatchInvariant ----------------------------
(* The inductive invariant behind the properties of Batch: which thread or *)
(* callback owns a command at each stage, and what it has set up by then.  *)
EXTENDS BatchProperties

(* From the first counter to the end of the critical section. *)
InRun == {"count", "slot_check", "slot_park", "slot_asleep", "add", "push", "append"}

(* A thread in a member function is the user of a live batch, and its      *)
(* command is where its program counter says.                              *)
ThreadOK(t) ==
    /\ pc[t] # "idle" =>
          cur[t] \in Batches /\ Owner[cur[t]] = t /\ life[cur[t]] = "live"
    /\ pc[t] \in InRun => issued[cur[t]] >= 1
    /\ pc[t] = "count" => stage[CurCmd(t)] = "local"
    /\ pc[t] \in {"slot_check", "slot_park", "slot_asleep", "add", "push"} =>
          stage[CurCmd(t)] = "held"
    /\ pc[t] = "append" => stage[CurCmd(t)] = "hiredis"
    /\ pc[t] = "return" => local_pending[cur[t]] = 0

ThreadInv == \A t \in Threads : ThreadOK(t)

(* Who holds the mutex shows in its own control state. *)
MutexInv ==
    /\ \A t \in Threads : pc[t] = "append" <=> libev_mutex = t
    /\ libev_mutex = LoopThread <=> phase \in {"reify", "dispatch"}

(* hiredis lists the callback of each command it has taken, once. *)
QueueInv ==
    /\ \A c \in Commands :
          stage[c] = "hiredis" <=> \E i \in 1..Len(callbacks) : callbacks[i] = c
    /\ \A i, j \in 1..Len(callbacks) : callbacks[i] = callbacks[j] => i = j

(* Commands are numbered in order, and a batch outlives what it counts. *)
StageInv ==
    \A c \in Commands :
        /\ stage[c] = "unborn" <=> c[2] > issued[c[1]]
        /\ stage[c] \in {"local", "held", "hiredis", "called"} =>
              life[BatchOf(c)] = "live"

(* The callback under way owns its command, and the loop thread. *)
CallbackInv ==
    /\ cb.at \in {"notify_slot", "store", "settle"} =>
          cb.cmd \in Commands /\ stage[cb.cmd] = "called"
    /\ cb.at = "notify_done" => cb.cmd \in Commands /\ stage[cb.cmd] = "settled"
    /\ cb.at # "idle" => phase = "dispatch"

(* A list grows at its end until reset() has cleared it. *)
ListInv ==
    \A b \in Batches :
        LET list == replies[b] IN
        /\ list.size = Len(list.nodes)
        /\ \/ list.next = End /\ list.nodes = <<>>
           \/ list.next = Len(list.nodes)

IndInv ==
    /\ TypeOK
    /\ ThreadInv
    /\ MutexInv
    /\ QueueInv
    /\ StageInv
    /\ CallbackInv
    /\ ListInv
    /\ CountersExact
=============================================================================
