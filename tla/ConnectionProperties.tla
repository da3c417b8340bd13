------------------------ MODULE ConnectionProperties ------------------------
(* What the life cycle of a connection guarantees, and at the end what the *)
(* repository says of it and the code does not keep.                       *)
EXTENDS Connection

FlagTypeOK ==
    /\ destroying \in BOOLEAN
    /\ m_conn \in BOOLEAN
    /\ connected \in BOOLEAN /\ connection_lost \in BOOLEAN
    /\ connect_processed \in BOOLEAN /\ disconnect_processed \in BOOLEAN
    /\ err_msg \in BOOLEAN
    /\ halt_sent \in BOOLEAN /\ wakeup_sent \in BOOLEAN
    /\ halting \in BOOLEAN
    /\ overlap \in BOOLEAN
    /\ crashed \in BOOLEAN

ControlTypeOK ==
    /\ pc \in {"idle", "wake", "wake_send", "connect_check", "connect_park",
               "connect_asleep", "disconnect", "join", "disconnect_check",
               "disconnect_park", "disconnect_asleep", "destroy", "gone"}
    /\ libev_mutex \in {"nobody", "loop"}
    /\ phase \in {"none", "starting", "reify", "poll", "acquire", "dispatch", "ended"}
    /\ ready \in SUBSET {"halt", "wakeup", "socket", "orphan"}
    /\ cb \in {"none", "connect_store", "connect_publish", "connect_message",
               "connect_notify", "disconnect_store", "lost_store",
               "disconnect_publish", "disconnect_notify",
               "orphan_store", "orphan_lost", "orphan_publish", "orphan_notify"}
    /\ ctx \in {"none", "connecting", "up", "disconnecting", "freed"}
    /\ connects \in 0..MaxConnects /\ orphans \in Nat
    /\ peer \in {"silent", "accepted", "refused", "closed"}
    /\ pending \in Nat /\ answers \in 0..pending

(* Every variable has its type. *)
TypeOK == FlagTypeOK /\ ControlTypeOK

InOnDisconnect == cb \in {"disconnect_publish", "disconnect_notify"}

(* No assertion of on_connect() and of disconnect() fails, in whatever     *)
(* order the user calls the functions and however the connection ends: a   *)
(* context reports its connect once, to the object that still owns it, and *)
(* disconnect() finds a thread to join and no halt under way.  Those of    *)
(* on_disconnect() hold too, as long as the user does not connect() again  *)
(* while the context before has replies pending: then a context reports    *)
(* its end once, to an object that is connected.                           *)
AssertionsHold ==
    /\ cb = "connect_store" => m_conn /\ ~connect_processed
    /\ connect_processed => phase \notin {"none", "ended"}
    /\ pc = "disconnect" => ~halt_sent
    /\ ~overlap =>
          /\ cb \in {"disconnect_store", "lost_store"} => connected /\ ~disconnect_processed
          /\ pc = "disconnect" /\ FreesAtOnce /\ cb = "none"
                => connected /\ ~disconnect_processed

(* As long as the server accepts and keeps the connection, and each        *)
(* connection is over before the next, no freed context is used, no        *)
(* joinable thread is destroyed and no assertion ends the program, in      *)
(* whatever order the functions are called.                                *)
OnlyFailuresCrash ==
    crashed => peer \in {"refused", "closed"} \/ connection_lost \/ overlap

(* Whoever finds connect_processed set reads the outcome of the connect in *)
(* m_connected, although no mutex is held for either, unless the context   *)
(* of an earlier connect was left to disconnect.                           *)
OutcomePublished ==
    connect_processed /\ ctx # "freed" /\ ~InOnDisconnect /\ ~overlap =>
        (connected <=> peer # "refused")

(* The message is stored after the flag.  Who finds connect_processed set  *)
(* and the loop blocked or on its way out reads the message of this        *)
(* connect, not one that an earlier connect left, unless a context of an   *)
(* earlier one was left to disconnect; a reader released while the loop is *)
(* still in on_connect() is not covered.                                   *)
MessageComplete ==
    connect_processed /\ libev_mutex # "loop" /\ ~overlap =>
        (err_msg <=> peer = "refused")

(* wait_for_disconnect() returns only when the connection is over:         *)
(* m_connected is cleared, and hiredis has freed the context or is about   *)
(* to, unless it returns for a context of an earlier connect.              *)
DisconnectedIsOver ==
    disconnect_processed /\ ~overlap =>
        /\ ~connected
        /\ ctx \in {"none", "freed"} \/ cb = "disconnect_notify"

(* A loop thread that has ended leaves nothing behind for the next: the    *)
(* mutex is free, the halt was consumed, no callback is half done.         *)
NoLoopLeft ==
    phase \in {"none", "ended"} =>
        /\ libev_mutex = "nobody"
        /\ ready = {} /\ cb = "none"
        /\ ~halt_sent

(* disconnect() does not deadlock with the loop it stops: the join returns,*)
(* even if the connection was lost, or has replies pending.                *)
JoinReturns == pc = "join" ~> (pc # "join" \/ crashed)

(* The destructor of a connection with no reply pending returns.           *)
IdleDestructorReturns ==
    (pc = "disconnect" /\ destroying /\ ctx = "up" /\ pending = 0)
        ~> (pc = "gone" \/ crashed)

-----------------------------------------------------------------------------
(* "Not really required since we're about to go out of scope" (README.md,  *)
(* of disconnect() and wait_for_disconnect()): the destructor does both by *)
(* itself.  It waits for a disconnect nobody started if the connect was    *)
(* not processed yet.                                                      *)
DestructorReturns == destroying ~> (pc = "gone" \/ crashed)
=============================================================================
