------------------------- MODULE ConnectionInvariant -------------------------
(* The inductive invariant behind the properties of Connection.            *)
EXTENDS ConnectionProperties

InOnConnect ==
    cb \in {"connect_store", "connect_publish", "connect_message", "connect_notify"}

InOrphan == cb \in {"orphan_store", "orphan_lost", "orphan_publish", "orphan_notify"}

(* The loop thread holds the mutex whenever it is not blocked, and runs    *)
(* callbacks only then.                                                    *)
LoopInv ==
    /\ libev_mutex = "loop" <=> phase \in {"reify", "dispatch"}
    /\ cb # "none" => phase = "dispatch"
    /\ ready # {} => phase \in {"acquire", "dispatch"}

(* There is one halt for each join: sent, or already handled.              *)
HaltInv ==
    /\ "halt" \in ready => halt_sent
    /\ halt_sent \/ (halting /\ phase \in {"dispatch", "ended"}) => pc = "join"
    /\ halting /\ phase \in {"dispatch", "ended"} => ~halt_sent
    /\ halting => phase \in {"none", "starting", "dispatch", "ended"}
    /\ phase = "ended" => halting

(* Who owns the context and the thread, by the place of the user's thread. *)
OwnerInv ==
    /\ m_conn => phase \notin {"none", "ended"} /\ ctx \in {"connecting", "up", "freed"}
    /\ ~m_conn => ctx \in {"none", "disconnecting", "freed"} /\ ~connect_processed
    /\ ~m_conn /\ pc # "join" => phase = "none"
    /\ pc = "join" => ~m_conn /\ phase # "none"
    /\ pc \in {"wake", "wake_send", "connect_check", "connect_park",
               "connect_asleep", "disconnect"} => m_conn
    /\ pc = "disconnect" => ~connect_processed
    /\ pc \in {"destroy", "gone"} => disconnect_processed
    /\ pc = "gone" => phase = "none"

(* Which callback a context may be in, and what the server did with it.    *)
ContextInv ==
    /\ InOnConnect => ctx = "connecting"
    /\ cb \in {"disconnect_store", "lost_store"} \/ InOnDisconnect =>
          ctx \in {"up", "disconnecting"}
    /\ ctx = "connecting" /\ (InOnConnect \/ "socket" \in ready) => peer # "silent"
    /\ ctx = "connecting" /\ cb \notin {"connect_message", "connect_notify"} =>
          ~connect_processed /\ pc # "disconnect"
    /\ ctx \in {"up", "disconnecting"} => peer \in {"accepted", "closed"}

(* Contexts of earlier connects are in the loop only after an overlap.     *)
OrphanInv ==
    /\ "orphan" \in ready => orphans > 0
    /\ ~overlap => orphans = 0 /\ ~InOrphan

(* What the flags say of a context, and of a callback under way.           *)
FlagInv ==
    /\ ctx = "connecting" /\ cb \in {"none", "connect_store"} => ~connected
    /\ cb \in {"connect_publish", "connect_message", "connect_notify"} =>
          (connected <=> peer # "refused")
    /\ ctx \in {"up", "disconnecting"} /\ ~InOnDisconnect => connected
    /\ ctx \in {"none", "freed"} => ~connected
    /\ ctx \in {"connecting", "up", "disconnecting"} /\ cb # "disconnect_notify" =>
          ~disconnect_processed
    /\ InOnDisconnect => ~connected
    /\ cb = "disconnect_notify" => disconnect_processed

(* Where a failure of the connection shows.                                *)
FailureInv ==
    /\ ctx = "freed" /\ m_conn => peer \in {"refused", "closed"}
    /\ cb = "lost_store" \/ (InOnDisconnect /\ ctx = "up") => peer = "closed"
    /\ cb = "disconnect_store" => ctx = "disconnecting"

(* The message of an outcome that was published, once it is stored too.    *)
MessageInv ==
    connect_processed /\ cb # "connect_message" => (err_msg <=> peer = "refused")

IndInv ==
    /\ TypeOK
    /\ LoopInv
    /\ HaltInv
    /\ OwnerInv
    /\ ContextInv
    /\ OrphanInv
    /\ FailureInv
    /\ ~overlap => FlagInv /\ MessageInv
    /\ OnlyFailuresCrash
=============================================================================
