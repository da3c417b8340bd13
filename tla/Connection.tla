----------------------------- MODULE Connection -----------------------------
(***************************************************************************)
(* The life cycle of redis::AsyncConnection: the thread of its user goes   *)
(* through connect(), wait_for_connect(), disconnect(),                    *)
(* wait_for_disconnect() and the destructor, the loop thread that          *)
(* connect() starts runs on_connect() and on_disconnect(), and a server    *)
(* accepts or refuses, answers, and may close.  What happens to commands   *)
(* while the connection stands is in EventLoop and Batch; here they are a  *)
(* number of callbacks hiredis has not run.                                *)
(***************************************************************************)
EXTENDS Naturals

CONSTANTS
    MaxConnects,    \* bound: contexts created, one after the other
    MaxPending,     \* bound: callbacks pending at once
    CanThrow,       \* may redisAsyncConnect() return a null pointer?
    CanRefuse,      \* may the server refuse the connection?
    CanClose,       \* may the server close the connection?
    Ndebug          \* TRUE in a build without assertions

ASSUME ConnectionAssumption ==
    /\ MaxConnects \in Nat
    /\ MaxPending \in Nat
    /\ CanThrow \in BOOLEAN
    /\ CanRefuse \in BOOLEAN
    /\ CanClose \in BOOLEAN
    /\ Ndebug \in BOOLEAN

VARIABLES
    pc,                   \* where the user's thread is in the class
    destroying,           \* in a function the destructor called?
    m_conn,               \* does it own a context (or believe so)?
    connected,            \* m_connected
    connection_lost,      \* m_connection_lost
    connect_processed,    \* of LocalData, as is disconnect_processed
    disconnect_processed,
    err_msg,              \* is connect_err_msg the text of an error?
    halt_sent,            \* watcher_halt was sent and not handled
    wakeup_sent,          \* watcher_wakeup was sent and not handled
    libev_mutex,          \* its holder
    phase,                \* where the loop thread is; "none" is not joinable
    ready,                \* the events of the last poll, not yet served
    halting,              \* ev_break() was called
    cb,                   \* where the loop thread is in on_...connect()
    ctx,                  \* the hiredis context
    connects,             \* contexts created so far
    orphans,              \* those of earlier connects still to disconnect
    overlap,              \* history: was there ever one?
    peer,                 \* the server's side of the connection
    pending,              \* callbacks of commands hiredis has not run
    answers,              \* how many of them have an answer to read
    crashed               \* the program was ended by what it did

userVars == <<pc, destroying>>
flagVars == <<connected, connection_lost, connect_processed,
              disconnect_processed, err_msg>>
asyncVars == <<halt_sent, wakeup_sent, libev_mutex>>
loopVars == <<phase, ready, halting, cb>>
serverVars == <<peer, pending, answers>>
contextVars == <<connects, orphans, overlap>>
netVars == <<ctx, contextVars, serverVars>>
sharedVars == <<m_conn, flagVars, asyncVars, loopVars, netVars, crashed>>
vars == <<userVars, sharedVars>>

Crash ==
    /\ crashed' = TRUE
    /\ UNCHANGED <<userVars, m_conn, flagVars, asyncVars, loopVars, netVars>>

UserAt(s) == ~crashed /\ pc = s

(* A step of the user's thread that writes nothing another thread reads. *)
Goto(from, to) ==
    UserAt(from) /\ pc' = to /\ UNCHANGED <<destroying, sharedVars>>

-----------------------------------------------------------------------------
(* connect().                                                              *)

(* Only m_conn is looked at: the context of an earlier connect may still   *)
(* be in the loop, with replies pending.                                   *)
MayConnect == UserAt("idle") /\ ~m_conn /\ connects < MaxConnects

NewContext ==
    /\ connects' = connects + 1
    /\ ctx' = "connecting"
    /\ peer' = "silent" /\ pending' = 0 /\ answers' = 0
    /\ IF ctx = "disconnecting"
       THEN orphans' = orphans + 1 /\ overlap' = TRUE
       ELSE UNCHANGED <<orphans, overlap>>

(* redisAsyncConnect() returns a null pointer and connect() throws. *)
ConnectThrows ==
    /\ MayConnect
    /\ CanThrow
    /\ disconnect_processed' = FALSE
    /\ UNCHANGED <<userVars, m_conn, connected, connection_lost,
                   connect_processed, err_msg, asyncVars, loopVars, netVars,
                   crashed>>

(* Mutant: disconnect_processed keeps its value. *)
Connect_KeepsFlag ==
    /\ MayConnect
    /\ NewContext
    /\ m_conn' = TRUE
    /\ phase' = "starting"
    /\ pc' = "wake"
    /\ UNCHANGED <<destroying, flagVars, asyncVars, ready, halting, cb,
                   crashed>>

Connect ==
    /\ MayConnect
    /\ disconnect_processed' = FALSE
    /\ NewContext
    /\ m_conn' = TRUE
    /\ phase' = "starting"
    /\ pc' = "wake"
    /\ UNCHANGED <<destroying, connected, connection_lost, connect_processed,
                   err_msg, asyncVars, ready, halting, cb, crashed>>

(* wakeup_event_thread(), as in Batch. *)
TestWakeup == Goto("wake", IF wakeup_sent THEN "idle" ELSE "wake_send")

WakeLoop ==
    /\ UserAt("wake_send")
    /\ libev_mutex = "nobody"
    /\ wakeup_sent' = TRUE
    /\ pc' = "idle"
    /\ UNCHANGED <<destroying, m_conn, flagVars, halt_sent, libev_mutex,
                   loopVars, netVars, crashed>>

-----------------------------------------------------------------------------
(* wait_for_connect() and wait_for_disconnect().                           *)

(* Called after connect(). *)
CallWaitForConnect ==
    m_conn /\ ~connect_processed /\ Goto("idle", "connect_check")

(* Called after disconnect(). *)
CallWaitForDisconnect ==
    ~m_conn /\ ~disconnect_processed /\ Goto("idle", "disconnect_check")

(* The predicates of the two waits, and the parks. *)
CheckConnect ==
    Goto("connect_check", IF connect_processed THEN "idle" ELSE "connect_park")

CheckDisconnect ==
    Goto("disconnect_check", IF ~disconnect_processed THEN "disconnect_park"
                             ELSE IF destroying THEN "destroy" ELSE "idle")

Park ==
    \/ Goto("connect_park", "connect_asleep")
    \/ Goto("disconnect_park", "disconnect_asleep")

SpuriousWakeup ==
    \/ Goto("connect_asleep", "connect_check")
    \/ Goto("disconnect_asleep", "disconnect_check")

-----------------------------------------------------------------------------
(* is_connected() and the commands.                                        *)

(* m_conn->err of a context hiredis has freed is freed memory. *)
Dangling == m_conn /\ ctx = "freed"

(* is_connected() changes nothing, unless it ends the program: by reading  *)
(* a freed context, or by its assertion.                                   *)
IsConnected ==
    /\ UserAt("idle")
    /\ \/ Dangling
       \/ ~Ndebug /\ connection_lost /\ ~(m_conn /\ connected)
    /\ Crash

(* A command of some batch: hiredis has one more callback to run. *)
RunCommand ==
    /\ UserAt("idle")
    /\ m_conn /\ ctx = "up"
    /\ libev_mutex = "nobody"
    /\ pending < MaxPending
    /\ pending' = pending + 1
    /\ UNCHANGED <<userVars, m_conn, flagVars, asyncVars, loopVars, ctx,
                   contextVars, peer, answers, crashed>>

-----------------------------------------------------------------------------
(* disconnect() and the destructor.                                        *)

(* The destructor goes on to wait_for_disconnect().  It comes after those  *)
(* of the batches, which have waited for their replies.                    *)
CallDisconnect(later) ==
    /\ UserAt("idle")
    /\ destroying' \in BOOLEAN
    /\ destroying' => pending = 0 /\ orphans = 0
    /\ pc' = later

(* disconnect() returns at once while the connect is not processed. *)
DisconnectEarly ==
    /\ ~connect_processed
    /\ CallDisconnect(IF destroying' THEN "disconnect_check" ELSE "idle")
    /\ UNCHANGED sharedVars

(* Mutant: connect_processed is not cleared. *)
Disconnect_KeepsFlag ==
    /\ connect_processed
    /\ CallDisconnect("disconnect")
    /\ UNCHANGED sharedVars

(* connect_processed is read and cleared without the mutex. *)
Disconnect ==
    /\ connect_processed
    /\ CallDisconnect("disconnect")
    /\ connect_processed' = FALSE
    /\ UNCHANGED <<m_conn, connected, connection_lost, disconnect_processed,
                   err_msg, asyncVars, loopVars, netVars, crashed>>

(* What on_disconnect() asserts, in a build with assertions. *)
OnDisconnectAsserts == Ndebug \/ (connected /\ ~disconnect_processed)

(* redisAsyncDisconnect() with no callback left frees the context at once, *)
(* and on_disconnect() runs on the user's own thread; otherwise it only    *)
(* marks the context.                                                      *)
FreesAtOnce == ctx = "up" /\ pending = 0

DisconnectContext ==
    IF FreesAtOnce
    THEN /\ OnDisconnectAsserts
         /\ ctx' = "freed"
         /\ connection_lost' = FALSE
         /\ connected' = FALSE
         /\ disconnect_processed' = TRUE
         /\ err_msg' = FALSE
    ELSE /\ ctx' = IF ctx = "up" THEN "disconnecting" ELSE ctx
         /\ UNCHANGED <<connected, connection_lost, disconnect_processed,
                        err_msg>>

(* Mutant: the loop is not told to stop. *)
SendHaltAndReset_NoHalt ==
    /\ UserAt("disconnect")
    /\ libev_mutex = "nobody"
    /\ m_conn' = FALSE
    /\ DisconnectContext
    /\ pc' = "join"
    /\ UNCHANGED <<destroying, connect_processed, asyncVars, loopVars,
                   contextVars, serverVars, crashed>>

(* Mutant: m_conn keeps its context. *)
SendHaltAndReset_KeepsContext ==
    /\ UserAt("disconnect")
    /\ libev_mutex = "nobody"
    /\ halt_sent' = TRUE
    /\ DisconnectContext
    /\ pc' = "join"
    /\ UNCHANGED <<destroying, m_conn, connect_processed, wakeup_sent,
                   libev_mutex, loopVars, contextVars, serverVars, crashed>>

(* The critical section: the halt is sent and m_conn.reset() disconnects   *)
(* the context.                                                            *)
SendHaltAndReset ==
    /\ UserAt("disconnect")
    /\ libev_mutex = "nobody"
    /\ halt_sent' = TRUE
    /\ m_conn' = FALSE
    /\ DisconnectContext
    /\ pc' = "join"
    /\ UNCHANGED <<destroying, connect_processed, wakeup_sent, libev_mutex,
                   loopVars, contextVars, serverVars, crashed>>

(* The context is one that hiredis has freed: redisAsyncDisconnect() may   *)
(* do anything, at best nothing (the action above).                        *)
ResetFreedContext ==
    /\ UserAt("disconnect")
    /\ libev_mutex = "nobody"
    /\ Dangling
    /\ Crash

(* on_disconnect(), called by redisAsyncDisconnect(), fails its assertion. *)
ResetAsserts ==
    /\ UserAt("disconnect")
    /\ libev_mutex = "nobody"
    /\ FreesAtOnce /\ ~OnDisconnectAsserts
    /\ Crash

(* redis_poll_thread.join(). *)
Join ==
    /\ UserAt("join")
    /\ phase = "ended"
    /\ phase' = "none"
    /\ pc' = IF destroying THEN "disconnect_check" ELSE "idle"
    /\ UNCHANGED <<destroying, m_conn, flagVars, asyncVars, ready, halting, cb,
                   netVars, crashed>>

(* The members go. *)
Destroy == phase = "none" /\ Goto("destroy", "gone")

(* The std::thread is still joinable, or the context m_conn is to          *)
(* disconnect is gone already.                                             *)
DestroyFails == UserAt("destroy") /\ (phase # "none" \/ Dangling) /\ Crash

-----------------------------------------------------------------------------
(* The loop thread.                                                        *)

LoopAt(s) == ~crashed /\ phase = s /\ cb = "none"

(* The thread that connect() creates enters ev_run(). *)
StartLoop ==
    /\ LoopAt("starting")
    /\ libev_mutex = "nobody"
    /\ libev_mutex' = "loop"
    /\ phase' = "reify"
    /\ halting' = FALSE
    /\ UNCHANGED <<userVars, m_conn, flagVars, halt_sent, wakeup_sent, ready,
                   cb, netVars, crashed>>

AcquireMutex ==
    /\ LoopAt("acquire")
    /\ libev_mutex = "nobody"
    /\ libev_mutex' = "loop"
    /\ phase' = "dispatch"
    /\ UNCHANGED <<userVars, m_conn, flagVars, halt_sent, wakeup_sent, ready,
                   halting, cb, netVars, crashed>>

EnterPoll ==
    /\ LoopAt("reify")
    /\ libev_mutex' = "nobody"
    /\ phase' = "poll"
    /\ UNCHANGED <<userVars, m_conn, flagVars, halt_sent, wakeup_sent, ready,
                   halting, cb, netVars, crashed>>

SocketEvent ==
    \/ ctx = "connecting" /\ peer # "silent"
    \/ ctx \in {"up", "disconnecting"} /\ (answers > 0 \/ peer = "closed")

PollReturns ==
    LET events == (IF halt_sent THEN {"halt"} ELSE {})
                    \cup (IF wakeup_sent THEN {"wakeup"} ELSE {})
                    \cup (IF SocketEvent THEN {"socket"} ELSE {})
    IN  /\ LoopAt("poll")
        /\ ready' = events \/ (orphans > 0 /\ ready' = events \cup {"orphan"})
        /\ ready' # {}
        /\ phase' = "acquire"
        /\ UNCHANGED <<userVars, m_conn, flagVars, asyncVars, halting, cb,
                       netVars, crashed>>

(* async_halt_loop(). *)
HandleHalt ==
    /\ LoopAt("dispatch")
    /\ "halt" \in ready
    /\ ready' = ready \ {"halt"}
    /\ halt_sent' = FALSE
    /\ halting' = TRUE
    /\ UNCHANGED <<userVars, m_conn, flagVars, wakeup_sent, libev_mutex, phase,
                   cb, netVars, crashed>>

(* async_callback(). *)
HandleWakeup ==
    /\ LoopAt("dispatch")
    /\ "wakeup" \in ready
    /\ ready' = ready \ {"wakeup"}
    /\ wakeup_sent' = FALSE
    /\ UNCHANGED <<userVars, m_conn, flagVars, halt_sent, libev_mutex, phase,
                   halting, cb, netVars, crashed>>

(* hiredis serves the socket. *)
SocketReady ==
    /\ LoopAt("dispatch")
    /\ "socket" \in ready
    /\ ready' = ready \ {"socket"}

(* The outcome of the connect is reported. *)
HandleConnect ==
    /\ SocketReady
    /\ ctx = "connecting"
    /\ cb' = "connect_store"
    /\ UNCHANGED <<userVars, m_conn, flagVars, asyncVars, phase, halting,
                   netVars, crashed>>

(* The answers that came are handed to their callbacks; after the last one *)
(* a context to disconnect goes.                                           *)
HandleRead ==
    /\ SocketReady
    /\ ctx \in {"up", "disconnecting"}
    /\ answers > 0
    /\ pending' = pending - answers
    /\ answers' = 0
    /\ cb' = IF ctx = "disconnecting" /\ pending = answers
             THEN "disconnect_store" ELSE "none"
    /\ UNCHANGED <<userVars, m_conn, flagVars, asyncVars, phase, halting, ctx,
                   contextVars, peer, crashed>>

(* At the end of file the callbacks left are run with a null reply. *)
HandleEndOfFile ==
    /\ SocketReady
    /\ ctx \in {"up", "disconnecting"}
    /\ answers = 0 /\ peer = "closed"
    /\ pending' = 0
    /\ cb' = "lost_store"
    /\ UNCHANGED <<userVars, m_conn, flagVars, asyncVars, phase, halting, ctx,
                   contextVars, peer, answers, crashed>>

(* The socket of an earlier context has some of the answers it waits for,  *)
(* or the last one, or the end of file.                                    *)
HandleOrphan ==
    /\ LoopAt("dispatch")
    /\ "orphan" \in ready
    /\ ready' = ready \ {"orphan"}
    /\ \/ UNCHANGED <<cb, contextVars>>
       \/ /\ cb' \in {"orphan_store"} \cup (IF CanClose THEN {"orphan_lost"} ELSE {})
          /\ orphans' = orphans - 1
          /\ UNCHANGED <<connects, overlap>>
    /\ UNCHANGED <<userVars, m_conn, flagVars, asyncVars, phase, halting, ctx,
                   serverVars, crashed>>

(* The context was freed since the poll. *)
SocketGone ==
    /\ SocketReady
    /\ ctx = "freed"
    /\ UNCHANGED <<userVars, m_conn, flagVars, asyncVars, phase, halting, cb,
                   netVars, crashed>>

(* Mutant: the mutex is not unlocked after ev_run(). *)
EndDispatch_KeepsMutex ==
    /\ LoopAt("dispatch")
    /\ ready = {}
    /\ IF halting
       THEN phase' = "ended"
       ELSE phase' = "reify"
    /\ UNCHANGED <<userVars, m_conn, flagVars, asyncVars, ready, halting, cb,
                   netVars, crashed>>

(* ev_run() returns once ev_break() was called. *)
EndDispatch ==
    /\ LoopAt("dispatch")
    /\ ready = {}
    /\ IF halting
       THEN phase' = "ended" /\ libev_mutex' = "nobody"
       ELSE phase' = "reify" /\ UNCHANGED libev_mutex
    /\ UNCHANGED <<userVars, m_conn, flagVars, halt_sent, wakeup_sent, ready,
                   halting, cb, netVars, crashed>>

-----------------------------------------------------------------------------
(* on_connect() and on_disconnect(), on the loop thread, a store at a time.*)

CbAt(s) == ~crashed /\ cb = s

(* Mutant: the outcome is not stored before the flag. *)
StoreConnected_Nothing ==
    /\ CbAt("connect_store")
    /\ cb' = "connect_publish"
    /\ UNCHANGED <<userVars, m_conn, flagVars, asyncVars, phase, ready,
                   halting, netVars, crashed>>

StoreConnected ==
    /\ CbAt("connect_store")
    /\ connection_lost' = FALSE
    /\ connected' = (peer # "refused")
    /\ cb' = "connect_publish"
    /\ UNCHANGED <<userVars, m_conn, connect_processed, disconnect_processed,
                   err_msg, asyncVars, phase, ready, halting, netVars,
                   crashed>>

PublishConnect ==
    /\ CbAt("connect_publish")
    /\ connect_processed' = TRUE
    /\ cb' = "connect_message"
    /\ UNCHANGED <<userVars, m_conn, connected, connection_lost,
                   disconnect_processed, err_msg, asyncVars, phase, ready,
                   halting, netVars, crashed>>

(* Mutant: only an error is stored. *)
StoreMessage_ErrorsOnly ==
    /\ CbAt("connect_message")
    /\ err_msg' = (err_msg \/ peer = "refused")
    /\ cb' = "connect_notify"
    /\ UNCHANGED <<userVars, m_conn, connected, connection_lost,
                   connect_processed, disconnect_processed, asyncVars, phase,
                   ready, halting, netVars, crashed>>

StoreMessage ==
    /\ CbAt("connect_message")
    /\ err_msg' = (peer = "refused")
    /\ cb' = "connect_notify"
    /\ UNCHANGED <<userVars, m_conn, connected, connection_lost,
                   connect_processed, disconnect_processed, asyncVars, phase,
                   ready, halting, netVars, crashed>>

(* notify_one() on condition_connected or condition_disconnected. *)
Notify(asleep, awake) == pc' = IF pc = asleep THEN awake ELSE pc

(* hiredis frees a context whose connect failed once on_connect() returned.*)
NotifyConnected ==
    /\ CbAt("connect_notify")
    /\ Notify("connect_asleep", "connect_check")
    /\ cb' = "none"
    /\ ctx' = IF peer = "refused" THEN "freed" ELSE "up"
    /\ UNCHANGED <<destroying, m_conn, flagVars, asyncVars, phase, ready,
                   halting, contextVars, serverVars, crashed>>

OnDisconnectEntered ==
    \E entry \in {"disconnect_store", "lost_store", "orphan_store", "orphan_lost"} :
        CbAt(entry)

StoreDisconnected ==
    /\ OnDisconnectEntered /\ OnDisconnectAsserts
    /\ connection_lost' = (cb \in {"lost_store", "orphan_lost"})
    /\ connected' = FALSE
    /\ cb' = IF cb \in {"orphan_store", "orphan_lost"}
             THEN "orphan_publish" ELSE "disconnect_publish"
    /\ UNCHANGED <<userVars, m_conn, connect_processed, disconnect_processed,
                   err_msg, asyncVars, phase, ready, halting, netVars,
                   crashed>>

OnDisconnectFails == OnDisconnectEntered /\ ~OnDisconnectAsserts /\ Crash

PublishDisconnect ==
    /\ CbAt("disconnect_publish") \/ CbAt("orphan_publish")
    /\ disconnect_processed' = TRUE
    /\ err_msg' = FALSE
    /\ cb' = IF cb = "orphan_publish" THEN "orphan_notify" ELSE "disconnect_notify"
    /\ UNCHANGED <<userVars, m_conn, connected, connection_lost,
                   connect_processed, asyncVars, phase, ready, halting,
                   netVars, crashed>>

NotifyDisconnected ==
    /\ CbAt("disconnect_notify") \/ CbAt("orphan_notify")
    /\ Notify("disconnect_asleep", "disconnect_check")
    /\ cb' = "none"
    /\ ctx' = IF cb = "orphan_notify" THEN ctx ELSE "freed"
    /\ UNCHANGED <<destroying, m_conn, flagVars, asyncVars, phase, ready,
                   halting, contextVars, serverVars, crashed>>

-----------------------------------------------------------------------------
(* The server, until the context is gone.                                  *)

Server ==
    /\ ~crashed
    /\ \/ /\ ctx = "connecting" /\ peer = "silent"
          /\ peer' = "accepted" \/ (CanRefuse /\ peer' = "refused")
          /\ UNCHANGED answers
       \/ /\ ctx \in {"up", "disconnecting"} /\ peer = "accepted"
          /\ answers < pending
          /\ answers' = answers + 1
          /\ UNCHANGED peer
    /\ UNCHANGED <<userVars, m_conn, flagVars, asyncVars, loopVars, ctx,
                   contextVars, pending, crashed>>

ServerCloses ==
    /\ ~crashed
    /\ CanClose
    /\ ctx \in {"connecting", "up", "disconnecting"} /\ peer = "accepted"
    /\ peer' = "closed"
    /\ UNCHANGED <<userVars, m_conn, flagVars, asyncVars, loopVars, ctx,
                   contextVars, pending, answers, crashed>>

-----------------------------------------------------------------------------
Init ==
    /\ pc = "idle" /\ destroying = FALSE
    /\ m_conn = FALSE
    /\ connected = FALSE /\ connection_lost = FALSE
    /\ connect_processed = FALSE /\ disconnect_processed = TRUE
    /\ err_msg = FALSE
    /\ halt_sent = FALSE /\ wakeup_sent = FALSE
    /\ libev_mutex = "nobody"
    /\ phase = "none" /\ ready = {} /\ halting = FALSE /\ cb = "none"
    /\ ctx = "none" /\ connects = 0 /\ orphans = 0 /\ overlap = FALSE
    /\ peer = "silent" /\ pending = 0 /\ answers = 0
    /\ crashed = FALSE

UserCall ==
    \/ ConnectThrows \/ Connect
    \/ CallWaitForConnect \/ CallWaitForDisconnect
    \/ IsConnected \/ RunCommand
    \/ DisconnectEarly \/ Disconnect

Proceed ==
    \/ TestWakeup \/ WakeLoop
    \/ CheckConnect \/ CheckDisconnect \/ Park
    \/ SendHaltAndReset \/ ResetFreedContext \/ ResetAsserts \/ Join
    \/ Destroy \/ DestroyFails

Loop ==
    \/ StartLoop \/ EnterPoll \/ PollReturns \/ AcquireMutex
    \/ HandleHalt \/ HandleWakeup
    \/ HandleConnect \/ HandleRead \/ HandleEndOfFile \/ SocketGone \/ HandleOrphan
    \/ EndDispatch
    \/ StoreConnected \/ PublishConnect \/ StoreMessage \/ NotifyConnected
    \/ StoreDisconnected \/ OnDisconnectFails \/ PublishDisconnect \/ NotifyDisconnected

(* The object was destroyed, or the program has crashed. *)
Ended == (crashed \/ pc = "gone") /\ UNCHANGED vars

Next ==
    \/ UserCall \/ Proceed \/ SpuriousWakeup
    \/ Loop \/ Server \/ ServerCloses
    \/ Ended

Spec == Init /\ [][Next]_vars

(* Threads that can run do, and the server reacts.  Nobody calls, wakes up *)
(* or closes anything for fairness' sake.                                  *)
Fairness == WF_vars(Proceed) /\ WF_vars(Loop) /\ WF_vars(Server)

FairSpec == Spec /\ Fairness
=============================================================================
