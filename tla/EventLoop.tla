------------------------------ MODULE EventLoop ------------------------------
(***************************************************************************)
(* The event-loop thread of an AsyncConnection and the hiredis context it  *)
(* drives, while the connection is established.                            *)
(*                                                                         *)
(* libev_mutex is held by the loop thread all the time except while it is  *)
(* blocked in the kernel (unlock_mutex_libev / lock_mutex_libev around the *)
(* poll); user threads take it to hand a command to hiredis and to send    *)
(* the wakeup.  hiredis keeps, per context, the list of callbacks to run   *)
(* (`callbacks') and the output buffer (`obuf'); the bytes then travel     *)
(* through the server (`wire') back to the socket (`inbuf').  A command,   *)
(* its bytes and its answer are all represented by the command itself.     *)
(***************************************************************************)
EXTENDS Naturals, Sequences, FiniteSets

CONSTANTS
    Threads,        \* the user threads
    Nobody,         \* libev_mutex is free
    LoopThread,     \* redis_poll_thread
    CanLoseLink     \* may the server close the connection?

ASSUME LoopAssumption ==
    /\ Nobody \notin Threads
    /\ LoopThread \notin Threads
    /\ Nobody # LoopThread
    /\ CanLoseLink \in BOOLEAN

VARIABLES
    libev_mutex,    \* its holder
    phase,          \* where the loop thread is in ev_run()
    ready,          \* the watchers the last poll reported, not yet served
    wakeup_sent,    \* watcher_wakeup.sent, what ev_async_pending() reads
    armed,          \* the kernel polls the socket for writability
    callbacks,      \* hiredis: commands whose callback was not called yet
    obuf,           \* hiredis: commands appended, not written to the socket
    wire,           \* commands on their way to, or being run by, the server
    inbuf,          \* answers the socket holds and hiredis has not read
    link            \* the redisAsyncContext m_conn points to

loopVars == <<libev_mutex, phase, ready, wakeup_sent, armed>>
pipeVars == <<callbacks, obuf, wire, inbuf, link>>

Events == {"pipe", "write", "read", "eof"}

-----------------------------------------------------------------------------
(* What user threads do to the loop; the callers add their own control.    *)

(* Mutant: the mutex is taken from whoever holds it. *)
LockLibev_NoWait(t) == libev_mutex' = t

LockLibev(t) == libev_mutex = Nobody /\ libev_mutex' = t
UnlockLibev(t) == libev_mutex = t /\ libev_mutex' = Nobody

(* redisAsyncCommandArgv() first lists the callback ... *)
PushCallback(c) == callbacks' = Append(callbacks, c)

(* ... then formats the command into the output buffer.  It also starts    *)
(* the write watcher, which the kernel learns of at the loop's next        *)
(* FdReify.                                                                *)
AppendCommand(c) == obuf' = Append(obuf, c)

(* The second half of wakeup_event_thread(): ev_async_send() under the     *)
(* mutex.                                                                  *)
SendWakeup ==
    /\ libev_mutex = Nobody
    /\ wakeup_sent' = TRUE

-----------------------------------------------------------------------------
(* One turn of ev_run() on the loop thread.                                *)

(* Watcher changes reach the kernel; the release callback unlocks the      *)
(* mutex and the thread enters the poll.                                   *)
FdReify ==
    /\ phase = "reify"
    /\ armed' = (obuf # <<>>)
    /\ UnlockLibev(LoopThread)
    /\ phase' = "poll"
    /\ UNCHANGED <<ready, wakeup_sent, pipeVars>>

PollEvents ==
    (IF wakeup_sent THEN {"pipe"} ELSE {})
        \cup (IF armed THEN {"write"} ELSE {})
        \cup (IF inbuf # <<>> THEN {"read"} ELSE {})
        \cup (IF inbuf = <<>> /\ link = "closed" THEN {"eof"} ELSE {})

PollReturns ==
    /\ phase = "poll"
    /\ PollEvents # {}
    /\ ready' = PollEvents
    /\ phase' = "acquire"
    /\ UNCHANGED <<libev_mutex, wakeup_sent, armed, pipeVars>>

AcquireMutex ==
    /\ phase = "acquire"
    /\ LockLibev(LoopThread)
    /\ phase' = "dispatch"
    /\ UNCHANGED <<ready, wakeup_sent, armed, pipeVars>>

(* libev clears `sent' and calls async_callback(), which is empty. *)
HandleWakeup ==
    /\ phase = "dispatch"
    /\ "pipe" \in ready
    /\ wakeup_sent' = FALSE
    /\ ready' = ready \ {"pipe"}
    /\ UNCHANGED <<libev_mutex, phase, armed, pipeVars>>

(* redisAsyncHandleWrite(): one command at a time leaves the buffer; the   *)
(* socket may refuse the rest until the next turn.                         *)
HandleWrite ==
    /\ phase = "dispatch"
    /\ "write" \in ready
    /\ link \in {"up", "closed"}
    /\ obuf # <<>>
    /\ wire' = Append(wire, Head(obuf))
    /\ obuf' = Tail(obuf)
    /\ \/ ready' = ready \ {"write"}
       \/ Tail(obuf) # <<>> /\ ready' = ready
    /\ UNCHANGED <<libev_mutex, phase, wakeup_sent, armed, callbacks, inbuf, link>>

(* The socket fails (EPIPE with SIGPIPE ignored on a write, end of file on *)
(* a read): hiredis starts to disconnect and runs the callbacks left with  *)
(* a null reply.                                                           *)
SocketFails ==
    /\ phase = "dispatch"
    /\ link = "closed"
    /\ ready \cap {"write", "eof"} # {}
    /\ link' = "failing"
    /\ UNCHANGED <<loopVars, callbacks, obuf, wire, inbuf>>

(* Mutant: the callbacks left are not run. *)
FreeContext_Early ==
    /\ phase = "dispatch"
    /\ link = "failing"
    /\ link' = "freed"
    /\ callbacks' = <<>> /\ obuf' = <<>> /\ wire' = <<>> /\ inbuf' = <<>>
    /\ armed' = FALSE
    /\ ready' = ready \ {"read", "eof", "write"}
    /\ UNCHANGED <<libev_mutex, phase, wakeup_sent>>

(* No callback is left: on_disconnect() runs and hiredis frees the context *)
(* with its buffers and watchers.  m_conn keeps pointing to it.            *)
FreeContext ==
    /\ phase = "dispatch"
    /\ link = "failing"
    /\ callbacks = <<>>
    /\ link' = "freed"
    /\ obuf' = <<>> /\ wire' = <<>> /\ inbuf' = <<>>
    /\ armed' = FALSE
    /\ ready' = ready \ {"read", "eof", "write"}
    /\ UNCHANGED <<libev_mutex, phase, wakeup_sent, callbacks>>

(* redisAsyncHandleRead() returns once it has consumed what was there; an  *)
(* end of file behind it is left to the next turn.                         *)
ReadDone ==
    /\ phase = "dispatch"
    /\ "read" \in ready
    /\ link \in {"up", "closed"}
    /\ inbuf = <<>>
    /\ ready' = ready \ {"read"}
    /\ UNCHANGED <<libev_mutex, phase, wakeup_sent, armed, pipeVars>>

EndDispatch ==
    /\ phase = "dispatch"
    /\ ready = {}
    /\ phase' = "reify"
    /\ UNCHANGED <<libev_mutex, ready, wakeup_sent, armed, pipeVars>>

-----------------------------------------------------------------------------
(* The server.                                                             *)

(* Redis runs the commands of a connection in order and answers each. *)
ServerAnswers ==
    /\ link = "up"
    /\ wire # <<>>
    /\ inbuf' = Append(inbuf, Head(wire))
    /\ wire' = Tail(wire)
    /\ UNCHANGED <<loopVars, callbacks, obuf, link>>

(* The server goes away; answers already received stay readable. *)
ServerCloses ==
    /\ CanLoseLink
    /\ link = "up"
    /\ link' = "closed"
    /\ UNCHANGED <<loopVars, callbacks, obuf, wire, inbuf>>

-----------------------------------------------------------------------------
(* A connection that has just been established, its loop idle in the poll. *)
LoopInit ==
    /\ libev_mutex = Nobody
    /\ phase = "poll"
    /\ ready = {}
    /\ wakeup_sent = FALSE
    /\ armed = FALSE
    /\ callbacks = <<>> /\ obuf = <<>> /\ wire = <<>> /\ inbuf = <<>>
    /\ link = "up"

LoopTypeOK(Command) ==
    /\ libev_mutex \in Threads \cup {Nobody, LoopThread}
    /\ phase \in {"reify", "poll", "acquire", "dispatch"}
    /\ ready \in SUBSET Events
    /\ wakeup_sent \in BOOLEAN
    /\ armed \in BOOLEAN
    /\ callbacks \in Seq(Command)
    /\ obuf \in Seq(Command)
    /\ wire \in Seq(Command)
    /\ inbuf \in Seq(Command)
    /\ link \in {"up", "closed", "failing", "freed"}
=============================================================================
