----------------------------- MODULE CommandLog ------------------------------
(***************************************************************************)
(* What batches promise, without threads, queues, counters and callbacks:  *)
(* a batch lists the commands run through it in order, each of them is     *)
(* answered or loses its connection, in that order and once; a verdict is  *)
(* given, and the list cleared, only when all of it is settled.            *)
(***************************************************************************)
EXTENDS Naturals, Sequences

CONSTANTS
    Batches,
    Commands,       \* pairs of a batch and a number
    ErrorAnswers    \* the commands whose answer is an error

VARIABLES
    batch,      \* "none", "live" or "dead"
    ran,        \* commands run through each batch
    log,        \* those its list holds
    result,     \* of each command: "pending", "answered" or "lost"
    verdict     \* what throw_if_failed() found, "none" if it was not asked

vars == <<batch, ran, log, result, verdict>>

Listed(b) == {log[b][n] : n \in 1..Len(log[b])}

Settled(b) == \A c \in Listed(b) : result[c] # "pending"

Open(b) ==
    /\ batch[b] = "none"
    /\ batch' = [batch EXCEPT ![b] = "live"]
    /\ UNCHANGED <<ran, log, result, verdict>>

Run(b) ==
    LET c == <<b, ran[b] + 1>> IN
    /\ batch[b] = "live" /\ c \in Commands
    /\ verdict[b] = "none" /\ result[c] = "pending"
    /\ ran' = [ran EXCEPT ![b] = @ + 1]
    /\ log' = [log EXCEPT ![b] = Append(@, c)]
    /\ UNCHANGED <<batch, result, verdict>>

(* Nothing run before c is waited for, and nothing is answered once the    *)
(* connection has been lost.                                               *)
Settle(c, r) ==
    LET before == {d \in Listed(c[1]) : d[2] < c[2]} IN
    /\ batch[c[1]] = "live" /\ c \in Listed(c[1])
    /\ result[c] = "pending"
    /\ \A d \in before : result[d] # "pending"
    /\ r = "answered" => \A d \in Commands : result[d] # "lost"
    /\ result' = [result EXCEPT ![c] = r]
    /\ UNCHANGED <<batch, ran, log, verdict>>

Judge(b) ==
    LET failed == \E c \in Listed(b) \cap ErrorAnswers : result[c] = "answered" IN
    /\ batch[b] = "live" /\ Settled(b)
    /\ verdict' = [verdict EXCEPT ![b] = IF failed THEN "threw" ELSE "ok"]
    /\ UNCHANGED <<batch, ran, log, result>>

(* A verdict is gone with the next call. *)
Forget(b) ==
    /\ verdict' = [verdict EXCEPT ![b] = "none"]
    /\ UNCHANGED <<batch, ran, log, result>>

(* reset(), or the destructor. *)
Clear(b, after) ==
    /\ batch[b] = "live" /\ Settled(b)
    /\ batch' = [batch EXCEPT ![b] = after]
    /\ log' = [log EXCEPT ![b] = <<>>]
    /\ UNCHANGED <<ran, result, verdict>>

Init ==
    /\ batch = [b \in Batches |-> "none"]
    /\ ran = [b \in Batches |-> 0]
    /\ log = [b \in Batches |-> <<>>]
    /\ result = [c \in Commands |-> "pending"]
    /\ verdict = [b \in Batches |-> "none"]

Next ==
    \/ \E b \in Batches : Open(b) \/ Run(b) \/ Judge(b) \/ Forget(b)
    \/ \E b \in Batches : Clear(b, "live") \/ Clear(b, "dead")
    \/ \E c \in Commands : Settle(c, "answered") \/ Settle(c, "lost")

Spec == Init /\ [][Next]_vars
=============================================================================
