---------------------------- MODULE FacadeInvariant ---------------------------
(* The inductive invariant behind the properties of Facade.                *)
EXTENDS FacadeProperties

Calls == RunCalls \cup UncheckedCalls \cup InBatchCalls

KeyValues == Fields \cup {Absent}

TypeOK ==
    /\ ndebug \in BOOLEAN
    /\ link \in {"up", "lost"}
    /\ pc \in {"idle", "fill", "wait", "crashed"}
    /\ path \in {"run", "unchecked"}
    /\ request \in Seq(Calls)
    /\ answers \in Seq([reply : RawReplies, before : KeyValues, after : KeyValues])
    /\ stored \in Seq(Replies)
    /\ key \in KeyValues

(* What the server answers to SET, and does.                               *)
SetInv(call, answer) ==
    LET r == answer.reply IN
    /\ answer.after = IF r.type = "STATUS" THEN call.field ELSE answer.before
    /\ r.type = "STATUS" =>
          /\ r.str = "OK"
          /\ call.word = "NX" => answer.before = Absent
          /\ call.word = "XX" => answer.before # Absent
    /\ r.type = "NIL" => call.word # Blank

(* An answer that is no error is of the kind its command has.              *)
RightAnswer(call, answer) ==
    LET r == answer.reply IN
    /\ \/ r.type = "ERROR"
       \/ Fits(call.returns, r)
       \/ call.method = "set" /\ r.type = "NIL"
    /\ call.method = "set" => SetInv(call, answer)
    /\ call.method = "zrangebyscore" /\ r.type # "ERROR" =>
          \E q \in ByScore(InRange(call)) : r = StrArr(Listing(call, q))

AnswerInv ==
    /\ Len(answers) <= Len(request)
    /\ \A n \in Answered : RightAnswer(request[n], answers[n])

(* A node holds the answer to its command; once the connection is lost,    *)
(* those left hold what they were made with.                               *)
StoredInv ==
    /\ Len(answers) <= Len(stored) /\ Len(stored) <= Len(request)
    /\ \A n \in DOMAIN stored :
          stored[n] = IF n \in Answered THEN make_redis_reply_type[answers[n].reply]
                      ELSE Reply
    /\ link = "up" => Len(stored) = Len(answers)
    /\ link = "lost" => Len(stored) = Len(request)
    /\ pc = "idle" => Len(stored) = Len(request)

Decoding(n) == Decoded(request[n].returns, stored[n])

(* The replies were searched for errors, if they were to be. *)
Searched ==
    /\ Len(stored) = Len(request)
    /\ path = "run" => throw_if_failed(stored).errors = 0

(* What a call ends with is made of the nodes as they are. *)
OutcomeInv ==
    /\ outcome # NoOutcome => pc = "idle"
    /\ \/ outcome = NoOutcome
       \/ /\ path = "run" /\ throw_if_failed(stored).errors > 0
          /\ outcome = [how |-> "runtime_error", found |-> throw_if_failed(stored)]
       \/ /\ Searched
          /\ \A n \in DOMAIN stored : Decoding(n).ok
          /\ outcome = [how |-> "value",
                        values |-> [n \in DOMAIN stored |-> Decoding(n).value]]
       \/ /\ Searched
          /\ \E n \in DOMAIN stored : ~Decoding(n).ok
          /\ outcome = [how |-> "bad_get"]

CrashInv ==
    pc = "crashed" =>
        \/ link = "lost" /\ Len(answers) < Len(request)
        \/ Searched /\ \E n \in DOMAIN stored : ~Decoding(n).ok

(* Only set() and zrangebyscore() leave their reply unsearched, and no     *)
(* build with assertions goes on without an answer.                        *)
ControlInv ==
    /\ pc = "fill" => path = "run"
    /\ path = "unchecked" => \A n \in DOMAIN request : request[n] \in UncheckedCalls
    /\ Len(answers) < Len(stored) /\ ~ndebug => pc = "crashed"

(* The inductive invariant. *)
IndInv ==
    /\ TypeOK
    /\ AnswerInv
    /\ StoredInv
    /\ OutcomeInv
    /\ CrashInv
    /\ ControlInv
=============================================================================
