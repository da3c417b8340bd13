-------------------------- MODULE FacadeProperties ---------------------------
(* What IncRedis and IncRedisBatch make of the replies, against what the   *)
(* server did.                                                             *)
EXTENDS Facade

(* The errors in a sequence of replies, from the first to the last. *)
ErrorsIn(errors, r) ==
    CASE r.type = "ERROR" -> <<r.str>>
      [] r.type = "ARRAY" -> errors[r.element]
      [] OTHER -> <<>>

Errors[q \in Seq(RawReplies)] ==
    LET upto[n \in 0..Len(q)] ==
            IF n = 0 THEN <<>> ELSE upto[n - 1] \o ErrorsIn(Errors, q[n])
    IN  upto[Len(q)]

AllErrors == Errors[[n \in 1..Len(answers) |-> answers[n].reply]]

Returned == outcome.how = "value"
Answered == DOMAIN answers

(* An exception tells how many errors the server sent, however deep in     *)
(* arrays, and quotes the first three in order; a batch that was searched  *)
(* for errors returns values only if there was none.                       *)
ErrorsReported ==
    /\ outcome.how = "runtime_error" =>
          /\ outcome.found.errors = Len(AllErrors) /\ AllErrors # <<>>
          /\ outcome.found.shown =
                SubSeq(AllErrors, 1, IF Len(AllErrors) < 3 THEN Len(AllErrors) ELSE 3)
    /\ Returned /\ path = "run" => AllErrors = <<>>

Text(r) == IF r.type = "NIL" THEN None ELSE r.str

(* The value stands for the reply: an error, or a reply of another kind    *)
(* than the method is for, stands for none.                                *)
Means(returns, r, value) ==
    CASE returns = "opt_string" ->
            r.type \in {"NIL", "STRING"} /\ value = Text(r)
      [] returns = "opt_string_list" ->
            \/ r.type = "NIL" /\ value = NoList
            \/ /\ r.type = "ARRAY"
               /\ \A n \in DOMAIN r.element : r.element[n].type \in {"NIL", "STRING"}
               /\ value = [n \in DOMAIN r.element |-> Text(r.element[n])]
      [] returns = "RedisInt" -> r.type = "INTEGER" /\ value = r.integer
      [] returns = "is_one" -> r.type = "INTEGER" /\ value = (r.integer = 1)
      [] returns = "is_ok" ->
            /\ r.type \in {"STATUS", "NIL"}
            /\ value = (r.type = "STATUS" /\ r.str = "OK")
      [] returns = "Reply" ->
            ErrorsIn(Errors, r) = <<>> /\ value = make_redis_reply_type[r]

(* A value that is returned is what the server sent in answer to that very *)
(* command: missing elements stay in their places, a missing string is not *)
(* an empty one, and no error passes for a value, be it an element of an   *)
(* array, at any depth of what a script returned, or the reply to set() or *)
(* zrangebyscore(), which nobody searches for errors.                      *)
DecodesAsSent ==
    Returned => \A n \in Answered :
        Means(request[n].returns, answers[n].reply, outcome.values[n])

(* A call returns without the answers of all its commands only in a build  *)
(* without assertions, after a loss of the connection; what it returns for *)
(* a command without one is 0 if the method returns a number (so del()     *)
(* seems to have found no key), false for expire(), a Reply as it was      *)
(* constructed for a script.  A string, a list or a status it never is.    *)
LostReadsAsZero ==
    Returned => \A n \in DOMAIN request \ Answered :
        LET returns == request[n].returns
            value == outcome.values[n]
        IN  /\ ndebug /\ link = "lost"
            /\ \/ returns = "RedisInt" /\ value = 0
               \/ returns = "is_one" /\ value = FALSE
               \/ returns = "Reply" /\ value = Reply

(* SET with NX leaves a value that is there alone, with XX it makes none,  *)
(* and the user reads true just if the server stored the value.            *)
SetAsAsked ==
    \A n \in Answered :
        LET call == request[n]
            done == answers[n].reply.type = "STATUS"
        IN  call.method = "set" =>
                /\ call.mode = "ADD_NX" /\ answers[n].before # Absent
                      => answers[n].after = answers[n].before
                /\ call.mode = "ADD_XX" /\ answers[n].before = Absent
                      => answers[n].after = Absent
                /\ call.mode = "ADD_None" /\ answers[n].reply.type # "ERROR"
                      => answers[n].after = call.field
                /\ IF done THEN answers[n].after = call.field
                   ELSE answers[n].after = answers[n].before
                /\ Returned => outcome.values[n] = done

SixDigits(call) == call.min < 1000000 /\ call.max < 1000000

Between(call) ==
    {m \in DOMAIN Scores :
        /\ call.min < Scores[m] \/ (call.minIncl /\ call.min = Scores[m])
        /\ Scores[m] < call.max \/ (call.maxIncl /\ call.max = Scores[m])}

(* The places of the members in what zrangebyscore() returns. *)
MemberAt(call, k) == call.withScores => k % 2 = 1

(* zrangebyscore() returns the members between its limits, each limit      *)
(* included or not as was asked, if six digits are enough for them; and    *)
(* with the scores, the score of each member right after it.               *)
RangeAsAsked ==
    Returned => \A n \in Answered :
        request[n].method = "zrangebyscore" /\ SixDigits(request[n]) =>
            LET call == request[n]
                list == outcome.values[n]
            IN  /\ {list[k] : k \in {i \in DOMAIN list : MemberAt(call, i)}} = Between(call)
                /\ \A k \in DOMAIN list :
                      ~MemberAt(call, k) => list[k] = ScoreText[list[k - 1]]

(* The ways a program ends or meets bad_get: a connection lost with        *)
(* answers due, or an error that set() or zrangebyscore() did not look     *)
(* for.  No batch that was searched for errors fails to decode.            *)
FailuresExplained ==
    pc = "crashed" \/ outcome.how = "bad_get" =>
        \/ link = "lost" /\ Len(answers) < Len(request)
        \/ path = "unchecked" /\ AllErrors # <<>>

(* "assert(parReply.is_status())", "assert(parReply.which() ==             *)
(* RedisVariantType_Nil or parReply.which() == RedisVariantType_Array)":   *)
(* the alternative a method asks for is the one the reply has, as long as  *)
(* the connection lasts.                                                   *)
ExpectedAlternative == pc = "crashed" => link = "lost"
=============================================================================
