-------------------------------- MODULE Facade --------------------------------
(***************************************************************************)
(* redis::IncRedis and redis::IncRedisBatch: the methods that stand for    *)
(* Redis commands, and what they make of the replies.                      *)
(*                                                                         *)
(* One thread uses one connection.  That the replies of a batch end up in  *)
(* the order of its commands, and that a call waits for them all, is what  *)
(* the module Batch is about; here the server just answers the commands in *)
(* order.  Of its data there are one string, which SET may or may not      *)
(* replace, and one sorted set.                                            *)
(***************************************************************************)
EXTENDS Replies, FiniteSets

CONSTANTS
    Fields,         \* what set() may be given to store
    ServerReplies,  \* the replies of the server, but for SET and ZRANGEBYSCORE
    Scores,         \* the sorted set: a function of its members
    ScoreText,      \* how the server writes the score of a member
    Bounds,         \* the limits zrangebyscore() may be given
    MaxCommands     \* bound: commands of a batch

Absent == "absent"

(* Numbers of up to seven digits. *)
Numbers == {n \in Nat : n < 10000000}

ASSUME FacadeAssumption ==
    /\ MaxNesting # 0
    /\ Absent \notin Fields
    /\ ServerReplies \subseteq RawReplies
    /\ "OK" \in Strings
    /\ DOMAIN Scores \subseteq Strings /\ IsFiniteSet(DOMAIN Scores)
    /\ \A m \in DOMAIN Scores : Scores[m] \in Numbers
    /\ ScoreText \in [DOMAIN Scores -> Strings]
    /\ Bounds \subseteq Numbers
    /\ MaxCommands \in Nat \ {0}

VARIABLES
    ndebug,     \* assertions are compiled out: fixed
    link,       \* the connection: "up" or "lost"
    pc,         \* of the user thread
    path,       \* "run" if the replies are searched for errors, else "unchecked"
    request,    \* the commands of the batch in use
    answers,    \* those the server gave: the reply, the string before and after
    stored,     \* the Replies in the nodes of the batch
    key,        \* the string the server has
    outcome     \* of the last call

vars == <<ndebug, link, pc, path, request, answers, stored, key, outcome>>

NoOutcome == [how |-> "none"]

-----------------------------------------------------------------------------
(* What the methods of IncRedis return, and the user reads from the        *)
(* replies to those of IncRedisBatch.                                      *)

HashAndSetCalls ==
    [hget |-> "opt_string", hincrby |-> "RedisInt", srandmember |-> "opt_string_list",
     srandmember_one |-> "opt_string", smembers |-> "opt_string_list"]

ServerCalls ==
    [script_flush |-> "is_ok", flushdb |-> "is_ok", dbsize |-> "RedisInt",
     expire |-> "is_one"]

StringCalls == [get |-> "opt_string", incr |-> "RedisInt"]

TemplateCalls ==
    [hmget |-> "opt_string_list", hmset |-> "is_ok", del |-> "RedisInt"]

BatchCalls ==
    [select |-> "is_ok", client_setname |-> "is_ok", hget |-> "opt_string",
     hincrby |-> "RedisInt", srandmember |-> "opt_string_list",
     srandmember_one |-> "opt_string", script_flush |-> "is_ok"]

BatchTemplateCalls ==
    [hmget |-> "opt_string_list", hmset |-> "is_ok", sadd |-> "RedisInt",
     del |-> "RedisInt"]

(* Script::run(), whose reply may be of any kind. *)
ScriptCalls == [eval |-> "Reply"]

Plain(calls) == {[method |-> m, returns |-> calls[m]] : m \in DOMAIN calls}

(* Mutant: the words are mixed up. *)
SetCall_Swapped(parField, parMode) ==
    [method |-> "set", returns |-> "is_ok", field |-> parField, mode |-> parMode,
     word |-> CASE parMode = "ADD_None" -> Blank
                [] parMode = "ADD_NX" -> "XX"
                [] parMode = "ADD_XX" -> "NX"]

SetCall(parField, parMode) ==
    [method |-> "set", returns |-> "is_ok", field |-> parField, mode |-> parMode,
     word |-> CASE parMode = "ADD_None" -> Blank
                [] parMode = "ADD_NX" -> "NX"
                [] parMode = "ADD_XX" -> "XX"]

(* What operator<< writes of a whole number: six significant digits. *)
Written(v) ==
    IF v < 1000000 THEN v
    ELSE LET down == v - (v % 10) IN
         IF v % 10 > 5 \/ (v % 10 = 5 /\ (down \div 10) % 2 = 1)
         THEN down + 10 ELSE down

make_boundary(parValue, parExclude) ==
    [exclusive |-> parExclude, score |-> Written(parValue)]

(* Mutant: the second limit is written like the first. *)
RangeCall_SameEnds(min, minIncl, max, maxIncl, parWithScores) ==
    [method |-> "zrangebyscore", returns |-> "opt_string_list",
     min |-> min, minIncl |-> minIncl, max |-> max, maxIncl |-> maxIncl,
     withScores |-> parWithScores,
     lower_bound |-> make_boundary(min, ~minIncl),
     upper_bound |-> make_boundary(max, ~minIncl)]

RangeCall(min, minIncl, max, maxIncl, parWithScores) ==
    [method |-> "zrangebyscore", returns |-> "opt_string_list",
     min |-> min, minIncl |-> minIncl, max |-> max, maxIncl |-> maxIncl,
     withScores |-> parWithScores,
     lower_bound |-> make_boundary(min, ~minIncl),
     upper_bound |-> make_boundary(max, ~maxIncl)]

RangeCalls ==
    {RangeCall(min, minIncl, max, maxIncl, parWithScores) :
        min \in Bounds, minIncl \in BOOLEAN, max \in Bounds, maxIncl \in BOOLEAN,
        parWithScores \in BOOLEAN}

RunCalls ==
    UNION {Plain(c) : c \in {HashAndSetCalls, ServerCalls, StringCalls, TemplateCalls}}

UncheckedCalls == {SetCall(f, "ADD_None") : f \in Fields} \cup RangeCalls

InBatchCalls ==
    (UNION {Plain(c) : c \in {BatchCalls, BatchTemplateCalls, ScriptCalls}})
    \cup {SetCall(f, mode) : f \in Fields, mode \in {"ADD_None", "ADD_NX", "ADD_XX"}}
    \cup RangeCalls

-----------------------------------------------------------------------------
(* The server. *)

Str(s) == [Raw("STRING") EXCEPT !.str = s]
OK == [Raw("STATUS") EXCEPT !.str = "OK"]
Arr(q) == [Raw("ARRAY") EXCEPT !.element = q]
StrArr(q) == Arr([n \in DOMAIN q |-> Str(q[n])])

Above(score, bound) ==
    IF bound.exclusive THEN score > bound.score ELSE score >= bound.score
Below(score, bound) ==
    IF bound.exclusive THEN score < bound.score ELSE score <= bound.score

InRange(call) ==
    {m \in DOMAIN Scores :
        Above(Scores[m], call.lower_bound) /\ Below(Scores[m], call.upper_bound)}

(* The members in the order of their scores. *)
ByScore(members) ==
    {q \in [1..Cardinality(members) -> members] :
        /\ \A m \in members : \E n \in DOMAIN q : q[n] = m
        /\ \A n \in 2..Cardinality(members) : Scores[q[n - 1]] <= Scores[q[n]]}

(* With WITHSCORES the score of each member follows it. *)
Listing(call, q) ==
    IF call.withScores
    THEN [n \in 1..(2 * Len(q)) |->
            IF n % 2 = 1 THEN q[(n + 1) \div 2] ELSE ScoreText[q[n \div 2]]]
    ELSE q

Sets(call) ==
    CASE call.word = Blank -> TRUE
      [] call.word = "NX" -> key = Absent
      [] call.word = "XX" -> key # Absent

(* A reply that is no error, to a call whose result is of this kind: that  *)
(* of a script may be anything, errors inside of arrays too.               *)
Fits(returns, r) ==
    CASE returns = "opt_string" -> r.type \in {"NIL", "STRING"}
      [] returns = "opt_string_list" ->
            \/ r.type = "NIL"
            \/ /\ r.type = "ARRAY"
               /\ \A n \in 1..Len(r.element) : r.element[n].type \in {"NIL", "STRING"}
      [] returns \in {"RedisInt", "is_one"} -> r.type = "INTEGER"
      [] returns = "is_ok" -> r.type = "STATUS"
      [] returns = "Reply" -> TRUE

Answers(call) ==
    CASE call.method = "set" -> {IF Sets(call) THEN OK ELSE Raw("NIL")}
      [] call.method = "zrangebyscore" ->
            {StrArr(Listing(call, q)) : q \in ByScore(InRange(call))}
      [] OTHER -> {r \in ServerReplies : Fits(call.returns, r)}

ServerAnswers ==
    /\ pc \in {"fill", "wait"} /\ link = "up"
    /\ Len(answers) < Len(request)
    /\ LET call == request[Len(answers) + 1] IN
       \E r \in Answers(call) \cup {e \in ServerReplies : e.type = "ERROR"} :
          /\ key' = IF call.method = "set" /\ r.type = "STATUS"
                    THEN call.field ELSE key
          /\ answers' = Append(answers, [reply |-> r, before |-> key, after |-> key'])
          /\ stored' = Append(stored, make_redis_reply_type[r])
    /\ UNCHANGED <<ndebug, link, pc, path, request, outcome>>

(* Every callback left runs with a null reply: an assertion fails, or the  *)
(* node keeps the Reply it was made with.                                  *)
ConnectionLost ==
    /\ link = "up" /\ pc # "crashed"
    /\ link' = "lost"
    /\ pc' = IF Len(stored) < Len(request) /\ ~ndebug THEN "crashed" ELSE pc
    /\ stored' = stored \o [n \in 1..(Len(request) - Len(stored)) |-> Reply]
    /\ UNCHANGED <<ndebug, path, request, answers, key, outcome>>

-----------------------------------------------------------------------------
(* The user thread. *)

NewBatch(calls) ==
    /\ link = "up" /\ pc = "idle"
    /\ request' = calls /\ answers' = <<>> /\ stored' = <<>>
    /\ outcome' = NoOutcome
    /\ UNCHANGED <<ndebug, link, key>>

(* A method that is one Command::run(). *)
CallRun(call) ==
    /\ NewBatch(<<call>>)
    /\ path' = "run" /\ pc' = "wait"

(* IncRedis::set() and IncRedis::zrangebyscore() make their own batch and  *)
(* read its replies.                                                       *)
CallUnchecked(call) ==
    /\ NewBatch(<<call>>)
    /\ path' = "unchecked" /\ pc' = "wait"

CallMakeBatch ==
    /\ NewBatch(<<>>)
    /\ path' = "run" /\ pc' = "fill"

CallInBatch(call) ==
    /\ link = "up" /\ pc = "fill"
    /\ Len(request) < MaxCommands
    /\ request' = Append(request, call)
    /\ UNCHANGED <<ndebug, link, pc, path, answers, stored, key, outcome>>

CallThrowIfFailed ==
    /\ pc = "fill" /\ request # <<>>
    /\ pc' = "wait"
    /\ UNCHANGED <<ndebug, link, path, request, answers, stored, key, outcome>>

AllStored == pc = "wait" /\ Len(stored) = Len(request)

Return(result) ==
    /\ outcome' = result
    /\ pc' = "idle"
    /\ UNCHANGED <<ndebug, link, path, request, answers, stored, key>>

(* std::runtime_error, from Batch::throw_if_failed(). *)
CallThrows ==
    /\ AllStored /\ path = "run"
    /\ throw_if_failed(stored).errors > 0
    /\ Return([how |-> "runtime_error", found |-> throw_if_failed(stored)])

Decoded(returns, rep) ==
    CASE returns = "opt_string" -> optional_string(rep)
      [] returns = "opt_string_list" -> optional_string_list(rep)
      [] returns = "RedisInt" -> get_integer(rep)
      [] returns = "is_one" /\ get_integer(rep).ok ->
            Value(get_integer(rep).value = 1)
      [] returns = "is_ok" /\ get_StatusString(rep).ok ->
            Value(is_ok(get_StatusString(rep).value))
      [] returns = "Reply" -> Value(rep)
      [] OTHER -> Fails

(* Mutant: no reply is searched for errors. *)
Passed_NotSearched == AllStored

Passed == AllStored /\ (path = "run" => throw_if_failed(stored).errors = 0)

CallReturns ==
    LET results == [n \in DOMAIN stored |-> Decoded(request[n].returns, stored[n])] IN
    /\ Passed
    /\ \A n \in DOMAIN results : results[n].ok
    /\ Return([how |-> "value",
               values |-> [n \in DOMAIN results |-> results[n].value]])

(* A decoder meets an alternative it does not expect. *)
DecoderFails ==
    /\ Passed
    /\ \E n \in DOMAIN stored : ~Decoded(request[n].returns, stored[n]).ok
    /\ IF ndebug
       THEN Return([how |-> "bad_get"])
       ELSE /\ pc' = "crashed"
            /\ UNCHANGED <<ndebug, link, path, request, answers, stored, key, outcome>>

-----------------------------------------------------------------------------
Init ==
    /\ ndebug \in BOOLEAN
    /\ link = "up" /\ pc = "idle" /\ path = "run"
    /\ request = <<>> /\ answers = <<>> /\ stored = <<>>
    /\ key = Absent
    /\ outcome = NoOutcome

UserCall ==
    \/ \E call \in RunCalls : CallRun(call)
    \/ \E call \in UncheckedCalls : CallUnchecked(call)
    \/ CallMakeBatch
    \/ \E call \in InBatchCalls : CallInBatch(call)
    \/ CallThrowIfFailed

CallEnds == CallThrows \/ CallReturns \/ DecoderFails

(* The program has ended, or goes on without this connection. *)
Ended == (pc = "crashed" \/ (link = "lost" /\ pc \in {"idle", "fill"})) /\ UNCHANGED vars

Next == UserCall \/ ServerAnswers \/ CallEnds \/ ConnectionLost \/ Ended

Spec == Init /\ [][Next]_vars
=============================================================================
