----------------------------- MODULE FacadeProofs -----------------------------
(* Proofs of the properties of Facade, by an inductive invariant.          *)
EXTENDS FacadeInvariant, RepliesProofs, FiniteSetTheorems

(* No word is empty. *)
LEMMA BlankIsNoWord == Blank # "OK" /\ Blank # "NX" /\ Blank # "XX"
  <1>1. Blank # "OK"
    BY Zenon DEF Blank
  <1>2. Blank # "NX"
    BY Zenon DEF Blank
  <1>3. Blank # "XX"
    BY Zenon DEF Blank
  <1> QED
    BY <1>1, <1>2, <1>3

Kinds == {"opt_string", "opt_string_list", "RedisInt", "is_one", "is_ok", "Reply"}

PlainCall(call) ==
    call.returns \in Kinds /\ call.method \notin {"set", "zrangebyscore"}

WordOf(mode) == IF mode = "ADD_None" THEN Blank ELSE IF mode = "ADD_NX" THEN "NX" ELSE "XX"

ASetCall(call) ==
    /\ call.method = "set" /\ call.returns = "is_ok"
    /\ call.field \in Fields
    /\ call.mode \in {"ADD_None", "ADD_NX", "ADD_XX"}
    /\ call.word = WordOf(call.mode)

ARangeCall(call) ==
    /\ call.method = "zrangebyscore" /\ call.returns = "opt_string_list"
    /\ call.min \in Bounds /\ call.max \in Bounds
    /\ call.minIncl \in BOOLEAN /\ call.maxIncl \in BOOLEAN
    /\ call.withScores \in BOOLEAN
    /\ call.lower_bound = make_boundary(call.min, ~call.minIncl)
    /\ call.upper_bound = make_boundary(call.max, ~call.maxIncl)

LEMMA PlainShape ==
    \A calls \in {HashAndSetCalls, ServerCalls, StringCalls, TemplateCalls,
                  BatchCalls, BatchTemplateCalls, ScriptCalls} :
        \A call \in Plain(calls) : PlainCall(call)
  <1>1. ASSUME NEW calls,
               \A m \in DOMAIN calls : m \notin {"set", "zrangebyscore"} /\ calls[m] \in Kinds,
               NEW call \in Plain(calls)
        PROVE  PlainCall(call)
    BY <1>1 DEF Plain, PlainCall
  <1>2. \A m \in DOMAIN HashAndSetCalls :
           m \notin {"set", "zrangebyscore"} /\ HashAndSetCalls[m] \in Kinds
    BY DEF HashAndSetCalls, Kinds
  <1>3. \A m \in DOMAIN ServerCalls :
           m \notin {"set", "zrangebyscore"} /\ ServerCalls[m] \in Kinds
    BY DEF ServerCalls, Kinds
  <1>4. \A m \in DOMAIN StringCalls :
           m \notin {"set", "zrangebyscore"} /\ StringCalls[m] \in Kinds
    BY DEF StringCalls, Kinds
  <1>5. \A m \in DOMAIN TemplateCalls :
           m \notin {"set", "zrangebyscore"} /\ TemplateCalls[m] \in Kinds
    BY DEF TemplateCalls, Kinds
  <1>6. \A m \in DOMAIN BatchCalls :
           m \notin {"set", "zrangebyscore"} /\ BatchCalls[m] \in Kinds
    BY DEF BatchCalls, Kinds
  <1>7. \A m \in DOMAIN BatchTemplateCalls :
           m \notin {"set", "zrangebyscore"} /\ BatchTemplateCalls[m] \in Kinds
    BY DEF BatchTemplateCalls, Kinds
  <1>8. \A m \in DOMAIN ScriptCalls :
           m \notin {"set", "zrangebyscore"} /\ ScriptCalls[m] \in Kinds
    BY DEF ScriptCalls, Kinds
  <1> QED
    BY <1>1, <1>2, <1>3, <1>4, <1>5, <1>6, <1>7, <1>8

LEMMA SetShape ==
    \A f \in Fields, mode \in {"ADD_None", "ADD_NX", "ADD_XX"} : ASetCall(SetCall(f, mode))
  BY DEF SetCall, ASetCall, WordOf

LEMMA RangeShape == \A call \in RangeCalls : ARangeCall(call)
  BY DEF RangeCalls, RangeCall, ARangeCall

(* What the methods send. *)
LEMMA CallShape ==
    \A call \in Calls : PlainCall(call) \/ ASetCall(call) \/ ARangeCall(call)
  <1>1. \A call \in RunCalls : PlainCall(call)
    BY PlainShape DEF RunCalls
  <1>2. \A call \in UncheckedCalls : ASetCall(call) \/ ARangeCall(call)
    BY SetShape, RangeShape DEF UncheckedCalls
  <1>3. \A call \in InBatchCalls : PlainCall(call) \/ ASetCall(call) \/ ARangeCall(call)
    <2> SUFFICES ASSUME NEW call \in InBatchCalls
                 PROVE  PlainCall(call) \/ ASetCall(call) \/ ARangeCall(call)
      OBVIOUS
    <2> DEFINE plain == UNION {Plain(c) : c \in {BatchCalls, BatchTemplateCalls, ScriptCalls}}
               sets == {SetCall(f, mode) : f \in Fields,
                                           mode \in {"ADD_None", "ADD_NX", "ADD_XX"}}
    <2>1. call \in plain => PlainCall(call)
      BY PlainShape
    <2>2. call \in sets => ASetCall(call)
      BY SetShape
    <2>3. InBatchCalls = plain \cup sets \cup RangeCalls
      BY DEF InBatchCalls
    <2> HIDE DEF plain, sets
    <2> QED
      BY <2>1, <2>2, <2>3, RangeShape
  <1> QED
    BY <1>1, <1>2, <1>3 DEF Calls

-----------------------------------------------------------------------------
(* The alternative a reply is held as. *)
LEMMA MadeOf ==
    ASSUME NEW r \in RawReplies
    PROVE  LET rep == make_redis_reply_type[r] IN
           /\ rep \in Replies
           /\ r.type = "INTEGER" => rep.which = "Integer" /\ rep.integer = r.integer
           /\ r.type = "STRING" => rep.which = "String" /\ rep.str = r.str
           /\ r.type = "ARRAY" =>
                 /\ r.element \in Seq(RawReplies)
                 /\ rep.which = "Array" /\ rep.array = Made(make_redis_reply_type, r.element)
           /\ r.type = "ERROR" => rep.which = "Error"
           /\ r.type = "STATUS" => rep.which = "Status" /\ rep.str = r.str
           /\ r.type = "NIL" => rep.which = "Nil"
           /\ r.type \in {"INTEGER", "STRING", "ARRAY", "ERROR", "STATUS", "NIL"}
  <1> DEFINE make == make_redis_reply_type
  <1>0. MaxNesting \in 0..MaxNesting
    BY RepliesAssumption DEF RepliesAssumption
  <1>1. make[r] = Variant(make, r)
    BY MakeDef
  <1>2. make[r] \in Replies
    BY <1>0, MakeUpTo DEF RawReplies, Replies
  <1>3. /\ r.type \in {"INTEGER", "STRING", "ARRAY", "ERROR", "STATUS", "NIL"}
        /\ r.type = "ARRAY" => r.element \in Seq(RawReplies)
    <2>1. CASE r \in FlatRaw
      BY <2>1 DEF FlatRaw
    <2>2. CASE MaxNesting # 0 /\ r \in NestedRaw(RawUpTo[MaxNesting - 1])
      <3>1. RawUpTo[MaxNesting - 1] \subseteq RawReplies
        <4>1. MaxNesting - 1 \in 0..MaxNesting
          BY <2>2, RepliesAssumption DEF RepliesAssumption
        <4> QED
          BY <4>1, RawBelow
      <3>2. r.type = "ARRAY" /\ r.element \in Seq(RawUpTo[MaxNesting - 1])
        BY <2>2 DEF NestedRaw
      <3> QED
        BY <3>1, <3>2
    <2> QED
      BY <1>0, <2>1, <2>2, RawShape DEF RawReplies
  <1> HIDE DEF make
  <1>4. /\ r.type = "INTEGER" => make[r].which = "Integer" /\ make[r].integer = r.integer
        /\ r.type = "STRING" => make[r].which = "String" /\ make[r].str = r.str
        /\ r.type = "ARRAY" => make[r].which = "Array" /\ make[r].array = Made(make, r.element)
        /\ r.type = "ERROR" => make[r].which = "Error"
        /\ r.type = "STATUS" => make[r].which = "Status" /\ make[r].str = r.str
        /\ r.type = "NIL" => make[r].which = "Nil"
    BY <1>1, VariantIs
  <1> QED
    BY <1>2, <1>3, <1>4 DEF make

LEMMA StringDecodes ==
    ASSUME NEW r \in RawReplies
    PROVE  LET d == optional_string(make_redis_reply_type[r]) IN
           /\ d.ok <=> r.type \in {"NIL", "STRING"}
           /\ d.ok => d.value = Text(r)
  <1> DEFINE rep == make_redis_reply_type[r]
  <1>1. /\ r.type \in {"INTEGER", "STRING", "ARRAY", "ERROR", "STATUS", "NIL"}
        /\ r.type = "STRING" => rep.which = "String" /\ rep.str = r.str
        /\ r.type = "NIL" => rep.which = "Nil"
        /\ r.type \notin {"STRING", "NIL"} => rep.which \notin {"String", "Nil"}
    BY MadeOf
  <1> HIDE DEF rep
  <1>2. CASE r.type = "NIL"
    BY <1>1, <1>2 DEF optional_string, Value, Text, rep
  <1>3. CASE r.type = "STRING"
    BY <1>1, <1>3 DEF optional_string, get_string, Value, Text, rep
  <1>4. CASE r.type \notin {"NIL", "STRING"}
    BY <1>1, <1>4 DEF optional_string, get_string, Fails, rep
  <1> QED
    BY <1>2, <1>3, <1>4 DEF rep

Texts(q) == [n \in 1..Len(q) |-> Text(q[n])]

LEMMA ListDecodes ==
    ASSUME NEW r \in RawReplies
    PROVE  LET d == optional_string_list(make_redis_reply_type[r]) IN
           /\ d.ok <=> Fits("opt_string_list", r)
           /\ d.ok => d.value = IF r.type = "NIL" THEN NoList ELSE Texts(r.element)
  <1> DEFINE rep == make_redis_reply_type[r]
             q == r.element
             elements == [n \in DOMAIN get_array(rep).value |->
                             optional_string(get_array(rep).value[n])]
  <1>0. /\ r.type \in {"INTEGER", "STRING", "ARRAY", "ERROR", "STATUS", "NIL"}
        /\ r.type = "ARRAY" => /\ q \in Seq(RawReplies)
                               /\ rep.which = "Array"
                               /\ rep.array = Made(make_redis_reply_type, q)
        /\ r.type = "NIL" => rep.which = "Nil"
        /\ r.type \notin {"ARRAY", "NIL"} => rep.which \notin {"Array", "Nil"}
    BY MadeOf
  <1>1. Fits("opt_string_list", r) <=>
           \/ r.type = "NIL"
           \/ r.type = "ARRAY" /\ \A n \in 1..Len(q) : q[n].type \in {"NIL", "STRING"}
    BY DEF Fits
  <1> HIDE DEF rep, q
  <1>2. CASE r.type = "NIL"
    BY <1>0, <1>1, <1>2 DEF optional_string_list, Value, rep
  <1>3. CASE r.type = "ARRAY"
    <2>1. get_array(rep).ok /\ get_array(rep).value = Made(make_redis_reply_type, q)
      BY <1>0, <1>3 DEF get_array, Value
    <2>2. elements = [n \in 1..Len(q) |-> optional_string(make_redis_reply_type[q[n]])]
      BY <2>1 DEF Made
    <2>3. \A n \in 1..Len(q) :
             /\ elements[n].ok <=> q[n].type \in {"NIL", "STRING"}
             /\ elements[n].ok => elements[n].value = Text(q[n])
      <3>1. \A n \in 1..Len(q) : q[n] \in RawReplies
        BY <1>0, <1>3
      <3> QED
        BY <2>2, <3>1, StringDecodes
    <2>4. DOMAIN elements = 1..Len(q)
      BY <2>2
    <2>5. optional_string_list(rep) =
             IF \A n \in DOMAIN elements : elements[n].ok
             THEN Value([n \in DOMAIN elements |-> elements[n].value]) ELSE Fails
      BY <1>0, <1>3, <2>1 DEF optional_string_list
    <2> HIDE DEF elements
    <2>6. CASE \A n \in 1..Len(q) : q[n].type \in {"NIL", "STRING"}
      <3>1. \A n \in 1..Len(q) : elements[n].ok /\ elements[n].value = Text(q[n])
        BY <2>3, <2>6
      <3>2. [n \in DOMAIN elements |-> elements[n].value] = Texts(q)
        BY <2>4, <3>1 DEF Texts
      <3>3. optional_string_list(rep) = Value(Texts(q))
        BY <2>4, <2>5, <3>1, <3>2
      <3> QED
        BY <1>1, <1>3, <2>6, <3>3 DEF Value, rep, q
    <2>7. CASE ~(\A n \in 1..Len(q) : q[n].type \in {"NIL", "STRING"})
      <3>1. optional_string_list(rep) = Fails
        BY <2>3, <2>4, <2>5, <2>7
      <3> QED
        BY <1>1, <1>3, <2>7, <3>1 DEF Fails, rep
    <2> QED
      BY <2>6, <2>7
  <1>4. CASE r.type \notin {"NIL", "ARRAY"}
    <2>1. optional_string_list(rep) = Fails
      BY <1>0, <1>4 DEF optional_string_list, get_array, Fails
    <2> QED
      BY <1>1, <1>4, <2>1 DEF Fails, rep
  <1> QED
    BY <1>2, <1>3, <1>4

LEMMA StatusDecodes ==
    ASSUME NEW r \in RawReplies
    PROVE  LET d == get_StatusString(make_redis_reply_type[r]) IN
           /\ d.ok <=> r.type \in {"NIL", "STATUS"}
           /\ d.ok => (is_ok(d.value) <=> r.type = "STATUS" /\ r.str = "OK")
  <1> DEFINE rep == make_redis_reply_type[r]
  <1>1. /\ r.type \in {"INTEGER", "STRING", "ARRAY", "ERROR", "STATUS", "NIL"}
        /\ r.type = "STATUS" => rep.which = "Status" /\ rep.str = r.str
        /\ r.type = "NIL" => rep.which = "Nil"
        /\ r.type \notin {"STATUS", "NIL"} => rep.which \notin {"Status", "Nil"}
    BY MadeOf
  <1> HIDE DEF rep
  <1>2. CASE r.type = "NIL"
    BY <1>1, <1>2, BlankIsNoWord DEF get_StatusString, Value, is_ok, rep
  <1>3. CASE r.type = "STATUS"
    BY <1>1, <1>3 DEF get_StatusString, Value, is_ok, rep
  <1>4. CASE r.type \notin {"NIL", "STATUS"}
    BY <1>1, <1>4 DEF get_StatusString, Fails, rep
  <1> QED
    BY <1>2, <1>3, <1>4

LEMMA IntegerDecodes ==
    ASSUME NEW r \in RawReplies
    PROVE  LET d == get_integer(make_redis_reply_type[r]) IN
           /\ d.ok <=> r.type = "INTEGER"
           /\ d.ok => d.value = r.integer
  <1> DEFINE rep == make_redis_reply_type[r]
  <1>1. /\ r.type \in {"INTEGER", "STRING", "ARRAY", "ERROR", "STATUS", "NIL"}
        /\ r.type = "INTEGER" => rep.which = "Integer" /\ rep.integer = r.integer
        /\ r.type # "INTEGER" => rep.which # "Integer"
    BY MadeOf
  <1> HIDE DEF rep
  <1> QED
    BY <1>1 DEF get_integer, Value, Fails, rep

LEMMA BooleanSame == \A a, b \in BOOLEAN : (a <=> b) => a = b
  OBVIOUS

(* A decoder reads what the reply means, and reads every reply that fits.  *)
LEMMA Decodes ==
    ASSUME NEW r \in RawReplies, NEW returns \in Kinds
    PROVE  LET d == Decoded(returns, make_redis_reply_type[r]) IN
           /\ d.ok /\ (returns = "Reply" => ErrorsIn(Errors, r) = <<>>)
                 => Means(returns, r, d.value)
           /\ Fits(returns, r) => d.ok
           /\ returns = "is_ok" /\ r.type = "NIL" => d.ok
  <1> DEFINE rep == make_redis_reply_type[r]
             d == Decoded(returns, rep)
  <1> HIDE DEF rep
  <1>1. CASE returns = "opt_string"
    <2>1. d = optional_string(rep)
      BY <1>1 DEF Decoded
    <2>2. /\ d.ok <=> r.type \in {"NIL", "STRING"}
          /\ d.ok => d.value = Text(r)
      BY <2>1, StringDecodes DEF rep
    <2> HIDE DEF d
    <2> QED
      BY <1>1, <2>2 DEF Means, Fits, Text, d, rep
  <1>2. CASE returns = "opt_string_list"
    <2>1. d = optional_string_list(rep)
      BY <1>2 DEF Decoded
    <2>2. /\ d.ok <=> Fits("opt_string_list", r)
          /\ d.ok => d.value = IF r.type = "NIL" THEN NoList ELSE Texts(r.element)
      BY <2>1, ListDecodes DEF rep
    <2>3. d.ok => \/ r.type = "NIL"
                  \/ /\ r.type = "ARRAY" /\ r.element \in Seq(RawReplies)
                     /\ \A n \in 1..Len(r.element) : r.element[n].type \in {"NIL", "STRING"}
      BY <2>2, MadeOf DEF Fits
    <2>4. r.element \in Seq(RawReplies) =>
             /\ DOMAIN r.element = 1..Len(r.element)
             /\ Texts(r.element) = [n \in DOMAIN r.element |-> Text(r.element[n])]
      BY DEF Texts
    <2>5. d.ok => Means("opt_string_list", r, d.value)
      <3> HIDE DEF d
      <3> SUFFICES ASSUME d.ok PROVE Means("opt_string_list", r, d.value)
        OBVIOUS
      <3>1. CASE r.type = "NIL"
        BY <2>2, <3>1 DEF Means
      <3>2. CASE r.type # "NIL"
        <4>1. r.type = "ARRAY" /\ d.value = Texts(r.element)
          BY <2>2, <2>3, <3>2
        <4>2. /\ d.value = [n \in DOMAIN r.element |-> Text(r.element[n])]
              /\ \A n \in DOMAIN r.element : r.element[n].type \in {"NIL", "STRING"}
          BY <2>3, <2>4, <3>2, <4>1
        <4> QED
          BY <4>1, <4>2 DEF Means
      <3> QED
        BY <3>1, <3>2
    <2> HIDE DEF d
    <2> QED
      BY <1>2, <2>2, <2>5 DEF d, rep
  <1>3. CASE returns = "RedisInt"
    <2>1. d = get_integer(rep)
      BY <1>3 DEF Decoded
    <2>2. /\ d.ok <=> r.type = "INTEGER"
          /\ d.ok => d.value = r.integer
      BY <2>1, IntegerDecodes DEF rep
    <2> HIDE DEF d
    <2> QED
      BY <1>3, <2>2 DEF Means, Fits, d, rep
  <1>4. CASE returns = "is_one"
    <2> DEFINE i == get_integer(rep)
    <2>1. d = IF i.ok THEN Value(i.value = 1) ELSE Fails
      BY <1>4 DEF Decoded
    <2>2. /\ i.ok <=> r.type = "INTEGER"
          /\ i.ok => i.value = r.integer
      BY IntegerDecodes DEF rep
    <2> HIDE DEF i, d
    <2>3. CASE i.ok
      <3>1. d.ok /\ d.value = (r.integer = 1)
        BY <2>1, <2>2, <2>3 DEF Value
      <3> QED
        BY <1>4, <2>2, <2>3, <3>1 DEF Means, d, rep
    <2>4. CASE ~i.ok
      <3>1. ~d.ok
        BY <2>1, <2>4 DEF Fails
      <3> QED
        BY <1>4, <2>2, <2>4, <3>1 DEF Fits, d, rep
    <2> QED
      BY <2>3, <2>4
  <1>5. CASE returns = "is_ok"
    <2> DEFINE status == get_StatusString(rep)
    <2>1. d = IF status.ok THEN Value(is_ok(status.value)) ELSE Fails
      BY <1>5 DEF Decoded
    <2>2. /\ status.ok <=> r.type \in {"NIL", "STATUS"}
          /\ status.ok => (is_ok(status.value) <=> r.type = "STATUS" /\ r.str = "OK")
      BY StatusDecodes DEF rep
    <2>3. is_ok(status.value) \in BOOLEAN
      BY DEF is_ok
    <2> HIDE DEF status, d
    <2>4. CASE status.ok
      <3>1. d.ok /\ d.value = is_ok(status.value)
        BY <2>1, <2>4 DEF Value
      <3>2. is_ok(status.value) = (r.type = "STATUS" /\ r.str = "OK")
        <4>1. (r.type = "STATUS" /\ r.str = "OK") \in BOOLEAN
          OBVIOUS
        <4> QED
          BY <2>2, <2>3, <2>4, <4>1, BooleanSame
      <3>3. d.value = (r.type = "STATUS" /\ r.str = "OK")
        BY <3>1, <3>2
      <3>4. r.type \in {"STATUS", "NIL"}
        BY <2>2, <2>4
      <3>5. Means(returns, r, d.value)
        BY <1>5, <3>3, <3>4 DEF Means
      <3> QED
        BY <3>1, <3>5 DEF d, rep
    <2>5. CASE ~status.ok
      <3>1. ~d.ok
        BY <2>1, <2>5 DEF Fails
      <3> QED
        BY <1>5, <2>2, <2>5, <3>1 DEF Fits, d, rep
    <2> QED
      BY <2>4, <2>5
  <1>6. CASE returns = "Reply"
    <2>1. d = Value(rep)
      BY <1>6 DEF Decoded
    <2>2. d.ok /\ d.value = rep
      BY <2>1 DEF Value
    <2> HIDE DEF d
    <2> QED
      BY <1>6, <2>2 DEF Means, d, rep
  <1> QED
    BY <1>1, <1>2, <1>3, <1>4, <1>5, <1>6 DEF Kinds

-----------------------------------------------------------------------------
LEMMA FlatIsReply == FlatRaw \subseteq RawReplies
  <1> USE RepliesAssumption DEF RepliesAssumption
  <1>1. CASE MaxNesting = 0
    BY <1>1, RawLevels DEF RawReplies
  <1>2. CASE MaxNesting # 0
    BY <1>2, RawLevels, MaxNesting \in 1..MaxNesting DEF RawReplies
  <1> QED
    BY <1>1, <1>2

LEMMA SameSeq ==
    ASSUME NEW S, NEW T, S \subseteq T, NEW s \in Seq(S)
    PROVE  s \in Seq(T)
  OBVIOUS

(* A list of strings, as an array. *)
LEMMA StringsReply ==
    ASSUME NEW t \in Seq(Strings), NEW r, r = StrArr(t)
    PROVE  /\ r \in RawReplies /\ r.type = "ARRAY"
           /\ Len(r.element) = Len(t)
           /\ \A n \in 1..Len(t) : r.element[n].type = "STRING" /\ r.element[n].str = t[n]
  <1> DEFINE element == [n \in 1..Len(t) |-> Str(t[n])]
  <1>0. MaxNesting \in Nat /\ MaxNesting # 0
    BY RepliesAssumption, FacadeAssumption DEF RepliesAssumption, FacadeAssumption
  <1>1. Len(t) \in Nat /\ DOMAIN t = 1..Len(t) /\ \A n \in 1..Len(t) : t[n] \in Strings
    OBVIOUS
  <1>2. r = Arr(element)
    BY <1>1 DEF StrArr
  <1>3. \A s \in Strings : /\ Str(s) \in FlatRaw
                          /\ Str(s).type = "STRING" /\ Str(s).str = s
    BY RepliesAssumption DEF RepliesAssumption, Str, Raw, FlatRaw
  <1>4. element \in Seq(FlatRaw) /\ Len(element) = Len(t)
    <2>1. \A n \in 1..Len(t) : Str(t[n]) \in FlatRaw
      BY <1>1, <1>3
    <2>2. element \in [1..Len(t) -> FlatRaw]
      BY <2>1
    <2> HIDE DEF element
    <2> QED
      BY <1>1, <2>2, SequenceOf
  <1>5. \A n \in 1..Len(t) : element[n].type = "STRING" /\ element[n].str = t[n]
    BY <1>1, <1>3
  <1>6. r.type = "ARRAY" /\ r.element = element
    BY <1>2 DEF Arr, Raw
  <1>7. r \in RawReplies
    <2>1. MaxNesting \in 1..MaxNesting /\ MaxNesting - 1 \in 0..MaxNesting
      BY <1>0
    <2>2. FlatRaw \subseteq RawUpTo[MaxNesting - 1]
      <3>1. CASE MaxNesting = 1
        BY <3>1, RawLevels
      <3>2. CASE MaxNesting # 1
        <4>1. MaxNesting - 1 \in 1..MaxNesting
          BY <1>0, <3>2
        <4> QED
          BY <4>1, RawLevels
      <3> QED
        BY <3>1, <3>2
    <2> HIDE DEF element
    <2>3. element \in Seq(RawUpTo[MaxNesting - 1])
      BY <1>4, <2>2, SameSeq
    <2>4. Arr(element) \in NestedRaw(RawUpTo[MaxNesting - 1])
      BY <2>3 DEF Arr, Raw, NestedRaw
    <2> QED
      BY <1>2, <2>1, <2>4, RawLevels DEF RawReplies
  <1> HIDE DEF element
  <1> QED
    BY <1>4, <1>5, <1>6, <1>7

LEMMA MembersInOrder ==
    ASSUME NEW call, NEW q \in ByScore(InRange(call))
    PROVE  /\ q \in Seq(InRange(call))
           /\ \A m \in InRange(call) : \E n \in 1..Len(q) : q[n] = m
  <1> DEFINE members == InRange(call)
             size == Cardinality(members)
  <1> USE FacadeAssumption DEF FacadeAssumption
  <1>1. size \in Nat
    <2>1. members \in SUBSET DOMAIN Scores
      BY DEF InRange
    <2> HIDE DEF members
    <2>2. IsFiniteSet(members)
      BY <2>1, FS_Subset
    <2> QED
      BY <2>2, FS_CardinalityType
  <1>2. q \in [1..size -> members] /\ \A m \in members : \E n \in DOMAIN q : q[n] = m
    BY DEF ByScore
  <1> HIDE DEF members, size
  <1>3. q \in Seq(members) /\ Len(q) = size
    BY <1>1, <1>2, SequenceOf
  <1> QED
    BY <1>2, <1>3 DEF members

(* What the server lists: the members, at their places, and after each its *)
(* score, where it was asked for.                                          *)
Lists(call, t) ==
    /\ t \in Seq(Strings)
    /\ \A k \in 1..Len(t) : MemberAt(call, k) => t[k] \in InRange(call)
    /\ \A m \in InRange(call) : \E k \in 1..Len(t) : MemberAt(call, k) /\ t[k] = m
    /\ \A k \in 1..Len(t) : ~MemberAt(call, k) => t[k] = ScoreText[t[k - 1]]

LEMMA ListingIs ==
    ASSUME NEW call, call.withScores \in BOOLEAN, NEW q \in ByScore(InRange(call))
    PROVE  Lists(call, Listing(call, q))
  <1> DEFINE members == InRange(call)
  <1>1. members \subseteq DOMAIN Scores
    BY DEF InRange
  <1>2. /\ members \subseteq Strings
        /\ \A m \in members : ScoreText[m] \in Strings
    BY <1>1, FacadeAssumption DEF FacadeAssumption
  <1>3. q \in Seq(members) /\ \A m \in members : \E n \in 1..Len(q) : q[n] = m
    BY MembersInOrder
  <1> HIDE DEF members
  <1>4. CASE ~call.withScores
    <2>1. Listing(call, q) = q /\ \A k \in Nat : MemberAt(call, k)
      BY <1>4 DEF Listing, MemberAt
    <2>2. q \in Seq(Strings) /\ \A k \in 1..Len(q) : k \in Nat /\ q[k] \in members
      BY <1>2, <1>3
    <2> QED
      BY <1>3, <2>1, <2>2 DEF Lists, members
  <1>5. CASE call.withScores
    <2> DEFINE t == [n \in 1..(2 * Len(q)) |->
                        IF n % 2 = 1 THEN q[(n + 1) \div 2] ELSE ScoreText[q[n \div 2]]]
    <2>1. Listing(call, q) = t /\ \A k \in Nat : MemberAt(call, k) <=> k % 2 = 1
      BY <1>5 DEF Listing, MemberAt
    <2>2. Len(q) \in Nat /\ 2 * Len(q) \in Nat
      BY <1>3
    <2>3. \A n \in 1..Len(q) : q[n] \in members
      BY <1>3
    <2>4. \A k \in 1..(2 * Len(q)) :
             /\ k % 2 = 1 => (k + 1) \div 2 \in 1..Len(q)
             /\ k % 2 # 1 => /\ k \div 2 \in 1..Len(q) /\ k - 1 \in 1..(2 * Len(q))
                             /\ (k - 1) % 2 = 1 /\ ((k - 1) + 1) \div 2 = k \div 2
      BY <2>2
    <2>5. \A n \in 1..Len(q) :
             /\ 2 * n - 1 \in 1..(2 * Len(q))
             /\ (2 * n - 1) % 2 = 1 /\ ((2 * n - 1) + 1) \div 2 = n
      BY <2>2
    <2>6. \A k \in 1..(2 * Len(q)) :
             /\ k % 2 = 1 => t[k] = q[(k + 1) \div 2] /\ t[k] \in members
             /\ k % 2 # 1 => t[k] = ScoreText[q[k \div 2]] /\ t[k] \in Strings
      BY <1>2, <2>3, <2>4
    <2>7. t \in [1..(2 * Len(q)) -> Strings]
      BY <1>2, <2>6
    <2>8. \A k \in 1..(2 * Len(q)) : k % 2 # 1 => t[k] = ScoreText[t[k - 1]]
      BY <2>4, <2>6
    <2>9. \A m \in members : \E k \in 1..(2 * Len(q)) : k % 2 = 1 /\ t[k] = m
      <3> SUFFICES ASSUME NEW m \in members
                   PROVE  \E k \in 1..(2 * Len(q)) : k % 2 = 1 /\ t[k] = m
        OBVIOUS
      <3>1. PICK n \in 1..Len(q) : q[n] = m
        BY <1>3
      <3>2. t[2 * n - 1] = q[n]
        BY <2>5, <2>6
      <3> QED
        BY <2>5, <3>1, <3>2
    <2> HIDE DEF t
    <2>10. t \in Seq(Strings) /\ Len(t) = 2 * Len(q)
      BY <2>2, <2>7, SequenceOf
    <2>11. \A k \in 1..Len(t) : k \in Nat
      BY <2>10
    <2>12. Lists(call, t)
      BY <2>1, <2>6, <2>8, <2>9, <2>10, <2>11 DEF Lists, members
    <2> QED
      BY <2>1, <2>12
  <1> QED
    BY <1>4, <1>5

(* The array that answers ZRANGEBYSCORE. *)
LEMMA RangeReply ==
    ASSUME NEW call, call.withScores \in BOOLEAN, NEW q \in ByScore(InRange(call)),
           NEW r, r = StrArr(Listing(call, q))
    PROVE  /\ r \in RawReplies /\ r.type = "ARRAY"
           /\ \A n \in 1..Len(r.element) : r.element[n].type = "STRING"
  <1> DEFINE t == Listing(call, q)
  <1>1. t \in Seq(Strings)
    BY ListingIs DEF Lists
  <1> HIDE DEF t
  <1>2. r = StrArr(t)
    BY DEF t
  <1> QED
    BY <1>1, <1>2, StringsReply

Answering(call) == Answers(call) \cup {e \in ServerReplies : e.type = "ERROR"}

LEMMA AnswerIsReply ==
    ASSUME NEW call \in Calls, NEW r \in Answering(call)
    PROVE  r \in RawReplies
  <1> USE RepliesAssumption, FacadeAssumption DEF RepliesAssumption, FacadeAssumption
  <1>1. CASE r \in ServerReplies
    BY <1>1
  <1>2. CASE call.method = "set" /\ r \in Answers(call)
    <2>1. r = OK \/ r = Raw("NIL")
      BY <1>2 DEF Answers
    <2>2. OK \in FlatRaw /\ Raw("NIL") \in FlatRaw
      BY DEF OK, Raw, FlatRaw
    <2> QED
      BY <2>1, <2>2, FlatIsReply
  <1>3. CASE call.method = "zrangebyscore" /\ r \in Answers(call)
    <2>1. \E q \in ByScore(InRange(call)) : r = StrArr(Listing(call, q))
      BY <1>3 DEF Answers
    <2>2. call.withScores \in BOOLEAN
      BY <1>3, CallShape DEF PlainCall, ASetCall, ARangeCall
    <2> QED
      BY <2>1, <2>2, RangeReply
  <1>4. CASE call.method \notin {"set", "zrangebyscore"} /\ r \in Answers(call)
    BY <1>4 DEF Answers
  <1> QED
    BY <1>1, <1>2, <1>3, <1>4 DEF Answering

(* What the server answers, and does to the string it has. *)
Answer(call, r) ==
    [reply |-> r, before |-> key,
     after |-> IF call.method = "set" /\ r.type = "STATUS" THEN call.field ELSE key]

LEMMA AnswerIsRight ==
    ASSUME NEW call \in Calls, NEW r \in Answering(call)
    PROVE  RightAnswer(call, Answer(call, r))
  <1> DEFINE a == Answer(call, r)
  <1>1. a.reply = r /\ a.before = key
        /\ a.after = IF call.method = "set" /\ r.type = "STATUS" THEN call.field ELSE key
    BY DEF Answer
  <1> HIDE DEF a
  <1>2. CASE r.type = "ERROR"
    <2>1. call.method = "set" => SetInv(call, a)
      BY <1>1, <1>2 DEF SetInv
    <2> QED
      BY <1>1, <1>2, <2>1 DEF RightAnswer, a
  <1>3. CASE r \in Answers(call) /\ ASetCall(call)
    <2>1. r = IF Sets(call) THEN OK ELSE Raw("NIL")
      BY <1>3 DEF Answers, ASetCall
    <2>2. /\ OK.type = "STATUS" /\ OK.str = "OK" /\ Raw("NIL").type = "NIL"
      BY DEF OK, Raw
    <2>3. /\ call.word = Blank => Sets(call)
          /\ call.word = "NX" => (Sets(call) <=> key = Absent)
          /\ call.word = "XX" => (Sets(call) <=> key # Absent)
      BY BlankIsNoWord DEF Sets
    <2>4. call.word \in {Blank, "NX", "XX"}
      BY <1>3 DEF ASetCall, WordOf
    <2>5. SetInv(call, a)
      <3>1. CASE Sets(call)
        BY <1>1, <1>3, <2>1, <2>2, <2>3, <2>4, <3>1 DEF SetInv, ASetCall
      <3>2. CASE ~Sets(call)
        BY <1>1, <1>3, <2>1, <2>2, <2>3, <2>4, <3>2 DEF SetInv, ASetCall
      <3> QED
        BY <3>1, <3>2
    <2>6. r.type = "NIL" \/ Fits("is_ok", r)
      BY <2>1, <2>2 DEF Fits
    <2> QED
      BY <1>1, <1>3, <2>5, <2>6 DEF RightAnswer, ASetCall, a
  <1>4. CASE r \in Answers(call) /\ ARangeCall(call)
    <2>1. PICK q \in ByScore(InRange(call)) : r = StrArr(Listing(call, q))
      BY <1>4 DEF Answers, ARangeCall
    <2>2. call.withScores \in BOOLEAN
      BY <1>4 DEF ARangeCall
    <2>3. r.type = "ARRAY" /\ \A n \in 1..Len(r.element) : r.element[n].type = "STRING"
      BY <2>1, <2>2, RangeReply
    <2>4. Fits("opt_string_list", r)
      BY <2>3 DEF Fits
    <2> QED
      BY <1>1, <1>4, <2>1, <2>4 DEF RightAnswer, ARangeCall, a
  <1>5. CASE r \in Answers(call) /\ PlainCall(call)
    <2>1. Fits(call.returns, r)
      BY <1>5 DEF Answers, PlainCall
    <2> QED
      BY <1>1, <1>5, <2>1 DEF RightAnswer, PlainCall, a
  <1> QED
    BY <1>2, <1>3, <1>4, <1>5, CallShape DEF Answering

-----------------------------------------------------------------------------
(* The steps.                                                              *)

LEMMA InitInv == Init => IndInv
  <1> SUFFICES ASSUME Init PROVE IndInv
    OBVIOUS
  <1>1. request = <<>> /\ answers = <<>> /\ stored = <<>>
    BY DEF Init
  <1>2. Len(<<>>) = 0 /\ DOMAIN <<>> = {}
    OBVIOUS
  <1>3. TypeOK
    BY DEF Init, TypeOK, KeyValues
  <1>4. AnswerInv
    BY <1>1, <1>2 DEF AnswerInv, Answered
  <1>5. StoredInv
    BY <1>1, <1>2 DEF StoredInv, Init
  <1>6. OutcomeInv /\ CrashInv
    BY DEF Init, OutcomeInv, CrashInv
  <1>7. ControlInv
    BY <1>1, <1>2 DEF Init, ControlInv
  <1> QED
    BY <1>3, <1>4, <1>5, <1>6, <1>7 DEF IndInv

LEMMA NewBatchInv ==
    ASSUME IndInv, NEW calls \in Seq(Calls), NewBatch(calls),
           \/ path' = "run" /\ pc' \in {"fill", "wait"}
           \/ /\ path' = "unchecked" /\ pc' = "wait"
              /\ \A n \in DOMAIN calls : calls[n] \in UncheckedCalls
    PROVE  IndInv'
  <1>1. /\ request' = calls /\ answers' = <<>> /\ stored' = <<>> /\ outcome' = NoOutcome
        /\ link = "up" /\ link' = link /\ ndebug' = ndebug /\ key' = key
    BY DEF NewBatch
  <1>2. Len(<<>>) = 0 /\ DOMAIN <<>> = {} /\ Len(calls) \in Nat
    OBVIOUS
  <1>3. TypeOK'
    <2>1. <<>> \in Seq([reply : RawReplies, before : KeyValues, after : KeyValues])
      OBVIOUS
    <2>2. <<>> \in Seq(Replies)
      OBVIOUS
    <2> QED
      BY <1>1, <2>1, <2>2 DEF TypeOK, IndInv
  <1>4. AnswerInv'
    BY <1>1, <1>2 DEF AnswerInv, Answered
  <1>5. StoredInv'
    BY <1>1, <1>2 DEF StoredInv
  <1>6. OutcomeInv' /\ CrashInv'
    BY <1>1 DEF OutcomeInv, CrashInv
  <1>7. ControlInv'
    BY <1>1, <1>2 DEF ControlInv
  <1> QED
    BY <1>3, <1>4, <1>5, <1>6, <1>7 DEF IndInv

LEMMA InBatchInv ==
    ASSUME IndInv, NEW call \in InBatchCalls, CallInBatch(call)
    PROVE  IndInv'
  <1>1. /\ request' = Append(request, call) /\ pc = "fill" /\ pc' = pc /\ link = "up"
        /\ UNCHANGED <<ndebug, link, path, answers, stored, key, outcome>>
    BY DEF CallInBatch
  <1>2. call \in Calls
    BY DEF Calls
  <1>3. /\ request \in Seq(Calls) /\ request' \in Seq(Calls)
        /\ Len(request') = Len(request) + 1
        /\ \A n \in 1..Len(request) : request'[n] = request[n]
    BY <1>1, <1>2 DEF IndInv, TypeOK
  <1>4. TypeOK'
    BY <1>1, <1>3 DEF IndInv, TypeOK
  <1>5. AnswerInv'
    <2>1. Len(answers) <= Len(request) /\ Len(answers) \in Nat /\ DOMAIN answers = 1..Len(answers)
      BY DEF IndInv, TypeOK, AnswerInv
    <2>2. \A n \in Answered : RightAnswer(request[n], answers[n])
      BY DEF IndInv, AnswerInv
    <2>3. \A n \in Answered : RightAnswer(request'[n], answers'[n])
      BY <1>1, <1>3, <2>1, <2>2 DEF Answered
    <2>4. Len(answers') <= Len(request')
      BY <1>1, <1>3, <2>1
    <2> QED
      BY <1>1, <2>3, <2>4 DEF AnswerInv, Answered
  <1>6. StoredInv'
    BY <1>1, <1>3 DEF IndInv, TypeOK, StoredInv, Answered
  <1>7. OutcomeInv' /\ CrashInv'
    BY <1>1 DEF IndInv, OutcomeInv, CrashInv
  <1>8. ControlInv'
    BY <1>1 DEF IndInv, ControlInv
  <1> QED
    BY <1>4, <1>5, <1>6, <1>7, <1>8 DEF IndInv

LEMMA ThrowIfFailedInv ==
    ASSUME IndInv, CallThrowIfFailed
    PROVE  IndInv'
  <1>1. /\ pc = "fill" /\ pc' = "wait"
        /\ UNCHANGED <<ndebug, link, path, request, answers, stored, key, outcome>>
    BY DEF CallThrowIfFailed
  <1>2. TypeOK'
    BY <1>1 DEF IndInv, TypeOK
  <1>3. AnswerInv'
    BY <1>1 DEF IndInv, AnswerInv, Answered
  <1>4. StoredInv'
    BY <1>1 DEF IndInv, StoredInv, Answered
  <1>5. OutcomeInv' /\ CrashInv'
    BY <1>1 DEF IndInv, OutcomeInv, CrashInv
  <1>6. ControlInv'
    BY <1>1 DEF IndInv, ControlInv
  <1> QED
    BY <1>2, <1>3, <1>4, <1>5, <1>6 DEF IndInv

LEMMA ServerAnswersInv ==
    ASSUME IndInv, ServerAnswers
    PROVE  IndInv'
  <1> DEFINE m == Len(answers) + 1
             call == request[m]
  <1>1. /\ pc \in {"fill", "wait"} /\ link = "up" /\ Len(answers) < Len(request)
        /\ UNCHANGED <<ndebug, link, pc, path, request, outcome>>
    BY DEF ServerAnswers
  <1>2. PICK r \in Answering(call) :
           /\ key' = IF call.method = "set" /\ r.type = "STATUS" THEN call.field ELSE key
           /\ answers' = Append(answers, [reply |-> r, before |-> key, after |-> key'])
           /\ stored' = Append(stored, make_redis_reply_type[r])
    BY DEF ServerAnswers, Answering
  <1>3. /\ request \in Seq(Calls) /\ stored \in Seq(Replies)
        /\ answers \in Seq([reply : RawReplies, before : KeyValues, after : KeyValues])
        /\ key \in KeyValues /\ Len(stored) = Len(answers)
    BY <1>1 DEF IndInv, TypeOK, StoredInv
  <1>4. m \in 1..Len(request) /\ call \in Calls
    BY <1>1, <1>3
  <1> HIDE DEF m, call
  <1>5. r \in RawReplies
    BY <1>4, AnswerIsReply
  <1>6. [reply |-> r, before |-> key, after |-> key'] = Answer(call, r)
    BY <1>2 DEF Answer
  <1>7. answers' = Append(answers, Answer(call, r))
    BY <1>2, <1>6
  <1>8. make_redis_reply_type[r] \in Replies
    BY <1>5, MadeOf
  <1>9. Answer(call, r) \in [reply : RawReplies, before : KeyValues, after : KeyValues]
    <2>1. call.method = "set" => call.field \in Fields
      BY <1>4, CallShape DEF PlainCall, ASetCall, ARangeCall
    <2> QED
      BY <1>3, <1>5, <2>1 DEF Answer, KeyValues
  <1>10. /\ answers' \in Seq([reply : RawReplies, before : KeyValues, after : KeyValues])
         /\ Len(answers') = m /\ answers'[m] = Answer(call, r)
         /\ \A n \in 1..Len(answers) : answers'[n] = answers[n]
    BY <1>3, <1>7, <1>9 DEF m
  <1>11. /\ stored' \in Seq(Replies) /\ Len(stored') = m
         /\ stored'[m] = make_redis_reply_type[r]
         /\ \A n \in 1..Len(answers) : stored'[n] = stored[n]
    BY <1>2, <1>3, <1>8 DEF m
  <1>12. /\ Len(answers) \in Nat /\ m = Len(answers) + 1
         /\ DOMAIN answers = 1..Len(answers) /\ DOMAIN answers' = 1..m
         /\ DOMAIN stored' = 1..m
         /\ \A n \in 1..m : n \in 1..Len(answers) \/ n = m
    BY <1>3, <1>10, <1>11 DEF m
  <1>13. key' \in KeyValues
    BY <1>2, <1>3, <1>6, <1>9 DEF Answer
  <1>14. TypeOK'
    BY <1>1, <1>10, <1>11, <1>13 DEF IndInv, TypeOK
  <1>15. AnswerInv'
    <2>1. RightAnswer(call, Answer(call, r))
      BY <1>4, AnswerIsRight
    <2>2. \A n \in 1..Len(answers) : RightAnswer(request[n], answers[n])
      BY <1>12 DEF IndInv, AnswerInv, Answered
    <2>3. \A n \in 1..m : RightAnswer(request[n], answers'[n])
      BY <1>10, <1>12, <2>1, <2>2 DEF call
    <2>4. Len(answers') <= Len(request')
      BY <1>1, <1>4, <1>10
    <2> QED
      BY <1>1, <1>12, <2>3, <2>4 DEF AnswerInv, Answered
  <1>16. StoredInv'
    <2>1. \A n \in 1..Len(answers) : stored[n] = make_redis_reply_type[answers[n].reply]
      BY <1>3, <1>12 DEF IndInv, StoredInv, Answered
    <2>2. Answer(call, r).reply = r
      BY DEF Answer
    <2>3. \A n \in 1..m : stored'[n] = make_redis_reply_type[answers'[n].reply]
      BY <1>10, <1>11, <1>12, <2>1, <2>2
    <2>4. Len(answers') = Len(stored') /\ Len(stored') <= Len(request') /\ Len(answers') \in Nat
      BY <1>1, <1>4, <1>10, <1>11, <1>12
    <2> QED
      BY <1>1, <1>12, <2>3, <2>4 DEF StoredInv, Answered
  <1>17. OutcomeInv' /\ CrashInv'
    BY <1>1 DEF IndInv, OutcomeInv, CrashInv
  <1>18. ControlInv'
    BY <1>1, <1>10, <1>11, <1>12 DEF IndInv, ControlInv
  <1> QED
    BY <1>14, <1>15, <1>16, <1>17, <1>18 DEF IndInv

(* The nodes of a batch whose answers never come. *)
LEMMA Extended ==
    ASSUME NEW s \in Seq(Replies), NEW k \in Nat
    PROVE  LET t == s \o [n \in 1..k |-> Reply] IN
           /\ t \in Seq(Replies) /\ Len(t) = Len(s) + k
           /\ \A n \in 1..(Len(s) + k) : t[n] = IF n <= Len(s) THEN s[n] ELSE Reply
           /\ k = 0 => t = s
  <1>1. Reply \in Replies
    <2>1. Reply \in FlatReplies
      BY RepliesAssumption DEF RepliesAssumption, Reply, FlatReplies
    <2>2. FlatReplies \subseteq Replies
      <3> USE RepliesAssumption DEF RepliesAssumption
      <3>1. CASE MaxNesting = 0
        BY <3>1, RepliesLevels DEF Replies
      <3>2. CASE MaxNesting # 0
        BY <3>2, RepliesLevels, MaxNesting \in 1..MaxNesting DEF Replies
      <3> QED
        BY <3>1, <3>2
    <2> QED
      BY <2>1, <2>2
  <1> DEFINE e == [n \in 1..k |-> Reply]
  <1>2. e \in Seq(Replies) /\ Len(e) = k /\ \A n \in 1..k : e[n] = Reply
    <2>1. e \in [1..k -> Replies] /\ \A n \in 1..k : e[n] = Reply
      BY <1>1
    <2> HIDE DEF e
    <2> QED
      BY <2>1, SequenceOf
  <1> HIDE DEF e
  <1>3. /\ s \o e \in Seq(Replies) /\ Len(s \o e) = Len(s) + k
        /\ \A n \in 1..(Len(s) + k) : (s \o e)[n] = IF n <= Len(s) THEN s[n] ELSE e[n - Len(s)]
    BY <1>2
  <1>4. \A n \in 1..(Len(s) + k) : ~(n <= Len(s)) => n - Len(s) \in 1..k
    OBVIOUS
  <1>5. k = 0 => s \o e = s
    BY <1>3
  <1> QED
    BY <1>2, <1>3, <1>4, <1>5 DEF e

LEMMA ConnectionLostInv ==
    ASSUME IndInv, ConnectionLost
    PROVE  IndInv'
  <1> DEFINE k == Len(request) - Len(stored)
  <1>1. /\ link = "up" /\ link' = "lost" /\ pc # "crashed"
        /\ pc' = IF Len(stored) < Len(request) /\ ~ndebug THEN "crashed" ELSE pc
        /\ stored' = stored \o [n \in 1..k |-> Reply]
        /\ UNCHANGED <<ndebug, path, request, answers, key, outcome>>
    BY DEF ConnectionLost
  <1>2. /\ request \in Seq(Calls) /\ stored \in Seq(Replies)
        /\ Len(stored) = Len(answers) /\ Len(stored) <= Len(request)
        /\ Len(answers) \in Nat /\ DOMAIN answers = 1..Len(answers)
    BY <1>1 DEF IndInv, TypeOK, StoredInv
  <1>3. k \in Nat /\ Len(stored) + k = Len(request)
    BY <1>2
  <1> HIDE DEF k
  <1>4. /\ stored' \in Seq(Replies) /\ Len(stored') = Len(request)
        /\ \A n \in 1..Len(request) :
              stored'[n] = IF n <= Len(stored) THEN stored[n] ELSE Reply
        /\ k = 0 => stored' = stored
    BY <1>1, <1>2, <1>3, Extended
  <1>5. TypeOK'
    BY <1>1, <1>4 DEF IndInv, TypeOK
  <1>6. AnswerInv'
    BY <1>1 DEF IndInv, AnswerInv, Answered
  <1>7. StoredInv'
    <2>1. \A n \in 1..Len(stored) : stored[n] = make_redis_reply_type[answers[n].reply]
      BY <1>2 DEF IndInv, StoredInv, Answered
    <2>2. DOMAIN stored' = 1..Len(request)
      BY <1>4
    <2>3. \A n \in DOMAIN stored' :
             stored'[n] = IF n \in DOMAIN answers THEN make_redis_reply_type[answers[n].reply]
                          ELSE Reply
      <3> SUFFICES ASSUME NEW n \in DOMAIN stored'
                   PROVE  stored'[n] = IF n \in DOMAIN answers
                                       THEN make_redis_reply_type[answers[n].reply] ELSE Reply
        OBVIOUS
      <3>1. n \in 1..Len(request)
        BY <2>2
      <3>2. CASE n <= Len(stored)
        <4>1. n \in 1..Len(stored) /\ n \in DOMAIN answers
          BY <1>2, <3>1, <3>2
        <4>2. stored'[n] = stored[n]
          BY <1>4, <3>1, <3>2
        <4> QED
          BY <2>1, <4>1, <4>2
      <3>3. CASE ~(n <= Len(stored))
        <4>1. n \notin DOMAIN answers
          BY <1>2, <3>1, <3>3
        <4>2. stored'[n] = Reply
          BY <1>4, <3>1, <3>3
        <4> QED
          BY <4>1, <4>2
      <3> QED
        BY <3>2, <3>3
    <2>4. Len(answers) <= Len(request) /\ Len(request) \in Nat
      BY <1>2
    <2>5. link' = "lost" /\ answers' = answers /\ request' = request
      BY <1>1
    <2>6. Len(stored') = Len(request)
      BY <1>4
    <2>7. \A n \in DOMAIN stored' :
             stored'[n] = IF n \in Answered' THEN make_redis_reply_type[answers'[n].reply]
                          ELSE Reply
      BY <2>3, <2>5 DEF Answered
    <2>8. Len(answers') <= Len(stored') /\ Len(stored') <= Len(request')
      BY <2>4, <2>5, <2>6
    <2> QED
      BY <2>5, <2>6, <2>7, <2>8 DEF StoredInv
  <1>8. OutcomeInv'
    <2>1. CASE outcome = NoOutcome
      BY <1>1, <2>1 DEF OutcomeInv
    <2>2. CASE outcome # NoOutcome
      <3>1. pc = "idle" /\ Len(stored) = Len(request)
        BY <2>2 DEF IndInv, OutcomeInv, StoredInv
      <3>2. k = 0
        BY <1>2, <1>3, <3>1
      <3>3. stored' = stored /\ pc' = pc
        BY <1>1, <1>2, <1>4, <3>1, <3>2
      <3> QED
        BY <1>1, <3>3 DEF IndInv, OutcomeInv, Searched, Decoding
    <2> QED
      BY <2>1, <2>2
  <1>9. CrashInv'
    BY <1>1, <1>2 DEF CrashInv
  <1>10. ControlInv'
    <2>1. Len(answers') < Len(stored') => Len(stored) < Len(request)
      BY <1>1, <1>2, <1>4
    <2>2. pc' = "fill" => pc = "fill"
      BY <1>1
    <2> QED
      BY <1>1, <2>1, <2>2 DEF IndInv, ControlInv
  <1> QED
    BY <1>5, <1>6, <1>7, <1>8, <1>9, <1>10 DEF IndInv

(* A step that ends a call, or the program, leaves the batch alone. *)
LEMMA EndsInv ==
    ASSUME IndInv, pc = "wait", Len(stored) = Len(request), pc' \in {"idle", "crashed"},
           UNCHANGED <<ndebug, link, path, request, answers, stored, key>>
    PROVE  TypeOK' /\ AnswerInv' /\ StoredInv' /\ ControlInv'
  <1>1. TypeOK'
    BY DEF IndInv, TypeOK
  <1>2. AnswerInv'
    BY DEF IndInv, AnswerInv, Answered
  <1>3. StoredInv'
    BY DEF IndInv, StoredInv, Answered
  <1>4. ControlInv'
    BY DEF IndInv, ControlInv
  <1> QED
    BY <1>1, <1>2, <1>3, <1>4

LEMMA CallThrowsInv ==
    ASSUME IndInv, CallThrows
    PROVE  IndInv'
  <1>1. /\ pc = "wait" /\ Len(stored) = Len(request) /\ path = "run"
        /\ throw_if_failed(stored).errors > 0
        /\ outcome' = [how |-> "runtime_error", found |-> throw_if_failed(stored)]
        /\ pc' = "idle"
        /\ UNCHANGED <<ndebug, link, path, request, answers, stored, key>>
    BY DEF CallThrows, AllStored, Return
  <1>2. TypeOK' /\ AnswerInv' /\ StoredInv' /\ ControlInv'
    BY <1>1, EndsInv
  <1>3. OutcomeInv'
    BY <1>1 DEF OutcomeInv
  <1>4. CrashInv'
    BY <1>1 DEF CrashInv
  <1> QED
    BY <1>2, <1>3, <1>4 DEF IndInv

LEMMA CallReturnsInv ==
    ASSUME IndInv, CallReturns
    PROVE  IndInv'
  <1>1. /\ pc = "wait" /\ Len(stored) = Len(request)
        /\ path = "run" => throw_if_failed(stored).errors = 0
        /\ \A n \in DOMAIN stored : Decoding(n).ok
        /\ outcome' = [how |-> "value", values |-> [n \in DOMAIN stored |-> Decoding(n).value]]
        /\ pc' = "idle"
        /\ UNCHANGED <<ndebug, link, path, request, answers, stored, key>>
    BY DEF CallReturns, Passed, AllStored, Return, Decoding
  <1>2. TypeOK' /\ AnswerInv' /\ StoredInv' /\ ControlInv'
    BY <1>1, EndsInv
  <1>3. OutcomeInv'
    BY <1>1 DEF OutcomeInv, Searched, Decoding
  <1>4. CrashInv'
    BY <1>1 DEF CrashInv
  <1> QED
    BY <1>2, <1>3, <1>4 DEF IndInv

LEMMA DecoderFailsInv ==
    ASSUME IndInv, DecoderFails
    PROVE  IndInv'
  <1>1. /\ pc = "wait" /\ Len(stored) = Len(request)
        /\ path = "run" => throw_if_failed(stored).errors = 0
        /\ \E n \in DOMAIN stored : ~Decoding(n).ok
        /\ UNCHANGED <<ndebug, link, path, request, answers, stored, key>>
        /\ \/ outcome' = [how |-> "bad_get"] /\ pc' = "idle"
           \/ outcome' = outcome /\ pc' = "crashed"
    BY DEF DecoderFails, Passed, AllStored, Return, Decoding
  <1>2. TypeOK' /\ AnswerInv' /\ StoredInv' /\ ControlInv'
    BY <1>1, EndsInv
  <1>3. OutcomeInv'
    BY <1>1 DEF IndInv, OutcomeInv, Searched, Decoding
  <1>4. CrashInv'
    BY <1>1 DEF CrashInv, Searched, Decoding
  <1> QED
    BY <1>2, <1>3, <1>4 DEF IndInv

(* What a call ends with is made of the answers to its own commands, and   *)
(* of nothing else: the inductive invariant.                               *)
THEOREM Invariance == Spec => []IndInv
  <1>1. Init => IndInv
    BY InitInv
  <1>2. IndInv /\ [Next]_vars => IndInv'
    <2> SUFFICES ASSUME IndInv, [Next]_vars PROVE IndInv'
      OBVIOUS
    <2>1. ASSUME NEW call \in RunCalls, CallRun(call) PROVE IndInv'
      <3>1. <<call>> \in Seq(Calls)
        BY DEF Calls
      <3> QED
        BY <2>1, <3>1, NewBatchInv DEF CallRun
    <2>2. ASSUME NEW call \in UncheckedCalls, CallUnchecked(call) PROVE IndInv'
      <3>1. <<call>> \in Seq(Calls)
        BY DEF Calls
      <3>2. \A n \in DOMAIN <<call>> : <<call>>[n] \in UncheckedCalls
        OBVIOUS
      <3> QED
        BY <2>2, <3>1, <3>2, NewBatchInv DEF CallUnchecked
    <2>3. CASE CallMakeBatch
      <3>1. <<>> \in Seq(Calls)
        OBVIOUS
      <3> QED
        BY <2>3, <3>1, NewBatchInv DEF CallMakeBatch
    <2>4. CASE UserCall
      BY <2>1, <2>2, <2>3, <2>4, InBatchInv, ThrowIfFailedInv DEF UserCall
    <2>5. CASE CallEnds
      BY <2>5, CallThrowsInv, CallReturnsInv, DecoderFailsInv DEF CallEnds
    <2>6. CASE UNCHANGED vars
      <3>1. UNCHANGED <<ndebug, link, pc, path, request, answers, stored, key, outcome>>
        BY <2>6 DEF vars
      <3>2. TypeOK'
        BY <3>1 DEF IndInv, TypeOK
      <3>3. AnswerInv'
        BY <3>1 DEF IndInv, AnswerInv, Answered
      <3>4. StoredInv'
        BY <3>1 DEF IndInv, StoredInv, Answered
      <3>5. OutcomeInv'
        BY <3>1 DEF IndInv, OutcomeInv, Searched, Decoding
      <3>6. CrashInv'
        BY <3>1 DEF IndInv, CrashInv, Searched, Decoding
      <3>7. ControlInv'
        BY <3>1 DEF IndInv, ControlInv
      <3> QED
        BY <3>2, <3>3, <3>4, <3>5, <3>6, <3>7 DEF IndInv
    <2> QED
      BY <2>4, <2>5, <2>6, ServerAnswersInv, ConnectionLostInv DEF Next, Ended
  <1> QED
    BY <1>1, <1>2, PTL DEF Spec

-----------------------------------------------------------------------------
(* What follows from the invariant.                                        *)

LEMMA Shape ==
    ASSUME IndInv
    PROVE  /\ Len(answers) \in Nat /\ Len(stored) \in Nat /\ Len(request) \in Nat
           /\ Answered = 1..Len(answers) /\ DOMAIN stored = 1..Len(stored)
           /\ DOMAIN request = 1..Len(request)
           /\ Len(answers) <= Len(stored) /\ Len(stored) <= Len(request)
           /\ \A n \in 1..Len(request) : request[n] \in Calls
           /\ \A n \in Answered :
                 /\ answers[n].reply \in RawReplies
                 /\ RightAnswer(request[n], answers[n])
                 /\ stored[n] = make_redis_reply_type[answers[n].reply]
           /\ \A n \in DOMAIN stored : n \notin Answered => stored[n] = Reply
  <1>1. /\ request \in Seq(Calls) /\ stored \in Seq(Replies)
        /\ answers \in Seq([reply : RawReplies, before : KeyValues, after : KeyValues])
    BY DEF IndInv, TypeOK
  <1>2. /\ Len(answers) <= Len(stored) /\ Len(stored) <= Len(request)
        /\ \A n \in Answered : RightAnswer(request[n], answers[n])
        /\ \A n \in DOMAIN stored :
              stored[n] = IF n \in Answered THEN make_redis_reply_type[answers[n].reply]
                          ELSE Reply
    BY DEF IndInv, AnswerInv, StoredInv
  <1>3. /\ Len(answers) \in Nat /\ Len(stored) \in Nat /\ Len(request) \in Nat
        /\ Answered = 1..Len(answers) /\ DOMAIN stored = 1..Len(stored)
        /\ DOMAIN request = 1..Len(request)
    BY <1>1 DEF Answered
  <1>4. /\ \A n \in 1..Len(request) : request[n] \in Calls
        /\ \A n \in Answered : answers[n].reply \in RawReplies
    <2>1. \A n \in 1..Len(answers) :
             answers[n] \in [reply : RawReplies, before : KeyValues, after : KeyValues]
      <3> DEFINE T == [reply : RawReplies, before : KeyValues, after : KeyValues]
      <3>1. answers \in Seq(T)
        BY <1>1
      <3> HIDE DEF T
      <3>2. \A n \in 1..Len(answers) : answers[n] \in T
        BY <3>1
      <3> QED
        BY <3>2 DEF T
    <2>2. \A n \in 1..Len(answers) : answers[n].reply \in RawReplies
      BY <2>1
    <2>3. \A n \in 1..Len(request) : request[n] \in Calls
      BY <1>1
    <2> QED
      BY <1>3, <2>2, <2>3
  <1>5. \A n \in Answered : n \in DOMAIN stored
    BY <1>2, <1>3
  <1> QED
    BY <1>2, <1>3, <1>4, <1>5

LEMMA ReturnedIs ==
    ASSUME IndInv, Returned
    PROVE  /\ Searched /\ DOMAIN stored = DOMAIN request
           /\ \A n \in DOMAIN stored :
                 Decoding(n).ok /\ outcome.values[n] = Decoding(n).value
  <1>1. outcome = [how |-> "value", values |-> [n \in DOMAIN stored |-> Decoding(n).value]]
           /\ Searched /\ \A n \in DOMAIN stored : Decoding(n).ok
    BY DEF IndInv, OutcomeInv, Returned, NoOutcome
  <1>2. DOMAIN stored = DOMAIN request
    BY <1>1, Shape DEF Searched
  <1> QED
    BY <1>1, <1>2

(* The search for errors finds those the server sent. *)
LEMMA AllAreFound ==
    ASSUME IndInv
    PROVE  /\ AllErrors \in Seq(Strings)
           /\ throw_if_failed(stored) =
                 [errors |-> Len(AllErrors), shown |-> First(AllErrors, max_reported_errors)]
           /\ \A n \in Answered : ErrorsIn(Errors, answers[n].reply) # <<>> => AllErrors # <<>>
  <1> DEFINE q == [n \in 1..Len(answers) |-> answers[n].reply]
  <1>1. q \in Seq(RawReplies) /\ Len(q) = Len(answers)
    <2>1. q \in [1..Len(answers) -> RawReplies]
      BY Shape
    <2> HIDE DEF q
    <2> QED
      BY <2>1, Shape, SequenceOf
  <1>2. \A n \in 1..Len(answers) : q[n] = answers[n].reply
    OBVIOUS
  <1>3. AllErrors = Errors[q]
    BY DEF AllErrors
  <1> HIDE DEF q
  <1>4. stored \in Seq(Replies)
    BY DEF IndInv, TypeOK
  <1>5. Holds(stored, q)
    <2>1. \A n \in 1..Len(stored) :
             stored[n] = IF n <= Len(answers) THEN make_redis_reply_type[answers[n].reply]
                         ELSE Reply
      BY Shape
    <2>2. Len(q) <= Len(stored)
      BY <1>1, Shape
    <2>3. \A n \in 1..Len(stored) : n <= Len(answers) => q[n] = answers[n].reply
      BY <1>2, Shape
    <2> QED
      BY <1>1, <2>1, <2>2, <2>3 DEF Holds
  <1>6. AllErrors \in Seq(Strings)
    BY <1>1, <1>3, ErrorsDef
  <1>7. throw_if_failed(stored) =
           [errors |-> Len(AllErrors), shown |-> First(AllErrors, max_reported_errors)]
    BY <1>1, <1>3, <1>4, <1>5, ThrowReportsAll
  <1>8. ASSUME NEW n \in Answered, ErrorsIn(Errors, answers[n].reply) # <<>>
        PROVE  AllErrors # <<>>
    <2>1. n \in 1..Len(q) /\ q[n] = answers[n].reply
      BY <1>1, <1>2, <1>8, Shape
    <2> QED
      BY <1>1, <1>3, <1>8, <2>1, ErrorIsFound
  <1> QED
    BY <1>6, <1>7, <1>8

LEMMA NoErrorIsEmpty ==
    ASSUME NEW e \in Seq(Strings)
    PROVE  Len(e) = 0 <=> e = <<>>
  OBVIOUS

(* FailuresExplained, which the rest needs too: an answered command whose  *)
(* reply is no error is decoded.                                           *)
LEMMA AnsweredDecodes ==
    ASSUME IndInv, NEW n \in Answered, answers[n].reply.type # "ERROR"
    PROVE  Decoding(n).ok
  <1> DEFINE call == request[n]
             r == answers[n].reply
  <1>1. /\ call \in Calls /\ r \in RawReplies /\ RightAnswer(call, answers[n])
        /\ Decoding(n) = Decoded(call.returns, make_redis_reply_type[r])
    BY Shape DEF Decoding
  <1>2. call.returns \in Kinds /\ (call.method = "set" => call.returns = "is_ok")
    BY <1>1, CallShape DEF PlainCall, ASetCall, ARangeCall, Kinds
  <1>3. Fits(call.returns, r) \/ (call.returns = "is_ok" /\ r.type = "NIL")
    BY <1>1, <1>2 DEF RightAnswer
  <1> HIDE DEF call, r
  <1> QED
    BY <1>1, <1>2, <1>3, Decodes

(* An exception tells how many errors the server sent, however deep, and   *)
(* quotes the first three: throw_if_failed().                              *)
THEOREM ErrorsAreReported == Spec => []ErrorsReported
  <1>1. IndInv => ErrorsReported
    <2> SUFFICES ASSUME IndInv PROVE ErrorsReported
      OBVIOUS
    <2>1. AllErrors \in Seq(Strings) /\ (Len(AllErrors) = 0 <=> AllErrors = <<>>)
      BY AllAreFound, NoErrorIsEmpty
    <2>2. /\ throw_if_failed(stored).errors = Len(AllErrors)
          /\ throw_if_failed(stored).shown = First(AllErrors, 3)
      BY AllAreFound DEF max_reported_errors
    <2>3. First(AllErrors, 3) =
             SubSeq(AllErrors, 1, IF Len(AllErrors) < 3 THEN Len(AllErrors) ELSE 3)
      <3>1. Len(AllErrors) \in Nat
        BY <2>1
      <3>2. Shown(Len(AllErrors), 3) = IF Len(AllErrors) < 3 THEN Len(AllErrors) ELSE 3
        BY <3>1 DEF Shown
      <3> QED
        BY <3>2 DEF First
    <2>4. ASSUME outcome.how = "runtime_error"
          PROVE  /\ outcome.found.errors = Len(AllErrors) /\ AllErrors # <<>>
                 /\ outcome.found.shown = First(AllErrors, 3)
      <3>1. /\ outcome.found = throw_if_failed(stored)
            /\ throw_if_failed(stored).errors > 0
        BY <2>4 DEF IndInv, OutcomeInv, NoOutcome
      <3> QED
        BY <2>1, <2>2, <3>1
    <2>5. ASSUME Returned, path = "run" PROVE AllErrors = <<>>
      BY <2>1, <2>2, <2>5, ReturnedIs DEF Searched
    <2> QED
      BY <2>3, <2>4, <2>5 DEF ErrorsReported
  <1> QED
    BY <1>1, Invariance, PTL

(* A value that is returned is what the server sent in answer to that      *)
(* command: the decoders of Reply.                                         *)
LEMMA DecodedAsSent == IndInv => DecodesAsSent
  <1> SUFFICES ASSUME IndInv, Returned, NEW n \in Answered
               PROVE  Means(request[n].returns, answers[n].reply, outcome.values[n])
    BY DEF DecodesAsSent
  <1> DEFINE call == request[n]
             r == answers[n].reply
  <1>1. n \in DOMAIN stored /\ n \in 1..Len(request)
    BY Shape
  <1>2. /\ call \in Calls /\ r \in RawReplies
        /\ Decoding(n) = Decoded(call.returns, make_redis_reply_type[r])
    BY <1>1, Shape DEF Decoding
  <1>3. Decoding(n).ok /\ outcome.values[n] = Decoding(n).value
    BY <1>1, ReturnedIs
  <1>4. call.returns \in Kinds
    BY <1>2, CallShape DEF PlainCall, ASetCall, ARangeCall, Kinds
  <1>5. call.returns = "Reply" => ErrorsIn(Errors, r) = <<>>
    <2> SUFFICES ASSUME call.returns = "Reply" PROVE ErrorsIn(Errors, r) = <<>>
      OBVIOUS
    <2>1. call \notin UncheckedCalls
      BY SetShape, RangeShape DEF UncheckedCalls, ASetCall, ARangeCall
    <2>2. path = "run"
      <3>1. path # "unchecked"
        BY <1>1, <2>1, Shape DEF IndInv, ControlInv
      <3> QED
        BY <3>1 DEF IndInv, TypeOK
    <2>3. throw_if_failed(stored).errors = 0
      BY <2>2, ReturnedIs DEF Searched
    <2>4. AllErrors = <<>>
      BY <2>3, AllAreFound, NoErrorIsEmpty
    <2> QED
      BY <2>4, AllAreFound
  <1> HIDE DEF call, r
  <1>6. Means(call.returns, r, Decoding(n).value)
    BY <1>2, <1>3, <1>4, <1>5, Decodes
  <1> QED
    BY <1>3, <1>6 DEF call, r

(* A value that is returned is what the server sent in answer to that very *)
(* command, and no error, however deep in an array, passes for a value:    *)
(* the typed methods of IncRedis, and the replies of a batch or a script.  *)
THEOREM ValuesAreSent == Spec => []DecodesAsSent
  BY Invariance, DecodedAsSent, PTL

(* Without the answers of all its commands a call returns only in a build  *)
(* without assertions whose connection was lost, and of such a command     *)
(* what is read of the Reply a node is made with: zero by a method that    *)
(* returns a number, false by expire(), that Reply by a script's caller,   *)
(* and nothing by any other method, for it does not return.                *)
THEOREM LostIsZero == Spec => []LostReadsAsZero
  <1>1. IndInv => LostReadsAsZero
    <2> SUFFICES ASSUME IndInv, Returned, NEW n \in DOMAIN request \ Answered
                 PROVE  LET returns == request[n].returns
                            value == outcome.values[n]
                        IN  /\ ndebug /\ link = "lost"
                            /\ \/ returns = "RedisInt" /\ value = 0
                               \/ returns = "is_one" /\ value = FALSE
                               \/ returns = "Reply" /\ value = Reply
      BY DEF LostReadsAsZero
    <2>0. ndebug /\ link = "lost"
      <3>1. Len(answers) < Len(stored)
        BY ReturnedIs, Shape
      <3>2. pc = "idle" /\ ndebug \in BOOLEAN /\ link \in {"up", "lost"}
        BY DEF IndInv, TypeOK, OutcomeInv, Returned, NoOutcome
      <3> QED
        BY <3>1, <3>2, Shape DEF IndInv, ControlInv, StoredInv
    <2>1. n \in DOMAIN stored /\ request[n] \in Calls
      BY ReturnedIs, Shape
    <2>2. stored[n] = Reply
      BY <2>1, Shape
    <2>3. /\ Decoded(request[n].returns, Reply).ok
          /\ outcome.values[n] = Decoded(request[n].returns, Reply).value
      BY <2>1, <2>2, ReturnedIs DEF Decoding
    <2>4. request[n].returns \in Kinds
      BY <2>1, CallShape DEF PlainCall, ASetCall, ARangeCall, Kinds
    <2>5. /\ ~Decoded("opt_string", Reply).ok
          /\ ~Decoded("opt_string_list", Reply).ok
          /\ ~Decoded("is_ok", Reply).ok
      BY DEF Decoded, optional_string, optional_string_list, get_StatusString,
             get_string, get_array, Fails, Reply
    <2>6. /\ Decoded("RedisInt", Reply).value = 0
          /\ Decoded("is_one", Reply).value = FALSE
          /\ Decoded("Reply", Reply).value = Reply
      <3>1. get_integer(Reply) = Value(0)
        BY DEF get_integer, Reply
      <3>2. Decoded("RedisInt", Reply) = Value(0)
        BY <3>1 DEF Decoded
      <3>3. Decoded("is_one", Reply) = Value(FALSE)
        <4>1. get_integer(Reply).value = 0
          BY <3>1 DEF Value
        <4>2. Decoded("is_one", Reply) = Value(get_integer(Reply).value = 1)
          BY <3>1 DEF Decoded, Value
        <4>3. (get_integer(Reply).value = 1) = FALSE
          BY <4>1
        <4> QED
          BY <4>2, <4>3
      <3>4. Decoded("Reply", Reply) = Value(Reply)
        BY DEF Decoded
      <3> QED
        BY <3>2, <3>3, <3>4 DEF Value
    <2> QED
      BY <2>0, <2>3, <2>4, <2>5, <2>6 DEF Kinds
  <1> QED
    BY <1>1, Invariance, PTL

(* SET with NX leaves a value that is there alone, with XX it makes none,  *)
(* and the user reads true just if the server stored the value:            *)
(* IncRedis::set() and IncRedisBatch::set().                               *)
THEOREM SetDoesAsAsked == Spec => []SetAsAsked
  <1>1. IndInv => SetAsAsked
    <2> SUFFICES ASSUME IndInv, NEW n \in Answered, request[n].method = "set"
                 PROVE  LET call == request[n]
                            a == answers[n]
                        IN  /\ call.mode = "ADD_NX" /\ a.before # Absent => a.after = a.before
                            /\ call.mode = "ADD_XX" /\ a.before = Absent => a.after = Absent
                            /\ call.mode = "ADD_None" /\ a.reply.type # "ERROR"
                                  => a.after = call.field
                            /\ IF a.reply.type = "STATUS" THEN a.after = call.field
                               ELSE a.after = a.before
                            /\ Returned => outcome.values[n] = (a.reply.type = "STATUS")
      BY DEF SetAsAsked
    <2> DEFINE call == request[n]
               a == answers[n]
    <2>1. n \in 1..Len(request) /\ call \in Calls /\ RightAnswer(call, a)
      BY Shape
    <2>2. ASetCall(call)
      BY <2>1, CallShape DEF PlainCall, ARangeCall
    <2>3. Returned => Means("is_ok", a.reply, outcome.values[n])
      BY <2>2, DecodedAsSent DEF DecodesAsSent, ASetCall
    <2> HIDE DEF call, a
    <2>4. SetInv(call, a) /\ (a.reply.type = "ERROR" \/ Fits("is_ok", a.reply) \/ a.reply.type = "NIL")
      BY <2>1, <2>2 DEF RightAnswer, ASetCall
    <2>5. a.reply.type \in {"ERROR", "STATUS", "NIL"}
      BY <2>4 DEF Fits
    <2>6. call.mode = "ADD_NX" => call.word = "NX"
      BY <2>2 DEF ASetCall, WordOf
    <2>7. call.mode = "ADD_XX" => call.word = "XX"
      BY <2>2 DEF ASetCall, WordOf
    <2>8. call.mode = "ADD_None" => call.word = Blank
      BY <2>2 DEF ASetCall, WordOf
    <2>9. Returned => outcome.values[n] = (a.reply.type = "STATUS")
      <3>1. Returned => outcome.values[n] = (a.reply.type = "STATUS" /\ a.reply.str = "OK")
        BY <2>3 DEF Means
      <3>2. a.reply.type = "STATUS" => a.reply.str = "OK"
        BY <2>4 DEF SetInv
      <3> QED
        BY <3>1, <3>2
    <2> QED
      BY <2>4, <2>5, <2>6, <2>7, <2>8, <2>9 DEF SetInv, call, a
  <1> QED
    BY <1>1, Invariance, PTL

LEMMA LimitIs ==
    ASSUME NEW score \in Int, NEW limit \in Int, NEW incl \in BOOLEAN
    PROVE  /\ Above(score, [exclusive |-> ~incl, score |-> limit]) <=>
                 limit < score \/ (incl /\ limit = score)
           /\ Below(score, [exclusive |-> ~incl, score |-> limit]) <=>
                 score < limit \/ (incl /\ limit = score)
  <1>1. CASE incl = TRUE
    <2>1. /\ Above(score, [exclusive |-> ~incl, score |-> limit]) <=> score >= limit
          /\ Below(score, [exclusive |-> ~incl, score |-> limit]) <=> score <= limit
      BY <1>1 DEF Above, Below
    <2> QED
      BY <1>1, <2>1
  <1>2. CASE incl = FALSE
    <2>1. /\ Above(score, [exclusive |-> ~incl, score |-> limit]) <=> score > limit
          /\ Below(score, [exclusive |-> ~incl, score |-> limit]) <=> score < limit
      BY <1>2 DEF Above, Below
    <2> QED
      BY <1>2, <2>1
  <1> QED
    BY <1>1, <1>2

(* zrangebyscore() returns the members between its limits, each limit      *)
(* included or not as was asked, if six digits are enough for them, and    *)
(* with the scores that of each member right after it.                     *)
THEOREM RangeReturnsAsAsked == Spec => []RangeAsAsked
  <1>1. IndInv => RangeAsAsked
    <2> SUFFICES ASSUME IndInv, Returned, NEW n \in Answered,
                        request[n].method = "zrangebyscore", SixDigits(request[n])
                 PROVE  LET call == request[n]
                            list == outcome.values[n]
                        IN  /\ {list[k] : k \in {i \in DOMAIN list : MemberAt(call, i)}}
                                 = Between(call)
                            /\ \A k \in DOMAIN list :
                                  ~MemberAt(call, k) => list[k] = ScoreText[list[k - 1]]
      BY DEF RangeAsAsked
    <2> DEFINE call == request[n]
               r == answers[n].reply
               v == outcome.values[n]
    <2>1. n \in 1..Len(request) /\ call \in Calls /\ RightAnswer(call, answers[n])
      BY Shape
    <2>2. ARangeCall(call)
      BY <2>1, CallShape DEF PlainCall, ASetCall
    <2>3. r \in RawReplies /\ n \in DOMAIN stored
      BY Shape
    <2>4. /\ optional_string_list(make_redis_reply_type[r]).ok
          /\ v = optional_string_list(make_redis_reply_type[r]).value
      <3>1. Decoding(n) = optional_string_list(make_redis_reply_type[r])
        <4>1. stored[n] = make_redis_reply_type[r] /\ request[n].returns = "opt_string_list"
          BY <2>2, Shape DEF ARangeCall
        <4> QED
          BY <4>1 DEF Decoding, Decoded
      <3> QED
        BY <2>3, <3>1, ReturnedIs
    <2> HIDE DEF call, r, v
    <2>5. r.type # "ERROR" /\ v = IF r.type = "NIL" THEN NoList ELSE Texts(r.element)
      BY <2>3, <2>4, ListDecodes DEF Fits
    <2>6. PICK q \in ByScore(InRange(call)) : r = StrArr(Listing(call, q))
      BY <2>1, <2>2, <2>5 DEF RightAnswer, ARangeCall, r
    <2> DEFINE t == Listing(call, q)
    <2>7. Lists(call, t) /\ t \in Seq(Strings)
      BY <2>2, ListingIs DEF ARangeCall, Lists
    <2> HIDE DEF t
    <2>8. DOMAIN v = 1..Len(t) /\ \A k \in 1..Len(t) : v[k] = t[k]
      <3>1. r = StrArr(t)
        BY <2>6 DEF t
      <3>2. /\ r.type = "ARRAY" /\ Len(r.element) = Len(t)
            /\ \A k \in 1..Len(t) : r.element[k].type = "STRING" /\ r.element[k].str = t[k]
        BY <2>7, <3>1, StringsReply
      <3>3. v = [k \in 1..Len(t) |-> Text(r.element[k])]
        BY <2>5, <3>2 DEF Texts
      <3>4. \A k \in 1..Len(t) : Text(r.element[k]) = t[k]
        BY <3>2 DEF Text
      <3> QED
        BY <3>3, <3>4
    <2>9. /\ {v[k] : k \in {i \in DOMAIN v : MemberAt(call, i)}} = InRange(call)
          /\ \A k \in DOMAIN v : ~MemberAt(call, k) => v[k] = ScoreText[v[k - 1]]
      <3>1. \A k \in {i \in DOMAIN v : MemberAt(call, i)} : v[k] \in InRange(call)
        BY <2>7, <2>8 DEF Lists
      <3>2. \A m \in InRange(call) : \E k \in {i \in DOMAIN v : MemberAt(call, i)} : v[k] = m
        BY <2>7, <2>8 DEF Lists
      <3>3. {v[k] : k \in {i \in DOMAIN v : MemberAt(call, i)}} = InRange(call)
        BY <3>1, <3>2
      <3>4. Len(t) \in Nat
        BY <2>7
      <3>5. ~MemberAt(call, 1)  => FALSE
        BY DEF MemberAt
      <3>6. \A k \in 1..Len(t) : ~MemberAt(call, k) => k - 1 \in 1..Len(t)
        BY <3>4, <3>5
      <3>7. \A k \in DOMAIN v : ~MemberAt(call, k) => v[k] = ScoreText[v[k - 1]]
        BY <2>7, <2>8, <3>6 DEF Lists
      <3> QED
        BY <3>3, <3>7
    <2>10. /\ call.lower_bound = [exclusive |-> ~call.minIncl, score |-> call.min]
           /\ call.upper_bound = [exclusive |-> ~call.maxIncl, score |-> call.max]
      <3>1. call.min < 1000000 /\ call.max < 1000000
        BY SMT DEF SixDigits, call
      <3> QED
        BY SMT, <2>2, <3>1 DEF ARangeCall, make_boundary, Written
    <2>11. /\ call.min \in Int /\ call.max \in Int
           /\ call.minIncl \in BOOLEAN /\ call.maxIncl \in BOOLEAN
           /\ \A m \in DOMAIN Scores : Scores[m] \in Int
      <3>1. Numbers \subseteq Int
        BY SMT DEF Numbers
      <3>2. Bounds \subseteq Int /\ \A m \in DOMAIN Scores : Scores[m] \in Int
        BY <3>1, FacadeAssumption DEF FacadeAssumption
      <3> QED
        BY <2>2, <3>2 DEF ARangeCall
    <2>12. \A m \in DOMAIN Scores :
              /\ Above(Scores[m], call.lower_bound) <=>
                    call.min < Scores[m] \/ (call.minIncl /\ call.min = Scores[m])
              /\ Below(Scores[m], call.upper_bound) <=>
                    Scores[m] < call.max \/ (call.maxIncl /\ call.max = Scores[m])
      BY <2>10, <2>11, LimitIs
    <2>13. InRange(call) = Between(call)
      BY <2>12 DEF InRange, Between
    <2> QED
      BY <2>9, <2>13 DEF call, v
  <1> QED
    BY <1>1, Invariance, PTL

(* A program ends, or meets bad_get, only if the connection was lost with  *)
(* answers due or set() or zrangebyscore() read an error: the assertions   *)
(* in the decoders and in the callback.                                    *)
THEOREM FailuresAreExplained == Spec => []FailuresExplained
  <1>1. IndInv => FailuresExplained
    <2> SUFFICES ASSUME IndInv, pc = "crashed" \/ outcome.how = "bad_get",
                        ~(link = "lost" /\ Len(answers) < Len(request))
                 PROVE  path = "unchecked" /\ AllErrors # <<>>
      BY DEF FailuresExplained
    <2>1. Searched /\ \E n \in DOMAIN stored : ~Decoding(n).ok
      BY DEF IndInv, OutcomeInv, CrashInv, NoOutcome
    <2>2. PICK n \in DOMAIN stored : ~Decoding(n).ok
      BY <2>1
    <2>3. Len(stored) = Len(answers)
      <3>1. link = "up" \/ link = "lost"
        BY DEF IndInv, TypeOK
      <3>2. CASE link = "up"
        BY <3>2 DEF IndInv, StoredInv
      <3>3. CASE link = "lost"
        BY <2>1, <3>3, Shape DEF Searched
      <3> QED
        BY <3>1, <3>2, <3>3
    <2>4. n \in Answered
      BY <2>3, Shape
    <2>5. answers[n].reply.type = "ERROR"
      BY <2>2, <2>4, AnsweredDecodes
    <2>6. AllErrors # <<>>
      <3>1. ErrorsIn(Errors, answers[n].reply) # <<>>
        BY <2>5 DEF ErrorsIn
      <3> QED
        BY <2>4, <3>1, AllAreFound
    <2>7. path # "run"
      <3>1. throw_if_failed(stored).errors # 0
        BY <2>6, AllAreFound, NoErrorIsEmpty
      <3> QED
        BY <2>1, <3>1 DEF Searched
    <2> QED
      BY <2>6, <2>7 DEF IndInv, TypeOK
  <1> QED
    BY <1>1, Invariance, PTL
=============================================================================
