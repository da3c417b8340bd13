------------------------------- MODULE Replies -------------------------------
(***************************************************************************)
(* redis::Reply: what hiredis parsed turned into a variant, the errors     *)
(* looked for in it, and the values read from it.                          *)
(*                                                                         *)
(* A reply of hiredis is a record of its type and of the fields of that    *)
(* type, the others blank; a Reply is the same with the name of the        *)
(* alternative the variant holds.  What a decoder returns is [ok, value],  *)
(* where ok is FALSE if it fails an assertion or, when those are compiled  *)
(* out, throws boost::bad_get: every decoder asserts what boost::get is    *)
(* about to require.                                                       *)
(***************************************************************************)
EXTENDS Integers, Sequences

CONSTANTS
    Strings,        \* what a reply may say
    MaxNesting      \* bound: arrays in each other

Blank == ""

ASSUME RepliesAssumption == Blank \in Strings /\ MaxNesting \in Nat

Raw(type) == [type |-> type, integer |-> 0, str |-> Blank, element |-> <<>>]

(* The replies hiredis may make, with arrays nested at most so deep. *)
RawUpTo[depth \in 0..MaxNesting] ==
    [type : {"INTEGER", "STRING", "ERROR", "STATUS", "NIL"},
     integer : Int, str : Strings, element : {<<>>}]
    \cup IF depth = 0 THEN {}
         ELSE [type : {"ARRAY"}, integer : {0}, str : {Blank},
               element : Seq(RawUpTo[depth - 1])]

RawReplies == RawUpTo[MaxNesting]

(* Reply(), an integer. *)
Reply == [which |-> "Integer", integer |-> 0, str |-> Blank, array |-> <<>>]

(* The variants. *)
RepliesUpTo[depth \in 0..MaxNesting] ==
    [which : {"Integer", "String", "Error", "Status", "Nil"},
     integer : Int, str : Strings, array : {<<>>}]
    \cup IF depth = 0 THEN {}
         ELSE [which : {"Array"}, integer : {0}, str : {Blank},
               array : Seq(RepliesUpTo[depth - 1])]

Replies == RepliesUpTo[MaxNesting]

(* make_redis_reply_type() of r, which calls itself for the elements of an *)
(* array: make.                                                            *)
Variant(make, r) ==
    CASE r.type = "INTEGER" -> [Reply EXCEPT !.integer = r.integer]
      [] r.type = "STRING"  -> [Reply EXCEPT !.which = "String", !.str = r.str]
      [] r.type = "ARRAY"   ->
            [Reply EXCEPT !.which = "Array",
                !.array = [n \in 1..Len(r.element) |-> make[r.element[n]]]]
      [] r.type = "ERROR"   -> [Reply EXCEPT !.which = "Error", !.str = r.str]
      [] r.type = "STATUS"  -> [Reply EXCEPT !.which = "Status", !.str = r.str]
      [] r.type = "NIL"     -> [Reply EXCEPT !.which = "Nil"]

make_redis_reply_type[r \in RawReplies] == Variant(make_redis_reply_type, r)

-----------------------------------------------------------------------------
max_reported_errors == 3

NoneFound == [errors |-> 0, shown |-> <<>>]

(* Mutant: the errors counted so far are not handed to the nested call. *)
CountErrors_Restarts(nested, parErrCount, found, rep) ==
    CASE rep.which = "Error" ->
            [errors |-> found.errors + 1,
             shown |-> IF found.errors + 1 + parErrCount <= max_reported_errors
                       THEN Append(found.shown, rep.str) ELSE found.shown]
      [] rep.which = "Array" ->
            LET inner == nested[<<0, rep.array>>] IN
            [errors |-> found.errors + inner.errors,
             shown |-> found.shown \o inner.shown]
      [] OTHER -> found

(* One turn of the loop of array_throw_if_failed(), which calls itself for *)
(* an array: found, and what is found in rep.                              *)
CountErrors(nested, parErrCount, found, rep) ==
    CASE rep.which = "Error" ->
            [errors |-> found.errors + 1,
             shown |-> IF found.errors + 1 + parErrCount <= max_reported_errors
                       THEN Append(found.shown, rep.str) ELSE found.shown]
      [] rep.which = "Array" ->
            LET inner == nested[<<found.errors + parErrCount, rep.array>>] IN
            [errors |-> found.errors + inner.errors,
             shown |-> found.shown \o inner.shown]
      [] OTHER -> found

(* The number of errors in the replies, at any depth, and the messages     *)
(* written to the stream: those among the first ones of all.  Its argument *)
(* is the pair of parErrCount and parReplies.                              *)
array_throw_if_failed[call \in Nat \X Seq(Replies)] ==
    LET found[n \in 0..Len(call[2])] ==
            IF n = 0 THEN NoneFound
            ELSE CountErrors(array_throw_if_failed, call[1], found[n - 1], call[2][n])
    IN  found[Len(call[2])]

throw_if_failed(replies) == array_throw_if_failed[<<0, replies>>]

-----------------------------------------------------------------------------
Value(v) == [ok |-> TRUE, value |-> v]
Fails == [ok |-> FALSE, value |-> <<>>]

get_integer(rep) == IF rep.which = "Integer" THEN Value(rep.integer) ELSE Fails

get_array(rep) == IF rep.which = "Array" THEN Value(rep.array) ELSE Fails

get_string(rep) ==
    CASE rep.which = "Nil" -> Value(Blank)
      [] rep.which = "String" -> Value(rep.str)
      [] OTHER -> Fails

get_StatusString(rep) ==
    CASE rep.which = "Nil" -> Value(Blank)
      [] rep.which = "Status" -> Value(rep.str)
      [] OTHER -> Fails

is_ok(status) == status = "OK"

(* An optional that is empty: of a string, of a list of strings. *)
None == "boost::none"
NoList == <<"boost::none", "list">>

(* Mutant: what is no string is read as none. *)
optional_string_Lenient(rep) ==
    IF rep.which = "String" THEN get_string(rep) ELSE Value(None)

optional_string(rep) ==
    IF rep.which = "Nil" THEN Value(None) ELSE get_string(rep)

(* Mutant: the missing elements are left out. *)
optional_string_list_Compact(rep) ==
    IF rep.which = "Nil" THEN Value(NoList)
    ELSE LET list == get_array(rep).value
             elements == [n \in DOMAIN list |-> optional_string(list[n])]
         IN  IF /\ get_array(rep).ok
                /\ \A n \in DOMAIN elements : elements[n].ok
             THEN Value(SelectSeq([n \in DOMAIN elements |-> elements[n].value],
                                  LAMBDA s : s # None))
             ELSE Fails

optional_string_list(rep) ==
    IF rep.which = "Nil" THEN Value(NoList)
    ELSE LET list == get_array(rep).value
             elements == [n \in DOMAIN list |-> optional_string(list[n])]
         IN  IF /\ get_array(rep).ok
                /\ \A n \in DOMAIN elements : elements[n].ok
             THEN Value([n \in DOMAIN elements |-> elements[n].value])
             ELSE Fails
=============================================================================
