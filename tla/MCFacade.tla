------------------------------- MODULE MCFacade -------------------------------
(* An instance for TLC: scores on both sides of six digits, and scripts    *)
(* that return errors at two depths, of two kinds.                         *)
EXTENDS FacadeInvariant

Members == [low |-> 3, six |-> 999999, seven |-> 1000003]

Texts_of_scores == [low |-> "3", six |-> "999999", seven |-> "1000003"]

Num(n) == [Raw("INTEGER") EXCEPT !.integer = n]
Err(s) == [Raw("ERROR") EXCEPT !.str = s]

Values ==
    {Raw("NIL"), Str("s"), Num(0), Num(1), OK,
     Arr(<<>>), Arr(<<Str("s"), Raw("NIL"), Str("t")>>),
     Arr(<<Arr(<<Raw("NIL")>>), Str("s")>>)}

Trees(messages) ==
    {Arr(<<Err(a), Arr(<<Num(1), Err(b)>>), Err(c)>>) :
        a \in messages, b \in messages, c \in messages}

Replies_two == Values \cup {Err("OOM")} \cup Trees({"OOM", "MISCONF"})

Replies_one == {Err("OOM"), OK, Raw("NIL")}
=============================================================================
