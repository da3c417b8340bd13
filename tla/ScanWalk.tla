------------------------------- MODULE ScanWalk -------------------------------
(***************************************************************************)
(* What a range of scan iterators promises, without buffers and cursors:   *)
(* the elements lie on the pages the server would return, an iterator is   *)
(* at one of them or at the end, and every move takes it to the very next  *)
(* element, over as many empty pages as there are.                         *)
(***************************************************************************)
EXTENDS Naturals, Sequences

CONSTANT Iterators

VARIABLES
    pages,      \* the elements of each page of the scan
    at,         \* the position of each iterator, page and place on the page
    shown       \* what dereferencing it gives

vars == <<pages, at, shown>>

Nowhere == <<0, 0>>             \* not constructed
End == <<Len(pages) + 1, 1>>    \* past the last element
Nothing == <<>>

Positions ==
    UNION {{<<p, k>> : k \in 1..Len(pages[p])} : p \in 1..Len(pages)}

(* Elements are met page by page. *)
Before(a, b) == a[1] < b[1] \/ (a[1] = b[1] /\ a[2] < b[2])

(* An iterator that was at position a goes to the next one. *)
MoveBehind(i, a) ==
    \E q \in Positions \cup {End} :
        /\ Before(a, q)
        /\ \A r \in Positions : Before(a, r) => r = q \/ Before(q, r)
        /\ at' = [at EXCEPT ![i] = q]
        /\ shown' = [shown EXCEPT ![i] = IF q = End THEN Nothing
                                         ELSE pages[q[1]][q[2]]]
        /\ UNCHANGED pages

Begin(i) == at[i] = Nowhere /\ MoveBehind(i, Nowhere)

BeginAtEnd(i) ==
    /\ at[i] = Nowhere
    /\ at' = [at EXCEPT ![i] = End]
    /\ UNCHANGED <<pages, shown>>

Advance(i) == at[i] \in Positions /\ MoveBehind(i, at[i])

Copy(i, j) ==
    /\ at[i] # Nowhere
    /\ at' = [at EXCEPT ![j] = at[i]]
    /\ shown' = [shown EXCEPT ![j] = shown[i]]
    /\ UNCHANGED pages

(* The pages are whatever the server holds; they stay the same. *)
Init ==
    /\ at = [i \in Iterators |-> Nowhere]
    /\ shown = [i \in Iterators |-> Nothing]

Next == \E i \in Iterators :
    \/ Begin(i)
    \/ BeginAtEnd(i)
    \/ Advance(i)
    \/ \E j \in Iterators : Copy(i, j)

Spec == Init /\ [][Next]_vars
=============================================================================
