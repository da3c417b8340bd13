-------------------------------- MODULE Scan ---------------------------------
(***************************************************************************)
(* redis::ScanIterator over SCAN, SSCAN, HSCAN or ZSCAN, of a scan whose   *)
(* data does not change meanwhile.                                         *)
(*                                                                         *)
(* The server answers a scan command with a page of raw strings and a      *)
(* cursor.  Cursors are opaque but for 0, which asks for the first page    *)
(* and comes with the last; here the cursor that comes with any other page *)
(* is the number of the page, so that cursor c asks for page c + 1.  Any   *)
(* page may be empty.  An element takes `step' strings of a page: one, or  *)
(* two for the pairs of HSCAN and ZSCAN.                                   *)
(*                                                                         *)
(* Each iterator blocks on the server by itself.  Every command run is one *)
(* step here, which gets a reply or throws.                                *)
(***************************************************************************)
EXTENDS Naturals, Sequences

CONSTANTS
    Iterators,
    Strings,    \* the raw strings a page is made of
    Scans       \* the scans considered: [raw |-> pages, step |-> number]

ASSUME ScanAssumption ==
    \A s \in Scans :
        /\ s.step \in Nat \ {0}
        /\ s.raw \in Seq(Seq(Strings))
        /\ s.raw # <<>>
        /\ \A p \in 1..Len(s.raw) : Len(s.raw[p]) % s.step = 0

VARIABLES
    scan,       \* the ValueFetch and the data it meets, fixed
    it,         \* the members of each ScanIterator
    new_context,\* the local variable of its increment()
    pc          \* what it is doing

vars == <<scan, it, new_context, pc>>

Pages == 1..Len(scan.raw)

(* The cursor the server returns with page p. *)
CursorAfter(p) == IF p = Len(scan.raw) THEN 0 ELSE p

(* make_value() from z = 0, step, 2*step, ... on: the elements of a page. *)
Elements(raw) ==
    [n \in 1..(Len(raw) \div scan.step) |->
        SubSeq(raw, (n - 1) * scan.step + 1, n * scan.step)]

AtEnd == [m_reply |-> <<>>, m_scan_context |-> 0, m_curr_index |-> 0]

is_end(i) ==
    /\ it[i].m_curr_index = 0
    /\ it[i].m_reply = <<>>
    /\ it[i].m_scan_context = 0

Idle(i) == pc[i] = "idle"

(* The constructor of a begin iterator, and the increment() it ends with.  *)
(* The index is "some arbitrary value so is_end()==false"; with an empty   *)
(* reply increment() goes straight to the server.                          *)
Construct(i) ==
    /\ pc[i] = "none"
    /\ it' = [it EXCEPT ![i] = [AtEnd EXCEPT !.m_curr_index = 1]]
    /\ new_context' = [new_context EXCEPT ![i] = 0]
    /\ pc' = [pc EXCEPT ![i] = "build"]
    /\ UNCHANGED scan

ConstructEnd(i) ==
    /\ pc[i] = "none"
    /\ it' = [it EXCEPT ![i] = AtEnd]
    /\ pc' = [pc EXCEPT ![i] = "idle"]
    /\ UNCHANGED <<scan, new_context>>

(* The implicit copy: m_command and the match pattern are the same for all. *)
Copy(i, j) ==
    /\ Idle(i)
    /\ pc[j] \in {"none", "idle"}
    /\ it' = [it EXCEPT ![j] = it[i]]
    /\ pc' = [pc EXCEPT ![j] = "idle"]
    /\ UNCHANGED <<scan, new_context>>

-----------------------------------------------------------------------------
(* increment() of an iterator that is not at the end: three branches.      *)

HasNextInReply(i) == it[i].m_curr_index + 1 < Len(it[i].m_reply)

(* Mutant: the cursor is not looked at. *)
OnLastOfScan_AnyPage(i) == it[i].m_curr_index + 1 = Len(it[i].m_reply)

OnLastOfScan(i) ==
    /\ it[i].m_curr_index + 1 = Len(it[i].m_reply)
    /\ it[i].m_scan_context = 0

StepInReply(i) ==
    /\ Idle(i) /\ ~is_end(i)
    /\ HasNextInReply(i)
    /\ it' = [it EXCEPT ![i].m_curr_index = @ + 1]
    /\ UNCHANGED <<scan, new_context, pc>>

StepPastLast(i) ==
    /\ Idle(i) /\ ~is_end(i)
    /\ OnLastOfScan(i)
    /\ it' = [it EXCEPT ![i].m_reply = <<>>, ![i].m_curr_index = 0]
    /\ UNCHANGED <<scan, new_context, pc>>

StartFetch(i) ==
    /\ Idle(i) /\ ~is_end(i)
    /\ ~HasNextInReply(i) /\ ~OnLastOfScan(i)
    /\ new_context' = [new_context EXCEPT ![i] = it[i].m_scan_context]
    /\ pc' = [pc EXCEPT ![i] = "fetch"]
    /\ UNCHANGED <<scan, it>>

Fetching(i) == pc[i] \in {"build", "fetch"}

(* forward_scan_command(new_context): the page asked for and its cursor. *)
Requested(i) == scan.raw[new_context[i] + 1]
Returned(i) == CursorAfter(new_context[i] + 1)

(* Mutant: the loop asks with the member, not the local. *)
FetchMore_SameCursor(i) ==
    /\ Fetching(i)
    /\ Returned(i) # 0 /\ Requested(i) = <<>>
    /\ new_context' = [new_context EXCEPT ![i] = it[i].m_scan_context]
    /\ UNCHANGED <<scan, it, pc>>

(* A page without elements, not the last: the loop asks again. *)
FetchMore(i) ==
    /\ Fetching(i)
    /\ Returned(i) # 0 /\ Requested(i) = <<>>
    /\ new_context' = [new_context EXCEPT ![i] = Returned(i)]
    /\ UNCHANGED <<scan, it, pc>>

(* Mutant: a page without elements ends the loop as well. *)
FetchLast_AnyReply(i) ==
    /\ Fetching(i)
    /\ it' = [it EXCEPT ![i] = [m_reply        |-> Elements(Requested(i)),
                                m_scan_context |-> Returned(i),
                                m_curr_index   |-> 0]]
    /\ new_context' = [new_context EXCEPT ![i] = Returned(i)]
    /\ pc' = [pc EXCEPT ![i] = "idle"]
    /\ UNCHANGED scan

(* The loop ends and the reply replaces the one before. *)
FetchLast(i) ==
    /\ Fetching(i)
    /\ Returned(i) = 0 \/ Requested(i) # <<>>
    /\ it' = [it EXCEPT ![i] = [m_reply        |-> Elements(Requested(i)),
                                m_scan_context |-> Returned(i),
                                m_curr_index   |-> 0]]
    /\ new_context' = [new_context EXCEPT ![i] = Returned(i)]
    /\ pc' = [pc EXCEPT ![i] = "idle"]
    /\ UNCHANGED scan

(* Command::run() throws: the members are as they were, and no iterator is *)
(* constructed.                                                            *)
FetchThrows(i) ==
    /\ Fetching(i)
    /\ pc' = [pc EXCEPT ![i] = IF @ = "build" THEN "none" ELSE "idle"]
    /\ UNCHANGED <<scan, it, new_context>>

increment(i) == StepInReply(i) \/ StepPastLast(i) \/ StartFetch(i)

Reply(i) == FetchMore(i) \/ FetchLast(i)

(* Mutant: the cursors are not compared. *)
equal_NoContext(i, j) ==
    \/ i = j
    \/ is_end(i) /\ is_end(j)
    \/ /\ ~is_end(i) /\ ~is_end(j)
       /\ it[i].m_curr_index = it[j].m_curr_index
       /\ Len(it[i].m_reply) = Len(it[j].m_reply)

(* equal(): members are compared, not what the reply holds. *)
equal(i, j) ==
    \/ i = j
    \/ is_end(i) /\ is_end(j)
    \/ /\ ~is_end(i) /\ ~is_end(j)
       /\ it[i].m_scan_context = it[j].m_scan_context
       /\ it[i].m_curr_index = it[j].m_curr_index
       /\ Len(it[i].m_reply) = Len(it[j].m_reply)

(* dereference(), of which only the indexing may fail. *)
CanDereference(i) ==
    it[i].m_reply # <<>> /\ it[i].m_curr_index < Len(it[i].m_reply)

dereference(i) == it[i].m_reply[it[i].m_curr_index + 1]

Init ==
    /\ scan \in Scans
    /\ it = [i \in Iterators |-> AtEnd]
    /\ new_context = [i \in Iterators |-> 0]
    /\ pc = [i \in Iterators |-> "none"]

Next == \E i \in Iterators :
    \/ Construct(i) \/ ConstructEnd(i)
    \/ \E j \in Iterators : Copy(i, j)
    \/ increment(i)
    \/ Reply(i) \/ FetchThrows(i)

Spec == Init /\ [][Next]_vars

(* The server answers every command; nobody has to call anything. *)
Fairness == \A i \in Iterators : WF_vars(Reply(i))

FairSpec == Spec /\ Fairness
=============================================================================
