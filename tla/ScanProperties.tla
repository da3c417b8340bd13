--------------------------- MODULE ScanProperties ----------------------------
(* What Scan guarantees: it implements ScanWalk, and its equal() and its   *)
(* loop do what a user of the range relies on.                             *)
EXTENDS Scan

Constructed(i) == pc[i] \in {"idle", "fetch"}

(* The page m_reply was made from: the cursor kept is the one of the page  *)
(* after it.                                                               *)
PageOf(i) ==
    IF it[i].m_scan_context = 0 THEN Len(scan.raw) ELSE it[i].m_scan_context

PositionOf(i) ==
    IF ~Constructed(i) THEN <<0, 0>>
    ELSE IF is_end(i) THEN <<Len(scan.raw) + 1, 1>>
    ELSE <<PageOf(i), it[i].m_curr_index + 1>>

ShownBy(i) ==
    IF Constructed(i) /\ CanDereference(i) THEN dereference(i) ELSE <<>>

Walk == INSTANCE ScanWalk WITH
    pages <- [p \in Pages |-> Elements(scan.raw[p])],
    at    <- [i \in Iterators |-> PositionOf(i)],
    shown <- [i \in Iterators |-> ShownBy(i)]

(* An iterator walks through every element of every page once and in       *)
(* order, passes over pages without elements, shows the element it is at,  *)
(* pairs the strings of HSCAN and ZSCAN rightly and ends behind the last   *)
(* element; an increment() that throws leaves it where it was, to be       *)
(* called again, and a copy goes its own way.                              *)
WalksTheElements == Walk!Spec

-----------------------------------------------------------------------------
MembersOK ==
    [m_reply : Seq(Seq(Strings)), m_scan_context : Nat, m_curr_index : Nat]

(* Every variable has its type. *)
TypeOK ==
    /\ scan \in Scans
    /\ it \in [Iterators -> MembersOK]
    /\ new_context \in [Iterators -> Nat]
    /\ pc \in [Iterators -> {"none", "build", "idle", "fetch"}]

(* The reply kept is the page the cursor kept comes after, and the index   *)
(* lies within it.                                                         *)
KeepsItsPage(i) ==
    Constructed(i) =>
        \/ is_end(i)
        \/ /\ it[i].m_scan_context < Len(scan.raw)
           /\ it[i].m_reply = Elements(scan.raw[PageOf(i)])
           /\ CanDereference(i)

(* Where the loop of increment() started from. *)
LeavesLastOfPage(i) ==
    /\ pc[i] = "fetch" => /\ it[i].m_scan_context # 0
                          /\ it[i].m_curr_index + 1 = Len(it[i].m_reply)
    /\ pc[i] = "build" => it[i].m_scan_context = 0

(* The loop has passed over pages without elements only. *)
SkipsEmptyPages(i) ==
    Fetching(i) =>
        /\ it[i].m_scan_context <= new_context[i]
        /\ new_context[i] < Len(scan.raw)
        /\ \A p \in Pages :
              it[i].m_scan_context < p /\ p <= new_context[i] => scan.raw[p] = <<>>

(* The inductive invariant the refinement needs. *)
IndInv ==
    /\ TypeOK
    /\ \A i \in Iterators :
          KeepsItsPage(i) /\ LeavesLastOfPage(i) /\ SkipsEmptyPages(i)

(* Two iterators are equal exactly if they are at the same element, or     *)
(* both at the end: the cursor, the index and the size of the reply, which *)
(* equal() compares, tell all elements of a scan apart.                    *)
EqualIsSameElement ==
    \A i, j \in Iterators :
        Constructed(i) /\ Constructed(j) =>
            (equal(i, j) <=> PositionOf(i) = PositionOf(j))

(* increment() returns although any number of pages may be empty and the   *)
(* last one too: the loop always asks for the page behind the last one it  *)
(* saw.                                                                    *)
IncrementReturns == \A i \in Iterators : Fetching(i) ~> ~Fetching(i)
=============================================================================
