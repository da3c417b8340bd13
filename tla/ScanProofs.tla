----------------------------- MODULE ScanProofs ------------------------------
(* The proofs that IndInv is an invariant of Scan, for any scan and any    *)
(* number of iterators, that Scan implements ScanWalk and that equal()     *)
(* tells positions apart.                                                  *)
EXTENDS ScanProperties, SequenceTheorems, TLAPS

(* What a number of strings divided by the step gives. *)
LEMMA Quotient ==
    ASSUME NEW n \in Nat, NEW step \in Nat \ {0}
    PROVE  /\ n \div step \in Nat
           /\ n = 0 => n \div step = 0
           /\ n # 0 /\ n % step = 0 => n \div step # 0
           /\ (n \div step) * step <= n
  <1>1. n \div step \in Nat
    OBVIOUS
  <1>2. n = step * (n \div step) + (n % step)
    OBVIOUS
  <1>3. n % step \in 0..(step - 1)
    OBVIOUS
  <1>4. n = 0 => n \div step = 0
    OBVIOUS
  <1>5. n # 0 /\ n % step = 0 => n \div step # 0
    BY <1>1, <1>2
  <1>6. (n \div step) * step <= n
    BY <1>1, <1>2, <1>3
  <1> QED
    BY <1>1, <1>4, <1>5, <1>6

LEMMA Product ==
    ASSUME NEW k \in Nat, NEW m \in Nat, k \in 1..m, NEW step \in Nat \ {0}
    PROVE  k * step \in Nat /\ (k - 1) * step \in Nat /\ k * step <= m * step
           /\ (k - 1) * step < k * step
  OBVIOUS

(* The elements of a page are sequences of strings; there is one exactly   *)
(* if the page is not empty.                                               *)
LEMMA ElementsOfPage ==
    ASSUME NEW raw \in Seq(Strings), scan.step \in Nat \ {0}
    PROVE  /\ Elements(raw) \in Seq(Seq(Strings))
           /\ raw = <<>> => Elements(raw) = <<>>
           /\ raw # <<>> /\ Len(raw) % scan.step = 0 => Elements(raw) # <<>>
  <1> DEFINE step == scan.step
             n == Len(raw) \div step
             elem(k) == SubSeq(raw, (k - 1) * step + 1, k * step)
  <1>1. /\ n \in Nat
        /\ Len(raw) = 0 => n = 0
        /\ Len(raw) # 0 /\ Len(raw) % step = 0 => n # 0
        /\ n * step <= Len(raw)
    BY Quotient
  <1>2. ASSUME NEW k \in 1..n
        PROVE  elem(k) \in Seq(Strings)
    <2>1. /\ k * step \in Nat /\ (k - 1) * step \in Nat
          /\ k * step <= n * step /\ (k - 1) * step < k * step
      BY <1>1, Product
    <2>2. n * step \in Nat
      BY <1>1
    <2> DEFINE first == (k - 1) * step + 1
               last == k * step
    <2>3. first \in Int /\ last \in Int /\ first >= 1 /\ last <= Len(raw)
      BY <1>1, <2>1, <2>2
    <2>4. \A i \in first..last : raw[i] \in Strings
      <3> HIDE DEF first, last
      <3> QED
        BY <2>3
    <2> HIDE DEF first, last
    <2>5. SubSeq(raw, first, last) \in Seq(Strings)
      BY <2>3, <2>4, SubSeqProperties
    <2> QED
      BY <2>5 DEF first, last
  <1>3. Elements(raw) = [k \in 1..n |-> elem(k)]
    BY DEF Elements
  <1> HIDE DEF n, elem
  <1>4. Elements(raw) \in Seq(Seq(Strings)) /\ Len(Elements(raw)) = n
    BY <1>1, <1>2, <1>3
  <1> QED
    BY <1>1, <1>4, EmptySeq

-----------------------------------------------------------------------------
(* The scan is fixed: what ScanAssumption says of it. *)
LEMMA ScanFacts ==
    ASSUME TypeOK
    PROVE  /\ scan.step \in Nat \ {0}
           /\ scan.raw \in Seq(Seq(Strings))
           /\ Len(scan.raw) \in Nat \ {0}
           /\ Pages = 1..Len(scan.raw)
           /\ \A p \in Pages :
                 /\ scan.raw[p] \in Seq(Strings)
                 /\ Elements(scan.raw[p]) \in Seq(Seq(Strings))
                 /\ Elements(scan.raw[p]) = <<>> <=> scan.raw[p] = <<>>
                 /\ CursorAfter(p) \in Nat
                 /\ CursorAfter(p) < Len(scan.raw)
  <1>1. /\ scan.step \in Nat \ {0}
        /\ scan.raw \in Seq(Seq(Strings))
        /\ scan.raw # <<>>
        /\ \A p \in 1..Len(scan.raw) : Len(scan.raw[p]) % scan.step = 0
    BY ScanAssumption DEF TypeOK
  <1>2. Len(scan.raw) \in Nat \ {0}
    BY <1>1, EmptySeq
  <1>3. ASSUME NEW p \in Pages
        PROVE  /\ scan.raw[p] \in Seq(Strings)
               /\ Elements(scan.raw[p]) \in Seq(Seq(Strings))
               /\ Elements(scan.raw[p]) = <<>> <=> scan.raw[p] = <<>>
    <2>1. scan.raw[p] \in Seq(Strings) /\ Len(scan.raw[p]) % scan.step = 0
      BY <1>1 DEF Pages
    <2> QED
      BY <1>1, <2>1, ElementsOfPage
  <1>4. \A p \in Pages : CursorAfter(p) \in Nat /\ CursorAfter(p) < Len(scan.raw)
    BY <1>2 DEF Pages, CursorAfter
  <1> QED
    BY <1>1, <1>2, <1>3, <1>4 DEF Pages

-----------------------------------------------------------------------------
IteratorInv(i) == KeepsItsPage(i) /\ LeavesLastOfPage(i) /\ SkipsEmptyPages(i)

(* A step of one iterator leaves what is known of the others. *)
LEMMA OtherIterators ==
    ASSUME NEW k \in Iterators, UNCHANGED <<scan, it[k], new_context[k], pc[k]>>,
           IteratorInv(k)
    PROVE  IteratorInv(k)'
  BY DEF IteratorInv, KeepsItsPage, LeavesLastOfPage, SkipsEmptyPages, Fetching,
         Constructed, CanDereference, PageOf, Elements, is_end, Pages

LEMMA InitIndInv == Init => IndInv
  <1> SUFFICES ASSUME Init PROVE IndInv
    OBVIOUS
  <1>1. AtEnd \in MembersOK
    BY EmptySeq DEF AtEnd, MembersOK
  <1>2. TypeOK
    BY <1>1 DEF Init, TypeOK
  <1>3. \A i \in Iterators : IteratorInv(i)
    BY DEF Init, IteratorInv, KeepsItsPage, LeavesLastOfPage, SkipsEmptyPages,
           Fetching, Constructed
  <1> QED
    BY <1>2, <1>3 DEF IndInv, IteratorInv

LEMMA NextIndInv == IndInv /\ [Next]_vars => IndInv'
  <1> SUFFICES ASSUME IndInv, [Next]_vars PROVE IndInv'
    OBVIOUS
  <1>1. TypeOK /\ \A k \in Iterators : IteratorInv(k)
    BY DEF IndInv, IteratorInv
  <1>2. AtEnd \in MembersOK /\ [AtEnd EXCEPT !.m_curr_index = 1] \in MembersOK
    BY EmptySeq DEF AtEnd, MembersOK
  <1>3. SUFFICES TypeOK' /\ \A k \in Iterators : IteratorInv(k)'
    BY DEF IndInv, IteratorInv
  <1>4. CASE UNCHANGED vars
    BY <1>1, <1>4, OtherIterators DEF vars, TypeOK
  <1>5. ASSUME NEW i \in Iterators, Construct(i)
        PROVE  TypeOK' /\ \A k \in Iterators : IteratorInv(k)'
    <2>1. TypeOK'
      BY <1>1, <1>2, <1>5 DEF Construct, TypeOK
    <2>2. IteratorInv(i)'
      BY <1>1, <1>5, ScanFacts
      DEF Construct, TypeOK, IteratorInv, KeepsItsPage, LeavesLastOfPage,
          SkipsEmptyPages, Constructed, Fetching, AtEnd, Pages
    <2> QED
      BY <1>1, <1>5, <2>1, <2>2, OtherIterators DEF Construct, TypeOK
  <1>6. ASSUME NEW i \in Iterators, ConstructEnd(i)
        PROVE  TypeOK' /\ \A k \in Iterators : IteratorInv(k)'
    <2>1. TypeOK'
      BY <1>1, <1>2, <1>6 DEF ConstructEnd, TypeOK
    <2>2. IteratorInv(i)'
      BY <1>1, <1>6
      DEF ConstructEnd, TypeOK, IteratorInv, KeepsItsPage, LeavesLastOfPage,
          SkipsEmptyPages, Constructed, Fetching, AtEnd, is_end
    <2> QED
      BY <1>1, <1>6, <2>1, <2>2, OtherIterators DEF ConstructEnd, TypeOK
  <1>7. ASSUME NEW i \in Iterators, NEW j \in Iterators, Copy(i, j)
        PROVE  TypeOK' /\ \A k \in Iterators : IteratorInv(k)'
    <2>1. TypeOK'
      BY <1>1, <1>7 DEF Copy, Idle, TypeOK
    <2>2. IteratorInv(j)'
      <3>1. it'[j] = it[i] /\ pc[i] = "idle" /\ pc'[j] = "idle" /\ scan' = scan
        BY <1>1, <1>7 DEF Copy, Idle, TypeOK
      <3>2. KeepsItsPage(i)
        BY <1>1 DEF IteratorInv
      <3>3. KeepsItsPage(j)'
        BY <3>1, <3>2 DEF KeepsItsPage, Constructed, CanDereference, PageOf,
                          Elements, is_end
      <3> QED
        BY <3>1, <3>3 DEF IteratorInv, LeavesLastOfPage, SkipsEmptyPages, Fetching
    <2> QED
      BY <1>1, <1>7, <2>1, <2>2, OtherIterators DEF Copy, TypeOK
  <1>8. ASSUME NEW i \in Iterators, StepInReply(i)
        PROVE  TypeOK' /\ \A k \in Iterators : IteratorInv(k)'
    <2>1. TypeOK'
      <3>1. /\ it[i].m_reply \in Seq(Seq(Strings))
            /\ it[i].m_scan_context \in Nat /\ it[i].m_curr_index \in Nat
        BY <1>1 DEF TypeOK, MembersOK
      <3>2. [it[i] EXCEPT !.m_curr_index = @ + 1]
               = [m_reply        |-> it[i].m_reply,
                  m_scan_context |-> it[i].m_scan_context,
                  m_curr_index   |-> it[i].m_curr_index + 1]
        BY <1>1 DEF TypeOK, MembersOK
      <3>3. [it[i] EXCEPT !.m_curr_index = @ + 1] \in MembersOK
        BY <3>1, <3>2 DEF MembersOK
      <3> QED
        BY <1>1, <1>8, <3>3 DEF StepInReply, TypeOK
    <2>2. IteratorInv(i)'
      <3>1. /\ it'[i] = [it[i] EXCEPT !.m_curr_index = @ + 1]
            /\ it[i] \in MembersOK
            /\ pc[i] = "idle" /\ pc'[i] = "idle" /\ scan' = scan
            /\ ~is_end(i) /\ it[i].m_curr_index + 1 < Len(it[i].m_reply)
            /\ KeepsItsPage(i)
        BY <1>1, <1>8 DEF StepInReply, Idle, TypeOK, HasNextInReply, IteratorInv
      <3> QED
        BY <3>1 DEF IteratorInv, KeepsItsPage, LeavesLastOfPage, SkipsEmptyPages,
                    Fetching, Constructed, CanDereference, PageOf, Elements,
                    MembersOK, is_end
    <2> QED
      BY <1>1, <1>8, <2>1, <2>2, OtherIterators DEF StepInReply, TypeOK
  <1>9. ASSUME NEW i \in Iterators, StepPastLast(i)
        PROVE  TypeOK' /\ \A k \in Iterators : IteratorInv(k)'
    <2>1. TypeOK'
      BY <1>1, <1>9, EmptySeq DEF StepPastLast, TypeOK, MembersOK
    <2>2. IteratorInv(i)'
      BY <1>1, <1>9
      DEF StepPastLast, OnLastOfScan, Idle, TypeOK, MembersOK, IteratorInv,
          KeepsItsPage, LeavesLastOfPage, SkipsEmptyPages, Constructed, Fetching,
          is_end
    <2> QED
      BY <1>1, <1>9, <2>1, <2>2, OtherIterators DEF StepPastLast, TypeOK
  <1>10. ASSUME NEW i \in Iterators, StartFetch(i)
         PROVE  TypeOK' /\ \A k \in Iterators : IteratorInv(k)'
    <2>1. TypeOK'
      BY <1>1, <1>10 DEF StartFetch, TypeOK, MembersOK
    <2>2. IteratorInv(i)'
      <3>1. /\ it[i] \in MembersOK /\ it' = it /\ scan' = scan
            /\ pc[i] = "idle" /\ pc'[i] = "fetch"
            /\ new_context'[i] = it[i].m_scan_context
            /\ ~is_end(i) /\ ~HasNextInReply(i) /\ ~OnLastOfScan(i)
            /\ KeepsItsPage(i)
        BY <1>1, <1>10 DEF StartFetch, Idle, TypeOK, IteratorInv
      <3>2. /\ it[i].m_curr_index + 1 = Len(it[i].m_reply)
            /\ it[i].m_scan_context # 0
            /\ it[i].m_scan_context < Len(scan.raw)
        BY <3>1 DEF KeepsItsPage, Constructed, CanDereference, HasNextInReply,
                    OnLastOfScan, MembersOK
      <3>3. KeepsItsPage(i)'
        BY <3>1 DEF KeepsItsPage, Constructed, CanDereference, PageOf, Elements,
                    is_end
      <3>4. LeavesLastOfPage(i)'
        BY <3>1, <3>2 DEF LeavesLastOfPage
      <3>5. SkipsEmptyPages(i)'
        BY <1>1, <3>1, <3>2, ScanFacts DEF SkipsEmptyPages, Pages, MembersOK
      <3> QED
        BY <3>3, <3>4, <3>5 DEF IteratorInv
    <2> QED
      BY <1>1, <1>10, <2>1, <2>2, OtherIterators DEF StartFetch, TypeOK
  <1>11. ASSUME NEW i \in Iterators, FetchMore(i)
         PROVE  TypeOK' /\ \A k \in Iterators : IteratorInv(k)'
    <2> DEFINE p == new_context[i] + 1
    <2>1. /\ it[i] \in MembersOK /\ it' = it /\ scan' = scan /\ pc' = pc
          /\ Fetching(i) /\ SkipsEmptyPages(i)
          /\ new_context[i] \in Nat
          /\ new_context'[i] = CursorAfter(p)
          /\ CursorAfter(p) # 0 /\ scan.raw[p] = <<>>
      BY <1>1, <1>11 DEF FetchMore, Requested, Returned, IteratorInv, TypeOK
    <2>2. p \in Pages /\ CursorAfter(p) = p /\ p < Len(scan.raw)
      BY <1>1, <2>1, ScanFacts DEF SkipsEmptyPages, CursorAfter, Pages
    <2>3. TypeOK'
      <3>1. CursorAfter(p) \in Nat
        BY <1>1, <2>2, ScanFacts
      <3> QED
        BY <1>1, <1>11, <3>1 DEF FetchMore, TypeOK, Returned
    <2>4. SkipsEmptyPages(i)'
      <3>1. /\ it[i].m_scan_context \in Nat
            /\ it[i].m_scan_context <= new_context[i]
            /\ Len(scan.raw) \in Nat
        BY <1>1, <2>1, ScanFacts DEF SkipsEmptyPages, MembersOK
      <3>2. ASSUME NEW q \in Pages, it[i].m_scan_context < q, q <= p
            PROVE  scan.raw[q] = <<>>
        <4>1. q \in Nat /\ (q <= new_context[i] \/ q = p)
          BY <1>1, <2>1, <3>1, <3>2, ScanFacts
        <4> QED
          BY <2>1, <3>2, <4>1 DEF SkipsEmptyPages
      <3>3. new_context'[i] = p /\ p \in Nat /\ it[i].m_scan_context <= p
        BY <2>1, <2>2, <3>1
      <3> HIDE DEF p
      <3> QED
        BY <2>1, <2>2, <3>2, <3>3 DEF SkipsEmptyPages, Pages
    <2>5. (KeepsItsPage(i) /\ LeavesLastOfPage(i))'
      BY <1>1, <2>1 DEF IteratorInv, KeepsItsPage, LeavesLastOfPage, Constructed,
                        CanDereference, PageOf, Elements, is_end
    <2>6. IteratorInv(i)'
      BY <2>4, <2>5 DEF IteratorInv
    <2> QED
      BY <1>1, <1>11, <2>3, <2>6, OtherIterators DEF FetchMore, TypeOK
  <1>12. ASSUME NEW i \in Iterators, FetchLast(i)
         PROVE  TypeOK' /\ \A k \in Iterators : IteratorInv(k)'
    <2> DEFINE p == new_context[i] + 1
    <2>1. /\ scan' = scan /\ pc'[i] = "idle"
          /\ Fetching(i) /\ SkipsEmptyPages(i)
          /\ new_context[i] \in Nat
          /\ it'[i] = [m_reply        |-> Elements(scan.raw[p]),
                       m_scan_context |-> CursorAfter(p),
                       m_curr_index   |-> 0]
          /\ CursorAfter(p) = 0 \/ scan.raw[p] # <<>>
      BY <1>1, <1>12 DEF FetchLast, Requested, Returned, IteratorInv, TypeOK
    <2>2. p \in Pages
      BY <1>1, <2>1, ScanFacts DEF SkipsEmptyPages, Pages
    <2>3. /\ Elements(scan.raw[p]) \in Seq(Seq(Strings))
          /\ Elements(scan.raw[p]) = <<>> <=> scan.raw[p] = <<>>
          /\ CursorAfter(p) \in Nat /\ CursorAfter(p) < Len(scan.raw)
      BY <1>1, <2>2, ScanFacts
    <2>4. it'[i] \in MembersOK
      BY <2>1, <2>3 DEF MembersOK
    <2>5. TypeOK'
      BY <1>1, <1>12, <2>3, <2>4 DEF FetchLast, TypeOK, Returned
    <2>6. KeepsItsPage(i)'
      <3>1. CASE scan.raw[p] = <<>>
        BY <2>1, <2>3, <3>1 DEF KeepsItsPage, is_end
      <3>2. CASE scan.raw[p] # <<>>
        <4>1. PageOf(i)' = p
          BY <1>1, <2>1, <2>2, ScanFacts DEF PageOf, CursorAfter, Pages
        <4>2. Len(it'[i].m_reply) > 0 /\ it'[i].m_reply # <<>>
          <5>1. Elements(scan.raw[p]) # <<>>
            BY <2>3, <3>2
          <5>2. Len(Elements(scan.raw[p])) \in Nat \ {0}
            BY <2>3, <5>1, EmptySeq
          <5> QED
            BY <2>1, <5>1, <5>2
        <4>3. it'[i].m_reply = Elements(scan.raw[PageOf(i)])'
          BY <2>1, <4>1 DEF Elements
        <4>4. CanDereference(i)' /\ it'[i].m_scan_context < Len(scan'.raw)
          BY <2>1, <2>3, <4>2 DEF CanDereference
        <4> QED
          BY <4>3, <4>4 DEF KeepsItsPage
      <3> QED
        BY <3>1, <3>2
    <2>7. IteratorInv(i)'
      BY <2>1, <2>6 DEF IteratorInv, LeavesLastOfPage, SkipsEmptyPages, Fetching
    <2> QED
      BY <1>1, <1>12, <2>5, <2>7, OtherIterators DEF FetchLast, TypeOK
  <1>13. ASSUME NEW i \in Iterators, FetchThrows(i)
         PROVE  TypeOK' /\ \A k \in Iterators : IteratorInv(k)'
    <2>1. TypeOK'
      BY <1>1, <1>13 DEF FetchThrows, TypeOK
    <2>2. IteratorInv(i)'
      BY <1>1, <1>13
      DEF FetchThrows, TypeOK, IteratorInv, KeepsItsPage, LeavesLastOfPage,
          SkipsEmptyPages, Constructed, Fetching, CanDereference, PageOf,
          Elements, is_end
    <2> QED
      BY <1>1, <1>13, <2>1, <2>2, OtherIterators DEF FetchThrows, TypeOK
  <1> QED
    BY <1>4, <1>5, <1>6, <1>7, <1>8, <1>9, <1>10, <1>11, <1>12, <1>13
    DEF Next, increment, Reply

(* IndInv, and with it the type of every variable, holds throughout,       *)
(* whatever the pages and however many iterators walk them.                *)
THEOREM Invariance == Spec => []IndInv
  <1> QED
    BY InitIndInv, NextIndInv, PTL DEF Spec

-----------------------------------------------------------------------------
(* Scan implements ScanWalk.  First, what the positions are and what an    *)
(* iterator's is.                                                          *)

ElementsOn(p) == Elements(scan.raw[p])

LEMMA WalkPages ==
    ASSUME TypeOK
    PROVE  /\ Len([p \in Pages |-> Elements(scan.raw[p])]) = Len(scan.raw)
           /\ Walk!End = <<Len(scan.raw) + 1, 1>>
           /\ \A q : q \in Walk!Positions <=>
                 \E p \in Pages : \E k \in 1..Len(ElementsOn(p)) : q = <<p, k>>
           /\ \A p \in Pages : Len(ElementsOn(p)) \in Nat
  <1>1. Pages = 1..Len(scan.raw) /\ Len(scan.raw) \in Nat
    BY ScanFacts
  <1> DEFINE pages == [p \in Pages |-> Elements(scan.raw[p])]
  <1>2. Len(pages) = Len(scan.raw) /\ \A p \in Pages : pages[p] = ElementsOn(p)
    BY <1>1 DEF ElementsOn
  <1>3. \A p \in Pages : Len(ElementsOn(p)) \in Nat
    BY ScanFacts, EmptySeq DEF ElementsOn
  <1>4. Walk!Positions =
          UNION {{<<p, k>> : k \in 1..Len(pages[p])} : p \in 1..Len(pages)}
    BY DEF Walk!Positions
  <1> HIDE DEF pages
  <1>5. ASSUME NEW q
        PROVE  q \in Walk!Positions <=>
                 \E p \in Pages : \E k \in 1..Len(ElementsOn(p)) : q = <<p, k>>
    BY <1>1, <1>2, <1>4
  <1> QED
    BY <1>2, <1>3, <1>5 DEF Walk!End, pages

(* The next position is where the iterator is taken to. *)
LEMMA Moves ==
    ASSUME TypeOK, UNCHANGED scan, NEW i \in Iterators, NEW a, NEW q,
           q \in Walk!Positions \cup {Walk!End},
           Walk!Before(a, q),
           \A r \in Walk!Positions : Walk!Before(a, r) => r = q \/ Walk!Before(q, r),
           PositionOf(i)' = q,
           ShownBy(i)' = IF q = Walk!End THEN <<>> ELSE ElementsOn(q[1])[q[2]],
           \A k \in Iterators \ {i} : UNCHANGED <<PositionOf(k), ShownBy(k)>>
    PROVE  Walk!MoveBehind(i, a)
  <1>1. q # Walk!End => q[1] \in Pages
    BY WalkPages
  <1> QED
    BY <1>1 DEF Walk!MoveBehind, ElementsOn, Walk!Nothing, Elements, Pages

(* A step of one iterator moves no other. *)
LEMMA OthersStay ==
    ASSUME NEW k \in Iterators, UNCHANGED <<scan, it[k], pc[k]>>
    PROVE  UNCHANGED <<PositionOf(k), ShownBy(k)>>
  BY DEF PositionOf, ShownBy, Constructed, CanDereference, dereference, PageOf,
         is_end

(* Where a constructed iterator is. *)
LEMMA IteratorPosition ==
    ASSUME IndInv, NEW i \in Iterators
    PROVE  /\ ~Constructed(i) => PositionOf(i) = <<0, 0>> /\ ShownBy(i) = <<>>
           /\ Constructed(i) /\ is_end(i) =>
                 PositionOf(i) = <<Len(scan.raw) + 1, 1>> /\ ShownBy(i) = <<>>
           /\ Constructed(i) /\ ~is_end(i) =>
                 /\ PageOf(i) \in Pages
                 /\ it[i].m_curr_index \in Nat
                 /\ it[i].m_reply = ElementsOn(PageOf(i))
                 /\ it[i].m_curr_index < Len(ElementsOn(PageOf(i)))
                 /\ PositionOf(i) = <<PageOf(i), it[i].m_curr_index + 1>>
                 /\ PositionOf(i) \in Walk!Positions
                 /\ ShownBy(i) = ElementsOn(PageOf(i))[it[i].m_curr_index + 1]
           /\ Constructed(i) => PositionOf(i) # <<0, 0>>
  <1>1. TypeOK /\ KeepsItsPage(i) /\ it[i] \in MembersOK
    BY DEF IndInv, TypeOK
  <1>2. ~Constructed(i) => PositionOf(i) = <<0, 0>> /\ ShownBy(i) = <<>>
    BY DEF PositionOf, ShownBy
  <1>3. Constructed(i) /\ is_end(i) =>
           PositionOf(i) = <<Len(scan.raw) + 1, 1>> /\ ShownBy(i) = <<>>
    BY DEF PositionOf, ShownBy, is_end, CanDereference
  <1>4. ASSUME Constructed(i), ~is_end(i)
        PROVE  /\ PageOf(i) \in Pages
               /\ it[i].m_curr_index \in Nat
               /\ it[i].m_reply = ElementsOn(PageOf(i))
               /\ it[i].m_curr_index < Len(ElementsOn(PageOf(i)))
               /\ PositionOf(i) = <<PageOf(i), it[i].m_curr_index + 1>>
               /\ PositionOf(i) \in Walk!Positions
               /\ ShownBy(i) = ElementsOn(PageOf(i))[it[i].m_curr_index + 1]
    <2>1. /\ it[i].m_scan_context < Len(scan.raw)
          /\ it[i].m_reply = ElementsOn(PageOf(i))
          /\ CanDereference(i)
      BY <1>1, <1>4 DEF KeepsItsPage, ElementsOn
    <2>2. it[i].m_scan_context \in Nat /\ it[i].m_curr_index \in Nat
      BY <1>1 DEF MembersOK
    <2>3. PageOf(i) \in Pages
      BY <1>1, <2>1, <2>2, ScanFacts DEF PageOf
    <2>4. it[i].m_curr_index < Len(ElementsOn(PageOf(i)))
      BY <2>1 DEF CanDereference
    <2>5. PositionOf(i) = <<PageOf(i), it[i].m_curr_index + 1>>
      BY <1>4 DEF PositionOf
    <2>6. it[i].m_curr_index + 1 \in 1..Len(ElementsOn(PageOf(i)))
      BY <1>1, <2>2, <2>3, <2>4, WalkPages
    <2>7. PositionOf(i) \in Walk!Positions
      BY <1>1, <2>3, <2>5, <2>6, WalkPages
    <2>8. ShownBy(i) = ElementsOn(PageOf(i))[it[i].m_curr_index + 1]
      BY <1>4, <2>1 DEF ShownBy, dereference
    <2> QED
      BY <2>1, <2>2, <2>3, <2>4, <2>5, <2>7, <2>8
  <1>5. Constructed(i) => PositionOf(i) # <<0, 0>>
    <2>1. Len(scan.raw) + 1 # 0 /\ \A p \in Pages : p # 0
      BY <1>1, ScanFacts
    <2> QED
      BY <1>3, <1>4, <2>1
  <1> QED
    BY <1>2, <1>3, <1>4, <1>5

LEMMA InitWalks == Init => Walk!Init
  BY DEF Init, Walk!Init, Walk!Nowhere, Walk!Nothing, PositionOf, ShownBy, Constructed

(* Steps that show nothing outside. *)
LEMMA HiddenSteps ==
    ASSUME IndInv, NEW i \in Iterators,
           Construct(i) \/ StartFetch(i) \/ FetchMore(i) \/ FetchThrows(i)
    PROVE  UNCHANGED Walk!vars
  <1>1. TypeOK
    BY DEF IndInv
  <1>2. UNCHANGED scan /\ \A k \in Iterators \ {i} : UNCHANGED <<it[k], pc[k]>>
    BY <1>1 DEF TypeOK, Construct, StartFetch, FetchMore, FetchThrows
  <1>3. \A k \in Iterators \ {i} : UNCHANGED <<PositionOf(k), ShownBy(k)>>
    BY <1>2, OthersStay
  <1>4. Constructed(i)' = Constructed(i) /\ (Constructed(i) => it'[i] = it[i])
    BY <1>1 DEF TypeOK, Construct, StartFetch, FetchMore, FetchThrows, Constructed,
                Idle, Fetching
  <1>5. UNCHANGED <<PositionOf(i), ShownBy(i)>>
    BY <1>2, <1>4 DEF PositionOf, ShownBy, CanDereference, dereference, PageOf, is_end
  <1>6. UNCHANGED [p \in Pages |-> Elements(scan.raw[p])]
    BY <1>2 DEF Pages, Elements
  <1> QED
    BY <1>3, <1>5, <1>6 DEF Walk!vars

LEMMA CopyWalks ==
    ASSUME IndInv, NEW i \in Iterators, NEW j \in Iterators, Copy(i, j)
    PROVE  Walk!Copy(i, j)
  <1>1. TypeOK
    BY DEF IndInv
  <1>2. UNCHANGED scan /\ \A k \in Iterators \ {j} : UNCHANGED <<it[k], pc[k]>>
    BY <1>1 DEF TypeOK, Copy
  <1>3. \A k \in Iterators \ {j} : UNCHANGED <<PositionOf(k), ShownBy(k)>>
    BY <1>2, OthersStay
  <1>4. it'[j] = it[i] /\ Constructed(i) /\ Constructed(j)'
    BY <1>1 DEF TypeOK, Copy, Idle, Constructed
  <1>5. PositionOf(j)' = PositionOf(i) /\ ShownBy(j)' = ShownBy(i)
    BY <1>2, <1>4 DEF PositionOf, ShownBy, CanDereference, dereference, PageOf, is_end
  <1>6. UNCHANGED [p \in Pages |-> Elements(scan.raw[p])]
    BY <1>2 DEF Pages, Elements
  <1>7. PositionOf(i) # <<0, 0>>
    BY <1>4, IteratorPosition
  <1> QED
    BY <1>3, <1>5, <1>6, <1>7 DEF Walk!Copy, Walk!Nowhere

LEMMA ConstructEndWalks ==
    ASSUME IndInv, NEW i \in Iterators, ConstructEnd(i)
    PROVE  Walk!BeginAtEnd(i)
  <1>1. TypeOK
    BY DEF IndInv
  <1>2. UNCHANGED scan /\ \A k \in Iterators \ {i} : UNCHANGED <<it[k], pc[k]>>
    BY <1>1 DEF TypeOK, ConstructEnd
  <1>3. \A k \in Iterators \ {i} : UNCHANGED <<PositionOf(k), ShownBy(k)>>
    BY <1>2, OthersStay
  <1>4. it'[i] = AtEnd /\ ~Constructed(i) /\ Constructed(i)'
    BY <1>1 DEF TypeOK, ConstructEnd, Constructed
  <1>5. PositionOf(i) = <<0, 0>> /\ ShownBy(i) = <<>>
    BY <1>4, IteratorPosition
  <1>6. PositionOf(i)' = <<Len(scan.raw) + 1, 1>> /\ ShownBy(i)' = <<>>
    BY <1>2, <1>4 DEF PositionOf, ShownBy, CanDereference, is_end, AtEnd
  <1>7. UNCHANGED [p \in Pages |-> Elements(scan.raw[p])]
    BY <1>2 DEF Pages, Elements
  <1> QED
    BY <1>1, <1>3, <1>5, <1>6, <1>7, WalkPages DEF Walk!BeginAtEnd, Walk!Nowhere

LEMMA StepInReplyWalks ==
    ASSUME IndInv, NEW i \in Iterators, StepInReply(i)
    PROVE  Walk!Advance(i)
  <1> DEFINE p == PageOf(i)
             n == it[i].m_curr_index + 1
             q == <<p, n + 1>>
  <1>1. TypeOK
    BY DEF IndInv
  <1>2. /\ UNCHANGED scan
        /\ \A k \in Iterators \ {i} : UNCHANGED <<it[k], pc[k]>>
        /\ it'[i] = [it[i] EXCEPT !.m_curr_index = n]
        /\ Constructed(i) /\ Constructed(i)'
        /\ ~is_end(i) /\ n < Len(it[i].m_reply)
    BY <1>1 DEF TypeOK, StepInReply, HasNextInReply, Idle, Constructed
  <1>3. /\ p \in Pages /\ n \in Nat \ {0} /\ n < Len(ElementsOn(p))
        /\ it[i].m_reply = ElementsOn(p)
        /\ PositionOf(i) = <<p, n>> /\ <<p, n>> \in Walk!Positions
    BY <1>2, IteratorPosition
  <1>4. /\ it'[i].m_reply = ElementsOn(p)
        /\ it'[i].m_curr_index = n
        /\ PageOf(i)' = p
    BY <1>1, <1>2, <1>3 DEF TypeOK, MembersOK, PageOf
  <1> HIDE DEF p, n
  <1>5. Len(ElementsOn(p)) \in Nat /\ n + 1 \in 1..Len(ElementsOn(p))
    BY <1>1, <1>3, WalkPages
  <1>6. q \in Walk!Positions /\ q # Walk!End
    <2>1. q \in Walk!Positions
      BY <1>1, <1>3, <1>5, WalkPages
    <2>2. p # Len(scan.raw) + 1
      BY <1>1, <1>3, ScanFacts
    <2> QED
      BY <1>1, <2>1, <2>2, WalkPages
  <1>7. Walk!Before(<<p, n>>, q)
    BY <1>1, <1>3, ScanFacts DEF Walk!Before
  <1>8. \A r \in Walk!Positions : Walk!Before(<<p, n>>, r) => r = q \/ Walk!Before(q, r)
    <2> SUFFICES ASSUME NEW s \in Pages, NEW k \in 1..Len(ElementsOn(s)),
                        Walk!Before(<<p, n>>, <<s, k>>)
                 PROVE  <<s, k>> = q \/ Walk!Before(q, <<s, k>>)
      BY <1>1, WalkPages
    <2>1. s \in Nat /\ k \in Nat /\ p \in Nat
      BY <1>1, <1>3, ScanFacts, WalkPages
    <2> QED
      BY <1>3, <2>1 DEF Walk!Before
  <1>9. PositionOf(i)' = q /\ ShownBy(i)' = ElementsOn(p)[n + 1]
    BY <1>2, <1>3, <1>4, <1>5 DEF PositionOf, ShownBy, CanDereference, dereference,
                                   is_end, Constructed
  <1>10. \A k \in Iterators \ {i} : UNCHANGED <<PositionOf(k), ShownBy(k)>>
    BY <1>2, OthersStay
  <1>11. Walk!MoveBehind(i, <<p, n>>)
    <2>1. ShownBy(i)' = IF q = Walk!End THEN <<>> ELSE ElementsOn(q[1])[q[2]]
      BY <1>6, <1>9
    <2> HIDE DEF q
    <2> QED
      BY <1>1, <1>2, <1>6, <1>7, <1>8, <1>9, <1>10, <2>1, Moves
  <1> QED
    BY <1>3, <1>11 DEF Walk!Advance

LEMMA StepPastLastWalks ==
    ASSUME IndInv, NEW i \in Iterators, StepPastLast(i)
    PROVE  Walk!Advance(i)
  <1> DEFINE p == PageOf(i)
             n == it[i].m_curr_index + 1
             q == <<Len(scan.raw) + 1, 1>>
  <1>1. TypeOK
    BY DEF IndInv
  <1>2. /\ UNCHANGED scan
        /\ \A k \in Iterators \ {i} : UNCHANGED <<it[k], pc[k]>>
        /\ it'[i].m_reply = <<>> /\ it'[i].m_curr_index = 0
        /\ it'[i].m_scan_context = it[i].m_scan_context
        /\ Constructed(i) /\ Constructed(i)'
        /\ ~is_end(i) /\ n = Len(it[i].m_reply) /\ it[i].m_scan_context = 0
    BY <1>1 DEF TypeOK, MembersOK, StepPastLast, OnLastOfScan, Idle, Constructed
  <1>3. /\ p \in Pages /\ n = Len(ElementsOn(p)) /\ p = Len(scan.raw)
        /\ PositionOf(i) = <<p, n>> /\ <<p, n>> \in Walk!Positions
    BY <1>2, IteratorPosition DEF PageOf
  <1> HIDE DEF p, n
  <1>4. q = Walk!End /\ Len(scan.raw) \in Nat
    BY <1>1, WalkPages, ScanFacts
  <1>5. Walk!Before(<<p, n>>, q)
    BY <1>3, <1>4 DEF Walk!Before
  <1>6. \A r \in Walk!Positions : ~Walk!Before(<<p, n>>, r)
    <2> SUFFICES ASSUME NEW s \in Pages, NEW k \in 1..Len(ElementsOn(s))
                 PROVE  ~Walk!Before(<<p, n>>, <<s, k>>)
      BY <1>1, WalkPages
    <2>1. s \in 1..Len(scan.raw) /\ k \in 1..Len(ElementsOn(s)) /\ Len(ElementsOn(s)) \in Nat
      BY <1>1, ScanFacts, WalkPages
    <2> QED
      BY <1>3, <1>4, <2>1 DEF Walk!Before
  <1>7. PositionOf(i)' = q /\ ShownBy(i)' = <<>>
    BY <1>2 DEF PositionOf, ShownBy, CanDereference, is_end
  <1>8. \A k \in Iterators \ {i} : UNCHANGED <<PositionOf(k), ShownBy(k)>>
    BY <1>2, OthersStay
  <1>9. Walk!MoveBehind(i, <<p, n>>)
    <2>1. ShownBy(i)' = IF q = Walk!End THEN <<>> ELSE ElementsOn(q[1])[q[2]]
      BY <1>4, <1>7
    <2> HIDE DEF q
    <2> QED
      BY <1>1, <1>2, <1>4, <1>5, <1>6, <1>7, <1>8, <2>1, Moves
  <1> QED
    BY <1>3, <1>9 DEF Walk!Advance

(* The reply that ends the loop: the first element behind the page the     *)
(* loop started from, or the end if there is none.                         *)
LEMMA FetchLastWalks ==
    ASSUME IndInv, NEW i \in Iterators, FetchLast(i)
    PROVE  Walk!Begin(i) \/ Walk!Advance(i)
  <1> DEFINE from == it[i].m_scan_context
             p == new_context[i] + 1
             a == PositionOf(i)
             q == IF scan.raw[p] = <<>> THEN <<Len(scan.raw) + 1, 1>> ELSE <<p, 1>>
  <1>1. TypeOK
    BY DEF IndInv
  <1>2. /\ UNCHANGED scan
        /\ \A k \in Iterators \ {i} : UNCHANGED <<it[k], pc[k]>>
        /\ it'[i] = [m_reply        |-> ElementsOn(p),
                     m_scan_context |-> CursorAfter(p),
                     m_curr_index   |-> 0]
        /\ Fetching(i) /\ Constructed(i)'
        /\ CursorAfter(p) = 0 \/ scan.raw[p] # <<>>
    BY <1>1 DEF TypeOK, FetchLast, Requested, Returned, Constructed, ElementsOn
  <1>3. /\ from \in Nat /\ from <= new_context[i] /\ p \in Pages /\ p \in Nat
        /\ new_context[i] \in Nat /\ new_context[i] < Len(scan.raw)
        /\ \A s \in Pages : from < s /\ s < p => ElementsOn(s) = <<>>
    <2>1. /\ from \in Nat /\ new_context[i] \in Nat
          /\ SkipsEmptyPages(i) /\ Len(scan.raw) \in Nat
      BY <1>1, ScanFacts DEF IndInv, TypeOK, MembersOK
    <2>2. /\ from <= new_context[i] /\ new_context[i] < Len(scan.raw)
          /\ \A s \in Pages : from < s /\ s <= new_context[i] => scan.raw[s] = <<>>
      BY <1>2, <2>1 DEF SkipsEmptyPages
    <2>3. p \in Pages
      BY <1>1, <2>1, <2>2, ScanFacts
    <2>4. ASSUME NEW s \in Pages, from < s, s < p PROVE ElementsOn(s) = <<>>
      <3>1. s \in Nat /\ s <= new_context[i]
        BY <1>1, <2>1, <2>4, ScanFacts
      <3> QED
        BY <1>1, <2>2, <2>4, <3>1, ScanFacts DEF ElementsOn
    <2> QED
      BY <2>1, <2>2, <2>3, <2>4
  <1>4. \/ a = Walk!Nowhere /\ from = 0
        \/ a \in Walk!Positions /\ a = <<from, Len(ElementsOn(from))>>
    <2>1. CASE pc[i] = "build"
      BY <2>1 DEF IndInv, LeavesLastOfPage, PositionOf, Constructed, Walk!Nowhere
    <2>2. CASE pc[i] = "fetch"
      <3>1. from # 0 /\ it[i].m_curr_index + 1 = Len(it[i].m_reply) /\ Constructed(i)
        BY <2>2 DEF IndInv, LeavesLastOfPage, Constructed
      <3>2. ~is_end(i) /\ PageOf(i) = from
        BY <3>1 DEF is_end, PageOf
      <3> QED
        BY <3>1, <3>2, IteratorPosition
    <2> QED
      BY <1>2, <2>1, <2>2 DEF Fetching
  <1>5. /\ scan.raw[p] = <<>> => p = Len(scan.raw) /\ ElementsOn(p) = <<>>
        /\ scan.raw[p] # <<>> => Len(ElementsOn(p)) \in Nat \ {0}
    <2>1. CursorAfter(p) = 0 => p = Len(scan.raw)
      BY <1>3 DEF CursorAfter
    <2>2. ElementsOn(p) = <<>> <=> scan.raw[p] = <<>>
      BY <1>1, <1>3, ScanFacts DEF ElementsOn
    <2>3. ElementsOn(p) # <<>> => Len(ElementsOn(p)) \in Nat \ {0}
      BY <1>1, <1>3, ScanFacts, EmptySeq DEF ElementsOn
    <2> QED
      BY <1>2, <2>1, <2>2, <2>3
  <1>6. q \in Walk!Positions \cup {Walk!End}
    BY <1>1, <1>3, <1>5, WalkPages
  <1>7. q = Walk!End <=> scan.raw[p] = <<>>
    BY <1>1, <1>3, WalkPages
  <1>8. /\ PositionOf(i)' = q
        /\ ShownBy(i)' = IF q = Walk!End THEN <<>> ELSE ElementsOn(q[1])[q[2]]
    <2>1. CASE scan.raw[p] = <<>>
      <3>1. it'[i].m_reply = <<>> /\ it'[i].m_scan_context = 0 /\ it'[i].m_curr_index = 0
        BY <1>2, <1>5, <2>1 DEF CursorAfter
      <3>2. is_end(i)' /\ ~CanDereference(i)'
        BY <3>1 DEF is_end, CanDereference
      <3>3. PositionOf(i)' = <<Len(scan.raw) + 1, 1>> /\ ShownBy(i)' = <<>>
        BY <1>2, <3>2 DEF PositionOf, ShownBy
      <3> QED
        BY <1>7, <2>1, <3>3
    <2>2. CASE scan.raw[p] # <<>>
      <3> DEFINE e == ElementsOn(p)
      <3>1. e # <<>> /\ 0 < Len(e)
        BY <1>1, <1>3, <1>5, <2>2, ScanFacts DEF ElementsOn
      <3>2. it'[i].m_reply = e /\ it'[i].m_curr_index = 0
        BY <1>2
      <3>3. ~is_end(i)' /\ CanDereference(i)'
        BY <3>1, <3>2 DEF is_end, CanDereference
      <3>4. PageOf(i)' = p
        <4>1. it'[i].m_scan_context = CursorAfter(p)
          BY <1>2
        <4>2. p # 0 /\ scan' = scan
          BY <1>2, <1>3
        <4> HIDE DEF p
        <4> QED
          BY <4>1, <4>2 DEF PageOf, CursorAfter
      <3>5. ShownBy(i)' = e[1]
        BY <1>2, <3>2, <3>3 DEF ShownBy, dereference
      <3>6. PositionOf(i)' = <<PageOf(i)', 1>>
        BY <1>2, <3>2, <3>3 DEF PositionOf
      <3> QED
        BY <1>7, <2>2, <3>4, <3>5, <3>6
    <2> QED
      BY <2>1, <2>2
  <1>9. Walk!Before(a, q)
    BY <1>1, <1>3, <1>4, ScanFacts DEF Walk!Before, Walk!Nowhere
  <1>10. \A r \in Walk!Positions : Walk!Before(a, r) => r = q \/ Walk!Before(q, r)
    <2> SUFFICES ASSUME NEW s \in Pages, NEW k \in 1..Len(ElementsOn(s)),
                        Walk!Before(a, <<s, k>>)
                 PROVE  <<s, k>> = q \/ Walk!Before(q, <<s, k>>)
      BY <1>1, WalkPages
    <2>1. s \in 1..Len(scan.raw) /\ k \in Nat \ {0} /\ k <= Len(ElementsOn(s))
      BY <1>1, ScanFacts, WalkPages
    <2>2. ElementsOn(s) # <<>>
      BY <2>1
    <2>3. from < s \/ (s = from /\ Len(ElementsOn(from)) < k)
      BY <1>3, <1>4, <2>1 DEF Walk!Before, Walk!Nowhere
    <2>4. from < s
      <3>1. Len(ElementsOn(s)) \in Nat
        BY <1>1, WalkPages
      <3> QED
        BY <2>1, <2>3, <3>1
    <2>5. p <= s
      BY <1>3, <2>1, <2>2, <2>4
    <2>6. CASE scan.raw[p] = <<>>
      <3>1. s = p
        BY <1>3, <1>5, <2>1, <2>5, <2>6
      <3> QED
        BY <1>5, <2>2, <2>6, <3>1
    <2>7. CASE scan.raw[p] # <<>>
      <3>1. q = <<p, 1>>
        BY <2>7
      <3> HIDE DEF p, q
      <3> QED
        BY <1>3, <2>1, <2>5, <3>1 DEF Walk!Before
    <2> QED
      BY <2>6, <2>7
  <1>11. \A k \in Iterators \ {i} : UNCHANGED <<PositionOf(k), ShownBy(k)>>
    BY <1>2, OthersStay
  <1>12. Walk!MoveBehind(i, a)
    <2> HIDE DEF q, a
    <2> QED
      BY <1>1, <1>2, <1>6, <1>8, <1>9, <1>10, <1>11, Moves
  <1> QED
    BY <1>4, <1>12 DEF Walk!Begin, Walk!Advance

LEMMA NextWalks == IndInv /\ [Next]_vars => [Walk!Next]_(Walk!vars)
  <1> SUFFICES ASSUME IndInv, [Next]_vars
               PROVE  Walk!Next \/ UNCHANGED Walk!vars
    OBVIOUS
  <1>1. CASE UNCHANGED vars
    BY <1>1 DEF vars, Walk!vars, PositionOf, ShownBy, Constructed, CanDereference,
                dereference, PageOf, is_end, Pages, Elements
  <1>2. ASSUME NEW i \in Iterators,
               Construct(i) \/ StartFetch(i) \/ FetchMore(i) \/ FetchThrows(i)
        PROVE  UNCHANGED Walk!vars
    BY <1>2, HiddenSteps
  <1>3. ASSUME NEW i \in Iterators, ConstructEnd(i) PROVE Walk!Next
    BY <1>3, ConstructEndWalks DEF Walk!Next
  <1>4. ASSUME NEW i \in Iterators, NEW j \in Iterators, Copy(i, j) PROVE Walk!Next
    BY <1>4, CopyWalks DEF Walk!Next
  <1>5. ASSUME NEW i \in Iterators, StepInReply(i) \/ StepPastLast(i) PROVE Walk!Next
    BY <1>5, StepInReplyWalks, StepPastLastWalks DEF Walk!Next
  <1>6. ASSUME NEW i \in Iterators, FetchLast(i) PROVE Walk!Next
    BY <1>6, FetchLastWalks DEF Walk!Next
  <1> QED
    BY <1>1, <1>2, <1>3, <1>4, <1>5, <1>6 DEF Next, increment, Reply

(* Scan implements ScanWalk: an iterator walks through every element once  *)
(* and in order, whatever pages the server makes of the scan.              *)
THEOREM Refinement == Spec => WalksTheElements
  <1>1. Init => Walk!Init
    BY InitWalks
  <1>2. IndInv /\ [Next]_vars => [Walk!Next]_(Walk!vars)
    BY NextWalks
  <1>3. WalksTheElements <=> Walk!Init /\ [][Walk!Next]_(Walk!vars)
    BY DEF WalksTheElements, Walk!Spec
  <1> QED
    BY <1>1, <1>2, <1>3, Invariance, PTL DEF Spec

-----------------------------------------------------------------------------
(* Cursor, index and size of the reply tell the elements of a scan apart:  *)
(* equal() means the same position for any two iterators of any scan.      *)
THEOREM EqualTellsPositions == Spec => []EqualIsSameElement
  <1>1. IndInv => EqualIsSameElement
    <2> SUFFICES ASSUME IndInv, NEW i \in Iterators, NEW j \in Iterators,
                        Constructed(i), Constructed(j)
                 PROVE  equal(i, j) <=> PositionOf(i) = PositionOf(j)
      BY DEF EqualIsSameElement
    <2>1. TypeOK
      BY DEF IndInv
    <2>2. CASE is_end(i) \/ is_end(j)
      <3>1. \A p \in Pages : p # Len(scan.raw) + 1
        BY <2>1, ScanFacts
      <3> QED
        BY <2>2, <3>1, IteratorPosition DEF equal
    <2>3. CASE ~is_end(i) /\ ~is_end(j)
      <3>1. \A k \in {i, j} :
               /\ PositionOf(k) = <<PageOf(k), it[k].m_curr_index + 1>>
               /\ it[k].m_curr_index \in Nat
               /\ it[k].m_reply = ElementsOn(PageOf(k))
               /\ it[k].m_scan_context < Len(scan.raw)
               /\ it[k].m_scan_context \in Nat
        BY <2>1, <2>3, IteratorPosition DEF IndInv, KeepsItsPage, TypeOK, MembersOK
      <3>2. PageOf(i) = PageOf(j) <=> it[i].m_scan_context = it[j].m_scan_context
        BY <3>1 DEF PageOf
      <3>3. it[i].m_curr_index + 1 = it[j].m_curr_index + 1
               <=> it[i].m_curr_index = it[j].m_curr_index
        BY <3>1
      <3> QED
        BY <2>3, <3>1, <3>2, <3>3 DEF equal
    <2> QED
      BY <2>2, <2>3
  <1> QED
    BY <1>1, Invariance, PTL
=============================================================================
