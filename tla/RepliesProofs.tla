----------------------------- MODULE RepliesProofs ----------------------------
(***************************************************************************)
(* What the recursive functions of Replies compute, for replies nested to  *)
(* any depth and of any length.  A recursive function is the CHOOSE of one *)
(* that satisfies its equation: that there is one is shown by induction on *)
(* the depth, over sets of numbers.                                        *)
(***************************************************************************)
EXTENDS FacadeProperties, TLAPS, WellFoundedInduction

(* A set with zero and the successors of its numbers has them all. *)
LEMMA NatSetInduction ==
    ASSUME NEW S, 0 \in S, \A n \in Nat : n \in S => n + 1 \in S
    PROVE  Nat \subseteq S
  <1> DEFINE T == Nat \ S
  <1> SUFFICES ASSUME T # {} PROVE FALSE
    OBVIOUS
  <1>1. PICK x \in T : \A y \in T : ~ (<<y, x>> \in OpToRel(<, Nat))
    BY WFMin, NatLessThanWellFounded, T \subseteq Nat
  <1>2. \A y \in T : ~(y < x)
    BY <1>1 DEF OpToRel
  <1> QED
    BY <1>2, x - 1 \in Nat

-----------------------------------------------------------------------------
FlatRaw == [type : {"INTEGER", "STRING", "ERROR", "STATUS", "NIL"},
            integer : Int, str : Strings, element : {<<>>}]
NestedRaw(S) == [type : {"ARRAY"}, integer : {0}, str : {Blank}, element : Seq(S)]

(* RawUpTo is what its definition says. *)
LEMMA RawUpToDef ==
    RawUpTo = [depth \in 0..MaxNesting |->
                  FlatRaw \cup IF depth = 0 THEN {} ELSE NestedRaw(RawUpTo[depth - 1])]
  <1> DEFINE Level(S, depth) == FlatRaw \cup IF depth = 0 THEN {} ELSE NestedRaw(S)
             S == {n \in Nat : \E f : f = [depth \in 0..n |-> Level(f[depth - 1], depth)]}
  <1>1. 0 \in S
    <2> DEFINE f == [depth \in 0..0 |-> FlatRaw]
    <2>1. f = [depth \in 0..0 |-> Level(f[depth - 1], depth)]
      OBVIOUS
    <2> QED
      BY <2>1
  <1>2. \A n \in Nat : n \in S => n + 1 \in S
    <2> SUFFICES ASSUME NEW n \in Nat, n \in S PROVE n + 1 \in S
      OBVIOUS
    <2> HIDE DEF Level
    <2>1. PICK f : f = [depth \in 0..n |-> Level(f[depth - 1], depth)]
      OBVIOUS
    <2> DEFINE g == [depth \in 0..(n + 1) |-> IF depth <= n THEN f[depth] ELSE Level(f[n], n + 1)]
    <2>2. \A depth \in 0..(n + 1) : g[depth] = Level(g[depth - 1], depth)
      <3> SUFFICES ASSUME NEW depth \in 0..(n + 1) PROVE g[depth] = Level(g[depth - 1], depth)
        OBVIOUS
      <3>1. CASE depth = 0
        BY <3>1, <2>1 DEF Level
      <3>2. CASE depth # 0
        <4>1. g[depth - 1] = f[depth - 1]
          BY <3>2
        <4>2. g[depth] = Level(f[depth - 1], depth)
          BY <3>2, <2>1
        <4> QED
          BY <4>1, <4>2
      <3> QED
        BY <3>1, <3>2
    <2>3. g = [depth \in 0..(n + 1) |-> Level(g[depth - 1], depth)]
      BY <2>2
    <2> HIDE DEF g
    <2>4. \E h : h = [depth \in 0..(n + 1) |-> Level(h[depth - 1], depth)]
      BY <2>3
    <2> QED
      BY <2>4
  <1> HIDE DEF S
  <1>3. MaxNesting \in S
    BY <1>1, <1>2, NatSetInduction, RepliesAssumption
  <1>4. \E f : f = [depth \in 0..MaxNesting |-> Level(f[depth - 1], depth)]
    BY <1>3 DEF S
  <1> QED
    BY <1>4 DEF RawUpTo, FlatRaw, NestedRaw

FlatReplies == [which : {"Integer", "String", "Error", "Status", "Nil"},
                integer : Int, str : Strings, array : {<<>>}]
NestedReplies(S) == [which : {"Array"}, integer : {0}, str : {Blank}, array : Seq(S)]

(* RepliesUpTo is what its definition says. *)
LEMMA RepliesUpToDef ==
    RepliesUpTo = [depth \in 0..MaxNesting |->
                  FlatReplies \cup IF depth = 0 THEN {} ELSE NestedReplies(RepliesUpTo[depth - 1])]
  <1> DEFINE Level(S, depth) == FlatReplies \cup IF depth = 0 THEN {} ELSE NestedReplies(S)
             S == {n \in Nat : \E f : f = [depth \in 0..n |-> Level(f[depth - 1], depth)]}
  <1>1. 0 \in S
    <2> DEFINE f == [depth \in 0..0 |-> FlatReplies]
    <2>1. f = [depth \in 0..0 |-> Level(f[depth - 1], depth)]
      OBVIOUS
    <2> QED
      BY <2>1
  <1>2. \A n \in Nat : n \in S => n + 1 \in S
    <2> SUFFICES ASSUME NEW n \in Nat, n \in S PROVE n + 1 \in S
      OBVIOUS
    <2> HIDE DEF Level
    <2>1. PICK f : f = [depth \in 0..n |-> Level(f[depth - 1], depth)]
      OBVIOUS
    <2> DEFINE g == [depth \in 0..(n + 1) |-> IF depth <= n THEN f[depth] ELSE Level(f[n], n + 1)]
    <2>2. \A depth \in 0..(n + 1) : g[depth] = Level(g[depth - 1], depth)
      <3> SUFFICES ASSUME NEW depth \in 0..(n + 1) PROVE g[depth] = Level(g[depth - 1], depth)
        OBVIOUS
      <3>1. CASE depth = 0
        BY <3>1, <2>1 DEF Level
      <3>2. CASE depth # 0
        <4>1. g[depth - 1] = f[depth - 1]
          BY <3>2
        <4>2. g[depth] = Level(f[depth - 1], depth)
          BY <3>2, <2>1
        <4> QED
          BY <4>1, <4>2
      <3> QED
        BY <3>1, <3>2
    <2>3. g = [depth \in 0..(n + 1) |-> Level(g[depth - 1], depth)]
      BY <2>2
    <2> HIDE DEF g
    <2>4. \E h : h = [depth \in 0..(n + 1) |-> Level(h[depth - 1], depth)]
      BY <2>3
    <2> QED
      BY <2>4
  <1> HIDE DEF S
  <1>3. MaxNesting \in S
    BY <1>1, <1>2, NatSetInduction, RepliesAssumption
  <1>4. \E f : f = [depth \in 0..MaxNesting |-> Level(f[depth - 1], depth)]
    BY <1>3 DEF S
  <1> QED
    BY <1>4 DEF RepliesUpTo, FlatReplies, NestedReplies

(* A reply of a depth has elements of one less, and all are replies. *)
LEMMA RawShape ==
    ASSUME NEW depth \in 0..MaxNesting, NEW r \in RawUpTo[depth]
    PROVE  \/ r \in FlatRaw
           \/ depth # 0 /\ r \in NestedRaw(RawUpTo[depth - 1])
  BY RawUpToDef

LEMMA RawLevels ==
    /\ RawUpTo[0] = FlatRaw
    /\ \A depth \in 1..MaxNesting :
          RawUpTo[depth] = FlatRaw \cup NestedRaw(RawUpTo[depth - 1])
  <1> USE RepliesAssumption DEF RepliesAssumption
  <1>1. \A depth \in 0..MaxNesting : RawUpTo[depth] =
           FlatRaw \cup IF depth = 0 THEN {} ELSE NestedRaw(RawUpTo[depth - 1])
    BY RawUpToDef
  <1>2. 0 \in 0..MaxNesting
    OBVIOUS
  <1>3. RawUpTo[0] = FlatRaw
    BY <1>1, <1>2
  <1>4. ASSUME NEW depth \in 1..MaxNesting
        PROVE  RawUpTo[depth] = FlatRaw \cup NestedRaw(RawUpTo[depth - 1])
    <2>1. depth \in 0..MaxNesting /\ depth # 0
      OBVIOUS
    <2> QED
      BY <1>1, <2>1
  <1> QED
    BY <1>3, <1>4

LEMMA RepliesLevels ==
    /\ RepliesUpTo[0] = FlatReplies
    /\ \A depth \in 1..MaxNesting :
          RepliesUpTo[depth] = FlatReplies \cup NestedReplies(RepliesUpTo[depth - 1])
  <1> USE RepliesAssumption DEF RepliesAssumption
  <1>1. \A depth \in 0..MaxNesting : RepliesUpTo[depth] =
           FlatReplies \cup IF depth = 0 THEN {} ELSE NestedReplies(RepliesUpTo[depth - 1])
    BY RepliesUpToDef
  <1>2. 0 \in 0..MaxNesting
    OBVIOUS
  <1>3. RepliesUpTo[0] = FlatReplies
    BY <1>1, <1>2
  <1>4. ASSUME NEW depth \in 1..MaxNesting
        PROVE  RepliesUpTo[depth] = FlatReplies \cup NestedReplies(RepliesUpTo[depth - 1])
    <2>1. depth \in 0..MaxNesting /\ depth # 0
      OBVIOUS
    <2> QED
      BY <1>1, <2>1
  <1> QED
    BY <1>3, <1>4

LEMMA SequenceOf ==
    ASSUME NEW S, NEW n \in Nat, NEW f \in [1..n -> S]
    PROVE  f \in Seq(S) /\ Len(f) = n
  OBVIOUS

LEMMA RawStep ==
    \A depth \in 0..(MaxNesting - 1) : RawUpTo[depth] \subseteq RawUpTo[depth + 1]
  <1> DEFINE S == {n \in Nat : n < MaxNesting => RawUpTo[n] \subseteq RawUpTo[n + 1]}
  <1> USE RepliesAssumption DEF RepliesAssumption
  <1>1. 0 \in S
    <2>1. 0 < MaxNesting => RawUpTo[1] = FlatRaw \cup NestedRaw(RawUpTo[0])
      BY RawLevels
    <2> QED
      BY <2>1, RawLevels
  <1>2. \A n \in Nat : n \in S => n + 1 \in S
    <2> SUFFICES ASSUME NEW n \in Nat, n + 1 < MaxNesting,
                        RawUpTo[n] \subseteq RawUpTo[n + 1]
                 PROVE  RawUpTo[n + 1] \subseteq RawUpTo[n + 1 + 1]
      OBVIOUS
    <2>1. Seq(RawUpTo[n]) \subseteq Seq(RawUpTo[n + 1])
      OBVIOUS
    <2>2. NestedRaw(RawUpTo[n]) \subseteq NestedRaw(RawUpTo[n + 1])
      BY <2>1 DEF NestedRaw
    <2>3. /\ RawUpTo[n + 1] = FlatRaw \cup NestedRaw(RawUpTo[n])
          /\ RawUpTo[n + 1 + 1] = FlatRaw \cup NestedRaw(RawUpTo[n + 1])
      BY RawLevels, n + 1 \in 1..MaxNesting, n + 1 + 1 \in 1..MaxNesting
    <2> QED
      BY <2>2, <2>3
  <1>3. Nat \subseteq S
    BY <1>1, <1>2, NatSetInduction
  <1> QED
    BY <1>3

LEMMA RawBelow ==
    \A depth \in 0..MaxNesting : RawUpTo[depth] \subseteq RawReplies
  <1> DEFINE S == {n \in Nat : n <= MaxNesting => RawUpTo[MaxNesting - n] \subseteq RawReplies}
  <1> USE RepliesAssumption DEF RepliesAssumption
  <1>1. 0 \in S
    BY DEF RawReplies
  <1>2. \A n \in Nat : n \in S => n + 1 \in S
    <2> SUFFICES ASSUME NEW n \in Nat, n + 1 <= MaxNesting,
                        RawUpTo[MaxNesting - n] \subseteq RawReplies
                 PROVE  RawUpTo[MaxNesting - (n + 1)] \subseteq RawReplies
      OBVIOUS
    <2>1. RawUpTo[MaxNesting - (n + 1)] \subseteq RawUpTo[(MaxNesting - (n + 1)) + 1]
      BY RawStep
    <2> QED
      BY <2>1
  <1>3. Nat \subseteq S
    BY <1>1, <1>2, NatSetInduction
  <1> QED
    <2> SUFFICES ASSUME NEW depth \in 0..MaxNesting
                 PROVE  RawUpTo[depth] \subseteq RawReplies
      OBVIOUS
    <2>1. MaxNesting - depth \in S
      BY <1>3
    <2> QED
      BY <2>1

-----------------------------------------------------------------------------
Made(h, q) == [n \in 1..Len(q) |-> h[q[n]]]

LEMMA VariantIs ==
    ASSUME NEW h, NEW r
    PROVE  /\ r.type = "INTEGER" => Variant(h, r) =
                 [which |-> "Integer", integer |-> r.integer, str |-> Blank, array |-> <<>>]
           /\ r.type = "STRING" => Variant(h, r) =
                 [which |-> "String", integer |-> 0, str |-> r.str, array |-> <<>>]
           /\ r.type = "ARRAY" => Variant(h, r) =
                 [which |-> "Array", integer |-> 0, str |-> Blank,
                  array |-> Made(h, r.element)]
           /\ r.type = "ERROR" => Variant(h, r) =
                 [which |-> "Error", integer |-> 0, str |-> r.str, array |-> <<>>]
           /\ r.type = "STATUS" => Variant(h, r) =
                 [which |-> "Status", integer |-> 0, str |-> r.str, array |-> <<>>]
           /\ r.type = "NIL" => Variant(h, r) =
                 [which |-> "Nil", integer |-> 0, str |-> Blank, array |-> <<>>]
  BY DEF Variant, Reply, Made

LEMMA VariantLocal ==
    ASSUME NEW g, NEW h, NEW depth \in 0..MaxNesting, NEW r \in RawUpTo[depth],
           depth # 0 => \A e \in RawUpTo[depth - 1] : g[e] = h[e]
    PROVE  Variant(g, r) = Variant(h, r)
  <1>1. CASE r \in FlatRaw
    BY <1>1, VariantIs DEF FlatRaw
  <1>2. CASE depth # 0 /\ r \in NestedRaw(RawUpTo[depth - 1])
    <2>1. r.type = "ARRAY" /\ r.element \in Seq(RawUpTo[depth - 1])
      BY <1>2 DEF NestedRaw
    <2>2. \A n \in 1..Len(r.element) : g[r.element[n]] = h[r.element[n]]
      BY <2>1, <1>2
    <2>3. Made(g, r.element) = Made(h, r.element)
      BY <2>2 DEF Made
    <2> QED
      BY <2>1, <2>3, VariantIs
  <1> QED
    BY <1>1, <1>2, RawShape

LEMMA MakeDef ==
    make_redis_reply_type = [r \in RawReplies |-> Variant(make_redis_reply_type, r)]
  <1> DEFINE S == {n \in Nat : n <= MaxNesting =>
                     \E h : \A r \in RawUpTo[n] : h[r] = Variant(h, r)}
  <1> USE RepliesAssumption DEF RepliesAssumption
  <1>1. 0 \in S
    <2> DEFINE h == [r \in RawReplies |-> Variant(<<>>, r)]
    <2>1. \A r \in RawUpTo[0] : h[r] = Variant(h, r)
      <3> SUFFICES ASSUME NEW r \in RawUpTo[0] PROVE h[r] = Variant(h, r)
        OBVIOUS
      <3>1. h[r] = Variant(<<>>, r)
        BY RawBelow
      <3> HIDE DEF h
      <3>2. Variant(<<>>, r) = Variant(h, r)
        BY VariantLocal, 0 \in 0..MaxNesting
      <3> QED
        BY <3>1, <3>2
    <2> HIDE DEF h
    <2> QED
      BY <2>1
  <1>2. \A n \in Nat : n \in S => n + 1 \in S
    <2> SUFFICES ASSUME NEW n \in Nat, n + 1 <= MaxNesting,
                        NEW h, \A r \in RawUpTo[n] : h[r] = Variant(h, r)
                 PROVE  \E g : \A r \in RawUpTo[n + 1] : g[r] = Variant(g, r)
      OBVIOUS
    <2> DEFINE g == [r \in RawReplies |-> Variant(h, r)]
    <2>1. \A r \in RawUpTo[n] : g[r] = h[r]
      BY RawBelow
    <2>2. \A r \in RawUpTo[n + 1] : g[r] = Variant(h, r)
      BY RawBelow
    <2> HIDE DEF g
    <2>3. \A r \in RawUpTo[n + 1] : Variant(h, r) = Variant(g, r)
      BY <2>1, VariantLocal
    <2> QED
      BY <2>2, <2>3
  <1>3. Nat \subseteq S
    <2> HIDE DEF S
    <2> QED
      BY <1>1, <1>2, NatSetInduction
  <1>4. PICK h : \A r \in RawReplies : h[r] = Variant(h, r)
    BY <1>3 DEF RawReplies
  <1>5. \E g : g = [r \in RawReplies |-> Variant(g, r)]
    <2> DEFINE g == [r \in RawReplies |-> Variant(h, r)]
    <2>1. \A r \in RawReplies : g[r] = h[r]
      BY <1>4
    <2> HIDE DEF g
    <2>2. \A r \in RawReplies : Variant(h, r) = Variant(g, r)
      <3> SUFFICES ASSUME NEW r \in RawReplies PROVE Variant(h, r) = Variant(g, r)
        OBVIOUS
      <3>1. MaxNesting # 0 => \A e \in RawUpTo[MaxNesting - 1] : h[e] = g[e]
        BY <2>1, RawBelow
      <3> QED
        BY <3>1, VariantLocal DEF RawReplies
    <2>3. g = [r \in RawReplies |-> Variant(g, r)]
      BY <2>2 DEF g
    <2> QED
      BY <2>3
  <1>6. make_redis_reply_type = CHOOSE g : g = [r \in RawReplies |-> Variant(g, r)]
    BY DEF make_redis_reply_type
  <1> QED
    BY <1>5, <1>6

(* A reply of a depth makes a variant of that depth. *)
LEMMA MakeUpTo ==
    \A depth \in 0..MaxNesting : \A r \in RawUpTo[depth] :
        make_redis_reply_type[r] \in RepliesUpTo[depth]
  <1> DEFINE make == make_redis_reply_type
             S == {n \in Nat : n <= MaxNesting =>
                     \A r \in RawUpTo[n] : make[r] \in RepliesUpTo[n]}
  <1> USE RepliesAssumption DEF RepliesAssumption
  <1>1. \A depth \in 0..MaxNesting : \A r \in RawUpTo[depth] :
           r \in FlatRaw => make[r] \in RepliesUpTo[depth]
    <2> SUFFICES ASSUME NEW depth \in 0..MaxNesting, NEW r \in RawUpTo[depth], r \in FlatRaw
                 PROVE  make[r] \in RepliesUpTo[depth]
      OBVIOUS
    <2>1. make[r] = Variant(make, r)
      BY MakeDef, RawBelow
    <2>2. Variant(make, r) \in FlatReplies
      <3> HIDE DEF make
      <3> QED
        BY VariantIs, RepliesAssumption DEF FlatRaw, FlatReplies
    <2> QED
      BY <2>1, <2>2, RepliesUpToDef
  <1>2. 0 \in S
    BY <1>1, RawShape
  <1>3. \A n \in Nat : n \in S => n + 1 \in S
    <2> SUFFICES ASSUME NEW n \in Nat, n + 1 <= MaxNesting,
                        \A r \in RawUpTo[n] : make[r] \in RepliesUpTo[n],
                        NEW r \in RawUpTo[n + 1], r \notin FlatRaw
                 PROVE  make[r] \in RepliesUpTo[n + 1]
      BY <1>1
    <2>1. r \in NestedRaw(RawUpTo[n])
      BY RawShape
    <2>2. make[r] = Variant(make, r)
      BY MakeDef, RawBelow
    <2>3. Made(make, r.element) \in Seq(RepliesUpTo[n])
      <3>1. r.element \in Seq(RawUpTo[n])
        BY <2>1 DEF NestedRaw
      <3>2. [k \in 1..Len(r.element) |-> make[r.element[k]]]
              \in [1..Len(r.element) -> RepliesUpTo[n]]
        BY <3>1
      <3> QED
        BY <3>1, <3>2, SequenceOf DEF Made
    <2>4. Variant(make, r) \in NestedReplies(RepliesUpTo[n])
      <3>1. r.type = "ARRAY"
        BY <2>1 DEF NestedRaw
      <3> HIDE DEF make
      <3> QED
        BY <2>3, <3>1, VariantIs DEF NestedReplies
    <2> QED
      BY <2>2, <2>4, RepliesLevels, n + 1 \in 1..MaxNesting
  <1>4. Nat \subseteq S
    <2> HIDE DEF S
    <2> QED
      BY <1>2, <1>3, NatSetInduction
  <1> QED
    BY <1>4

-----------------------------------------------------------------------------
(* The loop of array_throw_if_failed(): what is found in the first replies *)
(* of q, if h is called for arrays.                                        *)
Found(h, c, q) ==
    CHOOSE found : found = [n \in 0..Len(q) |->
        IF n = 0 THEN NoneFound ELSE CountErrors(h, c, found[n - 1], q[n])]

FoundType == [errors : Nat, shown : Seq(Strings)]

LEMMA FoundDef ==
    ASSUME NEW h, NEW c, NEW q, Len(q) \in Nat
    PROVE  /\ Found(h, c, q)[0] = NoneFound
           /\ \A n \in 1..Len(q) :
                 Found(h, c, q)[n] = CountErrors(h, c, Found(h, c, q)[n - 1], q[n])
  <1> DEFINE Turn(x, n) == CountErrors(h, c, x, q[n])
             Body(f, n) == IF n = 0 THEN NoneFound ELSE Turn(f[n - 1], n)
             S == {m \in Nat : \E f : f = [n \in 0..m |-> Body(f, n)]}
  <1> HIDE DEF Turn
  <1>1. 0 \in S
    <2> DEFINE f == [n \in 0..0 |-> NoneFound]
    <2>1. f = [n \in 0..0 |-> Body(f, n)]
      OBVIOUS
    <2> HIDE DEF f
    <2> QED
      BY <2>1
  <1>2. \A m \in Nat : m \in S => m + 1 \in S
    <2> SUFFICES ASSUME NEW m \in Nat, m \in S PROVE m + 1 \in S
      OBVIOUS
    <2> HIDE DEF Body
    <2>0. PICK f : f = [n \in 0..m |-> Body(f, n)]
      OBVIOUS
    <2> USE DEF Body
    <2> DEFINE g == [n \in 0..(m + 1) |-> IF n <= m THEN f[n] ELSE Turn(f[m], m + 1)]
    <2>1. \A n \in 0..(m + 1) : g[n] = Body(g, n)
      <3> SUFFICES ASSUME NEW n \in 0..(m + 1) PROVE g[n] = Body(g, n)
        OBVIOUS
      <3>1. CASE n = 0
        BY <3>1, <2>0
      <3>2. CASE n # 0
        <4>1. g[n - 1] = f[n - 1]
          BY <3>2
        <4>2. g[n] = Turn(f[n - 1], n)
          <5>1. CASE n <= m
            BY <5>1, <3>2, <2>0
          <5>2. CASE n = m + 1
            BY <5>2
          <5> QED
            BY <5>1, <5>2
        <4> QED
          BY <4>1, <4>2, <3>2
      <3> QED
        BY <3>1, <3>2
    <2>2. g = [n \in 0..(m + 1) |-> Body(g, n)]
      BY <2>1
    <2> HIDE DEF g, Body
    <2>3. \E k : k = [n \in 0..(m + 1) |-> Body(k, n)]
      BY <2>2
    <2> QED
      BY <2>3
  <1>3. Len(q) \in S
    <2> HIDE DEF S
    <2> QED
      BY <1>1, <1>2, NatSetInduction
  <1>4. PICK f : f = [n \in 0..Len(q) |-> Body(f, n)]
    BY <1>3
  <1>5. Found(h, c, q) = [n \in 0..Len(q) |-> Body(Found(h, c, q), n)]
    BY <1>4 DEF Found, Turn
  <1> HIDE DEF Body
  <1>6. \A n \in 0..Len(q) : Found(h, c, q)[n] = Body(Found(h, c, q), n)
    BY <1>5
  <1> QED
    BY <1>6 DEF Body, Turn

(* g and h are the same, and find what can be found, in arrays of a lower  *)
(* depth.                                                                  *)
AgreeBelow(g, h, depth) ==
    depth # 0 => \A k \in Nat, s \in Seq(RepliesUpTo[depth - 1]) :
                     g[<<k, s>>] = h[<<k, s>>] /\ g[<<k, s>>] \in FoundType

(* What the loop finds does not depend on calls for arrays of this depth. *)
LEMMA TurnLocal ==
    ASSUME NEW g, NEW h, NEW c \in Nat, NEW depth \in 0..MaxNesting,
           NEW rep \in RepliesUpTo[depth], NEW found \in FoundType,
           AgreeBelow(g, h, depth)
    PROVE  /\ CountErrors(g, c, found, rep) = CountErrors(h, c, found, rep)
           /\ CountErrors(g, c, found, rep) \in FoundType
  <1>1. CASE rep \in FlatReplies
    <2>1. rep.which # "Array" /\ rep.str \in Strings
      BY <1>1 DEF FlatReplies
    <2>2. found.errors + 1 \in Nat /\ Append(found.shown, rep.str) \in Seq(Strings)
      BY <2>1 DEF FoundType
    <2> QED
      BY <2>1, <2>2 DEF CountErrors, FoundType
  <1>2. CASE depth # 0 /\ rep \in NestedReplies(RepliesUpTo[depth - 1])
    <2>1. rep.which = "Array" /\ rep.array \in Seq(RepliesUpTo[depth - 1])
      BY <1>2 DEF NestedReplies
    <2> DEFINE inner == g[<<found.errors + c, rep.array>>]
    <2>2. inner = h[<<found.errors + c, rep.array>>] /\ inner \in FoundType
      BY <2>1, <1>2 DEF FoundType, AgreeBelow
    <2> HIDE DEF inner
    <2>3. /\ found.errors + inner.errors \in Nat
          /\ found.shown \o inner.shown \in Seq(Strings)
      BY <2>2 DEF FoundType
    <2>4. /\ CountErrors(h, c, found, rep) =
                [errors |-> found.errors + inner.errors,
                 shown |-> found.shown \o inner.shown]
          /\ CountErrors(g, c, found, rep) =
                [errors |-> found.errors + inner.errors,
                 shown |-> found.shown \o inner.shown]
      BY <2>1, <2>2 DEF CountErrors, inner
    <2> QED
      BY <2>3, <2>4 DEF FoundType
  <1>3. rep \in FlatReplies \/ (depth # 0 /\ rep \in NestedReplies(RepliesUpTo[depth - 1]))
    BY RepliesUpToDef
  <1> QED
    BY <1>1, <1>2, <1>3

LEMMA FoundLocal ==
    ASSUME NEW g, NEW h, NEW c \in Nat, NEW depth \in 0..MaxNesting,
           NEW q \in Seq(RepliesUpTo[depth]),
           AgreeBelow(g, h, depth)
    PROVE  \A n \in 0..Len(q) :
              Found(g, c, q)[n] = Found(h, c, q)[n] /\ Found(g, c, q)[n] \in FoundType
  <1> DEFINE F == Found(g, c, q)
             H == Found(h, c, q)
             S == {n \in Nat : n <= Len(q) => F[n] = H[n] /\ F[n] \in FoundType}
  <1>1. /\ F[0] = NoneFound /\ H[0] = NoneFound
        /\ \A n \in 1..Len(q) : /\ F[n] = CountErrors(g, c, F[n - 1], q[n])
                                /\ H[n] = CountErrors(h, c, H[n - 1], q[n])
    BY FoundDef
  <1> HIDE DEF F, H
  <1>2. 0 \in S
    <2>1. NoneFound \in FoundType
      <3>1. <<>> \in Seq(Strings)
        OBVIOUS
      <3> QED
        BY <3>1 DEF NoneFound, FoundType
    <2> QED
      BY <1>1, <2>1
  <1>3. \A n \in Nat : n \in S => n + 1 \in S
    <2> SUFFICES ASSUME NEW n \in Nat, n + 1 <= Len(q), F[n] = H[n], F[n] \in FoundType
                 PROVE  F[n + 1] = H[n + 1] /\ F[n + 1] \in FoundType
      OBVIOUS
    <2>1. q[n + 1] \in RepliesUpTo[depth]
      OBVIOUS
    <2>2. /\ F[n + 1] = CountErrors(g, c, F[n], q[n + 1])
          /\ H[n + 1] = CountErrors(h, c, F[n], q[n + 1])
      BY <1>1, n + 1 \in 1..Len(q), (n + 1) - 1 = n
    <2> QED
      BY <2>1, <2>2, TurnLocal
  <1>4. Nat \subseteq S
    <2> HIDE DEF S
    <2> QED
      BY <1>2, <1>3, NatSetInduction
  <1> QED
    BY <1>4 DEF F, H

Total(h, c, q) == Found(h, c, q)[Len(q)]

LEMMA TotalLocal ==
    ASSUME NEW g, NEW h, NEW c \in Nat, NEW depth \in 0..MaxNesting,
           NEW q \in Seq(RepliesUpTo[depth]),
           AgreeBelow(g, h, depth)
    PROVE  Total(g, c, q) = Total(h, c, q) /\ Total(g, c, q) \in FoundType
  BY FoundLocal, Len(q) \in 0..Len(q) DEF Total

LEMMA RepliesStep ==
    \A depth \in 0..(MaxNesting - 1) : RepliesUpTo[depth] \subseteq RepliesUpTo[depth + 1]
  <1> DEFINE S == {n \in Nat : n < MaxNesting => RepliesUpTo[n] \subseteq RepliesUpTo[n + 1]}
  <1> USE RepliesAssumption DEF RepliesAssumption
  <1>1. 0 \in S
    <2>1. 0 < MaxNesting => RepliesUpTo[1] = FlatReplies \cup NestedReplies(RepliesUpTo[0])
      BY RepliesLevels
    <2> QED
      BY <2>1, RepliesLevels
  <1>2. \A n \in Nat : n \in S => n + 1 \in S
    <2> SUFFICES ASSUME NEW n \in Nat, n + 1 < MaxNesting,
                        RepliesUpTo[n] \subseteq RepliesUpTo[n + 1]
                 PROVE  RepliesUpTo[n + 1] \subseteq RepliesUpTo[n + 1 + 1]
      OBVIOUS
    <2>1. Seq(RepliesUpTo[n]) \subseteq Seq(RepliesUpTo[n + 1])
      OBVIOUS
    <2>2. NestedReplies(RepliesUpTo[n]) \subseteq NestedReplies(RepliesUpTo[n + 1])
      BY <2>1 DEF NestedReplies
    <2>3. /\ RepliesUpTo[n + 1] = FlatReplies \cup NestedReplies(RepliesUpTo[n])
          /\ RepliesUpTo[n + 1 + 1] = FlatReplies \cup NestedReplies(RepliesUpTo[n + 1])
      BY RepliesLevels, n + 1 \in 1..MaxNesting, n + 1 + 1 \in 1..MaxNesting
    <2> QED
      BY <2>2, <2>3
  <1>3. Nat \subseteq S
    BY <1>1, <1>2, NatSetInduction
  <1> QED
    BY <1>3

LEMMA RepliesBelow ==
    \A depth \in 0..MaxNesting : Seq(RepliesUpTo[depth]) \subseteq Seq(Replies)
  <1> DEFINE S == {n \in Nat : n <= MaxNesting => RepliesUpTo[MaxNesting - n] \subseteq Replies}
  <1> USE RepliesAssumption DEF RepliesAssumption
  <1>1. 0 \in S
    BY DEF Replies
  <1>2. \A n \in Nat : n \in S => n + 1 \in S
    <2> SUFFICES ASSUME NEW n \in Nat, n + 1 <= MaxNesting,
                        RepliesUpTo[MaxNesting - n] \subseteq Replies
                 PROVE  RepliesUpTo[MaxNesting - (n + 1)] \subseteq Replies
      OBVIOUS
    <2>1. RepliesUpTo[MaxNesting - (n + 1)] \subseteq RepliesUpTo[(MaxNesting - (n + 1)) + 1]
      BY RepliesStep
    <2> QED
      BY <2>1
  <1>3. Nat \subseteq S
    BY <1>1, <1>2, NatSetInduction
  <1> QED
    <2> SUFFICES ASSUME NEW depth \in 0..MaxNesting
                 PROVE  RepliesUpTo[depth] \subseteq Replies
      OBVIOUS
    <2>1. MaxNesting - depth \in S
      BY <1>3
    <2> QED
      BY <2>1

(* h answers for arrays of the depth as the function called must. *)
Counts(h, depth) ==
    \A c \in Nat, q \in Seq(RepliesUpTo[depth]) :
        h[<<c, q>>] = Total(h, c, q) /\ h[<<c, q>>] \in FoundType

(* array_throw_if_failed() is the loop, with calls of itself for arrays. *)
LEMMA ThrowDef ==
    \A c \in Nat, q \in Seq(Replies) :
        /\ array_throw_if_failed[<<c, q>>] = Total(array_throw_if_failed, c, q)
        /\ array_throw_if_failed[<<c, q>>] \in FoundType
  <1> DEFINE Calls == Nat \X Seq(Replies)
             Step(h) == [call \in Calls |-> Total(h, call[1], call[2])]
             S == {n \in Nat : n <= MaxNesting => \E h : Counts(h, n)}
  <1> USE RepliesAssumption DEF RepliesAssumption
  <1>1. ASSUME NEW h PROVE \A c \in Nat, q \in Seq(Replies) : Step(h)[<<c, q>>] = Total(h, c, q)
    OBVIOUS
  <1>2. ASSUME NEW h, NEW depth \in 0..MaxNesting, depth # 0 => Counts(h, depth - 1)
        PROVE  Counts(Step(h), depth)
    <2> DEFINE g == Step(h)
    <2>1. \A c \in Nat, q \in Seq(RepliesUpTo[depth]) : g[<<c, q>>] = Total(h, c, q)
      BY <1>1, RepliesBelow
    <2>2. AgreeBelow(h, g, depth)
      <3> SUFFICES ASSUME depth # 0, NEW k \in Nat, NEW s \in Seq(RepliesUpTo[depth - 1])
                   PROVE  h[<<k, s>>] = g[<<k, s>>] /\ h[<<k, s>>] \in FoundType
        BY DEF AgreeBelow
      <3>1. h[<<k, s>>] = Total(h, k, s) /\ h[<<k, s>>] \in FoundType
        BY <1>2 DEF Counts
      <3>2. s \in Seq(Replies)
        BY RepliesBelow, depth - 1 \in 0..MaxNesting
      <3>3. g[<<k, s>>] = Total(h, k, s)
        BY <1>1, <3>2
      <3> QED
        BY <3>1, <3>3
    <2> HIDE DEF g, Step
    <2>3. \A c \in Nat, q \in Seq(RepliesUpTo[depth]) :
             Total(h, c, q) = Total(g, c, q) /\ Total(h, c, q) \in FoundType
      BY <2>2, TotalLocal
    <2>4. Counts(g, depth)
      BY <2>1, <2>3 DEF Counts
    <2> QED
      BY <2>4 DEF g
  <1> HIDE DEF Step
  <1>3. 0 \in S
    BY <1>2, 0 \in 0..MaxNesting
  <1>4. \A n \in Nat : n \in S => n + 1 \in S
    <2> SUFFICES ASSUME NEW n \in Nat, n + 1 <= MaxNesting, NEW h, Counts(h, n)
                 PROVE  \E g : Counts(g, n + 1)
      OBVIOUS
    <2>1. Counts(Step(h), n + 1)
      BY <1>2, n + 1 \in 0..MaxNesting, (n + 1) - 1 = n
    <2> QED
      BY <2>1
  <1>5. Nat \subseteq S
    <2> HIDE DEF S
    <2> QED
      BY <1>3, <1>4, NatSetInduction
  <1>6. PICK h : Counts(h, MaxNesting)
    BY <1>5
  <1> DEFINE g == Step(h)
  <1>7. \A c \in Nat, q \in Seq(Replies) : g[<<c, q>>] = Total(g, c, q)
    <2>1. Counts(g, MaxNesting)
      <3>1. MaxNesting # 0 => Counts(h, MaxNesting - 1)
        <4> SUFFICES ASSUME MaxNesting # 0, NEW c \in Nat, NEW q \in Seq(RepliesUpTo[MaxNesting - 1])
                     PROVE  h[<<c, q>>] = Total(h, c, q) /\ h[<<c, q>>] \in FoundType
          BY DEF Counts
        <4>1. q \in Seq(RepliesUpTo[MaxNesting])
          BY RepliesBelow, MaxNesting - 1 \in 0..MaxNesting DEF Replies
        <4> QED
          BY <1>6, <4>1 DEF Counts
      <3> HIDE DEF g
      <3> QED
        BY <1>2, <3>1, MaxNesting \in 0..MaxNesting DEF g
    <2> HIDE DEF g
    <2> QED
      BY <2>1 DEF Counts, Replies
  <1>8. g = [call \in Calls |-> Total(g, call[1], call[2])]
    <2>1. g = [call \in Calls |-> Total(h, call[1], call[2])]
      BY DEF Step
    <2>2. \A call \in Calls : call = <<call[1], call[2]>> /\ call[1] \in Nat /\ call[2] \in Seq(Replies)
      OBVIOUS
    <2>3. \A call \in Calls : g[call] = Total(h, call[1], call[2])
      BY <2>1
    <2> HIDE DEF g
    <2>4. \A call \in Calls : Total(h, call[1], call[2]) = Total(g, call[1], call[2])
      BY <2>2, <2>3, <1>7
    <2> QED
      BY <2>1, <2>4
  <1> HIDE DEF g
  <1>9. array_throw_if_failed =
           CHOOSE f : f = [call \in Calls |-> Total(f, call[1], call[2])]
    BY DEF array_throw_if_failed, Total, Found
  <1>10. array_throw_if_failed =
            [call \in Calls |-> Total(array_throw_if_failed, call[1], call[2])]
    BY <1>8, <1>9
  <1>11. array_throw_if_failed = Step(array_throw_if_failed)
    BY <1>10 DEF Step
  <1> DEFINE T == {n \in Nat : n <= MaxNesting => Counts(array_throw_if_failed, n)}
  <1>12. 0 \in T
    BY <1>2, <1>11, 0 \in 0..MaxNesting
  <1>13. \A n \in Nat : n \in T => n + 1 \in T
    <2> SUFFICES ASSUME NEW n \in Nat, n + 1 <= MaxNesting, Counts(array_throw_if_failed, n)
                 PROVE  Counts(array_throw_if_failed, n + 1)
      OBVIOUS
    <2> QED
      BY <1>2, <1>11, n + 1 \in 0..MaxNesting, (n + 1) - 1 = n
  <1>14. Nat \subseteq T
    <2> HIDE DEF T
    <2> QED
      BY <1>12, <1>13, NatSetInduction
  <1>15. Counts(array_throw_if_failed, MaxNesting)
    BY <1>14
  <1> QED
    BY <1>15 DEF Counts, Replies

-----------------------------------------------------------------------------
(* The errors in the first replies of q, if h holds those of arrays. *)
UpTo(h, q) ==
    CHOOSE upto : upto = [n \in 0..Len(q) |->
        IF n = 0 THEN <<>> ELSE upto[n - 1] \o ErrorsIn(h, q[n])]

LEMMA UpToDef ==
    ASSUME NEW h, NEW q, Len(q) \in Nat
    PROVE  /\ UpTo(h, q)[0] = <<>>
           /\ \A n \in 1..Len(q) : UpTo(h, q)[n] = UpTo(h, q)[n - 1] \o ErrorsIn(h, q[n])
  <1> DEFINE Turn(x, n) == x \o ErrorsIn(h, q[n])
             Body(f, n) == IF n = 0 THEN <<>> ELSE Turn(f[n - 1], n)
             S == {m \in Nat : \E f : f = [n \in 0..m |-> Body(f, n)]}
  <1> HIDE DEF Turn
  <1>1. 0 \in S
    <2> DEFINE f == [n \in 0..0 |-> <<>>]
    <2>1. f = [n \in 0..0 |-> Body(f, n)]
      OBVIOUS
    <2> HIDE DEF f
    <2> QED
      BY <2>1
  <1>2. \A m \in Nat : m \in S => m + 1 \in S
    <2> SUFFICES ASSUME NEW m \in Nat, m \in S PROVE m + 1 \in S
      OBVIOUS
    <2> HIDE DEF Body
    <2>0. PICK f : f = [n \in 0..m |-> Body(f, n)]
      OBVIOUS
    <2> USE DEF Body
    <2> DEFINE g == [n \in 0..(m + 1) |-> IF n <= m THEN f[n] ELSE Turn(f[m], m + 1)]
    <2>1. \A n \in 0..(m + 1) : g[n] = Body(g, n)
      <3> SUFFICES ASSUME NEW n \in 0..(m + 1) PROVE g[n] = Body(g, n)
        OBVIOUS
      <3>1. CASE n = 0
        BY <3>1, <2>0
      <3>2. CASE n # 0
        <4>1. g[n - 1] = f[n - 1]
          BY <3>2
        <4>2. g[n] = Turn(f[n - 1], n)
          <5>1. CASE n <= m
            BY <5>1, <3>2, <2>0
          <5>2. CASE n = m + 1
            BY <5>2
          <5> QED
            BY <5>1, <5>2
        <4> QED
          BY <4>1, <4>2, <3>2
      <3> QED
        BY <3>1, <3>2
    <2>2. g = [n \in 0..(m + 1) |-> Body(g, n)]
      BY <2>1
    <2> HIDE DEF g, Body
    <2>3. \E k : k = [n \in 0..(m + 1) |-> Body(k, n)]
      BY <2>2
    <2> QED
      BY <2>3
  <1>3. Len(q) \in S
    <2> HIDE DEF S
    <2> QED
      BY <1>1, <1>2, NatSetInduction
  <1>4. PICK f : f = [n \in 0..Len(q) |-> Body(f, n)]
    BY <1>3
  <1>5. UpTo(h, q) = [n \in 0..Len(q) |-> Body(UpTo(h, q), n)]
    BY <1>4 DEF UpTo, Turn
  <1> HIDE DEF Body
  <1>6. \A n \in 0..Len(q) : UpTo(h, q)[n] = Body(UpTo(h, q), n)
    BY <1>5
  <1>7. UpTo(h, q)[0] = <<>>
    BY <1>6 DEF Body
  <1>8. \A n \in 1..Len(q) : UpTo(h, q)[n] = Turn(UpTo(h, q)[n - 1], n)
    BY <1>6 DEF Body
  <1> QED
    BY <1>7, <1>8 DEF Turn

ErrorsOf(h, q) == UpTo(h, q)[Len(q)]

(* g and h are the same, and sequences, in arrays of a lower depth. *)
SameBelow(g, h, depth) ==
    depth # 0 => \A s \in Seq(RawUpTo[depth - 1]) : g[s] = h[s] /\ g[s] \in Seq(Strings)

LEMMA ErrorsInLocal ==
    ASSUME NEW g, NEW h, NEW depth \in 0..MaxNesting, NEW r \in RawUpTo[depth],
           SameBelow(g, h, depth)
    PROVE  ErrorsIn(g, r) = ErrorsIn(h, r) /\ ErrorsIn(g, r) \in Seq(Strings)
  <1>1. CASE r \in FlatRaw
    <2>1. r.type # "ARRAY" /\ r.str \in Strings
      BY <1>1 DEF FlatRaw
    <2>2. <<r.str>> \in Seq(Strings) /\ <<>> \in Seq(Strings)
      BY <2>1
    <2> QED
      BY <2>1, <2>2 DEF ErrorsIn
  <1>2. CASE depth # 0 /\ r \in NestedRaw(RawUpTo[depth - 1])
    <2>1. r.type = "ARRAY" /\ r.element \in Seq(RawUpTo[depth - 1])
      BY <1>2 DEF NestedRaw
    <2> QED
      BY <2>1, <1>2 DEF ErrorsIn, SameBelow
  <1> QED
    BY <1>1, <1>2, RawShape

LEMMA ErrorsOfLocal ==
    ASSUME NEW g, NEW h, NEW depth \in 0..MaxNesting, NEW q \in Seq(RawUpTo[depth]),
           SameBelow(g, h, depth)
    PROVE  ErrorsOf(g, q) = ErrorsOf(h, q) /\ ErrorsOf(g, q) \in Seq(Strings)
  <1> DEFINE F == UpTo(g, q)
             H == UpTo(h, q)
             S == {n \in Nat : n <= Len(q) => F[n] = H[n] /\ F[n] \in Seq(Strings)}
  <1>1. /\ F[0] = <<>> /\ H[0] = <<>>
        /\ \A n \in 1..Len(q) : /\ F[n] = F[n - 1] \o ErrorsIn(g, q[n])
                                /\ H[n] = H[n - 1] \o ErrorsIn(h, q[n])
    <2>1. Len(q) \in Nat
      OBVIOUS
    <2>2. /\ F[0] = <<>>
          /\ \A n \in 1..Len(q) : F[n] = F[n - 1] \o ErrorsIn(g, q[n])
      BY <2>1, UpToDef, Zenon
    <2>3. /\ H[0] = <<>>
          /\ \A n \in 1..Len(q) : H[n] = H[n - 1] \o ErrorsIn(h, q[n])
      BY <2>1, UpToDef, Zenon
    <2> QED
      BY <2>2, <2>3
  <1> HIDE DEF F, H
  <1>2. 0 \in S
    <2>1. <<>> \in Seq(Strings)
      OBVIOUS
    <2> QED
      BY <1>1, <2>1
  <1>3. \A n \in Nat : n \in S => n + 1 \in S
    <2> SUFFICES ASSUME NEW n \in Nat, n + 1 <= Len(q), F[n] = H[n], F[n] \in Seq(Strings)
                 PROVE  F[n + 1] = H[n + 1] /\ F[n + 1] \in Seq(Strings)
      OBVIOUS
    <2>1. q[n + 1] \in RawUpTo[depth]
      OBVIOUS
    <2>2. /\ F[n + 1] = F[n] \o ErrorsIn(g, q[n + 1])
          /\ H[n + 1] = F[n] \o ErrorsIn(h, q[n + 1])
      BY <1>1, n + 1 \in 1..Len(q), (n + 1) - 1 = n
    <2>3. ErrorsIn(g, q[n + 1]) = ErrorsIn(h, q[n + 1]) /\ ErrorsIn(g, q[n + 1]) \in Seq(Strings)
      BY <2>1, ErrorsInLocal
    <2> QED
      BY <2>2, <2>3
  <1>4. Nat \subseteq S
    <2> HIDE DEF S
    <2> QED
      BY <1>2, <1>3, NatSetInduction
  <1> QED
    BY <1>4, Len(q) \in Nat DEF F, H, ErrorsOf

(* h holds the errors of the replies of the depth. *)
Sums(h, depth) ==
    \A q \in Seq(RawUpTo[depth]) : h[q] = ErrorsOf(h, q) /\ h[q] \in Seq(Strings)

LEMMA ErrorsDef ==
    \A q \in Seq(RawReplies) : Errors[q] = ErrorsOf(Errors, q) /\ Errors[q] \in Seq(Strings)
  <1> DEFINE Step(h) == [q \in Seq(RawReplies) |-> ErrorsOf(h, q)]
             S == {n \in Nat : n <= MaxNesting => \E h : Sums(h, n)}
  <1> USE RepliesAssumption DEF RepliesAssumption
  <1>0. \A depth \in 0..MaxNesting : Seq(RawUpTo[depth]) \subseteq Seq(RawReplies)
    BY RawBelow
  <1>1. ASSUME NEW h PROVE \A q \in Seq(RawReplies) : Step(h)[q] = ErrorsOf(h, q)
    OBVIOUS
  <1>2. ASSUME NEW h, NEW depth \in 0..MaxNesting, depth # 0 => Sums(h, depth - 1)
        PROVE  Sums(Step(h), depth)
    <2> DEFINE g == Step(h)
    <2>1. \A q \in Seq(RawUpTo[depth]) : g[q] = ErrorsOf(h, q)
      BY <1>1, <1>0
    <2>2. SameBelow(h, g, depth)
      <3> SUFFICES ASSUME depth # 0, NEW s \in Seq(RawUpTo[depth - 1])
                   PROVE  h[s] = g[s] /\ h[s] \in Seq(Strings)
        BY DEF SameBelow
      <3>1. h[s] = ErrorsOf(h, s) /\ h[s] \in Seq(Strings)
        BY <1>2 DEF Sums
      <3>2. s \in Seq(RawReplies)
        BY <1>0, depth - 1 \in 0..MaxNesting
      <3>3. g[s] = ErrorsOf(h, s)
        BY <1>1, <3>2
      <3> QED
        BY <3>1, <3>3
    <2> HIDE DEF g, Step
    <2>3. \A q \in Seq(RawUpTo[depth]) : ErrorsOf(h, q) = ErrorsOf(g, q) /\ ErrorsOf(h, q) \in Seq(Strings)
      BY <2>2, ErrorsOfLocal
    <2>4. Sums(g, depth)
      BY <2>1, <2>3 DEF Sums
    <2> QED
      BY <2>4 DEF g
  <1> HIDE DEF Step
  <1>3. 0 \in S
    BY <1>2, 0 \in 0..MaxNesting
  <1>4. \A n \in Nat : n \in S => n + 1 \in S
    <2> SUFFICES ASSUME NEW n \in Nat, n + 1 <= MaxNesting, NEW h, Sums(h, n)
                 PROVE  \E g : Sums(g, n + 1)
      OBVIOUS
    <2>1. Sums(Step(h), n + 1)
      BY <1>2, n + 1 \in 0..MaxNesting, (n + 1) - 1 = n
    <2> QED
      BY <2>1
  <1>5. Nat \subseteq S
    <2> HIDE DEF S
    <2> QED
      BY <1>3, <1>4, NatSetInduction
  <1>6. PICK h : Sums(h, MaxNesting)
    BY <1>5
  <1>7. h = h /\ \A q \in Seq(RawReplies) : Step(h)[q] = h[q]
    BY <1>1, <1>6 DEF Sums, RawReplies
  <1> DEFINE g == Step(h)
  <1>8. g = [q \in Seq(RawReplies) |-> ErrorsOf(g, q)]
    <2>1. Sums(g, MaxNesting)
      <3>1. MaxNesting # 0 => Sums(h, MaxNesting - 1)
        <4> SUFFICES ASSUME MaxNesting # 0, NEW q \in Seq(RawUpTo[MaxNesting - 1])
                     PROVE  h[q] = ErrorsOf(h, q) /\ h[q] \in Seq(Strings)
          BY DEF Sums
        <4>1. q \in Seq(RawUpTo[MaxNesting])
          BY <1>0, MaxNesting - 1 \in 0..MaxNesting DEF RawReplies
        <4> QED
          BY <1>6, <4>1 DEF Sums
      <3> HIDE DEF g
      <3> QED
        BY <1>2, <3>1, MaxNesting \in 0..MaxNesting DEF g
    <2>2. g = [q \in Seq(RawReplies) |-> ErrorsOf(h, q)]
      BY DEF Step
    <2> HIDE DEF g
    <2>3. \A q \in Seq(RawReplies) : ErrorsOf(h, q) = ErrorsOf(g, q)
      BY <2>1, <2>2 DEF Sums, RawReplies
    <2> QED
      BY <2>2, <2>3
  <1> HIDE DEF g
  <1>9. Errors = CHOOSE f : f = [q \in Seq(RawReplies) |-> ErrorsOf(f, q)]
    BY DEF Errors, ErrorsOf, UpTo
  <1>10. Errors = [q \in Seq(RawReplies) |-> ErrorsOf(Errors, q)]
    BY <1>8, <1>9
  <1>11. Errors = Step(Errors)
    BY <1>10 DEF Step
  <1> DEFINE T == {n \in Nat : n <= MaxNesting => Sums(Errors, n)}
  <1>12. 0 \in T
    BY <1>2, <1>11, 0 \in 0..MaxNesting
  <1>13. \A n \in Nat : n \in T => n + 1 \in T
    <2> SUFFICES ASSUME NEW n \in Nat, n + 1 <= MaxNesting, Sums(Errors, n)
                 PROVE  Sums(Errors, n + 1)
      OBVIOUS
    <2> QED
      BY <1>2, <1>11, n + 1 \in 0..MaxNesting, (n + 1) - 1 = n
  <1>14. Nat \subseteq T
    <2> HIDE DEF T
    <2> QED
      BY <1>12, <1>13, NatSetInduction
  <1>15. Sums(Errors, MaxNesting)
    BY <1>14
  <1> QED
    BY <1>15 DEF Sums, RawReplies

-----------------------------------------------------------------------------
(* The first k of a sequence, or all if it has no more. *)
Shown(n, k) == IF k < 0 THEN 0 ELSE IF k < n THEN k ELSE n
First(s, k) == SubSeq(s, 1, Shown(Len(s), k))

LEMMA ShownSum ==
    ASSUME NEW m \in Nat, NEW n \in Nat, NEW k \in Int
    PROVE  /\ Shown(m, k) \in 0..m /\ Shown(n, k - m) \in 0..n
           /\ Shown(m + n, k) = Shown(m, k) + Shown(n, k - m)
           /\ Shown(n, k - m) # 0 => Shown(m, k) = m
  BY DEF Shown

LEMMA PrefixIs ==
    ASSUME NEW s \in Seq(Strings), NEW m \in 0..Len(s)
    PROVE  /\ SubSeq(s, 1, m) \in Seq(Strings) /\ Len(SubSeq(s, 1, m)) = m
           /\ \A n \in 1..m : SubSeq(s, 1, m)[n] = s[n]
  OBVIOUS

LEMMA FirstIs ==
    ASSUME NEW s \in Seq(Strings), NEW k \in Int
    PROVE  /\ First(s, k) \in Seq(Strings) /\ Len(First(s, k)) = Shown(Len(s), k)
           /\ \A n \in 1..Shown(Len(s), k) : First(s, k)[n] = s[n]
  <1>1. Shown(Len(s), k) \in 0..Len(s)
    BY DEF Shown
  <1> QED
    BY <1>1, PrefixIs DEF First

LEMMA SameSequence ==
    ASSUME NEW a \in Seq(Strings), NEW b \in Seq(Strings), Len(a) = Len(b),
           \A n \in 1..Len(a) : a[n] = b[n]
    PROVE  a = b
  OBVIOUS

LEMMA ConcatIs ==
    ASSUME NEW a \in Seq(Strings), NEW b \in Seq(Strings)
    PROVE  /\ a \o b \in Seq(Strings) /\ Len(a \o b) = Len(a) + Len(b)
           /\ \A n \in 1..(Len(a) + Len(b)) :
                 (a \o b)[n] = IF n <= Len(a) THEN a[n] ELSE b[n - Len(a)]
  OBVIOUS

LEMMA FirstConcat ==
    ASSUME NEW a \in Seq(Strings), NEW b \in Seq(Strings), NEW k \in Int
    PROVE  First(a \o b, k) = First(a, k) \o First(b, k - Len(a))
  <1> DEFINE ab == a \o b
             i == Shown(Len(a), k)
             j == Shown(Len(b), k - Len(a))
             fa == First(a, k)
             fb == First(b, k - Len(a))
             l == First(ab, k)
             r == fa \o fb
  <1>1. /\ ab \in Seq(Strings) /\ Len(ab) = Len(a) + Len(b)
        /\ \A n \in 1..Len(ab) : ab[n] = IF n <= Len(a) THEN a[n] ELSE b[n - Len(a)]
    OBVIOUS
  <1>2. /\ fa \in Seq(Strings) /\ Len(fa) = i
        /\ \A n \in 1..i : fa[n] = a[n]
    BY FirstIs
  <1>3. /\ fb \in Seq(Strings) /\ Len(fb) = j
        /\ \A n \in 1..j : fb[n] = b[n]
    BY FirstIs, k - Len(a) \in Int
  <1>4. /\ l \in Seq(Strings) /\ Len(l) = Shown(Len(ab), k)
        /\ \A n \in 1..Shown(Len(ab), k) : l[n] = ab[n]
    BY <1>1, FirstIs
  <1>5. /\ Len(a) \in Nat /\ Len(b) \in Nat /\ i \in 0..Len(a) /\ j \in 0..Len(b)
        /\ Shown(Len(ab), k) = i + j
        /\ j # 0 => i = Len(a)
    <2>1. Len(a) \in Nat /\ Len(b) \in Nat /\ Len(ab) = Len(a) + Len(b)
      BY <1>1
    <2>2. /\ i \in 0..Len(a) /\ j \in 0..Len(b)
          /\ Shown(Len(a) + Len(b), k) = i + j
          /\ j # 0 => i = Len(a)
      BY <2>1, ShownSum
    <2> HIDE DEF ab, i, j
    <2> QED
      BY <2>1, <2>2
  <1> HIDE DEF ab, i, j, fa, fb, l
  <1>6. /\ r \in Seq(Strings) /\ Len(r) = i + j
        /\ \A n \in 1..(i + j) : r[n] = IF n <= i THEN fa[n] ELSE fb[n - i]
    <2>1. i \in Nat /\ j \in Nat
      BY <1>5
    <2> QED
      BY <1>2, <1>3, <2>1, ConcatIs
  <1> HIDE DEF r
  <1>7. ASSUME NEW n \in 1..(i + j) PROVE l[n] = r[n]
    <2>1. l[n] = ab[n] /\ n \in 1..Len(ab)
      BY <1>1, <1>4, <1>5
    <2>2. CASE n <= i
      BY <2>1, <2>2, <1>1, <1>2, <1>5, <1>6
    <2>3. CASE n > i
      <3>1. i = Len(a) /\ n - i \in 1..j
        BY <2>3, <1>5
      <3>2. l[n] = b[n - i]
        BY <3>1, <2>1, <2>3, <1>1
      <3> QED
        BY <3>1, <3>2, <2>3, <1>3, <1>5, <1>6
    <2> QED
      BY <2>2, <2>3, <1>5
  <1>8. l = r
    BY <1>4, <1>5, <1>6, <1>7, SameSequence
  <1> QED
    BY <1>8 DEF l, r, ab, fa, fb

(* What is to be told of the errors e, when c others were told before. *)
Reported(c, e) == [errors |-> Len(e), shown |-> First(e, max_reported_errors - c)]

(* The calls for arrays of a lower depth tell what they should. *)
ReportedBelow(depth) ==
    depth # 0 => \A k \in Nat, e \in Seq(RawUpTo[depth - 1]) :
        array_throw_if_failed[<<k, Made(make_redis_reply_type, e)>>] = Reported(k, Errors[e])

LEMMA TurnReports ==
    ASSUME NEW c \in Nat, NEW depth \in 0..MaxNesting, NEW r \in RawUpTo[depth],
           ReportedBelow(depth), NEW e \in Seq(Strings)
    PROVE  CountErrors(array_throw_if_failed, c, Reported(c, e), make_redis_reply_type[r])
             = Reported(c, e \o ErrorsIn(Errors, r))
  <1> DEFINE make == make_redis_reply_type
             throw == array_throw_if_failed
  <1>1. make[r] = Variant(make, r)
    BY MakeDef, RawBelow
  <1> HIDE DEF make, throw
  <1>2. Reported(c, e).errors = Len(e) /\ Reported(c, e).shown = First(e, 3 - c)
    BY DEF Reported, max_reported_errors
  <1>3. CASE r.type = "ERROR"
    <2>1. r.str \in Strings
      BY <1>3, RawShape DEF FlatRaw, NestedRaw
    <2>2. make[r].which = "Error" /\ make[r].str = r.str
      BY <1>1, <1>3, VariantIs
    <2>3. ErrorsIn(Errors, r) = <<r.str>>
      BY <1>3 DEF ErrorsIn
    <2> DEFINE one == <<r.str>>
    <2>a. one \in Seq(Strings) /\ Len(one) = 1 /\ one[1] = r.str
      BY <2>1
    <2>b. 3 - c \in Int /\ (3 - c) - Len(e) \in Int
      OBVIOUS
    <2>4. First(e \o one, 3 - c) = First(e, 3 - c) \o First(one, (3 - c) - Len(e))
      BY <2>a, <2>b, FirstConcat
    <2>5. First(e, 3 - c) \in Seq(Strings)
      BY <2>b, FirstIs
    <2>6. First(one, (3 - c) - Len(e)) = IF Len(e) + 1 + c <= 3 THEN one ELSE <<>>
      <3> HIDE DEF one
      <3>1. Shown(1, (3 - c) - Len(e)) = IF Len(e) + 1 + c <= 3 THEN 1 ELSE 0
        BY DEF Shown
      <3>2. /\ First(one, (3 - c) - Len(e)) \in Seq(Strings)
            /\ Len(First(one, (3 - c) - Len(e))) = Shown(1, (3 - c) - Len(e))
            /\ \A n \in 1..Shown(1, (3 - c) - Len(e)) : First(one, (3 - c) - Len(e))[n] = one[n]
        BY <2>a, <2>b, FirstIs
      <3>3. CASE Len(e) + 1 + c <= 3
        BY <3>1, <3>2, <3>3, <2>a, SameSequence
      <3>4. CASE ~(Len(e) + 1 + c <= 3)
        BY <3>1, <3>2, <3>4
      <3> QED
        BY <3>3, <3>4
    <2>7. First(e \o one, 3 - c) =
             IF Len(e) + 1 + c <= 3 THEN Append(First(e, 3 - c), r.str) ELSE First(e, 3 - c)
      <3>1. /\ First(e, 3 - c) \o one = Append(First(e, 3 - c), r.str)
            /\ First(e, 3 - c) \o <<>> = First(e, 3 - c)
        BY <2>1, <2>5
      <3> HIDE DEF one
      <3> QED
        BY <2>4, <2>6, <3>1
    <2>8. Len(e \o <<r.str>>) = Len(e) + 1
      OBVIOUS
    <2>9. CountErrors(throw, c, Reported(c, e), make[r]) =
             [errors |-> Len(e) + 1,
              shown |-> IF Len(e) + 1 + c <= 3 THEN Append(First(e, 3 - c), r.str)
                        ELSE First(e, 3 - c)]
      BY <1>2, <2>2 DEF CountErrors, max_reported_errors
    <2> QED
      BY <2>3, <2>7, <2>8, <2>9 DEF Reported, max_reported_errors, make, throw
  <1>4. CASE r.type = "ARRAY"
    <2>1. depth # 0 /\ r.element \in Seq(RawUpTo[depth - 1])
      BY <1>4, RawShape DEF FlatRaw, NestedRaw
    <2>2. make[r].which = "Array" /\ make[r].array = Made(make, r.element)
      BY <1>1, <1>4, VariantIs
    <2> DEFINE b == Errors[r.element]
    <2>3. ErrorsIn(Errors, r) = b
      BY <1>4 DEF ErrorsIn
    <2>4. b \in Seq(Strings)
      <3>0. depth - 1 \in 0..MaxNesting
        BY <2>1, RepliesAssumption DEF RepliesAssumption
      <3>1. RawUpTo[depth - 1] \subseteq RawReplies
        BY <3>0, RawBelow
      <3>2. r.element \in Seq(RawReplies)
        BY <2>1, <3>1
      <3> QED
        BY <3>2, ErrorsDef
    <2>5. throw[<<Len(e) + c, Made(make, r.element)>>] = Reported(Len(e) + c, b)
      BY <2>1, Len(e) + c \in Nat DEF ReportedBelow, make, throw
    <2> HIDE DEF b
    <2>6. First(e \o b, 3 - c) = First(e, 3 - c) \o First(b, (3 - c) - Len(e))
      BY <2>4, FirstConcat, 3 - c \in Int
    <2>7. Len(e \o b) = Len(e) + Len(b) /\ (3 - c) - Len(e) = 3 - (Len(e) + c)
      BY <2>4
    <2>8. CountErrors(throw, c, Reported(c, e), make[r]) =
             [errors |-> Len(e) + Len(b),
              shown |-> First(e, 3 - c) \o First(b, 3 - (Len(e) + c))]
      <3> DEFINE inner == Reported(Len(e) + c, b)
      <3>1. inner.errors = Len(b) /\ inner.shown = First(b, 3 - (Len(e) + c))
        BY DEF Reported, max_reported_errors
      <3> HIDE DEF inner
      <3>2. throw[<<Len(e) + c, Made(make, r.element)>>] = inner
        BY <2>5 DEF inner
      <3> QED
        BY <1>2, <2>2, <3>1, <3>2 DEF CountErrors
    <2> QED
      BY <2>3, <2>6, <2>7, <2>8 DEF Reported, max_reported_errors, make, throw
  <1>5. CASE r.type \notin {"ERROR", "ARRAY"}
    <2>1. make[r].which \notin {"Error", "Array"}
      BY <1>1, <1>5, VariantIs, RawShape DEF FlatRaw, NestedRaw
    <2>2. ErrorsIn(Errors, r) = <<>>
      BY <1>5 DEF ErrorsIn
    <2>3. e \o <<>> = e
      OBVIOUS
    <2> QED
      BY <2>1, <2>2, <2>3 DEF CountErrors, make, throw
  <1> QED
    BY <1>3, <1>4, <1>5

(* Nodes that hold the variants of the replies q, and after them some that *)
(* hold the Reply they were made with.                                     *)
Holds(s, q) ==
    /\ Len(q) <= Len(s)
    /\ \A n \in 1..Len(s) :
          s[n] = IF n <= Len(q) THEN make_redis_reply_type[q[n]] ELSE Reply

LEMMA ErrorsInSequence ==
    \A depth \in 0..MaxNesting : \A r \in RawUpTo[depth] : ErrorsIn(Errors, r) \in Seq(Strings)
  <1> SUFFICES ASSUME NEW depth \in 0..MaxNesting, NEW r \in RawUpTo[depth]
               PROVE  ErrorsIn(Errors, r) \in Seq(Strings)
    OBVIOUS
  <1>1. SameBelow(Errors, Errors, depth)
    <2> SUFFICES ASSUME depth # 0, NEW s \in Seq(RawUpTo[depth - 1])
                 PROVE  Errors[s] \in Seq(Strings)
      BY DEF SameBelow
    <2>1. depth - 1 \in 0..MaxNesting
      BY RepliesAssumption DEF RepliesAssumption
    <2>2. s \in Seq(RawReplies)
      BY <2>1, RawBelow
    <2> QED
      BY <2>2, ErrorsDef
  <1> QED
    BY <1>1, ErrorsInLocal

(* The loop over such nodes tells the errors of the replies.               *)
LEMMA LoopReports ==
    ASSUME NEW depth \in 0..MaxNesting, NEW c \in Nat,
           NEW q \in Seq(RawUpTo[depth]), NEW s \in Seq(Replies),
           Holds(s, q), ReportedBelow(depth)
    PROVE  array_throw_if_failed[<<c, s>>] = Reported(c, Errors[q])
  <1> DEFINE make == make_redis_reply_type
             throw == array_throw_if_failed
             F == Found(throw, c, s)
             U == UpTo(Errors, q)
             S == {n \in Nat : n <= Len(q) => /\ U[n] \in Seq(Strings)
                                              /\ F[n] = Reported(c, U[n])}
             T == {n \in Nat : Len(q) + n <= Len(s) => F[Len(q) + n] = F[Len(q)]}
  <1>0. Len(q) \in Nat /\ Len(s) \in Nat /\ Len(q) <= Len(s)
    BY DEF Holds
  <1>1. /\ F[0] = NoneFound
        /\ \A n \in 1..Len(s) : F[n] = CountErrors(throw, c, F[n - 1], s[n])
    <2>1. Len(s) \in Nat
      OBVIOUS
    <2> QED
      BY <2>1, FoundDef
  <1>2. /\ U[0] = <<>>
        /\ \A n \in 1..Len(q) : U[n] = U[n - 1] \o ErrorsIn(Errors, q[n])
    BY <1>0, UpToDef, Zenon
  <1>3. throw[<<c, s>>] = F[Len(s)]
    BY ThrowDef DEF Total
  <1>4. Errors[q] = U[Len(q)]
    <2>1. q \in Seq(RawReplies)
      BY RawBelow
    <2> QED
      BY <2>1, ErrorsDef DEF ErrorsOf
  <1> HIDE DEF F, U
  <1>5. 0 \in S
    <2>1. <<>> \in Seq(Strings) /\ Len(<<>>) = 0
      OBVIOUS
    <2>2. First(<<>>, 3 - c) = <<>>
      <3>1. Shown(0, 3 - c) = 0
        BY DEF Shown
      <3> QED
        BY <3>1 DEF First
    <2> QED
      BY <1>1, <1>2, <2>1, <2>2 DEF Reported, NoneFound, max_reported_errors
  <1>6. \A n \in Nat : n \in S => n + 1 \in S
    <2> SUFFICES ASSUME NEW n \in Nat, n + 1 <= Len(q), U[n] \in Seq(Strings),
                        F[n] = Reported(c, U[n])
                 PROVE  U[n + 1] \in Seq(Strings) /\ F[n + 1] = Reported(c, U[n + 1])
      OBVIOUS
    <2>1. n + 1 \in 1..Len(q) /\ n + 1 \in 1..Len(s) /\ (n + 1) - 1 = n
      BY <1>0
    <2>2. q[n + 1] \in RawUpTo[depth] /\ s[n + 1] = make[q[n + 1]]
      BY <2>1 DEF Holds
    <2>3. /\ U[n + 1] = U[n] \o ErrorsIn(Errors, q[n + 1])
          /\ F[n + 1] = CountErrors(throw, c, Reported(c, U[n]), make[q[n + 1]])
      BY <1>1, <1>2, <2>1, <2>2
    <2>4. U[n + 1] \in Seq(Strings)
      BY <2>2, <2>3, ErrorsInSequence
    <2>5. CountErrors(throw, c, Reported(c, U[n]), make[q[n + 1]])
             = Reported(c, U[n] \o ErrorsIn(Errors, q[n + 1]))
      BY <2>2, TurnReports
    <2> QED
      BY <2>3, <2>4, <2>5
  <1>7. Nat \subseteq S
    <2> HIDE DEF S
    <2> QED
      BY <1>5, <1>6, NatSetInduction
  <1>8. 0 \in T
    BY <1>0
  <1>9. \A n \in Nat : n \in T => n + 1 \in T
    <2> SUFFICES ASSUME NEW n \in Nat, Len(q) + (n + 1) <= Len(s),
                        F[Len(q) + n] = F[Len(q)]
                 PROVE  F[Len(q) + (n + 1)] = F[Len(q)]
      BY <1>0
    <2> DEFINE m == Len(q) + (n + 1)
    <2>1. m \in 1..Len(s) /\ m - 1 = Len(q) + n /\ ~(m <= Len(q))
      BY <1>0
    <2> HIDE DEF m
    <2>2. F[m] = CountErrors(throw, c, F[m - 1], Reply)
      BY <1>1, <2>1 DEF Holds
    <2>3. CountErrors(throw, c, F[m - 1], Reply) = F[m - 1]
      BY DEF CountErrors, Reply
    <2> QED
      BY <2>1, <2>2, <2>3 DEF m
  <1>10. Nat \subseteq T
    <2> HIDE DEF T
    <2> QED
      BY <1>8, <1>9, NatSetInduction
  <1>11. F[Len(s)] = F[Len(q)]
    <2>1. Len(s) - Len(q) \in T
      <3>1. Len(s) - Len(q) \in Nat
        BY <1>0
      <3> HIDE DEF T
      <3> QED
        BY <3>1, <1>10
    <2>2. Len(q) + (Len(s) - Len(q)) = Len(s)
      BY <1>0
    <2> QED
      BY <1>0, <2>1, <2>2
  <1>12. F[Len(q)] = Reported(c, U[Len(q)])
    BY <1>0, <1>7
  <1> QED
    BY <1>3, <1>4, <1>11, <1>12

LEMMA ReportedAtAllDepths ==
    \A depth \in 0..MaxNesting : ReportedBelow(depth)
  <1> DEFINE S == {n \in Nat : n <= MaxNesting => ReportedBelow(n)}
  <1> USE RepliesAssumption DEF RepliesAssumption
  <1>1. 0 \in S
    BY DEF ReportedBelow
  <1>2. \A n \in Nat : n \in S => n + 1 \in S
    <2> SUFFICES ASSUME NEW n \in Nat, n + 1 <= MaxNesting, ReportedBelow(n)
                 PROVE  ReportedBelow(n + 1)
      OBVIOUS
    <2>0. (n + 1) - 1 = n
      OBVIOUS
    <2> SUFFICES ASSUME NEW k \in Nat, NEW e \in Seq(RawUpTo[(n + 1) - 1])
                 PROVE  array_throw_if_failed[<<k, Made(make_redis_reply_type, e)>>]
                          = Reported(k, Errors[e])
      BY DEF ReportedBelow
    <2> DEFINE s == Made(make_redis_reply_type, e)
    <2>1. s \in Seq(Replies) /\ Len(s) = Len(e)
          /\ \A i \in 1..Len(e) : s[i] = make_redis_reply_type[e[i]]
      <3>1. n \in 0..MaxNesting /\ Len(e) \in Nat /\ e \in Seq(RawUpTo[n])
        BY <2>0
      <3>2. s \in [1..Len(e) -> RepliesUpTo[n]]
        <4>1. \A i \in 1..Len(e) : make_redis_reply_type[e[i]] \in RepliesUpTo[n]
          BY <3>1, MakeUpTo
        <4> QED
          BY <4>1 DEF Made
      <3>3. s \in Seq(RepliesUpTo[n]) /\ Len(s) = Len(e)
        BY <3>1, <3>2, SequenceOf
      <3>4. s \in Seq(Replies)
        BY <3>1, <3>3, RepliesBelow
      <3>5. \A i \in 1..Len(e) : s[i] = make_redis_reply_type[e[i]]
        BY DEF Made
      <3> QED
        BY <3>3, <3>4, <3>5
    <2> HIDE DEF s
    <2>2. Holds(s, e)
      BY <2>1 DEF Holds
    <2>3. n \in 0..MaxNesting /\ e \in Seq(RawUpTo[n])
      BY <2>0
    <2>4. array_throw_if_failed[<<k, s>>] = Reported(k, Errors[e])
      BY <2>1, <2>2, <2>3, LoopReports
    <2> QED
      BY <2>4 DEF s
  <1>3. Nat \subseteq S
    <2> HIDE DEF S
    <2> QED
      BY <1>1, <1>2, NatSetInduction
  <1> QED
    BY <1>3

(* throw_if_failed() over the nodes of a batch counts the errors of all    *)
(* the replies, however deep in arrays, and quotes the first three; a node *)
(* without an answer counts for none.                                      *)
THEOREM ThrowReportsAll ==
    ASSUME NEW q \in Seq(RawReplies), NEW s \in Seq(Replies), Holds(s, q)
    PROVE  throw_if_failed(s) =
             [errors |-> Len(Errors[q]), shown |-> First(Errors[q], max_reported_errors)]
  <1>1. MaxNesting \in 0..MaxNesting
    BY RepliesAssumption DEF RepliesAssumption
  <1>2. ReportedBelow(MaxNesting)
    BY <1>1, ReportedAtAllDepths
  <1>3. array_throw_if_failed[<<0, s>>] = Reported(0, Errors[q])
    BY <1>1, <1>2, LoopReports DEF RawReplies
  <1>4. max_reported_errors - 0 = max_reported_errors
    BY DEF max_reported_errors
  <1> QED
    BY <1>3, <1>4 DEF throw_if_failed, Reported

(* Where there is an error among the replies, it is among those found.     *)
LEMMA ErrorIsFound ==
    ASSUME NEW q \in Seq(RawReplies), NEW i \in 1..Len(q), ErrorsIn(Errors, q[i]) # <<>>
    PROVE  Errors[q] # <<>>
  <1> DEFINE U == UpTo(Errors, q)
             S == {n \in Nat : n <= Len(q) =>
                       /\ U[n] \in Seq(Strings)
                       /\ i <= n => U[n] # <<>>}
  <1>0. Len(q) \in Nat
    OBVIOUS
  <1>1. /\ U[0] = <<>>
        /\ \A n \in 1..Len(q) : U[n] = U[n - 1] \o ErrorsIn(Errors, q[n])
    BY <1>0, UpToDef, Zenon
  <1>2. Errors[q] = U[Len(q)]
    BY ErrorsDef DEF ErrorsOf
  <1> HIDE DEF U
  <1>3. 0 \in S
    <2>1. <<>> \in Seq(Strings)
      OBVIOUS
    <2>2. ~(i <= 0)
      OBVIOUS
    <2> QED
      BY <1>1, <2>1, <2>2
  <1>4. \A n \in Nat : n \in S => n + 1 \in S
    <2> SUFFICES ASSUME NEW n \in Nat, n + 1 <= Len(q),
                        U[n] \in Seq(Strings), i <= n => U[n] # <<>>
                 PROVE  /\ U[n + 1] \in Seq(Strings)
                        /\ i <= n + 1 => U[n + 1] # <<>>
      OBVIOUS
    <2> DEFINE e == ErrorsIn(Errors, q[n + 1])
    <2>1. U[n + 1] = U[n] \o e
      BY <1>1, n + 1 \in 1..Len(q), (n + 1) - 1 = n
    <2>2. e \in Seq(Strings)
      <3>1. q[n + 1] \in RawUpTo[MaxNesting]
        BY n + 1 \in 1..Len(q) DEF RawReplies
      <3> QED
        BY <3>1, ErrorsInSequence, RepliesAssumption DEF RepliesAssumption
    <2>3. i = n + 1 => e # <<>>
      OBVIOUS
    <2> HIDE DEF e
    <2>4. /\ U[n] \o e \in Seq(Strings)
          /\ U[n] # <<>> \/ e # <<>> => U[n] \o e # <<>>
      BY <2>2
    <2> QED
      BY <2>1, <2>3, <2>4
  <1>5. Nat \subseteq S
    <2> HIDE DEF S
    <2> QED
      BY <1>3, <1>4, NatSetInduction
  <1> QED
    BY <1>0, <1>2, <1>5
=============================================================================
