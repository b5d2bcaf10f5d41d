----------------------------- MODULE QueueLemmas -----------------------------
(***************************************************************************)
(* What appending to, taking from and cutting a queue does to the set of   *)
(* its items, when its items stay distinct, and what is left of it when    *)
(* only some items are kept.                                               *)
(***************************************************************************)
EXTENDS Queues, Functions, SequenceTheorems, WellFoundedInduction, TLAPS

(* Appending adds the item to the set of items and nothing else. *)
LEMMA AppendRange ==
    ASSUME NEW S, NEW s \in Seq(S), NEW x \in S
    PROVE  /\ Append(s, x) \in Seq(S)
           /\ Range(Append(s, x)) = Range(s) \cup {x}
  <1>1. /\ Append(s, x) \in Seq(S)
        /\ Len(Append(s, x)) = Len(s) + 1
        /\ \A i \in 1 .. Len(s) : Append(s, x)[i] = s[i]
        /\ Append(s, x)[Len(s) + 1] = x
    BY AppendProperties
  <1>2. Len(s) \in Nat
    BY LenProperties
  <1>3. /\ Range(s) = {s[i] : i \in 1 .. Len(s)}
        /\ Range(Append(s, x)) = {Append(s, x)[i] : i \in 1 .. Len(s) + 1}
    BY <1>1, RangeEquality
  <1>4. 1 .. Len(s) + 1 = (1 .. Len(s)) \cup {Len(s) + 1}
    BY <1>2
  <1> QED
    BY <1>1, <1>3, <1>4

(* Taking the head leaves the other items, or all of them if one is repeated. *)
LEMMA TailRange ==
    ASSUME NEW S, NEW s \in Seq(S), s # <<>>
    PROVE  /\ Head(s) \in S
           /\ Tail(s) \in Seq(S)
           /\ Head(s) \in Range(s)
           /\ Range(Tail(s)) \subseteq Range(s)
           /\ Range(s) = Range(Tail(s)) \cup {Head(s)}
  <1>1. /\ Head(s) \in S
        /\ Tail(s) \in Seq(S)
        /\ Len(s) \in Nat \ {0}
        /\ Len(Tail(s)) = Len(s) - 1
        /\ \A i \in 1 .. Len(Tail(s)) : Tail(s)[i] = s[i + 1]
        /\ Head(s) = s[1]
    BY HeadTailProperties, EmptySeq, LenProperties
  <1>2. /\ Range(s) = {s[i] : i \in 1 .. Len(s)}
        /\ Range(Tail(s)) = {Tail(s)[i] : i \in 1 .. Len(Tail(s))}
    BY <1>1, RangeEquality
  <1>3. Range(Tail(s)) \subseteq Range(s)
    BY <1>1, <1>2
  <1>4. Head(s) \in Range(s)
    BY <1>1, <1>2
  <1>5. Range(s) \subseteq Range(Tail(s)) \cup {Head(s)}
    <2>1. SUFFICES ASSUME NEW i \in 1 .. Len(s), i # 1
                   PROVE  s[i] \in Range(Tail(s))
      BY <1>1, <1>2
    <2>2. i - 1 \in 1 .. Len(Tail(s)) /\ s[i] = Tail(s)[i - 1]
      BY <1>1, <2>1
    <2> QED
      BY <1>2, <2>2
  <1> QED
    BY <1>1, <1>3, <1>4, <1>5

(* A cut-out part of a queue has only items of the queue. *)
LEMMA SubSeqRange ==
    ASSUME NEW S, NEW s \in Seq(S), NEW i \in 1 .. Len(s) + 1, NEW j \in 0 .. Len(s)
    PROVE  /\ SubSeq(s, i, j) \in Seq(S)
           /\ Range(SubSeq(s, i, j)) \subseteq Range(s)
  <1>1. /\ SubSeq(s, i, j) \in Seq(S)
        /\ Len(SubSeq(s, i, j)) = IF i <= j THEN j - i + 1 ELSE 0
        /\ \A k \in 1 .. j - i + 1 : SubSeq(s, i, j)[k] = s[i + k - 1]
    BY SubSeqProperties
  <1>2. Len(s) \in Nat
    BY LenProperties
  <1>3. /\ Range(s) = {s[k] : k \in 1 .. Len(s)}
        /\ Range(SubSeq(s, i, j)) =
              {SubSeq(s, i, j)[k] : k \in 1 .. Len(SubSeq(s, i, j))}
    BY <1>1, RangeEquality
  <1>4. \A k \in 1 .. Len(SubSeq(s, i, j)) :
           /\ k \in 1 .. j - i + 1
           /\ i + k - 1 \in 1 .. Len(s)
    BY <1>1, <1>2
  <1> QED
    BY <1>1, <1>3, <1>4


(* A queue of distinct items stays one when a new item joins it. *)
LEMMA AppendDistinct ==
    ASSUME NEW S, NEW s \in Seq(S), NEW x \in S, IsInjective(s), x \notin Range(s)
    PROVE  IsInjective(Append(s, x))
  <1>1. /\ Len(Append(s, x)) = Len(s) + 1
        /\ \A i \in 1 .. Len(s) : Append(s, x)[i] = s[i]
        /\ Append(s, x)[Len(s) + 1] = x
        /\ DOMAIN Append(s, x) = 1 .. Len(s) + 1
        /\ DOMAIN s = 1 .. Len(s)
        /\ Len(s) \in Nat
    BY AppendProperties, LenProperties
  <1>2. \A i \in 1 .. Len(s) : s[i] # x
    BY RangeEquality
  <1>3. \A i \in 1 .. Len(s) + 1 : i \in 1 .. Len(s) \/ i = Len(s) + 1
    BY <1>1
  <1> QED
    BY <1>1, <1>2, <1>3 DEF IsInjective

(* Taking the head of a queue of distinct items takes that item out of it. *)
LEMMA TailDistinct ==
    ASSUME NEW S, NEW s \in Seq(S), s # <<>>, IsInjective(s)
    PROVE  IsInjective(Tail(s)) /\ Head(s) \notin Range(Tail(s))
  <1>1. /\ Tail(s) \in Seq(S)
        /\ Len(s) \in Nat \ {0}
        /\ Len(Tail(s)) = Len(s) - 1
        /\ \A i \in 1 .. Len(Tail(s)) : Tail(s)[i] = s[i + 1]
        /\ Head(s) = s[1]
        /\ DOMAIN s = 1 .. Len(s)
        /\ DOMAIN Tail(s) = 1 .. Len(Tail(s))
    BY HeadTailProperties, EmptySeq, LenProperties
  <1>2. \A i \in 1 .. Len(Tail(s)) : i + 1 \in 1 .. Len(s) /\ i + 1 # 1
    BY <1>1
  <1>3. IsInjective(Tail(s))
    BY <1>1, <1>2 DEF IsInjective
  <1>4. 1 \in 1 .. Len(s)
    BY <1>1
  <1>5. \A i \in 1 .. Len(Tail(s)) : Tail(s)[i] # s[1]
    BY <1>1, <1>2, <1>4 DEF IsInjective
  <1>6. Range(Tail(s)) = {Tail(s)[i] : i \in 1 .. Len(Tail(s))}
    BY <1>1, RangeEquality
  <1>7. Head(s) \notin Range(Tail(s))
    BY <1>1, <1>5, <1>6
  <1> QED
    BY <1>3, <1>7

-----------------------------------------------------------------------------
(* Only: induction over the number of items looked at.                     *)

(* Among numbers there is a smallest one. *)
LEMMA SmallestNumber ==
    ASSUME NEW Bad \in SUBSET Nat, Bad # {}
    PROVE  \E n \in Bad : \A m \in Nat : m < n => m \notin Bad
  <1>1. IsWellFoundedOn(OpToRel(<, Nat), Nat)
    BY NatLessThanWellFounded
  <1>2. \A m, n \in Nat : m < n => <<m, n>> \in OpToRel(<, Nat)
    BY DEF OpToRel
  <1> HIDE DEF OpToRel
  <1>3. PICK n \in Bad : \A m \in Bad : <<m, n>> \notin OpToRel(<, Nat)
    BY <1>1, WFMin
  <1> QED
    BY <1>2, <1>3

(* One step of the definition of KeptOf *)
Keeps(kept, queue, those, n) ==
    kept[n] = IF n = 0 THEN <<>>
              ELSE IF queue[n] \in those THEN Append(kept[n - 1], queue[n])
              ELSE kept[n - 1]

IsKept(kept, queue, those, m) ==
    kept = [n \in 0 .. m |->
              IF n = 0 THEN <<>>
              ELSE IF queue[n] \in those THEN Append(kept[n - 1], queue[n])
              ELSE kept[n - 1]]

(* The recursive function of what is kept of a queue exists.               *)
LEMMA KeptExists ==
    ASSUME NEW queue, NEW those, NEW m \in Nat
    PROVE  \E kept : IsKept(kept, queue, those, m)
  <1> DEFINE Bad == {n \in Nat : ~ \E kept : IsKept(kept, queue, those, n)}
  <1>1. SUFFICES ASSUME Bad # {} PROVE FALSE
    OBVIOUS
  <1>2. Bad \in SUBSET Nat
    OBVIOUS
  <1> HIDE DEF Bad
  <1>3. PICK n \in Bad : \A k \in Nat : k < n => k \notin Bad
    BY <1>1, <1>2, SmallestNumber
  <1> USE DEF Bad
  <1>4. n # 0
    <2> DEFINE kept == [i \in 0 .. 0 |-> <<>>]
    <2>1. IsKept(kept, queue, those, 0)
      BY DEF IsKept
    <2> QED
      BY <2>1, <1>3
  <1>5. n - 1 \in Nat /\ n - 1 < n
    BY <1>4
  <1>6. PICK kept : IsKept(kept, queue, those, n - 1)
    BY <1>3, <1>5
  <1> DEFINE more == [i \in 0 .. n |->
                        IF i < n THEN kept[i]
                        ELSE IF queue[n] \in those THEN Append(kept[n - 1], queue[n])
                        ELSE kept[n - 1]]
  <1>7. IsKept(more, queue, those, n)
    <2>1. \A i \in 0 .. n - 1 : more[i] = kept[i]
      BY <1>5
    <2>2. \A i \in 0 .. n - 1 : i # 0 => i - 1 \in 0 .. n - 1
      BY <1>5
    <2>3. \A i \in 0 .. n - 1 : Keeps(kept, queue, those, i)
      BY <1>6 DEF IsKept, Keeps
    <2>4. \A i \in 0 .. n - 1 : Keeps(more, queue, those, i)
      BY <2>1, <2>2, <2>3 DEF Keeps
    <2>5. Keeps(more, queue, those, n)
      BY <1>4, <1>5, <2>1 DEF Keeps
    <2>6. \A i \in 0 .. n : i \in 0 .. n - 1 \/ i = n
      BY <1>5
    <2>7. \A i \in 0 .. n : Keeps(more, queue, those, i)
      BY <2>4, <2>5, <2>6
    <2>8. more = [i \in 0 .. n |-> more[i]]
      OBVIOUS
    <2> HIDE DEF more
    <2> QED
      BY <2>7, <2>8 DEF Keeps, IsKept
  <1> QED
    BY <1>3, <1>7

(* So KeptOf is what its definition says. *)
LEMMA KeptStep ==
    ASSUME NEW queue, NEW those, Len(queue) \in Nat
    PROVE  \A n \in 0 .. Len(queue) : Keeps(KeptOf(queue, those), queue, those, n)
  <1>1. KeptOf(queue, those) = CHOOSE kept : IsKept(kept, queue, those, Len(queue))
    BY DEF KeptOf, IsKept
  <1>2. IsKept(KeptOf(queue, those), queue, those, Len(queue))
    BY <1>1, KeptExists
  <1> HIDE DEF KeptOf
  <1> QED
    BY <1>2 DEF IsKept, Keeps

(* What is kept of the first items does not depend on those behind them. *)
LEMMA KeptOfFront ==
    ASSUME NEW q, NEW r, NEW those, Len(q) \in Nat, Len(r) \in Nat,
           NEW m \in Nat, m <= Len(q), m <= Len(r),
           \A i \in 1 .. m : q[i] = r[i]
    PROVE  KeptOf(q, those)[m] = KeptOf(r, those)[m]
  <1> DEFINE Bad == {n \in Nat : n <= m /\ KeptOf(q, those)[n] # KeptOf(r, those)[n]}
  <1>1. SUFFICES ASSUME Bad # {} PROVE FALSE
    OBVIOUS
  <1>2. Bad \in SUBSET Nat
    OBVIOUS
  <1> HIDE DEF Bad
  <1>3. PICK n \in Bad : \A k \in Nat : k < n => k \notin Bad
    BY <1>1, <1>2, SmallestNumber
  <1> USE DEF Bad
  <1>4. /\ Keeps(KeptOf(q, those), q, those, n)
        /\ Keeps(KeptOf(r, those), r, those, n)
    BY <1>3, KeptStep
  <1>5. n # 0
    BY <1>3, <1>4 DEF Keeps
  <1>6. /\ q[n] = r[n]
        /\ KeptOf(q, those)[n - 1] = KeptOf(r, those)[n - 1]
    BY <1>3, <1>5
  <1> QED
    BY <1>3, <1>4, <1>6 DEF Keeps

(* Appending to the second part of a queue is appending to the whole. *)
LEMMA ConcatAppend ==
    ASSUME NEW S, NEW s \in Seq(S), NEW t \in Seq(S), NEW x \in S
    PROVE  s \o Append(t, x) = Append(s \o t, x)
  <1>1. <<x>> \in Seq(S)
    OBVIOUS
  <1>2. s \o t \in Seq(S)
    BY ConcatProperties
  <1>3. Append(t, x) = t \o <<x>>
    BY AppendIsConcat
  <1>4. Append(s \o t, x) = (s \o t) \o <<x>>
    BY <1>2, AppendIsConcat
  <1> QED
    BY <1>1, <1>3, <1>4, ConcatAssociative

(* Of nothing, nothing is kept. *)
LEMMA OnlyOfEmpty ==
    ASSUME NEW those
    PROVE  Only(<<>>, those) = <<>>
  <1>1. Len(<<>>) = 0
    OBVIOUS
  <1>2. Keeps(KeptOf(<<>>, those), <<>>, those, 0)
    BY <1>1, KeptStep
  <1> QED
    BY <1>1, <1>2 DEF Keeps, Only

(* The first n items *)
FirstItems(queue, n) == {queue[i] : i \in 1 .. n}

(* What is kept are items of the queue, one of those at least for each. *)
LEMMA KeptType ==
    ASSUME NEW S, NEW q \in Seq(S), NEW those, NEW m \in 0 .. Len(q)
    PROVE  /\ KeptOf(q, those)[m] \in Seq(S)
           /\ Range(KeptOf(q, those)[m]) = FirstItems(q, m) \cap those
  <1> DEFINE Good(n) == /\ KeptOf(q, those)[n] \in Seq(S)
                        /\ Range(KeptOf(q, those)[n]) = FirstItems(q, n) \cap those
             Bad == {n \in Nat : n <= Len(q) /\ ~Good(n)}
  <1>0. Len(q) \in Nat
    BY LenProperties
  <1>a. SUFFICES \A n \in 0 .. Len(q) : Good(n)
    OBVIOUS
  <1> HIDE DEF Good
  <1>1. SUFFICES ASSUME Bad # {} PROVE FALSE
    BY <1>0
  <1>2. Bad \in SUBSET Nat
    OBVIOUS
  <1> HIDE DEF Bad
  <1>3. PICK n \in Bad : \A k \in Nat : k < n => k \notin Bad
    BY <1>1, <1>2, SmallestNumber
  <1> USE DEF Bad
  <1>4. Keeps(KeptOf(q, those), q, those, n)
    BY <1>0, <1>3, KeptStep
  <1>5. CASE n = 0
    <2>1. KeptOf(q, those)[n] = <<>>
      BY <1>4, <1>5 DEF Keeps
    <2>2. Range(<<>>) = {} /\ <<>> \in Seq(S)
      BY DEF Range
    <2>3. FirstItems(q, n) = {}
      BY <1>5 DEF FirstItems
    <2> QED
      BY <1>3, <2>1, <2>2, <2>3 DEF Good
  <1>6. CASE n # 0
    <2>1. n - 1 \in Nat /\ n - 1 <= Len(q) /\ n - 1 < n
      BY <1>0, <1>3, <1>6
    <2>2. Good(n - 1)
      BY <1>3, <2>1
    <2>3. q[n] \in S
      BY <1>0, <1>3, <1>6, ElementOfSeq
    <2>4. FirstItems(q, n) = FirstItems(q, n - 1) \cup {q[n]}
      <3>1. 1 .. n = (1 .. n - 1) \cup {n}
        BY <1>3, <2>1
      <3> QED
        BY <3>1 DEF FirstItems
    <2>5. CASE q[n] \in those
      <3>1. KeptOf(q, those)[n] = Append(KeptOf(q, those)[n - 1], q[n])
        BY <1>4, <1>6, <2>5 DEF Keeps
      <3>2. /\ Append(KeptOf(q, those)[n - 1], q[n]) \in Seq(S)
            /\ Range(Append(KeptOf(q, those)[n - 1], q[n]))
                  = Range(KeptOf(q, those)[n - 1]) \cup {q[n]}
        <4>1. KeptOf(q, those)[n - 1] \in Seq(S)
          BY <2>2 DEF Good
        <4> QED
          BY <4>1, <2>3, AppendRange
      <3> QED
        BY <1>3, <2>2, <2>4, <2>5, <3>1, <3>2 DEF Good
    <2>6. CASE q[n] \notin those
      <3>1. KeptOf(q, those)[n] = KeptOf(q, those)[n - 1]
        BY <1>4, <1>6, <2>6 DEF Keeps
      <3> QED
        BY <1>3, <2>2, <2>4, <2>6, <3>1 DEF Good
    <2> QED
      BY <2>5, <2>6
  <1> QED
    BY <1>5, <1>6

(* What is kept of a queue is what it has in common with those.            *)
LEMMA OnlyType ==
    ASSUME NEW S, NEW q \in Seq(S), NEW those
    PROVE  /\ Only(q, those) \in Seq(S)
           /\ Range(Only(q, those)) = Range(q) \cap those
  <1>1. Len(q) \in 0 .. Len(q)
    BY LenProperties
  <1>2. Range(q) = FirstItems(q, Len(q))
    BY RangeEquality DEF FirstItems
  <1>3. /\ KeptOf(q, those)[Len(q)] \in Seq(S)
        /\ Range(KeptOf(q, those)[Len(q)]) = FirstItems(q, Len(q)) \cap those
    BY <1>1, KeptType
  <1> QED
    BY <1>2, <1>3 DEF Only

(* A queue of distinct items keeps distinct items. *)
LEMMA OnlyDistinct ==
    ASSUME NEW S, NEW q \in Seq(S), NEW those, IsInjective(q)
    PROVE  IsInjective(Only(q, those))
  <1> DEFINE Good(n) == IsInjective(KeptOf(q, those)[n])
             Bad == {n \in Nat : n <= Len(q) /\ ~Good(n)}
  <1>0. Len(q) \in Nat /\ DOMAIN q = 1 .. Len(q)
    BY LenProperties
  <1>1. SUFFICES ASSUME Bad # {} PROVE FALSE
    BY <1>0 DEF Only
  <1>2. Bad \in SUBSET Nat
    OBVIOUS
  <1> HIDE DEF Bad
  <1>3. PICK n \in Bad : \A k \in Nat : k < n => k \notin Bad
    BY <1>1, <1>2, SmallestNumber
  <1> USE DEF Bad
  <1>4. Keeps(KeptOf(q, those), q, those, n)
    BY <1>0, <1>3, KeptStep
  <1>5. n # 0
    <2>1. IsInjective(<<>>)
      BY DEF IsInjective
    <2> QED
      BY <1>3, <1>4, <2>1 DEF Keeps
  <1>6. n - 1 \in Nat /\ n - 1 <= Len(q) /\ n - 1 < n /\ n \in 1 .. Len(q)
    BY <1>0, <1>3, <1>5
  <1>7. Good(n - 1)
    BY <1>3, <1>6
  <1>8. /\ KeptOf(q, those)[n - 1] \in Seq(S)
        /\ Range(KeptOf(q, those)[n - 1]) = FirstItems(q, n - 1) \cap those
    <2>1. n - 1 \in 0 .. Len(q)
      BY <1>0, <1>6
    <2> HIDE DEF Bad
    <2> QED
      BY <2>1, KeptType
  <1>9. \A i \in 1 .. n - 1 : q[i] # q[n]
    <2>1. \A i \in 1 .. n - 1 : i \in 1 .. Len(q) /\ i # n
      BY <1>0, <1>6
    <2> QED
      BY <1>0, <1>6, <2>1 DEF IsInjective
  <1>10. q[n] \in S /\ q[n] \notin Range(KeptOf(q, those)[n - 1])
    BY <1>6, <1>8, <1>9, ElementOfSeq DEF FirstItems
  <1>11. IsInjective(Append(KeptOf(q, those)[n - 1], q[n]))
    BY <1>7, <1>8, <1>10, AppendDistinct
  <1> QED
    BY <1>3, <1>4, <1>5, <1>7, <1>11 DEF Keeps

(* An item that joins the queue is kept, behind the others, or it is not. *)
LEMMA OnlyOfAppend ==
    ASSUME NEW S, NEW q \in Seq(S), NEW x \in S, NEW those
    PROVE  Only(Append(q, x), those) =
              IF x \in those THEN Append(Only(q, those), x) ELSE Only(q, those)
  <1>1. /\ Len(q) \in Nat
        /\ Len(Append(q, x)) = Len(q) + 1
        /\ \A i \in 1 .. Len(q) : Append(q, x)[i] = q[i]
        /\ Append(q, x)[Len(q) + 1] = x
    BY AppendProperties, LenProperties
  <1> DEFINE more == Append(q, x)
             m == Len(q)
  <1>2. KeptOf(more, those)[m] = KeptOf(q, those)[m]
    <2>1. /\ Len(more) \in Nat /\ m \in Nat /\ m <= Len(more) /\ m <= Len(q)
          /\ \A i \in 1 .. m : more[i] = q[i]
      BY <1>1
    <2> HIDE DEF more
    <2>2. m <= Len(q) /\ Len(q) \in Nat
      BY <1>1
    <2> HIDE DEF m
    <2> QED
      BY <2>1, <2>2, KeptOfFront
  <1>3. Keeps(KeptOf(more, those), more, those, m + 1)
    <2>1. Len(more) \in Nat /\ m + 1 \in 0 .. Len(more)
      BY <1>1
    <2> HIDE DEF more
    <2> QED
      BY <2>1, KeptStep
  <1>4. m + 1 # 0 /\ m + 1 - 1 = m
    BY <1>1
  <1> QED
    BY <1>1, <1>2, <1>3, <1>4 DEF Keeps, Only

(* The head is kept in front of the others, or it is not. *)
LEMMA OnlyOfTail ==
    ASSUME NEW S, NEW q \in Seq(S), q # <<>>, NEW those
    PROVE  Only(q, those) =
              (IF Head(q) \in those THEN <<Head(q)>> ELSE <<>>) \o Only(Tail(q), those)
  <1> DEFINE first == IF Head(q) \in those THEN <<Head(q)>> ELSE <<>>
             m == Len(q) - 1
             rest == Tail(q)
             Good(n) == KeptOf(q, those)[n + 1] = first \o KeptOf(rest, those)[n]
             Bad == {n \in Nat : n <= m /\ ~Good(n)}
  <1>1. /\ Head(q) \in S
        /\ rest \in Seq(S)
        /\ Len(q) \in Nat \ {0}
        /\ Len(rest) = m
        /\ \A i \in 1 .. m : rest[i] = q[i + 1]
        /\ Head(q) = q[1]
    BY HeadTailProperties, EmptySeq, LenProperties
  <1>2. m \in Nat /\ Len(q) = m + 1
    BY <1>1
  <1>3. first \in Seq(S)
    BY <1>1
  <1> HIDE DEF first, m, rest
  <1>4. SUFFICES Bad = {}
    <2>1. m \notin Bad
      BY <1>4
    <2>2. KeptOf(q, those)[m + 1] = first \o KeptOf(rest, those)[m]
      BY <1>2, <2>1
    <2> QED
      BY <1>1, <1>2, <2>2 DEF Only, first, rest
  <1>5. SUFFICES ASSUME Bad # {} PROVE FALSE
    OBVIOUS
  <1>6. Bad \in SUBSET Nat
    OBVIOUS
  <1> HIDE DEF Bad
  <1>7. PICK n \in Bad : \A k \in Nat : k < n => k \notin Bad
    BY <1>5, <1>6, SmallestNumber
  <1> USE DEF Bad
  <1> HIDE DEF Good
  <1>8. n \in Nat /\ n <= m /\ n + 1 \in 0 .. Len(q) /\ n \in 0 .. Len(rest)
    BY <1>1, <1>2, <1>7
  <1>9. /\ Keeps(KeptOf(q, those), q, those, n + 1)
        /\ Keeps(KeptOf(rest, those), rest, those, n)
    BY <1>1, <1>2, <1>8, KeptStep
  <1>10. CASE n = 0
    <2>1. Keeps(KeptOf(q, those), q, those, 0)
      BY <1>1, KeptStep
    <2>2. KeptOf(q, those)[0] = <<>> /\ KeptOf(rest, those)[0] = <<>>
      BY <1>9, <1>10, <2>1 DEF Keeps
    <2>a. Keeps(KeptOf(q, those), q, those, 1)
      BY <1>1, KeptStep
    <2>b. 1 # 0 /\ 1 - 1 = 0
      OBVIOUS
    <2>3. KeptOf(q, those)[1] = IF q[1] \in those THEN Append(<<>>, q[1]) ELSE <<>>
      BY <2>2, <2>a, <2>b DEF Keeps
    <2>4. first \o <<>> = first
      BY <1>3, ConcatEmptySeq
    <2>5. KeptOf(q, those)[1] = first
      BY <1>1, <2>3 DEF first
    <2>6. KeptOf(q, those)[n + 1] = first \o KeptOf(rest, those)[n]
      BY <1>10, <2>2, <2>4, <2>5
    <2> QED
      BY <1>7, <2>6 DEF Good
  <1>11. CASE n # 0
    <2>1. n - 1 \in Nat /\ n - 1 <= m /\ n - 1 < n /\ (n - 1) + 1 = n /\ n + 1 - 1 = n
      BY <1>2, <1>8, <1>11
    <2>2. KeptOf(q, those)[n] = first \o KeptOf(rest, those)[n - 1]
      BY <1>7, <2>1 DEF Good
    <2>3. rest[n] = q[n + 1] /\ q[n + 1] \in S
      <3>1. n \in 1 .. m /\ n + 1 \in 1 .. Len(q)
        BY <1>2, <1>8, <1>11
      <3> QED
        BY <1>1, <3>1, ElementOfSeq
    <2>4. KeptOf(rest, those)[n - 1] \in Seq(S)
      <3>1. n - 1 \in 0 .. Len(rest)
        BY <1>1, <1>8, <2>1
      <3> QED
        BY <1>1, <3>1, KeptType
    <2> DEFINE before == KeptOf(rest, those)[n - 1]
    <2> HIDE DEF before
    <2>5. first \o Append(before, q[n + 1]) = Append(first \o before, q[n + 1])
      <3>1. before \in Seq(S)
        BY <2>4 DEF before
      <3> QED
        BY <1>3, <2>3, <3>1, ConcatAppend
    <2>6. CASE q[n + 1] \in those
      <3>1. KeptOf(q, those)[n + 1] = Append(KeptOf(q, those)[n], q[n + 1])
        BY <1>8, <1>9, <2>1, <2>6 DEF Keeps
      <3>2. KeptOf(rest, those)[n] = Append(before, q[n + 1])
        BY <1>9, <1>11, <2>3, <2>6 DEF Keeps, before
      <3> QED
        BY <1>7, <2>2, <2>5, <3>1, <3>2 DEF Good, before
    <2>7. CASE q[n + 1] \notin those
      <3>1. KeptOf(q, those)[n + 1] = KeptOf(q, those)[n]
        BY <1>8, <1>9, <2>1, <2>7 DEF Keeps
      <3>2. KeptOf(rest, those)[n] = before
        BY <1>9, <1>11, <2>3, <2>7 DEF Keeps, before
      <3> QED
        BY <1>7, <2>2, <3>1, <3>2 DEF Good, before
    <2> QED
      BY <2>6, <2>7
  <1> QED
    BY <1>10, <1>11
=============================================================================
