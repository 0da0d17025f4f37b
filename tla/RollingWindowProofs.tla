------------------------- MODULE RollingWindowProofs ------------------------
(***************************************************************************)
(* What eviction keeps and drops, for any items and any cutoff.              *)
(***************************************************************************)
EXTENDS RollingWindow, SequenceTheorems, WellFoundedInduction, TLAPS

\* A nonempty set of numbers has a smallest element.
LEMMA LeastOfNats ==
  ASSUME NEW T, T \subseteq Nat, T # {}
  PROVE  \E x \in T : \A y \in T : x <= y
<1>1. PICK x \in T : \A y \in T : ~ (<<y, x>> \in OpToRel(<, Nat))
  BY NatLessThanWellFounded, WFMin, Zenon
<1>2. \A y \in T : x <= y
  <2>1. ASSUME NEW y \in T PROVE ~ (y < x)
    <3>1. ASSUME y < x PROVE <<y, x>> \in OpToRel(<, Nat)
      BY <3>1, <2>1, <1>1 DEF OpToRel
    <3> QED BY <3>1, <1>1
  <2> QED BY <2>1
<1> QED BY <1>2

\* The smallest element is the Min.
LEMMA MinOfNats ==
  ASSUME NEW T, T \subseteq Nat, T # {}
  PROVE  Min(T) \in T /\ \A y \in T : Min(T) <= y
BY LeastOfNats DEF Min

\* What a queue holds when its head is taken or an item is added to it.
LEMMA RangeOfQueue ==
  ASSUME NEW S, NEW queue \in Seq(S)
  PROVE  /\ \A i \in DOMAIN queue : queue[i] \in Range(queue)
         /\ \A x \in Range(queue) : \E i \in DOMAIN queue : x = queue[i]
         /\ Range(queue) \subseteq S
         /\ \A item \in S :
              /\ Append(queue, item) \in Seq(S)
              /\ Range(Append(queue, item)) = Range(queue) \cup {item}
         /\ queue # <<>> => /\ Head(queue) \in S /\ Tail(queue) \in Seq(S)
                            /\ Len(Tail(queue)) = Len(queue) - 1
                            /\ Range(queue) = {Head(queue)} \cup Range(Tail(queue))
<1>1. ASSUME NEW item \in S
      PROVE  /\ Append(queue, item) \in Seq(S)
             /\ Range(Append(queue, item)) = Range(queue) \cup {item}
  <2> DEFINE longer == Append(queue, item)
  <2>1. /\ DOMAIN longer = 1 .. Len(queue) + 1
        /\ \A i \in 1 .. Len(queue) : longer[i] = queue[i]
        /\ longer[Len(queue) + 1] = item /\ longer \in Seq(S)
    OBVIOUS
  <2> HIDE DEF longer
  <2>2. Range(longer) \subseteq Range(queue) \cup {item}
    BY <2>1 DEF Range
  <2>3. Range(queue) \cup {item} \subseteq Range(longer)
    BY <2>1 DEF Range
  <2> QED BY <2>1, <2>2, <2>3 DEF longer
<1>2. ASSUME queue # <<>>
      PROVE  /\ Head(queue) \in S /\ Tail(queue) \in Seq(S)
             /\ Len(Tail(queue)) = Len(queue) - 1
             /\ Range(queue) = {Head(queue)} \cup Range(Tail(queue))
  <2> DEFINE rest == Tail(queue)
  <2>1. /\ Head(queue) = queue[1] /\ rest \in Seq(S) /\ Head(queue) \in S
        /\ Len(rest) = Len(queue) - 1 /\ Len(queue) \in Nat \ {0}
        /\ \A i \in 1 .. Len(queue) - 1 : rest[i] = queue[i + 1]
    BY <1>2
  <2> HIDE DEF rest
  <2>2. Range(rest) \subseteq Range(queue) /\ Head(queue) \in Range(queue)
    <3>1. 1 \in DOMAIN queue /\ \A i \in DOMAIN rest : i + 1 \in DOMAIN queue
      BY <2>1
    <3> QED BY <2>1, <3>1 DEF Range
  <2>3. ASSUME NEW i \in DOMAIN queue
        PROVE  queue[i] \in {Head(queue)} \cup Range(rest)
    <3>1. CASE i = 1
      BY <2>1, <3>1
    <3>2. CASE i # 1
      <4>1. i - 1 \in DOMAIN rest /\ rest[i - 1] = queue[i]
        BY <2>1, <3>2
      <4> QED BY <4>1 DEF Range
    <3> QED BY <3>1, <3>2
  <2> QED BY <2>1, <2>2, <2>3 DEF Range, rest
<1>3. /\ \A i \in DOMAIN queue : queue[i] \in Range(queue)
      /\ \A x \in Range(queue) : \E i \in DOMAIN queue : x = queue[i]
      /\ Range(queue) \subseteq S
  BY DEF Range
<1> QED BY <1>1, <1>2, <1>3

\* What is left is what comes after a front of items that are too old, and the
\* first one left is not.  (spike.rs 25-33, window.rs 15-27)
LEMMA EvictDropsFront ==
  ASSUME NEW S, \A x \in S : x.at \in Nat,
         NEW items \in Seq(S), NEW cutoff \in Nat
  PROVE  \E k \in 0 .. Len(items) :
           /\ Evict(items, cutoff) = SubSeq(items, k + 1, Len(items))
           /\ \A i \in 1 .. k : items[i].at < cutoff
           /\ k < Len(items) => items[k + 1].at >= cutoff
<1> DEFINE I == {i \in 1 .. Len(items) : items[i].at >= cutoff}
           first == IF I # {} THEN Min(I) ELSE 0
<1>1. Evict(items, cutoff) =
        IF first = 0 THEN <<>> ELSE SubSeq(items, first, Len(items))
  BY DEF Evict, SelectInSeq
<1>2. CASE I = {}
  <2>1. Evict(items, cutoff) = <<>>
    BY <1>1, <1>2
  <2>2. <<>> = SubSeq(items, Len(items) + 1, Len(items))
    BY SubSeqEmpty
  <2>3. \A i \in 1 .. Len(items) : items[i].at < cutoff
    <3> SUFFICES ASSUME NEW i \in 1 .. Len(items) PROVE items[i].at < cutoff
      OBVIOUS
    <3>1. items[i] \in S /\ i \notin I
      BY <1>2
    <3> QED BY <3>1
  <2> HIDE DEF I, first
  <2> WITNESS Len(items) \in 0 .. Len(items)
  <2> QED BY <2>1, <2>2, <2>3
<1>3. CASE I # {}
  <2>1. I \subseteq Nat
    OBVIOUS
  <2>2. first \in I /\ \A i \in I : first <= i
    <3> HIDE DEF I
    <3> QED BY <1>3, <2>1, MinOfNats
  <2>3. first \in 1 .. Len(items) /\ items[first].at >= cutoff
    BY <2>2
  <2>4. \A i \in 1 .. first - 1 : items[i].at < cutoff
    <3> SUFFICES ASSUME NEW i \in 1 .. first - 1 PROVE items[i].at < cutoff
      OBVIOUS
    <3>1. i \in 1 .. Len(items) /\ i < first
      <4> HIDE DEF I, first
      <4> QED BY <2>3
    <3>2. i \notin I
      <4> HIDE DEF I, first
      <4> QED BY <2>2, <2>3, <3>1
    <3> QED BY <3>1, <3>2
  <2> HIDE DEF first, I
  <2>5. Evict(items, cutoff) = SubSeq(items, (first - 1) + 1, Len(items))
    <3>1. first # 0 /\ (first - 1) + 1 = first
      BY <2>3
    <3>2. Evict(items, cutoff) = SubSeq(items, first, Len(items))
      BY <1>1, <3>1, Zenon
    <3> QED BY <3>1, <3>2, Zenon
  <2>6. first - 1 \in 0 .. Len(items) /\ items[(first - 1) + 1].at >= cutoff
    BY <2>3
  <2> DEFINE k == first - 1
  <2>7. /\ k \in 0 .. Len(items) /\ items[k + 1].at >= cutoff
        /\ Evict(items, cutoff) = SubSeq(items, k + 1, Len(items))
        /\ \A i \in 1 .. k : items[i].at < cutoff
    BY <2>4, <2>5, <2>6
  <2> HIDE DEF k
  <2> QED BY <2>7
<1> QED BY <1>2, <1>3

\* What is left is a sequence of the same items.  If the newest one is not too
\* old it is left, and so is no item before the first that is not too old.
\* (spike.rs 25-33, window.rs 15-27)
LEMMA EvictKeepsNewest ==
  ASSUME NEW S, \A x \in S : x.at \in Nat,
         NEW items \in Seq(S), NEW cutoff \in Nat
  PROVE  /\ Evict(items, cutoff) \in Seq(S)
         /\ items # <<>> /\ items[Len(items)].at >= cutoff =>
              /\ Evict(items, cutoff) # <<>>
              /\ Evict(items, cutoff)[1].at >= cutoff
              /\ Evict(items, cutoff)[Len(Evict(items, cutoff))] =
                   items[Len(items)]
<1>1. PICK k \in 0 .. Len(items) :
        /\ Evict(items, cutoff) = SubSeq(items, k + 1, Len(items))
        /\ \A i \in 1 .. k : items[i].at < cutoff
        /\ k < Len(items) => items[k + 1].at >= cutoff
  BY EvictDropsFront
<1> DEFINE left == SubSeq(items, k + 1, Len(items))
<1>2. left \in Seq(S)
  BY SubSeqProperties
<1>3. ASSUME items # <<>>, items[Len(items)].at >= cutoff
      PROVE  /\ left # <<>> /\ left[1].at >= cutoff
             /\ left[Len(left)] = items[Len(items)]
  <2>1. Len(items) \in 1 .. Len(items) /\ items[Len(items)].at \in Nat
    BY <1>3
  <2>2. k < Len(items)
    BY <1>1, <1>3, <2>1
  <2>3. /\ Len(left) = Len(items) - k
        /\ \A i \in 1 .. Len(items) - k : left[i] = items[k + i]
    <3>1. /\ k + 1 \in Int /\ Len(items) \in Int
          /\ 1 <= k + 1 /\ k + 1 <= Len(items) + 1
          /\ Len(items) <= Len(items) /\ k + 1 <= Len(items)
      BY <2>2
    <3>2. /\ Len(left) = Len(items) - (k + 1) + 1
          /\ \A i \in 1 .. Len(items) - (k + 1) + 1 :
               left[i] = items[(k + 1) + i - 1]
      BY <3>1, SubSeqProperties
    <3> HIDE DEF left
    <3>3. Len(items) - (k + 1) + 1 = Len(items) - k
      BY <2>2
    <3>4. \A i \in 1 .. Len(items) - k : (k + 1) + i - 1 = k + i
      BY <2>2
    <3> QED BY <3>2, <3>3, <3>4
  <2>4. left[1] = items[k + 1] /\ left[Len(items) - k] = items[Len(items)]
    BY <2>2, <2>3
  <2> HIDE DEF left
  <2> QED BY <1>1, <1>2, <2>2, <2>3, <2>4
<1> QED BY <1>1, <1>2, <1>3
=============================================================================
