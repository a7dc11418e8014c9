----------------------------- MODULE ListProofs -----------------------------
(***************************************************************************)
(* What the proofs about WaitQueue, Notify and Semaphore need to know of   *)
(* the lists of nodes and of the lists of wakers.                          *)
(***************************************************************************)
EXTENDS Lists, SequenceTheorems, TLAPS

(* A list is empty if nothing is in it. *)
LEMMA EmptyList ==
    ASSUME NEW S, NEW s \in Seq(S)
    PROVE  /\ s = <<>> <=> Len(s) = 0
           /\ s = <<>> <=> \A x : ~InSeq(x, s)
           /\ \A x : InSeq(x, s) => x \in S
  <1>1. s = <<>> <=> Len(s) = 0
    BY EmptySeq
  <1>2. Len(s) > 0 => InSeq(s[1], s)
    BY DEF InSeq
  <1>3. Len(s) = 0 => \A x : ~InSeq(x, s)
    BY DEF InSeq
  <1>4. \A x : InSeq(x, s) => x \in S
    BY ElementOfSeq DEF InSeq
  <1> QED
    BY <1>1, <1>2, <1>3, <1>4

(* Append adds its argument behind the others. *)
LEMMA AppendList ==
    ASSUME NEW S, NEW s \in Seq(S), NEW e \in S
    PROVE  /\ Append(s, e) \in Seq(S)
           /\ Append(s, e) # <<>>
           /\ Len(Append(s, e)) = Len(s) + 1
           /\ \A x : InSeq(x, Append(s, e)) <=> InSeq(x, s) \/ x = e
           /\ Distinct(s) /\ ~InSeq(e, s) => Distinct(Append(s, e))
  BY AppendProperties DEF InSeq, Distinct

(* Head and the last element are in the list; Tail has the others. *)
LEMMA HeadTailList ==
    ASSUME NEW S, NEW s \in Seq(S), s # <<>>
    PROVE  /\ Head(s) \in S /\ InSeq(Head(s), s) /\ Head(s) = s[1]
           /\ s[Len(s)] \in S /\ InSeq(s[Len(s)], s)
           /\ Tail(s) \in Seq(S) /\ Len(Tail(s)) = Len(s) - 1
           /\ \A x : InSeq(x, s) => x = Head(s) \/ InSeq(x, Tail(s))
           /\ \A x : InSeq(x, Tail(s)) => InSeq(x, s)
  <1>1. Len(s) \in Nat \ {0} /\ Head(s) = s[1]
    BY EmptySeq
  <1>2. /\ Tail(s) \in Seq(S) /\ Len(Tail(s)) = Len(s) - 1
        /\ \A i \in 1..Len(Tail(s)) : Tail(s)[i] = s[i + 1]
    BY HeadTailProperties
  <1>3. \A i \in 2..Len(s) : i - 1 \in 1..Len(Tail(s)) /\ s[i] = Tail(s)[i - 1]
    BY <1>1, <1>2
  <1>4. \A x : InSeq(x, s) => x = Head(s) \/ InSeq(x, Tail(s))
    BY <1>1, <1>3 DEF InSeq
  <1>5. \A x : InSeq(x, Tail(s)) => InSeq(x, s)
    BY <1>1, <1>2 DEF InSeq
  <1> QED
    BY <1>1, <1>2, <1>4, <1>5, ElementOfSeq DEF InSeq

(* RemoveAt moves what is behind the place by one. *)
LEMMA RemoveAtList ==
    ASSUME NEW S, NEW s \in Seq(S), NEW i \in 1..Len(s)
    PROVE  /\ RemoveAt(s, i) \in Seq(S)
           /\ Len(RemoveAt(s, i)) = Len(s) - 1
           /\ \A j \in 1..Len(s) - 1 : RemoveAt(s, i)[j] = IF j < i THEN s[j] ELSE s[j + 1]
  <1> DEFINE a == SubSeq(s, 1, i - 1)
             b == SubSeq(s, i + 1, Len(s))
             c == a \o b
  <1>1. Len(s) \in Nat /\ \A j \in 1..Len(s) : s[j] \in S
    BY ElementOfSeq
  <1>2. /\ a \in Seq(S) /\ Len(a) = i - 1
        /\ \A j \in 1..i - 1 : a[j] = s[j]
    BY <1>1, SubSeqProperties
  <1>3. /\ b \in Seq(S) /\ Len(b) = Len(s) - i
        /\ \A j \in 1..Len(s) - i : b[j] = s[i + j]
    <2>1. \A j \in i + 1..Len(s) : s[j] \in S
      BY <1>1
    <2>2. /\ b \in Seq(S) /\ Len(b) = IF i + 1 <= Len(s) THEN Len(s) - (i + 1) + 1 ELSE 0
          /\ \A j \in 1..Len(s) - (i + 1) + 1 : b[j] = s[(i + 1) + j - 1]
      BY <1>1, <2>1, SubSeqProperties
    <2> QED
      BY <1>1, <2>2
  <1>4. /\ c \in Seq(S) /\ Len(c) = Len(a) + Len(b)
        /\ \A j \in 1..Len(a) + Len(b) : c[j] = IF j <= Len(a) THEN a[j] ELSE b[j - Len(a)]
    BY <1>2, <1>3, ConcatProperties
  <1>5. RemoveAt(s, i) = c
    BY DEF RemoveAt
  <1> HIDE DEF a, b, c
  <1>6. ASSUME NEW j \in 1..Len(s) - 1
        PROVE  c[j] = IF j < i THEN s[j] ELSE s[j + 1]
    <2>1. CASE j < i
      <3>1. j \in 1..Len(a) + Len(b) /\ j <= Len(a) /\ j \in 1..i - 1
        BY <1>1, <1>2, <1>3, <2>1
      <3>2. c[j] = a[j]
        BY <1>4, <3>1
      <3> QED
        BY <1>2, <2>1, <3>1, <3>2
    <2>2. CASE ~(j < i)
      <3>1. j \in 1..Len(a) + Len(b) /\ ~(j <= Len(a))
        BY <1>1, <1>2, <1>3, <2>2
      <3>2. j - Len(a) \in 1..Len(s) - i /\ i + (j - Len(a)) = j + 1
        BY <1>1, <1>2, <1>3, <2>2
      <3>3. c[j] = b[j - Len(a)]
        BY <1>4, <3>1
      <3>4. b[j - Len(a)] = s[j + 1]
        BY <1>3, <3>2
      <3> QED
        BY <2>2, <3>3, <3>4
    <2> QED
      BY <2>1, <2>2
  <1> QED
    BY <1>1, <1>2, <1>3, <1>4, <1>5, <1>6

(* Removing a node leaves the others, in their order, and no trace of it.  *)
LEMMA WithoutList ==
    ASSUME NEW S, NEW s \in Seq(S), Distinct(s), NEW x
    PROVE  /\ Without(s, x) \in Seq(S)
           /\ Distinct(Without(s, x))
           /\ \A y : InSeq(y, Without(s, x)) <=> InSeq(y, s) /\ y # x
           /\ ~InSeq(x, s) => Without(s, x) = s
           /\ \A j \in 1..Len(Without(s, x)) :
                \E i \in 1..Len(s) : j <= i /\ s[i] = Without(s, x)[j]
           /\ InSeq(x, s) => Len(Without(s, x)) = Len(s) - 1
  <1>1. CASE ~InSeq(x, s)
    BY <1>1 DEF Without, InSeq
  <1>2. CASE InSeq(x, s)
    <2> DEFINE k == CHOOSE i \in 1..Len(s) : s[i] = x
               r == RemoveAt(s, k)
    <2>1. k \in 1..Len(s) /\ s[k] = x
      BY <1>2 DEF InSeq
    <2>2. Without(s, x) = r
      BY <1>2 DEF Without
    <2> HIDE DEF k
    <2>3. /\ r \in Seq(S) /\ Len(r) = Len(s) - 1
          /\ \A j \in 1..Len(s) - 1 : r[j] = IF j < k THEN s[j] ELSE s[j + 1]
      BY <2>1, RemoveAtList
    <2> HIDE DEF r
    <2>4. Len(s) \in Nat
      OBVIOUS
    <2>5. \A j \in 1..Len(r) : \E i \in 1..Len(s) : j <= i /\ i # k /\ s[i] = r[j]
      <3> TAKE j \in 1..Len(r)
      <3>1. CASE j < k
        BY <2>1, <2>3, <2>4, <3>1
      <3>2. CASE ~(j < k)
        <4>1. j + 1 \in 1..Len(s) /\ j <= j + 1 /\ j + 1 # k /\ s[j + 1] = r[j]
          BY <2>1, <2>3, <2>4, <3>2
        <4> QED
          BY <4>1
      <3> QED
        BY <3>1, <3>2
    <2>6. Distinct(r)
      <3> SUFFICES ASSUME NEW i \in 1..Len(r), NEW j \in 1..Len(r), r[i] = r[j] PROVE i = j
        BY DEF Distinct
      <3>1. \A m, n \in 1..Len(s) : s[m] = s[n] => m = n
        BY DEF Distinct
      <3> QED
        BY <2>1, <2>3, <2>4, <3>1
    <2>7. ASSUME NEW y, InSeq(y, s), y # x PROVE InSeq(y, r)
      <3>1. PICK i \in 1..Len(s) : s[i] = y
        BY <2>7 DEF InSeq
      <3>2. CASE i < k
        BY <2>1, <2>3, <2>4, <3>1, <3>2 DEF InSeq
      <3>3. CASE i > k
        <4>1. i - 1 \in 1..Len(r) /\ r[i - 1] = s[i]
          BY <2>1, <2>3, <2>4, <3>3
        <4> QED
          BY <3>1, <4>1 DEF InSeq
      <3> QED
        BY <2>1, <2>7, <3>1, <3>2, <3>3
    <2>8. ASSUME NEW y, InSeq(y, r) PROVE InSeq(y, s) /\ y # x
      <3>1. PICK j \in 1..Len(r) : r[j] = y
        BY <2>8 DEF InSeq
      <3>2. PICK i \in 1..Len(s) : i # k /\ s[i] = y
        BY <2>5, <3>1
      <3> QED
        BY <2>1, <3>2 DEF InSeq, Distinct
    <2> QED
      BY <1>2, <2>2, <2>3, <2>5, <2>6, <2>7, <2>8
  <1> QED
    BY <1>1, <1>2
=============================================================================
