--------------------------- MODULE QsoDeliveryTypes ---------------------------
(***************************************************************************)
(* First the facts about the sequences QsoDelivery is built from: how many *)
(* edits of a QSO a queue has (EditsOf), and what FlattenSeq puts into the *)
(* queue when the resend and the restock post several packets of several   *)
(* QSOs. Then the inductive invariant of QsoDelivery's accounts (IInv),    *)
(* and that every step keeps the types. The type alone is not inductive:   *)
(* the dialog saves the version after the one it holds, which is in range  *)
(* only because that one is the log's (DialogInv), as no row gets a        *)
(* version while it is open.                                               *)
(***************************************************************************)
EXTENDS QsoDelivery, TLAPS, FiniteSetTheorems, SequenceTheorems, WellFoundedInduction

------------------------------------------------------------------------------
\* Sequences

\* A packet with an edit of q, and where the sequence s has them.
IsEditOf(p, q) == p.kind = "edit" /\ p.qso = q
EditPlaces(q, s) == {i \in DOMAIN s : IsEditOf(s[i], q)}

\* The edits of q in s are counted by their places.
LEMMA EditsOfPlaces == \A q, s : EditsOf(q, s) = Cardinality(EditPlaces(q, s))
BY DEF EditsOf, EditPlaces, IsEditOf

\* A sequence has finitely many edits of q, and none only if no element is one.
LEMMA EditsOfNat ==
    ASSUME NEW S, NEW s \in Seq(S), NEW q
    PROVE  /\ IsFiniteSet(EditPlaces(q, s))
           /\ EditsOf(q, s) \in Nat
           /\ EditsOf(q, s) = 0 <=> \A i \in DOMAIN s : ~IsEditOf(s[i], q)
<1>1. DOMAIN s = 1 .. Len(s) /\ Len(s) \in Nat
  OBVIOUS
<1>2. IsFiniteSet(1 .. Len(s))
  BY <1>1, FS_Interval
<1>3. IsFiniteSet(EditPlaces(q, s))
  BY <1>1, <1>2, FS_Subset DEF EditPlaces
<1>4. EditsOf(q, s) \in Nat
  BY <1>3, FS_CardinalityType, EditsOfPlaces
<1>5. EditsOf(q, s) = 0 <=> EditPlaces(q, s) = {}
  BY <1>3, FS_EmptySet, EditsOfPlaces
<1> QED
  BY <1>3, <1>4, <1>5 DEF EditPlaces

\* Two sequences one after the other have the edits of both.
LEMMA EditsOfConcat ==
    ASSUME NEW S, NEW s \in Seq(S), NEW t \in Seq(S), NEW q
    PROVE  EditsOf(q, s \o t) = EditsOf(q, s) + EditsOf(q, t)
<1> DEFINE n == Len(s)
           A == EditPlaces(q, s)
           B == EditPlaces(q, t)
           C == {i \in (n + 1) .. (n + Len(t)) : i - n \in B}
<1>1. /\ n \in Nat /\ Len(t) \in Nat
      /\ DOMAIN s = 1 .. n /\ DOMAIN t = 1 .. Len(t)
  OBVIOUS
<1>2. /\ DOMAIN (s \o t) = 1 .. (n + Len(t))
      /\ \A i \in 1 .. n : (s \o t)[i] = s[i]
      /\ \A i \in (n + 1) .. (n + Len(t)) : (s \o t)[i] = t[i - n]
  BY <1>1, ConcatProperties, SMT
<1>3. EditPlaces(q, s \o t) = A \cup C
  <2>1. ASSUME NEW i \in EditPlaces(q, s \o t)
        PROVE  i \in A \cup C
    <3>1. i \in 1 .. (n + Len(t)) /\ IsEditOf((s \o t)[i], q)
      BY <2>1, <1>2 DEF EditPlaces
    <3>2. CASE i <= n
      BY <3>1, <3>2, <1>1, <1>2 DEF EditPlaces
    <3>3. CASE i > n
      BY <3>1, <3>3, <1>1, <1>2 DEF EditPlaces
    <3> QED
      BY <3>1, <3>2, <3>3, <1>1
  <2>2. ASSUME NEW i \in A
        PROVE  i \in EditPlaces(q, s \o t)
    BY <2>2, <1>1, <1>2 DEF EditPlaces
  <2>3. ASSUME NEW i \in C
        PROVE  i \in EditPlaces(q, s \o t)
    BY <2>3, <1>1, <1>2 DEF EditPlaces
  <2> QED
    BY <2>1, <2>2, <2>3
<1>4. A \cap C = {}
  BY <1>1 DEF EditPlaces
<1>5. IsFiniteSet(A) /\ IsFiniteSet(B)
  BY EditsOfNat
<1>6. IsFiniteSet(C) /\ Cardinality(C) = Cardinality(B)
  <2> DEFINE f == [i \in B |-> i + n]
  <2>1. f \in [B -> C]
    BY <1>1 DEF EditPlaces
  <2>2. \A i, j \in B : f[i] = f[j] => i = j
    BY <1>1 DEF EditPlaces
  <2>3. \A i \in C : i - n \in B /\ f[i - n] = i
    BY <1>1
  <2>4. f \in Bijection(B, C)
    BY <2>1, <2>2, <2>3 DEF Bijection, Injection, Surjection, IsInjective
  <2> QED
    BY <2>4, <1>5, FS_Bijection DEF ExistsBijection
<1>7. Cardinality(A \cup C) = Cardinality(A) + Cardinality(C) - Cardinality(A \cap C)
  BY <1>5, <1>6, FS_Union
<1>8. Cardinality(A \cap C) = 0
  BY <1>4, FS_EmptySet
<1>9. Cardinality(A) \in Nat /\ Cardinality(C) \in Nat
  BY <1>5, <1>6, FS_CardinalityType
<1>10. Cardinality(EditPlaces(q, s \o t)) = Cardinality(A) + Cardinality(B)
  BY <1>3, <1>6, <1>7, <1>8, <1>9
<1> QED
  BY <1>10, EditsOfPlaces, Zenon

\* One packet is at most one edit.
LEMMA EditsOfOne ==
    ASSUME NEW p, NEW q
    PROVE  EditsOf(q, <<p>>) = IF IsEditOf(p, q) THEN 1 ELSE 0
<1>1. DOMAIN <<p>> = {1} /\ <<p>>[1] = p
  OBVIOUS
<1>2. EditPlaces(q, <<p>>) = IF IsEditOf(p, q) THEN {1} ELSE {}
  BY <1>1 DEF EditPlaces
<1> QED
  BY <1>2, EditsOfPlaces, FS_EmptySet, FS_Singleton

\* An empty queue has no edits.
LEMMA EditsOfEmpty == \A q : EditsOf(q, <<>>) = 0
<1>1. \A q : EditPlaces(q, <<>>) = {}
  BY DEF EditPlaces
<1> QED
  BY <1>1, EditsOfPlaces, FS_EmptySet

\* A packet appended counts once if it is an edit of q.
LEMMA EditsOfAppend ==
    ASSUME NEW S, NEW s \in Seq(S), NEW p \in S, NEW q
    PROVE  EditsOf(q, Append(s, p)) = EditsOf(q, s) + (IF IsEditOf(p, q) THEN 1 ELSE 0)
<1>1. Append(s, p) = s \o <<p>> /\ <<p>> \in Seq(S)
  BY AppendIsConcat
<1>2. EditsOf(q, Append(s, p)) = EditsOf(q, s) + EditsOf(q, <<p>>)
  BY <1>1, EditsOfConcat, Zenon
<1> QED
  BY <1>2, EditsOfOne, Zenon

\* The head taken from a queue counts once if it is an edit of q.
LEMMA EditsOfTail ==
    ASSUME NEW S, NEW s \in Seq(S), s # <<>>, NEW q
    PROVE  EditsOf(q, s) = EditsOf(q, Tail(s)) + (IF IsEditOf(Head(s), q) THEN 1 ELSE 0)
<1>1. s = <<Head(s)>> \o Tail(s) /\ Tail(s) \in Seq(S) /\ Head(s) \in S
  OBVIOUS
<1>2. EditsOf(q, Tail(s)) \in Nat
  BY <1>1, EditsOfNat
<1>3. EditsOf(q, s) = EditsOf(q, <<Head(s)>>) + EditsOf(q, Tail(s))
  <2>1. <<Head(s)>> \in Seq(S)
    BY <1>1
  <2>2. EditsOf(q, <<Head(s)>> \o Tail(s)) = EditsOf(q, <<Head(s)>>) + EditsOf(q, Tail(s))
    BY <1>1, <2>1, EditsOfConcat, Zenon
  <2> QED
    BY <1>1, <2>2, Zenon
<1>4. EditsOf(q, <<Head(s)>>) = IF IsEditOf(Head(s), q) THEN 1 ELSE 0
  BY EditsOfOne, Zenon
<1>5. EditsOf(q, <<Head(s)>>) \in Nat
  BY <1>4
<1> HIDE DEF IsEditOf
<1> QED
  BY <1>2, <1>3, <1>4, <1>5


\* A set of naturals has a least member.
LEMMA LeastOf ==
    ASSUME NEW T, T \subseteq Nat, T # {}
    PROVE  \E x \in T : \A y \in T : x <= y
<1>1. PICK x \in T : \A y \in T : ~ (<<y, x>> \in OpToRel(<, Nat))
  BY NatLessThanWellFounded, WFMin
<1>2. \A y \in T : ~ (y < x)
  BY <1>1 DEF OpToRel
<1> QED
  BY <1>2

\* FlattenSeq takes its sequences one after the other.
LEMMA FlattenSteps ==
    ASSUME NEW S, NEW ss \in Seq(Seq(S)), Len(ss) > 0
    PROVE  \E f \in [1 .. Len(ss) -> Seq(S)] :
              /\ f[1] = ss[1]
              /\ \A i \in 2 .. Len(ss) : f[i] = f[i - 1] \o ss[i]
              /\ FlattenSeq(ss) = f[Len(ss)]
<1> DEFINE N == Len(ss)
           Body(f) == [i \in 1 .. N |-> IF i = 1 THEN ss[i] ELSE f[i - 1] \o ss[i]]
           Flat(f, n) == /\ f \in [1 .. n -> Seq(S)]
                         /\ \A i \in 1 .. n : f[i] = IF i = 1 THEN ss[i] ELSE f[i - 1] \o ss[i]
           T == {n \in 1 .. N : ~ \E f : Flat(f, n)}
<1>1. N \in Nat /\ N > 0 /\ \A i \in 1 .. N : ss[i] \in Seq(S)
  OBVIOUS
<1> HIDE DEF N, Flat
<1>2. T = {}
  <2> SUFFICES ASSUME T # {} PROVE FALSE
    OBVIOUS
  <2>1. PICK n \in T : \A m \in T : n <= m
    <3>1. T \subseteq Nat
      BY <1>1
    <3> QED
      BY <3>1, LeastOf
  <2>2. n \in 1 .. N
    OBVIOUS
  <2>3. CASE n = 1
    <3>1. Flat([i \in 1 .. 1 |-> ss[1]], 1)
      BY <1>1 DEF Flat
    <3> QED
      BY <3>1, <2>3
  <2>4. CASE n # 1
    <3>1. n - 1 \in 1 .. N /\ n - 1 \notin T
      <4>1. n \in Nat /\ n - 1 \in 1 .. N
        BY <2>2, <2>4, <1>1
      <4>2. ~ (n <= n - 1)
        BY <4>1
      <4> HIDE DEF T
      <4> QED
        BY <2>1, <4>1, <4>2
    <3>2. PICK g : Flat(g, n - 1)
      BY <3>1
    <3> DEFINE f == [i \in 1 .. n |-> IF i = n THEN g[n - 1] \o ss[n] ELSE g[i]]
    <3>3. g[n - 1] \in Seq(S) /\ ss[n] \in Seq(S)
      BY <3>1, <3>2, <2>2, <1>1 DEF Flat
    <3>4. f \in [1 .. n -> Seq(S)]
      <4>1. g[n - 1] \o ss[n] \in Seq(S)
        BY <3>3, ConcatProperties
      <4>2. \A i \in 1 .. n : i # n => i \in 1 .. (n - 1)
        BY <2>2, <1>1
      <4>3. \A i \in 1 .. (n - 1) : g[i] \in Seq(S)
        BY <3>2 DEF Flat
      <4> QED
        BY <4>1, <4>2, <4>3
    <3>5. ASSUME NEW i \in 1 .. n
          PROVE  f[i] = IF i = 1 THEN ss[i] ELSE f[i - 1] \o ss[i]
      <4>1. CASE i = n
        <5>1. n \in 1 .. n /\ n - 1 \in 1 .. n /\ n - 1 # n
          BY <2>2, <2>4, <1>1
        <5>2. f[n] = g[n - 1] \o ss[n] /\ f[n - 1] = g[n - 1]
          BY <5>1
        <5> QED
          BY <4>1, <5>2, <2>4
      <4>2. CASE i # n
        <5>1. i \in 1 .. (n - 1) /\ (i # 1 => i - 1 \in 1 .. (n - 1))
          BY <4>2, <2>2
        <5>2. g[i] = IF i = 1 THEN ss[i] ELSE g[i - 1] \o ss[i]
          BY <5>1, <3>2 DEF Flat
        <5> QED
          BY <5>1, <5>2, <4>2, <2>2
      <4> QED
        BY <4>1, <4>2
    <3>6. Flat(f, n)
      BY <3>4, <3>5 DEF Flat
    <3> QED
      BY <3>6
  <2> QED
    BY <2>3, <2>4
<1>3. PICK h : Flat(h, N)
  <2>1. N \in 1 .. N
    BY <1>1
  <2>2. N \notin T
    <3> HIDE DEF T
    <3> QED
      BY <1>2
  <2> QED
    BY <2>1, <2>2
<1> DEFINE g == CHOOSE f : f = Body(f)
<1>4. h = Body(h)
  <2>1. h = [i \in 1 .. N |-> h[i]]
    BY <1>3 DEF Flat
  <2> QED
    BY <2>1, <1>3 DEF Flat
<1>5. g = Body(g)
  BY <1>4
<1>6. FlattenSeq(ss) = g[N]
  BY <1>1 DEF FlattenSeq, N
<1>7. \A i \in 1 .. N : g[i] = IF i = 1 THEN ss[i] ELSE g[i - 1] \o ss[i]
  BY <1>5
<1> HIDE DEF g
<1>8. \A i \in 1 .. N : g[i] \in Seq(S)
  <2> DEFINE U == {n \in 1 .. N : g[n] \notin Seq(S)}
  <2> SUFFICES ASSUME U # {} PROVE FALSE
    OBVIOUS
  <2>1. U \subseteq Nat
    BY <1>1
  <2>2. PICK n \in U : \A m \in U : n <= m
    BY <2>1, LeastOf
  <2>3. n \in 1 .. N /\ g[n] \notin Seq(S)
    OBVIOUS
  <2>4. n # 1
    BY <2>3, <1>1, <1>7
  <2>5. n - 1 \in 1 .. N /\ n - 1 \notin U
    <3>1. n \in Nat /\ n - 1 \in 1 .. N
      BY <2>3, <2>4, <1>1
    <3>2. ~ (n <= n - 1)
      BY <3>1
    <3> HIDE DEF U
    <3> QED
      BY <2>2, <3>1, <3>2
  <2>6. g[n - 1] \in Seq(S)
    BY <2>5
  <2>7. g[n] = g[n - 1] \o ss[n]
    BY <2>3, <2>4, <1>7
  <2> HIDE DEF g, U
  <2> QED
    BY <2>3, <2>6, <2>7, <1>1, ConcatProperties
<1>9. g \in [1 .. N -> Seq(S)]
  BY <1>5, <1>8
<1>10. g[1] = ss[1] /\ \A i \in 2 .. N : g[i] = g[i - 1] \o ss[i]
  <2>1. 1 \in 1 .. N /\ \A i \in 2 .. N : i \in 1 .. N /\ i # 1
    BY <1>1
  <2> QED
    BY <2>1, <1>7
<1> QED
  BY <1>6, <1>9, <1>10 DEF N

\* What holds of the first sequence, and of one more if it held so far, holds of all.
LEMMA FlattenSeqOf ==
    ASSUME NEW S, NEW ss \in Seq(Seq(S))
    PROVE  FlattenSeq(ss) \in Seq(S)
<1>1. CASE Len(ss) = 0
  <2>1. FlattenSeq(ss) = ss /\ ss = <<>>
    BY <1>1 DEF FlattenSeq
  <2> QED
    BY <2>1
<1>2. CASE Len(ss) > 0
  <2>1. Len(ss) \in 1 .. Len(ss)
    BY <1>2
  <2>2. PICK f \in [1 .. Len(ss) -> Seq(S)] : FlattenSeq(ss) = f[Len(ss)]
    BY <1>2, FlattenSteps, Zenon
  <2> QED
    BY <2>1, <2>2
<1>3. Len(ss) \in Nat
  OBVIOUS
<1> QED
  BY <1>1, <1>2, <1>3

\* An element of two sequences in a row is an element of one of them.
LEMMA ConcatPlaces ==
    ASSUME NEW S, NEW s \in Seq(S), NEW t \in Seq(S), NEW i \in DOMAIN (s \o t)
    PROVE  \/ i \in DOMAIN s /\ (s \o t)[i] = s[i]
           \/ i - Len(s) \in DOMAIN t /\ (s \o t)[i] = t[i - Len(s)]
<1>1. /\ Len(s) \in Nat /\ Len(t) \in Nat
      /\ DOMAIN s = 1 .. Len(s) /\ DOMAIN t = 1 .. Len(t)
  OBVIOUS
<1>2. /\ DOMAIN (s \o t) = 1 .. (Len(s) + Len(t))
      /\ \A k \in 1 .. Len(s) : (s \o t)[k] = s[k]
      /\ \A k \in (Len(s) + 1) .. (Len(s) + Len(t)) : (s \o t)[k] = t[k - Len(s)]
  BY <1>1, ConcatProperties, SMT
<1> QED
  BY <1>1, <1>2

\* Each element of the whole is an element of one of the sequences.
LEMMA FlattenFrom ==
    ASSUME NEW S, NEW ss \in Seq(Seq(S)), NEW j \in DOMAIN FlattenSeq(ss)
    PROVE  \E r \in DOMAIN ss : \E k \in DOMAIN ss[r] : FlattenSeq(ss)[j] = ss[r][k]
<1>1. CASE Len(ss) = 0
  <2>1. FlattenSeq(ss) = <<>>
    BY <1>1 DEF FlattenSeq
  <2> QED
    BY <2>1
<1>2. CASE Len(ss) > 0
  <2>1. PICK f \in [1 .. Len(ss) -> Seq(S)] :
          /\ f[1] = ss[1]
          /\ \A i \in 2 .. Len(ss) : f[i] = f[i - 1] \o ss[i]
          /\ FlattenSeq(ss) = f[Len(ss)]
    BY <1>2, FlattenSteps
  <2>2. Len(ss) \in Nat /\ DOMAIN ss = 1 .. Len(ss) /\ \A r \in 1 .. Len(ss) : ss[r] \in Seq(S)
    OBVIOUS
  <2> DEFINE Has(x, r) == \E k \in DOMAIN ss[r] : x = ss[r][k]
             U == {n \in 1 .. Len(ss) : \E i \in DOMAIN f[n] : \A r \in DOMAIN ss : ~ Has(f[n][i], r)}
  <2>3. U = {}
    <3> SUFFICES ASSUME U # {} PROVE FALSE
      OBVIOUS
    <3>1. PICK n \in U : \A m \in U : n <= m
      <4>1. U \subseteq Nat
        BY <2>2
      <4> HIDE DEF U
      <4> QED
        BY <4>1, LeastOf
    <3>2. n \in 1 .. Len(ss)
      OBVIOUS
    <3>3. PICK i \in DOMAIN f[n] : \A r \in DOMAIN ss : ~ Has(f[n][i], r)
      OBVIOUS
    <3>4. n # 1
      BY <3>2, <3>3, <2>1, <2>2
    <3>5. n - 1 \in 1 .. Len(ss) /\ n - 1 \notin U
      <4>1. n \in Nat /\ n - 1 \in 1 .. Len(ss)
        BY <3>2, <3>4, <2>2
      <4>2. ~ (n <= n - 1)
        BY <4>1
      <4> HIDE DEF U
      <4> QED
        BY <3>1, <4>1, <4>2
    <3>6. f[n] = f[n - 1] \o ss[n] /\ f[n - 1] \in Seq(S) /\ ss[n] \in Seq(S)
      <4>1. n \in 2 .. Len(ss)
        BY <3>2, <3>4, <2>2
      <4> HIDE DEF U
      <4> QED
        BY <3>2, <3>5, <4>1, <2>1, <2>2
    <3>7. \/ i \in DOMAIN f[n - 1] /\ f[n][i] = f[n - 1][i]
          \/ i - Len(f[n - 1]) \in DOMAIN ss[n] /\ f[n][i] = ss[n][i - Len(f[n - 1])]
      <4> HIDE DEF U, Has
      <4>1. i \in DOMAIN (f[n - 1] \o ss[n])
        BY <3>3, <3>6, Zenon
      <4>2. \/ i \in DOMAIN f[n - 1] /\ (f[n - 1] \o ss[n])[i] = f[n - 1][i]
            \/ i - Len(f[n - 1]) \in DOMAIN ss[n]
               /\ (f[n - 1] \o ss[n])[i] = ss[n][i - Len(f[n - 1])]
        <5>1. f[n - 1] \in Seq(S) /\ ss[n] \in Seq(S)
          BY <3>6
        <5> QED
          BY <4>1, <5>1, ConcatPlaces, Zenon
      <4> QED
        BY <3>6, <4>2, Zenon
    <3>8. ~ (i \in DOMAIN f[n - 1] /\ f[n][i] = f[n - 1][i])
      <4> HIDE DEF Has
      <4> QED
        BY <3>3, <3>5
    <3>9. n \in DOMAIN ss
      BY <3>2, <2>2
    <3>10. \E k \in DOMAIN ss[n] : f[n][i] = ss[n][k]
      BY <3>7, <3>8, Zenon
    <3> QED
      BY <3>3, <3>9, <3>10, Zenon
  <2>4. Len(ss) \in 1 .. Len(ss) /\ Len(ss) \notin U
    <3> HIDE DEF U
    <3> QED
      BY <2>2, <2>3, <1>2
  <2>5. \A i \in DOMAIN f[Len(ss)] : \E r \in DOMAIN ss : Has(f[Len(ss)][i], r)
    <3> HIDE DEF Has
    <3> QED
      BY <2>4, Zenon
  <2>6. PICK r \in DOMAIN ss : Has(FlattenSeq(ss)[j], r)
    <3> HIDE DEF Has, U
    <3> QED
      BY <2>1, <2>5, Zenon
  <2> QED
    BY <2>6
<1>3. Len(ss) \in Nat
  OBVIOUS
<1> QED
  BY <1>1, <1>2, <1>3

\* If only one of the sequences has edits of q, the whole has that one's.
LEMMA FlattenEdits ==
    ASSUME NEW S, NEW ss \in Seq(Seq(S)), NEW q \in DOMAIN ss,
           \A r \in DOMAIN ss : r # q => EditsOf(q, ss[r]) = 0
    PROVE  EditsOf(q, FlattenSeq(ss)) = EditsOf(q, ss[q])
<1>1. Len(ss) \in Nat /\ DOMAIN ss = 1 .. Len(ss) /\ \A r \in 1 .. Len(ss) : ss[r] \in Seq(S)
  OBVIOUS
<1>2. q \in 1 .. Len(ss) /\ Len(ss) > 0
  BY <1>1
<1>3. PICK f \in [1 .. Len(ss) -> Seq(S)] :
        /\ f[1] = ss[1]
        /\ \A i \in 2 .. Len(ss) : f[i] = f[i - 1] \o ss[i]
        /\ FlattenSeq(ss) = f[Len(ss)]
  BY <1>2, FlattenSteps
<1> DEFINE Want(n) == IF q <= n THEN EditsOf(q, ss[q]) ELSE 0
           U == {n \in 1 .. Len(ss) : EditsOf(q, f[n]) # Want(n)}
<1>4. EditsOf(q, ss[q]) \in Nat
  BY <1>1, EditsOfNat
<1>5. U = {}
  <2> SUFFICES ASSUME U # {} PROVE FALSE
    OBVIOUS
  <2>1. PICK n \in U : \A m \in U : n <= m
    <3>1. U \subseteq Nat
      BY <1>1
    <3> HIDE DEF U
    <3> QED
      BY <3>1, LeastOf
  <2>2. n \in 1 .. Len(ss) /\ EditsOf(q, f[n]) # Want(n)
    OBVIOUS
  <2>3. n # 1
    <3>1. CASE q = 1
      BY <3>1, <2>2, <1>3, <1>4
    <3>2. CASE q # 1
      <4>1. EditsOf(q, ss[1]) = 0
        <5>1. 1 \in DOMAIN ss
          BY <1>1, <1>2
        <5> QED
          BY <3>2, <5>1, Zenon
      <4>2. Want(1) = 0
        BY <3>2, <1>1, <1>2
      <4> HIDE DEF Want
      <4>3. EditsOf(q, f[1]) = Want(1)
        BY <4>1, <4>2, <1>3, Zenon
      <4> QED
        BY <2>2, <4>3
    <3> QED
      BY <3>1, <3>2
  <2>4. n - 1 \in 1 .. Len(ss) /\ n - 1 \notin U
    <3>1. n \in Nat /\ n - 1 \in 1 .. Len(ss)
      BY <2>2, <2>3, <1>1
    <3>2. ~ (n <= n - 1)
      BY <3>1
    <3> HIDE DEF U
    <3> QED
      BY <2>1, <3>1, <3>2
  <2>5. f[n] = f[n - 1] \o ss[n] /\ f[n - 1] \in Seq(S) /\ ss[n] \in Seq(S)
    <3>1. n \in 2 .. Len(ss)
      BY <2>2, <2>3, <1>1
    <3> HIDE DEF U
    <3> QED
      BY <2>2, <2>4, <3>1, <1>1, <1>3
  <2>6. EditsOf(q, f[n]) = EditsOf(q, f[n - 1]) + EditsOf(q, ss[n])
    BY <2>5, EditsOfConcat
  <2>7. EditsOf(q, f[n - 1]) = Want(n - 1)
    BY <2>4
  <2>8. EditsOf(q, ss[n]) = IF q = n THEN EditsOf(q, ss[q]) ELSE 0
    BY <2>2, <1>1
  <2>9. n \in Nat /\ q \in Nat
    BY <2>2, <1>1, <1>2
  <2>10. CASE q = n
    <3>1. Want(n) = EditsOf(q, ss[q]) /\ Want(n - 1) = 0
      BY <2>9, <2>10
    <3> HIDE DEF Want
    <3> QED
      BY <3>1, <2>2, <2>6, <2>7, <2>8, <2>10, <1>4
  <2>11. CASE q # n
    <3>1. Want(n) = Want(n - 1) /\ Want(n) \in Nat
      BY <2>9, <2>11, <1>4
    <3> HIDE DEF Want
    <3> QED
      BY <3>1, <2>2, <2>6, <2>7, <2>8, <2>11
  <2> QED
    BY <2>10, <2>11
<1>6. Len(ss) \in 1 .. Len(ss) /\ Len(ss) \notin U
  <2> HIDE DEF U
  <2> QED
    BY <1>2, <1>5, <1>1
<1>7. EditsOf(q, f[Len(ss)]) = Want(Len(ss))
  <2> HIDE DEF Want
  <2> QED
    BY <1>6
<1> QED
  BY <1>2, <1>3, <1>7

------------------------------------------------------------------------------
\* The inductive invariant, and the types

\* An edit of q is queued, or one of its packets failed.
Pending(q) == EditsOf(q, outq) > 0 \/ edits[q].failed \/ FailedNow(q)

\* Nothing is posted before the first link.
LinkInv == /\ outq # <<>> => links > 0
           /\ Connected => links > 0

\* Of a QSO not made nothing is anywhere.
MadeInv ==
    /\ \A q \in Qsos : q > made => ~Logged(q) /\ server[q].ver = 0 /\ image[q] = 0
    /\ \A i \in DOMAIN outq : outq[i].qso <= made
    /\ \A i \in DOMAIN wire : wire[i].qso <= made

\* The open dialog holds the version the log has.
DialogInv ==
    dialog # None => /\ storing = None
                     /\ Logged(dialog.qso)
                     /\ dialog.row.ver = row[dialog.qso].ver

\* A row about to be stored is dirty, or nothing of it is under way.
StoringInv ==
    storing # None => /\ storing.row.ver > 0
                      /\ storing.qso <= made
                      /\ storing.row.dirty \/ ~Pending(storing.qso)

\* Of a QSO not logged nothing is pending.
UnloggedInv == \A q \in Qsos : ~Logged(q) => ~Pending(q)

\* The invariant of the accounts.
IInv == /\ TypeOK /\ LinkInv /\ MadeInv /\ DialogInv /\ StoringInv /\ UnloggedInv
        /\ LedgerExact /\ UnwrittenEditIsOwed /\ OutcomeIsScheduled

USE BoundsAssumption, NoneAssumption

\* The program starts with the invariant: nothing logged, posted or in flight.
LEMMA TypeInit == Init => IInv
<1> SUFFICES ASSUME Init PROVE IInv
  OBVIOUS
<1>1. TypeOK
  BY DEF Init, TypeOK, Qsos, Versions, Rows, NotLogged, NoEdits, NoImage
<1>2. \A q \in Qsos : ~Pending(q) /\ ~Logged(q) /\ image[q] = 0
  BY EditsOfEmpty DEF Init, Pending, FailedNow, NoEdits, Logged, NotLogged, NoImage
<1>3. LedgerExact
  BY EditsOfEmpty DEF Init, LedgerExact, NoEdits
<1> QED
  BY <1>1, <1>2, <1>3 DEF Init, IInv, LinkInv, MadeInv, DialogInv, StoringInv, UnloggedInv,
     UnwrittenEditIsOwed, Pending, OutcomeIsScheduled, Connected

\* The type of what the send queue and the dialog hold, in the forms the steps use.
LEMMA TypeSteps ==
    ASSUME TypeOK
    PROVE  /\ \A k \in {"qso", "edit", "offline"}, q \in Qsos, v \in Versions : Packet(k, q, v) \in Packets
           /\ \A p \in Packets : p.kind \in {"qso", "edit", "offline"} /\ p.qso \in Qsos /\ p.ver \in Versions
           /\ \A q \in Qsos : row[q] \in Rows /\ row[q].ver \in Versions
BY DEF TypeOK, Packet, Packets, Rows

\* LogContact: the new QSO is in range and its packet is one.
LEMMA TypeLogContact == TypeOK /\ LogContact => TypeOK'
<1> SUFFICES ASSUME TypeOK, LogContact PROVE TypeOK'
  OBVIOUS
<1>1. made + 1 \in Qsos /\ 1 \in Versions
  BY DEF TypeOK, LogContact, Qsos, Versions
<1>2. outq' \in Seq(Packets) /\ edits' = edits
  BY <1>1, TypeSteps DEF TypeOK, LogContact, PostQso
<1>3. storing' \in [qso : Qsos, row : Rows]
  BY <1>1 DEF LogContact, Rows
<1>4. made' \in 0 .. NumQsos
  BY DEF LogContact, TypeOK
<1> QED
  BY <1>2, <1>3, <1>4 DEF TypeOK, LogContact, history

\* StoreRow: the row stored, or the refusal counted, is in range.
LEMMA TypeStoreRow == TypeOK /\ (\E b \in BOOLEAN : StoreRow(b)) => TypeOK'
<1> SUFFICES ASSUME TypeOK, NEW b \in BOOLEAN, StoreRow(b) PROVE TypeOK'
  OBVIOUS
<1>1. storing \in [qso : Qsos, row : Rows]
  BY DEF TypeOK, StoreRow
<1>2. storing.qso \in Qsos /\ storing.row \in Rows
  BY <1>1
<1>3. row' \in [Qsos -> Rows]
  BY <1>2 DEF TypeOK, StoreRow
<1>4. leftOut' \subseteq Qsos /\ unstored' \subseteq Qsos /\ accidents' \in 0 .. MaxAccidents /\ storing' = None
  BY <1>2 DEF TypeOK, StoreRow
<1> QED
  BY <1>3, <1>4 DEF TypeOK, StoreRow, delivery

\* PostEdit: the queue takes an edit packet and the ledger one more.
LEMMA TypePostEdit ==
    ASSUME TypeOK, NEW q \in Qsos, NEW v \in Versions, PostEdit(q, v)
    PROVE  outq' \in Seq(Packets) /\ edits' \in [Qsos -> [count : Nat, failed : BOOLEAN]]
<1>1. Packet("edit", q, v) \in Packets
  BY TypeSteps
<1>2. edits \in [Qsos -> [count : Nat, failed : BOOLEAN]] /\ outq \in Seq(Packets)
  BY DEF TypeOK
<1>3. edits[q].count + 1 \in Nat /\ edits[q] \in [count : Nat, failed : BOOLEAN]
  BY <1>2
<1>4. [edits[q] EXCEPT !.count = @ + 1] \in [count : Nat, failed : BOOLEAN]
  BY <1>3
<1>5. EditPosted(edits, q) \in [Qsos -> [count : Nat, failed : BOOLEAN]]
  BY <1>2, <1>4 DEF EditPosted
<1>6. Append(outq, Packet("edit", q, v)) \in Seq(Packets)
  BY <1>1, <1>2, AppendProperties
<1> QED
  BY <1>2, <1>5, <1>6 DEF PostEdit

\* DeleteLastContact: the deleted QSO's row gets the next version.
LEMMA TypeDeleteLastContact == TypeOK /\ (\E b \in BOOLEAN : DeleteLastContact(b)) => TypeOK'
<1> SUFFICES ASSUME TypeOK, NEW b \in BOOLEAN, DeleteLastContact(b) PROVE TypeOK'
  OBVIOUS
<1>1. PICK q \in Qsos :
        /\ EditOf(q)
        /\ row' = IF b THEN [row EXCEPT ![q].ver = @ + 1, ![q].dirty = TRUE] ELSE row
        /\ unstored' = IF b THEN unstored ELSE unstored \cup {q}
        /\ PostEdit(q, row[q].ver + 1)
  BY DEF DeleteLastContact
<1>2. row[q].ver + 1 \in Versions
  BY <1>1, TypeSteps DEF EditOf, Versions
<1>3. row' \in [Qsos -> Rows]
  <2>1. row \in [Qsos -> Rows] /\ row[q] \in Rows
    BY TypeSteps DEF TypeOK
  <2>2. [[row[q] EXCEPT !.ver = @ + 1] EXCEPT !.dirty = TRUE] \in Rows
    BY <2>1, <1>2 DEF Rows
  <2>3. b => row' = [row EXCEPT ![q] = [[row[q] EXCEPT !.ver = @ + 1] EXCEPT !.dirty = TRUE]]
    BY <1>1, <2>1
  <2> QED
    BY <1>1, <2>1, <2>2, <2>3
<1>4. raced' \subseteq Qsos /\ unstored' \subseteq Qsos
  BY <1>1 DEF TypeOK, EditOf
<1>5. accidents' \in 0 .. MaxAccidents
  BY DEF TypeOK, DeleteLastContact
<1> QED
  BY <1>1, <1>2, <1>3, <1>4, <1>5, TypePostEdit DEF TypeOK, DeleteLastContact

\* OpenEditDialog: the dialog takes a row of the log.
LEMMA TypeOpenEditDialog == TypeOK /\ OpenEditDialog => TypeOK'
<1> SUFFICES ASSUME TypeOK, OpenEditDialog PROVE TypeOK'
  OBVIOUS
<1>1. dialog' \in [qso : Qsos, row : Rows]
  BY TypeSteps DEF OpenEditDialog
<1> QED
  BY <1>1 DEF TypeOK, OpenEditDialog, delivery, bounds, history

\* SaveEditDialog: the version saved is in range, as the dialog's is the log's.
LEMMA TypeSaveEditDialog == TypeOK /\ DialogInv /\ SaveEditDialog => TypeOK'
<1> SUFFICES ASSUME TypeOK, DialogInv, SaveEditDialog PROVE TypeOK'
  OBVIOUS
<1> DEFINE q == dialog.qso
           rec == [dialog.row EXCEPT !.ver = @ + 1, !.dirty = TRUE]
<1>1. /\ EditOf(q) /\ PostEdit(q, rec.ver)
      /\ storing' = [qso |-> q, row |-> rec] /\ dialog # None
  BY DEF SaveEditDialog
<1>2. dialog \in [qso : Qsos, row : Rows]
  BY <1>1 DEF TypeOK
<1>3. q \in Qsos /\ dialog.row \in Rows
  BY <1>2
<1>4. dialog.row.ver + 1 \in Versions
  BY <1>1, <1>3, TypeSteps DEF EditOf, Versions, DialogInv, Rows
<1>5. rec \in Rows /\ rec.ver \in Versions
  BY <1>3, <1>4 DEF Rows
<1>6. raced' \subseteq Qsos
  BY <1>1, <1>3 DEF TypeOK, EditOf
<1>7. outq' \in Seq(Packets) /\ edits' \in [Qsos -> [count : Nat, failed : BOOLEAN]]
  BY <1>1, <1>3, <1>5, TypePostEdit
<1>8. storing' \in [qso : Qsos, row : Rows]
  BY <1>1, <1>3, <1>5
<1> QED
  BY <1>6, <1>7, <1>8 DEF TypeOK, SaveEditDialog, bounds

\* CancelEditDialog: the dialog is let go.
LEMMA TypeCancel == TypeOK /\ CancelEditDialog => TypeOK'
BY DEF TypeOK, CancelEditDialog, delivery, bounds, history

\* The writer: what it takes is a packet and what it reports an outcome.
LEMMA TypeWriter == TypeOK /\ Writer => TypeOK'
<1> SUFFICES ASSUME TypeOK, NEW ok \in BOOLEAN, WriterFinishes(ok) PROVE TypeOK'
  BY DEF Writer
<1> DEFINE p == Head(outq)
<1>1. p \in Packets /\ Tail(outq) \in Seq(Packets)
  BY DEF TypeOK, WriterFinishes
<1>2. wire' \in Seq(Packets) /\ written' \subseteq Packets
  BY <1>1 DEF TypeOK, WriterFinishes
<1>3. Reported(p, ok) => [kind |-> p.kind, qso |-> p.qso, ok |-> ok] \in Outcomes
  BY <1>1 DEF Packets, Outcomes, Reported
<1>4. outcomes' \in Seq(Outcomes)
  <2> DEFINE o == [kind |-> p.kind, qso |-> p.qso, ok |-> ok]
  <2>1. outcomes' = IF Reported(p, ok) THEN Append(outcomes, o) ELSE outcomes
    BY DEF WriterFinishes
  <2>2. outcomes \in Seq(Outcomes)
    BY DEF TypeOK
  <2>3. o \in Outcomes => Append(outcomes, o) \in Seq(Outcomes)
    <3> HIDE DEF o
    <3> QED
      BY <2>2, AppendProperties
  <2> HIDE DEF o
  <2> QED
    BY <2>1, <2>2, <2>3, <1>3 DEF o
<1>5. settleDue' \in 0 .. MaxLinks
  BY DEF TypeOK, WriterFinishes
<1> QED
  BY <1>1, <1>2, <1>4, <1>5 DEF TypeOK, WriterFinishes, bounds

\* Settle: the ledger's counts go down and never below zero.
LEMMA TypeSettle == TypeOK /\ (\E b \in BOOLEAN : Settle(b)) => TypeOK'
<1> SUFFICES ASSUME TypeOK, NEW b \in BOOLEAN, Settle(b) PROVE TypeOK'
  OBVIOUS
<1>1. Marked \in [Qsos -> Rows]
  <2>1. ASSUME NEW q \in Qsos PROVE Marked[q] \in Rows
    <3>1. row[q] \in Rows
      BY TypeSteps
    <3>2. Marked[q] = [ver |-> row[q].ver, sent |-> row[q].sent \/ (q \in Sent /\ Logged(q)),
                       dirty |-> row[q].dirty /\ q \notin EditsDone]
      BY <3>1 DEF Marked, Rows
    <3> QED
      BY <3>1, <3>2 DEF Rows
  <2> QED
    BY <2>1 DEF Marked
<1>2. EditsSettled \in [Qsos -> [count : Nat, failed : BOOLEAN]]
  <2>1. \A q \in Qsos : EditsOf(q, outcomes) \in Nat
    BY EditsOfNat DEF TypeOK
  <2>2. \A q \in Qsos : FailedNow(q) \in BOOLEAN
    BY DEF FailedNow
  <2> QED
    BY <2>1, <2>2 DEF TypeOK, EditsSettled, NoEdits
<1>3. settleDue' = 0 /\ outcomes' = <<>>
  BY DEF Settle
<1> QED
  BY <1>1, <1>2, <1>3 DEF TypeOK, Settle, bounds, history


\* LinkUp and LinkDrops: what is on the wire names QSOs of the log.
LEMMA TypeLink == TypeOK /\ (LinkUp \/ LinkDrops) => TypeOK'
<1>1. TypeOK /\ LinkUp => TypeOK'
  BY DEF TypeOK, LinkUp, delivery
<1>2. TypeOK /\ LinkDrops => TypeOK'
  <2> SUFFICES ASSUME TypeOK, LinkDrops PROVE TypeOK'
    OBVIOUS
  <2>1. WireEdits \subseteq Qsos
    BY TypeSteps DEF TypeOK, WireEdits
  <2>2. lostEdits' \subseteq Qsos /\ wire' = <<>>
    BY <2>1 DEF TypeOK, LinkDrops
  <2> QED
    BY <2>2 DEF TypeOK, LinkDrops, delivery, bounds
<1> QED
  BY <1>1, <1>2

\* A sequence per QSO is a sequence of sequences.
LEMMA PerQso ==
    ASSUME NEW S, NEW ss \in [Qsos -> Seq(S)]
    PROVE  ss \in Seq(Seq(S)) /\ DOMAIN ss = Qsos
BY DEF Qsos

\* What the resend and the restock post, QSO by QSO.
OwedByQso == [q \in Qsos |-> OwedPackets(q)]
OfflineByQso == [q \in Qsos |-> IF q \in ToPush THEN <<Packet("offline", q, row[q].ver)>> ELSE <<>>]

\* What the resend posts of each QSO is a sequence of packets.
LEMMA TypeOwed == TypeOK => OwedByQso \in [Qsos -> Seq(Packets)]
<1> SUFFICES ASSUME TypeOK, NEW q \in Qsos PROVE OwedPackets(q) \in Seq(Packets)
  BY DEF OwedByQso
<1> DEFINE a == IF row[q].sent THEN <<>> ELSE <<Packet("qso", q, row[q].ver)>>
           b == IF row[q].dirty THEN <<Packet("edit", q, row[q].ver)>> ELSE <<>>
<1>1. a \in Seq(Packets) /\ b \in Seq(Packets)
  BY TypeSteps
<1>2. OwedPackets(q) = IF ~Logged(q) THEN <<>> ELSE a \o b
  BY DEF OwedPackets
<1> HIDE DEF a, b
<1>3. a \o b \in Seq(Packets)
  BY <1>1, ConcatProperties
<1> QED
  BY <1>2, <1>3

\* What the restock posts of each QSO is a sequence of packets.
LEMMA TypeOffline == TypeOK => OfflineByQso \in [Qsos -> Seq(Packets)]
<1> SUFFICES ASSUME TypeOK, NEW q \in Qsos PROVE <<Packet("offline", q, row[q].ver)>> \in Seq(Packets)
  BY DEF OfflineByQso
<1> QED
  BY TypeSteps

\* ServerHello: the resend appends packets to the queue and counts its edits.
LEMMA TypeServerHello == TypeOK /\ (\E b \in BOOLEAN : ServerHello(b)) => TypeOK'
<1> SUFFICES ASSUME TypeOK, NEW b \in BOOLEAN, ServerHello(b) PROVE TypeOK'
  OBVIOUS
<1>1. outq' \in Seq(Packets)
  <2>1. OwedByQso \in Seq(Seq(Packets))
    BY TypeOwed, PerQso
  <2>2. FlattenSeq(OwedByQso) \in Seq(Packets)
    BY <2>1, FlattenSeqOf
  <2>3. outq \in Seq(Packets)
    BY DEF TypeOK
  <2>4. outq \o FlattenSeq(OwedByQso) \in Seq(Packets)
    BY <2>2, <2>3, ConcatProperties
  <2>5. outq' = IF b THEN outq \o FlattenSeq(OwedByQso) ELSE outq
    BY DEF ServerHello, ResendOfflineWork, OwedByQso
  <2> QED
    BY <2>3, <2>4, <2>5
<1>2. edits' \in [Qsos -> [count : Nat, failed : BOOLEAN]]
  <2>1. edits \in [Qsos -> [count : Nat, failed : BOOLEAN]]
    BY DEF TypeOK
  <2>2. ASSUME NEW q \in Qsos
        PROVE  EditPosted(edits, q)[q] \in [count : Nat, failed : BOOLEAN]
    <3>1. edits[q].count + 1 \in Nat /\ edits[q] \in [count : Nat, failed : BOOLEAN]
      BY <2>1
    <3>2. EditPosted(edits, q)[q] = [edits[q] EXCEPT !.count = @ + 1]
      BY <2>1 DEF EditPosted
    <3> QED
      BY <3>1, <3>2
  <2>3. ResendOfflineWork => edits' \in [Qsos -> [count : Nat, failed : BOOLEAN]]
    BY <2>1, <2>2 DEF ResendOfflineWork
  <2> QED
    BY <2>1, <2>3 DEF ServerHello
<1>3. resent' \in [Qsos -> {"no", "whole", "edit"}]
  BY DEF TypeOK, ServerHello, ResendOfflineWork
<1>4. leftOut' \subseteq Qsos /\ sync' \in {"idle", "fetching", "fetched"} \cup Questions /\ link' = "ready"
  BY DEF TypeOK, ServerHello
<1> QED
  BY <1>1, <1>2, <1>3, <1>4 DEF TypeOK, ServerHello, bounds

\* ServerReads: the record the server stores or updates is one.
LEMMA TypeServerReads == TypeOK /\ ServerReads => TypeOK'
<1> SUFFICES ASSUME TypeOK, ServerReads PROVE TypeOK'
  OBVIOUS
<1> DEFINE p == Head(wire)
<1>1. p \in Packets /\ wire' \in Seq(Packets)
  BY DEF TypeOK, ServerReads
<1>2. p.qso \in Qsos /\ p.ver \in Versions
  BY <1>1, TypeSteps
<1>3. server \in [Qsos -> [copies : Nat, ver : Versions]]
  BY DEF TypeOK
<1>4. \/ server' = server
      \/ server' = [server EXCEPT ![p.qso].ver = p.ver]
      \/ server' = [server EXCEPT ![p.qso] = [copies |-> @.copies + 1, ver |-> p.ver]]
  BY DEF ServerReads
<1> HIDE DEF p
<1>5. server' \in [Qsos -> [copies : Nat, ver : Versions]]
  <2>1. CASE server' = server
    BY <2>1, <1>3
  <2>2. CASE server' = [server EXCEPT ![p.qso].ver = p.ver]
    BY <2>2, <1>2, <1>3
  <2>3. CASE server' = [server EXCEPT ![p.qso] = [copies |-> @.copies + 1, ver |-> p.ver]]
    BY <2>3, <1>2, <1>3
  <2> QED
    BY <1>4, <2>1, <2>2, <2>3
<1> QED
  BY <1>1, <1>5 DEF TypeOK, ServerReads, delivery, bounds, history

\* FetchLog, FetchFails, DecideOnConnect: the image is the server's log.
LEMMA TypeFetch == TypeOK /\ (FetchLog \/ FetchFails \/ DecideOnConnect) => TypeOK'
<1> SUFFICES ASSUME TypeOK, FetchLog \/ FetchFails \/ DecideOnConnect PROVE TypeOK'
  OBVIOUS
<1>1. NoImage \in [Qsos -> Versions]
  BY DEF NoImage, Versions
<1>2. CASE FetchLog
  BY <1>2 DEF TypeOK, FetchLog, delivery, bounds, history
<1>3. CASE FetchFails
  BY <1>3 DEF TypeOK, FetchFails, delivery, bounds, history
<1>4. CASE DecideOnConnect
  <2>1. sync' \in {"idle"} \cup Questions
    BY <1>4 DEF DecideOnConnect, Questions
  <2>2. image' \in [Qsos -> Versions] /\ leftOut' \subseteq Qsos
    BY <1>1, <1>4 DEF TypeOK, DecideOnConnect, LeftOut
  <2> QED
    BY <1>4, <2>1, <2>2 DEF TypeOK, DecideOnConnect, delivery, bounds
<1> QED
  BY <1>2, <1>3, <1>4

\* AnswerSync: what is pulled are rows, what is pushed are packets.
LEMMA TypeAnswer == TypeOK /\ (\E b \in BOOLEAN : AnswerSync(b)) => TypeOK'
<1> SUFFICES ASSUME TypeOK, NEW b \in BOOLEAN, AnswerSync(b) PROVE TypeOK'
  OBVIOUS
<1>1. outq' \in Seq(Packets)
  <2>1. OfflineByQso \in Seq(Seq(Packets))
    BY TypeOffline, PerQso
  <2>2. FlattenSeq(OfflineByQso) \in Seq(Packets)
    BY <2>1, FlattenSeqOf
  <2>3. outq \in Seq(Packets)
    BY DEF TypeOK
  <2>4. outq \o FlattenSeq(OfflineByQso) \in Seq(Packets)
    BY <2>2, <2>3, ConcatProperties
  <2>5. outq' = outq \/ outq' = outq \o FlattenSeq(OfflineByQso)
    BY DEF AnswerSync, OfflineByQso
  <2> QED
    BY <2>3, <2>4, <2>5
<1>2. row' \in [Qsos -> Rows]
  <2>1. row \in [Qsos -> Rows] /\ image \in [Qsos -> Versions]
    BY DEF TypeOK
  <2>2. \A q \in Qsos : [ver |-> image[q], sent |-> TRUE, dirty |-> FALSE] \in Rows
    BY <2>1 DEF Rows
  <2>3. \/ row' = row
        \/ row' = [q \in Qsos |-> IF q \in ToPull THEN [ver |-> image[q], sent |-> TRUE, dirty |-> FALSE]
                                  ELSE row[q]]
    BY DEF AnswerSync
  <2> QED
    BY <2>1, <2>2, <2>3
<1>3. image' \in [Qsos -> Versions] /\ leftOut' \subseteq Qsos /\ sync' = "idle"
  BY DEF TypeOK, AnswerSync, LeftOut, NoImage, Versions
<1> QED
  BY <1>1, <1>2, <1>3 DEF TypeOK, AnswerSync, delivery, bounds

\* Crash: what a restart finds is in range.
LEMMA TypeCrash == TypeOK /\ Crash => TypeOK'
<1> SUFFICES ASSUME TypeOK, Crash PROVE TypeOK'
  OBVIOUS
<1>1. WireEdits \subseteq Qsos
  BY TypeSteps DEF TypeOK, WireEdits
<1>2. edits' \in [Qsos -> [count : Nat, failed : BOOLEAN]]
  BY DEF Crash, NoEdits
<1>3. image' \in [Qsos -> Versions] /\ accidents' \in 0 .. MaxAccidents
  BY DEF Crash, NoImage, Versions, TypeOK
<1>4. lostEdits' \subseteq Qsos
  BY <1>1 DEF Crash, TypeOK
<1>5. unstored' \subseteq Qsos
  <2>1. storing # None => storing.qso \in Qsos
    BY DEF TypeOK
  <2> QED
    BY <2>1 DEF Crash, TypeOK
<1> QED
  BY <1>2, <1>3, <1>4, <1>5 DEF TypeOK, Crash

\* The types are kept by every step, the open dialog's version being the log's.
LEMMA TypeStep == TypeOK /\ DialogInv /\ [Next]_vars => TypeOK'
<1> SUFFICES ASSUME TypeOK, DialogInv, [Next]_vars PROVE TypeOK'
  OBVIOUS
<1>1. CASE UNCHANGED vars
  BY <1>1 DEF TypeOK, vars
<1>2. CASE Operator
  BY <1>2, TypeLogContact, TypeDeleteLastContact, TypeOpenEditDialog, TypeSaveEditDialog, TypeCancel DEF Operator
<1>3. CASE MainThread
  BY <1>3, TypeStoreRow, TypeSettle, TypeServerHello, TypeAnswer, TypeFetch DEF MainThread
<1>4. CASE Writer
  BY <1>4, TypeWriter
<1>5. CASE Environment
  BY <1>5, TypeLink, TypeServerReads, TypeFetch, TypeCrash DEF Environment
<1> QED
  BY <1>1, <1>2, <1>3, <1>4, <1>5 DEF Next
===============================================================================
