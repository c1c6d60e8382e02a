----------------------------- MODULE Text_proofs ------------------------------
(***************************************************************************)
(* What the string operations of redis.cpp return and how they change the  *)
(* number of times a token is listed; what the loops of utils.cpp and      *)
(* khan.cpp compute, for texts of any length.                              *)
(***************************************************************************)
EXTENDS KhanText, FiniteSetTheorems, SequenceTheorems, NaturalsInduction,
        WellFoundedInduction, TLAPS

\* Min returns the least member of every non-empty set of naturals.
LEMMA MinIn ==
    ASSUME NEW S, S \subseteq Nat, S # {}
    PROVE  Min(S) \in S /\ \A j \in S : Min(S) <= j
<1> DEFINE Order == {ss \in Nat \X Nat : ss[1] < ss[2]}
<1>1. OpToRel(<, Nat) = Order
  BY Zenon DEF OpToRel
<1>2. IsWellFoundedOn(Order, Nat)
  BY <1>1, NatLessThanWellFounded, Zenon
<1> HIDE DEF Order
<1>3. PICK m \in S : \A j \in S : <<j, m>> \notin Order
  BY <1>2, WFMin
<1>4. \A j \in S : ~(j < m)
  BY <1>3 DEF Order
<1>5. \A j \in S : m <= j
  BY <1>4
<1> QED
  BY <1>5 DEF Min

\* Induction up to n, for the set of numbers that have a property.
LEMMA UpTo ==
    ASSUME NEW n \in Nat, NEW Q,
           0 \in Q, \A i \in 1..n : i - 1 \in Q => i \in Q
    PROVE  \A i \in 0..n : i \in Q
<1> DEFINE Out == {i \in 0..n : i \notin Q}
<1> SUFFICES ASSUME Out # {} PROVE FALSE
  OBVIOUS
<1>1. Out \subseteq Nat
  OBVIOUS
<1>2. PICK m \in Out : \A j \in Out : m <= j
  BY <1>1, MinIn
<1>3. m \in 1..n /\ m - 1 \in 0..n
  BY <1>2
<1>4. m - 1 \in Q
  BY <1>2, <1>3
<1> QED
  BY <1>2, <1>3, <1>4

\* The results of a loop that starts with x and takes n steps, the i-th by F[i].
Results(g, x, n, F) == g = [i \in 0..n |-> IF i = 0 THEN x ELSE F[i][g[i - 1]]]

\* A loop runs to its end: there is a recursive function of its results.
LEMMA Loop ==
    ASSUME NEW S, NEW x \in S, NEW n \in Nat, NEW F \in [1..n -> [S -> S]]
    PROVE  \E g \in [0..n -> S] : Results(g, x, n, F)
<1> DEFINE To(m, g) == \A i \in 0..m : g[i] = IF i = 0 THEN x ELSE F[i][g[i - 1]]
           Q == {m \in 0..n : \E g \in [0..m -> S] : To(m, g)}
<1>1. 0 \in Q
  <2>1. [i \in 0..0 |-> x] \in [0..0 -> S] /\ To(0, [i \in 0..0 |-> x])
    OBVIOUS
  <2> HIDE DEF To
  <2>2. \E g \in [0..0 -> S] : To(0, g)
    BY <2>1, Zenon
  <2> QED  BY <2>2
<1>2. ASSUME NEW m \in 1..n, m - 1 \in Q PROVE m \in Q
  <2>1. PICK g \in [0..(m - 1) -> S] : To(m - 1, g)
    BY <1>2
  <2> DEFINE h == [i \in 0..m |-> IF i = m THEN F[m][g[m - 1]] ELSE g[i]]
  <2>2. /\ m - 1 \in 0..(m - 1) /\ m \in 0..n
        /\ \A i \in 0..m : i = m \/ i \in 0..(m - 1)
        /\ \A i \in 0..(m - 1) : i # m /\ i \in 0..m /\ (i # 0 => i - 1 \in 0..(m - 1))
    OBVIOUS
  <2>3. F[m][g[m - 1]] \in S
    BY <2>2
  <2>4. h \in [0..m -> S]
    BY <2>2, <2>3
  <2>5. /\ h[m] = F[m][g[m - 1]] /\ h[m - 1] = g[m - 1]
        /\ \A i \in 0..(m - 1) : h[i] = g[i] /\ (i # 0 => h[i - 1] = g[i - 1])
    BY <2>2
  <2> HIDE DEF h
  <2>6. To(m, h)
    BY <2>1, <2>2, <2>5
  <2> HIDE DEF To
  <2>7. \E f \in [0..m -> S] : To(m, f)
    BY <2>4, <2>6, Zenon
  <2>8. m \in 0..n
    BY <2>2
  <2> QED  BY <2>7, <2>8, Zenon
<1>3. n \in Q
  <2> HIDE DEF Q
  <2>1. \A m \in 1..n : m - 1 \in Q => m \in Q
    BY <1>2
  <2>2. \A m \in 0..n : m \in Q
    BY <1>1, <2>1, UpTo, Zenon
  <2> QED  BY <2>2
<1>4. PICK g \in [0..n -> S] : To(n, g)
  BY <1>3
<1>5. Results(g, x, n, F)
  BY <1>4 DEF Results
<1> QED
  BY <1>5

-------------------------------------------------------------------------------
(***************************************************************************)
(* The string operations return stored strings: the fields of the database *)
(* and the replies the calls hold on to always are lists of tokens.        *)
(***************************************************************************)
LEMMA JoinedText ==
    ASSUME NEW s \in Text, NEW w \in Tokens
    PROVE  Joined(s, w) \in Text
BY DEF Joined, Text

LEMMA GetValText ==
    ASSUME NEW s \in Text
    PROVE  GetVal(s) \in Text
<1>1. \A r \in Text : Cleanup(r) \in Text
  <2> TAKE r \in Text
  <2>1. CASE r = <<>>
    BY <2>1 DEF Cleanup, Text
  <2>2. CASE r # <<>>
    BY <2>2, HeadTailProperties DEF Cleanup, Text
  <2> QED
    BY <2>1, <2>2
<1>2. <<Null>> \in Text
  BY TokensAssumption DEF Text
<1> QED
  BY <1>1, <1>2 DEF GetVal

\* Where Erased finds its token.
LEMMA HoldingIndex ==
    ASSUME NEW s \in Text, NEW w, Holding(s, w) # {}
    PROVE  /\ Min(Holding(s, w)) \in 1..Len(s)
           /\ Min(Holding(s, w)) \in Holding(s, w)
<1>1. Holding(s, w) \subseteq 1..Len(s)
  BY DEF Holding, Text
<1>2. Holding(s, w) \subseteq Nat
  BY <1>1
<1>3. Min(Holding(s, w)) \in Holding(s, w)
  BY <1>2, MinIn
<1> QED
  BY <1>1, <1>3

LEMMA ErasedText ==
    ASSUME NEW s \in Text, NEW w \in Tokens
    PROVE  Erased(s, w) \in Text
<1>1. CASE Holding(s, w) = {}
  BY <1>1 DEF Erased
<1>2. CASE Holding(s, w) # {}
  <2> DEFINE i == Min(Holding(s, w))
  <2>1. i \in 1..Len(s)
    BY <1>2, HoldingIndex
  <2>2. Cut(s[i], w) \in Tokens
    BY <2>1, ElementOfSeq, TokensAssumption DEF Text
  <2>3. [s EXCEPT ![i] = Cut(s[i], w)] \in Text
    BY <2>1, <2>2, ExceptSeq DEF Text
  <2> QED
    BY <1>2, <2>3 DEF Erased
<1> QED
  BY <1>1, <1>2

------------------------------------------------------------------------------
Where(s, u) == {i \in DOMAIN s : s[i] = u}

LEMMA OccNat ==
    ASSUME NEW s \in Text, NEW u
    PROVE  IsFiniteSet(Where(s, u)) /\ Occ(s, u) = Cardinality(Where(s, u))
           /\ Occ(s, u) \in Nat /\ Where(s, u) \subseteq 1..Len(s)
<1>1. Len(s) \in Nat /\ DOMAIN s = 1..Len(s)
  BY LenProperties DEF Text
<1>2. IsFiniteSet(1..Len(s)) /\ Where(s, u) \in SUBSET (1..Len(s))
  BY <1>1, FS_Interval DEF Where
<1>3. IsFiniteSet(Where(s, u))
  BY <1>2, FS_Subset
<1> QED
  BY <1>2, <1>3, FS_CardinalityType DEF Occ, Where

\* A string that redis reports as empty lists nothing.
LEMMA OccNoReply ==
    ASSUME NEW s \in Text, NoReply(s), NEW u, u # Empty
    PROVE  Occ(s, u) = 0
<1>1. Where(s, u) = {}
  BY DEF NoReply, Where
<1> QED
  BY <1>1, FS_EmptySet DEF Occ, Where

LEMMA OccSingle ==
    ASSUME NEW w, NEW u
    PROVE  Occ(<<w>>, u) = IF u = w THEN 1 ELSE 0
<1>1. Where(<<w>>, u) = IF u = w THEN {1} ELSE {}
  BY DEF Where
<1> QED
  BY <1>1, FS_EmptySet, FS_Singleton DEF Occ, Where

(***************************************************************************)
(* redis_setval's text lists the new token once more than the old text and *)
(* every other token as often as before.                                   *)
(***************************************************************************)
LEMMA OccJoined ==
    ASSUME NEW s \in Text, NEW w \in Tokens, NEW u, u # Empty
    PROVE  Occ(Joined(s, w), u) = Occ(s, u) + IF u = w THEN 1 ELSE 0
<1>1. CASE NoReply(s)
  BY <1>1, OccNoReply, OccSingle DEF Joined
<1>2. CASE ~NoReply(s)
  <2> DEFINE n == Len(s) + 1
             a == Append(s, w)
  <2>1. /\ Len(s) \in Nat
        /\ DOMAIN s = 1..Len(s)
    BY LenProperties DEF Text
  <2>2. /\ a \in Text
        /\ Len(a) = n
        /\ \A i \in 1..Len(s) : a[i] = s[i]
        /\ a[n] = w
    BY AppendProperties DEF Text
  <2>3. DOMAIN a = 1..n
    BY <2>2, LenProperties DEF Text
  <2>4. Where(a, u) = IF u = w THEN Where(s, u) \cup {n} ELSE Where(s, u)
    <3>1. 1..n = 1..Len(s) \cup {n} /\ n \notin 1..Len(s)
      BY <2>1
    <3> HIDE DEF a, n
    <3> QED
      BY <2>1, <2>2, <2>3, <3>1 DEF Where
  <2>5. n \notin Where(s, u)
    BY <2>1 DEF Where
  <2>6. Occ(a, u) = Cardinality(Where(a, u))
    BY DEF Occ, Where
  <2>7. Occ(a, u) = Occ(s, u) + IF u = w THEN 1 ELSE 0
    <3> HIDE DEF a, n
    <3>1. CASE u = w
      <4>1. Cardinality(Where(s, u) \cup {n}) = Cardinality(Where(s, u)) + 1
        BY <2>5, OccNat, FS_AddElement
      <4> QED
        BY <3>1, <2>4, <2>6, <4>1, OccNat
    <3>2. CASE u # w
      BY <3>2, <2>4, <2>6, OccNat
    <3> QED
      BY <3>1, <3>2
  <2> QED
    BY <1>2, <2>7 DEF Joined
<1> QED
  BY <1>1, <1>2

(***************************************************************************)
(* When erasing only clears whole tokens, redis_remove_val's text lists    *)
(* the erased token once less than the old text, if it was listed at all,  *)
(* and every other token as often as before.                               *)
(***************************************************************************)
LEMMA OccErased ==
    ASSUME WholeTokens, NEW s \in Text, NEW w \in Tokens, NEW u, u # Empty
    PROVE  Occ(Erased(s, w), u) =
              IF u = w /\ Occ(s, u) > 0 THEN Occ(s, u) - 1 ELSE Occ(s, u)
<1>0. /\ Len(s) \in Nat
      /\ DOMAIN s = 1..Len(s)
      /\ \A i \in 1..Len(s) : s[i] \in Tokens
  BY LenProperties, ElementOfSeq DEF Text
<1>1. CASE Holding(s, w) = {}
  <2>1. Erased(s, w) = s
    BY <1>1 DEF Erased
  <2>2. ASSUME u = w PROVE Where(s, u) = {}
    <3> SUFFICES ASSUME NEW i \in 1..Len(s), s[i] = w PROVE FALSE
      BY <1>0, <2>2 DEF Where
    <3>1. Cut(s[i], w) # s[i]
      BY <2>2 DEF WholeTokens
    <3> QED
      BY <1>0, <1>1, <3>1 DEF Holding
  <2>3. ASSUME u = w PROVE Occ(s, u) = 0
    BY <2>2, <2>3, FS_EmptySet DEF Occ, Where
  <2> QED
    BY <2>1, <2>3
<1>2. CASE Holding(s, w) # {}
  <2> DEFINE i == Min(Holding(s, w))
             e == [s EXCEPT ![i] = Cut(s[i], w)]
  <2>1. i \in 1..Len(s) /\ i \in Holding(s, w)
    BY <1>2, HoldingIndex
  <2>2. Erased(s, w) = e
    BY <1>2 DEF Erased
  <2> HIDE DEF i
  <2>3. s[i] = w /\ Cut(s[i], w) = Empty
    BY <1>0, <2>1 DEF Holding, WholeTokens
  <2>4. Where(e, u) = IF u = w THEN Where(s, u) \ {i} ELSE Where(s, u)
    BY <1>0, <2>1, <2>3 DEF Where
  <2>5. i \in Where(s, w)
    BY <1>0, <2>1, <2>3 DEF Where
  <2>6. Occ(e, u) = Cardinality(Where(e, u))
    BY DEF Occ, Where
  <2> HIDE DEF e
  <2>7. CASE u = w
    <3>1. Occ(s, u) # 0
      BY <2>5, <2>7, OccNat, FS_EmptySet
    <3>2. Occ(e, u) = Occ(s, u) - 1
      BY <2>4, <2>5, <2>6, <2>7, OccNat, FS_RemoveElement
    <3> QED
      BY <2>2, <2>7, <3>1, <3>2, OccNat
  <2>8. CASE u # w
    BY <2>2, <2>4, <2>6, <2>8, OccNat
  <2> QED
    BY <2>7, <2>8
<1> QED
  BY <1>1, <1>2

(***************************************************************************)
(* redis_getval lists what the field lists, up to "" and "null".           *)
(***************************************************************************)
LEMMA OccGetVal ==
    ASSUME NEW s \in Text, NEW u, u \notin {Empty, Null}
    PROVE  Occ(GetVal(s), u) = Occ(s, u)
<1>1. CASE NoReply(s)
  <2>1. Cleanup(<<Null>>) = <<Null>>
    BY DEF Cleanup
  <2> QED
    BY <1>1, <2>1, OccNoReply, OccSingle DEF GetVal
<1>2. CASE ~NoReply(s) /\ Cleanup(s) = s
  BY <1>2 DEF GetVal
<1>3. CASE ~NoReply(s) /\ Cleanup(s) # s
  <2> DEFINE r == Tail(s)
  <2>1. Len(s) > 1 /\ Head(s) = Empty /\ GetVal(s) = r
    BY <1>3 DEF GetVal, Cleanup
  <2>2. Len(s) \in Nat /\ DOMAIN s = 1..Len(s) /\ s # <<>>
    BY <1>3, LenProperties DEF Text, NoReply
  <2>3. /\ r \in Text
        /\ Len(r) = Len(s) - 1
        /\ \A i \in 1..Len(r) : r[i] = s[i + 1]
    BY <2>2, HeadTailProperties DEF Text
  <2>4. DOMAIN r = 1..(Len(s) - 1)
    BY <2>3, LenProperties DEF Text
  <2>5. s[1] = Empty
    BY <2>1
  <2> HIDE DEF r
  <2> DEFINE f == [i \in Where(r, u) |-> i + 1]
  <2>6. f \in Bijection(Where(r, u), Where(s, u))
    <3>1. \A i \in Where(r, u) : i \in 1..(Len(s) - 1) /\ s[i + 1] = u
      BY <2>3, <2>4 DEF Where
    <3>2. f \in [Where(r, u) -> Where(s, u)]
      BY <2>2, <3>1 DEF Where
    <3>3. \A i, j \in Where(r, u) : f[i] = f[j] => i = j
      BY <3>1
    <3>4. \A k \in Where(s, u) : \E i \in Where(r, u) : f[i] = k
      <4> TAKE k \in Where(s, u)
      <4>1. k \in 2..Len(s) /\ s[k] = u
        BY <2>2, <2>5 DEF Where
      <4>2. k - 1 \in 1..(Len(s) - 1) /\ (k - 1) + 1 = k
        BY <2>2, <4>1
      <4>3. r[k - 1] = u
        BY <2>3, <4>1, <4>2
      <4>4. k - 1 \in Where(r, u)
        BY <2>4, <4>2, <4>3 DEF Where
      <4> QED
        BY <4>2, <4>4
    <3> HIDE DEF f
    <3> QED
      BY <3>2, <3>3, <3>4 DEF Bijection, Injection, Surjection, IsInjective
  <2>7. Occ(s, u) = Occ(r, u)
    <3>1. ExistsBijection(Where(r, u), Where(s, u))
      BY <2>6 DEF ExistsBijection
    <3> QED
      BY <2>3, <3>1, OccNat, FS_Bijection
  <2> QED
    BY <2>1, <2>7
<1> QED
  BY <1>2, <1>1, <1>3
-------------------------------------------------------------------------------
\* The results of the loop of Kept.
KeptSteps(k, s, S) ==
    /\ Kept(s, S) = k[Len(s)] /\ k[0] = <<>>
    /\ \A i \in 1..Len(s) :
          k[i] = IF s[i] \in S THEN Append(k[i - 1], s[i]) ELSE k[i - 1]

\* The loop of Kept, on a sequence over any set.
LEMMA KeptLoop ==
    ASSUME NEW A, NEW s \in Seq(A), NEW S
    PROVE  \E k \in [0..Len(s) -> Seq(A)] : KeptSteps(k, s, S)
<1> DEFINE F == [i \in 1..Len(s) |->
                    [r \in Seq(A) |-> IF s[i] \in S THEN Append(r, s[i]) ELSE r]]
           B == Seq(A)
<1>1. Len(s) \in Nat /\ \A i \in 1..Len(s) : s[i] \in A
  BY ElementOfSeq, LenProperties
<1>2. F \in [1..Len(s) -> [B -> B]]
  BY <1>1, AppendProperties
<1>3. <<>> \in B
  BY EmptySeq
<1>4. \A i \in 1..Len(s) : \A r \in B :
          F[i][r] = IF s[i] \in S THEN Append(r, s[i]) ELSE r
  BY Zenon
<1>5. \A i \in 0..Len(s) : i = 0 \/ (i \in 1..Len(s) /\ i - 1 \in 0..Len(s))
  BY <1>1
<1> HIDE DEF F, B
<1>6. PICK g \in [0..Len(s) -> B] :
          g = [i \in 0..Len(s) |-> IF i = 0 THEN <<>> ELSE F[i][g[i - 1]]]
  <2>1. PICK g \in [0..Len(s) -> B] : Results(g, <<>>, Len(s), F)
    BY <1>1, <1>2, <1>3, Loop
  <2> QED  BY <2>1 DEF Results
<1>7. \A i \in 0..Len(s) : g[i] \in B
  BY <1>6
<1>8. g = [i \in 0..Len(s) |-> IF i = 0 THEN <<>>
              ELSE IF s[i] \in S THEN Append(g[i - 1], s[i]) ELSE g[i - 1]]
  <2>1. \A i \in 0..Len(s) : (IF i = 0 THEN <<>> ELSE F[i][g[i - 1]]) =
            IF i = 0 THEN <<>> ELSE IF s[i] \in S THEN Append(g[i - 1], s[i]) ELSE g[i - 1]
    BY <1>4, <1>5, <1>7
  <2> QED  BY <1>6, <2>1, Zenon
<1>9. PICK k : /\ Kept(s, S) = k[Len(s)]
               /\ k = [i \in 0..Len(s) |-> IF i = 0 THEN <<>>
                         ELSE IF s[i] \in S THEN Append(k[i - 1], s[i]) ELSE k[i - 1]]
  BY <1>8 DEF Kept
<1>10. \A i \in 0..Len(s) : k[i] = IF i = 0 THEN <<>>
            ELSE IF s[i] \in S THEN Append(k[i - 1], s[i]) ELSE k[i - 1]
  BY <1>9, Zenon
<1>11. 0 \in 0..Len(s) /\ \A i \in 1..Len(s) : i \in 0..Len(s) /\ i # 0
  BY <1>1
<1>12. k[0] = <<>>
  BY <1>10, <1>11, Zenon
<1>13. \A i \in 1..Len(s) : k[i] = IF s[i] \in S THEN Append(k[i - 1], s[i]) ELSE k[i - 1]
  BY <1>10, <1>11, Zenon
<1>14. \A i \in 0..Len(s) : k[i] \in Seq(A)
  <2> DEFINE Q == {i \in 0..Len(s) : k[i] \in Seq(A)}
  <2>1. 0 \in Q
    BY <1>3, <1>11, <1>12, Zenon DEF B
  <2>2. ASSUME NEW i \in 1..Len(s), i - 1 \in Q PROVE i \in Q
    <3>1. k[i - 1] \in Seq(A) /\ s[i] \in A
      BY <1>1, <2>2
    <3>2. Append(k[i - 1], s[i]) \in Seq(A)
      BY <3>1, AppendProperties
    <3> QED  BY <1>11, <1>13, <3>1, <3>2, Zenon
  <2> HIDE DEF Q
  <2>3. \A i \in 0..Len(s) : i \in Q
    BY <1>1, <2>1, <2>2, UpTo
  <2> QED  BY <2>3 DEF Q
<1>15. k \in [0..Len(s) -> Seq(A)]
  <2>1. k = [i \in 0..Len(s) |-> k[i]]
    BY <1>9, Zenon
  <2> QED  BY <1>14, <2>1
<1> QED  BY <1>9, <1>12, <1>13, <1>15, Zenon DEF KeptSteps

\* One more token in a sequence.
LEMMA TokensAppend ==
    ASSUME NEW A, NEW s \in Seq(A), NEW w \in A
    PROVE  TokensOf(Append(s, w)) = TokensOf(s) \cup {w}
<1> DEFINE r == Append(s, w)
<1>1. /\ r \in Seq(A) /\ Len(r) = Len(s) + 1 /\ r[Len(s) + 1] = w
      /\ \A i \in 1..Len(s) : r[i] = s[i]
  BY AppendProperties
<1>2. DOMAIN r = 1..Len(r) /\ DOMAIN s = 1..Len(s) /\ Len(s) \in Nat
  BY <1>1, LenProperties
<1> HIDE DEF r
<1>3. TokensOf(r) = TokensOf(s) \cup {w}
  BY <1>1, <1>2 DEF TokensOf
<1> QED  BY <1>3 DEF r

\* What Kept returns: the tokens in S.
LEMMA KeptTokens ==
    ASSUME NEW A, NEW s \in Seq(A), NEW S
    PROVE  Kept(s, S) \in Seq(A) /\ TokensOf(Kept(s, S)) = TokensOf(s) \cap S
<1>0. PICK k \in [0..Len(s) -> Seq(A)] : KeptSteps(k, s, S)
  BY KeptLoop
<1>1. /\ Kept(s, S) = k[Len(s)] /\ k[0] = <<>>
      /\ \A i \in 1..Len(s) :
            k[i] = IF s[i] \in S THEN Append(k[i - 1], s[i]) ELSE k[i - 1]
  BY <1>0, Zenon DEF KeptSteps
<1>2. Len(s) \in Nat /\ DOMAIN s = 1..Len(s) /\ \A i \in 1..Len(s) : s[i] \in A
  BY ElementOfSeq, LenProperties
<1> DEFINE Q == {i \in 0..Len(s) : TokensOf(k[i]) = {s[j] : j \in 1..i} \cap S}
<1>3. 0 \in Q
  <2>1. TokensOf(<<>>) = {} /\ {s[j] : j \in 1..0} = {}
    BY DEF TokensOf
  <2>2. TokensOf(k[0]) = {s[j] : j \in 1..0} \cap S
    BY <1>1, <2>1, Zenon
  <2>3. 0 \in 0..Len(s)
    BY <1>2
  <2> QED  BY <2>2, <2>3, Zenon
<1>4. ASSUME NEW i \in 1..Len(s), i - 1 \in Q PROVE i \in Q
  <2>1. k[i - 1] \in Seq(A) /\ s[i] \in A /\ i \in 0..Len(s)
    BY <1>0, <1>2
  <2>2. TokensOf(k[i]) = TokensOf(k[i - 1]) \cup ({s[i]} \cap S)
    <3>1. TokensOf(Append(k[i - 1], s[i])) = TokensOf(k[i - 1]) \cup {s[i]}
      BY <2>1, TokensAppend
    <3>2. CASE s[i] \in S
      BY <1>1, <3>1, <3>2
    <3>3. CASE s[i] \notin S
      BY <1>1, <3>3
    <3> QED  BY <3>2, <3>3
  <2>3. TokensOf(k[i - 1]) = {s[j] : j \in 1..(i - 1)} \cap S
    BY <1>4
  <2>4. {s[j] : j \in 1..i} = {s[j] : j \in 1..(i - 1)} \cup {s[i]}
    OBVIOUS
  <2>5. TokensOf(k[i]) = {s[j] : j \in 1..i} \cap S
    BY <2>2, <2>3, <2>4, Zenon
  <2> QED  BY <2>1, <2>5
<1>5. Len(s) \in Q
  <2> HIDE DEF Q
  <2>1. \A i \in 0..Len(s) : i \in Q
    BY <1>2, <1>3, <1>4, UpTo
  <2> QED  BY <1>2, <2>1
<1>6. Kept(s, S) \in Seq(A)
  BY <1>1, <1>0, <1>2
<1>7. TokensOf(s) = {s[j] : j \in 1..Len(s)}
  BY <1>2 DEF TokensOf
<1> QED  BY <1>1, <1>5, <1>6, <1>7, Zenon

\* How many tokens Kept returns: one per place.
LEMMA KeptLen ==
    ASSUME NEW A, NEW s \in Seq(A), NEW S
    PROVE  Len(Kept(s, S)) = Cardinality({i \in 1..Len(s) : s[i] \in S})
<1>0. PICK k \in [0..Len(s) -> Seq(A)] : KeptSteps(k, s, S)
  BY KeptLoop
<1>1. /\ Kept(s, S) = k[Len(s)] /\ k[0] = <<>>
      /\ \A i \in 1..Len(s) :
            k[i] = IF s[i] \in S THEN Append(k[i - 1], s[i]) ELSE k[i - 1]
  BY <1>0, Zenon DEF KeptSteps
<1>2. Len(s) \in Nat /\ \A i \in 1..Len(s) : s[i] \in A
  BY ElementOfSeq, LenProperties
<1> DEFINE P(i) == {j \in 1..i : s[j] \in S}
           Q == {i \in 0..Len(s) : Len(k[i]) = Cardinality(P(i))}
<1>3. 0 \in Q
  <2>1. P(0) = {} /\ Len(<<>>) = 0 /\ 0 \in 0..Len(s)
    BY <1>2
  <2>2. Len(k[0]) = Cardinality(P(0))
    BY <1>1, <2>1, FS_EmptySet, Zenon
  <2> QED  BY <2>1, <2>2, Zenon
<1>4. ASSUME NEW i \in 1..Len(s), i - 1 \in Q PROVE i \in Q
  <2>1. /\ k[i - 1] \in Seq(A) /\ s[i] \in A /\ i \in 0..Len(s)
        /\ i - 1 \in Nat /\ i \notin 1..(i - 1)
    BY <1>0, <1>2
  <2>2. IsFiniteSet(P(i - 1)) /\ i \notin P(i - 1)
    <3>1. IsFiniteSet(1..(i - 1))
      BY <2>1, FS_Interval
    <3>2. P(i - 1) \subseteq 1..(i - 1)
      OBVIOUS
    <3> QED  BY <2>1, <3>1, <3>2, FS_Subset
  <2>3. Len(k[i - 1]) = Cardinality(P(i - 1))
    BY <1>4
  <2>4. CASE s[i] \in S
    <3>1. P(i) = P(i - 1) \cup {i}
      BY <2>4
    <3>2. Len(k[i]) = Len(k[i - 1]) + 1
      <4>1. Len(Append(k[i - 1], s[i])) = Len(k[i - 1]) + 1
        BY <2>1, AppendProperties
      <4> QED  BY <1>1, <2>4, <4>1
    <3>3. Cardinality(P(i - 1) \cup {i}) = Cardinality(P(i - 1)) + 1
      <4> HIDE DEF P
      <4> QED  BY <2>2, FS_AddElement
    <3>4. Len(k[i]) = Cardinality(P(i))
      BY <2>3, <3>1, <3>2, <3>3, Zenon
    <3> QED  BY <2>1, <3>4, Zenon
  <2>5. CASE s[i] \notin S
    <3>1. P(i) = P(i - 1)
      BY <2>5
    <3>2. k[i] = k[i - 1]
      BY <1>1, <2>5
    <3>3. Len(k[i]) = Cardinality(P(i))
      BY <2>3, <3>1, <3>2, Zenon
    <3> QED  BY <2>1, <3>3, Zenon
  <2> QED  BY <2>4, <2>5
<1>5. Len(s) \in Q
  <2> HIDE DEF Q
  <2>1. \A i \in 0..Len(s) : i \in Q
    BY <1>2, <1>3, <1>4, UpTo
  <2> QED  BY <1>2, <2>1
<1> QED  BY <1>1, <1>5

\* A sequence behind another one.
LEMMA TokensConcat ==
    ASSUME NEW A, NEW s \in Seq(A), NEW r \in Seq(A)
    PROVE  s \o r \in Seq(A) /\ TokensOf(s \o r) = TokensOf(s) \cup TokensOf(r)
<1> DEFINE q == s \o r
<1>1. /\ q \in Seq(A) /\ Len(q) = Len(s) + Len(r)
      /\ \A i \in 1..Len(s) + Len(r) : q[i] = IF i <= Len(s) THEN s[i] ELSE r[i - Len(s)]
  BY ConcatProperties
<1>2. /\ DOMAIN q = 1..Len(q) /\ DOMAIN s = 1..Len(s) /\ DOMAIN r = 1..Len(r)
      /\ Len(s) \in Nat /\ Len(r) \in Nat
  BY <1>1, LenProperties
<1> HIDE DEF q
<1>3. ASSUME NEW i \in 1..Len(r) PROVE q[Len(s) + i] = r[i] /\ Len(s) + i \in 1..Len(q)
  BY <1>1, <1>2
<1>4. \A i \in 1..Len(s) : q[i] = s[i] /\ i \in 1..Len(q)
  BY <1>1, <1>2
<1>5. \A i \in 1..Len(q) : i \in 1..Len(s) \/ (i - Len(s) \in 1..Len(r) /\ q[i] = r[i - Len(s)])
  <2> TAKE i \in 1..Len(q)
  <2>1. q[i] = IF i <= Len(s) THEN s[i] ELSE r[i - Len(s)]
    BY <1>1
  <2>2. i \in 1..Len(s) \/ (i - Len(s) \in 1..Len(r) /\ ~(i <= Len(s)))
    BY <1>1, <1>2
  <2> QED  BY <2>1, <2>2
<1>6. TokensOf(q) = TokensOf(s) \cup TokensOf(r)
  <2>1. /\ TokensOf(q) = {q[i] : i \in 1..Len(q)}
        /\ TokensOf(s) = {s[i] : i \in 1..Len(s)} /\ TokensOf(r) = {r[i] : i \in 1..Len(r)}
    BY <1>2, Zenon DEF TokensOf
  <2>2. \A i \in 1..Len(q) : q[i] \in TokensOf(s) \cup TokensOf(r)
    BY <1>4, <1>5, <2>1
  <2>3. \A i \in 1..Len(s) : s[i] \in TokensOf(q)
    BY <1>4, <2>1
  <2>4. \A i \in 1..Len(r) : r[i] \in TokensOf(q)
    BY <1>3, <2>1
  <2>5. /\ TokensOf(q) \subseteq TokensOf(s) \cup TokensOf(r)
        /\ TokensOf(s) \subseteq TokensOf(q) /\ TokensOf(r) \subseteq TokensOf(q)
    BY <2>1, <2>2, <2>3, <2>4
  <2> QED  BY <2>5
<1> QED  BY <1>1, <1>6 DEF q

\* The tokens of a text are tokens.
LEMMA TextTokens ==
    ASSUME NEW s \in Text
    PROVE  /\ TokensOf(s) \subseteq Tokens /\ DOMAIN s = 1..Len(s) /\ Len(s) \in Nat
           /\ TokensOf(s) = {s[i] : i \in 1..Len(s)}
  BY ElementOfSeq, LenProperties DEF TokensOf, Text

\* split returns the tokens that are not empty.
LEMMA SplitTokens ==
    ASSUME NEW s \in Text
    PROVE  Split(s) \in Text /\ TokensOf(Split(s)) = TokensOf(s) \ {Empty}
<1>1. /\ Split(s) \in Seq(Tokens)
      /\ TokensOf(Split(s)) = TokensOf(s) \cap (Tokens \ {Empty})
  BY KeptTokens DEF Split, Text
<1> QED  BY <1>1, TextTokens DEF Text

\* getline leaves out an empty token at the end.
LEMMA LinesTokens ==
    ASSUME NEW s \in Text, s # <<>>
    PROVE  /\ Lines(s) \in Text
           /\ TokensOf(Lines(s)) \ {Empty} = TokensOf(s) \ {Empty}
           /\ {i \in DOMAIN Lines(s) : Lines(s)[i] # Empty} = {i \in 1..Len(s) : s[i] # Empty}
<1>1. s \in Seq(Tokens) /\ Len(s) \in Nat \ {0} /\ DOMAIN s = 1..Len(s)
  BY EmptySeq, LenProperties DEF Text
<1>2. CASE s[Len(s)] # Empty
  BY <1>1, <1>2 DEF Lines, Text
<1>3. CASE s[Len(s)] = Empty
  <2> DEFINE r == SubSeq(s, 1, Len(s) - 1)
  <2>1. /\ r \in Seq(Tokens) /\ Len(r) = Len(s) - 1
        /\ \A i \in 1..(Len(s) - 1) : r[i] = s[i]
    BY <1>1, SubSeqProperties
  <2>2. DOMAIN r = 1..(Len(s) - 1)
    BY <2>1, LenProperties
  <2>3. Lines(s) = r
    BY <1>3 DEF Lines
  <2> HIDE DEF r
  <2>4. {i \in DOMAIN r : r[i] # Empty} = {i \in 1..Len(s) : s[i] # Empty}
    BY <1>1, <1>3, <2>1, <2>2
  <2>5. TokensOf(r) \ {Empty} = TokensOf(s) \ {Empty}
    BY <1>1, <1>3, <2>1, <2>2 DEF TokensOf
  <2> QED  BY <2>1, <2>3, <2>4, <2>5 DEF Text
<1> QED  BY <1>2, <1>3

\* A text that starts with ':' is one, and has the same tokens that are not empty.
LEMMA FrontTokens ==
    ASSUME NEW r \in Seq(Tokens)
    PROVE  /\ <<Empty>> \o r \in Text /\ <<Empty>> \o r # <<>>
           /\ TokensOf(<<Empty>> \o r) \ {Empty} = TokensOf(r) \ {Empty}
<1>1. <<Empty>> \in Seq(Tokens) /\ TokensOf(<<Empty>>) = {Empty} /\ <<Empty>> # <<>>
  BY TokensAssumption DEF TokensOf
<1>2. /\ <<Empty>> \o r \in Seq(Tokens)
      /\ TokensOf(<<Empty>> \o r) = {Empty} \cup TokensOf(r)
  <2>1. PICK e : e = <<Empty>>
    OBVIOUS
  <2>2. e \in Seq(Tokens) /\ TokensOf(e) = {Empty}
    BY <1>1, <2>1
  <2>3. e \o r \in Seq(Tokens) /\ TokensOf(e \o r) = TokensOf(e) \cup TokensOf(r)
    BY <2>2, TokensConcat
  <2> QED  BY <2>1, <2>2, <2>3, Zenon
<1>3. TokensOf(<<>>) = {}
  BY DEF TokensOf
<1> QED  BY <1>2, <1>3 DEF Text

\* subtract takes away exactly what is in the second text.
LEMMA SubtractTokens ==
    ASSUME NEW s \in Text, NEW r \in Text, s # <<>>, r # <<>>
    PROVE  /\ Subtract(s, r) \in Text
           /\ TokensOf(Split(Subtract(s, r))) = TokensOf(Split(s)) \ TokensOf(Split(r))
<1> DEFINE k == Kept(Lines(s), Tokens \ TokensOf(Lines(r)))
<1>1. /\ Lines(s) \in Text /\ TokensOf(Lines(s)) \ {Empty} = TokensOf(s) \ {Empty}
      /\ Lines(r) \in Text /\ TokensOf(Lines(r)) \ {Empty} = TokensOf(r) \ {Empty}
  BY LinesTokens
<1>2. /\ k \in Seq(Tokens)
      /\ TokensOf(k) = TokensOf(Lines(s)) \cap (Tokens \ TokensOf(Lines(r)))
  BY <1>1, KeptTokens DEF Text
<1>3. TokensOf(Lines(s)) \subseteq Tokens
  BY <1>1, TextTokens
<1>4. Subtract(s, r) = <<Empty>> \o k
  BY DEF Subtract
<1> HIDE DEF k
<1>5. Subtract(s, r) \in Text /\ TokensOf(Subtract(s, r)) \ {Empty} = TokensOf(k) \ {Empty}
  BY <1>2, <1>4, FrontTokens
<1>6. /\ TokensOf(Split(Subtract(s, r))) = TokensOf(Subtract(s, r)) \ {Empty}
      /\ TokensOf(Split(s)) = TokensOf(s) \ {Empty} /\ TokensOf(Split(r)) = TokensOf(r) \ {Empty}
  BY <1>5, SplitTokens
<1> QED  BY <1>1, <1>2, <1>3, <1>5, <1>6

\* What count_string counts is what split returns, but for the text "null".
LEMMA CountSplit ==
    ASSUME NEW s \in Text, s # <<>>, s # <<Null>>
    PROVE  CountString(s) = Len(Split(s))
<1>1. CountString(s) = Cardinality({i \in 1..Len(s) : s[i] # Empty})
  BY LinesTokens DEF CountString
<1>2. Len(Split(s)) = Cardinality({i \in 1..Len(s) : s[i] \in Tokens \ {Empty}})
  BY KeptLen DEF Split, Text
<1>3. \A i \in 1..Len(s) : s[i] \in Tokens
  BY TextTokens
<1>4. {i \in 1..Len(s) : s[i] # Empty} = {i \in 1..Len(s) : s[i] \in Tokens \ {Empty}}
  BY <1>3
<1> QED  BY <1>1, <1>2, <1>4

\* intersect has the tokens of both texts.
LEMMA IntersectTokens ==
    ASSUME NEW s \in Text, NEW r \in Text, s # <<>>, r # <<>>
    PROVE  /\ Intersect(s, r) \in Text /\ Intersect(s, r) # <<>>
           /\ TokensOf(Split(Intersect(s, r))) = TokensOf(Split(s)) \cap TokensOf(Split(r))
<1>0. /\ Lines(s) \in Text /\ TokensOf(Lines(s)) \ {Empty} = TokensOf(s) \ {Empty}
      /\ Lines(r) \in Text /\ TokensOf(Lines(r)) \ {Empty} = TokensOf(r) \ {Empty}
  BY LinesTokens
<1>1. PICK p, q, n : p = Lines(s) /\ q = Lines(r) /\ n = Len(Lines(s))
  OBVIOUS
<1>2. p \in Text /\ q \in Text /\ n = Len(p)
  BY <1>0, <1>1
<1>3. /\ n \in Nat /\ TokensOf(p) = {p[i] : i \in 1..n}
      /\ \A i \in 1..n : p[i] \in Tokens
  BY <1>2, TextTokens
<1> DEFINE F == [i \in 1..n |-> [t \in Text |-> t \o Kept(q, {p[i]})]]
<1>4. \A i \in 1..n : Kept(q, {p[i]}) \in Text /\ TokensOf(Kept(q, {p[i]})) = TokensOf(q) \cap {p[i]}
  BY <1>2, KeptTokens DEF Text
<1>5. \A i \in 1..n, t \in Text :
          /\ t \o Kept(q, {p[i]}) \in Text
          /\ TokensOf(t \o Kept(q, {p[i]})) = TokensOf(t) \cup (TokensOf(q) \cap {p[i]})
  BY <1>4, TokensConcat DEF Text
<1>6. <<>> \in Text /\ TokensOf(<<>>) = {}
  BY EmptySeq DEF Text, TokensOf
<1>7. F \in [1..n -> [Text -> Text]]
  BY <1>5
<1>8. \A i \in 1..n, t \in Text : F[i][t] = t \o Kept(q, {p[i]})
  BY Zenon
<1>9. \A i \in 0..n : i = 0 \/ (i \in 1..n /\ i - 1 \in 0..n)
  BY <1>3
<1> HIDE DEF F
<1>10. PICK g \in [0..n -> Text] : Results(g, <<>>, n, F)
  BY <1>3, <1>6, <1>7, Loop
<1>11. g = [i \in 0..n |-> IF i = 0 THEN <<>> ELSE g[i - 1] \o Kept(q, {p[i]})]
  <2>1. \A i \in 0..n : (IF i = 0 THEN <<>> ELSE F[i][g[i - 1]]) =
                        IF i = 0 THEN <<>> ELSE g[i - 1] \o Kept(q, {p[i]})
    BY <1>8, <1>9, <1>10
  <2> QED  BY <1>10, <2>1, Zenon DEF Results
<1>12. PICK k : /\ Intersect(s, r) = <<Empty>> \o k[n]
                /\ k = [i \in 0..n |-> IF i = 0 THEN <<>> ELSE k[i - 1] \o Kept(q, {p[i]})]
  <2>1. g = [i \in 0..Len(Lines(s)) |-> IF i = 0 THEN <<>>
                ELSE g[i - 1] \o Kept(Lines(r), {Lines(s)[i]})]
    BY <1>1, <1>11, Zenon
  <2>2. \E k : /\ Intersect(s, r) = <<Empty>> \o k[Len(Lines(s))]
               /\ k = [i \in 0..Len(Lines(s)) |-> IF i = 0 THEN <<>>
                          ELSE k[i - 1] \o Kept(Lines(r), {Lines(s)[i]})]
    BY <2>1 DEF Intersect
  <2> QED  BY <1>1, <2>2, Zenon
<1> DEFINE Q == {i \in 0..n : k[i] \in Text /\ TokensOf(k[i]) = {p[j] : j \in 1..i} \cap TokensOf(q)}
<1>13. 0 \in Q
  <2>1. 0 \in 0..n /\ {p[j] : j \in 1..0} \cap TokensOf(q) = {}
    BY <1>3
  <2>2. k[0] = <<>>
    BY <1>12, <2>1, Zenon
  <2> QED  BY <1>6, <2>1, <2>2, Zenon
<1>14. ASSUME NEW i \in 1..n, i - 1 \in Q PROVE i \in Q
  <2>1. i \in 0..n /\ i # 0
    BY <1>3
  <2>2. k[i] = k[i - 1] \o Kept(q, {p[i]})
    BY <1>12, <2>1, Zenon
  <2>3. k[i - 1] \in Text /\ TokensOf(k[i - 1]) = {p[j] : j \in 1..(i - 1)} \cap TokensOf(q)
    BY <1>14
  <2>4. /\ k[i] \in Text
        /\ TokensOf(k[i]) = TokensOf(k[i - 1]) \cup (TokensOf(q) \cap {p[i]})
    BY <1>5, <2>2, <2>3, Zenon
  <2>5. {p[j] : j \in 1..i} = {p[j] : j \in 1..(i - 1)} \cup {p[i]}
    BY <1>3
  <2>6. TokensOf(k[i]) = {p[j] : j \in 1..i} \cap TokensOf(q)
    BY <2>3, <2>4, <2>5, Zenon
  <2> QED  BY <2>1, <2>4, <2>6, Zenon
<1>15. k[n] \in Text /\ TokensOf(k[n]) = TokensOf(p) \cap TokensOf(q)
  <2> HIDE DEF Q
  <2>1. \A i \in 0..n : i \in Q
    BY <1>3, <1>13, <1>14, UpTo
  <2> QED  BY <1>3, <2>1 DEF Q
<1>16. /\ Intersect(s, r) \in Text /\ Intersect(s, r) # <<>>
       /\ TokensOf(Intersect(s, r)) \ {Empty} = TokensOf(k[n]) \ {Empty}
  BY <1>12, <1>15, FrontTokens DEF Text
<1>17. /\ TokensOf(Split(Intersect(s, r))) = TokensOf(Intersect(s, r)) \ {Empty}
       /\ TokensOf(Split(s)) = TokensOf(s) \ {Empty} /\ TokensOf(Split(r)) = TokensOf(r) \ {Empty}
  BY <1>16, SplitTokens
<1> QED  BY <1>0, <1>1, <1>15, <1>16, <1>17

\* str_intersect as well.
LEMMA StrIntersectTokens ==
    ASSUME NEW s \in Text, NEW r \in Text
    PROVE  /\ StrIntersect(s, r) \in Text /\ StrIntersect(s, r) # <<>>
           /\ TokensOf(Split(StrIntersect(s, r))) = TokensOf(Split(s)) \cap TokensOf(Split(r))
<1>0. /\ Split(s) \in Text /\ TokensOf(Split(s)) = TokensOf(s) \ {Empty}
      /\ Split(r) \in Text /\ TokensOf(Split(r)) = TokensOf(r) \ {Empty}
  BY SplitTokens
<1>1. PICK p, Z, n : p = Split(s) /\ Z = TokensOf(Split(r)) /\ n = Len(Split(s))
  OBVIOUS
<1>2. p \in Text /\ n = Len(p)
  BY <1>0, <1>1
<1>3. /\ n \in Nat /\ TokensOf(p) = {p[i] : i \in 1..n}
      /\ \A i \in 1..n : p[i] \in Tokens
  BY <1>2, TextTokens
<1> DEFINE To(t, i) == IF p[i] \in Z \ TokensOf(t) THEN Append(t, p[i]) ELSE t
           F == [i \in 1..n |-> [t \in Text |-> To(t, i)]]
<1>5. ASSUME NEW i \in 1..n, NEW t \in Text
      PROVE  To(t, i) \in Text /\ TokensOf(To(t, i)) = TokensOf(t) \cup (Z \cap {p[i]})
  <2>1. Append(t, p[i]) \in Text /\ TokensOf(Append(t, p[i])) = TokensOf(t) \cup {p[i]}
    BY <1>3, TokensAppend, AppendProperties DEF Text
  <2>2. CASE p[i] \in Z \ TokensOf(t)
    BY <2>1, <2>2
  <2>3. CASE p[i] \notin Z \ TokensOf(t)
    BY <2>3
  <2> QED  BY <2>2, <2>3
<1>6. <<>> \in Text /\ TokensOf(<<>>) = {}
  BY EmptySeq DEF Text, TokensOf
<1>8. \A i \in 1..n, t \in Text : F[i][t] = To(t, i)
  BY Zenon
<1>7. F \in [1..n -> [Text -> Text]]
  <2> HIDE DEF To
  <2> QED  BY <1>5
<1>9. \A i \in 0..n : i = 0 \/ (i \in 1..n /\ i - 1 \in 0..n)
  BY <1>3
<1> HIDE DEF F
<1>10. PICK g \in [0..n -> Text] : Results(g, <<>>, n, F)
  BY <1>3, <1>6, <1>7, Loop
<1>11. g = [i \in 0..n |-> IF i = 0 THEN <<>> ELSE To(g[i - 1], i)]
  <2> HIDE DEF To
  <2>1. \A i \in 0..n : (IF i = 0 THEN <<>> ELSE F[i][g[i - 1]]) =
                        IF i = 0 THEN <<>> ELSE To(g[i - 1], i)
    BY <1>8, <1>9, <1>10
  <2> QED  BY <1>10, <2>1, Zenon DEF Results
<1>12. PICK k : /\ StrIntersect(s, r) = Join(k[n])
                /\ k = [i \in 0..n |-> IF i = 0 THEN <<>> ELSE To(k[i - 1], i)]
  <2>1. g = [i \in 0..Len(Split(s)) |-> IF i = 0 THEN <<>>
                ELSE IF Split(s)[i] \in TokensOf(Split(r)) \ TokensOf(g[i - 1])
                THEN Append(g[i - 1], Split(s)[i]) ELSE g[i - 1]]
    BY <1>1, <1>11, Zenon
  <2>2. \E k : /\ StrIntersect(s, r) = Join(k[Len(Split(s))])
               /\ k = [i \in 0..Len(Split(s)) |-> IF i = 0 THEN <<>>
                          ELSE IF Split(s)[i] \in TokensOf(Split(r)) \ TokensOf(k[i - 1])
                          THEN Append(k[i - 1], Split(s)[i]) ELSE k[i - 1]]
    BY <2>1 DEF StrIntersect
  <2> QED  BY <1>1, <2>2, Zenon
<1> DEFINE Q == {i \in 0..n : k[i] \in Text /\ TokensOf(k[i]) = {p[j] : j \in 1..i} \cap Z}
<1> HIDE DEF To
<1>13. 0 \in Q
  <2>1. 0 \in 0..n /\ {p[j] : j \in 1..0} \cap Z = {}
    BY <1>3
  <2>2. k[0] = <<>>
    BY <1>12, <2>1, Zenon
  <2> QED  BY <1>6, <2>1, <2>2, Zenon
<1>14. ASSUME NEW i \in 1..n, i - 1 \in Q PROVE i \in Q
  <2>1. i \in 0..n /\ i # 0
    BY <1>3
  <2>2. k[i] = To(k[i - 1], i)
    BY <1>12, <2>1, Zenon
  <2>3. k[i - 1] \in Text /\ TokensOf(k[i - 1]) = {p[j] : j \in 1..(i - 1)} \cap Z
    BY <1>14
  <2>4. /\ k[i] \in Text
        /\ TokensOf(k[i]) = TokensOf(k[i - 1]) \cup (Z \cap {p[i]})
    BY <1>5, <2>2, <2>3, Zenon
  <2>5. {p[j] : j \in 1..i} = {p[j] : j \in 1..(i - 1)} \cup {p[i]}
    BY <1>3
  <2>6. TokensOf(k[i]) = {p[j] : j \in 1..i} \cap Z
    BY <2>3, <2>4, <2>5, Zenon
  <2> QED  BY <2>1, <2>4, <2>6, Zenon
<1>15. k[n] \in Text /\ TokensOf(k[n]) = TokensOf(p) \cap Z
  <2> HIDE DEF Q
  <2>1. \A i \in 0..n : i \in Q
    BY <1>3, <1>13, <1>14, UpTo
  <2> QED  BY <1>3, <2>1 DEF Q
<1>16. /\ Join(k[n]) \in Text /\ Join(k[n]) # <<>>
       /\ TokensOf(Join(k[n])) \ {Empty} = TokensOf(k[n]) \ {Empty}
  <2>1. CASE k[n] = <<>>
    <3>1. <<Empty>> \in Text /\ TokensOf(<<Empty>>) = {Empty} /\ <<Empty>> # <<>>
      BY TokensAssumption DEF Text, TokensOf
    <3>2. TokensOf(k[n]) = {} /\ Join(k[n]) = <<Empty>>
      BY <1>6, <2>1 DEF Join
    <3> QED  BY <3>1, <3>2, Zenon
  <2>2. CASE k[n] # <<>>
    BY <1>15, <2>2 DEF Join
  <2> QED  BY <2>1, <2>2
<1>17. TokensOf(Split(StrIntersect(s, r))) = TokensOf(Join(k[n])) \ {Empty}
  BY <1>12, <1>16, SplitTokens
<1> QED  BY <1>0, <1>1, <1>12, <1>15, <1>16, <1>17
===============================================================================
