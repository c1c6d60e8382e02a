-------------------------- MODULE KhanFiles_proofs ---------------------------
(***************************************************************************)
(* Proofs about KhanFiles.  FilesInv has the types of the state and who    *)
(* is about to give a name; it makes TypeOK and OneEntityPerName           *)
(* invariant.  NamesInv adds what holds of the index whatever overlaps     *)
(* (Steady) and what holds as long as nothing overlaps (Serial); it makes  *)
(* NameCurrent invariant.  ReadInv adds what paths and the disk have to do *)
(* with each other as long as nothing overlaps (Filed), for Readable.      *)
(***************************************************************************)
EXTENDS KhanFiles, Text_proofs

\* The indexes the calls of the database make: every field has a text.
Stored == Text \ {<<>>}
Indexes == UNION {[K -> Stored] : K \in SUBSET (Text \X Text)}

LEMMA IndexParts ==
    ASSUME NEW d
    PROVE  d \in Indexes <=>
              /\ d = [k \in DOMAIN d |-> d[k]]
              /\ DOMAIN d \subseteq Text \X Text /\ \A k \in DOMAIN d : d[k] \in Stored
<1>1. ASSUME d \in Indexes
      PROVE  d = [k \in DOMAIN d |-> d[k]] /\ DOMAIN d \subseteq Text \X Text
             /\ \A k \in DOMAIN d : d[k] \in Stored
  <2>1. PICK K \in SUBSET (Text \X Text) : d \in [K -> Stored]
    BY <1>1 DEF Indexes
  <2> HIDE DEF Stored
  <2> QED  BY <2>1
<1>2. ASSUME d = [k \in DOMAIN d |-> d[k]], DOMAIN d \subseteq Text \X Text,
             \A k \in DOMAIN d : d[k] \in Stored
      PROVE  d \in Indexes
  <2>1. DOMAIN d \in SUBSET (Text \X Text) /\ d \in [DOMAIN d -> Stored]
    BY <1>2
  <2> QED  BY <2>1 DEF Indexes
<1> QED  BY <1>1, <1>2, Zenon

(***************************************************************************)
(* What the calls of the database change: one field each, and Set and      *)
(* Remove two.                                                             *)
(***************************************************************************)
LEMMA PutAt ==
    ASSUME NEW d, NEW h, NEW f, NEW s, NEW a, NEW b
    PROVE  At(Put(d, h, f, s), a, b) = IF h = a /\ f = b THEN s ELSE At(d, a, b)
<1> DEFINE p == Put(d, h, f, s)
<1>1. DOMAIN p = DOMAIN d \cup {<<h, f>>}
  BY DEF Put
<1>2. \A k \in DOMAIN d \cup {<<h, f>>} : p[k] = IF k = <<h, f>> THEN s ELSE d[k]
  BY DEF Put
<1> HIDE DEF p
<1>3. At(p, a, b) = IF h = a /\ f = b THEN s ELSE At(d, a, b)
  BY <1>1, <1>2 DEF At
<1> QED  BY <1>3 DEF p

LEMMA DropAt ==
    ASSUME NEW d, NEW h, NEW f, NEW a, NEW b, h # a \/ f # b
    PROVE  At(Drop(d, h, f), a, b) = At(d, a, b)
<1> DEFINE p == Drop(d, h, f)
<1>1. DOMAIN p = DOMAIN d \ {<<h, f>>} /\ \A k \in DOMAIN d \ {<<h, f>>} : p[k] = d[k]
  BY DEF Drop
<1> HIDE DEF p
<1>2. At(p, a, b) = At(d, a, b)
  BY <1>1 DEF At
<1> QED  BY <1>2 DEF p

LEMMA PutIndex ==
    ASSUME NEW d \in Indexes, NEW h \in Text, NEW f \in Text, NEW s \in Stored
    PROVE  Put(d, h, f, s) \in Indexes
<1> DEFINE p == Put(d, h, f, s)
<1>1. /\ p = [k \in DOMAIN p |-> p[k]] /\ DOMAIN p = DOMAIN d \cup {<<h, f>>}
      /\ \A k \in DOMAIN d \cup {<<h, f>>} : p[k] = IF k = <<h, f>> THEN s ELSE d[k]
  BY DEF Put
<1> HIDE DEF p
<1>2. DOMAIN d \subseteq Text \X Text /\ \A k \in DOMAIN d : d[k] \in Stored
  BY IndexParts
<1>3. DOMAIN p \subseteq Text \X Text /\ \A k \in DOMAIN p : p[k] \in Stored
  BY <1>1, <1>2
<1>4. p \in Indexes
  BY <1>1, <1>3, IndexParts, Zenon
<1> QED  BY <1>4 DEF p

LEMMA DropIndex ==
    ASSUME NEW d \in Indexes, NEW h, NEW f
    PROVE  Drop(d, h, f) \in Indexes
<1> DEFINE p == Drop(d, h, f)
<1>1. /\ p = [k \in DOMAIN p |-> p[k]] /\ DOMAIN p = DOMAIN d \ {<<h, f>>}
      /\ \A k \in DOMAIN d \ {<<h, f>>} : p[k] = d[k]
  BY DEF Drop
<1> HIDE DEF p
<1>2. DOMAIN d \subseteq Text \X Text /\ \A k \in DOMAIN d : d[k] \in Stored
  BY IndexParts
<1>3. DOMAIN p \subseteq Text \X Text /\ \A k \in DOMAIN p : p[k] \in Stored
  BY <1>1, <1>2
<1>4. p \in Indexes
  BY <1>1, <1>3, IndexParts, Zenon
<1> QED  BY <1>4 DEF p

LEMMA AtText ==
    ASSUME NEW d \in Indexes, NEW h, NEW f
    PROVE  At(d, h, f) \in Text
<1>1. \A k \in DOMAIN d : d[k] \in Stored
  BY IndexParts
<1>2. <<>> \in Text
  BY EmptySeq DEF Text
<1> QED  BY <1>1, <1>2 DEF At, Stored

\* What a call of getval returns: the text of the field or "null", and never nothing.
LEMMA GetValStored ==
    ASSUME NEW s \in Text
    PROVE  /\ GetVal(s) \in Stored
           /\ TokensOf(GetVal(s)) \subseteq TokensOf(s) \cup {Null}
<1>1. PICK e : e = <<Null>>
  OBVIOUS
<1>2. e \in Text /\ e # <<>> /\ Len(e) = 1 /\ e[1] = Null /\ TokensOf(e) = {Null}
  BY <1>1, TokensAssumption DEF Text, TokensOf
<1>3. ASSUME NEW r \in Text, r # <<>>
      PROVE  Cleanup(r) \in Stored /\ TokensOf(Cleanup(r)) \subseteq TokensOf(r)
  <2>1. CASE Len(r) > 1 /\ Head(r) = Empty
    <3>1. /\ Tail(r) \in Text /\ Len(Tail(r)) = Len(r) - 1
          /\ \A i \in 1..(Len(r) - 1) : Tail(r)[i] = r[i + 1]
      BY <1>3, HeadTailProperties DEF Text
    <3>2. PICK q : q = Tail(r)
      OBVIOUS
    <3>3. q \in Text /\ Len(q) = Len(r) - 1 /\ \A i \in 1..(Len(r) - 1) : q[i] = r[i + 1]
      BY <3>1, <3>2, Zenon
    <3>4. /\ TokensOf(q) = {q[i] : i \in 1..Len(q)} /\ TokensOf(r) = {r[i] : i \in 1..Len(r)}
          /\ Len(r) \in Nat
      BY <3>3, TextTokens
    <3>5. TokensOf(q) \subseteq TokensOf(r)
      BY <3>3, <3>4
    <3>6. q # <<>>
      BY <2>1, <3>3, <3>4
    <3>7. Cleanup(r) = q
      BY <2>1, <3>2 DEF Cleanup
    <3> QED  BY <3>3, <3>5, <3>6, <3>7 DEF Stored
  <2>2. CASE ~(Len(r) > 1 /\ Head(r) = Empty)
    BY <1>3, <2>2 DEF Cleanup, Stored
  <2> QED  BY <2>1, <2>2
<1>4. CASE NoReply(s)
  <2>1. GetVal(s) = Cleanup(e)
    BY <1>1, <1>4, Zenon DEF GetVal
  <2> QED  BY <1>2, <1>3, <2>1
<1>5. CASE ~NoReply(s)
  <2>1. GetVal(s) = Cleanup(s) /\ s # <<>>
    BY <1>5 DEF GetVal, NoReply
  <2> QED  BY <1>3, <2>1
<1> QED  BY <1>4, <1>5

LEMMA LookupStored ==
    ASSUME db \in Indexes, NEW h, NEW f
    PROVE  /\ Lookup(h, f) \in Stored
           /\ TokensOf(Lookup(h, f)) \subseteq TokensOf(At(db, h, f)) \cup {Null}
BY AtText, GetValStored DEF Lookup

LEMMA AddStored ==
    ASSUME NEW s \in Text, NEW w \in Stored
    PROVE  AddTo(s, w) \in Stored /\ TokensOf(AddTo(s, w)) \subseteq TokensOf(s) \cup TokensOf(w)
<1>1. CASE NoReply(s)
  BY <1>1 DEF AddTo
<1>2. CASE ~NoReply(s)
  <2>1. AddTo(s, w) = s \o w
    BY <1>2 DEF AddTo
  <2>2. s \o w \in Seq(Tokens) /\ TokensOf(s \o w) = TokensOf(s) \cup TokensOf(w)
    BY TokensConcat DEF Stored, Text
  <2>3. TokensOf(w) # {}
    <3>1. Len(w) \in Nat /\ w # <<>> /\ w \in Seq(Tokens)
      BY LenProperties DEF Stored, Text
    <3>2. Len(w) # 0
      BY <3>1, EmptySeq
    <3>3. 1 \in 1..Len(w)
      BY <3>1, <3>2
    <3>4. TokensOf(w) = {w[i] : i \in 1..Len(w)}
      BY TextTokens DEF Stored
    <3> QED  BY <3>3, <3>4
  <2>4. TokensOf(<<>>) = {}
    BY DEF TokensOf
  <2>5. s \o w # <<>>
    BY <2>2, <2>3, <2>4
  <2> QED  BY <2>1, <2>2, <2>5 DEF Stored, Text
<1> QED  BY <1>1, <1>2

LEMMA PartTokens ==
    ASSUME NEW s \in Text, NEW m \in Nat \ {0}, NEW n \in Nat, n <= Len(s)
    PROVE  SubSeq(s, m, n) \in Text /\ TokensOf(SubSeq(s, m, n)) \subseteq TokensOf(s)
<1> DEFINE r == SubSeq(s, m, n)
<1>1. Len(s) \in Nat /\ TokensOf(s) = {s[i] : i \in 1..Len(s)}
  BY TextTokens
<1>2. /\ r \in Seq(Tokens) /\ Len(r) = IF m <= n THEN n - m + 1 ELSE 0
      /\ \A i \in 1..(n - m + 1) : r[i] = s[m + i - 1]
  BY <1>1, SubSeqProperties, SMT DEF Text
<1> HIDE DEF r
<1>3. TokensOf(r) = {r[i] : i \in 1..Len(r)}
  BY <1>2, TextTokens DEF Text
<1>4. \A i \in 1..Len(r) : r[i] \in TokensOf(s)
  <2> TAKE i \in 1..Len(r)
  <2>1. i \in 1..(n - m + 1) /\ m + i - 1 \in 1..Len(s)
    BY <1>1, <1>2
  <2> QED  BY <1>1, <1>2, <2>1
<1>5. TokensOf(r) \subseteq TokensOf(s)
  BY <1>3, <1>4
<1> QED  BY <1>2, <1>5 DEF r, Text

\* What erase leaves: an empty token in the place of what it took away.
LEMMA EraseStored ==
    ASSUME NEW s \in Stored, NEW w \in Stored
    PROVE  /\ EraseFrom(s, w) \in Stored
           /\ TokensOf(EraseFrom(s, w)) \subseteq TokensOf(s) \cup {Empty}
<1>1. CASE Places(s, w) = {}
  BY <1>1 DEF EraseFrom
<1>2. CASE Places(s, w) # {}
  <2>0. Len(s) \in Nat /\ Len(w) \in Nat /\ Len(w) # 0
    BY LenProperties, EmptySeq DEF Stored, Text
  <2>1. Places(s, w) \subseteq Nat
    BY DEF Places
  <2>2. PICK i \in Places(s, w) : i = Min(Places(s, w))
    BY <1>2, <2>1, MinIn
  <2>3. i \in 1..(Len(s) + 1 - Len(w))
    BY <2>2 DEF Places
  <2> DEFINE a == SubSeq(s, 1, i - 1)
             c == SubSeq(s, i + Len(w), Len(s))
  <2>4. PICK e : e = <<Empty>>
    OBVIOUS
  <2>5. e \in Text /\ TokensOf(e) = {Empty}
    BY <2>4, TokensAssumption DEF Text, TokensOf
  <2>6. EraseFrom(s, w) = (a \o e) \o c
    BY <1>2, <2>2, <2>4, Zenon DEF EraseFrom
  <2>7. a \in Text /\ TokensOf(a) \subseteq TokensOf(s)
    <3>1. i - 1 \in Nat /\ i - 1 <= Len(s) /\ 1 \in Nat \ {0} /\ s \in Text
      BY <2>0, <2>3 DEF Stored
    <3> QED  BY <3>1, PartTokens
  <2>8. c \in Text /\ TokensOf(c) \subseteq TokensOf(s)
    <3>1. i + Len(w) \in Nat \ {0} /\ Len(s) <= Len(s) /\ s \in Text
      BY <2>0, <2>3 DEF Stored
    <3> QED  BY <2>0, <3>1, PartTokens
  <2> HIDE DEF a, c
  <2>9. a \o e \in Text /\ TokensOf(a \o e) = TokensOf(a) \cup {Empty}
    BY <2>5, <2>7, TokensConcat DEF Text
  <2>10. PICK b : b = a \o e
    OBVIOUS
  <2>11. b \o c \in Text /\ TokensOf(b \o c) = TokensOf(b) \cup TokensOf(c)
    <3>1. b \in Seq(Tokens) /\ c \in Seq(Tokens)
      BY <2>8, <2>9, <2>10, Zenon DEF Text
    <3> QED  BY <3>1, TokensConcat DEF Text
  <2>12. PICK r : r = b \o c
    OBVIOUS
  <2>13. r \in Text /\ TokensOf(r) = TokensOf(a) \cup {Empty} \cup TokensOf(c)
    BY <2>9, <2>10, <2>11, <2>12, Zenon
  <2>14. TokensOf(<<>>) = {}
    BY DEF TokensOf
  <2>15. r # <<>>
    BY <2>13, <2>14
  <2>16. EraseFrom(s, w) = r
    BY <2>6, <2>10, <2>12, Zenon
  <2> QED  BY <2>7, <2>8, <2>13, <2>15, <2>16 DEF Stored
<1> QED  BY <1>1, <1>2

LEMMA SetIndex ==
    ASSUME NEW d \in Indexes, NEW f \in Stored, NEW c \in Stored, NEW v \in Stored
    PROVE  Set(d, f, c, v) \in Indexes
<1> DEFINE e == Put(d, f, c, AddTo(At(d, f, c), v))
<1>1. f \in Text /\ c \in Text /\ v \in Text
  BY DEF Stored
<1>2. AddTo(At(d, f, c), v) \in Stored
  BY AtText, AddStored
<1>3. e \in Indexes
  BY <1>1, <1>2, PutIndex
<1>4. Set(d, f, c, v) = Put(e, c, v, AddTo(At(e, c, v), f))
  BY Zenon DEF Set
<1> HIDE DEF e
<1>5. AddTo(At(e, c, v), f) \in Stored
  BY <1>3, AtText, AddStored
<1> QED  BY <1>1, <1>3, <1>4, <1>5, PutIndex

\* The first step of Remove: the entity's own field.
Emptied(d, f, c, v) ==
    LET source == At(d, f, c)
        left == EraseFrom(source, v)
    IN  IF NoReply(source) THEN d
        ELSE IF left = <<Empty>> THEN Drop(d, f, c) ELSE Put(d, f, c, left)

LEMMA EmptiedIndex ==
    ASSUME NEW d \in Indexes, NEW f \in Stored, NEW c \in Stored, NEW v \in Stored
    PROVE  /\ Emptied(d, f, c, v) \in Indexes
           /\ \A h, k : h # f \/ k # c => At(Emptied(d, f, c, v), h, k) = At(d, h, k)
<1> DEFINE source == At(d, f, c)
           left == EraseFrom(source, v)
<1>1. f \in Text /\ c \in Text /\ source \in Text
  BY AtText DEF Stored
<1>2. CASE NoReply(source)
  <2>1. Emptied(d, f, c, v) = d
    BY <1>2, Zenon DEF Emptied
  <2> QED  BY <2>1
<1>3. CASE ~NoReply(source)
  <2>1. left \in Stored
    <3>1. source \in Stored
      BY <1>1, <1>3 DEF Stored, NoReply
    <3> HIDE DEF source
    <3> QED  BY <3>1, EraseStored
  <2>2. CASE left = <<Empty>>
    <3>1. Emptied(d, f, c, v) = Drop(d, f, c)
      BY <1>3, <2>2, Zenon DEF Emptied
    <3>2. \A h, k : h # f \/ k # c => At(Drop(d, f, c), h, k) = At(d, h, k)
      <4> TAKE h, k
      <4> QED  BY DropAt
    <3>3. Drop(d, f, c) \in Indexes
      BY DropIndex
    <3> QED  BY <3>1, <3>2, <3>3, Zenon
  <2>3. CASE left # <<Empty>>
    <3>1. Emptied(d, f, c, v) = Put(d, f, c, left)
      BY <1>3, <2>3, Zenon DEF Emptied
    <3> HIDE DEF left
    <3>2. \A h, k : h # f \/ k # c => At(Put(d, f, c, left), h, k) = At(d, h, k)
      <4> TAKE h, k
      <4> QED  BY PutAt
    <3>3. Put(d, f, c, left) \in Indexes
      BY <1>1, <2>1, PutIndex
    <3> QED  BY <3>1, <3>2, <3>3, Zenon
  <2> QED  BY <2>2, <2>3
<1> QED  BY <1>2, <1>3

LEMMA RemoveIndex ==
    ASSUME NEW d \in Indexes, NEW f \in Stored, NEW c \in Stored, NEW v \in Stored
    PROVE  Remove(d, f, c, v) \in Indexes
<1>1. PICK e : e = Emptied(d, f, c, v)
  OBVIOUS
<1>2. Remove(d, f, c, v) = Put(e, c, v, EraseFrom(GetVal(At(e, c, v)), f))
  BY <1>1, Zenon DEF Remove, Emptied
<1>3. e \in Indexes
  BY <1>1, EmptiedIndex
<1>4. GetVal(At(e, c, v)) \in Stored
  BY <1>3, AtText, GetValStored
<1>5. EraseFrom(GetVal(At(e, c, v)), f) \in Stored
  BY <1>4, EraseStored
<1>6. c \in Text /\ v \in Text
  BY DEF Stored
<1> QED  BY <1>2, <1>3, <1>5, <1>6, PutIndex

(***************************************************************************)
(* The ids under a name.  Only a call that gives the name adds to them,    *)
(* and only the id it gives the name to.                                   *)
(***************************************************************************)
NameField(d, n) == At(d, <<"name">>, <<n>>)

LEMMA SetName ==
    ASSUME NEW d \in Indexes, NEW f \in Stored, NEW c \in Tokens, NEW v \in Tokens, NEW n,
           "name" \notin TokensOf(f)
    PROVE  /\ c = "name" /\ v = n =>
                 TokensOf(NameField(Set(d, f, <<c>>, <<v>>), n))
                     \subseteq TokensOf(NameField(d, n)) \cup TokensOf(f)
           /\ ~(c = "name" /\ v = n) =>
                 NameField(Set(d, f, <<c>>, <<v>>), n) = NameField(d, n)
<1>0. PICK C, V, H, N : C = <<c>> /\ V = <<v>> /\ H = <<"name">> /\ N = <<n>>
  OBVIOUS
<1>1. /\ C = H <=> c = "name"
      /\ V = N <=> v = n
      /\ TokensOf(H) = {"name"} /\ C \in Stored /\ V \in Stored
  BY <1>0 DEF TokensOf, Stored, Text
<1>2. f # H
  BY <1>1
<1> DEFINE e == Put(d, f, C, AddTo(At(d, f, C), V))
           t == AddTo(At(e, C, V), f)
<1>3. Set(d, f, C, V) = Put(e, C, V, t)
  BY Zenon DEF Set
<1>4. At(e, H, N) = At(d, H, N)
  <2> DEFINE s == AddTo(At(d, f, C), V)
  <2> HIDE DEF s
  <2> QED  BY <1>2, PutAt DEF e
<1>5. At(Put(e, C, V, t), H, N) = IF C = H /\ V = N THEN t ELSE At(e, H, N)
  <2> HIDE DEF e, t
  <2> QED  BY PutAt
<1>6. CASE c = "name" /\ v = n
  <2>1. C = H /\ V = N
    BY <1>1, <1>6
  <2>2. At(e, C, V) = At(d, H, N) /\ At(d, H, N) \in Text
    BY <1>4, <2>1, AtText, Zenon
  <2>3. t = AddTo(At(d, H, N), f)
    BY <2>2, Zenon
  <2>4. TokensOf(t) \subseteq TokensOf(At(d, H, N)) \cup TokensOf(f)
    <3> HIDE DEF t
    <3> QED  BY <2>2, <2>3, AddStored
  <2>5. At(Set(d, f, C, V), H, N) = t
    BY <1>3, <1>5, <2>1, Zenon
  <2> HIDE DEF t
  <2>6. TokensOf(NameField(Set(d, f, <<c>>, <<v>>), n)) \subseteq TokensOf(NameField(d, n)) \cup TokensOf(f)
    BY <1>0, <2>4, <2>5, Zenon DEF NameField
  <2> QED  BY <1>6, <2>6
<1>7. CASE ~(c = "name" /\ v = n)
  <2>1. ~(C = H /\ V = N)
    BY <1>1, <1>7
  <2>2. At(Set(d, f, C, V), H, N) = At(d, H, N)
    BY <1>3, <1>4, <1>5, <2>1, Zenon
  <2>3. NameField(Set(d, f, <<c>>, <<v>>), n) = NameField(d, n)
    BY <1>0, <2>2, Zenon DEF NameField
  <2> QED  BY <1>7, <2>3, Zenon
<1> QED  BY <1>6, <1>7, Zenon

LEMMA RemoveName ==
    ASSUME NEW d \in Indexes, NEW f \in Stored, NEW c \in Tokens, NEW v \in Tokens, NEW n,
           "name" \notin TokensOf(f)
    PROVE  TokensOf(NameField(Remove(d, f, <<c>>, <<v>>), n))
               \subseteq TokensOf(NameField(d, n)) \cup {Null, Empty}
<1>0. PICK C, V, H, N : C = <<c>> /\ V = <<v>> /\ H = <<"name">> /\ N = <<n>>
  OBVIOUS
<1>1. TokensOf(H) = {"name"} /\ C \in Stored /\ V \in Stored
  BY <1>0 DEF TokensOf, Stored, Text
<1>2. f # H
  BY <1>1
<1>3. PICK e : e = Emptied(d, f, C, V)
  OBVIOUS
<1>4. PICK t : t = EraseFrom(GetVal(At(e, C, V)), f)
  OBVIOUS
<1>5. Remove(d, f, C, V) = Put(e, C, V, t)
  BY <1>3, <1>4, Zenon DEF Remove, Emptied
<1>6. e \in Indexes /\ At(e, H, N) = At(d, H, N)
  BY <1>1, <1>2, <1>3, EmptiedIndex
<1>7. At(Put(e, C, V, t), H, N) = IF C = H /\ V = N THEN t ELSE At(e, H, N)
  BY PutAt
<1>8. CASE C = H /\ V = N
  <2>1. PICK s : s = At(d, H, N)
    OBVIOUS
  <2>2. s \in Text /\ t = EraseFrom(GetVal(s), f)
    BY <1>4, <1>6, <1>8, <2>1, AtText, Zenon
  <2>3. GetVal(s) \in Stored /\ TokensOf(GetVal(s)) \subseteq TokensOf(s) \cup {Null}
    BY <2>2, GetValStored
  <2>4. TokensOf(t) \subseteq TokensOf(GetVal(s)) \cup {Empty}
    BY <2>2, <2>3, EraseStored
  <2>5. At(Remove(d, f, C, V), H, N) = t
    BY <1>5, <1>7, <1>8, Zenon
  <2>6. TokensOf(t) \subseteq TokensOf(s) \cup {Null, Empty}
    BY <2>3, <2>4
  <2> QED  BY <1>0, <2>1, <2>5, <2>6, Zenon DEF NameField
<1>9. CASE ~(C = H /\ V = N)
  <2>1. At(Remove(d, f, C, V), H, N) = At(d, H, N)
    BY <1>5, <1>6, <1>7, <1>9, Zenon
  <2>2. NameField(Remove(d, f, <<c>>, <<v>>), n) = NameField(d, n)
    BY <1>0, <2>1, Zenon DEF NameField
  <2> QED  BY <2>2
<1> QED  BY <1>8, <1>9
-------------------------------------------------------------------------------
(* The calls that operations are still to make. *)

SetCalls == {"set"} \X Tokens \X Tokens
Calls ==
    ({"make"} \X {"name"} \X Files) \cup SetCalls \cup ({"remove"} \X Tokens \X Tokens)
    \cup ({"process"} \X Tokens) \cup {<<"flush">>} \cup ({"unlink", "delete"} \X Files)
    \cup ({"map"} \X Dirs \X Files) \cup ({"locate"} \X Files \X Dirs \X Files)
    \cup ({"move"} \X Tokens \X Text \X Files)

LEMMA CallParts ==
    ASSUME NEW call \in Calls
    PROVE  /\ call[1] = "make" => call \in {"make"} \X {"name"} \X Files
           /\ call[1] = "set" => call \in SetCalls
           /\ call[1] = "remove" => call \in {"remove"} \X Tokens \X Tokens
           /\ call[1] = "process" => call \in {"process"} \X Tokens
           /\ call[1] = "unlink" => call \in {"unlink"} \X Files
           /\ call[1] = "delete" => call \in {"delete"} \X Files
           /\ call[1] = "map" => call \in {"map"} \X Dirs \X Files
           /\ call[1] = "locate" => call \in {"locate"} \X Files \X Dirs \X Files
           /\ call[1] = "move" => call \in {"move"} \X Tokens \X Text \X Files
<1>1. CASE call \in {"make"} \X {"name"} \X Files
  BY <1>1
<1>2. CASE call \in SetCalls
  BY <1>2 DEF SetCalls
<1>3. CASE call \in {"remove"} \X Tokens \X Tokens
  BY <1>3
<1>4. CASE call \in {"process"} \X Tokens
  BY <1>4
<1>5. CASE call = <<"flush">>
  BY <1>5
<1>6. CASE call \in {"unlink", "delete"} \X Files
  BY <1>6
<1>7. CASE call \in {"map"} \X Dirs \X Files
  BY <1>7
<1>8. CASE call \in {"locate"} \X Files \X Dirs \X Files
  BY <1>8
<1>9. CASE call \in {"move"} \X Tokens \X Text \X Files
  BY <1>9
<1> QED  BY <1>1, <1>2, <1>3, <1>4, <1>5, <1>6, <1>7, <1>8, <1>9 DEF Calls

\* A call that gives a file the name n.
Gives(call, n) == call \in {<<"make", "name", n>>, <<"set", "name", n>>}
GivenIn(s, n) == \E i \in DOMAIN s : Gives(s[i], n)
Once(s, n) == \A i, j \in DOMAIN s : Gives(s[i], n) /\ Gives(s[j], n) => i = j

LEMMA GivesSet ==
    ASSUME NEW call \in SetCalls, NEW n
    PROVE  Gives(call, n) <=> call[2] = "name" /\ call[3] = n
BY DEF Gives, SetCalls

LEMMA GivesMake ==
    ASSUME NEW call \in {"make"} \X {"name"} \X Files, NEW n
    PROVE  Gives(call, n) <=> call[3] = n
BY DEF Gives

LEMMA GivesTag ==
    ASSUME NEW call, NEW n, Gives(call, n)
    PROVE  call[1] \in {"make", "set"}
BY DEF Gives

\* One call is made: those that `more` stands for take its place.
LEMMA NextCalls ==
    ASSUME NEW s \in Seq(Calls), s # <<>>, NEW more \in Seq(Calls)
    PROVE  /\ Head(s) \in Calls /\ more \o Tail(s) \in Seq(Calls)
           /\ TokensOf(more \o Tail(s)) \subseteq TokensOf(more) \cup TokensOf(s)
           /\ \A n : ~GivenIn(more, n) =>
                 /\ GivenIn(more \o Tail(s), n) => GivenIn(s, n)
                 /\ Once(s, n) => Once(more \o Tail(s), n)
                 /\ Once(s, n) /\ Gives(Head(s), n) => ~GivenIn(more \o Tail(s), n)
<1> DEFINE t == Tail(s)
           r == more \o t
<1>1. /\ Len(s) \in Nat \ {0} /\ DOMAIN s = 1..Len(s) /\ \A i \in 1..Len(s) : s[i] \in Calls
      /\ Len(more) \in Nat /\ DOMAIN more = 1..Len(more)
  BY LenProperties, EmptySeq, ElementOfSeq
<1>2. /\ t \in Seq(Calls) /\ Len(t) = Len(s) - 1
      /\ \A i \in 1..(Len(s) - 1) : t[i] = s[i + 1]
  BY HeadTailProperties
<1>3. Head(s) = s[1]
  BY <1>1
<1> HIDE DEF t
<1>4. /\ r \in Seq(Calls) /\ Len(r) = Len(more) + Len(t)
      /\ \A i \in 1..Len(more) + Len(t) : r[i] = IF i <= Len(more) THEN more[i] ELSE t[i - Len(more)]
      /\ TokensOf(r) = TokensOf(more) \cup TokensOf(t)
  <2>1. /\ r \in Seq(Calls) /\ Len(r) = Len(more) + Len(t)
        /\ \A i \in 1..Len(more) + Len(t) : r[i] = IF i <= Len(more) THEN more[i] ELSE t[i - Len(more)]
    BY <1>2, ConcatProperties
  <2>2. TokensOf(r) = TokensOf(more) \cup TokensOf(t)
    BY <1>2, TokensConcat
  <2> QED  BY <2>1, <2>2
<1>5. DOMAIN r = 1..(Len(more) + Len(t)) /\ DOMAIN t = 1..(Len(s) - 1)
  BY <1>2, <1>4, LenProperties
<1> HIDE DEF r
<1>6. TokensOf(t) \subseteq TokensOf(s)
  <2>1. \A i \in DOMAIN t : i + 1 \in DOMAIN s /\ t[i] = s[i + 1]
    BY <1>1, <1>2, <1>5
  <2> QED  BY <2>1 DEF TokensOf
<1> DEFINE k(i) == i - Len(more) + 1
<1>7. ASSUME NEW n, ~GivenIn(more, n), NEW i \in DOMAIN r, Gives(r[i], n)
      PROVE  k(i) \in DOMAIN s /\ k(i) # 1 /\ Gives(s[k(i)], n)
  <2>1. ~(i <= Len(more))
    <3>1. i <= Len(more) => r[i] = more[i] /\ i \in DOMAIN more
      BY <1>1, <1>2, <1>4, <1>5
    <3> QED  BY <1>7, <3>1 DEF GivenIn
  <2>2. /\ i - Len(more) \in 1..(Len(s) - 1) /\ r[i] = t[i - Len(more)]
        /\ k(i) \in DOMAIN s /\ k(i) # 1
    BY <1>1, <1>2, <1>4, <1>5, <2>1
  <2>3. r[i] = s[k(i)]
    BY <1>2, <2>2
  <2> QED  BY <1>7, <2>2, <2>3
<1>8. \A i, j \in DOMAIN r : k(i) = k(j) => i = j
  BY <1>1, <1>2, <1>5
<1> HIDE DEF k
<1>9. ASSUME NEW n, ~GivenIn(more, n)
      PROVE  /\ GivenIn(r, n) => GivenIn(s, n)
             /\ Once(s, n) => Once(r, n)
             /\ Once(s, n) /\ Gives(Head(s), n) => ~GivenIn(r, n)
  <2>1. GivenIn(r, n) => GivenIn(s, n)
    BY <1>7, <1>9 DEF GivenIn
  <2>2. Once(s, n) => Once(r, n)
    BY <1>7, <1>8, <1>9 DEF Once
  <2>3. Once(s, n) /\ Gives(Head(s), n) => ~GivenIn(r, n)
    <3>1. 1 \in DOMAIN s
      BY <1>1
    <3> QED  BY <1>3, <1>7, <1>9, <3>1 DEF Once, GivenIn
  <2> QED  BY <2>1, <2>2, <2>3
<1>10. Head(s) \in Calls
  BY <1>1, <1>3
<1>11. TokensOf(r) \subseteq TokensOf(more) \cup TokensOf(s)
  BY <1>4, <1>6
<1> QED  BY <1>4, <1>9, <1>10, <1>11, Zenon DEF r, t
-------------------------------------------------------------------------------
(* The paths that resolve_selectors makes and the calls that are made of them. *)

LEMMA KeysTokens ==
    ASSUME db \in Indexes, NEW h
    PROVE  KeysOf(h) \subseteq Tokens
<1> DEFINE fields == {k[2] : k \in {j \in DOMAIN db : j[1] = h}}
<1>1. \A f \in fields : TokensOf(f) \subseteq Tokens
  <2>1. fields \subseteq Text
    BY IndexParts
  <2> HIDE DEF fields
  <2> QED  BY <2>1, TextTokens
<1>2. KeysOf(h) = IF fields = {} THEN {Null} ELSE UNION {TokensOf(f) \ {Empty} : f \in fields}
  BY Zenon DEF KeysOf
<1> HIDE DEF fields
<1> QED  BY <1>1, <1>2, TokensAssumption

\* Sets of paths made of W, where every attribute is that a selector of V may become,
\* and pieces whose selectors are of V and whose other names are of W.
Selections(W) == SUBSET Seq(W)
PathWords(V, W) ==
    /\ V \subseteq W /\ W \subseteq Tokens /\ {"tags", Glued} \subseteq W
    /\ \A x \in V, a \in AllAttrs : x \in KeysOf(<<a>>) => a \in W
Pieces(V, W) ==
    {p \in [selectors : BOOLEAN, names : Seq(W)] : p.selectors => p.names \in Seq(V)}

LEMMA SelectedPaths ==
    ASSUME NEW V, NEW W, PathWords(V, W), NEW before \in Seq(W), NEW x \in V
    PROVE  Selected(before, x) \in Selections(W)
<1> DEFINE having == {a \in AllAttrs : x \in KeysOf(<<a>>)}
<1>1. having \subseteq W
  BY DEF PathWords
<1>2. x \in W /\ \A a \in W : <<a, x>> \in Seq(W)
  BY DEF PathWords
<1>3. "tags" \in W /\ Glued \in W
  BY DEF PathWords
<1>4. CASE having # {}
  <2>1. Selected(before, x) = {before \o <<a, x>> : a \in having}
    BY <1>4, Zenon DEF Selected
  <2> HIDE DEF having
  <2>2. \A a \in having : before \o <<a, x>> \in Seq(W)
    <3> TAKE a \in having
    <3>1. PICK r : r = <<a, x>>
      OBVIOUS
    <3>2. r \in Seq(W)
      BY <1>1, <1>2, <3>1
    <3>3. before \o r \in Seq(W)
      BY <3>2, ConcatProperties
    <3> QED  BY <3>1, <3>3, Zenon
  <2> QED  BY <2>1, <2>2 DEF Selections
<1>5. CASE having = {} /\ before = <<>>
  <2>1. Selected(before, x) = {<<"tags", x>>}
    BY <1>5, Zenon DEF Selected
  <2> QED  BY <1>2, <1>3, <2>1 DEF Selections
<1>6. CASE having = {} /\ before # <<>>
  <2>1. PICK b : b = [before EXCEPT ![Len(before)] = Glued]
    OBVIOUS
  <2>2. Len(before) \in 1..Len(before)
    BY <1>6, LenProperties, EmptySeq
  <2>3. b \in Seq(W)
    BY <1>3, <2>1, <2>2, ExceptSeq
  <2>4. PICK r : r = <<x>>
    OBVIOUS
  <2>5. r \in Seq(W)
    BY <1>2, <2>4
  <2>6. b \o r \in Seq(W)
    BY <2>3, <2>5, ConcatProperties
  <2>7. Selected(before, x) = {b \o r}
    BY <1>6, <2>1, <2>4, Zenon DEF Selected
  <2> QED  BY <2>6, <2>7 DEF Selections
<1> QED  BY <1>4, <1>5, <1>6

\* The selectors of a piece, one after the other.
ExpandSteps(e, names) ==
    e = [j \in 0..Len(names) |->
            IF j = 0 THEN {<<>>} ELSE UNION {Selected(r, names[j]) : r \in e[j - 1]}]

LEMMA ExpandLoop ==
    ASSUME NEW V, NEW W, PathWords(V, W), NEW names \in Seq(V)
    PROVE  /\ \E e : ExpandSteps(e, names)
           /\ \A e : ExpandSteps(e, names) => e[Len(names)] \in Selections(W)
<1>1. Len(names) \in Nat /\ \A j \in 1..Len(names) : names[j] \in V
  BY LenProperties, ElementOfSeq
<1>2. PICK n : n = Len(names)
  OBVIOUS
<1> DEFINE Then(R, j) == UNION {Selected(r, names[j]) : r \in R}
           F == [j \in 1..n |-> [R \in Selections(W) |-> Then(R, j)]]
<1>3. \A j \in 1..n, R \in Selections(W) : Then(R, j) \in Selections(W)
  <2> TAKE j \in 1..n, R \in Selections(W)
  <2>1. \A r \in R : Selected(r, names[j]) \in Selections(W)
    BY <1>1, <1>2, SelectedPaths DEF Selections
  <2> QED  BY <2>1 DEF Selections
<1>4. \A j \in 1..n, R \in Selections(W) : F[j][R] = Then(R, j)
  BY Zenon
<1>5. F \in [1..n -> [Selections(W) -> Selections(W)]]
  <2> HIDE DEF Then
  <2> QED  BY <1>3
<1>6. {<<>>} \in Selections(W)
  BY EmptySeq DEF Selections
<1>7. \A j \in 0..n : j = 0 \/ (j \in 1..n /\ j - 1 \in 0..n)
  BY <1>1, <1>2
<1> HIDE DEF F, Then
<1>8. PICK g \in [0..n -> Selections(W)] : Results(g, {<<>>}, n, F)
  BY <1>1, <1>2, <1>5, <1>6, Loop
<1>9. g = [j \in 0..n |-> IF j = 0 THEN {<<>>} ELSE Then(g[j - 1], j)]
  <2>1. \A j \in 0..n : (IF j = 0 THEN {<<>>} ELSE F[j][g[j - 1]]) =
                        IF j = 0 THEN {<<>>} ELSE Then(g[j - 1], j)
    BY <1>4, <1>7, <1>8
  <2> QED  BY <1>8, <2>1, Zenon DEF Results
<1>10. ExpandSteps(g, names)
  BY <1>2, <1>9, Zenon DEF ExpandSteps, Then
<1>11. ASSUME NEW e, ExpandSteps(e, names) PROVE e[n] \in Selections(W)
  <2> DEFINE Q == {j \in 0..n : e[j] \in Selections(W)}
  <2>1. e = [j \in 0..n |-> IF j = 0 THEN {<<>>} ELSE Then(e[j - 1], j)]
    BY <1>2, <1>11, Zenon DEF ExpandSteps, Then
  <2>2. 0 \in 0..n /\ n \in 0..n
    BY <1>1, <1>2
  <2>3. e[0] = {<<>>}
    BY <2>1, <2>2, Zenon
  <2>4. 0 \in Q
    BY <1>6, <2>2, <2>3, Zenon
  <2>5. ASSUME NEW j \in 1..n, j - 1 \in Q PROVE j \in Q
    <3>1. j \in 0..n /\ j # 0
      BY <1>1, <1>2
    <3>2. e[j] = Then(e[j - 1], j)
      BY <2>1, <3>1, Zenon
    <3>3. e[j - 1] \in Selections(W)
      BY <2>5
    <3> QED  BY <1>3, <3>1, <3>2, <3>3, Zenon
  <2> HIDE DEF Q
  <2>6. \A j \in 0..n : j \in Q
    BY <1>1, <1>2, <2>4, <2>5, UpTo
  <2> QED  BY <2>2, <2>6 DEF Q
<1> QED  BY <1>2, <1>10, <1>11, Zenon

LEMMA ExpandedPaths ==
    ASSUME NEW V, NEW W, PathWords(V, W), NEW piece \in Pieces(V, W)
    PROVE  Expanded(piece) \in Selections(W)
<1>1. piece.names \in Seq(W) /\ (piece.selectors => piece.names \in Seq(V))
  BY DEF Pieces
<1>2. CASE ~piece.selectors
  BY <1>1, <1>2 DEF Expanded, Selections
<1>3. CASE piece.selectors
  <2>1. PICK g : ExpandSteps(g, piece.names)
    BY <1>1, <1>3, ExpandLoop
  <2> DEFINE e == CHOOSE e : ExpandSteps(e, piece.names)
  <2>2. Expanded(piece) = e[Len(piece.names)]
    BY <1>3, Zenon DEF Expanded, ExpandSteps
  <2>3. ExpandSteps(e, piece.names)
    BY <2>1, Zenon
  <2> QED  BY <1>1, <1>3, <2>2, <2>3, ExpandLoop
<1> QED  BY <1>2, <1>3

\* The pieces of a path, one after the other.
ResolveSteps(p, pieces) ==
    p = [i \in 0..Len(pieces) |->
            IF i = 0 THEN {<<>>} ELSE UNION {{r \o q : q \in Expanded(pieces[i])} : r \in p[i - 1]}]

LEMMA ResolveLoop ==
    ASSUME NEW V, NEW W, PathWords(V, W), NEW pieces \in Seq(Pieces(V, W))
    PROVE  /\ \E p : ResolveSteps(p, pieces)
           /\ \A p : ResolveSteps(p, pieces) => p[Len(pieces)] \in Selections(W)
<1>1. Len(pieces) \in Nat /\ \A i \in 1..Len(pieces) : pieces[i] \in Pieces(V, W)
  BY LenProperties, ElementOfSeq
<1>2. PICK n : n = Len(pieces)
  OBVIOUS
<1> DEFINE Then(R, i) == UNION {{r \o q : q \in Expanded(pieces[i])} : r \in R}
           F == [i \in 1..n |-> [R \in Selections(W) |-> Then(R, i)]]
<1>3. \A i \in 1..n, R \in Selections(W) : Then(R, i) \in Selections(W)
  <2> TAKE i \in 1..n, R \in Selections(W)
  <2>1. Expanded(pieces[i]) \in Selections(W)
    BY <1>1, <1>2, ExpandedPaths
  <2>2. \A r \in R, q \in Expanded(pieces[i]) : r \o q \in Seq(W)
    BY <2>1, ConcatProperties DEF Selections
  <2>3. \A r \in R : {r \o q : q \in Expanded(pieces[i])} \in SUBSET Seq(W)
    BY <2>2
  <2>4. Then(R, i) \subseteq Seq(W)
    BY <2>3
  <2> QED  BY <2>4 DEF Selections
<1>4. \A i \in 1..n, R \in Selections(W) : F[i][R] = Then(R, i)
  BY Zenon
<1>5. F \in [1..n -> [Selections(W) -> Selections(W)]]
  <2> HIDE DEF Then
  <2> QED  BY <1>3
<1>6. {<<>>} \in Selections(W)
  BY EmptySeq DEF Selections
<1>7. \A i \in 0..n : i = 0 \/ (i \in 1..n /\ i - 1 \in 0..n)
  BY <1>1, <1>2
<1> HIDE DEF F, Then
<1>8. PICK g \in [0..n -> Selections(W)] : Results(g, {<<>>}, n, F)
  BY <1>1, <1>2, <1>5, <1>6, Loop
<1>9. g = [i \in 0..n |-> IF i = 0 THEN {<<>>} ELSE Then(g[i - 1], i)]
  <2>1. \A i \in 0..n : (IF i = 0 THEN {<<>>} ELSE F[i][g[i - 1]]) =
                        IF i = 0 THEN {<<>>} ELSE Then(g[i - 1], i)
    BY <1>4, <1>7, <1>8
  <2> QED  BY <1>8, <2>1, Zenon DEF Results
<1>10. ResolveSteps(g, pieces)
  BY <1>2, <1>9, Zenon DEF ResolveSteps, Then
<1>11. ASSUME NEW p, ResolveSteps(p, pieces) PROVE p[n] \in Selections(W)
  <2> DEFINE Q == {i \in 0..n : p[i] \in Selections(W)}
  <2>1. p = [i \in 0..n |-> IF i = 0 THEN {<<>>} ELSE Then(p[i - 1], i)]
    BY <1>2, <1>11, Zenon DEF ResolveSteps, Then
  <2>2. 0 \in 0..n /\ n \in 0..n
    BY <1>1, <1>2
  <2>3. p[0] = {<<>>}
    BY <2>1, <2>2, Zenon
  <2>4. 0 \in Q
    BY <1>6, <2>2, <2>3, Zenon
  <2>5. ASSUME NEW i \in 1..n, i - 1 \in Q PROVE i \in Q
    <3>1. i \in 0..n /\ i # 0
      BY <1>1, <1>2
    <3>2. p[i] = Then(p[i - 1], i)
      BY <2>1, <3>1, Zenon
    <3>3. p[i - 1] \in Selections(W)
      BY <2>5
    <3> QED  BY <1>3, <3>1, <3>2, <3>3, Zenon
  <2> HIDE DEF Q
  <2>6. \A i \in 0..n : i \in Q
    BY <1>1, <1>2, <2>4, <2>5, UpTo
  <2> QED  BY <2>2, <2>6 DEF Q
<1> QED  BY <1>2, <1>10, <1>11, Zenon

LEMMA ResolvedPaths ==
    ASSUME NEW V, NEW W, PathWords(V, W), NEW pieces \in Seq(Pieces(V, W))
    PROVE  Resolve(pieces) \in Selections(W)
<1>1. PICK g : ResolveSteps(g, pieces)
  BY ResolveLoop
<1>2. PICK p : ResolveSteps(p, pieces) /\ Resolve(pieces) = p[Len(pieces)]
  <2> DEFINE p == CHOOSE p : ResolveSteps(p, pieces)
  <2>1. Resolve(pieces) = p[Len(pieces)]
    BY Zenon DEF Resolve, ResolveSteps
  <2>2. ResolveSteps(p, pieces)
    BY <1>1, Zenon
  <2> QED  BY <2>1, <2>2, Zenon
<1> QED  BY <1>2, ResolveLoop

LEMMA SetCallsAre == SetCalls \subseteq Calls /\ \A call \in SetCalls : call[1] = "set"
BY DEF SetCalls, Calls

LEMMA SeqWiden ==
    ASSUME NEW A, NEW B, A \subseteq B, NEW s \in Seq(A)
    PROVE  s \in Seq(B)
<1>1. Len(s) \in Nat /\ \A i \in 1..Len(s) : s[i] \in B
  BY LenProperties, ElementOfSeq
<1>2. s = [i \in 1..Len(s) |-> s[i]]
  OBVIOUS
<1> QED  BY <1>1, <1>2, SeqDef

\* What map_path does at the k-th pair of a path.
Mapping(calls, q, k) ==
    calls \o <<<<"set", AttrAt(q, k), ValAt(q, k)>>>> \o
    IF AttrAt(q, k) = "location" /\ ValAt(q, k) = ServerId
    THEN <<<<"set", "server", Server>>>> ELSE <<>>
MapSteps(c, q) ==
    c = [k \in 0..(Len(q) \div 2) |-> IF k = 0 THEN <<>> ELSE Mapping(c[k - 1], q, k)]

SetsOf(W) == {"set"} \X (W \cup {"server"}) \X (W \cup {Server})

LEMMA PairTokens ==
    ASSUME NEW W, NEW q \in Seq(W), NEW k \in 1..(Len(q) \div 2)
    PROVE  AttrAt(q, k) \in W /\ ValAt(q, k) \in W
<1>1. Len(q) \in Nat /\ \A i \in 1..Len(q) : q[i] \in W
  BY LenProperties, ElementOfSeq
<1>2. 2 * k - 1 \in 1..Len(q) /\ 2 * k \in 1..Len(q)
  BY <1>1
<1> QED  BY <1>1, <1>2 DEF AttrAt, ValAt

LEMMA MappingCalls ==
    ASSUME NEW W, NEW q \in Seq(W), NEW k \in 1..(Len(q) \div 2), NEW calls \in Seq(SetsOf(W))
    PROVE  Mapping(calls, q, k) \in Seq(SetsOf(W))
<1> DEFINE one == <<"set", AttrAt(q, k), ValAt(q, k)>>
           two == <<"set", "server", Server>>
<1>1. one \in SetsOf(W)
  BY PairTokens DEF SetsOf
<1>2. two \in SetsOf(W)
  BY DEF SetsOf
<1> HIDE DEF one, two
<1>3. <<one>> \in Seq(SetsOf(W)) /\ <<two>> \in Seq(SetsOf(W)) /\ <<>> \in Seq(SetsOf(W))
  BY <1>1, <1>2
<1>4. PICK a, b : /\ a = <<one>>
                  /\ b = IF AttrAt(q, k) = "location" /\ ValAt(q, k) = ServerId
                         THEN <<two>> ELSE <<>>
  OBVIOUS
<1>5. a \in Seq(SetsOf(W)) /\ b \in Seq(SetsOf(W))
  BY <1>3, <1>4
<1>6. calls \o a \in Seq(SetsOf(W))
  BY <1>5, ConcatProperties
<1>7. (calls \o a) \o b \in Seq(SetsOf(W))
  BY <1>5, <1>6, ConcatProperties
<1>8. Mapping(calls, q, k) = (calls \o a) \o b
  BY <1>4, Zenon DEF Mapping, one, two
<1> QED  BY <1>7, <1>8

LEMMA MapLoop ==
    ASSUME NEW W, NEW q \in Seq(W)
    PROVE  /\ \E c : MapSteps(c, q)
           /\ \A c : MapSteps(c, q) => c[Len(q) \div 2] \in Seq(SetsOf(W))
<1>1. PICK n : n = Len(q) \div 2
  OBVIOUS
<1>2. n \in Nat
  BY <1>1, LenProperties
<1>3. \A k \in 1..n, s \in Seq(SetsOf(W)) : Mapping(s, q, k) \in Seq(SetsOf(W))
  BY <1>1, MappingCalls
<1> DEFINE F == [k \in 1..n |-> [s \in Seq(SetsOf(W)) |-> Mapping(s, q, k)]]
<1>4. \A k \in 1..n, s \in Seq(SetsOf(W)) : F[k][s] = Mapping(s, q, k)
  BY Zenon
<1>5. F \in [1..n -> [Seq(SetsOf(W)) -> Seq(SetsOf(W))]]
  BY <1>3
<1>6. <<>> \in Seq(SetsOf(W))
  BY EmptySeq
<1>7. \A k \in 0..n : k = 0 \/ (k \in 1..n /\ k - 1 \in 0..n)
  BY <1>2
<1> HIDE DEF F
<1>8. PICK g \in [0..n -> Seq(SetsOf(W))] : Results(g, <<>>, n, F)
  BY <1>2, <1>5, <1>6, Loop
<1>9. g = [k \in 0..n |-> IF k = 0 THEN <<>> ELSE Mapping(g[k - 1], q, k)]
  <2>1. \A k \in 0..n : (IF k = 0 THEN <<>> ELSE F[k][g[k - 1]]) =
                        IF k = 0 THEN <<>> ELSE Mapping(g[k - 1], q, k)
    BY <1>4, <1>7, <1>8
  <2> QED  BY <1>8, <2>1, Zenon DEF Results
<1>10. MapSteps(g, q)
  BY <1>1, <1>9, Zenon DEF MapSteps
<1>11. ASSUME NEW c, MapSteps(c, q) PROVE c[n] \in Seq(SetsOf(W))
  <2> DEFINE Q == {k \in 0..n : c[k] \in Seq(SetsOf(W))}
  <2>1. c = [k \in 0..n |-> IF k = 0 THEN <<>> ELSE Mapping(c[k - 1], q, k)]
    BY <1>1, <1>11, Zenon DEF MapSteps
  <2>2. 0 \in 0..n /\ n \in 0..n
    BY <1>2
  <2>3. c[0] = <<>>
    BY <2>1, <2>2, Zenon
  <2>4. 0 \in Q
    BY <1>6, <2>2, <2>3, Zenon
  <2>5. ASSUME NEW k \in 1..n, k - 1 \in Q PROVE k \in Q
    <3>1. k \in 0..n /\ k # 0
      BY <1>2
    <3>2. c[k] = Mapping(c[k - 1], q, k)
      BY <2>1, <3>1, Zenon
    <3>3. c[k - 1] \in Seq(SetsOf(W))
      BY <2>5
    <3> QED  BY <1>3, <3>1, <3>2, <3>3, Zenon
  <2> HIDE DEF Q
  <2>6. \A k \in 0..n : k \in Q
    BY <1>2, <2>4, <2>5, UpTo
  <2> QED  BY <2>2, <2>6 DEF Q
<1> QED  BY <1>1, <1>10, <1>11, Zenon

\* The path's attributes and values, and the server that comes with a location.
LEMMA MapCalls ==
    ASSUME NEW W, W \subseteq Tokens, NEW path \in Seq(W)
    PROVE  MapPath(path) \in Seq(SetsOf(W \ {Null}))
<1>1. PICK q : q = Kept(path, Tokens \ {Null})
  OBVIOUS
<1>2. q \in Seq(W \ {Null})
  <2>1. q \in Seq(Tokens) /\ TokensOf(q) = TokensOf(path) \ {Null}
    <3>1. path \in Seq(Tokens)
      BY SeqWiden
    <3>2. q \in Seq(Tokens) /\ TokensOf(q) = TokensOf(path) \cap (Tokens \ {Null})
      BY <1>1, <3>1, KeptTokens
    <3>3. TokensOf(path) \subseteq Tokens
      BY <3>1, TextTokens DEF Text
    <3> QED  BY <3>2, <3>3
  <2>2. TokensOf(q) \subseteq W \ {Null}
    <3>1. \A i \in DOMAIN path : path[i] \in W
      BY LenProperties, ElementOfSeq
    <3> QED  BY <2>1, <3>1 DEF TokensOf
  <2>3. Len(q) \in Nat /\ q = [i \in 1..Len(q) |-> q[i]]
    BY <2>1, LenProperties
  <2>4. \A i \in 1..Len(q) : q[i] \in W \ {Null}
    BY <2>2, <2>3 DEF TokensOf
  <2> QED  BY <2>3, <2>4, SeqDef
<1>3. PICK g : MapSteps(g, q)
  BY <1>2, MapLoop
<1>4. PICK c : MapPath(path) = c[Len(q) \div 2] /\ MapSteps(c, q)
  <2> DEFINE c == CHOOSE c : MapSteps(c, q)
  <2>1. MapPath(path) = c[Len(q) \div 2]
    BY <1>1, Zenon DEF MapPath, MapSteps, Mapping
  <2>2. MapSteps(c, q)
    BY <1>3, Zenon
  <2> QED  BY <2>1, <2>2, Zenon
<1> QED  BY <1>2, <1>4, MapLoop

LEMMA LookupTokens ==
    ASSUME db \in Indexes, NEW h, NEW f
    PROVE  /\ Lookup(h, f) \in Seq(Tokens) /\ Len(Lookup(h, f)) \in Nat \ {0}
           /\ Lookup(h, f)[1] \in Tokens /\ Lookup(h, f)[Len(Lookup(h, f))] \in Tokens
           /\ TokensOf(Lookup(h, f)) \subseteq Tokens
<1>1. PICK s : s = Lookup(h, f)
  OBVIOUS
<1>2. s \in Seq(Tokens) /\ s # <<>>
  BY <1>1, LookupStored DEF Stored, Text
<1>3. Len(s) \in Nat \ {0} /\ \A i \in 1..Len(s) : s[i] \in Tokens
  BY <1>2, LenProperties, EmptySeq, ElementOfSeq
<1>4. s[1] \in Tokens /\ s[Len(s)] \in Tokens
  BY <1>3
<1>5. TokensOf(s) \subseteq Tokens
  BY <1>2, TextTokens DEF Text
<1> QED  BY <1>1, <1>2, <1>3, <1>4, <1>5

\* No call that process_file makes gives a name: "name" is not one of the
\* attributes that a script extracts.
LEMMA ExtractionCalls ==
    ASSUME db \in Indexes, NEW t, NEW path
    PROVE  /\ Extractions(t, path) \in Seq(SetCalls)
           /\ \A i \in DOMAIN Extractions(t, path) : Extractions(t, path)[i][2] # "name"
<1>1. PICK attrs : attrs = Lookup(Lookup(id[t], <<"ext">>), <<"attrs">>)
  OBVIOUS
<1>2. attrs \in Seq(Tokens)
  BY <1>1, LookupTokens
<1>3. PICK wanted : wanted = Kept(attrs, Tokens \ (Builtin \cup {Null}))
  OBVIOUS
<1>4. wanted \in Seq(Tokens) /\ TokensOf(wanted) \subseteq Tokens \ (Builtin \cup {Null})
  BY <1>2, <1>3, KeptTokens
<1>5. PICK x : x = Extracted(path)
  OBVIOUS
<1>6. x \in Tokens
  <2>1. path \in Files => Value[path] \in Tokens
    BY FilesAssumption
  <2> QED  BY <1>5, <2>1, TokensAssumption DEF Extracted
<1>7. PICK e : e = [i \in DOMAIN wanted |-> <<"set", wanted[i], x>>]
  OBVIOUS
<1>8. Extractions(t, path) = e
  BY <1>1, <1>3, <1>5, <1>7, Zenon DEF Extractions
<1>9. Len(wanted) \in Nat /\ DOMAIN wanted = 1..Len(wanted)
  BY <1>4, LenProperties
<1>10. \A i \in 1..Len(wanted) : wanted[i] \in Tokens /\ wanted[i] # "name"
  BY <1>4, <1>9 DEF TokensOf, Builtin
<1>11. \A i \in 1..Len(wanted) : e[i] = <<"set", wanted[i], x>> /\ e[i] \in SetCalls
  BY <1>6, <1>7, <1>9, <1>10 DEF SetCalls
<1>12. e = [i \in 1..Len(wanted) |-> e[i]]
  BY <1>7, <1>9, Zenon
<1>13. e \in Seq(SetCalls) /\ DOMAIN e = 1..Len(wanted)
  BY <1>9, <1>11, <1>12, SeqDef
<1> QED  BY <1>8, <1>10, <1>11, <1>13

LEMMA PathTokens ==
    ASSUME db \in Indexes, NEW n
    PROVE  PathOf(n) \in Tokens
<1>1. PICK path : path = Lookup(Lookup(<<"name">>, <<n>>), <<"file_path">>)
  OBVIOUS
<1>2. path[1] \in Tokens
  BY <1>1, LookupTokens
<1>3. PathOf(n) = IF Len(path) = 1 THEN path[1] ELSE Empty
  BY <1>1, Zenon DEF PathOf
<1> QED  BY <1>2, <1>3, TokensAssumption
-------------------------------------------------------------------------------
(***************************************************************************)
(* The inductive invariant.  As long as a name was not given while taken,  *)
(* at most one call that is still to be made gives it, to one entity; and  *)
(* then nothing has it yet.  No id reads "name", so that no entity's own   *)
(* fields lie where the ids under a name are kept.                         *)
(***************************************************************************)
DiskOK == DOMAIN disk \subseteq Paths /\ \A p \in DOMAIN disk : disk[p] \in Files \cup {Node}
IdsOK == next \in 1..(Len(Ids) + 1) /\ named \in [TokensOf(Ids) -> Tokens]
StateTypes ==
    /\ db \in Indexes /\ DiskOK /\ IdsOK
    /\ id \in [Threads -> Stored] /\ todo \in [Threads -> Seq(Calls)]
    /\ ops \in 0..MaxOps /\ overlaps \in 0..MaxOverlaps
    /\ shared \subseteq Files /\ mixed \subseteq Tokens
    /\ unlinked \subseteq Tokens /\ stray \in BOOLEAN

NoName ==
    /\ \A n \in Files : "name" \notin TokensOf(NameField(db, n))
    /\ \A t \in Threads : "name" \notin TokensOf(id[t])

OneGiver == \A n \in Files \ shared :
    /\ \A t, u \in Threads : GivenIn(todo[t], n) /\ GivenIn(todo[u], n) => t = u
    /\ \A t \in Threads :
          /\ Once(todo[t], n)
          /\ GivenIn(todo[t], n) => Holders(n) = {}
          /\ <<"set", "name", n>> \in TokensOf(todo[t]) => Len(id[t]) = 1
    /\ \A x, y \in Holders(n) : x = y

FilesInv == StateTypes /\ NoName /\ OneGiver

LEMMA InvParts ==
    ASSUME FilesInv
    PROVE  /\ db \in Indexes /\ DiskOK /\ IdsOK
           /\ id \in [Threads -> Stored] /\ todo \in [Threads -> Seq(Calls)]
           /\ NoName /\ OneGiver /\ mixed \subseteq Tokens
BY Zenon DEF FilesInv, StateTypes

LEMMA GivingIs ==
    ASSUME NEW n \in Files
    PROVE  n \in Giving <=> \E t \in Threads : GivenIn(todo[t], n)
BY DEF Giving, GivenIn, Gives

LEMMA HoldersAre ==
    ASSUME db \in Indexes, NEW n
    PROVE  Holders(n) = TokensOf(NameField(db, n)) \ {Empty, Null}
<1>1. NameField(db, n) \in Text
  BY AtText DEF NameField
<1>2. TokensOf(Split(NameField(db, n))) = TokensOf(NameField(db, n)) \ {Empty}
  BY <1>1, SplitTokens
<1> QED  BY <1>2 DEF Holders, NameField

LEMMA HoldersAreNext ==
    ASSUME db' \in Indexes, NEW n
    PROVE  Holders(n)' = TokensOf(NameField(db', n)) \ {Empty, Null}
<1>1. NameField(db', n) \in Text
  BY AtText DEF NameField
<1>2. TokensOf(Split(NameField(db', n))) = TokensOf(NameField(db', n)) \ {Empty}
  BY <1>1, SplitTokens
<1> QED  BY <1>2 DEF Holders, NameField

\* An operation starts, and shares the names that it is about to give and are taken.
LEMMA StartInv ==
    ASSUME FilesInv, NEW t \in Threads, NEW fileid \in Stored, NEW calls \in Seq(Calls),
           Start(t, fileid, calls), "name" \notin TokensOf(fileid),
           DiskOK', unlinked' \subseteq Tokens, stray' \in BOOLEAN,
           shared \subseteq shared', shared' \subseteq Files,
           \A n \in Files \ shared' :
               /\ Once(calls, n) /\ (GivenIn(calls, n) => ~Taken(n))
               /\ <<"set", "name", n>> \in TokensOf(calls) => Len(fileid) = 1
    PROVE  FilesInv'
<1>1. /\ todo[t] = <<>> /\ id' = [id EXCEPT ![t] = fileid] /\ todo' = [todo EXCEPT ![t] = calls]
      /\ db' = db /\ next' = next /\ named' = named /\ mixed' = mixed
  BY DEF Start
<1>2. /\ db \in Indexes /\ IdsOK /\ id \in [Threads -> Stored] /\ todo \in [Threads -> Seq(Calls)]
      /\ NoName /\ OneGiver /\ mixed \subseteq Tokens
  BY InvParts
<1>3. ops' \in 0..MaxOps /\ overlaps' \in 0..MaxOverlaps
  BY FilesAssumption DEF Start, FilesInv, StateTypes
<1>4. StateTypes'
  <2>1. id' \in [Threads -> Stored] /\ todo' \in [Threads -> Seq(Calls)]
    BY <1>1, <1>2
  <2>2. IdsOK'
    BY <1>1, <1>2 DEF IdsOK
  <2> QED  BY <1>1, <1>2, <1>3, <2>1, <2>2 DEF StateTypes
<1>5. NoName'
  <2>1. \A u \in Threads : "name" \notin TokensOf(id'[u])
    BY <1>1, <1>2 DEF NoName
  <2> QED  BY <1>1, <1>2, <2>1 DEF NoName
<1>6. ASSUME NEW n \in Files \ shared'
      PROVE  /\ \A u, w \in Threads : GivenIn(todo'[u], n) /\ GivenIn(todo'[w], n) => u = w
             /\ \A u \in Threads :
                   /\ Once(todo'[u], n)
                   /\ GivenIn(todo'[u], n) => Holders(n) = {}
                   /\ <<"set", "name", n>> \in TokensOf(todo'[u]) => Len(id'[u]) = 1
             /\ \A x, y \in Holders(n) : x = y
  <2>1. /\ \A u, w \in Threads : GivenIn(todo[u], n) /\ GivenIn(todo[w], n) => u = w
        /\ \A u \in Threads :
              /\ Once(todo[u], n)
              /\ GivenIn(todo[u], n) => Holders(n) = {}
              /\ <<"set", "name", n>> \in TokensOf(todo[u]) => Len(id[u]) = 1
        /\ \A x, y \in Holders(n) : x = y
    BY <1>2 DEF OneGiver
  <2>2. /\ todo'[t] = calls /\ id'[t] = fileid
        /\ \A u \in Threads : u # t => todo'[u] = todo[u] /\ id'[u] = id[u]
    BY <1>1, <1>2
  <2>3. GivenIn(calls, n) => Holders(n) = {} /\ \A u \in Threads : ~GivenIn(todo[u], n)
    BY GivingIs DEF Taken
  <2>4. /\ Once(calls, n)
        /\ <<"set", "name", n>> \in TokensOf(calls) => Len(fileid) = 1
    OBVIOUS
  <2> QED  BY <2>1, <2>2, <2>3, <2>4, Zenon
<1>7. \A n : Holders(n)' = Holders(n)
  BY <1>1 DEF Holders
<1>8. OneGiver'
  BY <1>6, <1>7, Zenon DEF OneGiver
<1> QED  BY <1>4, <1>5, <1>8, Zenon DEF FilesInv

\* A call is made that gives at most one name, to one entity.
LEMMA TurnInv ==
    ASSUME FilesInv, NEW t \in Threads, NEW call, NEW more \in Seq(Calls),
           Turn(t, call, more), \A i \in DOMAIN more : more[i][1] # "make",
           db' \in Indexes, DiskOK', IdsOK', id' \in [Threads -> Stored], NoName',
           \A u \in Threads \ {t} : id'[u] = id[u],
           todo'[t] = <<>> \/ Len(id'[t]) = 1 \/ id'[t] = id[t],
           \A n \in Files \ shared' :
               \/ Holders(n)' \subseteq Holders(n)
               \/ Gives(Head(todo[t]), n) /\ \E x : Holders(n)' \subseteq {x}
    PROVE  FilesInv'
<1>1. /\ todo[t] # <<>> /\ todo' = [todo EXCEPT ![t] = more \o Tail(@)]
      /\ shared' = shared \cup Given(more)
      /\ UNCHANGED <<ops, overlaps, unlinked, stray>>
  BY DEF Turn, Due
<1>2. id \in [Threads -> Stored] /\ todo \in [Threads -> Seq(Calls)] /\ OneGiver
  BY InvParts
<1>3. todo'[t] = more \o Tail(todo[t]) /\ \A u \in Threads \ {t} : todo'[u] = todo[u]
  BY <1>1, <1>2
<1>4. PICK s, r : s = todo[t] /\ r = more \o Tail(s)
  OBVIOUS
<1>5. s \in Seq(Calls) /\ s # <<>>
  BY <1>1, <1>2, <1>4
<1>6. /\ r \in Seq(Calls) /\ TokensOf(r) \subseteq TokensOf(more) \cup TokensOf(s)
      /\ \A n : ~GivenIn(more, n) =>
            /\ GivenIn(r, n) => GivenIn(s, n)
            /\ Once(s, n) => Once(r, n)
            /\ Once(s, n) /\ Gives(Head(s), n) => ~GivenIn(r, n)
  BY <1>4, <1>5, NextCalls
<1>7. StateTypes'
  <2>1. todo' \in [Threads -> Seq(Calls)]
    BY <1>1, <1>2, <1>4, <1>6
  <2>2. shared' \subseteq Files
    BY <1>1 DEF FilesInv, StateTypes, Given
  <2>3. /\ ops' \in 0..MaxOps /\ overlaps' \in 0..MaxOverlaps
        /\ unlinked' \subseteq Tokens /\ stray' \in BOOLEAN
    BY <1>1 DEF FilesInv, StateTypes
  <2>4. mixed' \subseteq Tokens
    <3>1. mixed' = IF GivesName(more) THEN mixed \cup TokensOf(id[t])
                   ELSE IF call = "remove" /\ Len(id[t]) > 1
                   THEN mixed \cup TokensOf(id[t]) \cup {Head(todo[t])[3]} ELSE mixed
      BY Zenon DEF Turn
    <3>2. mixed \subseteq Tokens /\ TokensOf(id[t]) \subseteq Tokens
      BY <1>2, InvParts, TextTokens DEF Stored
    <3>3. call = "remove" => Head(todo[t])[3] \in Tokens
      <4>1. Head(s) \in Calls
        BY <1>5, NextCalls
      <4>2. Head(s)[1] = call
        BY <1>4 DEF Turn, Due
      <4>3. call = "remove" => Head(s) \in {"remove"} \X Tokens \X Tokens
        BY <4>1, <4>2, CallParts
      <4> QED  BY <1>4, <4>3
    <3> QED  BY <3>1, <3>2, <3>3
  <2> QED  BY <2>1, <2>2, <2>3, <2>4, Zenon DEF StateTypes
<1>8. ASSUME NEW n \in Files \ shared'
      PROVE  ~GivenIn(more, n) /\ <<"set", "name", n>> \notin TokensOf(more)
  <2>1. <<"set", "name", n>> \notin TokensOf(more)
    BY <1>1, <1>8 DEF Given
  <2>2. \A i \in DOMAIN more : ~Gives(more[i], n)
    BY <2>1 DEF Gives, TokensOf
  <2> QED  BY <2>1, <2>2 DEF GivenIn
<1>9. ASSUME NEW n \in Files \ shared'
      PROVE  /\ \A u, w \in Threads : GivenIn(todo'[u], n) /\ GivenIn(todo'[w], n) => u = w
             /\ \A u \in Threads :
                   /\ Once(todo'[u], n)
                   /\ GivenIn(todo'[u], n) => Holders(n)' = {}
                   /\ <<"set", "name", n>> \in TokensOf(todo'[u]) => Len(id'[u]) = 1
             /\ \A x, y \in Holders(n)' : x = y
  <2>1. /\ \A u, w \in Threads : GivenIn(todo[u], n) /\ GivenIn(todo[w], n) => u = w
        /\ \A u \in Threads :
              /\ Once(todo[u], n)
              /\ GivenIn(todo[u], n) => Holders(n) = {}
              /\ <<"set", "name", n>> \in TokensOf(todo[u]) => Len(id[u]) = 1
        /\ \A x, y \in Holders(n) : x = y
    BY <1>1, <1>2 DEF OneGiver
  <2>2. /\ GivenIn(r, n) => GivenIn(s, n)
        /\ Once(s, n) => Once(r, n)
        /\ Once(s, n) /\ Gives(Head(s), n) => ~GivenIn(r, n)
    BY <1>6, <1>8, Zenon
  <2>3. todo'[t] = r /\ todo[t] = s /\ \A u \in Threads : u # t => todo'[u] = todo[u] /\ id'[u] = id[u]
    BY <1>3, <1>4
  <2>4. \A u \in Threads : GivenIn(todo'[u], n) => GivenIn(todo[u], n)
    BY <2>2, <2>3, Zenon
  <2>5. \A u \in Threads : Once(todo'[u], n)
    BY <2>1, <2>2, <2>3, Zenon
  <2>6. ASSUME NEW u \in Threads, <<"set", "name", n>> \in TokensOf(todo'[u])
        PROVE  Len(id'[u]) = 1
    <3>1. CASE u # t
      BY <2>1, <2>3, <2>6, <3>1, Zenon
    <3>2. CASE u = t
      <4>1. <<"set", "name", n>> \in TokensOf(s)
        BY <1>6, <1>8, <2>3, <2>6, <3>2
      <4>2. TokensOf(<<>>) = {}
        BY DEF TokensOf
      <4>3. todo'[t] # <<>>
        BY <2>6, <3>2, <4>2
      <4> QED  BY <2>1, <2>3, <3>2, <4>1, <4>3, Zenon
    <3> QED  BY <3>1, <3>2
  <2>7. CASE Holders(n)' \subseteq Holders(n)
    <3>1. \A x, y \in Holders(n)' : x = y
      BY <2>1, <2>7
    <3>2. \A u \in Threads : GivenIn(todo'[u], n) => Holders(n)' = {}
      BY <2>1, <2>4, <2>7
    <3> QED  BY <2>1, <2>4, <2>5, <2>6, <3>1, <3>2, Zenon
  <2>8. CASE Gives(Head(todo[t]), n) /\ \E x : Holders(n)' \subseteq {x}
    <3>1. \A x, y \in Holders(n)' : x = y
      BY <2>8
    <3>2. GivenIn(s, n) /\ ~GivenIn(r, n)
      <4>1. 1 \in DOMAIN s /\ Head(s) = s[1]
        BY <1>5, LenProperties, EmptySeq
      <4>2. Gives(s[1], n)
        BY <1>4, <2>8, <4>1
      <4> QED  BY <1>4, <2>1, <2>2, <2>8, <4>1, <4>2, Zenon DEF GivenIn
    <3>3. \A u \in Threads : ~GivenIn(todo'[u], n)
      BY <2>1, <2>3, <2>4, <3>2, Zenon
    <3> QED  BY <2>5, <2>6, <3>1, <3>3, Zenon
  <2> QED  BY <2>7, <2>8, Zenon
<1>10. OneGiver'
  BY <1>9, Zenon DEF OneGiver
<1> QED  BY <1>7, <1>10, Zenon DEF FilesInv
-------------------------------------------------------------------------------
(* The operations start. *)

LEMMA FileIdOK ==
    ASSUME FilesInv, NEW n \in Files
    PROVE  /\ Lookup(<<"name">>, <<n>>) \in Stored
           /\ "name" \notin TokensOf(Lookup(<<"name">>, <<n>>))
           /\ TokensOf(Lookup(<<"name">>, <<n>>)) \subseteq Tokens
           /\ Len(Lookup(<<"name">>, <<n>>)) \in Nat \ {0}
<1>1. db \in Indexes /\ "name" \notin TokensOf(NameField(db, n))
  BY InvParts DEF NoName
<1>2. TokensOf(Lookup(<<"name">>, <<n>>)) \subseteq TokensOf(NameField(db, n)) \cup {Null}
  BY <1>1, LookupStored DEF NameField
<1>3. "name" # Null
  BY FilesAssumption
<1> QED  BY <1>1, <1>2, <1>3, LookupStored, LookupTokens

LEMMA NoFileId ==
    <<Null>> \in Stored /\ "name" \notin TokensOf(<<Null>>)
<1>1. PICK e : e = <<Null>>
  OBVIOUS
<1>2. e \in Text /\ e # <<>> /\ TokensOf(e) = {Null}
  BY <1>1, TokensAssumption DEF Text, TokensOf
<1>3. "name" # Null
  BY FilesAssumption
<1> QED  BY <1>1, <1>2, <1>3 DEF Stored

LEMMA ReceiveInv ==
    ASSUME FilesInv, NEW t \in Threads, NEW n \in Files, Receive(t, n)
    PROVE  FilesInv'
<1> DEFINE c1 == <<"make", "name", n>>
           c2 == <<"set", "ext", Type[n]>>
           c3 == <<"set", "server", "test1">>
           c4 == <<"set", "location", "test2">>
           c5 == <<"set", "file_path", n>>
           c6 == <<"set", "experiment_id", Experiment>>
           c7 == <<"process", n>>
<1>1. n \in Tokens /\ Type[n] \in Tokens
  BY FilesAssumption
<1>2. {c1, c2, c3, c4, c5, c6, c7} \subseteq Calls
  <2>1. c1 \in Calls /\ c7 \in Calls
    BY <1>1 DEF Calls
  <2>2. c2 \in SetCalls /\ c3 \in SetCalls /\ c4 \in SetCalls /\ c5 \in SetCalls /\ c6 \in SetCalls
    BY <1>1, FilesAssumption DEF SetCalls
  <2> QED  BY <2>1, <2>2, SetCallsAre
<1>3. \A m : /\ Gives(c1, m) <=> m = n
             /\ ~Gives(c2, m) /\ ~Gives(c3, m) /\ ~Gives(c4, m)
             /\ ~Gives(c5, m) /\ ~Gives(c6, m) /\ ~Gives(c7, m)
             /\ \A c \in {c1, c2, c3, c4, c5, c6, c7} : c # <<"set", "name", m>>
  BY DEF Gives
<1>4. Start(t, <<Null>>, <<c1, c2, c3, c4, c5, c6, c7>>)
  BY Zenon DEF Receive
<1> HIDE DEF c1, c2, c3, c4, c5, c6, c7
<1>5. PICK calls, fileid : calls = <<c1, c2, c3, c4, c5, c6, c7>> /\ fileid = <<Null>>
  OBVIOUS
<1>6. /\ calls \in Seq(Calls) /\ DOMAIN calls = 1..7
      /\ calls[1] = c1 /\ calls[2] = c2 /\ calls[3] = c3 /\ calls[4] = c4
      /\ calls[5] = c5 /\ calls[6] = c6 /\ calls[7] = c7
  BY <1>2, <1>5
<1>7. \A i \in 1..7 : i = 1 \/ calls[i] \in {c2, c3, c4, c5, c6, c7}
  BY <1>6
<1>8. \A m : Once(calls, m) /\ (GivenIn(calls, m) => m = n)
             /\ <<"set", "name", m>> \notin TokensOf(calls)
  <2> TAKE m
  <2>1. \A i \in 1..7 : i # 1 => ~Gives(calls[i], m)
    BY <1>3, <1>7
  <2>2. Once(calls, m)
    BY <1>6, <2>1 DEF Once
  <2>3. GivenIn(calls, m) => m = n
    BY <1>3, <1>6, <2>1 DEF GivenIn
  <2>4. \A i \in 1..7 : calls[i] # <<"set", "name", m>>
    BY <1>3, <1>6, <1>7
  <2>5. <<"set", "name", m>> \notin TokensOf(calls)
    BY <1>6, <2>4 DEF TokensOf
  <2> QED  BY <2>2, <2>3, <2>5
<1>9. fileid \in Stored /\ "name" \notin TokensOf(fileid)
  BY <1>5, NoFileId
<1>10. shared' = (IF Taken(n) THEN shared \cup {n} ELSE shared) /\ shared \subseteq Files
  BY DEF Receive, FilesInv, StateTypes
<1>11. DiskOK' /\ unlinked' \subseteq Tokens /\ stray' \in BOOLEAN
  <2>1. DiskOK
    BY InvParts
  <2>2. DiskOK'
    BY <2>1 DEF DiskOK, Receive, Paths
  <2> QED  BY <2>2 DEF Receive, FilesInv, StateTypes
<1>12. Start(t, fileid, calls)
  BY <1>4, <1>5, Zenon
<1>13. \A m \in Files \ shared' :
          /\ Once(calls, m) /\ (GivenIn(calls, m) => ~Taken(m))
          /\ <<"set", "name", m>> \in TokensOf(calls) => Len(fileid) = 1
  BY <1>8, <1>10, Zenon
<1> QED  BY <1>6, <1>9, <1>10, <1>11, <1>12, <1>13, StartInv

LEMMA CreateInv ==
    ASSUME FilesInv, NEW t \in Threads, NEW dir \in Dirs, NEW n \in Files, Create(t, dir, n)
    PROVE  FilesInv'
<1> DEFINE c1 == <<"make", "name", n>>
           c2 == <<"set", "server", Server>>
           c3 == <<"set", "ext", Type[n]>>
           c4 == <<"process", Empty>>
           c5 == <<"map", dir, n>>
<1>1. n \in Tokens /\ Type[n] \in Tokens
  BY FilesAssumption
<1>2. {c1, c2, c3, c4, c5} \subseteq Calls
  <2>1. c1 \in Calls /\ c4 \in Calls /\ c5 \in Calls
    BY <1>1, TokensAssumption DEF Calls
  <2>2. c2 \in SetCalls /\ c3 \in SetCalls
    BY <1>1, FilesAssumption DEF SetCalls
  <2> QED  BY <2>1, <2>2, SetCallsAre
<1>3. \A m : /\ Gives(c1, m) <=> m = n
             /\ ~Gives(c2, m) /\ ~Gives(c3, m) /\ ~Gives(c4, m) /\ ~Gives(c5, m)
             /\ \A c \in {c1, c2, c3, c4, c5} : c # <<"set", "name", m>>
  BY DEF Gives
<1>4. PICK fileid : fileid = Lookup(<<"name">>, <<n>>)
  OBVIOUS
<1>5. /\ Start(t, fileid, (IF fileid = <<Null>> THEN <<c1, c2, c3>> ELSE <<>>) \o <<c4, c5>>)
      /\ shared' = IF fileid = <<Null>> /\ Taken(n) THEN shared \cup {n} ELSE shared
      /\ UNCHANGED <<disk, unlinked, stray>>
  BY <1>4, Zenon DEF Create
<1> HIDE DEF c1, c2, c3, c4, c5
<1>6. PICK a, b : a = (IF fileid = <<Null>> THEN <<c1, c2, c3>> ELSE <<>>) /\ b = <<c4, c5>>
  OBVIOUS
<1>7. /\ a \in Seq(Calls) /\ b \in Seq(Calls) /\ Len(b) = 2 /\ b[1] = c4 /\ b[2] = c5
      /\ IF fileid = <<Null>> THEN Len(a) = 3 /\ a[1] = c1 /\ a[2] = c2 /\ a[3] = c3
         ELSE Len(a) = 0
  BY <1>2, <1>6
<1>8. PICK calls : calls = a \o b
  OBVIOUS
<1>9. /\ calls \in Seq(Calls) /\ Len(calls) = Len(a) + Len(b)
      /\ \A i \in 1..Len(a) + Len(b) : calls[i] = IF i <= Len(a) THEN a[i] ELSE b[i - Len(a)]
  BY <1>7, <1>8, ConcatProperties
<1>10. DOMAIN calls = 1..(Len(a) + 2)
  BY <1>7, <1>9, LenProperties
<1>11. \A i \in DOMAIN calls : \/ i = 1 /\ fileid = <<Null>> /\ calls[i] = c1
                               \/ calls[i] \in {c2, c3, c4, c5}
  <2>1. CASE fileid = <<Null>>
    <3>1. Len(a) = 3 /\ a[1] = c1 /\ a[2] = c2 /\ a[3] = c3
      BY <1>7, <2>1, Zenon
    <3>2. DOMAIN calls = 1..5 /\ \A i \in 1..5 : calls[i] = IF i <= 3 THEN a[i] ELSE b[i - 3]
      BY <1>7, <1>9, <1>10, <3>1
    <3>3. /\ calls[1] = c1 /\ calls[2] = c2 /\ calls[3] = c3
          /\ calls[4] = c4 /\ calls[5] = c5
      BY <1>7, <3>1, <3>2
    <3>4. \A i \in 1..5 : i = 1 \/ i = 2 \/ i = 3 \/ i = 4 \/ i = 5
      OBVIOUS
    <3> QED  BY <2>1, <3>2, <3>3, <3>4, Zenon
  <2>2. CASE fileid # <<Null>>
    <3>1. Len(a) = 0
      BY <1>7, <2>2, Zenon
    <3>2. DOMAIN calls = 1..2 /\ calls[1] = c4 /\ calls[2] = c5
      BY <1>7, <1>9, <1>10, <3>1
    <3> QED  BY <3>2
  <2> QED  BY <2>1, <2>2
<1>12. \A m : Once(calls, m) /\ (GivenIn(calls, m) => m = n /\ fileid = <<Null>>)
              /\ <<"set", "name", m>> \notin TokensOf(calls)
  <2> TAKE m
  <2>1. \A i \in DOMAIN calls : Gives(calls[i], m) => i = 1 /\ m = n /\ fileid = <<Null>>
    BY <1>3, <1>11
  <2>2. Once(calls, m)
    BY <2>1 DEF Once
  <2>3. GivenIn(calls, m) => m = n /\ fileid = <<Null>>
    BY <2>1 DEF GivenIn
  <2>4. \A i \in DOMAIN calls : calls[i] # <<"set", "name", m>>
    BY <1>3, <1>11
  <2>5. <<"set", "name", m>> \notin TokensOf(calls)
    BY <2>4 DEF TokensOf
  <2> QED  BY <2>2, <2>3, <2>5
<1>13. fileid \in Stored /\ "name" \notin TokensOf(fileid)
  BY <1>4, FileIdOK
<1>14. /\ DiskOK' /\ unlinked' \subseteq Tokens /\ stray' \in BOOLEAN
       /\ shared \subseteq shared' /\ shared' \subseteq Files
  <2>1. DiskOK
    BY InvParts
  <2>2. DiskOK'
    BY <1>5, <2>1 DEF DiskOK
  <2> QED  BY <1>5, <2>2 DEF FilesInv, StateTypes
<1>15. Start(t, fileid, calls)
  BY <1>5, <1>6, <1>8, Zenon
<1>16. \A m \in Files \ shared' :
          /\ Once(calls, m) /\ (GivenIn(calls, m) => ~Taken(m))
          /\ <<"set", "name", m>> \in TokensOf(calls) => Len(fileid) = 1
  <2> TAKE m \in Files \ shared'
  <2>1. GivenIn(calls, m) => ~Taken(m)
    BY <1>5, <1>12, Zenon
  <2> QED  BY <1>12, <2>1, Zenon
<1> QED  BY <1>9, <1>13, <1>14, <1>15, <1>16, StartInv

\* Operations that give no name.
LEMMA GivesNothing ==
    ASSUME NEW calls, \A i \in DOMAIN calls : calls[i][1] \notin {"make", "set"}, NEW m
    PROVE  Once(calls, m) /\ ~GivenIn(calls, m) /\ <<"set", "name", m>> \notin TokensOf(calls)
<1>1. \A i \in DOMAIN calls : ~Gives(calls[i], m)
  BY GivesTag, Zenon
<1>2. \A i \in DOMAIN calls : calls[i] # <<"set", "name", m>>
  OBVIOUS
<1> QED  BY <1>1, <1>2 DEF Once, GivenIn, TokensOf

LEMMA FlushInv ==
    ASSUME FilesInv, NEW t \in Threads, NEW n \in Files, Flush(t, n)
    PROVE  FilesInv'
<1>1. PICK fileid, calls : fileid = Lookup(<<"name">>, <<n>>) /\ calls = <<<<"flush">>>>
  OBVIOUS
<1>2. Start(t, fileid, calls) /\ UNCHANGED <<disk, shared, unlinked, stray>>
  BY <1>1, Zenon DEF Flush
<1>3. <<"flush">> \in Calls
  BY DEF Calls
<1>4. calls \in Seq(Calls) /\ \A i \in DOMAIN calls : calls[i][1] \notin {"make", "set"}
  BY <1>1, <1>3
<1>5. fileid \in Stored /\ "name" \notin TokensOf(fileid)
  BY <1>1, FileIdOK
<1>6. /\ DiskOK' /\ unlinked' \subseteq Tokens /\ stray' \in BOOLEAN
      /\ shared \subseteq shared' /\ shared' \subseteq Files
  BY <1>2 DEF FilesInv, StateTypes, DiskOK
<1>7. \A m \in Files \ shared' :
          /\ Once(calls, m) /\ (GivenIn(calls, m) => ~Taken(m))
          /\ <<"set", "name", m>> \in TokensOf(calls) => Len(fileid) = 1
  BY <1>4, GivesNothing, Zenon
<1> QED  BY <1>2, <1>4, <1>5, <1>6, <1>7, StartInv

LEMMA UnlinkInv ==
    ASSUME FilesInv, NEW t \in Threads, NEW n \in Files, Unlink(t, n)
    PROVE  FilesInv'
<1>1. PICK fileid, calls : /\ fileid = Lookup(<<"name">>, <<n>>)
                           /\ calls = <<<<"unlink", n>>, <<"delete", n>>>>
  OBVIOUS
<1>2. /\ Start(t, fileid, calls) /\ unlinked' = unlinked \cup TokensOf(fileid)
      /\ UNCHANGED <<disk, shared, stray>>
  BY <1>1, Zenon DEF Unlink
<1>3. <<"unlink", n>> \in Calls /\ <<"delete", n>> \in Calls
  BY DEF Calls
<1>4. calls \in Seq(Calls) /\ \A i \in DOMAIN calls : calls[i][1] \notin {"make", "set"}
  <2>1. PICK x, y : x = <<"unlink", n>> /\ y = <<"delete", n>>
    OBVIOUS
  <2>2. calls = <<x, y>> /\ x[1] = "unlink" /\ y[1] = "delete" /\ x \in Calls /\ y \in Calls
    BY <1>1, <1>3, <2>1
  <2>3. calls \in Seq(Calls) /\ \A i \in DOMAIN calls : calls[i] \in {x, y}
    BY <2>2
  <2> QED  BY <2>2, <2>3
<1>5. fileid \in Stored /\ "name" \notin TokensOf(fileid) /\ TokensOf(fileid) \subseteq Tokens
  BY <1>1, FileIdOK
<1>6. /\ DiskOK' /\ unlinked' \subseteq Tokens /\ stray' \in BOOLEAN
      /\ shared \subseteq shared' /\ shared' \subseteq Files
  BY <1>2, <1>5 DEF FilesInv, StateTypes, DiskOK
<1>7. \A m \in Files \ shared' :
          /\ Once(calls, m) /\ (GivenIn(calls, m) => ~Taken(m))
          /\ <<"set", "name", m>> \in TokensOf(calls) => Len(fileid) = 1
  BY <1>4, GivesNothing, Zenon
<1> QED  BY <1>2, <1>4, <1>5, <1>6, <1>7, StartInv

LEMMA RenameInv ==
    ASSUME FilesInv, NEW t \in Threads, NEW dir \in Dirs, NEW n \in Files, NEW m \in Files,
           Rename(t, n, dir, m)
    PROVE  FilesInv'
<1>1. PICK fileid, c1, c2, c3 : /\ fileid = Lookup(<<"name">>, <<n>>)
                                /\ c1 = <<"remove", "name", n>> /\ c2 = <<"set", "name", m>>
                                /\ c3 = <<"locate", n, dir, m>>
  OBVIOUS
<1>2. PICK calls : calls = <<c1, c2, c3>>
  OBVIOUS
<1>3. /\ Start(t, fileid, calls)
      /\ shared' = IF Taken(m) \/ Len(fileid) > 1 THEN shared \cup {m} ELSE shared
      /\ UNCHANGED <<disk, unlinked, stray>>
  BY <1>1, <1>2, Zenon DEF Rename
<1>4. c1 \in Calls /\ c2 \in Calls /\ c3 \in Calls
  <2>1. n \in Tokens /\ m \in Tokens /\ "name" \in Tokens
    BY FilesAssumption
  <2> QED  BY <1>1, <2>1 DEF Calls, SetCalls
<1>5. calls \in Seq(Calls) /\ DOMAIN calls = 1..3 /\ calls[1] = c1 /\ calls[2] = c2 /\ calls[3] = c3
  BY <1>2, <1>4
<1>6. \A x : /\ Gives(c2, x) <=> x = m
             /\ ~Gives(c1, x) /\ ~Gives(c3, x)
             /\ c1 # <<"set", "name", x>> /\ c3 # <<"set", "name", x>>
             /\ c2 = <<"set", "name", x>> => x = m
  BY <1>1 DEF Gives
<1>7. \A x : Once(calls, x) /\ (GivenIn(calls, x) => x = m)
             /\ (<<"set", "name", x>> \in TokensOf(calls) => x = m)
  <2> TAKE x
  <2>1. \A i \in 1..3 : Gives(calls[i], x) => i = 2 /\ x = m
    BY <1>5, <1>6
  <2>2. \A i \in 1..3 : calls[i] = <<"set", "name", x>> => x = m
    BY <1>5, <1>6
  <2>3. Once(calls, x) /\ (GivenIn(calls, x) => x = m)
    BY <1>5, <2>1 DEF Once, GivenIn
  <2>4. <<"set", "name", x>> \in TokensOf(calls) => x = m
    BY <1>5, <2>2 DEF TokensOf
  <2> QED  BY <2>3, <2>4
<1>8. fileid \in Stored /\ "name" \notin TokensOf(fileid) /\ Len(fileid) \in Nat \ {0}
  BY <1>1, FileIdOK
<1>9. /\ DiskOK' /\ unlinked' \subseteq Tokens /\ stray' \in BOOLEAN
      /\ shared \subseteq shared' /\ shared' \subseteq Files
  BY <1>3 DEF FilesInv, StateTypes, DiskOK
<1>10. \A x \in Files \ shared' :
          /\ Once(calls, x) /\ (GivenIn(calls, x) => ~Taken(x))
          /\ <<"set", "name", x>> \in TokensOf(calls) => Len(fileid) = 1
  <2> TAKE x \in Files \ shared'
  <2>1. x = m => ~Taken(m) /\ ~(Len(fileid) > 1)
    BY <1>3, Zenon
  <2>2. ~(Len(fileid) > 1) => Len(fileid) = 1
    <3>1. \A k \in Nat \ {0} : ~(k > 1) => k = 1
      OBVIOUS
    <3> QED  BY <1>8, <3>1, Zenon
  <2> QED  BY <1>7, <2>1, <2>2, Zenon
<1> QED  BY <1>3, <1>5, <1>8, <1>9, <1>10, StartInv

LEMMA PutOnDiskInv ==
    ASSUME FilesInv, NEW t \in Threads, NEW path, NEW inode \in Files \cup {Node},
           PutOnDisk(t, path, inode)
    PROVE  FilesInv'
<1>1. PICK fileid, calls : fileid = id[t] /\ calls = <<>>
  OBVIOUS
<1>2. Start(t, fileid, calls) /\ UNCHANGED <<shared, unlinked>>
  BY <1>1, Zenon DEF PutOnDisk
<1>3. fileid \in Stored /\ "name" \notin TokensOf(fileid)
  BY <1>1, InvParts DEF NoName
<1>4. calls \in Seq(Calls) /\ \A i \in DOMAIN calls : calls[i][1] \notin {"make", "set"}
  BY <1>1
<1>5. DiskOK'
  <2>1. DiskOK
    BY InvParts
  <2> QED  BY <2>1 DEF PutOnDisk, DiskOK
<1>6. /\ unlinked' \subseteq Tokens /\ stray' \in BOOLEAN
      /\ shared \subseteq shared' /\ shared' \subseteq Files
  BY <1>2 DEF FilesInv, StateTypes, PutOnDisk
<1>7. \A m \in Files \ shared' :
          /\ Once(calls, m) /\ (GivenIn(calls, m) => ~Taken(m))
          /\ <<"set", "name", m>> \in TokensOf(calls) => Len(fileid) = 1
  BY <1>4, GivesNothing, Zenon
<1> QED  BY <1>2, <1>3, <1>4, <1>5, <1>6, <1>7, StartInv
-------------------------------------------------------------------------------
(* The calls are made. *)

LEMMA ProceedParts ==
    ASSUME FilesInv, NEW t \in Threads, NEW call, NEW more, Proceed(t, call, more)
    PROVE  /\ Turn(t, call, more) /\ todo[t] # <<>> /\ todo[t] \in Seq(Calls)
           /\ Head(todo[t]) \in Calls /\ Head(todo[t])[1] = call
           /\ id[t] \in Stored /\ "name" \notin TokensOf(id[t])
           /\ id' \in [Threads -> Stored] /\ \A u \in Threads \ {t} : id'[u] = id[u]
           /\ todo'[t] = <<>> \/ id'[t] = id[t]
           /\ \A u \in Threads : "name" \notin TokensOf(id'[u])
<1>1. id \in [Threads -> Stored] /\ todo \in [Threads -> Seq(Calls)] /\ NoName
  BY InvParts
<1>2. /\ Turn(t, call, more) /\ todo[t] # <<>> /\ Head(todo[t])[1] = call
      /\ id' = IF todo'[t] = <<>> THEN [id EXCEPT ![t] = <<Null>>] ELSE id
  BY DEF Proceed, Turn, Due
<1>3. Head(todo[t]) \in Calls
  BY <1>1, <1>2, HeadTailProperties
<1>4. PICK e : e = <<Null>>
  OBVIOUS
<1>5. e \in Stored /\ "name" \notin TokensOf(e)
  BY <1>4, NoFileId, Zenon
<1>6. id' = IF todo'[t] = <<>> THEN [id EXCEPT ![t] = e] ELSE id
  BY <1>2, <1>4, Zenon
<1>7. \A u \in Threads : "name" \notin TokensOf(id[u])
  BY <1>1 DEF NoName
<1>8. CASE todo'[t] = <<>>
  <2>1. id' = [id EXCEPT ![t] = e]
    BY <1>6, <1>8
  <2> QED  BY <1>1, <1>2, <1>3, <1>5, <1>7, <1>8, <2>1
<1>9. CASE todo'[t] # <<>>
  <2>1. id' = id
    BY <1>6, <1>9
  <2> QED  BY <1>1, <1>2, <1>3, <1>7, <2>1
<1> QED  BY <1>8, <1>9

\* A call that does not write to the index.
LEMMA ReadTurnInv ==
    ASSUME FilesInv, NEW t \in Threads, NEW call, NEW more \in Seq(Calls),
           Proceed(t, call, more), \A i \in DOMAIN more : more[i][1] # "make",
           UNCHANGED <<db, next, named>>, DiskOK'
    PROVE  FilesInv'
<1>1. /\ Turn(t, call, more) /\ id' \in [Threads -> Stored]
      /\ \A u \in Threads \ {t} : id'[u] = id[u]
      /\ todo'[t] = <<>> \/ id'[t] = id[t]
      /\ \A u \in Threads : "name" \notin TokensOf(id'[u])
  BY ProceedParts
<1>2. db \in Indexes /\ IdsOK /\ NoName
  BY InvParts
<1>3. db' \in Indexes /\ IdsOK'
  BY <1>2 DEF IdsOK
<1>4. NoName'
  BY <1>1, <1>2 DEF NoName
<1>5. \A n : Holders(n)' = Holders(n)
  BY DEF Holders
<1>6. \A n \in Files \ shared' :
          \/ Holders(n)' \subseteq Holders(n)
          \/ Gives(Head(todo[t]), n) /\ \E x : Holders(n)' \subseteq {x}
  BY <1>5
<1>7. todo'[t] = <<>> \/ Len(id'[t]) = 1 \/ id'[t] = id[t]
  BY <1>1
<1> QED  BY <1>1, <1>3, <1>4, <1>6, <1>7, TurnInv

LEMMA DiskKept ==
    ASSUME FilesInv, UNCHANGED disk
    PROVE  DiskOK'
BY InvParts DEF DiskOK

LEMMA SetsMakeNothing ==
    ASSUME NEW more \in Seq(SetCalls)
    PROVE  more \in Seq(Calls) /\ \A i \in DOMAIN more : more[i][1] # "make"
<1>1. more \in Seq(Calls)
  BY SetCallsAre, SeqWiden
<1>2. DOMAIN more = 1..Len(more) /\ \A i \in 1..Len(more) : more[i] \in SetCalls
  BY LenProperties, ElementOfSeq
<1> QED  BY <1>1, <1>2, SetCallsAre

LEMMA ProcessFileInv ==
    ASSUME FilesInv, NEW t \in Threads, ProcessFile(t)
    PROVE  FilesInv'
<1>1. PICK more : more = Extractions(t, Head(todo[t])[2])
  OBVIOUS
<1>2. Proceed(t, "process", more) /\ UNCHANGED <<db, next, named>> /\ disk' = disk
  BY <1>1, Zenon DEF ProcessFile
<1>3. more \in Seq(SetCalls)
  BY <1>1, ExtractionCalls, InvParts
<1>4. more \in Seq(Calls) /\ \A i \in DOMAIN more : more[i][1] # "make"
  BY <1>3, SetsMakeNothing
<1> QED  BY <1>2, <1>4, DiskKept, ReadTurnInv

LEMMA FlushFileInv ==
    ASSUME FilesInv, NEW t \in Threads, FlushFile(t)
    PROVE  FilesInv'
<1>1. PICK path : path = Lookup(id[t], <<"file_path">>)
  OBVIOUS
<1>2. PICK more : more = Extractions(t, IF Len(path) = 1 THEN path[1] ELSE Null)
  OBVIOUS
<1>3. Proceed(t, "flush", more) /\ UNCHANGED <<db, next, named>> /\ disk' = disk
  BY <1>1, <1>2, Zenon DEF FlushFile
<1>4. more \in Seq(SetCalls)
  BY <1>2, ExtractionCalls, InvParts
<1>5. more \in Seq(Calls) /\ \A i \in DOMAIN more : more[i][1] # "make"
  BY <1>4, SetsMakeNothing
<1> QED  BY <1>3, <1>5, DiskKept, ReadTurnInv

LEMMA UnlinkFileInv ==
    ASSUME FilesInv, NEW t \in Threads, UnlinkFile(t)
    PROVE  FilesInv'
<1>1. PICK path : path = Lookup(Lookup(<<"name">>, <<Head(todo[t])[2]>>), <<"file_path">>)
  OBVIOUS
<1>2. PICK attrs : attrs = Lookup(Lookup(id[t], <<"ext">>), <<"attrs">>)
  OBVIOUS
<1>3. PICK x, y : x = <<"remove", "attrs", "all">> /\ y = <<"remove", "name", path[Len(path)]>>
  OBVIOUS
<1>4. PICK a, b : a = <<x>> /\ b = IF "name" \in TokensOf(attrs) THEN <<y>> ELSE <<>>
  OBVIOUS
<1>5. PICK more : more = a \o b
  OBVIOUS
<1>6. Proceed(t, "unlink", more) /\ UNCHANGED <<db, next, named>> /\ disk' = disk
  BY <1>1, <1>2, <1>3, <1>4, <1>5, Zenon DEF UnlinkFile
<1>7. path[Len(path)] \in Tokens
  BY <1>1, LookupTokens, InvParts
<1> DEFINE Removals == {"remove"} \X Tokens \X Tokens
<1>8. x \in Removals /\ y \in Removals
  BY <1>3, <1>7, FilesAssumption
<1>9. Removals \subseteq Calls /\ \A c \in Removals : c[1] = "remove"
  BY DEF Calls
<1> HIDE DEF Removals
<1>10. a \in Seq(Removals) /\ b \in Seq(Removals)
  BY <1>4, <1>8
<1>11. more \in Seq(Removals)
  BY <1>5, <1>10, ConcatProperties
<1>12. more \in Seq(Calls)
  BY <1>9, <1>11, SeqWiden
<1>13. DOMAIN more = 1..Len(more) /\ \A i \in 1..Len(more) : more[i] \in Removals
  BY <1>11, LenProperties, ElementOfSeq
<1>14. \A i \in DOMAIN more : more[i][1] # "make"
  BY <1>9, <1>13
<1> QED  BY <1>6, <1>12, <1>14, DiskKept, ReadTurnInv

LEMMA TokensPathWords ==
    ASSUME FilesInv
    PROVE  PathWords(Tokens, Tokens)
<1>1. AllAttrs \subseteq Tokens
  BY InvParts, KeysTokens DEF AllAttrs
<1> QED  BY <1>1, FilesAssumption DEF PathWords

LEMMA MapFileInv ==
    ASSUME FilesInv, NEW t \in Threads, MapFile(t)
    PROVE  FilesInv'
<1>1. PICK c : c = Head(todo[t])
  OBVIOUS
<1>2. PICK pieces : pieces = Append(c[2], Name(c[3]))
  OBVIOUS
<1>3. PICK path \in Resolve(pieces) :
          Proceed(t, "map", MapPath(path)) /\ UNCHANGED <<db, disk, next, named>>
  BY <1>1, <1>2, Zenon DEF MapFile
<1>4. c \in Calls /\ c[1] = "map"
  BY <1>1, <1>3, ProceedParts
<1>5. c[2] \in Dirs /\ c[3] \in Files
  BY <1>4, CallParts
<1>6. c[2] \in Seq(Pieces(Tokens, Tokens)) /\ Name(c[3]) \in Pieces(Tokens, Tokens)
  <2>1. c[2] \in Seq(Pieces(Tokens, Tokens))
    BY <1>5, FilesAssumption, Zenon DEF Pieces
  <2>2. c[3] \in Tokens
    BY <1>5, FilesAssumption
  <2>3. <<c[3]>> \in Seq(Tokens)
    BY <2>2
  <2>4. Name(c[3]) \in Pieces(Tokens, Tokens)
    BY <2>3 DEF Name, Pieces
  <2> QED  BY <2>1, <2>4
<1>7. pieces \in Seq(Pieces(Tokens, Tokens))
  BY <1>2, <1>6, AppendProperties
<1>8. path \in Seq(Tokens)
  BY <1>3, <1>7, ResolvedPaths, TokensPathWords DEF Selections
<1>9. PICK more : more = MapPath(path)
  OBVIOUS
<1>10. more \in Seq(SetCalls)
  <2>1. more \in Seq(SetsOf(Tokens \ {Null}))
    BY <1>8, <1>9, MapCalls
  <2>2. SetsOf(Tokens \ {Null}) \subseteq SetCalls
    BY FilesAssumption DEF SetsOf, SetCalls
  <2> QED  BY <2>1, <2>2, SeqWiden
<1>11. more \in Seq(Calls) /\ \A i \in DOMAIN more : more[i][1] # "make"
  BY <1>10, SetsMakeNothing
<1>12. Proceed(t, "map", more) /\ UNCHANGED <<db, next, named>> /\ disk' = disk
  BY <1>3, <1>9
<1> QED  BY <1>11, <1>12, DiskKept, ReadTurnInv

LEMMA LocateFileInv ==
    ASSUME FilesInv, NEW t \in Threads, LocateFile(t)
    PROVE  FilesInv'
<1>1. PICK c : c = Head(todo[t])
  OBVIOUS
<1>2. PICK x, y : /\ x = <<"map", c[3], c[4]>>
                  /\ y = <<"move", PathOf(c[2]), Lookup(id[t], <<"location">>), c[4]>>
  OBVIOUS
<1>3. PICK more : more = <<x, y>>
  OBVIOUS
<1>4. Proceed(t, "locate", more) /\ UNCHANGED <<db, next, named>> /\ disk' = disk
  BY <1>1, <1>2, <1>3, Zenon DEF LocateFile
<1>5. c \in Calls /\ c[1] = "locate"
  BY <1>1, <1>4, ProceedParts
<1>6. c[3] \in Dirs /\ c[4] \in Files
  BY <1>5, CallParts
<1>7. PathOf(c[2]) \in Tokens /\ Lookup(id[t], <<"location">>) \in Text
  BY PathTokens, LookupTokens, InvParts DEF Text
<1>8. x \in Calls /\ y \in Calls /\ x[1] = "map" /\ y[1] = "move"
  BY <1>2, <1>6, <1>7 DEF Calls
<1>9. more \in Seq(Calls) /\ \A i \in DOMAIN more : more[i] \in {x, y}
  BY <1>3, <1>8
<1>10. \A i \in DOMAIN more : more[i][1] # "make"
  BY <1>8, <1>9
<1> QED  BY <1>4, <1>9, <1>10, DiskKept, ReadTurnInv

LEMMA NoCalls ==
    <<>> \in Seq(Calls) /\ \A i \in DOMAIN <<>> : <<>>[i][1] # "make"
OBVIOUS

LEMMA MoveFileInv ==
    ASSUME FilesInv, NEW t \in Threads, MoveFile(t)
    PROVE  FilesInv'
<1>1. Proceed(t, "move", <<>>) /\ UNCHANGED <<db, next, named>>
  BY Zenon DEF MoveFile
<1>2. \E from, to : disk' = Moved(from, to) \/ disk' = disk
  BY Zenon DEF MoveFile
<1>3. DiskOK
  BY InvParts
<1>4. ASSUME NEW from, NEW to, disk' = Moved(from, to) PROVE DiskOK'
  BY <1>3, <1>4 DEF Moved, DiskOK
<1>5. DiskOK'
  BY <1>2, <1>4, DiskKept
<1>6. PICK more : more = <<>>
  OBVIOUS
<1>7. /\ Proceed(t, "move", more) /\ more \in Seq(Calls)
      /\ \A i \in DOMAIN more : more[i][1] # "make"
  BY <1>1, <1>6, NoCalls, Zenon
<1> QED  BY <1>1, <1>5, <1>7, ReadTurnInv

LEMMA DeleteFileInv ==
    ASSUME FilesInv, NEW t \in Threads, DeleteFile(t)
    PROVE  FilesInv'
<1>1. Proceed(t, "delete", <<>>) /\ UNCHANGED <<db, next, named>>
  BY Zenon DEF DeleteFile
<1>2. PICK path : disk' = [p \in DOMAIN disk \ {path} |-> disk[p]]
  BY Zenon DEF DeleteFile
<1>3. DiskOK
  BY InvParts
<1>4. DiskOK'
  BY <1>2, <1>3 DEF DiskOK
<1>5. PICK more : more = <<>>
  OBVIOUS
<1>6. /\ Proceed(t, "delete", more) /\ more \in Seq(Calls)
      /\ \A i \in DOMAIN more : more[i][1] # "make"
  BY <1>1, <1>5, NoCalls, Zenon
<1> QED  BY <1>1, <1>4, <1>6, ReadTurnInv

\* A call of setval on one entity: the name it gives, if any, is that entity's only.
LEMMA SetHolders ==
    ASSUME FilesInv, NEW f \in Stored, NEW c \in Tokens, NEW v \in Tokens,
           "name" \notin TokensOf(f), db' = Set(db, f, <<c>>, <<v>>)
    PROVE  /\ db' \in Indexes
           /\ \A n \in Files : "name" \notin TokensOf(NameField(db', n))
           /\ \A n : IF c = "name" /\ v = n
                     THEN Holders(n)' \subseteq Holders(n) \cup TokensOf(f)
                     ELSE Holders(n)' = Holders(n)
<1>1. db \in Indexes /\ NoName
  BY InvParts
<1>2. <<c>> \in Stored /\ <<v>> \in Stored
  <2>1. \A w \in Tokens : <<w>> \in Text /\ <<w>> # <<>>
    BY DEF Text
  <2> QED  BY <2>1 DEF Stored
<1>3. db' \in Indexes
  BY <1>1, <1>2, SetIndex
<1>4. \A n : IF c = "name" /\ v = n
             THEN TokensOf(NameField(db', n)) \subseteq TokensOf(NameField(db, n)) \cup TokensOf(f)
             ELSE NameField(db', n) = NameField(db, n)
  <2> TAKE n
  <2>1. /\ c = "name" /\ v = n =>
              TokensOf(NameField(Set(db, f, <<c>>, <<v>>), n))
                  \subseteq TokensOf(NameField(db, n)) \cup TokensOf(f)
        /\ ~(c = "name" /\ v = n) =>
              NameField(Set(db, f, <<c>>, <<v>>), n) = NameField(db, n)
    BY <1>1, SetName
  <2> QED  BY <2>1, Zenon
<1>5. \A n : /\ Holders(n) = TokensOf(NameField(db, n)) \ {Empty, Null}
             /\ Holders(n)' = TokensOf(NameField(db', n)) \ {Empty, Null}
  <2> TAKE n
  <2>1. Holders(n) = TokensOf(NameField(db, n)) \ {Empty, Null}
    BY <1>1, HoldersAre
  <2>2. Holders(n)' = TokensOf(NameField(db', n)) \ {Empty, Null}
    BY <1>3, HoldersAreNext
  <2> QED  BY <2>1, <2>2
<1>6. \A n : IF c = "name" /\ v = n
             THEN Holders(n)' \subseteq Holders(n) \cup TokensOf(f)
             ELSE Holders(n)' = Holders(n)
  <2> TAKE n
  <2>1. CASE c = "name" /\ v = n
    <3>1. TokensOf(NameField(db', n)) \subseteq TokensOf(NameField(db, n)) \cup TokensOf(f)
      BY <1>4, <2>1
    <3>2. Holders(n)' \subseteq Holders(n) \cup TokensOf(f)
      BY <1>5, <3>1
    <3> QED  BY <2>1, <3>2, Zenon
  <2>2. CASE ~(c = "name" /\ v = n)
    <3>1. NameField(db', n) = NameField(db, n)
      BY <1>4, <2>2, Zenon
    <3>2. Holders(n)' = Holders(n)
      BY <1>5, <3>1
    <3> QED  BY <2>2, <3>2, Zenon
  <2> QED  BY <2>1, <2>2
<1>7. \A n \in Files : "name" \notin TokensOf(NameField(db', n))
  <2> TAKE n \in Files
  <2>1. "name" \notin TokensOf(NameField(db, n))
    BY <1>1 DEF NoName
  <2>2. CASE c = "name" /\ v = n
    BY <1>4, <2>1, <2>2
  <2>3. CASE ~(c = "name" /\ v = n)
    BY <1>4, <2>1, <2>3, Zenon
  <2> QED  BY <2>2, <2>3
<1> QED  BY <1>3, <1>6, <1>7, Zenon

\* The call that gives the name n, made for one entity.
LEMMA GiverHolders ==
    ASSUME FilesInv, NEW t \in Threads, todo[t] # <<>>, NEW n \in Files \ shared,
           Gives(Head(todo[t]), n), NEW f \in Stored, Len(f) = 1,
           Holders(n)' \subseteq Holders(n) \cup TokensOf(f)
    PROVE  \E x : Holders(n)' \subseteq {x}
<1>1. todo[t] \in Seq(Calls) /\ (GivenIn(todo[t], n) => Holders(n) = {})
  BY InvParts DEF OneGiver
<1>2. 1 \in DOMAIN todo[t] /\ Head(todo[t]) = todo[t][1]
  <2>1. PICK s : s = todo[t]
    OBVIOUS
  <2>2. s \in Seq(Calls) /\ s # <<>>
    BY <1>1, <2>1
  <2>3. 1 \in DOMAIN s /\ Head(s) = s[1]
    BY <2>2, LenProperties, EmptySeq
  <2> QED  BY <2>1, <2>3, Zenon
<1>3. Holders(n) = {}
  BY <1>1, <1>2, Zenon DEF GivenIn
<1>4. TokensOf(f) = {f[1]}
  <2>1. TokensOf(f) = {f[i] : i \in 1..Len(f)}
    BY TextTokens DEF Stored
  <2> QED  BY <2>1
<1> QED  BY <1>3, <1>4

LEMMA NewEntityParts ==
    ASSUME FilesInv, NEW t \in Threads, NEW c \in Tokens, NEW v \in Tokens, NewEntity(t, c, v)
    PROVE  /\ <<Ids[next]>> \in Stored /\ Len(<<Ids[next]>>) = 1
           /\ "name" \notin TokensOf(<<Ids[next]>>)
           /\ IdsOK' /\ db' = Set(db, <<Ids[next]>>, <<c>>, <<v>>)
<1>1. IdsOK /\ next <= Len(Ids)
  BY InvParts DEF NewEntity
<1>2. Ids \in Seq(Tokens \ (Files \cup {"name"}))
  BY FilesAssumption
<1>3. Len(Ids) \in Nat /\ DOMAIN Ids = 1..Len(Ids)
  BY <1>2, LenProperties
<1>4. next \in 1..Len(Ids)
  BY <1>1, <1>3 DEF IdsOK
<1>5. Ids[next] \in Tokens /\ Ids[next] # "name"
  BY <1>2, <1>4, ElementOfSeq
<1>6. PICK e : e = <<Ids[next]>>
  OBVIOUS
<1>7. e \in Stored /\ Len(e) = 1 /\ TokensOf(e) = {Ids[next]}
  BY <1>5, <1>6 DEF Stored, Text, TokensOf
<1>8. IdsOK'
  <2>1. next' = next + 1
    BY DEF NewEntity
  <2>2. next' \in 1..(Len(Ids) + 1)
    BY <1>3, <1>4, <2>1
  <2>3. named' = [named EXCEPT ![Ids[next]] = v] \/ named' = named
    BY DEF NewEntity
  <2>4. named' \in [TokensOf(Ids) -> Tokens]
    BY <1>1, <2>3 DEF IdsOK
  <2> QED  BY <2>2, <2>4 DEF IdsOK
<1>9. db' = Set(db, <<Ids[next]>>, <<c>>, <<v>>)
  BY DEF NewEntity
<1> QED  BY <1>5, <1>6, <1>7, <1>8, <1>9

LEMMA MakeEntityInv ==
    ASSUME FilesInv, NEW t \in Threads, MakeEntity(t)
    PROVE  FilesInv'
<1>1. PICK c : c = Head(todo[t])
  OBVIOUS
<1>2. PICK more : more = <<>>
  OBVIOUS
<1>3. PICK f : f = <<Ids[next]>>
  OBVIOUS
<1>4. /\ Turn(t, "make", more) /\ disk' = disk /\ NewEntity(t, "name", c[3])
      /\ id' = [id EXCEPT ![t] = f]
  BY <1>1, <1>2, <1>3, Zenon DEF MakeEntity
<1>5. /\ todo[t] # <<>> /\ todo[t] \in Seq(Calls) /\ c[1] = "make"
      /\ id \in [Threads -> Stored] /\ NoName
  BY <1>1, <1>4, InvParts DEF Turn, Due
<1>6. c \in Calls
  BY <1>1, <1>5, HeadTailProperties
<1>7. c \in {"make"} \X {"name"} \X Files
  BY <1>5, <1>6, CallParts
<1>8. c[3] \in Tokens /\ "name" \in Tokens
  BY <1>7, FilesAssumption
<1>9. /\ f \in Stored /\ Len(f) = 1 /\ "name" \notin TokensOf(f)
      /\ IdsOK' /\ db' = Set(db, f, <<"name">>, <<c[3]>>)
  BY <1>3, <1>4, <1>8, NewEntityParts
<1>10. /\ db' \in Indexes
       /\ \A n \in Files : "name" \notin TokensOf(NameField(db', n))
       /\ \A n : IF "name" = "name" /\ c[3] = n
                 THEN Holders(n)' \subseteq Holders(n) \cup TokensOf(f)
                 ELSE Holders(n)' = Holders(n)
  BY <1>8, <1>9, SetHolders
<1>11. /\ id' \in [Threads -> Stored] /\ \A u \in Threads \ {t} : id'[u] = id[u]
       /\ Len(id'[t]) = 1 /\ NoName'
  <2>1. /\ id' \in [Threads -> Stored] /\ \A u \in Threads \ {t} : id'[u] = id[u]
        /\ id'[t] = f
    BY <1>4, <1>5, <1>9
  <2>2. \A u \in Threads : "name" \notin TokensOf(id'[u])
    BY <1>5, <1>9, <2>1 DEF NoName
  <2> QED  BY <1>9, <1>10, <2>1, <2>2 DEF NoName
<1>12. ASSUME NEW n \in Files \ shared'
       PROVE  \/ Holders(n)' \subseteq Holders(n)
              \/ Gives(Head(todo[t]), n) /\ \E x : Holders(n)' \subseteq {x}
  <2>1. n \notin shared
    BY <1>4 DEF Turn
  <2>2. CASE c[3] = n
    <3>1. Gives(c, n)
      BY <1>7, <2>2, GivesMake
    <3>2. Holders(n)' \subseteq Holders(n) \cup TokensOf(f)
      BY <1>10, <2>2
    <3>3. \E x : Holders(n)' \subseteq {x}
      BY <1>1, <1>5, <1>9, <2>1, <3>1, <3>2, GiverHolders
    <3> QED  BY <1>1, <3>1, <3>3, Zenon
  <2>3. CASE c[3] # n
    BY <1>10, <2>3
  <2> QED  BY <2>2, <2>3
<1>13. more \in Seq(Calls) /\ \A i \in DOMAIN more : more[i][1] # "make"
  BY <1>2, NoCalls, Zenon
<1>14. DiskOK'
  BY <1>4, DiskKept
<1>15. todo'[t] = <<>> \/ Len(id'[t]) = 1 \/ id'[t] = id[t]
  BY <1>11
<1> QED  BY <1>4, <1>9, <1>10, <1>11, <1>12, <1>13, <1>14, <1>15, TurnInv

LEMMA SetValInv ==
    ASSUME FilesInv, NEW t \in Threads, SetVal(t)
    PROVE  FilesInv'
<1>1. PICK call : call = Head(todo[t])
  OBVIOUS
<1>2. PICK c, v : c = call[2] /\ v = call[3]
  OBVIOUS
<1>3. PICK more : more = <<>>
  OBVIOUS
<1>4. /\ Proceed(t, "set", more) /\ disk' = disk
      /\ IF id[t] = <<Null>> THEN NewEntity(t, c, v)
         ELSE /\ db' = Set(db, id[t], <<c>>, <<v>>)
              /\ named' = IF c = "name" /\ Len(id[t]) = 1
                          THEN [named EXCEPT ![id[t][1]] = v] ELSE named
              /\ UNCHANGED next
  BY <1>1, <1>2, <1>3, Zenon DEF SetVal
<1>5. /\ Turn(t, "set", more) /\ todo[t] # <<>> /\ todo[t] \in Seq(Calls)
      /\ call \in Calls /\ call[1] = "set"
      /\ id[t] \in Stored /\ "name" \notin TokensOf(id[t])
      /\ id' \in [Threads -> Stored] /\ \A u \in Threads \ {t} : id'[u] = id[u]
      /\ todo'[t] = <<>> \/ id'[t] = id[t]
      /\ \A u \in Threads : "name" \notin TokensOf(id'[u])
  BY <1>1, <1>4, ProceedParts
<1>6. call \in SetCalls
  BY <1>5, CallParts
<1>7. c \in Tokens /\ v \in Tokens
  BY <1>2, <1>6 DEF SetCalls
<1>8. PICK f : /\ f \in Stored /\ "name" \notin TokensOf(f)
               /\ IdsOK' /\ db' = Set(db, f, <<c>>, <<v>>)
               /\ Len(f) = 1 \/ f = id[t]
  <2>1. CASE id[t] = <<Null>>
    <3>1. NewEntity(t, c, v)
      BY <1>4, <2>1
    <3> QED  BY <1>7, <3>1, NewEntityParts
  <2>2. CASE id[t] # <<Null>>
    <3>1. db' = Set(db, id[t], <<c>>, <<v>>)
      BY <1>4, <2>2
    <3>2. /\ named' = [named EXCEPT ![id[t][1]] = v] \/ named' = named
          /\ next' = next
      BY <1>4, <2>2
    <3>3. IdsOK
      BY InvParts
    <3>4. named' \in [TokensOf(Ids) -> Tokens]
      BY <1>7, <3>2, <3>3 DEF IdsOK
    <3>5. IdsOK'
      BY <3>2, <3>3, <3>4 DEF IdsOK
    <3> QED  BY <1>5, <3>1, <3>5, Zenon
  <2> QED  BY <2>1, <2>2
<1>9. /\ db' \in Indexes
      /\ \A n \in Files : "name" \notin TokensOf(NameField(db', n))
      /\ \A n : IF c = "name" /\ v = n
                THEN Holders(n)' \subseteq Holders(n) \cup TokensOf(f)
                ELSE Holders(n)' = Holders(n)
  BY <1>7, <1>8, SetHolders
<1>10. NoName'
  BY <1>5, <1>9 DEF NoName
<1>11. ASSUME NEW n \in Files \ shared'
       PROVE  \/ Holders(n)' \subseteq Holders(n)
              \/ Gives(Head(todo[t]), n) /\ \E x : Holders(n)' \subseteq {x}
  <2>1. n \notin shared
    BY <1>5 DEF Turn
  <2>2. CASE c = "name" /\ v = n
    <3>1. Gives(call, n) /\ call = <<"set", "name", n>>
      <4>1. Gives(call, n)
        BY <1>2, <1>6, <2>2, GivesSet, Zenon
      <4>2. call = <<call[1], call[2], call[3]>> /\ call[1] = "set"
        BY <1>6 DEF SetCalls
      <4>3. call = <<"set", "name", n>>
        BY <1>2, <2>2, <4>2, Zenon
      <4> QED  BY <4>1, <4>3
    <3>2. Holders(n)' \subseteq Holders(n) \cup TokensOf(f)
      BY <1>9, <2>2
    <3>3. call \in TokensOf(todo[t])
      <4>1. PICK s : s = todo[t]
        OBVIOUS
      <4>2. s \in Seq(Calls) /\ s # <<>>
        BY <1>5, <4>1
      <4>3. 1 \in DOMAIN s /\ Head(s) = s[1]
        BY <4>2, LenProperties, EmptySeq
      <4> QED  BY <1>1, <4>1, <4>3, Zenon DEF TokensOf
    <3>4. OneGiver
      BY InvParts
    <3>5. Len(id[t]) = 1
      BY <2>1, <3>1, <3>3, <3>4, Zenon DEF OneGiver
    <3>6. Len(f) = 1
      BY <1>8, <3>5
    <3>7. \E x : Holders(n)' \subseteq {x}
      BY <1>1, <1>5, <1>8, <2>1, <3>1, <3>2, <3>6, GiverHolders
    <3> QED  BY <1>1, <3>1, <3>7, Zenon
  <2>3. CASE ~(c = "name" /\ v = n)
    <3>1. Holders(n)' = Holders(n)
      BY <1>9, <2>3, Zenon
    <3> QED  BY <3>1
  <2> QED  BY <2>2, <2>3
<1>12. more \in Seq(Calls) /\ \A i \in DOMAIN more : more[i][1] # "make"
  BY <1>3, NoCalls, Zenon
<1>13. DiskOK'
  BY <1>4, DiskKept
<1>14. todo'[t] = <<>> \/ Len(id'[t]) = 1 \/ id'[t] = id[t]
  BY <1>5
<1> QED  BY <1>5, <1>8, <1>9, <1>10, <1>11, <1>12, <1>13, <1>14, TurnInv

LEMMA RemoveValInv ==
    ASSUME FilesInv, NEW t \in Threads, RemoveVal(t)
    PROVE  FilesInv'
<1>1. PICK call : call = Head(todo[t])
  OBVIOUS
<1>2. PICK c, v : c = call[2] /\ v = call[3]
  OBVIOUS
<1>3. PICK more, f : more = <<>> /\ f = id[t]
  OBVIOUS
<1>4. /\ Proceed(t, "remove", more) /\ db' = Remove(db, f, <<c>>, <<v>>)
      /\ UNCHANGED <<disk, next, named>>
  BY <1>1, <1>2, <1>3, Zenon DEF RemoveVal
<1>5. /\ Turn(t, "remove", more) /\ call \in Calls /\ call[1] = "remove"
      /\ f \in Stored /\ "name" \notin TokensOf(f)
      /\ id' \in [Threads -> Stored] /\ \A u \in Threads \ {t} : id'[u] = id[u]
      /\ todo'[t] = <<>> \/ id'[t] = id[t]
      /\ \A u \in Threads : "name" \notin TokensOf(id'[u])
  BY <1>1, <1>3, <1>4, ProceedParts
<1>6. call \in {"remove"} \X Tokens \X Tokens
  BY <1>5, CallParts
<1>7. c \in Tokens /\ v \in Tokens
  BY <1>2, <1>6
<1>8. db \in Indexes /\ IdsOK /\ NoName
  BY InvParts
<1>9. db' \in Indexes
  <2>1. \A w \in Tokens : <<w>> \in Stored
    <3>1. \A w \in Tokens : <<w>> \in Text /\ <<w>> # <<>>
      BY DEF Text
    <3> QED  BY <3>1 DEF Stored
  <2> QED  BY <1>4, <1>5, <1>7, <1>8, <2>1, RemoveIndex
<1>10. \A n : TokensOf(NameField(db', n)) \subseteq TokensOf(NameField(db, n)) \cup {Null, Empty}
  <2> TAKE n
  <2>1. TokensOf(NameField(Remove(db, f, <<c>>, <<v>>), n))
            \subseteq TokensOf(NameField(db, n)) \cup {Null, Empty}
    BY <1>5, <1>7, <1>8, RemoveName
  <2> QED  BY <1>4, <2>1, Zenon
<1>11. NoName'
  <2>1. "name" \notin {Null, Empty}
    BY FilesAssumption
  <2>2. \A n \in Files : "name" \notin TokensOf(NameField(db', n))
    BY <1>8, <1>10, <2>1 DEF NoName
  <2> QED  BY <1>5, <2>2 DEF NoName
<1>12. ASSUME NEW n PROVE Holders(n)' \subseteq Holders(n)
  <2>1. Holders(n) = TokensOf(NameField(db, n)) \ {Empty, Null}
    BY <1>8, HoldersAre
  <2>2. Holders(n)' = TokensOf(NameField(db', n)) \ {Empty, Null}
    BY <1>9, HoldersAreNext
  <2>3. TokensOf(NameField(db', n)) \subseteq TokensOf(NameField(db, n)) \cup {Null, Empty}
    BY <1>10
  <2> QED  BY <2>1, <2>2, <2>3
<1>13. more \in Seq(Calls) /\ \A i \in DOMAIN more : more[i][1] # "make"
  BY <1>3, NoCalls, Zenon
<1>14. DiskOK' /\ IdsOK'
  BY <1>4, <1>8, DiskKept DEF IdsOK
<1>15. todo'[t] = <<>> \/ Len(id'[t]) = 1 \/ id'[t] = id[t]
  BY <1>5
<1>16. \A n \in Files \ shared' :
          \/ Holders(n)' \subseteq Holders(n)
          \/ Gives(Head(todo[t]), n) /\ \E x : Holders(n)' \subseteq {x}
  BY <1>12
<1> QED  BY <1>5, <1>9, <1>11, <1>13, <1>14, <1>15, <1>16, TurnInv
-------------------------------------------------------------------------------
\* The start: process_transducers gives nobody a name.
Unnamed == {d \in Indexes : \A n \in Files : NameField(d, n) = <<>>}
LoadSteps(g, m) ==
    g = [i \in 0..m |-> IF i = 0 THEN << >>
                        ELSE Set(g[i - 1], <<Known>>, <<"attrs">>, <<AttrNames[i]>>)]

LEMMA NothingStored == << >> \in Unnamed
<1>1. PICK d : d = << >>
  OBVIOUS
<1>2. DOMAIN d = {} /\ d = [k \in DOMAIN d |-> d[k]]
  BY <1>1
<1>3. d \in Indexes
  BY <1>2, IndexParts
<1>4. \A n : NameField(d, n) = <<>>
  BY <1>2 DEF NameField, At
<1> QED  BY <1>1, <1>3, <1>4 DEF Unnamed

LEMMA LoadOne ==
    ASSUME NEW d \in Unnamed, NEW i \in 1..Len(AttrNames)
    PROVE  Set(d, <<Known>>, <<"attrs">>, <<AttrNames[i]>>) \in Unnamed
<1>1. AttrNames[i] \in Tokens /\ "attrs" \in Tokens /\ Known \in Tokens /\ Known # "name"
  <2>1. AttrNames \in Seq(Tokens)
    BY FilesAssumption DEF AttrNames
  <2>2. AttrNames[i] \in Tokens
    BY <2>1, ElementOfSeq
  <2> QED  BY <2>2, FilesAssumption
<1>2. PICK f, c, v, a, x : /\ f = <<Known>> /\ c = <<"attrs">> /\ v = <<AttrNames[i]>>
                           /\ a = "attrs" /\ x = AttrNames[i]
  OBVIOUS
<1>3. /\ f \in Stored /\ c \in Stored /\ v \in Stored /\ "name" \notin TokensOf(f)
      /\ a \in Tokens /\ x \in Tokens /\ a # "name" /\ c = <<a>> /\ v = <<x>>
  <2>1. \A w \in Tokens : <<w>> \in Stored /\ TokensOf(<<w>>) = {w}
    <3>1. \A w \in Tokens : <<w>> \in Text /\ <<w>> # <<>> /\ TokensOf(<<w>>) = {w}
      BY DEF Text, TokensOf
    <3> QED  BY <3>1 DEF Stored
  <2>2. "attrs" # "name"
    OBVIOUS
  <2> QED  BY <1>1, <1>2, <2>1, <2>2
<1>4. d \in Indexes /\ \A n \in Files : NameField(d, n) = <<>>
  BY DEF Unnamed
<1>5. Set(d, f, c, v) \in Indexes
  BY <1>3, <1>4, SetIndex
<1>6. \A n : NameField(Set(d, f, <<a>>, <<x>>), n) = NameField(d, n)
  <2> TAKE n
  <2>1. ~(a = "name" /\ x = n)
    BY <1>3
  <2> QED  BY <1>3, <1>4, <2>1, SetName
<1>7. \A n \in Files : NameField(Set(d, f, c, v), n) = <<>>
  BY <1>3, <1>4, <1>6, Zenon
<1> QED  BY <1>2, <1>5, <1>7, Zenon DEF Unnamed

\* What process_transducers leaves is in any set that every step of it stays in.
LEMMA LoadLoop ==
    ASSUME NEW S, << >> \in S,
           \A i \in 1..Len(AttrNames), d \in S :
               Set(d, <<Known>>, <<"attrs">>, <<AttrNames[i]>>) \in S
    PROVE  /\ \E g : LoadSteps(g, Len(AttrNames))
           /\ \A g : LoadSteps(g, Len(AttrNames)) => g[Len(AttrNames)] \in S
<1>1. PICK m : m = Len(AttrNames)
  OBVIOUS
<1>2. m \in Nat
  BY <1>1 DEF AttrNames
<1> DEFINE Then(d, i) == Set(d, <<Known>>, <<"attrs">>, <<AttrNames[i]>>)
           F == [i \in 1..m |-> [d \in S |-> Then(d, i)]]
<1>3. \A i \in 1..m, d \in S : Then(d, i) \in S
  BY <1>1, Zenon
<1> HIDE DEF Then
<1>4. \A i \in 1..m, d \in S : F[i][d] = Then(d, i)
  BY Zenon
<1>5. F \in [1..m -> [S -> S]]
  BY <1>3
<1>6. << >> \in S
  OBVIOUS
<1>7. \A i \in 0..m : i = 0 \/ (i \in 1..m /\ i - 1 \in 0..m)
  BY <1>2
<1> HIDE DEF F
<1>8. PICK e : e = << >>
  OBVIOUS
<1>9. PICK g \in [0..m -> S] : Results(g, e, m, F)
  BY <1>2, <1>5, <1>6, <1>8, Loop
<1>10. g = [i \in 0..m |-> IF i = 0 THEN e ELSE Then(g[i - 1], i)]
  <2>1. \A i \in 0..m : (IF i = 0 THEN e ELSE F[i][g[i - 1]]) =
                        IF i = 0 THEN e ELSE Then(g[i - 1], i)
    BY <1>4, <1>7, <1>9
  <2> QED  BY <1>9, <2>1, Zenon DEF Results
<1>11. LoadSteps(g, m)
  BY <1>8, <1>10, Zenon DEF LoadSteps, Then
<1>12. ASSUME NEW h, LoadSteps(h, m) PROVE h[m] \in S
  <2> DEFINE Q == {i \in 0..m : h[i] \in S}
  <2>1. h = [i \in 0..m |-> IF i = 0 THEN e ELSE Then(h[i - 1], i)]
    BY <1>8, <1>12, Zenon DEF LoadSteps, Then
  <2>2. 0 \in 0..m /\ m \in 0..m
    BY <1>2
  <2>3. h[0] = e
    BY <2>1, <2>2, Zenon
  <2>4. 0 \in Q
    BY <1>6, <1>8, <2>2, <2>3, Zenon
  <2>5. ASSUME NEW i \in 1..m, i - 1 \in Q PROVE i \in Q
    <3>1. i \in 0..m /\ i # 0
      BY <1>2
    <3>2. h[i] = Then(h[i - 1], i)
      BY <2>1, <3>1, Zenon
    <3>3. h[i - 1] \in S
      BY <2>5
    <3> QED  BY <1>3, <3>1, <3>2, <3>3, Zenon
  <2> HIDE DEF Q
  <2>6. \A i \in 0..m : i \in Q
    BY <1>2, <2>4, <2>5, UpTo
  <2> QED  BY <2>2, <2>6 DEF Q
<1> QED  BY <1>1, <1>11, <1>12, Zenon

LEMMA Loaded ==
    ASSUME Init, NEW S, << >> \in S,
           \A i \in 1..Len(AttrNames), d \in S :
               Set(d, <<Known>>, <<"attrs">>, <<AttrNames[i]>>) \in S
    PROVE  db \in S
<1>1. PICK g : LoadSteps(g, Len(AttrNames))
  BY LoadLoop, Zenon
<1>2. g = [i \in 0..Len(AttrNames) |-> IF i = 0 THEN << >>
              ELSE Set(g[i - 1], <<Known>>, <<"attrs">>, <<AttrNames[i]>>)]
  BY <1>1, Zenon DEF LoadSteps
<1>3. LET loaded[i \in 0..Len(AttrNames)] ==
              IF i = 0 THEN << >>
              ELSE Set(loaded[i - 1], <<Known>>, <<"attrs">>, <<AttrNames[i]>>)
      IN  db = loaded[Len(AttrNames)]
  BY Zenon DEF Init
<1>4. \E g1 : /\ db = g1[Len(AttrNames)]
              /\ g1 = [i \in 0..Len(AttrNames) |-> IF i = 0 THEN << >>
                          ELSE Set(g1[i - 1], <<Known>>, <<"attrs">>, <<AttrNames[i]>>)]
  BY <1>2, <1>3, Zenon
<1>5. PICK g1 : db = g1[Len(AttrNames)] /\ LoadSteps(g1, Len(AttrNames))
  BY <1>4, Zenon DEF LoadSteps
<1> QED  BY <1>5, LoadLoop

LEMMA InitUnnamed ==
    ASSUME Init
    PROVE  db \in Unnamed
<1>1. \A i \in 1..Len(AttrNames), d \in Unnamed :
          Set(d, <<Known>>, <<"attrs">>, <<AttrNames[i]>>) \in Unnamed
  BY LoadOne
<1> QED  BY <1>1, NothingStored, Loaded

LEMMA InitFilesInv == Init => FilesInv
<1> SUFFICES ASSUME Init PROVE FilesInv
  OBVIOUS
<1>1. db \in Unnamed
  BY InitUnnamed
<1>2. /\ disk = [p \in Files |-> p] /\ next = 1
      /\ id = [t \in Threads |-> <<Null>>] /\ todo = [t \in Threads |-> <<>>]
      /\ ops = 0 /\ overlaps = 0 /\ named = [i \in TokensOf(Ids) |-> Null]
      /\ shared = {} /\ mixed = {} /\ unlinked = {} /\ stray = FALSE
  BY DEF Init
<1>3. db \in Indexes /\ \A n \in Files : NameField(db, n) = <<>>
  BY <1>1 DEF Unnamed
<1>4. TokensOf(<<>>) = {} /\ \A n : Once(<<>>, n) /\ ~GivenIn(<<>>, n)
  BY DEF TokensOf, Once, GivenIn
<1>5. <<>> \in Seq(Calls)
  BY NoCalls
<1>6. PICK e, z : e = <<Null>> /\ z = <<>>
  OBVIOUS
<1>7. e \in Stored /\ "name" \notin TokensOf(e)
  BY <1>6, NoFileId, Zenon
<1>8. /\ z \in Seq(Calls) /\ TokensOf(z) = {} /\ \A n : Once(z, n) /\ ~GivenIn(z, n)
      /\ \A t \in Threads : id[t] = e /\ todo[t] = z
      /\ id = [t \in Threads |-> e] /\ todo = [t \in Threads |-> z]
  BY <1>2, <1>4, <1>5, <1>6
<1>9. id \in [Threads -> Stored] /\ todo \in [Threads -> Seq(Calls)]
  BY <1>7, <1>8
<1>10. DiskOK
  BY <1>2 DEF DiskOK, Paths
<1>11. IdsOK
  <2>1. Len(Ids) \in Nat
    BY FilesAssumption, LenProperties
  <2> QED  BY <1>2, <2>1, TokensAssumption DEF IdsOK
<1>12. StateTypes
  <2>1. 0 \in 0..MaxOps /\ 0 \in 0..MaxOverlaps
    BY FilesAssumption
  <2>2. ops \in 0..MaxOps /\ overlaps \in 0..MaxOverlaps
    BY <1>2, <2>1, Zenon
  <2>3. /\ shared \subseteq Files /\ mixed \subseteq Tokens
        /\ unlinked \subseteq Tokens /\ stray \in BOOLEAN
    BY <1>2
  <2> QED  BY <1>3, <1>9, <1>10, <1>11, <2>2, <2>3, Zenon DEF StateTypes
<1>13. NoName
  BY <1>3, <1>4, <1>7, <1>8 DEF NoName
<1>14. \A n \in Files : Holders(n) = {}
  BY <1>3, <1>4, HoldersAre
<1>15. OneGiver
  BY <1>8, <1>14 DEF OneGiver
<1> QED  BY <1>12, <1>13, <1>15 DEF FilesInv

LEMMA CallFilesInv ==
    ASSUME FilesInv, NEW t \in Threads, Call(t)
    PROVE  FilesInv'
BY MakeEntityInv, SetValInv, RemoveValInv, ProcessFileInv, FlushFileInv, UnlinkFileInv,
   MapFileInv, LocateFileInv, MoveFileInv, DeleteFileInv, Zenon DEF Call

LEMMA LinkInv ==
    ASSUME FilesInv, NEW t \in Threads, NEW n \in Files, NEW m \in Files, Link(t, n, m)
    PROVE  FilesInv'
<1>1. Reached(n) # Empty /\ PutOnDisk(t, PathOf(m), Reached(n))
  BY Zenon DEF Link
<1>2. Reached(n) \in Files \cup {Node}
  <2>1. Reached(n) = IF PathOf(n) \in DOMAIN disk THEN disk[PathOf(n)] ELSE Empty
    BY Zenon DEF Reached
  <2>2. DiskOK
    BY InvParts
  <2> QED  BY <1>1, <2>1, <2>2 DEF DiskOK
<1> QED  BY <1>1, <1>2, PutOnDiskInv

LEMMA MknodInv ==
    ASSUME FilesInv, NEW t \in Threads, NEW n \in Files, Mknod(t, n)
    PROVE  FilesInv'
BY PutOnDiskInv DEF Mknod

LEMMA FilesStep == FilesInv /\ [Next]_vars => FilesInv'
<1> SUFFICES ASSUME FilesInv, [Next]_vars PROVE FilesInv'
  OBVIOUS
<1>1. CASE Next
  <2>1. PICK t \in Threads :
            \/ \E n \in Files :
                \/ Receive(t, n) \/ Flush(t, n) \/ Unlink(t, n) \/ Mknod(t, n)
                \/ \E dir \in Dirs :
                    \/ Create(t, dir, n)
                    \/ \E m \in Files : Rename(t, n, dir, m)
                \/ \E m \in Files : Link(t, n, m)
            \/ Call(t)
    BY <1>1, Zenon DEF Next
  <2>2. CASE Call(t)
    BY <2>2, CallFilesInv
  <2>3. CASE \E n \in Files :
                \/ Receive(t, n) \/ Flush(t, n) \/ Unlink(t, n) \/ Mknod(t, n)
                \/ \E dir \in Dirs :
                    \/ Create(t, dir, n)
                    \/ \E m \in Files : Rename(t, n, dir, m)
                \/ \E m \in Files : Link(t, n, m)
    BY <2>3, ReceiveInv, FlushInv, UnlinkInv, MknodInv, CreateInv, RenameInv, LinkInv, Zenon
  <2> QED  BY <2>1, <2>2, <2>3, Zenon
<1>2. CASE UNCHANGED vars
  <2>1. /\ db' = db /\ disk' = disk /\ next' = next /\ id' = id /\ todo' = todo /\ ops' = ops
        /\ overlaps' = overlaps /\ named' = named /\ shared' = shared /\ mixed' = mixed
        /\ unlinked' = unlinked /\ stray' = stray
    BY <1>2 DEF vars
  <2>2. StateTypes'
    BY <2>1 DEF FilesInv, StateTypes, DiskOK, IdsOK
  <2>3. NoName'
    BY <2>1, InvParts DEF NoName
  <2>4. \A n : Holders(n)' = Holders(n)
    BY <2>1 DEF Holders
  <2>5. OneGiver'
    BY <2>1, <2>4, InvParts, Zenon DEF OneGiver
  <2> QED  BY <2>2, <2>3, <2>5 DEF FilesInv
<1> QED  BY <1>1, <1>2

LEMMA AlwaysFilesInv == Spec => []FilesInv
BY InitFilesInv, FilesStep, PTL DEF Spec

(***************************************************************************)
(* In every state the index, the disk and the calls that are under way are *)
(* what the operations take them for: a field that exists has a text, an   *)
(* operation always has a file id, and only paths of files or "null"       *)
(* exist.                                                                  *)
(***************************************************************************)
THEOREM KhanFilesTypeOK == Spec => []TypeOK
<1>1. FilesInv => TypeOK
  <2> SUFFICES ASSUME FilesInv PROVE TypeOK
    OBVIOUS
  <2>1. db \in Indexes /\ DiskOK /\ IdsOK
    BY InvParts
  <2>2. DOMAIN db \subseteq Text \X Text /\ \A k \in DOMAIN db : db[k] \in Text \ {<<>>}
    BY <2>1, IndexParts DEF Stored
  <2> QED  BY <2>1, <2>2 DEF FilesInv, StateTypes, DiskOK, IdsOK, Stored, TypeOK
<1> QED  BY <1>1, AlwaysFilesInv, PTL

(***************************************************************************)
(* A name belongs to one entity unless it was given while taken or by a    *)
(* path, for any number of threads, files, directories and overlapping     *)
(* operations.                                                             *)
(***************************************************************************)
THEOREM KhanFilesOneEntity == Spec => []OneEntityPerName
<1>1. FilesInv => OneEntityPerName
  <2> SUFFICES ASSUME FilesInv, NEW n \in Files \ shared PROVE Cardinality(Holders(n)) <= 1
    BY DEF OneEntityPerName
  <2>1. \A x, y \in Holders(n) : x = y
    BY InvParts DEF OneGiver
  <2> HIDE DEF Holders
  <2>2. CASE Holders(n) = {}
    BY <2>2, FS_EmptySet
  <2>3. CASE Holders(n) # {}
    <3>1. PICK x : Holders(n) = {x}
      BY <2>1, <2>3
    <3>2. Cardinality({x}) = 1
      BY FS_Singleton
    <3> QED  BY <3>1, <3>2
  <2> QED  BY <2>2, <2>3
<1> QED  BY <1>1, AlwaysFilesInv, PTL
-------------------------------------------------------------------------------
(***************************************************************************)
(* Texts, token by token: how often a token stands in a text, and what     *)
(* AddTo, EraseFrom and GetVal do to one token.                            *)
(***************************************************************************)
\* How often a token stands in a text: at most once.
Single(s, u) == \A a, b \in DOMAIN s : s[a] = u /\ s[b] = u => a = b

LEMMA NoReplyTokens ==
    ASSUME NEW s, NoReply(s)
    PROVE  TokensOf(s) \subseteq {Empty}
BY DEF NoReply, TokensOf

LEMMA OneToken ==
    ASSUME NEW u \in Tokens
    PROVE  <<u>> \in Stored /\ TokensOf(<<u>>) = {u} /\ Len(<<u>>) = 1 /\ Single(<<u>>, u)
<1>1. PICK e : e = <<u>>
  OBVIOUS
<1>2. e \in Text /\ e # <<>> /\ TokensOf(e) = {u} /\ Len(e) = 1 /\ Single(e, u)
  BY <1>1 DEF Text, TokensOf, Single
<1> QED  BY <1>1, <1>2 DEF Stored

LEMMA AddToken ==
    ASSUME NEW s \in Text, NEW w \in Stored, NEW u \in Tokens, u # Empty
    PROVE  /\ u \in TokensOf(AddTo(s, w)) <=> u \in TokensOf(s) \cup TokensOf(w)
           /\ Single(s, u) /\ u \notin TokensOf(w) => Single(AddTo(s, w), u)
           /\ u \notin TokensOf(s) /\ w = <<u>> => Single(AddTo(s, w), u)
<1>1. CASE NoReply(s)
  <2>1. AddTo(s, w) = w /\ u \notin TokensOf(s)
    BY <1>1, NoReplyTokens DEF AddTo
  <2>2. u \notin TokensOf(w) => Single(w, u)
    BY DEF TokensOf, Single
  <2>3. w = <<u>> => Single(w, u)
    BY OneToken, Zenon
  <2> QED  BY <2>1, <2>2, <2>3
<1>2. CASE ~NoReply(s)
  <2>1. PICK r : r = s \o w
    OBVIOUS
  <2>2. AddTo(s, w) = r
    BY <1>2, <2>1 DEF AddTo
  <2>3. s \in Seq(Tokens) /\ w \in Seq(Tokens)
    BY DEF Stored, Text
  <2>4. /\ r \in Seq(Tokens) /\ Len(r) = Len(s) + Len(w)
        /\ \A i \in 1..(Len(s) + Len(w)) : r[i] = IF i <= Len(s) THEN s[i] ELSE w[i - Len(s)]
        /\ TokensOf(r) = TokensOf(s) \cup TokensOf(w)
    <3>1. /\ r \in Seq(Tokens) /\ Len(r) = Len(s) + Len(w)
          /\ \A i \in 1..(Len(s) + Len(w)) : r[i] = IF i <= Len(s) THEN s[i] ELSE w[i - Len(s)]
      BY <2>1, <2>3, ConcatProperties
    <3>2. TokensOf(r) = TokensOf(s) \cup TokensOf(w)
      BY <2>1, <2>3, TokensConcat
    <3> QED  BY <3>1, <3>2
  <2>5. /\ Len(s) \in Nat /\ Len(w) \in Nat /\ DOMAIN r = 1..(Len(s) + Len(w))
        /\ DOMAIN s = 1..Len(s) /\ DOMAIN w = 1..Len(w)
    BY <2>3, <2>4, LenProperties
  <2>6. \A i \in DOMAIN r : \/ i \in DOMAIN s /\ r[i] = s[i]
                            \/ i - Len(s) \in DOMAIN w /\ r[i] = w[i - Len(s)]
    BY <2>4, <2>5
  <2>7. ASSUME Single(s, u), u \notin TokensOf(w) PROVE Single(r, u)
    <3>1. \A i \in DOMAIN r : r[i] = u => i \in DOMAIN s /\ r[i] = s[i]
      BY <2>6, <2>7 DEF TokensOf
    <3> QED  BY <2>7, <3>1 DEF Single
  <2>8. ASSUME u \notin TokensOf(s), w = <<u>> PROVE Single(r, u)
    <3>1. \A i \in DOMAIN r : r[i] = u => i - Len(s) \in DOMAIN w
      BY <2>6, <2>8 DEF TokensOf
    <3>2. Len(w) = 1
      BY <2>8
    <3>3. \A i \in DOMAIN r : r[i] = u => i = Len(s) + 1
      BY <2>5, <3>1, <3>2
    <3> QED  BY <3>3 DEF Single
  <2> QED  BY <2>2, <2>4, <2>7, <2>8, Zenon
<1> QED  BY <1>1, <1>2, Zenon

\* What erase leaves: s up to i, an empty token, and s from behind w on.
LEMMA EraseIndex ==
    ASSUME NEW s \in Stored, NEW w \in Stored, Places(s, w) # {}
    PROVE  \E i \in 1..Len(s) :
              /\ i + Len(w) - 1 <= Len(s)
              /\ \A k \in 1..Len(w) : s[i + k - 1] = w[k]
              /\ Len(EraseFrom(s, w)) = Len(s) - Len(w) + 1
              /\ \A a \in 1..(Len(s) - Len(w) + 1) : EraseFrom(s, w)[a] =
                    IF a < i THEN s[a] ELSE IF a = i THEN Empty ELSE s[a + Len(w) - 1]
<1>0. /\ Len(s) \in Nat /\ Len(w) \in Nat \ {0} /\ s \in Seq(Tokens) /\ w \in Seq(Tokens)
  BY LenProperties, EmptySeq DEF Stored, Text
<1>1. Places(s, w) \subseteq Nat
  BY DEF Places
<1>2. PICK i \in Places(s, w) : i = Min(Places(s, w))
  BY <1>1, MinIn
<1>3. i \in 1..(Len(s) + 1 - Len(w)) /\ SubSeq(s, i, i + Len(w) - 1) = w
  BY <1>2 DEF Places
<1>4. i \in 1..Len(s) /\ i + Len(w) - 1 \in 1..Len(s) /\ i \in Nat
  BY <1>0, <1>3
<1> DEFINE a == SubSeq(s, 1, i - 1)
           c == SubSeq(s, i + Len(w), Len(s))
           m == SubSeq(s, i, i + Len(w) - 1)
<1>5. a \in Seq(Tokens) /\ Len(a) = i - 1 /\ \A k \in 1..(i - 1) : a[k] = s[k]
  <2>1. /\ a \in Seq(Tokens) /\ Len(a) = IF 1 <= i - 1 THEN (i - 1) - 1 + 1 ELSE 0
        /\ \A k \in 1..((i - 1) - 1 + 1) : a[k] = s[1 + k - 1]
    BY <1>0, <1>4, SubSeqProperties, SMT
  <2> HIDE DEF a
  <2>2. Len(a) = i - 1
    BY <1>4, <2>1
  <2>3. \A k \in 1..(i - 1) : a[k] = s[k]
    <3> TAKE k \in 1..(i - 1)
    <3>1. k \in 1..((i - 1) - 1 + 1) /\ 1 + k - 1 = k
      BY <1>4
    <3> QED  BY <2>1, <3>1
  <2> QED  BY <2>1, <2>2, <2>3
<1>6. /\ c \in Seq(Tokens) /\ Len(c) = Len(s) - i - Len(w) + 1
      /\ \A k \in 1..(Len(s) - i - Len(w) + 1) : c[k] = s[i + Len(w) + k - 1]
  <2>1. /\ c \in Seq(Tokens)
        /\ Len(c) = IF i + Len(w) <= Len(s) THEN Len(s) - (i + Len(w)) + 1 ELSE 0
        /\ \A k \in 1..(Len(s) - (i + Len(w)) + 1) : c[k] = s[(i + Len(w)) + k - 1]
    BY <1>0, <1>4, SubSeqProperties, SMT
  <2> HIDE DEF c
  <2>2. Len(c) = Len(s) - i - Len(w) + 1
    <3>1. \A x, y, z \in Nat : i + y - 1 \in 1..x /\ z = (IF i + y <= x THEN x - (i + y) + 1 ELSE 0)
                              => z = x - i - y + 1
      BY <1>4
    <3>2. Len(c) \in Nat
      BY <2>1, LenProperties
    <3> QED  BY <1>0, <1>4, <2>1, <3>1, <3>2, Zenon
  <2>3. \A k \in 1..(Len(s) - i - Len(w) + 1) : c[k] = s[i + Len(w) + k - 1]
    <3> TAKE k \in 1..(Len(s) - i - Len(w) + 1)
    <3>1. k \in 1..(Len(s) - (i + Len(w)) + 1) /\ (i + Len(w)) + k - 1 = i + Len(w) + k - 1
      BY <1>0, <1>4
    <3> QED  BY <2>1, <3>1
  <2> QED  BY <2>1, <2>2, <2>3
<1>7. \A k \in 1..Len(w) : w[k] = s[i + k - 1]
  <2>1. \A k \in 1..((i + Len(w) - 1) - i + 1) : m[k] = s[i + k - 1]
    BY <1>0, <1>4, SubSeqProperties, SMT
  <2> HIDE DEF m
  <2>2. \A k \in 1..Len(w) : m[k] = s[i + k - 1]
    <3> TAKE k \in 1..Len(w)
    <3>1. k \in 1..((i + Len(w) - 1) - i + 1)
      BY <1>0, <1>4
    <3> QED  BY <2>1, <3>1
  <2>3. m = w
    BY <1>3, Zenon DEF m
  <2> QED  BY <2>2, <2>3
<1> HIDE DEF a, c, m
<1>8. PICK e : e = <<Empty>>
  OBVIOUS
<1>9. e \in Seq(Tokens) /\ Len(e) = 1 /\ e[1] = Empty
  BY <1>8, TokensAssumption
<1>10. EraseFrom(s, w) = (a \o e) \o c
  BY <1>2, <1>8, Zenon DEF EraseFrom, a, c
<1>11. PICK b : b = a \o e
  OBVIOUS
<1>12. /\ b \in Seq(Tokens) /\ Len(b) = i
       /\ \A k \in 1..i : b[k] = IF k < i THEN s[k] ELSE Empty
  <2>1. /\ b \in Seq(Tokens) /\ Len(b) = Len(a) + Len(e)
        /\ \A k \in 1..(Len(a) + Len(e)) : b[k] = IF k <= Len(a) THEN a[k] ELSE e[k - Len(a)]
    BY <1>5, <1>9, <1>11, ConcatProperties
  <2>2. Len(b) = i
    BY <1>4, <1>5, <1>9, <2>1
  <2>3. \A k \in 1..i : b[k] = IF k < i THEN s[k] ELSE Empty
    <3> TAKE k \in 1..i
    <3>1. CASE k < i
      BY <1>4, <1>5, <1>9, <2>1, <3>1
    <3>2. CASE ~(k < i)
      <4>1. k = i /\ k - Len(a) = 1 /\ ~(k <= Len(a)) /\ k \in 1..(Len(a) + Len(e))
        BY <1>4, <1>5, <1>9, <3>2
      <4> QED  BY <1>9, <2>1, <3>2, <4>1
    <3> QED  BY <3>1, <3>2
  <2> QED  BY <2>1, <2>2, <2>3
<1>13. PICK r : r = b \o c
  OBVIOUS
<1>14. /\ Len(r) = Len(b) + Len(c)
       /\ \A k \in 1..(Len(b) + Len(c)) : r[k] = IF k <= Len(b) THEN b[k] ELSE c[k - Len(b)]
  BY <1>6, <1>12, <1>13, ConcatProperties
<1>15. Len(r) = Len(s) - Len(w) + 1
  BY <1>0, <1>4, <1>6, <1>12, <1>14
<1>16. \A k \in 1..(Len(s) - Len(w) + 1) :
          r[k] = IF k < i THEN s[k] ELSE IF k = i THEN Empty ELSE s[k + Len(w) - 1]
  <2> TAKE k \in 1..(Len(s) - Len(w) + 1)
  <2>1. k \in 1..(Len(b) + Len(c))
    BY <1>0, <1>4, <1>6, <1>12
  <2>2. CASE k <= i
    <3>1. r[k] = b[k] /\ k \in 1..i
      BY <1>4, <1>12, <1>14, <2>1, <2>2
    <3> QED  BY <1>4, <1>12, <2>2, <3>1
  <2>3. CASE ~(k <= i)
    <3>1. r[k] = c[k - i] /\ k - i \in 1..(Len(s) - i - Len(w) + 1) /\ ~(k < i) /\ k # i
      BY <1>0, <1>4, <1>12, <1>14, <2>1, <2>3
    <3>2. i + Len(w) + (k - i) - 1 = k + Len(w) - 1
      BY <1>0, <1>4
    <3>3. c[k - i] = s[k + Len(w) - 1]
      BY <1>6, <3>1, <3>2
    <3> QED  BY <3>1, <3>3
  <2> QED  BY <2>2, <2>3
<1>17. EraseFrom(s, w) = r
  BY <1>10, <1>11, <1>13, Zenon
<1>18. i + Len(w) - 1 <= Len(s)
  BY <1>0, <1>4
<1> QED  BY <1>4, <1>7, <1>15, <1>16, <1>17, <1>18, Zenon

\* Erasing something else leaves u as it was, ..
LEMMA EraseOther ==
    ASSUME NEW s \in Stored, NEW w \in Stored, NEW u, u # Empty, u \notin TokensOf(w)
    PROVE  /\ u \in TokensOf(EraseFrom(s, w)) <=> u \in TokensOf(s)
           /\ Single(s, u) => Single(EraseFrom(s, w), u)
<1>1. CASE Places(s, w) = {}
  BY <1>1 DEF EraseFrom
<1>2. CASE Places(s, w) # {}
  <2>1. PICK r : r = EraseFrom(s, w)
    OBVIOUS
  <2>2. PICK n, m : n = Len(s) /\ m = Len(w)
    OBVIOUS
  <2>3. r \in Stored
    BY <2>1, EraseStored
  <2>4. /\ n \in Nat /\ m \in Nat \ {0} /\ DOMAIN s = 1..n /\ DOMAIN w = 1..m /\ DOMAIN r = 1..Len(r)
    BY <2>2, <2>3, LenProperties, EmptySeq DEF Stored, Text
  <2>0. PICK i \in 1..Len(s) :
              /\ i + Len(w) - 1 <= Len(s)
              /\ \A k \in 1..Len(w) : s[i + k - 1] = w[k]
              /\ Len(EraseFrom(s, w)) = Len(s) - Len(w) + 1
              /\ \A a \in 1..(Len(s) - Len(w) + 1) : EraseFrom(s, w)[a] =
                    IF a < i THEN s[a] ELSE IF a = i THEN Empty ELSE s[a + Len(w) - 1]
    BY <1>2, EraseIndex
  <2>5. /\ i \in 1..n /\ i + m - 1 <= n
        /\ \A k \in 1..m : s[i + k - 1] = w[k]
        /\ Len(r) = n - m + 1
        /\ \A a \in 1..(n - m + 1) :
              r[a] = IF a < i THEN s[a] ELSE IF a = i THEN Empty ELSE s[a + m - 1]
    BY <2>0, <2>1, <2>2
  \* The place in s of the a-th token of r, and back.
  <2> DEFINE To(a) == IF a < i THEN a ELSE a + m - 1
             From(a) == IF a < i THEN a ELSE a - m + 1
  <2>6. \A a \in DOMAIN r : a # i => To(a) \in DOMAIN s /\ r[a] = s[To(a)]
    BY <2>4, <2>5
  <2>7. \A a \in DOMAIN s : a \in i..(i + m - 1) => s[a] \in TokensOf(w)
    <3> TAKE a \in DOMAIN s
    <3>1. a \in i..(i + m - 1) => a - i + 1 \in 1..m /\ i + (a - i + 1) - 1 = a
      BY <2>4
    <3>2. \A k \in 1..m : w[k] \in TokensOf(w)
      BY <2>4 DEF TokensOf
    <3> QED  BY <2>5, <3>1, <3>2
  <2>8. \A a \in DOMAIN s : a \notin i..(i + m - 1) =>
            From(a) \in DOMAIN r /\ From(a) # i /\ To(From(a)) = a
    <3> TAKE a \in DOMAIN s
    <3>1. CASE a < i
      BY <2>4, <2>5, <3>1
    <3>2. CASE ~(a < i)
      <4>1. a \notin i..(i + m - 1) => a > i + m - 1
        BY <2>4, <3>2
      <4>2. From(a) = a - m + 1
        BY <3>2
      <4> HIDE DEF From
      <4>3. a > i + m - 1 => From(a) \in 1..(n - m + 1) /\ From(a) > i /\ From(a) + m - 1 = a
        BY <2>4, <4>2
      <4>4. a > i + m - 1 => From(a) \in DOMAIN r /\ From(a) # i /\ To(From(a)) = a
        BY <2>4, <2>5, <4>2, <4>3
      <4> QED  BY <4>1, <4>4
    <3> QED  BY <3>1, <3>2
  <2>9. \A a, b \in DOMAIN r : a # i /\ b # i /\ To(a) = To(b) => a = b
    BY <2>4, <2>5
  <2>10. i \in DOMAIN r => r[i] = Empty
    BY <2>4, <2>5
  <2> HIDE DEF To, From
  <2>11. ASSUME u \in TokensOf(r) PROVE u \in TokensOf(s)
    <3>1. PICK a \in DOMAIN r : r[a] = u
      BY <2>11 DEF TokensOf
    <3>2. a # i
      BY <2>10, <3>1
    <3> QED  BY <2>6, <3>1, <3>2 DEF TokensOf
  <2>12. ASSUME u \in TokensOf(s) PROVE u \in TokensOf(r)
    <3>1. PICK a \in DOMAIN s : s[a] = u
      BY <2>12 DEF TokensOf
    <3>2. From(a) \in DOMAIN r /\ From(a) # i /\ To(From(a)) = a
      BY <2>7, <2>8, <3>1
    <3>3. r[From(a)] = u
      BY <2>6, <3>1, <3>2
    <3> QED  BY <3>2, <3>3 DEF TokensOf
  <2>13. ASSUME Single(s, u) PROVE Single(r, u)
    <3>1. SUFFICES ASSUME NEW a \in DOMAIN r, NEW b \in DOMAIN r, r[a] = u, r[b] = u PROVE a = b
      BY DEF Single
    <3>2. a # i /\ b # i
      BY <2>10, <3>1
    <3>3. To(a) = To(b)
      BY <2>6, <2>13, <3>1, <3>2 DEF Single
    <3> QED  BY <2>9, <3>2, <3>3
  <2> QED  BY <2>1, <2>11, <2>12, <2>13
<1> QED  BY <1>1, <1>2

\* .. and erasing u itself leaves none, if it stood there once.
LEMMA EraseOwn ==
    ASSUME NEW s \in Stored, NEW u \in Tokens, u # Empty, Single(s, u)
    PROVE  u \notin TokensOf(EraseFrom(s, <<u>>))
<1>1. PICK w : w = <<u>>
  OBVIOUS
<1>2. w \in Stored /\ Len(w) = 1 /\ w[1] = u
  BY <1>1, OneToken
<1>3. PICK n : n = Len(s)
  OBVIOUS
<1>4. n \in Nat /\ DOMAIN s = 1..n /\ s \in Seq(Tokens)
  BY <1>3, LenProperties DEF Stored, Text
<1>5. CASE Places(s, w) = {}
  <2>1. ASSUME NEW a \in DOMAIN s, s[a] = u PROVE FALSE
    <3>1. PICK q : q = SubSeq(s, a, a)
      OBVIOUS
    <3>2. q \in Seq(Tokens) /\ Len(q) = 1 /\ q[1] = s[a]
      <4>1. /\ q \in Seq(Tokens) /\ Len(q) = IF a <= a THEN a - a + 1 ELSE 0
            /\ \A k \in 1..(a - a + 1) : q[k] = s[a + k - 1]
        BY <1>3, <1>4, <3>1, SubSeqProperties, SMT
      <4>2. a \in Nat /\ 1 \in 1..(a - a + 1) /\ a + 1 - 1 = a /\ a <= a /\ a - a + 1 = 1
        BY <1>4
      <4>3. Len(q) = 1
        BY <4>1, <4>2, Zenon
      <4>4. q[1] = s[a]
        BY <4>1, <4>2, Zenon
      <4> QED  BY <4>1, <4>3, <4>4
    <3>3. q = w
      BY <1>1, <2>1, <3>2
    <3>4. a \in 1..(Len(s) + 1 - Len(w)) /\ a + Len(w) - 1 = a
      BY <1>2, <1>3, <1>4
    <3>5. a \in Places(s, w)
      BY <3>1, <3>3, <3>4 DEF Places
    <3> QED  BY <1>5, <3>5
  <2>2. EraseFrom(s, w) = s
    BY <1>5 DEF EraseFrom
  <2> QED  BY <1>1, <2>1, <2>2 DEF TokensOf
<1>6. CASE Places(s, w) # {}
  <2>1. PICK r : r = EraseFrom(s, w)
    OBVIOUS
  <2>2. r \in Stored
    BY <1>2, <2>1, EraseStored
  <2>3. DOMAIN r = 1..Len(r)
    BY <2>2, LenProperties DEF Stored, Text
  <2>4. PICK i \in 1..n :
              /\ i + Len(w) - 1 <= n
              /\ \A k \in 1..Len(w) : s[i + k - 1] = w[k]
              /\ Len(r) = n - Len(w) + 1
              /\ \A a \in 1..(n - Len(w) + 1) :
                    r[a] = IF a < i THEN s[a] ELSE IF a = i THEN Empty ELSE s[a + Len(w) - 1]
    <3>1. \E i \in 1..Len(s) :
              /\ i + Len(w) - 1 <= Len(s)
              /\ \A k \in 1..Len(w) : s[i + k - 1] = w[k]
              /\ Len(EraseFrom(s, w)) = Len(s) - Len(w) + 1
              /\ \A a \in 1..(Len(s) - Len(w) + 1) : EraseFrom(s, w)[a] =
                    IF a < i THEN s[a] ELSE IF a = i THEN Empty ELSE s[a + Len(w) - 1]
      BY <1>2, <1>6, EraseIndex, Zenon
    <3> QED  BY <1>3, <2>1, <3>1, Zenon
  <2>5. /\ s[i] = u /\ DOMAIN r = DOMAIN s
        /\ \A a \in DOMAIN r : r[a] = IF a = i THEN Empty ELSE s[a]
    BY <1>2, <1>4, <2>3, <2>4
  <2>6. \A a \in DOMAIN r : r[a] # u
    BY <1>4, <2>5 DEF Single
  <2> QED  BY <1>1, <2>1, <2>6 DEF TokensOf
<1> QED  BY <1>5, <1>6

LEMMA EraseLen ==
    ASSUME NEW s \in Stored, NEW w \in Stored, Len(w) = 1
    PROVE  Len(EraseFrom(s, w)) = Len(s)
<1>1. CASE Places(s, w) = {}
  BY <1>1 DEF EraseFrom
<1>2. CASE Places(s, w) # {}
  <2>1. Len(s) \in Nat /\ Len(EraseFrom(s, w)) = Len(s) - Len(w) + 1
    BY <1>2, EraseIndex, LenProperties DEF Stored, Text
  <2> QED  BY <2>1
<1> QED  BY <1>1, <1>2

LEMMA LenOne ==
    ASSUME NEW s \in Stored, NEW u, Len(s) = 1, TokensOf(s) \subseteq {u}
    PROVE  s = <<u>>
<1>1. DOMAIN s = 1..1 /\ s \in Seq(Tokens)
  BY LenProperties DEF Stored, Text
<1>2. s[1] = u
  BY <1>1 DEF TokensOf
<1> QED  BY <1>1, <1>2

LEMMA LenTokens ==
    ASSUME NEW s \in Stored
    PROVE  Len(s) \in Nat \ {0} /\ s[1] \in TokensOf(s) /\ s[1] \in Tokens
           /\ (Len(s) = 1 => s = <<s[1]>> /\ TokensOf(s) = {s[1]})
<1>1. s \in Seq(Tokens) /\ Len(s) \in Nat \ {0} /\ DOMAIN s = 1..Len(s)
  BY LenProperties, EmptySeq DEF Stored, Text
<1>2. s[1] \in TokensOf(s) /\ s[1] \in Tokens
  BY <1>1, ElementOfSeq DEF TokensOf
<1>3. Len(s) = 1 => TokensOf(s) = {s[1]}
  BY <1>1 DEF TokensOf
<1>4. Len(s) = 1 => s = <<s[1]>>
  BY <1>3, LenOne
<1> QED  BY <1>1, <1>2, <1>3, <1>4

\* One token without another one, and without itself.
LEMMA EraseAlone ==
    ASSUME NEW x \in Tokens, NEW v \in Tokens, x # Empty
    PROVE  EraseFrom(<<x>>, <<v>>) = IF x = v THEN <<Empty>> ELSE <<x>>
<1>1. PICK s, w : s = <<x>> /\ w = <<v>>
  OBVIOUS
<1>2. s \in Stored /\ TokensOf(s) = {x} /\ Len(s) = 1 /\ w \in Stored /\ TokensOf(w) = {v}
      /\ Len(w) = 1 /\ Single(s, x)
  BY <1>1, OneToken
<1>3. PICK r : r = EraseFrom(s, w)
  OBVIOUS
<1>4. r \in Stored /\ TokensOf(r) \subseteq {x, Empty} /\ Len(r) = 1
  BY <1>2, <1>3, EraseStored, EraseLen
<1>5. CASE x = v
  <2>1. x \notin TokensOf(r)
    BY <1>1, <1>2, <1>3, <1>5, EraseOwn
  <2>2. r = <<Empty>>
    BY <1>4, <2>1, LenOne
  <2> QED  BY <1>1, <1>3, <1>5, <2>2
<1>6. CASE x # v
  <2>1. x \in TokensOf(r)
    BY <1>2, <1>3, <1>6, EraseOther
  <2>2. r = <<r[1]>> /\ TokensOf(r) = {r[1]}
    BY <1>4, LenTokens
  <2>3. r = <<x>>
    BY <2>1, <2>2
  <2> QED  BY <1>1, <1>3, <1>6, <2>3
<1> QED  BY <1>5, <1>6

LEMMA GetValToken ==
    ASSUME NEW s \in Text
    PROVE  /\ \A u : u \notin {Empty, Null} =>
                 /\ u \in TokensOf(GetVal(s)) <=> u \in TokensOf(s)
                 /\ Single(s, u) => Single(GetVal(s), u)
           /\ Null \in TokensOf(s) => Null \in TokensOf(GetVal(s))
           /\ Len(s) <= 1 => Len(GetVal(s)) = 1
<1>1. PICK e : e = <<Null>>
  OBVIOUS
<1>2. e \in Stored /\ TokensOf(e) = {Null} /\ Len(e) = 1
  BY <1>1, OneToken, TokensAssumption
<1>3. Len(s) \in Nat /\ DOMAIN s = 1..Len(s) /\ s \in Seq(Tokens)
  BY LenProperties DEF Text
<1>4. CASE NoReply(s)
  <2>1. TokensOf(s) \subseteq {Empty} /\ Empty # Null
    BY <1>4, NoReplyTokens, TokensAssumption
  <2>2. GetVal(s) = e
    BY <1>1, <1>2, <1>4 DEF GetVal, Cleanup
  <2>3. \A u : u # Null => u \notin TokensOf(e) /\ Single(e, u)
    BY <1>2 DEF TokensOf, Single
  <2> QED  BY <1>2, <2>1, <2>2, <2>3
<1>5. CASE ~NoReply(s)
  <2>1. GetVal(s) = IF Len(s) > 1 /\ Head(s) = Empty THEN Tail(s) ELSE s
    BY <1>5, Zenon DEF GetVal, Cleanup
  <2>2. s # <<>>
    BY <1>5 DEF NoReply
  <2>3. CASE Len(s) > 1 /\ Head(s) = Empty
    <3>1. PICK q : q = Tail(s)
      OBVIOUS
    <3>2. q \in Seq(Tokens) /\ Len(q) = Len(s) - 1 /\ \A i \in 1..(Len(s) - 1) : q[i] = s[i + 1]
      BY <1>3, <2>2, <3>1, HeadTailProperties
    <3>3. DOMAIN q = 1..(Len(s) - 1)
      BY <3>2, LenProperties
    <3>4. s[1] = Empty
      BY <1>3, <2>2, <2>3, HeadTailProperties
    <3>5. \A i \in DOMAIN q : i + 1 \in DOMAIN s /\ q[i] = s[i + 1]
      BY <1>3, <3>2, <3>3
    <3>6. \A i \in DOMAIN s : i = 1 \/ (i - 1 \in DOMAIN q /\ s[i] = q[i - 1])
      BY <1>3, <3>2, <3>3
    <3>7. ASSUME NEW u, u # Empty
          PROVE  /\ u \in TokensOf(q) <=> u \in TokensOf(s)
                 /\ Single(s, u) => Single(q, u)
      <4>1. u \in TokensOf(q) => u \in TokensOf(s)
        BY <3>5 DEF TokensOf
      <4>2. u \in TokensOf(s) => u \in TokensOf(q)
        BY <3>4, <3>6, <3>7 DEF TokensOf
      <4>3. \A a, b \in DOMAIN q : a + 1 = b + 1 => a = b
        BY <1>3, <3>3
      <4>4. Single(s, u) => Single(q, u)
        BY <3>5, <4>3 DEF Single
      <4> QED  BY <4>1, <4>2, <4>4
    <3>8. GetVal(s) = q
      BY <2>1, <2>3, <3>1, Zenon
    <3>9. ~(Len(s) <= 1)
      BY <1>3, <2>3
    <3> QED  BY <3>7, <3>8, <3>9, TokensAssumption
  <2>4. CASE ~(Len(s) > 1 /\ Head(s) = Empty)
    <3>1. GetVal(s) = s
      BY <2>1, <2>4, Zenon
    <3>2. Len(s) # 0
      BY <2>2, EmptySeq, <1>3
    <3>3. Len(s) <= 1 => Len(s) = 1
      BY <1>3, <3>2
    <3> QED  BY <3>1, <3>3
  <2> QED  BY <2>3, <2>4
<1> QED  BY <1>4, <1>5
-------------------------------------------------------------------------------
(***************************************************************************)
(* What Set and Remove leave in every field of the index, and in the two   *)
(* views of the names of an entity.                                        *)
(***************************************************************************)
\* What the calls of the database leave in every field.
LEMMA SetAt ==
    ASSUME NEW d, NEW f, NEW c, NEW v
    PROVE  /\ \A h, k : ~(h = f /\ k = c) /\ ~(h = c /\ k = v) =>
                 At(Set(d, f, c, v), h, k) = At(d, h, k)
           /\ f # c => /\ At(Set(d, f, c, v), f, c) = AddTo(At(d, f, c), v)
                       /\ At(Set(d, f, c, v), c, v) = AddTo(At(d, c, v), f)
<1>1. PICK x : x = AddTo(At(d, f, c), v)
  OBVIOUS
<1>2. PICK e : e = Put(d, f, c, x)
  OBVIOUS
<1>3. PICK y : y = AddTo(At(e, c, v), f)
  OBVIOUS
<1>4. Set(d, f, c, v) = Put(e, c, v, y)
  BY <1>1, <1>2, <1>3, Zenon DEF Set
<1>5. \A h, k : At(e, h, k) = IF f = h /\ c = k THEN x ELSE At(d, h, k)
  <2> TAKE h, k
  <2>1. At(Put(d, f, c, x), h, k) = IF f = h /\ c = k THEN x ELSE At(d, h, k)
    BY PutAt
  <2> QED  BY <1>2, <2>1, Zenon
<1>6. \A h, k : At(Set(d, f, c, v), h, k) = IF c = h /\ v = k THEN y ELSE At(e, h, k)
  <2> TAKE h, k
  <2>1. At(Put(e, c, v, y), h, k) = IF c = h /\ v = k THEN y ELSE At(e, h, k)
    BY PutAt
  <2> QED  BY <1>4, <2>1, Zenon
<1>7. f # c => At(e, c, v) = At(d, c, v)
  BY <1>5
<1>8. f # c => y = AddTo(At(d, c, v), f)
  BY <1>3, <1>7, Zenon
<1> QED  BY <1>1, <1>5, <1>6, <1>8

\* The entity's own field after a removal.
Without(s, v) ==
    IF NoReply(s) THEN s ELSE IF EraseFrom(s, v) = <<Empty>> THEN <<>> ELSE EraseFrom(s, v)

LEMMA EmptiedAt ==
    ASSUME NEW d, NEW f, NEW c, NEW v
    PROVE  At(Emptied(d, f, c, v), f, c) = Without(At(d, f, c), v)
<1>1. PICK s, r : s = At(d, f, c) /\ r = EraseFrom(s, v)
  OBVIOUS
<1>2. Emptied(d, f, c, v) = IF NoReply(s) THEN d
                            ELSE IF r = <<Empty>> THEN Drop(d, f, c) ELSE Put(d, f, c, r)
  BY <1>1, Zenon DEF Emptied
<1>3. Without(s, v) = IF NoReply(s) THEN s ELSE IF r = <<Empty>> THEN <<>> ELSE r
  BY <1>1, Zenon DEF Without
<1>4. At(Put(d, f, c, r), f, c) = r
  BY PutAt
<1>5. At(Drop(d, f, c), f, c) = <<>>
  <2>1. DOMAIN Drop(d, f, c) = DOMAIN d \ {<<f, c>>}
    BY Zenon DEF Drop
  <2>2. <<f, c>> \notin DOMAIN Drop(d, f, c)
    BY <2>1
  <2> QED  BY <2>2, Zenon DEF At
<1> QED  BY <1>1, <1>2, <1>3, <1>4, <1>5, Zenon

LEMMA RemoveAt ==
    ASSUME NEW d \in Indexes, NEW f \in Stored, NEW c \in Stored, NEW v \in Stored
    PROVE  /\ \A h, k : ~(h = f /\ k = c) /\ ~(h = c /\ k = v) =>
                 At(Remove(d, f, c, v), h, k) = At(d, h, k)
           /\ f # c => /\ At(Remove(d, f, c, v), f, c) = Without(At(d, f, c), v)
                       /\ At(Remove(d, f, c, v), c, v) = EraseFrom(GetVal(At(d, c, v)), f)
<1>1. PICK e : e = Emptied(d, f, c, v)
  OBVIOUS
<1>2. PICK y : y = EraseFrom(GetVal(At(e, c, v)), f)
  OBVIOUS
<1>3. Remove(d, f, c, v) = Put(e, c, v, y)
  BY <1>1, <1>2, Zenon DEF Remove, Emptied
<1>4. \A h, k : h # f \/ k # c => At(e, h, k) = At(d, h, k)
  <2>1. \A h, k : h # f \/ k # c => At(Emptied(d, f, c, v), h, k) = At(d, h, k)
    BY EmptiedIndex
  <2> QED  BY <1>1, <2>1, Zenon
<1>5. At(e, f, c) = Without(At(d, f, c), v)
  <2>1. At(Emptied(d, f, c, v), f, c) = Without(At(d, f, c), v)
    BY EmptiedAt
  <2> QED  BY <1>1, <2>1, Zenon
<1>6. \A h, k : At(Remove(d, f, c, v), h, k) = IF c = h /\ v = k THEN y ELSE At(e, h, k)
  <2> TAKE h, k
  <2>1. At(Put(e, c, v, y), h, k) = IF c = h /\ v = k THEN y ELSE At(e, h, k)
    BY PutAt
  <2> QED  BY <1>3, <2>1, Zenon
<1>7. f # c => y = EraseFrom(GetVal(At(d, c, v)), f)
  BY <1>2, <1>4, Zenon
<1> QED  BY <1>4, <1>5, <1>6, <1>7

LEMMA OneTexts ==
    /\ \A x, y : <<x>> = <<y>> <=> x = y
    /\ \A x : <<x>> # <<>> /\ TokensOf(<<x>>) = {x}
BY DEF TokensOf

\* Calls on other columns than "name" leave all names alone.
NamesKept(d, e) == \A n : NameField(e, n) = NameField(d, n)
NameKept(d, e, i) == At(e, <<i>>, <<"name">>) = At(d, <<i>>, <<"name">>)

LEMMA OtherSet ==
    ASSUME NEW d, NEW f, "name" \notin TokensOf(f), NEW c, c # "name", NEW v
    PROVE  /\ NamesKept(d, Set(d, f, <<c>>, <<v>>))
           /\ \A i : i # c => NameKept(d, Set(d, f, <<c>>, <<v>>), i)
<1>1. PICK C, V, H : C = <<c>> /\ V = <<v>> /\ H = <<"name">>
  OBVIOUS
<1>2. C # H /\ f # H
  BY <1>1, OneTexts, Zenon
<1>3. \A h, k : ~(h = f /\ k = C) /\ ~(h = C /\ k = V) => At(Set(d, f, C, V), h, k) = At(d, h, k)
  BY SetAt
<1>4. \A n : At(Set(d, f, C, V), H, <<n>>) = At(d, H, <<n>>)
  BY <1>2, <1>3, Zenon
<1>5. \A i : i # c => At(Set(d, f, C, V), <<i>>, H) = At(d, <<i>>, H)
  BY <1>1, <1>2, <1>3, OneTexts, Zenon
<1> QED  BY <1>1, <1>4, <1>5, Zenon DEF NamesKept, NameKept, NameField

LEMMA OtherRemoval ==
    ASSUME NEW d \in Indexes, NEW f \in Stored, "name" \notin TokensOf(f),
           NEW c \in Tokens, c # "name", NEW v \in Tokens
    PROVE  /\ NamesKept(d, Remove(d, f, <<c>>, <<v>>))
           /\ \A i : i # c => NameKept(d, Remove(d, f, <<c>>, <<v>>), i)
<1>1. PICK C, V, H : C = <<c>> /\ V = <<v>> /\ H = <<"name">>
  OBVIOUS
<1>2. C # H /\ f # H /\ C \in Stored /\ V \in Stored
  BY <1>1, OneTexts, OneToken, Zenon
<1>3. \A h, k : ~(h = f /\ k = C) /\ ~(h = C /\ k = V) => At(Remove(d, f, C, V), h, k) = At(d, h, k)
  BY <1>2, RemoveAt
<1>4. \A n : At(Remove(d, f, C, V), H, <<n>>) = At(d, H, <<n>>)
  BY <1>2, <1>3, Zenon
<1>5. \A i : i # c => At(Remove(d, f, C, V), <<i>>, H) = At(d, <<i>>, H)
  BY <1>1, <1>2, <1>3, OneTexts, Zenon
<1> QED  BY <1>1, <1>4, <1>5, Zenon DEF NamesKept, NameKept, NameField

\* The two views of the names of one entity.
NameOf(d, i) == At(d, <<i>>, <<"name">>)
Views(d, i, last) ==
    /\ NameOf(d, i) \in {<<>>, <<last>>}
    /\ \A n \in Files :
          /\ i \in TokensOf(NameField(d, n)) <=> NameOf(d, i) = <<n>>
          /\ Single(NameField(d, n), i)

\* A call on the names, as the two fields it changes.
LEMMA NameSet ==
    ASSUME NEW d, NEW f, "name" \notin TokensOf(f), NEW v
    PROVE  /\ NameField(Set(d, f, <<"name">>, <<v>>), v) = AddTo(NameField(d, v), f)
           /\ \A n : n # v => NameField(Set(d, f, <<"name">>, <<v>>), n) = NameField(d, n)
           /\ \A i : i # "name" => NameOf(Set(d, f, <<"name">>, <<v>>), i) =
                        IF f = <<i>> THEN AddTo(NameOf(d, i), <<v>>) ELSE NameOf(d, i)
<1>1. PICK V, H : V = <<v>> /\ H = <<"name">>
  OBVIOUS
<1>2. f # H
  BY <1>1, OneTexts, Zenon
<1>3. PICK e : e = Set(d, f, H, V)
  OBVIOUS
<1>4. /\ \A h, k : ~(h = f /\ k = H) /\ ~(h = H /\ k = V) => At(e, h, k) = At(d, h, k)
      /\ At(e, f, H) = AddTo(At(d, f, H), V)
      /\ At(e, H, V) = AddTo(At(d, H, V), f)
  BY <1>2, <1>3, SetAt
<1>5. \A n : n # v => At(e, H, <<n>>) = At(d, H, <<n>>)
  BY <1>1, <1>2, <1>4, OneTexts, Zenon
<1>6. \A i : i # "name" => At(e, <<i>>, H) = IF f = <<i>> THEN AddTo(At(d, <<i>>, H), V)
                                             ELSE At(d, <<i>>, H)
  BY <1>1, <1>4, OneTexts, Zenon
<1> QED  BY <1>1, <1>3, <1>4, <1>5, <1>6, Zenon DEF NameField, NameOf

LEMMA NameRemoved ==
    ASSUME NEW d \in Indexes, NEW f \in Stored, "name" \notin TokensOf(f), NEW v \in Tokens
    PROVE  /\ NameField(Remove(d, f, <<"name">>, <<v>>), v) = EraseFrom(GetVal(NameField(d, v)), f)
           /\ \A n : n # v => NameField(Remove(d, f, <<"name">>, <<v>>), n) = NameField(d, n)
           /\ \A i : i # "name" => NameOf(Remove(d, f, <<"name">>, <<v>>), i) =
                        IF f = <<i>> THEN Without(NameOf(d, i), <<v>>) ELSE NameOf(d, i)
<1>1. PICK V, H : V = <<v>> /\ H = <<"name">>
  OBVIOUS
<1>2. f # H /\ V \in Stored /\ H \in Stored
  <2>1. "name" \in Tokens
    BY FilesAssumption
  <2> QED  BY <1>1, <2>1, OneTexts, OneToken, Zenon
<1>3. PICK e : e = Remove(d, f, H, V)
  OBVIOUS
<1>4. /\ \A h, k : ~(h = f /\ k = H) /\ ~(h = H /\ k = V) => At(e, h, k) = At(d, h, k)
      /\ At(e, f, H) = Without(At(d, f, H), V)
      /\ At(e, H, V) = EraseFrom(GetVal(At(d, H, V)), f)
  BY <1>2, <1>3, RemoveAt
<1>5. \A n : n # v => At(e, H, <<n>>) = At(d, H, <<n>>)
  BY <1>1, <1>2, <1>4, OneTexts, Zenon
<1>6. \A i : i # "name" => At(e, <<i>>, H) = IF f = <<i>> THEN Without(At(d, <<i>>, H), V)
                                             ELSE At(d, <<i>>, H)
  BY <1>1, <1>4, OneTexts, Zenon
<1> QED  BY <1>1, <1>3, <1>4, <1>5, <1>6, Zenon DEF NameField, NameOf
-------------------------------------------------------------------------------
(***************************************************************************)
(* Steady: what holds of the index and of the calls under way, whatever    *)
(* overlaps. Nobody lists an attribute or writes into a column called like *)
(* an id, nothing is stored under "null", and an id not yet handed out     *)
(* stands nowhere.                                                         *)
(***************************************************************************)
IdTokens == TokensOf(Ids) \cup {Empty, Null}
AttrTokens == TokensOf(AttrNames) \cup {Empty, Null}

\* What holds of every index d, whatever happens: the attributes of the types,
\* the ids under the names of files, and that nothing is stored under "null".
AttrTexts(d) ==
    /\ \A h : TokensOf(At(d, h, <<"attrs">>)) \subseteq AttrTokens
    /\ \A k : At(d, <<"attrs">>, k) # <<>> => TokensOf(k) \subseteq AttrTokens \cup {"all"}
IdNames(d) == \A n \in Files : TokensOf(NameField(d, n)) \subseteq IdTokens
Nowhere(d) == \A k : At(d, <<Null>>, k) = <<>>
Unborn(d, i) == NameOf(d, i) = <<>> /\ \A n \in Files : i \notin TokensOf(NameField(d, n))

LEMMA IdFacts ==
    /\ TokensOf(Ids) \subseteq Tokens /\ IdTokens \subseteq Tokens
    /\ {"name", "attrs", "all", Empty, Null, Glued} \cap TokensOf(Ids) = {}
    /\ "name" \notin IdTokens /\ "attrs" \notin IdTokens
    /\ "attrs" \notin AttrTokens /\ AttrTokens \cap TokensOf(Ids) = {}
    /\ "name" # "attrs" /\ "name" # Null /\ "attrs" # Null /\ "attrs" # Empty
    /\ "name" \in Tokens /\ "attrs" \in Tokens /\ "all" \in Tokens
    /\ AttrTokens \subseteq Tokens
<1>1. TokensOf(Ids) \subseteq Tokens
  <2>1. Ids \in Seq(Tokens)
    <3>1. Tokens \ (Files \cup {"name"}) \subseteq Tokens
      OBVIOUS
    <3> QED  BY <3>1, FilesAssumption, SeqWiden
  <2> QED  BY <2>1, TextTokens DEF Text
<1>2. TokensOf(Ids) \cap (Words \cup {Empty, Null, Glued}) = {} /\ Empty \notin Words /\ Null \notin Words
  BY NamesAssumption
<1>3. {"name", "attrs", "all"} \subseteq Words
  BY DEF Words
<1>4. TokensOf(AttrNames) = {"name", "tags", "location", "ext", "experiment_id", "file_path", "S"}
  <2>1. DOMAIN AttrNames = 1..7
    BY DEF AttrNames
  <2>2. TokensOf(AttrNames) = {AttrNames[1], AttrNames[2], AttrNames[3], AttrNames[4],
                               AttrNames[5], AttrNames[6], AttrNames[7]}
    BY <2>1 DEF TokensOf
  <2> QED  BY <2>2 DEF AttrNames
<1>5. TokensOf(AttrNames) \subseteq Words /\ "attrs" \notin TokensOf(AttrNames)
  BY <1>4 DEF Words
<1>6. /\ "name" \in Tokens /\ "attrs" \in Tokens /\ "all" \in Tokens
      /\ Empty \in Tokens /\ Null \in Tokens /\ TokensOf(AttrNames) \subseteq Tokens
  BY <1>4, FilesAssumption, TokensAssumption
<1>7. "name" # "attrs"
  OBVIOUS
<1> QED  BY <1>1, <1>2, <1>3, <1>5, <1>6, <1>7 DEF IdTokens, AttrTokens

LEMMA SetSteady ==
    ASSUME NEW d \in Indexes, AttrTexts(d), IdNames(d), Nowhere(d),
           NEW f \in Stored, TokensOf(f) \subseteq IdTokens, f # <<Null>>,
           NEW c \in Tokens, c \notin TokensOf(Ids) \cup {"attrs", Null},
           NEW v \in Tokens, v # "attrs"
    PROVE  /\ AttrTexts(Set(d, f, <<c>>, <<v>>)) /\ IdNames(Set(d, f, <<c>>, <<v>>))
           /\ Nowhere(Set(d, f, <<c>>, <<v>>))
           /\ \A i \in TokensOf(Ids) : i \notin TokensOf(f) /\ Unborn(d, i) =>
                    Unborn(Set(d, f, <<c>>, <<v>>), i)
<1>0. PICK e : e = Set(d, f, <<c>>, <<v>>)
  OBVIOUS
<1>1. PICK C, V, A, N : C = <<c>> /\ V = <<v>> /\ A = <<"attrs">> /\ N = <<Null>>
  OBVIOUS
<1>2. "name" \notin TokensOf(f) /\ "attrs" \notin TokensOf(f)
  BY IdFacts
<1>3. C # A /\ V # A /\ f # A /\ C # N /\ f # N
  <2>1. TokensOf(C) = {c} /\ TokensOf(V) = {v} /\ TokensOf(A) = {"attrs"} /\ TokensOf(N) = {Null}
    BY <1>1, OneTexts, Zenon
  <2>2. f # N
    BY <1>1
  <2> QED  BY <1>2, <2>1, <2>2
<1>4. \A h, k : ~(h = f /\ k = C) /\ ~(h = C /\ k = V) => At(e, h, k) = At(d, h, k)
  <2>1. e = Set(d, f, C, V)
    BY <1>0, <1>1, Zenon
  <2>2. \A h, k : ~(h = f /\ k = C) /\ ~(h = C /\ k = V) =>
            At(Set(d, f, C, V), h, k) = At(d, h, k)
    BY SetAt
  <2> QED  BY <2>1, <2>2, Zenon
<1>5. AttrTexts(e)
  <2>1. /\ \A h : TokensOf(At(d, h, A)) \subseteq AttrTokens
        /\ \A k : At(d, A, k) # <<>> => TokensOf(k) \subseteq AttrTokens \cup {"all"}
    BY <1>1, Zenon DEF AttrTexts
  <2>2. \A h : At(e, h, A) = At(d, h, A)
    BY <1>3, <1>4, Zenon
  <2>3. \A k : At(e, A, k) = At(d, A, k)
    BY <1>3, <1>4, Zenon
  <2> QED  BY <1>1, <2>1, <2>2, <2>3, Zenon DEF AttrTexts
<1>6. Nowhere(e)
  BY <1>1, <1>3, <1>4, Zenon DEF Nowhere
<1>7. IdNames(e)
  <2> SUFFICES ASSUME NEW n \in Files PROVE TokensOf(NameField(e, n)) \subseteq IdTokens
    BY DEF IdNames
  <2>1. /\ c = "name" /\ v = n =>
              TokensOf(NameField(e, n)) \subseteq TokensOf(NameField(d, n)) \cup TokensOf(f)
        /\ ~(c = "name" /\ v = n) => NameField(e, n) = NameField(d, n)
    BY <1>0, <1>2, SetName
  <2>2. TokensOf(NameField(d, n)) \subseteq IdTokens
    BY DEF IdNames
  <2>3. CASE c = "name" /\ v = n
    <3>1. TokensOf(NameField(e, n)) \subseteq TokensOf(NameField(d, n)) \cup TokensOf(f)
      BY <2>1, <2>3, Zenon
    <3> QED  BY <2>2, <3>1
  <2>4. CASE ~(c = "name" /\ v = n)
    BY <2>1, <2>2, <2>4, Zenon
  <2> QED  BY <2>3, <2>4
<1>8. ASSUME NEW i \in TokensOf(Ids), i \notin TokensOf(f), Unborn(d, i)
      PROVE  Unborn(e, i)
  <2>1. i # "name" /\ i # c
    BY IdFacts
  <2>2. NameOf(e, i) = NameOf(d, i)
    <3>1. CASE c = "name"
      <4>1. NameOf(Set(d, f, <<"name">>, <<v>>), i) =
                IF f = <<i>> THEN AddTo(NameOf(d, i), <<v>>) ELSE NameOf(d, i)
        BY <1>2, <2>1, NameSet
      <4>2. f # <<i>>
        BY <1>8, OneTexts, Zenon
      <4> QED  BY <1>0, <3>1, <4>1, <4>2, Zenon
    <3>2. CASE c # "name"
      <4>1. NameKept(d, Set(d, f, <<c>>, <<v>>), i)
        BY <1>2, <2>1, <3>2, OtherSet
      <4> QED  BY <1>0, <4>1, Zenon DEF NameKept, NameOf
    <3> QED  BY <3>1, <3>2
  <2>3. \A n \in Files : i \notin TokensOf(NameField(e, n))
    <3> TAKE n \in Files
    <3>1. /\ c = "name" /\ v = n =>
                TokensOf(NameField(e, n)) \subseteq TokensOf(NameField(d, n)) \cup TokensOf(f)
          /\ ~(c = "name" /\ v = n) => NameField(e, n) = NameField(d, n)
      BY <1>0, <1>2, SetName
    <3>2. i \notin TokensOf(NameField(d, n))
      BY <1>8 DEF Unborn
    <3>3. CASE c = "name" /\ v = n
      <4>1. TokensOf(NameField(e, n)) \subseteq TokensOf(NameField(d, n)) \cup TokensOf(f)
        BY <3>1, <3>3, Zenon
      <4> QED  BY <1>8, <3>2, <4>1
    <3>4. CASE ~(c = "name" /\ v = n)
      BY <3>1, <3>2, <3>4, Zenon
    <3> QED  BY <3>3, <3>4
  <2> QED  BY <1>8, <2>2, <2>3, Zenon DEF Unborn
<1> QED  BY <1>0, <1>5, <1>6, <1>7, <1>8, Zenon

LEMMA WithoutTokens ==
    ASSUME NEW s \in Text, NEW v \in Stored
    PROVE  /\ Without(s, v) \in Text /\ TokensOf(Without(s, v)) \subseteq TokensOf(s) \cup {Empty}
           /\ s = <<>> => Without(s, v) = <<>>
<1>0. <<>> \in Text /\ TokensOf(<<>>) = {}
  BY EmptySeq DEF Text, TokensOf
<1>1. CASE NoReply(s)
  <2>1. Without(s, v) = s
    BY <1>1, Zenon DEF Without
  <2> QED  BY <2>1
<1>2. CASE ~NoReply(s)
  <2>1. s \in Stored /\ s # <<>>
    BY <1>2 DEF NoReply, Stored
  <2>2. PICK r : r = EraseFrom(s, v)
    OBVIOUS
  <2>3. r \in Stored /\ TokensOf(r) \subseteq TokensOf(s) \cup {Empty}
    BY <2>1, <2>2, EraseStored
  <2>4. Without(s, v) = r \/ Without(s, v) = <<>>
    BY <1>2, <2>2, Zenon DEF Without
  <2>5. CASE Without(s, v) = r
    BY <2>1, <2>3, <2>5 DEF Stored
  <2>6. CASE Without(s, v) = <<>>
    BY <1>0, <2>1, <2>6
  <2> QED  BY <2>4, <2>5, <2>6
<1> QED  BY <1>1, <1>2

LEMMA RemoveSteady ==
    ASSUME NEW d \in Indexes, AttrTexts(d), IdNames(d), Nowhere(d),
           NEW f \in Stored, TokensOf(f) \subseteq IdTokens,
           NEW c \in Tokens, NEW v \in Tokens, c = "name" \/ (c = "attrs" /\ v = "all")
    PROVE  /\ AttrTexts(Remove(d, f, <<c>>, <<v>>)) /\ IdNames(Remove(d, f, <<c>>, <<v>>))
           /\ Nowhere(Remove(d, f, <<c>>, <<v>>))
           /\ \A i \in TokensOf(Ids) : i \notin TokensOf(f) /\ Unborn(d, i) =>
                    Unborn(Remove(d, f, <<c>>, <<v>>), i)
<1>0. PICK e : e = Remove(d, f, <<c>>, <<v>>)
  OBVIOUS
<1>1. PICK C, V, A, N : C = <<c>> /\ V = <<v>> /\ A = <<"attrs">> /\ N = <<Null>>
  OBVIOUS
<1>2. "name" \notin TokensOf(f) /\ "attrs" \notin TokensOf(f)
  BY IdFacts
<1>3. C \in Stored /\ V \in Stored /\ TokensOf(V) = {v}
  BY <1>1, OneToken, Zenon
<1>4. f # A /\ C # N /\ f # C
  <2>1. c # Null /\ c \notin TokensOf(f)
    BY <1>2, IdFacts
  <2>2. TokensOf(C) = {c} /\ TokensOf(A) = {"attrs"} /\ TokensOf(N) = {Null}
    BY <1>1, OneTexts, Zenon
  <2> QED  BY <1>2, <2>1, <2>2
<1>5. /\ \A h, k : ~(h = f /\ k = C) /\ ~(h = C /\ k = V) => At(e, h, k) = At(d, h, k)
      /\ At(e, f, C) = Without(At(d, f, C), V)
      /\ At(e, C, V) = EraseFrom(GetVal(At(d, C, V)), f)
  <2>1. e = Remove(d, f, C, V)
    BY <1>0, <1>1, Zenon
  <2>2. /\ \A h, k : ~(h = f /\ k = C) /\ ~(h = C /\ k = V) =>
              At(Remove(d, f, C, V), h, k) = At(d, h, k)
        /\ At(Remove(d, f, C, V), f, C) = Without(At(d, f, C), V)
        /\ At(Remove(d, f, C, V), C, V) = EraseFrom(GetVal(At(d, C, V)), f)
    BY <1>3, <1>4, RemoveAt
  <2> QED  BY <2>1, <2>2, Zenon
<1>6. /\ TokensOf(At(e, f, C)) \subseteq TokensOf(At(d, f, C)) \cup {Empty}
      /\ At(d, f, C) = <<>> => At(e, f, C) = <<>>
  <2>1. At(d, f, C) \in Text
    BY AtText
  <2> QED  BY <1>3, <1>5, <2>1, WithoutTokens
<1>7. TokensOf(At(e, C, V)) \subseteq TokensOf(At(d, C, V)) \cup {Empty, Null}
  <2>1. PICK s : s = At(d, C, V)
    OBVIOUS
  <2>2. s \in Text
    BY <2>1, AtText
  <2>3. PICK g : g = GetVal(s)
    OBVIOUS
  <2>4. g \in Stored /\ TokensOf(g) \subseteq TokensOf(s) \cup {Null}
    BY <2>2, <2>3, GetValStored
  <2>5. TokensOf(EraseFrom(g, f)) \subseteq TokensOf(g) \cup {Empty}
    BY <2>4, EraseStored
  <2>6. At(e, C, V) = EraseFrom(g, f)
    BY <1>5, <2>1, <2>3, Zenon
  <2> QED  BY <2>1, <2>4, <2>5, <2>6
<1>8. \A h, k : TokensOf(At(e, h, k)) \subseteq TokensOf(At(d, h, k)) \cup {Empty, Null}
  <2> TAKE h, k
  <2>1. CASE h = f /\ k = C
    BY <1>6, <2>1
  <2>2. CASE h = C /\ k = V
    BY <1>7, <2>2
  <2>3. CASE ~(h = f /\ k = C) /\ ~(h = C /\ k = V)
    <3>1. At(e, h, k) = At(d, h, k)
      BY <1>5, <2>3, Zenon
    <3> QED  BY <3>1
  <2> QED  BY <2>1, <2>2, <2>3, Zenon
<1>9. AttrTexts(e)
  <2>1. /\ \A h : TokensOf(At(d, h, A)) \subseteq AttrTokens
        /\ \A k : At(d, A, k) # <<>> => TokensOf(k) \subseteq AttrTokens \cup {"all"}
    BY <1>1, Zenon DEF AttrTexts
  <2>2. {Empty, Null} \subseteq AttrTokens
    BY DEF AttrTokens
  <2>3. \A h : TokensOf(At(e, h, A)) \subseteq AttrTokens
    BY <1>8, <2>1, <2>2
  <2>4. ASSUME NEW k, At(e, A, k) # <<>> PROVE TokensOf(k) \subseteq AttrTokens \cup {"all"}
    <3>1. CASE C = A /\ k = V
      <4>1. v = "all"
        BY <1>1, <3>1, OneTexts, IdFacts, Zenon
      <4>2. TokensOf(k) = {"all"}
        BY <1>3, <3>1, <4>1
      <4> QED  BY <4>2
    <3>2. CASE ~(C = A /\ k = V)
      <4>1. At(e, A, k) = At(d, A, k)
        BY <1>4, <1>5, <3>2, Zenon
      <4> QED  BY <2>1, <2>4, <4>1, Zenon
    <3> QED  BY <3>1, <3>2
  <2> QED  BY <1>1, <2>3, <2>4, Zenon DEF AttrTexts
<1>10. Nowhere(e)
  <2> SUFFICES ASSUME NEW k PROVE At(e, N, k) = <<>>
    BY <1>1, Zenon DEF Nowhere
  <2>1. At(d, N, k) = <<>>
    BY <1>1, Zenon DEF Nowhere
  <2>2. CASE f = N /\ k = C
    BY <1>6, <2>1, <2>2, Zenon
  <2>3. CASE ~(f = N /\ k = C)
    BY <1>4, <1>5, <2>1, <2>3, Zenon
  <2> QED  BY <2>2, <2>3
<1>11. \A n : TokensOf(NameField(e, n)) \subseteq TokensOf(NameField(d, n)) \cup {Empty, Null}
  BY <1>8 DEF NameField
<1>12. IdNames(e)
  BY <1>11 DEF IdNames, IdTokens
<1>13. ASSUME NEW i \in TokensOf(Ids), i \notin TokensOf(f), Unborn(d, i)
       PROVE  Unborn(e, i)
  <2>1. i # "name" /\ i # c /\ i \notin {Empty, Null}
    BY IdFacts
  <2>2. NameOf(e, i) = NameOf(d, i)
    <3>1. <<i>> # f /\ <<i>> # C
      BY <1>1, <1>13, <2>1, OneTexts, Zenon
    <3> QED  BY <1>5, <3>1, Zenon DEF NameOf
  <2>3. \A n \in Files : i \notin TokensOf(NameField(e, n))
    BY <1>11, <1>13, <2>1 DEF Unborn
  <2> QED  BY <1>13, <2>2, <2>3, Zenon DEF Unborn
<1> QED  BY <1>0, <1>9, <1>10, <1>12, <1>13, Zenon

\* A call writes into no column called like an id, and lists no attribute.
CallOK(call) ==
    /\ call[1] = "set" => call[2] \notin TokensOf(Ids) \cup {"attrs", Null} /\ call[3] # "attrs"
    /\ call[1] = "remove" => call[2] = "name" \/ (call[2] = "attrs" /\ call[3] = "all")
AllOK(calls) == \A call \in TokensOf(calls) : CallOK(call)

Steady ==
    /\ AttrTexts(db) /\ IdNames(db) /\ Nowhere(db)
    /\ \A t \in Threads : AllOK(todo[t]) /\ TokensOf(id[t]) \subseteq IdTokens
    /\ \A k \in next..Len(Ids) :
          Unborn(db, Ids[k]) /\ \A t \in Threads : Ids[k] \notin TokensOf(id[t])

LEMMA SteadyParts ==
    ASSUME FilesInv, Steady
    PROVE  /\ AttrTexts(db) /\ IdNames(db) /\ Nowhere(db)
           /\ \A t \in Threads : AllOK(todo[t]) /\ TokensOf(id[t]) \subseteq IdTokens
           /\ \A k \in next..Len(Ids) :
                 /\ Unborn(db, Ids[k]) /\ \A t \in Threads : Ids[k] \notin TokensOf(id[t])
                 /\ k \in DOMAIN Ids /\ Ids[k] \in TokensOf(Ids)
           /\ next \in 1..(Len(Ids) + 1) /\ Len(Ids) \in Nat
<1>1. /\ AttrTexts(db) /\ IdNames(db) /\ Nowhere(db)
      /\ \A t \in Threads : AllOK(todo[t]) /\ TokensOf(id[t]) \subseteq IdTokens
      /\ \A k \in next..Len(Ids) :
            Unborn(db, Ids[k]) /\ \A t \in Threads : Ids[k] \notin TokensOf(id[t])
  BY Zenon DEF Steady
<1>2. next \in 1..(Len(Ids) + 1) /\ Len(Ids) \in Nat /\ DOMAIN Ids = 1..Len(Ids)
  BY InvParts, FilesAssumption, LenProperties DEF IdsOK
<1>3. \A k \in next..Len(Ids) : k \in DOMAIN Ids
  BY <1>2
<1>4. \A k \in DOMAIN Ids : Ids[k] \in TokensOf(Ids)
  BY DEF TokensOf
<1> QED  BY <1>1, <1>2, <1>3, <1>4

LEMMA SteadyStep ==
    ASSUME FilesInv, Steady, NEW t \in Threads,
           AttrTexts(db'), IdNames(db'), Nowhere(db'),
           \A u \in Threads \ {t} : todo'[u] = todo[u] /\ id'[u] = id[u],
           AllOK(todo'[t]), TokensOf(id'[t]) \subseteq IdTokens,
           next' \in Nat, next' >= next,
           \A k \in next'..Len(Ids) : Unborn(db', Ids[k]) /\ Ids[k] \notin TokensOf(id'[t])
    PROVE  Steady'
<1>1. \A u \in Threads : AllOK(todo'[u]) /\ TokensOf(id'[u]) \subseteq IdTokens
  BY SteadyParts, Zenon
<1>2. \A k \in next'..Len(Ids) : \A u \in Threads : Ids[k] \notin TokensOf(id'[u])
  <2> TAKE k \in next'..Len(Ids)
  <2>1. k \in next..Len(Ids)
    BY SteadyParts
  <2> QED  BY <2>1, SteadyParts, Zenon
<1> QED  BY <1>1, <1>2, Zenon DEF Steady

LEMMA NullFacts ==
    /\ TokensOf(<<Null>>) = {Null} /\ TokensOf(<<Null>>) \subseteq IdTokens
    /\ \A i \in TokensOf(Ids) : i \notin TokensOf(<<Null>>)
<1>1. TokensOf(<<Null>>) = {Null}
  BY OneTexts, Zenon
<1> QED  BY <1>1, IdFacts DEF IdTokens

\* What an operation reads as fileid.
Read(fileid, t) == fileid \in {id[t], <<Null>>} \cup {Lookup(<<"name">>, <<n>>) : n \in Files}

LEMMA ReadIds ==
    ASSUME FilesInv, Steady, NEW t \in Threads, NEW fileid, Read(fileid, t)
    PROVE  /\ TokensOf(fileid) \subseteq IdTokens
           /\ \A k \in next..Len(Ids) : Ids[k] \notin TokensOf(fileid)
<1>1. CASE fileid = id[t]
  BY <1>1, SteadyParts
<1>2. CASE fileid = <<Null>>
  BY <1>2, NullFacts, SteadyParts
<1>3. CASE \E n \in Files : fileid = Lookup(<<"name">>, <<n>>)
  <2>1. PICK n \in Files : fileid = Lookup(<<"name">>, <<n>>)
    BY <1>3
  <2>2. TokensOf(fileid) \subseteq TokensOf(NameField(db, n)) \cup {Null}
    BY <2>1, LookupStored, InvParts DEF NameField
  <2>3. TokensOf(NameField(db, n)) \subseteq IdTokens
    BY SteadyParts DEF IdNames
  <2>4. \A k \in next..Len(Ids) : Ids[k] \notin TokensOf(NameField(db, n)) /\ Ids[k] # Null
    BY SteadyParts, IdFacts DEF Unborn
  <2> QED  BY <2>2, <2>3, <2>4 DEF IdTokens
<1> QED  BY <1>1, <1>2, <1>3 DEF Read

LEMMA SteadyStart ==
    ASSUME FilesInv, Steady, NEW t \in Threads, NEW fileid, NEW calls,
           Start(t, fileid, calls), Read(fileid, t), AllOK(calls)
    PROVE  Steady'
<1>1. /\ id' = [id EXCEPT ![t] = fileid] /\ todo' = [todo EXCEPT ![t] = calls]
      /\ db' = db /\ next' = next
  BY DEF Start
<1>2. id \in [Threads -> Stored] /\ todo \in [Threads -> Seq(Calls)]
  BY InvParts
<1>3. /\ id'[t] = fileid /\ todo'[t] = calls
      /\ \A u \in Threads \ {t} : todo'[u] = todo[u] /\ id'[u] = id[u]
  BY <1>1, <1>2
<1>4. AttrTexts(db') /\ IdNames(db') /\ Nowhere(db')
  BY <1>1, SteadyParts, Zenon
<1>5. next' \in Nat /\ next' >= next
  BY <1>1, SteadyParts
<1>6. TokensOf(id'[t]) \subseteq IdTokens
  BY <1>3, ReadIds, Zenon
<1>7. \A k \in next'..Len(Ids) : Unborn(db', Ids[k]) /\ Ids[k] \notin TokensOf(id'[t])
  BY <1>1, <1>3, ReadIds, SteadyParts, Zenon
<1>8. AllOK(todo'[t])
  BY <1>3
<1> QED  BY <1>3, <1>4, <1>5, <1>6, <1>7, <1>8, SteadyStep

\* The calls that are left after a turn.
LEMMA TurnCalls ==
    ASSUME FilesInv, NEW t \in Threads, NEW call, NEW more \in Seq(Calls), Turn(t, call, more)
    PROVE  /\ todo'[t] = more \o Tail(todo[t]) /\ \A u \in Threads \ {t} : todo'[u] = todo[u]
           /\ TokensOf(todo'[t]) \subseteq TokensOf(more) \cup TokensOf(todo[t])
           /\ todo[t] \in Seq(Calls) /\ todo[t] # <<>> /\ Head(todo[t]) \in Calls
           /\ Head(todo[t]) \in TokensOf(todo[t]) /\ Head(todo[t])[1] = call
<1>1. /\ todo[t] # <<>> /\ todo' = [todo EXCEPT ![t] = more \o Tail(@)] /\ Head(todo[t])[1] = call
  BY DEF Turn, Due
<1>2. todo \in [Threads -> Seq(Calls)]
  BY InvParts
<1>3. todo'[t] = more \o Tail(todo[t]) /\ \A u \in Threads \ {t} : todo'[u] = todo[u]
  BY <1>1, <1>2
<1>4. PICK s : s = todo[t]
  OBVIOUS
<1>5. s \in Seq(Calls) /\ s # <<>>
  BY <1>1, <1>2, <1>4
<1>6. Head(s) \in Calls /\ TokensOf(more \o Tail(s)) \subseteq TokensOf(more) \cup TokensOf(s)
  BY <1>5, NextCalls
<1>7. Head(s) \in TokensOf(s)
  <2>1. 1 \in DOMAIN s /\ Head(s) = s[1]
    BY <1>5, LenProperties, EmptySeq
  <2> QED  BY <2>1 DEF TokensOf
<1> QED  BY <1>1, <1>3, <1>4, <1>5, <1>6, <1>7, Zenon

LEMMA ProceedIds ==
    ASSUME FilesInv, Steady, NEW t \in Threads, NEW call, NEW more, Proceed(t, call, more)
    PROVE  /\ \A u \in Threads \ {t} : id'[u] = id[u]
           /\ id'[t] = id[t] \/ (id'[t] = <<Null>> /\ todo'[t] = <<>>)
           /\ TokensOf(id'[t]) \subseteq IdTokens
           /\ \A k \in next..Len(Ids) : Ids[k] \notin TokensOf(id'[t])
<1>1. id' = IF todo'[t] = <<>> THEN [id EXCEPT ![t] = <<Null>>] ELSE id
  BY DEF Proceed
<1>2. id \in [Threads -> Stored]
  BY InvParts
<1>3. /\ \A u \in Threads \ {t} : id'[u] = id[u]
      /\ id'[t] = id[t] \/ (id'[t] = <<Null>> /\ todo'[t] = <<>>)
  <2>1. CASE todo'[t] = <<>>
    BY <1>1, <1>2, <2>1
  <2>2. CASE todo'[t] # <<>>
    <3>1. id' = id
      BY <1>1, <2>2
    <3> QED  BY <3>1
  <2> QED  BY <2>1, <2>2
<1>4. Read(id'[t], t)
  BY <1>3 DEF Read
<1>5. /\ TokensOf(id'[t]) \subseteq IdTokens
      /\ \A k \in next..Len(Ids) : Ids[k] \notin TokensOf(id'[t])
  <2>1. PICK f : f = id'[t]
    OBVIOUS
  <2>2. Read(f, t)
    BY <1>4, <2>1
  <2> QED  BY <2>1, <2>2, ReadIds
<1> QED  BY <1>3, <1>5

LEMMA SteadyTurn ==
    ASSUME FilesInv, Steady, NEW t \in Threads, NEW call, NEW more \in Seq(Calls),
           Proceed(t, call, more), AllOK(more), UNCHANGED <<db, next>>
    PROVE  Steady'
<1>1. Turn(t, call, more)
  BY DEF Proceed
<1>2. /\ TokensOf(todo'[t]) \subseteq TokensOf(more) \cup TokensOf(todo[t])
      /\ \A u \in Threads \ {t} : todo'[u] = todo[u]
  BY <1>1, TurnCalls
<1>3. AllOK(todo'[t])
  BY <1>2, SteadyParts DEF AllOK
<1>4. AttrTexts(db') /\ IdNames(db') /\ Nowhere(db')
  BY SteadyParts, Zenon
<1>5. next' \in Nat /\ next' >= next
  BY SteadyParts
<1>6. /\ TokensOf(id'[t]) \subseteq IdTokens
      /\ \A u \in Threads \ {t} : todo'[u] = todo[u] /\ id'[u] = id[u]
  BY <1>2, ProceedIds
<1>7. \A k \in next'..Len(Ids) : Unborn(db', Ids[k]) /\ Ids[k] \notin TokensOf(id'[t])
  <2>1. \A k \in next..Len(Ids) : Unborn(db, Ids[k]) /\ Ids[k] \notin TokensOf(id'[t])
    BY SteadyParts, ProceedIds, Zenon
  <2> QED  BY <2>1
<1> QED  BY <1>3, <1>4, <1>5, <1>6, <1>7, SteadyStep

\* The id that a new entity gets.
LEMMA NewId ==
    ASSUME FilesInv, Steady, NEW i, i = Ids[next], next <= Len(Ids)
    PROVE  /\ i \in TokensOf(Ids) /\ i \in Tokens /\ Unborn(db, i)
           /\ <<i>> \in Stored /\ TokensOf(<<i>>) = {i} /\ Len(<<i>>) = 1 /\ <<i>> # <<Null>>
           /\ \A k \in (next + 1)..Len(Ids) : Ids[k] # i /\ Ids[k] \in TokensOf(Ids) /\ Unborn(db, Ids[k])
           /\ \A t \in Threads : i \notin TokensOf(id[t])
<1>1. next \in next..Len(Ids)
  BY SteadyParts
<1>2. i \in TokensOf(Ids) /\ Unborn(db, i) /\ \A t \in Threads : i \notin TokensOf(id[t])
  BY <1>1, SteadyParts, Zenon
<1>3. i \in Tokens /\ i # Null
  BY <1>2, IdFacts
<1>4. <<i>> \in Stored /\ TokensOf(<<i>>) = {i} /\ Len(<<i>>) = 1 /\ <<i>> # <<Null>>
  BY <1>3, OneToken, OneTexts, Zenon
<1>5. ASSUME NEW k \in (next + 1)..Len(Ids)
      PROVE  Ids[k] # i /\ Ids[k] \in TokensOf(Ids) /\ Unborn(db, Ids[k])
  <2>1. k \in next..Len(Ids) /\ k # next
    BY SteadyParts
  <2>2. k \in DOMAIN Ids /\ next \in DOMAIN Ids
    BY <1>1, <2>1, SteadyParts, Zenon
  <2>3. Ids[k] # Ids[next]
    BY <2>1, <2>2, NamesAssumption, Zenon
  <2> QED  BY <2>1, <2>3, SteadyParts, Zenon
<1> QED  BY <1>2, <1>3, <1>4, <1>5

\* Setting a value, for an entity that exists or a new one.
LEMMA SteadyMake ==
    ASSUME FilesInv, Steady, NEW t \in Threads, MakeEntity(t)
    PROVE  Steady'
<1>1. PICK more, i, v : more = <<>> /\ i = Ids[next] /\ v = Head(todo[t])[3]
  OBVIOUS
<1>2. PICK f : f = <<i>>
  OBVIOUS
<1>3. /\ Turn(t, "make", more) /\ NewEntity(t, "name", v) /\ id' = [id EXCEPT ![t] = f]
  BY <1>1, <1>2, Zenon DEF MakeEntity
<1>4. more \in Seq(Calls) /\ TokensOf(more) = {}
  BY <1>1 DEF TokensOf
<1>5. /\ TokensOf(todo'[t]) \subseteq TokensOf(todo[t])
      /\ \A u \in Threads \ {t} : todo'[u] = todo[u]
      /\ Head(todo[t]) \in Calls /\ Head(todo[t])[1] = "make"
  BY <1>3, <1>4, TurnCalls
<1>6. v \in Files /\ v \in Tokens /\ v # "attrs"
  <2>1. v \in Files
    BY <1>1, <1>5, CallParts
  <2> QED  BY <2>1, FilesAssumption, NamesAssumption
<1>7. /\ next <= Len(Ids) /\ db' = Set(db, f, <<"name">>, <<v>>) /\ next' = next + 1
  BY <1>1, <1>2, <1>3, Zenon DEF NewEntity
<1>8. /\ i \in TokensOf(Ids) /\ f \in Stored /\ TokensOf(f) = {i} /\ f # <<Null>>
      /\ \A k \in (next + 1)..Len(Ids) : Ids[k] # i /\ Ids[k] \in TokensOf(Ids) /\ Unborn(db, Ids[k])
  BY <1>1, <1>2, <1>7, NewId, Zenon
<1>9. db \in Indexes /\ id \in [Threads -> Stored]
  BY InvParts
<1>10. /\ AttrTexts(db') /\ IdNames(db') /\ Nowhere(db')
       /\ \A j \in TokensOf(Ids) : j \notin TokensOf(f) /\ Unborn(db, j) => Unborn(db', j)
  <2>1. AttrTexts(db) /\ IdNames(db) /\ Nowhere(db)
    BY SteadyParts
  <2>2. TokensOf(f) \subseteq IdTokens
    BY <1>8 DEF IdTokens
  <2>3. "name" \in Tokens /\ "name" \notin TokensOf(Ids) \cup {"attrs", Null}
    BY IdFacts
  <2>4. /\ AttrTexts(Set(db, f, <<"name">>, <<v>>)) /\ IdNames(Set(db, f, <<"name">>, <<v>>))
        /\ Nowhere(Set(db, f, <<"name">>, <<v>>))
        /\ \A j \in TokensOf(Ids) : j \notin TokensOf(f) /\ Unborn(db, j) =>
                 Unborn(Set(db, f, <<"name">>, <<v>>), j)
    BY <1>6, <1>8, <1>9, <2>1, <2>2, <2>3, SetSteady
  <2> QED  BY <1>7, <2>4, Zenon
<1>11. AllOK(todo'[t])
  BY <1>5, SteadyParts DEF AllOK
<1>12. id'[t] = f /\ \A u \in Threads \ {t} : id'[u] = id[u]
  BY <1>3, <1>9
<1>13. next' \in Nat /\ next' >= next
  BY <1>7, SteadyParts
<1>14. \A k \in next'..Len(Ids) : Unborn(db', Ids[k]) /\ Ids[k] \notin TokensOf(id'[t])
  BY <1>7, <1>8, <1>10, <1>12
<1>15. TokensOf(id'[t]) \subseteq IdTokens
  BY <1>8, <1>12 DEF IdTokens
<1> QED  BY <1>5, <1>10, <1>11, <1>12, <1>13, <1>14, <1>15, SteadyStep

\* What a turn without further calls, of a thread that keeps its file id, leaves.
LEMMA LastParts ==
    ASSUME FilesInv, Steady, NEW t \in Threads, NEW call, Proceed(t, call, <<>>)
    PROVE  /\ Turn(t, call, <<>>) /\ todo'[t] = <<>> \o Tail(todo[t])
           /\ TokensOf(todo'[t]) \subseteq TokensOf(todo[t])
           /\ \A u \in Threads \ {t} : todo'[u] = todo[u] /\ id'[u] = id[u]
           /\ todo[t] \in Seq(Calls) /\ todo[t] # <<>>
           /\ Head(todo[t]) \in Calls /\ Head(todo[t])[1] = call /\ CallOK(Head(todo[t]))
           /\ Head(todo[t]) \in TokensOf(todo[t]) /\ AllOK(todo'[t])
<1>1. PICK more : more = <<>>
  OBVIOUS
<1>2. more \in Seq(Calls) /\ TokensOf(more) = {}
  BY <1>1 DEF TokensOf
<1>3. Proceed(t, call, more)
  BY <1>1, Zenon
<1>4. Turn(t, call, more)
  BY <1>3 DEF Proceed
<1>5. /\ todo'[t] = more \o Tail(todo[t]) /\ TokensOf(todo'[t]) \subseteq TokensOf(todo[t])
      /\ todo[t] \in Seq(Calls) /\ todo[t] # <<>>
      /\ \A u \in Threads \ {t} : todo'[u] = todo[u]
      /\ Head(todo[t]) \in Calls /\ Head(todo[t])[1] = call /\ Head(todo[t]) \in TokensOf(todo[t])
  BY <1>2, <1>4, TurnCalls
<1>6. \A u \in Threads \ {t} : id'[u] = id[u]
  BY <1>3, ProceedIds
<1>7. AllOK(todo'[t]) /\ CallOK(Head(todo[t]))
  BY <1>5, SteadyParts DEF AllOK
<1> QED  BY <1>1, <1>4, <1>5, <1>6, <1>7, Zenon

LEMMA SteadySet ==
    ASSUME FilesInv, Steady, NEW t \in Threads, SetVal(t)
    PROVE  Steady'
<1>1. PICK call, c, v : call = Head(todo[t]) /\ c = call[2] /\ v = call[3]
  OBVIOUS
<1>2. /\ Proceed(t, "set", <<>>)
      /\ IF id[t] = <<Null>> THEN NewEntity(t, c, v)
         ELSE db' = Set(db, id[t], <<c>>, <<v>>) /\ next' = next
  BY <1>1, Zenon DEF SetVal
<1>3. /\ \A u \in Threads \ {t} : todo'[u] = todo[u] /\ id'[u] = id[u]
      /\ call \in Calls /\ call[1] = "set" /\ CallOK(call) /\ AllOK(todo'[t])
  BY <1>1, <1>2, LastParts, Zenon
<1>4. /\ TokensOf(id'[t]) \subseteq IdTokens
      /\ \A k \in next..Len(Ids) : Ids[k] \notin TokensOf(id'[t])
  BY <1>2, ProceedIds
<1>5. c \in Tokens /\ v \in Tokens /\ c \notin TokensOf(Ids) \cup {"attrs", Null} /\ v # "attrs"
  <2>1. call \in SetCalls
    BY <1>3, CallParts
  <2>2. call[2] \in Tokens /\ call[3] \in Tokens
    BY <2>1 DEF SetCalls
  <2> QED  BY <1>1, <1>3, <2>2 DEF CallOK
<1>6. db \in Indexes /\ id \in [Threads -> Stored]
  BY InvParts
<1>7. AttrTexts(db) /\ IdNames(db) /\ Nowhere(db) /\ next \in Nat
  BY SteadyParts
<1>8. CASE id[t] = <<Null>>
  <2>1. PICK i : i = Ids[next]
    OBVIOUS
  <2>2. PICK f : f = <<i>>
    OBVIOUS
  <2>3. next <= Len(Ids) /\ db' = Set(db, f, <<c>>, <<v>>) /\ next' = next + 1
    BY <1>2, <1>8, <2>1, <2>2, Zenon DEF NewEntity
  <2>4. /\ i \in TokensOf(Ids) /\ f \in Stored /\ TokensOf(f) = {i} /\ f # <<Null>>
        /\ \A k \in (next + 1)..Len(Ids) : Ids[k] # i /\ Ids[k] \in TokensOf(Ids) /\ Unborn(db, Ids[k])
    BY <2>1, <2>2, <2>3, NewId, Zenon
  <2>5. TokensOf(f) \subseteq IdTokens
    BY <2>4 DEF IdTokens
  <2>6. /\ AttrTexts(db') /\ IdNames(db') /\ Nowhere(db')
        /\ \A j \in TokensOf(Ids) : j \notin TokensOf(f) /\ Unborn(db, j) => Unborn(db', j)
    <3>1. /\ AttrTexts(Set(db, f, <<c>>, <<v>>)) /\ IdNames(Set(db, f, <<c>>, <<v>>))
          /\ Nowhere(Set(db, f, <<c>>, <<v>>))
          /\ \A j \in TokensOf(Ids) : j \notin TokensOf(f) /\ Unborn(db, j) =>
                   Unborn(Set(db, f, <<c>>, <<v>>), j)
      BY <1>5, <1>6, <1>7, <2>4, <2>5, SetSteady
    <3> QED  BY <2>3, <3>1, Zenon
  <2>7. next' \in Nat /\ next' >= next
    BY <1>7, <2>3
  <2>8. \A k \in next'..Len(Ids) : Unborn(db', Ids[k]) /\ Ids[k] \notin TokensOf(id'[t])
    <3> TAKE k \in next'..Len(Ids)
    <3>1. k \in (next + 1)..Len(Ids) /\ k \in next..Len(Ids)
      BY <1>7, <2>3, SteadyParts
    <3> QED  BY <1>4, <2>4, <2>6, <3>1
  <2> QED  BY <1>3, <1>4, <2>6, <2>7, <2>8, SteadyStep
<1>9. CASE id[t] # <<Null>>
  <2>1. PICK f : f = id[t]
    OBVIOUS
  <2>2. db' = Set(db, f, <<c>>, <<v>>) /\ next' = next
    BY <1>2, <1>9, <2>1, Zenon
  <2>3. /\ f \in Stored /\ f # <<Null>> /\ TokensOf(f) \subseteq IdTokens
        /\ \A k \in next..Len(Ids) :
              Ids[k] \notin TokensOf(f) /\ Ids[k] \in TokensOf(Ids) /\ Unborn(db, Ids[k])
    BY <1>6, <1>9, <2>1, SteadyParts
  <2>4. /\ AttrTexts(db') /\ IdNames(db') /\ Nowhere(db')
        /\ \A j \in TokensOf(Ids) : j \notin TokensOf(f) /\ Unborn(db, j) => Unborn(db', j)
    <3>1. /\ AttrTexts(Set(db, f, <<c>>, <<v>>)) /\ IdNames(Set(db, f, <<c>>, <<v>>))
          /\ Nowhere(Set(db, f, <<c>>, <<v>>))
          /\ \A j \in TokensOf(Ids) : j \notin TokensOf(f) /\ Unborn(db, j) =>
                   Unborn(Set(db, f, <<c>>, <<v>>), j)
      BY <1>5, <1>6, <1>7, <2>3, SetSteady
    <3> QED  BY <2>2, <3>1, Zenon
  <2>5. next' \in Nat /\ next' >= next
    BY <1>7, <2>2
  <2>6. \A k \in next'..Len(Ids) : Unborn(db', Ids[k]) /\ Ids[k] \notin TokensOf(id'[t])
    BY <1>4, <2>2, <2>3, <2>4, Zenon
  <2> QED  BY <1>3, <1>4, <2>4, <2>5, <2>6, SteadyStep
<1> QED  BY <1>8, <1>9

LEMMA SteadyRemove ==
    ASSUME FilesInv, Steady, NEW t \in Threads, RemoveVal(t)
    PROVE  Steady'
<1>1. PICK call, c, v, f : call = Head(todo[t]) /\ c = call[2] /\ v = call[3] /\ f = id[t]
  OBVIOUS
<1>2. Proceed(t, "remove", <<>>) /\ db' = Remove(db, f, <<c>>, <<v>>) /\ next' = next
  BY <1>1, Zenon DEF RemoveVal
<1>3. /\ \A u \in Threads \ {t} : todo'[u] = todo[u] /\ id'[u] = id[u]
      /\ call \in Calls /\ call[1] = "remove" /\ CallOK(call) /\ AllOK(todo'[t])
  BY <1>1, <1>2, LastParts, Zenon
<1>4. /\ TokensOf(id'[t]) \subseteq IdTokens
      /\ \A k \in next..Len(Ids) : Ids[k] \notin TokensOf(id'[t])
  BY <1>2, ProceedIds
<1>5. c \in Tokens /\ v \in Tokens /\ (c = "name" \/ (c = "attrs" /\ v = "all"))
  <2>1. call \in {"remove"} \X Tokens \X Tokens
    BY <1>3, CallParts
  <2>2. call[2] \in Tokens /\ call[3] \in Tokens
    BY <2>1
  <2> QED  BY <1>1, <1>3, <2>2 DEF CallOK
<1>6. db \in Indexes /\ id \in [Threads -> Stored]
  BY InvParts
<1>7. AttrTexts(db) /\ IdNames(db) /\ Nowhere(db) /\ next \in Nat
  BY SteadyParts
<1>8. /\ f \in Stored /\ TokensOf(f) \subseteq IdTokens
      /\ \A k \in next..Len(Ids) :
            Ids[k] \notin TokensOf(f) /\ Ids[k] \in TokensOf(Ids) /\ Unborn(db, Ids[k])
  BY <1>1, <1>6, SteadyParts
<1>9. /\ AttrTexts(db') /\ IdNames(db') /\ Nowhere(db')
      /\ \A j \in TokensOf(Ids) : j \notin TokensOf(f) /\ Unborn(db, j) => Unborn(db', j)
  <2>1. /\ AttrTexts(Remove(db, f, <<c>>, <<v>>)) /\ IdNames(Remove(db, f, <<c>>, <<v>>))
        /\ Nowhere(Remove(db, f, <<c>>, <<v>>))
        /\ \A j \in TokensOf(Ids) : j \notin TokensOf(f) /\ Unborn(db, j) =>
                 Unborn(Remove(db, f, <<c>>, <<v>>), j)
    BY <1>5, <1>6, <1>7, <1>8, RemoveSteady
  <2> QED  BY <1>2, <2>1, Zenon
<1>10. next' \in Nat /\ next' >= next
  BY <1>2, <1>7
<1>11. \A k \in next'..Len(Ids) : Unborn(db', Ids[k]) /\ Ids[k] \notin TokensOf(id'[t])
  BY <1>2, <1>4, <1>8, <1>9, Zenon
<1> QED  BY <1>3, <1>4, <1>9, <1>10, <1>11, SteadyStep
-------------------------------------------------------------------------------
(***************************************************************************)
(* What is left of an operation that no other one overlaps: Pending says   *)
(* what its calls will do to names, Opening that an operation starts with  *)
(* such calls, and Reads that a call which writes nothing keeps to them.   *)
(***************************************************************************)
\* What is left of an operation that no other one overlaps, on an index d:
\* what its calls will do to names.
NoNames(s) == \A call \in TokensOf(s) : ~(call[1] = "set" /\ call[2] = "name")
Mild(call, w) ==
    /\ call[1] \notin {"make", "unlink"}
    /\ w = <<Null>> => \A n \in Files : call # <<"remove", "name", n>>
Plan(d, mx, s, w) ==
    \/ NoNames(s)
    \/ TokensOf(w) \cap TokensOf(Ids) \subseteq mx
    \/ NoNames(Tail(s)) /\ \E i \in TokensOf(Ids) : w = <<i>> /\ NameOf(d, i) = <<>>
    \/ /\ NoNames(Tail(Tail(s)))
       /\ \E n \in Files : Head(s) = <<"remove", "name", n>> /\ w = GetVal(NameField(d, n))
Pending(d, mx, s, w) == s # <<>> =>
    /\ \A call \in TokensOf(Tail(s)) : Mild(call, w)
    /\ Head(s)[1] = "make" => NoNames(s)
    /\ Head(s)[1] = "unlink" => w = GetVal(NameField(d, Head(s)[2]))
    /\ w = <<Null>> => \A n \in Files :
          Head(s) = <<"remove", "name", n>> => GetVal(NameField(d, n)) = <<Null>>
    /\ Plan(d, mx, s, w)

LEMMA TailTokens ==
    ASSUME NEW A, NEW s \in Seq(A), s # <<>>
    PROVE  /\ Tail(s) \in Seq(A) /\ Head(s) = s[1] /\ 1 \in DOMAIN s
           /\ TokensOf(s) = {Head(s)} \cup TokensOf(Tail(s))
           /\ \A x \in TokensOf(Tail(s)) : \E i \in DOMAIN s : i # 1 /\ x = s[i]
<1>1. PICK t : t = Tail(s)
  OBVIOUS
<1>2. Len(s) \in Nat \ {0} /\ DOMAIN s = 1..Len(s)
  BY LenProperties, EmptySeq
<1>3. t \in Seq(A) /\ Len(t) = Len(s) - 1 /\ \A i \in 1..(Len(s) - 1) : t[i] = s[i + 1]
  BY <1>1, HeadTailProperties
<1>4. DOMAIN t = 1..(Len(s) - 1)
  BY <1>3, LenProperties
<1>5. Head(s) = s[1] /\ 1 \in DOMAIN s
  BY <1>2
<1>6. \A i \in DOMAIN t : i + 1 \in DOMAIN s /\ i + 1 # 1 /\ t[i] = s[i + 1]
  BY <1>2, <1>3, <1>4
<1>7. \A i \in DOMAIN s : i = 1 \/ (i - 1 \in DOMAIN t /\ s[i] = t[i - 1])
  BY <1>2, <1>3, <1>4
<1>8. TokensOf(s) = {s[1]} \cup TokensOf(t)
  BY <1>5, <1>6, <1>7 DEF TokensOf
<1>9. \A x \in TokensOf(t) : \E i \in DOMAIN s : i # 1 /\ x = s[i]
  BY <1>6 DEF TokensOf
<1> QED  BY <1>1, <1>3, <1>5, <1>8, <1>9, Zenon

LEMMA PendingStart ==
    ASSUME NEW d, NEW mx, NEW w, NEW s \in Seq(Calls), s # <<>>, NoNames(s),
           \A i \in DOMAIN s : i = 1 \/ s[i][1] \notin {"make", "unlink", "remove"},
           s[1][1] # "remove", s[1][1] = "unlink" => w = GetVal(NameField(d, s[1][2]))
    PROVE  Pending(d, mx, s, w)
<1>1. /\ Head(s) = s[1]
      /\ \A x \in TokensOf(Tail(s)) : \E i \in DOMAIN s : i # 1 /\ x = s[i]
  BY TailTokens
<1>2. \A x \in TokensOf(Tail(s)) : x[1] \notin {"make", "unlink", "remove"}
  BY <1>1, Zenon
<1>3. \A x \in TokensOf(Tail(s)) : Mild(x, w)
  BY <1>2 DEF Mild
<1>4. \A n : Head(s) # <<"remove", "name", n>>
  BY <1>1
<1> QED  BY <1>1, <1>3, <1>4, Zenon DEF Pending, Plan

\* An operation starts that may go on alone.
Opening(t) == \E fileid \in Stored, calls \in Seq(Calls) :
    /\ Start(t, fileid, calls) /\ Read(fileid, t) /\ AllOK(calls)
    /\ Pending(db, mixed, calls, fileid) /\ shared \subseteq shared'

LEMMA WordFacts ==
    /\ \A c \in Words : c # "attrs" => c \notin TokensOf(Ids) \cup {"attrs", Null}
    /\ \A n \in Files : n # "attrs" /\ Type[n] # "attrs" /\ Value[n] # "attrs" /\ n \notin TokensOf(Ids)
    /\ Experiment # "attrs" /\ Server # "attrs" /\ Glued # "attrs" /\ Known # "attrs"
<1>1. /\ TokensOf(Ids) \cap (Words \cup {Empty, Null, Glued}) = {} /\ Null \notin Words
      /\ "attrs" \notin Files \cup {Type[n] : n \in Files} \cup {Value[n] : n \in Files}
      /\ "attrs" \notin {Known, Glued, Experiment, Server}
  BY NamesAssumption
<1>2. \A n \in Files : n \notin TokensOf(Ids)
  <2>1. Ids \in Seq(Tokens \ (Files \cup {"name"}))
    BY FilesAssumption
  <2>2. \A i \in DOMAIN Ids : Ids[i] \notin Files
    BY <2>1, LenProperties, ElementOfSeq
  <2> QED  BY <2>2 DEF TokensOf
<1> QED  BY <1>1, <1>2

LEMMA ReceiveOpens ==
    ASSUME FilesInv, Steady, NEW t \in Threads, NEW n \in Files, Receive(t, n)
    PROVE  Opening(t)
<1> DEFINE c1 == <<"make", "name", n>>
           c2 == <<"set", "ext", Type[n]>>
           c3 == <<"set", "server", "test1">>
           c4 == <<"set", "location", "test2">>
           c5 == <<"set", "file_path", n>>
           c6 == <<"set", "experiment_id", Experiment>>
           c7 == <<"process", n>>
<1>1. n \in Tokens /\ Type[n] \in Tokens
  BY FilesAssumption
<1>2. {c1, c2, c3, c4, c5, c6, c7} \subseteq Calls
  <2>1. c1 \in Calls /\ c7 \in Calls
    BY <1>1 DEF Calls
  <2>2. {c2, c3, c4, c5, c6} \subseteq SetCalls
    BY <1>1, FilesAssumption DEF SetCalls
  <2> QED  BY <2>1, <2>2, SetCallsAre
<1>3. \A c \in {c1, c2, c3, c4, c5, c6, c7} : ~(c[1] = "set" /\ c[2] = "name") /\ CallOK(c)
  <2>1. {"ext", "server", "location", "file_path", "experiment_id"} \subseteq Words \ {"attrs"}
    BY DEF Words
  <2>2. "test1" # "attrs" /\ "test2" # "attrs"
    OBVIOUS
  <2>3. CallOK(c1) /\ CallOK(c7)
    BY DEF CallOK
  <2>4. CallOK(c2) /\ CallOK(c3) /\ CallOK(c4) /\ CallOK(c5) /\ CallOK(c6)
    BY <2>1, <2>2, WordFacts DEF CallOK
  <2>5. \A c \in {c1, c2, c3, c4, c5, c6, c7} : ~(c[1] = "set" /\ c[2] = "name")
    OBVIOUS
  <2> HIDE DEF c1, c2, c3, c4, c5, c6, c7
  <2> QED  BY <2>3, <2>4, <2>5
<1>4. /\ \A c \in {c2, c3, c4, c5, c6, c7} : c[1] \notin {"make", "unlink", "remove"}
      /\ c1[1] \notin {"remove", "unlink"}
  OBVIOUS
<1>5. PICK calls, fileid : calls = <<c1, c2, c3, c4, c5, c6, c7>> /\ fileid = <<Null>>
  OBVIOUS
<1>6. Start(t, fileid, calls) /\ shared \subseteq shared'
  <2>1. Start(t, fileid, calls)
    BY <1>5, Zenon DEF Receive
  <2>2. shared' = IF Taken(n) THEN shared \cup {n} ELSE shared
    BY Zenon DEF Receive
  <2> QED  BY <2>1, <2>2
<1> HIDE DEF c1, c2, c3, c4, c5, c6, c7
<1>7. /\ calls \in Seq(Calls) /\ DOMAIN calls = 1..7 /\ calls[1] = c1 /\ calls # <<>>
      /\ \A i \in 1..7 : i = 1 \/ calls[i] \in {c2, c3, c4, c5, c6, c7}
  BY <1>2, <1>5
<1>8. NoNames(calls) /\ AllOK(calls)
  <2>1. TokensOf(calls) \subseteq {c1, c2, c3, c4, c5, c6, c7}
    BY <1>7 DEF TokensOf
  <2> QED  BY <1>3, <2>1 DEF NoNames, AllOK
<1>9. Pending(db, mixed, calls, fileid)
  BY <1>4, <1>7, <1>8, PendingStart
<1>10. Read(fileid, t) /\ fileid \in Stored
  BY <1>5, NoFileId DEF Read
<1> QED  BY <1>6, <1>7, <1>8, <1>9, <1>10, Zenon DEF Opening

LEMMA FirstCall ==
    ASSUME NEW s \in Seq(Calls), s # <<>>
    PROVE  1 \in DOMAIN s /\ Head(s) = s[1]
BY LenProperties, EmptySeq

LEMMA LookupNames ==
    \A n : Lookup(<<"name">>, <<n>>) = GetVal(NameField(db, n))
BY DEF Lookup, NameField

LEMMA CreateOpens ==
    ASSUME FilesInv, Steady, NEW t \in Threads, NEW dir \in Dirs, NEW n \in Files,
           Create(t, dir, n)
    PROVE  Opening(t)
<1> DEFINE c1 == <<"make", "name", n>>
           c2 == <<"set", "server", Server>>
           c3 == <<"set", "ext", Type[n]>>
           c4 == <<"process", Empty>>
           c5 == <<"map", dir, n>>
           Used == {c1, c2, c3, c4, c5}
<1>1. n \in Tokens /\ Type[n] \in Tokens
  BY FilesAssumption
<1>2. Used \subseteq Calls
  <2>1. c1 \in Calls /\ c4 \in Calls /\ c5 \in Calls
    BY <1>1, TokensAssumption DEF Calls
  <2>2. c2 \in SetCalls /\ c3 \in SetCalls
    BY <1>1, FilesAssumption DEF SetCalls
  <2> QED  BY <2>1, <2>2, SetCallsAre
<1>3. \A c \in Used : ~(c[1] = "set" /\ c[2] = "name") /\ CallOK(c)
  <2>1. {"ext", "server"} \subseteq Words \ {"attrs"}
    BY DEF Words
  <2>2. CallOK(c1) /\ CallOK(c4) /\ CallOK(c5)
    BY DEF CallOK
  <2>3. CallOK(c2) /\ CallOK(c3)
    BY <2>1, WordFacts DEF CallOK
  <2>4. \A c \in Used : ~(c[1] = "set" /\ c[2] = "name")
    OBVIOUS
  <2> HIDE DEF c1, c2, c3, c4, c5
  <2> QED  BY <2>2, <2>3, <2>4
<1>4. \A c \in Used : c[1] \notin {"remove", "unlink"} /\ (c = c1 \/ c[1] # "make")
  OBVIOUS
<1>5. PICK fileid : fileid = Lookup(<<"name">>, <<n>>)
  OBVIOUS
<1>6. /\ Start(t, fileid, (IF fileid = <<Null>> THEN <<c1, c2, c3>> ELSE <<>>) \o <<c4, c5>>)
      /\ shared' = IF fileid = <<Null>> /\ Taken(n) THEN shared \cup {n} ELSE shared
  BY <1>5, Zenon DEF Create
<1>7. c4 # c1 /\ c2 # c1 /\ c3 # c1 /\ c5 # c1
  OBVIOUS
<1> HIDE DEF c1, c2, c3, c4, c5
<1>8. PICK a, b : a = (IF fileid = <<Null>> THEN <<c1, c2, c3>> ELSE <<>>) /\ b = <<c4, c5>>
  OBVIOUS
<1>9. /\ a \in Seq(Used) /\ b \in Seq(Used) /\ Len(b) = 2 /\ b[1] = c4 /\ b[2] = c5
      /\ Len(a) \in Nat /\ \A i \in 1..Len(a) : i = 1 \/ a[i] \in {c2, c3}
  <2>0. c1 \in Used /\ c2 \in Used /\ c3 \in Used /\ c4 \in Used /\ c5 \in Used
    OBVIOUS
  <2> HIDE DEF Used
  <2>1. CASE fileid = <<Null>>
    <3>1. a = <<c1, c2, c3>>
      BY <1>8, <2>1, Zenon
    <3>2. a \in Seq(Used) /\ Len(a) = 3 /\ a[2] = c2 /\ a[3] = c3
      BY <2>0, <3>1
    <3>3. b \in Seq(Used) /\ Len(b) = 2 /\ b[1] = c4 /\ b[2] = c5
      BY <1>8, <2>0
    <3>4. \A i \in 1..3 : i = 1 \/ i = 2 \/ i = 3
      OBVIOUS
    <3>5. \A i \in 1..Len(a) : i = 1 \/ a[i] \in {c2, c3}
      BY <3>2, <3>4
    <3>6. Len(a) \in Nat
      BY <3>2
    <3> QED  BY <3>2, <3>3, <3>5, <3>6
  <2>2. CASE fileid # <<Null>>
    <3>1. a = <<>>
      BY <1>8, <2>2, Zenon
    <3>2. a \in Seq(Used) /\ Len(a) = 0
      BY <3>1
    <3>3. b \in Seq(Used) /\ Len(b) = 2 /\ b[1] = c4 /\ b[2] = c5
      BY <1>8, <2>0
    <3> QED  BY <3>2, <3>3
  <2> QED  BY <2>1, <2>2
<1> HIDE DEF Used
<1>10. PICK calls : calls = a \o b
  OBVIOUS
<1>11. /\ calls \in Seq(Used) /\ Len(calls) = Len(a) + Len(b)
       /\ \A i \in 1..Len(a) + Len(b) : calls[i] = IF i <= Len(a) THEN a[i] ELSE b[i - Len(a)]
  BY <1>9, <1>10, ConcatProperties
<1>12. DOMAIN calls = 1..(Len(a) + 2) /\ calls # <<>>
  BY <1>9, <1>11, LenProperties, EmptySeq
<1>13. \A i \in DOMAIN calls : calls[i] \in Used /\ (i = 1 \/ calls[i] \in {c2, c3, c4, c5})
  <2> TAKE i \in DOMAIN calls
  <2>1. calls[i] \in Used
    BY <1>9, <1>11, <1>12, ElementOfSeq
  <2>2. CASE i <= Len(a)
    BY <1>9, <1>11, <1>12, <2>1, <2>2
  <2>3. CASE ~(i <= Len(a))
    <3>1. i - Len(a) \in 1..2 /\ calls[i] = b[i - Len(a)]
      BY <1>9, <1>11, <1>12, <2>3
    <3> QED  BY <1>9, <2>1, <3>1
  <2> QED  BY <2>1, <2>2, <2>3
<1>14. NoNames(calls) /\ AllOK(calls)
  BY <1>3, <1>13 DEF NoNames, AllOK, TokensOf
<1>15. \A i \in DOMAIN calls : i = 1 \/ calls[i][1] \notin {"make", "unlink", "remove"}
  BY <1>4, <1>7, <1>13
<1>16. calls[1][1] \notin {"remove", "unlink"}
  <2>1. 1 \in DOMAIN calls
    BY <1>9, <1>12
  <2> QED  BY <1>4, <1>13, <2>1
<1>17. calls \in Seq(Calls)
  BY <1>2, <1>11, SeqWiden
<1>18. Pending(db, mixed, calls, fileid)
  BY <1>12, <1>14, <1>15, <1>16, <1>17, PendingStart
<1>19. Read(fileid, t) /\ fileid \in Stored
  BY <1>5, FileIdOK DEF Read
<1>20. Start(t, fileid, calls)
  BY <1>6, <1>8, <1>10, Zenon
<1>21. shared \subseteq shared'
  BY <1>6
<1> QED  BY <1>14, <1>17, <1>18, <1>19, <1>20, <1>21, Zenon DEF Opening

LEMMA FlushOpens ==
    ASSUME FilesInv, Steady, NEW t \in Threads, NEW n \in Files, Flush(t, n)
    PROVE  Opening(t)
<1>1. PICK fileid, c : fileid = Lookup(<<"name">>, <<n>>) /\ c = <<"flush">>
  OBVIOUS
<1>2. PICK calls : calls = <<c>>
  OBVIOUS
<1>3. Start(t, fileid, calls) /\ shared' = shared
  BY <1>1, <1>2, Zenon DEF Flush
<1>4. c \in Calls /\ c[1] = "flush" /\ CallOK(c)
  BY <1>1 DEF Calls, CallOK
<1>5. /\ calls \in Seq(Calls) /\ calls # <<>> /\ \A i \in DOMAIN calls : i = 1
      /\ calls[1] = c /\ \A i \in DOMAIN calls : calls[i] = c
  BY <1>2, <1>4
<1>6. NoNames(calls) /\ AllOK(calls)
  BY <1>4, <1>5 DEF NoNames, AllOK, TokensOf
<1>7. Pending(db, mixed, calls, fileid)
  BY <1>4, <1>5, <1>6, PendingStart
<1>8. Read(fileid, t) /\ fileid \in Stored
  BY <1>1, FileIdOK DEF Read
<1> QED  BY <1>3, <1>5, <1>6, <1>7, <1>8 DEF Opening

LEMMA UnlinkOpens ==
    ASSUME FilesInv, Steady, NEW t \in Threads, NEW n \in Files, Unlink(t, n)
    PROVE  Opening(t)
<1>1. PICK fileid, x, y : /\ fileid = Lookup(<<"name">>, <<n>>)
                          /\ x = <<"unlink", n>> /\ y = <<"delete", n>>
  OBVIOUS
<1>2. PICK calls : calls = <<x, y>>
  OBVIOUS
<1>3. Start(t, fileid, calls) /\ shared' = shared
  BY <1>1, <1>2, Zenon DEF Unlink
<1>4. /\ x \in Calls /\ x[1] = "unlink" /\ x[2] = n /\ CallOK(x)
      /\ y \in Calls /\ y[1] = "delete" /\ CallOK(y)
  BY <1>1 DEF Calls, CallOK
<1>5. /\ calls \in Seq(Calls) /\ calls # <<>> /\ calls[1] = x
      /\ \A i \in DOMAIN calls : calls[i] \in {x, y} /\ (i = 1 \/ calls[i] = y)
  BY <1>2, <1>4
<1>6. NoNames(calls) /\ AllOK(calls)
  BY <1>4, <1>5 DEF NoNames, AllOK, TokensOf
<1>7. fileid = GetVal(NameField(db, n))
  BY <1>1, LookupNames
<1>8. Pending(db, mixed, calls, fileid)
  <2>1. \A i \in DOMAIN calls : i = 1 \/ calls[i][1] \notin {"make", "unlink", "remove"}
    BY <1>4, <1>5
  <2>2. /\ calls[1][1] # "remove"
        /\ calls[1][1] = "unlink" => fileid = GetVal(NameField(db, calls[1][2]))
    BY <1>4, <1>5, <1>7
  <2> QED  BY <1>5, <1>6, <2>1, <2>2, PendingStart
<1>9. Read(fileid, t) /\ fileid \in Stored
  BY <1>1, FileIdOK DEF Read
<1> QED  BY <1>3, <1>5, <1>6, <1>8, <1>9 DEF Opening

LEMMA ThreeCalls ==
    ASSUME NEW A, NEW a \in A, NEW b \in A, NEW c \in A
    PROVE  /\ <<a, b, c>> \in Seq(A) /\ <<a, b, c>> # <<>>
           /\ Head(<<a, b, c>>) = a /\ TokensOf(<<a, b, c>>) = {a, b, c}
           /\ TokensOf(Tail(<<a, b, c>>)) = {b, c}
           /\ TokensOf(Tail(Tail(<<a, b, c>>))) = {c}
<1>1. PICK s : s = <<a, b, c>>
  OBVIOUS
<1>2. /\ s \in Seq(A) /\ s # <<>> /\ Len(s) = 3 /\ DOMAIN s = 1..3
      /\ s[1] = a /\ s[2] = b /\ s[3] = c /\ Head(s) = a
  BY <1>1
<1>3. PICK t : t = Tail(s)
  OBVIOUS
<1>4. t \in Seq(A) /\ Len(t) = 2 /\ t[1] = b /\ t[2] = c
  <2>1. t \in Seq(A) /\ Len(t) = Len(s) - 1 /\ \A i \in 1..(Len(s) - 1) : t[i] = s[i + 1]
    BY <1>2, <1>3, HeadTailProperties
  <2> QED  BY <1>2, <2>1
<1>5. t # <<>> /\ DOMAIN t = 1..2
  <2>1. DOMAIN t = 1..Len(t)
    BY <1>4, LenProperties
  <2>2. DOMAIN t = 1..2
    BY <1>4, <2>1, Zenon
  <2>3. Len(<<>>) # 2
    OBVIOUS
  <2> QED  BY <1>4, <2>2, <2>3, Zenon
<1>6. PICK r : r = Tail(t)
  OBVIOUS
<1>7. r \in Seq(A) /\ Len(r) = 1 /\ r[1] = c /\ DOMAIN r = 1..1
  <2>1. r \in Seq(A) /\ Len(r) = Len(t) - 1 /\ \A i \in 1..(Len(t) - 1) : r[i] = t[i + 1]
    BY <1>4, <1>5, <1>6, HeadTailProperties
  <2>2. Len(r) = 1 /\ r[1] = c
    BY <1>4, <2>1
  <2> QED  BY <2>1, <2>2, LenProperties
<1>8. TokensOf(s) = {a, b, c} /\ TokensOf(t) = {b, c} /\ TokensOf(r) = {c}
  <2>1. TokensOf(s) = {a, b, c}
    BY <1>2 DEF TokensOf
  <2>2. TokensOf(t) = {b, c}
    BY <1>4, <1>5 DEF TokensOf
  <2>3. TokensOf(r) = {c}
    BY <1>7 DEF TokensOf
  <2> QED  BY <2>1, <2>2, <2>3
<1> QED  BY <1>1, <1>2, <1>3, <1>6, <1>8, Zenon

LEMMA RenameOpens ==
    ASSUME FilesInv, Steady, NEW t \in Threads, NEW dir \in Dirs, NEW n \in Files, NEW m \in Files,
           Rename(t, n, dir, m)
    PROVE  Opening(t)
<1>1. PICK fileid, c1, c2, c3 : /\ fileid = Lookup(<<"name">>, <<n>>)
                                /\ c1 = <<"remove", "name", n>> /\ c2 = <<"set", "name", m>>
                                /\ c3 = <<"locate", n, dir, m>>
  OBVIOUS
<1>2. PICK calls : calls = <<c1, c2, c3>>
  OBVIOUS
<1>3. /\ Start(t, fileid, calls)
      /\ shared' = IF Taken(m) \/ Len(fileid) > 1 THEN shared \cup {m} ELSE shared
  BY <1>1, <1>2, Zenon DEF Rename
<1>4. c1 \in Calls /\ c2 \in Calls /\ c3 \in Calls
  <2>1. n \in Tokens /\ m \in Tokens /\ "name" \in Tokens
    BY FilesAssumption
  <2> QED  BY <1>1, <2>1 DEF Calls, SetCalls
<1>5. CallOK(c1) /\ CallOK(c2) /\ CallOK(c3)
  <2>1. "name" \notin TokensOf(Ids) \cup {"attrs", Null} /\ m # "attrs"
    BY IdFacts, WordFacts
  <2> QED  BY <1>1, <2>1 DEF CallOK
<1>6. /\ c1[1] = "remove" /\ c2[1] = "set" /\ c3[1] = "locate"
      /\ \A k : c1 = <<"remove", "name", k>> => k = n
      /\ \A k : c2 # <<"remove", "name", k>> /\ c3 # <<"remove", "name", k>>
  BY <1>1
<1>7. /\ calls \in Seq(Calls) /\ calls # <<>> /\ Head(calls) = c1
      /\ TokensOf(calls) = {c1, c2, c3} /\ TokensOf(Tail(calls)) = {c2, c3}
      /\ TokensOf(Tail(Tail(calls))) = {c3}
  <2>1. /\ <<c1, c2, c3>> \in Seq(Calls) /\ <<c1, c2, c3>> # <<>> /\ Head(<<c1, c2, c3>>) = c1
        /\ TokensOf(<<c1, c2, c3>>) = {c1, c2, c3}
        /\ TokensOf(Tail(<<c1, c2, c3>>)) = {c2, c3}
        /\ TokensOf(Tail(Tail(<<c1, c2, c3>>))) = {c3}
    BY <1>4, ThreeCalls
  <2> QED  BY <1>2, <2>1, Zenon
<1>8. AllOK(calls)
  BY <1>5, <1>7 DEF AllOK
<1>9. fileid = GetVal(NameField(db, n))
  BY <1>1, LookupNames
<1>10. Pending(db, mixed, calls, fileid)
  <2>1. \A call \in TokensOf(Tail(calls)) : Mild(call, fileid)
    BY <1>6, <1>7 DEF Mild
  <2>2. Head(calls)[1] \notin {"make", "unlink"}
    BY <1>6, <1>7
  <2>3. fileid = <<Null>> => \A k \in Files :
            Head(calls) = <<"remove", "name", k>> => GetVal(NameField(db, k)) = <<Null>>
    BY <1>6, <1>7, <1>9, Zenon
  <2>4. NoNames(Tail(Tail(calls)))
    BY <1>6, <1>7 DEF NoNames
  <2>5. Head(calls) = <<"remove", "name", n>>
    BY <1>1, <1>7
  <2>6. Plan(db, mixed, calls, fileid)
    BY <1>9, <2>4, <2>5, Zenon DEF Plan
  <2> QED  BY <2>1, <2>2, <2>3, <2>6 DEF Pending
<1>11. Read(fileid, t) /\ fileid \in Stored
  BY <1>1, FileIdOK DEF Read
<1>12. shared \subseteq shared'
  BY <1>3
<1> QED  BY <1>3, <1>7, <1>8, <1>10, <1>11, <1>12, Zenon DEF Opening

LEMMA PutOnDiskOpens ==
    ASSUME FilesInv, Steady, NEW t \in Threads, NEW path, NEW inode, PutOnDisk(t, path, inode)
    PROVE  Opening(t)
<1>1. PICK fileid, calls : fileid = id[t] /\ calls = <<>>
  OBVIOUS
<1>2. Start(t, fileid, calls) /\ shared' = shared
  BY <1>1, Zenon DEF PutOnDisk
<1>3. fileid \in Stored /\ Read(fileid, t)
  BY <1>1, InvParts DEF Read
<1>4. calls \in Seq(Calls) /\ TokensOf(calls) = {}
  BY <1>1 DEF TokensOf
<1>5. AllOK(calls) /\ Pending(db, mixed, calls, fileid)
  BY <1>1, <1>4 DEF AllOK, Pending
<1> QED  BY <1>2, <1>3, <1>4, <1>5 DEF Opening

\* The words that a path is made of: no ids and not "attrs".
PathTokensOnly == Tokens \ (TokensOf(Ids) \cup {"attrs"})
OnlyPieces == Pieces(PathTokensOnly, PathTokensOnly)

LEMMA AttrWords ==
    ASSUME FilesInv, Steady
    PROVE  /\ PathWords(PathTokensOnly, PathTokensOnly)
           /\ AllAttrs \subseteq AttrTokens \cup {"all"}
<1> DEFINE A == <<"attrs">>
           fields == {k[2] : k \in {j \in DOMAIN db : j[1] = A}}
<1> HIDE DEF A
<1>1. DOMAIN db \subseteq Text \X Text /\ \A k \in DOMAIN db : db[k] \in Stored
  BY InvParts, IndexParts
<1>2. \A k : At(db, A, k) # <<>> => TokensOf(k) \subseteq AttrTokens \cup {"all"}
  BY SteadyParts, Zenon DEF AttrTexts, A
<1>3. ASSUME NEW f \in fields PROVE TokensOf(f) \subseteq AttrTokens \cup {"all"}
  <2>1. PICK k \in DOMAIN db : k[1] = A /\ f = k[2]
    OBVIOUS
  <2>2. k = <<A, f>>
    BY <1>1, <2>1
  <2>3. db[k] # <<>>
    BY <1>1 DEF Stored
  <2>4. At(db, A, f) = db[k]
    BY <2>2, Zenon DEF At
  <2> QED  BY <1>2, <2>3, <2>4
<1>4. AllAttrs = IF fields = {} THEN {Null} ELSE UNION {TokensOf(f) \ {Empty} : f \in fields}
  BY Zenon DEF AllAttrs, KeysOf, A
<1> HIDE DEF fields
<1>5. AllAttrs \subseteq AttrTokens \cup {"all"}
  <2>1. Null \in AttrTokens
    BY DEF AttrTokens
  <2> QED  BY <1>3, <1>4, <2>1
<1>6. AttrTokens \cup {"all"} \subseteq PathTokensOnly
  <2>1. "all" # "attrs"
    OBVIOUS
  <2> QED  BY <2>1, IdFacts DEF PathTokensOnly
<1>7. {"tags", Glued} \subseteq PathTokensOnly
  <2>1. "tags" \in Words /\ "tags" # "attrs"
    BY DEF Words
  <2>2. "tags" \in Tokens /\ Glued \in Tokens
    BY FilesAssumption
  <2>3. Glued \notin TokensOf(Ids)
    BY IdFacts
  <2> QED  BY <2>1, <2>2, <2>3, WordFacts DEF PathTokensOnly
<1> QED  BY <1>5, <1>6, <1>7 DEF PathWords, PathTokensOnly

LEMMA DirPieces ==
    ASSUME NEW dir \in Dirs
    PROVE  dir \in Seq(OnlyPieces)
<1>1. dir \in Seq([selectors : BOOLEAN, names : Seq(Tokens)])
  BY FilesAssumption, Zenon
<1>2. /\ Len(dir) \in Nat /\ DOMAIN dir = 1..Len(dir)
      /\ \A k \in 1..Len(dir) : dir[k] \in [selectors : BOOLEAN, names : Seq(Tokens)]
  BY <1>1, LenProperties, ElementOfSeq
<1>3. ASSUME NEW k \in 1..Len(dir) PROVE dir[k] \in OnlyPieces
  <2>1. PICK s : s = dir[k].names
    OBVIOUS
  <2>2. s \in Seq(Tokens)
    BY <1>2, <2>1
  <2>3. TokensOf(s) \cap (TokensOf(Ids) \cup {"attrs"}) = {}
    BY <1>2, <2>1, NamesAssumption, Zenon
  <2>4. Len(s) \in Nat /\ DOMAIN s = 1..Len(s) /\ \A i \in 1..Len(s) : s[i] \in Tokens
    BY <2>2, LenProperties, ElementOfSeq
  <2>5. \A i \in 1..Len(s) : s[i] \in TokensOf(s)
    BY <2>4 DEF TokensOf
  <2>6. \A i \in 1..Len(s) : s[i] \in PathTokensOnly
    BY <2>3, <2>4, <2>5 DEF PathTokensOnly
  <2>7. s = [i \in 1..Len(s) |-> s[i]]
    BY <2>2
  <2>8. s \in Seq(PathTokensOnly)
    BY <2>4, <2>6, <2>7, SeqDef
  <2> QED  BY <1>2, <2>1, <2>8 DEF OnlyPieces, Pieces
<1>4. dir = [k \in 1..Len(dir) |-> dir[k]]
  BY <1>1
<1> QED  BY <1>2, <1>3, <1>4, SeqDef

\* What process_file extracts is written into columns of attributes only.
LEMMA ExtractionsOK ==
    ASSUME FilesInv, Steady, NEW t, NEW path
    PROVE  AllOK(Extractions(t, path)) /\ \A call \in TokensOf(Extractions(t, path)) : call[1] = "set"
<1>1. PICK h, attrs : h = Lookup(id[t], <<"ext">>) /\ attrs = Lookup(h, <<"attrs">>)
  OBVIOUS
<1>2. attrs \in Seq(Tokens) /\ TokensOf(attrs) \subseteq TokensOf(At(db, h, <<"attrs">>)) \cup {Null}
  BY <1>1, LookupTokens, LookupStored, InvParts
<1>3. TokensOf(At(db, h, <<"attrs">>)) \subseteq AttrTokens
  BY SteadyParts, Zenon DEF AttrTexts
<1>4. PICK wanted : wanted = Kept(attrs, Tokens \ (Builtin \cup {Null}))
  OBVIOUS
<1>5. wanted \in Seq(Tokens) /\ TokensOf(wanted) = TokensOf(attrs) \cap (Tokens \ (Builtin \cup {Null}))
  BY <1>2, <1>4, KeptTokens
<1>6. TokensOf(wanted) \subseteq AttrTokens \ {Null}
  BY <1>2, <1>3, <1>5
<1>7. PICK x : x = Extracted(path)
  OBVIOUS
<1>8. x # "attrs"
  <2>1. path \in Files => Value[path] # "attrs"
    BY WordFacts
  <2>2. Empty # "attrs"
    BY IdFacts
  <2> QED  BY <1>7, <2>1, <2>2 DEF Extracted
<1>9. PICK e : e = [i \in DOMAIN wanted |-> <<"set", wanted[i], x>>]
  OBVIOUS
<1>10. Extractions(t, path) = e
  BY <1>1, <1>4, <1>7, <1>9, Zenon DEF Extractions
<1>11. ASSUME NEW call \in TokensOf(e) PROVE CallOK(call) /\ call[1] = "set"
  <2>1. PICK i \in DOMAIN wanted : call = <<"set", wanted[i], x>>
    BY <1>9 DEF TokensOf
  <2>2. wanted[i] \in AttrTokens \ {Null}
    BY <1>6 DEF TokensOf
  <2>3. wanted[i] \notin TokensOf(Ids) \cup {"attrs", Null}
    BY <2>2, IdFacts
  <2> QED  BY <1>8, <2>1, <2>3 DEF CallOK
<1> QED  BY <1>10, <1>11 DEF AllOK

\* A call that only reads the index, and what it makes of an operation.
Reads(t) == \E call, more :
    /\ more \in Seq(Calls) /\ Proceed(t, call, more)
    /\ call \notin {"make", "set", "remove"} /\ AllOK(more)
    /\ overlaps = 0 => \A c \in TokensOf(more) : Mild(c, id[t])
    /\ UNCHANGED <<db, next, named>>

LEMMA SetsAreMild ==
    ASSUME NEW w, NEW calls, \A c \in TokensOf(calls) : c[1] = "set"
    PROVE  \A c \in TokensOf(calls) : Mild(c, w)
<1> SUFFICES ASSUME NEW c \in TokensOf(calls) PROVE Mild(c, w)
  OBVIOUS
<1>1. c[1] = "set"
  OBVIOUS
<1>2. \A n : c # <<"remove", "name", n>>
  BY <1>1
<1> QED  BY <1>1, <1>2 DEF Mild

LEMMA ProcessReads ==
    ASSUME FilesInv, Steady, NEW t \in Threads, ProcessFile(t)
    PROVE  Reads(t)
<1>1. PICK more : more = Extractions(t, Head(todo[t])[2])
  OBVIOUS
<1>2. Proceed(t, "process", more) /\ UNCHANGED <<db, next, named>>
  BY <1>1, Zenon DEF ProcessFile
<1>3. more \in Seq(Calls)
  <2>1. more \in Seq(SetCalls)
    BY <1>1, ExtractionCalls, InvParts
  <2> QED  BY <2>1, SetsMakeNothing
<1>4. AllOK(more) /\ \A c \in TokensOf(more) : c[1] = "set"
  BY <1>1, ExtractionsOK
<1>5. \A c \in TokensOf(more) : Mild(c, id[t])
  BY <1>4, SetsAreMild
<1>6. "process" \notin {"make", "set", "remove"}
  OBVIOUS
<1> QED  BY <1>2, <1>3, <1>4, <1>5, <1>6 DEF Reads

LEMMA FlushReads ==
    ASSUME FilesInv, Steady, NEW t \in Threads, FlushFile(t)
    PROVE  Reads(t)
<1>1. PICK path : path = Lookup(id[t], <<"file_path">>)
  OBVIOUS
<1>2. PICK more : more = Extractions(t, IF Len(path) = 1 THEN path[1] ELSE Null)
  OBVIOUS
<1>3. Proceed(t, "flush", more) /\ UNCHANGED <<db, next, named>>
  BY <1>1, <1>2, Zenon DEF FlushFile
<1>4. more \in Seq(Calls)
  <2>1. more \in Seq(SetCalls)
    BY <1>2, ExtractionCalls, InvParts
  <2> QED  BY <2>1, SetsMakeNothing
<1>5. AllOK(more) /\ \A c \in TokensOf(more) : c[1] = "set"
  BY <1>2, ExtractionsOK
<1>6. \A c \in TokensOf(more) : Mild(c, id[t])
  BY <1>5, SetsAreMild
<1>7. "flush" \notin {"make", "set", "remove"}
  OBVIOUS
<1> QED  BY <1>3, <1>4, <1>5, <1>6, <1>7 DEF Reads

LEMMA NothingUnderNull ==
    ASSUME FilesInv, Steady, NEW f
    PROVE  Lookup(<<Null>>, f) = <<Null>>
<1>1. At(db, <<Null>>, f) = <<>>
  BY SteadyParts, Zenon DEF Nowhere
<1>2. Lookup(<<Null>>, f) = GetVal(<<>>)
  BY <1>1, Zenon DEF Lookup
<1>3. PICK z, e : z = <<>> /\ e = <<Null>>
  OBVIOUS
<1>4. NoReply(z) /\ Len(e) = 1
  BY <1>3 DEF NoReply
<1>5. GetVal(z) = e
  BY <1>3, <1>4 DEF GetVal, Cleanup
<1> QED  BY <1>2, <1>3, <1>5, Zenon

LEMMA UnlinkReads ==
    ASSUME FilesInv, Steady, NEW t \in Threads, UnlinkFile(t),
           overlaps = 0 => Pending(db, mixed, todo[t], id[t])
    PROVE  Reads(t)
<1>1. PICK n : n = Head(todo[t])[2]
  OBVIOUS
<1>2. PICK h, path : h = Lookup(<<"name">>, <<n>>) /\ path = Lookup(h, <<"file_path">>)
  OBVIOUS
<1>3. PICK attrs : attrs = Lookup(Lookup(id[t], <<"ext">>), <<"attrs">>)
  OBVIOUS
<1>4. PICK u : u = path[Len(path)]
  OBVIOUS
<1>5. PICK x, y : x = <<"remove", "attrs", "all">> /\ y = <<"remove", "name", u>>
  OBVIOUS
<1>6. PICK a, b : a = <<x>> /\ b = IF "name" \in TokensOf(attrs) THEN <<y>> ELSE <<>>
  OBVIOUS
<1>7. PICK more : more = a \o b
  OBVIOUS
<1>8. Proceed(t, "unlink", more) /\ UNCHANGED <<db, next, named>>
  BY <1>1, <1>2, <1>3, <1>4, <1>5, <1>6, <1>7, Zenon DEF UnlinkFile
<1>9. u \in Tokens
  BY <1>2, <1>4, LookupTokens, InvParts
<1>10. x \in Calls /\ y \in Calls
  BY <1>5, <1>9, FilesAssumption DEF Calls
<1> DEFINE Both == {x, y}
<1>11. x \in Both /\ y \in Both
  OBVIOUS
<1> HIDE DEF Both
<1>12. more \in Seq(Both)
  <2>1. a \in Seq(Both) /\ b \in Seq(Both)
    BY <1>6, <1>11
  <2> QED  BY <1>7, <2>1, ConcatProperties
<1>13. more \in Seq(Calls) /\ TokensOf(more) \subseteq {x, y}
  <2>1. Both \subseteq Calls
    BY <1>10 DEF Both
  <2>2. more \in Seq(Calls)
    BY <1>12, <2>1, SeqWiden
  <2>3. DOMAIN more = 1..Len(more) /\ \A i \in 1..Len(more) : more[i] \in Both
    BY <1>12, LenProperties, ElementOfSeq
  <2> QED  BY <2>2, <2>3 DEF TokensOf, Both
<1>14. CallOK(x) /\ CallOK(y)
  BY <1>5 DEF CallOK
<1>15. AllOK(more)
  BY <1>13, <1>14 DEF AllOK
<1>16. ASSUME overlaps = 0 PROVE \A c \in TokensOf(more) : Mild(c, id[t])
  <2>1. x[1] = "remove" /\ y[1] = "remove"
        /\ \A k : x # <<"remove", "name", k>> /\ (y = <<"remove", "name", k>> => k = u)
    BY <1>5
  <2>2. ASSUME id[t] = <<Null>> PROVE u \notin Files
    <3>1. Pending(db, mixed, todo[t], id[t]) /\ todo[t] # <<>> /\ Head(todo[t])[1] = "unlink"
      BY <1>8, <1>16, ProceedParts
    <3>2. id[t] = GetVal(NameField(db, n))
      BY <1>1, <3>1, Zenon DEF Pending
    <3>3. h = <<Null>>
      BY <1>2, <2>2, <3>2, LookupNames, Zenon
    <3>4. path = <<Null>>
      BY <1>2, <3>3, NothingUnderNull, Zenon
    <3>5. u = Null
      BY <1>4, <3>4
    <3> QED  BY <3>5, FilesAssumption
  <2>3. \A n1 \in Files : id[t] = <<Null>> => y # <<"remove", "name", n1>>
    BY <2>1, <2>2
  <2>4. Mild(x, id[t]) /\ Mild(y, id[t])
    BY <2>1, <2>3, Zenon DEF Mild
  <2> QED  BY <1>13, <2>4
<1>17. "unlink" \notin {"make", "set", "remove"}
  OBVIOUS
<1> QED  BY <1>8, <1>13, <1>15, <1>16, <1>17 DEF Reads

LEMMA MapReads ==
    ASSUME FilesInv, Steady, NEW t \in Threads, MapFile(t)
    PROVE  Reads(t)
<1>1. PICK c : c = Head(todo[t])
  OBVIOUS
<1>2. PICK pieces : pieces = Append(c[2], Name(c[3]))
  OBVIOUS
<1>3. PICK path \in Resolve(pieces) :
          Proceed(t, "map", MapPath(path)) /\ UNCHANGED <<db, disk, next, named>>
  BY <1>1, <1>2, Zenon DEF MapFile
<1>4. c \in Calls /\ c[1] = "map"
  BY <1>1, <1>3, ProceedParts
<1>5. c[2] \in Dirs /\ c[3] \in Files
  BY <1>4, CallParts
<1>6. Name(c[3]) \in OnlyPieces
  <2>1. c[3] \in PathTokensOnly
    BY <1>5, FilesAssumption, WordFacts DEF PathTokensOnly
  <2>2. <<c[3]>> \in Seq(PathTokensOnly)
    BY <2>1
  <2> QED  BY <2>2 DEF Name, OnlyPieces, Pieces
<1>7. pieces \in Seq(OnlyPieces)
  BY <1>2, <1>5, <1>6, DirPieces, AppendProperties
<1>8. path \in Seq(PathTokensOnly)
  BY <1>3, <1>7, ResolvedPaths, AttrWords DEF Selections, OnlyPieces
<1>9. PICK more : more = MapPath(path)
  OBVIOUS
<1>10. PICK V : V = PathTokensOnly \ {Null}
  OBVIOUS
<1>11. more \in Seq(SetsOf(V))
  <2>1. PathTokensOnly \subseteq Tokens
    BY DEF PathTokensOnly
  <2>2. MapPath(path) \in Seq(SetsOf(PathTokensOnly \ {Null}))
    BY <1>8, <2>1, MapCalls
  <2> QED  BY <1>9, <1>10, <2>2
<1>12. \A k \in SetsOf(V) : CallOK(k) /\ k[1] = "set" /\ k \in SetCalls
  <2>1. Server \in Tokens /\ "server" \in Tokens /\ Server # "attrs"
    BY FilesAssumption, WordFacts
  <2>2. "server" \notin TokensOf(Ids) \cup {"attrs", Null}
    <3>1. "server" \in Words /\ "server" # "attrs"
      BY DEF Words
    <3> QED  BY <3>1, WordFacts
  <2>3. V \subseteq Tokens /\ V \cap (TokensOf(Ids) \cup {"attrs", Null}) = {}
    BY <1>10 DEF PathTokensOnly
  <2> QED  BY <2>1, <2>2, <2>3 DEF SetsOf, CallOK, SetCalls
<1>13. more \in Seq(Calls)
  <2>1. SetsOf(V) \subseteq Calls
    BY <1>12, SetCallsAre
  <2> QED  BY <1>11, <2>1, SeqWiden
<1>14. TokensOf(more) \subseteq SetsOf(V)
  <2>1. DOMAIN more = 1..Len(more) /\ \A i \in 1..Len(more) : more[i] \in SetsOf(V)
    BY <1>11, LenProperties, ElementOfSeq
  <2> QED  BY <2>1 DEF TokensOf
<1>15. AllOK(more) /\ \A k \in TokensOf(more) : k[1] = "set"
  BY <1>12, <1>14 DEF AllOK
<1>16. \A k \in TokensOf(more) : Mild(k, id[t])
  BY <1>15, SetsAreMild
<1>17. Proceed(t, "map", more) /\ UNCHANGED <<db, next, named>>
  BY <1>3, <1>9
<1>18. "map" \notin {"make", "set", "remove"}
  OBVIOUS
<1> QED  BY <1>13, <1>15, <1>16, <1>17, <1>18 DEF Reads

LEMMA LocateReads ==
    ASSUME FilesInv, Steady, NEW t \in Threads, LocateFile(t)
    PROVE  Reads(t)
<1>1. PICK c : c = Head(todo[t])
  OBVIOUS
<1>2. PICK x, y : /\ x = <<"map", c[3], c[4]>>
                  /\ y = <<"move", PathOf(c[2]), Lookup(id[t], <<"location">>), c[4]>>
  OBVIOUS
<1>3. PICK more : more = <<x, y>>
  OBVIOUS
<1>4. Proceed(t, "locate", more) /\ UNCHANGED <<db, next, named>>
  BY <1>1, <1>2, <1>3, Zenon DEF LocateFile
<1>5. c \in Calls /\ c[1] = "locate"
  BY <1>1, <1>4, ProceedParts
<1>6. c[3] \in Dirs /\ c[4] \in Files
  BY <1>5, CallParts
<1>7. PathOf(c[2]) \in Tokens /\ Lookup(id[t], <<"location">>) \in Text
  BY PathTokens, LookupTokens, InvParts DEF Text
<1>8. x \in Calls /\ y \in Calls /\ x[1] = "map" /\ y[1] = "move"
  BY <1>2, <1>6, <1>7 DEF Calls
<1>9. more \in Seq(Calls) /\ \A i \in DOMAIN more : more[i] \in {x, y}
  BY <1>3, <1>8
<1>10. TokensOf(more) \subseteq {x, y}
  BY <1>9 DEF TokensOf
<1>11. AllOK(more)
  BY <1>8, <1>10 DEF AllOK, CallOK
<1>12. \A k \in {x, y} : Mild(k, id[t])
  <2>1. \A n : x # <<"remove", "name", n>> /\ y # <<"remove", "name", n>>
    BY <1>8
  <2> QED  BY <1>8, <2>1 DEF Mild
<1>13. "locate" \notin {"make", "set", "remove"}
  OBVIOUS
<1> QED  BY <1>4, <1>9, <1>10, <1>11, <1>12, <1>13 DEF Reads

LEMMA LastReads ==
    ASSUME FilesInv, NEW t \in Threads, NEW call, call \notin {"make", "set", "remove"},
           Proceed(t, call, <<>>), UNCHANGED <<db, next, named>>
    PROVE  Reads(t)
<1>1. PICK more : more = <<>>
  OBVIOUS
<1>2. more \in Seq(Calls) /\ TokensOf(more) = {}
  BY <1>1 DEF TokensOf
<1>3. Proceed(t, call, more)
  BY <1>1, Zenon
<1> QED  BY <1>2, <1>3 DEF Reads, AllOK

LEMMA MoveReads ==
    ASSUME FilesInv, NEW t \in Threads, MoveFile(t)
    PROVE  Reads(t)
<1>1. Proceed(t, "move", <<>>) /\ UNCHANGED <<db, next, named>>
  BY Zenon DEF MoveFile
<1>2. "move" \notin {"make", "set", "remove"}
  OBVIOUS
<1> QED  BY <1>1, <1>2, LastReads

LEMMA DeleteReads ==
    ASSUME FilesInv, NEW t \in Threads, DeleteFile(t)
    PROVE  Reads(t)
<1>1. Proceed(t, "delete", <<>>) /\ UNCHANGED <<db, next, named>>
  BY Zenon DEF DeleteFile
<1>2. "delete" \notin {"make", "set", "remove"}
  OBVIOUS
<1> QED  BY <1>1, <1>2, LastReads
-------------------------------------------------------------------------------
(***************************************************************************)
(* Serial: as long as no operation overlaps another one the two views of   *)
(* every name agree, and a list of ids is one id long unless it is         *)
(* spoiled. One lemma for every call that writes.                          *)
(***************************************************************************)
LEMMA ViewsKept ==
    ASSUME NEW d, NEW e, NEW i, NEW last, Views(d, i, last), NamesKept(d, e), NameKept(d, e, i)
    PROVE  Views(e, i, last)
<1>1. NameOf(e, i) = NameOf(d, i)
  BY Zenon DEF NameKept, NameOf
<1>2. \A n : NameField(e, n) = NameField(d, n)
  BY Zenon DEF NamesKept
<1> QED  BY <1>1, <1>2, Zenon DEF Views

LEMMA UnbornViews ==
    ASSUME NEW d, NEW i, NEW last, Unborn(d, i)
    PROVE  Views(d, i, last)
<1>1. NameOf(d, i) = <<>> /\ \A n \in Files : i \notin TokensOf(NameField(d, n))
  BY Zenon DEF Unborn
<1>2. \A n : <<n>> # <<>>
  BY OneTexts, Zenon
<1>3. \A n \in Files : Single(NameField(d, n), i)
  BY <1>1 DEF Single, TokensOf
<1> QED  BY <1>1, <1>2, <1>3 DEF Views

LEMMA GiveOther ==
    ASSUME NEW d \in Indexes, NEW f \in Stored, "name" \notin TokensOf(f), NEW v \in Tokens,
           NEW i \in TokensOf(Ids), i \notin TokensOf(f), NEW last, Views(d, i, last)
    PROVE  Views(Set(d, f, <<"name">>, <<v>>), i, last)
<1>1. PICK e : e = Set(d, f, <<"name">>, <<v>>)
  OBVIOUS
<1>2. i \in Tokens /\ i # Empty /\ i # "name"
  BY IdFacts
<1>3. f # <<i>>
  BY OneTexts, Zenon
<1>4. /\ NameField(e, v) = AddTo(NameField(d, v), f)
      /\ \A n : n # v => NameField(e, n) = NameField(d, n)
      /\ NameOf(e, i) = NameOf(d, i)
  <2>1. /\ NameField(Set(d, f, <<"name">>, <<v>>), v) = AddTo(NameField(d, v), f)
        /\ \A n : n # v => NameField(Set(d, f, <<"name">>, <<v>>), n) = NameField(d, n)
        /\ \A j : j # "name" => NameOf(Set(d, f, <<"name">>, <<v>>), j) =
                     IF f = <<j>> THEN AddTo(NameOf(d, j), <<v>>) ELSE NameOf(d, j)
    BY NameSet
  <2> QED  BY <1>1, <1>2, <1>3, <2>1, Zenon
<1>5. \A n \in Files : /\ i \in TokensOf(NameField(d, n)) <=> NameOf(d, i) = <<n>>
                       /\ Single(NameField(d, n), i)
  BY Zenon DEF Views
<1>6. ASSUME NEW n \in Files
      PROVE  /\ i \in TokensOf(NameField(e, n)) <=> i \in TokensOf(NameField(d, n))
             /\ Single(NameField(e, n), i)
  <2>1. CASE n # v
    BY <1>4, <1>5, <2>1, Zenon
  <2>2. CASE n = v
    <3>1. NameField(d, v) \in Text
      BY AtText DEF NameField
    <3>2. /\ i \in TokensOf(AddTo(NameField(d, v), f)) <=> i \in TokensOf(NameField(d, v)) \cup TokensOf(f)
          /\ Single(NameField(d, v), i) => Single(AddTo(NameField(d, v), f), i)
      BY <1>2, <3>1, AddToken
    <3>3. /\ i \in TokensOf(NameField(e, v)) <=> i \in TokensOf(NameField(d, v)) \cup TokensOf(f)
          /\ Single(NameField(d, v), i) => Single(NameField(e, v), i)
      BY <1>4, <3>2, Zenon
    <3>4. i \in TokensOf(NameField(e, v)) <=> i \in TokensOf(NameField(d, v))
      BY <3>3
    <3> QED  BY <1>5, <2>2, <3>3, <3>4, Zenon
  <2> QED  BY <2>1, <2>2
<1>7. NameOf(d, i) \in {<<>>, <<last>>}
  BY Zenon DEF Views
<1>8. Views(e, i, last)
  BY <1>4, <1>5, <1>6, <1>7, Zenon DEF Views
<1> QED  BY <1>1, <1>8, Zenon

LEMMA GiveOwn ==
    ASSUME NEW d \in Indexes, NEW v \in Tokens, NEW i \in TokensOf(Ids), NEW last,
           Views(d, i, last), NameOf(d, i) = <<>>
    PROVE  Views(Set(d, <<i>>, <<"name">>, <<v>>), i, v)
<1>0. PICK f : f = <<i>>
  OBVIOUS
<1>1. PICK e : e = Set(d, f, <<"name">>, <<v>>)
  OBVIOUS
<1>2. i \in Tokens /\ i # Empty /\ i # "name"
  BY IdFacts
<1>3. f \in Stored /\ TokensOf(f) = {i} /\ "name" \notin TokensOf(f)
  <2>1. f \in Stored /\ TokensOf(f) = {i}
    BY <1>0, <1>2, OneToken, Zenon
  <2> QED  BY <1>2, <2>1
<1>4. /\ NameField(e, v) = AddTo(NameField(d, v), f)
      /\ \A n : n # v => NameField(e, n) = NameField(d, n)
      /\ NameOf(e, i) = AddTo(NameOf(d, i), <<v>>)
  <2>1. /\ NameField(Set(d, f, <<"name">>, <<v>>), v) = AddTo(NameField(d, v), f)
        /\ \A n : n # v => NameField(Set(d, f, <<"name">>, <<v>>), n) = NameField(d, n)
        /\ \A j : j # "name" => NameOf(Set(d, f, <<"name">>, <<v>>), j) =
                     IF f = <<j>> THEN AddTo(NameOf(d, j), <<v>>) ELSE NameOf(d, j)
    BY <1>3, NameSet
  <2> QED  BY <1>0, <1>1, <1>2, <2>1, Zenon
<1>5. NameOf(e, i) = <<v>>
  <2>1. NoReply(<<>>)
    BY DEF NoReply
  <2>2. AddTo(<<>>, <<v>>) = <<v>>
    BY <2>1, Zenon DEF AddTo
  <2> QED  BY <1>4, <2>2, Zenon
<1>6. \A n \in Files : i \notin TokensOf(NameField(d, n))
  <2>1. \A n : <<>> # <<n>>
    BY OneTexts, Zenon
  <2> QED  BY <2>1, Zenon DEF Views
<1>7. ASSUME NEW n \in Files
      PROVE  /\ i \in TokensOf(NameField(e, n)) <=> n = v
             /\ Single(NameField(e, n), i)
  <2>1. CASE n # v
    <3>1. Single(NameField(d, n), i)
      BY Zenon DEF Views
    <3> QED  BY <1>4, <1>6, <2>1, <3>1, Zenon
  <2>2. CASE n = v
    <3>1. NameField(d, v) \in Text
      BY AtText DEF NameField
    <3>2. i \notin TokensOf(NameField(d, v))
      BY <1>6, <2>2
    <3>3. /\ i \in TokensOf(AddTo(NameField(d, v), f)) <=> i \in TokensOf(NameField(d, v)) \cup TokensOf(f)
          /\ i \notin TokensOf(NameField(d, v)) /\ f = <<i>> => Single(AddTo(NameField(d, v), f), i)
      BY <1>2, <1>3, <3>1, AddToken
    <3>4. i \in TokensOf(AddTo(NameField(d, v), f))
      BY <1>3, <3>3
    <3> QED  BY <1>0, <1>4, <2>2, <3>2, <3>3, <3>4, Zenon
  <2> QED  BY <2>1, <2>2
<1>8. \A n : <<v>> = <<n>> <=> n = v
  BY OneTexts, Zenon
<1>9. NameOf(e, i) \in {<<>>, <<v>>}
  BY <1>5
<1>10. \A n \in Files : i \in TokensOf(NameField(e, n)) <=> NameOf(e, i) = <<n>>
  BY <1>5, <1>7, <1>8, Zenon
<1>11. Views(e, i, v)
  BY <1>7, <1>9, <1>10, Zenon DEF Views
<1> QED  BY <1>0, <1>1, <1>11, Zenon

LEMMA TakeOther ==
    ASSUME NEW d \in Indexes, NEW f \in Stored, "name" \notin TokensOf(f), NEW v \in Tokens,
           NEW i \in TokensOf(Ids), i \notin TokensOf(f), NEW last, Views(d, i, last)
    PROVE  Views(Remove(d, f, <<"name">>, <<v>>), i, last)
<1>1. PICK e : e = Remove(d, f, <<"name">>, <<v>>)
  OBVIOUS
<1>2. i \in Tokens /\ i \notin {Empty, Null} /\ i # "name" /\ i # Empty
  BY IdFacts
<1>3. f # <<i>>
  BY OneTexts, Zenon
<1>4. /\ NameField(e, v) = EraseFrom(GetVal(NameField(d, v)), f)
      /\ \A n : n # v => NameField(e, n) = NameField(d, n)
      /\ NameOf(e, i) = NameOf(d, i)
  <2>1. /\ NameField(Remove(d, f, <<"name">>, <<v>>), v) = EraseFrom(GetVal(NameField(d, v)), f)
        /\ \A n : n # v => NameField(Remove(d, f, <<"name">>, <<v>>), n) = NameField(d, n)
        /\ \A j : j # "name" => NameOf(Remove(d, f, <<"name">>, <<v>>), j) =
                     IF f = <<j>> THEN Without(NameOf(d, j), <<v>>) ELSE NameOf(d, j)
    BY NameRemoved
  <2> QED  BY <1>1, <1>2, <1>3, <2>1, Zenon
<1>5. \A n \in Files : /\ i \in TokensOf(NameField(d, n)) <=> NameOf(d, i) = <<n>>
                       /\ Single(NameField(d, n), i)
  BY Zenon DEF Views
<1>6. ASSUME NEW n \in Files
      PROVE  /\ i \in TokensOf(NameField(e, n)) <=> i \in TokensOf(NameField(d, n))
             /\ Single(NameField(e, n), i)
  <2>1. CASE n # v
    BY <1>4, <1>5, <2>1, Zenon
  <2>2. CASE n = v
    <3>1. PICK s, g : s = NameField(d, v) /\ g = GetVal(s)
      OBVIOUS
    <3>2. s \in Text
      BY <3>1, AtText DEF NameField
    <3>3. /\ g \in Stored
          /\ i \in TokensOf(g) <=> i \in TokensOf(s)
          /\ Single(s, i) => Single(g, i)
      BY <1>2, <3>1, <3>2, GetValStored, GetValToken
    <3>4. /\ i \in TokensOf(EraseFrom(g, f)) <=> i \in TokensOf(g)
          /\ Single(g, i) => Single(EraseFrom(g, f), i)
      BY <1>2, <3>3, EraseOther
    <3>5. NameField(e, v) = EraseFrom(g, f)
      BY <1>4, <3>1, Zenon
    <3>6. Single(s, i)
      BY <1>5, <2>2, <3>1, Zenon
    <3> QED  BY <2>2, <3>1, <3>3, <3>4, <3>5, <3>6, Zenon
  <2> QED  BY <2>1, <2>2
<1>7. NameOf(d, i) \in {<<>>, <<last>>}
  BY Zenon DEF Views
<1>8. Views(e, i, last)
  BY <1>4, <1>5, <1>6, <1>7, Zenon DEF Views
<1> QED  BY <1>1, <1>8, Zenon

LEMMA WithoutName ==
    /\ \A v : Without(<<>>, v) = <<>>
    /\ \A x, v \in Tokens : Without(<<x>>, <<v>>) =
          IF x = v /\ x # Empty THEN <<>> ELSE <<x>>
<1>1. ASSUME NEW v PROVE Without(<<>>, v) = <<>>
  <2>1. NoReply(<<>>)
    BY DEF NoReply
  <2> QED  BY <2>1, Zenon DEF Without
<1>2. ASSUME NEW x \in Tokens, NEW v \in Tokens
      PROVE  Without(<<x>>, <<v>>) = IF x = v /\ x # Empty THEN <<>> ELSE <<x>>
  <2>1. NoReply(<<x>>) <=> x = Empty
    <3>1. /\ <<x>> # <<>> /\ <<x>> = <<Empty>> <=> x = Empty
      BY OneTexts, Zenon
    <3> QED  BY <3>1 DEF NoReply
  <2>2. CASE x = Empty
    BY <2>1, <2>2, Zenon DEF Without
  <2>3. CASE x # Empty
    <3>1. EraseFrom(<<x>>, <<v>>) = IF x = v THEN <<Empty>> ELSE <<x>>
      BY <2>3, EraseAlone
    <3>2. <<x>> # <<Empty>>
      BY <2>3, OneTexts, Zenon
    <3> QED  BY <2>1, <2>3, <3>1, <3>2, Zenon DEF Without
  <2> QED  BY <2>2, <2>3
<1> QED  BY <1>1, <1>2, Zenon

LEMMA TakeOwn ==
    ASSUME NEW d \in Indexes, NEW v \in Tokens, NEW i \in TokensOf(Ids), NEW last \in Tokens,
           Views(d, i, last)
    PROVE  /\ Views(Remove(d, <<i>>, <<"name">>, <<v>>), i, last)
           /\ NameOf(d, i) = <<v>> /\ v # Empty =>
                 NameOf(Remove(d, <<i>>, <<"name">>, <<v>>), i) = <<>>
<1>0. PICK f : f = <<i>>
  OBVIOUS
<1>1. PICK e : e = Remove(d, f, <<"name">>, <<v>>)
  OBVIOUS
<1>2. i \in Tokens /\ i \notin {Empty, Null} /\ i # "name" /\ i # Empty
  BY IdFacts
<1>3. f \in Stored /\ "name" \notin TokensOf(f)
  <2>1. f \in Stored /\ TokensOf(f) = {i}
    BY <1>0, <1>2, OneToken, Zenon
  <2> QED  BY <1>2, <2>1
<1>4. /\ NameField(e, v) = EraseFrom(GetVal(NameField(d, v)), f)
      /\ \A n : n # v => NameField(e, n) = NameField(d, n)
      /\ NameOf(e, i) = Without(NameOf(d, i), <<v>>)
  <2>1. /\ NameField(Remove(d, f, <<"name">>, <<v>>), v) = EraseFrom(GetVal(NameField(d, v)), f)
        /\ \A n : n # v => NameField(Remove(d, f, <<"name">>, <<v>>), n) = NameField(d, n)
        /\ \A j : j # "name" => NameOf(Remove(d, f, <<"name">>, <<v>>), j) =
                     IF f = <<j>> THEN Without(NameOf(d, j), <<v>>) ELSE NameOf(d, j)
    BY <1>3, NameRemoved
  <2> QED  BY <1>0, <1>1, <1>2, <2>1, Zenon
<1>5. \A n \in Files : /\ i \in TokensOf(NameField(d, n)) <=> NameOf(d, i) = <<n>>
                       /\ Single(NameField(d, n), i)
  BY Zenon DEF Views
<1>6. NameOf(d, i) = <<>> \/ NameOf(d, i) = <<last>>
  BY DEF Views
\* What is left of the own name.
<1>7. /\ NameOf(e, i) = NameOf(d, i) \/ NameOf(e, i) = <<>>
      /\ v # Empty => NameOf(e, i) # <<v>>
      /\ \A n : n # v /\ NameOf(d, i) = <<n>> => NameOf(e, i) = <<n>>
      /\ NameOf(d, i) = <<v>> /\ v # Empty => NameOf(e, i) = <<>>
  <2>1. CASE NameOf(d, i) = <<>>
    <3>1. NameOf(e, i) = <<>>
      BY <1>4, <2>1, WithoutName, Zenon
    <3>2. \A n : <<n>> # <<>>
      BY OneTexts, Zenon
    <3> QED  BY <2>1, <3>1, <3>2, Zenon
  <2>2. CASE NameOf(d, i) = <<last>>
    <3>1. NameOf(e, i) = IF last = v /\ last # Empty THEN <<>> ELSE <<last>>
      BY <1>4, <2>2, WithoutName, Zenon
    <3>2. \A n : <<n>> # <<>> /\ (<<last>> = <<n>> <=> last = n)
      BY OneTexts, Zenon
    <3> QED  BY <2>2, <3>1, <3>2, Zenon
  <2> QED  BY <1>6, <2>1, <2>2
<1>8. ASSUME NEW n \in Files
      PROVE  /\ i \in TokensOf(NameField(e, n)) <=> NameOf(e, i) = <<n>>
             /\ Single(NameField(e, n), i)
  <2>1. CASE n # v
    <3>1. NameOf(d, i) = <<n>> <=> NameOf(e, i) = <<n>>
      <4>1. <<n>> # <<>>
        BY OneTexts, Zenon
      <4> QED  BY <1>7, <2>1, <4>1, Zenon
    <3> QED  BY <1>4, <1>5, <2>1, <3>1, Zenon
  <2>2. CASE n = v
    <3>1. PICK s, g : s = NameField(d, v) /\ g = GetVal(s)
      OBVIOUS
    <3>2. s \in Text
      BY <3>1, AtText DEF NameField
    <3>3. Single(s, i)
      BY <1>5, <2>2, <3>1, Zenon
    <3>4. g \in Stored /\ Single(g, i)
      BY <1>2, <3>1, <3>2, <3>3, GetValStored, GetValToken
    <3>5. i \notin TokensOf(EraseFrom(g, <<i>>))
      BY <1>2, <3>4, EraseOwn
    <3>6. i \notin TokensOf(NameField(e, n))
      BY <1>0, <1>4, <2>2, <3>1, <3>5, Zenon
    <3>7. v # Empty
      BY <2>2, FilesAssumption
    <3>8. NameOf(e, i) # <<n>>
      BY <1>7, <2>2, <3>7
    <3>9. Single(NameField(e, n), i)
      BY <3>6 DEF Single, TokensOf
    <3> QED  BY <3>6, <3>8, <3>9
  <2> QED  BY <2>1, <2>2
<1>9. NameOf(e, i) \in {<<>>, <<last>>}
  BY <1>6, <1>7
<1>10. Views(e, i, last)
  BY <1>8, <1>9, Zenon DEF Views
<1> QED  BY <1>0, <1>1, <1>7, <1>10, Zenon

\* What holds of every index as long as no operation overlaps another one.
AllViews(d, mx, nm) == \A i \in TokensOf(Ids) \ mx : Views(d, i, nm[i])
Fits(s) == Len(s) <= 1 \/ Null \in TokensOf(s)
Shape(d, sh, mx) == \A n \in Files \ (sh \cup mx) : Fits(NameField(d, n))
OneBusy == \A t, u \in Threads : todo[t] # <<>> /\ todo[u] # <<>> => t = u
Serial == overlaps = 0 =>
    /\ OneBusy /\ AllViews(db, mixed, named) /\ Shape(db, shared, mixed)
    /\ \A t \in Threads : Pending(db, mixed, todo[t], id[t])

LEMMA MildPending ==
    ASSUME NEW d, NEW mx, NEW w, NEW r \in Seq(Calls),
           \A c \in TokensOf(r) : Mild(c, w), r # <<>> => Plan(d, mx, r, w)
    PROVE  Pending(d, mx, r, w)
<1>1. CASE r = <<>>
  BY <1>1, Zenon DEF Pending
<1>2. CASE r # <<>>
  <2>1. TokensOf(r) = {Head(r)} \cup TokensOf(Tail(r))
    BY <1>2, TailTokens
  <2>2. Mild(Head(r), w) /\ \A c \in TokensOf(Tail(r)) : Mild(c, w)
    BY <2>1
  <2>3. Head(r)[1] # "make" /\ Head(r)[1] # "unlink"
    BY <2>2 DEF Mild
  <2>4. w = <<Null>> => \A n \in Files : Head(r) # <<"remove", "name", n>>
    BY <2>2, Zenon DEF Mild
  <2>5. Plan(d, mx, r, w)
    BY <1>2
  <2> QED  BY <2>2, <2>3, <2>4, <2>5, Zenon DEF Pending
<1> QED  BY <1>1, <1>2

\* A thread with an operation makes the next call of it, alone.
LEMMA SerialStep ==
    ASSUME FilesInv, Serial, NEW t \in Threads, todo[t] # <<>>, overlaps' = overlaps,
           \A u \in Threads \ {t} : todo'[u] = todo[u],
           overlaps = 0 => /\ AllViews(db', mixed', named') /\ Shape(db', shared', mixed')
                           /\ Pending(db', mixed', todo'[t], id'[t])
    PROVE  Serial'
<1>1. SUFFICES ASSUME overlaps = 0
               PROVE  /\ OneBusy'
                      /\ AllViews(db', mixed', named') /\ Shape(db', shared', mixed')
                      /\ \A u \in Threads : Pending(db', mixed', todo'[u], id'[u])
  BY Zenon DEF Serial
<1>2. OneBusy
  BY <1>1, Zenon DEF Serial
<1>3. \A u \in Threads \ {t} : todo'[u] = <<>>
  BY <1>2 DEF OneBusy
<1>4. OneBusy'
  BY <1>3 DEF OneBusy
<1>5. \A u \in Threads \ {t} : Pending(db', mixed', todo'[u], id'[u])
  BY <1>3, Zenon DEF Pending
<1> QED  BY <1>1, <1>4, <1>5, Zenon

\* An operation starts when all others are over.
LEMMA SerialStart ==
    ASSUME FilesInv, Serial, NEW t \in Threads, Opening(t)
    PROVE  Serial'
<1>1. PICK fileid \in Stored, calls \in Seq(Calls) :
          /\ Start(t, fileid, calls) /\ Pending(db, mixed, calls, fileid)
          /\ shared \subseteq shared'
  BY Zenon DEF Opening
<1>2. /\ todo[t] = <<>> /\ id' = [id EXCEPT ![t] = fileid]
      /\ todo' = [todo EXCEPT ![t] = calls]
      /\ overlaps' = IF \E u \in Threads : todo[u] # <<>> THEN overlaps + 1 ELSE overlaps
      /\ db' = db /\ named' = named /\ mixed' = mixed
  BY <1>1 DEF Start
<1>3. overlaps \in Nat /\ id \in [Threads -> Stored] /\ todo \in [Threads -> Seq(Calls)]
  BY InvParts, FilesAssumption DEF FilesInv, StateTypes
<1>4. SUFFICES ASSUME overlaps' = 0 PROVE Serial'
  BY Zenon DEF Serial
<1>5. overlaps = 0 /\ \A u \in Threads : todo[u] = <<>>
  BY <1>2, <1>3, <1>4
<1>6. /\ \A u \in Threads \ {t} : todo'[u] = <<>>
      /\ todo'[t] = calls /\ id'[t] = fileid
  BY <1>2, <1>3, <1>5
<1>7. OneBusy'
  BY <1>6 DEF OneBusy
<1>8. AllViews(db', mixed', named')
  BY <1>2, <1>5, Zenon DEF Serial
<1>9. Shape(db', shared', mixed')
  <2>1. Shape(db, shared, mixed)
    BY <1>5, Zenon DEF Serial
  <2> QED  BY <1>1, <1>2, <2>1 DEF Shape
<1>10. \A u \in Threads : Pending(db', mixed', todo'[u], id'[u])
  <2>1. \A u \in Threads \ {t} : Pending(db', mixed', todo'[u], id'[u])
    BY <1>6, Zenon DEF Pending
  <2>2. Pending(db', mixed', todo'[t], id'[t])
    BY <1>1, <1>2, <1>6, Zenon
  <2> QED  BY <2>1, <2>2, Zenon
<1> QED  BY <1>7, <1>8, <1>9, <1>10, Zenon DEF Serial

\* What a call that is no removal leaves of the plan for names.
LEMMA PlanOn ==
    ASSUME NEW s \in Seq(Calls), s # <<>>, NEW d, NEW mx, NEW w, Plan(d, mx, s, w),
           Head(s)[1] # "remove"
    PROVE  NoNames(Tail(s)) \/ TokensOf(w) \cap TokensOf(Ids) \subseteq mx
<1>1. TokensOf(s) = {Head(s)} \cup TokensOf(Tail(s))
  BY TailTokens
<1>2. NoNames(s) => NoNames(Tail(s))
  BY <1>1 DEF NoNames
<1>3. \A n : Head(s) # <<"remove", "name", n>>
  OBVIOUS
<1> QED  BY <1>2, <1>3, Zenon DEF Plan

\* What a turn leaves, in terms of what was left before it.
LEMMA TurnRest ==
    ASSUME FilesInv, NEW t \in Threads, NEW call, NEW more \in Seq(Calls), Turn(t, call, more)
    PROVE  /\ todo'[t] \in Seq(Calls) /\ todo[t] \in Seq(Calls) /\ todo[t] # <<>>
           /\ TokensOf(todo'[t]) = TokensOf(more) \cup TokensOf(Tail(todo[t]))
           /\ more = <<>> => todo'[t] = Tail(todo[t])
           /\ \A u \in Threads \ {t} : todo'[u] = todo[u]
           /\ shared \subseteq shared' /\ mixed \subseteq mixed' /\ overlaps' = overlaps
           /\ Head(todo[t])[1] = call
<1>1. /\ todo'[t] = more \o Tail(todo[t]) /\ \A u \in Threads \ {t} : todo'[u] = todo[u]
      /\ todo[t] \in Seq(Calls) /\ todo[t] # <<>> /\ Head(todo[t])[1] = call
  BY TurnCalls
<1>2. PICK r : r = Tail(todo[t])
  OBVIOUS
<1>3. r \in Seq(Calls)
  BY <1>1, <1>2, TailTokens
<1>4. more \o r \in Seq(Calls) /\ TokensOf(more \o r) = TokensOf(more) \cup TokensOf(r)
  BY <1>3, TokensConcat
<1>5. more = <<>> => more \o r = r
  BY <1>3
<1>6. shared \subseteq shared' /\ mixed \subseteq mixed' /\ overlaps' = overlaps
  BY DEF Turn
<1> QED  BY <1>1, <1>2, <1>4, <1>5, <1>6, Zenon

LEMMA ReadsSerial ==
    ASSUME FilesInv, Serial, NEW t \in Threads, Reads(t)
    PROVE  Serial'
<1>1. PICK call, more :
          /\ more \in Seq(Calls) /\ Proceed(t, call, more)
          /\ call \notin {"make", "set", "remove"}
          /\ overlaps = 0 => \A c \in TokensOf(more) : Mild(c, id[t])
          /\ UNCHANGED <<db, next, named>>
  BY Zenon DEF Reads
<1>2. Turn(t, call, more) /\ (todo'[t] = <<>> \/ id'[t] = id[t])
  BY <1>1, ProceedParts
<1>3. PICK s, r, w : s = todo[t] /\ r = todo'[t] /\ w = id[t]
  OBVIOUS
<1>4. /\ r \in Seq(Calls) /\ s \in Seq(Calls) /\ s # <<>>
      /\ TokensOf(r) = TokensOf(more) \cup TokensOf(Tail(s))
      /\ \A u \in Threads \ {t} : todo'[u] = todo[u]
      /\ shared \subseteq shared' /\ mixed \subseteq mixed' /\ overlaps' = overlaps
      /\ Head(s)[1] = call
  <2>1. /\ todo'[t] \in Seq(Calls) /\ todo[t] \in Seq(Calls) /\ todo[t] # <<>>
        /\ TokensOf(todo'[t]) = TokensOf(more) \cup TokensOf(Tail(todo[t]))
        /\ \A u \in Threads \ {t} : todo'[u] = todo[u]
        /\ shared \subseteq shared' /\ mixed \subseteq mixed' /\ overlaps' = overlaps
        /\ Head(todo[t])[1] = call
    BY <1>1, <1>2, TurnRest
  <2> QED  BY <1>3, <2>1, Zenon
<1>5. ASSUME overlaps = 0
      PROVE  /\ AllViews(db', mixed', named') /\ Shape(db', shared', mixed')
             /\ Pending(db', mixed', todo'[t], id'[t])
  <2>1. AllViews(db, mixed, named) /\ Shape(db, shared, mixed) /\ Pending(db, mixed, s, w)
    BY <1>3, <1>5, Zenon DEF Serial
  <2>2. db' = db /\ named' = named
    BY <1>1
  <2>3. AllViews(db', mixed', named')
    <3>1. AllViews(db, mixed', named)
      BY <1>4, <2>1 DEF AllViews
    <3> QED  BY <2>2, <3>1, Zenon
  <2>4. Shape(db', shared', mixed')
    <3>1. Shape(db, shared', mixed')
      BY <1>4, <2>1 DEF Shape
    <3> QED  BY <2>2, <3>1, Zenon
  <2>5. /\ \A c \in TokensOf(Tail(s)) : Mild(c, w)
        /\ Plan(db, mixed, s, w)
    BY <1>4, <2>1, Zenon DEF Pending
  <2>6. \A c \in TokensOf(r) : Mild(c, w)
    BY <1>1, <1>3, <1>4, <1>5, <2>5
  <2>7. NoNames(Tail(s)) \/ TokensOf(w) \cap TokensOf(Ids) \subseteq mixed
    BY <1>1, <1>4, <2>5, PlanOn
  <2>8. Plan(db, mixed', r, w)
    <3>1. CASE GivesName(more)
      <4>1. TokensOf(w) \subseteq mixed'
        BY <1>2, <1>3, <3>1 DEF Turn
      <4> QED  BY <4>1 DEF Plan
    <3>2. CASE ~GivesName(more)
      <4>1. NoNames(more)
        BY <3>2 DEF GivesName, NoNames, TokensOf
      <4>2. NoNames(Tail(s)) => NoNames(r)
        BY <1>4, <4>1 DEF NoNames
      <4> QED  BY <1>4, <2>7, <4>2 DEF Plan
    <3> QED  BY <3>1, <3>2
  <2>9. Pending(db, mixed', r, w)
    BY <1>4, <2>6, <2>8, MildPending
  <2>10. Pending(db', mixed', todo'[t], id'[t])
    <3>1. CASE todo'[t] = <<>>
      BY <3>1, Zenon DEF Pending
    <3>2. CASE todo'[t] # <<>>
      BY <1>2, <1>3, <2>2, <2>9, <3>2, Zenon
    <3> QED  BY <3>1, <3>2
  <2> QED  BY <2>3, <2>4, <2>10
<1>6. todo[t] # <<>>
  BY <1>3, <1>4
<1> QED  BY <1>4, <1>5, <1>6, SerialStep

\* Setting a value keeps the two views of every name together, unless the
\* entity has one already.
LEMMA SetViews ==
    ASSUME NEW d \in Indexes, NEW f \in Stored, "name" \notin TokensOf(f),
           NEW c \in Tokens, c \notin TokensOf(Ids), NEW v \in Tokens,
           NEW mx, NEW nm, NEW nn, AllViews(d, mx, nm),
           \A j \in TokensOf(Ids) \ TokensOf(f) : nn[j] = nm[j],
           c # "name" => \A j \in TokensOf(Ids) : nn[j] = nm[j],
           c = "name" => \A j \in TokensOf(Ids) \cap TokensOf(f) :
               j \in mx \/ (f = <<j>> /\ NameOf(d, j) = <<>> /\ nn[j] = v)
    PROVE  AllViews(Set(d, f, <<c>>, <<v>>), mx, nn)
<1> SUFFICES ASSUME NEW j \in TokensOf(Ids) \ mx
             PROVE  Views(Set(d, f, <<c>>, <<v>>), j, nn[j])
  BY Zenon DEF AllViews
<1>1. Views(d, j, nm[j])
  BY DEF AllViews
<1>2. CASE c # "name"
  <2>1. /\ NamesKept(d, Set(d, f, <<c>>, <<v>>))
        /\ \A i : i # c => NameKept(d, Set(d, f, <<c>>, <<v>>), i)
    BY <1>2, OtherSet
  <2>2. NameKept(d, Set(d, f, <<c>>, <<v>>), j)
    BY <2>1
  <2>3. Views(Set(d, f, <<c>>, <<v>>), j, nm[j])
    BY <1>1, <2>1, <2>2, ViewsKept
  <2> QED  BY <1>2, <2>3
<1>3. CASE c = "name" /\ j \notin TokensOf(f)
  <2>1. Views(Set(d, f, <<"name">>, <<v>>), j, nm[j])
    BY <1>1, <1>3, GiveOther
  <2>2. nn[j] = nm[j]
    BY <1>3
  <2> QED  BY <1>3, <2>1, <2>2, Zenon
<1>4. CASE c = "name" /\ j \in TokensOf(f)
  <2>1. f = <<j>> /\ NameOf(d, j) = <<>> /\ nn[j] = v
    BY <1>4
  <2>2. Views(Set(d, <<j>>, <<"name">>, <<v>>), j, v)
    BY <1>1, <2>1, GiveOwn
  <2> QED  BY <1>4, <2>1, <2>2, Zenon
<1> QED  BY <1>2, <1>3, <1>4

LEMMA GivenField ==
    ASSUME NEW d, NEW f, "name" \notin TokensOf(f), NEW v
    PROVE  NameField(Set(d, f, <<"name">>, <<v>>), v) = AddTo(NameField(d, v), f)
<1>1. /\ NameField(Set(d, f, <<"name">>, <<v>>), v) = AddTo(NameField(d, v), f)
      /\ \A m : m # v => NameField(Set(d, f, <<"name">>, <<v>>), m) = NameField(d, m)
      /\ \A i : i # "name" => NameOf(Set(d, f, <<"name">>, <<v>>), i) =
                   IF f = <<i>> THEN AddTo(NameOf(d, i), <<v>>) ELSE NameOf(d, i)
  BY NameSet
<1> QED  BY <1>1

\* A name is given to the one entity that gets it alone.
LEMMA SetFits ==
    ASSUME FilesInv, Shape(db, shared, mixed), NEW t \in Threads, todo[t] # <<>>,
           NEW f \in Stored, "name" \notin TokensOf(f), Len(f) = 1,
           NEW n \in Files \ (shared \cup mixed), Gives(Head(todo[t]), n)
    PROVE  Fits(NameField(Set(db, f, <<"name">>, <<n>>), n))
<1>0. Fits(f)
  BY DEF Fits
<1>1. db \in Indexes /\ todo[t] \in Seq(Calls) /\ OneGiver
  BY InvParts
<1>2. PICK s : s = NameField(db, n)
  OBVIOUS
<1>3. s \in Text
  BY <1>1, <1>2, AtText DEF NameField
<1>4. TokensOf(s) \subseteq {Empty, Null}
  <2>1. GivenIn(todo[t], n)
    <3>1. PICK r : r = todo[t]
      OBVIOUS
    <3>2. 1 \in DOMAIN r /\ Head(r) = r[1]
      BY <1>1, <3>1, FirstCall
    <3> QED  BY <3>1, <3>2, Zenon DEF GivenIn
  <2>2. Holders(n) = {}
    BY <1>1, <2>1 DEF OneGiver
  <2>3. Holders(n) = TokensOf(s) \ {Empty, Null}
    BY <1>1, <1>2, HoldersAre, Zenon
  <2> QED  BY <2>2, <2>3
<1>5. Fits(s)
  BY <1>2, Zenon DEF Shape
<1>6. Fits(AddTo(s, f))
  <2>1. CASE Null \in TokensOf(s)
    <3>1. Null \in Tokens /\ Null # Empty
      BY TokensAssumption
    <3>2. Null \in TokensOf(AddTo(s, f))
      BY <1>3, <2>1, <3>1, AddToken
    <3> QED  BY <3>2, Zenon DEF Fits
  <2>2. CASE Null \notin TokensOf(s)
    <3>1. Len(s) <= 1 /\ TokensOf(s) \subseteq {Empty}
      BY <1>4, <1>5, <2>2 DEF Fits
    <3>2. CASE s = <<>>
      <4>1. NoReply(s)
        BY <3>2 DEF NoReply
      <4>2. AddTo(s, f) = f
        BY <4>1, Zenon DEF AddTo
      <4> QED  BY <1>0, <4>2, Zenon
    <3>3. CASE s # <<>>
      <4>1. s \in Stored
        BY <1>3, <3>3 DEF Stored
      <4>2. Len(s) \in Nat \ {0}
        BY <4>1, LenTokens
      <4>3. Len(s) = 1
        BY <3>1, <4>2
      <4>4. s = <<Empty>>
        BY <3>1, <4>1, <4>3, LenOne
      <4>5. NoReply(s)
        BY <4>4 DEF NoReply
      <4>6. AddTo(s, f) = f
        BY <4>5, Zenon DEF AddTo
      <4> QED  BY <1>0, <4>6, Zenon
    <3> QED  BY <3>2, <3>3
  <2> QED  BY <2>1, <2>2
<1>7. NameField(Set(db, f, <<"name">>, <<n>>), n) = AddTo(NameField(db, n), f)
  BY GivenField
<1> QED  BY <1>2, <1>6, <1>7, Zenon

\* The shape of the lists of ids after a value is set, for one entity if it is a name.
LEMMA SetShape ==
    ASSUME FilesInv, Shape(db, shared, mixed), NEW t \in Threads, todo[t] # <<>>,
           NEW f \in Stored, "name" \notin TokensOf(f), NEW c \in Tokens, NEW v \in Tokens,
           c = "name" => \A n \in Files \ (shared \cup mixed) :
               v = n => Gives(Head(todo[t]), n) /\ Len(f) = 1
    PROVE  Shape(Set(db, f, <<c>>, <<v>>), shared, mixed)
<1> SUFFICES ASSUME NEW n \in Files \ (shared \cup mixed)
             PROVE  Fits(NameField(Set(db, f, <<c>>, <<v>>), n))
  BY Zenon DEF Shape
<1>1. Fits(NameField(db, n))
  BY Zenon DEF Shape
<1>2. CASE c # "name"
  <2>1. NamesKept(db, Set(db, f, <<c>>, <<v>>))
    BY <1>2, OtherSet
  <2> QED  BY <1>1, <2>1, Zenon DEF NamesKept
<1>3. CASE c = "name" /\ v # n
  <2>1. /\ NameField(Set(db, f, <<"name">>, <<v>>), v) = AddTo(NameField(db, v), f)
        /\ \A m : m # v => NameField(Set(db, f, <<"name">>, <<v>>), m) = NameField(db, m)
        /\ \A i : i # "name" => NameOf(Set(db, f, <<"name">>, <<v>>), i) =
                     IF f = <<i>> THEN AddTo(NameOf(db, i), <<v>>) ELSE NameOf(db, i)
    BY NameSet
  <2> QED  BY <1>1, <1>3, <2>1, Zenon
<1>4. CASE c = "name" /\ v = n
  <2>1. Gives(Head(todo[t]), n) /\ Len(f) = 1
    BY <1>4
  <2>2. Fits(NameField(Set(db, f, <<"name">>, <<n>>), n))
    BY <2>1, SetFits
  <2> QED  BY <1>4, <2>2, Zenon
<1> QED  BY <1>2, <1>3, <1>4

\* A turn without further calls, other than a removal, keeps the history.
LEMMA TurnKeeps ==
    ASSUME FilesInv, NEW t \in Threads, NEW call, call # "remove", Turn(t, call, <<>>)
    PROVE  shared' = shared /\ mixed' = mixed
<1>1. PICK more : more = <<>>
  OBVIOUS
<1>2. Turn(t, call, more)
  BY <1>1, Zenon
<1>3. TokensOf(more) = {} /\ DOMAIN more = {}
  BY <1>1 DEF TokensOf
<1>4. Given(more) = {} /\ ~GivesName(more)
  BY <1>3 DEF Given, GivesName
<1> QED  BY <1>2, <1>4 DEF Turn

\* What is left pending by a call that is no removal.
LEMMA PendingOn ==
    ASSUME NEW s \in Seq(Calls), s # <<>>, NEW d, NEW e, NEW mx, NEW w, NEW ww,
           Pending(d, mx, s, w), Head(s)[1] # "remove", ww = w \/ ww # <<Null>>,
           ww = w \/ Head(s)[1] = "make"
    PROVE  Pending(e, mx, Tail(s), ww)
<1>1. /\ \A c \in TokensOf(Tail(s)) : Mild(c, w)
      /\ Plan(d, mx, s, w) /\ (Head(s)[1] = "make" => NoNames(s))
  BY Zenon DEF Pending
<1>2. Tail(s) \in Seq(Calls) /\ TokensOf(s) = {Head(s)} \cup TokensOf(Tail(s))
  BY TailTokens
<1>3. \A c \in TokensOf(Tail(s)) : Mild(c, ww)
  BY <1>1 DEF Mild
<1>4. NoNames(Tail(s)) \/ (ww = w /\ TokensOf(w) \cap TokensOf(Ids) \subseteq mx)
  <2>1. CASE Head(s)[1] = "make"
    BY <1>1, <1>2, <2>1 DEF NoNames
  <2>2. CASE Head(s)[1] # "make"
    BY <1>1, <2>2, PlanOn
  <2> QED  BY <2>1, <2>2
<1>5. Plan(e, mx, Tail(s), ww)
  BY <1>4 DEF Plan
<1> QED  BY <1>2, <1>3, <1>5, MildPending

LEMMA MakeSerial ==
    ASSUME FilesInv, Steady, Serial, NEW t \in Threads, MakeEntity(t)
    PROVE  Serial'
<1>1. PICK i, v, f, s, r, w, call : /\ i = Ids[next] /\ call = Head(todo[t]) /\ v = call[3]
                                    /\ f = <<i>> /\ s = todo[t] /\ r = todo'[t] /\ w = id[t]
  OBVIOUS
<1>2. /\ Turn(t, "make", <<>>) /\ next <= Len(Ids)
      /\ db' = Set(db, f, <<"name">>, <<v>>) /\ named' = [named EXCEPT ![i] = v]
      /\ id' = [id EXCEPT ![t] = f]
  BY <1>1, Zenon DEF MakeEntity, NewEntity
<1>3. /\ i \in TokensOf(Ids) /\ Unborn(db, i) /\ f \in Stored /\ TokensOf(f) = {i}
      /\ Len(f) = 1 /\ f # <<Null>>
  BY <1>1, <1>2, NewId, Zenon
<1>4. /\ r = Tail(s) /\ s \in Seq(Calls) /\ s # <<>> /\ Head(s)[1] = "make"
      /\ \A u \in Threads \ {t} : todo'[u] = todo[u]
      /\ overlaps' = overlaps
  <2>1. PICK more : more = <<>>
    OBVIOUS
  <2>2. more \in Seq(Calls) /\ Turn(t, "make", more)
    BY <1>2, <2>1
  <2>3. /\ todo'[t] = Tail(todo[t]) /\ todo[t] \in Seq(Calls) /\ todo[t] # <<>>
        /\ \A u \in Threads \ {t} : todo'[u] = todo[u]
        /\ overlaps' = overlaps /\ Head(todo[t])[1] = "make"
    BY <2>1, <2>2, TurnRest
  <2> QED  BY <1>1, <2>3, Zenon
<1>5. shared' = shared /\ mixed' = mixed
  BY <1>2, TurnKeeps
<1>6. /\ db \in Indexes /\ named \in [TokensOf(Ids) -> Tokens]
      /\ id \in [Threads -> Stored] /\ "name" \in Tokens
      /\ "name" \notin TokensOf(Ids) /\ "name" \notin TokensOf(f)
  BY <1>3, IdFacts, InvParts DEF IdsOK
<1>7. v \in Files /\ call = <<"make", "name", v>> /\ v \in Tokens
  <2>1. Head(s) \in Calls
    BY <1>4, NextCalls
  <2>2. call \in {"make"} \X {"name"} \X Files
    BY <1>1, <1>4, <2>1, CallParts
  <2>3. v \in Files /\ call = <<"make", "name", v>>
    BY <1>1, <2>2
  <2> QED  BY <2>3, FilesAssumption
<1>8. ASSUME overlaps = 0
      PROVE  /\ AllViews(db', mixed', named') /\ Shape(db', shared', mixed')
             /\ Pending(db', mixed', todo'[t], id'[t])
  <2>1. AllViews(db, mixed, named) /\ Shape(db, shared, mixed) /\ Pending(db, mixed, s, w)
    BY <1>1, <1>8, Zenon DEF Serial
  <2>2. AllViews(db', mixed', named')
    <3>1. PICK nn : nn = named'
      OBVIOUS
    <3>2. /\ \A j \in TokensOf(Ids) \ TokensOf(f) : nn[j] = named[j]
          /\ nn[i] = v
      BY <1>2, <1>3, <1>6, <3>1
    <3>3. \A j \in TokensOf(Ids) \cap TokensOf(f) :
              j \in mixed \/ (f = <<j>> /\ NameOf(db, j) = <<>> /\ nn[j] = v)
      BY <1>1, <1>3, <3>2 DEF Unborn
    <3>4. AllViews(Set(db, f, <<"name">>, <<v>>), mixed, nn)
      BY <1>3, <1>6, <1>7, <2>1, <3>2, <3>3, SetViews
    <3> QED  BY <1>2, <1>5, <3>1, <3>4, Zenon
  <2>3. Shape(db', shared', mixed')
    <3>1. \A n \in Files \ (shared \cup mixed) : v = n => Gives(Head(todo[t]), n) /\ Len(f) = 1
      BY <1>1, <1>3, <1>7 DEF Gives
    <3>2. todo[t] # <<>>
      BY <1>1, <1>4
    <3>3. Shape(Set(db, f, <<"name">>, <<v>>), shared, mixed)
      BY <1>3, <1>6, <1>7, <2>1, <3>1, <3>2, SetShape
    <3> QED  BY <1>2, <1>5, <3>3, Zenon
  <2>4. Pending(db', mixed', todo'[t], id'[t])
    <3>1. \A e : Pending(e, mixed, Tail(s), f)
      BY <1>3, <1>4, <2>1, PendingOn
    <3>2. id'[t] = f
      BY <1>2, <1>6
    <3> QED  BY <1>1, <1>4, <1>5, <3>1, <3>2, Zenon
  <2> QED  BY <2>2, <2>3, <2>4
<1>9. todo[t] # <<>>
  BY <1>1, <1>4
<1> QED  BY <1>4, <1>8, <1>9, SerialStep

LEMMA SetSerial ==
    ASSUME FilesInv, Steady, Serial, NEW t \in Threads, SetVal(t)
    PROVE  Serial'
<1>1. PICK i, c, v, s, r, w, call : /\ i = Ids[next] /\ call = Head(todo[t])
                                    /\ c = call[2] /\ v = call[3]
                                    /\ s = todo[t] /\ r = todo'[t] /\ w = id[t]
  OBVIOUS
<1>2. /\ Proceed(t, "set", <<>>)
      /\ IF w = <<Null>> THEN NewEntity(t, c, v)
         ELSE /\ db' = Set(db, w, <<c>>, <<v>>)
              /\ named' = IF c = "name" /\ Len(w) = 1 THEN [named EXCEPT ![w[1]] = v] ELSE named
  BY <1>1, Zenon DEF SetVal
<1>3. /\ Turn(t, "set", <<>>) /\ w \in Stored /\ "name" \notin TokensOf(w)
      /\ todo'[t] = <<>> \/ id'[t] = w
  BY <1>1, <1>2, ProceedParts
<1>4. /\ r = Tail(s) /\ s \in Seq(Calls) /\ s # <<>> /\ Head(s)[1] = "set"
      /\ \A u \in Threads \ {t} : todo'[u] = todo[u]
      /\ overlaps' = overlaps
  <2>1. PICK more : more = <<>>
    OBVIOUS
  <2>2. more \in Seq(Calls) /\ Turn(t, "set", more)
    BY <1>3, <2>1
  <2>3. /\ todo'[t] = Tail(todo[t]) /\ todo[t] \in Seq(Calls) /\ todo[t] # <<>>
        /\ \A u \in Threads \ {t} : todo'[u] = todo[u]
        /\ overlaps' = overlaps /\ Head(todo[t])[1] = "set"
    BY <2>1, <2>2, TurnRest
  <2> QED  BY <1>1, <2>3, Zenon
<1>5. shared' = shared /\ mixed' = mixed
  BY <1>3, TurnKeeps
<1>6. /\ db \in Indexes /\ named \in [TokensOf(Ids) -> Tokens] /\ OneGiver
  BY InvParts DEF IdsOK
<1>7. call \in TokensOf(s) /\ call = <<"set", c, v>> /\ c \in Tokens /\ v \in Tokens /\ c \notin TokensOf(Ids)
  <2>1. Head(s) \in Calls /\ CallOK(Head(s)) /\ Head(s) \in TokensOf(s)
    BY <1>1, <1>2, LastParts, Zenon
  <2>2. call \in SetCalls
    BY <1>1, <1>4, <2>1, CallParts
  <2>3. call = <<"set", call[2], call[3]>> /\ call[2] \in Tokens /\ call[3] \in Tokens
    BY <2>2 DEF SetCalls
  <2>4. c \notin TokensOf(Ids)
    BY <1>1, <1>4, <2>1 DEF CallOK
  <2> QED  BY <1>1, <2>1, <2>3, <2>4, Zenon
<1>8. ASSUME overlaps = 0
      PROVE  /\ AllViews(db', mixed', named') /\ Shape(db', shared', mixed')
             /\ Pending(db', mixed', todo'[t], id'[t])
  <2>1. AllViews(db, mixed, named) /\ Shape(db, shared, mixed) /\ Pending(db, mixed, s, w)
    BY <1>1, <1>8, Zenon DEF Serial
  <2>2. PICK nn : nn = named'
    OBVIOUS
  <2>3. PICK f : /\ f \in Stored /\ "name" \notin TokensOf(f) /\ db' = Set(db, f, <<c>>, <<v>>)
                 /\ f = w \/ Len(f) = 1
                 /\ \A j \in TokensOf(Ids) \ TokensOf(f) : nn[j] = named[j]
                 /\ c # "name" => nn = named
                 /\ c = "name" => \A j \in TokensOf(Ids) \cap TokensOf(f) :
                       j \in mixed \/ (f = <<j>> /\ NameOf(db, j) = <<>> /\ nn[j] = v)
    <3>1. CASE w = <<Null>>
      <4>1. PICK f : f = <<i>>
        OBVIOUS
      <4>2. /\ next <= Len(Ids) /\ db' = Set(db, f, <<c>>, <<v>>)
            /\ nn = IF c = "name" THEN [named EXCEPT ![i] = v] ELSE named
        BY <1>1, <1>2, <2>2, <3>1, <4>1, Zenon DEF NewEntity
      <4>3. /\ i \in TokensOf(Ids) /\ Unborn(db, i) /\ f \in Stored /\ TokensOf(f) = {i}
            /\ Len(f) = 1 /\ f # <<Null>>
        BY <1>1, <4>1, <4>2, NewId, Zenon
      <4>4. "name" \notin TokensOf(f)
        BY <4>3, IdFacts
      <4>5. /\ \A j \in TokensOf(Ids) \ TokensOf(f) : nn[j] = named[j]
            /\ c = "name" => nn[i] = v
        BY <1>6, <4>2, <4>3
      <4>6. c = "name" => \A j \in TokensOf(Ids) \cap TokensOf(f) :
                j \in mixed \/ (f = <<j>> /\ NameOf(db, j) = <<>> /\ nn[j] = v)
        BY <4>1, <4>3, <4>5 DEF Unborn
      <4> QED  BY <4>2, <4>3, <4>4, <4>5, <4>6, Zenon
    <3>2. CASE w # <<Null>>
      <4>1. /\ db' = Set(db, w, <<c>>, <<v>>)
            /\ nn = IF c = "name" /\ Len(w) = 1 THEN [named EXCEPT ![w[1]] = v] ELSE named
        BY <1>2, <2>2, <3>2, Zenon
      <4>2. w[1] \in TokensOf(w)
        BY <1>3, LenTokens
      <4>3. \A j \in TokensOf(Ids) \ TokensOf(w) : nn[j] = named[j]
        BY <1>6, <4>1, <4>2
      <4>4. ASSUME c = "name", NEW j \in TokensOf(Ids) \cap TokensOf(w), j \notin mixed
            PROVE  w = <<j>> /\ NameOf(db, j) = <<>> /\ nn[j] = v
        <5>1. ~NoNames(s)
          BY <1>7, <4>4 DEF NoNames
        <5>2. ~(TokensOf(w) \cap TokensOf(Ids) \subseteq mixed)
          BY <4>4
        <5>3. \A n : Head(s) # <<"remove", "name", n>>
          BY <1>4
        <5>4. Plan(db, mixed, s, w)
          BY <1>4, <2>1, Zenon DEF Pending
        <5>5. PICK k \in TokensOf(Ids) : w = <<k>> /\ NameOf(db, k) = <<>>
          BY <5>1, <5>2, <5>3, <5>4, Zenon DEF Plan
        <5>6. TokensOf(w) = {k} /\ Len(w) = 1 /\ w[1] = k
          BY <5>5, OneTexts
        <5>7. j = k
          BY <4>4, <5>6
        <5>8. nn[j] = v
          BY <1>6, <4>1, <4>4, <5>6, <5>7
        <5> QED  BY <5>5, <5>7, <5>8, Zenon
      <4>5. c # "name" => nn = named
        BY <4>1
      <4> QED  BY <1>3, <4>1, <4>3, <4>4, <4>5, Zenon
    <3> QED  BY <3>1, <3>2
  <2>4. AllViews(db', mixed', named')
    <3>1. c # "name" => \A j \in TokensOf(Ids) : nn[j] = named[j]
      BY <2>3, Zenon
    <3>2. AllViews(Set(db, f, <<c>>, <<v>>), mixed, nn)
      BY <1>6, <1>7, <2>1, <2>3, <3>1, SetViews
    <3> QED  BY <1>5, <2>2, <2>3, <3>2, Zenon
  <2>5. Shape(db', shared', mixed')
    <3>1. ASSUME c = "name", NEW n \in Files \ (shared \cup mixed), v = n
          PROVE  Gives(Head(todo[t]), n) /\ Len(f) = 1
      <4>1. call = <<"set", "name", n>>
        BY <1>7, <3>1, Zenon
      <4>2. Len(id[t]) = 1
        <5>1. n \in Files \ shared
          OBVIOUS
        <5>2. <<"set", "name", n>> \in TokensOf(todo[t])
          BY <1>1, <1>7, <4>1, Zenon
        <5> QED  BY <1>6, <5>1, <5>2, Zenon DEF OneGiver
      <4>3. Len(f) = 1
        BY <1>1, <2>3, <4>2
      <4> QED  BY <1>1, <4>1, <4>3 DEF Gives
    <3>2. todo[t] # <<>>
      BY <1>1, <1>4
    <3>3. Shape(Set(db, f, <<c>>, <<v>>), shared, mixed)
      BY <1>7, <2>1, <2>3, <3>1, <3>2, SetShape
    <3> QED  BY <1>5, <2>3, <3>3, Zenon
  <2>6. Pending(db', mixed', todo'[t], id'[t])
    <3>1. \A e : Pending(e, mixed, Tail(s), w)
      BY <1>4, <2>1, PendingOn
    <3>2. CASE todo'[t] = <<>>
      BY <3>2, Zenon DEF Pending
    <3>3. CASE todo'[t] # <<>>
      BY <1>1, <1>3, <1>4, <1>5, <3>1, <3>3, Zenon
    <3> QED  BY <3>2, <3>3
  <2> QED  BY <2>4, <2>5, <2>6
<1>9. todo[t] # <<>>
  BY <1>1, <1>4
<1> QED  BY <1>4, <1>8, <1>9, SerialStep

\* A removal keeps the two views of every name together, but for the entities
\* that it takes for one.
LEMMA RemoveViews ==
    ASSUME NEW d \in Indexes, NEW f \in Stored, "name" \notin TokensOf(f),
           NEW c \in Tokens, c \notin TokensOf(Ids), NEW v \in Tokens,
           NEW mx, NEW my, mx \subseteq my, NEW nm \in [TokensOf(Ids) -> Tokens],
           AllViews(d, mx, nm),
           c = "name" /\ Len(f) # 1 => TokensOf(f) \subseteq my
    PROVE  AllViews(Remove(d, f, <<c>>, <<v>>), my, nm)
<1> SUFFICES ASSUME NEW j \in TokensOf(Ids) \ my
             PROVE  Views(Remove(d, f, <<c>>, <<v>>), j, nm[j])
  BY Zenon DEF AllViews
<1>1. Views(d, j, nm[j])
  BY DEF AllViews
<1>2. nm[j] \in Tokens
  OBVIOUS
<1>3. CASE c # "name"
  <2>1. /\ NamesKept(d, Remove(d, f, <<c>>, <<v>>))
        /\ \A i : i # c => NameKept(d, Remove(d, f, <<c>>, <<v>>), i)
    BY <1>3, OtherRemoval
  <2>2. NameKept(d, Remove(d, f, <<c>>, <<v>>), j)
    BY <2>1
  <2> QED  BY <1>1, <2>1, <2>2, ViewsKept
<1>4. CASE c = "name" /\ j \notin TokensOf(f)
  <2>1. Views(Remove(d, f, <<"name">>, <<v>>), j, nm[j])
    BY <1>1, <1>4, TakeOther
  <2> QED  BY <1>4, <2>1, Zenon
<1>5. CASE c = "name" /\ j \in TokensOf(f)
  <2>1. Len(f) = 1
    BY <1>5
  <2>2. f = <<j>>
    BY <1>5, <2>1, LenTokens
  <2>3. /\ Views(Remove(d, <<j>>, <<"name">>, <<v>>), j, nm[j])
        /\ NameOf(d, j) = <<v>> /\ v # Empty =>
              NameOf(Remove(d, <<j>>, <<"name">>, <<v>>), j) = <<>>
    BY <1>1, <1>2, TakeOwn
  <2> QED  BY <1>5, <2>2, <2>3, Zenon
<1> QED  BY <1>3, <1>4, <1>5

LEMMA TakenField ==
    ASSUME NEW d \in Indexes, NEW f \in Stored, "name" \notin TokensOf(f), NEW v \in Tokens
    PROVE  NameField(Remove(d, f, <<"name">>, <<v>>), v) = EraseFrom(GetVal(NameField(d, v)), f)
<1>1. /\ NameField(Remove(d, f, <<"name">>, <<v>>), v) = EraseFrom(GetVal(NameField(d, v)), f)
      /\ \A n : n # v => NameField(Remove(d, f, <<"name">>, <<v>>), n) = NameField(d, n)
      /\ \A i : i # "name" => NameOf(Remove(d, f, <<"name">>, <<v>>), i) =
                   IF f = <<i>> THEN Without(NameOf(d, i), <<v>>) ELSE NameOf(d, i)
  BY NameRemoved
<1> QED  BY <1>1

LEMMA RemoveFits ==
    ASSUME NEW s \in Text, NEW f \in Stored, Len(f) = 1, Fits(s),
           f = <<Null>> => GetVal(s) = <<Null>>
    PROVE  Fits(EraseFrom(GetVal(s), f))
<1>1. PICK g, e : g = GetVal(s) /\ e = EraseFrom(g, f)
  OBVIOUS
<1>2. g \in Stored
  BY <1>1, GetValStored
<1>3. Len(e) = Len(g)
  BY <1>1, <1>2, EraseLen
<1>4. CASE Len(g) = 1
  BY <1>1, <1>3, <1>4 DEF Fits
<1>5. CASE Null \in TokensOf(s) /\ Len(g) # 1
  <2>1. Null \in TokensOf(g)
    BY <1>1, <1>5, GetValToken
  <2>2. f # <<Null>>
    BY <1>1, <1>5
  <2>3. Null \notin TokensOf(f)
    BY <2>2, LenTokens
  <2>4. Null # Empty
    BY TokensAssumption
  <2>5. Null \in TokensOf(e)
    BY <1>1, <1>2, <2>1, <2>3, <2>4, EraseOther
  <2> QED  BY <1>1, <2>5, Zenon DEF Fits
<1>6. CASE Null \notin TokensOf(s)
  <2>1. Len(s) <= 1
    BY <1>6 DEF Fits
  <2>2. Len(g) = 1
    BY <1>1, <2>1, GetValToken
  <2> QED  BY <1>4, <2>2
<1> QED  BY <1>4, <1>5, <1>6

LEMMA RemoveShape ==
    ASSUME NEW d \in Indexes, NEW f \in Stored, "name" \notin TokensOf(f),
           NEW c \in Tokens, NEW v \in Tokens, NEW sh, NEW mx, NEW my, mx \subseteq my,
           Shape(d, sh, mx), c = "name" /\ Len(f) # 1 => v \in my,
           c = "name" /\ v \in Files /\ f = <<Null>> => GetVal(NameField(d, v)) = <<Null>>
    PROVE  Shape(Remove(d, f, <<c>>, <<v>>), sh, my)
<1> SUFFICES ASSUME NEW n \in Files \ (sh \cup my)
             PROVE  Fits(NameField(Remove(d, f, <<c>>, <<v>>), n))
  BY Zenon DEF Shape
<1>1. Fits(NameField(d, n))
  BY DEF Shape
<1>2. CASE c # "name"
  <2>1. /\ NamesKept(d, Remove(d, f, <<c>>, <<v>>))
        /\ \A i : i # c => NameKept(d, Remove(d, f, <<c>>, <<v>>), i)
    BY <1>2, OtherRemoval
  <2> QED  BY <1>1, <2>1, Zenon DEF NamesKept
<1>3. CASE c = "name" /\ v # n
  <2>1. /\ NameField(Remove(d, f, <<"name">>, <<v>>), v) = EraseFrom(GetVal(NameField(d, v)), f)
        /\ \A m : m # v => NameField(Remove(d, f, <<"name">>, <<v>>), m) = NameField(d, m)
        /\ \A i : i # "name" => NameOf(Remove(d, f, <<"name">>, <<v>>), i) =
                     IF f = <<i>> THEN Without(NameOf(d, i), <<v>>) ELSE NameOf(d, i)
    BY NameRemoved
  <2> QED  BY <1>1, <1>3, <2>1, Zenon
<1>4. CASE c = "name" /\ v = n
  <2>1. NameField(Remove(d, f, <<"name">>, <<v>>), v) = EraseFrom(GetVal(NameField(d, v)), f)
    BY TakenField
  <2>2. PICK s : s = NameField(d, n)
    OBVIOUS
  <2>3. s \in Text
    BY <2>2, AtText DEF NameField
  <2>4. Len(f) = 1
    BY <1>4
  <2>5. f = <<Null>> => GetVal(s) = <<Null>>
    BY <1>4, <2>2
  <2>6. Fits(EraseFrom(GetVal(s), f))
    BY <1>1, <2>2, <2>3, <2>4, <2>5, RemoveFits
  <2> QED  BY <1>4, <2>1, <2>2, <2>6, Zenon
<1> QED  BY <1>2, <1>3, <1>4

\* The removal of the old name leaves the entity without any, ready for the new one.
LEMMA NameTaken ==
    ASSUME NEW d \in Indexes, NEW n \in Files, NEW mx, NEW nm \in [TokensOf(Ids) -> Tokens],
           AllViews(d, mx, nm), NEW f \in Stored, f = GetVal(NameField(d, n)), Len(f) = 1
    PROVE  \/ TokensOf(f) \cap TokensOf(Ids) \subseteq mx
           \/ \E i \in TokensOf(Ids) :
                 f = <<i>> /\ NameOf(Remove(d, f, <<"name">>, <<n>>), i) = <<>>
<1>1. PICK x : x = f[1]
  OBVIOUS
<1>2. f = <<x>> /\ TokensOf(f) = {x}
  BY <1>1, LenTokens
<1>3. n \in Tokens /\ n # Empty
  BY FilesAssumption
<1>4. CASE x \in TokensOf(Ids) /\ x \notin mx
  <2>1. Views(d, x, nm[x])
    BY <1>4 DEF AllViews
  <2>2. nm[x] \in Tokens
    BY <1>4
  <2>3. x \notin {Empty, Null}
    BY <1>4, IdFacts
  <2>4. x \in TokensOf(NameField(d, n))
    <3>1. PICK s : s = NameField(d, n)
      OBVIOUS
    <3>2. s \in Text
      BY <3>1, AtText DEF NameField
    <3>3. x \in TokensOf(GetVal(s)) <=> x \in TokensOf(s)
      BY <2>3, <3>2, GetValToken
    <3>4. x \in TokensOf(GetVal(s))
      BY <1>2, <3>1
    <3> QED  BY <3>1, <3>3, <3>4
  <2>5. NameOf(d, x) = <<n>>
    BY <2>1, <2>4, Zenon DEF Views
  <2>6. /\ Views(Remove(d, <<x>>, <<"name">>, <<n>>), x, nm[x])
        /\ NameOf(d, x) = <<n>> /\ n # Empty =>
              NameOf(Remove(d, <<x>>, <<"name">>, <<n>>), x) = <<>>
    BY <1>3, <1>4, <2>1, <2>2, TakeOwn
  <2>7. NameOf(Remove(d, f, <<"name">>, <<n>>), x) = <<>>
    BY <1>2, <1>3, <2>5, <2>6, Zenon
  <2> QED  BY <1>2, <1>4, <2>7, Zenon
<1>5. CASE x \notin TokensOf(Ids) \/ x \in mx
  BY <1>2, <1>5
<1> QED  BY <1>4, <1>5

LEMMA RemoveSerial ==
    ASSUME FilesInv, Steady, Serial, NEW t \in Threads, RemoveVal(t)
    PROVE  Serial'
<1>1. PICK c, v, s, r, f, call : /\ call = Head(todo[t]) /\ c = call[2] /\ v = call[3]
                                 /\ s = todo[t] /\ r = todo'[t] /\ f = id[t]
  OBVIOUS
<1>2. /\ Proceed(t, "remove", <<>>) /\ db' = Remove(db, f, <<c>>, <<v>>) /\ named' = named
  BY <1>1, Zenon DEF RemoveVal
<1>3. /\ Turn(t, "remove", <<>>) /\ f \in Stored /\ "name" \notin TokensOf(f)
      /\ todo'[t] = <<>> \/ id'[t] = f
  BY <1>1, <1>2, ProceedParts
<1>4. /\ r = Tail(s) /\ s \in Seq(Calls) /\ s # <<>> /\ Head(s)[1] = "remove"
      /\ \A u \in Threads \ {t} : todo'[u] = todo[u]
      /\ overlaps' = overlaps /\ mixed \subseteq mixed'
      /\ shared' = shared
      /\ Len(f) # 1 => TokensOf(f) \cup {v} \subseteq mixed'
  <2>1. PICK more : more = <<>>
    OBVIOUS
  <2>2. more \in Seq(Calls) /\ Turn(t, "remove", more)
    BY <1>3, <2>1
  <2>3. /\ todo'[t] = Tail(todo[t]) /\ todo[t] \in Seq(Calls) /\ todo[t] # <<>>
        /\ \A u \in Threads \ {t} : todo'[u] = todo[u]
        /\ overlaps' = overlaps /\ mixed \subseteq mixed' /\ Head(todo[t])[1] = "remove"
    BY <2>1, <2>2, TurnRest
  <2>4. TokensOf(more) = {} /\ DOMAIN more = {}
    BY <2>1 DEF TokensOf
  <2>5. Given(more) = {} /\ ~GivesName(more)
    BY <2>4 DEF Given, GivesName
  <2>6. Len(f) # 1 => Len(f) > 1
    <3>1. Len(f) \in Nat \ {0}
      BY <1>3, LenTokens
    <3>2. \A k \in Nat \ {0} : k # 1 => k > 1
      OBVIOUS
    <3> QED  BY <3>1, <3>2, Zenon
  <2>7. /\ shared' = shared
        /\ Len(f) > 1 => mixed' = mixed \cup TokensOf(f) \cup {v}
    BY <1>1, <2>2, <2>5 DEF Turn
  <2>8. Len(f) # 1 => TokensOf(f) \cup {v} \subseteq mixed'
    BY <2>6, <2>7
  <2> QED  BY <1>1, <2>3, <2>7, <2>8, Zenon
<1>5. db \in Indexes /\ named \in [TokensOf(Ids) -> Tokens]
  BY InvParts DEF IdsOK
<1>6. call = <<"remove", c, v>> /\ c \in Tokens /\ v \in Tokens /\ c \notin TokensOf(Ids)
  <2>1. Head(s) \in Calls /\ CallOK(Head(s))
    BY <1>1, <1>2, LastParts, Zenon
  <2>2. call \in {"remove"} \X Tokens \X Tokens
    BY <1>1, <1>4, <2>1, CallParts
  <2>3. call = <<"remove", call[2], call[3]>> /\ call[2] \in Tokens /\ call[3] \in Tokens
    BY <2>2
  <2>4. c = "name" \/ c = "attrs"
    BY <1>1, <1>4, <2>1 DEF CallOK
  <2>5. c \notin TokensOf(Ids)
    BY <2>4, IdFacts
  <2> QED  BY <1>1, <2>3, <2>5, Zenon
<1>7. ASSUME overlaps = 0
      PROVE  /\ AllViews(db', mixed', named') /\ Shape(db', shared', mixed')
             /\ Pending(db', mixed', todo'[t], id'[t])
  <2>1. AllViews(db, mixed, named) /\ Shape(db, shared, mixed) /\ Pending(db, mixed, s, f)
    BY <1>1, <1>7, Zenon DEF Serial
  <2>2. PICK my : my = mixed'
    OBVIOUS
  <2>3. mixed \subseteq my /\ (Len(f) # 1 => TokensOf(f) \cup {v} \subseteq my)
    BY <1>4, <2>2
  <2>4. AllViews(db', mixed', named')
    <3>1. AllViews(Remove(db, f, <<c>>, <<v>>), my, named)
      BY <1>3, <1>5, <1>6, <2>1, <2>3, RemoveViews
    <3> QED  BY <1>2, <2>2, <3>1, Zenon
  <2>5. /\ \A k \in TokensOf(Tail(s)) : Mild(k, f)
        /\ f = <<Null>> => \A n \in Files :
              Head(s) = <<"remove", "name", n>> => GetVal(NameField(db, n)) = <<Null>>
        /\ Plan(db, mixed, s, f)
    BY <1>4, <2>1, Zenon DEF Pending
  <2>6. Shape(db', shared', mixed')
    <3>1. c = "name" /\ v \in Files /\ f = <<Null>> => GetVal(NameField(db, v)) = <<Null>>
      BY <1>1, <1>6, <2>5, Zenon
    <3>2. c = "name" /\ Len(f) # 1 => v \in my
      BY <2>3
    <3>3. Shape(Remove(db, f, <<c>>, <<v>>), shared, my)
      BY <1>3, <1>5, <1>6, <2>1, <2>3, <3>1, <3>2, RemoveShape
    <3> QED  BY <1>2, <1>4, <2>2, <3>3, Zenon
  <2>7. Plan(db', my, Tail(s), f)
    <3>1. CASE NoNames(s)
      <4>1. NoNames(Tail(s))
        BY <1>4, <3>1, TailTokens DEF NoNames
      <4> QED  BY <4>1, Zenon DEF Plan
    <3>2. CASE TokensOf(f) \cap TokensOf(Ids) \subseteq mixed
      <4>1. TokensOf(f) \cap TokensOf(Ids) \subseteq my
        BY <2>3, <3>2
      <4> QED  BY <4>1, Zenon DEF Plan
    <3>3. CASE NoNames(Tail(s))
      BY <3>3, Zenon DEF Plan
    <3>4. CASE /\ NoNames(Tail(Tail(s)))
               /\ \E n \in Files : Head(s) = <<"remove", "name", n>> /\ f = GetVal(NameField(db, n))
      <4>1. PICK n \in Files : Head(s) = <<"remove", "name", n>> /\ f = GetVal(NameField(db, n))
        BY <3>4
      <4>2. c = "name" /\ v = n
        BY <1>1, <4>1
      <4>3. CASE Len(f) # 1
        <5>1. TokensOf(f) \cap TokensOf(Ids) \subseteq my
          BY <2>3, <4>3
        <5> QED  BY <5>1, Zenon DEF Plan
      <4>4. CASE Len(f) = 1
        <5>1. \/ TokensOf(f) \cap TokensOf(Ids) \subseteq mixed
              \/ \E i \in TokensOf(Ids) :
                    f = <<i>> /\ NameOf(Remove(db, f, <<"name">>, <<n>>), i) = <<>>
          BY <1>3, <1>5, <2>1, <4>1, <4>4, NameTaken
        <5>2. db' = Remove(db, f, <<"name">>, <<n>>)
          BY <1>2, <4>2, Zenon
        <5>3. CASE \E i \in TokensOf(Ids) : f = <<i>> /\ NameOf(db', i) = <<>>
          BY <3>4, <5>3, Zenon DEF Plan
        <5> QED  BY <3>2, <5>1, <5>2, <5>3, Zenon
      <4> QED  BY <4>3, <4>4
    <3> QED  BY <2>5, <3>1, <3>2, <3>3, <3>4, Zenon DEF Plan
  <2>8. Pending(db', my, Tail(s), f)
    <3>1. Tail(s) \in Seq(Calls)
      BY <1>4, TailTokens
    <3> QED  BY <2>5, <2>7, <3>1, MildPending
  <2>9. Pending(db', mixed', todo'[t], id'[t])
    <3>1. CASE todo'[t] = <<>>
      BY <3>1, Zenon DEF Pending
    <3>2. CASE todo'[t] # <<>>
      BY <1>1, <1>3, <1>4, <2>2, <2>8, <3>2, Zenon
    <3> QED  BY <3>1, <3>2
  <2> QED  BY <2>4, <2>6, <2>9
<1>8. todo[t] # <<>>
  BY <1>1, <1>4
<1> QED  BY <1>4, <1>7, <1>8, SerialStep
-------------------------------------------------------------------------------
(***************************************************************************)
(* NamesInv is inductive, and makes names current.                         *)
(***************************************************************************)
NamesInv == FilesInv /\ Steady /\ Serial

LEMMA NamesOpen ==
    ASSUME NamesInv, NEW t \in Threads, Opening(t)
    PROVE  Steady' /\ Serial'
<1>1. PICK fileid, calls : Start(t, fileid, calls) /\ Read(fileid, t) /\ AllOK(calls)
  BY Zenon DEF Opening
<1>2. Steady'
  BY <1>1, SteadyStart DEF NamesInv
<1> QED  BY <1>2, SerialStart DEF NamesInv

LEMMA NamesReads ==
    ASSUME NamesInv, NEW t \in Threads, Reads(t)
    PROVE  Steady' /\ Serial'
<1>1. PICK call, more :
          /\ more \in Seq(Calls) /\ Proceed(t, call, more) /\ AllOK(more)
          /\ UNCHANGED <<db, next, named>>
  BY Zenon DEF Reads
<1>2. UNCHANGED <<db, next>>
  BY <1>1
<1>3. Steady'
  BY <1>1, <1>2, SteadyTurn DEF NamesInv
<1> QED  BY <1>3, ReadsSerial DEF NamesInv

LEMMA CallNames ==
    ASSUME NamesInv, NEW t \in Threads, Call(t)
    PROVE  Steady' /\ Serial'
<1>1. FilesInv /\ Steady /\ Serial
  BY DEF NamesInv
<1>2. CASE MakeEntity(t)
  BY <1>1, <1>2, SteadyMake, MakeSerial
<1>3. CASE SetVal(t)
  BY <1>1, <1>3, SteadySet, SetSerial
<1>4. CASE RemoveVal(t)
  BY <1>1, <1>4, SteadyRemove, RemoveSerial
<1>5. CASE \/ ProcessFile(t) \/ FlushFile(t) \/ UnlinkFile(t)
           \/ MapFile(t) \/ LocateFile(t) \/ MoveFile(t) \/ DeleteFile(t)
  <2>1. overlaps = 0 => Pending(db, mixed, todo[t], id[t])
    BY <1>1, Zenon DEF Serial
  <2>2. Reads(t)
    BY <1>1, <1>5, <2>1, ProcessReads, FlushReads, UnlinkReads, MapReads, LocateReads,
       MoveReads, DeleteReads, Zenon
  <2> QED  BY <2>2, NamesReads
<1> QED  BY <1>2, <1>3, <1>4, <1>5, Zenon DEF Call

LEMMA StartNames ==
    ASSUME NamesInv, NEW t \in Threads, NEW n \in Files,
           \/ Receive(t, n) \/ Flush(t, n) \/ Unlink(t, n) \/ Mknod(t, n)
           \/ \E dir \in Dirs :
               \/ Create(t, dir, n)
               \/ \E m \in Files : Rename(t, n, dir, m)
           \/ \E m \in Files : Link(t, n, m)
    PROVE  Steady' /\ Serial'
<1>1. FilesInv /\ Steady
  BY DEF NamesInv
<1>2. CASE Receive(t, n) \/ Flush(t, n) \/ Unlink(t, n)
  <2>1. Opening(t)
    BY <1>1, <1>2, ReceiveOpens, FlushOpens, UnlinkOpens, Zenon
  <2> QED  BY <2>1, NamesOpen
<1>3. CASE Mknod(t, n) \/ \E m \in Files : Link(t, n, m)
  <2>1. PICK path, inode : PutOnDisk(t, path, inode)
    BY <1>3, Zenon DEF Mknod, Link
  <2>2. Opening(t)
    BY <1>1, <2>1, PutOnDiskOpens
  <2> QED  BY <2>2, NamesOpen
<1>4. CASE \E dir \in Dirs : Create(t, dir, n)
  <2>1. Opening(t)
    BY <1>1, <1>4, CreateOpens, Zenon
  <2> QED  BY <2>1, NamesOpen
<1>5. CASE \E dir \in Dirs : \E m \in Files : Rename(t, n, dir, m)
  <2>1. Opening(t)
    BY <1>1, <1>5, RenameOpens, Zenon
  <2> QED  BY <2>1, NamesOpen
<1> QED  BY <1>2, <1>3, <1>4, <1>5, Zenon

LEMMA NamesStep == NamesInv /\ [Next]_vars => NamesInv'
<1> SUFFICES ASSUME NamesInv, [Next]_vars PROVE NamesInv'
  OBVIOUS
<1>1. FilesInv'
  BY FilesStep, Zenon DEF NamesInv
<1>2. CASE Next
  <2>1. PICK t \in Threads :
            \/ \E n \in Files :
                \/ Receive(t, n) \/ Flush(t, n) \/ Unlink(t, n) \/ Mknod(t, n)
                \/ \E dir \in Dirs :
                    \/ Create(t, dir, n)
                    \/ \E m \in Files : Rename(t, n, dir, m)
                \/ \E m \in Files : Link(t, n, m)
            \/ Call(t)
    BY <1>2, Zenon DEF Next
  <2>2. Steady' /\ Serial'
    BY <2>1, CallNames, StartNames, Zenon
  <2> QED  BY <1>1, <2>2, Zenon DEF NamesInv
<1>3. CASE UNCHANGED vars
  <2>1. /\ db' = db /\ next' = next /\ id' = id /\ todo' = todo
        /\ overlaps' = overlaps /\ named' = named /\ shared' = shared /\ mixed' = mixed
    BY <1>3 DEF vars
  <2>2. Steady'
    BY <2>1, Zenon DEF NamesInv, Steady
  <2>3. Serial'
    BY <2>1, Zenon DEF NamesInv, Serial, OneBusy
  <2> QED  BY <1>1, <2>2, <2>3, Zenon DEF NamesInv
<1> QED  BY <1>2, <1>3

\* The start: only the attributes of the registered type are stored.
Blank == {d \in Indexes : AttrTexts(d) /\ IdNames(d) /\ Nowhere(d)
                            /\ \A i \in TokensOf(Ids) : Unborn(d, i)}

LEMMA BlankOne ==
    ASSUME NEW d \in Blank, NEW k \in 1..Len(AttrNames)
    PROVE  Set(d, <<Known>>, <<"attrs">>, <<AttrNames[k]>>) \in Blank
<1>1. PICK x : x = AttrNames[k]
  OBVIOUS
<1>2. x \in TokensOf(AttrNames) /\ x \in Tokens
  <2>1. AttrNames \in Seq(Tokens)
    BY FilesAssumption DEF AttrNames
  <2>2. x \in Tokens /\ DOMAIN AttrNames = 1..Len(AttrNames)
    BY <1>1, <2>1, ElementOfSeq, LenProperties
  <2> QED  BY <1>1, <2>2 DEF TokensOf
<1>3. PICK f, c, v, N, e : /\ f = <<Known>> /\ c = <<"attrs">> /\ v = <<x>> /\ N = <<"name">>
                           /\ e = Set(d, f, c, v)
  OBVIOUS
<1>4. Known \in Tokens /\ Known # "attrs" /\ Known # Null /\ Known # "name"
  BY FilesAssumption, NamesAssumption
<1>5. /\ TokensOf(f) = {Known} /\ TokensOf(c) = {"attrs"} /\ TokensOf(v) = {x} /\ TokensOf(N) = {"name"}
      /\ f \in Stored /\ c \in Stored /\ v \in Stored
  <2>1. \A w : TokensOf(<<w>>) = {w}
    BY OneTexts
  <2>2. \A w \in Tokens : <<w>> \in Stored
    BY OneToken
  <2>3. "attrs" \in Tokens
    BY IdFacts
  <2> QED  BY <1>2, <1>3, <1>4, <2>1, <2>2, <2>3, Zenon
<1>6. /\ d \in Indexes /\ AttrTexts(d) /\ IdNames(d) /\ Nowhere(d)
      /\ \A i \in TokensOf(Ids) : Unborn(d, i)
  BY DEF Blank
<1>7. x # "attrs" /\ "attrs" # "name"
  BY <1>2, IdFacts DEF AttrTokens
<1>8. f # c /\ v # c /\ c # N
  BY <1>4, <1>5, <1>7
<1>9. /\ \A h, q : ~(h = f /\ q = c) /\ ~(h = c /\ q = v) => At(e, h, q) = At(d, h, q)
      /\ At(e, f, c) = AddTo(At(d, f, c), v) /\ At(e, c, v) = AddTo(At(d, c, v), f)
  <2>1. /\ \A h, q : ~(h = f /\ q = c) /\ ~(h = c /\ q = v) =>
               At(Set(d, f, c, v), h, q) = At(d, h, q)
        /\ f # c => /\ At(Set(d, f, c, v), f, c) = AddTo(At(d, f, c), v)
                    /\ At(Set(d, f, c, v), c, v) = AddTo(At(d, c, v), f)
    BY SetAt
  <2> QED  BY <1>3, <1>8, <2>1, Zenon
<1>10. e \in Indexes
  BY <1>3, <1>5, <1>6, SetIndex
<1>11. AttrTexts(e)
  <2>1. /\ \A h : TokensOf(At(d, h, c)) \subseteq AttrTokens
        /\ \A q : At(d, c, q) # <<>> => TokensOf(q) \subseteq AttrTokens \cup {"all"}
    BY <1>3, <1>6, Zenon DEF AttrTexts
  <2>2. TokensOf(v) \subseteq AttrTokens
    BY <1>2, <1>5 DEF AttrTokens
  <2>3. ASSUME NEW h PROVE TokensOf(At(e, h, c)) \subseteq AttrTokens
    <3>1. CASE h = f
      <4>1. PICK s : s = At(d, f, c)
        OBVIOUS
      <4>2. s \in Text
        BY <1>6, <4>1, AtText
      <4>3. TokensOf(AddTo(s, v)) \subseteq TokensOf(s) \cup TokensOf(v)
        BY <1>5, <4>2, AddStored
      <4>4. TokensOf(s) \subseteq AttrTokens
        BY <2>1, <4>1
      <4>5. TokensOf(AddTo(s, v)) \subseteq AttrTokens
        BY <2>2, <4>3, <4>4
      <4> QED  BY <1>9, <3>1, <4>1, <4>5, Zenon
    <3>2. CASE h # f
      BY <1>8, <1>9, <2>1, <3>2, Zenon
    <3> QED  BY <3>1, <3>2
  <2>4. ASSUME NEW q, At(e, c, q) # <<>>
        PROVE  TokensOf(q) \subseteq AttrTokens \cup {"all"}
    <3>1. CASE q = v
      BY <2>2, <3>1
    <3>2. CASE q # v
      <4>1. At(e, c, q) = At(d, c, q)
        BY <1>8, <1>9, <3>2, Zenon
      <4> QED  BY <2>1, <2>4, <4>1, Zenon
    <3> QED  BY <3>1, <3>2
  <2> QED  BY <1>3, <2>3, <2>4, Zenon DEF AttrTexts
<1>12. IdNames(e) /\ \A n \in Files : NameField(e, n) = NameField(d, n)
  <2>1. ASSUME NEW n PROVE NameField(e, n) = NameField(d, n)
    <3>1. N # f /\ N # c
      BY <1>4, <1>5, <1>8
    <3> QED  BY <1>3, <1>9, <3>1, Zenon DEF NameField
  <2> QED  BY <1>6, <2>1, Zenon DEF IdNames
<1>13. Nowhere(e)
  <2>1. PICK M : M = <<Null>>
    OBVIOUS
  <2>2. TokensOf(M) = {Null}
    BY <2>1, OneTexts
  <2>3. M # f /\ M # c
    BY <1>4, <1>5, <2>2, IdFacts
  <2> QED  BY <1>6, <1>9, <2>1, <2>3, Zenon DEF Nowhere
<1>14. \A i \in TokensOf(Ids) : Unborn(e, i)
  <2> TAKE i \in TokensOf(Ids)
  <2>1. <<i>> # c
    <3>1. i # "attrs"
      BY IdFacts
    <3> QED  BY <1>3, <3>1, OneTexts, Zenon
  <2>2. NameOf(e, i) = NameOf(d, i)
    BY <1>3, <1>8, <1>9, <2>1, Zenon DEF NameOf
  <2> QED  BY <1>6, <1>12, <2>2, Zenon DEF Unborn
<1>15. e \in Blank
  BY <1>10, <1>11, <1>12, <1>13, <1>14 DEF Blank
<1> QED  BY <1>1, <1>3, <1>15, Zenon

LEMMA BlankStart == << >> \in Blank
<1>1. PICK d : d = << >>
  OBVIOUS
<1>2. DOMAIN d = {} /\ d = [k \in DOMAIN d |-> d[k]]
  BY <1>1
<1>3. d \in Indexes
  BY <1>2, IndexParts
<1>4. PICK z : z = <<>>
  OBVIOUS
<1>5. TokensOf(z) = {}
  BY <1>4 DEF TokensOf
<1>6. \A h, k : At(d, h, k) = z
  BY <1>2, <1>4 DEF At
<1>7. AttrTexts(d)
  BY <1>4, <1>5, <1>6 DEF AttrTexts
<1>8. \A n : NameField(d, n) = z
  BY <1>6, Zenon DEF NameField
<1>9. IdNames(d) /\ Nowhere(d) /\ \A i \in TokensOf(Ids) : Unborn(d, i)
  <2>1. IdNames(d)
    BY <1>5, <1>8 DEF IdNames
  <2>2. Nowhere(d)
    BY <1>4, <1>6, Zenon DEF Nowhere
  <2>3. \A i : NameOf(d, i) = <<>>
    BY <1>4, <1>6, Zenon DEF NameOf
  <2>4. \A i, n : i \notin TokensOf(NameField(d, n))
    BY <1>5, <1>8
  <2> QED  BY <2>1, <2>2, <2>3, <2>4, Zenon DEF Unborn
<1> QED  BY <1>1, <1>3, <1>7, <1>9 DEF Blank

LEMMA InitNamesInv == Init => NamesInv
<1> SUFFICES ASSUME Init PROVE NamesInv
  OBVIOUS
<1>1. FilesInv
  BY InitFilesInv
<1>2. db \in Blank
  <2>1. \A i \in 1..Len(AttrNames), d \in Blank :
            Set(d, <<Known>>, <<"attrs">>, <<AttrNames[i]>>) \in Blank
    BY BlankOne
  <2> QED  BY <2>1, BlankStart, Loaded
<1>3. /\ db \in Indexes /\ AttrTexts(db) /\ IdNames(db) /\ Nowhere(db)
      /\ \A i \in TokensOf(Ids) : Unborn(db, i)
  BY <1>2 DEF Blank
<1>4. PICK e, z : e = <<Null>> /\ z = <<>>
  OBVIOUS
<1>5. /\ next = 1 /\ \A t \in Threads : id[t] = e /\ todo[t] = z
      /\ mixed = {} /\ shared = {}
  BY <1>4 DEF Init
<1>6. TokensOf(z) = {} /\ TokensOf(e) = {Null}
  <2>1. TokensOf(z) = {}
    BY <1>4 DEF TokensOf
  <2> QED  BY <1>4, <2>1, OneTexts, Zenon
<1>7. Steady
  <2>1. \A t \in Threads : AllOK(todo[t])
    BY <1>5, <1>6 DEF AllOK
  <2>2. \A t \in Threads : TokensOf(id[t]) \subseteq IdTokens
    BY <1>5, <1>6 DEF IdTokens
  <2>3. \A i \in TokensOf(Ids), t \in Threads : i \notin TokensOf(id[t])
    BY <1>5, <1>6, IdFacts
  <2>4. \A k \in 1..Len(Ids) : Ids[k] \in TokensOf(Ids)
    <3>1. Ids \in Seq(Tokens \ (Files \cup {"name"}))
      BY FilesAssumption
    <3>2. DOMAIN Ids = 1..Len(Ids)
      BY <3>1, LenProperties
    <3> QED  BY <3>2 DEF TokensOf
  <2>5. \A k \in next..Len(Ids) :
            Unborn(db, Ids[k]) /\ \A t \in Threads : Ids[k] \notin TokensOf(id[t])
    BY <1>3, <1>5, <2>3, <2>4, Zenon
  <2> QED  BY <1>3, <2>1, <2>2, <2>5, Zenon DEF Steady
<1>8. Serial
  <2>1. OneBusy
    BY <1>4, <1>5, Zenon DEF OneBusy
  <2>2. AllViews(db, mixed, named)
    BY <1>3, UnbornViews DEF AllViews
  <2>3. Shape(db, shared, mixed)
    <3> SUFFICES ASSUME NEW n \in Files PROVE Fits(NameField(db, n))
      BY DEF Shape
    <3>1. db \in Unnamed
      BY InitUnnamed
    <3>2. NameField(db, n) = <<>>
      BY <3>1 DEF Unnamed
    <3>3. Fits(<<>>)
      BY DEF Fits
    <3> QED  BY <3>2, <3>3, Zenon
  <2>4. \A t \in Threads : Pending(db, mixed, todo[t], id[t])
    BY <1>4, <1>5, Zenon DEF Pending
  <2> QED  BY <2>1, <2>2, <2>3, <2>4, Zenon DEF Serial
<1> QED  BY <1>1, <1>7, <1>8, Zenon DEF NamesInv

\* What one id that stands alone in a list is found as.
LEMMA GetValAlone ==
    ASSUME NEW x \in Tokens, x # Empty
    PROVE  GetVal(<<x>>) = <<x>>
<1>1. ~NoReply(<<x>>)
  <2>1. <<x>> # <<>> /\ (<<x>> = <<Empty>> <=> x = Empty)
    BY OneTexts, Zenon
  <2> QED  BY <2>1 DEF NoReply
<1>2. GetVal(<<x>>) = Cleanup(<<x>>)
  BY <1>1, Zenon DEF GetVal
<1>3. Cleanup(<<x>>) = <<x>>
  BY DEF Cleanup
<1> QED  BY <1>2, <1>3, Zenon

LEMMA CurrentName ==
    ASSUME NamesInv, overlaps = 0, NEW i \in TokensOf(Ids) \ mixed, named[i] \in Clear
    PROVE  /\ NameOf(db, i) \in {<<named[i]>>, <<>>}
           /\ \A n \in Files : i \in Holders(n) => n = named[i]
           /\ NameOf(db, i) # <<>> => Lookup(<<"name">>, <<named[i]>>) = <<i>>
<1>1. FilesInv /\ AllViews(db, mixed, named) /\ Shape(db, shared, mixed)
  BY Zenon DEF NamesInv, Serial
<1>2. db \in Indexes
  BY <1>1, InvParts
<1>3. PICK n : n = named[i]
  OBVIOUS
<1>4. /\ NameOf(db, i) \in {<<>>, <<n>>}
      /\ \A m \in Files : i \in TokensOf(NameField(db, m)) <=> NameOf(db, i) = <<m>>
  BY <1>1, <1>3, Zenon DEF AllViews, Views
<1>5. i \in Tokens /\ i # Empty /\ i # Null
  BY IdFacts
<1>6. \A m : Holders(m) = TokensOf(NameField(db, m)) \ {Empty, Null}
  BY <1>2, HoldersAre
<1>7. \A m \in Files : i \in Holders(m) => m = n
  <2> SUFFICES ASSUME NEW m \in Files, i \in Holders(m) PROVE m = n
    OBVIOUS
  <2>1. NameOf(db, i) = <<m>>
    BY <1>4, <1>6
  <2>2. <<m>> # <<>> /\ (<<m>> = <<n>> <=> m = n)
    BY OneTexts, Zenon
  <2> QED  BY <1>4, <2>1, <2>2
<1>8. ASSUME NameOf(db, i) # <<>>
      PROVE  Lookup(<<"name">>, <<n>>) = <<i>>
  <2>1. n \in Files /\ n \notin shared \cup mixed /\ n \notin Spoiled
    BY <1>3 DEF Clear
  <2>2. PICK s : s = NameField(db, n)
    OBVIOUS
  <2>3. s \in Text
    BY <1>2, <2>2, AtText DEF NameField
  <2>4. i \in TokensOf(s)
    BY <1>4, <1>8, <2>1, <2>2, Zenon
  <2>5. Null \notin TokensOf(s)
    BY <2>1, <2>2, Zenon DEF Spoiled, NameField
  <2>6. Fits(s)
    BY <1>1, <2>1, <2>2 DEF Shape
  <2>7. Len(s) <= 1
    BY <2>5, <2>6, Zenon DEF Fits
  <2>8. s = <<i>>
    <3>1. s # <<>>
      BY <2>4 DEF TokensOf
    <3>2. s \in Stored
      BY <2>3, <3>1 DEF Stored
    <3>3. Len(s) \in Nat \ {0}
      BY <3>2, LenTokens
    <3>4. Len(s) = 1
      <4>1. \A k \in Nat \ {0} : k <= 1 => k = 1
        OBVIOUS
      <4> QED  BY <2>7, <3>3, <4>1, Zenon
    <3>5. s = <<s[1]>> /\ TokensOf(s) = {s[1]}
      BY <3>2, <3>4, LenTokens
    <3>6. s[1] = i
      BY <2>4, <3>5
    <3> QED  BY <3>5, <3>6, Zenon
  <2>9. GetVal(<<i>>) = <<i>>
    BY <1>5, GetValAlone
  <2>10. Lookup(<<"name">>, <<n>>) = GetVal(NameField(db, n))
    BY LookupNames
  <2> QED  BY <2>2, <2>8, <2>9, <2>10, Zenon
<1> QED  BY <1>3, <1>4, <1>7, <1>8, Zenon

(***************************************************************************)
(* Between operations that do not overlap, an entity has the name last     *)
(* given to it or none, no other name leads to it, and that name leads to  *)
(* it alone: for any number of threads, files, types, directories and      *)
(* operations.                                                             *)
(***************************************************************************)
THEOREM KhanFilesNameCurrent == Spec => []NameCurrent
<1>1. NamesInv => NameCurrent
  <2> SUFFICES ASSUME NamesInv, overlaps = 0,
                      NEW i \in TokensOf(Ids) \ mixed, named[i] \in Clear
               PROVE  /\ At(db, <<i>>, <<"name">>) \in {<<named[i]>>, <<>>}
                      /\ \A n \in Files : i \in Holders(n) => n = named[i]
                      /\ At(db, <<i>>, <<"name">>) # <<>> =>
                            Lookup(<<"name">>, <<named[i]>>) = <<i>>
    BY Zenon DEF NameCurrent
  <2> QED  BY CurrentName, Zenon DEF NameOf
<1> QED  BY <1>1, InitNamesInv, NamesStep, PTL DEF Spec
-------------------------------------------------------------------------------
(***************************************************************************)
(* The paths in the index: OnePath says which entities have one, and only  *)
(* one call of an operation gives an entity its path; other columns leave  *)
(* all paths alone.                                                        *)
(***************************************************************************)
PathField(d, h) == At(d, h, <<"file_path">>)
GivesPath(call) == call[1] = "set" /\ call[2] = "file_path"

\* The paths in an index: an entity has the one it arrived under or none, a list of
\* ids that is none leads to no file, and selectors find only names of files there.
OnePath(d) ==
    /\ \A i \in TokensOf(Ids) : PathField(d, <<i>>) \in {<<>>} \cup {<<p>> : p \in Files}
    /\ \A h : TokensOf(h) \subseteq IdTokens /\ (\A i \in TokensOf(Ids) : h # <<i>>)
                => TokensOf(PathField(d, h)) \cap Files = {}
    /\ \A k : At(d, <<"file_path">>, k) # <<>> => TokensOf(k) \subseteq Files \cup {"attrs"}

\* Two indexes in which every entity has the same path.
PathsKept(d, e) == \A i \in TokensOf(Ids) : PathField(e, <<i>>) = PathField(d, <<i>>)

LEMMA PathFacts ==
    /\ "file_path" \in Tokens /\ "file_path" \notin IdTokens /\ "file_path" \notin TokensOf(Ids)
    /\ Files \cap IdTokens = {} /\ Files \subseteq Tokens
<1>1. "file_path" \in Words
  BY DEF Words
<1>2. \A j \in DOMAIN Ids : Ids[j] \notin Files
  <2>1. Ids \in Seq(Tokens \ (Files \cup {"name"}))
    BY FilesAssumption, Zenon
  <2>2. PICK W : W = Tokens \ (Files \cup {"name"})
    OBVIOUS
  <2>3. Ids \in Seq(W) /\ DOMAIN Ids = 1..Len(Ids) /\ \A j \in 1..Len(Ids) : Ids[j] \in W
    BY <2>1, <2>2, LenProperties, ElementOfSeq
  <2> QED  BY <2>2, <2>3
<1>3. TokensOf(Ids) \cap Files = {}
  BY <1>2 DEF TokensOf
<1> QED  BY <1>1, <1>3, FilesAssumption, NamesAssumption DEF IdTokens

\* The entry that Set makes under the value, which is not the one under the entity.
LEMMA SetUnder ==
    ASSUME NEW d, NEW f, NEW c, NEW v, f # c \/ c # v
    PROVE  At(Set(d, f, c, v), c, v) = AddTo(At(d, c, v), f)
<1>1. PICK e : e = Put(d, f, c, AddTo(At(d, f, c), v))
  OBVIOUS
<1>2. At(e, c, v) = At(d, c, v)
  BY <1>1, PutAt
<1>3. Set(d, f, c, v) = Put(e, c, v, AddTo(At(e, c, v), f))
  BY <1>1, Zenon DEF Set
<1>4. At(Put(e, c, v, AddTo(At(e, c, v), f)), c, v) = AddTo(At(e, c, v), f)
  BY PutAt
<1> QED  BY <1>2, <1>3, <1>4, Zenon

\* Other columns leave the paths alone.
LEMMA OtherPaths ==
    ASSUME NEW d \in Indexes, OnePath(d), NEW f \in Stored, TokensOf(f) \subseteq IdTokens,
           NEW c \in Tokens, c \notin TokensOf(Ids), c # "file_path", NEW v \in Tokens
    PROVE  OnePath(Set(d, f, <<c>>, <<v>>)) /\ PathsKept(d, Set(d, f, <<c>>, <<v>>))
<1>1. PICK C, V, P : C = <<c>> /\ V = <<v>> /\ P = <<"file_path">>
  OBVIOUS
<1>2. PICK e : e = Set(d, f, C, V)
  OBVIOUS
<1>3. C # P /\ f # P /\ \A i \in TokensOf(Ids) : <<i>> # C
  <2>1. C # P /\ \A i \in TokensOf(Ids) : <<i>> # C
    BY <1>1, OneTexts, Zenon
  <2>2. TokensOf(P) = {"file_path"}
    BY <1>1, OneTexts, Zenon
  <2> QED  BY <2>1, <2>2, PathFacts
<1>4. \A h, k : ~(h = f /\ k = C) /\ ~(h = C /\ k = V) => At(e, h, k) = At(d, h, k)
  <2>1. \A h, k : ~(h = f /\ k = C) /\ ~(h = C /\ k = V) =>
            At(Set(d, f, C, V), h, k) = At(d, h, k)
    BY SetAt
  <2> QED  BY <1>2, <2>1, Zenon
<1>5. \A k : At(e, P, k) = At(d, P, k)
  BY <1>3, <1>4, Zenon
<1>6. \A h : h # C => At(e, h, P) = At(d, h, P)
  BY <1>3, <1>4, Zenon
<1>7. V = P => TokensOf(At(e, C, P)) \cap Files \subseteq TokensOf(At(d, C, P))
  <2>1. SUFFICES ASSUME V = P PROVE TokensOf(At(e, C, P)) \cap Files \subseteq TokensOf(At(d, C, P))
    OBVIOUS
  <2>2. At(Set(d, f, C, V), C, V) = AddTo(At(d, C, V), f)
    BY <1>3, <2>1, SetUnder
  <2>3. At(d, C, P) \in Text
    BY AtText
  <2>4. TokensOf(AddTo(At(d, C, P), f)) \subseteq TokensOf(At(d, C, P)) \cup TokensOf(f)
    BY <2>3, AddStored
  <2>5. At(e, C, P) = AddTo(At(d, C, P), f)
    BY <1>2, <2>1, <2>2, Zenon
  <2> QED  BY <2>4, <2>5, PathFacts
<1>8. V # P => At(e, C, P) = At(d, C, P)
  BY <1>3, <1>4, Zenon
<1>9. \A h : TokensOf(At(e, h, P)) \cap Files \subseteq TokensOf(At(d, h, P))
  BY <1>6, <1>7, <1>8
<1>10. \A i \in TokensOf(Ids) : At(e, <<i>>, P) = At(d, <<i>>, P)
  BY <1>3, <1>6, Zenon
<1>11. PathsKept(d, e)
  BY <1>1, <1>10, Zenon DEF PathsKept, PathField
<1>12. OnePath(e)
  <2>1. \A i \in TokensOf(Ids) : PathField(e, <<i>>) \in {<<>>} \cup {<<p>> : p \in Files}
    BY <1>11, Zenon DEF PathsKept, OnePath
  <2>2. ASSUME NEW h, TokensOf(h) \subseteq IdTokens, \A i \in TokensOf(Ids) : h # <<i>>
        PROVE  TokensOf(PathField(e, h)) \cap Files = {}
    <3>1. TokensOf(PathField(d, h)) \cap Files = {}
      BY <2>2, Zenon DEF OnePath
    <3>2. TokensOf(PathField(e, h)) \cap Files \subseteq TokensOf(PathField(d, h))
      BY <1>1, <1>9, Zenon DEF PathField
    <3> QED  BY <3>1, <3>2
  <2>3. \A k : At(e, P, k) # <<>> => TokensOf(k) \subseteq Files \cup {"attrs"}
    BY <1>1, <1>5, Zenon DEF OnePath
  <2> QED  BY <1>1, <2>1, <2>2, <2>3, Zenon DEF OnePath
<1> QED  BY <1>1, <1>2, <1>11, <1>12, Zenon

LEMMA RemovalPaths ==
    ASSUME NEW d \in Indexes, OnePath(d), NEW f \in Stored, TokensOf(f) \subseteq IdTokens,
           NEW c \in Tokens, c \in {"name", "attrs"}, NEW v \in Tokens
    PROVE  OnePath(Remove(d, f, <<c>>, <<v>>)) /\ PathsKept(d, Remove(d, f, <<c>>, <<v>>))
<1>1. PICK C, V, P : C = <<c>> /\ V = <<v>> /\ P = <<"file_path">>
  OBVIOUS
<1>2. PICK e : e = Remove(d, f, C, V)
  OBVIOUS
<1>3. TokensOf(P) = {"file_path"} /\ TokensOf(C) = {c} /\ C # P /\ C \in Stored /\ V \in Stored
  <2>1. c # "file_path"
    OBVIOUS
  <2> QED  BY <1>1, <2>1, OneTexts, OneToken, Zenon
<1>4. f # P /\ c \notin IdTokens
  BY <1>3, PathFacts, IdFacts
<1>5. \A h, k : ~(h = f /\ k = C) /\ ~(h = C /\ k = V) => At(e, h, k) = At(d, h, k)
  <2>1. \A h, k : ~(h = f /\ k = C) /\ ~(h = C /\ k = V) =>
            At(Remove(d, f, C, V), h, k) = At(d, h, k)
    BY <1>3, RemoveAt
  <2> QED  BY <1>2, <2>1, Zenon
<1>6. \A k : At(e, P, k) = At(d, P, k)
  BY <1>3, <1>4, <1>5, Zenon
<1>7. \A h : TokensOf(h) \subseteq IdTokens => At(e, h, P) = At(d, h, P)
  <2> TAKE h
  <2> HAVE TokensOf(h) \subseteq IdTokens
  <2>1. h # C
    BY <1>3, <1>4
  <2> QED  BY <1>3, <1>5, <2>1, Zenon
<1>8. \A i \in TokensOf(Ids) : TokensOf(<<i>>) \subseteq IdTokens
  <2> TAKE i \in TokensOf(Ids)
  <2>1. TokensOf(<<i>>) = {i}
    BY OneTexts
  <2> QED  BY <2>1 DEF IdTokens
<1>9. PathsKept(d, e)
  BY <1>1, <1>7, <1>8, Zenon DEF PathsKept, PathField
<1>10. OnePath(e)
  <2>1. \A i \in TokensOf(Ids) : PathField(e, <<i>>) \in {<<>>} \cup {<<p>> : p \in Files}
    BY <1>9, Zenon DEF PathsKept, OnePath
  <2>2. \A h : TokensOf(h) \subseteq IdTokens => PathField(e, h) = PathField(d, h)
    BY <1>1, <1>7, Zenon DEF PathField
  <2>3. \A k : At(e, P, k) # <<>> => TokensOf(k) \subseteq Files \cup {"attrs"}
    BY <1>1, <1>6, Zenon DEF OnePath
  <2> QED  BY <1>1, <2>1, <2>2, <2>3, Zenon DEF OnePath
<1> QED  BY <1>1, <1>2, <1>9, <1>10, Zenon

\* The one call that gives an entity its path.
LEMMA GivePath ==
    ASSUME NEW d \in Indexes, OnePath(d), NEW i \in TokensOf(Ids), NEW p \in Files,
           PathField(d, <<i>>) = <<>>
    PROVE  /\ OnePath(Set(d, <<i>>, <<"file_path">>, <<p>>))
           /\ \A j \in TokensOf(Ids) : PathField(Set(d, <<i>>, <<"file_path">>, <<p>>), <<j>>) =
                 IF j = i THEN <<p>> ELSE PathField(d, <<j>>)
<1>1. PICK P, V, f : P = <<"file_path">> /\ V = <<p>> /\ f = <<i>>
  OBVIOUS
<1>2. PICK e : e = Set(d, f, P, V)
  OBVIOUS
<1>3. TokensOf(P) = {"file_path"} /\ TokensOf(V) = {p} /\ TokensOf(f) = {i}
  BY <1>1, OneTexts, Zenon
<1>4. i \in IdTokens
  BY DEF IdTokens
<1>5. f # P
  BY <1>3, <1>4, PathFacts
<1>6. /\ \A h, k : ~(h = f /\ k = P) /\ ~(h = P /\ k = V) => At(e, h, k) = At(d, h, k)
      /\ At(e, f, P) = AddTo(At(d, f, P), V)
  <2>1. /\ \A h, k : ~(h = f /\ k = P) /\ ~(h = P /\ k = V) =>
              At(Set(d, f, P, V), h, k) = At(d, h, k)
        /\ f # P => /\ At(Set(d, f, P, V), f, P) = AddTo(At(d, f, P), V)
                    /\ At(Set(d, f, P, V), P, V) = AddTo(At(d, P, V), f)
    BY SetAt
  <2> QED  BY <1>2, <1>5, <2>1, Zenon
<1>7. At(e, f, P) = V
  <2>1. At(d, f, P) = <<>>
    BY <1>1, Zenon DEF PathField
  <2> QED  BY <1>6, <2>1, Zenon DEF AddTo, NoReply
<1>8. \A h : h # P /\ h # f => At(e, h, P) = At(d, h, P)
  BY <1>6, Zenon
<1>9. \A k : At(e, P, k) # <<>> => k = V \/ At(d, P, k) # <<>>
  BY <1>5, <1>6, Zenon
<1>10. \A j \in TokensOf(Ids) : <<j>> # P /\ (<<j>> = f <=> j = i)
  BY <1>1, OneTexts, PathFacts, Zenon
<1>11. \A j \in TokensOf(Ids) : PathField(e, <<j>>) = IF j = i THEN V ELSE PathField(d, <<j>>)
  BY <1>1, <1>7, <1>8, <1>10, Zenon DEF PathField
<1>12. OnePath(e)
  <2>1. ASSUME NEW j \in TokensOf(Ids)
        PROVE  PathField(e, <<j>>) \in {<<>>} \cup {<<q>> : q \in Files}
    <3>1. PathField(d, <<j>>) \in {<<>>} \cup {<<q>> : q \in Files}
      BY Zenon DEF OnePath
    <3>2. V \in {<<>>} \cup {<<q>> : q \in Files}
      BY <1>1
    <3> QED  BY <1>11, <3>1, <3>2, Zenon
  <2>2. ASSUME NEW h, TokensOf(h) \subseteq IdTokens, \A j \in TokensOf(Ids) : h # <<j>>
        PROVE  TokensOf(PathField(e, h)) \cap Files = {}
    <3>1. TokensOf(PathField(d, h)) \cap Files = {}
      BY <2>2, Zenon DEF OnePath
    <3>2. h # f
      BY <1>1, <2>2, Zenon
    <3>3. h # P
      BY <1>3, <2>2, PathFacts
    <3>4. PathField(e, h) = PathField(d, h)
      BY <1>1, <1>8, <3>2, <3>3, Zenon DEF PathField
    <3> QED  BY <3>1, <3>4, Zenon
  <2>3. ASSUME NEW k, At(e, P, k) # <<>> PROVE TokensOf(k) \subseteq Files \cup {"attrs"}
    <3>1. CASE k = V
      BY <1>3, <3>1
    <3>2. CASE At(d, P, k) # <<>>
      BY <1>1, <3>2, Zenon DEF OnePath
    <3> QED  BY <1>9, <2>3, <3>1, <3>2
  <2> QED  BY <1>1, <2>1, <2>2, <2>3, Zenon DEF OnePath
<1> QED  BY <1>1, <1>2, <1>11, <1>12, Zenon

LEMMA NameGiven ==
    ASSUME NEW d, NEW f, "name" \notin TokensOf(f), NEW v, NEW j, j # "name"
    PROVE  NameOf(Set(d, f, <<"name">>, <<v>>), j) =
               IF f = <<j>> THEN AddTo(NameOf(d, j), <<v>>) ELSE NameOf(d, j)
<1>1. /\ NameField(Set(d, f, <<"name">>, <<v>>), v) = AddTo(NameField(d, v), f)
      /\ \A n : n # v => NameField(Set(d, f, <<"name">>, <<v>>), n) = NameField(d, n)
      /\ \A i : i # "name" => NameOf(Set(d, f, <<"name">>, <<v>>), i) =
                   IF f = <<i>> THEN AddTo(NameOf(d, i), <<v>>) ELSE NameOf(d, i)
  BY NameSet
<1> QED  BY <1>1, Zenon

\* Setting a field takes no entity's name away.
LEMMA NamesStay ==
    ASSUME NEW d \in Indexes, NEW f \in Stored, "name" \notin TokensOf(f),
           NEW c \in Tokens, c \notin TokensOf(Ids), NEW v \in Tokens, NEW j \in TokensOf(Ids),
           NameOf(d, j) # <<>> \/ (f = <<j>> /\ c = "name")
    PROVE  NameOf(Set(d, f, <<c>>, <<v>>), j) # <<>>
<1>1. j # "name" /\ j # c
  BY IdFacts
<1>2. CASE c # "name"
  <2>1. /\ NamesKept(d, Set(d, f, <<c>>, <<v>>))
        /\ \A x : x # c => NameKept(d, Set(d, f, <<c>>, <<v>>), x)
    BY <1>2, OtherSet
  <2> QED  BY <1>1, <1>2, <2>1, Zenon DEF NameKept, NameOf
<1>3. CASE c = "name"
  <2>1. NameOf(Set(d, f, <<"name">>, <<v>>), j) =
            IF f = <<j>> THEN AddTo(NameOf(d, j), <<v>>) ELSE NameOf(d, j)
    BY <1>1, NameGiven
  <2>2. NameOf(d, j) \in Text
    BY AtText DEF NameOf
  <2>3. <<v>> \in Stored
    BY OneToken
  <2>4. AddTo(NameOf(d, j), <<v>>) # <<>>
    BY <2>2, <2>3, AddStored DEF Stored
  <2> QED  BY <1>1, <1>3, <2>1, <2>4, Zenon
<1> QED  BY <1>2, <1>3

\* A removal takes the name of the entity it is for alone.
LEMMA OthersNames ==
    ASSUME NEW d \in Indexes, NEW f \in Stored, "name" \notin TokensOf(f),
           NEW c \in Tokens, c \notin TokensOf(Ids), NEW v \in Tokens, NEW j \in TokensOf(Ids),
           f # <<j>>
    PROVE  NameOf(Remove(d, f, <<c>>, <<v>>), j) = NameOf(d, j)
<1>1. j # "name" /\ j # c
  BY IdFacts
<1>2. CASE c # "name"
  <2>1. /\ NamesKept(d, Remove(d, f, <<c>>, <<v>>))
        /\ \A x : x # c => NameKept(d, Remove(d, f, <<c>>, <<v>>), x)
    BY <1>2, OtherRemoval
  <2> QED  BY <1>1, <2>1, Zenon DEF NameKept, NameOf
<1>3. CASE c = "name"
  <2>1. /\ NameField(Remove(d, f, <<"name">>, <<v>>), v) = EraseFrom(GetVal(NameField(d, v)), f)
        /\ \A n : n # v => NameField(Remove(d, f, <<"name">>, <<v>>), n) = NameField(d, n)
        /\ \A x : x # "name" => NameOf(Remove(d, f, <<"name">>, <<v>>), x) =
                        IF f = <<x>> THEN Without(NameOf(d, x), <<v>>) ELSE NameOf(d, x)
    BY NameRemoved
  <2> QED  BY <1>1, <1>3, <2>1, Zenon
<1> QED  BY <1>2, <1>3

\* A text erased from itself.
LEMMA EraseSelf ==
    ASSUME NEW s \in Stored
    PROVE  EraseFrom(s, s) = <<Empty>>
<1>1. s \in Seq(Tokens) /\ Len(s) \in Nat \ {0}
  BY LenTokens DEF Stored, Text
<1>2. SubSeq(s, 1, 1 + Len(s) - 1) = s
  <2>1. 1 + Len(s) - 1 = Len(s)
    BY <1>1
  <2>2. SubSeq(s, 1, Len(s)) = s
    BY <1>1
  <2> QED  BY <2>1, <2>2
<1>3. 1 \in 1..(Len(s) + 1 - Len(s))
  BY <1>1
<1>4. Places(s, s) # {}
  BY <1>2, <1>3 DEF Places
<1>5. PICK i \in 1..Len(s) : /\ i + Len(s) - 1 <= Len(s)
                             /\ Len(EraseFrom(s, s)) = Len(s) - Len(s) + 1
                             /\ \A a \in 1..(Len(s) - Len(s) + 1) : EraseFrom(s, s)[a] =
                                   IF a < i THEN s[a] ELSE IF a = i THEN Empty ELSE s[a + Len(s) - 1]
  <2>1. \E i \in 1..Len(s) :
              /\ i + Len(s) - 1 <= Len(s)
              /\ \A k \in 1..Len(s) : s[i + k - 1] = s[k]
              /\ Len(EraseFrom(s, s)) = Len(s) - Len(s) + 1
              /\ \A a \in 1..(Len(s) - Len(s) + 1) : EraseFrom(s, s)[a] =
                    IF a < i THEN s[a] ELSE IF a = i THEN Empty ELSE s[a + Len(s) - 1]
    BY <1>4, EraseIndex
  <2> QED  BY <2>1, Zenon
<1>6. PICK r : r = EraseFrom(s, s)
  OBVIOUS
<1>7. r \in Stored
  BY <1>6, EraseStored
<1>8. i = 1 /\ Len(s) - Len(s) + 1 = 1
  BY <1>1, <1>5
<1>9. Len(r) = 1 /\ r[1] = Empty
  BY <1>5, <1>6, <1>8
<1>10. r = <<r[1]>>
  BY <1>7, <1>9, LenTokens
<1> QED  BY <1>6, <1>9, <1>10
-------------------------------------------------------------------------------
(***************************************************************************)
(* Filed: as long as no operation overlaps another one, every entity that  *)
(* has a path has a name too, or is about to be given one, or is unlinked, *)
(* and what arrived under that path is on the disk. Phase says what is     *)
(* left of the operation under way: calls that touch none of these         *)
(* (Plain), an arrival, an unlink or a rename.                             *)
(***************************************************************************)
\* A call that neither gives an entity its path, nor takes its name, nor touches the disk
\* (a move from "null" finds nothing there).
Plain(call) ==
    /\ call[1] \notin {"remove", "unlink", "delete", "locate"} /\ ~GivesPath(call)
    /\ call[1] = "move" => call[2] = Null
AllPlain(s) == \A call \in TokensOf(s) : Plain(call)

\* What extract_attr_init has still to call up to file_path.
ArrivalCalls(s) == \E k \in DOMAIN s :
    /\ GivesPath(s[k]) /\ s[k][3] \in Files
    /\ \A j \in DOMAIN s : j # k =>
          /\ Plain(s[j])
          /\ j < k => s[j][1] \in {"make", "set"}
          /\ j > 1 => s[j][1] # "make"
Arrived(d, w) ==
    \E i \in TokensOf(Ids) : w = <<i>> /\ NameOf(d, i) # <<>> /\ PathField(d, <<i>>) = <<>>

\* What xmp_unlink has still to call, for ids that count as unlinked.
Unlinking(d, ul, s, w) ==
    /\ TokensOf(w) \subseteq ul
    /\ \A call \in TokensOf(s) : call[1] \in {"remove", "unlink", "delete"}
    /\ \A call \in TokensOf(s) : call[1] = "delete" =>
          TokensOf(NameField(d, call[2])) \subseteq ul \cup {Empty, Null}

\* What xmp_rename has still to call, once the old name is gone too.
Gone(d, n) == NameField(d, n) = <<Empty>>
Renaming(d, s, w) == \E n, m \in Files, dir \in Dirs :
    \/ /\ s = <<<<"remove", "name", n>>, <<"set", "name", m>>, <<"locate", n, dir, m>>>>
       /\ n # m /\ w = GetVal(NameField(d, n))
    \/ s = <<<<"set", "name", m>>, <<"locate", n, dir, m>>>> /\ n # m /\ Gone(d, n)
    \/ s = <<<<"locate", n, dir, m>>>> /\ Gone(d, n)

Phase(d, ul, s, w) == s # <<>> =>
    \/ AllPlain(s)
    \/ ArrivalCalls(s) /\ (Head(s)[1] = "make" \/ Arrived(d, w))
    \/ Unlinking(d, ul, s, w)
    \/ Renaming(d, s, w)

\* The next call gives an entity a name.
Awaits(s, w, i) == s # <<>> /\ Head(s)[1] = "set" /\ Head(s)[2] = "name" /\ w = <<i>>

\* A path that no unlinked entity has leads to what arrived under it.
OnDisk(d, files, ul) ==
    /\ Null \notin DOMAIN files
    /\ \A p \in Files :
          (\A i \in TokensOf(Ids) : PathField(d, <<i>>) = <<p>> => i \notin ul)
             => p \in DOMAIN files /\ files[p] = p

Unread(d, k) == \A j \in k..Len(Ids) : PathField(d, <<Ids[j]>>) = <<>>
Titled(d, ul, i, s, w) == i \notin ul /\ PathField(d, <<i>>) # <<>> =>
    NameOf(d, i) # <<>> \/ Awaits(s, w, i)

\* As long as nothing overlaps, every entity with a path has a name, or is about to be
\* given one, or is unlinked, and what it arrived with is on the disk.
Filed == overlaps = 0 =>
    /\ OnePath(db) /\ Unread(db, next)
    /\ \A t \in Threads : Phase(db, unlinked, todo[t], id[t])
    /\ \A i \in TokensOf(Ids) : i \notin unlinked /\ PathField(db, <<i>>) # <<>> =>
          NameOf(db, i) # <<>> \/ \E t \in Threads : Awaits(todo[t], id[t], i)
    /\ ~stray => OnDisk(db, disk, unlinked)

\* What stays on the disk when other paths, or only links, come and go.
LEMMA OnDiskOn ==
    ASSUME NEW d, NEW e, NEW a, NEW b, NEW u, NEW v, OnDisk(d, a, u), u \subseteq v,
           \A i \in TokensOf(Ids), p \in Files :
               PathField(d, <<i>>) = <<p>> => PathField(e, <<i>>) = <<p>>,
           Null \notin DOMAIN b, \A p \in Files : p \in DOMAIN a => p \in DOMAIN b /\ b[p] = a[p]
    PROVE  OnDisk(e, b, v)
<1> SUFFICES ASSUME NEW p \in Files,
                    \A i \in TokensOf(Ids) : PathField(e, <<i>>) = <<p>> => i \notin v
             PROVE  p \in DOMAIN b /\ b[p] = p
  BY Zenon DEF OnDisk
<1>1. \A i \in TokensOf(Ids) : PathField(d, <<i>>) = <<p>> => i \notin u
  OBVIOUS
<1>2. p \in DOMAIN a /\ a[p] = p
  BY <1>1, Zenon DEF OnDisk
<1> QED  BY <1>2

\* Filed, for the only thread that has an operation.
LEMMA BusyParts ==
    ASSUME Serial, Filed, NEW t \in Threads, todo[t] # <<>>, overlaps = 0
    PROVE  /\ \A u \in Threads \ {t} : todo[u] = <<>>
           /\ OnePath(db) /\ Unread(db, next) /\ Phase(db, unlinked, todo[t], id[t])
           /\ \A i \in TokensOf(Ids) : Titled(db, unlinked, i, todo[t], id[t])
           /\ ~stray => OnDisk(db, disk, unlinked)
<1>1. \A u \in Threads \ {t} : todo[u] = <<>>
  BY DEF Serial, OneBusy
<1>2. \A u \in Threads \ {t}, i \in TokensOf(Ids) : ~Awaits(todo[u], id[u], i)
  BY <1>1, Zenon DEF Awaits
<1>3. \A i \in TokensOf(Ids) : i \notin unlinked /\ PathField(db, <<i>>) # <<>> =>
          NameOf(db, i) # <<>> \/ \E u \in Threads : Awaits(todo[u], id[u], i)
  BY Zenon DEF Filed
<1>4. \A i \in TokensOf(Ids) : Titled(db, unlinked, i, todo[t], id[t])
  BY <1>2, <1>3 DEF Titled
<1> QED  BY <1>1, <1>4, Zenon DEF Filed

LEMMA BusyStep ==
    ASSUME Serial, NEW t \in Threads, todo[t] # <<>>, overlaps' = overlaps,
           \A u \in Threads \ {t} : todo'[u] = todo[u],
           overlaps = 0 =>
               /\ OnePath(db') /\ Unread(db', next') /\ Phase(db', unlinked', todo'[t], id'[t])
               /\ \A i \in TokensOf(Ids) : Titled(db', unlinked', i, todo'[t], id'[t])
               /\ ~stray' => OnDisk(db', disk', unlinked')
    PROVE  Filed'
<1> SUFFICES ASSUME overlaps = 0
             PROVE  /\ OnePath(db') /\ Unread(db', next')
                    /\ \A u \in Threads : Phase(db', unlinked', todo'[u], id'[u])
                    /\ \A i \in TokensOf(Ids) : i \notin unlinked' /\ PathField(db', <<i>>) # <<>> =>
                          NameOf(db', i) # <<>> \/ \E u \in Threads : Awaits(todo'[u], id'[u], i)
                    /\ ~stray' => OnDisk(db', disk', unlinked')
  BY Zenon DEF Filed
<1>1. \A u \in Threads \ {t} : todo'[u] = <<>>
  BY DEF Serial, OneBusy
<1>2. \A u \in Threads \ {t} : Phase(db', unlinked', todo'[u], id'[u])
  BY <1>1, Zenon DEF Phase
<1>3. \A i \in TokensOf(Ids) : i \notin unlinked' /\ PathField(db', <<i>>) # <<>> =>
          NameOf(db', i) # <<>> \/ \E u \in Threads : Awaits(todo'[u], id'[u], i)
  BY Zenon DEF Titled
<1> QED  BY <1>2, <1>3

\* An operation starts when all others are over.
LEMMA FiledStart ==
    ASSUME FilesInv, Filed, NEW t \in Threads, NEW fileid, NEW calls, Start(t, fileid, calls),
           unlinked \subseteq unlinked', overlaps = 0 => Phase(db, unlinked', calls, fileid),
           ~stray' => ~stray /\ (Null \notin DOMAIN disk => Null \notin DOMAIN disk')
                         /\ \A p \in Files : p \in DOMAIN disk =>
                               p \in DOMAIN disk' /\ disk'[p] = disk[p]
    PROVE  Filed'
<1>1. /\ todo[t] = <<>> /\ id' = [id EXCEPT ![t] = fileid]
      /\ todo' = [todo EXCEPT ![t] = calls]
      /\ overlaps' = IF \E u \in Threads : todo[u] # <<>> THEN overlaps + 1 ELSE overlaps
      /\ db' = db /\ next' = next
  BY DEF Start
<1>2. overlaps \in Nat /\ id \in [Threads -> Stored] /\ todo \in [Threads -> Seq(Calls)]
  BY InvParts, FilesAssumption DEF FilesInv, StateTypes
<1>3. SUFFICES ASSUME overlaps' = 0 PROVE Filed'
  BY Zenon DEF Filed
<1>4. overlaps = 0 /\ \A u \in Threads : todo[u] = <<>>
  BY <1>1, <1>2, <1>3
<1>5. /\ \A u \in Threads \ {t} : todo'[u] = <<>>
      /\ todo'[t] = calls /\ id'[t] = fileid
  BY <1>1, <1>2, <1>4
<1>6. OnePath(db') /\ Unread(db', next')
  BY <1>1, <1>4, Zenon DEF Filed
<1>7. \A u \in Threads : Phase(db', unlinked', todo'[u], id'[u])
  <2>1. \A u \in Threads \ {t} : Phase(db', unlinked', todo'[u], id'[u])
    BY <1>5, Zenon DEF Phase
  <2>2. Phase(db', unlinked', todo'[t], id'[t])
    BY <1>1, <1>4, <1>5, Zenon
  <2> QED  BY <2>1, <2>2, Zenon
<1>8. ASSUME NEW i \in TokensOf(Ids), i \notin unlinked', PathField(db', <<i>>) # <<>>
      PROVE  NameOf(db', i) # <<>>
  <2>1. i \notin unlinked /\ PathField(db, <<i>>) # <<>>
    BY <1>1, <1>8
  <2>2. NameOf(db, i) # <<>> \/ \E u \in Threads : Awaits(todo[u], id[u], i)
    BY <1>4, <2>1, Zenon DEF Filed
  <2>3. \A u \in Threads : ~Awaits(todo[u], id[u], i)
    BY <1>4, Zenon DEF Awaits
  <2> QED  BY <1>1, <2>2, <2>3, Zenon
<1>9. ~stray' => OnDisk(db', disk', unlinked')
  <2>1. ASSUME ~stray' PROVE OnDisk(db, disk', unlinked')
    <3>1. OnDisk(db, disk, unlinked)
      BY <1>4, <2>1, Zenon DEF Filed
    <3>2. Null \notin DOMAIN disk'
      BY <2>1, <3>1, Zenon DEF OnDisk
    <3> QED  BY <2>1, <3>1, <3>2, OnDiskOn
  <2> QED  BY <1>1, <2>1, Zenon
<1> QED  BY <1>6, <1>7, <1>8, <1>9, Zenon DEF Filed

\* What is left of the calls of an arrival after the next one.
LEMMA ArrivalTail ==
    ASSUME NEW s \in Seq(Calls), s # <<>>, ArrivalCalls(s)
    PROVE  /\ Head(s)[1] \in {"make", "set"}
           /\ GivesPath(Head(s)) => Head(s)[3] \in Files /\ AllPlain(Tail(s))
           /\ ~GivesPath(Head(s)) => Plain(Head(s)) /\ ArrivalCalls(Tail(s))
<1>1. PICK k \in DOMAIN s :
          /\ GivesPath(s[k]) /\ s[k][3] \in Files
          /\ \A j \in DOMAIN s : j # k =>
                /\ Plain(s[j])
                /\ j < k => s[j][1] \in {"make", "set"}
                /\ j > 1 => s[j][1] # "make"
  BY Zenon DEF ArrivalCalls
<1>2. PICK r : r = Tail(s)
  OBVIOUS
<1>3. /\ Len(s) \in Nat \ {0} /\ DOMAIN s = 1..Len(s)
      /\ r \in Seq(Calls) /\ Len(r) = Len(s) - 1 /\ \A j \in 1..(Len(s) - 1) : r[j] = s[j + 1]
      /\ Head(s) = s[1]
  BY <1>2, HeadTailProperties, EmptySeq, LenProperties
<1>4. DOMAIN r = 1..(Len(s) - 1)
  BY <1>3, LenProperties
<1>5. \A j \in DOMAIN r : j + 1 \in DOMAIN s /\ j + 1 # 1 /\ r[j] = s[j + 1]
  BY <1>3, <1>4
<1>6. CASE k = 1
  <2>1. \A j \in DOMAIN r : Plain(r[j])
    BY <1>1, <1>5, <1>6
  <2>2. AllPlain(r)
    BY <2>1 DEF AllPlain, TokensOf
  <2>3. GivesPath(Head(s)) /\ Head(s)[3] \in Files /\ Head(s)[1] = "set"
    BY <1>1, <1>3, <1>6 DEF GivesPath
  <2> QED  BY <1>2, <2>2, <2>3, Zenon
<1>7. CASE k # 1
  <2>1. 1 \in DOMAIN s /\ 1 < k
    BY <1>1, <1>3, <1>7
  <2>2. Plain(Head(s)) /\ Head(s)[1] \in {"make", "set"}
    BY <1>1, <1>3, <1>7, <2>1
  <2>3. PICK i : i = k - 1
    OBVIOUS
  <2>4. i \in DOMAIN r /\ r[i] = s[k] /\ k \in Nat /\ i + 1 = k
    BY <1>1, <1>3, <1>4, <2>1, <2>3
  <2>5. \A j \in DOMAIN r : j # i =>
            /\ j + 1 # k /\ j + 1 > 1
            /\ j < i => j + 1 < k
    BY <1>3, <1>4, <2>4
  <2>6. GivesPath(r[i]) /\ r[i][3] \in Files
    BY <1>1, <2>4, Zenon
  <2>7. ASSUME NEW j \in DOMAIN r, j # i
        PROVE  /\ Plain(r[j])
               /\ j < i => r[j][1] \in {"make", "set"}
               /\ j > 1 => r[j][1] # "make"
    <3>1. /\ j + 1 \in DOMAIN s /\ r[j] = s[j + 1] /\ j + 1 # k /\ j + 1 > 1
          /\ j < i => j + 1 < k
      BY <1>5, <2>5, <2>7
    <3>2. /\ Plain(s[j + 1])
          /\ j + 1 < k => s[j + 1][1] \in {"make", "set"}
          /\ j + 1 > 1 => s[j + 1][1] # "make"
      BY <1>1, <3>1, Zenon
    <3> QED  BY <3>1, <3>2, Zenon
  <2>8. ArrivalCalls(r)
    BY <2>4, <2>6, <2>7, Zenon DEF ArrivalCalls
  <2>9. ~GivesPath(Head(s))
    BY <2>2, Zenon DEF Plain
  <2> QED  BY <1>2, <2>2, <2>8, <2>9, Zenon
<1> QED  BY <1>6, <1>7

LEMMA OneTwoCalls ==
    \A a, b : /\ <<a>> # <<>> /\ Head(<<a>>) = a /\ TokensOf(<<a>>) = {a} /\ Tail(<<a>>) = <<>>
              /\ <<a, b>> # <<>> /\ Head(<<a, b>>) = a /\ Tail(<<a, b>>) = <<b>>
              /\ TokensOf(<<a, b>>) = {a, b}
<1> TAKE a, b
<1>1. <<a>> # <<>> /\ Head(<<a>>) = a /\ Tail(<<a>>) = <<>> /\ TokensOf(<<a>>) = {a}
  BY DEF TokensOf
<1>2. <<a, b>> # <<>> /\ Head(<<a, b>>) = a /\ Tail(<<a, b>>) = <<b>>
  OBVIOUS
<1>3. TokensOf(<<a, b>>) = {a, b}
  <2>1. PICK s : s = <<a, b>>
    OBVIOUS
  <2>2. DOMAIN s = {1, 2} /\ s[1] = a /\ s[2] = b
    BY <2>1
  <2> QED  BY <2>1, <2>2 DEF TokensOf
<1> QED  BY <1>1, <1>2, <1>3

\* The phases of an operation, by its next call.
LEMMA PhaseParts ==
    ASSUME NEW d, NEW ul, NEW s \in Seq(Calls), s # <<>>, NEW w, Phase(d, ul, s, w)
    PROVE  /\ Head(s)[1] \in {"process", "flush", "map", "move"} => AllPlain(s)
           /\ Head(s)[1] \in {"unlink", "delete"} => Unlinking(d, ul, s, w)
           /\ Head(s)[1] = "locate" => \E n \in Files : Head(s)[2] = n /\ Gone(d, n) /\ Tail(s) = <<>>
           /\ Head(s)[1] = "make" => AllPlain(s) \/ ArrivalCalls(s)
           /\ Head(s)[1] = "set" =>
                 \/ AllPlain(s)
                 \/ ArrivalCalls(s) /\ Arrived(d, w)
                 \/ \E n, m \in Files, dir \in Dirs :
                       /\ s = <<<<"set", "name", m>>, <<"locate", n, dir, m>>>>
                       /\ n # m /\ Gone(d, n)
           /\ Head(s)[1] = "remove" =>
                 \/ Unlinking(d, ul, s, w)
                 \/ \E n, m \in Files, dir \in Dirs :
                       /\ s = <<<<"remove", "name", n>>, <<"set", "name", m>>, <<"locate", n, dir, m>>>>
                       /\ n # m /\ w = GetVal(NameField(d, n))
<1>1. Head(s) \in TokensOf(s)
  BY TailTokens
<1>2. \/ AllPlain(s)
      \/ ArrivalCalls(s) /\ (Head(s)[1] = "make" \/ Arrived(d, w))
      \/ Unlinking(d, ul, s, w)
      \/ Renaming(d, s, w)
  BY Zenon DEF Phase
<1>3. AllPlain(s) => Head(s)[1] \notin {"unlink", "delete", "locate", "remove"}
  BY <1>1 DEF AllPlain, Plain
<1>4. ArrivalCalls(s) => Head(s)[1] \in {"make", "set"}
  BY ArrivalTail
<1>5. Unlinking(d, ul, s, w) => Head(s)[1] \in {"remove", "unlink", "delete"}
  BY <1>1 DEF Unlinking
<1>6. CASE Renaming(d, s, w)
  <2>1. PICK n, m \in Files, dir \in Dirs :
            \/ /\ s = <<<<"remove", "name", n>>, <<"set", "name", m>>, <<"locate", n, dir, m>>>>
               /\ n # m /\ w = GetVal(NameField(d, n))
            \/ s = <<<<"set", "name", m>>, <<"locate", n, dir, m>>>> /\ n # m /\ Gone(d, n)
            \/ s = <<<<"locate", n, dir, m>>>> /\ Gone(d, n)
    BY <1>6, Zenon DEF Renaming
  <2>2. PICK a, b, c : a = <<"remove", "name", n>> /\ b = <<"set", "name", m>> /\ c = <<"locate", n, dir, m>>
    OBVIOUS
  <2>3. a[1] = "remove" /\ b[1] = "set" /\ c[1] = "locate" /\ c[2] = n
    BY <2>2
  <2>4. CASE /\ s = <<a, b, c>>
             /\ n # m /\ w = GetVal(NameField(d, n))
    <3>1. Head(s) = a
      BY <2>4
    <3> QED  BY <2>2, <2>3, <2>4, <3>1
  <2>5. CASE s = <<b, c>> /\ n # m /\ Gone(d, n)
    <3>1. Head(s) = b
      BY <2>5, OneTwoCalls, Zenon
    <3> QED  BY <2>2, <2>3, <2>5, <3>1
  <2>6. CASE s = <<c>> /\ Gone(d, n)
    <3>1. Head(s) = c /\ Tail(s) = <<>>
      BY <2>6, OneTwoCalls, Zenon
    <3> QED  BY <2>3, <2>6, <3>1
  <2> QED  BY <2>1, <2>2, <2>4, <2>5, <2>6, Zenon
<1>7. CASE ~Renaming(d, s, w)
  <2>1. \/ AllPlain(s) /\ Head(s)[1] \notin {"unlink", "delete", "locate", "remove"}
        \/ /\ ArrivalCalls(s) /\ (Head(s)[1] = "make" \/ Arrived(d, w))
           /\ Head(s)[1] \in {"make", "set"}
        \/ Unlinking(d, ul, s, w) /\ Head(s)[1] \in {"remove", "unlink", "delete"}
    BY <1>2, <1>3, <1>4, <1>5, <1>7, Zenon
  <2>2. CASE AllPlain(s) /\ Head(s)[1] \notin {"unlink", "delete", "locate", "remove"}
    BY <2>2
  <2>3. CASE /\ ArrivalCalls(s) /\ (Head(s)[1] = "make" \/ Arrived(d, w))
             /\ Head(s)[1] \in {"make", "set"}
    BY <2>3
  <2>4. CASE Unlinking(d, ul, s, w) /\ Head(s)[1] \in {"remove", "unlink", "delete"}
    BY <2>4
  <2> QED  BY <2>1, <2>2, <2>3, <2>4, Zenon
<1> QED  BY <1>6, <1>7
-------------------------------------------------------------------------------
(***************************************************************************)
(* Filed is kept by the calls that do not change the index.                *)
(***************************************************************************)
\* A call that only reads the index and perhaps moves or removes a file.
LEMMA FiledRead ==
    ASSUME FilesInv, Serial, Filed, NEW t \in Threads, NEW call, NEW more \in Seq(Calls),
           Proceed(t, call, more), call \notin {"make", "set", "remove"}, UNCHANGED <<db, next>>,
           overlaps = 0 => /\ Phase(db, unlinked, todo'[t], id[t])
                           /\ ~stray => OnDisk(db, disk', unlinked)
    PROVE  Filed'
<1>1. Turn(t, call, more) /\ (todo'[t] = <<>> \/ id'[t] = id[t])
  BY ProceedParts
<1>2. /\ todo[t] # <<>> /\ Head(todo[t])[1] = call /\ overlaps' = overlaps
      /\ \A u \in Threads \ {t} : todo'[u] = todo[u]
  BY <1>1, TurnRest
<1>3. unlinked' = unlinked /\ stray' = stray
  BY <1>1 DEF Turn
<1>4. ASSUME overlaps = 0
      PROVE  /\ OnePath(db') /\ Unread(db', next') /\ Phase(db', unlinked', todo'[t], id'[t])
             /\ \A i \in TokensOf(Ids) : Titled(db', unlinked', i, todo'[t], id'[t])
             /\ ~stray' => OnDisk(db', disk', unlinked')
  <2>1. /\ OnePath(db) /\ Unread(db, next)
        /\ \A i \in TokensOf(Ids) : Titled(db, unlinked, i, todo[t], id[t])
    BY <1>2, <1>4, BusyParts
  <2>2. db' = db /\ next' = next
    OBVIOUS
  <2>3. Phase(db', unlinked', todo'[t], id'[t])
    <3>1. CASE todo'[t] = <<>>
      BY <3>1, Zenon DEF Phase
    <3>2. CASE id'[t] = id[t]
      BY <1>3, <1>4, <2>2, <3>2, Zenon
    <3> QED  BY <1>1, <3>1, <3>2
  <2>4. \A i : ~Awaits(todo[t], id[t], i)
    BY <1>2 DEF Awaits
  <2>5. \A i \in TokensOf(Ids) : Titled(db, unlinked, i, todo'[t], id'[t])
    BY <2>1, <2>4, Zenon DEF Titled
  <2> QED  BY <1>3, <1>4, <2>1, <2>2, <2>3, <2>5, Zenon
<1> QED  BY <1>2, <1>4, BusyStep

\* The phase, for a thread that is alone.
LEMMA BusyPhase ==
    ASSUME FilesInv, Serial, Filed, NEW t \in Threads, NEW call, NEW more \in Seq(Calls),
           Turn(t, call, more), overlaps = 0
    PROVE  /\ todo[t] \in Seq(Calls) /\ todo[t] # <<>> /\ Head(todo[t])[1] = call
           /\ Phase(db, unlinked, todo[t], id[t]) /\ (~stray => OnDisk(db, disk, unlinked))
           /\ TokensOf(todo[t]) = {Head(todo[t])} \cup TokensOf(Tail(todo[t]))
           /\ TokensOf(todo'[t]) = TokensOf(more) \cup TokensOf(Tail(todo[t]))
<1>1. /\ todo[t] \in Seq(Calls) /\ todo[t] # <<>> /\ Head(todo[t])[1] = call
      /\ TokensOf(todo'[t]) = TokensOf(more) \cup TokensOf(Tail(todo[t]))
  BY TurnRest
<1>2. Phase(db, unlinked, todo[t], id[t]) /\ (~stray => OnDisk(db, disk, unlinked))
  BY <1>1, BusyParts
<1>3. TokensOf(todo[t]) = {Head(todo[t])} \cup TokensOf(Tail(todo[t]))
  BY <1>1, TailTokens
<1> QED  BY <1>1, <1>2, <1>3, Zenon

LEMMA FiledPlain ==
    ASSUME FilesInv, Serial, Filed, NEW t \in Threads, NEW call, NEW more \in Seq(Calls),
           Proceed(t, call, more), call \in {"process", "flush", "map", "move"},
           UNCHANGED <<db, next>>,
           overlaps = 0 => AllPlain(more) /\ (~stray => OnDisk(db, disk', unlinked))
    PROVE  Filed'
<1>1. Turn(t, call, more)
  BY ProceedParts
<1>2. ASSUME overlaps = 0 PROVE Phase(db, unlinked, todo'[t], id[t])
  <2>1. /\ todo[t] \in Seq(Calls) /\ todo[t] # <<>> /\ Head(todo[t])[1] = call
        /\ Phase(db, unlinked, todo[t], id[t])
        /\ TokensOf(todo[t]) = {Head(todo[t])} \cup TokensOf(Tail(todo[t]))
        /\ TokensOf(todo'[t]) = TokensOf(more) \cup TokensOf(Tail(todo[t]))
    BY <1>1, <1>2, BusyPhase
  <2>2. AllPlain(todo[t])
    BY <2>1, PhaseParts
  <2>3. AllPlain(todo'[t])
    BY <1>2, <2>1, <2>2 DEF AllPlain
  <2> QED  BY <2>3, Zenon DEF Phase
<1>3. call \notin {"make", "set", "remove"}
  OBVIOUS
<1> QED  BY <1>2, <1>3, FiledRead

\* What scripts extract is not written into the column of the paths.
LEMMA ExtractionsPlain ==
    ASSUME FilesInv, NEW t, NEW path
    PROVE  AllPlain(Extractions(t, path)) /\ Extractions(t, path) \in Seq(Calls)
<1>1. PICK h, attrs : h = Lookup(id[t], <<"ext">>) /\ attrs = Lookup(h, <<"attrs">>)
  OBVIOUS
<1>2. attrs \in Seq(Tokens)
  BY <1>1, LookupTokens, InvParts
<1>3. PICK wanted : wanted = Kept(attrs, Tokens \ (Builtin \cup {Null}))
  OBVIOUS
<1>4. TokensOf(wanted) \subseteq Tokens \ (Builtin \cup {Null})
  BY <1>2, <1>3, KeptTokens
<1>5. PICK x : x = Extracted(path)
  OBVIOUS
<1>6. PICK e : e = [i \in DOMAIN wanted |-> <<"set", wanted[i], x>>]
  OBVIOUS
<1>7. Extractions(t, path) = e
  BY <1>1, <1>3, <1>5, <1>6, Zenon DEF Extractions
<1>8. ASSUME NEW call \in TokensOf(e) PROVE Plain(call)
  <2>1. PICK i \in DOMAIN wanted : call = <<"set", wanted[i], x>>
    BY <1>6, <1>8 DEF TokensOf
  <2>2. wanted[i] # "file_path"
    BY <1>4 DEF TokensOf, Builtin
  <2>3. call[1] = "set" /\ call[2] # "file_path"
    BY <2>1, <2>2
  <2> QED  BY <2>3 DEF Plain, GivesPath
<1>9. Extractions(t, path) \in Seq(SetCalls)
  BY ExtractionCalls, InvParts
<1>10. Extractions(t, path) \in Seq(Calls)
  BY <1>9, SetsMakeNothing
<1> QED  BY <1>7, <1>8, <1>10 DEF AllPlain

LEMMA ProcessFiled ==
    ASSUME FilesInv, Serial, Filed, NEW t \in Threads, ProcessFile(t)
    PROVE  Filed'
<1>1. PICK more : more = Extractions(t, Head(todo[t])[2])
  OBVIOUS
<1>2. Proceed(t, "process", more) /\ UNCHANGED <<db, disk, next>>
  BY <1>1, Zenon DEF ProcessFile
<1>3. AllPlain(more) /\ more \in Seq(Calls)
  BY <1>1, ExtractionsPlain
<1>4. overlaps = 0 /\ ~stray => OnDisk(db, disk', unlinked)
  BY <1>2, Zenon DEF Filed
<1> QED  BY <1>2, <1>3, <1>4, FiledPlain

LEMMA FlushFiled ==
    ASSUME FilesInv, Serial, Filed, NEW t \in Threads, FlushFile(t)
    PROVE  Filed'
<1>1. PICK path, x, more :
          /\ path = Lookup(id[t], <<"file_path">>)
          /\ x = IF Len(path) = 1 THEN path[1] ELSE Null
          /\ more = Extractions(t, x)
  OBVIOUS
<1>2. Proceed(t, "flush", more) /\ UNCHANGED <<db, disk, next>>
  BY <1>1, Zenon DEF FlushFile
<1>3. AllPlain(more) /\ more \in Seq(Calls)
  BY <1>1, ExtractionsPlain
<1>4. overlaps = 0 /\ ~stray => OnDisk(db, disk', unlinked)
  BY <1>2, Zenon DEF Filed
<1> QED  BY <1>2, <1>3, <1>4, FiledPlain

\* Nothing stands under "null", so that a move from there moves nothing.
LEMMA MoveFiled ==
    ASSUME FilesInv, Serial, Filed, NEW t \in Threads, MoveFile(t)
    PROVE  Filed'
<1>1. PICK more : more = <<>>
  OBVIOUS
<1>2. more \in Seq(Calls) /\ TokensOf(more) = {}
  BY <1>1 DEF TokensOf
<1>3. Proceed(t, "move", more) /\ UNCHANGED <<db, next>>
  BY <1>1, Zenon DEF MoveFile
<1>4. Turn(t, "move", more)
  BY <1>2, <1>3, ProceedParts
<1>5. ASSUME overlaps = 0, ~stray PROVE OnDisk(db, disk', unlinked)
  <2>1. /\ todo[t] \in Seq(Calls) /\ todo[t] # <<>> /\ Head(todo[t])[1] = "move"
        /\ Phase(db, unlinked, todo[t], id[t]) /\ OnDisk(db, disk, unlinked)
        /\ TokensOf(todo[t]) = {Head(todo[t])} \cup TokensOf(Tail(todo[t]))
    BY <1>2, <1>4, <1>5, BusyPhase
  <2>2. AllPlain(todo[t])
    BY <2>1, PhaseParts
  <2>3. Head(todo[t])[2] = Null
    BY <2>1, <2>2 DEF AllPlain, Plain
  <2>4. Null \notin DOMAIN disk
    BY <2>1, Zenon DEF OnDisk
  <2>5. \A to : Moved(Null, to) = disk
    BY <2>4, Zenon DEF Moved
  <2>6. disk' = disk
    BY <2>3, <2>5, Zenon DEF MoveFile
  <2> QED  BY <2>1, <2>6, Zenon
<1>6. AllPlain(more)
  BY <1>2 DEF AllPlain
<1> QED  BY <1>2, <1>3, <1>5, <1>6, FiledPlain

\* The words of paths without the column of the paths, and those of selectors.
NoPathWords == PathTokensOnly \ {"file_path"}
SelectorWords == NoPathWords \ (Files \cup {Null})
PathPieces == Pieces(SelectorWords, NoPathWords)

LEMMA PathAttrs ==
    ASSUME FilesInv, Steady, OnePath(db)
    PROVE  PathWords(SelectorWords, NoPathWords)
<1> DEFINE P == <<"file_path">>
           fields == {k[2] : k \in {j \in DOMAIN db : j[1] = P}}
<1> HIDE DEF P
<1>1. DOMAIN db \subseteq Text \X Text /\ \A k \in DOMAIN db : db[k] \in Stored
  BY InvParts, IndexParts
<1>2. \A k : At(db, P, k) # <<>> => TokensOf(k) \subseteq Files \cup {"attrs"}
  BY Zenon DEF OnePath, P
<1>3. ASSUME NEW f \in fields PROVE TokensOf(f) \subseteq Files \cup {"attrs"}
  <2>1. PICK k \in DOMAIN db : k[1] = P /\ f = k[2]
    OBVIOUS
  <2>2. k = <<P, f>>
    BY <1>1, <2>1
  <2>3. db[k] # <<>>
    BY <1>1 DEF Stored
  <2>4. At(db, P, f) = db[k]
    BY <2>2, Zenon DEF At
  <2> QED  BY <1>2, <2>3, <2>4
<1>4. KeysOf(<<"file_path">>) =
          IF fields = {} THEN {Null} ELSE UNION {TokensOf(f) \ {Empty} : f \in fields}
  BY Zenon DEF KeysOf, P
<1> HIDE DEF fields
<1>5. KeysOf(<<"file_path">>) \subseteq Files \cup {"attrs", Null}
  BY <1>3, <1>4
<1>6. /\ PathTokensOnly \subseteq Tokens /\ {"tags", Glued} \subseteq PathTokensOnly
      /\ AllAttrs \subseteq AttrTokens \cup {"all"}
      /\ \A x \in PathTokensOnly, a \in AllAttrs : x \in KeysOf(<<a>>) => a \in PathTokensOnly
  BY AttrWords, Zenon DEF PathWords
<1>7. "tags" # "file_path" /\ Glued # "file_path"
  BY PathsAssumption
<1>8. \A x \in SelectorWords : x \notin KeysOf(<<"file_path">>)
  BY <1>5 DEF SelectorWords, NoPathWords, PathTokensOnly
<1>9. ASSUME NEW x \in SelectorWords, NEW a \in AllAttrs, x \in KeysOf(<<a>>)
      PROVE  a \in NoPathWords
  <2>1. x \in PathTokensOnly
    BY DEF SelectorWords, NoPathWords
  <2>2. a \in PathTokensOnly
    BY <1>6, <1>9, <2>1
  <2>3. a # "file_path"
    BY <1>8, <1>9, Zenon
  <2> QED  BY <2>2, <2>3 DEF NoPathWords
<1>10. SelectorWords \subseteq NoPathWords /\ NoPathWords \subseteq Tokens
  BY <1>6 DEF SelectorWords, NoPathWords
<1>11. {"tags", Glued} \subseteq NoPathWords
  BY <1>6, <1>7 DEF NoPathWords
<1> QED  BY <1>9, <1>10, <1>11, Zenon DEF PathWords

LEMMA PathDirs ==
    ASSUME NEW dir \in Dirs
    PROVE  dir \in Seq(PathPieces)
<1>1. dir \in Seq(OnlyPieces)
  BY DirPieces
<1>2. /\ Len(dir) \in Nat /\ DOMAIN dir = 1..Len(dir) /\ dir = [k \in 1..Len(dir) |-> dir[k]]
      /\ \A k \in 1..Len(dir) : dir[k] \in OnlyPieces
  BY <1>1, LenProperties, ElementOfSeq
<1>3. ASSUME NEW k \in 1..Len(dir) PROVE dir[k] \in PathPieces
  <2>1. PICK s : s = dir[k].names
    OBVIOUS
  <2>2. /\ dir[k] \in [selectors : BOOLEAN, names : Seq(PathTokensOnly)]
        /\ s \in Seq(PathTokensOnly)
    BY <1>2, <2>1 DEF OnlyPieces, Pieces
  <2>3. /\ "file_path" \notin TokensOf(s)
        /\ dir[k].selectors => TokensOf(s) \cap (Files \cup {Null}) = {}
    BY <1>2, <2>1, PathsAssumption
  <2>4. Len(s) \in Nat /\ s = [i \in 1..Len(s) |-> s[i]]
        /\ \A i \in 1..Len(s) : s[i] \in PathTokensOnly /\ s[i] \in TokensOf(s)
    <3>1. Len(s) \in Nat /\ DOMAIN s = 1..Len(s) /\ \A i \in 1..Len(s) : s[i] \in PathTokensOnly
      BY <2>2, LenProperties, ElementOfSeq
    <3>2. \A i \in 1..Len(s) : s[i] \in TokensOf(s)
      BY <3>1 DEF TokensOf
    <3> QED  BY <2>2, <3>1, <3>2
  <2>5. \A i \in 1..Len(s) : s[i] \in NoPathWords
    BY <2>3, <2>4 DEF NoPathWords
  <2>6. s \in Seq(NoPathWords)
    BY <2>4, <2>5, SeqDef
  <2>7. dir[k].selectors => s \in Seq(SelectorWords)
    <3>1. dir[k].selectors => \A i \in 1..Len(s) : s[i] \in SelectorWords
      BY <2>3, <2>4, <2>5 DEF SelectorWords
    <3> QED  BY <2>4, <3>1, SeqDef
  <2> QED  BY <2>1, <2>2, <2>6, <2>7 DEF PathPieces, Pieces
<1> QED  BY <1>2, <1>3, SeqDef

\* map_path writes no path for an entity.
LEMMA MapFiled ==
    ASSUME FilesInv, Steady, Serial, Filed, NEW t \in Threads, MapFile(t)
    PROVE  Filed'
<1>1. PICK c : c = Head(todo[t])
  OBVIOUS
<1>2. PICK pieces : pieces = Append(c[2], Name(c[3]))
  OBVIOUS
<1>3. PICK path \in Resolve(pieces) :
          Proceed(t, "map", MapPath(path)) /\ UNCHANGED <<db, disk, next, named>>
  BY <1>1, <1>2, Zenon DEF MapFile
<1>4. c \in Calls /\ c[1] = "map"
  BY <1>1, <1>3, ProceedParts
<1>5. c[2] \in Dirs /\ c[3] \in Files
  BY <1>4, CallParts
<1>6. PICK n : n = c[3]
  OBVIOUS
<1>7. Name(n) \in OnlyPieces
  <2>1. n \in PathTokensOnly
    BY <1>5, <1>6, FilesAssumption, WordFacts DEF PathTokensOnly
  <2>2. <<n>> \in Seq(PathTokensOnly)
    BY <2>1
  <2> QED  BY <2>2 DEF Name, OnlyPieces, Pieces
<1>8. Name(n) \in PathPieces
  <2>1. n \in NoPathWords
    BY <1>5, <1>6, FilesAssumption, WordFacts, PathsAssumption DEF PathTokensOnly, NoPathWords
  <2>2. <<n>> \in Seq(NoPathWords)
    BY <2>1
  <2> QED  BY <2>2 DEF Name, PathPieces, Pieces
<1>9. pieces \in Seq(OnlyPieces)
  BY <1>2, <1>5, <1>6, <1>7, DirPieces, AppendProperties
<1>10. path \in Seq(PathTokensOnly)
  BY <1>3, <1>9, ResolvedPaths, AttrWords DEF Selections, OnlyPieces
<1>11. PICK more : more = MapPath(path)
  OBVIOUS
<1>12. more \in Seq(Calls)
  <2>1. PathTokensOnly \subseteq Tokens
    BY DEF PathTokensOnly
  <2>2. more \in Seq(SetsOf(PathTokensOnly \ {Null}))
    BY <1>10, <1>11, <2>1, MapCalls
  <2>3. SetsOf(PathTokensOnly \ {Null}) \subseteq SetCalls
    BY <2>1, FilesAssumption DEF SetsOf, SetCalls
  <2>4. SetsOf(PathTokensOnly \ {Null}) \subseteq Calls
    BY <2>3, SetCallsAre
  <2> QED  BY <2>2, <2>4, SeqWiden
<1>13. ASSUME overlaps = 0 PROVE AllPlain(more)
  <2>1. OnePath(db)
    BY <1>13, Zenon DEF Filed
  <2>2. pieces \in Seq(PathPieces)
    BY <1>2, <1>5, <1>6, <1>8, PathDirs, AppendProperties
  <2>3. PathWords(SelectorWords, NoPathWords)
    BY <2>1, PathAttrs
  <2>4. path \in Seq(NoPathWords)
    BY <1>3, <2>2, <2>3, ResolvedPaths DEF Selections, PathPieces
  <2>5. NoPathWords \subseteq Tokens
    BY DEF NoPathWords, PathTokensOnly
  <2>6. more \in Seq(SetsOf(NoPathWords \ {Null}))
    BY <1>11, <2>4, <2>5, MapCalls
  <2>7. DOMAIN more = 1..Len(more) /\ \A i \in 1..Len(more) : more[i] \in SetsOf(NoPathWords \ {Null})
    BY <2>6, LenProperties, ElementOfSeq
  <2>8. \A call \in SetsOf(NoPathWords \ {Null}) : call[1] = "set" /\ call[2] # "file_path"
    BY DEF SetsOf, NoPathWords
  <2>9. \A call : call[1] = "set" /\ call[2] # "file_path" => Plain(call)
    BY DEF Plain, GivesPath
  <2> QED  BY <2>7, <2>8, <2>9 DEF AllPlain, TokensOf
<1>14. Proceed(t, "map", more) /\ UNCHANGED <<db, next>> /\ disk' = disk
  BY <1>3, <1>11
<1>15. overlaps = 0 => AllPlain(more) /\ (~stray => OnDisk(db, disk', unlinked))
  BY <1>13, <1>14, Zenon DEF Filed
<1> QED  BY <1>12, <1>14, <1>15, FiledPlain

\* The old name leads to nothing: the path that is kept for the move is "null".
LEMMA NowhereGone ==
    ASSUME FilesInv, Steady, NEW n, Gone(db, n)
    PROVE  PathOf(n) = Null
<1>1. PICK e, z : e = <<Empty>> /\ z = <<Null>>
  OBVIOUS
<1>2. NoReply(e) /\ Len(z) = 1 /\ z[1] = Null
  BY <1>1 DEF NoReply
<1>3. GetVal(e) = z
  BY <1>1, <1>2 DEF GetVal, Cleanup
<1>4. Lookup(<<"name">>, <<n>>) = z
  BY <1>1, <1>3, LookupNames, Zenon DEF Gone
<1>5. Lookup(z, <<"file_path">>) = z
  BY <1>1, NothingUnderNull, Zenon
<1> QED  BY <1>2, <1>4, <1>5, Zenon DEF PathOf

LEMMA LocateFiled ==
    ASSUME FilesInv, Steady, Serial, Filed, NEW t \in Threads, LocateFile(t)
    PROVE  Filed'
<1>1. PICK c : c = Head(todo[t])
  OBVIOUS
<1>2. PICK x, y : /\ x = <<"map", c[3], c[4]>>
                  /\ y = <<"move", PathOf(c[2]), Lookup(id[t], <<"location">>), c[4]>>
  OBVIOUS
<1>3. PICK more : more = <<x, y>>
  OBVIOUS
<1>4. Proceed(t, "locate", more) /\ UNCHANGED <<db, disk, next, named>>
  BY <1>1, <1>2, <1>3, Zenon DEF LocateFile
<1>5. c \in Calls /\ c[1] = "locate" /\ Turn(t, "locate", more)
  BY <1>1, <1>4, ProceedParts
<1>6. c[3] \in Dirs /\ c[4] \in Files
  BY <1>5, CallParts
<1>7. PathOf(c[2]) \in Tokens /\ Lookup(id[t], <<"location">>) \in Text
  BY PathTokens, LookupTokens, InvParts DEF Text
<1>8. x \in Calls /\ y \in Calls /\ x[1] = "map" /\ y[1] = "move" /\ y[2] = PathOf(c[2])
  BY <1>2, <1>6, <1>7 DEF Calls
<1>9. more \in Seq(Calls) /\ TokensOf(more) = {x, y}
  BY <1>3, <1>8, OneTwoCalls
<1>10. ASSUME overlaps = 0 PROVE Phase(db, unlinked, todo'[t], id[t])
  <2>1. /\ todo[t] \in Seq(Calls) /\ todo[t] # <<>> /\ Head(todo[t])[1] = "locate"
        /\ Phase(db, unlinked, todo[t], id[t])
        /\ TokensOf(todo'[t]) = TokensOf(more) \cup TokensOf(Tail(todo[t]))
    BY <1>5, <1>9, <1>10, BusyPhase
  <2>2. PICK n \in Files : Head(todo[t])[2] = n /\ Gone(db, n) /\ Tail(todo[t]) = <<>>
    BY <2>1, PhaseParts
  <2>3. PathOf(c[2]) = Null
    BY <1>1, <2>2, NowhereGone, Zenon
  <2>4. TokensOf(Tail(todo[t])) = {}
    BY <2>2 DEF TokensOf
  <2>5. Plain(x) /\ Plain(y)
    BY <1>8, <2>3 DEF Plain, GivesPath
  <2>6. AllPlain(todo'[t])
    BY <1>9, <2>1, <2>4, <2>5 DEF AllPlain
  <2> QED  BY <2>6, Zenon DEF Phase
<1>11. overlaps = 0 => /\ Phase(db, unlinked, todo'[t], id[t])
                       /\ ~stray => OnDisk(db, disk', unlinked)
  <2>1. disk' = disk
    BY <1>4
  <2> QED  BY <1>10, <2>1, Zenon DEF Filed
<1>12. "locate" \notin {"make", "set", "remove"} /\ UNCHANGED <<db, next>>
  BY <1>4
<1> QED  BY <1>4, <1>9, <1>11, <1>12, FiledRead

\* xmp_unlink has still to remove and to delete; its ids count as unlinked by now.
LEMMA UnlinkFiled ==
    ASSUME FilesInv, Steady, Serial, Filed, NEW t \in Threads, UnlinkFile(t)
    PROVE  Filed'
<1>1. PICK n : n = Head(todo[t])[2]
  OBVIOUS
<1>2. PICK h, path : h = Lookup(<<"name">>, <<n>>) /\ path = Lookup(h, <<"file_path">>)
  OBVIOUS
<1>3. PICK attrs : attrs = Lookup(Lookup(id[t], <<"ext">>), <<"attrs">>)
  OBVIOUS
<1>4. PICK u : u = path[Len(path)]
  OBVIOUS
<1>5. PICK x, y : x = <<"remove", "attrs", "all">> /\ y = <<"remove", "name", u>>
  OBVIOUS
<1>6. PICK a, b : a = <<x>> /\ b = IF "name" \in TokensOf(attrs) THEN <<y>> ELSE <<>>
  OBVIOUS
<1>7. PICK more : more = a \o b
  OBVIOUS
<1>8. Proceed(t, "unlink", more) /\ UNCHANGED <<db, disk, next, named>>
  BY <1>1, <1>2, <1>3, <1>4, <1>5, <1>6, <1>7, Zenon DEF UnlinkFile
<1>9. u \in Tokens
  BY <1>2, <1>4, LookupTokens, InvParts
<1>10. x \in Calls /\ y \in Calls /\ x[1] = "remove" /\ y[1] = "remove"
  BY <1>5, <1>9, FilesAssumption DEF Calls
<1> DEFINE Both == {x, y}
<1>11. x \in Both /\ y \in Both
  OBVIOUS
<1> HIDE DEF Both
<1>12. more \in Seq(Both)
  <2>1. a \in Seq(Both) /\ b \in Seq(Both)
    BY <1>6, <1>11
  <2> QED  BY <1>7, <2>1, ConcatProperties
<1>13. more \in Seq(Calls) /\ TokensOf(more) \subseteq {x, y}
  <2>1. Both \subseteq Calls
    BY <1>10 DEF Both
  <2>2. more \in Seq(Calls)
    BY <1>12, <2>1, SeqWiden
  <2>3. DOMAIN more = 1..Len(more) /\ \A i \in 1..Len(more) : more[i] \in Both
    BY <1>12, LenProperties, ElementOfSeq
  <2> QED  BY <2>2, <2>3 DEF TokensOf, Both
<1>14. Turn(t, "unlink", more)
  BY <1>8, ProceedParts
<1>15. ASSUME overlaps = 0 PROVE Phase(db, unlinked, todo'[t], id[t])
  <2>1. /\ todo[t] \in Seq(Calls) /\ todo[t] # <<>> /\ Head(todo[t])[1] = "unlink"
        /\ Phase(db, unlinked, todo[t], id[t])
        /\ TokensOf(todo[t]) = {Head(todo[t])} \cup TokensOf(Tail(todo[t]))
        /\ TokensOf(todo'[t]) = TokensOf(more) \cup TokensOf(Tail(todo[t]))
    BY <1>13, <1>14, <1>15, BusyPhase
  <2>2. Unlinking(db, unlinked, todo[t], id[t])
    BY <2>1, PhaseParts
  <2>3. \A call \in TokensOf(todo'[t]) : call \in TokensOf(todo[t]) \/ call[1] = "remove"
    BY <1>10, <1>13, <2>1
  <2>4. \A call : call[1] = "remove" => call[1] \in {"remove", "unlink", "delete"} /\ call[1] # "delete"
    OBVIOUS
  <2>5. Unlinking(db, unlinked, todo'[t], id[t])
    BY <2>2, <2>3, <2>4, Zenon DEF Unlinking
  <2> QED  BY <2>5, Zenon DEF Phase
<1>16. overlaps = 0 => /\ Phase(db, unlinked, todo'[t], id[t])
                       /\ ~stray => OnDisk(db, disk', unlinked)
  <2>1. disk' = disk
    BY <1>8
  <2> QED  BY <1>15, <2>1, Zenon DEF Filed
<1>17. "unlink" \notin {"make", "set", "remove"} /\ UNCHANGED <<db, next>>
  BY <1>8
<1> QED  BY <1>8, <1>13, <1>16, <1>17, FiledRead

\* A name that leads to unlinked entities only leads to no other one's path.
LEMMA UnlinkedPath ==
    ASSUME FilesInv, Steady, OnePath(db), NEW n \in Files, NEW ul,
           TokensOf(NameField(db, n)) \subseteq ul \cup {Empty, Null}, NEW p \in Files,
           \A i \in TokensOf(Ids) : PathField(db, <<i>>) = <<p>> => i \notin ul
    PROVE  PathOf(n) # p
<1> SUFFICES ASSUME PathOf(n) = p PROVE FALSE
  OBVIOUS
<1>1. PICK s, f : s = NameField(db, n) /\ f = GetVal(s)
  OBVIOUS
<1>2. PICK r, path : r = PathField(db, f) /\ path = GetVal(r)
  OBVIOUS
<1>3. Lookup(<<"name">>, <<n>>) = f
  BY <1>1, LookupNames, Zenon
<1>4. Lookup(f, <<"file_path">>) = path
  BY <1>2, Zenon DEF Lookup, PathField
<1>5. p \notin {Empty, Null} /\ p \in Tokens
  BY FilesAssumption
<1>6. PathOf(n) = IF Len(path) = 1 THEN path[1] ELSE Empty
  BY <1>3, <1>4, Zenon DEF PathOf
<1>7. path[1] = p
  BY <1>5, <1>6, Zenon
<1>8. s \in Text /\ r \in Text
  BY <1>1, <1>2, AtText, InvParts DEF NameField, PathField
<1>9. path \in Stored
  BY <1>2, <1>8, GetValStored
<1>10. p \in TokensOf(path)
  BY <1>7, <1>9, LenTokens
<1>11. p \in TokensOf(r)
  <2>1. p \in TokensOf(GetVal(r)) <=> p \in TokensOf(r)
    BY <1>5, <1>8, GetValToken
  <2> QED  BY <1>2, <1>10, <2>1
<1>12. TokensOf(f) \subseteq IdTokens
  <2>1. TokensOf(f) \subseteq TokensOf(s) \cup {Null}
    BY <1>1, <1>8, GetValStored
  <2>2. TokensOf(s) \subseteq IdTokens
    BY <1>1, SteadyParts DEF IdNames
  <2> QED  BY <2>1, <2>2 DEF IdTokens
<1>13. PICK i \in TokensOf(Ids) : f = <<i>>
  <2>1. SUFFICES ASSUME \A i \in TokensOf(Ids) : f # <<i>> PROVE FALSE
    BY Zenon
  <2>2. TokensOf(PathField(db, f)) \cap Files = {}
    BY <1>12, <2>1, Zenon DEF OnePath
  <2> QED  BY <1>2, <1>11, <2>2
<1>14. i \in ul
  <2>1. i \in TokensOf(f) /\ i \notin {Empty, Null}
    BY <1>13, OneTexts, IdFacts
  <2>2. i \in TokensOf(s)
    BY <1>1, <1>8, <2>1, GetValToken
  <2> QED  BY <1>1, <2>1, <2>2
<1>15. PathField(db, <<i>>) = <<p>>
  <2>1. r \in {<<>>} \cup {<<q>> : q \in Files}
    BY <1>2, <1>13, Zenon DEF OnePath
  <2>2. r # <<>>
    BY <1>11 DEF TokensOf
  <2>3. PICK q \in Files : r = <<q>>
    BY <2>1, <2>2
  <2>4. q = p
    BY <1>11, <2>3, OneTexts
  <2> QED  BY <1>2, <1>13, <2>3, <2>4, Zenon
<1> QED  BY <1>14, <1>15

LEMMA DeleteFiled ==
    ASSUME FilesInv, Steady, Serial, Filed, NEW t \in Threads, DeleteFile(t)
    PROVE  Filed'
<1>1. PICK more, n : more = <<>> /\ n = Head(todo[t])[2]
  OBVIOUS
<1>2. more \in Seq(Calls) /\ TokensOf(more) = {}
  BY <1>1 DEF TokensOf
<1>3. /\ Proceed(t, "delete", more) /\ UNCHANGED <<db, next>>
      /\ disk' = [p \in DOMAIN disk \ {PathOf(n)} |-> disk[p]]
  BY <1>1, Zenon DEF DeleteFile
<1>4. Turn(t, "delete", more) /\ Head(todo[t]) \in Calls /\ Head(todo[t])[1] = "delete"
  BY <1>3, ProceedParts
<1>5. n \in Files
  BY <1>1, <1>4, CallParts
<1>6. ASSUME overlaps = 0
      PROVE  /\ Phase(db, unlinked, todo'[t], id[t])
             /\ ~stray => OnDisk(db, disk', unlinked)
  <2>1. /\ todo[t] \in Seq(Calls) /\ todo[t] # <<>> /\ Head(todo[t])[1] = "delete"
        /\ Phase(db, unlinked, todo[t], id[t]) /\ (~stray => OnDisk(db, disk, unlinked))
        /\ TokensOf(todo[t]) = {Head(todo[t])} \cup TokensOf(Tail(todo[t]))
        /\ TokensOf(todo'[t]) = TokensOf(more) \cup TokensOf(Tail(todo[t]))
    BY <1>2, <1>4, <1>6, BusyPhase
  <2>2. Unlinking(db, unlinked, todo[t], id[t])
    BY <2>1, PhaseParts
  <2>3. \A call \in TokensOf(todo'[t]) : call \in TokensOf(todo[t])
    BY <1>2, <2>1
  <2>4. Unlinking(db, unlinked, todo'[t], id[t])
    BY <2>2, <2>3, Zenon DEF Unlinking
  <2>5. TokensOf(NameField(db, n)) \subseteq unlinked \cup {Empty, Null}
    <3>1. Head(todo[t]) \in TokensOf(todo[t])
      BY <2>1
    <3> QED  BY <1>1, <1>4, <2>2, <3>1, Zenon DEF Unlinking
  <2>6. OnePath(db)
    BY <1>6, Zenon DEF Filed
  <2>7. ASSUME OnDisk(db, disk, unlinked) PROVE OnDisk(db, disk', unlinked)
    <3>1. Null \notin DOMAIN disk'
      BY <1>3, <2>7 DEF OnDisk
    <3>2. ASSUME NEW p \in Files,
                 \A i \in TokensOf(Ids) : PathField(db, <<i>>) = <<p>> => i \notin unlinked
          PROVE  p \in DOMAIN disk' /\ disk'[p] = p
      <4>1. PathOf(n) # p
        BY <1>5, <2>5, <2>6, <3>2, UnlinkedPath
      <4>2. p \in DOMAIN disk /\ disk[p] = p
        BY <2>7, <3>2, Zenon DEF OnDisk
      <4> QED  BY <1>3, <4>1, <4>2
    <3> QED  BY <3>1, <3>2, Zenon DEF OnDisk
  <2>8. Phase(db, unlinked, todo'[t], id[t])
    BY <2>4, Zenon DEF Phase
  <2> QED  BY <2>1, <2>7, <2>8
<1>7. "delete" \notin {"make", "set", "remove"}
  OBVIOUS
<1> QED  BY <1>2, <1>3, <1>6, <1>7, FiledRead
-------------------------------------------------------------------------------
(***************************************************************************)
(* Filed is kept by the calls that write.                                  *)
(***************************************************************************)
\* Where no path changes, what says of paths is kept.
LEMMA SamePaths ==
    ASSUME NEW d, NEW e, PathsKept(d, e), NEW k \in Nat \ {0}, NEW l \in Nat, l >= k,
           NEW files, NEW ul
    PROVE  /\ Unread(d, k) => Unread(e, l)
           /\ OnDisk(d, files, ul) => OnDisk(e, files, ul)
<1>1. ASSUME Unread(d, k) PROVE Unread(e, l)
  <2> SUFFICES ASSUME NEW j \in l..Len(Ids) PROVE PathField(e, <<Ids[j]>>) = <<>>
    BY Zenon DEF Unread
  <2>1. Len(Ids) \in Nat /\ DOMAIN Ids = 1..Len(Ids)
    BY FilesAssumption, LenProperties
  <2>2. j \in k..Len(Ids) /\ j \in DOMAIN Ids
    BY <2>1
  <2>3. PathField(d, <<Ids[j]>>) = <<>>
    BY <1>1, <2>2, Zenon DEF Unread
  <2>4. Ids[j] \in TokensOf(Ids)
    BY <2>2 DEF TokensOf
  <2> QED  BY <2>3, <2>4, Zenon DEF PathsKept
<1>2. OnDisk(d, files, ul) => OnDisk(e, files, ul)
  BY Zenon DEF OnDisk, PathsKept
<1> QED  BY <1>1, <1>2

\* A call that writes, of an operation that goes on.
LEMMA MakeFiled ==
    ASSUME FilesInv, Steady, Serial, Filed, NEW t \in Threads, MakeEntity(t)
    PROVE  Filed'
<1>1. PICK more, i, v : more = <<>> /\ i = Ids[next] /\ v = Head(todo[t])[3]
  OBVIOUS
<1>2. PICK f : f = <<i>>
  OBVIOUS
<1>3. /\ Turn(t, "make", more) /\ NewEntity(t, "name", v) /\ id' = [id EXCEPT ![t] = f]
      /\ disk' = disk
  BY <1>1, <1>2, Zenon DEF MakeEntity
<1>4. more \in Seq(Calls) /\ TokensOf(more) = {}
  BY <1>1 DEF TokensOf
<1>5. /\ todo'[t] = Tail(todo[t]) /\ overlaps' = overlaps
      /\ \A u \in Threads \ {t} : todo'[u] = todo[u]
      /\ todo[t] \in Seq(Calls) /\ todo[t] # <<>> /\ Head(todo[t])[1] = "make"
  BY <1>1, <1>3, <1>4, TurnRest
<1>6. v \in Tokens
  <2>1. Head(todo[t]) \in Calls
    BY <1>3, <1>4, TurnCalls
  <2>2. v \in Files
    BY <1>1, <1>5, <2>1, CallParts
  <2> QED  BY <2>2, FilesAssumption
<1>7. next <= Len(Ids) /\ db' = Set(db, f, <<"name">>, <<v>>) /\ next' = next + 1
  BY <1>1, <1>2, <1>3, Zenon DEF NewEntity
<1>8. i \in TokensOf(Ids) /\ f \in Stored /\ TokensOf(f) = {i}
  BY <1>1, <1>2, <1>7, NewId, Zenon
<1>9. db \in Indexes /\ id \in [Threads -> Stored] /\ id'[t] = f
  BY <1>3, InvParts
<1>10. next \in Nat \ {0} /\ next' \in Nat /\ next' >= next
  BY <1>7, SteadyParts
<1>11. unlinked' = unlinked /\ stray' = stray
  BY <1>3 DEF Turn
<1>12. ASSUME overlaps = 0
       PROVE  /\ OnePath(db') /\ Unread(db', next') /\ Phase(db', unlinked', todo'[t], id'[t])
              /\ \A j \in TokensOf(Ids) : Titled(db', unlinked', j, todo'[t], id'[t])
              /\ ~stray' => OnDisk(db', disk', unlinked')
  <2>1. /\ OnePath(db) /\ Unread(db, next) /\ Phase(db, unlinked, todo[t], id[t])
        /\ \A j \in TokensOf(Ids) : Titled(db, unlinked, j, todo[t], id[t])
        /\ ~stray => OnDisk(db, disk, unlinked)
    BY <1>5, <1>12, BusyParts
  <2>2. /\ "name" \in Tokens /\ "name" \notin TokensOf(Ids) /\ "name" # "file_path"
        /\ TokensOf(f) \subseteq IdTokens /\ "name" \notin TokensOf(f)
    BY <1>8, IdFacts DEF IdTokens
  <2>3. OnePath(db') /\ PathsKept(db, db')
    <3>1. /\ OnePath(Set(db, f, <<"name">>, <<v>>))
          /\ PathsKept(db, Set(db, f, <<"name">>, <<v>>))
      BY <1>6, <1>8, <1>9, <2>1, <2>2, OtherPaths
    <3> QED  BY <1>7, <3>1, Zenon
  <2>4. Unread(db', next') /\ (~stray => OnDisk(db', disk, unlinked))
    BY <1>10, <2>1, <2>3, SamePaths, Zenon
  <2>5. ASSUME NEW j \in TokensOf(Ids), NameOf(db, j) # <<>> \/ j = i
        PROVE  NameOf(db', j) # <<>>
    <3>1. NameOf(db, j) # <<>> \/ (f = <<j>> /\ "name" = "name")
      BY <1>2, <2>5
    <3>2. NameOf(Set(db, f, <<"name">>, <<v>>), j) # <<>>
      BY <1>6, <1>8, <1>9, <2>2, <3>1, NamesStay
    <3> QED  BY <1>7, <3>2, Zenon
  <2>6. ASSUME NEW j \in TokensOf(Ids) PROVE Titled(db', unlinked, j, todo'[t], id'[t])
    <3>1. ~Awaits(todo[t], id[t], j)
      BY <1>5 DEF Awaits
    <3>2. j \notin unlinked /\ PathField(db, <<j>>) # <<>> => NameOf(db, j) # <<>>
      BY <2>1, <3>1, Zenon DEF Titled
    <3> QED  BY <2>3, <2>5, <3>2, Zenon DEF Titled, PathsKept
  <2>7. AllPlain(todo[t]) \/ ArrivalCalls(todo[t])
    BY <1>5, <2>1, PhaseParts
  <2>8. CASE AllPlain(todo[t])
    <3>1. TokensOf(todo[t]) = {Head(todo[t])} \cup TokensOf(Tail(todo[t]))
      BY <1>5, TailTokens
    <3>2. AllPlain(todo'[t])
      BY <1>5, <2>8, <3>1 DEF AllPlain
    <3>3. Phase(db', unlinked, todo'[t], id'[t])
      BY <3>2, Zenon DEF Phase
    <3> QED  BY <1>3, <1>11, <2>3, <2>4, <2>6, <3>3, Zenon
  <2>9. CASE ArrivalCalls(todo[t])
    <3>1. ~GivesPath(Head(todo[t]))
      BY <1>5 DEF GivesPath
    <3>2. ArrivalCalls(todo'[t])
      BY <1>5, <2>9, <3>1, ArrivalTail
    <3>3. PathField(db', <<i>>) = <<>>
      <4>1. next \in next..Len(Ids)
        BY <1>7, SteadyParts
      <4>2. PathField(db, <<i>>) = <<>>
        BY <1>1, <2>1, <4>1, Zenon DEF Unread
      <4> QED  BY <1>8, <2>3, <4>2, Zenon DEF PathsKept
    <3>4. NameOf(db', i) # <<>>
      BY <1>8, <2>5, Zenon
    <3>5. Arrived(db', id'[t])
      BY <1>2, <1>8, <1>9, <3>3, <3>4, Zenon DEF Arrived
    <3>6. Phase(db', unlinked, todo'[t], id'[t])
      BY <3>2, <3>5, Zenon DEF Phase
    <3> QED  BY <1>3, <1>11, <2>3, <2>4, <2>6, <3>6, Zenon
  <2> QED  BY <2>7, <2>8, <2>9
<1> QED  BY <1>5, <1>12, BusyStep

LEMMA OtherName ==
    ASSUME NEW d, NEW f, "name" \notin TokensOf(f), NEW v, NEW k, k # v
    PROVE  NameField(Set(d, f, <<"name">>, <<v>>), k) = NameField(d, k)
<1>1. /\ NameField(Set(d, f, <<"name">>, <<v>>), v) = AddTo(NameField(d, v), f)
      /\ \A n : n # v => NameField(Set(d, f, <<"name">>, <<v>>), n) = NameField(d, n)
      /\ \A i : i # "name" => NameOf(Set(d, f, <<"name">>, <<v>>), i) =
                   IF f = <<i>> THEN AddTo(NameOf(d, i), <<v>>) ELSE NameOf(d, i)
  BY NameSet
<1> QED  BY <1>1, Zenon

\* What is left after the next call of an operation that sets a value in another column,
\* for the entity w or, when the operation has none, a new one.
LEMMA SetPhase ==
    ASSUME NEW d \in Indexes, NEW ul, NEW s \in Seq(Calls), s # <<>>, Head(s)[1] = "set", NEW w,
           Phase(d, ul, s, w), NEW f \in Stored, "name" \notin TokensOf(f),
           w # <<Null>> => f = w, NEW c, c = Head(s)[2], c # "file_path", c \in Tokens,
           c \notin TokensOf(Ids), NEW v, v = Head(s)[3], v \in Tokens,
           NEW e, e = Set(d, f, <<c>>, <<v>>), PathsKept(d, e), NEW x, Tail(s) # <<>> => x = w
    PROVE  Phase(e, ul, Tail(s), x)
<1>1. \/ AllPlain(s)
      \/ ArrivalCalls(s) /\ Arrived(d, w)
      \/ \E n, m \in Files, dir \in Dirs :
            /\ s = <<<<"set", "name", m>>, <<"locate", n, dir, m>>>>
            /\ n # m /\ Gone(d, n)
  BY PhaseParts
<1>2. CASE AllPlain(s)
  <2>1. TokensOf(s) = {Head(s)} \cup TokensOf(Tail(s))
    BY TailTokens
  <2>2. AllPlain(Tail(s))
    BY <1>2, <2>1 DEF AllPlain
  <2> QED  BY <2>2, Zenon DEF Phase
<1>3. CASE ArrivalCalls(s) /\ Arrived(d, w)
  <2>1. ~GivesPath(Head(s))
    BY DEF GivesPath
  <2>2. ArrivalCalls(Tail(s))
    BY <1>3, <2>1, ArrivalTail
  <2>3. PICK i \in TokensOf(Ids) : w = <<i>> /\ NameOf(d, i) # <<>> /\ PathField(d, <<i>>) = <<>>
    BY <1>3, Zenon DEF Arrived
  <2>4. PathField(e, <<i>>) = <<>>
    BY <2>3, Zenon DEF PathsKept
  <2>5. NameOf(e, i) # <<>>
    <3>1. NameOf(d, i) # <<>> \/ (f = <<i>> /\ c = "name")
      BY <2>3
    <3>2. NameOf(Set(d, f, <<c>>, <<v>>), i) # <<>>
      BY <3>1, NamesStay
    <3> QED  BY <3>2, Zenon
  <2>6. Tail(s) # <<>> => Arrived(e, x)
    BY <2>3, <2>4, <2>5, Zenon DEF Arrived
  <2> QED  BY <2>2, <2>6, Zenon DEF Phase
<1>4. CASE \E n, m \in Files, dir \in Dirs :
               /\ s = <<<<"set", "name", m>>, <<"locate", n, dir, m>>>>
               /\ n # m /\ Gone(d, n)
  <2>1. PICK n, m \in Files, dir \in Dirs :
            /\ s = <<<<"set", "name", m>>, <<"locate", n, dir, m>>>>
            /\ n # m /\ Gone(d, n)
    BY <1>4, Zenon
  <2>2. PICK a, b : a = <<"set", "name", m>> /\ b = <<"locate", n, dir, m>>
    OBVIOUS
  <2>3. s = <<a, b>>
    BY <2>1, <2>2, Zenon
  <2>4. Head(s) = a /\ Tail(s) = <<b>>
    BY <2>3, OneTwoCalls, Zenon
  <2>5. c = "name" /\ v = m
    BY <2>2, <2>4
  <2>6. NameField(e, n) = NameField(d, n)
    <3>1. n # v
      BY <2>1, <2>5
    <3>2. NameField(Set(d, f, <<"name">>, <<v>>), n) = NameField(d, n)
      BY <3>1, OtherName
    <3> QED  BY <2>5, <3>2, Zenon
  <2>7. Gone(e, n)
    BY <2>1, <2>6, Zenon DEF Gone
  <2>8. Renaming(e, Tail(s), x)
    BY <2>2, <2>4, <2>7, Zenon DEF Renaming
  <2> QED  BY <2>8, Zenon DEF Phase
<1> QED  BY <1>1, <1>2, <1>3, <1>4, Zenon

\* The call that gives an entity its path comes when the entity has a name and no path.
LEMMA PathPhase ==
    ASSUME FilesInv, Steady, Filed, NEW t \in Threads, NEW s, s = todo[t], s \in Seq(Calls), s # <<>>,
           Head(s)[1] = "set", Head(s)[2] = "file_path", Phase(db, unlinked, s, id[t]),
           NEW p, p = Head(s)[3], OnePath(db), Unread(db, next),
           NEW e, e = Set(db, id[t], <<"file_path">>, <<p>>), NEW x
    PROVE  /\ OnePath(e) /\ Unread(e, next) /\ id[t] # <<Null>>
           /\ Phase(e, unlinked, Tail(s), x)
           /\ \A j \in TokensOf(Ids) :
                 PathField(db, <<j>>) # PathField(e, <<j>>) => NameOf(e, j) # <<>>
           /\ \A j \in TokensOf(Ids) : NameOf(db, j) # <<>> => NameOf(e, j) # <<>>
           /\ OnDisk(db, disk, unlinked) => OnDisk(e, disk, unlinked)
<1>1. PICK a : a = Head(s)
  OBVIOUS
<1>2. GivesPath(a) /\ a[2] # "name"
  BY <1>1 DEF GivesPath
<1>3. ArrivalCalls(s) /\ Arrived(db, id[t])
  <2>1. \/ AllPlain(s)
        \/ ArrivalCalls(s) /\ Arrived(db, id[t])
        \/ \E n, m \in Files, dir \in Dirs :
              /\ s = <<<<"set", "name", m>>, <<"locate", n, dir, m>>>>
              /\ n # m /\ Gone(db, n)
    BY PhaseParts
  <2>2. ~AllPlain(s)
    <3>1. a \in TokensOf(s)
      BY <1>1, TailTokens
    <3>2. ~Plain(a)
      BY <1>2, Zenon DEF Plain
    <3> QED  BY <3>1, <3>2, Zenon DEF AllPlain
  <2>3. \A y, b : s = <<y, b>> => a = y
    BY <1>1, OneTwoCalls, Zenon
  <2>4. \A m : a # <<"set", "name", m>>
    BY <1>2
  <2> QED  BY <2>1, <2>2, <2>3, <2>4, Zenon
<1>4. PICK i \in TokensOf(Ids) : id[t] = <<i>> /\ NameOf(db, i) # <<>> /\ PathField(db, <<i>>) = <<>>
  BY <1>3, Zenon DEF Arrived
<1>5. p \in Files /\ AllPlain(Tail(s))
  BY <1>1, <1>2, <1>3, ArrivalTail
<1>6. db \in Indexes /\ e = Set(db, <<i>>, <<"file_path">>, <<p>>)
  BY <1>4, InvParts
<1>7. /\ OnePath(e)
      /\ \A j \in TokensOf(Ids) : PathField(e, <<j>>) =
             IF j = i THEN <<p>> ELSE PathField(db, <<j>>)
  <2>1. /\ OnePath(Set(db, <<i>>, <<"file_path">>, <<p>>))
        /\ \A j \in TokensOf(Ids) : PathField(Set(db, <<i>>, <<"file_path">>, <<p>>), <<j>>) =
              IF j = i THEN <<p>> ELSE PathField(db, <<j>>)
    BY <1>4, <1>5, <1>6, GivePath
  <2> QED  BY <1>6, <2>1, Zenon
<1>8. \A j \in next..Len(Ids) : Ids[j] \in TokensOf(Ids) /\ Ids[j] # i
  <2> TAKE j \in next..Len(Ids)
  <2>1. Ids[j] \notin TokensOf(id[t]) /\ Ids[j] \in TokensOf(Ids)
    BY SteadyParts
  <2>2. i \in TokensOf(id[t])
    BY <1>4, OneTexts
  <2> QED  BY <2>1, <2>2
<1>9. Unread(e, next)
  BY <1>7, <1>8, Zenon DEF Unread
<1>10. id[t] # <<Null>>
  BY <1>4, OneTexts, IdFacts
<1>11. Phase(e, unlinked, Tail(s), x)
  BY <1>5, Zenon DEF Phase
<1>12. ASSUME NEW j \in TokensOf(Ids), NameOf(db, j) # <<>> PROVE NameOf(e, j) # <<>>
  <2>1. /\ <<i>> \in Stored /\ TokensOf(<<i>>) = {i} /\ i # "name"
    BY IdFacts, OneToken
  <2>2. "name" \notin TokensOf(<<i>>)
    BY <2>1
  <2>3. "file_path" \in Tokens /\ "file_path" \notin TokensOf(Ids) /\ p \in Tokens
    BY <1>5, PathFacts
  <2>4. NameOf(db, j) # <<>> \/ (<<i>> = <<j>> /\ "file_path" = "name")
    BY <1>12
  <2>5. NameOf(Set(db, <<i>>, <<"file_path">>, <<p>>), j) # <<>>
    BY <1>6, <2>1, <2>2, <2>3, <2>4, NamesStay
  <2> QED  BY <1>6, <2>5, Zenon
<1>13. \A j \in TokensOf(Ids) : PathField(db, <<j>>) # PathField(e, <<j>>) => NameOf(e, j) # <<>>
  BY <1>4, <1>7, <1>12, Zenon
<1>14. ASSUME OnDisk(db, disk, unlinked) PROVE OnDisk(e, disk, unlinked)
  <2>1. \A j \in TokensOf(Ids), q \in Files :
            PathField(db, <<j>>) = <<q>> => PathField(e, <<j>>) = <<q>>
    <3> TAKE j \in TokensOf(Ids), q \in Files
    <3>1. <<q>> # <<>>
      BY OneTexts, Zenon
    <3> QED  BY <1>4, <1>7, <3>1, Zenon
  <2>2. /\ Null \notin DOMAIN disk
        /\ \A q \in Files : q \in DOMAIN disk => q \in DOMAIN disk /\ disk[q] = disk[q]
    BY <1>14, Zenon DEF OnDisk
  <2>3. unlinked \subseteq unlinked
    OBVIOUS
  <2> QED  BY <1>14, <2>1, <2>2, <2>3, OnDiskOn
<1> QED  BY <1>7, <1>9, <1>10, <1>11, <1>12, <1>13, <1>14

\* A value set in another column than that of the paths, for an entity or a new one.
LEMMA OtherFiled ==
    ASSUME FilesInv, Steady, Serial, Filed, NEW t \in Threads, overlaps = 0,
           NEW s, s = todo[t], s \in Seq(Calls), s # <<>>, Head(s)[1] = "set",
           NEW c, c = Head(s)[2], NEW v, v = Head(s)[3], c \in Tokens, v \in Tokens,
           c \notin TokensOf(Ids), c # "file_path",
           NEW f \in Stored, TokensOf(f) \subseteq IdTokens, id[t] # <<Null>> => f = id[t],
           NEW e, e = Set(db, f, <<c>>, <<v>>), NEW k \in Nat, k >= next,
           NEW x, Tail(s) # <<>> => x = id[t]
    PROVE  /\ OnePath(e) /\ Unread(e, k) /\ Phase(e, unlinked, Tail(s), x)
           /\ \A j \in TokensOf(Ids) : Titled(e, unlinked, j, Tail(s), x)
           /\ ~stray => OnDisk(e, disk, unlinked)
<1>1. /\ OnePath(db) /\ Unread(db, next) /\ Phase(db, unlinked, s, id[t])
      /\ \A j \in TokensOf(Ids) : Titled(db, unlinked, j, s, id[t])
      /\ ~stray => OnDisk(db, disk, unlinked)
  BY BusyParts
<1>2. db \in Indexes /\ next \in Nat \ {0} /\ "name" \notin TokensOf(f)
  BY InvParts, SteadyParts, IdFacts
<1>3. OnePath(e) /\ PathsKept(db, e)
  <2>1. OnePath(Set(db, f, <<c>>, <<v>>)) /\ PathsKept(db, Set(db, f, <<c>>, <<v>>))
    BY <1>1, <1>2, OtherPaths
  <2> QED  BY <2>1, Zenon
<1>4. Unread(e, k) /\ (~stray => OnDisk(e, disk, unlinked))
  BY <1>1, <1>2, <1>3, SamePaths, Zenon
<1>5. Phase(e, unlinked, Tail(s), x)
  BY <1>1, <1>2, <1>3, SetPhase
<1>6. ASSUME NEW j \in TokensOf(Ids) PROVE Titled(e, unlinked, j, Tail(s), x)
  <2>1. SUFFICES ASSUME j \notin unlinked, PathField(e, <<j>>) # <<>> PROVE NameOf(e, j) # <<>>
    BY Zenon DEF Titled
  <2>2. PathField(db, <<j>>) # <<>>
    BY <1>3, <2>1, Zenon DEF PathsKept
  <2>3. NameOf(db, j) # <<>> \/ Awaits(s, id[t], j)
    BY <1>1, <2>1, <2>2, Zenon DEF Titled
  <2>4. Awaits(s, id[t], j) => f = <<j>> /\ c = "name"
    <3>1. <<j>> # <<Null>>
      BY OneTexts, IdFacts
    <3> QED  BY <3>1, Zenon DEF Awaits
  <2>5. NameOf(Set(db, f, <<c>>, <<v>>), j) # <<>>
    BY <1>2, <2>3, <2>4, NamesStay
  <2> QED  BY <2>5, Zenon
<1> QED  BY <1>3, <1>4, <1>5, <1>6

LEMMA SetFiled ==
    ASSUME FilesInv, Steady, Serial, Filed, NEW t \in Threads, SetVal(t)
    PROVE  Filed'
<1>1. PICK call, c, v : call = Head(todo[t]) /\ c = call[2] /\ v = call[3]
  OBVIOUS
<1>2. /\ Proceed(t, "set", <<>>) /\ disk' = disk
      /\ IF id[t] = <<Null>> THEN NewEntity(t, c, v)
         ELSE db' = Set(db, id[t], <<c>>, <<v>>) /\ next' = next
  BY <1>1, Zenon DEF SetVal
<1>3. PICK more : more = <<>>
  OBVIOUS
<1>4. more \in Seq(Calls) /\ Proceed(t, "set", more)
  BY <1>2, <1>3
<1>5. /\ call \in Calls /\ call[1] = "set" /\ CallOK(call) /\ Turn(t, "set", more)
      /\ todo'[t] = <<>> \/ id'[t] = id[t]
  BY <1>1, <1>2, <1>3, <1>4, LastParts, ProceedParts, Zenon
<1>6. c \in Tokens /\ v \in Tokens /\ c \notin TokensOf(Ids)
  <2>1. call \in SetCalls
    BY <1>5, CallParts
  <2>2. call[2] \in Tokens /\ call[3] \in Tokens
    BY <2>1 DEF SetCalls
  <2> QED  BY <1>1, <1>5, <2>2 DEF CallOK
<1>7. PICK s : s = todo[t]
  OBVIOUS
<1>8. /\ todo'[t] = Tail(s) /\ overlaps' = overlaps
      /\ \A u \in Threads \ {t} : todo'[u] = todo[u]
      /\ s \in Seq(Calls) /\ s # <<>>
  BY <1>3, <1>4, <1>5, <1>7, TurnRest
<1>9. unlinked' = unlinked /\ stray' = stray
  BY <1>5 DEF Turn
<1>10. PICK x : x = id'[t]
  OBVIOUS
<1>11. Tail(s) # <<>> => x = id[t]
  BY <1>5, <1>8, <1>10, Zenon
<1>12. Head(s)[1] = "set" /\ c = Head(s)[2] /\ v = Head(s)[3]
  BY <1>1, <1>5, <1>7
<1>13. next \in Nat
  BY SteadyParts
<1>14. ASSUME overlaps = 0
       PROVE  /\ OnePath(db') /\ Unread(db', next') /\ Phase(db', unlinked, Tail(s), x)
              /\ \A j \in TokensOf(Ids) : Titled(db', unlinked, j, Tail(s), x)
              /\ ~stray => OnDisk(db', disk, unlinked)
  <2>1. /\ OnePath(db) /\ Unread(db, next) /\ Phase(db, unlinked, s, id[t])
        /\ \A j \in TokensOf(Ids) : Titled(db, unlinked, j, s, id[t])
        /\ ~stray => OnDisk(db, disk, unlinked)
    BY <1>7, <1>8, <1>14, BusyParts
  <2>2. CASE c = "file_path"
    <3>1. PICK e : e = Set(db, id[t], <<"file_path">>, <<v>>)
      OBVIOUS
    <3>2. Head(s)[2] = "file_path"
      BY <1>12, <2>2, Zenon
    <3>3. /\ OnePath(e) /\ Unread(e, next) /\ id[t] # <<Null>>
          /\ Phase(e, unlinked, Tail(s), x)
          /\ \A j \in TokensOf(Ids) :
                PathField(db, <<j>>) # PathField(e, <<j>>) => NameOf(e, j) # <<>>
          /\ \A j \in TokensOf(Ids) : NameOf(db, j) # <<>> => NameOf(e, j) # <<>>
          /\ OnDisk(db, disk, unlinked) => OnDisk(e, disk, unlinked)
      <4>1. /\ s = todo[t] /\ s \in Seq(Calls) /\ s # <<>> /\ Head(s)[1] = "set"
            /\ Head(s)[2] = "file_path" /\ Phase(db, unlinked, s, id[t]) /\ v = Head(s)[3]
            /\ OnePath(db) /\ Unread(db, next)
        BY <1>7, <1>8, <1>12, <2>1, <3>2, Zenon
      <4> QED  BY <3>1, <4>1, PathPhase, Zenon
    <3>4. db' = e /\ next' = next
      BY <1>2, <2>2, <3>1, <3>3, Zenon
    <3>5. \A j : ~Awaits(s, id[t], j)
      BY <3>2 DEF Awaits
    <3>6. \A j \in TokensOf(Ids) : Titled(e, unlinked, j, Tail(s), x)
      BY <2>1, <3>3, <3>5, Zenon DEF Titled
    <3> QED  BY <2>1, <3>3, <3>4, <3>6, Zenon
  <2>3. CASE c # "file_path" /\ id[t] # <<Null>>
    <3>1. PICK f, e : f = id[t] /\ e = Set(db, f, <<c>>, <<v>>)
      OBVIOUS
    <3>2. f \in Stored /\ TokensOf(f) \subseteq IdTokens
      BY <3>1, InvParts, SteadyParts
    <3>3. next >= next
      BY <1>13
    <3>4. /\ OnePath(e) /\ Unread(e, next) /\ Phase(e, unlinked, Tail(s), x)
          /\ \A j \in TokensOf(Ids) : Titled(e, unlinked, j, Tail(s), x)
          /\ ~stray => OnDisk(e, disk, unlinked)
      BY <1>6, <1>7, <1>8, <1>11, <1>12, <1>13, <1>14, <2>3, <3>1, <3>2, <3>3, OtherFiled
    <3>5. db' = e /\ next' = next
      BY <1>2, <2>3, <3>1, Zenon
    <3> QED  BY <3>4, <3>5, Zenon
  <2>4. CASE c # "file_path" /\ id[t] = <<Null>>
    <3>1. PICK i : i = Ids[next]
      OBVIOUS
    <3>2. PICK f, e : f = <<i>> /\ e = Set(db, f, <<c>>, <<v>>)
      OBVIOUS
    <3>3. next <= Len(Ids) /\ db' = e /\ next' = next + 1
      BY <1>2, <2>4, <3>1, <3>2, Zenon DEF NewEntity
    <3>4. i \in TokensOf(Ids) /\ f \in Stored /\ TokensOf(f) = {i}
      BY <3>1, <3>2, <3>3, NewId, Zenon
    <3>5. TokensOf(f) \subseteq IdTokens
      BY <3>4 DEF IdTokens
    <3>6. next' \in Nat /\ next' >= next
      BY <1>13, <3>3
    <3>7. PICK k : k = next'
      OBVIOUS
    <3>8. /\ OnePath(e) /\ Unread(e, k) /\ Phase(e, unlinked, Tail(s), x)
          /\ \A j \in TokensOf(Ids) : Titled(e, unlinked, j, Tail(s), x)
          /\ ~stray => OnDisk(e, disk, unlinked)
      BY <1>6, <1>7, <1>8, <1>11, <1>12, <1>14, <2>4, <3>2, <3>4, <3>5, <3>6, <3>7, OtherFiled
    <3> QED  BY <3>3, <3>7, <3>8, Zenon
  <2> QED  BY <2>2, <2>3, <2>4
<1>15. overlaps = 0 =>
          /\ OnePath(db') /\ Unread(db', next') /\ Phase(db', unlinked', todo'[t], id'[t])
          /\ \A j \in TokensOf(Ids) : Titled(db', unlinked', j, todo'[t], id'[t])
          /\ ~stray' => OnDisk(db', disk', unlinked')
  BY <1>2, <1>8, <1>9, <1>10, <1>14, Zenon
<1> QED  BY <1>7, <1>8, <1>15, BusyStep

\* A removal, by xmp_unlink or of the old name by xmp_rename.
LEMMA RemoveFiled ==
    ASSUME FilesInv, Steady, Serial, Filed, NEW t \in Threads, RemoveVal(t)
    PROVE  Filed'
<1>1. PICK call, c, v, f : call = Head(todo[t]) /\ c = call[2] /\ v = call[3] /\ f = id[t]
  OBVIOUS
<1>2. Proceed(t, "remove", <<>>) /\ db' = Remove(db, f, <<c>>, <<v>>) /\ next' = next /\ disk' = disk
  BY <1>1, Zenon DEF RemoveVal
<1>3. PICK more : more = <<>>
  OBVIOUS
<1>4. more \in Seq(Calls) /\ Proceed(t, "remove", more)
  BY <1>2, <1>3
<1>5. /\ call \in Calls /\ call[1] = "remove" /\ CallOK(call) /\ Turn(t, "remove", more)
      /\ todo'[t] = <<>> \/ id'[t] = id[t]
  BY <1>1, <1>2, <1>3, <1>4, LastParts, ProceedParts, Zenon
<1>6. c \in Tokens /\ v \in Tokens /\ c \in {"name", "attrs"}
  <2>1. call \in {"remove"} \X Tokens \X Tokens
    BY <1>5, CallParts
  <2>2. call[2] \in Tokens /\ call[3] \in Tokens
    BY <2>1
  <2> QED  BY <1>1, <1>5, <2>2 DEF CallOK
<1>7. PICK s : s = todo[t]
  OBVIOUS
<1>8. /\ todo'[t] = Tail(s) /\ overlaps' = overlaps
      /\ \A u \in Threads \ {t} : todo'[u] = todo[u]
      /\ s \in Seq(Calls) /\ s # <<>>
  BY <1>3, <1>4, <1>5, <1>7, TurnRest
<1>9. unlinked' = unlinked /\ stray' = stray
  BY <1>5 DEF Turn
<1>10. PICK x, e : x = id'[t] /\ e = Remove(db, f, <<c>>, <<v>>)
  OBVIOUS
<1>11. /\ f \in Stored /\ TokensOf(f) \subseteq IdTokens /\ "name" \notin TokensOf(f)
       /\ db \in Indexes /\ next \in Nat \ {0} /\ next >= next /\ c \notin TokensOf(Ids)
  BY <1>1, <1>6, InvParts, SteadyParts, IdFacts
<1>12. Head(s)[1] = "remove" /\ c = Head(s)[2] /\ v = Head(s)[3]
  BY <1>1, <1>5, <1>7
<1>13. ASSUME overlaps = 0
       PROVE  /\ OnePath(e) /\ Unread(e, next) /\ Phase(e, unlinked, Tail(s), x)
              /\ \A j \in TokensOf(Ids) : Titled(e, unlinked, j, Tail(s), x)
              /\ ~stray => OnDisk(e, disk, unlinked)
  <2>1. /\ OnePath(db) /\ Unread(db, next) /\ Phase(db, unlinked, s, f)
        /\ \A j \in TokensOf(Ids) : Titled(db, unlinked, j, s, f)
        /\ ~stray => OnDisk(db, disk, unlinked)
    BY <1>1, <1>7, <1>8, <1>13, BusyParts
  <2>2. OnePath(e) /\ PathsKept(db, e)
    <3>1. OnePath(Remove(db, f, <<c>>, <<v>>)) /\ PathsKept(db, Remove(db, f, <<c>>, <<v>>))
      BY <1>6, <1>11, <2>1, RemovalPaths
    <3> QED  BY <1>10, <3>1, Zenon
  <2>3. Unread(e, next) /\ (~stray => OnDisk(e, disk, unlinked))
    BY <1>11, <2>1, <2>2, SamePaths, Zenon
  <2>4. ASSUME NEW j \in TokensOf(Ids), j \notin unlinked, PathField(e, <<j>>) # <<>>
        PROVE  NameOf(db, j) # <<>>
    <3>1. PathField(db, <<j>>) # <<>>
      BY <2>2, <2>4, Zenon DEF PathsKept
    <3>2. ~Awaits(s, f, j)
      BY <1>12 DEF Awaits
    <3> QED  BY <2>1, <2>4, <3>1, <3>2, Zenon DEF Titled
  <2>5. ASSUME NEW j \in TokensOf(Ids), f # <<j>> PROVE NameOf(e, j) = NameOf(db, j)
    <3>1. NameOf(Remove(db, f, <<c>>, <<v>>), j) = NameOf(db, j)
      BY <1>6, <1>11, <2>5, OthersNames
    <3> QED  BY <1>10, <3>1, Zenon
  <2>6. CASE Unlinking(db, unlinked, s, f)
    <3>1. TokensOf(s) = {Head(s)} \cup TokensOf(Tail(s))
      BY <1>8, TailTokens
    <3>2. \A n : TokensOf(NameField(e, n)) \subseteq TokensOf(NameField(db, n)) \cup {Null, Empty}
      <4> TAKE n
      <4>1. TokensOf(NameField(Remove(db, f, <<c>>, <<v>>), n))
                \subseteq TokensOf(NameField(db, n)) \cup {Null, Empty}
        BY <1>6, <1>11, RemoveName
      <4> QED  BY <1>10, <4>1, Zenon
    <3>3. \A k \in TokensOf(Tail(s)) : k[1] \in {"remove", "unlink", "delete"}
      BY <2>6, <3>1 DEF Unlinking
    <3>4. ASSUME NEW k \in TokensOf(Tail(s)), k[1] = "delete"
          PROVE  TokensOf(NameField(e, k[2])) \subseteq unlinked \cup {Empty, Null}
      <4>1. TokensOf(NameField(db, k[2])) \subseteq unlinked \cup {Empty, Null}
        BY <2>6, <3>1, <3>4 DEF Unlinking
      <4> QED  BY <3>2, <4>1
    <3>5. Tail(s) # <<>> => Unlinking(e, unlinked, Tail(s), x)
      <4>1. TokensOf(f) \subseteq unlinked
        BY <2>6, Zenon DEF Unlinking
      <4>2. Tail(s) # <<>> => x = f
        BY <1>1, <1>5, <1>8, <1>10, Zenon
      <4> QED  BY <3>3, <3>4, <4>1, <4>2, Zenon DEF Unlinking
    <3>6. Phase(e, unlinked, Tail(s), x)
      BY <3>5, Zenon DEF Phase
    <3>7. \A j \in TokensOf(Ids) : j \notin unlinked => f # <<j>>
      <4> TAKE j \in TokensOf(Ids)
      <4>1. TokensOf(<<j>>) = {j} /\ TokensOf(f) \subseteq unlinked
        BY <2>6, OneTexts DEF Unlinking
      <4> QED  BY <4>1
    <3>8. \A j \in TokensOf(Ids) : Titled(e, unlinked, j, Tail(s), x)
      BY <2>4, <2>5, <3>7, Zenon DEF Titled
    <3> QED  BY <2>2, <2>3, <3>6, <3>8
  <2>7. CASE \E n, m \in Files, dir \in Dirs :
                 /\ s = <<<<"remove", "name", n>>, <<"set", "name", m>>, <<"locate", n, dir, m>>>>
                 /\ n # m /\ f = GetVal(NameField(db, n))
    <3>1. PICK n, m \in Files, dir \in Dirs :
              /\ s = <<<<"remove", "name", n>>, <<"set", "name", m>>, <<"locate", n, dir, m>>>>
              /\ n # m /\ f = GetVal(NameField(db, n))
      BY <2>7, Zenon
    <3>2. PICK a, b, d : /\ a = <<"remove", "name", n>> /\ b = <<"set", "name", m>>
                         /\ d = <<"locate", n, dir, m>>
      OBVIOUS
    <3>3. s = <<a, b, d>>
      BY <3>1, <3>2, Zenon
    <3>4. Head(s) = a /\ Tail(s) = <<b, d>>
      BY <3>3
    <3>5. c = "name" /\ v = n
      BY <1>12, <3>2, <3>4
    <3>6. Gone(e, n)
      <4>1. NameField(Remove(db, f, <<"name">>, <<v>>), v) = EraseFrom(GetVal(NameField(db, v)), f)
        BY <1>6, <1>11, TakenField
      <4>2. EraseFrom(f, f) = <<Empty>>
        BY <1>11, EraseSelf
      <4>3. NameField(e, n) = EraseFrom(GetVal(NameField(db, n)), f)
        BY <1>10, <3>5, <4>1, Zenon
      <4> QED  BY <3>1, <4>2, <4>3, Zenon DEF Gone
    <3>7. Renaming(e, Tail(s), x)
      BY <3>1, <3>2, <3>4, <3>6, Zenon DEF Renaming
    <3>8. Phase(e, unlinked, Tail(s), x)
      BY <3>7, Zenon DEF Phase
    <3>9. Tail(s) # <<>> /\ Head(Tail(s)) = b /\ b[1] = "set" /\ b[2] = "name"
      BY <3>2, <3>4, OneTwoCalls
    <3>10. x = f
      BY <1>1, <1>5, <1>8, <1>10, <3>9, Zenon
    <3>11. \A j : f = <<j>> => Awaits(Tail(s), x, j)
      BY <3>9, <3>10, Zenon DEF Awaits
    <3>12. \A j \in TokensOf(Ids) : Titled(e, unlinked, j, Tail(s), x)
      BY <2>4, <2>5, <3>11, Zenon DEF Titled
    <3> QED  BY <2>2, <2>3, <3>8, <3>12
  <2>8. \/ Unlinking(db, unlinked, s, f)
        \/ \E n, m \in Files, dir \in Dirs :
              /\ s = <<<<"remove", "name", n>>, <<"set", "name", m>>, <<"locate", n, dir, m>>>>
              /\ n # m /\ f = GetVal(NameField(db, n))
    BY <1>8, <1>12, <2>1, PhaseParts
  <2> QED  BY <2>6, <2>7, <2>8
<1>14. overlaps = 0 =>
          /\ OnePath(db') /\ Unread(db', next') /\ Phase(db', unlinked', todo'[t], id'[t])
          /\ \A j \in TokensOf(Ids) : Titled(db', unlinked', j, todo'[t], id'[t])
          /\ ~stray' => OnDisk(db', disk', unlinked')
  BY <1>2, <1>8, <1>9, <1>10, <1>13, Zenon
<1> QED  BY <1>7, <1>8, <1>14, BusyStep
-------------------------------------------------------------------------------
(***************************************************************************)
(* Filed is kept by the operations as they start.                          *)
(***************************************************************************)
\* An arrival is to give its path to an entity it is still to make.
LEMMA ReceiveFiled ==
    ASSUME FilesInv, Filed, NEW t \in Threads, NEW n \in Files, Receive(t, n)
    PROVE  Filed'
<1> DEFINE c1 == <<"make", "name", n>>
           c2 == <<"set", "ext", Type[n]>>
           c3 == <<"set", "server", "test1">>
           c4 == <<"set", "location", "test2">>
           c5 == <<"set", "file_path", n>>
           c6 == <<"set", "experiment_id", Experiment>>
           c7 == <<"process", n>>
<1>1. \A c \in {c1, c2, c3, c4, c6, c7} : Plain(c)
  <2>1. \A c \in {c1, c2, c3, c4, c6, c7} :
            /\ c[1] \notin {"remove", "unlink", "delete", "locate", "move"}
            /\ ~(c[1] = "set" /\ c[2] = "file_path")
    OBVIOUS
  <2> HIDE DEF c1, c2, c3, c4, c6, c7
  <2> QED  BY <2>1 DEF Plain, GivesPath
<1>2. GivesPath(c5) /\ c5[3] \in Files
  BY DEF GivesPath
<1>3. /\ \A c \in {c1, c2, c3, c4} : c[1] \in {"make", "set"}
      /\ \A c \in {c2, c3, c4, c6, c7} : c[1] # "make"
      /\ c1[1] = "make"
  OBVIOUS
<1>4. PICK calls, fileid : calls = <<c1, c2, c3, c4, c5, c6, c7>> /\ fileid = <<Null>>
  OBVIOUS
<1>5. /\ Start(t, fileid, calls) /\ unlinked' = unlinked /\ stray' = stray
      /\ disk' = [p \in DOMAIN disk \cup {n} |-> IF p \in DOMAIN disk THEN disk[p] ELSE n]
  BY <1>4, Zenon DEF Receive
<1> HIDE DEF c1, c2, c3, c4, c5, c6, c7
<1>6. /\ DOMAIN calls = 1..7 /\ calls[1] = c1 /\ calls[2] = c2 /\ calls[3] = c3 /\ calls[4] = c4
      /\ calls[5] = c5 /\ calls[6] = c6 /\ calls[7] = c7 /\ Head(calls) = c1
  BY <1>4
<1>7. ArrivalCalls(calls)
  <2>1. 5 \in DOMAIN calls
    BY <1>6
  <2>2. ASSUME NEW j \in DOMAIN calls, j # 5
        PROVE  /\ Plain(calls[j])
               /\ j < 5 => calls[j][1] \in {"make", "set"}
               /\ j > 1 => calls[j][1] # "make"
    <3>1. /\ j \in {1, 2, 3, 4, 6, 7}
          /\ j < 5 => j \in {1, 2, 3, 4}
          /\ j > 1 => j \in {2, 3, 4, 6, 7}
      BY <1>6, <2>2
    <3>2. /\ calls[j] \in {c1, c2, c3, c4, c6, c7}
          /\ j < 5 => calls[j] \in {c1, c2, c3, c4}
          /\ j > 1 => calls[j] \in {c2, c3, c4, c6, c7}
      BY <1>6, <3>1
    <3> QED  BY <1>1, <1>3, <3>2
  <2> QED  BY <1>2, <1>6, <2>1, <2>2, Zenon DEF ArrivalCalls
<1>8. Phase(db, unlinked', calls, fileid)
  BY <1>3, <1>6, <1>7, Zenon DEF Phase
<1>9. /\ Null \notin DOMAIN disk => Null \notin DOMAIN disk'
      /\ \A p \in Files : p \in DOMAIN disk => p \in DOMAIN disk' /\ disk'[p] = disk[p]
  <2>1. Null \notin Files
    BY FilesAssumption
  <2> QED  BY <1>5, <2>1
<1> QED  BY <1>5, <1>8, <1>9, FiledStart

\* An operation that writes no path and takes no name.
LEMMA PlainStart ==
    ASSUME FilesInv, Filed, NEW t \in Threads, NEW fileid, NEW calls, Start(t, fileid, calls),
           AllPlain(calls), UNCHANGED <<disk, unlinked, stray>>
    PROVE  Filed'
<1>1. Phase(db, unlinked', calls, fileid)
  BY Zenon DEF Phase
<1>2. unlinked \subseteq unlinked' /\ disk' = disk /\ stray' = stray
  OBVIOUS
<1> QED  BY <1>1, <1>2, FiledStart

LEMMA CreateFiled ==
    ASSUME FilesInv, Filed, NEW t \in Threads, NEW dir \in Dirs, NEW n \in Files, Create(t, dir, n)
    PROVE  Filed'
<1> DEFINE c1 == <<"make", "name", n>>
           c2 == <<"set", "server", Server>>
           c3 == <<"set", "ext", Type[n]>>
           c4 == <<"process", Empty>>
           c5 == <<"map", dir, n>>
           Used == {c1, c2, c3, c4, c5}
<1>1. \A c \in Used : Plain(c)
  <2>1. \A c \in Used : /\ c[1] \notin {"remove", "unlink", "delete", "locate", "move"}
                        /\ ~(c[1] = "set" /\ c[2] = "file_path")
    OBVIOUS
  <2> HIDE DEF c1, c2, c3, c4, c5
  <2> QED  BY <2>1 DEF Plain, GivesPath
<1>2. PICK fileid : fileid = Lookup(<<"name">>, <<n>>)
  OBVIOUS
<1>3. PICK a, b : a = (IF fileid = <<Null>> THEN <<c1, c2, c3>> ELSE <<>>) /\ b = <<c4, c5>>
  OBVIOUS
<1>4. PICK calls : calls = a \o b
  OBVIOUS
<1>5. Start(t, fileid, calls) /\ UNCHANGED <<disk, unlinked, stray>>
  BY <1>2, <1>3, <1>4, Zenon DEF Create
<1>6. c1 \in Used /\ c2 \in Used /\ c3 \in Used /\ c4 \in Used /\ c5 \in Used
  OBVIOUS
<1> HIDE DEF c1, c2, c3, c4, c5, Used
<1>7. a \in Seq(Used) /\ b \in Seq(Used)
  BY <1>3, <1>6
<1>8. calls \in Seq(Used)
  BY <1>4, <1>7, ConcatProperties
<1>9. \A i \in DOMAIN calls : calls[i] \in Used
  BY <1>8, LenProperties, ElementOfSeq
<1>10. AllPlain(calls)
  BY <1>1, <1>9 DEF AllPlain, TokensOf
<1> QED  BY <1>5, <1>10, PlainStart

LEMMA FlushStartFiled ==
    ASSUME FilesInv, Filed, NEW t \in Threads, NEW n \in Files, Flush(t, n)
    PROVE  Filed'
<1>1. PICK fileid, c : fileid = Lookup(<<"name">>, <<n>>) /\ c = <<"flush">>
  OBVIOUS
<1>2. PICK calls : calls = <<c>>
  OBVIOUS
<1>3. Start(t, fileid, calls) /\ UNCHANGED <<disk, unlinked, stray>>
  BY <1>1, <1>2, Zenon DEF Flush
<1>4. c[1] = "flush"
  BY <1>1
<1>5. TokensOf(calls) = {c}
  BY <1>2, OneTwoCalls
<1>6. AllPlain(calls)
  BY <1>4, <1>5 DEF AllPlain, Plain, GivesPath
<1> QED  BY <1>3, <1>6, PlainStart

\* The ids that xmp_unlink is called for count as unlinked from the start.
LEMMA UnlinkStartFiled ==
    ASSUME FilesInv, Filed, NEW t \in Threads, NEW n \in Files, Unlink(t, n)
    PROVE  Filed'
<1>1. PICK fileid, x, y : /\ fileid = Lookup(<<"name">>, <<n>>)
                          /\ x = <<"unlink", n>> /\ y = <<"delete", n>>
  OBVIOUS
<1>2. PICK calls : calls = <<x, y>>
  OBVIOUS
<1>3. /\ Start(t, fileid, calls) /\ disk' = disk /\ stray' = stray
      /\ unlinked' = unlinked \cup TokensOf(fileid)
  BY <1>1, <1>2, Zenon DEF Unlink
<1>4. x[1] = "unlink" /\ y[1] = "delete" /\ y[2] = n
  BY <1>1
<1>5. TokensOf(calls) = {x, y}
  BY <1>2, OneTwoCalls
<1>6. PICK s : s = NameField(db, n)
  OBVIOUS
<1>7. s \in Text /\ fileid = GetVal(s)
  BY <1>1, <1>6, AtText, InvParts, LookupNames DEF NameField
<1>8. TokensOf(s) \subseteq unlinked' \cup {Empty, Null}
  <2>1. \A u : u \notin {Empty, Null} => (u \in TokensOf(GetVal(s)) <=> u \in TokensOf(s))
    BY <1>7, GetValToken
  <2> QED  BY <1>3, <1>7, <2>1
<1>9. Unlinking(db, unlinked', calls, fileid)
  <2>1. TokensOf(fileid) \subseteq unlinked'
    BY <1>3
  <2> QED  BY <1>4, <1>5, <1>6, <1>8, <2>1 DEF Unlinking
<1>10. Phase(db, unlinked', calls, fileid)
  BY <1>9, Zenon DEF Phase
<1>11. unlinked \subseteq unlinked'
  BY <1>3
<1> QED  BY <1>3, <1>10, <1>11, FiledStart

LEMMA RenameFiled ==
    ASSUME FilesInv, Filed, NEW t \in Threads, NEW dir \in Dirs, NEW n \in Files, NEW m \in Files,
           Rename(t, n, dir, m)
    PROVE  Filed'
<1>1. PICK fileid, calls : /\ fileid = Lookup(<<"name">>, <<n>>)
                           /\ calls = <<<<"remove", "name", n>>, <<"set", "name", m>>,
                                        <<"locate", n, dir, m>>>>
  OBVIOUS
<1>2. Start(t, fileid, calls) /\ n # m /\ unlinked' = unlinked /\ disk' = disk /\ stray' = stray
  BY <1>1, Zenon DEF Rename
<1>3. fileid = GetVal(NameField(db, n))
  BY <1>1, LookupNames
<1>4. Renaming(db, calls, fileid)
  BY <1>1, <1>2, <1>3, Zenon DEF Renaming
<1>5. Phase(db, unlinked', calls, fileid)
  BY <1>4, Zenon DEF Phase
<1>6. unlinked \subseteq unlinked'
  BY <1>2
<1> QED  BY <1>2, <1>5, <1>6, FiledStart

LEMMA PutOnDiskFiled ==
    ASSUME FilesInv, Filed, NEW t \in Threads, NEW path, NEW inode, PutOnDisk(t, path, inode)
    PROVE  Filed'
<1>1. PICK fileid, calls : fileid = id[t] /\ calls = <<>>
  OBVIOUS
<1>2. /\ Start(t, fileid, calls) /\ unlinked' = unlinked
      /\ stray' = (stray \/ Null \in DOMAIN disk')
      /\ disk' = IF path \in Paths \ DOMAIN disk
                 THEN [p \in DOMAIN disk \cup {path} |-> IF p = path THEN inode ELSE disk[p]]
                 ELSE disk
  BY <1>1, Zenon DEF PutOnDisk
<1>3. Phase(db, unlinked', calls, fileid)
  BY <1>1, Zenon DEF Phase
<1>4. unlinked \subseteq unlinked'
  BY <1>2
<1>5. ~stray' => ~stray /\ Null \notin DOMAIN disk'
  BY <1>2, Zenon
<1>6. \A p \in Files : p \in DOMAIN disk => p \in DOMAIN disk' /\ disk'[p] = disk[p]
  BY <1>2
<1> QED  BY <1>2, <1>3, <1>4, <1>5, <1>6, FiledStart

LEMMA StartFiled ==
    ASSUME FilesInv, Filed, NEW t \in Threads, NEW n \in Files,
           \/ Receive(t, n) \/ Flush(t, n) \/ Unlink(t, n) \/ Mknod(t, n)
           \/ \E dir \in Dirs :
               \/ Create(t, dir, n)
               \/ \E m \in Files : Rename(t, n, dir, m)
           \/ \E m \in Files : Link(t, n, m)
    PROVE  Filed'
<1>1. CASE Receive(t, n) \/ Flush(t, n) \/ Unlink(t, n)
  BY <1>1, ReceiveFiled, FlushStartFiled, UnlinkStartFiled, Zenon
<1>2. CASE Mknod(t, n) \/ \E m \in Files : Link(t, n, m)
  <2>1. PICK path, inode : PutOnDisk(t, path, inode)
    BY <1>2, Zenon DEF Mknod, Link
  <2> QED  BY <2>1, PutOnDiskFiled
<1>3. CASE \E dir \in Dirs : Create(t, dir, n)
  BY <1>3, CreateFiled, Zenon
<1>4. CASE \E dir \in Dirs : \E m \in Files : Rename(t, n, dir, m)
  BY <1>4, RenameFiled, Zenon
<1> QED  BY <1>1, <1>2, <1>3, <1>4, Zenon

LEMMA CallFiled ==
    ASSUME FilesInv, Steady, Serial, Filed, NEW t \in Threads, Call(t)
    PROVE  Filed'
BY MakeFiled, SetFiled, RemoveFiled, ProcessFiled, FlushFiled, UnlinkFiled, MapFiled,
   LocateFiled, MoveFiled, DeleteFiled, Zenon DEF Call
-------------------------------------------------------------------------------
(***************************************************************************)
(* ReadInv is inductive, and makes files readable under their current      *)
(* names.                                                                  *)
(***************************************************************************)
ReadInv == NamesInv /\ Filed

LEMMA ReadStep == ReadInv /\ [Next]_vars => ReadInv'
<1> SUFFICES ASSUME ReadInv, [Next]_vars PROVE ReadInv'
  OBVIOUS
<1>1. NamesInv'
  BY NamesStep, Zenon DEF ReadInv
<1>2. FilesInv /\ Steady /\ Serial /\ Filed
  BY Zenon DEF ReadInv, NamesInv
<1>3. CASE Next
  <2>1. PICK t \in Threads :
            \/ \E n \in Files :
                \/ Receive(t, n) \/ Flush(t, n) \/ Unlink(t, n) \/ Mknod(t, n)
                \/ \E dir \in Dirs :
                    \/ Create(t, dir, n)
                    \/ \E m \in Files : Rename(t, n, dir, m)
                \/ \E m \in Files : Link(t, n, m)
            \/ Call(t)
    BY <1>3, Zenon DEF Next
  <2>2. Filed'
    BY <1>2, <2>1, CallFiled, StartFiled, Zenon
  <2> QED  BY <1>1, <2>2, Zenon DEF ReadInv
<1>4. CASE UNCHANGED vars
  <2>1. /\ db' = db /\ disk' = disk /\ next' = next /\ id' = id /\ todo' = todo
        /\ overlaps' = overlaps /\ unlinked' = unlinked /\ stray' = stray
    BY <1>4 DEF vars
  <2>2. Filed'
    BY <1>2, <2>1, Zenon DEF Filed
  <2> QED  BY <1>1, <2>2, Zenon DEF ReadInv
<1> QED  BY <1>3, <1>4

\* The start: no entity has a path.
Pathless == {d \in Indexes : OnePath(d) /\ \A i \in TokensOf(Ids) : PathField(d, <<i>>) = <<>>}

LEMMA PathlessOne ==
    ASSUME NEW d \in Pathless, NEW k \in 1..Len(AttrNames)
    PROVE  Set(d, <<Known>>, <<"attrs">>, <<AttrNames[k]>>) \in Pathless
<1>1. PICK x : x = AttrNames[k]
  OBVIOUS
<1>2. x \in Tokens
  <2>1. AttrNames \in Seq(Tokens)
    BY FilesAssumption DEF AttrNames
  <2> QED  BY <1>1, <2>1, ElementOfSeq
<1>3. PICK f, c, v, P, e : /\ f = <<Known>> /\ c = <<"attrs">> /\ v = <<x>> /\ P = <<"file_path">>
                           /\ e = Set(d, f, c, v)
  OBVIOUS
<1>4. TokensOf(c) = {"attrs"} /\ TokensOf(P) = {"file_path"} /\ c \in Stored /\ v \in Stored /\ f \in Stored
  <2>1. "attrs" \in Tokens /\ Known \in Tokens
    BY FilesAssumption
  <2> QED  BY <1>2, <1>3, <2>1, OneTexts, OneToken, Zenon
<1>5. c # P
  BY <1>4
<1>6. "attrs" \notin IdTokens
  BY NamesAssumption DEF IdTokens, Words
<1>7. \A h, q : ~(h = f /\ q = c) /\ ~(h = c /\ q = v) => At(e, h, q) = At(d, h, q)
  <2>1. \A h, q : ~(h = f /\ q = c) /\ ~(h = c /\ q = v) =>
            At(Set(d, f, c, v), h, q) = At(d, h, q)
    BY SetAt
  <2> QED  BY <1>3, <2>1, Zenon
<1>8. d \in Indexes /\ OnePath(d) /\ \A i \in TokensOf(Ids) : PathField(d, <<i>>) = <<>>
  BY DEF Pathless
<1>9. e \in Indexes
  BY <1>3, <1>4, <1>8, SetIndex
<1>10. \A h : TokensOf(h) \subseteq IdTokens => PathField(e, h) = PathField(d, h)
  <2> TAKE h
  <2> HAVE TokensOf(h) \subseteq IdTokens
  <2>1. h # c
    BY <1>4, <1>6
  <2> QED  BY <1>3, <1>5, <1>7, <2>1, Zenon DEF PathField
<1>11. \A i \in TokensOf(Ids) : PathField(e, <<i>>) = <<>>
  <2> TAKE i \in TokensOf(Ids)
  <2>1. TokensOf(<<i>>) = {i}
    BY OneTexts
  <2>2. TokensOf(<<i>>) \subseteq IdTokens
    BY <2>1 DEF IdTokens
  <2> QED  BY <1>8, <1>10, <2>2, Zenon
<1>12. \A q : At(e, P, q) # <<>> => q = c \/ At(d, P, q) # <<>>
  BY <1>5, <1>7, Zenon
<1>13. ASSUME NEW q, At(e, P, q) # <<>> PROVE TokensOf(q) \subseteq Files \cup {"attrs"}
  <2>1. CASE q = c
    BY <1>4, <2>1
  <2>2. CASE At(d, P, q) # <<>>
    BY <1>3, <1>8, <2>2, Zenon DEF OnePath
  <2> QED  BY <1>12, <1>13, <2>1, <2>2
<1>14. OnePath(e)
  <2>1. \A i \in TokensOf(Ids) : PathField(e, <<i>>) \in {<<>>} \cup {<<p>> : p \in Files}
    BY <1>11
  <2>2. ASSUME NEW h, TokensOf(h) \subseteq IdTokens, \A i \in TokensOf(Ids) : h # <<i>>
        PROVE  TokensOf(PathField(e, h)) \cap Files = {}
    <3>1. TokensOf(PathField(d, h)) \cap Files = {}
      BY <1>8, <2>2, Zenon DEF OnePath
    <3> QED  BY <1>10, <2>2, <3>1, Zenon
  <2> QED  BY <1>3, <1>13, <2>1, <2>2, Zenon DEF OnePath
<1>15. e \in Pathless
  BY <1>9, <1>11, <1>14 DEF Pathless
<1> QED  BY <1>1, <1>3, <1>15, Zenon

LEMMA PathlessStart == << >> \in Pathless
<1>1. PICK d, z : d = << >> /\ z = <<>>
  OBVIOUS
<1>2. d \in Indexes
  BY <1>1, NothingStored DEF Unnamed
<1>3. DOMAIN d = {} /\ TokensOf(z) = {}
  BY <1>1 DEF TokensOf
<1>4. \A h, k : At(d, h, k) = z
  BY <1>1, <1>3 DEF At
<1>5. \A h : PathField(d, h) = z
  BY <1>4, Zenon DEF PathField
<1>6. OnePath(d)
  <2>1. \A i \in TokensOf(Ids) : PathField(d, <<i>>) \in {<<>>} \cup {<<p>> : p \in Files}
    BY <1>1, <1>5
  <2>2. \A h : TokensOf(PathField(d, h)) \cap Files = {}
    BY <1>3, <1>5
  <2>3. \A k : At(d, <<"file_path">>, k) = <<>>
    BY <1>1, <1>4, Zenon
  <2> QED  BY <2>1, <2>2, <2>3, Zenon DEF OnePath
<1>7. d \in Pathless
  BY <1>1, <1>2, <1>5, <1>6 DEF Pathless
<1> QED  BY <1>1, <1>7, Zenon

LEMMA InitReadInv == Init => ReadInv
<1> SUFFICES ASSUME Init PROVE ReadInv
  OBVIOUS
<1>1. db \in Pathless
  <2>1. \A i \in 1..Len(AttrNames), d \in Pathless :
            Set(d, <<Known>>, <<"attrs">>, <<AttrNames[i]>>) \in Pathless
    BY PathlessOne
  <2> QED  BY <2>1, PathlessStart, Loaded
<1>2. OnePath(db) /\ \A i \in TokensOf(Ids) : PathField(db, <<i>>) = <<>>
  BY <1>1 DEF Pathless
<1>3. next = 1 /\ disk = [p \in Files |-> p] /\ \A t \in Threads : todo[t] = <<>>
  BY DEF Init
<1>4. Unread(db, next)
  <2>1. \A k \in 1..Len(Ids) : Ids[k] \in TokensOf(Ids)
    <3>1. DOMAIN Ids = 1..Len(Ids)
      BY FilesAssumption, LenProperties
    <3> QED  BY <3>1 DEF TokensOf
  <2> QED  BY <1>2, <1>3, <2>1, Zenon DEF Unread
<1>5. \A t \in Threads : Phase(db, unlinked, todo[t], id[t])
  BY <1>3, Zenon DEF Phase
<1>6. OnDisk(db, disk, unlinked)
  <2>1. Null \notin Files
    BY FilesAssumption
  <2> QED  BY <1>3, <2>1 DEF OnDisk
<1>7. Filed
  BY <1>2, <1>4, <1>5, <1>6, Zenon DEF Filed
<1> QED  BY <1>7, InitNamesInv, Zenon DEF ReadInv

LEMMA PathReached ==
    ASSUME ReadInv, Quiet, overlaps = 0, ~stray, NEW i \in TokensOf(Ids) \ mixed,
           named[i] \in Clear, NEW path, path = PathField(db, <<i>>), path # <<>>,
           \A j \in TokensOf(Ids) : PathField(db, <<j>>) = path => j \notin unlinked
    PROVE  Reached(named[i]) = path[1]
<1>1. /\ OnePath(db) /\ OnDisk(db, disk, unlinked)
      /\ \A j \in TokensOf(Ids) : j \notin unlinked /\ PathField(db, <<j>>) # <<>> =>
            NameOf(db, j) # <<>> \/ \E t \in Threads : Awaits(todo[t], id[t], j)
  BY Zenon DEF ReadInv, Filed
<1>2. PICK n : n = named[i]
  OBVIOUS
<1>3. NameOf(db, i) # <<>>
  BY <1>1, Zenon DEF Quiet, Awaits
<1>4. Lookup(<<"name">>, <<n>>) = <<i>>
  <2>1. NamesInv
    BY DEF ReadInv
  <2>2. /\ NameOf(db, i) \in {<<named[i]>>, <<>>}
        /\ \A m \in Files : i \in Holders(m) => m = named[i]
        /\ NameOf(db, i) # <<>> => Lookup(<<"name">>, <<named[i]>>) = <<i>>
    BY <2>1, CurrentName
  <2> QED  BY <1>2, <1>3, <2>2, Zenon
<1>5. PICK p \in Files : path = <<p>>
  BY <1>1, Zenon DEF OnePath
<1>6. p \in Tokens /\ p # Empty
  BY FilesAssumption
<1>7. Lookup(<<i>>, <<"file_path">>) = <<p>>
  <2>1. GetVal(<<p>>) = <<p>>
    BY <1>6, GetValAlone
  <2> QED  BY <1>5, <2>1, Zenon DEF Lookup, PathField
<1>8. Len(path) = 1 /\ path[1] = p
  BY <1>5
<1>9. PathOf(n) = p
  BY <1>4, <1>5, <1>7, <1>8, Zenon DEF PathOf
<1>10. p \in DOMAIN disk /\ disk[p] = p
  BY <1>1, <1>5, Zenon DEF OnDisk
<1> QED  BY <1>2, <1>8, <1>9, <1>10, Zenon DEF Reached

(***************************************************************************)
(* Between operations that do not overlap, what arrived is reached under   *)
(* the current name of its entity until an entity with that path is        *)
(* unlinked or something stands under "null": for any number of threads,   *)
(* files, types, directories and operations.                               *)
(***************************************************************************)
THEOREM KhanFilesReadable == Spec => []Readable
<1>1. ReadInv => Readable
  <2> SUFFICES ASSUME ReadInv, Quiet, overlaps = 0, ~stray, NEW i \in TokensOf(Ids),
                      NEW path, path = At(db, <<i>>, <<"file_path">>), path # <<>>,
                      {j \in TokensOf(Ids) : At(db, <<j>>, <<"file_path">>) = path} \cap unlinked = {},
                      i \notin mixed, named[i] \in Clear
               PROVE  Reached(named[i]) = path[1]
    BY Zenon DEF Readable
  <2>1. path = PathField(db, <<i>>)
    BY Zenon DEF PathField
  <2>2. \A j \in TokensOf(Ids) : PathField(db, <<j>>) = path => j \notin unlinked
    BY DEF PathField
  <2>3. i \in TokensOf(Ids) \ mixed
    OBVIOUS
  <2> QED  BY <2>1, <2>2, <2>3, PathReached
<1> QED  BY <1>1, InitReadInv, ReadStep, PTL DEF Spec
==============================================================================
