----------------------------- MODULE Khan_proofs ------------------------------
(***************************************************************************)
(* What khan does with texts and with the list of directories.  With a     *)
(* single thread content_has always searches the tokens of the text it is  *)
(* given, whatever texts it was called with before; whatever two fields    *)
(* come to hold, the functions that khan_getattr uses agree with those     *)
(* that readdir uses; and the list alldirs keeps what clients make and     *)
(* remove, and localizing loses no file and sends it where it is used, for *)
(* every number of servers, files and operations.                          *)
(***************************************************************************)
EXTENDS ContentCache, KhanListings, Localize, Text_proofs

\* The static string starts out as "" and the static vector as empty: "" has no tokens.
LEMMA SplitOfNothing == Split(<<Empty>>) = <<>>
<1>1. PICK e : e = <<Empty>>
  OBVIOUS
<1>2. e \in Text /\ Len(e) = 1 /\ e[1] = Empty
  BY <1>1, TokensAssumption DEF Text
<1>3. {i \in 1..Len(e) : e[i] \in Tokens \ {Empty}} = {}
  BY <1>2
<1>4. Split(e) \in Text /\ Len(Split(e)) = 0
  <2>1. Len(Kept(e, Tokens \ {Empty})) = Cardinality({i \in 1..Len(e) : e[i] \in Tokens \ {Empty}})
    BY <1>2, KeptLen DEF Text
  <2>2. Len(Split(e)) = 0
    BY <1>3, <2>1, FS_EmptySet, Zenon DEF Split
  <2> QED  BY <1>2, <2>2, SplitTokens
<1>5. Split(e) = <<>>
  BY <1>4, EmptySeq DEF Text
<1> QED  BY <1>1, <1>5, Zenon

LEMMA InitCacheInv ==
    CacheInit => CacheInv
<1>1. Split(<<Empty>>) = <<>> /\ <<>> \in Splits
  BY SplitOfNothing, CacheAssumption DEF Splits
<1> QED
  BY <1>1, CacheAssumption
     DEF CacheInit, CacheInv, CacheTypeOK, InCall, CacheMatches, SearchesOwnText, Steps

LEMMA StepCacheInv ==
    ASSUME Serial, CacheInv, [CacheNext]_cacheVars
    PROVE  CacheInv'
<1>1. ASSUME NEW t \in Threads, NEW s \in Texts, Call(t, s)
      PROVE  CacheInv'
  <2>1. <<>> \in Splits
    BY SplitOfNothing, CacheAssumption DEF Splits
  <2> QED
    BY <1>1, <2>1 DEF Call, Go, Serial, CacheInv, CacheTypeOK, InCall, CacheMatches,
                      SearchesOwnText, Steps
<1>2. ASSUME NEW t \in Threads, Compare(t)
      PROVE  CacheInv'
  BY <1>2 DEF Compare, Go, Serial, CacheInv, CacheTypeOK, InCall, CacheMatches,
              SearchesOwnText, Steps
<1>3. ASSUME NEW t \in Threads, CopyVector(t)
      PROVE  CacheInv'
  <2>1. checks'[t] = Split(vals'[t])
    BY <1>3 DEF CopyVector, Go, Serial, CacheInv, CacheTypeOK, InCall, CacheMatches
  <2> QED
    BY <1>3, <2>1 DEF CopyVector, Go, Serial, CacheInv, CacheTypeOK, InCall,
                      CacheMatches, SearchesOwnText, Steps
<1>4. ASSUME NEW t \in Threads, SetString(t)
      PROVE  CacheInv'
  <2>1. Split(vals[t]) \in Splits
    BY DEF CacheInv, CacheTypeOK, Splits
  <2> QED
    BY <1>4, <2>1 DEF SetString, Go, Serial, CacheInv, CacheTypeOK, InCall,
                      CacheMatches, SearchesOwnText, Steps
<1>5. ASSUME NEW t \in Threads, SetVector(t)
      PROVE  CacheInv'
  BY <1>5 DEF SetVector, Go, Serial, CacheInv, CacheTypeOK, InCall, CacheMatches,
              SearchesOwnText, Steps
<1>6. ASSUME NEW t \in Threads, Return(t)
      PROVE  CacheInv'
  BY <1>6 DEF Return, Go, Serial, CacheInv, CacheTypeOK, InCall, CacheMatches,
              SearchesOwnText, Steps
<1>7. CASE UNCHANGED cacheVars
  BY <1>7 DEF cacheVars, CacheInv, CacheTypeOK, InCall, CacheMatches, SearchesOwnText
<1> QED  BY <1>1, <1>2, <1>3, <1>4, <1>5, <1>6, <1>7 DEF CacheNext

(***************************************************************************)
(* For every set of texts and any sequence of calls by one thread: the     *)
(* tokens content_has searches are those of the text it was called with.   *)
(***************************************************************************)
THEOREM SerialSearches ==
    ASSUME Serial
    PROVE  CacheSpec => []SearchesOwnText
<1>1. CacheInit => CacheInv
  BY InitCacheInv
<1>2. CacheInv /\ [CacheNext]_cacheVars => CacheInv'
  BY StepCacheInv
<1>3. CacheInv => SearchesOwnText
  BY DEF CacheInv
<1> QED  BY <1>1, <1>2, <1>3, PTL DEF CacheSpec

(***************************************************************************)
(* Likewise: between two calls the statics hold one text and its tokens.   *)
(***************************************************************************)
THEOREM SerialCacheMatches ==
    ASSUME Serial
    PROVE  CacheSpec => []CacheMatches
<1>1. CacheInit => CacheInv
  BY InitCacheInv
<1>2. CacheInv /\ [CacheNext]_cacheVars => CacheInv'
  BY StepCacheInv
<1>3. CacheInv => CacheMatches
  BY DEF CacheInv
<1> QED  BY <1>1, <1>2, <1>3, PTL DEF CacheSpec
------------------------------------------------------------------------------
(***************************************************************************)
(* KhanListings.  The three properties hold of any two texts that are      *)
(* stored strings; the invariant says that the fields hold such texts, and *)
(* what redis_getval returns of one is never without a token.              *)
(***************************************************************************)
FieldsInv == left \in Text /\ right \in Text

LEMMA ReadText ==
    ASSUME NEW s \in Text
    PROVE  GetVal(s) \in Text /\ GetVal(s) # <<>>
<1>1. GetVal(s) \in Text
  BY GetValText
<1>2. \A r \in Text \ {<<>>} : Cleanup(r) # <<>>
  <2> TAKE r \in Text \ {<<>>}
  <2>1. CASE Len(r) > 1 /\ Head(r) = Empty
    <3>1. Len(Tail(r)) = Len(r) - 1 /\ Len(r) \in Nat
      BY HeadTailProperties, LenProperties DEF Text
    <3>2. Len(Tail(r)) # 0 /\ Cleanup(r) = Tail(r)
      BY <2>1, <3>1 DEF Cleanup
    <3>3. Len(<<>>) = 0
      OBVIOUS
    <3> QED  BY <3>2, <3>3, Zenon
  <2>2. CASE ~(Len(r) > 1 /\ Head(r) = Empty)
    BY <2>2 DEF Cleanup
  <2> QED  BY <2>1, <2>2
<1>3. <<Null>> \in Text \ {<<>>}
  BY TokensAssumption DEF Text
<1>4. CASE NoReply(s)
  <2>1. GetVal(s) = Cleanup(<<Null>>)
    BY <1>4, Zenon DEF GetVal
  <2> QED  BY <1>1, <1>2, <1>3, <2>1, Zenon
<1>5. CASE ~NoReply(s)
  <2>1. s # <<>>
    BY <1>5 DEF NoReply
  <2>2. GetVal(s) = Cleanup(s)
    BY <1>5, Zenon DEF GetVal
  <2> QED  BY <1>1, <1>2, <2>1, <2>2
<1> QED  BY <1>1, <1>4, <1>5

LEMMA ChangedText ==
    ASSUME NEW s \in Text
    PROVE  Changed(s) \subseteq Text
<1>1. \A w \in Listable : w \in Tokens
  BY ListingsAssumption
<1>2. \A w \in Listable : Joined(s, w) \in Text /\ Erased(GetVal(s), w) \in Text
  BY <1>1, GetValText, JoinedText, ErasedText
<1> QED  BY <1>2 DEF Changed

LEMMA FieldsText == ListingsSpec => []FieldsInv
<1>1. ListingsInit => FieldsInv
  BY EmptySeq DEF ListingsInit, FieldsInv, Text
<1>2. FieldsInv /\ [ListingsNext]_texts => FieldsInv'
  BY ChangedText DEF FieldsInv, ListingsNext, ChangeLeft, ChangeRight, texts
<1> QED  BY <1>1, <1>2, PTL DEF ListingsSpec

\* However the two fields have been changed, the attributes that readdir offers below a
\* path are exactly those that are not on it (subtract of utils.cpp).
THEOREM ListingsSubtract == ListingsSpec => []SubtractRight
<1>1. FieldsInv => SubtractRight
  BY ReadText, SubtractTokens DEF FieldsInv, SubtractRight, Listed, leftVal, rightVal
<1> QED  BY <1>1, FieldsText, PTL

\* However they have been changed, khan_getattr's str_intersect and readdir's intersect
\* have the same tokens, also when each goes on with its own result.
THEOREM ListingsIntersect == ListingsSpec => []IntersectionsAgree
<1>1. FieldsInv => IntersectionsAgree
  <2> SUFFICES ASSUME FieldsInv PROVE IntersectionsAgree
    OBVIOUS
  <2>1. leftVal \in Text /\ leftVal # <<>> /\ rightVal \in Text /\ rightVal # <<>>
    BY ReadText DEF FieldsInv, leftVal, rightVal
  <2>2. /\ Intersect(leftVal, rightVal) \in Text /\ Intersect(leftVal, rightVal) # <<>>
        /\ Listed(Intersect(leftVal, rightVal)) = Listed(leftVal) \cap Listed(rightVal)
    BY <2>1, IntersectTokens DEF Listed
  <2>3. /\ StrIntersect(leftVal, rightVal) \in Text
        /\ Listed(StrIntersect(leftVal, rightVal)) = Listed(leftVal) \cap Listed(rightVal)
    BY <2>1, StrIntersectTokens DEF Listed
  <2>4. Listed(Intersect(Intersect(leftVal, rightVal), leftVal)) = Listed(Intersect(leftVal, rightVal)) \cap Listed(leftVal)
    BY <2>1, <2>2, IntersectTokens DEF Listed
  <2>5. Listed(StrIntersect(StrIntersect(leftVal, rightVal), leftVal)) = Listed(StrIntersect(leftVal, rightVal)) \cap Listed(leftVal)
    BY <2>1, <2>3, StrIntersectTokens DEF Listed
  <2> QED  BY <2>2, <2>3, <2>4, <2>5 DEF IntersectionsAgree
<1> QED  BY <1>1, FieldsText, PTL

\* However they have been changed, the link count that khan_getattr computes is the
\* number of entries that readdir makes of the same text.
THEOREM ListingsLinks == ListingsSpec => []LinksMatchEntries
<1>1. FieldsInv => LinksMatchEntries
  BY ReadText, CountSplit DEF FieldsInv, LinksMatchEntries, CountString, leftVal
<1> QED  BY <1>1, FieldsText, PTL
------------------------------------------------------------------------------
(***************************************************************************)
(* Localize.  The list alldirs, and which files get an entity when they    *)
(* are moved to another server.                                            *)
(***************************************************************************)

\* The list: the text of the field paths in the hash alldirs.
Alldirs(d) == At(d, <<"alldirs">>, <<"paths">>)

\* The tokens that name fields.
FieldTokens(d) == UNION {TokensOf(k[2]) : k \in DOMAIN d}

(***************************************************************************)
(* What the calls of the database change: one field each, and Set and      *)
(* Remove two.                                                             *)
(***************************************************************************)
LEMMA PutAt ==
    ASSUME NEW d, NEW h, NEW f, NEW s, NEW a, NEW b
    PROVE  At(Put(d, h, f, s), a, b) = IF h = a /\ f = b THEN s ELSE At(d, a, b)
<1> DEFINE p == Put(d, h, f, s)
<1>1. DOMAIN p = DOMAIN d \cup {<<h, f>>}
  BY DEF Put
<1>2. \A k \in DOMAIN d \cup {<<h, f>>} : p[k] = IF k = <<h, f>> THEN s ELSE d[k]
  BY DEF Put
<1> HIDE DEF p
<1>3. At(p, a, b) = IF h = a /\ f = b THEN s ELSE At(d, a, b)
  BY <1>1, <1>2 DEF At
<1> QED  BY <1>3 DEF p

LEMMA PutListed ==
    ASSUME NEW d, NEW h, NEW f, NEW s
    PROVE  FieldTokens(Put(d, h, f, s)) = FieldTokens(d) \cup TokensOf(f)
<1> DEFINE p == Put(d, h, f, s)
<1>1. DOMAIN p = DOMAIN d \cup {<<h, f>>}
  BY DEF Put
<1> HIDE DEF p
<1>2. {TokensOf(k[2]) : k \in DOMAIN p} = {TokensOf(k[2]) : k \in DOMAIN d} \cup {TokensOf(f)}
  <2>1. <<h, f>>[2] = f
    OBVIOUS
  <2> QED  BY <1>1, <2>1, Zenon
<1>3. FieldTokens(p) = FieldTokens(d) \cup TokensOf(f)
  BY <1>2, Zenon DEF FieldTokens
<1> QED  BY <1>3 DEF p

LEMMA PutElsewhere ==
    ASSUME NEW d, NEW h, NEW f, NEW s, NEW a, NEW b, h # a \/ f # b
    PROVE  At(Put(d, h, f, s), a, b) = At(d, a, b)
BY PutAt

LEMMA DropAt ==
    ASSUME NEW d, NEW h, NEW f
    PROVE  At(Drop(d, h, f), h, f) = <<>> /\ FieldTokens(Drop(d, h, f)) \subseteq FieldTokens(d)
<1>1. DOMAIN Drop(d, h, f) = DOMAIN d \ {<<h, f>>}
  BY DEF Drop
<1> QED  BY <1>1 DEF At, FieldTokens

\* A text names finitely many tokens.
LEMMA TokensFinite ==
    ASSUME NEW s \in Text
    PROVE  IsFiniteSet(TokensOf(s))
<1>1. TokensOf(s) = {s[i] : i \in 1..Len(s)} /\ Len(s) \in Nat /\ DOMAIN s = 1..Len(s)
  BY TextTokens
<1>2. s \in [1..Len(s) -> TokensOf(s)]
  <2>1. s = [i \in 1..Len(s) |-> s[i]]
    BY <1>1 DEF Text
  <2> QED  BY <1>1, <2>1
<1>3. s \in Surjection(1..Len(s), TokensOf(s))
  BY <1>1, <1>2 DEF Surjection
<1>4. IsFiniteSet(1..Len(s))
  BY <1>1, FS_Interval
<1> QED  BY <1>3, <1>4, FS_Surjection

\* A call of setval for another hash leaves the list alone.
LEMMA SetElsewhere ==
    ASSUME NEW d, NEW f, NEW c, NEW v,
           f # <<"alldirs">> \/ c # <<"paths">>, c # <<"alldirs">>,
           IsFiniteSet(FieldTokens(d)), IsFiniteSet(TokensOf(c)), IsFiniteSet(TokensOf(v))
    PROVE  Alldirs(Set(d, f, c, v)) = Alldirs(d) /\ IsFiniteSet(FieldTokens(Set(d, f, c, v)))
<1> DEFINE s == AddTo(At(d, f, c), v)
           e == Put(d, f, c, s)
           t == AddTo(At(e, c, v), f)
<1>1. Set(d, f, c, v) = Put(e, c, v, t)
  BY Zenon DEF Set
<1> HIDE DEF s, t
<1>2. Alldirs(e) = Alldirs(d) /\ FieldTokens(e) = FieldTokens(d) \cup TokensOf(c)
  <2>1. FieldTokens(e) = FieldTokens(d) \cup TokensOf(c)
    BY PutListed
  <2>2. At(e, <<"alldirs">>, <<"paths">>) = At(d, <<"alldirs">>, <<"paths">>)
    BY PutElsewhere
  <2> QED  BY <2>1, <2>2 DEF Alldirs
<1> HIDE DEF e
<1>3. /\ Alldirs(Put(e, c, v, t)) = Alldirs(e)
      /\ FieldTokens(Put(e, c, v, t)) = FieldTokens(e) \cup TokensOf(v)
  <2>1. FieldTokens(Put(e, c, v, t)) = FieldTokens(e) \cup TokensOf(v)
    BY PutListed
  <2>2. At(Put(e, c, v, t), <<"alldirs">>, <<"paths">>) = At(e, <<"alldirs">>, <<"paths">>)
    BY PutElsewhere
  <2> QED  BY <2>1, <2>2 DEF Alldirs
<1>4. IsFiniteSet(FieldTokens(d) \cup TokensOf(c))
  BY FS_Union
<1>5. IsFiniteSet(FieldTokens(e) \cup TokensOf(v))
  BY <1>2, <1>4, FS_Union
<1> QED  BY <1>1, <1>2, <1>3, <1>5, Zenon

\* What erase leaves in the place of one token: an empty one.
WithoutOne(s, i) == SubSeq(s, 1, i - 1) \o <<Empty>> \o SubSeq(s, i + 1, Len(s))

LEMMA EraseOne ==
    ASSUME NEW s \in Text, NEW i \in 1..Len(s)
    PROVE  /\ WithoutOne(s, i) \in Text /\ Len(WithoutOne(s, i)) = Len(s)
           /\ \A j \in 1..Len(s) : WithoutOne(s, i)[j] = IF j = i THEN Empty ELSE s[j]
<1> DEFINE a == SubSeq(s, 1, i - 1)
           b == a \o <<Empty>>
           c == SubSeq(s, i + 1, Len(s))
           e == b \o c
<1>1. Len(s) \in Nat /\ i \in Nat /\ i >= 1 /\ i <= Len(s)
  BY LenProperties DEF Text
<1>2. /\ a \in Seq(Tokens) /\ Len(a) = i - 1
      /\ \A j \in 1..(i - 1) : a[j] = s[j]
  BY <1>1, SubSeqProperties, SMT DEF Text
<1>3. /\ c \in Seq(Tokens) /\ Len(c) = Len(s) - i
      /\ \A j \in 1..(Len(s) - i) : c[j] = s[i + j]
  BY <1>1, SubSeqProperties, SMT DEF Text
<1> HIDE DEF a, c
<1>4. PICK q : q = <<Empty>>
  OBVIOUS
<1>5. q \in Seq(Tokens) /\ Len(q) = 1 /\ q[1] = Empty
  BY <1>4, TokensAssumption
<1>6. /\ b \in Seq(Tokens) /\ Len(b) = i
      /\ \A j \in 1..i : b[j] = IF j = i THEN Empty ELSE s[j]
  <2>1. /\ a \o q \in Seq(Tokens) /\ Len(a \o q) = Len(a) + Len(q)
        /\ \A j \in 1..Len(a) + Len(q) : (a \o q)[j] = IF j <= Len(a) THEN a[j] ELSE q[j - Len(a)]
    BY <1>2, <1>5, ConcatProperties
  <2>2. b = a \o q
    BY <1>4, Zenon
  <2> HIDE DEF b
  <2> QED  BY <1>1, <1>2, <1>5, <2>1, <2>2
<1> HIDE DEF b
<1>7. /\ e \in Seq(Tokens) /\ Len(e) = Len(b) + Len(c)
      /\ \A j \in 1..Len(b) + Len(c) : e[j] = IF j <= Len(b) THEN b[j] ELSE c[j - Len(b)]
  BY <1>3, <1>6, ConcatProperties
<1> HIDE DEF e
<1>8. Len(e) = Len(s) /\ \A j \in 1..Len(s) : e[j] = IF j = i THEN Empty ELSE s[j]
  BY <1>1, <1>3, <1>6, <1>7
<1> QED  BY <1>7, <1>8, Zenon DEF a, b, c, e, Text, WithoutOne

(***************************************************************************)
(* redis_remove_val on whole tokens: the text lists the erased one once    *)
(* less, if it was listed at all, and every other one as often as before.  *)
(***************************************************************************)
LEMMA OccErasedFrom ==
    ASSUME NEW s \in Text, NEW w \in Tokens, NEW u, u # Empty
    PROVE  /\ EraseFrom(s, <<w>>) \in Text
           /\ Occ(EraseFrom(s, <<w>>), u) =
                 IF u = w /\ Occ(s, u) > 0 THEN Occ(s, u) - 1 ELSE Occ(s, u)
<1> DEFINE r == EraseFrom(s, <<w>>)
<1>1. Len(s) \in Nat /\ DOMAIN s = 1..Len(s)
  BY LenProperties DEF Text
<1>2. Places(s, <<w>>) = Where(s, w)
  <2>1. Len(<<w>>) = 1
    OBVIOUS
  <2>2. \A i \in 1..Len(s) : SubSeq(s, i, i) = <<w>> <=> s[i] = w
    <3> TAKE i \in 1..Len(s)
    <3>1. /\ Len(SubSeq(s, i, i)) = 1 /\ SubSeq(s, i, i)[1] = s[i]
          /\ SubSeq(s, i, i) \in Seq(Tokens)
      BY <1>1, SubSeqProperties, SMT DEF Text
    <3>2. PICK q : q = SubSeq(s, i, i)
      OBVIOUS
    <3>3. q \in Seq(Tokens) /\ Len(q) = 1 /\ q[1] = s[i]
      BY <3>1, <3>2, Zenon
    <3>4. q = <<q[1]>>
      BY <3>3
    <3>5. q = <<w>> <=> q[1] = w
      BY <3>4
    <3> QED  BY <3>2, <3>3, <3>5, Zenon
  <2>3. \A i \in 1..Len(s) : Len(s) + 1 - 1 = Len(s) /\ i + 1 - 1 = i
    BY <1>1
  <2>4. Len(s) + 1 - 1 = Len(s)
    BY <1>1
  <2>5. Places(s, <<w>>) = {i \in 1..Len(s) : SubSeq(s, i, i) = <<w>>}
    BY <2>1, <2>3, <2>4, Zenon DEF Places
  <2> QED  BY <1>1, <2>2, <2>5, Zenon DEF Where
<1>3. /\ IsFiniteSet(Where(s, u)) /\ Occ(s, u) = Cardinality(Where(s, u)) /\ Occ(s, u) \in Nat
      /\ Where(s, w) \subseteq 1..Len(s)
  BY OccNat
<1>4. CASE Where(s, w) = {}
  <2>1. r = s
    BY <1>2, <1>4, Zenon DEF EraseFrom
  <2>2. u = w => Occ(s, u) = 0
    BY <1>3, <1>4, FS_EmptySet
  <2> QED  BY <1>3, <2>1, <2>2
<1>5. CASE Where(s, w) # {}
  <2>1. PICK i \in Where(s, w) : i = Min(Where(s, w))
    BY <1>1, <1>3, <1>5, MinIn
  <2>2. i \in 1..Len(s) /\ s[i] = w
    BY <1>3, <2>1 DEF Where
  <2>3. r = WithoutOne(s, i)
    <3>1. Len(<<w>>) = 1
      OBVIOUS
    <3> QED  BY <1>2, <1>5, <2>1, <3>1, Zenon DEF EraseFrom, WithoutOne
  <2>4. /\ r \in Text /\ Len(r) = Len(s)
        /\ \A j \in 1..Len(s) : r[j] = IF j = i THEN Empty ELSE s[j]
    BY <2>2, <2>3, EraseOne
  <2> HIDE DEF r
  <2>5. DOMAIN r = 1..Len(s)
    BY <2>4, LenProperties DEF Text
  <2>6. Where(r, u) = IF u = w THEN Where(s, u) \ {i} ELSE Where(s, u)
    BY <1>1, <2>2, <2>4, <2>5 DEF Where
  <2>7. Occ(r, u) = Cardinality(Where(r, u))
    BY <2>4, OccNat
  <2>8. CASE u = w
    <3>1. Cardinality(Where(s, u) \ {i}) = Cardinality(Where(s, u)) - 1
      BY <1>3, <2>1, <2>8, FS_RemoveElement
    <3>2. Where(s, u) # {}
      BY <2>1, <2>8
    <3>3. Occ(s, u) # 0
      BY <1>3, <3>2, FS_EmptySet
    <3>4. Occ(r, u) = Occ(s, u) - 1 /\ Occ(s, u) > 0
      BY <1>3, <2>6, <2>7, <2>8, <3>1, <3>3
    <3> QED  BY <2>4, <2>8, <3>4, Zenon DEF r
  <2>9. CASE u # w
    <3>1. Occ(r, u) = Occ(s, u)
      BY <1>3, <2>6, <2>7, <2>9
    <3> QED  BY <2>4, <2>9, <3>1, Zenon DEF r
  <2> QED  BY <2>8, <2>9
<1> QED  BY <1>4, <1>5

\* A token put behind a text.
LEMMA AddOne ==
    ASSUME NEW s \in Text, NEW w \in Tokens
    PROVE  AddTo(s, <<w>>) = Joined(s, w)
BY AppendIsConcat DEF AddTo, Joined, Text
-------------------------------------------------------------------------------
\* A state of localizing in which the list reads a: a file's server is no entry of it.
Keeping(st, a) ==
    /\ DOMAIN st = {"db", "disk", "next"}
    /\ IsFiniteSet(FieldTokens(st.db)) /\ Alldirs(st.db) = a

LEMMA OneFinite ==
    ASSUME NEW x
    PROVE  IsFiniteSet(TokensOf(<<x>>))
<1>1. TokensOf(<<x>>) = {x}
  BY DEF TokensOf
<1> QED  BY <1>1, FS_Singleton

LEMMA ServerElsewhere ==
    ASSUME NEW st, NEW a, Keeping(st, a), NEW fileid, NEW x
    PROVE  Keeping(SetServer(st, fileid, <<x>>), a)
<1>1. <<"server">> # <<"paths">> /\ <<"server">> # <<"alldirs">>
  OBVIOUS
<1>2. IsFiniteSet(TokensOf(<<"server">>)) /\ IsFiniteSet(TokensOf(<<x>>))
  BY OneFinite
<1>3. PICK c, v : c = <<"server">> /\ v = <<x>>
  OBVIOUS
<1>4. c # <<"paths">> /\ c # <<"alldirs">> /\ IsFiniteSet(TokensOf(c)) /\ IsFiniteSet(TokensOf(v))
  BY <1>1, <1>2, <1>3, Zenon
<1>5. PICK d : d = st.db
  OBVIOUS
<1>6. IsFiniteSet(FieldTokens(d)) /\ Alldirs(d) = a /\ DOMAIN st = {"db", "disk", "next"}
  BY <1>5, Zenon DEF Keeping
<1>7. \A f : Alldirs(Set(d, f, c, v)) = a /\ IsFiniteSet(FieldTokens(Set(d, f, c, v)))
  <2> TAKE f
  <2> QED  BY <1>4, <1>6, SetElsewhere
<1>8. \A f : /\ [st EXCEPT !.db = Set(@, f, c, v)].db = Set(d, f, c, v)
              /\ DOMAIN [st EXCEPT !.db = Set(@, f, c, v)] = DOMAIN st
              /\ [st EXCEPT !.db = Set(@, f, c, v), !.next = @ + 1].db = Set(d, f, c, v)
              /\ DOMAIN [st EXCEPT !.db = Set(@, f, c, v), !.next = @ + 1] = DOMAIN st
  BY <1>5, <1>6
<1>9. PICK r : r = SetServer(st, fileid, <<x>>)
  OBVIOUS
<1>10. \E f : DOMAIN r = DOMAIN st /\ r.db = Set(d, f, c, v)
  BY <1>3, <1>8, <1>9, Zenon DEF SetServer
<1> QED  BY <1>6, <1>7, <1>9, <1>10, Zenon DEF Keeping

LEMMA LocalizedElsewhere ==
    ASSUME NEW st, NEW a, Keeping(st, a), NEW fileid
    PROVE  Keeping(Localized(st, fileid), a)
<1> DEFINE best == Servers[MaxServer(st.db, fileid)]
           filename == GetVal(At(st.db, fileid, <<"name">>))
           current == GetVal(At(st.db, fileid, <<"server">>))
           x == Moved(st.disk, current, <<best>>, filename)
           moved == [st EXCEPT !.disk = x]
<1>1. DOMAIN moved = DOMAIN st /\ moved.db = st.db
  <2> HIDE DEF x
  <2> QED  BY DEF Keeping
<1>2. Keeping(moved, a)
  <2> HIDE DEF moved
  <2> QED  BY <1>1, Zenon DEF Keeping
<1>3. Keeping(SetServer(moved, fileid, <<Under(best, filename)>>), a)
  <2> HIDE DEF moved, best, filename
  <2> QED  BY <1>2, ServerElsewhere
<1> QED  BY <1>3, Zenon DEF Localized
-------------------------------------------------------------------------------
\* The calls of setval that were made before, one after the other.
HistorySteps(g, h, n) ==
    g = [i \in 0..n |-> IF i = 0 THEN << >> ELSE Set(g[i - 1], h[i][1], h[i][2], h[i][3])]

LEMMA HistoryLoop ==
    ASSUME NEW h, NEW n \in Nat
    PROVE  \E g : HistorySteps(g, h, n)
<1> DEFINE Q == {m \in 0..n : \E g : HistorySteps(g, h, m)}
<1>1. 0 \in Q
  <2> DEFINE g == [i \in 0..0 |-> << >>]
  <2>1. \A i \in 0..0 : i = 0
    OBVIOUS
  <2>2. HistorySteps(g, h, 0)
    BY <2>1, Zenon DEF HistorySteps
  <2> HIDE DEF g
  <2>3. \E f : HistorySteps(f, h, 0)
    BY <2>2, Zenon
  <2>4. 0 \in 0..n
    OBVIOUS
  <2> QED  BY <2>3, <2>4, Zenon
<1>2. ASSUME NEW m \in 1..n, m - 1 \in Q PROVE m \in Q
  <2>1. PICK g : HistorySteps(g, h, m - 1)
    BY <1>2
  <2> DEFINE x == Set(g[m - 1], h[m][1], h[m][2], h[m][3])
             f == [i \in 0..m |-> IF i = m THEN x ELSE g[i]]
  <2>2. /\ m # 0 /\ m \in 0..n /\ m \in 0..m /\ m - 1 \in 0..m /\ m - 1 # m
        /\ \A i \in 0..m : i # m => i \in 0..(m - 1)
        /\ \A i \in 0..(m - 1) : i # 0 => i - 1 \in 0..m /\ i - 1 # m
    OBVIOUS
  <2>3. \A i \in 0..(m - 1) : g[i] = IF i = 0 THEN << >> ELSE Set(g[i - 1], h[i][1], h[i][2], h[i][3])
    BY <2>1, Zenon DEF HistorySteps
  <2>4. f[m] = x /\ \A i \in 0..m : i # m => f[i] = g[i]
    BY <2>2, Zenon
  <2>5. f[m] = Set(f[m - 1], h[m][1], h[m][2], h[m][3])
    BY <2>2, <2>4, Zenon
  <2>6. ASSUME NEW i \in 0..m
        PROVE  f[i] = IF i = 0 THEN << >> ELSE Set(f[i - 1], h[i][1], h[i][2], h[i][3])
    <3>1. CASE i = m
      BY <2>2, <2>5, <3>1, Zenon
    <3>2. CASE i # m /\ i = 0
      BY <2>2, <2>3, <2>4, <3>2, Zenon
    <3>3. CASE i # m /\ i # 0
      BY <2>2, <2>3, <2>4, <3>3, Zenon
    <3> QED  BY <3>1, <3>2, <3>3
  <2>7. f = [i \in 0..m |-> f[i]]
    BY Zenon
  <2> HIDE DEF f
  <2>8. HistorySteps(f, h, m)
    BY <2>6, <2>7, Zenon DEF HistorySteps
  <2>9. \E k : HistorySteps(k, h, m)
    BY <2>8, Zenon
  <2> QED  BY <2>2, <2>9, Zenon
<1>3. n \in Q
  <2> HIDE DEF Q
  <2>1. \A m \in 1..n : m - 1 \in Q => m \in Q
    BY <1>2
  <2>2. \A m \in 0..n : m \in Q
    BY <1>1, <2>1, UpTo, Zenon
  <2> QED  BY <2>2
<1> QED  BY <1>3, Zenon

\* The turns of usage_localize, on the files that get_all_files returned.
Before == [db |-> db, disk |-> disk, next |-> next]
LocalizeSteps(g, files, n) ==
    g = [i \in 0..n |-> IF i = 0 THEN Before ELSE Localized(g[i - 1], files[i])]

LEMMA LocalizeLoop ==
    ASSUME NEW files, NEW n \in Nat
    PROVE  \E g : LocalizeSteps(g, files, n)
<1> DEFINE Q == {m \in 0..n : \E g : LocalizeSteps(g, files, m)}
<1>1. 0 \in Q
  <2> DEFINE g == [i \in 0..0 |-> Before]
  <2>1. \A i \in 0..0 : i = 0
    OBVIOUS
  <2>2. LocalizeSteps(g, files, 0)
    BY <2>1, Zenon DEF LocalizeSteps
  <2> HIDE DEF g
  <2>3. \E f : LocalizeSteps(f, files, 0)
    BY <2>2, Zenon
  <2>4. 0 \in 0..n
    OBVIOUS
  <2> QED  BY <2>3, <2>4, Zenon
<1>2. ASSUME NEW m \in 1..n, m - 1 \in Q PROVE m \in Q
  <2>1. PICK g : LocalizeSteps(g, files, m - 1)
    BY <1>2
  <2> DEFINE x == Localized(g[m - 1], files[m])
             f == [i \in 0..m |-> IF i = m THEN x ELSE g[i]]
  <2>2. /\ m # 0 /\ m \in 0..n /\ m \in 0..m /\ m - 1 \in 0..m /\ m - 1 # m
        /\ \A i \in 0..m : i # m => i \in 0..(m - 1)
        /\ \A i \in 0..(m - 1) : i # 0 => i - 1 \in 0..m /\ i - 1 # m
    OBVIOUS
  <2>3. \A i \in 0..(m - 1) : g[i] = IF i = 0 THEN Before ELSE Localized(g[i - 1], files[i])
    BY <2>1, Zenon DEF LocalizeSteps
  <2>4. f[m] = x /\ \A i \in 0..m : i # m => f[i] = g[i]
    BY <2>2, Zenon
  <2>5. f[m] = Localized(f[m - 1], files[m])
    BY <2>2, <2>4, Zenon
  <2>6. ASSUME NEW i \in 0..m
        PROVE  f[i] = IF i = 0 THEN Before ELSE Localized(f[i - 1], files[i])
    <3>1. CASE i = m
      BY <2>2, <2>5, <3>1, Zenon
    <3>2. CASE i # m /\ i = 0
      BY <2>2, <2>3, <2>4, <3>2, Zenon
    <3>3. CASE i # m /\ i # 0
      BY <2>2, <2>3, <2>4, <3>3, Zenon
    <3> QED  BY <3>1, <3>2, <3>3
  <2>7. f = [i \in 0..m |-> f[i]]
    BY Zenon
  <2> HIDE DEF f
  <2>8. LocalizeSteps(f, files, m)
    BY <2>6, <2>7, Zenon DEF LocalizeSteps
  <2>9. \E k : LocalizeSteps(k, files, m)
    BY <2>8, Zenon
  <2> QED  BY <2>2, <2>9, Zenon
<1>3. n \in Q
  <2> HIDE DEF Q
  <2>1. \A m \in 1..n : m - 1 \in Q => m \in Q
    BY <1>2
  <2>2. \A m \in 0..n : m \in Q
    BY <1>1, <2>1, UpTo, Zenon
  <2> QED  BY <2>2
<1> QED  BY <1>3, Zenon

\* A history that does not name the list leaves it empty.
LEMMA HistoryElsewhere ==
    ASSUME NEW h \in Histories, NEW g, HistorySteps(g, h, Len(h))
    PROVE  Alldirs(g[Len(h)]) = <<>> /\ IsFiniteSet(FieldTokens(g[Len(h)]))
<1>1. /\ h \in Seq(Text \X Text \X Text)
      /\ \A i \in DOMAIN h : <<"alldirs">> \notin {h[i][1], h[i][2]}
  BY LocalizeAssumption, Zenon
<1>2. PICK n : n = Len(h)
  OBVIOUS
<1>3. n \in Nat /\ DOMAIN h = 1..n /\ \A i \in 1..n : h[i] \in Text \X Text \X Text
  BY <1>1, <1>2, ElementOfSeq, LenProperties
<1>4. \A i \in 0..n : g[i] = IF i = 0 THEN << >> ELSE Set(g[i - 1], h[i][1], h[i][2], h[i][3])
  BY <1>2, Zenon DEF HistorySteps
<1> DEFINE Q == {i \in 0..n : Alldirs(g[i]) = <<>> /\ IsFiniteSet(FieldTokens(g[i]))}
<1>5. 0 \in Q
  <2>1. 0 \in 0..n
    BY <1>3
  <2>2. g[0] = << >>
    BY <1>4, <2>1, Zenon
  <2>3. PICK d : d = g[0]
    OBVIOUS
  <2>4. DOMAIN d = {}
    BY <2>2, <2>3
  <2>5. Alldirs(d) = <<>> /\ FieldTokens(d) = {}
    BY <2>4 DEF Alldirs, At, FieldTokens
  <2> QED  BY <2>1, <2>3, <2>5, FS_EmptySet, Zenon
<1>6. ASSUME NEW i \in 1..n, i - 1 \in Q PROVE i \in Q
  <2>1. i \in 0..n /\ i # 0
    BY <1>3
  <2>2. PICK d, f, c, v : d = g[i - 1] /\ f = h[i][1] /\ c = h[i][2] /\ v = h[i][3]
    OBVIOUS
  <2>3. g[i] = Set(d, f, c, v)
    BY <1>4, <2>1, <2>2, Zenon
  <2>4. Alldirs(d) = <<>> /\ IsFiniteSet(FieldTokens(d))
    BY <1>6, <2>2, Zenon
  <2>5. c \in Text /\ v \in Text /\ f # <<"alldirs">> /\ c # <<"alldirs">>
    <3>1. h[i][2] \in Text /\ h[i][3] \in Text
      BY <1>3
    <3>2. <<"alldirs">> \notin {h[i][1], h[i][2]}
      BY <1>1, <1>3, Zenon
    <3> QED  BY <2>2, <3>1, <3>2, Zenon
  <2>6. IsFiniteSet(TokensOf(c)) /\ IsFiniteSet(TokensOf(v))
    BY <2>5, TokensFinite
  <2>7. Alldirs(Set(d, f, c, v)) = Alldirs(d) /\ IsFiniteSet(FieldTokens(Set(d, f, c, v)))
    BY <2>4, <2>5, <2>6, SetElsewhere
  <2> QED  BY <2>1, <2>3, <2>4, <2>7, Zenon
<1>7. n \in Q
  <2> HIDE DEF Q
  <2>1. \A i \in 1..n : i - 1 \in Q => i \in Q
    BY <1>6
  <2>2. \A i \in 0..n : i \in Q
    BY <1>3, <1>5, <2>1, UpTo, Zenon
  <2> QED  BY <1>3, <2>2
<1> QED  BY <1>2, <1>7, Zenon

\* The turns that LocalizedAll takes.
LEMMA AllSteps ==
    ASSUME NEW files, Len(files) \in Nat
    PROVE  \E l : /\ LocalizedAll(files) = l[Len(files)]
                  /\ \A i \in 0..Len(files) :
                        l[i] = IF i = 0 THEN Before ELSE Localized(l[i - 1], files[i])
<1>1. PICK n : n = Len(files)
  OBVIOUS
<1>2. n \in Nat
  BY <1>1
<1>3. PICK g : LocalizeSteps(g, files, n)
  BY <1>2, LocalizeLoop
<1>4. g = [i \in 0..Len(files) |->
               IF i = 0 THEN [db |-> db, disk |-> disk, next |-> next]
               ELSE Localized(g[i - 1], files[i])]
  BY <1>1, <1>3, Zenon DEF LocalizeSteps, Before
<1>5. PICK l : /\ LocalizedAll(files) = l[Len(files)]
               /\ l = [i \in 0..Len(files) |->
                         IF i = 0 THEN [db |-> db, disk |-> disk, next |-> next]
                         ELSE Localized(l[i - 1], files[i])]
  BY <1>4 DEF LocalizedAll
<1>6. \A i \in 0..Len(files) : l[i] = IF i = 0 THEN Before ELSE Localized(l[i - 1], files[i])
  BY <1>5, Zenon DEF Before
<1> QED  BY <1>5, <1>6, Zenon

\* Nor does localizing files touch it.
LEMMA AllElsewhere ==
    ASSUME NEW files, Len(files) \in Nat, NEW a, Keeping(Before, a)
    PROVE  Keeping(LocalizedAll(files), a)
<1>1. PICK n : n = Len(files)
  OBVIOUS
<1>2. n \in Nat
  BY <1>1
<1>3. PICK l : /\ LocalizedAll(files) = l[Len(files)]
               /\ \A i \in 0..Len(files) :
                     l[i] = IF i = 0 THEN Before ELSE Localized(l[i - 1], files[i])
  BY AllSteps
<1>4. \A i \in 0..n : l[i] = IF i = 0 THEN Before ELSE Localized(l[i - 1], files[i])
  BY <1>1, <1>3, Zenon
<1> DEFINE Q == {i \in 0..n : Keeping(l[i], a)}
<1>5. 0 \in Q
  <2>1. 0 \in 0..n
    BY <1>2
  <2> QED  BY <1>4, <2>1, Zenon
<1>6. ASSUME NEW i \in 1..n, i - 1 \in Q PROVE i \in Q
  <2>1. i \in 0..n /\ i # 0
    BY <1>2
  <2>2. Keeping(l[i - 1], a)
    BY <1>6
  <2>3. Keeping(Localized(l[i - 1], files[i]), a)
    BY <2>2, LocalizedElsewhere
  <2> QED  BY <1>4, <2>1, <2>3, Zenon
<1>7. n \in Q
  <2> HIDE DEF Q
  <2>1. \A i \in 1..n : i - 1 \in Q => i \in Q
    BY <1>6
  <2>2. \A i \in 0..n : i \in Q
    BY <1>2, <1>5, <2>1, UpTo, Zenon
  <2> QED  BY <1>2, <2>2
<1> QED  BY <1>1, <1>3, <1>7, Zenon

\* get_all_files returns finitely many files.
LEMMA FilesListed ==
    ASSUME IsFiniteSet(FieldTokens(db)), NEW files \in GetAllFiles
    PROVE  /\ Len(files) \in Nat /\ DOMAIN files = 1..Len(files)
           /\ Cardinality(KeysOf(<<"all_mp3s">>)) \in Nat
           /\ Len(files) <= Cardinality(KeysOf(<<"all_mp3s">>))
<1> DEFINE K == KeysOf(<<"all_mp3s">>) \ {Empty}
           fields == {k[2] : k \in {j \in DOMAIN db : j[1] = <<"all_mp3s">>}}
<1>1. IsFiniteSet(K)
  <2>1. UNION {TokensOf(f) \ {Empty} : f \in fields} \subseteq FieldTokens(db)
    <3>1. \A f \in fields : \E k \in DOMAIN db : f = k[2]
      OBVIOUS
    <3> HIDE DEF fields
    <3>2. \A f \in fields : TokensOf(f) \subseteq FieldTokens(db)
      BY <3>1 DEF FieldTokens
    <3> QED  BY <3>2
  <2> HIDE DEF fields
  <2>2. PICK x : x = UNION {TokensOf(f) \ {Empty} : f \in fields}
    OBVIOUS
  <2>3. K = {Null} \ {Empty} \/ K = x \ {Empty}
    BY <2>2, Zenon DEF KeysOf, fields
  <2>4. {Null} \ {Empty} \in SUBSET {Null} /\ x \ {Empty} \in SUBSET FieldTokens(db)
    BY <2>1, <2>2
  <2> HIDE DEF K
  <2>5. IsFiniteSet({Null})
    BY FS_Singleton
  <2> QED  BY <2>3, <2>4, <2>5, FS_Subset
<1>2. /\ Cardinality(K) \in Nat /\ Cardinality(KeysOf(<<"all_mp3s">>)) \in Nat
      /\ Cardinality(K) <= Cardinality(KeysOf(<<"all_mp3s">>))
  <2>1. PICK A : A = KeysOf(<<"all_mp3s">>)
    OBVIOUS
  <2>2. IsFiniteSet(A \ {Empty}) /\ A \in SUBSET ((A \ {Empty}) \cup {Empty})
    BY <1>1, <2>1
  <2>3. IsFiniteSet((A \ {Empty}) \cup {Empty})
    BY <2>2, FS_AddElement
  <2>4. IsFiniteSet(A)
    BY <2>2, <2>3, FS_Subset
  <2>5. A \ {Empty} \in SUBSET A
    OBVIOUS
  <2>6. Cardinality(A) \in Nat /\ Cardinality(A \ {Empty}) \in Nat
        /\ Cardinality(A \ {Empty}) <= Cardinality(A)
    BY <2>2, <2>4, <2>5, FS_CardinalityType, FS_Subset
  <2> QED  BY <2>1, <2>6
<1> HIDE DEF K
<1>3. PICK q \in Seqs!SetToSeqs(K) : files = [i \in DOMAIN q |-> Lookup(<<"name">>, <<q[i]>>)]
  BY Zenon DEF GetAllFiles, K
<1>4. DOMAIN q = 1..Cardinality(K)
  <2>1. q \in [1..Cardinality(K) -> K]
    BY Zenon DEF Seqs!SetToSeqs, Seqs!Cardinality, Cardinality
  <2> QED  BY <2>1
<1>5. PICK n : n = Cardinality(K)
  OBVIOUS
<1>6. n \in Nat /\ DOMAIN files = 1..n /\ files = [i \in 1..n |-> files[i]]
  BY <1>2, <1>3, <1>4, <1>5, Zenon
<1>7. files \in Seq({files[i] : i \in 1..n})
  BY <1>6
<1>8. Len(files) \in Nat /\ DOMAIN files = 1..Len(files)
  BY <1>7, LenProperties
<1>9. Len(files) = n
  BY <1>6, <1>8
<1> QED  BY <1>2, <1>5, <1>8, <1>9

-------------------------------------------------------------------------------
(***************************************************************************)
(* The inductive invariant.  That the list is a text in which a token      *)
(* occurs a number of times carries DirsListed through mkdir and rmdir;    *)
(* that finitely many tokens name fields makes usage_localize come to its  *)
(* end, so that what it leaves alone is known.                             *)
(***************************************************************************)
DirInv ==
    /\ IsFiniteSet(FieldTokens(db))
    /\ Alldirs(db) \in Text
    /\ made \in [Dirs -> Nat]
    /\ DirsListed

\* A step that leaves the list and its history alone.
LEMMA ListKept ==
    ASSUME DirInv, Alldirs(db)' = Alldirs(db), IsFiniteSet(FieldTokens(db))', UNCHANGED made
    PROVE  DirInv'
BY Zenon DEF DirInv, DirsListed, Alldirs

LEMMA InitDirInv ==
    ASSUME Init
    PROVE  DirInv
<1>1. PICK h \in Histories : \E g : HistorySteps(g, h, Len(h)) /\ db = g[Len(h)]
  <2>1. PICK h \in Histories :
          db = (LET done[i \in 0..Len(h)] ==
                        IF i = 0 THEN << >> ELSE Set(done[i - 1], h[i][1], h[i][2], h[i][3])
                IN  done[Len(h)])
    BY Zenon DEF Init, Done
  <2>2. Len(h) \in Nat
    <3>1. h \in Seq(Text \X Text \X Text)
      BY LocalizeAssumption, Zenon
    <3> QED  BY <3>1, LenProperties
  <2>3. PICK g : HistorySteps(g, h, Len(h))
    BY <2>2, HistoryLoop
  <2>4. g = [i \in 0..Len(h) |-> IF i = 0 THEN << >> ELSE Set(g[i - 1], h[i][1], h[i][2], h[i][3])]
    BY <2>3, Zenon DEF HistorySteps
  <2>5. \E f : /\ f = [i \in 0..Len(h) |-> IF i = 0 THEN << >> ELSE Set(f[i - 1], h[i][1], h[i][2], h[i][3])]
               /\ db = f[Len(h)]
    BY <2>1, <2>4
  <2> QED  BY <2>5, Zenon DEF HistorySteps
<1>2. Alldirs(db) = <<>> /\ IsFiniteSet(FieldTokens(db))
  BY <1>1, HistoryElsewhere
<1>3. <<>> \in Text /\ NoReply(<<>>)
  BY EmptySeq DEF Text, NoReply
<1>4. made = [d \in Dirs |-> 0]
  BY DEF Init
<1>5. made \in [Dirs -> Nat]
  BY <1>4
<1>6. ASSUME NEW d \in Dirs PROVE Occ(Alldirs(db), d) = made[d]
  <2>1. d # Empty
    BY LocalizeAssumption
  <2>2. Occ(<<>>, d) = 0
    BY <1>3, <2>1, OccNoReply
  <2> QED  BY <1>2, <1>4, <2>2
<1> QED  BY <1>2, <1>3, <1>5, <1>6, Zenon DEF DirInv, DirsListed, Alldirs

\* The parts of the invariant that the steps need of the state they start in.
LEMMA DirInvParts ==
    ASSUME DirInv
    PROVE  /\ IsFiniteSet(FieldTokens(db)) /\ Alldirs(db) \in Text /\ made \in [Dirs -> Nat]
           /\ \A d \in Dirs : Occ(Alldirs(db), d) = made[d]
           /\ Keeping(Before, Alldirs(db)) /\ Before.db = db
<1>1. DOMAIN Before = {"db", "disk", "next"} /\ Before.db = db
  BY DEF Before
<1>2. Keeping(Before, Alldirs(db))
  BY <1>1, Zenon DEF DirInv, Keeping
<1> QED  BY <1>1, <1>2, Zenon DEF DirInv, DirsListed, Alldirs

LEMMA UsageDirInv ==
    ASSUME DirInv, MkdirUsage
    PROVE  DirInv'
<1>1. PICK files \in GetAllFiles : db' = LocalizedAll(files).db
  BY Zenon DEF MkdirUsage
<1>2. Len(files) \in Nat
  BY DirInvParts, FilesListed
<1>3. PICK a : a = Alldirs(db)
  OBVIOUS
<1>4. Keeping(LocalizedAll(files), a)
  BY <1>2, <1>3, DirInvParts, AllElsewhere
<1>5. Alldirs(db)' = Alldirs(db) /\ IsFiniteSet(FieldTokens(db))'
  BY <1>1, <1>3, <1>4, Zenon DEF Keeping
<1>6. UNCHANGED made
  BY Zenon DEF MkdirUsage
<1> QED  BY <1>5, <1>6, ListKept

LEMMA LocalizeDirInv ==
    ASSUME DirInv, MkdirLocalize
    PROVE  DirInv'
<1>1. UNCHANGED made
  BY Zenon DEF MkdirLocalize
<1>2. \/ UNCHANGED db
      \/ \E dk, fileid, j :
            db' = SetServer([db |-> db, disk |-> dk, next |-> next], fileid, <<Servers[j]>>).db
  BY Zenon DEF MkdirLocalize
<1>3. Alldirs(db)' = Alldirs(db) /\ IsFiniteSet(FieldTokens(db))'
  <2>1. CASE UNCHANGED db
    BY <2>1, DirInvParts, Zenon DEF Alldirs, FieldTokens
  <2>2. CASE \E dk, fileid, j :
               db' = SetServer([db |-> db, disk |-> dk, next |-> next], fileid, <<Servers[j]>>).db
    <3>1. PICK dk, fileid, j :
            db' = SetServer([db |-> db, disk |-> dk, next |-> next], fileid, <<Servers[j]>>).db
      BY <2>2
    <3>2. PICK st, a, x : st = [db |-> db, disk |-> dk, next |-> next] /\ a = Alldirs(db) /\ x = Servers[j]
      OBVIOUS
    <3>3. DOMAIN st = {"db", "disk", "next"} /\ st.db = db
      BY <3>2
    <3>4. Keeping(st, a)
      BY <3>2, <3>3, DirInvParts, Zenon DEF Keeping
    <3>5. Keeping(SetServer(st, fileid, <<x>>), a)
      BY <3>4, ServerElsewhere
    <3> QED  BY <3>1, <3>2, <3>5, Zenon DEF Keeping
  <2> QED  BY <1>2, <2>1, <2>2
<1> QED  BY <1>1, <1>3, ListKept

\* mkdir lists its directory once more.
LEMMA MkdirDirInv ==
    ASSUME DirInv, NEW d \in Dirs, Mkdir(d)
    PROVE  DirInv'
<1>0. /\ IsFiniteSet(FieldTokens(db)) /\ Alldirs(db) \in Text /\ made \in [Dirs -> Nat]
      /\ \A x \in Dirs : Occ(Alldirs(db), x) = made[x]
  BY DirInvParts
<1>1. CASE UNCHANGED <<db, made>>
  BY <1>0, <1>1, ListKept DEF Alldirs, FieldTokens
<1>2. CASE /\ db' = Set(db, <<"alldirs">>, <<"paths">>, <<d>>)
           /\ made' = [made EXCEPT ![d] = @ + 1]
  <2>1. d \in Tokens /\ d # Empty /\ \A x \in Dirs : x # Empty
    BY LocalizeAssumption
  <2>2. PICK h, f, v, s : h = <<"alldirs">> /\ f = <<"paths">> /\ v = <<d>> /\ s = Alldirs(db)
    OBVIOUS
  <2>3. h # f
    BY <2>2
  <2>4. AddTo(s, v) = Joined(s, d)
    BY <1>0, <2>1, <2>2, AddOne
  <2>5. /\ Alldirs(db)' = Joined(s, d)
        /\ IsFiniteSet(FieldTokens(db))'
    <3> DEFINE e == Put(db, h, f, Joined(s, d))
               t == AddTo(At(e, f, v), h)
    <3>1. db' = Put(e, f, v, t)
      BY <1>2, <2>2, <2>4, Zenon DEF Set, Alldirs
    <3>2. IsFiniteSet(TokensOf(f)) /\ IsFiniteSet(TokensOf(v))
      BY <2>2, OneFinite
    <3>3. At(e, h, f) = Joined(s, d)
      BY PutAt
    <3>4. FieldTokens(e) = FieldTokens(db) \cup TokensOf(f)
      BY PutListed
    <3> HIDE DEF e, t
    <3>5. At(Put(e, f, v, t), h, f) = At(e, h, f)
      BY <2>3, PutElsewhere
    <3>6. FieldTokens(Put(e, f, v, t)) = FieldTokens(e) \cup TokensOf(v)
      BY PutListed
    <3>7. IsFiniteSet(FieldTokens(db) \cup TokensOf(f))
      BY <1>0, <3>2, FS_Union
    <3>8. IsFiniteSet(FieldTokens(e) \cup TokensOf(v))
      BY <3>2, <3>4, <3>7, FS_Union
    <3> QED  BY <2>2, <3>1, <3>3, <3>5, <3>6, <3>8, Zenon DEF Alldirs
  <2>6. Joined(s, d) \in Text
    BY <1>0, <2>1, <2>2, JoinedText
  <2>7. made' \in [Dirs -> Nat] /\ \A x \in Dirs : made'[x] = made[x] + IF x = d THEN 1 ELSE 0
    BY <1>0, <1>2
  <2>8. ASSUME NEW x \in Dirs PROVE Occ(Joined(s, d), x) = made'[x]
    <3>1. Occ(Joined(s, d), x) = Occ(s, x) + IF x = d THEN 1 ELSE 0
      BY <1>0, <2>1, <2>2, OccJoined
    <3> QED  BY <1>0, <2>2, <2>7, <3>1
  <2> QED  BY <2>5, <2>6, <2>7, <2>8, Zenon DEF DirInv, DirsListed, Alldirs
<1> QED  BY <1>1, <1>2, Zenon DEF Mkdir

\* rmdir takes one entry of its directory away, if there is one.
LEMMA RmdirDirInv ==
    ASSUME DirInv, NEW d \in Dirs, Rmdir(d)
    PROVE  DirInv'
<1>0. /\ IsFiniteSet(FieldTokens(db)) /\ Alldirs(db) \in Text /\ made \in [Dirs -> Nat]
      /\ \A x \in Dirs : Occ(Alldirs(db), x) = made[x]
  BY DirInvParts
<1>1. /\ db' = Remove(db, <<"alldirs">>, <<"paths">>, <<d>>)
      /\ made' = [made EXCEPT ![d] = IF @ > 0 THEN @ - 1 ELSE 0]
  BY Zenon DEF Rmdir
<1>2. d \in Tokens /\ d # Empty /\ \A x \in Dirs : x # Empty
  BY LocalizeAssumption
<1>3. PICK h, f, v, s : h = <<"alldirs">> /\ f = <<"paths">> /\ v = <<d>> /\ s = Alldirs(db)
  OBVIOUS
<1>4. h # f
  BY <1>3
<1> DEFINE after == EraseFrom(s, v)
<1>5. /\ after \in Text
      /\ \A x \in Dirs : Occ(after, x) = IF x = d /\ Occ(s, x) > 0 THEN Occ(s, x) - 1 ELSE Occ(s, x)
  BY <1>0, <1>2, <1>3, OccErasedFrom
<1> HIDE DEF after
\* What the list reads afterwards lists what erase left.
<1>6. PICK e : /\ \E t : db' = Put(e, f, v, t)
               /\ IsFiniteSet(FieldTokens(e)) /\ At(e, h, f) \in Text
               /\ \A x \in Dirs : Occ(At(e, h, f), x) = Occ(after, x)
  <2> DEFINE e == IF NoReply(s) THEN db
                  ELSE IF after = <<Empty>> THEN Drop(db, h, f) ELSE Put(db, h, f, after)
             t == EraseFrom(GetVal(At(e, f, v)), h)
  <2>1. db' = Put(e, f, v, t)
    BY <1>1, <1>3, Zenon DEF Remove, Alldirs, after
  <2>2. s = At(db, h, f) /\ s \in Text
    BY <1>0, <1>3, Zenon DEF Alldirs
  <2>3. <<>> \in Text /\ NoReply(<<>>) /\ NoReply(<<Empty>>)
    BY EmptySeq DEF Text, NoReply
  <2>4. IsFiniteSet(TokensOf(f))
    BY <1>3, OneFinite
  <2>5. CASE NoReply(s)
    <3>1. e = db
      BY <2>5
    <3> HIDE DEF e
    <3>2. \A x \in Dirs : Occ(s, x) = 0
      BY <1>2, <2>2, <2>5, OccNoReply
    <3>3. \A x \in Dirs : Occ(after, x) = 0
      BY <1>5, <3>2
    <3> QED  BY <1>0, <2>1, <2>2, <3>1, <3>2, <3>3, Zenon
  <2>6. CASE ~NoReply(s) /\ after = <<Empty>>
    <3>1. e = Drop(db, h, f)
      BY <2>6, Zenon
    <3> HIDE DEF e
    <3>2. At(e, h, f) = <<>> /\ FieldTokens(e) \in SUBSET FieldTokens(db)
      BY <3>1, DropAt
    <3>3. IsFiniteSet(FieldTokens(e))
      BY <1>0, <3>2, FS_Subset
    <3>4. \A x \in Dirs : Occ(after, x) = 0 /\ Occ(<<>>, x) = 0
      BY <1>2, <1>5, <2>3, <2>6, OccNoReply
    <3> QED  BY <2>1, <2>3, <3>2, <3>3, <3>4, Zenon
  <2>7. CASE ~NoReply(s) /\ after # <<Empty>>
    <3>1. e = Put(db, h, f, after)
      BY <2>7, Zenon
    <3> HIDE DEF e
    <3>2. At(e, h, f) = after
      BY <3>1, PutAt
    <3>3. FieldTokens(e) = FieldTokens(db) \cup TokensOf(f)
      BY <3>1, PutListed
    <3>4. IsFiniteSet(FieldTokens(e))
      BY <1>0, <2>4, <3>3, FS_Union
    <3> QED  BY <1>5, <2>1, <3>2, <3>4, Zenon
  <2> QED  BY <2>5, <2>6, <2>7
<1>7. PICK t : db' = Put(e, f, v, t)
  BY <1>6
<1>8. At(db', h, f) = At(e, h, f)
  BY <1>4, <1>7, PutElsewhere
<1>9. IsFiniteSet(FieldTokens(db'))
  <2>1. FieldTokens(db') = FieldTokens(e) \cup TokensOf(v)
    BY <1>7, PutListed
  <2>2. IsFiniteSet(TokensOf(v))
    BY <1>3, OneFinite
  <2> QED  BY <1>6, <2>1, <2>2, FS_Union
<1>10. made' \in [Dirs -> Nat]
       /\ \A x \in Dirs : made'[x] = IF x = d /\ made[x] > 0 THEN made[x] - 1 ELSE made[x]
  BY <1>0, <1>1
<1>11. ASSUME NEW x \in Dirs PROVE Occ(At(db', h, f), x) = made'[x]
  <2>1. Occ(At(db', h, f), x) = IF x = d /\ Occ(s, x) > 0 THEN Occ(s, x) - 1 ELSE Occ(s, x)
    BY <1>5, <1>6, <1>8
  <2>2. Occ(s, x) = made[x]
    BY <1>0, <1>3
  <2> QED  BY <1>10, <2>1, <2>2
<1>12. Alldirs(db') \in Text
  BY <1>3, <1>6, <1>8, Zenon DEF Alldirs
<1> QED  BY <1>3, <1>9, <1>10, <1>11, <1>12, Zenon DEF DirInv, DirsListed, Alldirs

LEMMA AlwaysDirInv == Spec => []DirInv
<1>1. Init => DirInv
  BY InitDirInv
<1>2. DirInv /\ [Next]_vars => DirInv'
  <2> SUFFICES ASSUME DirInv, [Next]_vars PROVE DirInv'
    OBVIOUS
  <2>1. CASE MkdirUsage
    BY <2>1, UsageDirInv
  <2>2. CASE MkdirLocalize
    BY <2>2, LocalizeDirInv
  <2>3. ASSUME NEW d \in Dirs, Mkdir(d) PROVE DirInv'
    BY <2>3, MkdirDirInv
  <2>4. ASSUME NEW d \in Dirs, Rmdir(d) PROVE DirInv'
    BY <2>4, RmdirDirInv
  <2>5. CASE UNCHANGED vars
    <3>1. UNCHANGED <<db, made>>
      BY <2>5 DEF vars
    <3> QED  BY <3>1, DirInvParts, ListKept, Zenon DEF Alldirs, FieldTokens
  <2> QED  BY <2>1, <2>2, <2>3, <2>4, <2>5, Zenon DEF Next
<1> QED  BY <1>1, <1>2, PTL DEF Spec

(***************************************************************************)
(* DirsListed, whatever the servers, the files and what clients did before:*)
(* after any number of operations the list that khan keeps (xmp_mkdir and  *)
(* xmp_rmdir) has every directory once for every mkdir that no rmdir has   *)
(* answered, and localizing files leaves it alone.                         *)
(***************************************************************************)
THEOREM LocalizeDirsListed == Spec => []DirsListed
<1>1. DirInv => DirsListed
  BY Zenon DEF DirInv
<1> QED  BY <1>1, AlwaysDirInv, PTL
-------------------------------------------------------------------------------
\* A state of localizing in which no entity has been made yet.
Nobody(st) == DOMAIN st = {"db", "disk", "next"} /\ st.next = next

\* setval makes an entity for the id "null" only.
LEMMA SetServerNobody ==
    ASSUME NEW st, Nobody(st), NEW fileid, fileid # <<Null>>, NEW s
    PROVE  Nobody(SetServer(st, fileid, s))
<1>1. PICK x : x = Set(st.db, fileid, <<"server">>, s)
  OBVIOUS
<1>2. SetServer(st, fileid, s) = [st EXCEPT !.db = x]
  BY <1>1, Zenon DEF SetServer
<1>3. Nobody([st EXCEPT !.db = x])
  BY DEF Nobody
<1> QED  BY <1>2, <1>3, Zenon

LEMMA LocalizedNobody ==
    ASSUME NEW st, Nobody(st), NEW fileid, fileid # <<Null>>
    PROVE  Nobody(Localized(st, fileid))
<1> DEFINE best == Servers[MaxServer(st.db, fileid)]
           filename == GetVal(At(st.db, fileid, <<"name">>))
           current == GetVal(At(st.db, fileid, <<"server">>))
           x == Moved(st.disk, current, <<best>>, filename)
           moved == [st EXCEPT !.disk = x]
<1>1. Nobody(moved)
  <2> HIDE DEF x
  <2> QED  BY DEF Nobody
<1>2. Nobody(SetServer(moved, fileid, <<Under(best, filename)>>))
  <2> HIDE DEF moved, best, filename
  <2> QED  BY <1>1, SetServerNobody
<1> QED  BY <1>2, Zenon DEF Localized

LEMMA AllNobody ==
    ASSUME NEW files, Len(files) \in Nat, \A i \in 1..Len(files) : files[i] # <<Null>>
    PROVE  Nobody(LocalizedAll(files))
<1>1. PICK l : /\ LocalizedAll(files) = l[Len(files)]
               /\ \A i \in 0..Len(files) :
                     l[i] = IF i = 0 THEN Before ELSE Localized(l[i - 1], files[i])
  BY AllSteps
<1>2. PICK n : n = Len(files)
  OBVIOUS
<1>3. n \in Nat /\ \A i \in 1..n : files[i] # <<Null>>
  BY <1>2
<1>4. \A i \in 0..n : l[i] = IF i = 0 THEN Before ELSE Localized(l[i - 1], files[i])
  BY <1>1, <1>2, Zenon
<1> DEFINE Q == {i \in 0..n : Nobody(l[i])}
<1>5. 0 \in Q
  <2>1. 0 \in 0..n
    BY <1>3
  <2>2. Nobody(Before)
    BY DEF Nobody, Before
  <2> QED  BY <1>4, <2>1, <2>2, Zenon
<1>6. ASSUME NEW i \in 1..n, i - 1 \in Q PROVE i \in Q
  <2>1. i \in 0..n /\ i # 0
    BY <1>3
  <2>2. Nobody(l[i - 1]) /\ files[i] # <<Null>>
    BY <1>3, <1>6
  <2>3. Nobody(Localized(l[i - 1], files[i]))
    BY <2>2, LocalizedNobody
  <2> QED  BY <1>4, <2>1, <2>3, Zenon
<1>7. n \in Q
  <2> HIDE DEF Q
  <2>1. \A i \in 1..n : i - 1 \in Q => i \in Q
    BY <1>6
  <2>2. \A i \in 0..n : i \in Q
    BY <1>3, <1>5, <2>1, UpTo, Zenon
  <2> QED  BY <1>3, <2>2
<1> QED  BY <1>1, <1>2, <1>7, Zenon

\* get_all_files returns the ids that keys of all_mp3s are the names of.
LEMMA FilesNamed ==
    ASSUME IsFiniteSet(FieldTokens(db)), NEW files \in GetAllFiles
    PROVE  \A i \in 1..Len(files) :
               \E t \in KeysOf(<<"all_mp3s">>) : files[i] = Lookup(<<"name">>, <<t>>)
<1> DEFINE K == KeysOf(<<"all_mp3s">>) \ {Empty}
<1>1. PICK q \in Seqs!SetToSeqs(K) : files = [i \in DOMAIN q |-> Lookup(<<"name">>, <<q[i]>>)]
  BY Zenon DEF GetAllFiles
<1>2. \A i \in DOMAIN q : q[i] \in KeysOf(<<"all_mp3s">>)
  <2>1. \A i \in DOMAIN q : q[i] \in K
    <3> HIDE DEF K
    <3>1. q \in [1..Cardinality(K) -> K]
      BY Zenon DEF Seqs!SetToSeqs, Seqs!Cardinality, Cardinality
    <3> QED  BY <3>1
  <2> QED  BY <2>1, Zenon
<1>3. DOMAIN files = 1..Len(files)
  BY FilesListed
<1>4. DOMAIN files = DOMAIN q /\ \A i \in DOMAIN q : files[i] = Lookup(<<"name">>, <<q[i]>>)
  BY <1>1, Zenon
<1> QED  BY <1>2, <1>3, <1>4, Zenon

(***************************************************************************)
(* EntitiesMade, whatever the servers, the files and what clients did      *)
(* before: database_setval makes an entity while files are localized       *)
(* (usage_localize, xmp_mkdir) only where a name that khan looks up is     *)
(* nobody's, however many files are on the list and in whatever order.     *)
(***************************************************************************)
THEOREM LocalizeEntitiesMade == Spec => EntitiesMade
<1> DEFINE None == \/ Lookup(<<"name">>, <<Winter>>) = <<Null>>
                   \/ \E n \in KeysOf(<<"all_mp3s">>) : Lookup(<<"name">>, <<n>>) = <<Null>>
<1>1. DirInv /\ [Next]_vars => [next' # next => None]_vars
  <2> SUFFICES ASSUME DirInv, [Next]_vars, ~None PROVE next' = next
    OBVIOUS
  <2>0. /\ Lookup(<<"name">>, <<Winter>>) # <<Null>>
        /\ \A n \in KeysOf(<<"all_mp3s">>) : Lookup(<<"name">>, <<n>>) # <<Null>>
    BY Zenon
  <2> HIDE DEF None
  <2>1. CASE MkdirUsage
    <3>1. PICK files \in GetAllFiles : next' = LocalizedAll(files).next
      BY <2>1, Zenon DEF MkdirUsage
    <3>2. Len(files) \in Nat
      BY DirInvParts, FilesListed
    <3>3. \A i \in 1..Len(files) : files[i] # <<Null>>
      BY <2>0, DirInvParts, FilesNamed, Zenon
    <3> QED  BY <3>1, <3>2, <3>3, AllNobody, Zenon DEF Nobody
  <2>2. CASE MkdirLocalize
    <3>1. PICK fileid : fileid = Lookup(<<"name">>, <<Winter>>)
      OBVIOUS
    <3>2. \/ UNCHANGED next
          \/ \E dk, s : next' = SetServer([db |-> db, disk |-> dk, next |-> next], fileid, s).next
      BY <2>2, <3>1, Zenon DEF MkdirLocalize
    <3>3. ASSUME NEW dk, NEW s
          PROVE  SetServer([db |-> db, disk |-> dk, next |-> next], fileid, s).next = next
      <4>1. PICK st : st = [db |-> db, disk |-> dk, next |-> next]
        OBVIOUS
      <4>2. Nobody(st)
        BY <4>1 DEF Nobody
      <4>3. Nobody(SetServer(st, fileid, s))
        BY <2>0, <3>1, <4>2, SetServerNobody
      <4> QED  BY <4>1, <4>3, Zenon DEF Nobody
    <3> QED  BY <3>2, <3>3, Zenon
  <2>3. CASE \E d \in Dirs : Mkdir(d) \/ Rmdir(d)
    BY <2>3, Zenon DEF Mkdir, Rmdir
  <2>4. CASE UNCHANGED vars
    BY <2>4 DEF vars
  <2> QED  BY <2>1, <2>2, <2>3, <2>4, Zenon DEF Next
<1> QED  BY <1>1, AlwaysDirInv, PTL DEF Spec, EntitiesMade
-------------------------------------------------------------------------------
(***************************************************************************)
(* Where the data is.  A disk is a set of names below directories; the     *)
(* text of a file that is known grows behind the server it was made on.    *)
(***************************************************************************)
PlacesIn(dk, f) == {e.dir : e \in {x \in dk : x.name = <<f>>}}
AreFiles(dk) == \A e \in dk : e = [dir |-> e.dir, name |-> e.name]

\* Some name leads to e, or no name does.
IsNamed(d, e) == e = <<Null>> \/ \E x : e = GetVal(At(d, <<"name">>, x))
Words == {<<"name">>, <<"server">>, <<"paths">>, <<"alldirs">>}

\* What the histories leave and no operation changes.
SaneIndex(d) ==
    /\ \A e : IsNamed(d, e) => e \notin Words
    /\ At(d, <<Null>>, <<"server">>) = <<>>
    /\ \A e, j : IsNamed(d, e) /\ j \in DOMAIN Servers => Usage(d, e, j) \in Nat
    /\ \A f \in Files : \A e :
          IsNamed(d, e) /\ GetVal(At(d, e, <<"name">>)) = <<f>> => e = IdOf(d, f)
    /\ \A f \in Files : IdOf(d, f) # <<Null>> =>
          /\ GetVal(At(d, IdOf(d, f), <<"name">>)) = <<f>>
          /\ \A i \in DOMAIN Ids : IdOf(d, f) # <<Ids[i]>>

\* The text t of the file f, whose data is on the server j.
Follows(t, j, f) ==
    \/ t = <<Servers[1]>> /\ Servers[j] = Servers[1]
    \/ /\ t \in Text /\ Len(t) > 1 /\ t[1] = Servers[1]
       /\ t[2] \in {Servers[j], Under(Servers[j], <<f>>)}

OnServer(d, dk, f) ==
    \E j \in DOMAIN Servers :
        /\ PlacesIn(dk, f) = {<<Servers[j]>>}
        /\ IdOf(d, f) # <<Null>> => Follows(At(d, IdOf(d, f), <<"server">>), j, f)

DataInv(d, dk) ==
    /\ AreFiles(dk)
    /\ SaneIndex(d)
    /\ \A f \in Files : OnServer(d, dk, f)

\* From d to d2 nothing changes that is about files but the server of the entity w.
ServerAdded(d, d2, w, u) ==
    /\ \A x : At(d2, <<"name">>, x) = At(d, <<"name">>, x)
    /\ \A e, x : IsNamed(d, e) /\ x # <<"server">> => At(d2, e, x) = At(d, e, x)
    /\ \A e : IsNamed(d, e) /\ (\A i \in DOMAIN Ids : e # <<Ids[i]>>) =>
          At(d2, e, <<"server">>) = IF e = w /\ w # <<Null>>
                                    THEN AddTo(At(d, e, <<"server">>), <<u>>)
                                    ELSE At(d, e, <<"server">>)

LEMMA ServerAddedNames ==
    ASSUME NEW d, NEW d2, NEW w, NEW u, ServerAdded(d, d2, w, u)
    PROVE  /\ \A e : IsNamed(d2, e) <=> IsNamed(d, e)
           /\ \A f : IdOf(d2, f) = IdOf(d, f)
           /\ \A e, j : IsNamed(d, e) /\ j \in DOMAIN Servers => Usage(d2, e, j) = Usage(d, e, j)
<1>1. \A x : At(d2, <<"name">>, x) = At(d, <<"name">>, x)
  BY Zenon DEF ServerAdded
<1>2. \A e : IsNamed(d2, e) <=> IsNamed(d, e)
  BY <1>1, Zenon DEF IsNamed
<1>3. \A f : IdOf(d2, f) = IdOf(d, f)
  BY <1>1, Zenon DEF IdOf
<1>4. ASSUME NEW e, NEW j \in DOMAIN Servers, IsNamed(d, e)
      PROVE  Usage(d2, e, j) = Usage(d, e, j)
  <2>1. <<ServerIds[j]>> # <<"server">>
    <3>1. ServerIds[j] # "server"
      BY HistoriesAssumption, Zenon
    <3> QED  BY <3>1
  <2>2. At(d2, e, <<ServerIds[j]>>) = At(d, e, <<ServerIds[j]>>)
    BY <1>4, <2>1, Zenon DEF ServerAdded
  <2> QED  BY <2>2, Zenon DEF Usage
<1> QED  BY <1>2, <1>3, <1>4, Zenon

LEMMA ChangedSane ==
    ASSUME NEW d, NEW d2, NEW w, NEW u, ServerAdded(d, d2, w, u), SaneIndex(d)
    PROVE  SaneIndex(d2)
<1>1. /\ \A e : IsNamed(d2, e) <=> IsNamed(d, e)
      /\ \A f : IdOf(d2, f) = IdOf(d, f)
      /\ \A e, j : IsNamed(d, e) /\ j \in DOMAIN Servers => Usage(d2, e, j) = Usage(d, e, j)
  BY ServerAddedNames
<1>2. \A e : IsNamed(d2, e) => e \notin Words
  BY <1>1, Zenon DEF SaneIndex
<1>3. At(d2, <<Null>>, <<"server">>) = <<>>
  <2>1. \A i \in DOMAIN Ids : <<Null>> # <<Ids[i]>>
    <3>1. \A i \in DOMAIN Ids : Ids[i] # Null
      BY HistoriesAssumption, Zenon
    <3> QED  BY <3>1
  <2>2. IsNamed(d, <<Null>>)
    BY Zenon DEF IsNamed
  <2> QED  BY <2>1, <2>2, Zenon DEF ServerAdded, SaneIndex
<1>4. \A e, j : IsNamed(d2, e) /\ j \in DOMAIN Servers => Usage(d2, e, j) \in Nat
  BY <1>1, Zenon DEF SaneIndex
<1>5. <<"name">> # <<"server">>
  OBVIOUS
<1>6. \A e : IsNamed(d, e) => At(d2, e, <<"name">>) = At(d, e, <<"name">>)
  BY <1>5, Zenon DEF ServerAdded
<1>7. \A f \in Files : \A e :
          IsNamed(d2, e) /\ GetVal(At(d2, e, <<"name">>)) = <<f>> => e = IdOf(d2, f)
  BY <1>1, <1>6, Zenon DEF SaneIndex
<1>8. ASSUME NEW f \in Files, IdOf(d2, f) # <<Null>>
      PROVE  /\ GetVal(At(d2, IdOf(d2, f), <<"name">>)) = <<f>>
             /\ \A i \in DOMAIN Ids : IdOf(d2, f) # <<Ids[i]>>
  <2>1. IdOf(d2, f) = IdOf(d, f)
    BY <1>1
  <2>2. IsNamed(d, IdOf(d, f))
    BY Zenon DEF IsNamed, IdOf
  <2> QED  BY <1>6, <1>8, <2>1, <2>2, Zenon DEF SaneIndex
<1> QED  BY <1>2, <1>3, <1>4, <1>7, <1>8, Zenon DEF SaneIndex

\* The file f goes from one directory to another if it is the one that is meant, n.
GoesTo(P, P2, from, to, n, f) ==
    /\ n = <<f>> /\ from \in P => P2 = (P \ {from}) \cup {to}
    /\ n # <<f>> \/ from \notin P => P2 = P

\* mv takes the file of that name from its directory to the other one.
LEMMA MovedPlaces ==
    ASSUME NEW dk, AreFiles(dk), NEW from, NEW to, NEW n, NEW f
    PROVE  /\ AreFiles(Moved(dk, from, to, n))
           /\ GoesTo(PlacesIn(dk, f), PlacesIn(Moved(dk, from, to, n), f), from, to, n, f)
<1> DEFINE a == [dir |-> from, name |-> n]
           b == [dir |-> to, name |-> n]
<1>1. a.dir = from /\ a.name = n /\ b.dir = to /\ b.name = n
      /\ b = [dir |-> b.dir, name |-> b.name]
  OBVIOUS
<1>2. \A e \in dk : e = [dir |-> e.dir, name |-> e.name]
  BY DEF AreFiles
<1>3. \A e \in dk : e.dir = from /\ e.name = n => e = a
  BY <1>2, Zenon
<1>4. Moved(dk, from, to, n) = IF a \in dk THEN (dk \ {a}) \cup {b} ELSE dk
  BY Zenon DEF Moved
<1> HIDE DEF a, b
<1>5. CASE a \in dk
  <2>1. Moved(dk, from, to, n) = (dk \ {a}) \cup {b}
    BY <1>4, <1>5, Zenon
  <2>2. AreFiles(Moved(dk, from, to, n))
    BY <1>1, <1>2, <2>1, Zenon DEF AreFiles
  <2>3. CASE n = <<f>>
    <3>1. from \in PlacesIn(dk, f)
      BY <1>1, <1>5, <2>3, Zenon DEF PlacesIn
    <3>2. \A x : x \in PlacesIn((dk \ {a}) \cup {b}, f) <=> x \in (PlacesIn(dk, f) \ {from}) \cup {to}
      <4> TAKE x
      <4>1. x \in PlacesIn((dk \ {a}) \cup {b}, f)
              <=> \E e \in (dk \ {a}) \cup {b} : e.name = <<f>> /\ x = e.dir
        BY Zenon DEF PlacesIn
      <4>2. x \in PlacesIn(dk, f) <=> \E e \in dk : e.name = <<f>> /\ x = e.dir
        BY Zenon DEF PlacesIn
      <4> QED  BY <1>1, <1>3, <2>3, <4>1, <4>2
    <3>3. PlacesIn((dk \ {a}) \cup {b}, f) = (PlacesIn(dk, f) \ {from}) \cup {to}
      BY <3>2
    <3> QED  BY <2>1, <2>2, <2>3, <3>1, <3>3, Zenon DEF GoesTo
  <2>4. CASE n # <<f>>
    <3>1. \A x : x \in PlacesIn((dk \ {a}) \cup {b}, f) <=> x \in PlacesIn(dk, f)
      <4> TAKE x
      <4>1. x \in PlacesIn((dk \ {a}) \cup {b}, f)
              <=> \E e \in (dk \ {a}) \cup {b} : e.name = <<f>> /\ x = e.dir
        BY Zenon DEF PlacesIn
      <4>2. x \in PlacesIn(dk, f) <=> \E e \in dk : e.name = <<f>> /\ x = e.dir
        BY Zenon DEF PlacesIn
      <4> QED  BY <1>1, <2>4, <4>1, <4>2
    <3>2. PlacesIn((dk \ {a}) \cup {b}, f) = PlacesIn(dk, f)
      BY <3>1
    <3> QED  BY <2>1, <2>2, <2>4, <3>2, Zenon DEF GoesTo
  <2> QED  BY <2>3, <2>4
<1>6. CASE a \notin dk
  <2>1. Moved(dk, from, to, n) = dk
    BY <1>4, <1>6, Zenon
  <2>2. n = <<f>> => from \notin PlacesIn(dk, f)
    <3>1. \A e \in dk : e.name = <<f>> /\ n = <<f>> => e.dir # from
      BY <1>3, <1>6, Zenon
    <3> QED  BY <3>1, Zenon DEF PlacesIn
  <2> QED  BY <2>1, <2>2, Zenon DEF GoesTo
<1> QED  BY <1>5, <1>6
-------------------------------------------------------------------------------
\* setval writes two fields.
LEMMA SetAt ==
    ASSUME NEW d, NEW f, NEW c, NEW v, NEW a, NEW b, f # c \/ c # v, c # a \/ v # b
    PROVE  At(Set(d, f, c, v), a, b) = IF f = a /\ c = b THEN AddTo(At(d, f, c), v) ELSE At(d, a, b)
<1> DEFINE s == AddTo(At(d, f, c), v)
           e == Put(d, f, c, s)
           t == AddTo(At(e, c, v), f)
<1>1. Set(d, f, c, v) = Put(e, c, v, t)
  BY Zenon DEF Set
<1>2. At(e, a, b) = IF f = a /\ c = b THEN s ELSE At(d, a, b)
  BY PutAt
<1> HIDE DEF e, t
<1>3. At(Put(e, c, v, t), a, b) = At(e, a, b)
  BY PutElsewhere
<1> QED  BY <1>1, <1>2, <1>3, Zenon

\* The server of an entity stands in no field that leads to files.
LEMMA ServerChanged ==
    ASSUME NEW d, SaneIndex(d), NEW w, IsNamed(d, w), NEW u,
           NEW f, f # <<"name">>, w = <<Null>> => \E i \in DOMAIN Ids : f = <<Ids[i]>>,
           w # <<Null>> => f = w
    PROVE  ServerAdded(d, Set(d, f, <<"server">>, <<u>>), w, u)
<1>1. PICK c, v, n : c = <<"server">> /\ v = <<u>> /\ n = <<"name">>
  OBVIOUS
<1>2. c # n
  BY <1>1
<1>3. \A e : IsNamed(d, e) => e # c /\ e # n
  BY <1>1, Zenon DEF SaneIndex, Words
<1>4. ASSUME NEW a, NEW b, a # c
      PROVE  At(Set(d, f, c, v), a, b) = IF f = a /\ c = b THEN AddTo(At(d, f, c), v) ELSE At(d, a, b)
  <2>1. CASE f # c \/ c # v
    BY <1>4, <2>1, SetAt
  <2>2. CASE f = c /\ c = v
    <3>1. PICK s : s = AddTo(At(d, c, c), c)
      OBVIOUS
    <3>2. PICK e, t : Set(d, c, c, c) = Put(e, c, c, t) /\ e = Put(d, c, c, s)
      BY <3>1, Zenon DEF Set
    <3>3. At(Put(e, c, c, t), a, b) = At(e, a, b) /\ At(Put(d, c, c, s), a, b) = At(d, a, b)
      BY <1>4, PutElsewhere
    <3> QED  BY <1>4, <2>2, <3>2, <3>3, Zenon
  <2> QED  BY <2>1, <2>2
<1>5. \A x : At(Set(d, f, c, v), n, x) = At(d, n, x)
  BY <1>1, <1>2, <1>4, Zenon
<1>6. \A e, x : IsNamed(d, e) /\ x # c => At(Set(d, f, c, v), e, x) = At(d, e, x)
  BY <1>3, <1>4, Zenon
<1>7. ASSUME NEW e, IsNamed(d, e), \A i \in DOMAIN Ids : e # <<Ids[i]>>
      PROVE  At(Set(d, f, c, v), e, c) = IF e = w /\ w # <<Null>> THEN AddTo(At(d, e, c), v) ELSE At(d, e, c)
  <2>1. CASE w = <<Null>>
    <3>1. f # e
      BY <1>7, <2>1
    <3> QED  BY <1>3, <1>4, <1>7, <2>1, <3>1, Zenon
  <2>2. CASE w # <<Null>>
    BY <1>3, <1>4, <1>7, <2>2, Zenon
  <2> QED  BY <2>1, <2>2
<1> QED  BY <1>1, <1>5, <1>6, <1>7, Zenon DEF ServerAdded

\* A state of localizing.
IsState(st) == DOMAIN st = {"db", "disk", "next"}

LEMMA SetServerChanged ==
    ASSUME NEW st, IsState(st), SaneIndex(st.db), NEW w, IsNamed(st.db, w), NEW u,
           w = <<Null>> => st.next \in DOMAIN Ids
    PROVE  /\ IsState(SetServer(st, w, <<u>>))
           /\ ServerAdded(st.db, SetServer(st, w, <<u>>).db, w, u)
           /\ SetServer(st, w, <<u>>).disk = st.disk
           /\ SetServer(st, w, <<u>>).next \in {st.next, st.next + 1}
<1>1. PICK d, c, v, n : d = st.db /\ c = <<"server">> /\ v = <<u>> /\ n = st.next
  OBVIOUS
<1>2. PICK a, b : a = Set(d, <<Ids[n]>>, c, v) /\ b = Set(d, w, c, v)
  OBVIOUS
<1>3. /\ IsState([st EXCEPT !.db = b]) /\ [st EXCEPT !.db = b].db = b
      /\ [st EXCEPT !.db = b].disk = st.disk /\ [st EXCEPT !.db = b].next = n
      /\ IsState([st EXCEPT !.db = a, !.next = @ + 1]) /\ [st EXCEPT !.db = a, !.next = @ + 1].db = a
      /\ [st EXCEPT !.db = a, !.next = @ + 1].disk = st.disk
      /\ [st EXCEPT !.db = a, !.next = @ + 1].next = n + 1
  BY <1>1 DEF IsState
<1>4. CASE w = <<Null>>
  <2>1. SetServer(st, w, v) = [st EXCEPT !.db = a, !.next = @ + 1]
    <3>1. SetServer(st, w, v) = [st EXCEPT !.db = Set(@, <<Ids[st.next]>>, <<"server">>, v), !.next = @ + 1]
      BY <1>4, Zenon DEF SetServer
    <3> QED  BY <1>1, <1>2, <3>1
  <2>2. n \in DOMAIN Ids /\ Ids[n] # "name"
    BY <1>1, <1>4, HistoriesAssumption, Zenon
  <2>3. <<Ids[n]>> # <<"name">>
    BY <2>2
  <2>4. ServerAdded(d, a, w, u)
    BY <1>1, <1>2, <1>4, <2>2, <2>3, ServerChanged
  <2> QED  BY <1>1, <1>3, <2>1, <2>4, Zenon
<1>5. CASE w # <<Null>>
  <2>1. SetServer(st, w, v) = [st EXCEPT !.db = b]
    <3>1. SetServer(st, w, v) = [st EXCEPT !.db = Set(@, w, <<"server">>, v)]
      BY <1>5, Zenon DEF SetServer
    <3> QED  BY <1>1, <1>2, <3>1
  <2>2. w # <<"name">>
    BY Zenon DEF SaneIndex, Words
  <2>3. ServerAdded(d, b, w, u)
    BY <1>1, <1>2, <1>5, <2>2, ServerChanged
  <2> QED  BY <1>1, <1>3, <2>1, <2>3, Zenon
<1> QED  BY <1>4, <1>5
-------------------------------------------------------------------------------
\* The loop of usage_localize over the servers.
LEMMA CountLoop ==
    ASSUME NEW d, NEW e, \A j \in DOMAIN Servers : Usage(d, e, j) \in Nat
    PROVE  \E m : /\ MaxServer(d, e) = m[Len(Servers)].server
                  /\ m[0] = [usage |-> 0, server |-> 1]
                  /\ \A i \in 1..Len(Servers) :
                        m[i] = IF Usage(d, e, i) > m[i - 1].usage
                               THEN [usage |-> Usage(d, e, i), server |-> i] ELSE m[i - 1]
<1> DEFINE S == [usage : Nat, server : Nat]
           u == [j \in DOMAIN Servers |-> Usage(d, e, j)]
           F == [i \in 1..Len(Servers) |->
                    [r \in S |-> IF u[i] > r.usage THEN [usage |-> u[i], server |-> i] ELSE r]]
           x == [usage |-> 0, server |-> 1]
<1>1. PICK n : n = Len(Servers)
  OBVIOUS
<1>2. n \in Nat /\ DOMAIN Servers = 1..n /\ \A i \in 1..n : u[i] \in Nat /\ u[i] = Usage(d, e, i)
  <2>1. Servers \in Seq(Tokens)
    BY LocalizeAssumption, Zenon
  <2>2. n \in Nat /\ DOMAIN Servers = 1..n
    BY <1>1, <2>1, LenProperties
  <2> QED  BY <2>2
<1> HIDE DEF u
<1>3. F \in [1..n -> [S -> S]] /\ x \in S
  BY <1>1, <1>2
<1>4. \A i \in 1..n : \A r \in S :
          F[i][r] = IF u[i] > r.usage THEN [usage |-> u[i], server |-> i] ELSE r
  BY <1>1, Zenon
<1>5. \A i \in 0..n : i = 0 \/ (i \in 1..n /\ i - 1 \in 0..n)
  BY <1>2
<1> HIDE DEF F, S
<1>6. PICK g \in [0..n -> S] : Results(g, x, n, F)
  BY <1>2, <1>3, Loop
<1> HIDE DEF x
<1>7. \A i \in 0..n : g[i] \in S
  BY <1>6
<1>8. \A i \in 0..n : (IF i = 0 THEN x ELSE F[i][g[i - 1]]) =
          IF i = 0 THEN x
          ELSE IF Usage(d, e, i) > g[i - 1].usage THEN [usage |-> Usage(d, e, i), server |-> i]
          ELSE g[i - 1]
  <2> TAKE i \in 0..n
  <2>1. CASE i = 0
    BY <2>1, Zenon
  <2>2. CASE i # 0
    <3>1. i \in 1..n /\ g[i - 1] \in S /\ u[i] = Usage(d, e, i)
      BY <1>2, <1>5, <1>7, <2>2, Zenon
    <3> QED  BY <1>4, <2>2, <3>1, Zenon
  <2> QED  BY <2>1, <2>2
<1>9. g = [i \in 0..n |-> IF i = 0 THEN x
             ELSE IF Usage(d, e, i) > g[i - 1].usage THEN [usage |-> Usage(d, e, i), server |-> i]
             ELSE g[i - 1]]
  BY <1>6, <1>8, Zenon DEF Results
<1>10. PICK m : /\ MaxServer(d, e) = m[n].server
                /\ m = [i \in 0..n |-> IF i = 0 THEN x
                         ELSE IF Usage(d, e, i) > m[i - 1].usage
                         THEN [usage |-> Usage(d, e, i), server |-> i] ELSE m[i - 1]]
  <2> USE DEF x
  <2> QED  BY <1>1, <1>9 DEF MaxServer
<1>11. \A i \in 0..n : m[i] = IF i = 0 THEN x
            ELSE IF Usage(d, e, i) > m[i - 1].usage
            THEN [usage |-> Usage(d, e, i), server |-> i] ELSE m[i - 1]
  BY <1>10, Zenon
<1>12. 0 \in 0..n /\ \A i \in 1..n : i \in 0..n /\ i # 0
  BY <1>2
<1>13. m[0] = [usage |-> 0, server |-> 1]
  BY <1>11, <1>12, Zenon DEF x
<1>14. \A i \in 1..n : m[i] = IF Usage(d, e, i) > m[i - 1].usage
            THEN [usage |-> Usage(d, e, i), server |-> i] ELSE m[i - 1]
  BY <1>11, <1>12, Zenon
<1> QED  BY <1>1, <1>10, <1>13, <1>14, Zenon

\* The servers with the highest count.
Best(d, e) == {j \in DOMAIN Servers : \A i \in DOMAIN Servers : Usage(d, e, i) <= Usage(d, e, j)}

(***************************************************************************)
(* max_server is the first of the servers with the highest count: the loop *)
(* starts at the first with 0, and no count is lower.                      *)
(***************************************************************************)
LEMMA MostUsed ==
    ASSUME NEW d, NEW e, \A j \in DOMAIN Servers : Usage(d, e, j) \in Nat
    PROVE  MaxServer(d, e) \in DOMAIN Servers /\ MaxServer(d, e) = Min(Best(d, e))
<1>1. PICK n : n = Len(Servers)
  OBVIOUS
<1>2. PICK u : u = [j \in DOMAIN Servers |-> Usage(d, e, j)]
  OBVIOUS
<1>3. n \in Nat /\ n >= 1 /\ DOMAIN Servers = 1..n
  <2>1. Servers \in Seq(Tokens) /\ Servers # <<>>
    BY LocalizeAssumption, Zenon
  <2> QED  BY <1>1, <2>1, LenProperties, EmptySeq
<1>4. \A i \in 1..n : u[i] = Usage(d, e, i) /\ u[i] \in Nat
  BY <1>2, <1>3
<1>5. PICK m : /\ MaxServer(d, e) = m[n].server
               /\ m[0] = [usage |-> 0, server |-> 1]
               /\ \A i \in 1..n : m[i] = IF Usage(d, e, i) > m[i - 1].usage
                        THEN [usage |-> Usage(d, e, i), server |-> i] ELSE m[i - 1]
  <2>1. PICK m : /\ MaxServer(d, e) = m[Len(Servers)].server
                 /\ m[0] = [usage |-> 0, server |-> 1]
                 /\ \A i \in 1..Len(Servers) : m[i] = IF Usage(d, e, i) > m[i - 1].usage
                        THEN [usage |-> Usage(d, e, i), server |-> i] ELSE m[i - 1]
    BY CountLoop
  <2> QED  BY <1>1, <2>1, Zenon
<1>6. \A i \in 1..n : m[i] = IF u[i] > m[i - 1].usage
                        THEN [usage |-> u[i], server |-> i] ELSE m[i - 1]
  BY <1>4, <1>5, Zenon
\* After i servers: the first of those so far with the highest count, or none is used.
<1> DEFINE First(i, a, s) ==
              /\ a \in Nat /\ \A k \in 1..i : u[k] <= a
              /\ \/ a = 0 /\ s = 1
                 \/ s \in 1..i /\ u[s] = a /\ \A k \in 1..i : k < s => u[k] < a
           Q == {i \in 0..n : First(i, m[i].usage, m[i].server)}
<1>7. 0 \in Q
  <2>1. m[0].usage = 0 /\ m[0].server = 1
    BY <1>5
  <2>2. First(0, 0, 1) /\ 0 \in 0..n
    BY <1>3
  <2> HIDE DEF First
  <2> QED  BY <2>1, <2>2
<1>8. ASSUME NEW i \in 1..n, i - 1 \in Q PROVE i \in Q
  <2>1. PICK a, s : a = m[i - 1].usage /\ s = m[i - 1].server
    OBVIOUS
  <2>2. First(i - 1, a, s)
    <3> HIDE DEF First
    <3> QED  BY <1>8, <2>1
  <2>3. u[i] \in Nat /\ i \in 0..n
    BY <1>4
  <2>4. CASE u[i] > a
    <3>1. m[i].usage = u[i] /\ m[i].server = i
      <4>1. m[i] = [usage |-> u[i], server |-> i]
        BY <1>6, <2>1, <2>4, Zenon
      <4> QED  BY <4>1
    <3>2. /\ \A k \in 1..i : k = i \/ k \in 1..(i - 1)
          /\ \A k \in 1..i : k < i => k \in 1..(i - 1)
          /\ \A k \in 1..i : k \in 1..n
      BY <1>3
    <3>3. a \in Nat /\ \A k \in 1..(i - 1) : u[k] <= a
      BY <2>2
    <3>4. \A k \in 1..(i - 1) : u[k] < u[i]
      BY <1>4, <2>3, <2>4, <3>2, <3>3
    <3>5. \A k \in 1..i : u[k] <= u[i]
      BY <1>4, <2>3, <3>2, <3>4
    <3>6. First(i, u[i], i)
      <4>1. i \in 1..i
        OBVIOUS
      <4>2. \A k \in 1..i : k < i => u[k] < u[i]
        BY <3>2, <3>4, Zenon
      <4> QED  BY <2>3, <3>5, <4>1, <4>2, Zenon
    <3> HIDE DEF First
    <3> QED  BY <2>3, <3>1, <3>6
  <2>5. CASE ~(u[i] > a)
    <3>1. m[i].usage = a /\ m[i].server = s
      BY <1>6, <2>1, <2>5, Zenon
    <3>2. First(i, a, s)
      BY <1>4, <2>2, <2>3, <2>5
    <3> HIDE DEF First
    <3> QED  BY <2>3, <3>1, <3>2
  <2> QED  BY <2>4, <2>5
<1>9. First(n, m[n].usage, m[n].server)
  <2>1. \A i \in 0..n : i \in Q
    <3> HIDE DEF Q
    <3>1. \A i \in 1..n : i - 1 \in Q => i \in Q
      BY <1>8
    <3> QED  BY <1>3, <1>7, <3>1, UpTo, Zenon
  <2>2. n \in 0..n
    BY <1>3
  <2> HIDE DEF First
  <2> QED  BY <2>1, <2>2
<1>10. PICK s : s = m[n].server
  OBVIOUS
<1>11. s \in 1..n /\ \A k \in 1..n : u[k] <= u[s] /\ (k < s => u[k] < u[s])
  BY <1>3, <1>4, <1>9, <1>10
<1>12. PICK B : B = Best(d, e)
  OBVIOUS
<1>13. \A j : j \in B <=> j \in 1..n /\ \A i \in 1..n : u[i] <= u[j]
  BY <1>3, <1>4, <1>12 DEF Best
<1>14. B \subseteq Nat /\ s \in B
  BY <1>11, <1>13
<1>15. Min(B) \in B /\ \A j \in B : Min(B) <= j
  BY <1>14, MinIn
<1>16. PICK k : k = Min(B)
  OBVIOUS
<1>17. k = s
  <2>1. k \in 1..n /\ k <= s /\ u[s] <= u[k]
    BY <1>11, <1>13, <1>14, <1>15, <1>16
  <2> QED  BY <1>4, <1>11, <2>1
<1> QED  BY <1>3, <1>5, <1>10, <1>11, <1>12, <1>16, <1>17, Zenon

\* The text of a known file is read as it is stored.
LEMMA FollowsText ==
    ASSUME NEW t, NEW j \in DOMAIN Servers, NEW f, Follows(t, j, f)
    PROVE  t \in Text /\ ~NoReply(t) /\ GetVal(t) = t /\ Len(t) \in Nat /\ Len(t) >= 1
<1>1. Servers \in Seq(Tokens) /\ Servers # <<>> /\ Servers[1] # Empty
  BY LocalizeAssumption, HistoriesAssumption, Zenon
<1>2. PICK x : x = Servers[1]
  OBVIOUS
<1>3. x \in Tokens /\ x # Empty
  <2>1. 1 \in 1..Len(Servers)
    BY <1>1, LenProperties, EmptySeq
  <2> QED  BY <1>1, <1>2, <2>1, ElementOfSeq
<1>4. CASE t = <<Servers[1]>>
  <2>1. t = <<x>>
    BY <1>2, <1>4
  <2>2. t \in Seq(Tokens) /\ Len(t) = 1 /\ t # <<>> /\ t # <<Empty>>
    BY <1>3, <2>1
  <2>3. ~NoReply(t) /\ Cleanup(t) = t
    BY <2>2 DEF NoReply, Cleanup
  <2> QED  BY <2>2, <2>3 DEF GetVal, Text
<1>5. CASE t \in Text /\ Len(t) > 1 /\ t[1] = Servers[1]
  <2>1. t \in Seq(Tokens) /\ Len(t) \in Nat /\ Len(t) > 1 /\ t[1] = x
    BY <1>2, <1>5, LenProperties DEF Text
  <2>2. t # <<>> /\ t # <<Empty>>
    <3>1. ~(Len(<<>>) > 1) /\ ~(Len(<<Empty>>) > 1)
      OBVIOUS
    <3>2. t # <<>>
      BY <2>1, <3>1, Zenon
    <3>3. t # <<Empty>>
      BY <2>1, <3>1, Zenon
    <3> QED  BY <3>2, <3>3
  <2>3. Head(t) = x
    BY <2>1
  <2>4. ~NoReply(t) /\ Cleanup(t) = t
    BY <1>3, <2>2, <2>3 DEF NoReply, Cleanup
  <2> QED  BY <1>5, <2>1, <2>4 DEF GetVal
<1> QED  BY <1>4, <1>5, Zenon DEF Follows
-------------------------------------------------------------------------------
\* The data of a known file is on the server its text names first, and moves
\* from there once: a longer text is no directory.
LEMMA MovedFollows ==
    ASSUME NEW t, NEW i \in DOMAIN Servers, NEW j \in DOMAIN Servers, NEW f \in Files,
           Follows(t, i, f), NEW u, u \in {Servers[j], Under(Servers[j], <<f>>)}
    PROVE  /\ t = <<Servers[i]>> => Follows(AddTo(t, <<u>>), j, f)
           /\ t # <<Servers[i]>> => Follows(AddTo(t, <<u>>), i, f)
<1>1. t \in Text /\ ~NoReply(t) /\ Len(t) \in Nat /\ Len(t) >= 1
  BY FollowsText
<1>2. u \in Tokens
  <2>1. Servers \in Seq(Tokens) /\ Under(Servers[j], <<f>>) \in Tokens
    BY LocalizeAssumption, Zenon
  <2>2. Servers[j] \in Tokens
    BY <2>1
  <2> QED  BY <2>1, <2>2
<1>3. PICK r : r = AddTo(t, <<u>>)
  OBVIOUS
<1>4. r = Append(t, u)
  BY <1>1, <1>2, <1>3, AppendIsConcat DEF AddTo, Text
<1>5. /\ r \in Text /\ Len(r) = Len(t) + 1 /\ r[Len(t) + 1] = u
      /\ \A k \in 1..Len(t) : r[k] = t[k]
  BY <1>1, <1>2, <1>4, AppendProperties DEF Text
<1>6. Len(r) > 1 /\ r[1] = t[1]
  BY <1>1, <1>5
<1>7. ASSUME t = <<Servers[1]>>
      PROVE  Len(t) = 1 /\ t[1] = Servers[1] /\ r[2] = u
  <2>1. Len(t) = 1 /\ t[1] = Servers[1]
    BY <1>7
  <2> QED  BY <1>5, <2>1
<1>8. ASSUME Len(t) > 1 PROVE r[2] = t[2]
  BY <1>1, <1>5, <1>8
<1>9. CASE t = <<Servers[i]>>
  <2>1. Len(t) = 1 /\ t[1] = Servers[i]
    BY <1>9
  <2>2. t = <<Servers[1]>>
    BY <1>9, <2>1 DEF Follows
  <2>3. Follows(r, j, f)
    BY <1>5, <1>6, <1>7, <2>2, Zenon DEF Follows
  <2> QED  BY <1>3, <1>9, <2>3, Zenon
<1>10. CASE t # <<Servers[i]>>
  <2>1. Len(t) > 1 /\ t[1] = Servers[1] /\ t[2] \in {Servers[i], Under(Servers[i], <<f>>)}
    BY <1>10, Zenon DEF Follows
  <2>2. Follows(r, i, f)
    BY <1>5, <1>6, <1>8, <2>1, Zenon DEF Follows
  <2> QED  BY <1>3, <1>10, <2>2, Zenon
<1> QED  BY <1>9, <1>10

\* n is the name of no file but of the one whose entity w is; u is j, or n under j.
IsFileOf(d, n, w, u, j) ==
    /\ \A f \in Files : n = <<f>> => w = IdOf(d, f)
    /\ \A f \in Files : w = IdOf(d, f) /\ w # <<Null>> =>
          n = <<f>> /\ u \in {Servers[j], Under(Servers[j], <<f>>)}

\* From dk to dk2 files move to the server j if any, and only files of the entity w.
OnlyMoved(d, dk, dk2, w, j) ==
    \A f \in Files : PlacesIn(dk2, f) # PlacesIn(dk, f) =>
        PlacesIn(dk2, f) = {<<Servers[j]>>} /\ w = IdOf(d, f)

(***************************************************************************)
(* One file's localization: mv of the file n of the entity w from where    *)
(* the text of w names to the server j, and j's name behind that text.     *)
(***************************************************************************)
LEMMA OneMove ==
    ASSUME NEW d, NEW d2, NEW dk, NEW dk2, NEW w, NEW n, NEW u, NEW j \in DOMAIN Servers,
           DataInv(d, dk), IsNamed(d, w), ServerAdded(d, d2, w, u),
           dk2 = Moved(dk, GetVal(At(d, w, <<"server">>)), <<Servers[j]>>, n),
           IsFileOf(d, n, w, u, j)
    PROVE  DataInv(d2, dk2) /\ OnlyMoved(d, dk, dk2, w, j)
<1>0. /\ \A f \in Files : n = <<f>> => w = IdOf(d, f)
      /\ \A f \in Files : w = IdOf(d, f) /\ w # <<Null>> =>
            n = <<f>> /\ u \in {Servers[j], Under(Servers[j], <<f>>)}
  BY Zenon DEF IsFileOf
<1>1. PICK from, to : from = GetVal(At(d, w, <<"server">>)) /\ to = <<Servers[j]>>
  OBVIOUS
<1>2. AreFiles(dk) /\ dk2 = Moved(dk, from, to, n)
  BY <1>1, Zenon DEF DataInv
<1>3. AreFiles(dk2) /\ \A f : GoesTo(PlacesIn(dk, f), PlacesIn(dk2, f), from, to, n, f)
  BY <1>2, MovedPlaces, Zenon
<1>4. SaneIndex(d2) /\ \A f : IdOf(d2, f) = IdOf(d, f)
  BY ServerAddedNames, ChangedSane, Zenon DEF DataInv
<1>5. ASSUME NEW f \in Files
      PROVE  /\ OnServer(d2, dk2, f)
             /\ PlacesIn(dk2, f) # PlacesIn(dk, f) => PlacesIn(dk2, f) = {to} /\ w = IdOf(d, f)
  <2>1. PICK i \in DOMAIN Servers :
            /\ PlacesIn(dk, f) = {<<Servers[i]>>}
            /\ IdOf(d, f) # <<Null>> => Follows(At(d, IdOf(d, f), <<"server">>), i, f)
    BY Zenon DEF DataInv, OnServer
  <2>2. PICK P, q : P = PlacesIn(dk, f) /\ q = <<Servers[i]>>
    OBVIOUS
  <2>3. /\ n = <<f>> /\ from \in P => PlacesIn(dk2, f) = (P \ {from}) \cup {to}
        /\ n # <<f>> \/ from \notin P => PlacesIn(dk2, f) = P
    BY <1>3, <2>2, Zenon DEF GoesTo
  <2>4. P = {q}
    BY <2>1, <2>2, Zenon
  <2>5. PlacesIn(dk2, f) = IF n = <<f>> /\ from = q THEN {to} ELSE {q}
    BY <2>3, <2>4
  <2>6. PlacesIn(dk2, f) # PlacesIn(dk, f) => PlacesIn(dk2, f) = {to} /\ w = IdOf(d, f)
    BY <1>0, <2>2, <2>4, <2>5, Zenon
  <2>7. IdOf(d2, f) = IdOf(d, f)
    BY <1>4
  <2>8. PICK e : e = IdOf(d, f)
    OBVIOUS
  <2>9. IsNamed(d, e)
    BY <2>8, Zenon DEF IsNamed, IdOf
  <2>10. e # <<Null>> => \A k \in DOMAIN Ids : e # <<Ids[k]>>
    BY <2>8, Zenon DEF DataInv, SaneIndex
  <2>11. CASE e = <<Null>>
    <3>1. PlacesIn(dk2, f) = {to} \/ PlacesIn(dk2, f) = {q}
      BY <2>5, Zenon
    <3>2. \E k \in DOMAIN Servers : PlacesIn(dk2, f) = {<<Servers[k]>>}
      BY <1>1, <2>2, <3>1, Zenon
    <3>3. OnServer(d2, dk2, f)
      BY <2>7, <2>8, <2>11, <3>2, Zenon DEF OnServer
    <3> QED  BY <2>6, <3>3, Zenon
  <2>12. CASE e # <<Null>> /\ e # w
    <3>1. n # <<f>>
      BY <1>0, <2>8, <2>12, Zenon
    <3>2. At(d2, e, <<"server">>) = At(d, e, <<"server">>)
      BY <2>9, <2>10, <2>12, Zenon DEF ServerAdded
    <3> QED  BY <2>1, <2>2, <2>5, <2>6, <2>7, <2>8, <2>12, <3>1, <3>2, Zenon DEF OnServer
  <2>13. CASE e # <<Null>> /\ e = w
    <3>1. PICK t : t = At(d, e, <<"server">>)
      OBVIOUS
    <3>2. Follows(t, i, f)
      BY <2>1, <2>8, <2>13, <3>1, Zenon
    <3>3. n = <<f>> /\ u \in {Servers[j], Under(Servers[j], <<f>>)}
      BY <1>0, <2>8, <2>13, Zenon
    <3>4. At(d2, e, <<"server">>) = AddTo(t, <<u>>)
      BY <2>9, <2>10, <2>13, <3>1, Zenon DEF ServerAdded
    <3>5. from = t
      BY <1>1, <2>13, <3>1, <3>2, FollowsText, Zenon
    <3>6. /\ t = q => Follows(AddTo(t, <<u>>), j, f)
          /\ t # q => Follows(AddTo(t, <<u>>), i, f)
      BY <2>2, <3>2, <3>3, MovedFollows, Zenon
    <3>7. CASE t = q
      <4>1. PlacesIn(dk2, f) = {<<Servers[j]>>}
        BY <1>1, <2>5, <3>3, <3>5, <3>7, Zenon
      <4> QED  BY <2>6, <2>7, <2>8, <3>4, <3>6, <3>7, <4>1, Zenon DEF OnServer
    <3>8. CASE t # q
      <4>1. PlacesIn(dk2, f) = {<<Servers[i]>>}
        BY <2>2, <2>5, <3>5, <3>8, Zenon
      <4> QED  BY <2>6, <2>7, <2>8, <3>4, <3>6, <3>8, <4>1, Zenon DEF OnServer
    <3> QED  BY <3>7, <3>8
  <2> QED  BY <2>6, <2>11, <2>12, <2>13
<1> QED  BY <1>1, <1>3, <1>4, <1>5, Zenon DEF DataInv, OnlyMoved

\* Where usage_localize sends the entity e.
Target(d, e) == <<Servers[MaxServer(d, e)]>>

\* What a turn of usage_localize makes of st: files move to their targets if at all.
Turned(st, s) ==
    /\ IsState(s) /\ DataInv(s.db, s.disk) /\ s.next \in {st.next, st.next + 1}
    /\ \A e : IsNamed(s.db, e) <=> IsNamed(st.db, e)
    /\ \A f : IdOf(s.db, f) = IdOf(st.db, f)
    /\ \A e, j : IsNamed(st.db, e) /\ j \in DOMAIN Servers => Usage(s.db, e, j) = Usage(st.db, e, j)
    /\ \A f \in Files : PlacesIn(s.disk, f) # PlacesIn(st.disk, f) =>
          PlacesIn(s.disk, f) = {Target(st.db, IdOf(st.db, f))}

LEMMA LocalizedData ==
    ASSUME NEW st, IsState(st), DataInv(st.db, st.disk), NEW w, IsNamed(st.db, w),
           w = <<Null>> => st.next \in DOMAIN Ids
    PROVE  Turned(st, Localized(st, w))
<1>1. PICK d, dk, m : d = st.db /\ dk = st.disk /\ m = MaxServer(d, w)
  OBVIOUS
<1>2. DataInv(d, dk) /\ IsNamed(d, w) /\ SaneIndex(d)
  BY <1>1, Zenon DEF DataInv
<1>3. m \in DOMAIN Servers
  <2>1. \A j \in DOMAIN Servers : Usage(d, w, j) \in Nat
    BY <1>2, Zenon DEF SaneIndex
  <2> QED  BY <1>1, <2>1, MostUsed
<1>4. PICK n, from, u : /\ n = GetVal(At(d, w, <<"name">>)) /\ from = GetVal(At(d, w, <<"server">>))
                        /\ u = Under(Servers[m], n)
  OBVIOUS
<1>5. PICK dk2 : dk2 = Moved(dk, from, <<Servers[m]>>, n)
  OBVIOUS
<1>6. PICK mv : mv = [st EXCEPT !.disk = dk2]
  OBVIOUS
<1>7. IsState(mv) /\ mv.db = d /\ mv.disk = dk2 /\ mv.next = st.next
  BY <1>1, <1>6 DEF IsState
<1>8. Localized(st, w) = IF from = <<Servers[m]>> THEN st ELSE SetServer(mv, w, <<u>>)
  <2>1. [st EXCEPT !.disk = Moved(@, from, <<Servers[m]>>, n)] = mv
    BY <1>1, <1>5, <1>6
  <2> QED  BY <1>1, <1>4, <2>1, Zenon DEF Localized
<1>9. CASE from = <<Servers[m]>>
  BY <1>1, <1>2, <1>8, <1>9, Zenon DEF Turned
<1>10. CASE from # <<Servers[m]>>
  <2>1. PICK s : s = SetServer(mv, w, <<u>>)
    OBVIOUS
  <2>2. /\ IsState(s) /\ ServerAdded(d, s.db, w, u) /\ s.disk = dk2 /\ s.next \in {st.next, st.next + 1}
    <3>1. SaneIndex(mv.db) /\ IsNamed(mv.db, w) /\ (w = <<Null>> => mv.next \in DOMAIN Ids)
      BY <1>2, <1>7, Zenon
    <3>2. /\ IsState(s) /\ ServerAdded(mv.db, s.db, w, u) /\ s.disk = mv.disk
          /\ s.next \in {mv.next, mv.next + 1}
      BY <1>7, <2>1, <3>1, SetServerChanged
    <3> QED  BY <1>7, <3>2
  <2>3. \A f \in Files : n = <<f>> => w = IdOf(d, f)
    BY <1>2, <1>4, Zenon DEF SaneIndex
  <2>4. \A f \in Files : w = IdOf(d, f) /\ w # <<Null>> =>
            n = <<f>> /\ u \in {Servers[m], Under(Servers[m], <<f>>)}
    <3> TAKE f \in Files
    <3> HAVE w = IdOf(d, f) /\ w # <<Null>>
    <3>1. n = <<f>>
      BY <1>2, <1>4, Zenon DEF SaneIndex
    <3>2. u = Under(Servers[m], <<f>>)
      BY <1>4, <3>1, Zenon
    <3> QED  BY <3>1, <3>2
  <2>5. DataInv(s.db, s.disk) /\ OnlyMoved(d, dk, s.disk, w, m)
    <3>1. s.disk = Moved(dk, GetVal(At(d, w, <<"server">>)), <<Servers[m]>>, n)
      BY <1>4, <1>5, <2>2, Zenon
    <3>2. IsFileOf(d, n, w, u, m)
      BY <2>3, <2>4, Zenon DEF IsFileOf
    <3> QED  BY <1>2, <1>3, <2>2, <3>1, <3>2, OneMove, Zenon
  <2>6. /\ \A e : IsNamed(s.db, e) <=> IsNamed(d, e)
        /\ \A f : IdOf(s.db, f) = IdOf(d, f)
        /\ \A e, j : IsNamed(d, e) /\ j \in DOMAIN Servers => Usage(s.db, e, j) = Usage(d, e, j)
    BY <2>2, ServerAddedNames
  <2>7. \A f \in Files : PlacesIn(s.disk, f) # PlacesIn(dk, f) =>
            PlacesIn(s.disk, f) = {Target(d, IdOf(d, f))}
    BY <1>1, <2>5, Zenon DEF Target, OnlyMoved
  <2>8. Localized(st, w) = s
    BY <1>8, <1>10, <2>1, Zenon
  <2> QED  BY <1>1, <2>2, <2>5, <2>6, <2>7, <2>8, Zenon DEF Turned
<1> QED  BY <1>9, <1>10
-------------------------------------------------------------------------------
\* What counts do not change, the choice of a server does not change.
LEMMA SameTarget ==
    ASSUME NEW d, NEW d2, SaneIndex(d), NEW e, IsNamed(d, e),
           \A j \in DOMAIN Servers : Usage(d2, e, j) = Usage(d, e, j)
    PROVE  Target(d2, e) = Target(d, e)
<1>1. \A j \in DOMAIN Servers : Usage(d, e, j) \in Nat /\ Usage(d2, e, j) \in Nat
  BY Zenon DEF SaneIndex
<1>2. Best(d2, e) = Best(d, e)
  BY Zenon DEF Best
<1>3. MaxServer(d, e) = Min(Best(d, e)) /\ MaxServer(d2, e) = Min(Best(d2, e))
  BY <1>1, MostUsed
<1> QED  BY <1>2, <1>3, Zenon DEF Target

\* After n turns that started with d and dk, and with the id k next.
Localizing(st, d, dk, k, n) ==
    /\ IsState(st) /\ DataInv(st.db, st.disk)
    /\ st.next \in Nat /\ k <= st.next /\ st.next <= k + n
    /\ \A e : IsNamed(st.db, e) <=> IsNamed(d, e)
    /\ \A f : IdOf(st.db, f) = IdOf(d, f)
    /\ \A e, j : IsNamed(d, e) /\ j \in DOMAIN Servers => Usage(st.db, e, j) = Usage(d, e, j)
    /\ \A f \in Files : PlacesIn(st.disk, f) # PlacesIn(dk, f) =>
          PlacesIn(st.disk, f) = {Target(d, IdOf(d, f))}

LEMMA OneTurn ==
    ASSUME NEW st, NEW d, NEW dk, NEW k \in Nat, NEW n \in Nat, SaneIndex(d),
           Localizing(st, d, dk, k, n), k >= 1, k + n <= Len(Ids), NEW w, IsNamed(d, w)
    PROVE  Localizing(Localized(st, w), d, dk, k, n + 1)
<1>1. PICK s : s = Localized(st, w)
  OBVIOUS
<1>2. /\ IsState(st) /\ DataInv(st.db, st.disk) /\ IsNamed(st.db, w)
      /\ st.next \in Nat /\ k <= st.next /\ st.next <= k + n
  BY Zenon DEF Localizing
<1>3. st.next \in DOMAIN Ids
  <2>1. Ids \in Seq(Tokens)
    BY LocalizeAssumption, Zenon
  <2>2. DOMAIN Ids = 1..Len(Ids) /\ Len(Ids) \in Nat
    BY <2>1, LenProperties
  <2> QED  BY <1>2, <2>2
<1>4. Turned(st, s)
  BY <1>1, <1>2, <1>3, LocalizedData, Zenon
<1>5. /\ IsState(s) /\ DataInv(s.db, s.disk) /\ s.next \in {st.next, st.next + 1}
      /\ \A e : IsNamed(s.db, e) <=> IsNamed(st.db, e)
      /\ \A f : IdOf(s.db, f) = IdOf(st.db, f)
      /\ \A e, j : IsNamed(st.db, e) /\ j \in DOMAIN Servers => Usage(s.db, e, j) = Usage(st.db, e, j)
      /\ \A f \in Files : PlacesIn(s.disk, f) # PlacesIn(st.disk, f) =>
            PlacesIn(s.disk, f) = {Target(st.db, IdOf(st.db, f))}
  BY <1>4, Zenon DEF Turned
<1>6. s.next \in Nat /\ k <= s.next /\ s.next <= k + (n + 1)
  BY <1>2, <1>5
<1>7. ASSUME NEW f \in Files, PlacesIn(s.disk, f) # PlacesIn(dk, f)
      PROVE  PlacesIn(s.disk, f) = {Target(d, IdOf(d, f))}
  <2>1. IdOf(st.db, f) = IdOf(d, f) /\ IsNamed(d, IdOf(d, f))
    BY Zenon DEF Localizing, IsNamed, IdOf
  <2>2. \A j \in DOMAIN Servers : Usage(st.db, IdOf(d, f), j) = Usage(d, IdOf(d, f), j)
    BY <2>1, Zenon DEF Localizing
  <2>3. Target(st.db, IdOf(d, f)) = Target(d, IdOf(d, f))
    BY <2>1, <2>2, SameTarget
  <2>4. CASE PlacesIn(s.disk, f) = PlacesIn(st.disk, f)
    BY <1>7, <2>4, Zenon DEF Localizing
  <2>5. CASE PlacesIn(s.disk, f) # PlacesIn(st.disk, f)
    BY <1>5, <2>1, <2>3, <2>5
  <2> QED  BY <2>4, <2>5
<1>8. /\ \A e : IsNamed(s.db, e) <=> IsNamed(d, e)
      /\ \A f : IdOf(s.db, f) = IdOf(d, f)
      /\ \A e, j : IsNamed(d, e) /\ j \in DOMAIN Servers => Usage(s.db, e, j) = Usage(d, e, j)
  <2>1. /\ \A e : IsNamed(st.db, e) <=> IsNamed(d, e)
        /\ \A f : IdOf(st.db, f) = IdOf(d, f)
        /\ \A e, j : IsNamed(d, e) /\ j \in DOMAIN Servers => Usage(st.db, e, j) = Usage(d, e, j)
    BY Zenon DEF Localizing
  <2> QED  BY <1>5, <2>1
<1> QED  BY <1>1, <1>5, <1>6, <1>7, <1>8, Zenon DEF Localizing

(***************************************************************************)
(* A whole call of usage_localize, however many files are listed.          *)
(***************************************************************************)
LEMMA AllData ==
    ASSUME DirInv, DataInv(db, disk), next \in Nat, next >= 1,
           NEW files \in GetAllFiles,
           next + Cardinality(KeysOf(<<"all_mp3s">>)) <= Len(Ids) + 1
    PROVE  Localizing(LocalizedAll(files), db, disk, next, Len(files))
<1>1. PICK n, k : n = Len(files) /\ k = next
  OBVIOUS
<1>2. n \in Nat /\ k \in Nat /\ k >= 1 /\ k + n <= Len(Ids) + 1
  <2>1. /\ n \in Nat /\ Cardinality(KeysOf(<<"all_mp3s">>)) \in Nat
        /\ n <= Cardinality(KeysOf(<<"all_mp3s">>))
    BY <1>1, DirInvParts, FilesListed
  <2>2. Len(Ids) \in Nat
    <3>1. Ids \in Seq(Tokens)
      BY LocalizeAssumption, Zenon
    <3> QED  BY <3>1, LenProperties
  <2> QED  BY <1>1, <2>1, <2>2
<1>3. PICK l : /\ LocalizedAll(files) = l[n]
               /\ \A i \in 0..n : l[i] = IF i = 0 THEN Before ELSE Localized(l[i - 1], files[i])
  <2>1. PICK l : /\ LocalizedAll(files) = l[Len(files)]
                 /\ \A i \in 0..Len(files) :
                       l[i] = IF i = 0 THEN Before ELSE Localized(l[i - 1], files[i])
    BY <1>1, <1>2, AllSteps
  <2> QED  BY <1>1, <2>1, Zenon
<1>4. \A i \in 1..n : IsNamed(db, files[i])
  <2>1. \A i \in 1..n : \E t \in KeysOf(<<"all_mp3s">>) : files[i] = Lookup(<<"name">>, <<t>>)
    BY <1>1, DirInvParts, FilesNamed, Zenon
  <2> QED  BY <2>1, Zenon DEF IsNamed, Lookup
<1> DEFINE Q == {i \in 0..n : Localizing(l[i], db, disk, k, i)}
<1>5. 0 \in Q
  <2>1. 0 \in 0..n
    BY <1>2
  <2>2. PICK b : b = Before
    OBVIOUS
  <2>3. IsState(b) /\ b.db = db /\ b.disk = disk /\ b.next = k
    BY <1>1, <2>2 DEF IsState, Before
  <2>4. k <= k /\ k <= k + 0
    BY <1>2
  <2>5. Localizing(b, db, disk, k, 0)
    BY <1>2, <2>3, <2>4, Zenon DEF Localizing
  <2> QED  BY <1>3, <2>1, <2>2, <2>5, Zenon
<1>6. ASSUME NEW i \in 1..n, i - 1 \in Q PROVE i \in Q
  <2>1. i \in 0..n /\ i # 0 /\ i - 1 \in Nat /\ (i - 1) + 1 = i
    BY <1>2
  <2>2. k + (i - 1) <= Len(Ids)
    <3>1. Ids \in Seq(Tokens)
      BY LocalizeAssumption, Zenon
    <3>2. Len(Ids) \in Nat
      BY <3>1, LenProperties
    <3> QED  BY <1>2, <3>2
  <2>3. PICK m : m = i - 1
    OBVIOUS
  <2>4. m \in Nat /\ m + 1 = i /\ k + m <= Len(Ids) /\ Localizing(l[m], db, disk, k, m)
    BY <1>6, <2>1, <2>2, <2>3
  <2>5. IsNamed(db, files[i]) /\ SaneIndex(db)
    BY <1>4, Zenon DEF DataInv
  <2>6. Localizing(Localized(l[m], files[i]), db, disk, k, m + 1)
    BY <1>2, <2>4, <2>5, OneTurn
  <2> QED  BY <1>3, <2>1, <2>3, <2>4, <2>6, Zenon
<1>7. n \in Q
  <2> HIDE DEF Q
  <2>1. \A i \in 1..n : i - 1 \in Q => i \in Q
    BY <1>6
  <2>2. \A i \in 0..n : i \in Q
    BY <1>2, <1>5, <2>1, UpTo, Zenon
  <2> QED  BY <1>2, <2>2
<1> QED  BY <1>1, <1>3, <1>7, Zenon
-------------------------------------------------------------------------------
\* The inductive invariant: where the data is and, for the ids that are left, next.
PlaceInv ==
    /\ DirInv
    /\ DataInv(db, disk)
    /\ next \in Nat /\ next >= 1

\* The histories leave an index in which nothing has been moved yet.
LEMMA SaneHistory ==
    ASSUME NEW h \in Histories
    PROVE  /\ SaneIndex(Done(h))
           /\ \A f \in Files : IdOf(Done(h), f) # <<Null>> =>
                 At(Done(h), IdOf(Done(h), f), <<"server">>) = <<Servers[1]>>
<1>1. PICK d : d = Done(h)
  OBVIOUS
<1>2. /\ Named(d) \cap {<<"name">>, <<"server">>, <<"paths">>, <<"alldirs">>} = {}
      /\ At(d, <<Null>>, <<"server">>) = <<>>
      /\ \A e \in Named(d), j \in DOMAIN Servers : Usage(d, e, j) \in Nat
      /\ \A f \in Files :
            /\ IdOf(d, f) = <<Null>> \/ Known(d, f)
            /\ \A e \in Named(d) : GetVal(At(d, e, <<"name">>)) = <<f>> => e = IdOf(d, f)
  BY <1>1, HistoriesAssumption, Zenon
<1>3. ASSUME NEW e, IsNamed(d, e) PROVE e \in Named(d)
  <2>1. CASE e = <<Null>>
    BY <2>1 DEF Named
  <2>2. CASE \E x : e = GetVal(At(d, <<"name">>, x))
    <3>1. PICK x : e = GetVal(At(d, <<"name">>, x))
      BY <2>2
    <3>2. CASE <<<<"name">>, x>> \in DOMAIN d
      <4>1. PICK k : k = <<<<"name">>, x>>
        OBVIOUS
      <4>2. k[1] = <<"name">>
        BY <4>1
      <4>3. e = GetVal(d[k]) /\ k \in DOMAIN d
        BY <3>1, <3>2, <4>1, Zenon DEF At
      <4> QED  BY <4>2, <4>3, Zenon DEF Named
    <3>3. CASE <<<<"name">>, x>> \notin DOMAIN d
      <4>1. e = GetVal(<<>>)
        BY <3>1, <3>3, Zenon DEF At
      <4>2. NoReply(<<>>) /\ Cleanup(<<Null>>) = <<Null>>
        BY DEF NoReply, Cleanup
      <4>3. e = <<Null>>
        BY <4>1, <4>2, Zenon DEF GetVal
      <4> QED  BY <4>3 DEF Named
    <3> QED  BY <3>2, <3>3
  <2> QED  BY <1>3, <2>1, <2>2, Zenon DEF IsNamed
<1>4. \A e : IsNamed(d, e) => e \notin Words
  <2>1. Named(d) \cap Words = {}
    BY <1>2, Zenon DEF Words
  <2> QED  BY <1>3, <2>1
<1>5. \A e, j : IsNamed(d, e) /\ j \in DOMAIN Servers => Usage(d, e, j) \in Nat
  BY <1>2, <1>3, Zenon
<1>6. \A f \in Files : \A e :
          IsNamed(d, e) /\ GetVal(At(d, e, <<"name">>)) = <<f>> => e = IdOf(d, f)
  BY <1>2, <1>3, Zenon
<1>7. \A f \in Files : IdOf(d, f) # <<Null>> =>
          /\ GetVal(At(d, IdOf(d, f), <<"name">>)) = <<f>>
          /\ \A i \in DOMAIN Ids : IdOf(d, f) # <<Ids[i]>>
          /\ At(d, IdOf(d, f), <<"server">>) = <<Servers[1]>>
  BY <1>2, Zenon DEF Known
<1> QED  BY <1>1, <1>2, <1>4, <1>5, <1>6, <1>7, Zenon DEF SaneIndex

LEMMA InitPlaceInv ==
    ASSUME Init
    PROVE  PlaceInv
<1>1. PICK h \in Histories : db = Done(h)
  BY Zenon DEF Init
<1>2. /\ SaneIndex(db)
      /\ \A f \in Files : IdOf(db, f) # <<Null>> =>
            At(db, IdOf(db, f), <<"server">>) = <<Servers[1]>>
  BY <1>1, SaneHistory
<1>3. disk = {[dir |-> <<Servers[1]>>, name |-> <<f>>] : f \in Files} /\ next = 1
  BY DEF Init
<1>4. PICK q : q = <<Servers[1]>>
  OBVIOUS
<1>5. \A e : e \in disk <=> \E f \in Files : e = [dir |-> q, name |-> <<f>>]
  BY <1>3, <1>4, Zenon
<1>6. AreFiles(disk)
  <2>1. \A f \in Files : LET e == [dir |-> q, name |-> <<f>>] IN e = [dir |-> e.dir, name |-> e.name]
    OBVIOUS
  <2> QED  BY <1>5, <2>1, Zenon DEF AreFiles
<1>7. ASSUME NEW f \in Files PROVE PlacesIn(disk, f) = {q}
  <2>1. \A e \in disk : e.dir = q
    BY <1>5
  <2>2. \E e \in disk : e.name = <<f>>
    <3>1. PICK e : e = [dir |-> q, name |-> <<f>>]
      OBVIOUS
    <3>2. e \in disk /\ e.name = <<f>>
      BY <1>5, <3>1
    <3> QED  BY <3>2
  <2>3. \A x : x \in PlacesIn(disk, f) <=> x = q
    BY <2>1, <2>2, Zenon DEF PlacesIn
  <2> QED  BY <2>3
<1>8. 1 \in DOMAIN Servers
  <2>1. Servers \in Seq(Tokens) /\ Servers # <<>>
    BY LocalizeAssumption, Zenon
  <2> QED  BY <2>1, LenProperties, EmptySeq
<1>9. \A f \in Files : OnServer(db, disk, f)
  BY <1>2, <1>4, <1>7, <1>8, Zenon DEF OnServer, Follows
<1>10. next \in Nat /\ next >= 1
  BY <1>3
<1> QED  BY <1>2, <1>6, <1>9, <1>10, InitDirInv, Zenon DEF PlaceInv, DataInv

\* A step that changes no file's server.
LEMMA ElsewhereData ==
    ASSUME NEW d, NEW d2, NEW dk, DataInv(d, dk), NEW u, ServerAdded(d, d2, <<Null>>, u)
    PROVE  DataInv(d2, dk)
<1>1. SaneIndex(d2) /\ \A f : IdOf(d2, f) = IdOf(d, f)
  BY ServerAddedNames, ChangedSane, Zenon DEF DataInv
<1>2. ASSUME NEW f \in Files PROVE OnServer(d2, dk, f)
  <2>1. IsNamed(d, IdOf(d, f))
    BY Zenon DEF IsNamed, IdOf
  <2>2. IdOf(d, f) # <<Null>> => \A k \in DOMAIN Ids : IdOf(d, f) # <<Ids[k]>>
    BY Zenon DEF DataInv, SaneIndex
  <2>3. IdOf(d, f) # <<Null>> =>
            At(d2, IdOf(d, f), <<"server">>) = At(d, IdOf(d, f), <<"server">>)
    BY <2>1, <2>2, Zenon DEF ServerAdded
  <2>4. IdOf(d2, f) = IdOf(d, f) /\ OnServer(d, dk, f)
    BY <1>1, Zenon DEF DataInv
  <2> QED  BY <2>3, <2>4, Zenon DEF OnServer
<1> QED  BY <1>1, <1>2, Zenon DEF DataInv

\* The list of directories is none of the texts that are about files.
LEMMA ListChanged ==
    ASSUME NEW d, NEW d2, SaneIndex(d), NEW u,
           \A a, b : a \notin {<<"alldirs">>, <<"paths">>} => At(d2, a, b) = At(d, a, b)
    PROVE  ServerAdded(d, d2, <<Null>>, u)
<1>1. <<"name">> \notin {<<"alldirs">>, <<"paths">>}
  OBVIOUS
<1>2. \A e : IsNamed(d, e) => e \notin {<<"alldirs">>, <<"paths">>}
  <2>1. \A e : IsNamed(d, e) => e \notin Words
    BY Zenon DEF SaneIndex
  <2> QED  BY <2>1 DEF Words
<1> QED  BY <1>1, <1>2, Zenon DEF ServerAdded

LEMMA MkdirPlaceInv ==
    ASSUME PlaceInv, NEW d \in Dirs, Mkdir(d)
    PROVE  PlaceInv'
<1>1. UNCHANGED <<disk, next>> /\ (UNCHANGED db \/ db' = Set(db, <<"alldirs">>, <<"paths">>, <<d>>))
  BY Zenon DEF Mkdir
<1>2. DirInv'
  BY MkdirDirInv DEF PlaceInv
<1>3. CASE UNCHANGED db
  BY <1>1, <1>2, <1>3, Zenon DEF PlaceInv
<1>4. CASE db' = Set(db, <<"alldirs">>, <<"paths">>, <<d>>)
  <2>1. PICK h, f, v, n : h = <<"alldirs">> /\ f = <<"paths">> /\ v = <<d>> /\ n = db'
    OBVIOUS
  <2>2. h # f /\ n = Set(db, h, f, v)
    BY <1>4, <2>1
  <2>3. ASSUME NEW a, NEW b, a \notin {h, f} PROVE At(n, a, b) = At(db, a, b)
    BY <2>2, <2>3, SetAt
  <2>4. \A a, b : a \notin {<<"alldirs">>, <<"paths">>} => At(n, a, b) = At(db, a, b)
    BY <2>1, <2>3, Zenon
  <2>5. SaneIndex(db) /\ DataInv(db, disk)
    BY Zenon DEF PlaceInv, DataInv
  <2>6. \A u : ServerAdded(db, n, <<Null>>, u)
    BY <2>4, <2>5, ListChanged
  <2>7. DataInv(n, disk)
    BY <2>5, <2>6, ElsewhereData
  <2> QED  BY <1>1, <1>2, <2>1, <2>7, Zenon DEF PlaceInv
<1> QED  BY <1>1, <1>3, <1>4

LEMMA RmdirPlaceInv ==
    ASSUME PlaceInv, NEW d \in Dirs, Rmdir(d)
    PROVE  PlaceInv'
<1>1. UNCHANGED <<disk, next>> /\ db' = Remove(db, <<"alldirs">>, <<"paths">>, <<d>>)
  BY Zenon DEF Rmdir
<1>2. DirInv'
  BY RmdirDirInv DEF PlaceInv
<1>3. PICK h, f, v, n : h = <<"alldirs">> /\ f = <<"paths">> /\ v = <<d>> /\ n = db'
  OBVIOUS
<1>4. PICK s, r : s = At(db, h, f) /\ r = EraseFrom(s, v)
  OBVIOUS
<1>5. PICK e, t : /\ n = Put(e, f, v, t)
                  /\ e = IF NoReply(s) THEN db
                         ELSE IF r = <<Empty>> THEN Drop(db, h, f) ELSE Put(db, h, f, r)
  BY <1>1, <1>3, <1>4, Zenon DEF Remove
<1>6. ASSUME NEW a, NEW b, a \notin {h, f} PROVE At(n, a, b) = At(db, a, b)
  <2>1. At(n, a, b) = At(e, a, b)
    BY <1>5, <1>6, PutElsewhere
  <2>2. CASE e = db
    BY <2>1, <2>2
  <2>3. CASE e = Drop(db, h, f)
    <3>1. DOMAIN e = DOMAIN db \ {<<h, f>>} /\ \A k \in DOMAIN db \ {<<h, f>>} : e[k] = db[k]
      BY <2>3 DEF Drop
    <3>2. <<a, b>> # <<h, f>>
      BY <1>6
    <3> QED  BY <2>1, <3>1, <3>2 DEF At
  <2>4. CASE e = Put(db, h, f, r)
    BY <1>6, <2>1, <2>4, PutElsewhere
  <2> QED  BY <1>5, <2>2, <2>3, <2>4, Zenon
<1>7. \A a, b : a \notin {<<"alldirs">>, <<"paths">>} => At(n, a, b) = At(db, a, b)
  BY <1>3, <1>6, Zenon
<1>8. SaneIndex(db) /\ DataInv(db, disk)
  BY Zenon DEF PlaceInv, DataInv
<1>9. \A u : ServerAdded(db, n, <<Null>>, u)
  BY <1>7, <1>8, ListChanged
<1>10. DataInv(n, disk)
  BY <1>8, <1>9, ElsewhereData
<1> QED  BY <1>1, <1>2, <1>3, <1>10, Zenon DEF PlaceInv
-------------------------------------------------------------------------------
LEMMA UsagePlaceInv ==
    ASSUME PlaceInv, MkdirUsage
    PROVE  /\ PlaceInv'
           /\ \A f \in Files : PlacesIn(disk', f) # PlacesIn(disk, f) =>
                 PlacesIn(disk', f) = {Target(db, IdOf(db, f))}
<1>1. PICK files \in GetAllFiles :
          /\ db' = LocalizedAll(files).db /\ disk' = LocalizedAll(files).disk
          /\ next' = LocalizedAll(files).next
          /\ next + Cardinality(KeysOf(<<"all_mp3s">>)) <= Len(Ids) + 1
  BY Zenon DEF MkdirUsage, Begin
<1>2. PICK l, n : l = LocalizedAll(files) /\ n = Len(files)
  OBVIOUS
<1>3. Localizing(l, db, disk, next, n)
  <2>1. Localizing(LocalizedAll(files), db, disk, next, Len(files))
    BY <1>1, AllData DEF PlaceInv
  <2> QED  BY <1>2, <2>1, Zenon
<1>4. db' = l.db /\ disk' = l.disk /\ next' = l.next
  BY <1>1, <1>2, Zenon
<1>5. /\ DataInv(l.db, l.disk) /\ l.next \in Nat /\ next <= l.next
      /\ \A f \in Files : PlacesIn(l.disk, f) # PlacesIn(disk, f) =>
            PlacesIn(l.disk, f) = {Target(db, IdOf(db, f))}
  BY <1>3, Zenon DEF Localizing
<1>6. l.next >= 1
  BY <1>5 DEF PlaceInv
<1>7. DirInv'
  BY UsageDirInv DEF PlaceInv
<1> QED  BY <1>4, <1>5, <1>6, <1>7, Zenon DEF PlaceInv

LEMMA LocalizePlaceInv ==
    ASSUME PlaceInv, MkdirLocalize
    PROVE  PlaceInv'
<1>1. PICK w, server : w = IdOf(db, Winter) /\ server = GetVal(At(db, w, <<"server">>))
  OBVIOUS
<1>2. Lookup(<<"name">>, <<Winter>>) = w /\ Lookup(w, <<"server">>) = server
  BY <1>1, Zenon DEF Lookup, IdOf
<1>3. PICK j \in DOMAIN Servers :
          \/ UNCHANGED <<db, disk, next>>
          \/ \E l : /\ l = SetServer([db |-> db, disk |-> Moved(disk, server, <<Servers[j]>>, <<Winter>>),
                                      next |-> next], w, <<Servers[j]>>)
                    /\ db' = l.db /\ disk' = l.disk /\ next' = l.next
  BY <1>2, Zenon DEF MkdirLocalize
<1>4. DirInv'
  BY LocalizeDirInv DEF PlaceInv
<1>5. SaneIndex(db) /\ DataInv(db, disk) /\ IsNamed(db, w) /\ Winter \in Files
  BY <1>1, LocalizeAssumption, Zenon DEF PlaceInv, DataInv, IsNamed, IdOf
<1>6. CASE UNCHANGED <<db, disk, next>>
  <2>1. db' = db /\ disk' = disk /\ next' = next
    BY <1>6
  <2> QED  BY <1>4, <2>1, Zenon DEF PlaceInv
<1>7. CASE \E l : /\ l = SetServer([db |-> db, disk |-> Moved(disk, server, <<Servers[j]>>, <<Winter>>),
                                    next |-> next], w, <<Servers[j]>>)
                  /\ db' = l.db /\ disk' = l.disk /\ next' = l.next
  <2>1. PICK x, dk2 : x = Servers[j] /\ dk2 = Moved(disk, server, <<Servers[j]>>, <<Winter>>)
    OBVIOUS
  <2>2. PICK st : st = [db |-> db, disk |-> dk2, next |-> next]
    OBVIOUS
  <2>3. PICK l : l = SetServer(st, w, <<x>>) /\ db' = l.db /\ disk' = l.disk /\ next' = l.next
    BY <1>7, <2>1, <2>2, Zenon
  <2>4. IsState(st) /\ st.db = db /\ st.disk = dk2 /\ st.next = next
    BY <2>2 DEF IsState
  <2>5. next \in DOMAIN Ids
    <3>1. Ids \in Seq(Tokens) /\ next <= Len(Ids)
      BY LocalizeAssumption, Zenon DEF MkdirLocalize, Begin
    <3>2. DOMAIN Ids = 1..Len(Ids) /\ Len(Ids) \in Nat
      BY <3>1, LenProperties
    <3> QED  BY <3>1, <3>2 DEF PlaceInv
  <2>6. ServerAdded(db, l.db, w, x) /\ l.disk = dk2 /\ l.next \in {next, next + 1}
    <3>1. SaneIndex(st.db) /\ IsNamed(st.db, w) /\ st.next \in DOMAIN Ids
      BY <1>5, <2>4, <2>5, Zenon
    <3>2. /\ ServerAdded(st.db, l.db, w, x) /\ l.disk = st.disk /\ l.next \in {st.next, st.next + 1}
      BY <2>3, <2>4, <3>1, SetServerChanged
    <3> QED  BY <2>4, <3>2
  <2>7. IsFileOf(db, <<Winter>>, w, x, j)
    <3>1. ASSUME NEW f \in Files, <<Winter>> = <<f>> PROVE w = IdOf(db, f)
      <4>1. f = Winter
        BY <3>1
      <4> QED  BY <1>1, <4>1
    <3>2. ASSUME NEW f \in Files, w = IdOf(db, f), w # <<Null>>
          PROVE  <<Winter>> = <<f>> /\ x \in {Servers[j], Under(Servers[j], <<f>>)}
      <4>1. GetVal(At(db, w, <<"name">>)) = <<f>> /\ GetVal(At(db, w, <<"name">>)) = <<Winter>>
        BY <1>1, <1>5, <3>2, Zenon DEF SaneIndex
      <4> QED  BY <2>1, <4>1
    <3> QED  BY <3>1, <3>2, Zenon DEF IsFileOf
  <2>8. DataInv(l.db, dk2)
    <3>1. dk2 = Moved(disk, GetVal(At(db, w, <<"server">>)), <<Servers[j]>>, <<Winter>>)
      BY <1>1, <2>1, Zenon
    <3>2. PICK d2 : d2 = l.db
      OBVIOUS
    <3>3. ServerAdded(db, d2, w, x)
      BY <2>6, <3>2
    <3> QED  BY <1>5, <2>7, <3>1, <3>2, <3>3, OneMove, Zenon
  <2>9. l.next \in Nat /\ l.next >= 1
    BY <2>6 DEF PlaceInv
  <2> QED  BY <1>4, <2>3, <2>6, <2>8, <2>9, Zenon DEF PlaceInv
<1> QED  BY <1>3, <1>6, <1>7

LEMMA AlwaysPlaceInv == Spec => []PlaceInv
<1>1. Init => PlaceInv
  BY InitPlaceInv
<1>2. PlaceInv /\ [Next]_vars => PlaceInv'
  <2> SUFFICES ASSUME PlaceInv, [Next]_vars PROVE PlaceInv'
    OBVIOUS
  <2>1. CASE MkdirUsage
    BY <2>1, UsagePlaceInv
  <2>2. CASE MkdirLocalize
    BY <2>2, LocalizePlaceInv
  <2>3. ASSUME NEW d \in Dirs, Mkdir(d) PROVE PlaceInv'
    BY <2>3, MkdirPlaceInv
  <2>4. ASSUME NEW d \in Dirs, Rmdir(d) PROVE PlaceInv'
    BY <2>4, RmdirPlaceInv
  <2>5. CASE UNCHANGED vars
    <3>1. db' = db /\ disk' = disk /\ next' = next /\ made' = made
      BY <2>5 DEF vars
    <3>2. DirInv'
      BY <3>1, DirInvParts, ListKept, Zenon DEF Alldirs, FieldTokens, PlaceInv
    <3> QED  BY <3>1, <3>2, Zenon DEF PlaceInv
  <2> QED  BY <2>1, <2>2, <2>3, <2>4, <2>5, Zenon DEF Next
<1> QED  BY <1>1, <1>2, PTL DEF Spec

(***************************************************************************)
(* DataFollowsServer, whatever the servers, the files, the counts and what *)
(* clients did before, as long as a file has one entity: however often and *)
(* in whatever order files are localized (usage_localize, xmp_mkdir), the  *)
(* data of a file is on one server, the one its text names first or second.*)
(***************************************************************************)
THEOREM LocalizeDataFollowsServer == Spec => []DataFollowsServer
<1>1. ASSUME PlaceInv PROVE DataFollowsServer
  <2>1. SUFFICES ASSUME NEW f \in Files
                 PROVE  LET s == ServerText(f)
                            at == IF Len(s) = 1 THEN s[1] ELSE s[2]
                        IN  /\ Cardinality(PlacesOf(f)) = 1
                            /\ s # <<Null>> => \E j \in DOMAIN Servers :
                                  /\ PlacesOf(f) = {<<Servers[j]>>}
                                  /\ at \in {Servers[j], Under(Servers[j], <<f>>)}
    BY Zenon DEF DataFollowsServer
  <2>2. PICK e, s : e = IdOf(db, f) /\ s = GetVal(At(db, e, <<"server">>))
    OBVIOUS
  <2>3. ServerText(f) = s
    BY <2>2, Zenon DEF ServerText, Lookup, IdOf
  <2>4. PICK j \in DOMAIN Servers :
            /\ PlacesIn(disk, f) = {<<Servers[j]>>}
            /\ e # <<Null>> => Follows(At(db, e, <<"server">>), j, f)
    BY <1>1, <2>2, Zenon DEF PlaceInv, DataInv, OnServer
  <2>5. PlacesOf(f) = {<<Servers[j]>>}
    BY <2>4, Zenon DEF PlacesOf, PlacesIn
  <2>6. Cardinality(PlacesOf(f)) = 1
    BY <2>5, FS_Singleton
  <2>7. CASE e = <<Null>>
    <3>1. s = GetVal(<<>>)
      BY <1>1, <2>2, <2>7, Zenon DEF PlaceInv, DataInv, SaneIndex
    <3>2. NoReply(<<>>) /\ Cleanup(<<Null>>) = <<Null>>
      BY DEF NoReply, Cleanup
    <3>3. s = <<Null>>
      BY <3>1, <3>2, Zenon DEF GetVal
    <3> QED  BY <2>3, <2>6, <3>3, Zenon
  <2>8. CASE e # <<Null>>
    <3>1. PICK t : t = At(db, e, <<"server">>)
      OBVIOUS
    <3>2. Follows(t, j, f)
      BY <2>4, <2>8, <3>1, Zenon
    <3>3. s = t
      BY <2>2, <3>1, <3>2, FollowsText, Zenon
    <3>4. Len(<<Servers[1]>>) = 1 /\ <<Servers[1]>>[1] = Servers[1]
      OBVIOUS
    <3>5. Len(s) > 1 => Len(s) # 1
      OBVIOUS
    <3>6. (IF Len(s) = 1 THEN s[1] ELSE s[2]) \in {Servers[j], Under(Servers[j], <<f>>)}
      BY <3>2, <3>3, <3>4, <3>5, Zenon DEF Follows
    <3> QED  BY <2>3, <2>5, <2>6, <3>6, Zenon
  <2> QED  BY <2>7, <2>8
<1> QED  BY <1>1, AlwaysPlaceInv, PTL

(***************************************************************************)
(* GoesWhereUsed, for the same histories: data that a call with "usage"    *)
(* moves goes to the first server with the highest count, as the counts    *)
(* stand when the call begins, whatever was localized before in that call. *)
(***************************************************************************)
THEOREM LocalizeGoesWhereUsed == Spec => GoesWhereUsed
<1>1. PlaceInv /\ [Next]_vars =>
        [\A f \in Files :
            MkdirUsage /\ PlacesOf(f)' # PlacesOf(f) =>
                LET u == [j \in DOMAIN Servers |-> Usage(db, Lookup(<<"name">>, <<f>>), j)]
                    best == {j \in DOMAIN Servers : \A i \in DOMAIN Servers : u[i] <= u[j]}
                IN  PlacesOf(f)' = {<<Servers[Min(best)]>>}]_vars
  <2> SUFFICES ASSUME PlaceInv, NEW f \in Files, MkdirUsage, PlacesOf(f)' # PlacesOf(f)
               PROVE  LET u == [j \in DOMAIN Servers |-> Usage(db, Lookup(<<"name">>, <<f>>), j)]
                          best == {j \in DOMAIN Servers : \A i \in DOMAIN Servers : u[i] <= u[j]}
                      IN  PlacesOf(f)' = {<<Servers[Min(best)]>>}
    BY Zenon
  <2> DEFINE e == Lookup(<<"name">>, <<f>>)
             u == [j \in DOMAIN Servers |-> Usage(db, e, j)]
             best == {j \in DOMAIN Servers : \A i \in DOMAIN Servers : u[i] <= u[j]}
  <2>1. PlacesOf(f)' = PlacesIn(disk', f) /\ PlacesOf(f) = PlacesIn(disk, f)
    BY Zenon DEF PlacesOf, PlacesIn
  <2>2. PlacesOf(f)' = {Target(db, IdOf(db, f))}
    BY <2>1, UsagePlaceInv, Zenon
  <2>3. e = IdOf(db, f) /\ IsNamed(db, e)
    BY Zenon DEF Lookup, IdOf, IsNamed
  <2> HIDE DEF e
  <2>4. best = Best(db, e)
    BY Zenon DEF Best
  <2> HIDE DEF best
  <2>5. \A j \in DOMAIN Servers : Usage(db, e, j) \in Nat
    BY <2>3, Zenon DEF PlaceInv, DataInv, SaneIndex
  <2>6. MaxServer(db, e) = Min(best)
    BY <2>4, <2>5, MostUsed
  <2>7. PlacesOf(f)' = {<<Servers[Min(best)]>>}
    BY <2>2, <2>3, <2>6, Zenon DEF Target
  <2> QED  BY <2>7, Zenon DEF best, e
<1> QED  BY <1>1, AlwaysPlaceInv, PTL DEF Spec, GoesWhereUsed
==============================================================================
