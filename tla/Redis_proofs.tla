---------------------------- MODULE Redis_proofs -----------------------------
(***************************************************************************)
(* Proofs about RedisStore: the type invariant, and that a single calling  *)
(* thread keeps the two views of the index in agreement.  Proofs about     *)
(* FileIds: however many entities one thread makes and however often it is *)
(* killed, the stored counter is one plain numeral or absent, covers the   *)
(* ids handed out, and an id is used again only after a kill that found    *)
(* the counter removed.                                                    *)
(***************************************************************************)
EXTENDS FileIds, Text_proofs

\* The parts of a triple, and that its two fields are different fields.
LEMMA TripleParts ==
    ASSUME NEW x \in Triples
    PROVE  /\ x[1] \in Entities /\ x[2] \in Attrs /\ x[3] \in Vals
           /\ x = <<x[1], x[2], x[3]>>
           /\ x[1] \in Tokens \ {Empty, Null} /\ x[3] \in Tokens
           /\ EntityField(x) \in Keys \X Fields
           /\ ColField(x) \in Keys \X Fields
           /\ \A y \in Triples : EntityField(x) # ColField(y)
BY StoreAssumption DEF Triples, EntityField, ColField, Keys, Fields

LEMMA ReadType ==
    ASSUME TypeOK, NEW t \in Threads, NEW from, NEW text \in Text,
           NEW next \in Steps, Read(t, from, text, next)
    PROVE  TypeOK'
BY DEF TypeOK, Read

LEMMA WriteType ==
    ASSUME TypeOK, NEW t \in Threads, NEW from, NEW kn \in Keys \X Fields,
           NEW text \in Text, NEW next \in Steps, Write(t, from, kn, text, next)
    PROVE  TypeOK'
<1>1. <<>> \in Text
  BY DEF Text
<1> QED
  BY <1>1 DEF TypeOK, Write

LEMMA CommandType ==
    ASSUME TypeOK, NEW t \in Threads, Command(t)
    PROVE  TypeOK'
<1> DEFINE x == at[t]
<1>1. /\ x \in Triples
      /\ got[t] \in Text
      /\ x[1] \in Tokens /\ x[3] \in Tokens
      /\ EntityField(x) \in Keys \X Fields
      /\ ColField(x) \in Keys \X Fields
  BY TripleParts DEF TypeOK
<1>2. db[EntityField(x)] \in Text /\ db[ColField(x)] \in Text
  BY <1>1 DEF TypeOK
<1> HIDE DEF x
<1>3. <<>> \in Text
  BY DEF Text
<1>4. CASE SetHGet(t)
  BY <1>2, <1>4, ReadType DEF SetHGet, Steps, x
<1>5. CASE SetHSet(t)
  <2>1. Joined(got[t], x[3]) \in Text
    BY <1>1, JoinedText
  <2> QED
    BY <1>1, <1>5, <2>1, WriteType DEF SetHSet, Steps, x
<1>6. CASE SetHGetCol(t)
  BY <1>2, <1>6, ReadType DEF SetHGetCol, Steps, x
<1>7. CASE SetHSetCol(t)
  <2>1. Joined(got[t], x[1]) \in Text
    BY <1>1, JoinedText
  <2> QED
    BY <1>1, <1>7, <2>1, WriteType DEF SetHSetCol, Steps, x
<1>8. CASE RemoveHGet(t)
  BY <1>2, <1>8, ReadType DEF RemoveHGet, Steps, x
<1>9. CASE RemoveHSet(t)
  <2>1. Erased(got[t], x[3]) \in Text
    BY <1>1, ErasedText
  <2> QED
    BY <1>1, <1>3, <1>9, <2>1, WriteType DEF RemoveHSet, Steps, x
<1>10. CASE RemoveGetVal(t)
  <2>1. GetVal(db[ColField(x)]) \in Text
    BY <1>2, GetValText
  <2> QED
    BY <1>10, <2>1, ReadType DEF RemoveGetVal, Steps, x
<1>11. CASE RemoveHSetCol(t)
  <2>1. Erased(got[t], x[1]) \in Text
    BY <1>1, ErasedText
  <2> QED
    BY <1>1, <1>11, <2>1, WriteType DEF RemoveHSetCol, Steps, x
<1> QED
  BY <1>4, <1>5, <1>6, <1>7, <1>8, <1>9, <1>10, <1>11 DEF Command

LEMMA CallType ==
    ASSUME TypeOK, NEW t \in Threads, NEW x \in Triples, NEW first \in Steps,
           Call(t, x, first)
    PROVE  TypeOK'
BY DEF TypeOK, Call

LEMMA CrashType == ASSUME TypeOK, Crash PROVE TypeOK'
<1>1. <<>> \in Text
  BY DEF Text
<1> QED
  BY <1>1 DEF TypeOK, Crash, Steps

LEMMA TypeStep == TypeOK /\ [Next]_vars => TypeOK'
<1> SUFFICES ASSUME TypeOK, [Next]_vars PROVE TypeOK'
  OBVIOUS
<1>1. CASE UNCHANGED vars
  BY <1>1 DEF TypeOK, vars
<1>2. CASE Crash
  BY <1>2, CrashType
<1>3. ASSUME NEW t \in Threads, Command(t) PROVE TypeOK'
  BY <1>3, CommandType
<1>4. ASSUME NEW t \in Threads, NEW x \in Triples,
             CallSetval(t, x) \/ CallRemoveVal(t, x)
      PROVE  TypeOK'
  BY <1>4, CallType DEF CallSetval, CallRemoveVal, Steps
<1> QED
  BY <1>1, <1>2, <1>3, <1>4 DEF Next

LEMMA TypeInit == Init => TypeOK
<1> SUFFICES ASSUME Init PROVE TypeOK
  OBVIOUS
<1>1. Triples # {}
  <2>1. PICK f \in Entities, c \in Attrs, v \in Vals : TRUE
    BY StoreAssumption
  <2>2. <<f, c, v>> \in Triples
    BY <2>1 DEF Triples
  <2> QED
    BY <2>2
<1>2. <<>> \in Text
  BY DEF Text
<1> QED
  BY <1>1, <1>2 DEF Init, TypeOK, Steps

(***************************************************************************)
(* Whatever the threads, the overlaps between tokens and the crashes, the  *)
(* database only ever holds lists of tokens, under its keys and fields.    *)
(***************************************************************************)
THEOREM TypeCorrect == Spec => []TypeOK
BY TypeInit, TypeStep, PTL DEF Spec
------------------------------------------------------------------------------
(***************************************************************************)
(* How the four write commands change the two views, when tokens do not    *)
(* overlap and the reply they use is still what the field says.            *)
(***************************************************************************)
\* A write to an entity's field leaves the second view alone.
LEMMA EntityWrite ==
    ASSUME TypeOK, NEW a \in Triples, NEW text \in Text,
           db' = [db EXCEPT ![EntityField(a)] = text],
           NEW x \in Triples
    PROVE  /\ Listed(x)' = IF EntityField(x) = EntityField(a)
                           THEN Occ(text, x[3]) ELSE Listed(x)
           /\ Indexed(x)' = Indexed(x)
<1>1. /\ EntityField(x) \in Keys \X Fields
      /\ ColField(x) \in Keys \X Fields
      /\ ColField(x) # EntityField(a)
  BY TripleParts
<1>2. db'[EntityField(x)] =
         IF EntityField(x) = EntityField(a) THEN text ELSE db[EntityField(x)]
  BY <1>1 DEF TypeOK
<1>3. db'[ColField(x)] = db[ColField(x)]
  BY <1>1 DEF TypeOK
<1> QED
  BY <1>2, <1>3 DEF Listed, Indexed

\* A write to a column's field leaves the first view alone.
LEMMA ColWrite ==
    ASSUME TypeOK, NEW a \in Triples, NEW text \in Text,
           db' = [db EXCEPT ![ColField(a)] = text],
           NEW x \in Triples
    PROVE  /\ Indexed(x)' = IF ColField(x) = ColField(a)
                            THEN Occ(text, x[1]) ELSE Indexed(x)
           /\ Listed(x)' = Listed(x)
<1>1. /\ EntityField(x) \in Keys \X Fields
      /\ ColField(x) \in Keys \X Fields
      /\ EntityField(x) # ColField(a)
  BY TripleParts
<1>2. db'[ColField(x)] =
         IF ColField(x) = ColField(a) THEN text ELSE db[ColField(x)]
  BY <1>1 DEF TypeOK
<1>3. db'[EntityField(x)] = db[EntityField(x)]
  BY <1>1 DEF TypeOK
<1> QED
  BY <1>2, <1>3 DEF Listed, Indexed

LEMMA CountsNat ==
    ASSUME TypeOK, NEW x \in Triples
    PROVE  Listed(x) \in Nat /\ Indexed(x) \in Nat
<1>1. db[EntityField(x)] \in Text /\ db[ColField(x)] \in Text
  BY TripleParts DEF TypeOK
<1> QED
  BY <1>1, OccNat DEF Listed, Indexed

LEMMA SetHSetEffect ==
    ASSUME TypeOK, GotFresh, NEW t \in Threads, SetHSet(t), NEW x \in Facts
    PROVE  /\ Listed(x)' = Listed(x) + IF x = at[t] THEN 1 ELSE 0
           /\ Indexed(x)' = Indexed(x)
<1> DEFINE a == at[t]
           text == Joined(got[t], a[3])
<1>1. a \in Triples /\ x \in Triples /\ x[3] # Empty
  BY DEF TypeOK, Facts
<1>2. got[t] = db[EntityField(a)] /\ got[t] \in Text
  BY DEF GotFresh, SetHSet, Write, TypeOK
<1>3. a[3] \in Tokens
  BY <1>1, TripleParts
<1>4. text \in Text
  BY <1>2, <1>3, JoinedText
<1>5. db' = [db EXCEPT ![EntityField(a)] = text]
  BY DEF SetHSet, Write
<1>6. Occ(text, x[3]) = Occ(got[t], x[3]) + IF x[3] = a[3] THEN 1 ELSE 0
  BY <1>1, <1>2, <1>3, OccJoined
<1> HIDE DEF a, text
<1>7. /\ Listed(x)' = IF EntityField(x) = EntityField(a)
                      THEN Occ(text, x[3]) ELSE Listed(x)
      /\ Indexed(x)' = Indexed(x)
  BY <1>1, <1>4, <1>5, EntityWrite
<1>8. x = a <=> EntityField(x) = EntityField(a) /\ x[3] = a[3]
  BY <1>1, TripleParts DEF EntityField
<1>9. EntityField(x) = EntityField(a) => Occ(got[t], x[3]) = Listed(x)
  BY <1>2 DEF Listed
<1>10. Listed(x) \in Nat
  BY <1>1, CountsNat
<1> QED
  BY <1>6, <1>7, <1>8, <1>9, <1>10 DEF a

LEMMA SetHSetColEffect ==
    ASSUME TypeOK, GotFresh, NEW t \in Threads, SetHSetCol(t), NEW x \in Facts
    PROVE  /\ Indexed(x)' = Indexed(x) + IF x = at[t] THEN 1 ELSE 0
           /\ Listed(x)' = Listed(x)
<1> DEFINE a == at[t]
           text == Joined(got[t], a[1])
<1>1. a \in Triples /\ x \in Triples
  BY DEF TypeOK, Facts
<1>2. got[t] = db[ColField(a)] /\ got[t] \in Text
  BY DEF GotFresh, SetHSetCol, Write, TypeOK
<1>3. a[1] \in Tokens /\ x[1] # Empty
  BY <1>1, TripleParts
<1>4. text \in Text
  BY <1>2, <1>3, JoinedText
<1>5. db' = [db EXCEPT ![ColField(a)] = text]
  BY DEF SetHSetCol, Write
<1>6. Occ(text, x[1]) = Occ(got[t], x[1]) + IF x[1] = a[1] THEN 1 ELSE 0
  BY <1>2, <1>3, OccJoined
<1> HIDE DEF a, text
<1>7. /\ Indexed(x)' = IF ColField(x) = ColField(a)
                       THEN Occ(text, x[1]) ELSE Indexed(x)
      /\ Listed(x)' = Listed(x)
  BY <1>1, <1>4, <1>5, ColWrite
<1>8. x = a <=> ColField(x) = ColField(a) /\ x[1] = a[1]
  BY <1>1, TripleParts DEF ColField
<1>9. ColField(x) = ColField(a) => Occ(got[t], x[1]) = Indexed(x)
  BY <1>2 DEF Indexed
<1>10. Indexed(x) \in Nat
  BY <1>1, CountsNat
<1> QED
  BY <1>6, <1>7, <1>8, <1>9, <1>10 DEF a

LEMMA RemoveHSetEffect ==
    ASSUME WholeTokens, TypeOK, GotFresh, NEW t \in Threads, RemoveHSet(t),
           NEW x \in Facts
    PROVE  /\ Listed(x)' = IF x = at[t] /\ Listed(x) > 0
                           THEN Listed(x) - 1 ELSE Listed(x)
           /\ Indexed(x)' = Indexed(x)
<1> DEFINE a == at[t]
           left == Erased(got[t], a[3])
           text == IF left = <<Empty>> THEN <<>> ELSE left
<1>1. a \in Triples /\ x \in Triples /\ x[3] # Empty
  BY DEF TypeOK, Facts
<1>2. got[t] = db[EntityField(a)] /\ got[t] \in Text
  BY DEF GotFresh, RemoveHSet, Write, TypeOK
<1>3. a[3] \in Tokens
  BY <1>1, TripleParts
<1>4. left \in Text /\ <<>> \in Text
  BY <1>2, <1>3, ErasedText DEF Text
<1>5. db' = [db EXCEPT ![EntityField(a)] = text]
  BY DEF RemoveHSet, Write
<1>6. Occ(left, x[3]) = IF x[3] = a[3] /\ Occ(got[t], x[3]) > 0
                        THEN Occ(got[t], x[3]) - 1 ELSE Occ(got[t], x[3])
  BY <1>1, <1>2, <1>3, OccErased
<1> HIDE DEF a, left
<1>7. text \in Text
  BY <1>4
<1>8. Occ(text, x[3]) = Occ(left, x[3])
  BY <1>1, <1>4, OccNoReply DEF NoReply
<1> HIDE DEF text
<1>9. /\ Listed(x)' = IF EntityField(x) = EntityField(a)
                      THEN Occ(text, x[3]) ELSE Listed(x)
      /\ Indexed(x)' = Indexed(x)
  BY <1>1, <1>5, <1>7, EntityWrite
<1>10. x = a <=> EntityField(x) = EntityField(a) /\ x[3] = a[3]
  BY <1>1, TripleParts DEF EntityField
<1>11. EntityField(x) = EntityField(a) => Occ(got[t], x[3]) = Listed(x)
  BY <1>2 DEF Listed
<1> QED
  BY <1>6, <1>8, <1>9, <1>10, <1>11 DEF a

LEMMA RemoveHSetColEffect ==
    ASSUME WholeTokens, TypeOK, GotFresh, NEW t \in Threads, RemoveHSetCol(t),
           NEW x \in Facts
    PROVE  /\ Indexed(x)' = IF x = at[t] /\ Indexed(x) > 0
                            THEN Indexed(x) - 1 ELSE Indexed(x)
           /\ Listed(x)' = Listed(x)
<1> DEFINE a == at[t]
           text == Erased(got[t], a[1])
<1>1. a \in Triples /\ x \in Triples
  BY DEF TypeOK, Facts
<1>2. /\ got[t] = GetVal(db[ColField(a)])
      /\ got[t] \in Text
      /\ db[ColField(a)] \in Text
  BY <1>1, TripleParts DEF GotFresh, RemoveHSetCol, Write, TypeOK
<1>3. a[1] \in Tokens /\ x[1] \notin {Empty, Null}
  BY <1>1, TripleParts
<1>4. text \in Text
  BY <1>2, <1>3, ErasedText
<1>5. db' = [db EXCEPT ![ColField(a)] = text]
  BY DEF RemoveHSetCol, Write
<1>6. Occ(text, x[1]) = IF x[1] = a[1] /\ Occ(got[t], x[1]) > 0
                        THEN Occ(got[t], x[1]) - 1 ELSE Occ(got[t], x[1])
  BY <1>2, <1>3, OccErased
<1> HIDE DEF a, text
<1>7. /\ Indexed(x)' = IF ColField(x) = ColField(a)
                       THEN Occ(text, x[1]) ELSE Indexed(x)
      /\ Listed(x)' = Listed(x)
  BY <1>1, <1>4, <1>5, ColWrite
<1>8. x = a <=> ColField(x) = ColField(a) /\ x[1] = a[1]
  BY <1>1, TripleParts DEF ColField
<1>9. ColField(x) = ColField(a) => Occ(got[t], x[1]) = Indexed(x)
  BY <1>2, <1>3, OccGetVal DEF Indexed
<1> QED
  BY <1>6, <1>7, <1>8, <1>9 DEF a
------------------------------------------------------------------------------
(***************************************************************************)
(* SerialInv is inductive: one lemma per kind of step.                     *)
(***************************************************************************)
LEMMA OneHalfway ==
    ASSUME Serial, NEW t \in Threads
    PROVE  /\ Halfway = IF step[t] \in BetweenViews THEN {at[t]} ELSE {}
           /\ Halfway' = IF step'[t] \in BetweenViews THEN {at'[t]} ELSE {}
BY DEF Serial, Halfway, BetweenViews

\* Steps that leave the database alone leave both views alone.
LEMMA SameViews ==
    ASSUME db' = db, NEW x
    PROVE  Listed(x)' = Listed(x) /\ Indexed(x)' = Indexed(x)
BY DEF Listed, Indexed, EntityField, ColField

LEMMA CallInv ==
    ASSUME Serial, SerialInv, NEW t \in Threads, NEW x \in Triples,
           CallSetval(t, x) \/ CallRemoveVal(t, x)
    PROVE  SerialInv'
<1>1. PICK first \in {"set_hget", "rem_hget"} : Call(t, x, first)
  BY DEF CallSetval, CallRemoveVal
<1>2. TypeOK'
  BY <1>1, CallType DEF SerialInv, Steps
<1>3. /\ db' = db /\ torn' = torn
      /\ step[t] = "idle" /\ step'[t] = first
  BY <1>1 DEF Call, SerialInv, TypeOK
<1>4. Halfway = {} /\ Halfway' = {}
  BY <1>3, OneHalfway DEF BetweenViews
<1>5. Mirror'
  BY <1>3, <1>4, SameViews DEF Mirror, SerialInv, Facts, Within
<1>6. GotFresh' /\ HalfwayDue'
  BY <1>3 DEF GotFresh, HalfwayDue, Serial, BetweenViews
<1> QED
  BY <1>2, <1>5, <1>6 DEF SerialInv

\* A read command that does not change which triple is half way.
LEMMA ReadInv ==
    ASSUME Serial, SerialInv, NEW t \in Threads, NEW from, NEW text \in Text,
           NEW next \in Steps, Read(t, from, text, next),
           from \in BetweenViews <=> next \in BetweenViews,
           from = "set_hget_col" <=> next = "set_hset_col",
           next \in {"set_hset", "rem_hset"} => text = db[EntityField(at[t])],
           next = "set_hset_col" => text = db[ColField(at[t])],
           next = "rem_hset_col" => text = GetVal(db[ColField(at[t])]),
           from \notin {"set_hset_col"}, next \notin {"set_hget_col"}
    PROVE  SerialInv'
<1>1. TypeOK'
  BY ReadType DEF SerialInv
<1>2. /\ db' = db /\ torn' = torn /\ at' = at
      /\ step[t] = from /\ step'[t] = next /\ got'[t] = text
  BY DEF Read, SerialInv, TypeOK
<1>3. Halfway' = Halfway
  BY <1>2, OneHalfway
<1>4. Mirror'
  BY <1>2, <1>3, SameViews DEF Mirror, SerialInv, Facts, Within
<1>5. GotFresh'
  BY <1>2 DEF GotFresh, Serial, EntityField, ColField
<1>6. HalfwayDue'
  <2>1. Listed(at[t])' = Listed(at[t]) /\ Indexed(at[t])' = Indexed(at[t])
    BY <1>2 DEF Listed, Indexed, EntityField, ColField
  <2>2. Due(t)' = Due(t)
    BY <1>2, <2>1 DEF Due
  <2> QED
    BY <1>2, <2>1, <2>2 DEF HalfwayDue, SerialInv, Serial, Facts, Within
<1> QED
  BY <1>1, <1>4, <1>5, <1>6 DEF SerialInv

\* redis_remove_val finds nothing under the entity: the call is half way at once.
LEMMA RemoveNothingInv ==
    ASSUME Serial, SerialInv, NEW t \in Threads, RemoveHGet(t),
           NoReply(db[EntityField(at[t])])
    PROVE  SerialInv'
<1>0. PICK a \in Triples : a = at[t]
  BY DEF SerialInv, TypeOK
<1>1. TypeOK'
  BY CommandType DEF SerialInv, Command
<1>2. /\ db' = db /\ torn' = torn /\ at' = at
      /\ step[t] = "rem_hget" /\ step'[t] = "rem_getval"
  BY <1>0 DEF RemoveHGet, Read, SerialInv, TypeOK
<1>3. Halfway = {} /\ Halfway' = {a}
  BY <1>0, <1>2, OneHalfway DEF BetweenViews
<1>4. Mirror'
  BY <1>0, <1>2, <1>3, SameViews DEF Mirror, SerialInv, Facts, Within
<1>5. GotFresh'
  BY <1>0, <1>2 DEF GotFresh, Serial
<1>6. ASSUME a \in Facts
      PROVE  Within(Listed(a), Due(t)', torn[a])
  <2>1. a \in Triples /\ a[3] # Empty /\ db[EntityField(a)] \in Text
    BY <1>0, <1>6, TripleParts DEF Facts, SerialInv, TypeOK
  <2>2. Listed(a) = 0
    BY <1>0, <2>1, OccNoReply DEF Listed
  <2>3. Within(0, Indexed(a), torn[a]) /\ Indexed(a) \in Nat /\ torn[a] \in Nat
    BY <1>0, <1>3, <1>6, <2>1, <2>2, CountsNat DEF SerialInv, Mirror, TypeOK
  <2>4. Due(t)' = IF Indexed(a) > 0 THEN Indexed(a) - 1 ELSE 0
    BY <1>0, <1>2 DEF Due, Indexed, ColField
  <2> QED
    BY <1>0, <2>2, <2>3, <2>4 DEF Within
<1>7. HalfwayDue'
  <2>1. Listed(a)' = Listed(a) /\ at'[t] = a /\ torn'[a] = torn[a]
    BY <1>0, <1>2, SameViews
  <2>2. ASSUME a \in Facts PROVE Within(Listed(at[t])', Due(t)', torn'[a])
    BY <1>0, <1>2, <1>6, <2>1, <2>2 DEF Listed, EntityField
  <2> QED
    BY <1>0, <1>2, <2>2 DEF HalfwayDue, Serial, Facts
<1> QED
  BY <1>0, <1>1, <1>4, <1>5, <1>7 DEF SerialInv

\* The first view is updated: its triple is half way, and due the same change.
LEMMA EntityWriteInv ==
    ASSUME Serial, WholeTokens, SerialInv, NEW t \in Threads,
           SetHSet(t) \/ RemoveHSet(t)
    PROVE  SerialInv'
<1>0. PICK a \in Triples : a = at[t]
  BY DEF SerialInv, TypeOK
<1>1. TypeOK'
  BY CommandType DEF SerialInv, Command
<1>2. /\ torn' = torn /\ at' = at
      /\ \/ step[t] = "set_hset" /\ step'[t] = "set_hget_col"
         \/ step[t] = "rem_hset" /\ step'[t] = "rem_getval"
  BY <1>0 DEF SetHSet, RemoveHSet, Write, SerialInv, TypeOK
<1>3. Halfway = {} /\ Halfway' = {a}
  BY <1>0, <1>2, OneHalfway DEF BetweenViews
<1>4. \A x \in Facts :
         /\ Indexed(x)' = Indexed(x)
         /\ x # a => Listed(x)' = Listed(x)
  <2> TAKE x \in Facts
  <2>1. CASE SetHSet(t)
    <3>1. /\ Listed(x)' = Listed(x) + IF x = at[t] THEN 1 ELSE 0
          /\ Indexed(x)' = Indexed(x)
      BY <2>1, SetHSetEffect DEF SerialInv
    <3>2. Listed(x) \in Nat
      BY CountsNat DEF SerialInv, Facts
    <3> QED
      BY <1>0, <3>1, <3>2
  <2>2. CASE RemoveHSet(t)
    BY <1>0, <2>2, RemoveHSetEffect DEF SerialInv
  <2> QED
    BY <2>1, <2>2
<1>5. Mirror'
  BY <1>0, <1>2, <1>3, <1>4 DEF Mirror, SerialInv, Facts, Within
<1>6. GotFresh'
  BY <1>0, <1>2 DEF GotFresh, Serial
<1>7. ASSUME a \in Facts
      PROVE  Within(Listed(a)', Due(t)', torn[a])
  <2>1. /\ Listed(a) \in Nat /\ Indexed(a) \in Nat /\ torn[a] \in Nat
        /\ Within(Listed(a), Indexed(a), torn[a])
    BY <1>0, <1>3, <1>7, CountsNat DEF SerialInv, Mirror, TypeOK, Facts
  <2>2. Indexed(at[t])' = Indexed(a)
    BY <1>0, <1>2, <1>4, <1>7 DEF Indexed, ColField
  <2>3. CASE SetHSet(t)
    <3>1. Listed(a)' = Listed(a) + 1
      BY <1>0, <1>7, <2>3, SetHSetEffect DEF SerialInv
    <3>2. Due(t)' = Indexed(a) + 1
      BY <1>0, <1>2, <2>2, <2>3 DEF Due, SetHSet, Write
    <3> QED
      BY <1>0, <2>1, <3>1, <3>2 DEF Within
  <2>4. CASE RemoveHSet(t)
    <3>1. Listed(a)' = IF Listed(a) > 0 THEN Listed(a) - 1 ELSE Listed(a)
      BY <1>0, <1>7, <2>4, RemoveHSetEffect DEF SerialInv
    <3>2. Due(t)' = IF Indexed(a) > 0 THEN Indexed(a) - 1 ELSE 0
      BY <1>0, <1>2, <2>2, <2>4 DEF Due, RemoveHSet, Write
    <3> QED
      BY <1>0, <2>1, <3>1, <3>2 DEF Within
  <2> QED
    BY <1>0, <2>3, <2>4
<1>8. HalfwayDue'
  <2>1. Listed(at[t])' = Listed(a)' /\ at'[t] = a /\ torn'[a] = torn[a]
    BY <1>0, <1>2 DEF Listed, EntityField
  <2> QED
    BY <1>0, <1>2, <1>7, <2>1 DEF HalfwayDue, Serial, Facts
<1> QED
  BY <1>0, <1>1, <1>5, <1>6, <1>8 DEF SerialInv

\* The second view is updated: it gets what it was due, and the call returns.
LEMMA ColWriteInv ==
    ASSUME Serial, WholeTokens, SerialInv, NEW t \in Threads,
           SetHSetCol(t) \/ RemoveHSetCol(t)
    PROVE  SerialInv'
<1>0. PICK a \in Triples : a = at[t]
  BY DEF SerialInv, TypeOK
<1>1. TypeOK'
  BY CommandType DEF SerialInv, Command
<1>2. /\ torn' = torn /\ at' = at /\ step'[t] = "idle"
      /\ \/ SetHSetCol(t) /\ step[t] = "set_hset_col"
         \/ RemoveHSetCol(t) /\ step[t] = "rem_hset_col"
  BY <1>0 DEF SetHSetCol, RemoveHSetCol, Write, SerialInv, TypeOK
<1>3. Halfway = {a} /\ Halfway' = {}
  BY <1>0, <1>2, OneHalfway DEF BetweenViews
<1>4. \A x \in Facts :
         /\ Listed(x)' = Listed(x)
         /\ x # a => Indexed(x)' = Indexed(x)
  <2> TAKE x \in Facts
  <2>1. CASE SetHSetCol(t)
    <3>1. /\ Indexed(x)' = Indexed(x) + IF x = at[t] THEN 1 ELSE 0
          /\ Listed(x)' = Listed(x)
      BY <2>1, SetHSetColEffect DEF SerialInv
    <3>2. Indexed(x) \in Nat
      BY CountsNat DEF SerialInv, Facts
    <3> QED
      BY <1>0, <3>1, <3>2
  <2>2. CASE RemoveHSetCol(t)
    BY <1>0, <2>2, RemoveHSetColEffect DEF SerialInv
  <2> QED
    BY <2>1, <2>2
<1>5. ASSUME a \in Facts
      PROVE  Within(Listed(a), Indexed(a)', torn[a])
  <2>1. Listed(a) \in Nat /\ Indexed(a) \in Nat /\ torn[a] \in Nat
    BY <1>0, <1>5, CountsNat DEF SerialInv, TypeOK, Facts
  <2>2. Within(Listed(a), Due(t), torn[a])
    BY <1>0, <1>2, <1>5 DEF SerialInv, HalfwayDue, BetweenViews
  <2>3. Indexed(a)' = Due(t)
    BY <1>0, <1>2, <1>5, <2>1, SetHSetColEffect, RemoveHSetColEffect
       DEF Due, SerialInv
  <2> QED
    BY <1>0, <2>2, <2>3
<1>6. Mirror'
  <2> SUFFICES ASSUME NEW x \in Facts
               PROVE  Within(Listed(x)', Indexed(x)', torn'[x])
    BY <1>0 DEF Mirror, Facts, Listed, Indexed, EntityField, ColField
  <2>1. CASE x = a
    BY <1>0, <1>2, <1>4, <1>5, <2>1
  <2>2. CASE x # a
    BY <1>0, <1>2, <1>3, <1>4, <2>2 DEF SerialInv, Mirror
  <2> QED
    BY <1>0, <2>1, <2>2
<1>7. GotFresh' /\ HalfwayDue'
  BY <1>0, <1>2 DEF GotFresh, HalfwayDue, Serial, BetweenViews
<1> QED
  BY <1>0, <1>1, <1>6, <1>7 DEF SerialInv

\* A crash makes the half way triple, if there is one, drift by one at most.
LEMMA CrashInv ==
    ASSUME Serial, SerialInv, Crash
    PROVE  SerialInv'
<1>1. TypeOK'
  BY CrashType DEF SerialInv
<1>2. PICK t \in Threads : step[t] # "idle"
  BY DEF Crash
<1>3. /\ db' = db /\ at' = at /\ step'[t] = "idle"
      /\ \A x \in Triples :
            torn'[x] = IF x \in Halfway THEN torn[x] + 1 ELSE torn[x]
  BY <1>2 DEF Crash
<1>4. Mirror'
  <2> SUFFICES ASSUME NEW x \in Facts
               PROVE  Within(Listed(x)', Indexed(x)', torn'[x])
    BY DEF Mirror, Facts, Listed, Indexed, EntityField, ColField
  <2>1. /\ Listed(x) \in Nat /\ Indexed(x) \in Nat /\ torn[x] \in Nat
        /\ x \in Triples
    BY CountsNat DEF SerialInv, TypeOK, Facts
  <2>2. Listed(x)' = Listed(x) /\ Indexed(x)' = Indexed(x)
    BY <1>3, SameViews
  <2>3. CASE x \in Halfway
    <3>1. x = at[t] /\ step[t] \in BetweenViews
      BY <2>3, OneHalfway
    <3>2. Within(Listed(x), Due(t), torn[x])
      BY <3>1 DEF SerialInv, HalfwayDue
    <3>3. Due(t) = Indexed(x) + 1 \/ Due(t) = Indexed(x) - 1 \/ Due(t) = Indexed(x)
      BY <2>1, <3>1 DEF Due
    <3> QED
      BY <1>3, <2>1, <2>2, <2>3, <3>2, <3>3 DEF Within
  <2>4. CASE x \notin Halfway
    BY <1>3, <2>1, <2>2, <2>4 DEF SerialInv, Mirror
  <2> QED
    BY <2>3, <2>4
<1>5. GotFresh' /\ HalfwayDue'
  BY <1>3 DEF GotFresh, HalfwayDue, Serial, BetweenViews
<1> QED
  BY <1>1, <1>4, <1>5 DEF SerialInv

LEMMA CommandInv ==
    ASSUME Serial, WholeTokens, SerialInv, NEW t \in Threads, Command(t)
    PROVE  SerialInv'
<1>1. /\ db[EntityField(at[t])] \in Text
      /\ db[ColField(at[t])] \in Text
      /\ GetVal(db[ColField(at[t])]) \in Text
  BY TripleParts, GetValText DEF SerialInv, TypeOK
<1>2. CASE SetHGet(t)
  BY <1>1, <1>2, ReadInv DEF SetHGet, Steps, BetweenViews
<1>3. CASE SetHSet(t) \/ RemoveHSet(t)
  BY <1>3, EntityWriteInv
<1>4. CASE SetHGetCol(t)
  BY <1>1, <1>4, ReadInv DEF SetHGetCol, Steps, BetweenViews
<1>5. CASE SetHSetCol(t) \/ RemoveHSetCol(t)
  BY <1>5, ColWriteInv
<1>6. CASE RemoveHGet(t)
  <2>1. CASE NoReply(db[EntityField(at[t])])
    BY <1>6, <2>1, RemoveNothingInv
  <2>2. CASE ~NoReply(db[EntityField(at[t])])
    BY <1>1, <1>6, <2>2, ReadInv DEF RemoveHGet, Steps, BetweenViews
  <2> QED
    BY <2>1, <2>2
<1>7. CASE RemoveGetVal(t)
  BY <1>1, <1>7, ReadInv DEF RemoveGetVal, Steps, BetweenViews
<1> QED
  BY <1>2, <1>3, <1>4, <1>5, <1>6, <1>7 DEF Command

\* Nothing is listed at first.
LEMMA InitViews ==
    ASSUME Init, NEW x \in Facts
    PROVE  Listed(x) = 0 /\ Indexed(x) = 0 /\ torn[x] = 0
<1>1. /\ x \in Triples /\ x[3] # Empty /\ x[1] # Empty
      /\ EntityField(x) \in Keys \X Fields /\ ColField(x) \in Keys \X Fields
  BY TripleParts DEF Facts
<1>2. db[EntityField(x)] = <<>> /\ db[ColField(x)] = <<>> /\ torn[x] = 0
  BY <1>1 DEF Init
<1>3. <<>> \in Text /\ NoReply(<<>>)
  BY DEF Text, NoReply
<1> QED
  BY <1>1, <1>2, <1>3, OccNoReply DEF Listed, Indexed

LEMMA SerialInit ==
    ASSUME Init
    PROVE  SerialInv
<1>1. TypeOK
  BY TypeInit
<1>2. Halfway = {}
  BY DEF Init, Halfway, BetweenViews
<1>3. \A x \in Facts : Listed(x) = 0 /\ Indexed(x) = 0 /\ torn[x] = 0
  BY InitViews
<1>4. Mirror
  BY <1>3 DEF Mirror, Within
<1>5. GotFresh /\ HalfwayDue
  BY DEF Init, GotFresh, HalfwayDue, BetweenViews
<1> QED
  BY <1>1, <1>4, <1>5 DEF SerialInv

LEMMA SerialStep ==
    ASSUME Serial, WholeTokens, SerialInv, [Next]_vars
    PROVE  SerialInv'
<1>1. CASE UNCHANGED vars
  BY <1>1 DEF vars, SerialInv, TypeOK, GotFresh, HalfwayDue, Due, Mirror, Halfway,
              Listed, Indexed, EntityField, ColField
<1>2. CASE Crash
  BY <1>2, CrashInv
<1>3. ASSUME NEW t \in Threads, Command(t) PROVE SerialInv'
  BY <1>3, CommandInv
<1>4. ASSUME NEW t \in Threads, NEW x \in Triples,
             CallSetval(t, x) \/ CallRemoveVal(t, x)
      PROVE  SerialInv'
  BY <1>4, CallInv
<1> QED
  BY <1>1, <1>2, <1>3, <1>4 DEF Next

(***************************************************************************)
(* With one calling thread and tokens of which none lies inside another,   *)
(* the two views of the index agree on every triple no call is half way    *)
(* at, up to one for every crash that interrupted a call at that triple,   *)
(* for any number of calls, crashes, entities, attributes and values.      *)
(***************************************************************************)
THEOREM SerialMirror ==
    ASSUME Serial, WholeTokens
    PROVE  Spec => []Mirror
<1>1. Init => SerialInv
  BY SerialInit
<1>2. SerialInv /\ [Next]_vars => SerialInv'
  BY SerialStep
<1>3. SerialInv => Mirror
  BY DEF SerialInv
<1> QED
  BY <1>1, <1>2, <1>3, PTL DEF Spec
------------------------------------------------------------------------------
(***************************************************************************)
(* What any step does to the two views of one fact.                        *)
(***************************************************************************)
SameCounts(x) == Listed(x)' = Listed(x) /\ Indexed(x)' = Indexed(x)

LEMMA QuietStep ==
    ASSUME db' = db, NEW x
    PROVE  SameCounts(x)
BY SameViews DEF SameCounts

LEMMA CommandQuiet ==
    ASSUME NEW t \in Threads, Command(t),
           ~SetHSet(t), ~SetHSetCol(t), ~RemoveHSet(t), ~RemoveHSetCol(t)
    PROVE  db' = db
BY DEF Command, SetHGet, SetHGetCol, RemoveHGet, RemoveGetVal, Read

LEMMA ForgetStep ==
    ASSUME WholeTokens, SerialInv, [Next]_vars
    PROVE  ForgetsOnlyRemoved
<1> SUFFICES ASSUME NEW x \in Facts,
                    Listed(x)' < Listed(x) \/ Indexed(x)' < Indexed(x)
             PROVE  RemovingAt(x)
  BY DEF ForgetsOnlyRemoved
<1>1. Listed(x) \in Nat /\ Indexed(x) \in Nat
  BY CountsNat DEF SerialInv, Facts
<1>2. ~SameCounts(x)
  BY <1>1 DEF SameCounts
<1>3. db' # db
  BY <1>2, QuietStep
<1>4. PICK t \in Threads : Command(t)
  BY <1>3 DEF Next, vars, Crash, CallSetval, CallRemoveVal, Call
<1>5. CASE SetHSet(t)
  BY <1>1, <1>5, SetHSetEffect DEF SerialInv
<1>6. CASE SetHSetCol(t)
  BY <1>1, <1>6, SetHSetColEffect DEF SerialInv
<1>7. CASE RemoveHSet(t)
  <2>1. x = at[t]
    BY <1>1, <1>7, RemoveHSetEffect DEF SerialInv
  <2> QED
    BY <1>7, <2>1 DEF RemoveHSet, Write, RemovingAt
<1>8. CASE RemoveHSetCol(t)
  <2>1. x = at[t]
    BY <1>1, <1>8, RemoveHSetColEffect DEF SerialInv
  <2> QED
    BY <1>8, <2>1 DEF RemoveHSetCol, Write, RemovingAt
<1> QED
  BY <1>3, <1>4, <1>5, <1>6, <1>7, <1>8, CommandQuiet

(***************************************************************************)
(* With one calling thread and tokens of which none lies inside another,   *)
(* no step but a removal's own writes makes an entity lose a value or a    *)
(* value lose an entity.                                                   *)
(***************************************************************************)
THEOREM SerialForgets ==
    ASSUME Serial, WholeTokens
    PROVE  Spec => OnlyRemoveForgets
<1>1. Init => SerialInv
  BY SerialInit
<1>2. SerialInv /\ [Next]_vars => SerialInv'
  BY SerialStep
<1>3. SerialInv /\ [Next]_vars => ForgetsOnlyRemoved
  BY ForgetStep
<1> QED
  BY <1>1, <1>2, <1>3, PTL DEF Spec, OnlyRemoveForgets
------------------------------------------------------------------------------
(***************************************************************************)
(* The refinement: the abstract index that the store implements.           *)
(***************************************************************************)
forwardBar == [x \in Facts |-> Listed(x)]
inverseBar == [x \in Facts |-> Indexed(x)]
busyBar == Facts \cap Halfway
lostBar == {x \in Facts : torn[x] > 0}

\* Steps that leave everything the mapping looks at alone.
LEMMA StutterStep ==
    ASSUME \A x \in Facts : SameCounts(x), torn' = torn,
           busyBar' = busyBar
    PROVE  UNCHANGED Index!vars
<1>1. forwardBar' = forwardBar /\ inverseBar' = inverseBar
  BY DEF forwardBar, inverseBar, SameCounts, Facts
<1>2. lostBar' = lostBar
  BY DEF lostBar, Facts
<1> QED
  BY <1>1, <1>2 DEF Index!vars, forwardBar, inverseBar, busyBar, lostBar

\* The first view changes by one or not at all, and its triple becomes half way.
LEMMA ChangeStep ==
    ASSUME TypeOK, NEW a \in Facts, a \notin Halfway, torn' = torn,
           Halfway' = Halfway \cup {a},
           Listed(a)' \in Index!Near(Listed(a)),
           \A x \in Facts : Indexed(x)' = Indexed(x)
                           /\ (x # a => Listed(x)' = Listed(x))
    PROVE  Index!Change(a)
<1>1. inverseBar' = inverseBar /\ lostBar' = lostBar
  BY DEF inverseBar, lostBar, Facts
<1>2. busyBar' = busyBar \cup {a} /\ a \notin busyBar
  BY DEF busyBar, Facts
<1>3. forwardBar' = [forwardBar EXCEPT ![a] = Listed(a)']
  BY DEF forwardBar, Facts
<1>4. Listed(a)' \in Index!Near(forwardBar[a])
  BY DEF forwardBar
<1> QED
  BY <1>1, <1>2, <1>3, <1>4
     DEF Index!Change, forwardBar, inverseBar, busyBar, lostBar

\* The second view catches up with the first one.
LEMMA CatchUpStep ==
    ASSUME TypeOK, NEW a \in Facts, a \in Halfway, torn' = torn,
           Halfway' = Halfway \ {a},
           Indexed(a)' \in Index!Near(Indexed(a)),
           torn[a] = 0 => Indexed(a)' = Listed(a),
           \A x \in Facts : Listed(x)' = Listed(x)
                           /\ (x # a => Indexed(x)' = Indexed(x))
    PROVE  Index!CatchUp(a)
<1>1. forwardBar' = forwardBar /\ lostBar' = lostBar
  BY DEF forwardBar, lostBar, Facts
<1>2. busyBar' = busyBar \ {a} /\ a \in busyBar
  BY DEF busyBar, Facts
<1>3. inverseBar' = [inverseBar EXCEPT ![a] = Indexed(a)']
  BY DEF inverseBar, Facts
<1>4. Indexed(a)' \in Index!Near(inverseBar[a])
  BY DEF inverseBar
<1>5. a \notin lostBar => inverseBar'[a] = forwardBar[a]
  <2>1. torn[a] \in Nat
    BY DEF TypeOK, Facts
  <2>2. inverseBar'[a] = Indexed(a)'
    BY DEF inverseBar
  <2> QED
    BY <2>1, <2>2 DEF lostBar, forwardBar
<1> QED
  BY <1>1, <1>2, <1>3, <1>4, <1>5
     DEF Index!CatchUp, forwardBar, inverseBar, busyBar, lostBar

LEMMA EntityWriteRefines ==
    ASSUME Serial, WholeTokens, SerialInv, NEW t \in Threads,
           SetHSet(t) \/ RemoveHSet(t)
    PROVE  [Index!Next]_(Index!vars)
<1>0. PICK a \in Triples : a = at[t]
  BY DEF SerialInv, TypeOK
<1>1. /\ torn' = torn /\ at' = at
      /\ step[t] \in {"set_hset", "rem_hset"}
      /\ step'[t] \in {"set_hget_col", "rem_getval"}
  BY DEF SetHSet, RemoveHSet, Write, SerialInv, TypeOK
<1>2. Halfway = {} /\ Halfway' = {a}
  BY <1>0, <1>1, OneHalfway DEF BetweenViews
<1>3. \A x \in Facts :
         /\ Listed(x) \in Nat
         /\ Indexed(x)' = Indexed(x)
         /\ x # a => Listed(x)' = Listed(x)
         /\ \/ Listed(x)' = Listed(x)
            \/ Listed(x)' = Listed(x) + 1
            \/ Listed(x)' = Listed(x) - 1 /\ Listed(x) > 0
  <2> TAKE x \in Facts
  <2>1. Listed(x) \in Nat
    BY CountsNat DEF SerialInv, Facts
  <2>2. CASE SetHSet(t)
    <3>1. /\ Listed(x)' = Listed(x) + IF x = at[t] THEN 1 ELSE 0
          /\ Indexed(x)' = Indexed(x)
      BY <2>2, SetHSetEffect DEF SerialInv
    <3> QED
      BY <1>0, <2>1, <3>1
  <2>3. CASE RemoveHSet(t)
    BY <1>0, <2>1, <2>3, RemoveHSetEffect DEF SerialInv
  <2> QED
    BY <2>2, <2>3
<1>4. CASE a \in Facts
  <2>1. Listed(a)' \in Index!Near(Listed(a))
    BY <1>3, <1>4 DEF Index!Near
  <2>2. Index!Change(a)
    BY <1>1, <1>2, <1>3, <1>4, <2>1, ChangeStep DEF SerialInv
  <2> QED
    BY <1>4, <2>2 DEF Index!Next
<1>5. CASE a \notin Facts
  <2>1. busyBar' = busyBar
    BY <1>2, <1>5 DEF busyBar, Facts
  <2>2. \A x \in Facts : SameCounts(x)
    BY <1>3, <1>5 DEF SameCounts
  <2> QED
    BY <1>1, <2>1, <2>2, StutterStep
<1> QED
  BY <1>4, <1>5

LEMMA ColWriteRefines ==
    ASSUME Serial, WholeTokens, SerialInv, NEW t \in Threads,
           SetHSetCol(t) \/ RemoveHSetCol(t)
    PROVE  [Index!Next]_(Index!vars)
<1>0. PICK a \in Triples : a = at[t]
  BY DEF SerialInv, TypeOK
<1>1. /\ torn' = torn /\ at' = at /\ step'[t] = "idle"
      /\ \/ SetHSetCol(t) /\ step[t] = "set_hset_col"
         \/ RemoveHSetCol(t) /\ step[t] = "rem_hset_col"
  BY DEF SetHSetCol, RemoveHSetCol, Write, SerialInv, TypeOK
<1>2. Halfway = {a} /\ Halfway' = {}
  BY <1>0, <1>1, OneHalfway DEF BetweenViews
<1>3. \A x \in Facts :
         /\ Listed(x) \in Nat
         /\ Indexed(x) \in Nat
         /\ Listed(x)' = Listed(x)
         /\ x # a => Indexed(x)' = Indexed(x)
         /\ x = a => Indexed(x)' = Due(t)
  <2> TAKE x \in Facts
  <2>1. Listed(x) \in Nat /\ Indexed(x) \in Nat
    BY CountsNat DEF SerialInv, Facts
  <2>2. CASE SetHSetCol(t)
    <3>1. /\ Indexed(x)' = Indexed(x) + IF x = at[t] THEN 1 ELSE 0
          /\ Listed(x)' = Listed(x)
      BY <2>2, SetHSetColEffect DEF SerialInv
    <3>2. x = a => Due(t) = Indexed(x) + 1
      BY <1>0, <2>2 DEF Due, SetHSetCol, Write
    <3> QED
      BY <1>0, <2>1, <3>1, <3>2
  <2>3. CASE RemoveHSetCol(t)
    <3>1. /\ Indexed(x)' = IF x = at[t] /\ Indexed(x) > 0
                           THEN Indexed(x) - 1 ELSE Indexed(x)
          /\ Listed(x)' = Listed(x)
      BY <2>3, RemoveHSetColEffect DEF SerialInv
    <3>2. x = a => Due(t) = IF Indexed(x) > 0 THEN Indexed(x) - 1 ELSE 0
      BY <1>0, <2>3 DEF Due, RemoveHSetCol, Write
    <3> QED
      BY <1>0, <2>1, <3>1, <3>2
  <2> QED
    BY <1>1, <2>2, <2>3
<1>4. CASE a \in Facts
  <2>1. Indexed(a)' \in Index!Near(Indexed(a))
    BY <1>0, <1>3, <1>4 DEF Index!Near, Due
  <2>2. torn[a] = 0 => Indexed(a)' = Listed(a)
    <3>1. Within(Listed(a), Due(t), torn[a])
      BY <1>0, <1>1, <1>4 DEF SerialInv, HalfwayDue, BetweenViews
    <3>2. Due(t) \in Nat
      BY <1>0, <1>3, <1>4 DEF Due
    <3> QED
      BY <1>3, <1>4, <3>1, <3>2 DEF Within
  <2>3. Index!CatchUp(a)
    BY <1>1, <1>2, <1>3, <1>4, <2>1, <2>2, CatchUpStep DEF SerialInv
  <2> QED
    BY <1>4, <2>3 DEF Index!Next
<1>5. CASE a \notin Facts
  <2>1. busyBar' = busyBar
    BY <1>2, <1>5 DEF busyBar, Facts
  <2>2. \A x \in Facts : SameCounts(x)
    BY <1>3, <1>5 DEF SameCounts
  <2> QED
    BY <1>1, <2>1, <2>2, StutterStep
<1> QED
  BY <1>4, <1>5

\* Commands that only read: finding nothing to remove is a change by nothing.
LEMMA ReadRefines ==
    ASSUME Serial, SerialInv, NEW t \in Threads, Command(t),
           ~SetHSet(t), ~SetHSetCol(t), ~RemoveHSet(t), ~RemoveHSetCol(t)
    PROVE  [Index!Next]_(Index!vars)
<1>0. PICK a \in Triples : a = at[t]
  BY DEF SerialInv, TypeOK
<1>1. db' = db /\ torn' = torn /\ at' = at
  BY DEF Command, SetHGet, SetHGetCol, RemoveHGet, RemoveGetVal, Read
<1>2. \A x \in Facts : SameCounts(x)
  BY <1>1, QuietStep
<1>3. CASE RemoveHGet(t) /\ NoReply(db[EntityField(at[t])]) /\ a \in Facts
  <2>1. step[t] = "rem_hget" /\ step'[t] = "rem_getval"
    BY <1>3 DEF RemoveHGet, Read, SerialInv, TypeOK
  <2>2. Halfway = {} /\ Halfway' = {a}
    BY <1>0, <1>1, <2>1, OneHalfway DEF BetweenViews
  <2>3. Listed(a) \in Nat
    BY <1>3, CountsNat DEF SerialInv, Facts
  <2>4. Listed(a)' \in Index!Near(Listed(a))
    BY <1>2, <1>3, <2>3 DEF SameCounts, Index!Near
  <2>5. Index!Change(a)
    BY <1>1, <1>2, <1>3, <2>2, <2>4, ChangeStep DEF SameCounts, SerialInv
  <2> QED
    BY <1>3, <2>5 DEF Index!Next
<1>4. CASE ~(RemoveHGet(t) /\ NoReply(db[EntityField(at[t])]) /\ a \in Facts)
  <2>1. \/ step[t] \in BetweenViews <=> step'[t] \in BetweenViews
        \/ a \notin Facts
    BY <1>0, <1>4 DEF Command, SetHGet, SetHGetCol, RemoveHGet, RemoveGetVal, Read,
                SerialInv, TypeOK, BetweenViews
  <2>2. busyBar' = busyBar
    BY <1>0, <1>1, <2>1, OneHalfway DEF busyBar, Facts
  <2> QED
    BY <1>1, <1>2, <2>2, StutterStep
<1> QED
  BY <1>3, <1>4

LEMMA CallRefines ==
    ASSUME Serial, SerialInv, NEW t \in Threads, NEW x \in Triples,
           CallSetval(t, x) \/ CallRemoveVal(t, x)
    PROVE  [Index!Next]_(Index!vars)
<1>1. PICK first \in {"set_hget", "rem_hget"} : Call(t, x, first)
  BY DEF CallSetval, CallRemoveVal
<1>2. /\ db' = db /\ torn' = torn
      /\ step[t] = "idle" /\ step'[t] = first
  BY <1>1 DEF Call, SerialInv, TypeOK
<1>3. busyBar' = busyBar
  BY <1>2, OneHalfway DEF busyBar, BetweenViews, Facts
<1> QED
  BY <1>2, <1>3, QuietStep, StutterStep

LEMMA CrashRefines ==
    ASSUME Serial, SerialInv, Crash
    PROVE  Index!Next
<1>1. PICK t \in Threads : step[t] # "idle"
  BY DEF Crash
<1>2. /\ db' = db /\ step'[t] = "idle"
      /\ \A x \in Triples :
            torn'[x] = IF x \in Halfway THEN torn[x] + 1 ELSE torn[x]
  BY <1>1 DEF Crash
<1>3. busyBar' = {}
  BY <1>2, OneHalfway DEF busyBar, BetweenViews, Facts
<1>4. lostBar' = lostBar \cup busyBar
  <2>1. \A x \in Facts : torn[x] \in Nat /\ x \in Triples
    BY DEF SerialInv, TypeOK, Facts
  <2>2. \A x \in Facts : torn'[x] > 0 <=> torn[x] > 0 \/ x \in Halfway
    BY <1>2, <2>1
  <2> QED
    BY <2>2 DEF lostBar, busyBar, Facts
<1>5. forwardBar' = forwardBar /\ inverseBar' = inverseBar
  BY <1>2, SameViews DEF forwardBar, inverseBar, Facts
<1> QED
  BY <1>3, <1>4, <1>5
     DEF Index!Next, Index!Crash, forwardBar, inverseBar, busyBar, lostBar

LEMMA InitRefines ==
    ASSUME Init
    PROVE  Index!Init
<1>1. \A x \in Facts : Listed(x) = 0 /\ Indexed(x) = 0 /\ torn[x] = 0
  BY InitViews
<1>2. Halfway = {}
  BY DEF Init, Halfway, BetweenViews
<1> QED
  BY <1>1, <1>2 DEF Index!Init

LEMMA StepRefines ==
    ASSUME Serial, WholeTokens, SerialInv, [Next]_vars
    PROVE  [Index!Next]_(Index!vars)
<1>1. CASE UNCHANGED vars
  <2>1. busyBar' = busyBar
    BY <1>1 DEF vars, busyBar, Halfway, Facts
  <2> QED
    BY <1>1, <2>1, QuietStep, StutterStep DEF vars
<1>2. CASE Crash
  BY <1>2, CrashRefines
<1>3. ASSUME NEW t \in Threads, Command(t)
      PROVE  [Index!Next]_(Index!vars)
  BY <1>3, EntityWriteRefines, ColWriteRefines, ReadRefines
<1>4. ASSUME NEW t \in Threads, NEW x \in Triples,
             CallSetval(t, x) \/ CallRemoveVal(t, x)
      PROVE  [Index!Next]_(Index!vars)
  BY <1>4, CallRefines
<1> QED
  BY <1>1, <1>2, <1>3, <1>4 DEF Next

(***************************************************************************)
(* With one calling thread and tokens of which none lies inside another,   *)
(* redis_setval and redis_remove_val implement the two-view index: every   *)
(* command is a step of MetadataIndex or leaves it unchanged.  (That the   *)
(* second view catches up at last is checked by TLC.)                      *)
(***************************************************************************)
THEOREM SerialImplements ==
    ASSUME Serial, WholeTokens
    PROVE  Spec => Index!Spec
<1>1. Init => SerialInv /\ Index!Init
  BY SerialInit, InitRefines
<1>2. SerialInv /\ [Next]_vars => SerialInv'
  BY SerialStep
<1>3. SerialInv /\ [Next]_vars => [Index!Next]_(Index!vars)
  BY StepRefines
<1> QED
  BY <1>1, <1>2, <1>3, PTL DEF Spec, Index!Spec
-------------------------------------------------------------------------------
\* The counter of file ids.
Counter == db[CounterField]
Plain(s) == s = <<>> \/ \E k \in 1..(MaxIds + 1) : s = <<k>>

\* What the counter is at each command of redis_setval("null", ..).
CounterAt(t) ==
    LET n == last[t]
    IN  CASE phase[t] = "none" -> step[t] = "idle" /\ Plain(Counter)
          [] phase[t] = "remove" ->
                /\ step[t] = "idle" /\ n \in 1..MaxIds
                /\ Counter = <<n>> \/ (Counter = <<>> /\ n = 1)
          [] phase[t] = "store" ->
                /\ n \in 1..MaxIds /\ at[t] = <<LastId, ValCol, n>>
                /\ \/ step[t] = "rem_hget" /\ Counter \in {<<>>, <<n>>}
                   \/ step[t] = "rem_hset" /\ got[t] = <<n>> /\ Counter = <<n>>
                   \/ step[t] \in {"rem_getval", "rem_hset_col", "idle"} /\ Counter = <<>>
          [] phase[t] = "record" ->
                /\ n \in 1..MaxIds /\ at[t] = <<LastId, ValCol, n + 1>>
                /\ \/ step[t] = "set_hget" /\ Counter = <<>>
                   \/ step[t] = "set_hset" /\ got[t] = <<>> /\ Counter = <<>>
                   \/ step[t] \in {"set_hget_col", "set_hset_col", "idle"} /\ Counter = <<n + 1>>
          [] phase[t] = "return" ->
                /\ n \in 1..MaxIds /\ at[t][1] = n + 1
                /\ step[t] \in {"set_hget", "set_hset", "set_hget_col", "set_hset_col", "idle"}
                /\ Counter = <<n + 1>>

\* The ids up to this one have been handed out since the last reset, or lost.
Bound(t) ==
    IF phase[t] \in {"remove", "store", "record"} THEN last[t]
    ELSE IF Counter = <<>> THEN 0 ELSE Counter[1]

IdTypes ==
    /\ phase \in [Threads -> {"none", "remove", "store", "record", "return"}]
    /\ last \in [Threads -> Nat]
    /\ file \in [Threads -> Files]
    /\ made \in Seq(Nat \X Files)
    /\ resets \in Nat

UsesBounded(t) ==
    \A m \in Nat : Uses(m) <= IF m <= Bound(t) THEN 1 + resets ELSE resets

IdInv == TypeOK /\ IdTypes /\ (\A t \in Threads : CounterAt(t) /\ UsesBounded(t))
------------------------------------------------------------------------------
\* The counter is a field of its own: no entity's name and no column is kept in it.
LEMMA CounterIs ==
    /\ CounterField \in Keys \X Fields
    /\ \A n \in 1..MaxIds :
          /\ <<LastId, ValCol, n>> \in Triples /\ <<LastId, ValCol, n + 1>> \in Triples
          /\ \A f \in Files : <<n + 1, NameCol, f>> \in Triples
    /\ \A x \in Triples : ColField(x) # CounterField
    /\ \A x \in Triples : x[1] \in 1..(MaxIds + 1) => EntityField(x) # CounterField
  BY IdsAssumption, StoreAssumption
     DEF CounterField, Keys, Fields, Triples, ColField, EntityField

LEMMA IdTokens == \A n \in 1..(MaxIds + 1) : n \in Tokens /\ n # Empty /\ n # Null
  BY IdsAssumption, StoreAssumption

\* What is read from the counter and what is left when it is removed.
LEMMA CounterTexts ==
    ASSUME ErasesItself, NEW n \in 1..(MaxIds + 1)
    PROVE  /\ GetVal(<<>>) = <<Null>>
           /\ ~NoReply(<<n>>) /\ GetVal(<<n>>) = <<n>> /\ <<n>> # <<Null>>
           /\ AtoI(<<n>>) = n
           /\ Erased(<<n>>, n) = <<Empty>>
           /\ Joined(<<>>, n) = <<n>>
  <1>1. n \in Tokens /\ n # Empty /\ n # Null /\ n \in Nat
    BY IdTokens, IdsAssumption
  <1>2. GetVal(<<>>) = <<Null>>
    BY DEF GetVal, NoReply, Cleanup
  <1>3. ~NoReply(<<n>>) /\ GetVal(<<n>>) = <<n>> /\ <<n>> # <<Null>>
    BY <1>1 DEF GetVal, NoReply, Cleanup
  <1>4. AtoI(<<n>>) = n
    BY <1>1 DEF AtoI
  <1>5. Erased(<<n>>, n) = <<Empty>>
    <2> DEFINE s == <<n>>
    <2>1. DOMAIN s = {1} /\ s[1] = n
      OBVIOUS
    <2>2. Cut(n, n) = Empty
      BY <1>1 DEF ErasesItself
    <2>3. Holding(s, n) = {1}
      BY <1>1, <2>1, <2>2 DEF Holding
    <2>4. Min(Holding(s, n)) \in {1}
      BY <2>3, MinIn
    <2>5. Erased(s, n) = [s EXCEPT ![1] = Empty]
      BY <2>1, <2>2, <2>3, <2>4 DEF Erased
    <2> QED  BY <2>5
  <1>6. Joined(<<>>, n) = <<n>>
    BY DEF Joined, NoReply
  <1> QED  BY <1>2, <1>3, <1>4, <1>5, <1>6

LEMMA UsesFinite == ASSUME IdTypes, NEW m PROVE IsFiniteSet({i \in DOMAIN made : made[i][1] = m})
  <1> DEFINE n == Len(made)
  <1>1. n \in Nat /\ DOMAIN made = 1..n
    BY LenProperties DEF IdTypes
  <1>2. IsFiniteSet(1..n)
    BY <1>1, FS_Interval
  <1> QED  BY <1>1, <1>2, FS_Subset

\* How often an id was handed out is a number, and one more with one more use.
LEMMA UsesNat ==
    ASSUME IdTypes, NEW m \in Nat
    PROVE  Uses(m) \in Nat /\ (Uses(m) = 0 => \A i \in DOMAIN made : made[i][1] # m)
  <1> DEFINE Used == {i \in DOMAIN made : made[i][1] = m}
             n == Len(made)
  <1>1. n \in Nat /\ DOMAIN made = 1..n
    BY LenProperties DEF IdTypes
  <1>2. IsFiniteSet(Used) /\ Cardinality(Used) \in Nat
    BY UsesFinite, FS_CardinalityType
  <1>3. Cardinality(Used) = 0 => Used = {}
    BY <1>2, FS_EmptySet
  <1> QED  BY <1>2, <1>3 DEF Uses

LEMMA UsesAppend ==
    ASSUME IdTypes, NEW m \in Nat, NEW k \in Nat, NEW f \in Files, made' = Append(made, <<k, f>>)
    PROVE  Uses(m)' = Uses(m) + IF k = m THEN 1 ELSE 0
  <1> DEFINE Used == {i \in DOMAIN made : made[i][1] = m}
             n == Len(made)
  <1>1. n \in Nat /\ DOMAIN made = 1..n
    BY LenProperties DEF IdTypes
  <1>2. /\ DOMAIN made' = 1..(n + 1)
        /\ \A i \in 1..n : made'[i] = made[i]
        /\ made'[n + 1] = <<k, f>>
    BY <1>1, AppendProperties DEF IdTypes
  <1>3. IsFiniteSet(Used)
    BY UsesFinite
  <1>4. n + 1 \notin Used
    BY <1>1
  <1>5. {i \in DOMAIN made' : made'[i][1] = m} = IF k = m THEN Used \cup {n + 1} ELSE Used
    BY <1>1, <1>2
  <1>6. Uses(m)' = IF k = m THEN Cardinality(Used \cup {n + 1}) ELSE Cardinality(Used)
    BY <1>5 DEF Uses
  <1>7. Uses(m) = Cardinality(Used) /\ Uses(m) \in Nat
    BY UsesNat DEF Uses
  <1> HIDE DEF Used, n
  <1>8. Cardinality(Used \cup {n + 1}) = Cardinality(Used) + 1
    BY <1>3, <1>4, FS_AddElement
  <1> QED  BY <1>6, <1>7, <1>8

\* A step that hands out no id and leaves the bound no lower keeps the counts below it.
LEMMA UsesKept ==
    ASSUME IdTypes, NEW t, UsesBounded(t), UNCHANGED <<made, resets>>,
           Bound(t) \in Nat, Bound(t)' \in Nat, Bound(t) <= Bound(t)'
    PROVE  UsesBounded(t)'
  <1> SUFFICES ASSUME NEW m \in Nat
               PROVE  Uses(m)' <= IF m <= Bound(t)' THEN 1 + resets' ELSE resets'
    BY DEF UsesBounded
  <1>1. Uses(m)' = Uses(m) /\ Uses(m) \in Nat /\ resets \in Nat /\ resets' = resets
    BY UsesNat DEF Uses, IdTypes
  <1>2. Uses(m) <= IF m <= Bound(t) THEN 1 + resets ELSE resets
    BY DEF UsesBounded
  <1> HIDE DEF Bound
  <1> QED  BY <1>1, <1>2
------------------------------------------------------------------------------
LEMMA InitIds == ASSUME IdInit PROVE IdInv
  <1>1. TypeOK
    BY TypeInit DEF IdInit
  <1>2. IdTypes
    BY IdsAssumption, EmptySeq DEF IdInit, IdTypes
  <1>3. ASSUME NEW t \in Threads PROVE CounterAt(t)
    BY CounterIs DEF IdInit, Init, CounterAt, Plain, Counter
  <1>4. ASSUME NEW t \in Threads PROVE UsesBounded(t)
    <2>1. \A m \in Nat : Uses(m) = 0
      BY FS_EmptySet DEF IdInit, Uses
    <2>2. resets = 0
      BY DEF IdInit
    <2> QED  BY <2>1, <2>2 DEF UsesBounded
  <1> QED  BY <1>1, <1>2, <1>3, <1>4 DEF IdInv

\* redis_setval reads the id that it counts from.
LEMMA ReadLastIdStep ==
    ASSUME IdInv, ErasesItself, NEW t, Threads = {t}, NEW f \in Files, ReadLastId(t, f)
    PROVE  IdInv'
  <1> DEFINE id == GetVal(Counter)
             n == IF id = <<Null>> THEN 1 ELSE AtoI(id)
  <1>1. /\ phase[t] = "none" /\ step[t] = "idle" /\ Plain(Counter)
        /\ n < MaxIds + 1
        /\ last' = [last EXCEPT ![t] = n] /\ phase' = [phase EXCEPT ![t] = "remove"]
        /\ file' = [file EXCEPT ![t] = f]
        /\ UNCHANGED <<vars, made, resets>>
    BY DEF ReadLastId, IdInv, CounterAt, Counter
  <1>2. \/ Counter = <<>> /\ n = 1
        \/ n \in 1..(MaxIds + 1) /\ Counter = <<n>>
    <2>1. CASE Counter = <<>>
      <3>1. GetVal(<<>>) = <<Null>>
        BY DEF GetVal, NoReply, Cleanup
      <3> QED  BY <2>1, <3>1
    <2>2. ASSUME NEW k \in 1..(MaxIds + 1), Counter = <<k>>
          PROVE  n = k
      <3>1. GetVal(<<k>>) = <<k>> /\ <<k>> # <<Null>> /\ AtoI(<<k>>) = k
        BY CounterTexts
      <3> QED  BY <2>2, <3>1
    <2> HIDE DEF n
    <2> QED  BY <1>1, <2>1, <2>2 DEF Plain
  <1>3. n \in 1..MaxIds
    BY <1>1, <1>2, IdsAssumption
  <1> HIDE DEF n
  <1>4. IdTypes'
    BY <1>1, <1>3 DEF IdInv, IdTypes
  <1>5. TypeOK'
    BY <1>1, TypeStep DEF IdInv
  <1>6. CounterAt(t)'
    BY <1>1, <1>2, <1>3 DEF CounterAt, Counter, vars, IdInv, IdTypes
  <1>7. Bound(t) \in Nat /\ Bound(t)' = n /\ Bound(t) <= n
    BY <1>1, <1>2, <1>3 DEF Bound, Counter, vars, IdInv, IdTypes
  <1>8. UsesBounded(t)'
    BY <1>1, <1>3, <1>7, UsesKept DEF IdInv
  <1> QED  BY <1>4, <1>5, <1>6, <1>8 DEF IdInv

\* The id is removed from the counter with a call of its own.
LEMMA RemoveLastIdStep ==
    ASSUME IdInv, NEW t, Threads = {t}, RemoveLastId(t)
    PROVE  IdInv'
  <1> DEFINE x == <<LastId, ValCol, last[t]>>
  <1>1. /\ phase[t] = "remove" /\ last[t] \in 1..MaxIds
        /\ Counter = <<last[t]>> \/ Counter = <<>>
        /\ step' = [step EXCEPT ![t] = "rem_hget"] /\ at' = [at EXCEPT ![t] = x]
        /\ phase' = [phase EXCEPT ![t] = "store"]
        /\ Call(t, x, "rem_hget")
        /\ UNCHANGED <<db, got, last, file, made, resets>>
    BY DEF RemoveLastId, CallRemoveVal, Call, IdInv, CounterAt
  <1>2. x \in Triples
    BY <1>1, CounterIs
  <1>3. TypeOK'
    BY <1>1, <1>2, CallType DEF IdInv, Steps
  <1>4. IdTypes'
    BY <1>1 DEF IdInv, IdTypes
  <1>5. CounterAt(t)'
    BY <1>1 DEF CounterAt, Counter, IdInv, IdTypes, TypeOK
  <1>6. Bound(t) = last[t] /\ Bound(t)' = last[t] /\ last[t] \in Nat
    BY <1>1 DEF Bound, IdInv, IdTypes
  <1>7. UsesBounded(t)'
    BY <1>1, <1>6, UsesKept DEF IdInv
  <1> QED  BY <1>3, <1>4, <1>5, <1>7 DEF IdInv

\* Its successor is stored where nothing is.
LEMMA StoreLastIdStep ==
    ASSUME IdInv, NEW t, Threads = {t}, StoreLastId(t)
    PROVE  IdInv'
  <1> DEFINE x == <<LastId, ValCol, last[t] + 1>>
  <1>1. /\ phase[t] = "store" /\ last[t] \in 1..MaxIds /\ step[t] = "idle"
        /\ Counter = <<>>
        /\ step' = [step EXCEPT ![t] = "set_hget"] /\ at' = [at EXCEPT ![t] = x]
        /\ phase' = [phase EXCEPT ![t] = "record"]
        /\ Call(t, x, "set_hget")
        /\ UNCHANGED <<db, got, last, file, made, resets>>
    BY DEF StoreLastId, CallSetval, Call, NewId, IdInv, CounterAt
  <1>2. x \in Triples
    BY <1>1, CounterIs
  <1>3. TypeOK'
    BY <1>1, <1>2, CallType DEF IdInv, Steps
  <1>4. IdTypes'
    BY <1>1 DEF IdInv, IdTypes
  <1>5. CounterAt(t)'
    BY <1>1 DEF CounterAt, Counter, IdInv, IdTypes, TypeOK
  <1>6. Bound(t) = last[t] /\ Bound(t)' = last[t] /\ last[t] \in Nat
    BY <1>1 DEF Bound, IdInv, IdTypes
  <1>7. UsesBounded(t)'
    BY <1>1, <1>6, UsesKept DEF IdInv
  <1> QED  BY <1>3, <1>4, <1>5, <1>7 DEF IdInv

\* The new id is handed out, once more than before.
LEMMA RecordValStep ==
    ASSUME IdInv, NEW t, Threads = {t}, RecordVal(t)
    PROVE  IdInv'
  <1> DEFINE n == last[t] + 1
             x == <<n, NameCol, file[t]>>
  <1>1. /\ phase[t] = "record" /\ last[t] \in 1..MaxIds /\ step[t] = "idle"
        /\ Counter = <<n>>
        /\ step' = [step EXCEPT ![t] = "set_hget"] /\ at' = [at EXCEPT ![t] = x]
        /\ phase' = [phase EXCEPT ![t] = "return"]
        /\ Call(t, x, "set_hget")
        /\ made' = Append(made, <<n, file[t]>>)
        /\ UNCHANGED <<db, got, last, file, resets>>
    BY DEF RecordVal, CallSetval, Call, NewId, IdInv, CounterAt
  <1>2. n \in Nat /\ last[t] \in Nat /\ file[t] \in Files /\ x \in Triples
    <2>1. n \in Nat /\ last[t] \in Nat /\ file[t] \in Files
      BY DEF IdInv, IdTypes
    <2>2. <<last[t] + 1, NameCol, file[t]>> \in Triples
      BY <1>1, <2>1, CounterIs
    <2> QED  BY <2>1, <2>2
  <1>3. TypeOK'
    BY <1>1, <1>2, CallType DEF IdInv, Steps
  <1>4. IdTypes'
    <2>1. <<n, file[t]>> \in Nat \X Files
      BY <1>2
    <2>2. made' \in Seq(Nat \X Files)
      BY <1>1, <2>1, AppendProperties DEF IdInv, IdTypes
    <2> QED  BY <1>1, <2>2 DEF IdInv, IdTypes
  <1>5. CounterAt(t)'
    BY <1>1 DEF CounterAt, Counter, IdInv, IdTypes, TypeOK
  <1>6. Bound(t) = last[t] /\ Bound(t)' = n
    <2>1. Counter' = <<n>> /\ phase'[t] = "return"
      BY <1>1 DEF Counter, IdInv, IdTypes
    <2> HIDE DEF n
    <2> QED  BY <1>1, <2>1 DEF Bound
  <1>7. UsesBounded(t)'
    <2> SUFFICES ASSUME NEW m \in Nat
                 PROVE  Uses(m)' <= IF m <= n THEN 1 + resets' ELSE resets'
      BY <1>6 DEF UsesBounded
    <2>1. Uses(m)' = Uses(m) + (IF n = m THEN 1 ELSE 0) /\ Uses(m) \in Nat
      BY <1>1, <1>2, UsesAppend, UsesNat DEF IdInv
    <2>2. Uses(m) <= IF m <= last[t] THEN 1 + resets ELSE resets
      BY <1>6 DEF IdInv, UsesBounded
    <2>3. resets \in Nat /\ resets' = resets
      BY <1>1 DEF IdInv, IdTypes
    <2> QED  BY <1>2, <2>1, <2>2, <2>3
  <1> QED  BY <1>3, <1>4, <1>5, <1>7 DEF IdInv

LEMMA ReturnIdStep ==
    ASSUME IdInv, NEW t, Threads = {t}, ReturnId(t)
    PROVE  IdInv'
  <1>1. /\ phase[t] = "return" /\ last[t] \in 1..MaxIds /\ step[t] = "idle"
        /\ Counter = <<last[t] + 1>>
        /\ phase' = [phase EXCEPT ![t] = "none"]
        /\ UNCHANGED <<vars, last, file, made, resets>>
    BY DEF ReturnId, IdInv, CounterAt
  <1>2. last[t] + 1 \in 1..(MaxIds + 1)
    BY <1>1, IdsAssumption
  <1>3. TypeOK'
    BY <1>1, TypeStep DEF IdInv
  <1>4. IdTypes'
    BY <1>1 DEF IdInv, IdTypes
  <1>5. CounterAt(t)'
    BY <1>1, <1>2 DEF CounterAt, Counter, Plain, vars, IdInv, IdTypes
  <1>6. Bound(t) = last[t] + 1 /\ Bound(t)' = last[t] + 1 /\ last[t] + 1 \in Nat
    <2>1. Counter' = Counter /\ phase'[t] = "none" /\ last[t] + 1 \in Nat
      BY <1>1, <1>2 DEF Counter, vars, IdInv, IdTypes
    <2>2. Counter # <<>> /\ Counter[1] = last[t] + 1
      BY <1>1
    <2> QED  BY <1>1, <2>1, <2>2 DEF Bound
  <1>7. UsesBounded(t)'
    BY <1>1, <1>6, UsesKept DEF IdInv
  <1> QED  BY <1>3, <1>4, <1>5, <1>7 DEF IdInv
------------------------------------------------------------------------------
\* A command that leaves the counter as it is, in a phase whose bound it does not touch.
LEMMA CommandKeeps ==
    ASSUME IdInv, NEW t, Threads = {t}, Command(t), UNCHANGED idVars,
           Counter' = Counter, CounterAt(t)'
    PROVE  IdInv'
  <1>1. TypeOK'
    BY CommandType DEF IdInv
  <1>2. IdTypes' /\ UNCHANGED <<phase, last, made, resets>>
    BY DEF IdInv, IdTypes, idVars
  <1>3. Bound(t)' = Bound(t)
    BY <1>2 DEF Bound
  <1>4. UsesBounded(t)'
    BY <1>2, <1>3 DEF IdInv, UsesBounded, Uses
  <1> QED  BY <1>1, <1>2, <1>4 DEF IdInv

\* A read changes no field; a write changes no other field than its own.
LEMMA ReadEffect ==
    ASSUME TypeOK, NEW t \in Threads, NEW from, NEW text, NEW next, Read(t, from, text, next)
    PROVE  Counter' = Counter /\ step'[t] = next
  BY DEF Read, Counter, TypeOK

LEMMA WriteElsewhere ==
    ASSUME TypeOK, NEW t \in Threads, NEW from, NEW kn, kn # CounterField, NEW text, NEW next,
           Write(t, from, kn, text, next)
    PROVE  Counter' = Counter /\ step'[t] = next
  BY CounterIs DEF Write, Counter, TypeOK

\* A command of the nested calls takes the counter from one of its states to the next.
LEMMA StoreCommandStep ==
    ASSUME IdInv, ErasesItself, NEW t, Threads = {t}, StoreCommand(t)
    PROVE  IdInv'
  <1> DEFINE n == last[t]
             x == at[t]
  <1>1. Command(t) /\ UNCHANGED <<phase, last, file, made, resets>>
    BY DEF StoreCommand, idVars
  <1>2. TypeOK /\ IdTypes /\ CounterAt(t) /\ UsesBounded(t)
    BY DEF IdInv
  <1>3. TypeOK'
    BY <1>1, <1>2, CommandType
  <1>4. IdTypes'
    BY <1>1, <1>2 DEF IdTypes
  <1>5. UNCHANGED at
    BY <1>1 DEF Command, SetHGet, SetHSet, SetHGetCol, SetHSetCol, RemoveHGet, RemoveHSet,
                RemoveGetVal, RemoveHSetCol, Read, Write
  <1>6. step[t] # "idle"
    BY <1>1 DEF Command, SetHGet, SetHSet, SetHGetCol, SetHSetCol, RemoveHGet, RemoveHSet,
                RemoveGetVal, RemoveHSetCol, Read, Write
  <1>7. x \in Triples /\ ColField(x) # CounterField
    BY <1>2, CounterIs DEF TypeOK
  <1>8. CASE phase[t] = "store"
    <2>1. n \in 1..MaxIds /\ EntityField(x) = CounterField /\ x[3] = n
      BY <1>2, <1>8 DEF CounterAt, EntityField, CounterField
    <2>2. n \in 1..(MaxIds + 1)
      BY <2>1, IdsAssumption
    <2>3. CASE step[t] = "rem_hget"
      <3>1. RemoveHGet(t)
        BY <1>1, <2>3 DEF Command, SetHGet, SetHSet, SetHGetCol, SetHSetCol, RemoveHSet,
                          RemoveGetVal, RemoveHSetCol, Read, Write
      <3>2. Counter' = Counter /\ Counter \in {<<>>, <<n>>}
        BY <1>2, <1>8, <2>3, <3>1 DEF RemoveHGet, Read, Counter, CounterAt
      <3>3. IF Counter = <<>> THEN step'[t] = "rem_getval"
            ELSE step'[t] = "rem_hset" /\ got'[t] = <<n>>
        <4>1. NoReply(<<>>) /\ ~NoReply(<<n>>)
          BY <2>2, CounterTexts DEF NoReply
        <4> QED
          BY <1>2, <2>1, <3>1, <3>2, <4>1 DEF RemoveHGet, Read, Counter, TypeOK
      <3>4. CounterAt(t)'
        BY <1>1, <1>2, <1>5, <1>8, <2>1, <3>2, <3>3 DEF CounterAt
      <3> QED  BY <1>1, <3>2, <3>4, CommandKeeps DEF StoreCommand
    <2>4. CASE step[t] = "rem_hset"
      <3>1. RemoveHSet(t)
        BY <1>1, <2>4 DEF Command, SetHGet, SetHSet, SetHGetCol, SetHSetCol, RemoveHGet,
                          RemoveGetVal, RemoveHSetCol, Read, Write
      <3>2. Erased(got[t], x[3]) = <<Empty>>
        BY <1>2, <1>8, <2>1, <2>2, <2>4, CounterTexts DEF CounterAt
      <3>3. Counter' = <<>> /\ step'[t] = "rem_getval"
        BY <1>2, <2>1, <3>1, <3>2, CounterIs DEF RemoveHSet, Write, Counter, TypeOK
      <3>4. CounterAt(t)'
        BY <1>1, <1>2, <1>5, <1>8, <2>1, <3>3 DEF CounterAt
      <3>5. Bound(t)' = n /\ Bound(t) = n
        BY <1>1, <1>8 DEF Bound
      <3>6. UsesBounded(t)'
        BY <1>1, <1>2, <3>5 DEF UsesBounded, Uses
      <3> QED  BY <1>3, <1>4, <3>4, <3>6 DEF IdInv
    <2>5. CASE step[t] \in {"rem_getval", "rem_hset_col"}
      <3>1. RemoveGetVal(t) \/ RemoveHSetCol(t)
        BY <1>1, <2>5 DEF Command, SetHGet, SetHSet, SetHGetCol, SetHSetCol, RemoveHGet,
                          RemoveHSet, Read, Write
      <3>2. Counter' = Counter /\ step'[t] \in {"rem_hset_col", "idle"}
        <4>1. CASE RemoveGetVal(t)
          BY <1>2, <4>1, ReadEffect DEF RemoveGetVal
        <4>2. CASE RemoveHSetCol(t)
          BY <1>2, <1>7, <4>2, WriteElsewhere DEF RemoveHSetCol
        <4> QED  BY <3>1, <4>1, <4>2
      <3>3. CounterAt(t)'
        BY <1>1, <1>2, <1>5, <1>8, <2>1, <2>5, <3>2 DEF CounterAt
      <3> QED  BY <1>1, <3>2, <3>3, CommandKeeps DEF StoreCommand
    <2> QED  BY <1>2, <1>6, <1>8, <2>3, <2>4, <2>5 DEF CounterAt
  <1>9. CASE phase[t] = "record"
    <2>1. n \in 1..MaxIds /\ EntityField(x) = CounterField /\ x[3] = n + 1
      BY <1>2, <1>9 DEF CounterAt, EntityField, CounterField
    <2>2. n + 1 \in 1..(MaxIds + 1)
      BY <2>1, IdsAssumption
    <2>3. CASE step[t] = "set_hget"
      <3>1. SetHGet(t)
        BY <1>1, <2>3 DEF Command, SetHSet, SetHGetCol, SetHSetCol, RemoveHGet, RemoveHSet,
                          RemoveGetVal, RemoveHSetCol, Read, Write
      <3>2. Counter' = Counter /\ Counter = <<>>
        BY <1>2, <1>9, <2>3, <3>1 DEF SetHGet, Read, Counter, CounterAt
      <3>3. step'[t] = "set_hset" /\ got'[t] = <<>>
        BY <1>2, <2>1, <3>1, <3>2 DEF SetHGet, Read, Counter, TypeOK
      <3>4. CounterAt(t)'
        BY <1>1, <1>2, <1>5, <1>9, <2>1, <3>2, <3>3 DEF CounterAt
      <3> QED  BY <1>1, <3>2, <3>4, CommandKeeps DEF StoreCommand
    <2>4. CASE step[t] = "set_hset"
      <3>1. SetHSet(t)
        BY <1>1, <2>4 DEF Command, SetHGet, SetHGetCol, SetHSetCol, RemoveHGet, RemoveHSet,
                          RemoveGetVal, RemoveHSetCol, Read, Write
      <3>2. Joined(got[t], x[3]) = <<n + 1>>
        BY <1>2, <1>9, <2>1, <2>2, <2>4, CounterTexts DEF CounterAt
      <3>3. Counter' = <<n + 1>> /\ step'[t] = "set_hget_col"
        BY <1>2, <2>1, <3>1, <3>2, CounterIs DEF SetHSet, Write, Counter, TypeOK
      <3>4. CounterAt(t)'
        BY <1>1, <1>2, <1>5, <1>9, <2>1, <3>3 DEF CounterAt
      <3>5. Bound(t)' = n /\ Bound(t) = n
        BY <1>1, <1>9 DEF Bound
      <3>6. UsesBounded(t)'
        BY <1>1, <1>2, <3>5 DEF UsesBounded, Uses
      <3> QED  BY <1>3, <1>4, <3>4, <3>6 DEF IdInv
    <2>5. CASE step[t] \in {"set_hget_col", "set_hset_col"}
      <3>1. SetHGetCol(t) \/ SetHSetCol(t)
        BY <1>1, <2>5 DEF Command, SetHGet, SetHSet, RemoveHGet, RemoveHSet, RemoveGetVal,
                          RemoveHSetCol, Read, Write
      <3>2. Counter' = Counter /\ step'[t] \in {"set_hset_col", "idle"}
        <4>1. CASE SetHGetCol(t)
          BY <1>2, <4>1, ReadEffect DEF SetHGetCol
        <4>2. CASE SetHSetCol(t)
          BY <1>2, <1>7, <4>2, WriteElsewhere DEF SetHSetCol
        <4> QED  BY <3>1, <4>1, <4>2
      <3>3. CounterAt(t)'
        BY <1>1, <1>2, <1>5, <1>9, <2>1, <2>5, <3>2 DEF CounterAt
      <3> QED  BY <1>1, <3>2, <3>3, CommandKeeps DEF StoreCommand
    <2> QED  BY <1>2, <1>6, <1>9, <2>3, <2>4, <2>5 DEF CounterAt
  <1>10. CASE phase[t] = "return"
    <2>1. n \in 1..MaxIds /\ x[1] = n + 1
      BY <1>2, <1>10 DEF CounterAt
    <2>2. EntityField(x) # CounterField
      BY <1>7, <2>1, IdsAssumption, CounterIs
    <2>3. SetHGet(t) \/ SetHSet(t) \/ SetHGetCol(t) \/ SetHSetCol(t)
      BY <1>1, <1>2, <1>10 DEF CounterAt, Command, RemoveHGet, RemoveHSet, RemoveGetVal,
                                RemoveHSetCol, Read, Write
    <2>4. /\ Counter' = Counter
          /\ step'[t] \in {"set_hset", "set_hget_col", "set_hset_col", "idle"}
      <3>1. CASE SetHGet(t)
        BY <1>2, <3>1, ReadEffect DEF SetHGet
      <3>2. CASE SetHSet(t)
        BY <1>2, <2>2, <3>2, WriteElsewhere DEF SetHSet
      <3>3. CASE SetHGetCol(t)
        BY <1>2, <3>3, ReadEffect DEF SetHGetCol
      <3>4. CASE SetHSetCol(t)
        BY <1>2, <1>7, <3>4, WriteElsewhere DEF SetHSetCol
      <3> QED  BY <2>3, <3>1, <3>2, <3>3, <3>4
    <2>5. CounterAt(t)'
      BY <1>1, <1>2, <1>5, <1>10, <2>1, <2>4 DEF CounterAt
    <2> QED  BY <1>1, <2>4, <2>5, CommandKeeps DEF StoreCommand
  <1>11. phase[t] \notin {"none", "remove"}
    BY <1>2, <1>6 DEF CounterAt
  <1> QED  BY <1>2, <1>8, <1>9, <1>10, <1>11 DEF IdTypes

\* Between two calls and inside each, the counter is one id that covers the bound, or absent.
LEMMA CounterPlain ==
    ASSUME IdInv, NEW t, Threads = {t}
    PROVE  /\ Bound(t) \in Nat
           /\ \/ Counter = <<>>
              \/ \E k \in 1..(MaxIds + 1) : Counter = <<k>> /\ Bound(t) <= k
  <1> DEFINE n == last[t]
             Goal == /\ Bound(t) \in Nat
                     /\ \/ Counter = <<>>
                        \/ \E k \in 1..(MaxIds + 1) : Counter = <<k>> /\ Bound(t) <= k
  <1>1. phase[t] \in {"none", "remove", "store", "record", "return"} /\ CounterAt(t)
    BY DEF IdInv, IdTypes
  <1>2. MaxIds \in Nat
    BY IdsAssumption
  <1>3. CASE phase[t] = "none"
    <2>1. Plain(Counter)
      BY <1>1, <1>3 DEF CounterAt
    <2>2. CASE Counter = <<>>
      BY <1>3, <2>2 DEF Bound
    <2>3. ASSUME NEW k \in 1..(MaxIds + 1), Counter = <<k>> PROVE Goal
      <3>1. Bound(t) = k /\ k \in Nat
        BY <1>2, <1>3, <2>3 DEF Bound
      <3> QED  BY <2>3, <3>1
    <2> QED  BY <2>1, <2>2, <2>3 DEF Plain
  <1>4. CASE phase[t] \in {"remove", "store", "record"}
    <2>1. n \in 1..MaxIds /\ Counter \in {<<>>, <<n>>, <<n + 1>>}
      <3>1. CASE phase[t] = "remove"
        BY <1>1, <3>1 DEF CounterAt
      <3>2. CASE phase[t] = "store"
        BY <1>1, <3>2 DEF CounterAt
      <3>3. CASE phase[t] = "record"
        BY <1>1, <3>3 DEF CounterAt
      <3> QED  BY <1>4, <3>1, <3>2, <3>3
    <2>2. Bound(t) = n
      BY <1>4 DEF Bound
    <2>3. /\ n \in Nat /\ n <= n /\ n <= n + 1
          /\ n \in 1..(MaxIds + 1) /\ n + 1 \in 1..(MaxIds + 1)
      BY <1>2, <2>1
    <2> HIDE DEF n
    <2> QED  BY <2>1, <2>2, <2>3
  <1>5. CASE phase[t] = "return"
    <2>1. n \in 1..MaxIds /\ Counter = <<n + 1>>
      BY <1>1, <1>5 DEF CounterAt
    <2>2. Bound(t) = n + 1
      <3>1. Counter # <<>> /\ Counter[1] = n + 1
        BY <2>1
      <3> QED  BY <1>5, <3>1 DEF Bound
    <2>3. n + 1 \in 1..(MaxIds + 1) /\ n + 1 \in Nat /\ n + 1 <= n + 1
      BY <1>2, <2>1
    <2> HIDE DEF n
    <2> QED  BY <2>1, <2>2, <2>3
  <1> QED  BY <1>1, <1>3, <1>4, <1>5

\* A kill at any command; a reset when it finds the counter removed.
LEMMA IdCrashStep ==
    ASSUME IdInv, NEW t, Threads = {t}, IdCrash
    PROVE  IdInv'
  <1>1. /\ db' = db /\ at' = at /\ step'[t] = "idle"
        /\ phase' = [u \in Threads |-> "none"]
        /\ resets' = IF made # <<>> /\ NoReply(Counter) THEN resets + 1 ELSE resets
        /\ UNCHANGED <<last, file, made>>
    BY DEF IdCrash, Crash, Counter
  <1>2. TypeOK'
    <2>1. CASE Crash
      BY <2>1, CrashType DEF IdInv
    <2>2. CASE crashes' = crashes + 1 /\ UNCHANGED <<db, step, at, got, calls, torn>>
      BY <2>2 DEF IdInv, TypeOK
    <2> QED  BY <2>1, <2>2 DEF IdCrash
  <1>3. IdTypes'
    BY <1>1 DEF IdInv, IdTypes
  <1>4. Plain(Counter) /\ Counter' = Counter
    BY <1>1, CounterPlain DEF Plain, Counter
  <1>5. phase'[t] = "none" /\ CounterAt(t)'
    BY <1>1, <1>4 DEF CounterAt, Plain
  <1>6. resets \in Nat /\ UsesBounded(t) /\ IdTypes
    BY DEF IdInv, IdTypes
  <1>7. UsesBounded(t)'
    <2>1. CASE Counter = <<>> /\ made # <<>>
      <3>1. resets' = resets + 1
        BY <1>1, <2>1 DEF NoReply
      <3>2. ASSUME NEW m \in Nat
            PROVE  Uses(m)' <= resets'
        <4>1. Uses(m)' = Uses(m) /\ Uses(m) \in Nat
          BY <1>1, <1>6, UsesNat DEF Uses
        <4>2. Uses(m) <= 1 + resets
          <5>1. Uses(m) <= IF m <= Bound(t) THEN 1 + resets ELSE resets
            BY <1>6 DEF UsesBounded
          <5> HIDE DEF Bound
          <5> QED  BY <1>6, <4>1, <5>1
        <4> QED  BY <1>6, <3>1, <4>1, <4>2
      <3>3. ASSUME NEW m \in Nat
            PROVE  Uses(m)' <= IF m <= Bound(t)' THEN 1 + resets' ELSE resets'
        <4>1. Uses(m)' \in Nat /\ resets' \in Nat
          BY <1>1, <1>3, <1>6, <3>1, UsesNat DEF Uses
        <4> QED  BY <3>2, <4>1
      <3> QED  BY <3>3 DEF UsesBounded
    <2>2. CASE made = <<>>
      <3>1. \A m \in Nat : Uses(m)' = 0
        BY <1>1, <2>2, FS_EmptySet DEF Uses
      <3>2. resets' \in Nat
        BY <1>3 DEF IdTypes
      <3> QED  BY <3>1, <3>2 DEF UsesBounded
    <2>3. ASSUME NEW k \in 1..(MaxIds + 1), Counter = <<k>>, made # <<>>
          PROVE  UsesBounded(t)'
      <3>1. resets' = resets
        <4>1. ~NoReply(<<k>>)
          BY IdTokens DEF NoReply
        <4> QED  BY <1>1, <2>3, <4>1
      <3>2. Bound(t)' = k /\ k \in Nat
        BY <1>4, <1>5, <2>3, IdsAssumption DEF Bound
      <3>3. Bound(t) \in Nat /\ Bound(t) <= k
        <4>1. \A i \in 1..(MaxIds + 1) : Counter = <<i>> => i = k
          BY <2>3
        <4>2. Counter # <<>>
          BY <2>3
        <4> QED  BY <4>1, <4>2, CounterPlain
      <3> QED  BY <1>1, <1>6, <3>1, <3>2, <3>3, UsesKept
    <2> QED  BY <1>4, <2>1, <2>2, <2>3 DEF Plain
  <1> QED  BY <1>2, <1>3, <1>5, <1>7 DEF IdInv

LEMMA IdStep ==
    ASSUME ErasesItself, NEW t, Threads = {t}
    PROVE  IdInv /\ [IdNext]_allVars => IdInv'
  <1> SUFFICES ASSUME IdInv, [IdNext]_allVars PROVE IdInv'
    OBVIOUS
  <1>1. CASE UNCHANGED allVars
    <2>1. TypeOK'
      BY <1>1, TypeStep DEF IdInv, allVars
    <2>2. IdTypes'
      BY <1>1 DEF IdInv, IdTypes, allVars, idVars
    <2>3. CounterAt(t)'
      BY <1>1 DEF IdInv, CounterAt, Counter, Plain, allVars, idVars, vars
    <2>4. UsesBounded(t)'
      BY <1>1 DEF IdInv, UsesBounded, Uses, Bound, Counter, allVars, idVars, vars
    <2> QED  BY <2>1, <2>2, <2>3, <2>4 DEF IdInv
  <1>2. CASE IdCrash
    BY <1>2, IdCrashStep
  <1>3. ASSUME NEW f \in Files, ReadLastId(t, f) PROVE IdInv'
    BY <1>3, ReadLastIdStep
  <1>4. CASE RemoveLastId(t)
    BY <1>4, RemoveLastIdStep
  <1>5. CASE StoreLastId(t)
    BY <1>5, StoreLastIdStep
  <1>6. CASE RecordVal(t)
    BY <1>6, RecordValStep
  <1>7. CASE ReturnId(t)
    BY <1>7, ReturnIdStep
  <1>8. CASE StoreCommand(t)
    BY <1>8, StoreCommandStep
  <1> QED  BY <1>1, <1>2, <1>3, <1>4, <1>5, <1>6, <1>7, <1>8 DEF IdNext, Allocate

\* No id is handed out while the counter is lower, as long as nothing was reset.
LEMMA InvCovers ==
    ASSUME IdInv, NEW t, Threads = {t}
    PROVE  SharedOnlyAfterReset /\ CounterCovers
  <1>1. IdTypes /\ UsesBounded(t) /\ CounterAt(t) /\ resets \in Nat
    BY DEF IdInv, IdTypes
  <1>2. \A m \in Nat : Uses(m) \in Nat /\ (Uses(m) = 0 => \A i \in DOMAIN made : made[i][1] # m)
    BY <1>1, UsesNat
  <1>3. SharedOnlyAfterReset
    <2> SUFFICES ASSUME NEW m \in 1..(MaxIds + 1) PROVE Uses(m) <= 1 + resets
      BY DEF SharedOnlyAfterReset
    <2>1. m \in Nat
      BY IdsAssumption
    <2>2. Uses(m) <= IF m <= Bound(t) THEN 1 + resets ELSE resets
      BY <1>1, <2>1 DEF UsesBounded
    <2> HIDE DEF Bound
    <2> QED  BY <1>1, <1>2, <2>1, <2>2
  <1>4. /\ Bound(t) \in Nat
        /\ \/ Counter = <<>>
           \/ \E k \in 1..(MaxIds + 1) : Counter = <<k>> /\ Bound(t) <= k
    BY CounterPlain
  <1>5. CASE Counter = <<>>
    <2>1. NoReply(Counter) /\ Len(Counter) = 0
      BY <1>5 DEF NoReply
    <2> QED  BY <1>3, <2>1 DEF CounterCovers, Counter
  <1>6. ASSUME NEW k \in 1..(MaxIds + 1), Counter = <<k>>, Bound(t) <= k
        PROVE  CounterCovers
    <2>1. ASSUME resets = 0, NEW i \in DOMAIN made
          PROVE  made[i][1] <= k
      <3>1. made[i][1] \in Nat
        BY <1>1 DEF IdTypes
      <3>2. Uses(made[i][1]) # 0
        BY <1>2, <3>1
      <3>3. Uses(made[i][1]) <= IF made[i][1] <= Bound(t) THEN 1 + resets ELSE resets
        BY <1>1, <3>1 DEF UsesBounded
      <3>4. made[i][1] <= Bound(t)
        BY <1>2, <2>1, <3>1, <3>2, <3>3
      <3> QED  BY <1>4, <1>6, <3>1, <3>4, IdsAssumption
    <2>2. Len(<<k>>) = 1 /\ Counter[1] = k
      BY <1>6
    <2> QED  BY <1>6, <2>1, <2>2 DEF CounterCovers, Counter
  <1> QED  BY <1>3, <1>4, <1>5, <1>6
------------------------------------------------------------------------------
(***************************************************************************)
(* redis_setval("null", ..) by one thread hands an id out again only after *)
(* a kill between the removal of the old last id and the store of the new  *)
(* one, and each such kill costs at most one more use of each id.          *)
(***************************************************************************)
THEOREM OneThreadShares ==
    ASSUME ErasesItself, NEW t, Threads = {t}
    PROVE  IdSpec => []SharedOnlyAfterReset
  <1>1. IdInit => IdInv
    BY InitIds
  <1>2. IdInv /\ [IdNext]_allVars => IdInv'
    BY IdStep
  <1>3. IdInv => SharedOnlyAfterReset
    BY InvCovers
  <1> QED  BY <1>1, <1>2, <1>3, PTL DEF IdSpec

(***************************************************************************)
(* The last id that redis_setval("null", ..) keeps is never doubled, and   *)
(* while no kill has lost it no id it handed out is above it.              *)
(***************************************************************************)
THEOREM OneThreadCovers ==
    ASSUME ErasesItself, NEW t, Threads = {t}
    PROVE  IdSpec => []CounterCovers
  <1>1. IdInit => IdInv
    BY InitIds
  <1>2. IdInv /\ [IdNext]_allVars => IdInv'
    BY IdStep
  <1>3. IdInv => CounterCovers
    BY InvCovers
  <1> QED  BY <1>1, <1>2, <1>3, PTL DEF IdSpec
===============================================================================
