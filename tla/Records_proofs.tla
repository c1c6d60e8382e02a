---------------------------- MODULE Records_proofs ----------------------------
(***************************************************************************)
(* However many calls and kills there are, Berkeley DB and Voldemort hand  *)
(* a file id out again only after a kill that came before the counter's    *)
(* successor was stored, list nothing that was removed or never set, and   *)
(* lose only what a removal names by its file or its column.               *)
(***************************************************************************)
EXTENDS Records, FiniteSetTheorems, SequenceTheorems, TLAPS

Cell(list) == [key |-> Val, list |-> list]

\* The counter's record when it stands at Ids[m], and when its number is removed.
StandsAt(m) ==
    IF m = 1 THEN store[LastId] = <<>>
    ELSE store[LastId] \in {<<Cell(<<Ids[m]>>)>>, <<Cell(<<>>), Cell(<<Ids[m]>>)>>}
Removed == store[LastId] \in {<<>>, <<Cell(<<>>)>>}

Puts == [do : {"set file", "set col", "remove file", "remove col"},
         f : FileIds \cup {LastId}, c : Cols \cup {Val}, v : Vals \cup FileIds]

\* A put that writes another record than the counter's.
Elsewhere(p) ==
    IF p.do \in {"set file", "remove file"} THEN p.f # LastId ELSE p.c # LastId

Removal == [do |-> "remove file", f |-> LastId, c |-> Val, v |-> Ids[Len(given)]]
Successor == [do |-> "set file", f |-> LastId, c |-> Val, v |-> Ids[Len(given) + 1]]

\* The puts of the current call do not touch the counter's record any more.
CounterDone ==
    /\ \A i \in DOMAIN todo : Elsewhere(todo[i])
    /\ StandsAt(Len(given) + 1)

\* The successor is the p-th put still to make.
CounterDue(p) ==
    /\ p < Len(todo) /\ todo[p] = Successor /\ given # <<>>
    /\ \A i \in DOMAIN todo : i = p \/ (p = 3 /\ i = 1) \/ Elsewhere(todo[i])
    /\ p = 3 => todo[1] = Removal /\ todo[2].do = "remove col" /\ StandsAt(Len(given))
    /\ p = 2 => todo[1].do = "remove col"
    /\ p # 3 => Removed

RecordsInv ==
    /\ DOMAIN store = Keys
    /\ ops \in 0..MaxOps /\ Len(given) <= ops
    /\ given \in Seq(FileIds) /\ \A i \in DOMAIN given : given[i] = Ids[i]
    /\ todo \in Seq(Puts)
    /\ todo # <<>> => todo[Len(todo)].do # "remove file"
    /\ CounterDone \/ \E p \in 1..3 : CounterDue(p)

Inv == reset \in BOOLEAN /\ (reset \/ RecordsInv)
------------------------------------------------------------------------------
LEMMA MinOne == ASSUME NEW i \in Nat PROVE Min({i}) = i
  <1>1. \A x \in {i} : x = i /\ x <= x
    OBVIOUS
  <1>2. Min({i}) \in {i}
    BY <1>1 DEF Min
  <1> QED  BY <1>2

LEMMA NotEmpty ==
    ASSUME NEW S, NEW s \in Seq(S)
    PROVE  /\ Len(s) \in Nat /\ (s # <<>> <=> Len(s) > 0) /\ DOMAIN s = 1..Len(s)
           /\ s # <<>> => Head(s) = s[1]
  BY EmptySeq, LenProperties

\* Where the elements of a cut sequence come from.
LEMMA CutProperties ==
    ASSUME NEW S, NEW s \in Seq(S), NEW i \in 1..Len(s)
    PROVE  /\ Cut(s, i) \in Seq(S) /\ Len(Cut(s, i)) = Len(s) - 1
           /\ \A j \in 1..(Len(s) - 1) : Cut(s, i)[j] = IF j < i THEN s[j] ELSE s[j + 1]
  <1> DEFINE n == Len(s)
             a == SubSeq(s, 1, i - 1)
             b == SubSeq(s, i + 1, n)
  <1>1. n \in Nat /\ i \in 1..n /\ \A j \in 1..n : s[j] \in S
    BY LenProperties, ElementOfSeq
  <1>2. /\ a \in Seq(S) /\ Len(a) = i - 1
        /\ \A j \in 1..(i - 1) : a[j] = s[j]
    <2>1. \A j \in 1..(i - 1) : s[j] \in S
      BY <1>1
    <2>2. /\ a \in Seq(S) /\ Len(a) = IF 1 <= i - 1 THEN (i - 1) - 1 + 1 ELSE 0
          /\ \A j \in 1..((i - 1) - 1 + 1) : a[j] = s[1 + j - 1]
      <3>1. 1 \in Int /\ i - 1 \in Int
        BY <1>1
      <3> QED  BY <2>1, <3>1, SubSeqProperties
    <2> QED  BY <1>1, <2>2
  <1>3. /\ b \in Seq(S) /\ Len(b) = n - i
        /\ \A j \in 1..(n - i) : b[j] = s[i + j]
    <2>1. \A j \in (i + 1)..n : s[j] \in S
      BY <1>1
    <2>2. /\ b \in Seq(S) /\ Len(b) = IF i + 1 <= n THEN n - (i + 1) + 1 ELSE 0
          /\ \A j \in 1..(n - (i + 1) + 1) : b[j] = s[(i + 1) + j - 1]
      <3>1. i + 1 \in Int /\ n \in Int
        BY <1>1
      <3> QED  BY <2>1, <3>1, SubSeqProperties
    <2> QED  BY <1>1, <2>2
  <1> HIDE DEF n, a, b
  <1>4. /\ a \o b \in Seq(S) /\ Len(a \o b) = Len(a) + Len(b)
        /\ \A j \in 1..(Len(a) + Len(b)) :
              (a \o b)[j] = IF j <= Len(a) THEN a[j] ELSE b[j - Len(a)]
    BY <1>2, <1>3, ConcatProperties, Zenon
  <1>5. Len(a) + Len(b) = n - 1
    BY <1>1, <1>2, <1>3
  <1>6. ASSUME NEW j \in 1..(n - 1) PROVE (a \o b)[j] = IF j < i THEN s[j] ELSE s[j + 1]
    <2>1. CASE j < i
      BY <1>1, <1>2, <1>4, <1>5, <2>1
    <2>2. CASE ~(j < i)
      <3>1. (a \o b)[j] = b[j - (i - 1)]
        BY <1>1, <1>2, <1>4, <1>5, <2>2
      <3>2. j - (i - 1) \in 1..(n - i) /\ i + (j - (i - 1)) = j + 1
        BY <1>1, <2>2
      <3> QED  BY <1>3, <2>2, <3>1, <3>2
    <2> QED  BY <2>1, <2>2
  <1> QED  BY <1>4, <1>5, <1>6 DEF Cut, n, a, b

\* A cell whose only value is removed stays as a key alone.
LEMMA CutOnly == ASSUME NEW v PROVE Cut(<<v>>, Min(PlacesOf(<<v>>, v))) = <<>>
  <1>1. PlacesOf(<<v>>, v) = {1}
    BY DEF PlacesOf
  <1> DEFINE s == <<v>>
  <1>2. s \in Seq({v}) /\ Len(s) = 1
    OBVIOUS
  <1> HIDE DEF s
  <1>3. Cut(s, 1) \in Seq({v}) /\ Len(Cut(s, 1)) = 0
    <2>1. 1 \in 1..Len(s)
      BY <1>2
    <2>2. Cut(s, 1) \in Seq({v}) /\ Len(Cut(s, 1)) = Len(s) - 1
      BY <1>2, <2>1, CutProperties, Zenon
    <2> QED  BY <1>2, <2>2
  <1>4. Cut(s, 1) = <<>>
    BY <1>3, EmptySeq
  <1> QED  BY <1>1, <1>4, MinOne DEF s

\* What a search for the counter finds.
LEMMA DeadCell ==
    ASSUME NEW r, r \in {<<>>, <<Cell(<<>>)>>}
    PROVE  CellsOf(r, Val) = {} /\ ListOf(r, Val) = <<>>
  BY DEF CellsOf, ListOf, Cell

LEMMA LiveCell ==
    ASSUME NEW s, NEW r, r \in {<<Cell(<<s>>)>>, <<Cell(<<>>), Cell(<<s>>)>>}
    PROVE  ListOf(r, Val) = <<s>>
  <1>1. CASE r = <<Cell(<<s>>)>>
    <2>1. CellsOf(r, Val) = {1}
      BY <1>1 DEF CellsOf, Cell
    <2>2. r[1].list = <<s>>
      BY <1>1 DEF Cell
    <2> QED  BY <2>1, <2>2, MinOne DEF ListOf
  <1>2. CASE r = <<Cell(<<>>), Cell(<<s>>)>>
    <2>1. CellsOf(r, Val) = {2}
      BY <1>2 DEF CellsOf, Cell
    <2>2. r[2].list = <<s>>
      BY <1>2 DEF Cell
    <2> QED  BY <2>1, <2>2, MinOne DEF ListOf
  <1> QED  BY <1>1, <1>2

LEMMA UpToTwo == \A i \in 1..2 : i = 1 \/ i = 2
  OBVIOUS
LEMMA UpToSix == \A i \in 1..6 : i = 1 \/ i = 2 \/ i = 3 \/ i = 4 \/ i = 5 \/ i = 6
  OBVIOUS

LEMMA TwoOf ==
    ASSUME NEW S, NEW a \in S, NEW b \in S
    PROVE  /\ <<a, b>> \in Seq(S) /\ Len(<<a, b>>) = 2 /\ DOMAIN <<a, b>> = 1..2
           /\ <<a, b>>[1] = a /\ <<a, b>>[2] = b
  OBVIOUS

LEMMA SixOf ==
    ASSUME NEW S, NEW a \in S, NEW b \in S, NEW c \in S, NEW d \in S, NEW e \in S, NEW f \in S
    PROVE  LET s == (<<a, b>> \o <<c, d>>) \o <<e, f>>
           IN  /\ s \in Seq(S) /\ Len(s) = 6 /\ DOMAIN s = 1..6
               /\ s[1] = a /\ s[2] = b /\ s[3] = c /\ s[4] = d /\ s[5] = e /\ s[6] = f
  <1> DEFINE s == (<<a, b>> \o <<c, d>>) \o <<e, f>>
             x == <<a, b>>
             y == <<c, d>>
             z == <<e, f>>
  <1>1. /\ x \in Seq(S) /\ Len(x) = 2 /\ x[1] = a /\ x[2] = b
        /\ y \in Seq(S) /\ Len(y) = 2 /\ y[1] = c /\ y[2] = d
        /\ z \in Seq(S) /\ Len(z) = 2 /\ z[1] = e /\ z[2] = f
    BY TwoOf
  <1>2. s = (x \o y) \o z
    OBVIOUS
  <1> HIDE DEF s, x, y, z
  <1>3. /\ x \o y \in Seq(S) /\ Len(x \o y) = 4
        /\ \A i \in 1..4 : (x \o y)[i] = IF i <= 2 THEN x[i] ELSE y[i - 2]
    <2>1. /\ x \o y \in Seq(S) /\ Len(x \o y) = Len(x) + Len(y)
          /\ \A i \in 1..(Len(x) + Len(y)) :
                (x \o y)[i] = IF i <= Len(x) THEN x[i] ELSE y[i - Len(x)]
      BY <1>1, ConcatProperties, Zenon
    <2>2. Len(x) = 2 /\ Len(y) = 2 /\ Len(x) + Len(y) = 4
      BY <1>1
    <2> QED  BY <2>1, <2>2
  <1> DEFINE w == x \o y
  <1>4. w[1] = a /\ w[2] = b /\ w[3] = c /\ w[4] = d
    BY <1>1, <1>3
  <1>5. w \in Seq(S) /\ Len(w) = 4 /\ s = w \o z
    BY <1>2, <1>3
  <1> HIDE DEF w
  <1>6. /\ s \in Seq(S) /\ Len(s) = 6
        /\ \A i \in 1..6 : s[i] = IF i <= 4 THEN w[i] ELSE z[i - 4]
    <2>1. /\ w \o z \in Seq(S) /\ Len(w \o z) = Len(w) + Len(z)
          /\ \A i \in 1..(Len(w) + Len(z)) :
                (w \o z)[i] = IF i <= Len(w) THEN w[i] ELSE z[i - Len(w)]
      BY <1>1, <1>5, ConcatProperties, Zenon
    <2>2. Len(w) = 4 /\ Len(z) = 2 /\ Len(w) + Len(z) = 6
      BY <1>1, <1>5
    <2> QED  BY <1>5, <2>1, <2>2
  <1>7. DOMAIN s = 1..6
    BY <1>6, LenProperties
  <1>8. /\ s[1] = a /\ s[2] = b /\ s[3] = c /\ s[4] = d /\ s[5] = e /\ s[6] = f
    BY <1>1, <1>4, <1>6
  <1> QED  BY <1>6, <1>7, <1>8, Zenon DEF s

LEMMA AppendTwo == ASSUME NEW a, NEW b PROVE Append(<<>>, b) = <<b>> /\ Append(<<a>>, b) = <<a, b>>
  <1> DEFINE S == {a, b}
  <1>1. Append(<<>>, b) = <<b>>
    OBVIOUS
  <1>2. /\ <<a>> \in Seq(S) /\ Len(<<a>>) = 1 /\ <<a>>[1] = a /\ b \in S
        /\ <<a, b>> \in Seq(S) /\ Len(<<a, b>>) = 2 /\ <<a, b>>[1] = a /\ <<a, b>>[2] = b
    OBVIOUS
  <1> DEFINE s == <<a>>
             t == <<a, b>>
  <1>3. /\ s \in Seq(S) /\ Len(s) = 1 /\ s[1] = a /\ b \in S
        /\ t \in Seq(S) /\ Len(t) = 2 /\ t[1] = a /\ t[2] = b
    BY <1>2
  <1> HIDE DEF s, t, S
  <1>4. /\ Append(s, b) \in Seq(S) /\ Len(Append(s, b)) = 2
        /\ Append(s, b)[1] = a /\ Append(s, b)[2] = b
    <2>1. /\ Append(s, b) \in Seq(S) /\ Len(Append(s, b)) = Len(s) + 1
          /\ \A i \in 1..Len(s) : Append(s, b)[i] = s[i]
          /\ Append(s, b)[Len(s) + 1] = b
      <3>1. s \in Seq(S) /\ b \in S
        BY <1>3, Zenon
      <3> QED  BY <3>1, AppendProperties
    <2>2. 1 \in 1..Len(s) /\ Len(s) + 1 = 2
      BY <1>3
    <2> QED  BY <1>3, <2>1, <2>2
  <1>5. \A i \in 1..2 : Append(s, b)[i] = t[i]
    BY <1>3, <1>4
  <1>6. Append(s, b) = t
    BY <1>3, <1>4, <1>5, SeqEqual
  <1> QED  BY <1>1, <1>6 DEF s, t

\* Where a number is stored after the one before it was removed.
LEMMA StoredAgain ==
    ASSUME NEW s, NEW r, r \in {<<>>, <<Cell(<<>>)>>}
    PROVE  With(r, Val, s) \in {<<Cell(<<s>>)>>, <<Cell(<<>>), Cell(<<s>>)>>}
  <1>1. With(r, Val, s) = Append(r, Cell(<<s>>))
    BY DeadCell DEF With, Cell
  <1> QED  BY <1>1, AppendTwo

LEMMA CounterReads ==
    ASSUME NEW m \in DOMAIN Ids, StandsAt(m)
    PROVE  /\ Counter = m
           /\ m = 1 => ~Lists(store[LastId], Val, Ids[m]) /\ Removed
           /\ m # 1 => LeftOf(store[LastId], Val, Ids[m]) = <<Cell(<<>>)>>
  <1> DEFINE r == store[LastId]
  <1>1. CASE m = 1
    <2>1. r = <<>>
      BY <1>1 DEF StandsAt
    <2>2. ListOf(r, Val) = <<>>
      BY <2>1, DeadCell
    <2> QED  BY <1>1, <2>1, <2>2 DEF Counter, Lists, Removed
  <1>2. CASE m # 1
    <2>1. r \in {<<Cell(<<Ids[m]>>)>>, <<Cell(<<>>), Cell(<<Ids[m]>>)>>}
      BY <1>2 DEF StandsAt
    <2>2. ListOf(r, Val) = <<Ids[m]>>
      BY <2>1, LiveCell
    <2>3. Counter = m
      <3>1. <<Ids[m]>> # <<>> /\ <<Ids[m]>>[1] = Ids[m]
        OBVIOUS
      <3>2. \A i \in DOMAIN Ids : Ids[i] = Ids[m] <=> i = m
        BY RecordsAssumption
      <3>3. Counter = CHOOSE i \in DOMAIN Ids : Ids[i] = Ids[m]
        BY <2>2, <3>1 DEF Counter
      <3> QED  BY <3>2, <3>3
    <2>4. LeftOf(r, Val, Ids[m]) = <<Cell(<<>>)>>
      BY <2>2, CutOnly DEF LeftOf, Cell
    <2> QED  BY <1>2, <2>3, <2>4
  <1> QED  BY <1>1, <1>2

LEMMA CounterLists ==
    ASSUME NEW m \in DOMAIN Ids, StandsAt(m), m # 1
    PROVE  Lists(store[LastId], Val, Ids[m])
  <1>1. ListOf(store[LastId], Val) = <<Ids[m]>>
    BY LiveCell DEF StandsAt
  <1>2. 1 \in DOMAIN <<Ids[m]>> /\ <<Ids[m]>>[1] = Ids[m]
    OBVIOUS
  <1> QED  BY <1>1, <1>2 DEF Lists
------------------------------------------------------------------------------
LEMMA RecordsInit == Init => Inv
  <1> SUFFICES ASSUME Init PROVE RecordsInv /\ reset \in BOOLEAN
    BY DEF Inv
  <1>1. MaxOps \in Nat
    BY RecordsAssumption
  <1>2. DOMAIN store = Keys /\ store[LastId] = <<>>
    BY DEF Init, Keys
  <1>3. CounterDone
    BY <1>2 DEF Init, CounterDone, StandsAt
  <1>4. given = <<>> /\ todo = <<>> /\ ops = 0 /\ reset = FALSE
    BY DEF Init
  <1>5. <<>> \in Seq(FileIds) /\ <<>> \in Seq(Puts) /\ Len(<<>>) = 0 /\ DOMAIN <<>> = {}
    BY EmptySeq
  <1>6. ops \in 0..MaxOps /\ Len(given) <= ops
    <2>1. Len(given) = 0 /\ 0 \in 0..MaxOps /\ 0 <= 0
      BY <1>1, <1>4, <1>5
    <2>2. ops = 0
      BY <1>4
    <2> QED  BY <2>1, <2>2
  <1>7. given \in Seq(FileIds) /\ (\A i \in DOMAIN given : given[i] = Ids[i])
    BY <1>4, <1>5
  <1>8. todo \in Seq(Puts) /\ todo = <<>>
    BY <1>4, <1>5
  <1>9. reset \in BOOLEAN
    BY <1>4
  <1> QED  BY <1>2, <1>3, <1>6, <1>7, <1>8, <1>9 DEF RecordsInv

\* A put of another record leaves the counter's alone.
LEMMA PutElsewhere ==
    ASSUME RecordsInv, Put, Elsewhere(Head(todo))
    PROVE  DOMAIN store' = Keys /\ store'[LastId] = store[LastId]
  <1> DEFINE p == Head(todo)
  <1>1. LastId \in Keys /\ DOMAIN store = Keys
    BY DEF RecordsInv, Keys
  <1>2. \/ store' = store
        \/ p.do \in {"set file", "remove file"} /\ \E x : store' = [store EXCEPT ![p.f] = x]
        \/ p.do \notin {"set file", "remove file"} /\ \E x : store' = [store EXCEPT ![p.c] = x]
    BY DEF Put
  <1> QED  BY <1>1, <1>2 DEF Elsewhere

\* One put goes, or the two of a removal of what is not there.
Skips == todo[1].do = "remove file" /\ ~Lists(store[todo[1].f], todo[1].c, todo[1].v)

LEMMA PutGoes ==
    ASSUME RecordsInv, Put
    PROVE  /\ todo \in Seq(Puts) /\ Len(todo) \in Nat /\ Len(todo) > 0 /\ Head(todo) = todo[1]
           /\ todo' \in Seq(Puts)
           /\ ~Skips => /\ Len(todo') = Len(todo) - 1
                        /\ \A i \in 1..(Len(todo) - 1) : todo'[i] = todo[i + 1]
           /\ Skips => /\ Len(todo) >= 2 /\ Len(todo') = Len(todo) - 2
                       /\ \A i \in 1..(Len(todo) - 2) : todo'[i] = todo[i + 2]
           /\ todo' # <<>> => todo'[Len(todo')].do # "remove file"
  <1> DEFINE n == Len(todo)
  <1>1. todo \in Seq(Puts) /\ todo # <<>> /\ todo[n].do # "remove file"
    BY DEF RecordsInv, Put
  <1>2. n \in Nat /\ n > 0 /\ Head(todo) = todo[1]
    BY <1>1, NotEmpty
  <1>3. todo' = IF Skips THEN Tail(Tail(todo)) ELSE Tail(todo)
    BY <1>2 DEF Put, Skips
  <1>4. /\ Tail(todo) \in Seq(Puts) /\ Len(Tail(todo)) = n - 1
        /\ \A i \in 1..(n - 1) : Tail(todo)[i] = todo[i + 1]
    BY <1>1, HeadTailProperties
  <1>5. CASE ~Skips
    <2>1. todo' = Tail(todo)
      BY <1>3, <1>5
    <2>2. todo' # <<>> => n > 1
      BY <1>2, <1>4, <2>1, NotEmpty
    <2>3. n > 1 => todo'[n - 1] = todo[n]
      BY <1>2, <1>4, <2>1
    <2> QED  BY <1>1, <1>2, <1>4, <1>5, <2>1, <2>2, <2>3
  <1>6. CASE Skips
    <2>1. n # 1
      BY <1>1, <1>6 DEF Skips
    <2>2. Tail(todo) # <<>>
      <3>1. Len(Tail(todo)) > 0
        BY <1>2, <1>4, <2>1
      <3> QED  BY <1>4, <3>1, NotEmpty
    <2>3. /\ Tail(Tail(todo)) \in Seq(Puts) /\ Len(Tail(Tail(todo))) = n - 2
          /\ \A i \in 1..(n - 2) : Tail(Tail(todo))[i] = Tail(todo)[i + 1]
      <3>1. /\ Tail(Tail(todo)) \in Seq(Puts) /\ Len(Tail(Tail(todo))) = Len(Tail(todo)) - 1
            /\ \A i \in 1..Len(Tail(Tail(todo))) : Tail(Tail(todo))[i] = Tail(todo)[i + 1]
        BY <1>4, <2>2, HeadTailProperties
      <3> QED  BY <1>2, <1>4, <3>1
    <2>4. todo' = Tail(Tail(todo))
      BY <1>3, <1>6
    <2>5. \A i \in 1..(n - 2) : todo'[i] = todo[i + 2]
      <3> SUFFICES ASSUME NEW i \in 1..(n - 2) PROVE todo'[i] = todo[i + 2]
        OBVIOUS
      <3>1. todo'[i] = Tail(todo)[i + 1]
        BY <2>3, <2>4
      <3>2. i + 1 \in 1..(n - 1) /\ (i + 1) + 1 = i + 2
        BY <1>2
      <3> QED  BY <1>4, <3>1, <3>2
    <2>6. todo' # <<>> => n > 2
      BY <1>2, <2>1, <2>3, <2>4, NotEmpty
    <2>7. n > 2 => todo'[n - 2] = todo[n]
      BY <1>2, <2>5
    <2>8. Len(todo') = n - 2 /\ todo' \in Seq(Puts) /\ n >= 2
      BY <1>2, <2>1, <2>3, <2>4
    <2>9. todo' # <<>> => todo'[Len(todo')].do # "remove file"
      BY <1>1, <2>6, <2>7, <2>8
    <2> QED  BY <1>1, <1>2, <1>6, <2>5, <2>8, <2>9
  <1> QED  BY <1>5, <1>6

\* With nothing to do, the counter's record stands one after the ids handed out.
Idle == todo = <<>>

LEMMA IdleCounter ==
    ASSUME RecordsInv, Idle
    PROVE  /\ StandsAt(Len(given) + 1)
           /\ Len(given) \in Nat /\ MaxOps \in Nat /\ ops \in Nat /\ Len(given) <= ops
           /\ DOMAIN Ids = 1..Len(Ids) /\ Len(Ids) \in Nat /\ Len(Ids) > MaxOps
  <1>1. ~CounterDue(1) /\ ~CounterDue(2) /\ ~CounterDue(3)
    BY EmptySeq DEF CounterDue, Idle
  <1>2. CounterDone
    <2>1. CounterDone \/ \E p \in 1..3 : CounterDue(p)
      BY DEF RecordsInv
    <2>2. \A p \in 1..3 : p = 1 \/ p = 2 \/ p = 3
      OBVIOUS
    <2> QED  BY <1>1, <2>1, <2>2, Zenon
  <1>3. Len(given) \in Nat
    BY NotEmpty DEF RecordsInv
  <1>4. Len(Ids) \in Nat /\ DOMAIN Ids = 1..Len(Ids) /\ Len(Ids) > MaxOps /\ MaxOps \in Nat
    BY RecordsAssumption, NotEmpty
  <1>5. StandsAt(Len(given) + 1)
    BY <1>2 DEF CounterDone
  <1>6. ops \in Nat /\ Len(given) <= ops
    <2>1. ops \in 0..MaxOps /\ Len(given) <= ops
      BY Zenon DEF RecordsInv
    <2> QED  BY <1>4, <2>1
  <1> QED  BY <1>3, <1>4, <1>5, <1>6

\* A call about a file that has an id, and about a column clients use.
LEMMA CallElsewhere ==
    ASSUME RecordsInv, Idle, NEW f \in FileIds, NEW c \in Cols, NEW v \in Vals,
           SetVal(f, c, v) \/ RemoveVal(f, c, v)
    PROVE  RecordsInv'
  <1>1. UNCHANGED <<store, given>> /\ ops' = ops + 1 /\ ops < MaxOps
    BY DEF SetVal, RemoveVal, Begin
  <1>2. ops' \in 0..MaxOps /\ Len(given') <= ops'
    <2>1. Len(given) \in Nat /\ MaxOps \in Nat /\ ops \in Nat /\ Len(given) <= ops
      BY IdleCounter
    <2>2. ops' = ops + 1 /\ ops < MaxOps /\ given' = given
      BY <1>1
    <2>3. ops + 1 \in 0..MaxOps /\ Len(given) <= ops + 1
      BY <2>1, <2>2
    <2> QED  BY <2>2, <2>3, Zenon
  <1>3. PICK a \in {"set file", "remove file"}, b \in {"set col", "remove col"} :
            todo' = <<[do |-> a, f |-> f, c |-> c, v |-> v], [do |-> b, f |-> f, c |-> c, v |-> v]>>
    BY DEF SetVal, RemoveVal, SetCalls, RemoveCalls
  <1>4. f # LastId /\ c # LastId
    BY RecordsAssumption DEF FileIds
  <1> DEFINE x == [do |-> a, f |-> f, c |-> c, v |-> v]
             y == [do |-> b, f |-> f, c |-> c, v |-> v]
  <1>5. x \in Puts /\ y \in Puts /\ Elsewhere(x) /\ Elsewhere(y) /\ y.do # "remove file"
    BY <1>4 DEF Puts, Elsewhere
  <1> HIDE DEF x, y
  <1>6. todo' = <<x, y>>
    BY <1>3 DEF x, y
  <1>7. /\ todo' \in Seq(Puts) /\ todo'[Len(todo')].do # "remove file"
        /\ \A i \in DOMAIN todo' : Elsewhere(todo'[i])
    <2>1. /\ todo' \in Seq(Puts) /\ Len(todo') = 2 /\ DOMAIN todo' = 1..2
          /\ todo'[1] = x /\ todo'[2] = y
      <3>1. /\ <<x, y>> \in Seq(Puts) /\ Len(<<x, y>>) = 2 /\ DOMAIN <<x, y>> = 1..2
            /\ <<x, y>>[1] = x /\ <<x, y>>[2] = y
        BY <1>5, TwoOf, Zenon
      <3> QED  BY <1>6, <3>1, Zenon
    <2> QED  BY <1>5, <2>1, UpToTwo
  <1>8. CounterDone'
    BY <1>7, <1>1, IdleCounter DEF CounterDone, StandsAt
  <1> QED  BY <1>7, <1>1, <1>8, <1>2 DEF RecordsInv

\* The new call has the counter's successor as its third put.
LEMMA SetNewStep ==
    ASSUME RecordsInv, NEW c \in Cols, NEW v \in Vals, SetNew(c, v)
    PROVE  RecordsInv'
  <1> DEFINE n == Len(given)
             f == Ids[Counter]
             g == Ids[Counter + 1]
  <1>1. Idle /\ ops < MaxOps /\ ops' = ops + 1
    BY DEF SetNew, Begin, Idle
  <1>2. n \in Nat /\ n + 1 \in DOMAIN Ids /\ n + 2 \in DOMAIN Ids
    BY <1>1, IdleCounter
  <1>3. Counter = n + 1
    BY <1>1, <1>2, IdleCounter, CounterReads
  <1>4. f = Ids[n + 1] /\ g = Ids[n + 2] /\ f \in FileIds /\ g \in FileIds
    BY <1>2, <1>3 DEF FileIds
  <1>5. f # LastId /\ c # LastId /\ Val # LastId
    BY <1>4, RecordsAssumption DEF FileIds
  <1>6. /\ given' = Append(given, f)
        /\ todo' = RemoveCalls(LastId, Val, f) \o SetCalls(LastId, Val, g) \o SetCalls(f, c, v)
        /\ UNCHANGED <<store, reset>>
    BY DEF SetNew
  <1>7. /\ given' \in Seq(FileIds) /\ Len(given') = n + 1
        /\ \A i \in DOMAIN given' : given'[i] = Ids[i]
    <2>1. /\ Append(given, f) \in Seq(FileIds) /\ Len(Append(given, f)) = n + 1
          /\ \A i \in 1..n : Append(given, f)[i] = given[i]
          /\ Append(given, f)[n + 1] = f
      <3>1. given \in Seq(FileIds)
        BY Zenon DEF RecordsInv
      <3>2. f \in FileIds
        BY <1>4, Zenon
      <3> HIDE DEF f
      <3> QED  BY <3>1, <3>2, AppendProperties
    <2>2. DOMAIN given = 1..n /\ DOMAIN given' = 1..(n + 1)
      BY <1>6, <2>1, NotEmpty DEF RecordsInv
    <2>3. \A i \in 1..n : given[i] = Ids[i]
      BY <2>2 DEF RecordsInv
    <2> HIDE DEF f
    <2>4. \A i \in 1..(n + 1) : given'[i] = Ids[i]
      BY <1>2, <1>4, <1>6, <2>1, <2>3
    <2> QED  BY <1>6, <2>1, <2>2, <2>4
  <1> HIDE DEF f, g
  <1> DEFINE p1 == [do |-> "remove file", f |-> LastId, c |-> Val, v |-> f]
             p2 == [do |-> "remove col", f |-> LastId, c |-> Val, v |-> f]
             p3 == [do |-> "set file", f |-> LastId, c |-> Val, v |-> g]
             p4 == [do |-> "set col", f |-> LastId, c |-> Val, v |-> g]
             p5 == [do |-> "set file", f |-> f, c |-> c, v |-> v]
             p6 == [do |-> "set col", f |-> f, c |-> c, v |-> v]
  <1>8. /\ p1 \in Puts /\ p2 \in Puts /\ p3 \in Puts /\ p4 \in Puts /\ p5 \in Puts /\ p6 \in Puts
        /\ Elsewhere(p2) /\ Elsewhere(p4) /\ Elsewhere(p5) /\ Elsewhere(p6)
        /\ p2.do = "remove col" /\ p6.do # "remove file"
    BY <1>4, <1>5 DEF Puts, Elsewhere
  <1>9. p1 = Removal' /\ p3 = Successor'
    BY <1>2, <1>4, <1>6, <1>7 DEF Removal, Successor
  <1>10. todo' = <<p1, p2>> \o <<p3, p4>> \o <<p5, p6>>
    BY <1>6 DEF RemoveCalls, SetCalls
  <1> HIDE DEF p1, p2, p3, p4, p5, p6
  <1>11. /\ todo' \in Seq(Puts) /\ Len(todo') = 6 /\ DOMAIN todo' = 1..6
         /\ todo'[1] = p1 /\ todo'[2] = p2 /\ todo'[3] = p3 /\ todo'[4] = p4
         /\ todo'[5] = p5 /\ todo'[6] = p6
    <2>1. p1 \in Puts /\ p2 \in Puts /\ p3 \in Puts /\ p4 \in Puts /\ p5 \in Puts /\ p6 \in Puts
      BY <1>8, Zenon
    <2> DEFINE s == (<<p1, p2>> \o <<p3, p4>>) \o <<p5, p6>>
    <2>2. /\ s \in Seq(Puts) /\ Len(s) = 6 /\ DOMAIN s = 1..6
          /\ s[1] = p1 /\ s[2] = p2 /\ s[3] = p3 /\ s[4] = p4 /\ s[5] = p5 /\ s[6] = p6
      BY <2>1, SixOf, SMTT(60)
    <2>3. todo' = s
      BY <1>10
    <2> HIDE DEF s
    <2> QED  BY <2>2, <2>3, Zenon
  <1>12. CounterDue(3)'
    <2>1. \A i \in DOMAIN todo' : i = 3 \/ i = 1 \/ Elsewhere(todo'[i])
      BY <1>8, <1>11, UpToSix
    <2>2. StandsAt(Len(given))'
      BY <1>1, <1>6, <1>7, IdleCounter DEF StandsAt
    <2>3. given' # <<>>
      BY <1>2, <1>7, NotEmpty
    <2>4. 3 < Len(todo') /\ todo'[3] = Successor' /\ todo'[1] = Removal'
      BY <1>9, <1>11
    <2>5. todo'[2].do = "remove col"
      BY <1>8, <1>11
    <2>6. 3 # 2
      OBVIOUS
    <2> QED  BY <2>1, <2>2, <2>3, <2>4, <2>5, <2>6, Zenon DEF CounterDue
  <1>13. ops' \in 0..MaxOps /\ Len(given') <= ops'
    BY <1>1, <1>2, <1>7, IdleCounter
  <1>14. DOMAIN store' = Keys
    BY <1>6 DEF RecordsInv
  <1>15. todo' \in Seq(Puts) /\ todo'[Len(todo')].do # "remove file" 
    BY <1>8, <1>11, Zenon
  <1>16. 3 \in 1..3
    OBVIOUS
  <1> QED  BY <1>7, <1>12, <1>13, <1>14, <1>15, <1>16, Zenon DEF RecordsInv
------------------------------------------------------------------------------
\* A put goes on with the call: what a put leaves of it comes from what was still to make.
LEMMA PutRest ==
    ASSUME RecordsInv, Put, CounterDone' \/ (\E p \in 1..3 : CounterDue(p)'), DOMAIN store' = Keys
    PROVE  RecordsInv'
  <1>1. todo' \in Seq(Puts) /\ (todo' # <<>> => todo'[Len(todo')].do # "remove file")
    BY PutGoes
  <1>2. UNCHANGED <<ops, given>>
    BY DEF Put
  <1>3. /\ ops \in 0..MaxOps /\ Len(given) <= ops
        /\ given \in Seq(FileIds) /\ \A i \in DOMAIN given : given[i] = Ids[i]
    BY Zenon DEF RecordsInv
  <1>4. /\ ops' \in 0..MaxOps /\ Len(given') <= ops'
        /\ given' \in Seq(FileIds) /\ \A i \in DOMAIN given' : given'[i] = Ids[i]
    BY <1>2, <1>3
  <1> QED  BY <1>1, <1>4, Zenon DEF RecordsInv

LEMMA PutDone ==
    ASSUME RecordsInv, Put, CounterDone
    PROVE  RecordsInv'
  <1> DEFINE n == Len(todo)
  <1>1. /\ todo \in Seq(Puts) /\ n \in Nat /\ n > 0 /\ Head(todo) = todo[1]
        /\ DOMAIN todo = 1..n
    BY PutGoes, NotEmpty
  <1>2. Elsewhere(Head(todo))
    BY <1>1 DEF CounterDone
  <1>3. DOMAIN store' = Keys /\ store'[LastId] = store[LastId]
    BY <1>2, PutElsewhere
  <1>4. given' = given
    BY DEF Put
  <1>5. \A i \in DOMAIN todo' : Elsewhere(todo'[i])
    <2>1. DOMAIN todo' = 1..Len(todo')
      BY PutGoes, NotEmpty
    <2>2. \A i \in 1..n : Elsewhere(todo[i])
      BY <1>1 DEF CounterDone
    <2>3. CASE Skips
      <3>1. Len(todo') = n - 2 /\ \A i \in 1..(n - 2) : todo'[i] = todo[i + 2]
        BY <2>3, PutGoes
      <3>2. \A i \in 1..(n - 2) : i + 2 \in 1..n
        BY <1>1
      <3> QED  BY <2>1, <2>2, <3>1, <3>2
    <2>4. CASE ~Skips
      <3>1. Len(todo') = n - 1 /\ \A i \in 1..(n - 1) : todo'[i] = todo[i + 1]
        BY <2>4, PutGoes
      <3>2. \A i \in 1..(n - 1) : i + 1 \in 1..n
        BY <1>1
      <3> QED  BY <2>1, <2>2, <3>1, <3>2
    <2> QED  BY <2>3, <2>4
  <1>6. StandsAt(Len(given) + 1)'
    BY <1>3, <1>4 DEF StandsAt, CounterDone
  <1>7. CounterDone'
    BY <1>5, <1>6 DEF CounterDone
  <1> QED  BY <1>3, <1>7, PutRest

\* When k puts go, the successor, which was the p-th of them, is the (p - k)-th.
LEMMA DueGoes ==
    ASSUME RecordsInv, Put, NEW p \in {2, 3}, CounterDue(p), NEW k \in {1, 2}, k < p,
           k = 2 <=> Skips
    PROVE  /\ DOMAIN todo = 1..Len(todo) /\ DOMAIN todo' = 1..Len(todo')
           /\ p - k < Len(todo') /\ todo'[p - k] = Successor /\ todo'[1] = todo[1 + k]
           /\ \A i \in DOMAIN todo' : i = p - k \/ Elsewhere(todo'[i])
           /\ given' = given /\ given # <<>>
  <1> DEFINE n == Len(todo)
  <1>1. /\ n \in Nat /\ Len(todo') = n - k
        /\ \A i \in 1..(n - k) : todo'[i] = todo[i + k]
    BY PutGoes
  <1>2. DOMAIN todo = 1..n /\ DOMAIN todo' = 1..(n - k)
    BY <1>1, PutGoes, NotEmpty
  <1>3. p < n /\ todo[p] = Successor /\ given # <<>>
    BY DEF CounterDue
  <1>4. \A i \in 1..n : i = p \/ i = 1 \/ Elsewhere(todo[i])
    BY <1>2 DEF CounterDue
  <1>5. p - k \in 1..(n - k) /\ (p - k) + k = p /\ 1 \in 1..(n - k) /\ p - k < n - k
    BY <1>1, <1>3
  <1>6. \A i \in 1..(n - k) : i = p - k \/ Elsewhere(todo'[i])
    <2> SUFFICES ASSUME NEW i \in 1..(n - k), i # p - k PROVE Elsewhere(todo'[i])
      OBVIOUS
    <2>1. i + k \in 1..n /\ i + k # p /\ i + k # 1
      BY <1>1
    <2>2. Elsewhere(todo[i + k])
      BY <1>4, <2>1
    <2> QED  BY <1>1, <2>2
  <1>7. given' = given
    BY DEF Put
  <1> QED  BY <1>1, <1>2, <1>3, <1>5, <1>6, <1>7

\* The old number goes, if there is one.
LEMMA PutRemoval ==
    ASSUME RecordsInv, Put, CounterDue(3)
    PROVE  RecordsInv'
  <1> DEFINE n == Len(given)
             r == store[LastId]
  <1>1. /\ Head(todo) = todo[1] /\ todo[1] = Removal /\ todo[2].do = "remove col"
        /\ StandsAt(n) /\ given # <<>>
    BY PutGoes DEF CounterDue
  <1>2. n \in DOMAIN Ids /\ n > 0 /\ n \in Nat
    <2>1. n \in Nat /\ n > 0
      BY <1>1, NotEmpty DEF RecordsInv
    <2>2. Len(Ids) \in Nat /\ DOMAIN Ids = 1..Len(Ids) /\ Len(Ids) > MaxOps /\ MaxOps \in Nat
      BY RecordsAssumption, NotEmpty
    <2>3. ops \in 0..MaxOps /\ n <= ops
      BY Zenon DEF RecordsInv
    <2> QED  BY <2>1, <2>2, <2>3
  <1>3. todo[1].do = "remove file" /\ todo[1].f = LastId /\ todo[1].c = Val /\ todo[1].v = Ids[n]
    <2>1. /\ Removal.do = "remove file" /\ Removal.f = LastId /\ Removal.c = Val
          /\ Removal.v = Ids[n]
      BY DEF Removal
    <2> QED  BY <1>1, <2>1, Zenon
  <1>4. LastId \in Keys /\ DOMAIN store = Keys
    BY DEF RecordsInv, Keys
  <1>5. given' = given
    BY DEF Put
  <1>6. CASE Skips
    <2>1. store' = store
      BY <1>1, <1>6 DEF Put, Skips
    <2>2. ~Lists(r, Val, Ids[n])
      BY <1>3, <1>6 DEF Skips
    <2>3. Removed
      <3>1. CASE n = 1
        BY <1>1, <1>2, <3>1, CounterReads
      <3>2. CASE n # 1
        BY <1>1, <1>2, <2>2, <3>2, CounterLists
      <3> QED  BY <3>1, <3>2
    <2>4. CounterDue(1)'
      <3>1. /\ 1 < Len(todo') /\ todo'[1] = Successor
            /\ \A i \in DOMAIN todo' : i = 1 \/ Elsewhere(todo'[i])
            /\ given # <<>>
        BY <1>6, DueGoes
      <3>2. Successor' = Successor /\ given' # <<>>
        BY <1>5, <3>1 DEF Successor
      <3>3. Removed'
        BY <2>1, <2>3 DEF Removed
      <3>4. 1 # 2 /\ 1 # 3
        OBVIOUS
      <3> QED  BY <3>1, <3>2, <3>3, <3>4, Zenon DEF CounterDue
    <2>5. DOMAIN store' = Keys
      BY <1>4, <2>1
    <2> QED  BY <2>4, <2>5, PutRest
  <1>7. CASE ~Skips
    <2>1. Lists(r, Val, Ids[n])
      BY <1>3, <1>7 DEF Skips
    <2>2. store' = [store EXCEPT ![LastId] = LeftOf(r, Val, Ids[n])]
      <3>1. ~ (/\ Head(todo).do = "remove file"
               /\ ~Lists(store[Head(todo).f], Head(todo).c, Head(todo).v))
        BY <1>1, <1>7 DEF Skips
      <3>2. store' = [store EXCEPT ![Head(todo).f] =
                         LeftOf(store[Head(todo).f], Head(todo).c, Head(todo).v)]
        BY <1>1, <1>3, <3>1 DEF Put
      <3> QED  BY <1>1, <1>3, <3>2
    <2>3. n # 1
      BY <1>1, <1>2, <2>1, CounterReads
    <2>4. store'[LastId] = <<Cell(<<>>)>>
      BY <1>1, <1>2, <1>4, <2>2, <2>3, CounterReads
    <2>5. CounterDue(2)'
      <3>1. /\ 2 < Len(todo') /\ todo'[2] = Successor /\ todo'[1] = todo[2]
            /\ \A i \in DOMAIN todo' : i = 2 \/ Elsewhere(todo'[i])
            /\ given # <<>>
        BY <1>7, DueGoes
      <3>2. Successor' = Successor /\ given' # <<>>
        BY <1>5, <3>1 DEF Successor
      <3>3. Removed'
        BY <2>4 DEF Removed
      <3>4. 2 # 3
        OBVIOUS
      <3> QED  BY <1>1, <3>1, <3>2, <3>3, <3>4, Zenon DEF CounterDue
    <2>6. DOMAIN store' = Keys
      BY <1>4, <2>2
    <2> QED  BY <2>5, <2>6, PutRest
  <1> QED  BY <1>6, <1>7

\* The id goes from the column of the counter.
LEMMA PutBetween ==
    ASSUME RecordsInv, Put, CounterDue(2)
    PROVE  RecordsInv'
  <1>1. Head(todo) = todo[1] /\ todo[1].do = "remove col" /\ Removed
    <2>1. 2 # 3
      OBVIOUS
    <2> QED  BY <2>1, PutGoes DEF CounterDue
  <1>2. ~Skips
    BY <1>1 DEF Skips
  <1>3. Elsewhere(Head(todo))
    <2>1. DOMAIN todo = 1..Len(todo) /\ Len(todo) \in Nat /\ Len(todo) > 0
      BY PutGoes, NotEmpty
    <2>2. 1 \in DOMAIN todo /\ 1 # 2 /\ 2 # 3
      BY <2>1
    <2> QED  BY <1>1, <2>2, Zenon DEF CounterDue
  <1>4. DOMAIN store' = Keys /\ store'[LastId] = store[LastId]
    BY <1>3, PutElsewhere
  <1>5. CounterDue(1)'
    <2>1. /\ 1 < Len(todo') /\ todo'[1] = Successor
          /\ \A i \in DOMAIN todo' : i = 1 \/ Elsewhere(todo'[i])
          /\ given' = given /\ given # <<>>
      BY <1>2, DueGoes
    <2>2. Successor' = Successor /\ given' # <<>>
      BY <2>1 DEF Successor
    <2>3. Removed'
      BY <1>1, <1>4 DEF Removed
    <2>4. 1 # 2 /\ 1 # 3
      OBVIOUS
    <2> QED  BY <2>1, <2>2, <2>3, <2>4, Zenon DEF CounterDue
  <1> QED  BY <1>4, <1>5, PutRest

\* The successor is stored, and the counter's part of the call is over.
LEMMA PutSuccessor ==
    ASSUME RecordsInv, Put, CounterDue(1)
    PROVE  RecordsInv'
  <1> DEFINE n == Len(given)
             m == Len(todo)
             g == Ids[n + 1]
  <1>1. /\ todo[1] = Successor /\ Removed /\ given # <<>>
        /\ \A i \in DOMAIN todo : i = 1 \/ Elsewhere(todo[i])
    <2>1. 1 # 3
      OBVIOUS
    <2> QED  BY <2>1, Zenon DEF CounterDue
  <1>2. /\ Head(todo) = todo[1] /\ m \in Nat /\ DOMAIN todo = 1..m /\ DOMAIN todo' = 1..Len(todo')
    BY PutGoes, NotEmpty
  <1>3. /\ Head(todo).do = "set file" /\ Head(todo).f = LastId
        /\ Head(todo).c = Val /\ Head(todo).v = g
    <2>1. /\ Successor.do = "set file" /\ Successor.f = LastId /\ Successor.c = Val
          /\ Successor.v = g
      BY DEF Successor
    <2> QED  BY <1>1, <1>2, <2>1, Zenon
  <1>4. LastId \in Keys /\ DOMAIN store = Keys
    BY DEF RecordsInv, Keys
  <1>5. store' = [store EXCEPT ![LastId] = With(store[LastId], Val, g)]
    <2>1. store' = [store EXCEPT ![Head(todo).f] =
                       With(store[Head(todo).f], Head(todo).c, Head(todo).v)]
      BY <1>3 DEF Put
    <2> QED  BY <1>3, <2>1
  <1>6. ~Skips
    BY <1>2, <1>3 DEF Skips
  <1>7. Len(todo') = m - 1 /\ \A i \in 1..(m - 1) : todo'[i] = todo[i + 1]
    BY <1>6, PutGoes
  <1>8. \A i \in DOMAIN todo' : Elsewhere(todo'[i])
    <2> SUFFICES ASSUME NEW i \in 1..(m - 1) PROVE Elsewhere(todo'[i])
      BY <1>2, <1>7
    <2>1. i + 1 \in 1..m /\ i + 1 # 1
      BY <1>2
    <2> QED  BY <1>1, <1>2, <1>7, <2>1
  <1>9. n + 1 # 1
    <2>1. given \in Seq(FileIds) /\ given # <<>>
      BY <1>1, Zenon DEF RecordsInv
    <2>2. Len(given) \in Nat /\ Len(given) > 0
      BY <2>1, NotEmpty
    <2> QED  BY <2>2
  <1>10. store'[LastId] \in {<<Cell(<<g>>)>>, <<Cell(<<>>), Cell(<<g>>)>>}
    BY <1>1, <1>4, <1>5, StoredAgain DEF Removed
  <1>11. given' = given
    BY DEF Put
  <1>12. StandsAt(Len(given) + 1)'
    BY <1>9, <1>10, <1>11 DEF StandsAt, Cell
  <1>13. DOMAIN store' = Keys
    BY <1>4, <1>5
  <1>14. CounterDone'
    BY <1>8, <1>12 DEF CounterDone
  <1> QED  BY <1>13, <1>14, PutRest

LEMMA PutStep ==
    ASSUME RecordsInv, Put
    PROVE  RecordsInv'
  <1>1. CounterDone \/ CounterDue(1) \/ CounterDue(2) \/ CounterDue(3)
    <2>1. \A p \in 1..3 : p = 1 \/ p = 2 \/ p = 3
      OBVIOUS
    <2> QED  BY <2>1, Zenon DEF RecordsInv
  <1> QED  BY <1>1, PutDone, PutSuccessor, PutBetween, PutRemoval

\* A kill before the successor is stored is a reset; any other leaves the counter.
LEMMA KilledStep ==
    ASSUME RecordsInv, Killed, ~reset'
    PROVE  RecordsInv'
  <1>1. /\ todo' = <<>> /\ ops < MaxOps /\ ops' = ops + 1
        /\ UNCHANGED <<store, given>>
        /\ ~ \E i \in DOMAIN todo : todo[i].do = "set file" /\ todo[i].f = LastId
    BY DEF Killed
  <1>2. ASSUME NEW p \in 1..3, CounterDue(p) PROVE FALSE
    <2>1. todo[p] = Successor /\ p < Len(todo)
      BY <1>2 DEF CounterDue
    <2>2. p \in DOMAIN todo
      <3>1. DOMAIN todo = 1..Len(todo) /\ Len(todo) \in Nat
        BY NotEmpty DEF RecordsInv
      <3> QED  BY <2>1, <3>1
    <2>3. Successor.do = "set file" /\ Successor.f = LastId
      BY DEF Successor
    <2> QED  BY <1>1, <2>1, <2>2, <2>3, Zenon
  <1>3. CounterDone
    BY <1>2, Zenon DEF RecordsInv
  <1>4. todo' \in Seq(Puts) /\ DOMAIN todo' = {}
    <2>1. <<>> \in Seq(Puts) /\ DOMAIN <<>> = {}
      BY EmptySeq
    <2> QED  BY <1>1, <2>1, Zenon
  <1>5. CounterDone'
    BY <1>1, <1>3, <1>4 DEF CounterDone, StandsAt
  <1>6. /\ DOMAIN store = Keys /\ ops \in 0..MaxOps /\ Len(given) <= ops
        /\ given \in Seq(FileIds) /\ \A i \in DOMAIN given : given[i] = Ids[i]
    BY Zenon DEF RecordsInv
  <1>7. ops + 1 \in 0..MaxOps /\ Len(given) <= ops + 1
    <2>1. Len(given) \in Nat /\ MaxOps \in Nat
      BY <1>6, NotEmpty, RecordsAssumption
    <2>2. ops < MaxOps /\ ops \in 0..MaxOps /\ Len(given) <= ops
      BY <1>1, <1>6, Zenon
    <2> QED  BY <2>1, <2>2
  <1>8. /\ DOMAIN store' = Keys /\ ops' \in 0..MaxOps /\ Len(given') <= ops'
        /\ given' \in Seq(FileIds) /\ \A i \in DOMAIN given' : given'[i] = Ids[i]
    BY <1>1, <1>6, <1>7, Zenon
  <1> QED  BY <1>1, <1>4, <1>5, <1>8, Zenon DEF RecordsInv

LEMMA RecordsStep == Inv /\ [Next]_vars => Inv'
  <1> SUFFICES ASSUME Inv, [Next]_vars PROVE Inv'
    OBVIOUS
  <1>1. reset \in BOOLEAN /\ (reset \/ RecordsInv)
    BY DEF Inv
  <1>2. CASE UNCHANGED vars
    BY <1>1, <1>2 DEF vars, Inv, RecordsInv, CounterDone, CounterDue, StandsAt, Removed, Removal,
                      Successor
  <1>3. ASSUME NEW f \in FileIds, NEW c \in Cols, NEW v \in Vals,
               SetVal(f, c, v) \/ RemoveVal(f, c, v)
        PROVE  Inv'
    <2>1. reset' = reset /\ Idle
      BY <1>3 DEF SetVal, RemoveVal, Begin, Idle
    <2>2. RecordsInv => RecordsInv'
      BY <1>3, <2>1, CallElsewhere
    <2> QED  BY <1>1, <2>1, <2>2, Zenon DEF Inv
  <1>4. ASSUME NEW c \in Cols, NEW v \in Vals, SetNew(c, v)
        PROVE  Inv'
    <2>1. reset' = reset
      BY <1>4 DEF SetNew
    <2>2. RecordsInv => RecordsInv'
      BY <1>4, SetNewStep
    <2> QED  BY <1>1, <2>1, <2>2, Zenon DEF Inv
  <1>5. CASE Put
    <2>1. reset' = reset
      BY <1>5 DEF Put
    <2>2. RecordsInv => RecordsInv'
      BY <1>5, PutStep
    <2> QED  BY <1>1, <2>1, <2>2, Zenon DEF Inv
  <1>6. CASE Killed
    <2>1. reset' \in BOOLEAN /\ (reset => reset')
      BY <1>1, <1>6, Zenon DEF Killed
    <2>2. RecordsInv => reset' \/ RecordsInv'
      BY <1>6, KilledStep
    <2> QED  BY <1>1, <2>1, <2>2, Zenon DEF Inv
  <1> QED  BY <1>2, <1>3, <1>4, <1>5, <1>6 DEF Next

LEMMA InvFresh == Inv => IdsFresh
  <1> SUFFICES ASSUME RecordsInv,
                      NEW i \in DOMAIN given, NEW j \in DOMAIN given, given[i] = given[j]
               PROVE  i = j
    BY DEF Inv, IdsFresh
  <1>1. given[i] = Ids[i] /\ given[j] = Ids[j]
    BY Zenon DEF RecordsInv
  <1>2. DOMAIN given \subseteq DOMAIN Ids
    <2>1. /\ given \in Seq(FileIds) /\ ops \in 0..MaxOps /\ Len(given) <= ops
      BY Zenon DEF RecordsInv
    <2>2. /\ Len(Ids) \in Nat /\ DOMAIN Ids = 1..Len(Ids) /\ Len(Ids) > MaxOps /\ MaxOps \in Nat
      BY RecordsAssumption, NotEmpty
    <2>3. Len(given) \in Nat /\ DOMAIN given = 1..Len(given)
      BY <2>1, NotEmpty
    <2> QED  BY <2>1, <2>2, <2>3
  <1> QED  BY <1>1, <1>2, RecordsAssumption
------------------------------------------------------------------------------
(* What the two views hold, whatever was killed *)

Names == Keys \cup Vals
Cells == [key : Names, list : Seq(Names)]

\* A record has at most one live cell for a key, and no cell lists anything twice.
OneCell(r) ==
    \A i, j \in DOMAIN r :
        r[i].key = r[j].key /\ r[i].list # <<>> /\ r[j].list # <<>> => i = j
NoTwice(list) == \A i, j \in DOMAIN list : list[i] = list[j] => i = j
Rec(r) == r \in Seq(Cells) /\ OneCell(r) /\ \A i \in DOMAIN r : NoTwice(r[i].list)

Held(r, k, v) ==
    \E i \in DOMAIN r : r[i].key = k /\ \E j \in DOMAIN r[i].list : r[i].list[j] = v
InFileOf(t) == Held(store[t[1]], t[2], t[3])
InColOf(t) == Held(store[t[2]], t[3], t[1])

PutOf(do, t) == [do |-> do, f |-> t[1], c |-> t[2], v |-> t[3]]
Pending(do, t) == \E i \in DOMAIN todo : todo[i] = PutOf(do, t)

\* The numbers that the counter has gone through.
Numbers(n) == {Ids[m] : m \in 1..(n + 1)}

Kinds == {"set file", "set col", "remove file", "remove col"}
Subjects(n) == Triples \cup ({LastId} \X {Val} \X Numbers(n))
AllPuts(n) == {PutOf(do, t) : do \in Kinds, t \in Subjects(n)}

\* A removal is the first pair of puts of its call.
Turned(p) == [do |-> "remove col", f |-> p.f, c |-> p.c, v |-> p.v]
Shape ==
    /\ todo \in Seq(AllPuts(ops))
    /\ \A i \in DOMAIN todo :
          /\ todo[i].do = "remove file" =>
                /\ i = 1 /\ Len(todo) >= 2
                /\ todo[2] = Turned(todo[1])
          /\ todo[i].do = "remove col" => i = 1 \/ (i = 2 /\ todo[1].do = "remove file")

StoreInv ==
    /\ DOMAIN store = Keys /\ \A k \in Keys : Rec(store[k])
    /\ ops \in 0..MaxOps
    /\ \A v \in Names : Held(store[LastId], Val, v) => v \in Numbers(ops)
    /\ given \in Seq(FileIds)

FactsInv ==
    /\ safe \subseteq facts /\ facts \subseteq Triples
    /\ \A t \in Triples :
          /\ Pending("set file", t) \/ Pending("set col", t) => t \in facts
          /\ Pending("remove file", t) \/ Pending("remove col", t) =>
                \A u \in safe : u[1] # t[1] /\ u[2] # t[2]

\* What is safe is in both views or about to be; what is no fact is in neither or about to
\* go, and the file's view, which decides whether the column's is looked at, goes first.
SafeInv ==
    \A u \in safe \ torn :
        /\ InFileOf(u) \/ Pending("set file", u)
        /\ InColOf(u) \/ Pending("set col", u)
GoneInv ==
    \A u \in Triples \ (torn \cup facts) :
        /\ InFileOf(u) => Pending("remove file", u)
        /\ InColOf(u) => /\ Pending("remove col", u)
                         /\ Pending("remove file", u) => InFileOf(u)

ViewsInv == Shape /\ StoreInv /\ FactsInv /\ SafeInv /\ GoneInv
------------------------------------------------------------------------------
\* What a search for a key finds, in a record with at most one live cell for it.
LEMMA FoundCell ==
    ASSUME NEW r, Rec(r), NEW k, CellsOf(r, k) # {}
    PROVE  \E i \in 1..Len(r) :
              /\ Min(CellsOf(r, k)) = i /\ CellsOf(r, k) = {i}
              /\ r[i].key = k /\ r[i].list # <<>> /\ ListOf(r, k) = r[i].list
              /\ r[i] \in Cells /\ k \in Names /\ r[i].list \in Seq(Names) /\ NoTwice(r[i].list)
  <1>1. r \in Seq(Cells) /\ DOMAIN r = 1..Len(r) /\ Len(r) \in Nat
    BY LenProperties DEF Rec
  <1>2. PICK i \in 1..Len(r) : r[i].key = k /\ r[i].list # <<>>
    BY <1>1 DEF CellsOf
  <1>3. CellsOf(r, k) = {i}
    BY <1>1, <1>2 DEF CellsOf, Rec, OneCell
  <1>4. Min(CellsOf(r, k)) = i
    BY <1>1, <1>3, MinOne
  <1>5. r[i] \in Cells
    BY <1>1, ElementOfSeq
  <1>6. r[i].list \in Seq(Names) /\ r[i].key \in Names /\ NoTwice(r[i].list)
    BY <1>1, <1>5 DEF Cells, Rec
  <1>7. ListOf(r, k) = r[i].list
    BY <1>3, <1>4 DEF ListOf
  <1> QED  BY <1>2, <1>3, <1>4, <1>5, <1>6, <1>7

LEMMA ListsHeld ==
    ASSUME NEW r, Rec(r), NEW k, NEW v
    PROVE  Lists(r, k, v) <=> Held(r, k, v)
  <1>1. CASE CellsOf(r, k) = {}
    <2>1. ~Lists(r, k, v)
      BY <1>1 DEF Lists, ListOf
    <2>2. ASSUME Held(r, k, v) PROVE FALSE
      <3>1. PICK i \in DOMAIN r : r[i].key = k /\ \E j \in DOMAIN r[i].list : r[i].list[j] = v
        BY <2>2 DEF Held
      <3>2. DOMAIN r[i].list # {}
        BY <3>1
      <3>3. r[i].list # <<>>
        BY <3>2
      <3> QED  BY <1>1, <3>1, <3>3 DEF CellsOf
    <2> QED  BY <2>1, <2>2
  <1>2. CASE CellsOf(r, k) # {}
    <2>1. DOMAIN r = 1..Len(r)
      BY LenProperties DEF Rec
    <2>2. PICK i \in 1..Len(r) :
              CellsOf(r, k) = {i} /\ r[i].key = k /\ ListOf(r, k) = r[i].list
      BY <1>2, FoundCell
    <2>3. Lists(r, k, v) <=> \E j \in DOMAIN r[i].list : r[i].list[j] = v
      BY <2>2 DEF Lists
    <2>4. Lists(r, k, v) => Held(r, k, v)
      BY <2>1, <2>2, <2>3 DEF Held
    <2>5. ASSUME Held(r, k, v) PROVE Lists(r, k, v)
      <3>1. PICK h \in DOMAIN r : r[h].key = k /\ \E j \in DOMAIN r[h].list : r[h].list[j] = v
        BY <2>5 DEF Held
      <3>2. DOMAIN r[h].list # {}
        BY <3>1
      <3>3. r[h].list # <<>>
        BY <3>2
      <3>4. h = i
        BY <2>2, <3>1, <3>3 DEF CellsOf
      <3> QED  BY <2>3, <3>1, <3>4
    <2> QED  BY <2>4, <2>5
  <1> QED  BY <1>1, <1>2

\* setval adds the value to what the record holds, and nothing else.
LEMMA WithNew ==
    ASSUME NEW r, Rec(r), NEW k \in Names, NEW v \in Names, CellsOf(r, k) = {}
    PROVE  /\ Rec(With(r, k, v))
           /\ \A k2, v2 : Held(With(r, k, v), k2, v2) <=> Held(r, k2, v2) \/ (k2 = k /\ v2 = v)
  <1> DEFINE c == [key |-> k, list |-> <<v>>]
             w == Append(r, c)
  <1>1. With(r, k, v) = w
    BY DEF With
  <1>2. /\ c \in Cells /\ c.key = k /\ DOMAIN c.list = {1} /\ c.list[1] = v /\ c.list # <<>>
    BY DEF Cells
  <1>3. NoTwice(c.list)
    BY <1>2 DEF NoTwice
  <1> HIDE DEF c
  <1>4. r \in Seq(Cells) /\ Len(r) \in Nat /\ DOMAIN r = 1..Len(r)
    BY LenProperties DEF Rec
  <1>5. /\ w \in Seq(Cells) /\ Len(w) = Len(r) + 1 /\ DOMAIN w = 1..(Len(r) + 1)
        /\ \A i \in 1..Len(r) : w[i] = r[i]
        /\ w[Len(r) + 1] = c
    <2>1. /\ w \in Seq(Cells) /\ Len(w) = Len(r) + 1
          /\ \A i \in 1..Len(r) : w[i] = r[i]
          /\ w[Len(r) + 1] = c
      <3>1. r \in Seq(Cells) /\ c \in Cells
        BY <1>2, <1>4
      <3> QED  BY <3>1, AppendProperties
    <2> QED  BY <2>1, LenProperties
  <1> HIDE DEF w
  <1>6. \A i \in DOMAIN w : \/ i \in DOMAIN r /\ w[i] = r[i]
                            \/ i = Len(r) + 1 /\ w[i] = c
    BY <1>4, <1>5
  <1>7. \A i \in DOMAIN r : r[i].list # <<>> => r[i].key # k
    BY DEF CellsOf
  <1>8. OneCell(w)
    BY <1>2, <1>6, <1>7 DEF OneCell, Rec
  <1>9. \A i \in DOMAIN w : NoTwice(w[i].list)
    BY <1>3, <1>6 DEF Rec
  <1>10. ASSUME NEW k2, NEW v2
         PROVE  Held(w, k2, v2) <=> Held(r, k2, v2) \/ (k2 = k /\ v2 = v)
    <2>1. Held(w, k2, v2) => Held(r, k2, v2) \/ (k2 = k /\ v2 = v)
      BY <1>2, <1>6 DEF Held
    <2>2. Held(r, k2, v2) => Held(w, k2, v2)
      BY <1>4, <1>5 DEF Held
    <2>3. Held(w, k, v)
      <3>1. Len(r) + 1 \in DOMAIN w
        BY <1>4, <1>5
      <3> QED  BY <1>2, <1>5, <3>1 DEF Held
    <2> QED  BY <2>1, <2>2, <2>3
  <1> QED  BY <1>1, <1>5, <1>8, <1>9, <1>10 DEF Rec

LEMMA WithMore ==
    ASSUME NEW r, Rec(r), NEW k \in Names, NEW v \in Names,
           CellsOf(r, k) # {}, ~Lists(r, k, v)
    PROVE  /\ Rec(With(r, k, v))
           /\ \A k2, v2 : Held(With(r, k, v), k2, v2) <=> Held(r, k2, v2) \/ (k2 = k /\ v2 = v)
  <1>1. r \in Seq(Cells) /\ Len(r) \in Nat /\ DOMAIN r = 1..Len(r)
    BY LenProperties DEF Rec
  <1>2. PICK i \in 1..Len(r) :
            /\ Min(CellsOf(r, k)) = i
            /\ r[i].key = k /\ r[i].list # <<>> /\ ListOf(r, k) = r[i].list
            /\ r[i] \in Cells /\ r[i].list \in Seq(Names) /\ NoTwice(r[i].list)
    BY FoundCell
  <1> DEFINE l == r[i].list
             m == Append(l, v)
             c == [r[i] EXCEPT !.list = m]
             w == [r EXCEPT ![i] = c]
  <1>3. With(r, k, v) = w
    BY <1>2 DEF With
  <1>4. /\ l \in Seq(Names) /\ Len(l) \in Nat /\ DOMAIN l = 1..Len(l)
        /\ m \in Seq(Names) /\ DOMAIN m = 1..(Len(l) + 1) /\ m # <<>>
        /\ \A j \in DOMAIN l : m[j] = l[j]
        /\ m[Len(l) + 1] = v
    <2>1. l \in Seq(Names)
      BY <1>2
    <2> HIDE DEF l
    <2>2. /\ m \in Seq(Names) /\ m # <<>> /\ Len(m) = Len(l) + 1
          /\ \A j \in 1..Len(l) : m[j] = l[j]
          /\ m[Len(l) + 1] = v
      BY <2>1, AppendProperties
    <2>3. Len(l) \in Nat /\ DOMAIN l = 1..Len(l) /\ DOMAIN m = 1..(Len(l) + 1)
      BY <2>1, <2>2, LenProperties
    <2> HIDE DEF m
    <2> QED  BY <2>1, <2>2, <2>3
  <1>5. \A j \in DOMAIN l : l[j] # v
    BY <1>2 DEF Lists
  <1> HIDE DEF l, m
  <1>6. NoTwice(m)
    <2> SUFFICES ASSUME NEW a \in DOMAIN m, NEW b \in DOMAIN m, m[a] = m[b] PROVE a = b
      BY DEF NoTwice
    <2>1. /\ a \in DOMAIN l \/ a = Len(l) + 1
          /\ b \in DOMAIN l \/ b = Len(l) + 1
      BY <1>4
    <2>2. NoTwice(l)
      BY <1>2 DEF l
    <2> QED  BY <1>4, <1>5, <2>1, <2>2 DEF NoTwice
  <1>7. c \in Cells /\ c.key = k /\ c.list = m
    BY <1>2, <1>4 DEF Cells
  <1> HIDE DEF c
  <1>8. /\ w \in Seq(Cells) /\ DOMAIN w = DOMAIN r
        /\ \A j \in DOMAIN r : w[j] = IF j = i THEN c ELSE r[j]
    BY <1>1, <1>7
  <1> HIDE DEF w
  <1>9. OneCell(w)
    BY <1>2, <1>7, <1>8 DEF OneCell, Rec
  <1>10. \A j \in DOMAIN w : NoTwice(w[j].list)
    BY <1>6, <1>7, <1>8 DEF Rec
  <1>11. ASSUME NEW k2, NEW v2
         PROVE  Held(w, k2, v2) <=> Held(r, k2, v2) \/ (k2 = k /\ v2 = v)
    <2>1. \A x : (\E j \in DOMAIN m : m[j] = x) <=> (\E j \in DOMAIN l : l[j] = x) \/ x = v
      BY <1>4
    <2>2. i \in DOMAIN r /\ r[i].list = l /\ r[i].key = k
      BY <1>1, <1>2 DEF l
    <2>3. \A j \in DOMAIN r : w[j].key = r[j].key /\ (j # i => w[j] = r[j])
      BY <1>7, <1>8, <2>2
    <2>4. w[i].list = m
      BY <1>7, <1>8, <2>2
    <2>5. ASSUME Held(w, k2, v2) PROVE Held(r, k2, v2) \/ (k2 = k /\ v2 = v)
      <3>1. PICK h \in DOMAIN w : w[h].key = k2 /\ \E j \in DOMAIN w[h].list : w[h].list[j] = v2
        BY <2>5 DEF Held
      <3>2. CASE h = i
        BY <1>8, <2>1, <2>2, <2>3, <2>4, <3>1, <3>2 DEF Held
      <3>3. CASE h # i
        BY <1>8, <2>3, <3>1, <3>3 DEF Held
      <3> QED  BY <3>2, <3>3
    <2>6. ASSUME Held(r, k2, v2) PROVE Held(w, k2, v2)
      <3>1. PICK h \in DOMAIN r : r[h].key = k2 /\ \E j \in DOMAIN r[h].list : r[h].list[j] = v2
        BY <2>6 DEF Held
      <3>2. CASE h = i
        <4>1. \E j \in DOMAIN w[i].list : w[i].list[j] = v2
          BY <2>1, <2>2, <2>4, <3>1, <3>2
        <4> QED  BY <1>8, <2>2, <2>3, <3>1, <3>2, <4>1 DEF Held
      <3>3. CASE h # i
        BY <1>8, <2>3, <3>1, <3>3 DEF Held
      <3> QED  BY <3>2, <3>3
    <2>7. Held(w, k, v)
      <3>1. \E j \in DOMAIN w[i].list : w[i].list[j] = v
        BY <2>1, <2>4
      <3> QED  BY <1>8, <2>2, <2>3, <3>1 DEF Held
    <2> QED  BY <2>5, <2>6, <2>7
  <1> QED  BY <1>3, <1>8, <1>9, <1>10, <1>11 DEF Rec

LEMMA WithRec ==
    ASSUME NEW r, Rec(r), NEW k \in Names, NEW v \in Names
    PROVE  /\ Rec(With(r, k, v))
           /\ \A k2, v2 : Held(With(r, k, v), k2, v2) <=> Held(r, k2, v2) \/ (k2 = k /\ v2 = v)
  <1>1. CASE CellsOf(r, k) # {} /\ Lists(r, k, v)
    <2>1. With(r, k, v) = r
      BY <1>1 DEF With
    <2>2. Held(r, k, v)
      BY <1>1, ListsHeld
    <2> QED  BY <2>1, <2>2
  <1> QED  BY <1>1, WithNew, WithMore

\* Each element of a cut sequence is another one of the sequence, not the one cut out.
LEMMA CutOrigin ==
    ASSUME NEW S, NEW s \in Seq(S), NEW i \in 1..Len(s)
    PROVE  /\ Cut(s, i) \in Seq(S)
           /\ \E o \in [DOMAIN Cut(s, i) -> (DOMAIN s) \ {i}] :
                 /\ \A j \in DOMAIN Cut(s, i) : Cut(s, i)[j] = s[o[j]]
                 /\ \A a, b \in DOMAIN Cut(s, i) : o[a] = o[b] => a = b
  <1> DEFINE n == Len(s)
             c == Cut(s, i)
             o == [j \in 1..(n - 1) |-> IF j < i THEN j ELSE j + 1]
  <1>1. n \in Nat /\ DOMAIN s = 1..n /\ i \in 1..n
    BY LenProperties
  <1>2. /\ c \in Seq(S) /\ Len(c) = n - 1
        /\ \A j \in 1..(n - 1) : c[j] = IF j < i THEN s[j] ELSE s[j + 1]
    BY CutProperties
  <1>3. DOMAIN c = 1..(n - 1)
    BY <1>2, LenProperties
  <1> HIDE DEF n, c
  <1>4. \A j \in 1..(n - 1) : /\ o[j] = IF j < i THEN j ELSE j + 1
                              /\ o[j] \in (1..n) \ {i}
    BY <1>1
  <1>5. \A a, b \in 1..(n - 1) : o[a] = o[b] => a = b
    BY <1>1, <1>4
  <1>6. \A j \in 1..(n - 1) : c[j] = s[o[j]]
    BY <1>2, <1>4
  <1>7. o \in [1..(n - 1) -> (1..n) \ {i}]
    BY <1>4
  <1> HIDE DEF o
  <1> QED  BY <1>1, <1>2, <1>3, <1>5, <1>6, <1>7 DEF c

\* remove_val leaves nothing in the file's record but the other values of the column.
LEMMA LeftRec ==
    ASSUME NEW r, Rec(r), NEW k, NEW v, Lists(r, k, v)
    PROVE  /\ Rec(LeftOf(r, k, v))
           /\ \A k2, v2 : Held(LeftOf(r, k, v), k2, v2) => k2 = k /\ v2 # v /\ Held(r, k, v2)
  <1>1. CellsOf(r, k) # {}
    BY DEF Lists, ListOf
  <1>2. PICK i \in 1..Len(r) :
            /\ r[i].key = k /\ ListOf(r, k) = r[i].list /\ k \in Names
            /\ r[i].list \in Seq(Names) /\ NoTwice(r[i].list)
    BY <1>1, FoundCell
  <1> DEFINE l == r[i].list
             q == Min(PlacesOf(l, v))
             m == Cut(l, q)
             c == [key |-> k, list |-> m]
  <1>3. LeftOf(r, k, v) = <<c>>
    BY <1>2 DEF LeftOf
  <1>4. PICK p \in DOMAIN l : l[p] = v
    BY <1>2 DEF Lists
  <1> HIDE DEF l
  <1>5. l \in Seq(Names) /\ NoTwice(l) /\ DOMAIN l = 1..Len(l) /\ Len(l) \in Nat
    BY <1>2, LenProperties DEF l
  <1>6. PlacesOf(l, v) = {p}
    BY <1>4, <1>5 DEF PlacesOf, NoTwice
  <1>7. q = p /\ p \in 1..Len(l)
    BY <1>4, <1>5, <1>6, MinOne
  <1> HIDE DEF q
  <1>8. m \in Seq(Names)
    BY <1>5, <1>7, CutOrigin
  <1>9. PICK o \in [DOMAIN m -> (DOMAIN l) \ {p}] :
            /\ \A j \in DOMAIN m : m[j] = l[o[j]]
            /\ \A a, b \in DOMAIN m : o[a] = o[b] => a = b
    <2>1. \E o \in [DOMAIN Cut(l, p) -> (DOMAIN l) \ {p}] :
             /\ \A j \in DOMAIN Cut(l, p) : Cut(l, p)[j] = l[o[j]]
             /\ \A a, b \in DOMAIN Cut(l, p) : o[a] = o[b] => a = b
      BY <1>5, <1>7, CutOrigin, Zenon
    <2>2. m = Cut(l, p)
      BY <1>7
    <2> QED  BY <2>1, <2>2, Zenon
  <1> HIDE DEF m
  <1>10. \A j \in DOMAIN m : m[j] # v /\ \E h \in DOMAIN l : l[h] = m[j]
    BY <1>4, <1>5, <1>9 DEF NoTwice
  <1>11. NoTwice(m)
    BY <1>5, <1>9 DEF NoTwice
  <1>12. c \in Cells /\ c.key = k /\ c.list = m
    BY <1>2, <1>8 DEF Cells
  <1> HIDE DEF c
  <1>13. <<c>> \in Seq(Cells) /\ DOMAIN <<c>> = {1} /\ <<c>>[1] = c
    BY <1>12
  <1>14. Rec(<<c>>)
    BY <1>11, <1>12, <1>13 DEF Rec, OneCell
  <1>15. ASSUME NEW k2, NEW v2, Held(<<c>>, k2, v2) PROVE k2 = k /\ v2 # v /\ Held(r, k, v2)
    <2>1. k2 = k /\ \E j \in DOMAIN m : m[j] = v2
      BY <1>12, <1>13, <1>15 DEF Held
    <2>2. i \in DOMAIN r
      BY LenProperties DEF Rec
    <2> QED  BY <1>2, <1>10, <2>1, <2>2 DEF Held, l
  <1> QED  BY <1>3, <1>14, <1>15

\* What is left of the column's record has nothing for the value.
LEMMA WithoutRec ==
    ASSUME NEW r, Rec(r), NEW k
    PROVE  /\ Rec(Without(r, k))
           /\ \A k2, v2 : Held(Without(r, k), k2, v2) => k2 # k /\ Held(r, k2, v2)
  <1>1. CASE CellsOf(r, k) = {}
    <2>1. Without(r, k) = <<>>
      BY <1>1 DEF Without
    <2> QED  BY <2>1 DEF Rec, OneCell, Held
  <1>2. CASE CellsOf(r, k) # {}
    <2>1. r \in Seq(Cells) /\ DOMAIN r = 1..Len(r)
      BY LenProperties DEF Rec
    <2>2. PICK i \in 1..Len(r) : Min(CellsOf(r, k)) = i /\ CellsOf(r, k) = {i}
      BY <1>2, FoundCell
    <2> DEFINE w == Cut(r, i)
    <2>3. Without(r, k) = w
      BY <1>2, <2>2 DEF Without
    <2>4. w \in Seq(Cells)
      BY <2>1, CutOrigin
    <2>5. PICK o \in [DOMAIN w -> (DOMAIN r) \ {i}] :
              /\ \A j \in DOMAIN w : w[j] = r[o[j]]
              /\ \A a, b \in DOMAIN w : o[a] = o[b] => a = b
      BY <2>1, CutOrigin
    <2> HIDE DEF w
    <2>6. OneCell(w) /\ \A j \in DOMAIN w : NoTwice(w[j].list)
      BY <2>5 DEF Rec, OneCell
    <2>7. ASSUME NEW k2, NEW v2, Held(w, k2, v2) PROVE k2 # k /\ Held(r, k2, v2)
      <3>1. PICK j \in DOMAIN w : w[j].key = k2 /\ \E h \in DOMAIN w[j].list : w[j].list[h] = v2
        BY <2>7 DEF Held
      <3>2. o[j] \in DOMAIN r /\ o[j] # i /\ w[j] = r[o[j]]
        BY <2>5
      <3>3. DOMAIN w[j].list # {}
        BY <3>1
      <3>4. r[o[j]].list # <<>>
        BY <3>2, <3>3
      <3>5. k2 # k
        BY <2>2, <3>1, <3>2, <3>4 DEF CellsOf
      <3> QED  BY <3>1, <3>2, <3>5 DEF Held
    <2> QED  BY <2>3, <2>4, <2>6, <2>7 DEF Rec
  <1> QED  BY <1>1, <1>2
------------------------------------------------------------------------------
LEMMA Apart ==
    /\ LastId \in Keys /\ Val \in Keys /\ FileIds \subseteq Keys /\ Cols \subseteq Keys
    /\ Keys \subseteq Names /\ Vals \subseteq Names
    /\ LastId \notin FileIds /\ LastId \notin Cols /\ LastId # Val
    /\ Val \notin FileIds /\ Val \notin Cols /\ FileIds \cap Cols = {}
  BY RecordsAssumption DEF Keys, Names, FileIds

LEMMA NumberIds == ASSUME NEW n \in 0..MaxOps PROVE Numbers(n) \subseteq FileIds
  <1>1. Len(Ids) \in Nat /\ DOMAIN Ids = 1..Len(Ids) /\ Len(Ids) > MaxOps /\ MaxOps \in Nat
    BY RecordsAssumption, NotEmpty
  <1>2. \A m \in 1..(n + 1) : m \in DOMAIN Ids
    BY <1>1
  <1> QED  BY <1>2 DEF Numbers, FileIds

LEMMA MoreNumbers ==
    ASSUME NEW n \in Nat
    PROVE  /\ Numbers(n) \subseteq Numbers(n + 1)
           /\ AllPuts(n) \subseteq AllPuts(n + 1)
  <1>1. Numbers(n) \subseteq Numbers(n + 1)
    BY DEF Numbers
  <1>2. Subjects(n) \subseteq Subjects(n + 1)
    BY <1>1 DEF Subjects
  <1> QED  BY <1>1, <1>2 DEF AllPuts

\* What a put is about.
LEMMA SubjectType ==
    ASSUME NEW n \in 0..MaxOps, NEW t \in Subjects(n)
    PROVE  /\ t[1] \in FileIds \cup {LastId} /\ t[2] \in Cols \cup {Val}
           /\ t[3] \in Vals \cup FileIds
           /\ t = <<t[1], t[2], t[3]>>
           /\ t \in Triples <=> t[1] # LastId
           /\ t \in Triples <=> t[2] # Val
           /\ t \notin Triples => t[3] \in Numbers(n)
           /\ \A u \in Triples : u = t <=> u[1] = t[1] /\ u[2] = t[2] /\ u[3] = t[3]
           /\ \A d, e, u : u \in Subjects(n) /\ PutOf(d, t) = PutOf(e, u) => d = e /\ t = u
  <1>1. CASE t \in Triples
    <2>1. t[1] \in FileIds /\ t[2] \in Cols /\ t[3] \in Vals /\ t = <<t[1], t[2], t[3]>>
      BY <1>1 DEF Triples
    <2>2. \A u \in Subjects(n) : u = <<u[1], u[2], u[3]>>
      BY DEF Subjects, Triples
    <2> QED  BY <1>1, <2>1, <2>2, Apart DEF PutOf, Subjects, Triples
  <1>2. CASE t \in {LastId} \X {Val} \X Numbers(n)
    <2>1. t[1] = LastId /\ t[2] = Val /\ t[3] \in Numbers(n) /\ t = <<t[1], t[2], t[3]>>
      BY <1>2
    <2>2. \A u \in Subjects(n) : u = <<u[1], u[2], u[3]>>
      BY DEF Subjects, Triples
    <2> QED  BY <2>1, <2>2, NumberIds, Apart DEF PutOf, Triples
  <1> QED  BY <1>1, <1>2 DEF Subjects

LEMMA AllPutsOf ==
    ASSUME NEW n, NEW p \in AllPuts(n)
    PROVE  \E d \in Kinds, t \in Subjects(n) : p = PutOf(d, t)
  BY DEF AllPuts

LEMMA OnePlace ==
    \A i \in Nat : \A k : i # 0 /\ (k = 1 \/ k = 2) /\ (i + k = 1 \/ i + k = 2) => i = 1
  OBVIOUS

LEMMA PutSame ==
    ASSUME NEW n \in 0..MaxOps, NEW t \in Subjects(n)
    PROVE  \A d, e, u : u \in Subjects(n) /\ PutOf(d, t) = PutOf(e, u) => e = d /\ u = t
  <1>1. \A d, e, u : u \in Subjects(n) /\ PutOf(d, t) = PutOf(e, u) => d = e /\ t = u
    BY SubjectType
  <1> QED  BY <1>1, Zenon

LEMMA PutTurned == ASSUME NEW d, NEW t PROVE Turned(PutOf(d, t)) = PutOf("remove col", t)
  BY DEF PutOf, Turned

LEMMA PutFields ==
    ASSUME NEW d, NEW t
    PROVE  /\ PutOf(d, t).do = d /\ PutOf(d, t).f = t[1]
           /\ PutOf(d, t).c = t[2] /\ PutOf(d, t).v = t[3]
  BY DEF PutOf

LEMMA TailTail ==
    ASSUME NEW S, NEW s \in Seq(S), Len(s) >= 2
    PROVE  /\ Tail(Tail(s)) \in Seq(S) /\ Len(Tail(Tail(s))) = Len(s) - 2
           /\ \A i \in 1..(Len(s) - 2) : Tail(Tail(s))[i] = s[i + 2]
  <1> DEFINE w == Tail(s)
  <1>1. Len(s) \in Nat /\ s # <<>>
    BY NotEmpty
  <1>2. w \in Seq(S) /\ Len(w) = Len(s) - 1 /\ \A i \in 1..Len(w) : w[i] = s[i + 1]
    BY <1>1, HeadTailProperties
  <1> HIDE DEF w
  <1>3. w # <<>>
    BY <1>1, <1>2, NotEmpty
  <1>4. /\ Tail(w) \in Seq(S) /\ Len(Tail(w)) = Len(w) - 1
        /\ \A i \in 1..Len(Tail(w)) : Tail(w)[i] = w[i + 1]
    BY <1>2, <1>3, HeadTailProperties
  <1>5. \A i \in 1..(Len(s) - 2) : Tail(w)[i] = s[i + 2]
    <2> SUFFICES ASSUME NEW i \in 1..(Len(s) - 2) PROVE Tail(w)[i] = s[i + 2]
      OBVIOUS
    <2>1. i \in 1..Len(Tail(w)) /\ i + 1 \in 1..Len(w) /\ (i + 1) + 1 = i + 2
      BY <1>1, <1>2, <1>4
    <2> QED  BY <1>2, <1>4, <2>1
  <1> QED  BY <1>1, <1>2, <1>4, <1>5 DEF w

\* The first put goes, or the two of a removal of what is not there, and the rest moves up.
LEMMA PutTodo ==
    ASSUME Shape, Put
    PROVE  /\ 1 \in DOMAIN todo /\ Head(todo) = todo[1] /\ todo[1] \in AllPuts(ops)
           /\ Skips => 2 \in DOMAIN todo /\ todo[2] = Turned(todo[1])
           /\ \E k \in {1, 2} :
                 /\ k = 2 <=> Skips
                 /\ todo' \in Seq(AllPuts(ops))
                 /\ \A i \in DOMAIN todo' : i \in Nat \ {0} /\ i + k \in DOMAIN todo
                                            /\ todo'[i] = todo[i + k]
                 /\ \A i \in DOMAIN todo : i <= k \/ (i - k \in DOMAIN todo' /\ todo'[i - k] = todo[i])
  <1> DEFINE n == Len(todo)
             P == AllPuts(ops)
  <1>1. todo \in Seq(P) /\ todo # <<>>
    BY DEF Shape, Put
  <1> HIDE DEF P
  <1>2. n \in Nat /\ n > 0 /\ Head(todo) = todo[1] /\ DOMAIN todo = 1..n
    BY <1>1, NotEmpty
  <1>3. 1 \in DOMAIN todo /\ todo[1] \in P
    BY <1>1, <1>2, ElementOfSeq
  <1>4. todo' = IF Skips THEN Tail(Tail(todo)) ELSE Tail(todo)
    BY <1>2 DEF Put, Skips
  <1>5. CASE ~Skips
    <2>1. todo' \in Seq(P) /\ Len(todo') = n - 1 /\ \A i \in 1..(n - 1) : todo'[i] = todo[i + 1]
      BY <1>1, <1>4, <1>5, HeadTailProperties
    <2>2. DOMAIN todo' = 1..(n - 1)
      BY <2>1, LenProperties
    <2>3. \A i \in DOMAIN todo' : i \in Nat \ {0} /\ i + 1 \in DOMAIN todo /\ todo'[i] = todo[i + 1]
      BY <1>2, <2>1, <2>2
    <2>4. \A i \in DOMAIN todo : i <= 1 \/ (i - 1 \in DOMAIN todo' /\ todo'[i - 1] = todo[i])
      BY <1>2, <2>1, <2>2
    <2>5. 1 # 2
      OBVIOUS
    <2> QED  BY <1>2, <1>3, <1>5, <2>1, <2>3, <2>4, <2>5 DEF P
  <1>6. CASE Skips
    <2>1. n >= 2 /\ todo[2] = Turned(todo[1])
      BY <1>3, <1>6 DEF Shape, Skips
    <2>7. n >= 2
      BY <2>1
    <2>2. /\ todo' \in Seq(P) /\ Len(todo') = n - 2 /\ \A i \in 1..(n - 2) : todo'[i] = todo[i + 2]
      BY <1>1, <1>4, <1>6, <2>1, TailTail
    <2>3. DOMAIN todo' = 1..(n - 2)
      BY <2>2, LenProperties
    <2>4. \A i \in DOMAIN todo' : i \in Nat \ {0} /\ i + 2 \in DOMAIN todo /\ todo'[i] = todo[i + 2]
      BY <1>2, <2>2, <2>3
    <2>5. \A i \in DOMAIN todo : i <= 2 \/ (i - 2 \in DOMAIN todo' /\ todo'[i - 2] = todo[i])
      BY <1>2, <2>2, <2>3
    <2>6. 2 \in DOMAIN todo
      <3>1. \A m \in Nat : m >= 2 => 2 \in 1..m
        OBVIOUS
      <3> QED  BY <1>2, <2>7, <3>1
    <2> QED  BY <1>2, <1>3, <1>6, <2>1, <2>2, <2>4, <2>5, <2>6 DEF P
  <1> QED  BY <1>5, <1>6

\* The same, as what each put is about.
LEMMA PutPending ==
    ASSUME Shape, ops \in 0..MaxOps, Put
    PROVE  \E d \in Kinds, t \in Subjects(ops) :
              /\ todo[1] = PutOf(d, t) /\ Head(todo) = todo[1]
              /\ Skips => d = "remove file"
              /\ Shape'
              /\ \A e, u : Pending(e, u)' => Pending(e, u)
              /\ \A e, u : u \in Subjects(ops) /\ Pending(e, u) =>
                    Pending(e, u)' \/ (e = d /\ u = t) \/ (Skips /\ e = "remove col" /\ u = t)
              /\ \A u : ~Pending("remove file", u)'
              /\ \A u \in Subjects(ops) : Pending("remove file", u) => d = "remove file" /\ u = t
              /\ \A u \in Subjects(ops) :
                    Pending("remove col", u) => d \in {"remove file", "remove col"} /\ u = t
  <1> DEFINE P == AllPuts(ops)
  <1>1. /\ 1 \in DOMAIN todo /\ Head(todo) = todo[1] /\ todo[1] \in P
        /\ Skips => 2 \in DOMAIN todo /\ todo[2] = Turned(todo[1])
    BY PutTodo
  <1>2. PICK k \in {1, 2} :
            /\ k = 2 <=> Skips
            /\ todo' \in Seq(P)
            /\ \A i \in DOMAIN todo' : i \in Nat \ {0} /\ i + k \in DOMAIN todo
                                       /\ todo'[i] = todo[i + k]
            /\ \A i \in DOMAIN todo : i <= k \/ (i - k \in DOMAIN todo' /\ todo'[i - k] = todo[i])
    BY PutTodo
  <1>3. ops' = ops
    BY DEF Put
  <1>4. PICK d \in Kinds, t \in Subjects(ops) : todo[1] = PutOf(d, t)
    <2>1. todo[1] \in AllPuts(ops)
      BY <1>1
    <2> QED  BY <2>1, AllPutsOf, Zenon
  <1> HIDE DEF P
  <1>5. todo[1].do = d /\ Turned(todo[1]) = PutOf("remove col", t)
    <2>1. PutOf(d, t).do = d
      BY PutFields, Zenon
    <2>2. Turned(PutOf(d, t)) = PutOf("remove col", t)
      BY PutTurned, Zenon
    <2> QED  BY <1>4, <2>1, <2>2, Zenon
  <1>6. \A e, u : u \in Subjects(ops) /\ PutOf(d, t) = PutOf(e, u) => e = d /\ u = t
    BY PutSame, Zenon
  <1>7. \A e, u : u \in Subjects(ops) /\ PutOf("remove col", t) = PutOf(e, u) =>
                    e = "remove col" /\ u = t
    BY PutSame, Zenon
  <1>8. todo \in Seq(P) /\ DOMAIN todo = 1..Len(todo) /\ Len(todo) \in Nat
    BY LenProperties DEF Shape, P
  <1>9. \A i \in DOMAIN todo : i \in Nat \ {0}
    BY <1>8
  <1>10. \A i \in DOMAIN todo : todo[i].do = "remove file" =>
              i = 1 /\ Len(todo) >= 2 /\ todo[2] = Turned(todo[1])
    BY DEF Shape
  <1>11. \A i \in DOMAIN todo : todo[i].do = "remove col" =>
              i = 1 \/ (i = 2 /\ todo[1].do = "remove file")
    BY DEF Shape
  <1>12. Skips => d = "remove file"
    BY <1>5 DEF Skips
  <1>13. \A i \in DOMAIN todo' : todo'[i].do # "remove file"
    <2> SUFFICES ASSUME NEW i \in DOMAIN todo' PROVE todo'[i].do # "remove file"
      OBVIOUS
    <2>1. i \in Nat \ {0} /\ i + k \in DOMAIN todo /\ todo'[i] = todo[i + k]
      BY <1>2
    <2>2. i + k # 1
      BY <2>1
    <2> QED  BY <1>10, <2>1, <2>2, Zenon
  <1>14. \A i \in DOMAIN todo' : todo'[i].do = "remove col" => i = 1
    <2> SUFFICES ASSUME NEW i \in DOMAIN todo', todo'[i].do = "remove col" PROVE i = 1
      OBVIOUS
    <2>1. i \in Nat \ {0} /\ i + k \in DOMAIN todo /\ todo'[i] = todo[i + k]
      BY <1>2
    <2>2. todo[i + k].do = "remove col"
      BY <2>1
    <2>3. i + k = 1 \/ i + k = 2
      BY <1>11, <2>1, <2>2, Zenon
    <2>4. k = 1 \/ k = 2
      OBVIOUS
    <2>5. i \in Nat /\ i # 0
      BY <2>1
    <2> QED  BY <2>3, <2>4, <2>5, OnePlace, Zenon
  <1>15. Shape'
    BY <1>2, <1>3, <1>13, <1>14 DEF Shape, P
  <1>16. \A e, u : Pending(e, u)' => Pending(e, u)
    BY <1>2 DEF Pending
  <1>17. ASSUME NEW e, NEW u \in Subjects(ops), Pending(e, u)
         PROVE  Pending(e, u)' \/ (e = d /\ u = t) \/ (Skips /\ e = "remove col" /\ u = t)
    <2>1. PICK i \in DOMAIN todo : todo[i] = PutOf(e, u)
      BY <1>17 DEF Pending
    <2>2. CASE i <= k
      <3>1. i = 1 \/ (i = 2 /\ k = 2)
        BY <1>9, <2>2
      <3>2. CASE i = 1
        BY <1>4, <1>6, <2>1, <3>2
      <3>3. CASE i = 2 /\ k = 2
        BY <1>1, <1>2, <1>5, <1>7, <2>1, <3>3
      <3> QED  BY <3>1, <3>2, <3>3
    <2>3. CASE ~(i <= k)
      <3>1. i - k \in DOMAIN todo' /\ todo'[i - k] = PutOf(e, u)
        BY <1>2, <2>1, <2>3
      <3> QED  BY <3>1 DEF Pending
    <2> QED  BY <2>2, <2>3
  <1>18. \A u : ~Pending("remove file", u)'
    <2> SUFFICES ASSUME NEW u, NEW i \in DOMAIN todo', todo'[i] = PutOf("remove file", u) PROVE FALSE
      BY Zenon DEF Pending
    <2>1. PutOf("remove file", u).do = "remove file"
      BY PutFields
    <2> QED  BY <1>13, <2>1, Zenon
  <1>19. ASSUME NEW u \in Subjects(ops), Pending("remove file", u)
         PROVE  d = "remove file" /\ u = t
    <2>1. PICK i \in DOMAIN todo : todo[i] = PutOf("remove file", u)
      BY <1>19 DEF Pending
    <2>3. PutOf("remove file", u).do = "remove file"
      BY PutFields
    <2>2. i = 1
      BY <1>10, <2>1, <2>3, Zenon
    <2> QED  BY <1>4, <1>6, <2>1, <2>2
  <1>20. ASSUME NEW u \in Subjects(ops), Pending("remove col", u)
         PROVE  d \in {"remove file", "remove col"} /\ u = t
    <2>1. PICK i \in DOMAIN todo : todo[i] = PutOf("remove col", u)
      BY <1>20 DEF Pending
    <2>5. PutOf("remove col", u).do = "remove col"
      BY PutFields
    <2>2. i = 1 \/ (i = 2 /\ d = "remove file")
      BY <1>5, <1>11, <2>1, <2>5, Zenon
    <2>3. CASE i = 1
      BY <1>4, <1>6, <2>1, <2>3
    <2>4. CASE i = 2 /\ d = "remove file"
      <3>1. todo[2] = PutOf("remove col", t)
        BY <1>1, <1>5, <1>10, <2>4, Zenon
      <3>2. PutOf("remove col", t) = PutOf("remove col", u)
        BY <2>1, <2>4, <3>1, Zenon
      <3>3. u = t
        <4>1. \A x : u \in Subjects(ops) /\ PutOf("remove col", t) = PutOf(x, u) => u = t
          BY <1>7, Zenon
        <4>2. u \in Subjects(ops)
          BY <1>20
        <4>3. PutOf("remove col", t) = PutOf("remove col", u) => u = t
          BY <4>1, <4>2
        <4> QED  BY <3>2, <4>3
      <3> QED  BY <2>4, <3>3
    <2> QED  BY <2>2, <2>3, <2>4
  <1> QED  BY <1>1, <1>4, <1>12, <1>15, <1>16, <1>17, <1>18, <1>19, <1>20

\* What the put does to the records.
LEMMA PutStore ==
    ASSUME Put, NEW d \in Kinds, NEW t, todo[1] = PutOf(d, t), Head(todo) = todo[1]
    PROVE  /\ Skips <=> d = "remove file" /\ ~Lists(store[t[1]], t[2], t[3])
           /\ Skips => store' = store
           /\ d = "set file" => store' = [store EXCEPT ![t[1]] = With(@, t[2], t[3])]
           /\ d = "set col" => store' = [store EXCEPT ![t[2]] = With(@, t[3], t[1])]
           /\ d = "remove file" /\ ~Skips => store' = [store EXCEPT ![t[1]] = LeftOf(@, t[2], t[3])]
           /\ d = "remove col" => store' = [store EXCEPT ![t[2]] = Without(@, t[3])]
  <1> DEFINE p == Head(todo)
             A == [store EXCEPT ![p.f] = With(@, p.c, p.v)]
             B == [store EXCEPT ![p.c] = With(@, p.v, p.f)]
             C == [store EXCEPT ![p.f] = LeftOf(@, p.c, p.v)]
             D == [store EXCEPT ![p.c] = Without(@, p.v)]
  <1>1. p.do = d /\ p.f = t[1] /\ p.c = t[2] /\ p.v = t[3]
    <2>1. p = PutOf(d, t)
      OBVIOUS
    <2>2. /\ PutOf(d, t).do = d /\ PutOf(d, t).f = t[1]
          /\ PutOf(d, t).c = t[2] /\ PutOf(d, t).v = t[3]
      BY PutFields, Zenon
    <2> QED  BY <2>1, <2>2
  <1>2. Skips <=> d = "remove file" /\ ~Lists(store[t[1]], t[2], t[3])
    <2>1. todo[1].do = d /\ todo[1].f = t[1] /\ todo[1].c = t[2] /\ todo[1].v = t[3]
      BY <1>1
    <2> QED  BY <2>1 DEF Skips
  <1>3. Skips <=> p.do = "remove file" /\ ~Lists(store[p.f], p.c, p.v)
    BY DEF Skips
  <1>4. store' = CASE p.do = "remove file" /\ ~Lists(store[p.f], p.c, p.v) -> store
                   [] p.do = "set file" -> A
                   [] p.do = "set col" -> B
                   [] p.do = "remove file" /\ ~(p.do = "remove file" /\ ~Lists(store[p.f], p.c, p.v)) -> C
                   [] OTHER -> D
    BY Zenon DEF Put
  <1> HIDE DEF A, B, C, D, p
  <1>5. /\ Skips => store' = store
        /\ p.do = "set file" => store' = A
        /\ p.do = "set col" => store' = B
        /\ p.do = "remove file" /\ ~Skips => store' = C
        /\ p.do = "remove col" => store' = D
    BY <1>3, <1>4
  <1> USE DEF A, B, C, D
  <1> QED  BY <1>1, <1>2, <1>5

\* How a record that is written changes what the two views hold.
LEMMA Written ==
    ASSUME StoreInv, NEW k \in Keys, NEW r, Rec(r), store' = [store EXCEPT ![k] = r],
           UNCHANGED <<ops, given>>,
           \A v \in Names : k = LastId /\ Held(r, Val, v) => v \in Numbers(ops)
    PROVE  /\ StoreInv'
           /\ \A u \in Triples :
                 /\ InFileOf(u)' <=> IF u[1] = k THEN Held(r, u[2], u[3]) ELSE InFileOf(u)
                 /\ InColOf(u)' <=> IF u[2] = k THEN Held(r, u[3], u[1]) ELSE InColOf(u)
  <1>1. /\ DOMAIN store = Keys /\ \A j \in Keys : Rec(store[j])
        /\ \A v \in Names : Held(store[LastId], Val, v) => v \in Numbers(ops)
        /\ ops \in 0..MaxOps /\ given \in Seq(FileIds)
    BY Zenon DEF StoreInv
  <1>2. DOMAIN store' = Keys /\ \A j \in Keys : store'[j] = IF j = k THEN r ELSE store[j]
    BY <1>1
  <1>3. \A j \in Keys : Rec(store'[j])
    BY <1>1, <1>2
  <1>4. LastId \in Keys
    BY Apart
  <1>5. \A v \in Names : Held(store'[LastId], Val, v) => v \in Numbers(ops)
    BY <1>1, <1>2, <1>4
  <1>6. StoreInv'
    BY <1>1, <1>2, <1>3, <1>5 DEF StoreInv
  <1>7. ASSUME NEW u \in Triples
        PROVE  /\ InFileOf(u)' <=> IF u[1] = k THEN Held(r, u[2], u[3]) ELSE InFileOf(u)
               /\ InColOf(u)' <=> IF u[2] = k THEN Held(r, u[3], u[1]) ELSE InColOf(u)
    <2>1. u[1] \in Keys /\ u[2] \in Keys
      BY Apart DEF Triples
    <2>2. /\ InFileOf(u)' <=> Held(store'[u[1]], u[2], u[3])
          /\ InColOf(u)' <=> Held(store'[u[2]], u[3], u[1])
      BY Zenon DEF InFileOf, InColOf
    <2>3. /\ store'[u[1]] = IF u[1] = k THEN r ELSE store[u[1]]
          /\ store'[u[2]] = IF u[2] = k THEN r ELSE store[u[2]]
      BY <1>2, <2>1
    <2> QED  BY <2>2, <2>3, Zenon DEF InFileOf, InColOf
  <1> QED  BY <1>6, <1>7

\* What each put does to the two views, u being the fact that t is about or another one.
LEMMA PutViews ==
    ASSUME StoreInv, Put, NEW d \in Kinds, NEW t \in Subjects(ops),
           todo[1] = PutOf(d, t), Head(todo) = todo[1]
    PROVE  /\ StoreInv'
           /\ \A u \in Triples :
                 /\ d = "set file" => /\ InFileOf(u)' <=> InFileOf(u) \/ u = t
                                      /\ InColOf(u)' <=> InColOf(u)
                 /\ d = "set col" => /\ InFileOf(u)' <=> InFileOf(u)
                                     /\ InColOf(u)' <=> InColOf(u) \/ u = t
                 /\ d = "remove file" => /\ InFileOf(u)' => InFileOf(u) /\ u # t
                                         /\ u[1] # t[1] /\ InFileOf(u) => InFileOf(u)'
                                         /\ InColOf(u)' <=> InColOf(u)
                                         /\ Skips => ~InFileOf(t)
                 /\ d = "remove col" => /\ InFileOf(u)' <=> InFileOf(u)
                                        /\ InColOf(u)' => InColOf(u) /\ u # t
                                        /\ u[2] # t[2] /\ InColOf(u) => InColOf(u)'
  <1>1. /\ DOMAIN store = Keys /\ \A j \in Keys : Rec(store[j])
        /\ \A v \in Names : Held(store[LastId], Val, v) => v \in Numbers(ops)
        /\ ops \in 0..MaxOps
    BY Zenon DEF StoreInv
  <1>2. UNCHANGED <<ops, given>>
    BY DEF Put
  <1>3. /\ t[1] \in FileIds \cup {LastId} /\ t[2] \in Cols \cup {Val}
        /\ t[3] \in Vals \cup FileIds
        /\ t[1] = LastId => t[2] = Val /\ t[3] \in Numbers(ops)
        /\ \A u \in Triples : u = t <=> u[1] = t[1] /\ u[2] = t[2] /\ u[3] = t[3]
    BY <1>1, SubjectType DEF Subjects
  <1>4. /\ t[1] \in Keys /\ t[2] \in Keys /\ t[2] # LastId
        /\ t[1] \in Names /\ t[2] \in Names /\ t[3] \in Names
    BY <1>3, Apart
  <1> DEFINE x == store[t[1]]
             y == store[t[2]]
  <1>5. Rec(x) /\ Rec(y) /\ (t[1] = LastId => x = store[LastId])
    BY <1>1, <1>4
  <1>6. /\ Skips <=> d = "remove file" /\ ~Lists(x, t[2], t[3])
        /\ Skips => store' = store
        /\ d = "set file" => store' = [store EXCEPT ![t[1]] = With(x, t[2], t[3])]
        /\ d = "set col" => store' = [store EXCEPT ![t[2]] = With(y, t[3], t[1])]
        /\ d = "remove file" /\ ~Skips => store' = [store EXCEPT ![t[1]] = LeftOf(x, t[2], t[3])]
        /\ d = "remove col" => store' = [store EXCEPT ![t[2]] = Without(y, t[3])]
    BY PutStore
  <1>7. \A u \in Triples : /\ u[1] = t[1] => (InFileOf(u) <=> Held(x, u[2], u[3]))
                           /\ u[2] = t[2] => (InColOf(u) <=> Held(y, u[3], u[1]))
    BY DEF InFileOf, InColOf
  <1>8. InFileOf(t) <=> Held(x, t[2], t[3])
    BY DEF InFileOf
  <1> HIDE DEF x, y
  <1>9. CASE d = "set file"
    <2> DEFINE w == With(x, t[2], t[3])
    <2>1. /\ Rec(w)
          /\ \A k2, v2 : Held(w, k2, v2) <=> Held(x, k2, v2) \/ (k2 = t[2] /\ v2 = t[3])
      BY <1>4, <1>5, WithRec
    <2>2. store' = [store EXCEPT ![t[1]] = w]
      BY <1>6, <1>9
    <2> HIDE DEF w
    <2>3. \A v \in Names : t[1] = LastId /\ Held(w, Val, v) => v \in Numbers(ops)
      BY <1>1, <1>3, <1>5, <2>1
    <2>4. /\ StoreInv'
          /\ \A u \in Triples :
                /\ InFileOf(u)' <=> IF u[1] = t[1] THEN Held(w, u[2], u[3]) ELSE InFileOf(u)
                /\ InColOf(u)' <=> IF u[2] = t[1] THEN Held(w, u[3], u[1]) ELSE InColOf(u)
      BY <1>2, <1>4, <2>1, <2>2, <2>3, Written
    <2>5. \A u \in Triples : u[2] # t[1]
      BY <1>3, Apart DEF Triples
    <2> QED  BY <1>3, <1>7, <1>9, <2>1, <2>4, <2>5
  <1>10. CASE d = "set col"
    <2> DEFINE w == With(y, t[3], t[1])
    <2>1. /\ Rec(w)
          /\ \A k2, v2 : Held(w, k2, v2) <=> Held(y, k2, v2) \/ (k2 = t[3] /\ v2 = t[1])
      BY <1>4, <1>5, WithRec
    <2>2. store' = [store EXCEPT ![t[2]] = w]
      BY <1>6, <1>10
    <2> HIDE DEF w
    <2>3. \A v \in Names : t[2] = LastId /\ Held(w, Val, v) => v \in Numbers(ops)
      BY <1>4
    <2>4. /\ StoreInv'
          /\ \A u \in Triples :
                /\ InFileOf(u)' <=> IF u[1] = t[2] THEN Held(w, u[2], u[3]) ELSE InFileOf(u)
                /\ InColOf(u)' <=> IF u[2] = t[2] THEN Held(w, u[3], u[1]) ELSE InColOf(u)
      BY <1>2, <1>4, <2>1, <2>2, <2>3, Written
    <2>5. \A u \in Triples : u[1] # t[2]
      BY <1>3, Apart DEF Triples
    <2> QED  BY <1>3, <1>7, <1>10, <2>1, <2>4, <2>5
  <1>11. CASE d = "remove file" /\ Skips
    <2>1. store' = store /\ ~Held(x, t[2], t[3])
      BY <1>5, <1>6, <1>11, ListsHeld
    <2>2. StoreInv'
      BY <1>2, <2>1 DEF StoreInv
    <2>3. \A u \in Triples : (InFileOf(u)' <=> InFileOf(u)) /\ (InColOf(u)' <=> InColOf(u))
      BY <2>1 DEF InFileOf, InColOf
    <2> QED  BY <1>8, <1>11, <2>1, <2>2, <2>3
  <1>12. CASE d = "remove file" /\ ~Skips
    <2> DEFINE w == LeftOf(x, t[2], t[3])
    <2>1. /\ Rec(w)
          /\ \A k2, v2 : Held(w, k2, v2) => k2 = t[2] /\ v2 # t[3] /\ Held(x, t[2], v2)
      <3>1. Lists(x, t[2], t[3])
        BY <1>6, <1>12
      <3> QED  BY <1>5, <3>1, LeftRec
    <2>2. store' = [store EXCEPT ![t[1]] = w]
      BY <1>6, <1>12
    <2> HIDE DEF w
    <2>3. \A v \in Names : t[1] = LastId /\ Held(w, Val, v) => v \in Numbers(ops)
      BY <1>1, <1>3, <1>5, <2>1
    <2>4. /\ StoreInv'
          /\ \A u \in Triples :
                /\ InFileOf(u)' <=> IF u[1] = t[1] THEN Held(w, u[2], u[3]) ELSE InFileOf(u)
                /\ InColOf(u)' <=> IF u[2] = t[1] THEN Held(w, u[3], u[1]) ELSE InColOf(u)
      BY <1>2, <1>4, <2>1, <2>2, <2>3, Written
    <2>5. \A u \in Triples : u[2] # t[1]
      BY <1>3, Apart DEF Triples
    <2> QED  BY <1>3, <1>7, <1>12, <2>1, <2>4, <2>5
  <1>13. CASE d = "remove col"
    <2> DEFINE w == Without(y, t[3])
    <2>1. /\ Rec(w)
          /\ \A k2, v2 : Held(w, k2, v2) => k2 # t[3] /\ Held(y, k2, v2)
      BY <1>5, WithoutRec
    <2>2. store' = [store EXCEPT ![t[2]] = w]
      BY <1>6, <1>13
    <2> HIDE DEF w
    <2>3. \A v \in Names : t[2] = LastId /\ Held(w, Val, v) => v \in Numbers(ops)
      BY <1>4
    <2>4. /\ StoreInv'
          /\ \A u \in Triples :
                /\ InFileOf(u)' <=> IF u[1] = t[2] THEN Held(w, u[2], u[3]) ELSE InFileOf(u)
                /\ InColOf(u)' <=> IF u[2] = t[2] THEN Held(w, u[3], u[1]) ELSE InColOf(u)
      BY <1>2, <1>4, <2>1, <2>2, <2>3, Written
    <2>5. \A u \in Triples : u[1] # t[2]
      BY <1>3, Apart DEF Triples
    <2> QED  BY <1>3, <1>7, <1>13, <2>1, <2>4, <2>5
  <1> QED  BY <1>9, <1>10, <1>11, <1>12, <1>13 DEF Kinds

\* What was set stays and what was removed goes, whichever put of a call is next.
LEMMA ViewsPut == ASSUME ViewsInv, Put PROVE ViewsInv'
  <1>1. Shape /\ StoreInv /\ FactsInv /\ SafeInv /\ GoneInv
    BY Zenon DEF ViewsInv
  <1>2. ops \in 0..MaxOps
    BY <1>1, Zenon DEF StoreInv
  <1>3. PICK d \in Kinds, t \in Subjects(ops) :
            /\ todo[1] = PutOf(d, t) /\ Head(todo) = todo[1]
            /\ Skips => d = "remove file"
            /\ Shape'
            /\ \A e, u : Pending(e, u)' => Pending(e, u)
            /\ \A e, u : u \in Subjects(ops) /\ Pending(e, u) =>
                  Pending(e, u)' \/ (e = d /\ u = t) \/ (Skips /\ e = "remove col" /\ u = t)
            /\ \A u : ~Pending("remove file", u)'
            /\ \A u \in Subjects(ops) : Pending("remove file", u) => d = "remove file" /\ u = t
            /\ \A u \in Subjects(ops) :
                  Pending("remove col", u) => d \in {"remove file", "remove col"} /\ u = t
    BY <1>1, <1>2, PutPending, Zenon
  <1>4. /\ StoreInv'
        /\ \A u \in Triples :
              /\ d = "set file" => /\ InFileOf(u)' <=> InFileOf(u) \/ u = t
                                   /\ InColOf(u)' <=> InColOf(u)
              /\ d = "set col" => /\ InFileOf(u)' <=> InFileOf(u)
                                  /\ InColOf(u)' <=> InColOf(u) \/ u = t
              /\ d = "remove file" => /\ InFileOf(u)' => InFileOf(u) /\ u # t
                                      /\ u[1] # t[1] /\ InFileOf(u) => InFileOf(u)'
                                      /\ InColOf(u)' <=> InColOf(u)
                                      /\ Skips => ~InFileOf(t)
              /\ d = "remove col" => /\ InFileOf(u)' <=> InFileOf(u)
                                     /\ InColOf(u)' => InColOf(u) /\ u # t
                                     /\ u[2] # t[2] /\ InColOf(u) => InColOf(u)'
    BY <1>1, <1>3, PutViews, Zenon
  <1>5. facts' = facts /\ safe' = safe /\ torn' = torn
    BY DEF Put
  <1>6. Pending(d, t)
    <2>1. 1 \in DOMAIN todo
      BY <1>1, PutTodo
    <2> QED  BY <1>3, <2>1 DEF Pending
  <1>7. FactsInv'
    BY <1>1, <1>3, <1>5 DEF FactsInv
  <1>8. safe \subseteq Triples /\ Triples \subseteq Subjects(ops)
    BY <1>1 DEF FactsInv, Subjects
  <1>9. ASSUME NEW u \in safe
        PROVE  /\ d = "remove file" => u[1] # t[1]
               /\ d = "remove col" => u[2] # t[2]
    <2>1. CASE t \in Triples
      BY <1>1, <1>6, <2>1 DEF FactsInv
    <2>2. CASE t \notin Triples
      <3>1. t[1] = LastId /\ t[2] = Val
        BY <2>2 DEF Subjects
      <3>2. u[1] \in FileIds /\ u[2] \in Cols
        BY <1>8 DEF Triples
      <3> QED  BY <3>1, <3>2, Apart
    <2> QED  BY <2>1, <2>2
  <1>10. ASSUME NEW u \in safe \ torn
         PROVE  /\ InFileOf(u)' \/ Pending("set file", u)'
                /\ InColOf(u)' \/ Pending("set col", u)'
    <2>1. /\ InFileOf(u) \/ Pending("set file", u)
          /\ InColOf(u) \/ Pending("set col", u)
      BY <1>1 DEF SafeInv
    <2>2. u \in Triples /\ u \in Subjects(ops)
      BY <1>8
    <2>3. Pending("set file", u) => Pending("set file", u)' \/ (d = "set file" /\ u = t)
      <3>1. \A e : Pending(e, u) =>
                Pending(e, u)' \/ (e = d /\ u = t) \/ (Skips /\ e = "remove col" /\ u = t)
        BY <1>3, <2>2, Zenon
      <3>2. "set file" # "remove col"
        OBVIOUS
      <3> QED  BY <3>1, <3>2, Zenon
    <2>4. Pending("set col", u) => Pending("set col", u)' \/ (d = "set col" /\ u = t)
      <3>1. \A e : Pending(e, u) =>
                Pending(e, u)' \/ (e = d /\ u = t) \/ (Skips /\ e = "remove col" /\ u = t)
        BY <1>3, <2>2, Zenon
      <3>2. "set col" # "remove col"
        OBVIOUS
      <3> QED  BY <3>1, <3>2, Zenon
    <2>5. InFileOf(u) => InFileOf(u)'
      BY <1>4, <1>9, <2>2 DEF Kinds
    <2>6. InColOf(u) => InColOf(u)'
      BY <1>4, <1>9, <2>2 DEF Kinds
    <2> QED  BY <1>4, <2>1, <2>2, <2>3, <2>4, <2>5, <2>6
  <1>11. SafeInv'
    BY <1>5, <1>10 DEF SafeInv
  <1>12. ASSUME NEW u \in Triples \ (torn \cup facts)
         PROVE  /\ InFileOf(u)' => Pending("remove file", u)'
                /\ InColOf(u)' => /\ Pending("remove col", u)'
                                  /\ Pending("remove file", u)' => InFileOf(u)'
    <2>1. /\ InFileOf(u) => Pending("remove file", u)
          /\ InColOf(u) => /\ Pending("remove col", u)
                           /\ Pending("remove file", u) => InFileOf(u)
      BY <1>1 DEF GoneInv
    <2>2. u \in Triples /\ u \in Subjects(ops)
      BY <1>8
    <2>3. ~Pending("set file", u) /\ ~Pending("set col", u)
      BY <1>1 DEF FactsInv
    <2>4. u = t => d # "set file" /\ d # "set col"
      BY <1>6, <2>3
    <2>5. ~InFileOf(u)'
      BY <1>3, <1>4, <2>1, <2>2, <2>4 DEF Kinds
    <2>6. ASSUME InColOf(u)' PROVE Pending("remove col", u)'
      <3>1. InColOf(u)
        BY <1>4, <2>2, <2>4, <2>6 DEF Kinds
      <3>2. Pending("remove col", u) /\ (Pending("remove file", u) => InFileOf(u))
        BY <2>1, <3>1
      <3>3. u = t /\ d \in {"remove file", "remove col"}
        BY <1>3, <2>2, <3>2
      <3>4. d = "remove file"
        BY <1>4, <2>2, <2>6, <3>3
      <3>5. ~Skips
        BY <1>4, <1>6, <2>2, <3>2, <3>3, <3>4
      <3> QED  BY <1>3, <2>2, <3>2, <3>4, <3>5
    <2> QED  BY <1>3, <2>5, <2>6
  <1>13. GoneInv'
    BY <1>5, <1>12 DEF GoneInv
  <1> QED  BY <1>3, <1>4, <1>7, <1>11, <1>13, Zenon DEF ViewsInv

\* With no call under way, what is safe is in both views and what is no fact in neither.
LEMMA IdleViews ==
    ASSUME SafeInv, GoneInv, Idle
    PROVE  /\ \A e, u : ~Pending(e, u)
           /\ \A u \in safe \ torn : InFileOf(u) /\ InColOf(u)
           /\ \A u \in Triples \ (torn \cup facts) : ~InFileOf(u) /\ ~InColOf(u)
  <1>1. DOMAIN todo = {}
    BY DEF Idle
  <1>2. \A e, u : ~Pending(e, u)
    BY <1>1 DEF Pending
  <1> QED  BY <1>2 DEF SafeInv, GoneInv

\* A call starts: the records stay as they are.
LEMMA StoreStays ==
    ASSUME StoreInv, ops < MaxOps, ops' = ops + 1, store' = store, given' \in Seq(FileIds)
    PROVE  /\ StoreInv' /\ ops + 1 \in 0..MaxOps
           /\ \A u : (InFileOf(u)' <=> InFileOf(u)) /\ (InColOf(u)' <=> InColOf(u))
  <1>1. /\ DOMAIN store = Keys /\ \A k \in Keys : Rec(store[k])
        /\ \A v \in Names : Held(store[LastId], Val, v) => v \in Numbers(ops)
        /\ ops \in 0..MaxOps
    BY Zenon DEF StoreInv
  <1>2. MaxOps \in Nat
    BY RecordsAssumption
  <1>3. ops \in Nat /\ ops + 1 \in 0..MaxOps
    BY <1>1, <1>2
  <1>4. Numbers(ops) \subseteq Numbers(ops + 1)
    BY <1>3, MoreNumbers
  <1>5. StoreInv'
    BY <1>1, <1>3, <1>4 DEF StoreInv
  <1> QED  BY <1>3, <1>5 DEF InFileOf, InColOf

LEMMA SetCall ==
    ASSUME StoreInv, FactsInv, SafeInv, GoneInv, Idle, NEW t \in Triples,
           ops < MaxOps, ops' = ops + 1, UNCHANGED <<store, torn>>, given' \in Seq(FileIds),
           facts' = facts \cup {t}, safe' = safe \cup {t},
           Shape', Pending("set file", t)', Pending("set col", t)',
           \A u \in Triples : /\ ~Pending("remove file", u)' /\ ~Pending("remove col", u)'
                              /\ Pending("set file", u)' \/ Pending("set col", u)' => u = t
    PROVE  ViewsInv'
  <1>1. /\ StoreInv'
        /\ \A u : (InFileOf(u)' <=> InFileOf(u)) /\ (InColOf(u)' <=> InColOf(u))
    BY StoreStays, Zenon
  <1>2. /\ \A u \in safe \ torn : InFileOf(u) /\ InColOf(u)
        /\ \A u \in Triples \ (torn \cup facts) : ~InFileOf(u) /\ ~InColOf(u)
    BY IdleViews, Zenon
  <1>3. FactsInv'
    BY DEF FactsInv
  <1>4. SafeInv'
    BY <1>1, <1>2 DEF SafeInv
  <1>5. GoneInv'
    BY <1>1, <1>2 DEF GoneInv
  <1> QED  BY <1>1, <1>3, <1>4, <1>5, Zenon DEF ViewsInv

\* The two puts of one call.
LEMMA TwoPuts ==
    ASSUME NEW n \in 0..MaxOps, NEW t \in Triples, NEW a \in Kinds, NEW b \in Kinds,
           todo' = <<PutOf(a, t), PutOf(b, t)>>
    PROVE  /\ todo' \in Seq(AllPuts(n)) /\ Len(todo') = 2 /\ DOMAIN todo' = 1..2
           /\ todo'[1] = PutOf(a, t) /\ todo'[2] = PutOf(b, t)
           /\ Pending(a, t)' /\ Pending(b, t)'
           /\ \A e, u : u \in Triples /\ Pending(e, u)' => u = t
           /\ \A e \in Kinds \ {a, b} : \A u \in Triples : ~Pending(e, u)'
  <1> DEFINE x == PutOf(a, t)
             y == PutOf(b, t)
  <1>1. Triples \subseteq Subjects(n)
    BY DEF Subjects
  <1>2. x \in AllPuts(n) /\ y \in AllPuts(n)
    BY <1>1 DEF AllPuts
  <1>3. /\ \A e, u : u \in Triples /\ x = PutOf(e, u) => e = a /\ u = t
        /\ \A e, u : u \in Triples /\ y = PutOf(e, u) => e = b /\ u = t
    BY <1>1, PutSame
  <1>4. todo' = <<x, y>>
    OBVIOUS
  <1> HIDE DEF x, y
  <1>5. /\ todo' \in Seq(AllPuts(n)) /\ Len(todo') = 2 /\ DOMAIN todo' = 1..2
        /\ todo'[1] = x /\ todo'[2] = y
    <2>1. /\ <<x, y>> \in Seq(AllPuts(n)) /\ Len(<<x, y>>) = 2 /\ DOMAIN <<x, y>> = 1..2
          /\ <<x, y>>[1] = x /\ <<x, y>>[2] = y
      BY <1>2, TwoOf, Zenon
    <2> QED  BY <1>4, <2>1, Zenon
  <1>6. 1 \in 1..2 /\ 2 \in 1..2
    OBVIOUS
  <1>7. Pending(a, t)' /\ Pending(b, t)'
    BY <1>5, <1>6 DEF Pending, x, y
  <1>8. \A e, u : u \in Triples /\ Pending(e, u)' => u = t /\ (e = a \/ e = b)
    <2> SUFFICES ASSUME NEW e, NEW u \in Triples, NEW i \in 1..2, todo'[i] = PutOf(e, u)
                 PROVE  u = t /\ (e = a \/ e = b)
      BY <1>5, Zenon DEF Pending
    <2>1. i = 1 \/ i = 2
      BY UpToTwo, Zenon
    <2>2. x = PutOf(e, u) \/ y = PutOf(e, u)
      BY <1>5, <2>1
    <2> QED  BY <1>3, <2>2
  <1>9. \A e \in Kinds \ {a, b} : \A u \in Triples : ~Pending(e, u)'
    BY <1>8
  <1> QED  BY <1>5, <1>7, <1>8, <1>9 DEF x, y

LEMMA ViewsSetVal ==
    ASSUME ViewsInv, NEW f \in FileIds, NEW c \in Cols, NEW v \in Vals, SetVal(f, c, v)
    PROVE  ViewsInv'
  <1> DEFINE t == <<f, c, v>>
  <1>1. /\ Idle /\ ops < MaxOps /\ ops' = ops + 1 /\ UNCHANGED <<store, torn, given>>
        /\ facts' = facts \cup {t} /\ safe' = safe \cup {t}
    BY DEF SetVal, Begin, Idle
  <1>2. StoreInv /\ FactsInv /\ SafeInv /\ GoneInv
    BY Zenon DEF ViewsInv
  <1>3. t \in Triples
    BY DEF Triples
  <1>4. todo' = <<PutOf("set file", t), PutOf("set col", t)>>
    BY DEF SetVal, SetCalls, PutOf
  <1> HIDE DEF t
  <1>5. given' \in Seq(FileIds)
    BY <1>1, <1>2 DEF StoreInv
  <1>6. ops + 1 \in 0..MaxOps
    BY <1>1, <1>2, <1>5, StoreStays
  <1>7. "set file" \in Kinds /\ "set col" \in Kinds
    BY DEF Kinds
  <1>8. /\ todo' \in Seq(AllPuts(ops + 1)) /\ Len(todo') = 2 /\ DOMAIN todo' = 1..2
        /\ todo'[1] = PutOf("set file", t) /\ todo'[2] = PutOf("set col", t)
        /\ Pending("set file", t)' /\ Pending("set col", t)'
        /\ \A e, u : u \in Triples /\ Pending(e, u)' => u = t
        /\ \A e \in Kinds \ {"set file", "set col"} : \A u \in Triples : ~Pending(e, u)'
    BY <1>3, <1>4, <1>6, <1>7, TwoPuts, Zenon
  <1>9. todo'[1].do = "set file" /\ todo'[2].do = "set col"
    <2>1. PutOf("set file", t).do = "set file" /\ PutOf("set col", t).do = "set col"
      BY PutFields, Zenon
    <2> QED  BY <1>8, <2>1, Zenon
  <1>10. Shape'
    BY <1>1, <1>8, <1>9, UpToTwo DEF Shape
  <1>11. \A u \in Triples : /\ ~Pending("remove file", u)' /\ ~Pending("remove col", u)'
                            /\ Pending("set file", u)' \/ Pending("set col", u)' => u = t
    <2>1. /\ "remove file" \in Kinds \ {"set file", "set col"}
          /\ "remove col" \in Kinds \ {"set file", "set col"}
      BY DEF Kinds
    <2> QED  BY <1>8, <2>1, Zenon
  <1> QED  BY <1>1, <1>2, <1>3, <1>5, <1>8, <1>10, <1>11, SetCall

LEMMA ViewsRemoveVal ==
    ASSUME ViewsInv, NEW f \in FileIds, NEW c \in Cols, NEW v \in Vals, RemoveVal(f, c, v)
    PROVE  ViewsInv'
  <1> DEFINE t == <<f, c, v>>
  <1>1. /\ Idle /\ ops < MaxOps /\ ops' = ops + 1 /\ UNCHANGED <<store, torn, given>>
        /\ facts' = IF t \in safe THEN facts \ {t} ELSE facts
        /\ safe' = {u \in safe : u[1] # t[1] /\ u[2] # t[2]}
    BY DEF RemoveVal, Begin, Idle
  <1>2. StoreInv /\ FactsInv /\ SafeInv /\ GoneInv
    BY Zenon DEF ViewsInv
  <1>3. t \in Triples
    BY DEF Triples
  <1>4. todo' = <<PutOf("remove file", t), PutOf("remove col", t)>>
    BY DEF RemoveVal, RemoveCalls, PutOf
  <1> HIDE DEF t
  <1>5. given' \in Seq(FileIds)
    BY <1>1, <1>2 DEF StoreInv
  <1>6. /\ StoreInv' /\ ops + 1 \in 0..MaxOps
        /\ \A u : (InFileOf(u)' <=> InFileOf(u)) /\ (InColOf(u)' <=> InColOf(u))
    BY <1>1, <1>2, <1>5, StoreStays
  <1>7. "remove file" \in Kinds /\ "remove col" \in Kinds
    BY DEF Kinds
  <1>8. /\ todo' \in Seq(AllPuts(ops + 1)) /\ Len(todo') = 2 /\ DOMAIN todo' = 1..2
        /\ todo'[1] = PutOf("remove file", t) /\ todo'[2] = PutOf("remove col", t)
        /\ Pending("remove file", t)' /\ Pending("remove col", t)'
        /\ \A e, u : u \in Triples /\ Pending(e, u)' => u = t
        /\ \A e \in Kinds \ {"remove file", "remove col"} : \A u \in Triples : ~Pending(e, u)'
    BY <1>3, <1>4, <1>6, <1>7, TwoPuts, Zenon
  <1>9. todo'[1].do = "remove file" /\ todo'[2].do = "remove col" /\ todo'[2] = Turned(todo'[1])
    <2>1. PutOf("remove file", t).do = "remove file" /\ PutOf("remove col", t).do = "remove col"
      BY PutFields, Zenon
    <2>2. PutOf("remove col", t) = Turned(PutOf("remove file", t))
      BY PutTurned, Zenon
    <2> QED  BY <1>8, <2>1, <2>2, Zenon
  <1>10. Shape'
    <2>1. 2 >= 2 /\ "remove col" # "remove file"
      OBVIOUS
    <2>2. \A i \in DOMAIN todo' :
              /\ todo'[i].do = "remove file" =>
                    i = 1 /\ Len(todo') >= 2 /\ todo'[2] = Turned(todo'[1])
              /\ todo'[i].do = "remove col" => i = 1 \/ (i = 2 /\ todo'[1].do = "remove file")
      BY <1>8, <1>9, <2>1, UpToTwo, Zenon
    <2> QED  BY <1>1, <1>8, <2>2 DEF Shape
  <1>11. /\ \A u \in safe \ torn : InFileOf(u) /\ InColOf(u)
         /\ \A u \in Triples \ (torn \cup facts) : ~InFileOf(u) /\ ~InColOf(u)
    BY <1>1, <1>2, IdleViews
  <1>12. FactsInv'
    <2>1. safe' \subseteq facts' /\ facts' \subseteq Triples
      BY <1>1, <1>2 DEF FactsInv
    <2>2. ASSUME NEW u \in Triples
          PROVE  /\ ~Pending("set file", u)' /\ ~Pending("set col", u)'
                 /\ Pending("remove file", u)' \/ Pending("remove col", u)' => u = t
      <3>1. /\ "set file" \in Kinds \ {"remove file", "remove col"}
            /\ "set col" \in Kinds \ {"remove file", "remove col"}
        BY DEF Kinds
      <3> QED  BY <1>8, <3>1, Zenon
    <2> QED  BY <1>1, <2>1, <2>2 DEF FactsInv
  <1>13. SafeInv'
    BY <1>1, <1>6, <1>11 DEF SafeInv
  <1>14. GoneInv'
    <2> SUFFICES ASSUME NEW u \in Triples \ (torn \cup facts')
                 PROVE  /\ InFileOf(u) => Pending("remove file", u)'
                        /\ InColOf(u) => /\ Pending("remove col", u)'
                                         /\ Pending("remove file", u)' => InFileOf(u)
      BY <1>1, <1>6 DEF GoneInv
    <2>1. u \notin facts \/ (u = t /\ t \in safe \ torn)
      BY <1>1
    <2> QED  BY <1>8, <1>11, <2>1
  <1> QED  BY <1>6, <1>10, <1>12, <1>13, <1>14, Zenon DEF ViewsInv

\* Whatever was killed, the counter stands at a number it has gone through.
LEMMA CounterPlace ==
    ASSUME StoreInv, ops < MaxOps
    PROVE  /\ Counter \in 1..(ops + 1)
           /\ Ids[Counter] \in FileIds
           /\ Ids[Counter] \in Numbers(ops + 1) /\ Ids[Counter + 1] \in Numbers(ops + 1)
  <1> DEFINE r == store[LastId]
             out == ListOf(r, Val)
  <1>1. /\ \A k \in Keys : Rec(store[k])
        /\ \A v \in Names : Held(store[LastId], Val, v) => v \in Numbers(ops)
        /\ ops \in 0..MaxOps
    BY Zenon DEF StoreInv
  <1>2. MaxOps \in Nat /\ Len(Ids) \in Nat /\ DOMAIN Ids = 1..Len(Ids) /\ Len(Ids) > MaxOps
    BY RecordsAssumption, NotEmpty
  <1>3. ops \in Nat /\ ops + 2 <= Len(Ids)
    BY <1>1, <1>2
  <1>4. Rec(r) /\ \A v \in Names : Held(r, Val, v) => v \in Numbers(ops)
    BY <1>1, Apart
  <1>5. Counter \in 1..(ops + 1)
    <2>1. CASE out = <<>>
      <3>1. Counter = 1
        BY <2>1 DEF Counter
      <3> QED  BY <1>3, <3>1
    <2>2. CASE out # <<>>
      <3>1. CellsOf(r, Val) # {}
        BY <2>2 DEF ListOf
      <3>2. PICK i \in 1..Len(r) :
                r[i].key = Val /\ out = r[i].list /\ r[i].list # <<>> /\ r[i].list \in Seq(Names)
        BY <1>4, <3>1, FoundCell
      <3>3. i \in DOMAIN r
        BY <1>4, LenProperties DEF Rec
      <3>4. 1 \in DOMAIN out /\ out[1] \in Names
        BY <3>2, NotEmpty, ElementOfSeq
      <3>5. Held(r, Val, out[1])
        BY <3>2, <3>3, <3>4 DEF Held
      <3>6. PICK m \in 1..(ops + 1) : out[1] = Ids[m]
        BY <1>4, <3>4, <3>5 DEF Numbers
      <3>7. m \in DOMAIN Ids
        BY <1>2, <1>3
      <3>8. \A j \in DOMAIN Ids : Ids[j] = out[1] => j = m
        BY <3>6, <3>7, RecordsAssumption
      <3>9. (CHOOSE j \in DOMAIN Ids : Ids[j] = out[1]) = m
        BY <3>6, <3>7, <3>8
      <3>10. Counter = CHOOSE j \in DOMAIN Ids : Ids[j] = out[1]
        BY <2>2 DEF Counter
      <3> QED  BY <3>9, <3>10
    <2> QED  BY <2>1, <2>2
  <1>6. Counter \in 1..((ops + 1) + 1) /\ Counter + 1 \in 1..((ops + 1) + 1) /\ Counter \in DOMAIN Ids
    BY <1>2, <1>3, <1>5
  <1> QED  BY <1>5, <1>6 DEF Numbers, FileIds

\* The six puts of setval("null", ..).
LEMMA PutIn ==
    ASSUME NEW n, NEW k \in Kinds, NEW t \in Subjects(n) PROVE PutOf(k, t) \in AllPuts(n)
  BY DEF AllPuts

LEMMA OneToSix == 1 \in 1..6 /\ 2 \in 1..6 /\ 5 \in 1..6 /\ 6 \in 1..6 /\ 6 >= 2
  OBVIOUS

LEMMA NewPuts ==
    ASSUME NEW n \in 0..MaxOps, NEW t \in Subjects(n), NEW o \in Subjects(n), NEW p \in Subjects(n)
    PROVE  \A s :
              s = (<<PutOf("remove file", o), PutOf("remove col", o)>>
                      \o <<PutOf("set file", p), PutOf("set col", p)>>)
                     \o <<PutOf("set file", t), PutOf("set col", t)>> =>
                /\ s \in Seq(AllPuts(n)) /\ Len(s) = 6 /\ DOMAIN s = 1..6
                /\ s[1] = PutOf("remove file", o) /\ s[2] = PutOf("remove col", o)
                /\ s[3] = PutOf("set file", p) /\ s[4] = PutOf("set col", p)
                /\ s[5] = PutOf("set file", t) /\ s[6] = PutOf("set col", t)
  <1> DEFINE a == PutOf("remove file", o)
             b == PutOf("remove col", o)
             c == PutOf("set file", p)
             d == PutOf("set col", p)
             e == PutOf("set file", t)
             f == PutOf("set col", t)
             S == AllPuts(n)
  <1>1. /\ "set file" \in Kinds /\ "set col" \in Kinds
        /\ "remove file" \in Kinds /\ "remove col" \in Kinds
    BY DEF Kinds
  <1>2. a \in S /\ b \in S /\ c \in S /\ d \in S /\ e \in S /\ f \in S
    BY <1>1, PutIn, Zenon
  <1> HIDE DEF a, b, c, d, e, f, S
  <1> DEFINE w == (<<a, b>> \o <<c, d>>) \o <<e, f>>
  <1>3. /\ w \in Seq(S) /\ Len(w) = 6 /\ DOMAIN w = 1..6
        /\ w[1] = a /\ w[2] = b /\ w[3] = c /\ w[4] = d /\ w[5] = e /\ w[6] = f
    BY <1>2, SixOf, SMTT(60)
  <1>4. w = (<<a, b>> \o <<c, d>>) \o <<e, f>>
    BY Zenon
  <1> HIDE DEF w
  <1> USE DEF a, b, c, d, e, f, S
  <1> QED  BY <1>3, <1>4, Zenon

\* Only the last two of them are about a file and a column that clients use.
LEMMA SixKinds ==
    ASSUME NEW n \in 0..MaxOps, NEW t \in Triples,
           NEW o \in {LastId} \X {Val} \X Numbers(n), NEW p \in {LastId} \X {Val} \X Numbers(n),
           NEW k, NEW u \in Triples
    PROVE  /\ \A g : PutOf(g, o) # PutOf(k, u) /\ PutOf(g, p) # PutOf(k, u)
           /\ \A g : PutOf(g, t) = PutOf(k, u) => k = g /\ u = t
  <1>1. o \in Subjects(n) /\ p \in Subjects(n) /\ t \in Subjects(n) /\ u \in Subjects(n)
    BY DEF Subjects
  <1>2. o \notin Triples /\ p \notin Triples
    BY Apart DEF Triples
  <1>3. \A x, g : x \in Subjects(n) /\ PutOf(g, x) = PutOf(k, u) => k = g /\ u = x
    BY <1>1, PutSame, Zenon
  <1> QED  BY <1>1, <1>2, <1>3, Zenon

LEMMA SixPuts ==
    ASSUME NEW n \in 0..MaxOps, NEW t \in Triples,
           todo'[1].do = "remove file", todo'[2].do = "remove col", todo'[2] = Turned(todo'[1]),
           todo'[3].do = "set file", todo'[4].do = "set col",
           todo'[5].do = "set file", todo'[6].do = "set col",
           \A k : \A u \in Triples :
              /\ todo'[1] # PutOf(k, u) /\ todo'[2] # PutOf(k, u)
              /\ todo'[3] # PutOf(k, u) /\ todo'[4] # PutOf(k, u)
              /\ todo'[5] = PutOf(k, u) => k = "set file" /\ u = t
              /\ todo'[6] = PutOf(k, u) => k = "set col" /\ u = t,
           todo'[5] = PutOf("set file", t), todo'[6] = PutOf("set col", t),
           todo' \in Seq(AllPuts(n)), Len(todo') = 6, DOMAIN todo' = 1..6,
           ops' = n
    PROVE  /\ Shape'
           /\ Pending("set file", t)' /\ Pending("set col", t)'
           /\ \A u \in Triples : /\ ~Pending("remove file", u)' /\ ~Pending("remove col", u)'
                                 /\ Pending("set file", u)' \/ Pending("set col", u)' => u = t
  <1>1. \A i \in DOMAIN todo' : i = 1 \/ i = 2 \/ i = 3 \/ i = 4 \/ i = 5 \/ i = 6
    BY UpToSix, Zenon
  <1>2. /\ "remove file" # "set file" /\ "remove file" # "set col" /\ "remove file" # "remove col"
        /\ "remove col" # "set file" /\ "remove col" # "set col"
    BY Zenon
  <1>3. \A i \in DOMAIN todo' : /\ todo'[i].do = "remove file" => i = 1
                                /\ todo'[i].do = "remove col" => i = 2
    BY <1>1, <1>2, Zenon
  <1>4. Shape'
    <2>1. Len(todo') >= 2 /\ todo'[2] = Turned(todo'[1]) /\ todo'[1].do = "remove file"
      BY OneToSix, Zenon
    <2>2. todo' \in Seq(AllPuts(ops'))
      BY Zenon
    <2> QED  BY <1>3, <2>1, <2>2, Zenon DEF Shape
  <1>5. Pending("set file", t)' /\ Pending("set col", t)'
    BY OneToSix, Zenon DEF Pending
  <1>6. ASSUME NEW k, NEW u \in Triples, Pending(k, u)'
        PROVE  u = t /\ (k = "set file" \/ k = "set col")
    <2>1. PICK i \in DOMAIN todo' : todo'[i] = PutOf(k, u)
      BY <1>6, Zenon DEF Pending
    <2>2. /\ todo'[1] # PutOf(k, u) /\ todo'[2] # PutOf(k, u)
          /\ todo'[3] # PutOf(k, u) /\ todo'[4] # PutOf(k, u)
          /\ todo'[5] = PutOf(k, u) => k = "set file" /\ u = t
          /\ todo'[6] = PutOf(k, u) => k = "set col" /\ u = t
      BY Zenon
    <2>3. todo'[i] = todo'[5] \/ todo'[i] = todo'[6]
      BY <1>1, <2>1, <2>2, Zenon
    <2> QED  BY <2>1, <2>2, <2>3, Zenon
  <1> QED  BY <1>2, <1>4, <1>5, <1>6, Zenon

LEMMA ViewsSetNew ==
    ASSUME ViewsInv, NEW c \in Cols, NEW v \in Vals, SetNew(c, v)
    PROVE  ViewsInv'
  <1>10. PICK f, g, n : f = Ids[Counter] /\ g = Ids[Counter + 1] /\ n = ops + 1
    OBVIOUS
  <1> DEFINE t == <<f, c, v>>
             o == <<LastId, Val, f>>
             p == <<LastId, Val, g>>
  <1>1. /\ Idle /\ ops < MaxOps /\ ops' = n /\ n = ops + 1 /\ UNCHANGED <<store, torn>>
        /\ given' = Append(given, f)
        /\ facts' = facts \cup {t} /\ safe' = safe \cup {t}
    BY <1>10 DEF SetNew, Begin, Idle
  <1>2. StoreInv /\ FactsInv /\ SafeInv /\ GoneInv
    BY Zenon DEF ViewsInv
  <1>3. f \in FileIds /\ f \in Numbers(n) /\ g \in Numbers(n)
    BY <1>10, <1>1, <1>2, CounterPlace
  <1>4. todo' = (<<PutOf("remove file", o), PutOf("remove col", o)>>
                     \o <<PutOf("set file", p), PutOf("set col", p)>>)
                    \o <<PutOf("set file", t), PutOf("set col", t)>>
    BY <1>10 DEF SetNew, SetCalls, RemoveCalls, PutOf
  <1>5. /\ t \in Triples /\ o \in {LastId} \X {Val} \X Numbers(n)
        /\ p \in {LastId} \X {Val} \X Numbers(n)
    BY <1>3 DEF Triples
  <1>6. given' \in Seq(FileIds)
    <2>1. given \in Seq(FileIds)
      BY <1>2 DEF StoreInv
    <2> QED  BY <1>1, <1>3, <2>1, AppendProperties
  <1> HIDE DEF t, o, p
  <1>7. n \in 0..MaxOps
    <2>1. ops < MaxOps /\ ops' = ops + 1 /\ store' = store
      BY <1>1
    <2> QED  BY <1>1, <1>2, <1>6, <2>1, StoreStays
  <1>8. /\ Shape'
        /\ Pending("set file", t)' /\ Pending("set col", t)'
        /\ \A u \in Triples : /\ ~Pending("remove file", u)' /\ ~Pending("remove col", u)'
                              /\ Pending("set file", u)' \/ Pending("set col", u)' => u = t
    <2>1. t \in Subjects(n) /\ o \in Subjects(n) /\ p \in Subjects(n)
      BY <1>5 DEF Subjects
    <2>2. /\ todo' \in Seq(AllPuts(n)) /\ Len(todo') = 6 /\ DOMAIN todo' = 1..6
          /\ todo'[1] = PutOf("remove file", o) /\ todo'[2] = PutOf("remove col", o)
          /\ todo'[3] = PutOf("set file", p) /\ todo'[4] = PutOf("set col", p)
          /\ todo'[5] = PutOf("set file", t) /\ todo'[6] = PutOf("set col", t)
      <3>1. \A s :
              s = (<<PutOf("remove file", o), PutOf("remove col", o)>>
                      \o <<PutOf("set file", p), PutOf("set col", p)>>)
                     \o <<PutOf("set file", t), PutOf("set col", t)>> =>
                /\ s \in Seq(AllPuts(n)) /\ Len(s) = 6 /\ DOMAIN s = 1..6
                /\ s[1] = PutOf("remove file", o) /\ s[2] = PutOf("remove col", o)
                /\ s[3] = PutOf("set file", p) /\ s[4] = PutOf("set col", p)
                /\ s[5] = PutOf("set file", t) /\ s[6] = PutOf("set col", t)
        BY <1>7, <2>1, NewPuts
      <3> QED  BY <1>4, <3>1, Zenon
    <2>3. \A k : \A u \in Triples :
              /\ \A d : PutOf(d, o) # PutOf(k, u) /\ PutOf(d, p) # PutOf(k, u)
              /\ \A d : PutOf(d, t) = PutOf(k, u) => k = d /\ u = t
      <3> SUFFICES ASSUME NEW k, NEW u \in Triples
                   PROVE  /\ \A g1 : PutOf(g1, o) # PutOf(k, u) /\ PutOf(g1, p) # PutOf(k, u)
                          /\ \A g1 : PutOf(g1, t) = PutOf(k, u) => k = g1 /\ u = t
        BY Zenon
      <3> QED  BY <1>5, <1>7, SixKinds
    <2>4. /\ \A d, x : PutOf(d, x).do = d
          /\ Turned(PutOf("remove file", o)) = PutOf("remove col", o)
      BY PutFields, PutTurned, Zenon
    <2>5. ops' = n
      BY <1>1
    <2>6. /\ todo'[1].do = "remove file" /\ todo'[2].do = "remove col" /\ todo'[2] = Turned(todo'[1])
          /\ todo'[3].do = "set file" /\ todo'[4].do = "set col"
          /\ todo'[5].do = "set file" /\ todo'[6].do = "set col"
      BY <2>2, <2>4, Zenon
    <2>7. \A k : \A u \in Triples :
              /\ todo'[1] # PutOf(k, u) /\ todo'[2] # PutOf(k, u)
              /\ todo'[3] # PutOf(k, u) /\ todo'[4] # PutOf(k, u)
              /\ todo'[5] = PutOf(k, u) => k = "set file" /\ u = t
              /\ todo'[6] = PutOf(k, u) => k = "set col" /\ u = t
      <3> SUFFICES ASSUME NEW k, NEW u \in Triples
                   PROVE  /\ todo'[1] # PutOf(k, u) /\ todo'[2] # PutOf(k, u)
                          /\ todo'[3] # PutOf(k, u) /\ todo'[4] # PutOf(k, u)
                          /\ todo'[5] = PutOf(k, u) => k = "set file" /\ u = t
                          /\ todo'[6] = PutOf(k, u) => k = "set col" /\ u = t
        BY Zenon
      <3>1. /\ \A g1 : PutOf(g1, o) # PutOf(k, u) /\ PutOf(g1, p) # PutOf(k, u)
            /\ \A g1 : PutOf(g1, t) = PutOf(k, u) => k = g1 /\ u = t
        BY <2>3, Zenon
      <3>2. /\ todo'[1] # PutOf(k, u) /\ todo'[2] # PutOf(k, u)
            /\ todo'[3] # PutOf(k, u) /\ todo'[4] # PutOf(k, u)
        BY <2>2, <3>1, Zenon
      <3>3. todo'[5] = PutOf(k, u) => k = "set file" /\ u = t
        BY <2>2, <3>1, Zenon
      <3>4. todo'[6] = PutOf(k, u) => k = "set col" /\ u = t
        BY <2>2, <3>1, Zenon
      <3> QED  BY <3>2, <3>3, <3>4, Zenon
    <2> QED  BY <1>5, <1>7, <2>2, <2>5, <2>6, <2>7, SixPuts
  <1>9. /\ Idle /\ ops < MaxOps /\ ops' = n /\ n = ops + 1 /\ UNCHANGED <<store, torn>>
        /\ facts' = facts \cup {t} /\ safe' = safe \cup {t}
    BY <1>1
  <1> QED  BY <1>2, <1>5, <1>6, <1>8, <1>9, SetCall

\* What the call was still to do is torn, and nothing is to be done.
LEMMA ViewsKilled == ASSUME ViewsInv, Killed PROVE ViewsInv'
  <1>1. /\ ops < MaxOps /\ ops' = ops + 1 /\ todo' = <<>>
        /\ torn' = torn \cup {<<todo[i].f, todo[i].c, todo[i].v>> : i \in DOMAIN todo}
        /\ UNCHANGED <<store, facts, safe, given>>
    BY DEF Killed
  <1>2. Shape /\ StoreInv /\ FactsInv /\ SafeInv /\ GoneInv
    BY Zenon DEF ViewsInv
  <1>3. given' \in Seq(FileIds)
    BY <1>1, <1>2 DEF StoreInv
  <1>4. /\ StoreInv'
        /\ \A u : (InFileOf(u)' <=> InFileOf(u)) /\ (InColOf(u)' <=> InColOf(u))
    BY <1>1, <1>2, <1>3, StoreStays
  <1>5. ASSUME NEW e, NEW u \in Triples, Pending(e, u)
        PROVE  u \in torn'
    <2>1. PICK i \in DOMAIN todo : todo[i] = PutOf(e, u)
      BY <1>5 DEF Pending
    <2>2. todo[i].f = u[1] /\ todo[i].c = u[2] /\ todo[i].v = u[3]
      BY <2>1, PutFields
    <2>3. u = <<u[1], u[2], u[3]>>
      BY DEF Triples
    <2> QED  BY <1>1, <2>2, <2>3
  <1>6. DOMAIN todo' = {} /\ \A e, u : ~Pending(e, u)'
    BY <1>1 DEF Pending
  <1>7. Shape'
    BY <1>1, <1>6 DEF Shape
  <1>8. FactsInv'
    BY <1>1, <1>2, <1>6 DEF FactsInv
  <1>9. safe \subseteq Triples /\ torn \subseteq torn'
    BY <1>1, <1>2 DEF FactsInv
  <1>10. SafeInv'
    BY <1>1, <1>2, <1>4, <1>5, <1>9 DEF SafeInv
  <1>11. GoneInv'
    BY <1>1, <1>2, <1>4, <1>5, <1>9 DEF GoneInv
  <1> QED  BY <1>4, <1>7, <1>8, <1>10, <1>11, Zenon DEF ViewsInv

LEMMA ViewsInit == Init => ViewsInv
  <1> SUFFICES ASSUME Init PROVE ViewsInv
    OBVIOUS
  <1>1. /\ store = [k \in Keys |-> <<>>] /\ todo = <<>> /\ ops = 0
        /\ facts = {} /\ safe = {} /\ torn = {} /\ given = <<>>
    BY DEF Init
  <1>2. DOMAIN todo = {} /\ \A e, u : ~Pending(e, u)
    BY <1>1 DEF Pending
  <1>3. Shape
    BY <1>1, <1>2 DEF Shape
  <1>4. \A k \in Keys : Rec(store[k]) /\ \A k2, v2 : ~Held(store[k], k2, v2)
    BY <1>1 DEF Rec, OneCell, NoTwice, Held
  <1>5. MaxOps \in Nat
    BY RecordsAssumption
  <1>6. StoreInv
    BY <1>1, <1>4, <1>5, Apart DEF StoreInv
  <1>7. FactsInv
    BY <1>1, <1>2 DEF FactsInv
  <1>8. SafeInv
    BY <1>1 DEF SafeInv
  <1>9. \A u \in Triples : u[1] \in Keys /\ u[2] \in Keys
    BY Apart DEF Triples
  <1>10. GoneInv
    BY <1>4, <1>9 DEF GoneInv, InFileOf, InColOf
  <1> QED  BY <1>3, <1>6, <1>7, <1>8, <1>10, Zenon DEF ViewsInv

LEMMA ViewsStep == ViewsInv /\ [Next]_vars => ViewsInv'
  <1> SUFFICES ASSUME ViewsInv, [Next]_vars PROVE ViewsInv'
    OBVIOUS
  <1>1. ASSUME NEW f \in FileIds, NEW c \in Cols, NEW v \in Vals, SetVal(f, c, v)
        PROVE  ViewsInv'
    BY <1>1, ViewsSetVal
  <1>2. ASSUME NEW f \in FileIds, NEW c \in Cols, NEW v \in Vals, RemoveVal(f, c, v)
        PROVE  ViewsInv'
    BY <1>2, ViewsRemoveVal
  <1>3. ASSUME NEW c \in Cols, NEW v \in Vals, SetNew(c, v) PROVE ViewsInv'
    BY <1>3, ViewsSetNew
  <1>4. CASE Put
    BY <1>4, ViewsPut
  <1>5. CASE Killed
    BY <1>5, ViewsKilled
  <1>6. CASE UNCHANGED vars
    BY <1>6 DEF vars, ViewsInv, Shape, StoreInv, FactsInv, SafeInv, GoneInv,
                Pending, InFileOf, InColOf
  <1> QED  BY <1>1, <1>2, <1>3, <1>4, <1>5, <1>6, Zenon DEF Next

LEMMA ViewsType == ViewsInv => TypeOK
  <1> SUFFICES ASSUME ViewsInv PROVE TypeOK
    OBVIOUS
  <1>1. StoreInv /\ FactsInv
    BY Zenon DEF ViewsInv
  <1>2. ASSUME NEW k \in Keys, NEW i \in DOMAIN store[k]
        PROVE  Cardinality(CellsOf(store[k], store[k][i].key)) <= 1
    <2> DEFINE C == CellsOf(store[k], store[k][i].key)
    <2>1. Rec(store[k])
      BY <1>1 DEF StoreInv
    <2>2. C = {} \/ \E j \in 1..Len(store[k]) : C = {j}
      BY <2>1, FoundCell
    <2> HIDE DEF C
    <2>3. CASE C = {}
      BY <2>3, FS_EmptySet DEF C
    <2>4. CASE \E j \in 1..Len(store[k]) : C = {j}
      <3>1. PICK j \in 1..Len(store[k]) : C = {j}
        BY <2>4
      <3>2. Cardinality({j}) = 1
        BY FS_Singleton, Zenon
      <3>3. Cardinality(C) <= 1
        BY <3>1, <3>2
      <3> QED  BY <3>3 DEF C
    <2> QED  BY <2>2, <2>3, <2>4
  <1>3. DOMAIN given = 1..Len(given) /\ \A i \in 1..Len(given) : given[i] \in FileIds
    BY <1>1, LenProperties, ElementOfSeq DEF StoreInv
  <1> QED  BY <1>1, <1>2, <1>3 DEF TypeOK, StoreInv, FactsInv

\* The views as a client reads them.
LEMMA ViewsRead ==
    ASSUME ViewsInv, NEW t \in Triples
    PROVE  (InFile(t) <=> InFileOf(t)) /\ (InCol(t) <=> InColOf(t))
  <1>1. t[1] \in Keys /\ t[2] \in Keys
    BY Apart DEF Triples
  <1>2. Rec(store[t[1]]) /\ Rec(store[t[2]])
    BY <1>1 DEF ViewsInv, StoreInv
  <1> QED  BY <1>2, ListsHeld DEF InFile, InFileOf, InCol, InColOf

LEMMA ViewsKept == ViewsInv => NothingBack /\ OthersKept
  <1> SUFFICES ASSUME ViewsInv, Idle
               PROVE  /\ \A t \in Triples \ torn : InFile(t) \/ InCol(t) => t \in facts
                      /\ \A t \in safe \ torn : InFile(t) /\ InCol(t)
    BY Zenon DEF NothingBack, OthersKept, Idle
  <1>1. FactsInv /\ SafeInv /\ GoneInv
    BY Zenon DEF ViewsInv
  <1>2. /\ \A u \in safe \ torn : InFileOf(u) /\ InColOf(u)
        /\ \A u \in Triples \ (torn \cup facts) : ~InFileOf(u) /\ ~InColOf(u)
    BY <1>1, IdleViews, Zenon
  <1>3. safe \subseteq Triples
    BY <1>1 DEF FactsInv
  <1> QED  BY <1>2, <1>3, ViewsRead
------------------------------------------------------------------------------
(***************************************************************************)
(* Every record of bdb.cpp and voldemort.cpp keeps at most one cell that a *)
(* search can find for a key, whatever calls and kills there were.         *)
(***************************************************************************)
THEOREM RecordsTypeOK == Spec => []TypeOK
  <1>1. Init => ViewsInv
    BY ViewsInit
  <1>2. ViewsInv /\ [Next]_vars => ViewsInv'
    BY ViewsStep
  <1>3. ViewsInv => TypeOK
    BY ViewsType
  <1> QED  BY <1>1, <1>2, <1>3, PTL DEF Spec

(***************************************************************************)
(* Between the calls of setval and remove_val nothing is listed, in either *)
(* view, that was never set or was removed while its file and its column   *)
(* were as the calls had left them, unless a kill interrupted a call about *)
(* it.                                                                     *)
(***************************************************************************)
THEOREM RecordsNothingBack == Spec => []NothingBack
  <1>1. Init => ViewsInv
    BY ViewsInit
  <1>2. ViewsInv /\ [Next]_vars => ViewsInv'
    BY ViewsStep
  <1>3. ViewsInv => NothingBack
    BY ViewsKept
  <1> QED  BY <1>1, <1>2, <1>3, PTL DEF Spec

(***************************************************************************)
(* remove_val takes nothing from another file and another column: what was *)
(* set and had no removal in its file or its column since is in both views.*)
(***************************************************************************)
THEOREM RecordsOthersKept == Spec => []OthersKept
  <1>1. Init => ViewsInv
    BY ViewsInit
  <1>2. ViewsInv /\ [Next]_vars => ViewsInv'
    BY ViewsStep
  <1>3. ViewsInv => OthersKept
    BY ViewsKept
  <1> QED  BY <1>1, <1>2, <1>3, PTL DEF Spec

(***************************************************************************)
(* setval("null", ..) of bdb.cpp and voldemort.cpp hands each id out once, *)
(* unless the process was killed within such a call before the counter's   *)
(* successor was stored.                                                   *)
(***************************************************************************)
THEOREM RecordsIdsFresh == Spec => []IdsFresh
  <1>1. Init => Inv
    BY RecordsInit
  <1>2. Inv /\ [Next]_vars => Inv'
    BY RecordsStep
  <1>3. Inv => IdsFresh
    BY InvFresh
  <1> QED  BY <1>1, <1>2, <1>3, PTL DEF Spec
===============================================================================
