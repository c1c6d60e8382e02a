---------------------------- MODULE Ingest_proofs ----------------------------
(***************************************************************************)
(* Whatever lies on the servers and whichever way senders and receiver     *)
(* interleave, a record with bytes is extracted from its copy unless its   *)
(* name or path is too short, no copy is left between two records, and two *)
(* files of regular names get the same number exactly when they lie in one *)
(* directory.                                                              *)
(***************************************************************************)
EXTENDS Ingest, TLAPS, FiniteSetTheorems, SequenceTheorems, NaturalsInduction,
        WellFoundedInduction

Packets == [from : Senders, file : Files, exp_id : Nat, full : BOOLEAN]
Entries == [from : Senders, file : Files, exp_id : Nat, full : BOOLEAN, copied : BOOLEAN]

\* What the senders have sent and still can send.
SendInv ==
    /\ found \in [Senders -> SUBSET Files]
    /\ experiments \in [Senders -> {E \in SUBSET [length : Nat, files : SUBSET Files] :
                                        IsFiniteSet(E)}]
    /\ size \in [Senders -> BOOLEAN]
    /\ channel \in [Senders -> Seq(Packets)]

\* What the communication thread has done of a record at each of its steps.
ReceiveInv ==
    /\ step \in {"idle", "mkdir", "copy", "extract", "remove", "down"}
    /\ step \in {"mkdir", "copy", "extract", "remove"} => event \in Packets
    /\ step \in {"idle", "mkdir", "copy"} => copies = {}
    /\ step \in {"extract", "remove"} => copies \subseteq {event.file}
    /\ \A f \in blocked \cap Files : PathLen(f) < 34
    /\ step = "copy" => \/ Dir[event.file] \in dirs
                        \/ NameLen[event.file] < 9
                        \/ PathLen(event.file) < 34
    /\ step = "extract" => \/ ~event.full
                           \/ event.file \in copies
                           \/ NameLen[event.file] < 9
                           \/ PathLen(event.file) < 34

RecordedInv == recorded \in Seq(Entries) /\ CopySeen

IngestInv == SendInv /\ ReceiveInv /\ RecordedInv

\* The files that s has submitted, and of each record that it sent, the file and the id,
\* wherever the record is now.
Done(s) == {h \in Serves[s] : Depth[h] < count[s]} \ found[s]
Pair(r) == <<r.file, r.exp_id>>
Sent(s) ==
    {Pair(channel[s][i]) : i \in DOMAIN channel[s]}
    \cup {Pair(r) : r \in {e \in {event} : step \in {"mkdir", "copy", "extract"} /\ e.from = s}}
    \cup {Pair(recorded[i]) : i \in {j \in DOMAIN recorded : recorded[j].from = s}}

\* n is the id of the files in d's directory, and of no other.
IdOf(s, d, n) == \A p \in Sent(s) : Regular(p[1]) => (p[2] = n <=> Dir[p[1]] = d)

\* Until s is dead: it goes through its server in the order of depth and name, has counted
\* what it has submitted, and of a directory it is in the middle of, all have its number.
InOrder(s) ==
    /\ \A g \in found[s] : g \in Serves[s] /\ Depth[g] + 1 = count[s]
    /\ \A h \in Done(s), g \in found[s] : Depth[h] = Depth[g] => h < g
    /\ experiments[s] = {ExpDir(h) : h \in Done(s)}
    /\ \A p \in Sent(s) : p[1] \in Done(s) /\ p[2] <= Cardinality(experiments[s])
    /\ \A h \in Done(s), g \in found[s] :
          Regular(h) /\ Dir[h] = Dir[g] => IdOf(s, Dir[h], Cardinality(experiments[s]))

\* Two records of one sender agree.
Agree(s) == \A p \in Sent(s) : Regular(p[1]) => IdOf(s, Dir[p[1]], p[2])

OrderOf(s) ==
    /\ at[s] # "dead" => InOrder(s)
    /\ Agree(s)
    /\ \A i \in DOMAIN channel[s] : channel[s][i].from = s

OrderInv == \A s \in Senders : OrderOf(s)
------------------------------------------------------------------------------
\* What glob finds has a first file.
LEMMA FirstIn ==
    ASSUME NEW fs \in SUBSET Files, fs # {}
    PROVE  First(fs) \in fs /\ \A g \in fs : First(fs) <= g
  <1> DEFINE R == {ss \in Nat \X Nat : ss[1] < ss[2]}
  <1>1. fs \subseteq Nat
    BY IngestAssumption
  <1>2. OpToRel(<, Nat) = R
    BY Zenon DEF OpToRel
  <1>3. IsWellFoundedOn(R, Nat)
    BY <1>2, NatLessThanWellFounded, Zenon
  <1> HIDE DEF R
  <1>4. PICK f \in fs : \A g \in fs : <<g, f>> \notin R
    BY <1>1, <1>3, WFMin
  <1>5. \A g \in fs : ~(g < f)
    BY <1>1, <1>4 DEF R
  <1>6. \A g \in fs : f <= g
    BY <1>1, <1>5
  <1> QED  BY <1>4, <1>6 DEF First

\* A path has a length.
LEMMA PathLenType == \A f \in Files : PathLen(f) \in Nat /\ PathLen(f) = DirLen[f] + NameLen[f]
  BY IngestAssumption DEF PathLen

LEMMA InitInv == Init => IngestInv
  <1> SUFFICES ASSUME Init PROVE IngestInv  OBVIOUS
  <1> USE DEF Init
  <1>1. SendInv
    BY FS_EmptySet DEF SendInv
  <1>2. ReceiveInv
    BY DEF ReceiveInv
  <1>3. RecordedInv
    BY DEF RecordedInv, CopySeen
  <1> QED  BY <1>1, <1>2, <1>3 DEF IngestInv
------------------------------------------------------------------------------
\* A sender sends what it found, and net_recv only takes from the channels.
LEMMA SendNext == ASSUME SendInv, [Next]_vars PROVE SendInv'
  <1> USE DEF SendInv
  <1>1. CASE UNCHANGED vars
    BY <1>1 DEF vars
  <1>2. ASSUME NEW s \in Senders, Glob(s) PROVE SendInv'
    BY <1>2, IngestAssumption DEF Glob
  <1>3. ASSUME NEW s \in Senders, Submit(s) PROVE SendInv'
    <2> DEFINE f == First(found[s])
    <2>1. f \in Files
      BY <1>3, FirstIn DEF Submit
    <2>2. ExpDir(f) \in [length : Nat, files : SUBSET Files]
      BY <2>1, PathLenType DEF ExpDir
    <2>3. IsFiniteSet(experiments[s] \cup {ExpDir(f)})
      BY FS_AddElement
    <2>4. ExpId(s, f) \in Nat
      BY <2>3, FS_CardinalityType DEF ExpId
    <2>5. PICK full \in BOOLEAN :
            /\ size' = [size EXCEPT ![s] = full]
            /\ experiments' = [experiments EXCEPT ![s] = @ \cup {ExpDir(f)}]
            /\ \/ UNCHANGED <<found, channel>>
               \/ /\ found' = [found EXCEPT ![s] = @ \ {f}]
                  /\ channel' = [channel EXCEPT ![s] = Append(@,
                         [from |-> s, file |-> f, exp_id |-> ExpId(s, f), full |-> full])]
      <3>1. PICK opened \in BOOLEAN :
              LET full == IF opened THEN f \in Full ELSE size[s]
              IN  /\ size' = [size EXCEPT ![s] = full]
                  /\ experiments' = [experiments EXCEPT ![s] = @ \cup {ExpDir(f)}]
                  /\ IF full /\ ~opened
                     THEN at' = [at EXCEPT ![s] = "dead"] /\ UNCHANGED <<found, channel>>
                     ELSE /\ found' = [found EXCEPT ![s] = @ \ {f}]
                          /\ channel' = [channel EXCEPT ![s] = Append(@,
                                 [from |-> s, file |-> f, exp_id |-> ExpId(s, f), full |-> full])]
                          /\ UNCHANGED at
        BY <1>3 DEF Submit
      <3> DEFINE full == IF opened THEN f \in Full ELSE size[s]
      <3>2. (f \in Full) \in BOOLEAN /\ size[s] \in BOOLEAN
        OBVIOUS
      <3>3. full \in BOOLEAN
        BY <3>2, Zenon
      <3> QED  BY <3>1, <3>3
    <2>6. [from |-> s, file |-> f, exp_id |-> ExpId(s, f), full |-> full] \in Packets
      BY <2>1, <2>4 DEF Packets
    <2>7. found' \in [Senders -> SUBSET Files]
      BY <2>5
    <2>8. experiments' \in [Senders -> {E \in SUBSET [length : Nat, files : SUBSET Files] :
                                            IsFiniteSet(E)}]
      BY <2>2, <2>3, <2>5
    <2>9. channel' \in [Senders -> Seq(Packets)]
      <3>1. channel[s] \in Seq(Packets)
        OBVIOUS
      <3>2. Append(channel[s], [from |-> s, file |-> f, exp_id |-> ExpId(s, f), full |-> full])
              \in Seq(Packets)
        BY <2>6, <3>1, AppendProperties
      <3> HIDE DEF f
      <3> QED  BY <2>5, <3>2
    <2>10. size' \in [Senders -> BOOLEAN]
      BY <2>5
    <2> QED  BY <2>7, <2>8, <2>9, <2>10
  <1>4. ASSUME NEW s \in Senders, Finish(s) PROVE SendInv'
    BY <1>4 DEF Finish
  <1>5. ASSUME NEW s \in Senders, Accept(s) PROVE SendInv'
    <2>1. channel[s] \in Seq(Packets) /\ channel[s] # <<>>
      BY <1>5 DEF Accept
    <2>2. Tail(channel[s]) \in Seq(Packets)
      BY <2>1, HeadTailProperties
    <2> QED  BY <1>5, <2>2 DEF Accept, sender
  <1>6. CASE Handler \/ Down
    BY <1>6 DEF Handler, TooShort, MakeDirs, WriteCopy, Extract, RemoveCopy, Down, sender
  <1> QED  BY <1>1, <1>2, <1>3, <1>4, <1>5, <1>6 DEF Next, Sender

\* The communication thread works on one record at a time and leaves nothing of it.
LEMMA ReceiveNext == ASSUME SendInv, ReceiveInv, [Next]_vars PROVE ReceiveInv'
  <1> USE DEF ReceiveInv
  <1>1. CASE UNCHANGED vars
    BY <1>1 DEF vars, PathLen
  <1>2. ASSUME NEW s \in Senders, Sender(s) PROVE ReceiveInv'
    BY <1>2 DEF Sender, Glob, Submit, Finish, receiver, PathLen
  <1>3. ASSUME NEW s \in Senders, Accept(s) PROVE ReceiveInv'
    <2>1. Head(channel[s]) \in Packets
      BY <1>3, HeadTailProperties DEF Accept, SendInv
    <2> QED  BY <1>3, <2>1 DEF Accept, PathLen
  <1>4. CASE TooShort
    BY <1>4 DEF TooShort, PathLen
  <1>5. CASE MakeDirs
    <2> DEFINE f == event.file
    <2>1. f \in Files /\ event \in Packets /\ copies = {}
      BY <1>5 DEF MakeDirs, Packets
    <2>2. DirLen[f] \in Nat /\ NameLen[f] \in Nat /\ PathLen(f) = DirLen[f] + NameLen[f]
      BY <2>1, IngestAssumption DEF PathLen
    <2>3. \/ Dir[f] \in dirs'
          \/ NameLen[f] < 9
          \/ PathLen(f) < 34
      BY <1>5, <2>2 DEF MakeDirs
    <2>4. \A g \in blocked' \cap Files : PathLen(g) < 34
      BY <1>5 DEF MakeDirs
    <2>5. step' = "copy" /\ event' = event /\ copies' = copies
      BY <1>5 DEF MakeDirs
    <2> QED  BY <2>1, <2>3, <2>4, <2>5 DEF PathLen
  <1>6. CASE WriteCopy
    <2> DEFINE f == event.file
    <2>1. f \in Files /\ event \in Packets /\ copies = {} /\ step = "copy"
      BY <1>6 DEF WriteCopy, Packets
    <2>2. \/ ~event.full
          \/ f \in copies'
          \/ NameLen[f] < 9
          \/ PathLen(f) < 34
      BY <1>6, <2>1 DEF WriteCopy
    <2>3. copies' \subseteq {f} /\ step' = "extract" /\ event' = event /\ blocked' = blocked
      BY <1>6, <2>1 DEF WriteCopy
    <2> QED  BY <2>1, <2>2, <2>3 DEF PathLen
  <1>7. CASE Extract
    BY <1>7 DEF Extract, sender, PathLen
  <1>8. CASE RemoveCopy
    BY <1>8 DEF RemoveCopy, sender, PathLen
  <1>9. CASE Down
    BY <1>9 DEF Down, sender, PathLen
  <1> QED
    BY <1>1, <1>2, <1>3, <1>4, <1>5, <1>6, <1>7, <1>8, <1>9 DEF Next, Handler

\* What is recorded was seen in its copy, or is too short.
LEMMA RecordedNext == ASSUME ReceiveInv, RecordedInv, [Next]_vars PROVE RecordedInv'
  <1>1. CASE UNCHANGED recorded
    BY <1>1 DEF RecordedInv, CopySeen, PathLen
  <1>2. CASE Extract
    <2> DEFINE r == [from |-> event.from, file |-> event.file, exp_id |-> event.exp_id,
                     full |-> event.full, copied |-> event.file \in copies]
    <2>1. step = "extract" /\ event \in Packets /\ recorded' = Append(recorded, r)
      BY <1>2 DEF Extract, ReceiveInv
    <2>2. r \in Entries
      BY <2>1 DEF Entries, Packets
    <2>3. r.full /\ ~r.copied => NameLen[r.file] < 9 \/ PathLen(r.file) < 34
      BY <2>1 DEF ReceiveInv
    <2> HIDE DEF r
    <2>4. recorded \in Seq(Entries)
      BY DEF RecordedInv
    <2>5. /\ Append(recorded, r) \in Seq(Entries)
          /\ Len(Append(recorded, r)) = Len(recorded) + 1
          /\ \A i \in 1..Len(recorded) : Append(recorded, r)[i] = recorded[i]
          /\ Append(recorded, r)[Len(recorded) + 1] = r
      BY <2>2, <2>4, AppendProperties
    <2>6. \A i \in DOMAIN recorded' : i \in DOMAIN recorded \/ i = Len(recorded) + 1
      BY <2>1, <2>4, <2>5
    <2>7. CopySeen'
      <3> SUFFICES ASSUME NEW i \in DOMAIN recorded', recorded'[i].full, ~recorded'[i].copied
                   PROVE  NameLen[recorded'[i].file] < 9 \/ PathLen(recorded'[i].file) < 34
        BY DEF CopySeen, PathLen
      <3>1. CASE i \in DOMAIN recorded
        <4>1. recorded'[i] = recorded[i]
          BY <2>1, <2>4, <2>5, <3>1
        <4> QED  BY <3>1, <4>1 DEF RecordedInv, CopySeen
      <3>2. CASE i = Len(recorded) + 1
        <4>1. recorded'[i] = r
          BY <2>1, <2>5, <3>2
        <4> QED  BY <2>3, <4>1
      <3> QED  BY <2>6, <3>1, <3>2
    <2> QED  BY <2>1, <2>5, <2>7 DEF RecordedInv
  <1>3. CASE ~Extract
    <2>1. UNCHANGED recorded
      BY <1>3 DEF Next, Sender, Glob, Submit, Finish, Accept, Handler, TooShort, MakeDirs,
                  WriteCopy, RemoveCopy, Down, receiver, vars
    <2> QED  BY <1>1, <2>1
  <1> QED  BY <1>2, <1>3

LEMMA NextInv == ASSUME IngestInv, [Next]_vars PROVE IngestInv'
  BY SendNext, ReceiveNext, RecordedNext DEF IngestInv
------------------------------------------------------------------------------
ExpDirs == {ExpDir(f) : f \in Files}

TypeInv ==
    /\ TypeOK
    /\ found \in [Senders -> SUBSET Files]
    /\ experiments \in [Senders -> SUBSET ExpDirs]
    /\ channel \in [Senders -> Seq(Records)]
    /\ step \in {"mkdir", "copy", "extract", "remove"} => event \in Records

\* There are no more experiments than files, and with one more file there is one at least.
LEMMA ExpIdRange ==
    ASSUME NEW s \in Senders, experiments[s] \in SUBSET ExpDirs, NEW f \in Files
    PROVE  ExpId(s, f) \in 1..Cardinality(Files)
  <1> DEFINE E == experiments[s] \cup {ExpDir(f)}
             e == [g \in Files |-> ExpDir(g)]
  <1>1. e \in Surjection(Files, ExpDirs)
    BY DEF Surjection, ExpDirs
  <1>2. IsFiniteSet(Files) /\ Cardinality(Files) \in Nat
    BY IngestAssumption, FS_CardinalityType
  <1>3. IsFiniteSet(ExpDirs) /\ Cardinality(ExpDirs) <= Cardinality(Files)
        /\ Cardinality(ExpDirs) \in Nat
    BY <1>1, <1>2, FS_Surjection, FS_CardinalityType
  <1>4. E \in SUBSET ExpDirs /\ E # {}
    BY DEF ExpDirs
  <1> HIDE DEF E, e
  <1>5. IsFiniteSet(E) /\ Cardinality(E) <= Cardinality(ExpDirs) /\ Cardinality(E) \in Nat
    BY <1>3, <1>4, FS_Subset, FS_CardinalityType
  <1>6. Cardinality(E) # 0
    BY <1>4, <1>5, FS_EmptySet
  <1>7. Cardinality(E) \in 1..Cardinality(Files)
    BY <1>2, <1>3, <1>5, <1>6
  <1> QED  BY <1>7 DEF E, ExpId

LEMMA TypeInit == Init => TypeInv
  <1> SUFFICES ASSUME Init PROVE TypeInv  OBVIOUS
  <1> USE DEF Init
  <1>1. 0 \in 0..Patterns
    BY IngestAssumption
  <1>2. count \in [Senders -> 0..Patterns]
    BY <1>1
  <1>3. recorded \in Seq(Recorded) /\ channel \in [Senders -> Seq(Records)]
    OBVIOUS
  <1>4. TypeOK
    BY <1>2, <1>3 DEF TypeOK
  <1> QED  BY <1>3, <1>4 DEF TypeInv

LEMMA TypeSender ==
    ASSUME TypeInv, NEW s \in Senders, Sender(s) \/ Accept(s)
    PROVE  TypeInv'
  <1> USE DEF TypeInv
  <1>1. CASE Glob(s)
    <2>1. count[s] \in 0..Patterns /\ count[s] < Patterns /\ Patterns \in Nat
      BY <1>1, IngestAssumption DEF Glob, TypeOK
    <2>2. count[s] + 1 \in 0..Patterns
      BY <2>1
    <2>3. count' \in [Senders -> 0..Patterns]
      BY <1>1, <2>2 DEF Glob, TypeOK
    <2>4. found' \in [Senders -> SUBSET Files]
      BY <1>1, IngestAssumption DEF Glob
    <2> QED  BY <1>1, <2>3, <2>4 DEF Glob, receiver, TypeOK
  <1>2. CASE Finish(s)
    BY <1>2 DEF Finish, receiver, TypeOK
  <1>3. CASE Submit(s)
    <2> DEFINE f == First(found[s])
    <2>1. f \in Files
      BY <1>3, FirstIn DEF Submit
    <2>2. ExpDir(f) \in ExpDirs
      BY <2>1 DEF ExpDirs
    <2>3. ExpId(s, f) \in 1..Cardinality(Files)
      BY <2>1, ExpIdRange
    <2>4. PICK opened \in BOOLEAN :
            LET full == IF opened THEN f \in Full ELSE size[s]
            IN  /\ size' = [size EXCEPT ![s] = full]
                /\ experiments' = [experiments EXCEPT ![s] = @ \cup {ExpDir(f)}]
                /\ IF full /\ ~opened
                   THEN at' = [at EXCEPT ![s] = "dead"] /\ UNCHANGED <<found, channel>>
                   ELSE /\ found' = [found EXCEPT ![s] = @ \ {f}]
                        /\ channel' = [channel EXCEPT ![s] = Append(@,
                               [from |-> s, file |-> f, exp_id |-> ExpId(s, f), full |-> full])]
                        /\ UNCHANGED at
      BY <1>3 DEF Submit
    <2> DEFINE full == IF opened THEN f \in Full ELSE size[s]
               r == [from |-> s, file |-> f, exp_id |-> ExpId(s, f), full |-> full]
    <2>5. full \in BOOLEAN
      <3>1. (f \in Full) \in BOOLEAN /\ size[s] \in BOOLEAN
        BY DEF TypeOK
      <3> QED  BY <3>1, Zenon
    <2>6. r \in Records
      <3> HIDE DEF f, full
      <3> QED  BY <2>1, <2>3, <2>5 DEF Records
    <2>7. Append(channel[s], r) \in Seq(Records)
      <3> HIDE DEF r
      <3> QED  BY <2>6
    <2>8. /\ size' = [size EXCEPT ![s] = full]
          /\ experiments' = [experiments EXCEPT ![s] = @ \cup {ExpDir(f)}]
          /\ \/ at' = [at EXCEPT ![s] = "dead"] /\ UNCHANGED <<found, channel>>
             \/ /\ found' = [found EXCEPT ![s] = @ \ {f}] /\ UNCHANGED at
                /\ channel' = [channel EXCEPT ![s] = Append(channel[s], r)]
          /\ UNCHANGED <<count, receiver>>
      BY <1>3, <2>4 DEF Submit
    <2> HIDE DEF f, full, r
    <2>9. experiments' \in [Senders -> SUBSET ExpDirs]
      BY <2>2, <2>8
    <2>10. channel' \in [Senders -> Seq(Records)] /\ found' \in [Senders -> SUBSET Files]
      BY <2>7, <2>8
    <2>11. size' \in [Senders -> BOOLEAN] /\ at' \in [Senders -> {"running", "done", "dead"}]
      BY <2>5, <2>8 DEF TypeOK
    <2> QED  BY <2>8, <2>9, <2>10, <2>11 DEF receiver, TypeOK
  <1>4. CASE Accept(s)
    <2>1. channel[s] \in Seq(Records) /\ channel[s] # <<>>
      BY <1>4 DEF Accept
    <2>2. Head(channel[s]) \in Records /\ Tail(channel[s]) \in Seq(Records)
      BY <2>1, HeadTailProperties
    <2>3. channel' \in [Senders -> Seq(Records)] /\ event' \in Records
      BY <1>4, <2>2 DEF Accept
    <2> QED  BY <1>4, <2>3 DEF Accept, sender, TypeOK
  <1> QED  BY <1>1, <1>2, <1>3, <1>4 DEF Sender

LEMMA TypeHandler ==
    ASSUME TypeInv, Handler \/ Down
    PROVE  TypeInv'
  <1> USE DEF TypeInv
  <1>1. UNCHANGED <<sender, channel>>
    BY DEF Handler, TooShort, MakeDirs, WriteCopy, Extract, RemoveCopy, Down
  <1>2. CASE TooShort \/ Down
    BY <1>2 DEF TooShort, Down, sender, TypeOK
  <1>3. CASE MakeDirs
    <2>1. event.file \in Files
      BY <1>3 DEF MakeDirs, Records
    <2>2. copies' \subseteq Files \ blocked' /\ blocked' \subseteq Files
      BY <1>3, <2>1 DEF MakeDirs, TypeOK
    <2> QED  BY <1>3, <2>2 DEF MakeDirs, sender, TypeOK
  <1>4. CASE WriteCopy
    <2>1. event.file \in Files
      BY <1>4 DEF WriteCopy, Records
    <2>2. copies' \subseteq Files \ blocked
      BY <1>4, <2>1 DEF WriteCopy, TypeOK
    <2> QED  BY <1>4, <2>2 DEF WriteCopy, sender, TypeOK
  <1>5. CASE Extract
    <2> DEFINE r == [from |-> event.from, file |-> event.file, exp_id |-> event.exp_id,
                     full |-> event.full, copied |-> event.file \in copies]
    <2>1. event \in Records /\ recorded' = Append(recorded, r)
      BY <1>5 DEF Extract
    <2>2. r \in Recorded
      BY <2>1 DEF Records, Recorded
    <2> HIDE DEF r
    <2>3. recorded' \in Seq(Recorded)
      BY <2>1, <2>2 DEF TypeOK
    <2> QED  BY <1>5, <2>3 DEF Extract, sender, TypeOK
  <1>6. CASE RemoveCopy
    BY <1>6 DEF RemoveCopy, sender, TypeOK
  <1> QED  BY <1>2, <1>3, <1>4, <1>5, <1>6 DEF Handler

LEMMA TypeNext == ASSUME TypeInv, [Next]_vars PROVE TypeInv'
  <1>1. CASE UNCHANGED vars
    BY <1>1 DEF vars, TypeInv, TypeOK, Records, Recorded, ExpDirs, ExpDir, PathLen
  <1> QED  BY <1>1, TypeSender, TypeHandler DEF Next
------------------------------------------------------------------------------
\* The records of one sender, wherever they are, carry a file and a number.
LEMMA SentType ==
    ASSUME IngestInv, NEW s \in Senders
    PROVE  Sent(s) \subseteq Files \X Nat
  <1> SUFFICES ASSUME NEW p \in Sent(s) PROVE p \in Files \X Nat
    OBVIOUS
  <1>1. CASE p \in {Pair(channel[s][i]) : i \in DOMAIN channel[s]}
    <2>1. PICK i \in DOMAIN channel[s] : p = Pair(channel[s][i])
      BY <1>1
    <2>2. channel[s] \in Seq(Packets)
      BY DEF IngestInv, SendInv
    <2>3. channel[s][i] \in Packets
      BY <2>2
    <2> QED  BY <2>1, <2>3 DEF Pair, Packets
  <1>2. CASE p \in {Pair(r) : r \in {e \in {event} :
                        step \in {"mkdir", "copy", "extract"} /\ e.from = s}}
    <2>1. p = Pair(event) /\ event \in Packets
      BY <1>2 DEF IngestInv, ReceiveInv
    <2> QED  BY <2>1 DEF Pair, Packets
  <1>3. CASE p \in {Pair(recorded[i]) : i \in {j \in DOMAIN recorded : recorded[j].from = s}}
    <2>1. PICK i \in DOMAIN recorded : p = Pair(recorded[i])
      BY <1>3
    <2>2. recorded \in Seq(Entries)
      BY DEF IngestInv, RecordedInv
    <2>3. recorded[i] \in Entries
      BY <2>2
    <2> QED  BY <2>1, <2>3 DEF Pair, Entries
  <1> QED  BY <1>1, <1>2, <1>3 DEF Sent

\* The experiment of a file with a regular name is its directory.
LEMMA RegularExpDir ==
    ASSUME NEW f \in Files, Regular(f)
    PROVE  /\ DirLen[f] \in Nat
           /\ ExpDir(f) = [length |-> DirLen[f],
                           files |-> {g \in Files : Shared(f, g) >= DirLen[f]}]
  <1>1. NameLen[f] = 10 /\ DirLen[f] \in Nat
    BY IngestAssumption DEF Regular
  <1> DEFINE n == IF PathLen(f) < 10 THEN PathLen(f) ELSE PathLen(f) - 10
  <1>2. n = DirLen[f]
    BY <1>1 DEF PathLen
  <1>3. ExpDir(f) = [length |-> n, files |-> {g \in Files : Shared(f, g) >= n}]
    BY DEF ExpDir
  <1> HIDE DEF n
  <1> QED  BY <1>1, <1>2, <1>3

\* Files of one directory with regular names are one experiment.
LEMMA SameExpDir ==
    ASSUME NEW f \in Files, NEW h \in Files, Regular(f), Dir[h] = Dir[f]
    PROVE  Regular(h) /\ ExpDir(h) = ExpDir(f)
  <1>1. Regular(h)
    BY DEF Regular
  <1>2. DirLen[h] = DirLen[f] /\ DirLen[f] \in Nat
    BY PathsAssumption, IngestAssumption
  <1> DEFINE n == DirLen[f]
  <1>3. /\ ExpDir(f) = [length |-> n, files |-> {g \in Files : Shared(f, g) >= n}]
        /\ ExpDir(h) = [length |-> n, files |-> {g \in Files : Shared(h, g) >= n}]
    BY <1>1, <1>2, RegularExpDir
  <1>4. Shared(f, h) >= n /\ Shared(h, f) >= n
    BY <1>2, PathsAssumption
  <1>5. ASSUME NEW g \in Files PROVE Shared(f, g) >= n <=> Shared(h, g) >= n
    <2>1. /\ Shared(f, g) \in Nat /\ Shared(h, g) \in Nat
          /\ Shared(f, h) \in Nat /\ Shared(h, f) \in Nat
      BY PathsAssumption
    <2>2. /\ Shared(f, g) >= Shared(f, h) \/ Shared(f, g) >= Shared(h, g)
          /\ Shared(h, g) >= Shared(h, f) \/ Shared(h, g) >= Shared(f, g)
      BY PathsAssumption
    <2> QED  BY <1>2, <1>4, <2>1, <2>2
  <1> HIDE DEF n
  <1> QED  BY <1>1, <1>3, <1>5

\* Another file that counts for the experiment of a regular one lies deeper.
LEMMA OtherExpDir ==
    ASSUME NEW s \in Senders, NEW f \in Serves[s], NEW h \in Serves[s],
           Regular(f), ExpDir(h) = ExpDir(f), Dir[h] # Dir[f]
    PROVE  Depth[f] < Depth[h]
  <1>1. f \in Files /\ h \in Files
    BY IngestAssumption
  <1>2. DirLen[f] \in Nat
    BY <1>1, IngestAssumption
  <1> DEFINE n == DirLen[f]
  <1>3. ExpDir(f) = [length |-> n, files |-> {g \in Files : Shared(f, g) >= n}]
    BY <1>1, RegularExpDir
  <1>4. n = ExpDir(h).length /\ {g \in Files : Shared(f, g) >= n} = ExpDir(h).files
    BY <1>3
  <1>5. {g \in Files : Shared(f, g) >= n} = {g \in Files : Shared(h, g) >= n}
    BY <1>4 DEF ExpDir
  <1>6. Shared(h, h) >= n
    <2>1. Shared(f, f) >= n
      BY <1>1, PathsAssumption
    <2>2. Shared(h, f) >= n
      BY <1>1, <1>5, <2>1
    <2>3. /\ Shared(h, h) \in Nat /\ Shared(h, f) \in Nat /\ Shared(f, h) = Shared(h, f)
          /\ Shared(h, h) >= Shared(h, f) \/ Shared(h, h) >= Shared(f, h)
      BY <1>1, PathsAssumption
    <2> QED  BY <1>2, <2>2, <2>3
  <1>7. Shared(f, h) >= n
    BY <1>1, <1>5, <1>6
  <1> QED  BY <1>7, PathsAssumption

\* What a turn of the loop does: the file is counted, and sent unless that is the end.
LEMMA Submits ==
    ASSUME IngestInv, NEW s \in Senders, Submit(s)
    PROVE  LET f == First(found[s])
           IN  /\ f \in found[s] /\ f \in Files /\ \A g \in found[s] : f <= g
               /\ at[s] = "running" /\ UNCHANGED <<count, receiver>>
               /\ experiments' = [experiments EXCEPT ![s] = @ \cup {ExpDir(f)}]
               /\ \/ at' = [at EXCEPT ![s] = "dead"] /\ UNCHANGED <<found, channel>>
                  \/ /\ found' = [found EXCEPT ![s] = @ \ {f}] /\ UNCHANGED at
                     /\ \E full \in BOOLEAN : channel' = [channel EXCEPT ![s] = Append(@,
                            [from |-> s, file |-> f, exp_id |-> ExpId(s, f), full |-> full])]
  <1> DEFINE f == First(found[s])
  <1>1. found[s] \in SUBSET Files /\ found[s] # {} /\ size[s] \in BOOLEAN
    BY DEF IngestInv, SendInv, Submit
  <1>2. f \in found[s] /\ f \in Files /\ \A g \in found[s] : f <= g
    BY <1>1, FirstIn
  <1>3. PICK opened \in BOOLEAN :
          LET full == IF opened THEN f \in Full ELSE size[s]
          IN  /\ experiments' = [experiments EXCEPT ![s] = @ \cup {ExpDir(f)}]
              /\ IF full /\ ~opened
                 THEN at' = [at EXCEPT ![s] = "dead"] /\ UNCHANGED <<found, channel>>
                 ELSE /\ found' = [found EXCEPT ![s] = @ \ {f}]
                      /\ channel' = [channel EXCEPT ![s] = Append(@,
                             [from |-> s, file |-> f, exp_id |-> ExpId(s, f), full |-> full])]
                      /\ UNCHANGED at
    BY DEF Submit
  <1> DEFINE full == IF opened THEN f \in Full ELSE size[s]
  <1>4. full \in BOOLEAN
    <2>1. (f \in Full) \in BOOLEAN
      OBVIOUS
    <2> QED  BY <1>1, <2>1, Zenon
  <1>5. at[s] = "running" /\ UNCHANGED <<count, receiver>>
    BY DEF Submit
  <1> HIDE DEF f, full
  <1>6. \/ at' = [at EXCEPT ![s] = "dead"] /\ UNCHANGED <<found, channel>>
        \/ /\ found' = [found EXCEPT ![s] = @ \ {f}] /\ UNCHANGED at
           /\ channel' = [channel EXCEPT ![s] = Append(@,
                  [from |-> s, file |-> f, exp_id |-> ExpId(s, f), full |-> full])]
    BY <1>3 DEF full
  <1> QED  BY <1>2, <1>3, <1>4, <1>5, <1>6 DEF f
------------------------------------------------------------------------------
\* Where nothing is sent and nothing found, the order stays.
LEMMA OrderKept ==
    ASSUME NEW s \in Senders, OrderOf(s), Sent(s)' \subseteq Sent(s),
           found'[s] = found[s], count'[s] = count[s], experiments'[s] = experiments[s],
           at'[s] = at[s], \A i \in DOMAIN channel'[s] : channel'[s][i].from = s
    PROVE  OrderOf(s)'
  <1>1. Done(s)' = Done(s)
    BY DEF Done
  <1>2. \A d, n : IdOf(s, d, n) => IdOf(s, d, n)'
    BY DEF IdOf, Regular
  <1>3. Agree(s)'
    BY <1>2 DEF OrderOf, Agree, Regular
  <1>4. InOrder(s) => InOrder(s)'
    <2> SUFFICES ASSUME InOrder(s) PROVE InOrder(s)'
      OBVIOUS
    <2> USE DEF InOrder
    <2>1. \A g \in found'[s] : g \in Serves[s] /\ Depth[g] + 1 = count'[s]
      OBVIOUS
    <2>2. \A h \in Done(s)', g \in found'[s] : Depth[h] = Depth[g] => h < g
      BY <1>1
    <2>3. experiments'[s] = {ExpDir(h) : h \in Done(s)'}
      BY <1>1
    <2>4. \A p \in Sent(s)' : p[1] \in Done(s)' /\ p[2] <= Cardinality(experiments'[s])
      BY <1>1
    <2>5. \A h \in Done(s)', g \in found'[s] :
             Regular(h) /\ Dir[h] = Dir[g] => IdOf(s, Dir[h], Cardinality(experiments[s]))'
      BY <1>1, <1>2
    <2> QED  BY <2>1, <2>2, <2>3, <2>4, <2>5 DEF Regular, ExpDir, PathLen
  <1> QED  BY <1>3, <1>4 DEF OrderOf

\* A record that net_recv takes and works on is not sent again.
LEMMA SentOnce ==
    ASSUME IngestInv, OrderInv, NEW s \in Senders, NEW q \in Senders, Accept(q)
    PROVE  /\ Sent(s)' \subseteq Sent(s)
           /\ \A i \in DOMAIN channel'[s] : channel'[s][i].from = s
  <1>1. channel[q] \in Seq(Packets) /\ channel[q] # <<>>
    BY DEF IngestInv, SendInv, Accept
  <1>2. /\ Head(channel[q]) = channel[q][1] /\ 1 \in DOMAIN channel[q]
        /\ \A i \in DOMAIN Tail(channel[q]) :
              Tail(channel[q])[i] = channel[q][i + 1] /\ i + 1 \in DOMAIN channel[q]
    BY <1>1, HeadTailProperties, LenProperties, EmptySeq
  <1>3. channel[q][1].from = q /\ \A i \in DOMAIN channel[q] : channel[q][i].from = q
    BY <1>2 DEF OrderInv, OrderOf
  <1>4. channel' = [channel EXCEPT ![q] = Tail(@)] /\ event' = channel[q][1] /\ recorded' = recorded
    BY <1>2 DEF Accept
  <1>5. CASE s = q
    <2>1. channel'[s] = Tail(channel[q])
      BY <1>4, <1>5 DEF IngestInv, SendInv
    <2>2. \A i \in DOMAIN channel'[s] : Pair(channel'[s][i]) \in Sent(s) /\ channel'[s][i].from = s
      BY <1>2, <1>3, <1>5, <2>1 DEF Sent
    <2>3. Pair(event') \in Sent(s)
      BY <1>2, <1>4, <1>5 DEF Sent
    <2> QED  BY <1>4, <2>2, <2>3 DEF Sent, Pair
  <1>6. CASE s # q
    <2>1. channel'[s] = channel[s] /\ event'.from # s
      BY <1>3, <1>4, <1>6 DEF IngestInv, SendInv
    <2> QED  BY <1>4, <2>1 DEF Sent, Pair, OrderInv, OrderOf
  <1> QED  BY <1>5, <1>6

LEMMA SentHandled ==
    ASSUME IngestInv, OrderInv, NEW s \in Senders, Handler \/ Down
    PROVE  /\ Sent(s)' \subseteq Sent(s)
           /\ \A i \in DOMAIN channel'[s] : channel'[s][i].from = s
  <1>1. channel' = channel
    BY DEF Handler, TooShort, MakeDirs, WriteCopy, Extract, RemoveCopy, Down
  <1> SUFFICES Sent(s)' \subseteq Sent(s)
    BY <1>1 DEF OrderInv, OrderOf
  <1>2. CASE TooShort \/ Down
    BY <1>1, <1>2 DEF TooShort, Down, Sent, Pair
  <1>3. CASE MakeDirs
    BY <1>1, <1>3 DEF MakeDirs, Sent, Pair
  <1>4. CASE WriteCopy
    BY <1>1, <1>4 DEF WriteCopy, Sent, Pair
  <1>5. CASE RemoveCopy
    BY <1>1, <1>5 DEF RemoveCopy, Sent, Pair
  <1>6. CASE Extract
    <2> DEFINE r == [from |-> event.from, file |-> event.file, exp_id |-> event.exp_id,
                     full |-> event.full, copied |-> event.file \in copies]
    <2>1. step = "extract" /\ step' = "remove" /\ recorded' = Append(recorded, r)
      BY <1>6 DEF Extract
    <2>2. recorded \in Seq(Entries) /\ event \in Packets
      BY <2>1 DEF IngestInv, RecordedInv, ReceiveInv
    <2>3. r \in Entries /\ r.from = event.from /\ Pair(r) = Pair(event)
      BY <2>2 DEF Entries, Packets, Pair
    <2> HIDE DEF r
    <2>4. /\ Append(recorded, r) \in Seq(Entries)
          /\ Len(Append(recorded, r)) = Len(recorded) + 1
          /\ \A i \in 1..Len(recorded) : Append(recorded, r)[i] = recorded[i]
          /\ Append(recorded, r)[Len(recorded) + 1] = r
      BY <2>2, <2>3, AppendProperties
    <2>5. ASSUME NEW i \in DOMAIN recorded', recorded'[i].from = s
          PROVE  Pair(recorded'[i]) \in Sent(s)
      <3>1. CASE i = Len(recorded) + 1
        <4>1. Pair(event) \in Sent(s)
          BY <2>1, <2>3, <2>4, <2>5, <3>1 DEF Sent
        <4> QED  BY <2>1, <2>3, <2>4, <3>1, <4>1
      <3>2. CASE i # Len(recorded) + 1
        <4>1. i \in DOMAIN recorded /\ recorded'[i] = recorded[i]
          BY <2>1, <2>2, <2>4, <3>2
        <4> QED  BY <2>5, <4>1 DEF Sent
      <3> QED  BY <3>1, <3>2
    <2>6. \A i \in DOMAIN channel'[s] : Pair(channel'[s][i]) \in Sent(s)
      BY <1>1 DEF Sent
    <2> QED  BY <1>1, <2>1, <2>5, <2>6 DEF Sent, Pair
  <1> QED  BY <1>2, <1>3, <1>4, <1>5, <1>6 DEF Handler
------------------------------------------------------------------------------
LEMMA SentSame ==
    ASSUME NEW s \in Senders, channel'[s] = channel[s], UNCHANGED <<event, step, recorded>>
    PROVE  Sent(s)' = Sent(s)
  BY DEF Sent, Pair

\* With nothing left to submit, what was submitted is all of less depth.
LEMMA OrderGlob ==
    ASSUME TypeInv, NEW s \in Senders, OrderOf(s), Glob(s)
    PROVE  OrderOf(s)'
  <1>1. InOrder(s) /\ found[s] = {} /\ count[s] \in Nat
    BY DEF Glob, OrderOf, TypeInv, TypeOK
  <1>2. /\ found'[s] = {f \in Serves[s] : Depth[f] = count[s]} /\ count'[s] = count[s] + 1
        /\ experiments'[s] = experiments[s] /\ channel' = channel
        /\ UNCHANGED <<event, step, recorded>>
    BY DEF Glob, TypeInv, TypeOK, receiver
  <1>3. Sent(s)' = Sent(s)
    BY <1>2, SentSame
  <1>4. \A f \in Serves[s] : f \in Files /\ Depth[f] \in Nat
    BY IngestAssumption
  <1>5. Done(s)' = Done(s)
    BY <1>1, <1>2, <1>4 DEF Done
  <1>6. \A h \in Done(s), g \in found'[s] : Depth[h] # Depth[g]
    BY <1>1, <1>2, <1>4 DEF Done
  <1>7. \A h \in Done(s), g \in found'[s] : Dir[h] # Dir[g]
    BY <1>2, <1>4, <1>6, PathsAssumption DEF Done
  <1>8. InOrder(s)'
    <2> USE DEF InOrder
    <2>1. \A g \in found'[s] : g \in Serves[s] /\ Depth[g] + 1 = count'[s]
      BY <1>2
    <2>2. experiments'[s] = {ExpDir(h) : h \in Done(s)'}
      BY <1>1, <1>2, <1>5
    <2>3. \A p \in Sent(s)' : p[1] \in Done(s)' /\ p[2] <= Cardinality(experiments'[s])
      BY <1>1, <1>2, <1>3, <1>5
    <2> QED  BY <1>5, <1>6, <1>7, <2>1, <2>2, <2>3 DEF Regular, ExpDir, PathLen
  <1>9. Agree(s)'
    BY <1>3 DEF OrderOf, Agree, IdOf, Regular
  <1> QED  BY <1>2, <1>8, <1>9 DEF OrderOf

\* A file is counted with its directory: if its experiment has been seen, it has the
\* number of the directory that its sender is in the middle of, and else a new one.
LEMMA Numbered ==
    ASSUME IngestInv, NEW s \in Senders, InOrder(s), NEW f \in found[s], Regular(f)
    PROVE  LET n == Cardinality(experiments[s] \cup {ExpDir(f)})
           IN  /\ IdOf(s, Dir[f], n)
               /\ \A p \in Sent(s) : p[2] <= n
  <1> DEFINE n == Cardinality(experiments[s] \cup {ExpDir(f)})
             k == Cardinality(experiments[s])
  <1>1. IsFiniteSet(experiments[s]) /\ k \in Nat
    BY FS_CardinalityType DEF IngestInv, SendInv
  <1>2. n = IF ExpDir(f) \in experiments[s] THEN k ELSE k + 1
    BY <1>1, FS_AddElement
  <1>3. \A p \in Sent(s) : p \in Files \X Nat /\ p[1] \in Done(s) /\ p[2] <= k
    BY SentType DEF InOrder
  <1>4. \A h \in Done(s) : h \in Serves[s] /\ h \in Files
    BY IngestAssumption DEF Done
  <1>5. f \in Serves[s] /\ f \in Files /\ Depth[f] + 1 = count[s]
    BY IngestAssumption DEF InOrder
  <1> HIDE DEF n, k
  <1>6. \A p \in Sent(s) : p[2] <= n
    BY <1>1, <1>2, <1>3
  <1>7. CASE ExpDir(f) \in experiments[s]
    <2>1. PICK h \in Done(s) : ExpDir(h) = ExpDir(f)
      BY <1>7 DEF InOrder
    <2>2. Depth[h] \in Nat /\ Depth[f] \in Nat /\ Depth[h] < count[s]
      BY <1>4, <1>5, <2>1, IngestAssumption DEF Done
    <2>3. ~(Depth[f] < Depth[h])
      BY <1>5, <2>2
    <2>4. Dir[h] = Dir[f]
      BY <1>4, <1>5, <2>1, <2>3, OtherExpDir
    <2>5. Regular(h)
      BY <1>4, <1>5, <2>4, SameExpDir
    <2>6. IdOf(s, Dir[h], k)
      BY <2>1, <2>4, <2>5 DEF InOrder, k
    <2> QED  BY <1>2, <1>6, <1>7, <2>4, <2>6 DEF n
  <1>8. CASE ExpDir(f) \notin experiments[s]
    <2>1. \A p \in Sent(s) : p[2] # n
      BY <1>1, <1>2, <1>3, <1>8
    <2>2. ASSUME NEW p \in Sent(s), Dir[p[1]] = Dir[f] PROVE FALSE
      <3>1. ExpDir(p[1]) = ExpDir(f)
        BY <1>3, <1>5, <2>2, SameExpDir
      <3>2. ExpDir(p[1]) \in experiments[s]
        BY <1>3, <2>2 DEF InOrder
      <3> QED  BY <1>8, <3>1, <3>2
    <2>3. IdOf(s, Dir[f], n)
      BY <2>1, <2>2 DEF IdOf
    <2> QED  BY <1>6, <2>3 DEF n
  <1> QED  BY <1>7, <1>8

LEMMA OrderSubmit ==
    ASSUME TypeInv, IngestInv, NEW s \in Senders, OrderOf(s), Submit(s)
    PROVE  OrderOf(s)'
  <1> DEFINE f == First(found[s])
             n == Cardinality(experiments[s] \cup {ExpDir(f)})
  <1>1. /\ f \in found[s] /\ f \in Files /\ \A g \in found[s] : f <= g
        /\ at[s] = "running" /\ UNCHANGED <<count, receiver>>
        /\ experiments' = [experiments EXCEPT ![s] = @ \cup {ExpDir(f)}]
    BY Submits
  <1>2. \/ at' = [at EXCEPT ![s] = "dead"] /\ UNCHANGED <<found, channel>>
        \/ /\ found' = [found EXCEPT ![s] = @ \ {f}] /\ UNCHANGED at
           /\ \E full \in BOOLEAN : channel' = [channel EXCEPT ![s] = Append(@,
                  [from |-> s, file |-> f, exp_id |-> ExpId(s, f), full |-> full])]
    BY Submits
  <1>3. InOrder(s) /\ n = ExpId(s, f)
    BY <1>1 DEF OrderOf, ExpId
  <1> HIDE DEF f, n
  <1>4. CASE at' = [at EXCEPT ![s] = "dead"] /\ UNCHANGED <<found, channel>>
    <2>1. at'[s] = "dead"
      BY <1>4 DEF TypeInv, TypeOK
    <2>2. Sent(s)' = Sent(s)
      BY <1>1, <1>4, SentSame DEF receiver
    <2> QED  BY <1>4, <2>1, <2>2 DEF OrderOf, Agree, IdOf, Regular
  <1>5. ASSUME NEW full \in BOOLEAN, found' = [found EXCEPT ![s] = @ \ {f}], UNCHANGED at,
               channel' = [channel EXCEPT ![s] = Append(@,
                   [from |-> s, file |-> f, exp_id |-> ExpId(s, f), full |-> full])]
        PROVE  OrderOf(s)'
    <2> DEFINE r == [from |-> s, file |-> f, exp_id |-> ExpId(s, f), full |-> full]
    <2>1. /\ found'[s] = found[s] \ {f} /\ count'[s] = count[s]
          /\ experiments'[s] = experiments[s] \cup {ExpDir(f)}
      BY <1>1, <1>5 DEF TypeInv, TypeOK
    <2>2. r.from = s /\ Pair(r) = <<f, n>> /\ channel'[s] = Append(channel[s], r)
      BY <1>3, <1>5 DEF Pair, TypeInv
    <2> HIDE DEF r
    <2>3. /\ DOMAIN channel'[s] = 1..(Len(channel[s]) + 1) /\ Len(channel[s]) \in Nat
          /\ \A i \in 1..Len(channel[s]) : channel'[s][i] = channel[s][i]
          /\ channel'[s][Len(channel[s]) + 1] = r
          /\ DOMAIN channel[s] = 1..Len(channel[s])
      BY <2>2 DEF TypeInv
    <2>4. /\ \A i \in DOMAIN channel'[s] : \/ i \in DOMAIN channel[s] /\ channel'[s][i] = channel[s][i]
                                           \/ channel'[s][i] = r
      BY <2>3
    <2>5. Sent(s)' = Sent(s) \cup {<<f, n>>}
      <3>1. UNCHANGED <<event, step, recorded>>
        BY <1>1 DEF receiver
      <3>2. {Pair(channel'[s][i]) : i \in DOMAIN channel'[s]} =
               {Pair(channel[s][i]) : i \in DOMAIN channel[s]} \cup {<<f, n>>}
        <4>1. \A i \in DOMAIN channel[s] : i \in DOMAIN channel'[s] /\ channel'[s][i] = channel[s][i]
          BY <2>3
        <4>2. Len(channel[s]) + 1 \in DOMAIN channel'[s]
          BY <2>3
        <4> QED  BY <2>2, <2>3, <2>4, <4>1, <4>2
      <3> QED  BY <3>1, <3>2 DEF Sent, Pair
    <2>6. f \in Serves[s] /\ Depth[f] + 1 = count[s] /\ Depth[f] \in Nat
      BY <1>1, <1>3, IngestAssumption DEF InOrder
    <2>7. Done(s)' = Done(s) \cup {f}
      BY <1>1, <2>1, <2>6 DEF Done
    <2>8. /\ \A p \in Sent(s) : p \in Files \X Nat /\ p[1] \in Done(s) /\ p[2] <= n
          /\ n \in Nat /\ n = Cardinality(experiments'[s])
      <3>1. IsFiniteSet(experiments[s])
        BY DEF IngestInv, SendInv
      <3>2. /\ IsFiniteSet(experiments[s] \cup {ExpDir(f)}) /\ Cardinality(experiments[s]) \in Nat
            /\ n = Cardinality(experiments[s]) \/ n = Cardinality(experiments[s]) + 1
        BY <3>1, FS_AddElement, FS_CardinalityType DEF n
      <3>3. \A p \in Sent(s) : p[1] \in Done(s) /\ p[2] <= Cardinality(experiments[s])
        BY <1>3 DEF InOrder
      <3> QED  BY <2>1, <3>2, <3>3, SentType DEF n
    <2>9. Regular(f) => IdOf(s, Dir[f], n)
      BY <1>1, <1>3, Numbered DEF n
    <2> DEFINE IdAfter(d, m) ==
                 \A p \in Sent(s)' : Regular(p[1]) => (p[2] = m <=> Dir[p[1]] = d)
    <2>10. Regular(f) => IdAfter(Dir[f], n)
      <3>1. <<f, n>>[1] = f /\ <<f, n>>[2] = n
        OBVIOUS
      <3> QED  BY <2>5, <2>9, <3>1 DEF IdOf
    <2>11. Agree(s)'
      <3> SUFFICES ASSUME NEW p \in Sent(s)', Regular(p[1]) PROVE IdAfter(Dir[p[1]], p[2])
        BY DEF Agree, IdOf, Regular
      <3>1. CASE p = <<f, n>>
        <4>1. p[1] = f /\ p[2] = n
          BY <3>1
        <4> HIDE DEF IdAfter
        <4> QED  BY <2>10, <4>1
      <3>2. CASE p \in Sent(s)
        <4>1. IdOf(s, Dir[p[1]], p[2])
          BY <3>2 DEF OrderOf, Agree
        <4>2. Regular(f) => (n = p[2] <=> Dir[f] = Dir[p[1]])
          BY <2>9, <3>2 DEF IdOf
        <4>3. <<f, n>>[1] = f /\ <<f, n>>[2] = n
          OBVIOUS
        <4> QED  BY <2>5, <4>1, <4>2, <4>3 DEF IdOf
      <3> QED  BY <2>5, <3>1, <3>2
    <2>12. ASSUME NEW h \in Done(s)', NEW g \in found'[s], Regular(h), Dir[h] = Dir[g]
           PROVE  Regular(f) /\ Dir[h] = Dir[f]
      <3>1. CASE h = f
        BY <2>12, <3>1
      <3>2. CASE h # f
        <4>1. h \in Done(s) /\ g \in found[s] /\ g # f /\ f <= g
          BY <1>1, <2>1, <2>7, <2>12, <3>2
        <4>2. /\ g \in Serves[s] /\ h \in Serves[s] /\ g \in Files /\ h \in Files
              /\ g \in Nat /\ f \in Nat /\ h \in Nat
          BY <1>1, <1>3, <4>1, IngestAssumption DEF InOrder, Done
        <4>3. Depth[h] = Depth[g] /\ Depth[g] \in Nat /\ Depth[g] + 1 = count[s]
          BY <1>3, <2>12, <4>1, <4>2, PathsAssumption, IngestAssumption DEF InOrder
        <4>4. Depth[h] = Depth[f]
          BY <2>6, <4>3
        <4>5. h < f
          BY <1>1, <1>3, <4>1, <4>4 DEF InOrder
        <4>6. f < g
          BY <4>1, <4>2
        <4>7. Dir[h] = Dir[f]
          BY <2>6, <2>12, <4>2, <4>4, <4>5, <4>6, PathsAssumption
        <4>8. Regular(f)
          BY <1>1, <2>12, <4>2, <4>7, SameExpDir
        <4> QED  BY <4>7, <4>8
      <3> QED  BY <3>1, <3>2
    <2>13. InOrder(s)'
      <3> USE DEF InOrder
      <3>1. \A g \in found'[s] : g \in Serves[s] /\ Depth[g] + 1 = count'[s]
        BY <1>3, <2>1
      <3>2. \A h \in Done(s)', g \in found'[s] : Depth[h] = Depth[g] => h < g
        <4> SUFFICES ASSUME NEW h \in Done(s)', NEW g \in found'[s], Depth[h] = Depth[g]
                     PROVE  h < g
          OBVIOUS
        <4>1. CASE h = f
          <5>1. f <= g /\ g # f /\ g \in Serves[s]
            BY <1>1, <1>3, <2>1
          <5>2. g \in Nat /\ f \in Nat
            BY <1>1, <5>1, IngestAssumption
          <5> QED  BY <4>1, <5>1, <5>2
        <4>2. CASE h \in Done(s)
          BY <1>3, <2>1, <4>2
        <4> QED  BY <2>7, <4>1, <4>2
      <3>3. experiments'[s] = {ExpDir(h) : h \in Done(s)'}
        BY <1>3, <2>1, <2>7
      <3>4. \A p \in Sent(s)' : p[1] \in Done(s)' /\ p[2] <= Cardinality(experiments'[s])
        <4>1. <<f, n>>[1] = f /\ <<f, n>>[2] = n /\ n <= n
          BY <2>8
        <4> QED  BY <2>5, <2>7, <2>8, <4>1
      <3>5. \A h \in Done(s)', g \in found'[s] :
               Regular(h) /\ Dir[h] = Dir[g] => IdOf(s, Dir[h], Cardinality(experiments[s]))'
        <4>1. \A h \in Done(s)', g \in found'[s] :
                 Regular(h) /\ Dir[h] = Dir[g] => IdAfter(Dir[h], n)
          <5> HIDE DEF IdAfter
          <5> QED  BY <2>10, <2>12
        <4>2. n = Cardinality(experiments'[s])
          BY <2>8
        <4> QED  BY <4>1, <4>2 DEF IdOf, Regular
      <3> QED  BY <3>1, <3>2, <3>3, <3>4, <3>5 DEF Regular, ExpDir, PathLen
    <2>14. \A i \in DOMAIN channel'[s] : channel'[s][i].from = s
      BY <2>2, <2>4 DEF OrderOf
    <2> QED  BY <2>11, <2>13, <2>14 DEF OrderOf
  <1> QED  BY <1>2, <1>4, <1>5

LEMMA OrderInit == Init => OrderInv
  <1> SUFFICES ASSUME Init, NEW s \in Senders PROVE OrderOf(s)
    BY DEF OrderInv
  <1>1. channel[s] = <<>> /\ found[s] = {} /\ experiments[s] = {} /\ count[s] = 0
    BY DEF Init
  <1>2. recorded = <<>> /\ step = "idle"
    BY DEF Init
  <1>3. Sent(s) = {}
    BY <1>1, <1>2 DEF Sent
  <1>4. \A f \in Serves[s] : ~(Depth[f] < 0)
    BY IngestAssumption
  <1>5. Done(s) = {}
    BY <1>1, <1>4 DEF Done
  <1> QED  BY <1>1, <1>3, <1>5 DEF OrderOf, InOrder, Agree

LEMMA OrderNext ==
    ASSUME TypeInv, IngestInv, OrderInv, [Next]_vars
    PROVE  OrderInv'
  <1> SUFFICES ASSUME NEW s \in Senders PROVE OrderOf(s)'
    BY DEF OrderInv
  <1>1. OrderOf(s)
    BY DEF OrderInv
  <1>2. CASE UNCHANGED vars
    <2>1. Sent(s)' = Sent(s)
      BY <1>2, SentSame DEF vars
    <2> QED  BY <1>1, <1>2, <2>1, OrderKept DEF vars, OrderOf
  <1>3. ASSUME NEW q \in Senders, Sender(q), q # s PROVE OrderOf(s)'
    <2>1. /\ found'[s] = found[s] /\ count'[s] = count[s] /\ experiments'[s] = experiments[s]
          /\ at'[s] = at[s] /\ channel'[s] = channel[s] /\ UNCHANGED receiver
      <3>1. CASE Glob(q)
        BY <1>3, <3>1 DEF Glob, TypeInv, TypeOK
      <3>2. CASE Finish(q)
        BY <1>3, <3>2 DEF Finish, TypeInv, TypeOK
      <3>3. CASE Submit(q)
        <4>1. UNCHANGED <<count, receiver>> /\ \E E : experiments' = [experiments EXCEPT ![q] = E]
          BY <3>3, Submits
        <4>2. \/ at' = [at EXCEPT ![q] = "dead"] /\ UNCHANGED <<found, channel>>
              \/ /\ \E F : found' = [found EXCEPT ![q] = F]
                 /\ at' = at
                 /\ \E C : channel' = [channel EXCEPT ![q] = C]
          BY <3>3, Submits
        <4> QED  BY <1>3, <4>1, <4>2 DEF TypeInv, TypeOK
      <3> QED  BY <1>3, <3>1, <3>2, <3>3 DEF Sender
    <2>2. Sent(s)' = Sent(s)
      BY <2>1, SentSame DEF receiver
    <2> QED  BY <1>1, <2>1, <2>2, OrderKept DEF OrderOf
  <1>4. CASE Finish(s)
    <2>1. /\ found' = found /\ count' = count /\ experiments' = experiments
          /\ channel' = channel /\ UNCHANGED receiver /\ at[s] # "dead"
      BY <1>4 DEF Finish
    <2>2. Sent(s)' = Sent(s) /\ Done(s)' = Done(s)
      BY <2>1, SentSame DEF receiver, Done
    <2> QED  BY <1>1, <2>1, <2>2 DEF OrderOf, InOrder, Agree, IdOf, Regular, ExpDir, PathLen
  <1>5. CASE Sender(s)
    BY <1>1, <1>4, <1>5, OrderGlob, OrderSubmit DEF Sender
  <1>6. ASSUME NEW q \in Senders, Accept(q) PROVE OrderOf(s)'
    <2>1. Sent(s)' \subseteq Sent(s) /\ \A i \in DOMAIN channel'[s] : channel'[s][i].from = s
      BY <1>6, SentOnce
    <2>2. UNCHANGED sender
      BY <1>6 DEF Accept
    <2> QED  BY <1>1, <2>1, <2>2, OrderKept DEF sender
  <1>7. CASE Handler \/ Down
    <2>1. Sent(s)' \subseteq Sent(s) /\ \A i \in DOMAIN channel'[s] : channel'[s][i].from = s
      BY <1>7, SentHandled
    <2>2. UNCHANGED sender
      BY <1>7 DEF Handler, TooShort, MakeDirs, WriteCopy, Extract, RemoveCopy, Down
    <2> QED  BY <1>1, <2>1, <2>2, OrderKept DEF sender
  <1> QED  BY <1>2, <1>3, <1>5, <1>6, <1>7 DEF Next

LEMMA OrderedIds == IngestInv /\ OrderInv => ExperimentIds
  <1> SUFFICES ASSUME IngestInv, OrderInv, NEW i \in DOMAIN recorded, NEW j \in DOMAIN recorded,
                      recorded[i].from = recorded[j].from,
                      Regular(recorded[i].file), Regular(recorded[j].file)
               PROVE  recorded[i].exp_id = recorded[j].exp_id
                          <=> Dir[recorded[i].file] = Dir[recorded[j].file]
    BY DEF ExperimentIds
  <1> DEFINE s == recorded[i].from
             p == Pair(recorded[i])
             q == Pair(recorded[j])
  <1>1. s \in Senders
    <2>1. recorded \in Seq(Entries)
      BY DEF IngestInv, RecordedInv
    <2>2. recorded[i] \in Entries
      BY <2>1
    <2> QED  BY <2>2 DEF Entries
  <1>2. p \in Sent(s) /\ q \in Sent(s)
    BY DEF Sent
  <1>3. /\ p[1] = recorded[i].file /\ p[2] = recorded[i].exp_id
        /\ q[1] = recorded[j].file /\ q[2] = recorded[j].exp_id
    BY DEF Pair
  <1> HIDE DEF s, p, q
  <1>4. IdOf(s, Dir[p[1]], p[2])
    BY <1>1, <1>2, <1>3 DEF OrderInv, OrderOf, Agree
  <1>5. q[2] = p[2] <=> Dir[q[1]] = Dir[p[1]]
    BY <1>2, <1>3, <1>4 DEF IdOf
  <1> QED  BY <1>3, <1>5
------------------------------------------------------------------------------
\* Whatever arrives in whatever order, every record is extracted from a copy unless its
\* name or path is too short for file_receive's constants (sink.cpp).
THEOREM IngestCopySeen == Spec => []CopySeen
  <1>1. IngestInv => CopySeen
    BY DEF IngestInv, RecordedInv
  <1> QED  BY <1>1, InitInv, NextInv, PTL DEF Spec

\* However many records arrive, /dev/shm holds no copy between two of them.
THEOREM IngestNoCopyLeft == Spec => []NoCopyLeft
  <1>1. IngestInv => NoCopyLeft
    BY DEF IngestInv, ReceiveInv, NoCopyLeft
  <1> QED  BY <1>1, InitInv, NextInv, PTL DEF Spec

\* Every number that net_send gives and net_recv records is one of as many experiments as
\* there are files, and no copy is ever written where _mkdir has made a directory.
THEOREM IngestTypeOK == Spec => []TypeOK
  <1>1. TypeInv => TypeOK
    BY DEF TypeInv
  <1> QED  BY <1>1, TypeInit, TypeNext, PTL DEF Spec

\* However senders and receiver interleave and wherever a sender dies, net_send's number
\* (experiments.size(), source.cpp) is one per directory of regular names.
THEOREM IngestExperimentIds == Spec => []ExperimentIds
  <1>1. Init => TypeInv /\ IngestInv /\ OrderInv
    BY TypeInit, InitInv, OrderInit
  <1>2. TypeInv /\ IngestInv /\ OrderInv /\ [Next]_vars => (TypeInv /\ IngestInv /\ OrderInv)'
    BY TypeNext, NextInv, OrderNext
  <1>3. TypeInv /\ IngestInv /\ OrderInv => ExperimentIds
    BY OrderedIds
  <1> QED  BY <1>1, <1>2, <1>3, PTL DEF Spec
=============================================================================
