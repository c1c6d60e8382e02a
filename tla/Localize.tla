------------------------------ MODULE Localize -------------------------------
(***************************************************************************)
(* Directories made and removed by clients: mkdir of a name with           *)
(* "localize" in it moves one file, or every file by its usage, to another *)
(* server; mkdir and rmdir of any other name keep the list alldirs         *)
(* (xmp_mkdir and xmp_rmdir of fuseapi.cpp, localizations.cpp).            *)
(*                                                                         *)
(* What clients did before, creating files and giving them attributes      *)
(* (KhanFiles), is a sequence of calls of database_setval.  Texts are      *)
(* those of KhanIndex; a disk is a set of names below the directories that *)
(* stores.txt lists as servers.                                            *)
(***************************************************************************)
EXTENDS KhanPaths

Seqs == INSTANCE SequencesExt

CONSTANTS
    Servers,     \* servers and server_ids, from stores.txt
    ServerIds,
    Winter,      \* the file that "localize" alone is about, winter.mp3
    Files,       \* the names of files
    Histories,   \* the calls of setval made so far, each <<id, col, val>>
    Under(_, _), \* Under(s, n): the path of the file n in s, a token
    Num,         \* Num[t]: what atoi makes of t
    Ids,         \* the ids that are left, in the order they are handed out
    Dirs,        \* the other directories clients name
    MaxOps       \* bound: operations

\* The hash alldirs is written by mkdir and rmdir only: a file's id is a number,
\* and no attribute script gives an attribute of that name.
ASSUME LocalizeAssumption ==
    /\ Servers \in Seq(Tokens) /\ Servers # <<>>
    /\ ServerIds \in [DOMAIN Servers -> Tokens]
    /\ Winter \in Files /\ Files \subseteq Tokens
    /\ \A h \in Histories : h \in Seq(Text \X Text \X Text)
    /\ \A h \in Histories : \A i \in DOMAIN h : <<"alldirs">> \notin {h[i][1], h[i][2]}
    /\ \A i \in DOMAIN Servers, f \in Files : Under(Servers[i], <<f>>) \in Tokens
    /\ Num \in [Tokens -> Int]
    /\ Ids \in Seq(Tokens) /\ Dirs \subseteq Tokens \ {Empty}
    /\ MaxOps \in Nat

VARIABLES
    disk,   \* the files there are: [dir |-> a text, name |-> a text]
    next,   \* the place in Ids of the next id
    made,   \* history: how often each directory is listed
    crashed,\* khan_getattr has written through the pointer of xmp_mkdir
    ops

vars == <<db, disk, next, made, crashed, ops>>
------------------------------------------------------------------------------
(* get_all_files: the keys of the attribute, in any order. *)
GetAllFiles ==
    {[i \in DOMAIN q |-> Lookup(<<"name">>, <<q[i]>>)] :
        q \in Seqs!SetToSeqs(KeysOf(<<"all_mp3s">>) \ {Empty})}

\* atoi reads the first of the numbers that are listed.
Usage(d, fileid, j) == Num[GetVal(At(d, fileid, <<ServerIds[j]>>))[1]]

\* A variant that lets a later server win a tie.
LastMax(d, fileid) ==
    LET m[j \in 0..Len(Servers)] ==
            IF j = 0 THEN [usage |-> 0, server |-> 1]
            ELSE IF Usage(d, fileid, j) >= m[j - 1].usage
            THEN [usage |-> Usage(d, fileid, j), server |-> j] ELSE m[j - 1]
    IN  m[Len(Servers)].server

\* max_server, after the loop over the servers.
MaxServer(d, fileid) ==
    LET m[j \in 0..Len(Servers)] ==
            IF j = 0 THEN [usage |-> 0, server |-> 1]
            ELSE IF Usage(d, fileid, j) > m[j - 1].usage
            THEN [usage |-> Usage(d, fileid, j), server |-> j] ELSE m[j - 1]
    IN  m[Len(Servers)].server

\* A variant that leaves the file there as well.
Copied(dk, from, to, name) ==
    IF [dir |-> from, name |-> name] \in dk
    THEN dk \cup {[dir |-> to, name |-> name]} ELSE dk

\* The command mv; a directory that is no server has no files in it.
Moved(dk, from, to, name) ==
    IF [dir |-> from, name |-> name] \in dk
    THEN (dk \ {[dir |-> from, name |-> name]}) \cup {[dir |-> to, name |-> name]}
    ELSE dk

\* A variant that gives every file an entity of its own.
NewServer(st, fileid, s) ==
    [st EXCEPT !.db = Set(@, <<Ids[st.next]>>, <<"server">>, s), !.next = @ + 1]

\* database_setval of the server; for the id "null" it makes an entity.
SetServer(st, fileid, s) ==
    IF fileid = <<Null>>
    THEN [st EXCEPT !.db = Set(@, <<Ids[st.next]>>, <<"server">>, s), !.next = @ + 1]
    ELSE [st EXCEPT !.db = Set(@, fileid, <<"server">>, s)]

\* One turn of usage_localize.  The command runs before the server is stored.
Localized(st, fileid) ==
    LET best == Servers[MaxServer(st.db, fileid)]
        filename == GetVal(At(st.db, fileid, <<"name">>))
        current == GetVal(At(st.db, fileid, <<"server">>))
    IN  IF current = <<best>> THEN st
        ELSE SetServer([st EXCEPT !.disk = Moved(@, current, <<best>>, filename)],
                       fileid, <<Under(best, filename)>>)

LocalizedAll(files) ==
    LET l[i \in 0..Len(files)] ==
            IF i = 0 THEN [db |-> db, disk |-> disk, next |-> next]
            ELSE Localized(l[i - 1], files[i])
    IN  l[Len(files)]
------------------------------------------------------------------------------
\* The index after a history of calls.
Done(h) ==
    LET done[i \in 0..Len(h)] ==
            IF i = 0 THEN << >> ELSE Set(done[i - 1], h[i][1], h[i][2], h[i][3])
    IN  done[Len(h)]

\* What names lead to: ids, and "null" for a name that is nobody's.
IdOf(d, f) == GetVal(At(d, <<"name">>, <<f>>))
Named(d) == {<<Null>>} \cup {GetVal(d[k]) : k \in {x \in DOMAIN d : x[1] = <<"name">>}}

\* The file f is known: it has one entity, which was made on the first server.
Known(d, f) ==
    /\ GetVal(At(d, IdOf(d, f), <<"name">>)) = <<f>>
    /\ At(d, IdOf(d, f), <<"server">>) = <<Servers[1]>>
    /\ \A i \in DOMAIN Ids : IdOf(d, f) # <<Ids[i]>>

\* A file has at most one entity; no entity's id is a word of khan's own or is
\* handed out again, and what the servers counted is no negative number.
ASSUME HistoriesAssumption ==
    /\ Servers[1] # Empty
    /\ \A j \in DOMAIN Servers : ServerIds[j] # "server"
    /\ \A i \in DOMAIN Ids : Ids[i] \notin {Null, "name"}
    /\ \A h \in Histories : LET d == Done(h) IN
          /\ Named(d) \cap {<<"name">>, <<"server">>, <<"paths">>, <<"alldirs">>} = {}
          /\ At(d, <<Null>>, <<"server">>) = <<>>
          /\ \A e \in Named(d), j \in DOMAIN Servers : Usage(d, e, j) \in Nat
          /\ \A f \in Files :
                /\ IdOf(d, f) = <<Null>> \/ Known(d, f)
                /\ \A e \in Named(d) :
                      GetVal(At(d, e, <<"name">>)) = <<f>> => e = IdOf(d, f)

Init ==
    /\ \E h \in Histories : db = Done(h)
    /\ disk = {[dir |-> <<Servers[1]>>, name |-> <<f>>] : f \in Files}
    /\ next = 1
    /\ made = [d \in Dirs |-> 0]
    /\ crashed = FALSE
    /\ ops = 0

\* Bounded, with ids left for whatever the operation makes.
Begin ==
    /\ ~crashed /\ ops < MaxOps /\ ops' = ops + 1
    /\ next <= Len(Ids)
    /\ next + Cardinality(KeysOf(<<"all_mp3s">>)) <= Len(Ids) + 1

\* mkdir of a name with "localize" and "usage" in it.
MkdirUsage ==
    /\ Begin
    /\ \E files \in GetAllFiles :
        LET l == LocalizedAll(files)
        IN  db' = l.db /\ disk' = l.disk /\ next' = l.next
    /\ UNCHANGED <<made, crashed>>

\* mkdir of a name with "localize" in it: get_location is random_location.  The
\* server is stored before the command runs.
MkdirLocalize ==
    /\ Begin
    /\ \E j \in DOMAIN Servers :
        LET fileid == Lookup(<<"name">>, <<Winter>>)
            server == Lookup(fileid, <<"server">>)
            l == SetServer([db |-> db, disk |-> Moved(disk, server, <<Servers[j]>>, <<Winter>>),
                            next |-> next], fileid, <<Servers[j]>>)
        IN  IF server = <<Servers[j]>> THEN UNCHANGED <<db, disk, next>>
            ELSE db' = l.db /\ disk' = l.disk /\ next' = l.next
    /\ UNCHANGED <<made, crashed>>

\* mkdir of any other name (the statistics have no state here).  A path that is
\* there makes khan_getattr write through a pointer that was never set.
Mkdir(d) ==
    /\ Begin
    /\ IF Getattr(<<d>>) = "none"
       THEN /\ db' = Set(db, <<"alldirs">>, <<"paths">>, <<d>>)
            /\ made' = [made EXCEPT ![d] = @ + 1]
            /\ UNCHANGED crashed
       ELSE crashed' \in BOOLEAN /\ UNCHANGED <<db, made>>
    /\ UNCHANGED <<disk, next>>

\* A variant that takes the whole field away.
RmdirAll(d) ==
    /\ Begin
    /\ db' = Drop(db, <<"alldirs">>, <<"paths">>)
    /\ made' = [made EXCEPT ![d] = IF @ > 0 THEN @ - 1 ELSE 0]
    /\ UNCHANGED <<disk, next, crashed>>

Rmdir(d) ==
    /\ Begin
    /\ db' = Remove(db, <<"alldirs">>, <<"paths">>, <<d>>)
    /\ made' = [made EXCEPT ![d] = IF @ > 0 THEN @ - 1 ELSE 0]
    /\ UNCHANGED <<disk, next, crashed>>

Next ==
    \/ MkdirUsage \/ MkdirLocalize
    \/ \E d \in Dirs : Mkdir(d) \/ Rmdir(d)

Spec == Init /\ [][Next]_vars
------------------------------------------------------------------------------
ServerText(f) == Lookup(Lookup(<<"name">>, <<f>>), <<"server">>)
PlacesOf(f) == {e.dir : e \in {x \in disk : x.name = <<f>>}}

(***************************************************************************)
(* Nothing is lost or doubled by localizing: every file is on exactly one  *)
(* server.  That is the server its text names as long as it names one, and *)
(* the second one it names ever after: the text only grows ("old:new"), so *)
(* the first localization moves the data and no later one finds it.        *)
(***************************************************************************)
DataFollowsServer ==
    \A f \in Files :
        LET s == ServerText(f)
            at == IF Len(s) = 1 THEN s[1] ELSE s[2]
        IN  /\ Cardinality(PlacesOf(f)) = 1
            /\ s # <<Null>> => \E j \in DOMAIN Servers :
                  /\ PlacesOf(f) = {<<Servers[j]>>}
                  /\ at \in {Servers[j], Under(Servers[j], <<f>>)}

(***************************************************************************)
(* usage_localize sends the files it moves where they are used most: data  *)
(* that changes its place in a call with "usage" goes to a server with the *)
(* highest count first stored for it, the first of those if several have   *)
(* it, and the first of all if none is used.                               *)
(***************************************************************************)
GoesWhereUsed ==
    [][\A f \in Files :
        MkdirUsage /\ PlacesOf(f)' # PlacesOf(f) =>
            LET u == [j \in DOMAIN Servers |-> Usage(db, Lookup(<<"name">>, <<f>>), j)]
                best == {j \in DOMAIN Servers : \A i \in DOMAIN Servers : u[i] <= u[j]}
            IN  PlacesOf(f)' = {<<Servers[Min(best)]>>}]_vars

(***************************************************************************)
(* Localizing makes no entities but where it is asked for a file that is   *)
(* not in the index: winter.mp3, a name in all_mp3s that is nobody's, or   *)
(* "null", which an attribute without values is listed as.                 *)
(***************************************************************************)
EntitiesMade ==
    [][next' # next =>
        \/ Lookup(<<"name">>, <<Winter>>) = <<Null>>
        \/ \E n \in KeysOf(<<"all_mp3s">>) : Lookup(<<"name">>, <<n>>) = <<Null>>]_vars

(***************************************************************************)
(* A directory is listed in alldirs once for every mkdir that no rmdir has *)
(* answered: made directories stay unknown to khan_getattr, so making one  *)
(* again lists it again, and removing it takes one entry away.             *)
(***************************************************************************)
DirsListed ==
    \A d \in Dirs : Occ(At(db, <<"alldirs">>, <<"paths">>), d) = made[d]
==============================================================================
