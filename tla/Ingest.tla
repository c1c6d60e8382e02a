------------------------------- MODULE Ingest --------------------------------
(***************************************************************************)
(* The way of a file from net_send (source.cpp) to net_recv (sink.cpp):    *)
(* each sender globs its server one depth after the other, gives every     *)
(* file the number of experiments seen so far and submits it; EVPath       *)
(* (external) hands the records of one sender over in order, and the one   *)
(* communication thread of net_recv copies each to /dev/shm, extracts its  *)
(* attributes and removes the copy.                                        *)
(*                                                                         *)
(* Both programs cut paths by constants: 24 for the server's name, 10 for  *)
(* the file's.  A path is therefore its two lengths, not its characters.   *)
(***************************************************************************)
EXTENDS Naturals, Sequences, FiniteSets

CONSTANTS
    Senders,       \* processes of net_send, each of which runs once
    Files,         \* the .im7 files, numbered as glob sorts them
    Serves,        \* Serves[s]: the files below the first server of s
    Depth,         \* Depth[f]: directories between the server and f, from 0 on
    Dir,           \* Dir[f]: the directory f lies in
    Above,         \* Above[d]: the directories on the way to d
    DirLen,        \* DirLen[f]: the length of f's path up to the last '/'
    NameLen,       \* NameLen[f]: the length of the rest
    Full,          \* the files that are not empty
    Shared(_, _),  \* Shared(f, g): how many characters the paths begin with alike
    Patterns       \* how many depths are globbed (18)

ASSUME IngestAssumption ==
    /\ Files \subseteq Nat /\ IsFiniteSet(Files)
    /\ Depth \in [Files -> Nat]
    /\ DirLen \in [Files -> Nat] /\ NameLen \in [Files -> Nat]
    /\ \A f \in Files : Dir[f] \notin Above[Dir[f]]
    /\ Serves \in [Senders -> SUBSET Files]
    /\ Full \subseteq Files
    /\ Patterns \in Nat

\* The lengths and directories are those of paths: two paths are alike up to where they
\* part, and a path that begins like another one up to its directory's '/' lies below
\* that directory.  Of one depth, glob finds the files of a directory next to each other.
ASSUME PathsAssumption ==
    /\ \A f, g \in Files :
          /\ Shared(f, g) \in Nat /\ Shared(f, g) = Shared(g, f)
          /\ Dir[f] = Dir[g] => /\ Depth[f] = Depth[g] /\ DirLen[f] = DirLen[g]
                               /\ Shared(f, g) >= DirLen[f]
    /\ \A f, g, h \in Files :
          Shared(f, h) >= Shared(f, g) \/ Shared(f, h) >= Shared(g, h)
    /\ \A s \in Senders : \A f, g \in Serves[s] :
          Shared(f, g) >= DirLen[f] /\ Dir[f] # Dir[g] => Depth[f] < Depth[g]
    /\ \A s \in Senders : \A f, g, h \in Serves[s] :
          Dir[f] = Dir[h] /\ Depth[f] = Depth[g] /\ f < g /\ g < h => Dir[f] = Dir[g]

VARIABLES
    at,         \* per sender: "running", "done", or "dead"
    count,      \* per sender: patterns globbed
    found,      \* per sender: the files found that are still to be submitted
    experiments,\* per sender: the exp_dirs seen
    size,       \* per sender: whether statbuf says that there is something
    channel,    \* per sender: the records on their way
    step,       \* the communication thread: "idle", "mkdir", "copy", "extract",
                \* "remove", or "down"
    event,      \* the record it works on
    dirs,       \* the directories in /dev/shm
    blocked,    \* the files whose own path in /dev/shm has become a directory
    copies,     \* the copies in /dev/shm
    recorded    \* history: the records whose attributes were extracted, in order, and
                \* whether the script found a copy

sender == <<at, count, found, experiments, size>>
receiver == <<step, event, dirs, blocked, copies, recorded>>
vars == <<at, count, found, experiments, size, channel, step, event, dirs, blocked, copies, recorded>>

PathLen(f) == DirLen[f] + NameLen[f]
NoEvent == [from |-> "nobody"]
------------------------------------------------------------------------------
\* statbuf is not initialised: it may say anything.
Init ==
    /\ at = [s \in Senders |-> "running"]
    /\ count = [s \in Senders |-> 0]
    /\ found = [s \in Senders |-> {}]
    /\ experiments = [s \in Senders |-> {}]
    /\ size \in [Senders -> BOOLEAN]
    /\ channel = [s \in Senders |-> <<>>]
    /\ step = "idle" /\ event = NoEvent
    /\ dirs = {} /\ blocked = {} /\ copies = {} /\ recorded = <<>>
------------------------------------------------------------------------------
(* net_send *)

\* glob sorts what it finds.
First(fs) == CHOOSE f \in fs : \A g \in fs : f <= g

\* One turn of the outer loop; the pattern has one more "/*" every time.
Glob(s) ==
    /\ at[s] = "running" /\ found[s] = {} /\ count[s] < Patterns
    /\ found' = [found EXCEPT ![s] = {f \in Serves[s] : Depth[f] = count[s]}]
    /\ count' = [count EXCEPT ![s] = @ + 1]
    /\ UNCHANGED <<at, experiments, size, channel, receiver>>

\* The path without its last ten characters, as the length of what is left and the
\* files whose paths begin with it.  The length of what is left of a shorter path
\* wraps around: it stays as it is.
ExpDir(f) ==
    LET n == IF PathLen(f) < 10 THEN PathLen(f) ELSE PathLen(f) - 10
    IN  [length |-> n, files |-> {g \in Files : Shared(f, g) >= n}]

\* A variant that counts before it inserts.
ExpIdBefore(s, f) == Cardinality(experiments[s])

ExpId(s, f) == Cardinality(experiments[s] \cup {ExpDir(f)})

\* One turn of the loop over the files found.  If the file cannot be opened (it
\* may be gone since the glob), fstat leaves statbuf as it was and mmap fails like
\* for an empty file; submitting some bytes at the address -1 is the end.
Submit(s) ==
    /\ at[s] = "running" /\ found[s] # {}
    /\ \E opened \in BOOLEAN :
        LET f == First(found[s])
            full == IF opened THEN f \in Full ELSE size[s]
        IN  /\ size' = [size EXCEPT ![s] = full]
            /\ experiments' = [experiments EXCEPT ![s] = @ \cup {ExpDir(f)}]
            /\ IF full /\ ~opened
               THEN at' = [at EXCEPT ![s] = "dead"] /\ UNCHANGED <<found, channel>>
               ELSE /\ found' = [found EXCEPT ![s] = @ \ {f}]
                    /\ channel' = [channel EXCEPT ![s] = Append(@,
                           [from |-> s, file |-> f, exp_id |-> ExpId(s, f), full |-> full])]
                    /\ UNCHANGED at
    /\ UNCHANGED <<count, receiver>>

\* After the last pattern the stone is drained.
Finish(s) ==
    /\ at[s] = "running" /\ found[s] = {} /\ count[s] = Patterns
    /\ at' = [at EXCEPT ![s] = "done"]
    /\ UNCHANGED <<count, found, experiments, size, channel, receiver>>
------------------------------------------------------------------------------
(* net_recv *)

\* simple_handler
Accept(s) ==
    /\ step = "idle" /\ channel[s] # <<>>
    /\ event' = Head(channel[s])
    /\ channel' = [channel EXCEPT ![s] = Tail(@)]
    /\ step' = "mkdir"
    /\ UNCHANGED <<sender, dirs, blocked, copies, recorded>>

\* substr throws on a path that is shorter than the server's name should be.
TooShort ==
    /\ step = "mkdir" /\ PathLen(event.file) < 24
    /\ step' = "down"
    /\ UNCHANGED <<sender, channel, event, dirs, blocked, copies, recorded>>

\* A variant without the last mkdir.
MakeDirsAbove ==
    /\ step = "mkdir" /\ PathLen(event.file) >= 24
    /\ dirs' = dirs \cup Above[Dir[event.file]]
    /\ step' = "copy"
    /\ UNCHANGED <<sender, channel, event, blocked, copies, recorded>>

\* _mkdir makes every directory on the way to a '/', and the rest: the directory
\* itself if nothing of it was cut off.  When the path is too short to take 34 off,
\* the length wraps around and the file's own path becomes a directory.
MakeDirs ==
    LET f == event.file
        wrapped == PathLen(f) < 34
    IN  /\ step = "mkdir" /\ PathLen(f) >= 24
        /\ dirs' = dirs \cup Above[Dir[f]] \cup
              (IF wrapped \/ DirLen[f] - 1 <= PathLen(f) - 10 THEN {Dir[f]} ELSE {})
        /\ blocked' = IF wrapped /\ f \notin copies THEN blocked \cup {f} ELSE blocked
        /\ step' = "copy"
        /\ UNCHANGED <<sender, channel, event, copies, recorded>>

\* A variant that does not look whether fopen succeeded.
WriteUnchecked ==
    /\ step = "copy"
    /\ copies' = copies \cup {event.file}
    /\ step' = "extract"
    /\ UNCHANGED <<sender, channel, event, dirs, blocked, recorded>>

\* A record without bytes may come with no buffer at all.
WriteCopy ==
    LET f == event.file
    IN  /\ step = "copy"
        /\ \/ copies' = IF Dir[f] \in dirs /\ f \notin blocked THEN copies \cup {f} ELSE copies
           \/ ~event.full /\ UNCHANGED copies
        /\ step' = "extract"
        /\ UNCHANGED <<sender, channel, event, dirs, blocked, recorded>>

\* A variant that extracts only from records with bytes.
ExtractFull ==
    /\ step = "extract"
    /\ recorded' = IF event.full
          THEN Append(recorded, [from |-> event.from, file |-> event.file,
                   exp_id |-> event.exp_id, full |-> TRUE, copied |-> event.file \in copies])
          ELSE recorded
    /\ step' = "remove"
    /\ UNCHANGED <<sender, channel, event, dirs, blocked, copies>>

\* extract_attr_init, with the script run on the copy.
Extract ==
    /\ step = "extract"
    /\ recorded' = Append(recorded, [from |-> event.from, file |-> event.file,
           exp_id |-> event.exp_id, full |-> event.full, copied |-> event.file \in copies])
    /\ step' = "remove"
    /\ UNCHANGED <<sender, channel, event, dirs, blocked, copies>>

\* A variant that leaves the copy there.
KeepCopy ==
    /\ step = "remove"
    /\ event' = NoEvent
    /\ step' = "idle"
    /\ UNCHANGED <<sender, channel, dirs, blocked, copies, recorded>>

RemoveCopy ==
    /\ step = "remove"
    /\ copies' = copies \ {event.file}
    /\ event' = NoEvent
    /\ step' = "idle"
    /\ UNCHANGED <<sender, channel, dirs, blocked, recorded>>

\* cleanup_handler: what has not arrived is lost.
Down ==
    /\ step # "down"
    /\ step' = "down"
    /\ UNCHANGED <<sender, channel, event, dirs, blocked, copies, recorded>>

Sender(s) == Glob(s) \/ Submit(s) \/ Finish(s)
Handler == TooShort \/ MakeDirs \/ WriteCopy \/ Extract \/ RemoveCopy

Next == (\E s \in Senders : Sender(s) \/ Accept(s)) \/ Handler \/ Down

\* Both processes run, and the communication thread polls every connection.
Fairness ==
    /\ \A s \in Senders : WF_vars(Sender(s)) /\ SF_vars(Accept(s))
    /\ WF_vars(Handler)

Spec == Init /\ [][Next]_vars /\ Fairness
------------------------------------------------------------------------------
Records == [from : Senders, file : Files, exp_id : 1..Cardinality(Files), full : BOOLEAN]
Recorded == [from : Senders, file : Files, exp_id : 1..Cardinality(Files),
             full : BOOLEAN, copied : BOOLEAN]

TypeOK ==
    /\ at \in [Senders -> {"running", "done", "dead"}]
    /\ count \in [Senders -> 0..Patterns]
    /\ \A s \in Senders : found[s] \subseteq Files /\ channel[s] \in Seq(Records)
    /\ size \in [Senders -> BOOLEAN]
    /\ step \in {"idle", "mkdir", "copy", "extract", "remove", "down"}
    /\ event \in Records \cup {NoEvent}
    /\ copies \subseteq Files \ blocked /\ blocked \subseteq Files
    /\ recorded \in Seq(Recorded)

\* All names in f's directory have ten characters, as the code's comment has it.
Regular(f) == \A g \in Files : Dir[g] = Dir[f] => NameLen[g] = 10

\* Where names are regular, an experiment is a directory: two files that are
\* recorded from one sender out of directories with regular names have the same
\* experiment id if and only if they lie in one directory, whatever names of other
\* lengths lie elsewhere and shift the count.
ExperimentIds ==
    \A i, j \in DOMAIN recorded :
        LET a == recorded[i]
            b == recorded[j]
        IN  a.from = b.from /\ Regular(a.file) /\ Regular(b.file)
                => (a.exp_id = b.exp_id <=> Dir[a.file] = Dir[b.file])

\* The script sees what was sent: a record with bytes is extracted from a whole copy,
\* unless the file's name is too short for its directory to be made, or its path for
\* the name to be cut off.
CopySeen ==
    \A i \in DOMAIN recorded : recorded[i].full /\ ~recorded[i].copied =>
        NameLen[recorded[i].file] < 9 \/ PathLen(recorded[i].file) < 34

\* Copies do not pile up: between two records none is left in /dev/shm.
NoCopyLeft == step = "idle" => copies = {}

\* Every file that was found is recorded, once, unless net_recv goes down or the
\* sender dies on a file that it cannot open.
AllRecorded ==
    \A s \in Senders : \A f \in Serves[s] :
        f \in found[s]
            ~> \/ step = "down" \/ at[s] = "dead"
               \/ Cardinality({i \in DOMAIN recorded :
                      recorded[i].from = s /\ recorded[i].file = f}) = 1
==============================================================================
