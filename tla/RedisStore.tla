----------------------------- MODULE RedisStore ------------------------------
(***************************************************************************)
(* The metadata store of src/src/redis.cpp, command by command.  Redis     *)
(* holds hashes of text fields and the program uses them as a two-way      *)
(* index: hash f, field c lists the values of attribute c of entity f, and *)
(* hash c, field v lists the entities whose attribute c has value v.       *)
(* redis_setval and redis_remove_val update first one and then the other,  *)
(* each by a read command followed by a write command; every redis command *)
(* is one step here.  The process may be killed between two commands;      *)
(* redis keeps what was written.                                           *)
(***************************************************************************)
EXTENDS RedisText

CONSTANTS
    Threads,      \* the threads of net_recv that call the database
    Entities,     \* file ids, and the other hashes used as one ("setup", "mp3")
    Attrs,        \* attribute names
    Vals,         \* attribute values
    MaxCalls,     \* bound: calls of database_setval and database_remove_val
    MaxCrashes    \* bound: times the process is killed

ASSUME StoreAssumption ==
    /\ Entities \subseteq Tokens \ {Empty, Null}
    /\ Vals \subseteq Tokens
    /\ Entities \cap Attrs = {}
    /\ Entities # {} /\ Attrs # {} /\ Vals # {}
    /\ MaxCalls \in Nat
    /\ MaxCrashes \in Nat

Triples == Entities \X Attrs \X Vals
Keys == Entities \cup Attrs
Fields == Attrs \cup Vals
Steps == {"idle", "set_hget", "set_hset", "set_hget_col", "set_hset_col",
          "rem_hget", "rem_hset", "rem_getval", "rem_hset_col"}

VARIABLES
    db,       \* the text of every field of every hash
    step,     \* the next command of each thread's call
    at,       \* the <<file_id, col, val>> of each thread's call
    got,      \* the reply text each thread's call holds on to
    calls,    \* calls made so far
    crashes,  \* times the process was killed so far
    torn      \* history: how often a call at a triple was killed half way

vars == <<db, step, at, got, calls, crashes, torn>>

\* The two fields that a call at <<f, c, v>> works on.
EntityField(x) == <<x[1], x[2]>>
ColField(x) == <<x[2], x[3]>>

TypeOK ==
    /\ db \in [Keys \X Fields -> Text]
    /\ step \in [Threads -> Steps]
    /\ at \in [Threads -> Triples]
    /\ got \in [Threads -> Text]
    /\ calls \in Nat
    /\ crashes \in Nat
    /\ torn \in [Triples -> Nat]

Init ==
    /\ db = [kn \in Keys \X Fields |-> <<>>]
    /\ step = [t \in Threads |-> "idle"]
    /\ at = [t \in Threads |-> CHOOSE x \in Triples : TRUE]
    /\ got = [t \in Threads |-> <<>>]
    /\ calls = 0
    /\ crashes = 0
    /\ torn = [x \in Triples |-> 0]
------------------------------------------------------------------------------
\* A thread calls database_setval or database_remove_val.
Call(t, x, first) ==
    /\ step[t] = "idle"
    /\ calls < MaxCalls
    /\ step' = [step EXCEPT ![t] = first]
    /\ at' = [at EXCEPT ![t] = x]
    /\ calls' = calls + 1
    /\ UNCHANGED <<db, got, crashes, torn>>

CallSetval(t, x) == Call(t, x, "set_hget")
CallRemoveVal(t, x) == Call(t, x, "rem_hget")

\* A read command: the reply is kept, and the call goes on with `next`.
Read(t, from, text, next) ==
    /\ step[t] = from
    /\ got' = [got EXCEPT ![t] = text]
    /\ step' = [step EXCEPT ![t] = next]
    /\ UNCHANGED <<db, at, calls, crashes, torn>>

\* A write command: field kn gets a new text, and the call goes on with `next`.
Write(t, from, kn, text, next) ==
    /\ step[t] = from
    /\ db' = [db EXCEPT ![kn] = text]
    /\ got' = [got EXCEPT ![t] = <<>>]
    /\ step' = [step EXCEPT ![t] = next]
    /\ UNCHANGED <<at, calls, crashes, torn>>

\* redis_setval, "handle file_id key".
SetHGet(t) ==
    Read(t, "set_hget", db[EntityField(at[t])], "set_hset")

\* A variant that returns before the col key is handled.
SetHSetOnly(t) ==
    Write(t, "set_hset", EntityField(at[t]), Joined(got[t], at[t][3]), "idle")

SetHSet(t) ==
    Write(t, "set_hset", EntityField(at[t]), Joined(got[t], at[t][3]),
          "set_hget_col")

\* redis_setval, "handle col key".
SetHGetCol(t) ==
    Read(t, "set_hget_col", db[ColField(at[t])], "set_hset_col")

\* A variant that forgets the files the column already lists.
SetHSetColAlone(t) ==
    Write(t, "set_hset_col", ColField(at[t]), <<at[t][1]>>, "idle")

SetHSetCol(t) ==
    Write(t, "set_hset_col", ColField(at[t]), Joined(got[t], at[t][1]), "idle")

\* redis_remove_val, "updating fileid": nothing is written when nothing is there.
RemoveHGet(t) ==
    LET source == db[EntityField(at[t])]
    IN  Read(t, "rem_hget", source,
             IF NoReply(source) THEN "rem_getval" ELSE "rem_hset")

\* hset what is left of the text, or hdel the field when that is "".
RemoveHSet(t) ==
    LET left == Erased(got[t], at[t][3])
    IN  Write(t, "rem_hset", EntityField(at[t]),
              IF left = <<Empty>> THEN <<>> ELSE left, "rem_getval")

\* redis_remove_val, "remove from col entry".
RemoveGetVal(t) ==
    Read(t, "rem_getval", GetVal(db[ColField(at[t])]), "rem_hset_col")

\* A variant that drops the whole column entry.
RemoveColEntry(t) ==
    Write(t, "rem_hset_col", ColField(at[t]), <<>>, "idle")

RemoveHSetCol(t) ==
    Write(t, "rem_hset_col", ColField(at[t]), Erased(got[t], at[t][1]), "idle")

Command(t) ==
    \/ SetHGet(t) \/ SetHSet(t) \/ SetHGetCol(t) \/ SetHSetCol(t)
    \/ RemoveHGet(t) \/ RemoveHSet(t) \/ RemoveGetVal(t) \/ RemoveHSetCol(t)

\* Calls that have updated the entity's field and not yet the column's.
BetweenViews == {"set_hget_col", "set_hset_col", "rem_getval", "rem_hset_col"}
Halfway == {at[t] : t \in {u \in Threads : step[u] \in BetweenViews}}

\* The process is killed; the next one starts with no call in progress.
Crash ==
    /\ crashes < MaxCrashes
    /\ \E t \in Threads : step[t] # "idle"
    /\ crashes' = crashes + 1
    /\ torn' = [x \in Triples |->
                   IF x \in Halfway THEN torn[x] + 1 ELSE torn[x]]
    /\ step' = [t \in Threads |-> "idle"]
    /\ got' = [t \in Threads |-> <<>>]
    /\ UNCHANGED <<db, at, calls>>

Next ==
    \/ \E t \in Threads :
        \/ \E x \in Triples : CallSetval(t, x) \/ CallRemoveVal(t, x)
        \/ Command(t)
    \/ Crash

Spec == Init /\ [][Next]_vars

\* A call that is under way goes on: its thread waits on nothing but redis.
Fairness == \A t \in Threads : WF_vars(Command(t))
FairSpec == Spec /\ Fairness
------------------------------------------------------------------------------
(***************************************************************************)
(* Properties.  split(.., ":") skips empty tokens, so the empty value is   *)
(* nobody's value and no property speaks of it.                            *)
(***************************************************************************)
Facts == {x \in Triples : x[3] # Empty}
Listed(x) == Occ(db[EntityField(x)], x[3])
Indexed(x) == Occ(db[ColField(x)], x[1])

(***************************************************************************)
(* The two views redis_setval and redis_remove_val keep agree: file_id     *)
(* lists val under col as often as col lists file_id under val, unless a   *)
(* call at that triple is half way; every process killed half way through  *)
(* such a call lets them drift apart by one, and nothing else does.        *)
(***************************************************************************)
Within(m, n, d) == m <= n + d /\ n <= m + d
Mirror ==
    \A x \in Facts \ Halfway : Within(Listed(x), Indexed(x), torn[x])

(***************************************************************************)
(* A listed token only goes when a redis_remove_val of that very triple is *)
(* writing: no redis_setval, no crash and no removal of another triple     *)
(* makes a file lose a value or a value lose a file.                       *)
(***************************************************************************)
RemovingAt(x) == \E t \in Threads :
    at[t] = x /\ step[t] \in {"rem_hset", "rem_hset_col"}
ForgetsOnlyRemoved ==
    \A x \in Facts :
        Listed(x)' < Listed(x) \/ Indexed(x)' < Indexed(x) => RemovingAt(x)
OnlyRemoveForgets == [][ForgetsOnlyRemoved]_vars

(***************************************************************************)
(* A difference between the two views does not last: the call that made it *)
(* goes on to update the second view, unless the process is killed.        *)
(***************************************************************************)
ViewsCatchUp ==
    \A x \in Facts :
        Listed(x) # Indexed(x) ~> Listed(x) = Indexed(x) \/ torn[x] > 0

(***************************************************************************)
(* The store implements the two-view index that its callers rely on.       *)
(***************************************************************************)
Index == INSTANCE MetadataIndex WITH
    forward <- [x \in Facts |-> Listed(x)],
    inverse <- [x \in Facts |-> Indexed(x)],
    busy <- Facts \cap Halfway,
    lost <- {x \in Facts : torn[x] > 0}
ImplementsIndex == Index!FairSpec
------------------------------------------------------------------------------
(***************************************************************************)
(* The inductive invariant behind Mirror, for a single calling thread: the *)
(* reply a call holds on to is still what the field says when it is used,  *)
(* and a call that is half way leaves the second view just as far from the *)
(* first one as it will be once the call has updated it too.               *)
(***************************************************************************)
Serial == \A t, u \in Threads : t = u

GotFresh ==
    \A t \in Threads :
        /\ step[t] \in {"set_hset", "rem_hset"} => got[t] = db[EntityField(at[t])]
        /\ step[t] = "set_hset_col" => got[t] = db[ColField(at[t])]
        /\ step[t] = "rem_hset_col" => got[t] = GetVal(db[ColField(at[t])])

\* What the second view will say of a call's triple.
Due(t) ==
    LET n == Indexed(at[t])
    IN  IF step[t] \in {"set_hget_col", "set_hset_col"} THEN n + 1
        ELSE IF n > 0 THEN n - 1 ELSE 0

HalfwayDue ==
    \A t \in Threads :
        step[t] \in BetweenViews /\ at[t] \in Facts
            => Within(Listed(at[t]), Due(t), torn[at[t]])

SerialInv == TypeOK /\ GotFresh /\ HalfwayDue /\ Mirror
==============================================================================
