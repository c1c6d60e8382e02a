------------------------------- MODULE FileIds -------------------------------
(***************************************************************************)
(* File ids.  redis_setval(file_id = "null", col, val) makes a new entity: *)
(* it reads the last id from hash "redis_last_id", field "val", removes    *)
(* it, stores its successor with a nested redis_setval and then records    *)
(* val under the new id.  The counter is a fact of the store like any      *)
(* other, so every nested call takes the steps of RedisStore, and the      *)
(* process may be killed between any two of them.                          *)
(***************************************************************************)
EXTENDS RedisStore

CONSTANTS
    LastId,      \* "redis_last_id"
    ValCol,      \* "val"
    NameCol,     \* "name", the column every caller makes an entity with
    Files,       \* the names of the files new entities are made for
    MaxIds       \* bound: ids handed out

\* The instances hand out numerals of one digit, of which none lies inside another.
ASSUME IdsAssumption ==
    /\ MaxIds \in Nat \ {0}
    /\ LastId \in Entities \ (1..(MaxIds + 1)) /\ {ValCol, NameCol} \subseteq Attrs
    /\ 1..(MaxIds + 1) \subseteq Entities \cap Vals
    /\ Files \subseteq Vals \ (1..(MaxIds + 1)) /\ Files # {}

VARIABLES
    phase,    \* where each thread is in its redis_setval("null", ..)
    last,     \* file_id as it was read from the counter
    file,     \* the name the new entity is made for
    made,     \* history: the files each id was handed out for, in order
    resets    \* history: crashes that found the counter removed

idVars == <<phase, last, file, made, resets>>
allVars == <<vars, idVars>>

CounterField == <<LastId, ValCol>>

IdInit ==
    /\ Init
    /\ phase = [t \in Threads |-> "none"]
    /\ last = [t \in Threads |-> 0]
    /\ file = [t \in Threads |-> CHOOSE f \in Files : TRUE]
    /\ made = <<>>
    /\ resets = 0
------------------------------------------------------------------------------
\* atoi stops at the ':' after the first numeral.
AtoI(s) == IF Head(s) \in Nat THEN Head(s) ELSE 0

Allocating == {t \in Threads : phase[t] # "none"}

\* The id is read, "1" when there is none yet.
ReadLastId(t, f) ==
    /\ phase[t] = "none"
    /\ Len(made) + Cardinality(Allocating) < MaxIds
    /\ LET id == GetVal(db[CounterField])
           n == IF id = <<Null>> THEN 1 ELSE AtoI(id)
       IN  /\ n < MaxIds + 1
           /\ last' = [last EXCEPT ![t] = n]
    /\ file' = [file EXCEPT ![t] = f]
    /\ phase' = [phase EXCEPT ![t] = "remove"]
    /\ UNCHANGED <<vars, made, resets>>

\* A variant without the increment.
SameId(t) == last[t]

NewId(t) == last[t] + 1

\* A variant that leaves the old last id in place.
KeepLastId(t) ==
    /\ phase[t] = "remove"
    /\ phase' = [phase EXCEPT ![t] = "store"]
    /\ UNCHANGED <<vars, last, file, made, resets>>

\* redis_remove_val("redis_last_id", "val", file_id); the hget after it only logs.
RemoveLastId(t) ==
    /\ phase[t] = "remove"
    /\ CallRemoveVal(t, <<LastId, ValCol, last[t]>>)
    /\ phase' = [phase EXCEPT ![t] = "store"]
    /\ UNCHANGED <<last, file, made, resets>>

\* redis_setval("redis_last_id", "val", result.str()).
StoreLastId(t) ==
    /\ phase[t] = "store"
    /\ CallSetval(t, <<LastId, ValCol, NewId(t)>>)
    /\ phase' = [phase EXCEPT ![t] = "record"]
    /\ UNCHANGED <<last, file, made, resets>>

\* A variant that returns the new id and stores nothing under it.
RecordNothing(t) ==
    /\ phase[t] = "record"
    /\ step[t] = "idle"
    /\ phase' = [phase EXCEPT ![t] = "return"]
    /\ made' = Append(made, <<NewId(t), file[t]>>)
    /\ UNCHANGED <<vars, last, file, resets>>

\* redis_setval(file_id, col, val).
RecordVal(t) ==
    /\ phase[t] = "record"
    /\ CallSetval(t, <<NewId(t), NameCol, file[t]>>)
    /\ phase' = [phase EXCEPT ![t] = "return"]
    /\ made' = Append(made, <<NewId(t), file[t]>>)
    /\ UNCHANGED <<last, file, resets>>

ReturnId(t) ==
    /\ phase[t] = "return"
    /\ step[t] = "idle"
    /\ phase' = [phase EXCEPT ![t] = "none"]
    /\ UNCHANGED <<vars, last, file, made, resets>>

StoreCommand(t) == Command(t) /\ UNCHANGED idVars

\* The counter's field is empty between the removal and the store.
IdCrash ==
    /\ crashes < MaxCrashes
    /\ Allocating # {}
    /\ \/ Crash
       \/ /\ \A t \in Threads : step[t] = "idle"
          /\ crashes' = crashes + 1
          /\ UNCHANGED <<db, step, at, got, calls, torn>>
    /\ phase' = [t \in Threads |-> "none"]
    /\ resets' = IF made # <<>> /\ NoReply(db[CounterField])
                 THEN resets + 1 ELSE resets
    /\ UNCHANGED <<last, file, made>>

Allocate(t) ==
    \/ RemoveLastId(t) \/ StoreLastId(t) \/ RecordVal(t) \/ ReturnId(t)
    \/ StoreCommand(t)

IdNext ==
    \/ \E t \in Threads : (\E f \in Files : ReadLastId(t, f)) \/ Allocate(t)
    \/ IdCrash

IdSpec == IdInit /\ [][IdNext]_allVars
IdFairSpec == IdSpec /\ \A t \in Threads : WF_allVars(Allocate(t))
------------------------------------------------------------------------------
(***************************************************************************)
(* An id is handed out again only after a crash between the removal of the *)
(* old last id and the store of the new one; every such crash costs at     *)
(* most one more use of each id, and no other crash costs any.             *)
(***************************************************************************)
Uses(n) == Cardinality({i \in DOMAIN made : made[i][1] = n})
SharedOnlyAfterReset == \A n \in 1..(MaxIds + 1) : Uses(n) <= 1 + resets

(***************************************************************************)
(* The stored counter is a plain numeral that no handed out id exceeds,    *)
(* unless it is absent while the next id is being stored: it was neither   *)
(* doubled ("3:3") nor left behind by the entity that was made last.       *)
(***************************************************************************)
CounterCovers ==
    LET s == db[CounterField]
    IN  /\ Len(s) <= 1
        /\ ~NoReply(s) /\ resets = 0 =>
              \A i \in DOMAIN made : made[i][1] <= s[1]

(***************************************************************************)
(* Every redis_setval("null", ..) comes to its end: its entity is recorded *)
(* under its name, unless a crash came between.                            *)
(***************************************************************************)
NamesRecorded ==
    \A n \in 1..(MaxIds + 1), f \in Files :
        (\E i \in DOMAIN made : made[i] = <<n, f>>)
            ~> \/ Occ(db[n, NameCol], f) > 0 /\ Occ(db[NameCol, f], n) > 0
               \/ crashes > 0

\* A string without itself is empty: what the theorems assume of Cut.
ErasesItself == \A w \in Tokens : Cut(w, w) = Empty
==============================================================================
