---------------------------- MODULE ContentCache -----------------------------
(***************************************************************************)
(* content_has of src/src/khan.cpp keeps the last string it split and the  *)
(* tokens it found in two static variables, which all FUSE threads share.  *)
(* Reading or assigning one of them is one step here: the least that a     *)
(* race between two threads can do.                                        *)
(***************************************************************************)
EXTENDS KhanText

CONSTANTS
    Threads,   \* FUSE worker threads
    Texts      \* the texts that content_has is called with

ASSUME CacheAssumption ==
    /\ Texts \subseteq Text
    /\ <<Empty>> \in Texts

VARIABLES
    last_string,   \* static std::string
    last_vector,   \* static std::vector
    step,          \* where each thread is in content_has
    vals,          \* the text each thread's call is about
    checks         \* the tokens each thread's call is going to search

cacheVars == <<last_string, last_vector, step, vals, checks>>

Steps == {"idle", "compare", "copy", "string", "vector", "search"}
Splits == {Split(s) : s \in Texts}

CacheTypeOK ==
    /\ last_string \in Texts
    /\ last_vector \in Splits
    /\ step \in [Threads -> Steps]
    /\ vals \in [Threads -> Texts]
    /\ checks \in [Threads -> Splits]

CacheInit ==
    /\ last_string = <<Empty>>
    /\ last_vector = <<>>
    /\ step = [t \in Threads |-> "idle"]
    /\ vals = [t \in Threads |-> <<Empty>>]
    /\ checks = [t \in Threads |-> <<>>]
------------------------------------------------------------------------------
Go(t, from, to) == step[t] = from /\ step' = [step EXCEPT ![t] = to]

Call(t, s) ==
    /\ Go(t, "idle", "compare")
    /\ vals' = [vals EXCEPT ![t] = s]
    /\ checks' = [checks EXCEPT ![t] = <<>>]
    /\ UNCHANGED <<last_string, last_vector>>

\* A variant that takes any text of the same length for the last one.
CompareLength(t) ==
    /\ Go(t, "compare", IF Len(last_string) = Len(vals[t]) THEN "copy" ELSE "string")
    /\ UNCHANGED <<last_string, last_vector, vals, checks>>

\* last_string == vals
Compare(t) ==
    /\ Go(t, "compare", IF last_string = vals[t] THEN "copy" ELSE "string")
    /\ UNCHANGED <<last_string, last_vector, vals, checks>>

CopyVector(t) ==
    /\ Go(t, "copy", "search")
    /\ checks' = [checks EXCEPT ![t] = last_vector]
    /\ UNCHANGED <<last_string, last_vector, vals>>

\* checks = split(vals, ":"); last_string = vals
SetString(t) ==
    /\ Go(t, "string", "vector")
    /\ checks' = [checks EXCEPT ![t] = Split(vals[t])]
    /\ last_string' = vals[t]
    /\ UNCHANGED <<last_vector, vals>>

SetVector(t) ==
    /\ Go(t, "vector", "search")
    /\ last_vector' = checks[t]
    /\ UNCHANGED <<last_string, vals, checks>>

Return(t) ==
    /\ Go(t, "search", "idle")
    /\ UNCHANGED <<last_string, last_vector, vals, checks>>

CacheNext == \E t \in Threads :
    \/ \E s \in Texts : Call(t, s)
    \/ Compare(t) \/ CopyVector(t) \/ SetString(t) \/ SetVector(t) \/ Return(t)

CacheSpec == CacheInit /\ [][CacheNext]_cacheVars
------------------------------------------------------------------------------
(***************************************************************************)
(* content_has tells whether a piece is in the text it is given ("see if   *)
(* piece is in vals", fuse_helper.cpp): it searches the tokens of that     *)
(* text and not those of a text some earlier or other call was about.      *)
(***************************************************************************)
SearchesOwnText ==
    \A t \in Threads : step[t] = "search" => checks[t] = Split(vals[t])

(***************************************************************************)
(* Whenever no call is between its two assignments, the two statics belong *)
(* together: the next call may trust them.                                 *)
(***************************************************************************)
CacheMatches ==
    (\A t \in Threads : step[t] # "vector") => last_vector = Split(last_string)
------------------------------------------------------------------------------
(***************************************************************************)
(* The inductive invariant behind SearchesOwnText, for a single thread.    *)
(***************************************************************************)
Serial == \A t, u \in Threads : t = u

InCall ==
    \A t \in Threads :
        /\ step[t] = "copy" => last_string = vals[t]
        /\ step[t] = "vector" => checks[t] = Split(vals[t]) /\ last_string = vals[t]

CacheInv == CacheTypeOK /\ InCall /\ CacheMatches /\ SearchesOwnText
==============================================================================
