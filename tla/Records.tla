------------------------------- MODULE Records --------------------------------
(***************************************************************************)
(* The metadata in Berkeley DB or Voldemort (bdb.cpp and voldemort.cpp,    *)
(* which store the same strings), the alternatives to redis in             *)
(* database.cpp.  A store has one string per key, the key being a file id  *)
(* or a column: "~k1:a:b~k2:c", modelled as the sequence of its cells      *)
(* [key |-> k1, list |-> <<a, b>>].  A cell whose list was emptied has     *)
(* lost its ':' and is never found again.                                  *)
(*                                                                         *)
(* A call is one thread's sequence of puts, between which the process may  *)
(* be killed.  No key, id or value contains another one, '~' or ':'.       *)
(***************************************************************************)
EXTENDS Naturals, Sequences, FiniteSets, FiniteSetsExt

CONSTANTS
    Cols, Vals,      \* the columns and values clients use
    Ids,             \* the numerals from "0" on
    LastId, Val,     \* "bdb_last_id" and its column "val"
    MaxOps           \* bound: calls, and kills

ASSUME RecordsAssumption ==
    /\ IsFiniteSet(Cols) /\ IsFiniteSet(Vals)
    /\ Ids \in Seq(STRING) /\ Len(Ids) > MaxOps
    /\ \A i, j \in DOMAIN Ids : Ids[i] = Ids[j] => i = j
    /\ Val \notin Cols \cup {LastId} /\ LastId \notin Cols
    /\ \A i \in DOMAIN Ids : Ids[i] \notin Cols \cup {LastId, Val}
    /\ MaxOps \in Nat

VARIABLES
    store,   \* the record of each key, <<>> for the empty string and for none
    todo,    \* the puts the current call is still to make
    ops,
    facts,   \* history: what was set and not removed since while it was safe
    safe,    \* history: those of them whose file and column had no removal since
    torn,    \* history: what a kill interrupted a call about
    given,   \* history: the file ids handed out
    reset    \* history: a kill came before the counter's successor was stored

vars == <<store, todo, ops, facts, safe, torn, given, reset>>

FileIds == {Ids[i] : i \in DOMAIN Ids}
Keys == FileIds \cup Cols \cup {LastId, Val}
Triples == FileIds \X Cols \X Vals
------------------------------------------------------------------------------
(* Records *)

\* find("~" + k + ":")
CellsOf(r, k) == {i \in DOMAIN r : r[i].key = k /\ r[i].list # <<>>}
ListOf(r, k) == IF CellsOf(r, k) = {} THEN <<>> ELSE r[Min(CellsOf(r, k))].list
Lists(r, k, v) == \E i \in DOMAIN ListOf(r, k) : ListOf(r, k)[i] = v

\* A variant that never finds the cell.
WithTwice(r, k, v) == Append(r, [key |-> k, list |-> <<v>>])

\* A variant that stores the new value alone.
WithOnly(r, k, v) ==
    IF CellsOf(r, k) = {} THEN Append(r, [key |-> k, list |-> <<v>>])
    ELSE [r EXCEPT ![Min(CellsOf(r, k))].list = <<v>>]

\* setval, in either view: the cell gets the value unless it has it.
With(r, k, v) ==
    IF CellsOf(r, k) = {} THEN Append(r, [key |-> k, list |-> <<v>>])
    ELSE IF Lists(r, k, v) THEN r
    ELSE [r EXCEPT ![Min(CellsOf(r, k))].list = Append(@, v)]

\* A sequence without its i-th element.
Cut(s, i) == SubSeq(s, 1, i - 1) \o SubSeq(s, i + 1, Len(s))
PlacesOf(list, v) == {i \in DOMAIN list : list[i] = v}

\* remove_val, the file's view: the cell without the first v becomes the record.
LeftOf(r, k, v) ==
    LET list == ListOf(r, k)
    IN  <<[key |-> k, list |-> Cut(list, Min(PlacesOf(list, v)))]>>

\* A variant that leaves the column's record as it is.
WithoutNothing(r, k) == r

\* remove_val, the column's view: the cell goes with every id in it; if there is
\* none, the search for its end finds the first cell and the record goes.
Without(r, k) ==
    IF CellsOf(r, k) = {} THEN <<>> ELSE Cut(r, Min(CellsOf(r, k)))
------------------------------------------------------------------------------
SetCalls(f, c, v) ==
    <<[do |-> "set file", f |-> f, c |-> c, v |-> v],
      [do |-> "set col", f |-> f, c |-> c, v |-> v]>>

\* A variant that leaves the file's record as it is.
RemoveColCalls(f, c, v) == <<[do |-> "remove col", f |-> f, c |-> c, v |-> v]>>

RemoveCalls(f, c, v) ==
    <<[do |-> "remove file", f |-> f, c |-> c, v |-> v],
      [do |-> "remove col", f |-> f, c |-> c, v |-> v]>>

Init ==
    /\ store = [k \in Keys |-> <<>>]
    /\ todo = <<>> /\ ops = 0
    /\ facts = {} /\ safe = {} /\ torn = {}
    /\ given = <<>> /\ reset = FALSE

Begin == todo = <<>> /\ ops < MaxOps /\ ops' = ops + 1

\* setval of a file that has an id.
SetVal(f, c, v) ==
    /\ Begin
    /\ todo' = SetCalls(f, c, v)
    /\ facts' = facts \cup {<<f, c, v>>}
    /\ safe' = safe \cup {<<f, c, v>>}
    /\ UNCHANGED <<store, torn, given, reset>>

\* The place in Ids of the id that the counter stands at; it starts at "0".
Counter ==
    LET out == ListOf(store[LastId], Val)
    IN  IF out = <<>> THEN 1 ELSE CHOOSE i \in DOMAIN Ids : Ids[i] = out[1]

\* setval("null", ..): the old number is removed, its successor stored, and the
\* old number is the id.
SetNew(c, v) ==
    LET f == Ids[Counter]
        t == <<f, c, v>>
    IN  /\ Begin
        /\ todo' = RemoveCalls(LastId, Val, f) \o SetCalls(LastId, Val, Ids[Counter + 1])
                      \o SetCalls(f, c, v)
        /\ given' = Append(given, f)
        /\ facts' = facts \cup {t} /\ safe' = safe \cup {t}
        /\ UNCHANGED <<store, torn, reset>>

RemoveVal(f, c, v) ==
    /\ Begin
    /\ todo' = RemoveCalls(f, c, v)
    /\ facts' = IF <<f, c, v>> \in safe THEN facts \ {<<f, c, v>>} ELSE facts
    /\ safe' = {t \in safe : t[1] # f /\ t[2] # c}
    /\ UNCHANGED <<store, torn, given, reset>>

\* One put.  A value that the file does not have is not removed from the column.
Put ==
    LET p == Head(todo)
        skip == p.do = "remove file" /\ ~Lists(store[p.f], p.c, p.v)
    IN  /\ todo # <<>>
        /\ todo' = IF skip THEN Tail(Tail(todo)) ELSE Tail(todo)
        /\ store' = CASE skip -> store
                      [] p.do = "set file" -> [store EXCEPT ![p.f] = With(@, p.c, p.v)]
                      [] p.do = "set col" -> [store EXCEPT ![p.c] = With(@, p.v, p.f)]
                      [] p.do = "remove file" /\ ~skip ->
                             [store EXCEPT ![p.f] = LeftOf(@, p.c, p.v)]
                      [] OTHER -> [store EXCEPT ![p.c] = Without(@, p.v)]
        /\ UNCHANGED <<ops, facts, safe, torn, given, reset>>

\* The process is killed within a call.
Killed ==
    /\ todo # <<>> /\ ops < MaxOps /\ ops' = ops + 1
    /\ todo' = <<>>
    /\ torn' = torn \cup {<<todo[i].f, todo[i].c, todo[i].v>> : i \in DOMAIN todo}
    /\ reset' = (reset \/ \E i \in DOMAIN todo : todo[i].do = "set file" /\ todo[i].f = LastId)
    /\ UNCHANGED <<store, facts, safe, given>>

Next ==
    \/ \E f \in FileIds, c \in Cols, v \in Vals :
          (\E i \in DOMAIN given : given[i] = f) /\ (SetVal(f, c, v) \/ RemoveVal(f, c, v))
    \/ \E c \in Cols, v \in Vals : SetNew(c, v)
    \/ Put \/ Killed

Spec == Init /\ [][Next]_vars
------------------------------------------------------------------------------
\* Every record has at most one cell that a search can find for a key.
TypeOK ==
    /\ DOMAIN store = Keys
    /\ \A k \in Keys : \A i \in DOMAIN store[k] :
          Cardinality(CellsOf(store[k], store[k][i].key)) <= 1
    /\ ops \in 0..MaxOps
    /\ safe \subseteq facts /\ facts \subseteq Triples
    /\ \A i \in DOMAIN given : given[i] \in FileIds

InFile(t) == Lists(store[t[1]], t[2], t[3])
InCol(t) == Lists(store[t[2]], t[3], t[1])

\* What is removed is gone from both views: between calls nothing is listed that was
\* never set, or was removed when no other removal had touched its file or its column
\* yet (after one it may be gone from the file alone, and is then left in the column),
\* unless a kill interrupted the call about it.
NothingBack ==
    todo = <<>> => \A t \in Triples \ torn : InFile(t) \/ InCol(t) => t \in facts

\* A removal may take more than it should, but only from the file and the column that
\* it names: everything else that was set is listed in both views.
OthersKept == todo = <<>> => \A t \in safe \ torn : InFile(t) /\ InCol(t)

\* File ids are handed out once, unless a kill came before the counter's
\* successor was stored.
IdsFresh == reset \/ \A i, j \in DOMAIN given : given[i] = given[j] => i = j
==============================================================================
