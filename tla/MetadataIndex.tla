---------------------------- MODULE MetadataIndex ----------------------------
(***************************************************************************)
(* What the metadata database promises the file system: facts, each an     *)
(* <<entity, attribute, value>>, counted in two views.  One is asked for   *)
(* the values of an entity, the other for the entities of a value.  A      *)
(* change reaches the first view at once and the second one later; a crash *)
(* in between leaves the fact lost, and only then may the views differ for *)
(* good.  A change of one fact never disturbs another one.                 *)
(***************************************************************************)
EXTENDS Integers

CONSTANT Facts

VARIABLES
    forward,   \* how often each fact is listed under its entity
    inverse,   \* how often each fact is listed under its value
    busy,      \* facts changed in the first view and not yet in the second
    lost       \* facts that some crash left half changed

vars == <<forward, inverse, busy, lost>>

Init ==
    /\ forward = [x \in Facts |-> 0]
    /\ inverse = [x \in Facts |-> 0]
    /\ busy = {}
    /\ lost = {}

\* One step away at most, and never below zero.
Near(n) == {n - 1, n, n + 1} \cap Nat

Change(x) ==
    /\ x \notin busy
    /\ \E n \in Near(forward[x]) : forward' = [forward EXCEPT ![x] = n]
    /\ busy' = busy \cup {x}
    /\ UNCHANGED <<inverse, lost>>

CatchUp(x) ==
    /\ x \in busy
    /\ \E n \in Near(inverse[x]) : inverse' = [inverse EXCEPT ![x] = n]
    /\ x \notin lost => inverse'[x] = forward[x]
    /\ busy' = busy \ {x}
    /\ UNCHANGED <<forward, lost>>

Crash ==
    /\ lost' = lost \cup busy
    /\ busy' = {}
    /\ UNCHANGED <<forward, inverse>>

Next == Crash \/ \E x \in Facts : Change(x) \/ CatchUp(x)

Spec == Init /\ [][Next]_vars
FairSpec == Spec /\ \A x \in Facts : WF_vars(CatchUp(x))
==============================================================================
