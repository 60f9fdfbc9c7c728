------------------------------ MODULE History -------------------------------
(***************************************************************************)
(* What saving promises a client: an atomic object.  A request takes       *)
(* effect in one step, which adds a revision, moves its document's pointer *)
(* there and settles the answer that a repetition of it will get, or       *)
(* settles that it was refused.  Nothing that was saved is changed again,  *)
(* and an answer is replaced only under a key whose request was refused.   *)
(* The pointer moves to what was saved last, on whatever base.             *)
(***************************************************************************)
EXTENDS Naturals

CONSTANTS
    Doc,
    Key,            \* idempotency keys
    Revision,       \* ids of revisions; 0 is none of them
    Query           \* what clients ask for, with its doc, key and base

VARIABLES saved, latest, settled, refused

vars == <<saved, latest, settled, refused>>

Unsaved == [made |-> FALSE]

Init ==
    /\ saved = [i \in Revision |-> Unsaved]
    /\ latest = [d \in Doc |-> 0]
    /\ settled = [k \in Key |-> Unsaved]
    /\ refused = {}

Settle(q, answer) ==
    IF q.key \in Key
    THEN settled' = [settled EXCEPT ![q.key] = [made |-> TRUE, of |-> q, answer |-> answer]]
    ELSE UNCHANGED settled

\* On nothing, or on a saved revision of the same document.
Based(q) == q.base # 0 => saved[q.base].made /\ saved[q.base].of.doc = q.doc

Save(q, i) ==
    /\ ~saved[i].made
    /\ Based(q)
    /\ q.key \in Key /\ settled[q.key].made => settled[q.key].of = q /\ q.key \in refused
    /\ saved' = [saved EXCEPT ![i] = [made |-> TRUE, of |-> q]]
    /\ latest' = [latest EXCEPT ![q.doc] = i]
    /\ Settle(q, i)
    /\ UNCHANGED refused

Refuse(q) ==
    /\ q.key \in Key /\ ~settled[q.key].made
    /\ Settle(q, 0)
    /\ refused' = refused \cup {q.key}
    /\ UNCHANGED <<saved, latest>>

Next == \E q \in Query : Refuse(q) \/ \E i \in Revision : Save(q, i)

Spec == Init /\ [][Next]_vars
=============================================================================
