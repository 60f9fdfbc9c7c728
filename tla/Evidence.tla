------------------------------ MODULE Evidence ------------------------------
(***************************************************************************)
(* The pure rules of the learning domain: which events count as evidence   *)
(* (learning.py), what a log of them says of a concept (evidence_twin.py), *)
(* which prerequisite closes a cycle (learning.py) and how a grade moves a *)
(* review card (fsrs.py).                                                  *)
(***************************************************************************)
EXTENDS Naturals, Folds

\* The event types some rule tells apart; the others behave like "other".
EventType == {"attempt_started", "hint_revealed", "answer_revealed", "grade_recorded",
              "review_rated", "user_chat_marker", "other"}

INELIGIBLE_MASTERY_EVENTS == {"hint_revealed", "answer_revealed", "user_chat_marker"}

\* Mutant: a substantive hint does not count.
ClassifyIgnoringHints(type, revealed, hinted, beforeFeedback) ==
    /\ type \notin INELIGIBLE_MASTERY_EVENTS
    /\ ~revealed
    /\ beforeFeedback \/ type # "grade_recorded"

classify_event_eligibility(type, revealed, hinted, beforeFeedback) ==
    /\ type \notin INELIGIBLE_MASTERY_EVENTS
    /\ ~revealed
    /\ ~hinted
    /\ beforeFeedback \/ type # "grade_recorded"

-----------------------------------------------------------------------------
(* Evidence of a concept.                                                  *)

EvidenceState == {"unassessed", "practicing", "demonstrated", "delayed_demonstrated"}
ConceptEvidence == [state : EvidenceState, recall : {"current", "lapsed"},
                    eligible_grades : Nat, ineligible_hits : Nat]
Unassessed == [state |-> "unassessed", recall |-> "current",
               eligible_grades |-> 0, ineligible_hits |-> 0]

Practising(ev) == IF ev.state = "unassessed" THEN [ev EXCEPT !.state = "practicing"] ELSE ev

\* What one event of a concept does to the concept's evidence.
Absorb(ev, e) ==
    CASE ~e.eligible -> Practising([ev EXCEPT !.ineligible_hits = @ + 1])
      [] e.eligible /\ e.type = "attempt_started" -> Practising(ev)
      [] e.eligible /\ e.type = "grade_recorded" /\ e.correct ->
            [ev EXCEPT !.eligible_grades = @ + 1, !.recall = "current",
                       !.state = IF ev.eligible_grades >= 1 THEN "delayed_demonstrated"
                                 ELSE "demonstrated"]
      [] e.eligible /\ e.type = "grade_recorded" /\ ~e.correct ->
            [ev EXCEPT !.state = "practicing", !.recall = "lapsed"]
      [] e.eligible /\ e.type = "review_rated" ->
            [ev EXCEPT !.recall = IF e.rating = "again" THEN "lapsed" ELSE "current"]
      [] OTHER -> ev

\* The events of a concept are absorbed in the order they occurred in, the
\* latest last, which need not be the one they arrived in; equal times are
\* ordered by id.  Events of no concept are passed over.
Occurred(e, f) == e.at < f.at \/ (e.at = f.at /\ e.id <= f.id)

\* Mutant: the event that arrived last.
LatestArrived(S) == CHOOSE e \in S : \A f \in S : f.id <= e.id

Latest(S) == CHOOSE e \in S : \A f \in S : Occurred(f, e)
replay_evidence(events, concept) ==
    MapThenFoldSet(LAMBDA e, ev : Absorb(ev, e), Unassessed, LAMBDA e : e, Latest,
                   {e \in events : e.concept = concept})

-----------------------------------------------------------------------------
(* Prerequisites.                                                          *)

Reach(E, n) ==
    LET V == {n} \cup {e[1] : e \in E} \cup {e[2] : e \in E}
    IN {m \in V : \A S \in SUBSET V :
                     n \in S /\ (\A e \in E : e[1] \in S => e[2] \in S) => m \in S}
Cyclic(E) == \E e \in E : e[1] \in Reach(E, e[2])

\* Mutant: only a prerequisite in the opposite direction is looked for.
ReverseEdgeOnly(E, from, to) == from = to \/ <<to, from>> \in E

\* The depth-first search starts at new_from and meets every cycle that can
\* be reached from there, not only those through the new edge.
would_create_cycle(E, from, to) ==
    LET G == E \cup {<<from, to>>}
    IN \E e \in G : e[1] \in Reach(G, from) /\ e[1] \in Reach(G, e[2])

-----------------------------------------------------------------------------
(* Review cards.  Stability, difficulty and the due time are computed from *)
(* the previous ones and are left out.                                     *)

Card == [reps : Nat, lapses : Nat]
initial_card == [reps |-> 0, lapses |-> 0]

map_outcome_to_rating(correct, revealed, hinted) ==
    IF ~correct \/ revealed \/ hinted THEN "again" ELSE "good"

schedule(card, rating) ==
    IF rating = "again" THEN [reps |-> 0, lapses |-> card.lapses + 1]
    ELSE [card EXCEPT !.reps = @ + 1]
=============================================================================
