----------------------------- MODULE TimerTable -----------------------------
(***************************************************************************)
(* What node.ohn's timeout.ohn promises to the event loop: a table of      *)
(* slots with a deadline each.  `deadline' is a function whose domain is   *)
(* the set of slots that have a timer; `reply' is what the last call       *)
(* returned.  How the calls find the earliest deadline is not said here.   *)
(***************************************************************************)
EXTENDS Integers

CONSTANTS
    Slots,      \* connection slots, a set of naturals
    Times       \* the instants deadlines and clock readings come from

VARIABLES deadline, reply

vars == <<deadline, reply>>

Timed == DOMAIN deadline

\* The timed slots no other timed slot is due before.
Earliest == {s \in Timed : \A r \in Timed : deadline[s] <= deadline[r]}

\* The slots a poll at time `now' may hand over.
Due(now) == {s \in Earliest : deadline[s] <= now}

Without(s) == [r \in Timed \ {s} |-> deadline[r]]

Init ==
    /\ deadline = [s \in {} |-> 0]
    /\ reply = 0

Add(s, t) ==
    /\ s \notin Timed
    /\ deadline' = [r \in Timed \cup {s} |-> IF r = s THEN t ELSE deadline[r]]
    /\ reply' = 0

Touch(s, t) ==
    \/ /\ s \in Timed
       /\ deadline' = [deadline EXCEPT ![s] = t]
       /\ reply' = 0
    \/ /\ s \notin Timed
       /\ reply' = -1
       /\ UNCHANGED deadline

RemoveTimer(s) ==
    \/ /\ s \in Timed
       /\ deadline' = Without(s)
       /\ reply' = 0
    \/ /\ s \notin Timed
       /\ reply' = -1
       /\ UNCHANGED deadline

Poll(now) ==
    \/ \E s \in Due(now) : deadline' = Without(s) /\ reply' = s
    \/ Due(now) = {} /\ reply' = -1 /\ UNCHANGED deadline

Next ==
    \/ \E s \in Slots, t \in Times : Add(s, t) \/ Touch(s, t)
    \/ \E s \in Slots : RemoveTimer(s)
    \/ \E now \in Times : Poll(now)

Spec == Init /\ [][Next]_vars
=============================================================================
