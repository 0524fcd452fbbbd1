----------------------------- MODULE CustomerLog -----------------------------
(***************************************************************************)
(* What API and queue promise about the customers, whatever the number of  *)
(* requests and consumers, however they interleave and whatever fails: the *)
(* committed changes form a log in which every customer has one life; a    *)
(* change is announced or its announcement is lost, never both and for     *)
(* good; and what is announced stays so until a consumer has handled it.   *)
(* CustomerMessages implements it.                                         *)
(***************************************************************************)
EXTENDS Naturals, Sequences

CONSTANT Customers

VARIABLES
    log,            \* the changes, [kind, id], oldest first
    announced,      \* those that consumers are or were told of, by number
    lost,           \* those that they are never told of
    handled         \* those a consumer has handled

vars == <<log, announced, lost, handled>>

Init ==
    /\ log = <<>>
    /\ announced = {}
    /\ lost = {}
    /\ handled = {}

\* Has a change of this kind been made to c?
Happened(kind, c) == \E i \in DOMAIN log : log[i] = [kind |-> kind, id |-> c]

Exists(c) == Happened("created", c) /\ ~ Happened("deleted", c)

Change(kind, c) ==
    /\ log' = Append(log, [kind |-> kind, id |-> c])
    /\ UNCHANGED <<announced, lost, handled>>

\* A customer is created before anything else happens to it.
Create(c) == (\A i \in DOMAIN log : log[i].id # c) /\ Change("created", c)

Update(c) == Exists(c) /\ Change("updated", c)

Delete(c) == Exists(c) /\ Change("deleted", c)

\* The changes of which nothing is decided yet.
Undecided == DOMAIN log \ (announced \cup lost)

Announce(n) ==
    /\ n \in Undecided
    /\ announced' = announced \cup {n}
    /\ UNCHANGED <<log, lost, handled>>

Lose(n) ==
    /\ n \in Undecided
    /\ lost' = lost \cup {n}
    /\ UNCHANGED <<log, announced, handled>>

\* At least once: a change that is handled again leaves the log as it is.
Handle(n) ==
    /\ n \in announced
    /\ handled' = handled \cup {n}
    /\ UNCHANGED <<log, announced, lost>>

Next ==
    \/ \E c \in Customers : Create(c) \/ Update(c) \/ Delete(c)
    \/ \E n \in DOMAIN log : Announce(n) \/ Lose(n) \/ Handle(n)

Spec == Init /\ [][Next]_vars
=============================================================================
