------------------------------- MODULE Tickets -------------------------------
(***************************************************************************)
(* What the session keys promise, whichever files and processes they pass  *)
(* through: a ticket is ordered under a name, and opens the door of the    *)
(* game for a minute, unless another one is ordered under the name before  *)
(* it is shown.  A ticket may be lost on the way, and the door may fail to *)
(* open for a good one; such failures are counted.                         *)
(***************************************************************************)
EXTENDS Naturals

CONSTANTS Client, Name, Ticket, None, Minute,
          Blank   \* the card of a client that has shown none

VARIABLES
    ordered,  \* the ticket that is ordered under a name, or None
    valid,    \* the ticket that opens the door under a name, or None
    until,    \* when it expires
    door,     \* a client is "out", has "shown" a ticket, is "in" or "refused"
    card,     \* the name and the ticket that a client has shown
    limit,    \* when the ticket that a client has shown expires
    failed,   \* failures so far
    now

tickets == <<ordered, valid, until>>
vars == <<tickets, door, card, limit, failed, now>>

Init ==
    /\ ordered = [n \in Name |-> None]
    /\ valid = [n \in Name |-> None]
    /\ until = [n \in Name |-> 0]
    /\ door = [k \in Client |-> "out"]
    /\ card = [k \in Client |-> Blank]
    /\ limit = [k \in Client |-> 0]
    /\ failed = 0
    /\ now = 1

\* An order voids the ticket that is there.
Order(n, x) ==
    /\ ordered' = [ordered EXCEPT ![n] = x]
    /\ valid' = [valid EXCEPT ![n] = None]
    /\ until' = [until EXCEPT ![n] = 0]
    /\ UNCHANGED <<door, card, limit, failed, now>>

Issue(n) ==
    /\ ordered[n] # None
    /\ ordered' = [ordered EXCEPT ![n] = None]
    /\ valid' = [valid EXCEPT ![n] = ordered[n]]
    /\ \E t \in 1 .. now + Minute : until' = [until EXCEPT ![n] = t]
    /\ UNCHANGED <<door, card, limit, failed, now>>

Lose(n) ==
    /\ ordered[n] # None
    /\ ordered' = [ordered EXCEPT ![n] = None]
    /\ failed' \in {failed, failed + 1}
    /\ UNCHANGED <<valid, until, door, card, limit, now>>

\* Something fails that costs nobody a ticket.
Fail == failed' = failed + 1 /\ UNCHANGED <<tickets, door, card, limit, now>>

Pass(k, from, to) ==
    /\ door[k] = from
    /\ door' = [door EXCEPT ![k] = to]
    /\ UNCHANGED <<tickets, now>>

\* A client comes to the door as n with ticket x: it is refused only for another ticket
\* than the one that is valid, or by a failure.
Present(k, n, x) ==
    /\ card' = [card EXCEPT ![k] = [name |-> n, key |-> x]]
    /\ \/ /\ valid[n] = x
          /\ Pass(k, "out", "shown")
          /\ limit' = [limit EXCEPT ![k] = until[n]]
          /\ UNCHANGED failed
       \/ /\ valid[n] # x
          /\ Pass(k, "out", "refused")
          /\ UNCHANGED <<limit, failed>>
       \/ /\ Pass(k, "out", "refused")
          /\ failed' = failed + 1
          /\ UNCHANGED limit

Judge(k) ==
    /\ \/ now <= limit[k] /\ Pass(k, "shown", "in")
       \/ now > limit[k] /\ Pass(k, "shown", "refused")
    /\ limit' = [limit EXCEPT ![k] = 0]
    /\ UNCHANGED <<card, failed>>

Return(k) ==
    /\ Pass(k, "in", "out") \/ Pass(k, "refused", "out")
    /\ card' = [card EXCEPT ![k] = Blank]
    /\ UNCHANGED <<limit, failed>>

Wait == now' = now + 1 /\ UNCHANGED <<tickets, door, card, limit, failed>>

\* The way of a client through the door.
Visit(k) ==
    \/ door[k] = "out" /\ \E n \in Name, x \in Ticket : Present(k, n, x)
    \/ Judge(k) \/ Return(k)

Next ==
    \/ \E k \in Client : Visit(k)
    \/ \E n \in Name : Issue(n) \/ Lose(n) \/ \E x \in Ticket : Order(n, x)
    \/ Fail \/ Wait

Spec == Init /\ [][Next]_vars

=============================================================================
