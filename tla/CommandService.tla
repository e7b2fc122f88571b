--------------------------- MODULE CommandService ---------------------------
(***************************************************************************)
(* What the protected-command path promises, whatever the debug unlock,    *)
(* the console and the operator do: requests are taken into service one at *)
(* a time, those that had to wait in the order they arrived, each is       *)
(* transmitted at most once and only while it is in service, no two        *)
(* waiting requests are the same, and a discard empties the service.       *)
(* A request that arrives while nothing is in service does not wait, even  *)
(* when others do: it overtakes them.                                      *)
(***************************************************************************)
EXTENDS Integers, Sequences

CONSTANTS Actions, MaxQueue, MaxRequests

VARIABLES
  accepted,     \* how many requests were accepted
  waiting,      \* the requests accepted and not yet in service
  inService,    \* the request in service, or Nobody
  sent,         \* the request in service was transmitted
  transmitted   \* the requests transmitted, in order

vars == <<accepted, waiting, inService, sent, transmitted>>

Request == [id : Nat, action : Actions]
Nobody == [id |-> 0, action |-> "none"]
NewRequest(action) == [id |-> accepted + 1, action |-> action]

Init ==
  /\ accepted = 0
  /\ waiting = <<>>
  /\ inService = Nobody
  /\ sent = FALSE
  /\ transmitted = <<>>

Begin(action) ==
  /\ inService = Nobody
  /\ accepted' = accepted + 1
  /\ inService' = NewRequest(action)
  /\ UNCHANGED <<waiting, sent, transmitted>>

Wait(action) ==
  /\ inService # Nobody
  /\ Len(waiting) < MaxQueue
  /\ \A i \in DOMAIN waiting : waiting[i].action # action
  /\ accepted' = accepted + 1
  /\ waiting' = Append(waiting, NewRequest(action))
  /\ UNCHANGED <<inService, sent, transmitted>>

Serve ==
  /\ inService = Nobody
  /\ waiting # <<>>
  /\ inService' = Head(waiting)
  /\ waiting' = Tail(waiting)
  /\ UNCHANGED <<accepted, sent, transmitted>>

Transmit ==
  /\ inService # Nobody
  /\ ~sent
  /\ sent' = TRUE
  /\ transmitted' = Append(transmitted, inService)
  /\ UNCHANGED <<accepted, waiting, inService>>

\* The request leaves the service, transmitted or given up.
Retire ==
  /\ inService # Nobody
  /\ inService' = Nobody
  /\ sent' = FALSE
  /\ UNCHANGED <<accepted, waiting, transmitted>>

Discard ==
  /\ inService' = Nobody
  /\ waiting' = <<>>
  /\ sent' = FALSE
  /\ UNCHANGED <<accepted, transmitted>>

Next ==
  \/ \E action \in Actions : Begin(action) \/ Wait(action)
  \/ Serve \/ Transmit \/ Retire \/ Discard

Spec == Init /\ [][Next]_vars
=============================================================================
