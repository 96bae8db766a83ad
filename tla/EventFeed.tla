------------------------------ MODULE EventFeed ------------------------------
(***************************************************************************)
(* What the event stream of a background task promises its clients: while  *)
(* a client is subscribed it is sent every event at most once, past and    *)
(* future, except the events that were still unsettled (or never meant for *)
(* it) when it subscribed; and a settled event stays available to the next *)
(* subscriber.  How events are stored and fanned out is left open.         *)
(***************************************************************************)
EXTENDS Naturals, Sequences

CONSTANTS
  Clients,
  First      \* the client whose message started the task: it needs no replay

VARIABLES
  published,   \* number of events published; event i is the i-th
  settled,     \* the events every later subscriber can be given
  on,          \* the clients subscribed
  seen,        \* per client: the events sent to it since it subscribed
  waived       \* per client: the events it will not be sent

vars == <<published, settled, on, seen, waived>>

Init ==
  /\ published = 0
  /\ settled = {}
  /\ on = {}
  /\ seen = [c \in Clients |-> <<>>]
  /\ waived = [c \in Clients |-> {}]

Publish ==
  /\ published' = published + 1
  /\ UNCHANGED <<settled, on, seen, waived>>

Settle(e) ==
  /\ e \in (1 .. published) \ settled
  /\ settled' = settled \cup {e}
  /\ UNCHANGED <<published, on, seen, waived>>

SubscribeWith(c, lost) ==
  /\ on' = on \cup {c}
  /\ seen' = [seen EXCEPT ![c] = <<>>]
  /\ waived' = [waived EXCEPT ![c] = lost]
  /\ UNCHANGED <<published, settled>>

Subscribe(c) == SubscribeWith(c, (1 .. published) \ settled)

SubscribeFirst == SubscribeWith(First, 1 .. published)

Sent(c) == {seen[c][i] : i \in 1 .. Len(seen[c])}

Deliver(c, e) ==
  /\ c \in on
  /\ e \in (1 .. published) \ (waived[c] \cup Sent(c))
  /\ seen' = [seen EXCEPT ![c] = Append(@, e)]
  /\ UNCHANGED <<published, settled, on, waived>>

Unsubscribe(c) ==
  /\ c \in on
  /\ on' = on \ {c}
  /\ seen' = [seen EXCEPT ![c] = <<>>]
  /\ waived' = [waived EXCEPT ![c] = {}]
  /\ UNCHANGED <<published, settled>>

Next ==
  \/ Publish
  \/ \E e \in 1 .. published : Settle(e)
  \/ SubscribeFirst
  \/ \E c \in Clients : \/ Subscribe(c)
                        \/ Unsubscribe(c)
                        \/ \E e \in 1 .. published : Deliver(c, e)

Spec == Init /\ [][Next]_vars
=============================================================================
