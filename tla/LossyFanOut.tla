----------------------------- MODULE LossyFanOut -----------------------------
(***************************************************************************)
(* What the event bus promises each connection, with no ring and no cursor *)
(* in sight: a queue of its own, which holds exactly the events published  *)
(* since it attached, in order.  The only loss allowed is from the front   *)
(* of a queue that has outgrown Window, and then exactly down to Window:   *)
(* the newest Window events are never lost.                                *)
(***************************************************************************)
EXTENDS Naturals, Sequences

CONSTANTS Clients, Events,
          Window      \* a positive number

VARIABLES attached, queue

qvars == <<attached, queue>>

QTypeOK == /\ attached \subseteq Clients
           /\ queue \in [Clients -> Seq(Events)]

QInit == attached = {} /\ queue = [c \in Clients |-> <<>>]

Attach(c) ==
    /\ c \notin attached
    /\ attached' = attached \cup {c}
    /\ UNCHANGED queue

Detach(c) ==
    /\ c \in attached
    /\ attached' = attached \ {c}
    /\ queue' = [queue EXCEPT ![c] = <<>>]

\* An event reaches every attached client, and nobody else.
Publish(e) ==
    /\ queue' = [c \in Clients |-> IF c \in attached THEN Append(queue[c], e)
                                                     ELSE queue[c]]
    /\ UNCHANGED attached

Deliver(c) ==
    /\ queue[c] # <<>>
    /\ Len(queue[c]) <= Window
    /\ queue' = [queue EXCEPT ![c] = Tail(queue[c])]
    /\ UNCHANGED attached

Overflow(c) ==
    /\ Len(queue[c]) > Window
    /\ queue' = [queue EXCEPT ![c] =
                    SubSeq(queue[c], Len(queue[c]) - Window + 1, Len(queue[c]))]
    /\ UNCHANGED attached

QNext == \/ \E c \in Clients : Attach(c) \/ Detach(c) \/ Deliver(c) \/ Overflow(c)
         \/ \E e \in Events : Publish(e)

QSpec == QInit /\ [][QNext]_qvars

\* A client that stays attached works its queue off.
QFairSpec == QSpec /\ \A c \in Clients : WF_qvars(Deliver(c) \/ Overflow(c))
=============================================================================
