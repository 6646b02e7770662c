----------------------------- MODULE RequestReply -----------------------------
(***************************************************************************)
(* What both servers of the companion promise those who ask them, over LSP *)
(* or over MCP: requests are answered in the order they came, each exactly *)
(* once, and nothing is ever answered that was not asked.  A conversation  *)
(* may be over before every answer is out, but then it is over for good.   *)
(***************************************************************************)
EXTENDS Sequences

CONSTANTS Askers, Ids

VARIABLES
    open,       \* the askers whose conversation is not over
    waiting,    \* the requests of each that are not answered yet
    answered    \* those that are, as the answers went out

rvars == <<open, waiting, answered>>

RTypeOK ==
    /\ open \subseteq Askers
    /\ waiting \in [Askers -> Seq(Ids)] /\ answered \in [Askers -> Seq(Ids)]

RInit ==
    /\ open = Askers
    /\ waiting = [a \in Askers |-> <<>>] /\ answered = [a \in Askers |-> <<>>]

Ask(a, i) ==
    /\ a \in open
    /\ waiting' = [waiting EXCEPT ![a] = Append(@, i)]
    /\ UNCHANGED <<open, answered>>

Answer(a) ==
    /\ a \in open /\ waiting[a] # <<>>
    /\ answered' = [answered EXCEPT ![a] = Append(@, Head(waiting[a]))]
    /\ waiting' = [waiting EXCEPT ![a] = Tail(@)]
    /\ UNCHANGED open

Quit(a) ==
    /\ a \in open
    /\ open' = open \ {a}
    /\ waiting' = [waiting EXCEPT ![a] = <<>>]
    /\ UNCHANGED answered

RNext == \E a \in Askers : Answer(a) \/ Quit(a) \/ \E i \in Ids : Ask(a, i)

RSpec == RInit /\ [][RNext]_rvars

\* Nobody who asked waits forever.
RFairSpec ==
    RSpec /\ \A a \in Askers : WF_rvars(waiting[a] # <<>> /\ (Answer(a) \/ Quit(a)))
=============================================================================
