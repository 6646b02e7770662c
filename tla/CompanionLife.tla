---------------------------- MODULE CompanionLife ----------------------------
(***************************************************************************)
(* What a companion promises those who read the lock directory.  A lock    *)
(* names it at most once in its life, from a moment at which its port is   *)
(* open; the port stays open until its tasks have been told to stop; and   *)
(* it does not end by itself before it has told them and its lock is gone. *)
(* It may be killed at any time, and then its lock stays until somebody    *)
(* sweeps it.                                                              *)
(***************************************************************************)
VARIABLES
    life,       \* "starting", "offering", "ended" by itself, or "killed"
    offered,    \* a lock names it
    open,       \* it listens on its port
    told        \* its tasks have been told to stop

lvars == <<life, offered, open, told>>

LTypeOK ==
    /\ life \in {"starting", "offering", "ended", "killed"}
    /\ offered \in BOOLEAN /\ open \in BOOLEAN /\ told \in BOOLEAN

LInit == life = "starting" /\ ~offered /\ ~told /\ open \in BOOLEAN

Listen ==
    /\ life = "starting"
    /\ open' = TRUE
    /\ UNCHANGED <<life, offered, told>>

Offer ==
    /\ life = "starting" /\ open /\ ~told
    /\ life' = "offering" /\ offered' = TRUE
    /\ UNCHANGED <<open, told>>

\* A listener that is lost goes in the step that tells the tasks.
Tell ==
    /\ life = "offering"
    /\ told' = TRUE
    /\ open' \in {open, FALSE}
    /\ UNCHANGED <<life, offered>>

Close ==
    /\ life = "offering" /\ told
    /\ open' = FALSE
    /\ UNCHANGED <<life, offered, told>>

\* By its owner, or by somebody who sweeps the directory or writes over the lock.
Withdraw ==
    /\ offered' = FALSE
    /\ UNCHANGED <<life, open, told>>

\* A companion that never offered itself may fail at any time.
End ==
    /\ ~offered
    /\ life = "offering" => told
    /\ life \in {"starting", "offering"}
    /\ life' = "ended" /\ open' = FALSE
    /\ UNCHANGED <<offered, told>>

Kill ==
    /\ life \in {"starting", "offering"}
    /\ life' = "killed" /\ open' = FALSE
    /\ UNCHANGED <<offered, told>>

LNext == Listen \/ Offer \/ Tell \/ Close \/ Withdraw \/ End \/ Kill

LSpec == LInit /\ [][LNext]_lvars

\* Once told, a companion that is not killed closes its port, withdraws and ends.
LFairSpec ==
    /\ LSpec
    /\ WF_lvars(Close)
    /\ WF_lvars(life = "offering" /\ told /\ Withdraw)
    /\ WF_lvars(life = "offering" /\ End)

\* What a reader may rely on.  A lock that nobody has begun to withdraw leads to an open
\* port, and who has ended by itself has left neither.
OffersAreGood ==
    /\ life = "starting" => ~offered /\ ~told
    /\ life = "offering" /\ ~told => open
    /\ life = "ended" => ~offered
    /\ life \in {"ended", "killed"} => ~open

\* A lock that is gone once its owner has started is gone for good.
Withdrawn     == life # "starting" /\ ~offered
NoSecondOffer == [](Withdrawn => []Withdrawn)
=============================================================================
