----------------------------- MODULE LeasedWork -----------------------------
(***************************************************************************)
(* What every queue of the worker promises of a piece of work: once it is  *)
(* offered it is done, failed or withdrawn in the end, whatever becomes of *)
(* the processes that take it up, and it is taken up a bounded number of   *)
(* times each time it is offered.                                          *)
(***************************************************************************)
EXTENDS Naturals

CONSTANTS
    Items,     \* pieces of work
    MaxTries   \* how often one may be taken up

VARIABLES
    work,   \* "none", "waiting" to be taken up, or "held" by a process
    tries   \* how often it was taken up since it was offered, 0 when it is not

workVars == <<work, tries>>

Init ==
    /\ work \in [Items -> {"none", "waiting"}]
    /\ tries = [i \in Items |-> 0]

Offer(i) ==
    /\ work[i] = "none"
    /\ work' = [work EXCEPT ![i] = "waiting"]
    /\ UNCHANGED tries

Claim(i) ==
    /\ work[i] = "waiting"
    /\ tries[i] < MaxTries
    /\ work' = [work EXCEPT ![i] = "held"]
    /\ tries' = [tries EXCEPT ![i] = @ + 1]

\* To be tried again, by choice or because its holder is gone.
GiveBack(i) ==
    /\ work[i] = "held"
    /\ work' = [work EXCEPT ![i] = "waiting"]
    /\ UNCHANGED tries

Settle(i) ==
    /\ work[i] # "none"
    /\ work' = [work EXCEPT ![i] = "none"]
    /\ tries' = [tries EXCEPT ![i] = 0]

Next == \E i \in Items : Offer(i) \/ Claim(i) \/ GiveBack(i) \/ Settle(i)

\* Nothing stays offered forever.
Served == \A i \in Items : work[i] # "none" ~> work[i] = "none"

Spec == Init /\ [][Next]_workVars /\ Served
=============================================================================
