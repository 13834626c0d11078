------------------------------- MODULE Custody -------------------------------
(***************************************************************************)
(* What the booking rail promises about a client's money, and nothing      *)
(* else: a payment's money is taken into escrow at most once and whole,    *)
(* and only money that was taken is given back, in parts that never exceed *)
(* what was taken.                                                         *)
(***************************************************************************)
EXTENDS Naturals

CONSTANTS Payments,   \* payment ids
          Amount      \* what each payment takes when it is captured

VARIABLES taken,      \* payments whose money the escrow received
          returned    \* how much of it was given back to the client

CustodyInit == taken = {} /\ returned = [p \in Payments |-> 0]

Take(p) ==
    /\ p \notin taken
    /\ taken' = taken \cup {p}
    /\ UNCHANGED returned

GiveBack(p, amount) ==
    /\ p \in taken
    /\ returned[p] + amount <= Amount[p]
    /\ returned' = [returned EXCEPT ![p] = @ + amount]
    /\ UNCHANGED taken

CustodyNext ==
    \E p \in Payments :
        \/ Take(p)
        \/ \E amount \in 1 .. Amount[p] : GiveBack(p, amount)

CustodySpec == CustodyInit /\ [][CustodyNext]_<<taken, returned>>
=============================================================================
