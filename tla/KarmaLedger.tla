---------------------------- MODULE KarmaLedger ----------------------------
(***************************************************************************)
(* What a karma account promises: every refresh tick is credited once, up  *)
(* to the maximum, and an accepted event is paid for in full.              *)
(***************************************************************************)
EXTENDS Integers

CONSTANTS
    Accounts,
    MaxKarma,   \* no balance is above it
    Costs       \* what events may cost

VARIABLES
    balance,    \* per account
    credited,   \* per account: the ticks credited so far
    ticks,      \* refresh ticks so far
    amount      \* karma per tick

ledger == <<balance, credited, ticks, amount>>

Init ==
    /\ balance = [a \in Accounts |-> MaxKarma]
    /\ credited = [a \in Accounts |-> 0]
    /\ ticks = 0
    /\ amount = 0

SetAmount ==
    /\ amount' \in Int
    /\ UNCHANGED <<balance, credited, ticks>>

Tick ==
    /\ ticks' = ticks + 1
    /\ UNCHANGED <<balance, credited, amount>>

\* Credit the ticks up to some tick that has happened.
Credit(a) ==
    \E t \in credited[a] .. ticks :
       LET sum == balance[a] + (t - credited[a]) * amount
       IN  /\ balance' = [balance EXCEPT ![a] = IF sum < MaxKarma THEN sum ELSE MaxKarma]
           /\ credited' = [credited EXCEPT ![a] = t]
           /\ UNCHANGED <<ticks, amount>>

Pay(a) ==
    \E c \in Costs :
       /\ c <= balance[a]
       /\ balance' = [balance EXCEPT ![a] = @ - c]
       /\ UNCHANGED <<credited, ticks, amount>>

Next ==
    \/ SetAmount \/ Tick
    \/ \E a \in Accounts : Credit(a) \/ Pay(a)

Spec == Init /\ [][Next]_ledger
=============================================================================
