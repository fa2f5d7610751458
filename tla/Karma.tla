------------------------------- MODULE Karma -------------------------------
(***************************************************************************)
(* The karma policy (mt-core/karma KarmaPolicyBasic.cpp): accounts with an *)
(* atomic balance and an atomic tick stamp, changed without a lock by the  *)
(* threads that perform events for connections, while the refresh task     *)
(* (KarmaRefreshTask) advances the tick counter.                           *)
(*                                                                         *)
(* One action is one access to an atomic, except where two accesses follow *)
(* each other and the second one reads what only the refresh changes.      *)
(***************************************************************************)
EXTENDS Integers, Sequences, FiniteSetsExt

CONSTANTS
    Threads,
    Accounts,
    MayUse,      \* MayUse[t]: the accounts thread t performs events for
    Events,      \* names of karma events
    Actions,     \* the lists of events that callers pass
    Config,      \* the policy: a function from some events to effects
    Default,     \* the event name "*"
    MaxKarma,
    Word,        \* the number of values of std::size_t
    MaxTicks,    \* bound: refresh cycles
    MaxCalls     \* bound: calls per thread

\* An effect: "X" disconnects, a number is added, "=n" sets, anything else is
\* ignored.
Effects == [op : {"disconnect", "add", "set", "none"}, n : Int]

ASSUME KarmaAssumption ==
    /\ DOMAIN Config \subseteq Events
    /\ \A e \in DOMAIN Config : Config[e] \in Effects
    /\ \A e \in DOMAIN Config : Config[e].op = "set" => Config[e].n <= MaxKarma
    /\ Actions \subseteq Seq(Events)
    /\ Default \in Events
    /\ MaxKarma \in Nat
    /\ Word \in Nat /\ Word > MaxKarma
    /\ MaxTicks \in Nat /\ MaxCalls \in Nat
    /\ MayUse \in [Threads -> SUBSET Accounts]

VARIABLES
    karma,       \* Account::karma
    when,        \* Account::when
    tickAmounts, \* tick_amounts
    tickCounter, \* tick_counter
    refreshing,  \* refreshCycle has set tick_amounts, not yet tick_counter
    pc,
    call,        \* the call in progress: [op, account, action]
    old, tc, diff, new,   \* the locals of bringUpToDate
    calls        \* bound: calls made

globals == <<tickAmounts, tickCounter, refreshing>>
locals == <<old, tc, diff, new>>
vars == <<karma, when, tickAmounts, tickCounter, refreshing, pc, call, old, tc, diff,
          new, calls>>

PC == {"idle", "load", "ticks", "since", "sum", "cas", "stamp", "decide", "store"}

\* What couldPerform is asked about plays no part in its answer (GuessedPolicies).
Calls ==
    [op : {"perform"}, account : Accounts, action : Actions]
    \cup [op : {"couldPerform"}, account : Accounts, action : {<<>>}]

TypeOK ==
    /\ karma \in [Accounts -> Int]
    /\ when \in [Accounts -> 0 .. MaxTicks]
    /\ tickAmounts \in 0 .. Word - 1
    /\ tickCounter \in 0 .. MaxTicks
    /\ refreshing \in BOOLEAN
    /\ pc \in [Threads -> PC]
    /\ \A t \in Threads : pc[t] # "idle" => call[t] \in Calls
    /\ old \in [Threads -> Int]
    /\ tc \in [Threads -> 0 .. MaxTicks]
    /\ diff \in [Threads -> 0 .. Word - 1]
    /\ new \in [Threads -> Int]
    /\ calls \in [Threads -> 0 .. MaxCalls]

Init ==
    /\ karma = [a \in Accounts |-> MaxKarma]
    /\ when = [a \in Accounts |-> 0]
    /\ tickAmounts = 0
    /\ tickCounter = 0
    /\ refreshing = FALSE
    /\ pc = [t \in Threads |-> "idle"]
    /\ call = [t \in Threads |-> <<>>]
    /\ old = [t \in Threads |-> 0]
    /\ tc = [t \in Threads |-> 0]
    /\ diff = [t \in Threads |-> 0]
    /\ new = [t \in Threads |-> 0]
    /\ calls = [t \in Threads |-> 0]

-----------------------------------------------------------------------------
(* The policy *)

Zero == [op |-> "add", n |-> 0]

\* getPolicy: the event's own effect, the default effect, or nothing.
GetPolicy(e) ==
    IF e \in DOMAIN Config THEN Config[e]
    ELSE IF Default \in DOMAIN Config THEN Config[Default] ELSE Zero

\* getPolicies: an empty list of events stands for the default event.
GetPolicies(action) ==
    {GetPolicy(e) : e \in IF action = <<>> THEN {Default} ELSE {action[i] : i \in DOMAIN action}}

\* parseEffect, where it does not throw.
ParseEffect(balance, effect) ==
    CASE effect.op = "add" -> balance + effect.n
      [] effect.op = "set" -> effect.n
      [] OTHER -> balance

Disconnects(policies) == \E p \in policies : p.op = "disconnect"

\* afterwards: the worst of the present balance and every effect.
Afterwards(balance, policies) ==
    Min({balance} \cup {ParseEffect(balance, p) : p \in policies})

\* couldPerform passes the effect of its action where afterwards expects events:
\* an effect names no event, so the default effect decides.
GuessedPolicies(action) ==
    {IF Default \in DOMAIN Config THEN Config[Default] ELSE Zero}

-----------------------------------------------------------------------------
(* bringUpToDate *)

Goto(t, l) == pc' = [pc EXCEPT ![t] = l]

Begin(t) ==
    /\ pc[t] = "idle"
    /\ calls[t] < MaxCalls
    /\ \E c \in Calls : /\ c.account \in MayUse[t]
                        /\ call' = [call EXCEPT ![t] = c]
    /\ calls' = [calls EXCEPT ![t] = @ + 1]
    /\ Goto(t, "load")
    /\ UNCHANGED <<karma, when, globals, locals>>

\* old_karma = karma
LoadKarma(t) ==
    /\ pc[t] = "load"
    /\ old' = [old EXCEPT ![t] = karma[call[t].account]]
    /\ Goto(t, "ticks")
    /\ UNCHANGED <<karma, when, globals, call, tc, diff, new, calls>>

\* tc = tick_counter
LoadTicks(t) ==
    /\ pc[t] = "ticks"
    /\ tc' = [tc EXCEPT ![t] = tickCounter]
    /\ Goto(t, "since")
    /\ UNCHANGED <<karma, when, globals, call, old, diff, new, calls>>

\* tc - when, in std::size_t: a stamp that another thread has moved past tc gives
\* a very large number.
Since(now, stamp) == (now - stamp) % Word

\* diff = tc - when
LoadWhen(t) ==
    /\ pc[t] = "since"
    /\ diff' = [diff EXCEPT ![t] = Since(tc[t], when[call[t].account])]
    /\ Goto(t, "sum")
    /\ UNCHANGED <<karma, when, globals, call, old, tc, new, calls>>

\* Variant: the sum is not capped.
Sum_NoCap(balance, d) == (balance + d * tickAmounts) % Word

\* min(karma + diff * tick_amounts, MAX_KARMA)
Sum(balance, d) == Min({(balance + d * tickAmounts) % Word, MaxKarma})

\* The balance is read a second time.
AddUp(t) ==
    /\ pc[t] = "sum"
    /\ new' = [new EXCEPT ![t] = Sum(karma[call[t].account], diff[t])]
    /\ Goto(t, "cas")
    /\ UNCHANGED <<karma, when, globals, call, old, tc, diff, calls>>

\* The locals go out of scope.
Forget(t) ==
    /\ old' = [old EXCEPT ![t] = 0]
    /\ tc' = [tc EXCEPT ![t] = 0]
    /\ diff' = [diff EXCEPT ![t] = 0]
    /\ new' = [new EXCEPT ![t] = 0]

\* compare_exchange_strong
CompareExchange(t) ==
    LET a == call[t].account
    IN  /\ pc[t] = "cas"
        /\ \/ /\ karma[a] = old[t]
              /\ karma' = [karma EXCEPT ![a] = new[t]]
              /\ Goto(t, "stamp")
              /\ UNCHANGED locals
           \/ /\ karma[a] # old[t]
              /\ Goto(t, "load")
              /\ Forget(t)
              /\ UNCHANGED karma
        /\ UNCHANGED <<when, globals, call, calls>>

\* Variant: the stamp is forgotten.
Stamp_Kept(a, t) == when

Stamp(a, t) == [when EXCEPT ![a] = t]

\* when = tc
StampWhen(t) ==
    /\ pc[t] = "stamp"
    /\ when' = Stamp(call[t].account, tc[t])
    /\ Goto(t, "decide")
    /\ Forget(t)
    /\ UNCHANGED <<karma, globals, call, calls>>

-----------------------------------------------------------------------------
(* perform and couldPerform *)

Return(t) ==
    /\ call' = [call EXCEPT ![t] = <<>>]
    /\ Forget(t)
    /\ Goto(t, "idle")

Affordable(next) == next >= 0

\* prev = karma, and what the event leaves of it: perform() goes on to store it,
\* or throws XDisconnect or XKarma (KarmaAccount never forces); couldPerform()
\* returns.
Decide(t) ==
    LET prev == karma[call[t].account]
        performs == call[t].op = "perform"
        policies == IF performs THEN GetPolicies(call[t].action)
                    ELSE GuessedPolicies(call[t].action)
        next == Afterwards(prev, policies)
    IN  /\ pc[t] = "decide"
        /\ \/ /\ performs /\ ~Disconnects(policies) /\ Affordable(next)
              /\ new' = [new EXCEPT ![t] = next]
              /\ Goto(t, "store")
              /\ UNCHANGED <<call, old, tc, diff>>
           \/ /\ ~performs \/ Disconnects(policies) \/ ~Affordable(next)
              /\ Return(t)
        /\ UNCHANGED <<karma, when, globals, calls>>

\* karma = next, whatever the balance is by now.
Store(t) ==
    /\ pc[t] = "store"
    /\ karma' = [karma EXCEPT ![call[t].account] = new[t]]
    /\ Return(t)
    /\ UNCHANGED <<when, globals, calls>>

-----------------------------------------------------------------------------
(* The refresh task: refreshCycle sets the amount, then counts the tick. *)

Refresh == GetPolicy("refresh")

RefreshAmount ==
    /\ ~refreshing
    /\ tickCounter < MaxTicks
    /\ Refresh.op # "disconnect"
    /\ tickAmounts' = ParseEffect(0, Refresh) % Word
    /\ refreshing' = TRUE
    /\ UNCHANGED <<karma, when, tickCounter, pc, call, locals, calls>>

RefreshTick ==
    /\ refreshing
    /\ tickCounter' = tickCounter + 1
    /\ refreshing' = FALSE
    /\ UNCHANGED <<karma, when, tickAmounts, pc, call, locals, calls>>

Step(t) ==
    \/ LoadKarma(t) \/ LoadTicks(t) \/ LoadWhen(t) \/ AddUp(t) \/ CompareExchange(t)
    \/ StampWhen(t) \/ Decide(t) \/ Store(t)

Next ==
    \/ \E t \in Threads : Begin(t) \/ Step(t)
    \/ RefreshAmount \/ RefreshTick

Spec == Init /\ [][Next]_vars

-----------------------------------------------------------------------------
(* Properties *)

\* However the unlocked reads and writes of bringUpToDate and perform
\* interleave, and although tick differences wrap around, a balance stays
\* between nothing and MAX_KARMA.
BalanceInRange == \A a \in Accounts : karma[a] \in 0 .. MaxKarma

\* The accounts that one thread performs events for.
Unshared == {a \in Accounts : \A t, u \in Threads : a \in MayUse[t] \cap MayUse[u] => t = u}

\* The stamp of an account as the ledger knows it: between the exchange and the
\* stamp the ticks are already credited.
CreditedTicks ==
    [a \in Unshared |->
       LET writers == {t \in Threads : pc[t] = "stamp" /\ call[t].account = a}
       IN  IF writers = {} THEN when[a] ELSE tc[CHOOSE t \in writers : TRUE]]

EventCosts == 0 .. MaxKarma

Ledger == INSTANCE KarmaLedger WITH
    Accounts <- Unshared, balance <- [a \in Unshared |-> karma[a]],
    credited <- CreditedTicks, ticks <- tickCounter,
    amount <- tickAmounts, Costs <- EventCosts

\* With one thread at a time on an account, the lock-free account is a ledger:
\* every tick is credited once, no payment is lost, whatever the refresh does in
\* between.
LedgerKept == Ledger!Spec

\* Types, and what perform(), bringUpToDate() and the refresh leave in an account.
KarmaInv == TypeOK /\ BalanceInRange

-----------------------------------------------------------------------------
(* What one would expect from the code's own words, and what it does not do *)
(* (the README, Known deviations).                                          *)

\* What couldPerform() says of an action is what perform() would do with it now
\* (KarmaAccount::couldPerform reports "would be denied because balance is too
\* low").
CouldMeansWould ==
    \A a \in Accounts, action \in Actions :
       LET real == GetPolicies(action)
           guess == GuessedPolicies(action)
       IN  ~Disconnects(real) /\ ~Disconnects(guess)
           => (Afterwards(karma[a], guess) >= 0) = (Afterwards(karma[a], real) >= 0)
=============================================================================
