---------------------------- MODULE Karma_proofs ----------------------------
(***************************************************************************)
(* A karma balance stays between nothing and MAX_KARMA however the threads *)
(* interleave, and an account that one thread uses is a ledger.            *)
(***************************************************************************)
EXTENDS Karma, FiniteSetTheorems, TLAPS

-----------------------------------------------------------------------------
(* The worst outcome *)

\* A finite set of integers with an element has a smallest one, which Min finds.
LEMMA MinExists ==
    ASSUME NEW S \in SUBSET Int, IsFiniteSet(S), S # {}
    PROVE  Min(S) \in S /\ \A y \in S : Min(S) <= y
<1> DEFINE UpTo(x) == {z \in S : z <= x}
           T == {UpTo(x) : x \in S}
           R == StrictSubsetOrdering(S)
<1>1. T \subseteq SUBSET S /\ T # {}
  OBVIOUS
<1>2. IsWellFoundedOn(R, SUBSET S)
  BY FS_StrictSubsetOrderingWellFounded, FS_FiniteSubsetsOfFinite
<1> HIDE DEF T, R
<1>3. PICK u \in T : \A v \in T : <<v, u>> \notin R
  BY <1>1, <1>2, WFMin
<1>4. PICK x \in S : u = UpTo(x)
  BY <1>3 DEF T
<1>5. ASSUME NEW y \in S
      PROVE  x <= y
  <2>1. x \in Int /\ y \in Int /\ \A z \in S : z \in Int
    OBVIOUS
  <2>2. UpTo(y) \in T /\ UpTo(y) \subseteq S /\ UpTo(x) \subseteq S
    BY DEF T
  <2>3. <<UpTo(y), UpTo(x)>> \notin R
    BY <1>3, <1>4, <2>2
  <2>4. ASSUME y < x
        PROVE  FALSE
    <3>1. \A z \in S : z <= y => z <= x
      BY <2>1, <2>4
    <3>2. UpTo(y) \subseteq UpTo(x)
      BY <3>1
    <3>3. x \in UpTo(x) /\ x \notin UpTo(y)
      BY <2>1, <2>4
    <3> HIDE DEF UpTo
    <3>4. UpTo(y) # UpTo(x)
      BY <3>3
    <3> QED
      BY <2>2, <2>3, <3>2, <3>4 DEF R, StrictSubsetOrdering
  <2> QED
    BY <2>1, <2>4
<1> QED
  BY <1>5 DEF Min

\* Of two numbers Min takes the smaller one.
LEMMA MinOfTwo ==
    ASSUME NEW x \in Int, NEW y \in Int
    PROVE  Min({x, y}) = IF x < y THEN x ELSE y
<1> DEFINE m == IF x < y THEN x ELSE y
<1>1. m \in {x, y} /\ \A z \in {x, y} : m <= z
  OBVIOUS
<1>2. \A z \in {x, y} : (\A w \in {x, y} : z <= w) => z = m
  OBVIOUS
<1> HIDE DEF m
<1> QED
  BY <1>1, <1>2 DEF Min

\* Every event has an effect, its own, the default one or none.
LEMMA PolicyType == \A e : GetPolicy(e) \in Effects
  BY KarmaAssumption DEF GetPolicy, Zero, Effects

\* The image of a finite set is finite.
LEMMA ImageFinite ==
    ASSUME NEW S, IsFiniteSet(S), NEW f, S = DOMAIN f
    PROVE  IsFiniteSet({f[x] : x \in S})
<1> DEFINE T == {f[x] : x \in S}
           g == [x \in S |-> f[x]]
<1>1. g \in Surjection(S, T)
  BY DEF Surjection
<1> QED
  BY <1>1, FS_Surjection

\* What a list of events leaves of a balance is a number, and no more than there
\* was.
LEMMA AfterwardsType ==
    ASSUME NEW balance \in Int, NEW action \in Actions
    PROVE  /\ Afterwards(balance, GetPolicies(action)) \in Int
           /\ Afterwards(balance, GetPolicies(action)) <= balance
<1> DEFINE named == {action[i] : i \in DOMAIN action}
           events == IF action = <<>> THEN {Default} ELSE named
           getPolicy == [e \in events |-> GetPolicy(e)]
           policies == {getPolicy[e] : e \in events}
           parse == [p \in policies |-> ParseEffect(balance, p)]
           results == {parse[p] : p \in policies}
<1>1. IsFiniteSet(events)
  <2>1. action \in Seq(Events)
    BY KarmaAssumption
  <2>2. DOMAIN action = 1..Len(action) /\ Len(action) \in Nat
    BY <2>1
  <2>3. IsFiniteSet(DOMAIN action)
    BY <2>2, FS_Interval
  <2>4. IsFiniteSet(named)
    BY <2>3, ImageFinite
  <2> QED
    BY <2>4, FS_Singleton
<1>2. IsFiniteSet(policies) /\ policies \subseteq Effects
  <2> HIDE DEF events
  <2> QED
    BY <1>1, ImageFinite, PolicyType
<1>3. IsFiniteSet(results) /\ results \subseteq Int
  <2>1. \A p \in Effects : ParseEffect(balance, p) \in Int
    BY DEF ParseEffect, Effects
  <2> HIDE DEF policies
  <2> QED
    BY <1>2, <2>1, ImageFinite
<1>4. Afterwards(balance, GetPolicies(action)) = Min(results \cup {balance})
  <2>1. GetPolicies(action) = policies
    BY DEF GetPolicies
  <2> HIDE DEF policies
  <2>2. results = {ParseEffect(balance, p) : p \in policies}
    OBVIOUS
  <2> QED
    BY <2>1, <2>2 DEF Afterwards
<1> HIDE DEF results
<1>5. IsFiniteSet(results \cup {balance}) /\ results \cup {balance} \in SUBSET Int
  BY <1>3, FS_AddElement
<1> DEFINE S == results \cup {balance}
<1>6. S # {} /\ balance \in S
  OBVIOUS
<1> HIDE DEF S
<1>7. Min(S) \in S /\ Min(S) <= balance
  BY <1>5, <1>6, MinExists DEF S
<1> QED
  BY <1>4, <1>5, <1>7 DEF S

-----------------------------------------------------------------------------
(* Balances stay in range *)

\* What a tick is worth once refreshCycle has run.
TickAmount == ParseEffect(0, Refresh) % Word

\* A thread works on an account that is its own or shared with it.
CallInv ==
    /\ call \in [Threads -> Calls \cup {<<>>}]
    /\ \A t \in Threads : pc[t] # "idle" => call[t].account \in MayUse[t]

\* What a thread is about to write is a balance.
NewInv == \A t \in Threads : pc[t] \in {"cas", "store"} => new[t] \in 0 .. MaxKarma

\* No stamp and no tick that was read is ahead of the counter, and a tick that
\* was counted has its amount.
TickInv ==
    /\ refreshing => tickCounter < MaxTicks
    /\ refreshing \/ tickCounter > 0 => tickAmounts = TickAmount
    /\ \A a \in Accounts : when[a] <= tickCounter
    /\ \A t \in Threads : tc[t] <= tickCounter

BalanceInv == TypeOK /\ BalanceInRange /\ CallInv /\ NewInv /\ TickInv

\* Sum is a balance whatever wraps around.
LEMMA SumType ==
    ASSUME NEW balance \in Int, NEW d \in Int, tickAmounts \in Int
    PROVE  Sum(balance, d) \in 0 .. MaxKarma
<1> DEFINE x == balance + d * tickAmounts
<1>1. x \in Int
  OBVIOUS
<1> HIDE DEF x
<1>2. x % Word \in 0 .. Word - 1 /\ MaxKarma \in Nat /\ Word \in Nat
  BY <1>1, KarmaAssumption
<1>3. x % Word \in Int
  BY <1>2
<1> DEFINE y == x % Word
<1> HIDE DEF y
<1>4. Min({y, MaxKarma}) = IF y < MaxKarma THEN y ELSE MaxKarma
  BY <1>2, <1>3, MinOfTwo DEF y
<1>5. y \in Nat
  BY <1>2 DEF y
<1> QED
  BY <1>2, <1>4, <1>5 DEF Sum, x, y

LEMMA TickAmountType == TickAmount \in 0 .. Word - 1
<1>1. ParseEffect(0, Refresh) \in Int
  BY PolicyType DEF ParseEffect, Refresh, Effects
<1> QED
  BY <1>1, KarmaAssumption DEF TickAmount

LEMMA InitBalanceInv == Init => BalanceInv
<1> SUFFICES ASSUME Init PROVE BalanceInv
  OBVIOUS
<1> USE KarmaAssumption DEF Init
<1>1. TypeOK
  <2>1. 0 \in 0 .. Word - 1 /\ 0 \in 0 .. MaxTicks /\ 0 \in 0 .. MaxCalls /\ MaxKarma \in Int /\ 0 \in Int
    OBVIOUS
  <2>2. karma \in [Accounts -> Int] /\ when \in [Accounts -> 0 .. MaxTicks]
    BY <2>1
  <2>3. /\ old \in [Threads -> Int] /\ new \in [Threads -> Int]
        /\ tc \in [Threads -> 0 .. MaxTicks]
        /\ diff \in [Threads -> 0 .. Word - 1]
        /\ calls \in [Threads -> 0 .. MaxCalls]
    BY <2>1
  <2>4. pc \in [Threads -> PC] /\ \A t \in Threads : pc[t] = "idle"
    BY DEF PC
  <2> QED
    BY <2>1, <2>2, <2>3, <2>4 DEF TypeOK
<1>2. BalanceInRange /\ NewInv /\ TickInv
  BY DEF BalanceInRange, NewInv, TickInv
<1>3. CallInv
  BY DEF CallInv
<1> QED
  BY <1>1, <1>2, <1>3 DEF BalanceInv

\* Where call[t] leads.
LEMMA CallType ==
    ASSUME BalanceInv, NEW t \in Threads, pc[t] # "idle"
    PROVE  /\ call[t] \in Calls
           /\ call[t].account \in Accounts
           /\ call[t].op = "perform" => call[t].action \in Actions
<1>1. call[t] \in Calls
  BY DEF BalanceInv, TypeOK
<1> QED
  BY <1>1 DEF Calls

\* Every step keeps the balances in range.
LEMMA BalanceStep == BalanceInv /\ [Next]_vars => BalanceInv'
<1> SUFFICES ASSUME BalanceInv, [Next]_vars PROVE BalanceInv'
  OBVIOUS
<1> USE DEF BalanceInv
<1>a. MaxKarma \in Nat /\ Word \in Nat /\ MaxTicks \in Nat /\ MaxCalls \in Nat /\ MaxKarma < Word
  BY KarmaAssumption
<1>1. ASSUME NEW t \in Threads, Begin(t)
      PROVE  BalanceInv'
  <2>1. PICK c \in Calls : c.account \in MayUse[t] /\ call' = [call EXCEPT ![t] = c]
    BY <1>1 DEF Begin
  <2>2. pc' = [pc EXCEPT ![t] = "load"] /\ calls' = [calls EXCEPT ![t] = @ + 1] /\ calls[t] < MaxCalls
        /\ UNCHANGED <<karma, when, tickAmounts, tickCounter, refreshing, old, tc, diff, new>>
    BY <1>1 DEF Begin, Goto, globals, locals
  <2>3. CallInv'
    BY <2>1, <2>2 DEF CallInv, TypeOK
  <2>4. TypeOK'
    BY <1>a, <2>1, <2>2 DEF TypeOK, PC, CallInv
  <2>5. BalanceInRange' /\ NewInv' /\ TickInv'
    BY <2>2 DEF BalanceInRange, NewInv, TickInv, TypeOK
  <2> QED
    BY <2>3, <2>4, <2>5
<1>2. ASSUME NEW t \in Threads, LoadKarma(t)
      PROVE  BalanceInv'
  <2>1. call[t].account \in Accounts /\ pc[t] = "load"
    BY <1>2, CallType DEF LoadKarma
  <2>2. old' = [old EXCEPT ![t] = karma[call[t].account]] /\ pc' = [pc EXCEPT ![t] = "ticks"]
        /\ UNCHANGED <<karma, when, tickAmounts, tickCounter, refreshing, call, tc, diff, new, calls>>
    BY <1>2 DEF LoadKarma, Goto, globals
  <2>3. TypeOK'
    BY <2>1, <2>2 DEF TypeOK, PC
  <2>4. BalanceInRange' /\ NewInv' /\ TickInv' /\ CallInv'
    BY <2>1, <2>2 DEF BalanceInRange, NewInv, TickInv, CallInv, TypeOK
  <2> QED
    BY <2>3, <2>4
<1>3. ASSUME NEW t \in Threads, LoadTicks(t)
      PROVE  BalanceInv'
  <2>1. pc[t] = "ticks" /\ tc' = [tc EXCEPT ![t] = tickCounter] /\ pc' = [pc EXCEPT ![t] = "since"]
        /\ UNCHANGED <<karma, when, tickAmounts, tickCounter, refreshing, call, old, diff, new, calls>>
    BY <1>3 DEF LoadTicks, Goto, globals
  <2>2. TypeOK'
    BY <2>1 DEF TypeOK, PC
  <2>3. BalanceInRange' /\ NewInv' /\ TickInv' /\ CallInv'
    BY <1>a, <2>1 DEF BalanceInRange, NewInv, TickInv, CallInv, TypeOK
  <2> QED
    BY <2>2, <2>3
<1>4. ASSUME NEW t \in Threads, LoadWhen(t)
      PROVE  BalanceInv'
  <2>1. call[t].account \in Accounts /\ pc[t] = "since"
    BY <1>4, CallType DEF LoadWhen
  <2>2. diff' = [diff EXCEPT ![t] = Since(tc[t], when[call[t].account])]
        /\ pc' = [pc EXCEPT ![t] = "sum"]
        /\ UNCHANGED <<karma, when, tickAmounts, tickCounter, refreshing, call, old, tc, new, calls>>
    BY <1>4 DEF LoadWhen, Goto, globals
  <2>3. Since(tc[t], when[call[t].account]) \in 0 .. Word - 1
    <3>1. tc[t] \in Int /\ when[call[t].account] \in Int
      BY <1>a, <2>1 DEF TypeOK
    <3> QED
      BY <1>a, <3>1 DEF Since
  <2>4. TypeOK'
    BY <2>1, <2>2, <2>3 DEF TypeOK, PC
  <2>5. BalanceInRange' /\ NewInv' /\ TickInv' /\ CallInv'
    BY <2>1, <2>2 DEF BalanceInRange, NewInv, TickInv, CallInv, TypeOK
  <2> QED
    BY <2>4, <2>5
<1>5. ASSUME NEW t \in Threads, AddUp(t)
      PROVE  BalanceInv'
  <2>1. call[t].account \in Accounts /\ pc[t] = "sum"
    BY <1>5, CallType DEF AddUp
  <2> DEFINE s == Sum(karma[call[t].account], diff[t])
  <2>2. new' = [new EXCEPT ![t] = s] /\ pc' = [pc EXCEPT ![t] = "cas"]
        /\ UNCHANGED <<karma, when, tickAmounts, tickCounter, refreshing, call, old, tc, diff, calls>>
    BY <1>5 DEF AddUp, Goto, globals
  <2>3. s \in 0 .. MaxKarma
    <3>1. karma[call[t].account] \in Int /\ diff[t] \in Int /\ tickAmounts \in Int
      BY <1>a, <2>1 DEF TypeOK
    <3> QED
      BY <3>1, SumType
  <2>4. s \in Int
    BY <1>a, <2>3
  <2> HIDE DEF s
  <2>5. TypeOK'
    BY <2>1, <2>2, <2>4 DEF TypeOK, PC
  <2>6. NewInv'
    BY <2>2, <2>3 DEF NewInv, TypeOK
  <2>7. BalanceInRange' /\ TickInv' /\ CallInv'
    BY <2>1, <2>2 DEF BalanceInRange, TickInv, CallInv, TypeOK
  <2> QED
    BY <2>5, <2>6, <2>7
<1>6. ASSUME NEW t \in Threads, CompareExchange(t)
      PROVE  BalanceInv'
  <2> DEFINE a == call[t].account
  <2>1. a \in Accounts /\ pc[t] = "cas"
    BY <1>6, CallType DEF CompareExchange
  <2>2. UNCHANGED <<when, tickAmounts, tickCounter, refreshing, call, calls>>
    BY <1>6 DEF CompareExchange, globals
  <2>3. CASE /\ karma' = [karma EXCEPT ![a] = new[t]]
             /\ pc' = [pc EXCEPT ![t] = "stamp"]
             /\ UNCHANGED <<old, tc, diff, new>>
    <3>1. TypeOK'
      BY <2>1, <2>2, <2>3 DEF TypeOK, PC
    <3>2. BalanceInRange'
      BY <2>1, <2>3 DEF BalanceInRange, NewInv, TypeOK
    <3>3. NewInv' /\ TickInv' /\ CallInv'
      BY <2>1, <2>2, <2>3 DEF NewInv, TickInv, CallInv, TypeOK
    <3> QED
      BY <3>1, <3>2, <3>3
  <2>4. CASE /\ pc' = [pc EXCEPT ![t] = "load"]
             /\ Forget(t)
             /\ karma' = karma
    <3>1. TypeOK'
      BY <1>a, <2>1, <2>2, <2>4 DEF TypeOK, PC, Forget
    <3>2. BalanceInRange' /\ CallInv'
      BY <2>1, <2>2, <2>4 DEF BalanceInRange, CallInv, TypeOK
    <3>3. NewInv' /\ TickInv'
      BY <1>a, <2>1, <2>2, <2>4 DEF NewInv, TickInv, TypeOK, Forget
    <3> QED
      BY <3>1, <3>2, <3>3
  <2> QED
    BY <1>6, <2>3, <2>4 DEF CompareExchange, Goto, locals
<1>7. ASSUME NEW t \in Threads, StampWhen(t)
      PROVE  BalanceInv'
  <2> DEFINE a == call[t].account
  <2>1. a \in Accounts /\ pc[t] = "stamp"
    BY <1>7, CallType DEF StampWhen
  <2>2. /\ when' = [when EXCEPT ![a] = tc[t]] /\ pc' = [pc EXCEPT ![t] = "decide"]
        /\ Forget(t)
        /\ UNCHANGED <<karma, tickAmounts, tickCounter, refreshing, call, calls>>
    BY <1>7 DEF StampWhen, Stamp, Goto, globals
  <2>3. TypeOK'
    BY <1>a, <2>1, <2>2 DEF TypeOK, PC, Forget
  <2>4. BalanceInRange' /\ CallInv' /\ NewInv'
    BY <2>1, <2>2 DEF BalanceInRange, CallInv, NewInv, TypeOK, Forget
  <2>5. TickInv'
    BY <1>a, <2>1, <2>2 DEF TickInv, TypeOK, Forget
  <2> QED
    BY <2>3, <2>4, <2>5
<1>r. ASSUME NEW t \in Threads, Return(t), pc[t] # "idle", TypeOK, BalanceInRange', karma' \in [Accounts -> Int],
             UNCHANGED <<when, tickAmounts, tickCounter, refreshing, calls>>
      PROVE  BalanceInv'
  <2>1. call' = [call EXCEPT ![t] = <<>>] /\ Forget(t) /\ pc' = [pc EXCEPT ![t] = "idle"]
    BY <1>r DEF Return, Goto
  <2>2. TypeOK'
    BY <1>a, <1>r, <2>1 DEF TypeOK, PC, Forget, CallInv
  <2>3. CallInv'
    BY <1>r, <2>1 DEF CallInv, TypeOK
  <2>4. NewInv' /\ TickInv'
    BY <1>a, <1>r, <2>1 DEF NewInv, TickInv, TypeOK, Forget
  <2> QED
    BY <1>r, <2>2, <2>3, <2>4
<1>8. ASSUME NEW t \in Threads, Decide(t)
      PROVE  BalanceInv'
  <2> DEFINE prev == karma[call[t].account]
             next == Afterwards(prev, GetPolicies(call[t].action))
  <2>1. call[t].account \in Accounts /\ pc[t] = "decide" /\ (call[t].op = "perform" => call[t].action \in Actions)
    BY <1>8, CallType DEF Decide
  <2>2. UNCHANGED <<karma, when, tickAmounts, tickCounter, refreshing, calls>>
    BY <1>8 DEF Decide, globals
  <2>3. prev \in 0 .. MaxKarma
    BY <2>1 DEF BalanceInRange
  <2>4. CASE /\ call[t].op = "perform"
             /\ next >= 0
             /\ new' = [new EXCEPT ![t] = next]
             /\ pc' = [pc EXCEPT ![t] = "store"]
             /\ UNCHANGED <<call, old, tc, diff>>
    <3>1. next \in Int /\ next <= prev
      BY <1>a, <2>1, <2>3, <2>4, AfterwardsType
    <3>2. next \in 0 .. MaxKarma
      BY <1>a, <2>3, <2>4, <3>1
    <3> HIDE DEF next
    <3>3. TypeOK'
      BY <2>1, <2>2, <2>4, <3>1 DEF TypeOK, PC
    <3>4. NewInv'
      BY <2>1, <2>4, <3>2 DEF NewInv, TypeOK
    <3>5. BalanceInRange' /\ TickInv' /\ CallInv'
      BY <2>1, <2>2, <2>4 DEF BalanceInRange, TickInv, CallInv, TypeOK
    <3> QED
      BY <3>3, <3>4, <3>5
  <2>5. CASE Return(t)
    <3>1. BalanceInRange' /\ karma' \in [Accounts -> Int]
      BY <2>2 DEF BalanceInRange, TypeOK
    <3> QED
      BY <1>r, <2>1, <2>2, <2>5, <3>1
  <2> QED
    BY <1>8, <2>4, <2>5 DEF Decide, Goto, Affordable
<1>9. ASSUME NEW t \in Threads, Store(t)
      PROVE  BalanceInv'
  <2>1. call[t].account \in Accounts /\ pc[t] = "store"
    BY <1>9, CallType DEF Store
  <2>2. karma' = [karma EXCEPT ![call[t].account] = new[t]]
    BY <1>9 DEF Store
  <2>3. BalanceInRange' /\ karma' \in [Accounts -> Int]
    BY <2>1, <2>2 DEF BalanceInRange, NewInv, TypeOK
  <2> QED
    BY <1>9, <1>r, <2>1, <2>3 DEF Store, globals
<1>10. ASSUME RefreshAmount
       PROVE  BalanceInv'
  <2>1. tickAmounts' = TickAmount /\ refreshing' = TRUE /\ tickCounter < MaxTicks
        /\ UNCHANGED <<karma, when, tickCounter, pc, call, old, tc, diff, new, calls>>
    BY <1>10 DEF RefreshAmount, TickAmount, locals
  <2>2. TypeOK'
    BY <2>1, TickAmountType DEF TypeOK
  <2>3. BalanceInRange' /\ NewInv' /\ CallInv' /\ TickInv'
    BY <2>1 DEF BalanceInRange, NewInv, CallInv, TickInv, TickAmount
  <2> QED
    BY <2>2, <2>3
<1>11. ASSUME RefreshTick
       PROVE  BalanceInv'
  <2>1. tickCounter' = tickCounter + 1 /\ refreshing' = FALSE /\ refreshing
        /\ UNCHANGED <<karma, when, tickAmounts, pc, call, old, tc, diff, new, calls>>
    BY <1>11 DEF RefreshTick, locals
  <2>2. TypeOK'
    <3>1. tickCounter < MaxTicks
      BY <2>1 DEF TickInv
    <3>2. tickCounter \in 0 .. MaxTicks
      BY DEF TypeOK
    <3>3. tickCounter' \in 0 .. MaxTicks
      <4>1. tickCounter + 1 \in 0 .. MaxTicks
        BY <1>a, <3>1, <3>2
      <4> QED
        BY <2>1, <4>1
    <3> QED
      BY <2>1, <3>3 DEF TypeOK
  <2>3. BalanceInRange' /\ NewInv' /\ CallInv'
    BY <2>1 DEF BalanceInRange, NewInv, CallInv
  <2>4. TickInv'
    BY <1>a, <2>1 DEF TickInv, TypeOK, TickAmount
  <2> QED
    BY <2>2, <2>3, <2>4
<1>12. ASSUME UNCHANGED vars
       PROVE  BalanceInv'
  BY <1>12 DEF vars, TypeOK, BalanceInRange, NewInv, CallInv, TickInv, TickAmount
<1> QED
  BY <1>1, <1>2, <1>3, <1>4, <1>5, <1>6, <1>7, <1>8, <1>9, <1>10, <1>11, <1>12 DEF Next, Step

LEMMA BalanceInvHolds == Spec => []BalanceInv
BY InitBalanceInv, BalanceStep, PTL DEF Spec

\* A balance stays between nothing and MAX_KARMA, for any number of threads and
\* accounts, any policy and any interleaving of the unlocked accesses, although
\* tick differences and sums wrap around in std::size_t.
THEOREM KarmaCorrect == Spec => []KarmaInv
<1>1. BalanceInv => KarmaInv
  BY DEF BalanceInv, KarmaInv
<1> QED
  BY <1>1, BalanceInvHolds, PTL

-----------------------------------------------------------------------------
(* An account of one thread is a ledger *)

\* The policy's ticks fit into std::size_t with the balances they are added to.
NoOverflow == MaxTicks < Word /\ MaxKarma + MaxTicks * TickAmount < Word

\* The balance of a after the ticks that thread t has seen.
Topped(a, t) ==
    LET sum == karma[a] + (tc[t] - when[a]) * tickAmounts
    IN  IF sum < MaxKarma THEN sum ELSE MaxKarma

\* What a thread has read and computed for an account that nobody else uses is
\* still right when it writes.
OwnAccount(t, a) ==
    /\ pc[t] \in {"since", "sum", "cas"} => when[a] <= tc[t]
    /\ pc[t] \in {"sum", "cas"} => diff[t] = tc[t] - when[a]
    /\ pc[t] = "cas" => new[t] = Topped(a, t)
    /\ pc[t] = "store" => new[t] <= karma[a]

OwnInv ==
    \A t \in Threads, a \in Unshared : pc[t] # "idle" /\ call[t].account = a => OwnAccount(t, a)

\* Two threads at one unshared account are the same thread.
LEMMA OwnerIsOne ==
    ASSUME BalanceInv, NEW t \in Threads, NEW u \in Threads, NEW a \in Unshared,
           pc[t] # "idle", pc[u] # "idle", call[t].account = a, call[u].account = a
    PROVE  t = u
  BY DEF BalanceInv, CallInv, Unshared

\* Without overflow Sum adds the ticks.
LEMMA SumIs ==
    ASSUME NoOverflow, NEW b \in 0 .. MaxKarma, NEW d \in 0 .. MaxTicks,
           tickAmounts \in Int, tickAmounts = TickAmount \/ d = 0
    PROVE  Sum(b, d) = IF b + d * tickAmounts < MaxKarma THEN b + d * tickAmounts ELSE MaxKarma
<1> DEFINE x == b + d * tickAmounts
<1>0. MaxKarma \in Nat /\ Word \in Nat /\ MaxTicks \in Nat /\ MaxKarma < Word
  BY KarmaAssumption
<1>1. x \in 0 .. Word - 1
  <2>1. CASE d = 0
    BY <1>0, <2>1
  <2>2. CASE tickAmounts = TickAmount
    <3> DEFINE r == TickAmount
    <3>1. r \in Nat /\ MaxKarma + MaxTicks * r < Word
      BY <1>0, TickAmountType DEF NoOverflow
    <3> HIDE DEF r
    <3>2. d * r <= MaxTicks * r /\ d * r \in Nat /\ MaxTicks * r \in Nat
      BY <1>0, <3>1
    <3>3. b + d * r \in 0 .. Word - 1
      BY <1>0, <3>1, <3>2
    <3> QED
      BY <2>2, <3>3 DEF r
  <2> QED
    BY <2>1, <2>2
<1> HIDE DEF x
<1>2. x % Word = x /\ x \in Int
  BY <1>0, <1>1
<1>3. Min({x, MaxKarma}) = IF x < MaxKarma THEN x ELSE MaxKarma
  BY <1>0, <1>2, MinOfTwo
<1> QED
  BY <1>2, <1>3 DEF Sum, x

LEMMA InitOwnInv == Init => OwnInv
  BY DEF Init, OwnInv

\* A thread that does not write to an account, its stamp or the thread's own
\* variables leaves OwnAccount alone.
LEMMA OthersKeep ==
    ASSUME BalanceInv, OwnInv, NEW t \in Threads, NEW a \in Unshared,
           pc[t] # "idle", call[t].account = a,
           karma'[a] = karma[a], when'[a] = when[a], tickAmounts' = tickAmounts,
           pc'[t] = pc[t], tc'[t] = tc[t], diff'[t] = diff[t], new'[t] = new[t]
    PROVE  OwnAccount(t, a)'
  BY DEF OwnInv, OwnAccount, Topped

\* A step of thread u changes nothing of another thread, and no account but the
\* one it works on.
LEMMA OneActs ==
    ASSUME BalanceInv, NEW u \in Threads, Begin(u) \/ Step(u)
    PROVE  /\ \A t \in Threads \ {u} :
                 /\ pc'[t] = pc[t] /\ call'[t] = call[t]
                 /\ tc'[t] = tc[t] /\ diff'[t] = diff[t] /\ new'[t] = new[t]
           /\ \/ UNCHANGED <<karma, when>>
              \/ /\ pc[u] # "idle"
                 /\ \A a \in Accounts \ {call[u].account} :
                       karma'[a] = karma[a] /\ when'[a] = when[a]
           /\ UNCHANGED <<tickAmounts, tickCounter, refreshing>>
<1> USE DEF BalanceInv
<1>0. /\ karma \in [Accounts -> Int] /\ DOMAIN when = Accounts
      /\ DOMAIN pc = Threads /\ DOMAIN call = Threads /\ DOMAIN tc = Threads
      /\ DOMAIN diff = Threads /\ DOMAIN new = Threads
  BY DEF TypeOK, CallInv
<1>1. CASE Begin(u)
  BY <1>0, <1>1 DEF Begin, Goto, globals, locals
<1>2. CASE LoadKarma(u) \/ LoadTicks(u) \/ LoadWhen(u) \/ AddUp(u)
  BY <1>0, <1>2 DEF LoadKarma, LoadTicks, LoadWhen, AddUp, Goto, globals
<1>3. CASE CompareExchange(u)
  BY <1>0, <1>3 DEF CompareExchange, Goto, Forget, globals, locals
<1>4. CASE StampWhen(u)
  BY <1>0, <1>4 DEF StampWhen, Stamp, Goto, Forget, globals
<1>5. CASE Decide(u)
  BY <1>0, <1>5 DEF Decide, Return, Goto, Forget, globals
<1>6. CASE Store(u)
  BY <1>0, <1>6 DEF Store, Return, Goto, Forget, globals
<1> QED
  BY <1>1, <1>2, <1>3, <1>4, <1>5, <1>6 DEF Step

\* Every step keeps it.
LEMMA OwnStep ==
    ASSUME NoOverflow, BalanceInv, BalanceInv', OwnInv, [Next]_vars
    PROVE  OwnInv'
<1> SUFFICES ASSUME NEW t \in Threads, NEW a \in Unshared, pc'[t] # "idle", call'[t].account = a
             PROVE  OwnAccount(t, a)'
  BY DEF OwnInv, Unshared
<1>a. a \in Accounts
  BY DEF Unshared
<1>b. MaxKarma \in Nat /\ Word \in Nat /\ MaxTicks \in Nat /\ MaxKarma < Word /\ MaxTicks < Word
  BY KarmaAssumption DEF NoOverflow
<1>c. /\ karma[a] \in 0 .. MaxKarma /\ when[a] \in 0 .. MaxTicks /\ when[a] <= tickCounter
      /\ tc[t] \in 0 .. MaxTicks /\ tc[t] <= tickCounter /\ tickCounter \in 0 .. MaxTicks
      /\ tickAmounts \in Int /\ diff[t] \in Int /\ new[t] \in Int
  BY <1>a, <1>b DEF BalanceInv, BalanceInRange, TypeOK, TickInv
<1>d. /\ pc \in [Threads -> PC] /\ call \in [Threads -> Calls \cup {<<>>}]
      /\ tc \in [Threads -> 0 .. MaxTicks] /\ diff \in [Threads -> 0 .. Word - 1]
      /\ new \in [Threads -> Int] /\ karma \in [Accounts -> Int] /\ when \in [Accounts -> 0 .. MaxTicks]
  BY DEF BalanceInv, TypeOK, CallInv
<1>1. ASSUME NEW u \in Threads \ {t}, Begin(u) \/ Step(u)
      PROVE  OwnAccount(t, a)'
  <2>1. pc[t] # "idle" /\ call[t].account = a
    BY <1>1, OneActs
  <2>2. pc[u] # "idle" => call[u].account # a
    BY <2>1, OwnerIsOne
  <2>3. karma'[a] = karma[a] /\ when'[a] = when[a]
    BY <1>1, <1>a, <2>2, OneActs
  <2> QED
    BY <1>1, <2>1, <2>3, OneActs, OthersKeep
<1>2. ASSUME Begin(t)
      PROVE  OwnAccount(t, a)'
  <2>1. pc'[t] = "load"
    BY <1>2, <1>d DEF Begin, Goto
  <2> QED
    BY <2>1 DEF OwnAccount
<1>3. ASSUME LoadKarma(t)
      PROVE  OwnAccount(t, a)'
  <2>1. pc'[t] = "ticks"
    BY <1>3, <1>d DEF LoadKarma, Goto
  <2> QED
    BY <2>1 DEF OwnAccount
<1>4. ASSUME LoadTicks(t)
      PROVE  OwnAccount(t, a)'
  <2>1. pc'[t] = "since" /\ tc'[t] = tickCounter /\ when' = when
    BY <1>4, <1>d DEF LoadTicks, Goto
  <2> QED
    BY <1>c, <2>1 DEF OwnAccount
<1>5. ASSUME LoadWhen(t)
      PROVE  OwnAccount(t, a)'
  <2>1. pc[t] = "since" /\ pc'[t] = "sum" /\ tc' = tc /\ when' = when /\ call' = call
        /\ diff'[t] = Since(tc[t], when[call[t].account])
    BY <1>5, <1>d DEF LoadWhen, Goto
  <2>2. call[t].account = a
    BY <2>1
  <2>3. when[a] <= tc[t]
    BY <2>1, <2>2 DEF OwnInv, OwnAccount
  <2>4. Since(tc[t], when[a]) = tc[t] - when[a]
    BY <1>b, <1>c, <2>3 DEF Since
  <2> QED
    BY <2>1, <2>2, <2>3, <2>4 DEF OwnAccount
<1>6. ASSUME AddUp(t)
      PROVE  OwnAccount(t, a)'
  <2>1. /\ pc[t] = "sum" /\ pc'[t] = "cas" /\ tc' = tc /\ when' = when /\ call' = call
        /\ karma' = karma /\ diff' = diff /\ tickAmounts' = tickAmounts
        /\ new'[t] = Sum(karma[call[t].account], diff[t])
    BY <1>6, <1>d DEF AddUp, Goto, globals
  <2>2. call[t].account = a
    BY <2>1
  <2>3. when[a] <= tc[t] /\ diff[t] = tc[t] - when[a]
    BY <2>1, <2>2 DEF OwnInv, OwnAccount
  <2>4. diff[t] \in 0 .. MaxTicks /\ (diff[t] = 0 \/ tickCounter > 0)
    BY <1>b, <1>c, <2>3
  <2>5. diff[t] = 0 \/ tickAmounts = TickAmount
    BY <2>4 DEF BalanceInv, TickInv
  <2>6. Sum(karma[a], diff[t]) = IF karma[a] + diff[t] * tickAmounts < MaxKarma
                                 THEN karma[a] + diff[t] * tickAmounts ELSE MaxKarma
    BY <1>c, <2>4, <2>5, SumIs
  <2>7. new'[t] = Topped(a, t)
    BY <2>1, <2>2, <2>3, <2>6 DEF Topped
  <2>8. Topped(a, t)' = Topped(a, t)
    BY <2>1 DEF Topped
  <2> QED
    BY <2>1, <2>3, <2>7, <2>8 DEF OwnAccount
<1>7. ASSUME CompareExchange(t) \/ StampWhen(t)
      PROVE  OwnAccount(t, a)'
  <2>1. pc'[t] \in {"stamp", "load", "decide"}
    BY <1>7, <1>d DEF CompareExchange, StampWhen, Goto
  <2> QED
    BY <2>1 DEF OwnAccount
<1>8. ASSUME Decide(t)
      PROVE  OwnAccount(t, a)'
  <2>1. Return(t) => pc'[t] = "idle"
    BY <1>d DEF Return, Goto
  <2>2. /\ pc[t] = "decide" /\ call[t].op = "perform" /\ pc'[t] = "store" /\ call' = call /\ karma' = karma
        /\ new'[t] = Afterwards(karma[call[t].account], GetPolicies(call[t].action))
    BY <1>8, <1>d, <2>1 DEF Decide, Goto
  <2>3. call[t].account = a /\ call[t].action \in Actions
    BY <2>2, CallType
  <2>4. new'[t] <= karma[a]
    BY <1>b, <1>c, <2>2, <2>3, AfterwardsType
  <2> QED
    BY <2>2, <2>4 DEF OwnAccount
<1>9. ASSUME Store(t)
      PROVE  OwnAccount(t, a)'
  BY <1>9, <1>d DEF Store, Return, Goto
<1>10. ASSUME RefreshAmount
       PROVE  OwnAccount(t, a)'
  <2>1. tickAmounts' = TickAmount
        /\ UNCHANGED <<karma, when, tickCounter, pc, call, old, tc, diff, new, calls>>
    BY <1>10 DEF RefreshAmount, TickAmount, locals
  <2>2. pc[t] # "idle" /\ call[t].account = a
    BY <2>1
  <2>3. OwnAccount(t, a)
    BY <2>2 DEF OwnInv
  <2>4. ASSUME pc[t] = "cas"
        PROVE  Topped(a, t)' = Topped(a, t)
    <3>1. when[a] <= tc[t]
      BY <2>3, <2>4 DEF OwnAccount
    <3>2. CASE tickCounter > 0
      <4>1. tickAmounts = TickAmount
        BY <3>2 DEF BalanceInv, TickInv
      <4> QED
        BY <2>1, <4>1 DEF Topped
    <3>3. CASE tickCounter = 0
      <4>1. tc[t] - when[a] = 0 /\ tc'[t] - when'[a] = 0
        BY <1>c, <2>1, <3>3
      <4>2. tickAmounts' \in Int
        BY <1>b, <2>1, TickAmountType
      <4>3. \A x \in Int : 0 * x = 0
        OBVIOUS
      <4> QED
        BY <1>c, <2>1, <4>1, <4>2, <4>3 DEF Topped
    <3> QED
      BY <1>c, <3>2, <3>3
  <2> QED
    BY <2>1, <2>3, <2>4 DEF OwnAccount
<1>11. ASSUME RefreshTick \/ UNCHANGED vars
       PROVE  OwnAccount(t, a)'
  <2>1. UNCHANGED <<karma, when, tickAmounts, pc, call, tc, diff, new>>
    BY <1>11 DEF RefreshTick, vars, locals
  <2> QED
    BY <2>1, OthersKeep
<1> QED
  BY <1>1, <1>2, <1>3, <1>4, <1>5, <1>6, <1>7, <1>8, <1>9, <1>10, <1>11 DEF Next, Step

\* Where the ledger's ticks of an account come from: the thread between the
\* exchange and the stamp, if there is one.
CreditedIs(a) ==
    /\ \A t \in Threads : pc[t] = "stamp" /\ call[t].account = a => CreditedTicks[a] = tc[t]
    /\ (\A t \in Threads : ~(pc[t] = "stamp" /\ call[t].account = a)) => CreditedTicks[a] = when[a]

LEMMA Credited == BalanceInv => \A a \in Unshared : CreditedIs(a)
<1> SUFFICES ASSUME BalanceInv, NEW a \in Unshared
             PROVE  CreditedIs(a)
  OBVIOUS
<1> DEFINE writers == {t \in Threads : pc[t] = "stamp" /\ call[t].account = a}
<1>1. CreditedTicks[a] = IF writers = {} THEN when[a] ELSE tc[CHOOSE t \in writers : TRUE]
  BY DEF CreditedTicks
<1>2. \A t, u \in writers : t = u
  BY OwnerIsOne
<1> QED
  BY <1>1, <1>2 DEF CreditedIs

\* A step that moves no account in or out of the state between exchange and stamp
\* leaves the ledger's ticks alone.
LEMMA CreditedStill ==
    ASSUME BalanceInv, BalanceInv', NEW u \in Threads, Begin(u) \/ Step(u), when' = when,
           pc[u] # "stamp", pc'[u] # "stamp"
    PROVE  CreditedTicks' = CreditedTicks
<1>1. \A a \in Unshared : CreditedIs(a)
  BY Credited
<1>2. (\A a \in Unshared : CreditedIs(a))'
  BY Credited, PTL
<1>3. ASSUME NEW a \in Unshared
      PROVE  CreditedTicks'[a] = CreditedTicks[a]
  <2>1. CreditedIs(a) /\ CreditedIs(a)'
    BY <1>1, <1>2 DEF Unshared
  <2>2. ASSUME NEW t \in Threads
        PROVE  /\ pc'[t] = "stamp" <=> pc[t] = "stamp"
               /\ pc[t] = "stamp" => call'[t] = call[t] /\ tc'[t] = tc[t]
    BY OneActs
  <2> QED
    BY <2>1, <2>2 DEF CreditedIs
<1>4. CreditedTicks = [a \in Unshared |-> CreditedTicks[a]]
      /\ CreditedTicks' = [a \in Unshared |-> CreditedTicks'[a]]
  BY DEF CreditedTicks, Unshared
<1> QED
  BY <1>3, <1>4

\* The ledger's balances, of the accounts that one thread uses.
Balances == [a \in Unshared |-> karma[a]]

\* Every step is a step of the ledger or leaves it alone.
LEMMA LedgerStep ==
    ASSUME NoOverflow, BalanceInv, BalanceInv', OwnInv, [Next]_vars
    PROVE  [Ledger!Next]_(Ledger!ledger)
<1> DEFINE Still == Balances' = Balances /\ CreditedTicks' = CreditedTicks
                    /\ tickCounter' = tickCounter /\ tickAmounts' = tickAmounts
<1>a. Still => UNCHANGED Ledger!ledger
  BY DEF Ledger!ledger, Balances
<1>b. /\ karma \in [Accounts -> Int] /\ when \in [Accounts -> 0 .. MaxTicks]
      /\ pc \in [Threads -> PC] /\ tc \in [Threads -> 0 .. MaxTicks] /\ call \in [Threads -> Calls \cup {<<>>}]
      /\ tickCounter \in 0 .. MaxTicks /\ MaxTicks \in Nat /\ MaxKarma \in Nat /\ tickAmounts \in Int
  BY KarmaAssumption DEF BalanceInv, TypeOK, CallInv
<1>c. Unshared \subseteq Accounts
  BY DEF Unshared
<1>d. (\A a \in Unshared : CreditedIs(a)) /\ (\A a \in Unshared : CreditedIs(a)')
  <2>1. \A a \in Unshared : CreditedIs(a)
    BY Credited
  <2>2. (\A a \in Unshared : CreditedIs(a))'
    BY Credited, PTL
  <2> QED
    BY <2>1, <2>2 DEF Unshared
<1>e. CreditedTicks = [a \in Unshared |-> CreditedTicks[a]]
      /\ CreditedTicks' = [a \in Unshared |-> CreditedTicks'[a]]
  BY DEF CreditedTicks, Unshared
<1>f. Balances' = [a \in Unshared |-> karma'[a]]
  BY DEF Balances, Unshared
<1>1. ASSUME NEW u \in Threads, Begin(u) \/ Step(u), UNCHANGED <<karma, when>>,
             pc[u] # "stamp", pc'[u] # "stamp"
      PROVE  Still
  <2>1. Balances' = Balances
    BY <1>1, <1>f DEF Balances
  <2>2. CreditedTicks' = CreditedTicks
    BY <1>1, CreditedStill
  <2> QED
    BY <1>1, <2>1, <2>2, OneActs
<1>2. ASSUME NEW u \in Threads,
             Begin(u) \/ LoadKarma(u) \/ LoadTicks(u) \/ LoadWhen(u) \/ AddUp(u) \/ Decide(u)
      PROVE  Still
  <2>1. UNCHANGED <<karma, when>>
    BY <1>2 DEF Begin, LoadKarma, LoadTicks, LoadWhen, AddUp, Decide
  <2>2. pc[u] # "stamp" /\ pc'[u] # "stamp"
    BY <1>2, <1>b DEF Begin, LoadKarma, LoadTicks, LoadWhen, AddUp, Decide, Return, Goto
  <2> QED
    BY <1>1, <1>2, <2>1, <2>2 DEF Step
<1>3. ASSUME NEW u \in Threads, CompareExchange(u)
      PROVE  [Ledger!Next]_(Ledger!ledger)
  <2>0. PICK a \in Accounts : a = call[u].account
    BY <1>3, CallType DEF CompareExchange
  <2>1. pc[u] = "cas" /\ UNCHANGED <<when, call, tickCounter, tickAmounts>> /\ a = call[u].account
    BY <1>3, <2>0 DEF CompareExchange, globals
  <2>2. CASE karma[a] # old[u]
    <3>1. karma' = karma /\ pc'[u] = "load"
      BY <1>3, <1>b, <2>1, <2>2 DEF CompareExchange, Goto
    <3> QED
      BY <1>1, <1>3, <1>a, <2>1, <3>1 DEF Step
  <2>3. CASE karma[a] = old[u]
    <3>1. karma' = [karma EXCEPT ![a] = new[u]] /\ pc'[u] = "stamp" /\ tc' = tc
      BY <1>3, <1>b, <2>1, <2>3 DEF CompareExchange, Goto, locals
    <3>2. \A t \in Threads \ {u} : pc'[t] = pc[t]
      BY <1>3, OneActs DEF Step
    <3>3. ASSUME NEW x \in Unshared, x # a
          PROVE  karma'[x] = karma[x] /\ CreditedTicks'[x] = CreditedTicks[x]
      <4>1. CreditedIs(x) /\ CreditedIs(x)'
        BY <1>d
      <4>2. \A t \in Threads : pc'[t] = "stamp" /\ call'[t].account = x <=> pc[t] = "stamp" /\ call[t].account = x
        BY <2>1, <3>2, <3>3
      <4>3. karma'[x] = karma[x]
        BY <1>b, <3>1, <3>3
      <4> QED
        BY <2>1, <3>1, <4>1, <4>2, <4>3 DEF CreditedIs
    <3>4. CASE a \notin Unshared
      <4>1. Balances' = Balances /\ CreditedTicks' = CreditedTicks
        BY <1>e, <1>f, <3>3, <3>4 DEF Balances
      <4> QED
        BY <1>a, <2>1, <4>1
    <3>5. CASE a \in Unshared
      <4>1. CreditedTicks'[a] = tc[u]
        BY <1>d, <2>1, <3>1, <3>5 DEF CreditedIs
      <4>2. CreditedTicks[a] = when[a]
        <5>1. \A t \in Threads : pc[t] = "stamp" => call[t].account # a
          BY <2>1, <3>5, OwnerIsOne
        <5> QED
          BY <1>d, <3>5, <5>1 DEF CreditedIs
      <4>3. when[a] <= tc[u] /\ new[u] = Topped(a, u)
        BY <2>1, <3>5 DEF OwnInv, OwnAccount
      <4>4. tc[u] \in when[a] .. tickCounter
        <5>1. tc[u] <= tickCounter /\ tc[u] \in Int /\ when[a] \in Int /\ tickCounter \in Int
          BY <1>b, <2>1 DEF BalanceInv, TickInv
        <5> QED
          BY <4>3, <5>1
      <4> DEFINE sum == Balances[a] + (tc[u] - CreditedTicks[a]) * tickAmounts
      <4>5. Balances' = [Balances EXCEPT ![a] = IF sum < MaxKarma THEN sum ELSE MaxKarma]
        <5>1. karma'[a] = Topped(a, u)
          BY <1>b, <2>1, <3>1, <4>3
        <5>2. Topped(a, u) = IF sum < MaxKarma THEN sum ELSE MaxKarma
          BY <3>5, <4>2 DEF Topped, Balances
        <5> HIDE DEF sum
        <5> QED
          BY <1>f, <3>3, <5>1, <5>2 DEF Balances
      <4>6. CreditedTicks' = [CreditedTicks EXCEPT ![a] = tc[u]]
        BY <1>e, <3>3, <4>1
      <4>7. Ledger!Credit(a)
        <5> DEFINE Due(t) == Balances[a] + (t - CreditedTicks[a]) * tickAmounts
                   Result(t) ==
                     /\ Balances' = [Balances EXCEPT ![a] = IF Due(t) < MaxKarma THEN Due(t) ELSE MaxKarma]
                     /\ CreditedTicks' = [CreditedTicks EXCEPT ![a] = t]
                     /\ UNCHANGED <<tickCounter, tickAmounts>>
        <5>1. Result(tc[u])
          BY <2>1, <4>5, <4>6
        <5> HIDE DEF Result
        <5>2. \E t \in CreditedTicks[a] .. tickCounter : Result(t)
          BY <4>2, <4>4, <5>1
        <5> QED
          BY <5>2, Zenon DEF Result, Ledger!Credit, Balances
      <4> QED
        BY <3>5, <4>7 DEF Ledger!Next
    <3> QED
      BY <3>4, <3>5
  <2> QED
    BY <2>2, <2>3
<1>4. ASSUME NEW u \in Threads, StampWhen(u)
      PROVE  Still
  <2> DEFINE a == call[u].account
  <2>1. /\ pc[u] = "stamp" /\ UNCHANGED <<karma, call, tickCounter, tickAmounts>> /\ a \in Accounts
        /\ when' = [when EXCEPT ![a] = tc[u]] /\ pc'[u] = "decide"
    BY <1>4, <1>b, CallType DEF StampWhen, Stamp, Goto, globals
  <2>2. \A t \in Threads \ {u} : pc'[t] = pc[t] /\ tc'[t] = tc[t]
    BY <1>4, OneActs DEF Step
  <2>3. ASSUME NEW x \in Unshared
        PROVE  CreditedTicks'[x] = CreditedTicks[x]
    <3>1. CreditedIs(x) /\ CreditedIs(x)'
      BY <1>d
    <3>2. CASE x # a
      <4>1. \A t \in Threads : pc'[t] = "stamp" /\ call'[t].account = x <=> pc[t] = "stamp" /\ call[t].account = x
        BY <2>1, <2>2, <3>2
      <4>2. \A t \in Threads : pc[t] = "stamp" /\ call[t].account = x => tc'[t] = tc[t]
        BY <2>1, <2>2, <3>2
      <4>3. when'[x] = when[x]
        BY <1>b, <1>c, <2>1, <3>2
      <4> QED
        BY <3>1, <4>1, <4>2, <4>3 DEF CreditedIs
    <3>3. CASE x = a
      <4>1. CreditedTicks[a] = tc[u]
        BY <2>1, <3>1, <3>3 DEF CreditedIs
      <4>2. \A t \in Threads : pc'[t] = "stamp" => call'[t].account # a
        <5>1. \A t \in Threads \ {u} : pc[t] = "stamp" => call[t].account # a
          BY <2>1, <3>3, OwnerIsOne
        <5> QED
          BY <2>1, <2>2, <5>1
      <4>3. CreditedTicks'[a] = when'[a] /\ when'[a] = tc[u]
        BY <1>b, <2>1, <3>1, <3>3, <4>2 DEF CreditedIs
      <4> QED
        BY <3>3, <4>1, <4>3
    <3> QED
      BY <3>2, <3>3
  <2>4. CreditedTicks' = CreditedTicks
    BY <1>e, <2>3
  <2> QED
    BY <1>f, <2>1, <2>4 DEF Balances
<1>5. ASSUME NEW u \in Threads, Store(u)
      PROVE  [Ledger!Next]_(Ledger!ledger)
  <2>0. PICK a \in Accounts : a = call[u].account
    BY <1>5, CallType DEF Store
  <2>1. /\ pc[u] = "store" /\ UNCHANGED <<when, tickCounter, tickAmounts>> /\ a = call[u].account
        /\ karma' = [karma EXCEPT ![a] = new[u]] /\ pc'[u] = "idle"
    BY <1>5, <1>b, <2>0 DEF Store, Return, Goto, globals
  <2>2. CreditedTicks' = CreditedTicks
    BY <1>5, <2>1, CreditedStill DEF Step
  <2>3. CASE a \notin Unshared
    <3>1. Balances' = Balances
      BY <1>b, <1>c, <1>f, <2>1, <2>3 DEF Balances
    <3> QED
      BY <1>a, <2>1, <2>2, <3>1
  <2>4. CASE a \in Unshared
    <3> DEFINE c == karma[a] - new[u]
    <3>1. new[u] <= karma[a]
      BY <2>1, <2>4 DEF OwnInv, OwnAccount
    <3>2. new[u] \in 0 .. MaxKarma /\ karma[a] \in 0 .. MaxKarma
      BY <2>1 DEF BalanceInv, NewInv, BalanceInRange
    <3>3. c \in EventCosts /\ c <= karma[a] /\ karma[a] - c = new[u]
      BY <1>b, <3>1, <3>2 DEF EventCosts
    <3> HIDE DEF c
    <3>4. Balances' = [Balances EXCEPT ![a] = @ - c] /\ Balances[a] = karma[a]
      BY <1>b, <1>c, <1>f, <2>1, <2>4, <3>3 DEF Balances
    <3>5. Ledger!Pay(a)
      <4>1. \E x \in EventCosts : /\ x <= Balances[a]
                                  /\ Balances' = [Balances EXCEPT ![a] = @ - x]
                                  /\ UNCHANGED <<CreditedTicks, tickCounter, tickAmounts>>
        BY <2>1, <2>2, <3>3, <3>4
      <4> QED
        BY <4>1, Zenon DEF Ledger!Pay, Balances
    <3> QED
      BY <2>4, <3>5 DEF Ledger!Next
  <2> QED
    BY <2>3, <2>4
<1>6. ASSUME RefreshAmount \/ RefreshTick
      PROVE  Ledger!Next
  <2>0. UNCHANGED <<karma, when, pc, call, tc>>
    BY <1>6 DEF RefreshAmount, RefreshTick, locals
  <2>1. Balances' = Balances /\ CreditedTicks' = CreditedTicks
    BY <1>f, <2>0 DEF Balances, CreditedTicks, Unshared
  <2>2. CASE RefreshAmount
    <3>1. tickAmounts' \in Int /\ tickCounter' = tickCounter
      BY <2>2, KarmaAssumption, TickAmountType DEF RefreshAmount, TickAmount
    <3>2. Ledger!SetAmount
      BY <2>1, <3>1 DEF Ledger!SetAmount, Balances
    <3> QED
      BY <3>2 DEF Ledger!Next
  <2>3. CASE RefreshTick
    <3>1. Ledger!Tick
      BY <2>1, <2>3 DEF RefreshTick, Ledger!Tick, Balances
    <3> QED
      BY <3>1 DEF Ledger!Next
  <2> QED
    BY <1>6, <2>2, <2>3
<1>7. ASSUME UNCHANGED vars
      PROVE  Still
  BY <1>7, <1>f DEF vars, Balances, CreditedTicks, Unshared
<1> QED
  BY <1>2, <1>3, <1>4, <1>5, <1>6, <1>7, <1>a DEF Next, Step

\* With one thread at a time on an account the lock-free account is a ledger: every
\* tick is credited once, none is lost between the exchange and the stamp, and an
\* accepted event is paid for in full, whenever the refresh task counts a tick,
\* provided the amounts fit into std::size_t.
THEOREM LedgerCorrect ==
    ASSUME NoOverflow
    PROVE  Spec => LedgerKept
<1>1. Init => Ledger!Init
  BY DEF Init, Ledger!Init, CreditedTicks, Unshared
<1>2. Init => OwnInv
  BY InitOwnInv
<1>3. BalanceInv /\ BalanceInv' /\ OwnInv /\ [Next]_vars => OwnInv'
  BY OwnStep
<1>4. BalanceInv /\ BalanceInv' /\ OwnInv /\ [Next]_vars => [Ledger!Next]_(Ledger!ledger)
  BY LedgerStep
<1> QED
  BY <1>1, <1>2, <1>3, <1>4, BalanceInvHolds, PTL DEF Spec, LedgerKept, Ledger!Spec
=============================================================================
