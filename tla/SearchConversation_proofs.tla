---------------------- MODULE SearchConversation_proofs ----------------------
(***************************************************************************)
(* Proofs about SearchConversation: every request is in one place, for any *)
(* finite set of conversations, any batch of the worker and any transmit   *)
(* queue; and about AgentUri and Uri: the names a search finds and the     *)
(* addresses it is sent to are read as they were written.                  *)
(***************************************************************************)
EXTENDS SearchConversation, Addressing, FiniteSetTheorems, TLAPS

-----------------------------------------------------------------------------
(* The inductive invariant, and lists without repetitions *)

Listed(s) == {s[i] : i \in DOMAIN s}

NoRepeat(s) == \A i, j \in DOMAIN s : s[i] = s[j] => i = j

\* The conversations that start() has posted to the worker.
PostedConvs == {c \in Convs : ident[c] # 0 /\ task[c] \notin {"counting", "starting"}}

\* The conversations that have taken their identifier and written the next one.
Counted == {c \in Convs : ident[c] # 0 /\ task[c] # "counting"}

\* As many identifiers have been given out at most as conversations have counted,
\* although threads that count at the same time may get the same one.
IdentInv ==
    /\ \A c \in Convs : task[c] \in {"unborn", "new"} => ident[c] = 0
    /\ \A c \in Convs : task[c] \notin {"unborn", "new", "cancelled"} => ident[c] # 0
    /\ nextIdent <= Cardinality(Counted) + 1
    /\ \A c \in Convs : task[c] = "counting" => ident[c] <= Cardinality(Counted) + 1

ListInv == NoRepeat(queue) /\ NoRepeat(txq)

\* The places of a request are disjoint, and a posted one is in one of them.
PlaceInv ==
    \A c \in Convs :
       /\ c \in PostedConvs <=>
             \/ c \in current \/ c \in Listed(queue) \/ c \in Listed(txq) \/ c \in wire
             \/ c \in answered \/ c \in dropped \/ c \in cut
       /\ c \in current => c \notin Listed(queue)
       /\ c \in current \cup Listed(queue) => c \notin Listed(txq)
       /\ c \in current \cup Listed(queue) \cup Listed(txq) => c \notin wire
       /\ c \in current \cup Listed(queue) \cup Listed(txq) \cup wire => c \notin answered
       /\ c \in current \cup Listed(queue) \cup Listed(txq) \cup wire \cup answered => c \notin dropped
       /\ c \in current \cup Listed(queue) \cup Listed(txq) \cup wire \cup answered \cup dropped
             => c \notin cut

SearchIInv == TypeOK /\ IdentInv /\ ListInv /\ PlaceInv


\* A list with a new element at its end.
LEMMA AppendOnce ==
    ASSUME NEW S, NEW s \in Seq(S), NEW x \in S, NoRepeat(s), x \notin Listed(s)
    PROVE  Append(s, x) \in Seq(S) /\ NoRepeat(Append(s, x)) /\ Listed(Append(s, x)) = Listed(s) \cup {x}
<1> DEFINE t == Append(s, x)
           n == Len(s) + 1
<1>1. t \in Seq(S) /\ DOMAIN t = DOMAIN s \cup {n} /\ n \notin DOMAIN s /\ t[n] = x
      /\ \A i \in DOMAIN s : t[i] = s[i]
  OBVIOUS
<1> HIDE DEF t, n
<1>2. NoRepeat(t)
  BY <1>1 DEF NoRepeat, Listed
<1>3. Listed(t) = Listed(s) \cup {x}
  BY <1>1 DEF Listed
<1> QED
  BY <1>1, <1>2, <1>3 DEF t

\* The first b elements of a list, and the list without them.
First(s, b) == {s[i] : i \in 1 .. b}
Rest(s, b) == SubSeq(s, b + 1, Len(s))

\* A list without its first b elements.
LEMMA SkipSome ==
    ASSUME NEW S, NEW s \in Seq(S), NEW b \in 0 .. Len(s), NoRepeat(s)
    PROVE  /\ Rest(s, b) \in Seq(S) /\ NoRepeat(Rest(s, b)) /\ First(s, b) \subseteq S
           /\ Listed(Rest(s, b)) = Listed(s) \ First(s, b) /\ First(s, b) \subseteq Listed(s)
<1> DEFINE n == Len(s)
           rest == Rest(s, b)
<1>0. b \in Nat /\ n \in Nat /\ b <= n /\ DOMAIN s = 1 .. n /\ \A i \in 1 .. n : s[i] \in S
  OBVIOUS
<1>1. rest \in Seq(S) /\ Len(rest) = n - b /\ \A i \in 1 .. n - b : rest[i] = s[b + i]
  BY DEF Rest
<1>2. DOMAIN rest = 1 .. n - b
  BY <1>1
<1> HIDE DEF n, rest
<1>3. \A i \in 1 .. n - b : b + i \in 1 .. n /\ b + i \notin 1 .. b
  BY <1>0
<1>4. \A j \in 1 .. n : j \notin 1 .. b => j - b \in 1 .. n - b /\ b + (j - b) = j
  BY <1>0
<1>5. \A i, j \in 1 .. n - b : b + i = b + j => i = j
  BY <1>0
<1>6. NoRepeat(rest)
  BY <1>0, <1>1, <1>2, <1>3, <1>5 DEF NoRepeat
<1>7. \A i \in 1 .. b : i \in 1 .. n
  BY <1>0
<1>8. First(s, b) \subseteq S /\ First(s, b) \subseteq Listed(s)
  BY <1>0, <1>7 DEF Listed, First
<1>9. ASSUME NEW x \in Listed(rest)
      PROVE  x \in Listed(s) \ First(s, b)
  <2>1. PICK i \in 1 .. n - b : x = s[b + i]
    BY <1>1, <1>2 DEF Listed
  <2>2. b + i \in DOMAIN s /\ b + i \notin 1 .. b
    BY <1>0, <1>3
  <2>3. ASSUME x \in First(s, b)
        PROVE  FALSE
    <3>1. PICK j \in 1 .. b : x = s[j]
      BY <2>3 DEF First
    <3>2. j = b + i
      BY <1>0, <1>7, <2>1, <2>2, <3>1 DEF NoRepeat
    <3> QED
      BY <2>2, <3>2
  <2> QED
    BY <2>1, <2>2, <2>3 DEF Listed
<1>10. ASSUME NEW x \in Listed(s) \ First(s, b)
       PROVE  x \in Listed(rest)
  <2>1. PICK j \in 1 .. n : x = s[j] /\ j \notin 1 .. b
    BY <1>0 DEF Listed, First
  <2>2. rest[j - b] = x /\ j - b \in DOMAIN rest
    BY <1>1, <1>2, <1>4, <2>1
  <2> QED
    BY <2>2 DEF Listed
<1> QED
  BY <1>1, <1>6, <1>8, <1>9, <1>10 DEF rest

\* A list without its first element.
LEMMA SkipFirst ==
    ASSUME NEW S, NEW s \in Seq(S), s # <<>>, NoRepeat(s)
    PROVE  /\ Tail(s) \in Seq(S) /\ NoRepeat(Tail(s)) /\ Head(s) \in Listed(s) /\ Head(s) \in S
           /\ Listed(Tail(s)) = Listed(s) \ {Head(s)}
<1>1. 1 \in 0 .. Len(s) /\ Head(s) = s[1]
  OBVIOUS
<1>2. Tail(s) = Rest(s, 1)
  BY DEF Rest
<1>3. First(s, 1) = {Head(s)}
  BY <1>1 DEF First
<1>4. /\ Rest(s, 1) \in Seq(S) /\ NoRepeat(Rest(s, 1)) /\ First(s, 1) \subseteq S
      /\ Listed(Rest(s, 1)) = Listed(s) \ First(s, 1) /\ First(s, 1) \subseteq Listed(s)
  BY <1>1, SkipSome
<1> QED
  BY <1>2, <1>3, <1>4

\* Some elements of a list: not more than places.
LEMMA FirstFew ==
    ASSUME NEW s, NEW b \in Nat
    PROVE  IsFiniteSet(First(s, b)) /\ Cardinality(First(s, b)) \in Nat /\ Cardinality(First(s, b)) <= b
<1> DEFINE f == [i \in 1 .. b |-> s[i]]
<1>1. IsFiniteSet(1 .. b) /\ Cardinality(1 .. b) = b
  BY FS_Interval
<1>2. f \in Surjection(1 .. b, First(s, b))
  BY DEF Surjection, First
<1> QED
  BY <1>1, <1>2, FS_Surjection, FS_CardinalityType

-----------------------------------------------------------------------------
(* Initially, and what keeps it *)

\* Where a task has its conversation in the hands of the worker.
AfterPost == {"posted", "noted", "deferring", "suspended", "woken", "done", "errored", "cancelled"}

\* A step of a task that leaves the identifiers and what was posted alone.
TaskMoves ==
    /\ UNCHANGED ident
    /\ task' \in [Convs -> TaskStates]
    /\ \A c \in Convs :
          \/ task'[c] = task[c]
          \/ task[c] \in AfterPost \ {"cancelled"} /\ task'[c] \in AfterPost
          \/ task[c] = "unborn" /\ task'[c] = "new"
          \/ task[c] = "new" /\ task'[c] = "cancelled"

\* No step outside createConv touches an identifier.
LEMMA IdentStill ==
    ASSUME SearchIInv, TaskMoves, UNCHANGED nextIdent
    PROVE  IdentInv' /\ PostedConvs' = PostedConvs
<1>1. \A c \in Convs : task[c] \in TaskStates /\ task'[c] \in TaskStates
  BY DEF SearchIInv, TypeOK, TaskMoves
<1>2. ASSUME NEW c \in Convs
      PROVE  /\ task'[c] \in {"unborn", "new"} => ident'[c] = 0
             /\ task'[c] \notin {"unborn", "new", "cancelled"} => ident'[c] # 0
             /\ ident'[c] = ident[c]
             /\ c \in PostedConvs' <=> c \in PostedConvs
             /\ c \in Counted' <=> c \in Counted
             /\ task'[c] = "counting" => task[c] = "counting"
  <2>1. \/ task'[c] = task[c]
        \/ task[c] \in AfterPost \ {"cancelled"} /\ task'[c] \in AfterPost
        \/ task[c] = "unborn" /\ task'[c] = "new"
        \/ task[c] = "new" /\ task'[c] = "cancelled"
    BY DEF TaskMoves
  <2>2. /\ ident'[c] = ident[c]
        /\ task[c] \in {"unborn", "new"} => ident[c] = 0
        /\ task[c] \notin {"unborn", "new", "cancelled"} => ident[c] # 0
    BY DEF SearchIInv, IdentInv, TaskMoves
  <2>3. /\ c \in PostedConvs <=> ident[c] # 0 /\ task[c] \notin {"counting", "starting"}
        /\ c \in PostedConvs' <=> ident'[c] # 0 /\ task'[c] \notin {"counting", "starting"}
        /\ c \in Counted <=> ident[c] # 0 /\ task[c] # "counting"
        /\ c \in Counted' <=> ident'[c] # 0 /\ task'[c] # "counting"
    BY DEF PostedConvs, Counted
  <2> QED
    BY <2>1, <2>2, <2>3 DEF AfterPost
<1>3. PostedConvs' = PostedConvs /\ Counted' = Counted
  <2>1. PostedConvs \subseteq Convs /\ PostedConvs' \subseteq Convs /\ Counted \subseteq Convs /\ Counted' \subseteq Convs
    BY DEF PostedConvs, Counted
  <2> QED
    BY <1>2, <2>1
<1>4. nextIdent' <= Cardinality(Counted') + 1
  BY <1>3 DEF SearchIInv, IdentInv
<1>5. ASSUME NEW c \in Convs, task'[c] = "counting"
      PROVE  ident'[c] <= Cardinality(Counted') + 1
  BY <1>2, <1>3, <1>5 DEF SearchIInv, IdentInv
<1> QED
  BY <1>2, <1>3, <1>4, <1>5 DEF IdentInv

\* No request moves.
LEMMA PlaceStill ==
    ASSUME SearchIInv, PostedConvs' = PostedConvs,
           UNCHANGED <<queue, current, txq, wire, dropped, cut, answered>>
    PROVE  ListInv' /\ PlaceInv'
<1>1. ListInv'
  BY DEF SearchIInv, ListInv
<1>2. PlaceInv'
  BY DEF SearchIInv, PlaceInv, Listed
<1> QED
  BY <1>1, <1>2

\* Steps of a task that has posted its request, or is cancelled before it did, and
\* of the worker between the requests.
LEMMA QuietStep ==
    ASSUME SearchIInv, TypeOK', TaskMoves, UNCHANGED nextIdent,
           UNCHANGED <<queue, current, txq, wire, dropped, cut, answered>>
    PROVE  SearchIInv'
<1>1. IdentInv' /\ PostedConvs' = PostedConvs
  BY IdentStill
<1>2. ListInv' /\ PlaceInv'
  BY <1>1, PlaceStill
<1> QED
  BY <1>1, <1>2 DEF SearchIInv

\* What the provers need of the types.
LEMMA SearchTypes ==
    ASSUME SearchIInv
    PROVE  /\ queue \in Seq(Convs) /\ txq \in Seq(Convs) /\ NoRepeat(queue) /\ NoRepeat(txq)
           /\ IsFiniteSet(current) /\ Cardinality(current) \in Nat /\ Cardinality(current) <= N
           /\ IsFiniteSet(Counted) /\ Cardinality(Counted) \in Nat
           /\ Cardinality(Convs) \in Nat /\ N \in Nat /\ TxLimit \in Nat /\ TxLimit > 0 /\ N > 0
           /\ nextIdent \in Nat /\ nextIdent >= 1
           /\ \A c \in Convs : ident[c] \in Nat
<1>1. current \in SUBSET Convs /\ Counted \in SUBSET Convs /\ IsFiniteSet(Convs)
  BY SearchAssumption DEF SearchIInv, TypeOK, Counted
<1>2. IsFiniteSet(current) /\ IsFiniteSet(Counted)
  BY <1>1, FS_Subset
<1>3. Cardinality(current) \in Nat /\ Cardinality(Counted) \in Nat /\ Cardinality(Convs) \in Nat
  BY <1>1, <1>2, FS_CardinalityType
<1>4. N \in Nat /\ TxLimit \in Nat /\ TxLimit > 0 /\ N > 0
  <2>1. N \in Nat \ {0} /\ TxLimit \in Nat \ {0}
    BY Zenon, SearchAssumption
  <2> QED
    BY <2>1
<1>5. nextIdent \in Nat /\ nextIdent >= 1 /\ \A c \in Convs : ident[c] \in Nat
  BY <1>3 DEF SearchIInv, TypeOK, Idents
<1> QED
  BY <1>2, <1>3, <1>4, <1>5 DEF SearchIInv, TypeOK, ListInv

\* A conversation that has not counted leaves an identifier for itself.
LEMMA RoomForIdent ==
    ASSUME SearchIInv, NEW c \in Convs, c \notin Counted
    PROVE  Cardinality(Counted) + 1 <= Cardinality(Convs)
<1>1. Counted \cup {c} \in SUBSET Convs
  BY DEF Counted
<1>2. Cardinality(Counted \cup {c}) = Cardinality(Counted) + 1
  BY SearchTypes, FS_AddElement
<1>3. Cardinality(Counted \cup {c}) <= Cardinality(Convs)
  BY <1>1, SearchAssumption, FS_Subset
<1> QED
  BY <1>2, <1>3

\* The server starts with no request.
LEMMA InitSearchIInv == Init => SearchIInv
<1> SUFFICES ASSUME Init PROVE SearchIInv
  OBVIOUS
<1>1. Cardinality(Convs) \in Nat /\ Cardinality({}) = 0 /\ N \in Nat /\ TxLimit \in Nat
  BY SearchAssumption, FS_CardinalityType, FS_EmptySet
<1>2. TypeOK
  <2>1. task \in [Convs -> TaskStates]
    BY DEF Init, TaskStates
  <2>2. nextIdent \in 1 .. Cardinality(Convs) + 1 /\ Len(txq) <= TxLimit /\ Cardinality(current) <= N
    BY <1>1 DEF Init
  <2>3. /\ ident \in [Convs -> Idents \cup {0}] /\ byIdent \in [Idents -> Convs \cup {NoConv}]
        /\ note \in [Convs -> {"none", "waiting", "resolved"}] /\ replies \in [Convs -> Nat]
        /\ queue \in Seq(Convs) /\ txq \in Seq(Convs)
    BY DEF Init
  <2>4. link \in BOOLEAN /\ world \in Worlds
    BY Zenon DEF Init
  <2>5. worker \in WorkerStates
    BY DEF Init, WorkerStates
  <2>6. /\ failed \subseteq Convs /\ current \subseteq Convs /\ todo \subseteq current /\ wire \subseteq Convs
        /\ dropped \subseteq Convs /\ cut \subseteq Convs /\ answered \subseteq Convs
    BY DEF Init
  <2> QED
    BY <2>1, <2>2, <2>3, <2>4, <2>5, <2>6 DEF TypeOK
<1>3. Counted = {} /\ PostedConvs = {}
  BY DEF Init, Counted, PostedConvs
<1>4. IdentInv
  <2>1. \A c \in Convs : ident[c] = 0 /\ task[c] \in {"unborn", "new"}
    BY DEF Init
  <2>2. nextIdent <= Cardinality(Counted) + 1
    BY <1>1, <1>3 DEF Init
  <2> QED
    BY <2>1, <2>2 DEF IdentInv
<1>5. ListInv /\ PlaceInv
  BY <1>3 DEF Init, ListInv, NoRepeat, PlaceInv, Listed
<1> QED
  BY <1>2, <1>4, <1>5 DEF SearchIInv

-----------------------------------------------------------------------------
(* createConv *)

\* createConv, until the request is posted.
LEMMA ReadIdentStep ==
    ASSUME SearchIInv, NEW c \in Convs, ReadIdent(c)
    PROVE  SearchIInv'
<1>1. /\ task[c] = "new" /\ task' = [task EXCEPT ![c] = "counting"]
      /\ ident' = [ident EXCEPT ![c] = nextIdent]
      /\ UNCHANGED <<nextIdent, byIdent, note, replies, failed, worker, queue, current, todo,
                     link, txq, wire, dropped, cut, answered, world>>
  BY DEF ReadIdent, Become, conversations, workers, network, history
<1>2. /\ task \in [Convs -> TaskStates] /\ ident \in [Convs -> Idents \cup {0}]
      /\ ident[c] = 0 /\ c \notin Counted /\ nextIdent <= Cardinality(Counted) + 1
  BY <1>1 DEF SearchIInv, TypeOK, IdentInv, Counted
<1>3. nextIdent \in Idents /\ nextIdent # 0
  BY <1>2, RoomForIdent, SearchTypes DEF Idents
<1>4. \A d \in Convs \ {c} : task'[d] = task[d] /\ ident'[d] = ident[d]
  BY <1>1, <1>2
<1>5. task'[c] = "counting" /\ ident'[c] = nextIdent
  BY <1>1, <1>2
<1>6. PostedConvs' = PostedConvs /\ Counted' = Counted
  <2>1. \A d \in Convs : (d \in PostedConvs' <=> d \in PostedConvs) /\ (d \in Counted' <=> d \in Counted)
    BY <1>1, <1>2, <1>4, <1>5 DEF PostedConvs, Counted
  <2> QED
    BY <2>1 DEF PostedConvs, Counted
<1>7. TypeOK'
  <2>1. task' \in [Convs -> TaskStates] /\ ident' \in [Convs -> Idents \cup {0}]
    BY <1>1, <1>2, <1>3 DEF TaskStates
  <2> QED
    BY <1>1, <2>1 DEF SearchIInv, TypeOK
<1>8. IdentInv'
  BY <1>1, <1>2, <1>3, <1>4, <1>5, <1>6 DEF SearchIInv, IdentInv
<1>9. ListInv' /\ PlaceInv'
  BY <1>1, <1>6, PlaceStill
<1> QED
  BY <1>7, <1>8, <1>9 DEF SearchIInv

\* The next identifier is written.
LEMMA WriteIdentStep ==
    ASSUME SearchIInv, NEW c \in Convs, WriteIdent(c)
    PROVE  SearchIInv'
<1>1. /\ task[c] = "counting" /\ task' = [task EXCEPT ![c] = "starting"]
      /\ nextIdent' = ident[c] + 1
      /\ UNCHANGED <<ident, byIdent, note, replies, failed, worker, queue, current, todo,
                     link, txq, wire, dropped, cut, answered, world>>
  BY DEF WriteIdent, Become, conversations, workers, network, history
<1>2. /\ task \in [Convs -> TaskStates] /\ ident[c] \in Idents \cup {0} /\ ident[c] # 0
      /\ c \notin Counted /\ ident[c] <= Cardinality(Counted) + 1
  BY <1>1 DEF SearchIInv, TypeOK, IdentInv, Counted
<1>3. ident[c] \in Nat /\ ident[c] >= 1 /\ ident[c] <= Cardinality(Convs) /\ Cardinality(Convs) \in Nat
  BY <1>2, SearchTypes DEF Idents
<1>4. task'[c] = "starting" /\ \A d \in Convs \ {c} : task'[d] = task[d]
  BY <1>1, <1>2
<1>5. PostedConvs' = PostedConvs /\ Counted' = Counted \cup {c}
  <2>1. \A d \in Convs : (d \in PostedConvs' <=> d \in PostedConvs) /\ (d \in Counted' <=> d \in Counted \cup {c})
    BY <1>1, <1>2, <1>4 DEF PostedConvs, Counted
  <2> QED
    BY <2>1 DEF PostedConvs, Counted
<1>6. Cardinality(Counted') = Cardinality(Counted) + 1
  BY <1>2, <1>5, SearchTypes, FS_AddElement
<1>7. TypeOK'
  <2>1. task' \in [Convs -> TaskStates] /\ nextIdent' \in 1 .. Cardinality(Convs) + 1
    BY <1>1, <1>2, <1>3 DEF TaskStates
  <2> QED
    BY <1>1, <2>1 DEF SearchIInv, TypeOK
<1>8. IdentInv'
  <2>1. nextIdent' <= Cardinality(Counted') + 1
    BY <1>1, <1>2, <1>3, <1>6, SearchTypes
  <2>2. ASSUME NEW d \in Convs, task'[d] = "counting"
        PROVE  ident'[d] <= Cardinality(Counted') + 1
    <3>1. ident[d] <= Cardinality(Counted) + 1 /\ ident[d] \in Nat /\ ident'[d] = ident[d]
      BY <1>1, <1>4, <2>2, SearchTypes DEF SearchIInv, IdentInv
    <3> QED
      BY <1>6, <3>1, SearchTypes
  <2>3. \A d \in Convs : /\ task'[d] \in {"unborn", "new"} => ident'[d] = 0
                         /\ task'[d] \notin {"unborn", "new", "cancelled"} => ident'[d] # 0
    BY <1>1, <1>2, <1>4 DEF SearchIInv, IdentInv
  <2> QED
    BY <2>1, <2>2, <2>3 DEF IdentInv
<1>9. ListInv' /\ PlaceInv'
  BY <1>1, <1>5, PlaceStill
<1> QED
  BY <1>7, <1>8, <1>9 DEF SearchIInv

\* post(): the request is new to every place and goes to the end of the queue.
LEMMA StartConversationStep ==
    ASSUME SearchIInv, NEW c \in Convs, StartConversation(c)
    PROVE  SearchIInv'
<1>1. /\ task[c] = "starting" /\ task' = [task EXCEPT ![c] = "posted"]
      /\ byIdent' \in {byIdent, [byIdent EXCEPT ![ident[c]] = c]}
      /\ queue' = Append(queue, c) /\ worker' \in {worker, "pending"}
      /\ UNCHANGED <<ident, nextIdent, note, replies, failed, current, todo,
                     link, txq, wire, dropped, cut, answered, world>>
  BY DEF StartConversation, Posted, Become, conversations, network, history
<1>2. task \in [Convs -> TaskStates] /\ ident[c] # 0 /\ c \notin PostedConvs
  BY <1>1 DEF SearchIInv, TypeOK, IdentInv, PostedConvs
<1>3. task'[c] = "posted" /\ \A d \in Convs \ {c} : task'[d] = task[d]
  BY <1>1, <1>2
<1>4. PostedConvs' = PostedConvs \cup {c} /\ Counted' = Counted
  <2>1. \A d \in Convs : (d \in PostedConvs' <=> d \in PostedConvs \cup {c}) /\ (d \in Counted' <=> d \in Counted)
    BY <1>1, <1>2, <1>3 DEF PostedConvs, Counted
  <2> QED
    BY <2>1 DEF PostedConvs, Counted
<1>5. /\ c \notin current /\ c \notin Listed(queue) /\ c \notin Listed(txq) /\ c \notin wire
      /\ c \notin answered /\ c \notin dropped /\ c \notin cut
  BY <1>2 DEF SearchIInv, PlaceInv
<1>6. queue' \in Seq(Convs) /\ NoRepeat(queue') /\ Listed(queue') = Listed(queue) \cup {c}
  BY <1>1, <1>5, SearchTypes, AppendOnce
<1>7. TypeOK'
  <2>1. task' \in [Convs -> TaskStates] /\ worker' \in WorkerStates
    BY <1>1, <1>2 DEF SearchIInv, TypeOK, TaskStates, WorkerStates
  <2>2. byIdent' \in [Idents -> Convs \cup {NoConv}]
    BY <1>1 DEF SearchIInv, TypeOK
  <2> QED
    BY <1>1, <1>6, <2>1, <2>2 DEF SearchIInv, TypeOK
<1>8. IdentInv'
  BY <1>1, <1>2, <1>3, <1>4 DEF SearchIInv, IdentInv
<1>9. ListInv'
  BY <1>1, <1>6 DEF SearchIInv, ListInv
<1>10. PlaceInv'
  BY <1>1, <1>4, <1>5, <1>6 DEF SearchIInv, PlaceInv
<1> QED
  BY <1>7, <1>8, <1>9, <1>10 DEF SearchIInv

-----------------------------------------------------------------------------
(* The other steps *)

\* Every other step of a task.
LEMMA TaskQuietStep ==
    ASSUME SearchIInv, NEW c \in Convs,
           MakeNotification(c) \/ TestWaiting(c) \/ Suspend(c) \/ HandleResponse(c) \/ CancelTask(c)
    PROVE  SearchIInv'
<1>1. /\ task' \in {[task EXCEPT ![c] = s] : s \in AfterPost}
      /\ task[c] \in (AfterPost \ {"cancelled"}) \cup {"new"}
      /\ task[c] = "new" => task' = [task EXCEPT ![c] = "cancelled"]
      /\ note' \in {note, [note EXCEPT ![c] = "waiting"]}
      /\ UNCHANGED <<ident, nextIdent, byIdent, replies, failed, worker, queue, current, todo,
                     link, txq, wire, dropped, cut, answered, world>>
  BY DEF MakeNotification, TestWaiting, Suspend, HandleResponse, CancelTask, Become,
     AfterPost,
         conversations, workers, network, history
<1>2. task \in [Convs -> TaskStates] /\ AfterPost \subseteq TaskStates
  BY DEF SearchIInv, TypeOK, AfterPost, TaskStates
<1>3. task' \in [Convs -> TaskStates] /\ note' \in [Convs -> {"none", "waiting", "resolved"}]
  <2>1. PICK s \in AfterPost : task' = [task EXCEPT ![c] = s]
    BY <1>1
  <2>2. task' \in [Convs -> TaskStates]
    BY <1>2, <2>1
  <2>3. note \in [Convs -> {"none", "waiting", "resolved"}]
    BY DEF SearchIInv, TypeOK
  <2> QED
    BY <1>1, <2>2, <2>3
<1>4. TypeOK'
  BY <1>1, <1>3 DEF SearchIInv, TypeOK
<1>5. TaskMoves
  <2>1. ASSUME NEW d \in Convs
        PROVE  \/ task'[d] = task[d]
               \/ task[d] \in AfterPost \ {"cancelled"} /\ task'[d] \in AfterPost
               \/ task[d] = "new" /\ task'[d] = "cancelled"
    BY <1>1, <1>2
  <2> QED
    BY <1>1, <1>3, <2>1 DEF TaskMoves
<1> QED
  BY <1>1, <1>4, <1>5, QuietStep

\* The worker between two requests, a connect that fails, and the end of a connection.
LEMMA WorkerQuietStep ==
    ASSUME SearchIInv,
           \/ LoopEnds \/ TestQueue \/ SuspendWorker \/ LinkEnds \/ UNCHANGED vars
           \/ \E c \in Convs : ProcessFails(c)
    PROVE  SearchIInv'
<1>1. /\ worker' \in WorkerStates /\ todo' \subseteq todo
      /\ UNCHANGED <<task, ident, nextIdent, byIdent, note, replies, failed, queue, current,
                     txq, wire, dropped, cut, answered, world>>
  BY DEF LoopEnds, TestQueue, SuspendWorker, LinkEnds, ProcessFails, Refused, vars,
     tasks,
         conversations, workers, network, history, WorkerStates, SearchIInv, TypeOK
<1>2. link' \in BOOLEAN
  BY Zenon
     DEF LoopEnds, TestQueue, SuspendWorker, LinkEnds, ProcessFails, vars, network,
         SearchIInv, TypeOK
<1>3. TypeOK'
  BY <1>1, <1>2 DEF SearchIInv, TypeOK
<1>4. TaskMoves
  BY <1>1 DEF SearchIInv, TypeOK, TaskMoves
<1> QED
  BY <1>1, <1>3, <1>4, QuietStep

\* The worker takes no more from its queue than fits.
LEMMA FillCurrentStep ==
    ASSUME SearchIInv, FillCurrent
    PROVE  SearchIInv'
<1>1. /\ queue' = Rest(queue, Batch) /\ current' = current \cup First(queue, Batch) /\ todo' = current'
      /\ worker' = "work"
      /\ UNCHANGED <<task, ident, nextIdent, byIdent, note, replies, failed,
                     link, txq, wire, dropped, cut, answered, world>>
  BY DEF FillCurrent, First, Rest, tasks, conversations, network, history
<1>2. Len(queue) \in Nat /\ Batch \in 0 .. Len(queue) /\ Batch <= N - Cardinality(current)
  BY SearchTypes DEF Batch
<1>3. /\ queue' \in Seq(Convs) /\ NoRepeat(queue') /\ First(queue, Batch) \subseteq Convs
      /\ Listed(queue') = Listed(queue) \ First(queue, Batch) /\ First(queue, Batch) \subseteq Listed(queue)
  BY <1>1, <1>2, SearchTypes, SkipSome
<1>4. IsFiniteSet(First(queue, Batch)) /\ Cardinality(First(queue, Batch)) \in Nat
      /\ Cardinality(First(queue, Batch)) <= Batch
  BY <1>2, FirstFew
<1>5. Cardinality(current') <= N
  <2> DEFINE moved == First(queue, Batch)
  <2>1. current \cap moved = {}
    BY <1>3 DEF SearchIInv, PlaceInv, TypeOK
  <2> HIDE DEF moved
  <2>2. Cardinality(current \cup moved) = Cardinality(current) + Cardinality(moved) - Cardinality(current \cap moved)
    BY <1>4, SearchTypes, FS_Union DEF moved
  <2>3. Cardinality(current \cap moved) = 0
    BY <2>1, FS_EmptySet
  <2> QED
    BY <1>1, <1>2, <1>4, <2>2, <2>3, SearchTypes DEF moved
<1>6. TypeOK'
  BY <1>1, <1>3, <1>5 DEF SearchIInv, TypeOK, WorkerStates
<1>7. TaskMoves
  BY <1>1 DEF SearchIInv, TypeOK, TaskMoves
<1>8. IdentInv' /\ PostedConvs' = PostedConvs
  BY <1>1, <1>7, IdentStill
<1>9. ListInv'
  BY <1>1, <1>3 DEF SearchIInv, ListInv
<1>10. PlaceInv'
  BY <1>1, <1>3, <1>8 DEF SearchIInv, PlaceInv
<1> QED
  BY <1>6, <1>8, <1>9, <1>10 DEF SearchIInv

\* The connection takes a request out of the transmit queue.
LEMMA TransmitStep ==
    ASSUME SearchIInv, Transmit
    PROVE  SearchIInv'
<1>1. /\ txq # <<>> /\ txq' = Tail(txq) /\ wire' = wire \cup {Head(txq)}
      /\ UNCHANGED <<task, ident, nextIdent, byIdent, note, replies, failed, worker, queue, current, todo,
                     link, dropped, cut, answered, world>>
  BY DEF Transmit, tasks, conversations, workers, history
<1>2. /\ txq' \in Seq(Convs) /\ NoRepeat(txq') /\ Head(txq) \in Listed(txq) /\ Head(txq) \in Convs
      /\ Listed(txq') = Listed(txq) \ {Head(txq)}
  BY <1>1, SearchTypes, SkipFirst
<1>3. Len(txq') <= TxLimit
  <2>1. Len(Tail(txq)) = Len(txq) - 1 /\ Len(txq) \in Nat
    BY <1>1, SearchTypes
  <2>2. Len(txq) <= TxLimit
    BY DEF SearchIInv, TypeOK
  <2> QED
    BY <1>1, <2>1, <2>2, SearchTypes
<1>4. TypeOK'
  BY <1>1, <1>2, <1>3 DEF SearchIInv, TypeOK
<1>5. TaskMoves
  BY <1>1 DEF SearchIInv, TypeOK, TaskMoves
<1>6. IdentInv' /\ PostedConvs' = PostedConvs
  BY <1>1, <1>5, IdentStill
<1>7. ListInv'
  BY <1>1, <1>2 DEF SearchIInv, ListInv
<1>8. PlaceInv'
  BY <1>1, <1>2, <1>6 DEF SearchIInv, PlaceInv
<1> QED
  BY <1>4, <1>6, <1>7, <1>8 DEF SearchIInv

\* A request is sent or dropped by a full queue: process() moves it from current to
\* one of two places, whichever requests the transmit queue q has.
LEMMA SendsOrDrops ==
    ASSUME SearchIInv, NEW c \in current, NEW q \in Seq(Convs), NoRepeat(q), Len(q) <= TxLimit, c \notin Listed(q),
           SendInitiator(c, q)
    PROVE  /\ c \in Convs
           /\ current' = current \ {c} /\ Cardinality(current') <= N
           /\ txq' \in Seq(Convs) /\ NoRepeat(txq') /\ Len(txq') <= TxLimit
           /\ \/ Listed(txq') = Listed(q) \cup {c} /\ dropped' = dropped
              \/ Listed(txq') = Listed(q) /\ dropped' = dropped \cup {c}
<1>1. c \in Convs
  BY DEF SearchIInv, TypeOK
<1>2. current' = current \ {c} /\ Cardinality(current') <= N
  <2>1. current' = current \ {c}
    BY DEF SendInitiator, Finished
  <2>2. Cardinality(current \ {c}) = Cardinality(current) - 1
    BY SearchTypes, FS_RemoveElement
  <2> QED
    BY <2>1, <2>2, SearchTypes
<1>3. CASE Len(q) < TxLimit /\ txq' = Append(q, c) /\ UNCHANGED dropped
  <2>1. Append(q, c) \in Seq(Convs) /\ NoRepeat(Append(q, c)) /\ Listed(Append(q, c)) = Listed(q) \cup {c}
    BY <1>1, AppendOnce
  <2>2. Len(Append(q, c)) = Len(q) + 1 /\ Len(q) \in Nat
    OBVIOUS
  <2>3. Len(Append(q, c)) <= TxLimit
    BY <1>3, <2>2, SearchTypes
  <2> QED
    BY <1>1, <1>2, <1>3, <2>1, <2>3
<1>4. CASE Len(q) >= TxLimit /\ txq' = q /\ dropped' = dropped \cup {c}
  BY <1>1, <1>2, <1>4
<1> QED
  BY <1>3, <1>4 DEF SendInitiator

\* The connection is there.
LEMMA ProcessStep ==
    ASSUME SearchIInv, NEW c \in Convs, Process(c)
    PROVE  SearchIInv'
<1>1. /\ c \in current /\ SendInitiator(c, txq) /\ todo' = todo \ {c}
      /\ UNCHANGED <<task, ident, nextIdent, byIdent, note, replies, failed, worker, queue,
                     link, wire, cut, answered, world>>
  BY DEF Process, tasks, conversations, SearchIInv, TypeOK
<1>2. c \notin Listed(txq) /\ Len(txq) <= TxLimit
  BY <1>1 DEF SearchIInv, PlaceInv, TypeOK
<1>3. /\ current' = current \ {c} /\ Cardinality(current') <= N
      /\ txq' \in Seq(Convs) /\ NoRepeat(txq') /\ Len(txq') <= TxLimit
      /\ \/ Listed(txq') = Listed(txq) \cup {c} /\ dropped' = dropped
         \/ Listed(txq') = Listed(txq) /\ dropped' = dropped \cup {c}
  BY <1>1, <1>2, SearchTypes, SendsOrDrops
<1>4. TypeOK'
  BY <1>1, <1>3 DEF SearchIInv, TypeOK
<1>5. TaskMoves
  BY <1>1 DEF SearchIInv, TypeOK, TaskMoves
<1>6. IdentInv' /\ PostedConvs' = PostedConvs
  BY <1>1, <1>5, IdentStill
<1>7. ListInv'
  BY <1>1, <1>3 DEF SearchIInv, ListInv
<1>8. PlaceInv'
  BY <1>1, <1>3, <1>6 DEF SearchIInv, PlaceInv
<1> QED
  BY <1>4, <1>6, <1>7, <1>8 DEF SearchIInv

\* A new connection: what the old one had is cut off.
LEMMA ProcessConnectingStep ==
    ASSUME SearchIInv, NEW c \in Convs, ProcessConnecting(c)
    PROVE  SearchIInv'
<1>1. /\ c \in current /\ SendInitiator(c, <<>>) /\ todo' = todo \ {c}
      /\ cut' = cut \cup Listed(txq) \cup wire /\ wire' = {} /\ link' = TRUE
      /\ UNCHANGED <<ident, nextIdent, byIdent, note, replies, failed, worker, queue, answered, world>>
  BY DEF ProcessConnecting, conversations, SearchIInv, TypeOK, Listed
<1>2. PICK a \in Convs : task[a] = "unborn" /\ task' = [task EXCEPT ![a] = "new"]
  <2>1. (CHOOSE a \in Unborn : TRUE) \in Unborn
    BY DEF ProcessConnecting
  <2> QED
    BY <2>1 DEF ProcessConnecting, Become, Unborn, Addresses
<1>3. <<>> \in Seq(Convs) /\ NoRepeat(<<>>) /\ Listed(<<>>) = {} /\ Len(<<>>) <= TxLimit
  BY SearchTypes DEF NoRepeat, Listed
<1>4. /\ current' = current \ {c} /\ Cardinality(current') <= N
      /\ txq' \in Seq(Convs) /\ NoRepeat(txq') /\ Len(txq') <= TxLimit
      /\ \/ Listed(txq') = {c} /\ dropped' = dropped
         \/ Listed(txq') = {} /\ dropped' = dropped \cup {c}
  <2> DEFINE q == <<>>
  <2>1. q \in Seq(Convs) /\ NoRepeat(q) /\ Listed(q) = {} /\ Len(q) <= TxLimit /\ SendInitiator(c, q)
    BY <1>1, <1>3
  <2> HIDE DEF q
  <2> QED
    BY <1>1, <2>1, SendsOrDrops
<1>5. task' \in [Convs -> TaskStates] /\ Listed(txq) \subseteq Convs /\ link' \in BOOLEAN
  <2>1. task' \in [Convs -> TaskStates]
    BY <1>2 DEF SearchIInv, TypeOK, TaskStates
  <2>2. Listed(txq) \subseteq Convs
    BY SearchTypes DEF Listed
  <2>3. link' \in BOOLEAN
    BY Zenon, <1>1
  <2> QED
    BY <2>1, <2>2, <2>3
<1>6. TypeOK'
  BY <1>1, <1>4, <1>5 DEF SearchIInv, TypeOK
<1>7. TaskMoves
  BY <1>1, <1>2, <1>5 DEF SearchIInv, TypeOK, TaskMoves
<1>8. IdentInv' /\ PostedConvs' = PostedConvs
  BY <1>1, <1>7, IdentStill
<1>9. ListInv'
  BY <1>1, <1>4 DEF SearchIInv, ListInv
<1>10. PlaceInv'
  BY <1>1, <1>4, <1>8 DEF SearchIInv, PlaceInv
<1> QED
  BY <1>6, <1>8, <1>9, <1>10 DEF SearchIInv

\* An answer or an error comes in for a request that the search system has.
LEMMA AnsweredStep ==
    ASSUME SearchIInv, NEW r \in Convs, r \in wire, wire' = wire \ {r}, answered' = answered \cup {r},
           TypeOK', TaskMoves, UNCHANGED <<nextIdent, queue, current, txq, dropped, cut>>
    PROVE  SearchIInv'
<1>1. IdentInv' /\ PostedConvs' = PostedConvs
  BY IdentStill
<1>2. ListInv'
  BY DEF SearchIInv, ListInv
<1>3. PlaceInv'
  BY <1>1 DEF SearchIInv, PlaceInv
<1> QED
  BY <1>1, <1>2, <1>3 DEF SearchIInv

\* The conversation that the reader finds.
LEMMA FoundType ==
    ASSUME SearchIInv, NEW r \in Convs, r \in wire
    PROVE  Found(r) \subseteq Convs \cup {NoConv}
<1>1. ident[r] # 0
  BY DEF SearchIInv, PlaceInv, PostedConvs
<1>2. ident[r] \in Idents
  BY <1>1 DEF SearchIInv, TypeOK
<1> QED
  BY <1>2 DEF SearchIInv, TypeOK, Found

\* HandleMessage and HandleError
LEMMA HandleMessageStep ==
    ASSUME SearchIInv, NEW r \in Convs, HandleMessage(r)
    PROVE  SearchIInv'
<1>1. /\ r \in wire /\ wire' = wire \ {r} /\ answered' = answered \cup {r}
      /\ UNCHANGED <<ident, nextIdent, byIdent, worker, queue, current, todo, link, txq, dropped, cut, world>>
  BY DEF HandleMessage, workers
<1>2. /\ task \in [Convs -> TaskStates] /\ note \in [Convs -> {"none", "waiting", "resolved"}]
      /\ replies \in [Convs -> Nat] /\ failed \subseteq Convs
  BY DEF SearchIInv, TypeOK
<1>3. /\ task' \in [Convs -> TaskStates] /\ note' \in [Convs -> {"none", "waiting", "resolved"}]
      /\ replies' \in [Convs -> Nat] /\ failed' \subseteq Convs
      /\ \A d \in Convs : task'[d] = task[d] \/ (task[d] = "suspended" /\ task'[d] = "woken")
  <2>1. Found(r) \ {NoConv} \subseteq Convs
    BY <1>1, FoundType
  <2>2. \/ UNCHANGED <<replies, failed, note, task>>
        \/ \E c \in Convs :
              /\ \/ replies' = [replies EXCEPT ![c] = @ + 1] /\ failed' = failed \ {c}
                 \/ failed' = failed \cup {c} /\ UNCHANGED replies
              /\ note' = [note EXCEPT ![c] = IF @ = "waiting" THEN "resolved" ELSE @]
              /\ task' = [task EXCEPT ![c] = IF note[c] = "waiting" THEN Woken(c) ELSE task[c]]
    BY <2>1 DEF HandleMessage, Become
  <2>3. CASE UNCHANGED <<replies, failed, note, task>>
    BY <1>2, <2>3
  <2>4. CASE ~UNCHANGED <<replies, failed, note, task>>
    <3>1. PICK c \in Convs :
              /\ \/ replies' = [replies EXCEPT ![c] = @ + 1] /\ failed' = failed \ {c}
                 \/ failed' = failed \cup {c} /\ UNCHANGED replies
              /\ note' = [note EXCEPT ![c] = IF @ = "waiting" THEN "resolved" ELSE @]
              /\ task' = [task EXCEPT ![c] = IF note[c] = "waiting" THEN Woken(c) ELSE task[c]]
      BY <2>2, <2>4
    <3>2. Woken(c) \in TaskStates /\ (Woken(c) = task[c] \/ (task[c] = "suspended" /\ Woken(c) = "woken"))
      BY <1>2 DEF Woken, TaskStates
    <3>3. replies' \in [Convs -> Nat] /\ failed' \subseteq Convs
      BY <1>2, <3>1
    <3>4. note' \in [Convs -> {"none", "waiting", "resolved"}]
      BY <1>2, <3>1
    <3> QED
      BY <1>2, <3>1, <3>2, <3>3, <3>4
  <2> QED
    BY <2>3, <2>4
<1>4. TypeOK'
  BY <1>1, <1>3 DEF SearchIInv, TypeOK
<1>5. TaskMoves
  BY <1>1, <1>3 DEF TaskMoves, AfterPost
<1> QED
  BY <1>1, <1>4, <1>5, AnsweredStep

\* An error is recorded.
LEMMA HandleErrorStep ==
    ASSUME SearchIInv, NEW r \in Convs, HandleError(r)
    PROVE  SearchIInv'
<1>1. /\ r \in wire /\ wire' = wire \ {r} /\ answered' = answered \cup {r}
      /\ UNCHANGED <<task, ident, nextIdent, byIdent, note, replies, worker, queue, current, todo,
                     link, txq, dropped, cut, world>>
  BY DEF HandleError, tasks, workers
<1>2. failed' \subseteq Convs
  BY <1>1, FoundType DEF HandleError, SearchIInv, TypeOK
<1>3. TypeOK'
  BY <1>1, <1>2 DEF SearchIInv, TypeOK
<1>4. TaskMoves
  BY <1>1 DEF SearchIInv, TypeOK, TaskMoves
<1> QED
  BY <1>1, <1>3, <1>4, AnsweredStep

\* Every step keeps the invariant.
LEMMA SearchStep == SearchIInv /\ [Next]_vars => SearchIInv'
  BY ReadIdentStep, WriteIdentStep, StartConversationStep, TaskQuietStep,
     WorkerQuietStep,
     FillCurrentStep, TransmitStep, ProcessStep, ProcessConnectingStep, HandleMessageStep,
     HandleErrorStep
     DEF Next, TaskStep, WorkerStep

\* The number of true elements of a list of seven, if there is one, or none.
LEMMA OneOrNone ==
    ASSUME NEW p, DOMAIN p = 1 .. 7
    PROVE  /\ (\A i \in 1 .. 7 : ~p[i]) => Cardinality({i \in DOMAIN p : p[i]}) = 0
           /\ (\E k \in 1 .. 7 : p[k] /\ \A i \in 1 .. 7 : p[i] => i = k)
                 => Cardinality({i \in DOMAIN p : p[i]}) = 1
<1>1. ASSUME \A i \in 1 .. 7 : ~p[i]
      PROVE  Cardinality({i \in DOMAIN p : p[i]}) = 0
  <2>1. {i \in DOMAIN p : p[i]} = {}
    BY <1>1
  <2> QED
    BY <2>1, FS_EmptySet
<1>2. ASSUME NEW k \in 1 .. 7, p[k], \A i \in 1 .. 7 : p[i] => i = k
      PROVE  Cardinality({i \in DOMAIN p : p[i]}) = 1
  <2>1. {i \in DOMAIN p : p[i]} = {k}
    BY <1>2
  <2> QED
    BY <2>1, FS_Singleton
<1> QED
  BY <1>1, <1>2

\* Places that are disjoint are one place.
LEMMA PlacesAreOne == SearchIInv => NoRequestLost
<1> SUFFICES ASSUME SearchIInv, NEW c \in Convs
             PROVE  LET places == <<c \in current, \E i \in DOMAIN queue : queue[i] = c,
                                    \E i \in DOMAIN txq : txq[i] = c, c \in wire, c \in answered,
                                    c \in dropped, c \in cut>>
                        posted == ident[c] # 0 /\ task[c] \notin {"counting", "starting"}
                    IN  Cardinality({i \in DOMAIN places : places[i]}) = IF posted THEN 1 ELSE 0
  BY DEF NoRequestLost
<1> DEFINE places == <<c \in current, \E i \in DOMAIN queue : queue[i] = c,
                       \E i \in DOMAIN txq : txq[i] = c, c \in wire, c \in answered,
                       c \in dropped, c \in cut>>
           posted == ident[c] # 0 /\ task[c] \notin {"counting", "starting"}
<1>1. /\ DOMAIN places = 1 .. 7
      /\ places[1] = (c \in current) /\ places[4] = (c \in wire) /\ places[5] = (c \in answered)
      /\ places[6] = (c \in dropped) /\ places[7] = (c \in cut)
      /\ places[2] = (\E i \in DOMAIN queue : queue[i] = c)
      /\ places[3] = (\E i \in DOMAIN txq : txq[i] = c)
  OBVIOUS
<1>2. (\E i \in DOMAIN queue : queue[i] = c) <=> c \in Listed(queue)
  BY DEF Listed
<1>3. (\E i \in DOMAIN txq : txq[i] = c) <=> c \in Listed(txq)
  BY DEF Listed
<1>4. posted <=> c \in PostedConvs
  BY DEF PostedConvs
<1> HIDE DEF places, posted
<1>5. /\ places[1] <=> c \in current
      /\ places[2] <=> c \in Listed(queue)
      /\ places[3] <=> c \in Listed(txq)
      /\ places[4] <=> c \in wire
      /\ places[5] <=> c \in answered
      /\ places[6] <=> c \in dropped
      /\ places[7] <=> c \in cut
  BY Zenon, <1>1, <1>2, <1>3
<1>6. \A i \in 1 .. 7 : i \in {1, 2, 3, 4, 5, 6, 7}
  OBVIOUS
<1>7. ASSUME ~posted
      PROVE  \A i \in 1 .. 7 : ~places[i]
  BY <1>4, <1>5, <1>7, <1>6 DEF SearchIInv, PlaceInv
<1>8. ASSUME posted
      PROVE  \E k \in 1 .. 7 : places[k] /\ \A i \in 1 .. 7 : places[i] => i = k
  <2>1. ASSUME c \in current
        PROVE  places[1] /\ \A i \in 1 .. 7 : places[i] => i = 1
    BY <1>5, <1>6, <2>1 DEF SearchIInv, PlaceInv
  <2>2. ASSUME c \in Listed(queue)
        PROVE  places[2] /\ \A i \in 1 .. 7 : places[i] => i = 2
    BY <1>5, <1>6, <2>2 DEF SearchIInv, PlaceInv
  <2>3. ASSUME c \in Listed(txq)
        PROVE  places[3] /\ \A i \in 1 .. 7 : places[i] => i = 3
    BY <1>5, <1>6, <2>3 DEF SearchIInv, PlaceInv
  <2>4. ASSUME c \in wire
        PROVE  places[4] /\ \A i \in 1 .. 7 : places[i] => i = 4
    BY <1>5, <1>6, <2>4 DEF SearchIInv, PlaceInv
  <2>5. ASSUME c \in answered
        PROVE  places[5] /\ \A i \in 1 .. 7 : places[i] => i = 5
    BY <1>5, <1>6, <2>5 DEF SearchIInv, PlaceInv
  <2>6. ASSUME c \in dropped
        PROVE  places[6] /\ \A i \in 1 .. 7 : places[i] => i = 6
    BY <1>5, <1>6, <2>6 DEF SearchIInv, PlaceInv
  <2>7. ASSUME c \in cut
        PROVE  places[7] /\ \A i \in 1 .. 7 : places[i] => i = 7
    BY <1>5, <1>6, <2>7 DEF SearchIInv, PlaceInv
  <2>8. \/ c \in current \/ c \in Listed(queue) \/ c \in Listed(txq) \/ c \in wire
        \/ c \in answered \/ c \in dropped \/ c \in cut
    BY <1>4, <1>8 DEF SearchIInv, PlaceInv
  <2> QED
    BY <2>1, <2>2, <2>3, <2>4, <2>5, <2>6, <2>7, <2>8
<1>9. Cardinality({i \in DOMAIN places : places[i]}) = IF posted THEN 1 ELSE 0
  BY <1>1, <1>7, <1>8, OneOrNone
<1> QED
  BY <1>9 DEF places, posted

\* However posts, connects that fail, reconnects, cancellations and the loops of the
\* worker interleave, and although identifiers may be given out twice, a posted
\* request is in exactly one place, and the worker's batch is never too large: for
\* any number of conversations, any batch and any transmit queue.
THEOREM SearchCorrect == Spec => []SearchInv
<1>1. SearchIInv => SearchInv
  BY PlacesAreOne DEF SearchIInv, SearchInv
<1> QED
  BY <1>1, InitSearchIInv, SearchStep, PTL DEF Spec

-----------------------------------------------------------------------------
(* The names that a search finds (AgentUri) and the addresses of the search *)
(* system and of the listeners (Uri)                                        *)

\* A piece of a string: what is between two slashes.
Piece == Seq(Chars)

\* Strings of one piece.
Single == {<<x>> : x \in Piece}

URIs ==
    [protocol : Single, coreURI : Single, coreKey : Single, namespaces : Seq(Piece),
     agentKey : Single, agentAlias : Single, empty : BOOLEAN]

\* The lengths and the elements of a concatenation.
LEMMA ConcatIs ==
    \A s, t \in Seq(Piece) :
       /\ s \o t \in Seq(Piece) /\ Len(s \o t) = Len(s) + Len(t)
       /\ \A i \in 1 .. Len(s) : (s \o t)[i] = s[i]
       /\ \A i \in 1 .. Len(t) : (s \o t)[Len(s) + i] = t[i]
  OBVIOUS

\* The string of one piece.
One(e) == <<e>>

\* A string with one more piece.
LEMMA Pushed ==
    \A s \in Seq(Piece), e \in Piece :
       /\ s \o One(e) \in Seq(Piece) /\ Len(s \o One(e)) = Len(s) + 1
       /\ \A i \in 1 .. Len(s) : (s \o One(e))[i] = s[i]
       /\ (s \o One(e))[Len(s) + 1] = e
<1> TAKE s \in Seq(Piece), e \in Piece
<1> DEFINE o == One(e)
<1>1. o \in Seq(Piece) /\ Len(o) = 1 /\ o[1] = e
  BY DEF One
<1> HIDE DEF o
<1>2. /\ s \o o \in Seq(Piece) /\ Len(s \o o) = Len(s) + Len(o)
      /\ \A i \in 1 .. Len(s) : (s \o o)[i] = s[i]
      /\ \A i \in 1 .. Len(o) : (s \o o)[Len(s) + i] = o[i]
  BY <1>1, ConcatIs, Zenon
<1>3. (s \o o)[Len(s) + 1] = e
  <2>1. 1 \in 1 .. 1
    OBVIOUS
  <2> QED
    BY <1>1, <1>2, <2>1
<1> QED
  BY <1>1, <1>2, <1>3 DEF o

\* What is put at the end can be taken off again.
LEMMA FrontAppend ==
    ASSUME NEW S, NEW s \in Seq(S), NEW e \in S
    PROVE  SubSeq(Append(s, e), 1, Len(Append(s, e)) - 1) = s
<1> DEFINE t == Append(s, e)
<1>1. PICK n \in Nat : n = Len(s)
  OBVIOUS
<1>2. t \in Seq(S) /\ Len(t) = n + 1 /\ \A i \in 1 .. n : t[i] = s[i]
  BY <1>1
<1> HIDE DEF t
<1>3. Len(t) - 1 = n
  BY <1>2
<1> DEFINE w == SubSeq(t, 1, n)
<1>4. w \in Seq(S) /\ Len(w) = n /\ \A i \in 1 .. n : w[i] = t[i]
  BY <1>2
<1> HIDE DEF w
<1>5. w = s
  BY <1>1, <1>2, <1>4
<1> QED
  BY <1>3, <1>5 DEF w, t
\* The colon that toString writes, and parse takes off.
LEMMA Colon ==
    ASSUME NEW S, NEW x \in Seq(S), NEW e \in S
    PROVE  Append(x, e) \in Seq(S) /\ Append(x, e) # <<>> /\ Names!Front(Append(x, e)) = x
<1>1. Append(x, e) \in Seq(S) /\ Len(Append(x, e)) = Len(x) + 1
  OBVIOUS
<1>2. Names!Front(Append(x, e)) = x
  BY FrontAppend DEF Names!Front
<1>3. Append(x, e) # <<>>
  <2>1. Len(x) + 1 # 0 /\ Len(<<>>) = 0
    OBVIOUS
  <2> QED
    BY <1>1, <2>1
<1> QED
  BY <1>1, <1>2, <1>3


\* A new URI is one.
LEMMA NewIs ==
    ASSUME Names!NamesAssumption
    PROVE  Names!NewURI \in URIs
<1>1. Names!Empty \in Single /\ <<tcp>> \in Single
  <2>1. <<>> \in Piece /\ tcp \in Piece
    BY DEF Piece, Names!NamesAssumption
  <2> QED
    BY <2>1 DEF Single, Names!Empty
<1>2. <<>> \in Seq(Piece)
  OBVIOUS
<1> QED
  BY <1>1, <1>2 DEF Names!NewURI, URIs

\* What toString writes, parse reads; without namespaces it reads one, which is empty.
LEMMA ReadBack ==
    ASSUME Names!NamesAssumption, NEW u \in URIs
    PROVE  Names!parse(Names!toString(u)) =
             [protocol |-> u.protocol, coreURI |-> u.coreURI, coreKey |-> u.coreKey,
              namespaces |-> IF u.namespaces = <<>> THEN Names!Empty ELSE u.namespaces,
              agentKey |-> u.agentKey, agentAlias |-> u.agentAlias, empty |-> FALSE]
<1>0. PICK x \in Piece, c \in Piece, d \in Piece, k \in Piece, a \in Piece, ns \in Seq(Piece) :
        /\ u.protocol = <<x>> /\ u.coreURI = <<c>> /\ u.coreKey = <<d>> /\ u.namespaces = ns
        /\ u.agentKey = <<k>> /\ u.agentAlias = <<a>>
  BY DEF URIs, Single
<1> DEFINE names == IF ns = <<>> THEN Names!Empty ELSE ns
           y == Append(x, ":")
           t == Names!toString(u)
           z == <<>>
<1>1. z \in Piece
  BY DEF Piece
<1>2. names \in Seq(Piece) /\ Len(names) >= 1
  BY <1>1 DEF Names!Empty
<1>3. y \in Piece /\ y # <<>> /\ Names!Front(y) = x
  BY Colon DEF Names!NamesAssumption, Piece
<1>4. t = One(y) \o One(z) \o One(c) \o One(d) \o names \o One(k) \o One(a)
  <2>1. Names!Front(<<x>>) = <<>> /\ Names!Last(<<x>>) = x
    BY DEF Names!Front, Names!Last
  <2>2. <<>> \o <<y>> = <<y>>
    BY <1>3
  <2> QED
    BY <1>0, <2>1, <2>2 DEF Names!toString, Names!Empty, One
<1> HIDE DEF names, y, t, z
<1>5. PICK n \in Nat : n = Len(names) /\ n >= 1
  BY <1>2
<1>6. /\ t \in Seq(Piece) /\ Len(t) = n + 6
      /\ t[1] = y /\ t[3] = c /\ t[4] = d
      /\ \A i \in 1 .. n : t[4 + i] = names[i]
      /\ t[n + 5] = k /\ t[n + 6] = a
  <2> DEFINE h1 == One(y)
             h2 == h1 \o One(z)
             h3 == h2 \o One(c)
             h4 == h3 \o One(d)
             m == h4 \o names
             w == m \o One(k)
             v == w \o One(a)
  <2>1. h1 \in Seq(Piece) /\ Len(h1) = 1 /\ h1[1] = y
    BY <1>3 DEF One
  <2> HIDE DEF h1
  <2>2. h2 \in Seq(Piece) /\ Len(h2) = 2 /\ h2[1] = y
    <3>1. /\ h2 \in Seq(Piece) /\ Len(h2) = Len(h1) + 1
          /\ \A i \in 1 .. Len(h1) : h2[i] = h1[i]
          /\ h2[Len(h1) + 1] = z
      BY <1>1, <2>1, Pushed, Zenon
    <3> HIDE DEF h2
    <3> QED
      BY <2>1, <3>1
  <2> HIDE DEF h2
  <2>3. h3 \in Seq(Piece) /\ Len(h3) = 3 /\ h3[1] = y /\ h3[3] = c
    <3>1. /\ h3 \in Seq(Piece) /\ Len(h3) = Len(h2) + 1
          /\ \A i \in 1 .. Len(h2) : h3[i] = h2[i]
          /\ h3[Len(h2) + 1] = c
      BY <2>2, Pushed, Zenon
    <3> HIDE DEF h3
    <3> QED
      BY <2>2, <3>1
  <2> HIDE DEF h3
  <2>4. h4 \in Seq(Piece) /\ Len(h4) = 4 /\ h4[1] = y /\ h4[3] = c /\ h4[4] = d
    <3>1. /\ h4 \in Seq(Piece) /\ Len(h4) = Len(h3) + 1
          /\ \A i \in 1 .. Len(h3) : h4[i] = h3[i]
          /\ h4[Len(h3) + 1] = d
      BY <2>3, Pushed, Zenon
    <3> HIDE DEF h4
    <3> QED
      BY <2>3, <3>1
  <2> HIDE DEF h4
  <2>5. /\ m \in Seq(Piece) /\ Len(m) = n + 4
        /\ m[1] = y /\ m[3] = c /\ m[4] = d
        /\ \A i \in 1 .. n : m[4 + i] = names[i]
    <3>1. /\ m \in Seq(Piece) /\ Len(m) = Len(h4) + Len(names)
          /\ \A i \in 1 .. Len(h4) : m[i] = h4[i]
          /\ \A i \in 1 .. Len(names) : m[Len(h4) + i] = names[i]
      BY <1>2, <2>4, ConcatIs, Zenon
    <3> HIDE DEF m
    <3>3. /\ Len(m) = 4 + n /\ \A i \in 1 .. 4 : m[i] = h4[i] /\ \A j \in 1 .. n : m[4 + j] = names[j]
      BY <1>5, <2>4, <3>1
    <3> QED
      BY <2>4, <3>1, <3>3
  <2> HIDE DEF m
  <2>6. /\ w \in Seq(Piece) /\ Len(w) = n + 5
        /\ w[1] = y /\ w[3] = c /\ w[4] = d
        /\ \A i \in 1 .. n : w[4 + i] = names[i]
        /\ w[n + 5] = k
    <3>1. /\ w \in Seq(Piece) /\ Len(w) = Len(m) + 1
          /\ \A i \in 1 .. Len(m) : w[i] = m[i]
          /\ w[Len(m) + 1] = k
      BY <2>5, Pushed, Zenon
    <3> HIDE DEF w
    <3>2. PICK o \in Nat : o = n + 4 /\ o = Len(m)
      BY <2>5
    <3>3. /\ w \in Seq(Piece) /\ Len(w) = o + 1 /\ \A i \in 1 .. o : w[i] = m[i]
          /\ w[o + 1] = k
      BY <3>1, <3>2
    <3>4. /\ o + 1 = n + 5 /\ 1 \in 1 .. o /\ 3 \in 1 .. o /\ 4 \in 1 .. o
          /\ \A i \in 1 .. n : 4 + i \in 1 .. o
      BY <3>2
    <3> QED
      BY <2>5, <3>3, <3>4
  <2> HIDE DEF w
  <2>7. /\ v \in Seq(Piece) /\ Len(v) = n + 6
        /\ v[1] = y /\ v[3] = c /\ v[4] = d
        /\ \A i \in 1 .. n : v[4 + i] = names[i]
        /\ v[n + 5] = k /\ v[n + 6] = a
    <3>1. /\ v \in Seq(Piece) /\ Len(v) = Len(w) + 1
          /\ \A i \in 1 .. Len(w) : v[i] = w[i]
          /\ v[Len(w) + 1] = a
      BY <2>6, Pushed, Zenon
    <3> HIDE DEF v
    <3>2. PICK o \in Nat : o = n + 5 /\ o = Len(w)
      BY <2>6
    <3>3. /\ v \in Seq(Piece) /\ Len(v) = o + 1 /\ \A i \in 1 .. o : v[i] = w[i]
          /\ v[o + 1] = a
      BY <3>1, <3>2
    <3>4. o + 1 = n + 6 /\ 1 \in 1 .. o /\ 3 \in 1 .. o /\ 4 \in 1 .. o /\ n + 5 \in 1 .. o
          /\ \A i \in 1 .. n : 4 + i \in 1 .. o
      BY <3>2
    <3> QED
      BY <2>6, <3>3, <3>4
  <2>8. t = v
    BY <1>4 DEF v, w, m, h4, h3, h2, h1
  <2> QED
    BY <2>7, <2>8
<1>7. Names!split(t) = t
  <2>1. Len(Names!Empty) = 1
    BY DEF Names!Empty
  <2> QED
    <3>1. n + 6 # 1
      BY <1>5
    <3> QED
      BY <1>6, <2>1, <3>1 DEF Names!split
<1>8. Names!Namespaces(t) = names
  <2>1. /\ Names!Namespaces(t) \in Seq(Piece) /\ Len(Names!Namespaces(t)) = n
        /\ \A i \in 1 .. n : Names!Namespaces(t)[i] = t[4 + i]
    <3>1. PICK o \in Nat : o = n + 6 /\ o = Len(t) /\ o - 2 = n + 4
      BY <1>5, <1>6
    <3>2. Names!Namespaces(t) = SubSeq(t, 5, n + 4)
      BY <3>1 DEF Names!Namespaces
    <3>3. /\ SubSeq(t, 5, n + 4) \in Seq(Piece) /\ Len(SubSeq(t, 5, n + 4)) = n
          /\ \A i \in 1 .. n : SubSeq(t, 5, n + 4)[i] = t[4 + i]
      BY <1>5, <1>6, <3>1
    <3> QED
      BY <3>2, <3>3
  <2> QED
    BY <1>2, <1>5, <1>6, <2>1
<1>9. Names!parse(t) =
        [protocol |-> <<x>>, coreURI |-> <<c>>, coreKey |-> <<d>>, namespaces |-> names,
         agentKey |-> <<k>>, agentAlias |-> <<a>>, empty |-> FALSE]
  <2>1. PICK o \in Nat : o = Len(t) /\ ~(o < 7) /\ o - 1 = n + 5 /\ o = n + 6
    BY <1>5, <1>6
  <2>2. Names!parse(t) = [protocol |-> <<IF t[1] = <<>> THEN <<>> ELSE Names!Front(t[1])>>,
              coreURI |-> <<t[3]>>, coreKey |-> <<t[4]>>, namespaces |-> Names!Namespaces(t),
              agentKey |-> <<t[o - 1]>>, agentAlias |-> <<t[o]>>, empty |-> FALSE]
    BY <1>7, <2>1 DEF Names!parse
  <2>3. t[o - 1] = k /\ t[o] = a
    BY <1>6, <2>1
  <2> QED
    BY <1>3, <1>6, <1>8, <2>2, <2>3, Zenon
<1>10. names = IF u.namespaces = <<>> THEN Names!Empty ELSE u.namespaces
  BY <1>0 DEF names
<1> QED
  BY <1>0, <1>9, <1>10, Zenon DEF t

\* What parse reads is a URI, with at least one namespace unless it is a new one.
LEMMA ParseIs ==
    ASSUME Names!NamesAssumption, NEW s \in Seq(Piece)
    PROVE  /\ Names!parse(s) \in URIs /\ Names!parse(s).empty \in BOOLEAN
           /\ ~Names!parse(s).empty => Names!parse(s).namespaces # <<>>
<1>1. CASE Names!split(s) = s /\ Len(s) >= 7
  <2> DEFINE x == IF s[1] = <<>> THEN <<>> ELSE Names!Front(s[1])
             ns == Names!Namespaces(s)
  <2>1. PICK n \in Nat : n = Len(s) /\ n >= 7
    BY <1>1
  <2>2. s[1] \in Piece /\ s[3] \in Piece /\ s[4] \in Piece /\ s[n - 1] \in Piece /\ s[n] \in Piece
    BY <2>1
  <2>3. x \in Piece
    <3>1. \A y \in Seq(Chars) : y # <<>> => Names!Front(y) \in Seq(Chars)
      BY DEF Names!Front
    <3>2. <<>> \in Seq(Chars)
      OBVIOUS
    <3> QED
      BY <2>2, <3>1, <3>2 DEF Piece
  <2>4. ns \in Seq(Piece) /\ ns # <<>>
    <3>1. n - 2 \in Nat /\ 5 <= n - 2 /\ Len(s) - 2 = n - 2
      BY <2>1
    <3>2. /\ SubSeq(s, 5, n - 2) \in Seq(Piece) /\ Len(SubSeq(s, 5, n - 2)) = n - 6
      BY <2>1, <3>1
    <3>3. Len(SubSeq(s, 5, n - 2)) # 0
      BY <2>1, <3>2
    <3>4. ns = SubSeq(s, 5, n - 2)
      BY <3>1 DEF Names!Namespaces
    <3>5. Len(<<>>) = 0
      OBVIOUS
    <3> QED
      BY <3>2, <3>3, <3>4, <3>5
  <2> HIDE DEF x, ns
  <2>5. Names!parse(s) =
          [protocol |-> <<x>>, coreURI |-> <<s[3]>>, coreKey |-> <<s[4]>>, namespaces |-> ns,
           agentKey |-> <<s[n - 1]>>, agentAlias |-> <<s[n]>>, empty |-> FALSE]
    BY <1>1, <2>1 DEF Names!parse, x, ns
  <2>6. /\ <<x>> \in Single /\ <<s[3]>> \in Single /\ <<s[4]>> \in Single
        /\ <<s[n - 1]>> \in Single /\ <<s[n]>> \in Single
    BY <2>2, <2>3 DEF Single
  <2> QED
    BY <2>4, <2>5, <2>6 DEF URIs
<1>2. CASE ~(Names!split(s) = s /\ Len(s) >= 7)
  <2>1. Len(Names!split(s)) < 7
    BY <1>2 DEF Names!split, Names!Empty
  <2>2. Names!NewURI \in URIs /\ Names!NewURI.empty = TRUE
    BY NewIs DEF Names!NewURI
  <2> QED
    BY <2>1, <2>2 DEF Names!parse
<1> QED
  BY <1>1, <1>2

\* A key as it is, or with an alias after it.
Called(k, s) == s = k \/ \E a \in Piece : a # <<>> /\ s = k \o <<a>>

\* What parseAgent reads of a name whose key has no slash: the key, and with it the
\* whole name.
LEMMA AgentIs ==
    ASSUME Names!NamesAssumption, NEW k \in Keys, Len(k) = 1, NEW s, Called(k, s)
    PROVE  /\ Names!parseAgent(s) \in URIs
           /\ Names!parseAgent(s).agentKey = k /\ Names!agentPartAsString(Names!parseAgent(s)) = s
<1>1. PICK x \in Piece : k = <<x>>
  <2>1. k \in Seq(Piece) /\ Len(k) = 1
    BY DEF Names!NamesAssumption, Piece
  <2> QED
    BY <2>1
<1>2. Names!NewURI \in URIs /\ Names!NewURI.agentAlias = Names!Empty /\ <<x>> \in Single
  BY <1>1, NewIs DEF Names!NewURI, Single
<1>3. CASE s = k
  <2>1. Len(s) = 1
    BY <1>1, <1>3
  <2>2. Names!parseAgent(s) = [Names!NewURI EXCEPT !.agentKey = s]
    BY <2>1 DEF Names!parseAgent
  <2>3. /\ Names!parseAgent(s) \in URIs /\ Names!parseAgent(s).agentKey = s
        /\ Names!parseAgent(s).agentAlias = Names!Empty
    BY <1>1, <1>2, <1>3, <2>2 DEF URIs
  <2> QED
    BY <1>3, <2>3 DEF Names!agentPartAsString
<1>4. CASE \E a \in Piece : a # <<>> /\ s = k \o <<a>>
  <2>1. PICK a \in Piece : a # <<>> /\ s = k \o <<a>>
    BY <1>4
  <2>2. Len(s) = 2 /\ s[1] = x /\ s[2] = a
    <3>1. <<x>> \in Seq(Piece) /\ Len(<<x>>) = 1 /\ <<x>>[1] = x
      OBVIOUS
    <3> DEFINE o == <<x>>
    <3>2. o \in Seq(Piece) /\ Len(o) = 1 /\ o[1] = x
      BY <3>1
    <3> HIDE DEF o
    <3> DEFINE w == o \o One(a)
    <3>3. /\ w \in Seq(Piece) /\ Len(w) = Len(o) + 1
          /\ \A i \in 1 .. Len(o) : w[i] = o[i]
          /\ w[Len(o) + 1] = a
      BY <3>2, Pushed, Zenon
    <3> HIDE DEF w
    <3>4. s = w
      BY <1>1, <2>1 DEF w, o, One
    <3> QED
      BY <3>2, <3>3, <3>4
  <2>3. Names!split(s) = s
    <3>1. Len(Names!Empty) # 2
      BY DEF Names!Empty
    <3> QED
      BY <2>2, <3>1 DEF Names!split
  <2>4. Names!parseAgent(s) =
          [Names!NewURI EXCEPT !.empty = FALSE, !.agentKey = <<x>>, !.agentAlias = <<a>>]
    <3>1. Len(s) # 1
      BY <2>2
    <3>2. Names!parseAgent(s) =
            [Names!NewURI EXCEPT !.empty = FALSE, !.agentKey = <<s[1]>>, !.agentAlias = <<s[2]>>]
      BY <2>2, <2>3, <3>1 DEF Names!parseAgent
    <3> QED
      BY <2>2, <3>2
  <2>5. <<a>> \in Single /\ <<a>> # Names!Empty
    BY <2>1 DEF Single, Names!Empty
  <2>6. /\ Names!parseAgent(s) \in URIs /\ Names!parseAgent(s).agentKey = <<x>>
        /\ Names!parseAgent(s).agentAlias = <<a>>
    BY <1>2, <2>4, <2>5 DEF URIs
  <2> QED
    BY <1>1, <2>1, <2>5, <2>6 DEF Names!agentPartAsString
<1> QED
  BY <1>3, <1>4 DEF Called

\* The name is the key with or without an alias wherever it is, also where a key with
\* a slash is split, if the key has none, and a message is made from it.
NameInv ==
    /\ key \in Keys /\ agent_uri \in Seq(Piece)
    /\ stage \in {"register", "search", "send", "sent"}
    /\ stage # "register" => Called(key, name)
    /\ Names!PlainKey /\ stage \in {"send", "sent"} => Called(key, dest)
    /\ stage = "sent" =>
          receiver = Names!parseAgent(dest).agentKey /\ target = Names!toString(Names!parseAgent(dest))

\* It holds when the agent registers.
LEMMA NameInit == ASSUME Names!NamesAssumption, Names!Init PROVE NameInv
<1>1. agent_uri \in Seq(Piece)
  <2>1. PICK n \in 1 .. MaxPieces : agent_uri \in [1 .. n -> Pieces]
    BY DEF Names!Init
  <2>2. n \in Nat /\ Pieces \subseteq Piece
    BY DEF Names!NamesAssumption, Piece
  <2> QED
    BY <2>1, <2>2
<1> QED
  BY <1>1 DEF Names!Init, NameInv

\* Registration, search and message keep it.
LEMMA NameStep == ASSUME Names!NamesAssumption, NameInv, [Names!Next]_(Names!vars) PROVE NameInv'
<1>1. CASE Names!Register
  <2>1. Called(key, Names!RegisteredName)
    <3> DEFINE u == [Names!parse(agent_uri) EXCEPT !.agentKey = key]
    <3>1. Names!parse(agent_uri) \in URIs
      BY ParseIs DEF NameInv
    <3>2. PICK a \in Piece : Names!parse(agent_uri).agentAlias = <<a>>
      BY <3>1 DEF URIs, Single
    <3>3. u.agentKey = key /\ u.agentAlias = <<a>>
      BY <3>1, <3>2 DEF URIs
    <3>4. a = <<>> => <<a>> = Names!Empty
      BY DEF Names!Empty
    <3>5. a # <<>> => <<a>> # Names!Empty
      BY DEF Names!Empty
    <3>6. Names!RegisteredName = IF a = <<>> THEN key ELSE key \o <<a>>
      BY <3>3, <3>4, <3>5 DEF Names!RegisteredName, Names!agentPartAsString
    <3> QED
      BY <3>6 DEF Called
  <2> QED
    BY <1>1, <2>1 DEF Names!Register, NameInv, Called
<1>2. CASE Names!Found
  <2>1. Names!PlainKey => Names!agentPartAsString(Names!parseAgent(name)) = name
    BY <1>2, AgentIs DEF Names!Found, NameInv, Names!PlainKey
  <2>2. Names!PlainKey => dest' = name /\ Called(key, name)
    BY <1>2, <2>1 DEF Names!Found, NameInv
  <2>3. Names!PlainKey' = Names!PlainKey
    BY <1>2 DEF Names!Found, Names!PlainKey
  <2> QED
    BY <1>2, <2>2, <2>3 DEF Names!Found, NameInv, Called
<1>3. CASE Names!SendMessage
  BY <1>3 DEF Names!SendMessage, NameInv, Called, Names!PlainKey
<1>4. CASE UNCHANGED Names!vars
  BY <1>4 DEF Names!vars, NameInv, Called, Names!PlainKey
<1> QED
  BY <1>1, <1>2, <1>3, <1>4 DEF Names!Next

\* It is enough for the uses of a name to agree.
LEMMA NamesHold == ASSUME Names!NamesAssumption, NameInv PROVE Names!NamesAgree
<1>1. Names!RoundTrip
  <2>1. /\ Names!parse(agent_uri) \in URIs
        /\ ~Names!parse(agent_uri).empty => Names!parse(agent_uri).namespaces # <<>>
    BY ParseIs DEF NameInv
  <2>2. ASSUME ~Names!parse(agent_uri).empty
        PROVE  Names!parse(Names!toString(Names!parse(agent_uri))) = Names!parse(agent_uri)
    <3> DEFINE u == Names!parse(agent_uri)
    <3>1. u \in URIs /\ u.namespaces # <<>> /\ u.empty = FALSE
      BY <2>1, <2>2 DEF URIs
    <3> HIDE DEF u
    <3>2. Names!parse(Names!toString(u)) =
             [protocol |-> u.protocol, coreURI |-> u.coreURI, coreKey |-> u.coreKey,
              namespaces |-> IF u.namespaces = <<>> THEN Names!Empty ELSE u.namespaces,
              agentKey |-> u.agentKey, agentAlias |-> u.agentAlias, empty |-> FALSE]
      BY <3>1, ReadBack
    <3>3. u = [protocol |-> u.protocol, coreURI |-> u.coreURI, coreKey |-> u.coreKey,
              namespaces |-> u.namespaces,
              agentKey |-> u.agentKey, agentAlias |-> u.agentAlias, empty |-> u.empty]
      BY <3>1 DEF URIs
    <3> QED
      BY <3>1, <3>2, <3>3, Zenon DEF u
  <2> QED
    BY <2>2 DEF Names!RoundTrip
<1>2. Names!FoundIsReachable
  BY AgentIs DEF Names!FoundIsReachable, Names!PlainKey, NameInv
<1>3. Names!TargetNamesAgent
  <2>1. ASSUME Names!PlainKey, stage = "sent"
        PROVE  Names!parse(target).agentKey = key /\ Names!agentPartAsString(Names!parse(target)) = dest
    <3> DEFINE u == Names!parseAgent(dest)
    <3>1. /\ u \in URIs /\ u.agentKey = key
          /\ Names!agentPartAsString(u) = dest /\ target = Names!toString(u)
      BY <2>1, AgentIs DEF NameInv, Names!PlainKey
    <3> HIDE DEF u
    <3>2. Names!parse(target) =
             [protocol |-> u.protocol, coreURI |-> u.coreURI, coreKey |-> u.coreKey,
              namespaces |-> IF u.namespaces = <<>> THEN Names!Empty ELSE u.namespaces,
              agentKey |-> u.agentKey, agentAlias |-> u.agentAlias, empty |-> FALSE]
      BY <3>1, ReadBack
    <3>3. Names!parse(target).agentKey = u.agentKey /\ Names!parse(target).agentAlias = u.agentAlias
      BY <3>1, <3>2 DEF URIs
    <3> QED
      BY <3>1, <3>3 DEF Names!agentPartAsString
  <2> QED
    BY <2>1 DEF Names!TargetNamesAgent
<1> QED
  BY <1>1, <1>2, <1>3 DEF Names!NamesAgree

\* The names of agents (OEFURI::URI): what parse reads survives toString and
\* another parse, for all strings; and of an agent whose key has no slash, which
\* nothing in the code requires, the name a search finds leads to it and the
\* target_uri of a message names it, for all agent_uris and aliases.
THEOREM NamesCorrect ==
    ASSUME Names!NamesAssumption
    PROVE  Names!Spec => []NamesAgree
<1>1. Names!Init => NameInv
  BY NameInit
<1>2. NameInv /\ [Names!Next]_(Names!vars) => NameInv'
  BY NameStep
<1>3. NameInv => NamesAgree
  BY NamesHold DEF NamesAgree
<1> QED
  BY <1>1, <1>2, <1>3, PTL DEF Names!Spec

-----------------------------------------------------------------------------
(* Addresses *)

\* A port within its field is kept.
LEMMA SmallModulus ==
    ASSUME NEW b \in Nat, b > 0
    PROVE  \A x \in Nat : x < b => x % b = x
  OBVIOUS

\* The loop begins with nothing read, and a turn takes one group.
LEMMA TurnsAre ==
    /\ Addr!Turns[0] = [expects |-> "PROTO", uri |-> Addr!NewUri]
    /\ \A i \in 1..4 : Addr!Turns[i] = Addr!Turn(Addr!Turns[i - 1], written[i])
<1> DEFINE l0 == [expects |-> "PROTO", uri |-> Addr!NewUri]
           l1 == Addr!Turn(l0, written[1])
           l2 == Addr!Turn(l1, written[2])
           l3 == Addr!Turn(l2, written[3])
           l4 == Addr!Turn(l3, written[4])
           f == [i \in 0..4 |-> IF i = 0 THEN l0 ELSE IF i = 1 THEN l1 ELSE IF i = 2 THEN l2
                                ELSE IF i = 3 THEN l3 ELSE l4]
           t == Addr!Turns
<1> HIDE DEF l0
<1>1. f[0] = l0 /\ f[1] = Addr!Turn(f[0], written[1]) /\ f[2] = Addr!Turn(f[1], written[2])
      /\ f[3] = Addr!Turn(f[2], written[3]) /\ f[4] = Addr!Turn(f[3], written[4])
  OBVIOUS
<1>2. DOMAIN f = 0..4 /\ f = [i \in 0..4 |-> f[i]]
  OBVIOUS
<1> HIDE DEF f
<1>3. \A i \in 0..4 : f[i] = IF i = 0 THEN l0 ELSE Addr!Turn(f[i - 1], written[i])
  <2>1. \A i \in 0..4 : i = 0 \/ i = 1 \/ i = 2 \/ i = 3 \/ i = 4
    OBVIOUS
  <2>2. 1 - 1 = 0 /\ 2 - 1 = 1 /\ 3 - 1 = 2 /\ 4 - 1 = 3
    OBVIOUS
  <2> QED
    BY <1>1, <2>1, <2>2
<1>4. f = [i \in 0..4 |-> IF i = 0 THEN l0 ELSE Addr!Turn(f[i - 1], written[i])]
  BY <1>2, <1>3
<1>5. t = [i \in 0..4 |-> IF i = 0 THEN l0 ELSE Addr!Turn(t[i - 1], written[i])]
  BY <1>4 DEF Addr!Turns, l0
<1> HIDE DEF t
<1>6. \A i \in 0..4 : t[i] = IF i = 0 THEN l0 ELSE Addr!Turn(t[i - 1], written[i])
  BY <1>5
<1>7. t[0] = l0 /\ \A i \in 1..4 : t[i] = Addr!Turn(t[i - 1], written[i])
  BY <1>6
<1> QED
  BY <1>7 DEF t, l0

\* The groups of a match.
Groups ==
    Addr!Part("proto", Protos) \X Addr!Part("host", Hosts)
        \X Addr!Part("port", Ports) \X Addr!Part("path", Paths)

\* An address that is being read, and where the loop is.
Loop(e, p, h, q, r) ==
    [expects |-> e, uri |-> [proto |-> p, host |-> h, port |-> q, path |-> r, valid |-> FALSE]]

\* What a turn does to it.
LEMMA TurnIs ==
    ASSUME NEW p, NEW h, NEW q, NEW r, NEW part
    PROVE  /\ part.kind = "proto" =>
                 Addr!Turn(Loop("PROTO", p, h, q, r), part) = Loop("HOST", part, h, q, r)
           /\ Addr!Turn(Loop("HOST", p, h, q, r), part) = Loop("PORT", p, part, q, r)
           /\ part.kind = "port" =>
                 Addr!Turn(Loop("PORT", p, h, q, r), part) = Loop("PATH", p, h, Addr!PortOf(part), r)
           /\ part.kind # "port" =>
                 Addr!Turn(Loop("PORT", p, h, q, r), part) = Loop("PORT", p, h, q, part)
           /\ Addr!Turn(Loop("PATH", p, h, q, r), part) = Loop("PATH", p, h, q, part)
           /\ part.kind # "proto" =>
                 Addr!Turn(Loop("PROTO", p, h, q, r), part) = Loop("PORT", p, part, q, r)
<1>1. ASSUME part.kind = "proto"
      PROVE  Addr!Turn(Loop("PROTO", p, h, q, r), part) = Loop("HOST", part, h, q, r)
  BY <1>1 DEF Addr!Turn, Loop
<1>2. Addr!Turn(Loop("HOST", p, h, q, r), part) = Loop("PORT", p, part, q, r)
  BY DEF Addr!Turn, Loop
<1>3. ASSUME part.kind = "port"
      PROVE  Addr!Turn(Loop("PORT", p, h, q, r), part) = Loop("PATH", p, h, Addr!PortOf(part), r)
  BY <1>3 DEF Addr!Turn, Loop
<1>4. ASSUME part.kind # "port"
      PROVE  Addr!Turn(Loop("PORT", p, h, q, r), part) = Loop("PORT", p, h, q, part)
  BY <1>4 DEF Addr!Turn, Loop
<1>5. Addr!Turn(Loop("PATH", p, h, q, r), part) = Loop("PATH", p, h, q, part)
  BY DEF Addr!Turn, Loop
<1>6. ASSUME part.kind # "proto"
      PROVE  Addr!Turn(Loop("PROTO", p, h, q, r), part) = Loop("PORT", p, part, q, r)
  BY <1>6 DEF Addr!Turn, Loop
<1> QED
  BY <1>1, <1>2, <1>3, <1>4, <1>5, <1>6

\* The addresses (Uri::parse): a valid one has the protocol and the path of its
\* string, whichever groups are left out; its host if a protocol is written; and its
\* port, or 0 if there is none, if the port fits 16 bits.
THEOREM AddressesCorrect ==
    ASSUME Addr!UriAssumption
    PROVE  Addr!Spec => []AsWritten
<1> DEFINE I == written \in Groups /\ (~uri.valid => uri = Addr!NewUri) /\ AsWritten
<1>1. Addr!Init => I
  <2>1. ~Addr!NewUri.valid
    BY DEF Addr!NewUri
  <2> QED
    BY <2>1 DEF Addr!Init, Groups, AsWritten, Addr!AsWritten
<1>2. I /\ [Addr!Next]_(Addr!vars) => I'
  <2>1. ASSUME I, Addr!parse
        PROVE  I'
    <3>1. PICK p \in Addr!Part("proto", Protos), h \in Addr!Part("host", Hosts),
               q \in Addr!Part("port", Ports), r \in Addr!Part("path", Paths) :
             written[1] = p /\ written[2] = h /\ written[3] = q /\ written[4] = r
      BY <2>1 DEF Groups
    <3>2. /\ p.kind = "proto" \/ p = Addr!NoPart
          /\ h.kind = "host" /\ (q.kind = "port" \/ q = Addr!NoPart)
          /\ q.value < Addr!PortLimit => q.value % Addr!PortLimit = q.value
      <4>1. "host" \notin Optional
        BY DEF Addr!UriAssumption
      <4>2. /\ p.kind = "proto" \/ p = Addr!NoPart
            /\ h.kind = "host" /\ (q.kind = "port" \/ q = Addr!NoPart)
        BY <4>1 DEF Addr!Part
      <4>3. PICK v : v = q.value
        BY Zenon
      <4>4. v \in Ports \/ v = 0
        <5>1. CASE q \in [kind : {"port"}, value : Ports]
          <6>1. \A x \in [kind : {"port"}, value : Ports] : x.value \in Ports
            OBVIOUS
          <6> QED
            BY <4>3, <5>1, <6>1, Zenon
        <5>2. CASE q = Addr!NoPart
          BY <4>3, <5>2 DEF Addr!NoPart
        <5> QED
          BY <5>1, <5>2 DEF Addr!Part
      <4>5. PICK b \in Nat : b = Addr!PortLimit /\ b > 0
        BY DEF Addr!PortLimit
      <4>6. v \in Nat
        <5>1. \A x \in Ports : x \in Nat
          BY DEF Addr!UriAssumption
        <5> QED
          BY <4>4, <5>1
      <4>7. v < b => v % b = v
        BY <4>5, <4>6, SmallModulus
      <4> QED
        BY <4>2, <4>3, <4>5, <4>7, Zenon
    <3>3. /\ Addr!Turns[0] = Loop("PROTO", Addr!NoPart, Addr!NoPart, 0, Addr!NoPart)
          /\ Addr!Turns[1] = Addr!Turn(Addr!Turns[0], p) /\ Addr!Turns[2] = Addr!Turn(Addr!Turns[1], h)
          /\ Addr!Turns[3] = Addr!Turn(Addr!Turns[2], q) /\ Addr!Turns[4] = Addr!Turn(Addr!Turns[3], r)
      <4>1. /\ Addr!Turns[0] = [expects |-> "PROTO", uri |-> Addr!NewUri]
            /\ \A i \in 1..4 : Addr!Turns[i] = Addr!Turn(Addr!Turns[i - 1], written[i])
        BY TurnsAre
      <4>2. [expects |-> "PROTO", uri |-> Addr!NewUri] =
            Loop("PROTO", Addr!NoPart, Addr!NoPart, 0, Addr!NoPart)
        BY DEF Loop, Addr!NewUri
      <4>3. 1 - 1 = 0 /\ 2 - 1 = 1 /\ 3 - 1 = 2 /\ 4 - 1 = 3 /\ {1, 2, 3, 4} \subseteq 1..4
        OBVIOUS
      <4> QED
        BY <3>1, <4>1, <4>2, <4>3
    <3>4. \E g, s : /\ p # Addr!NoPart => g = h
                   /\ Addr!Turns[2] = Loop("PORT", p, g, 0, s)
      <4>1. CASE p.kind = "proto"
        BY <3>2, <3>3, <4>1, TurnIs
      <4>2. CASE p = Addr!NoPart
        <5>1. p.kind # "proto" /\ h.kind # "port"
          BY <3>2, <4>2 DEF Addr!NoPart
        <5>2. Addr!Turns[1] = Loop("PORT", p, p, 0, Addr!NoPart)
          BY <3>3, <4>2, <5>1, TurnIs
        <5> QED
          BY <3>3, <4>2, <5>1, <5>2, TurnIs
      <4> QED
        BY <3>2, <4>1, <4>2
    <3>10. PICK g, s : /\ p # Addr!NoPart => g = h
                     /\ Addr!Turns[2] = Loop("PORT", p, g, 0, s)
      BY <3>4
    <3>11. PICK port : /\ q.value < Addr!PortLimit => port = q.value
                       /\ q.kind = "port" => port = Addr!PortOf(q)
                       /\ q.kind # "port" => port = 0
      BY <3>2 DEF Addr!PortOf, Addr!NoPart
    <3>5. \E e : Addr!Turns[4] = Loop(e, p, g, port, r)
      <4>1. CASE q.kind = "port"
        <5>1. Addr!Turns[3] = Loop("PATH", p, g, port, s)
          BY <3>3, <3>10, <3>11, <4>1, TurnIs
        <5> QED
          BY <3>3, <5>1, TurnIs
      <4>2. CASE q = Addr!NoPart
        <5>1. q.kind # "port" /\ q.value = 0
          BY <4>2 DEF Addr!NoPart
        <5>2. Addr!Turns[3] = Loop("PORT", p, g, port, q)
          BY <3>3, <3>10, <3>11, <5>1, TurnIs
        <5>3. r.kind # "port"
          BY DEF Addr!Part, Addr!NoPart
        <5> QED
          BY <3>3, <5>1, <5>2, <5>3, TurnIs
      <4> QED
        BY <3>2, <4>1, <4>2
    <3>6. uri' = [Addr!Turns[4].uri EXCEPT !.valid = TRUE] /\ written' = written
      BY <2>1 DEF Addr!parse
    <3>7. /\ uri'.valid /\ uri'.proto = p /\ uri'.host = g /\ uri'.port = port /\ uri'.path = r
      BY <3>5, <3>6 DEF Loop
    <3> QED
      BY <2>1, <3>1, <3>6, <3>7, <3>10, <3>11 DEF AsWritten, Addr!AsWritten
  <2>2. ASSUME I, UNCHANGED Addr!vars
        PROVE  I'
    BY <2>2 DEF Addr!vars, AsWritten, Addr!AsWritten
  <2> QED
    BY <2>1, <2>2 DEF Addr!Next
<1>3. I => AsWritten
  OBVIOUS
<1> QED
  BY <1>1, <1>2, <1>3, PTL DEF Addr!Spec
=============================================================================
