------------------------ MODULE AgentSession_proofs ------------------------
(***************************************************************************)
(* The registry against the connections, the login time-out and the end of *)
(* an endpoint, for every number of threads, connections and keys.         *)
(***************************************************************************)
EXTENDS AgentSession, FiniteSetTheorems, TLAPS

-----------------------------------------------------------------------------
(* The inductive invariant *)

HistoryType == added \in [Conns -> BOOLEAN] /\ excused \in [Conns -> BOOLEAN]

\* A connection before it is accepted and after its end: the listener is at the
\* last one that was created, and the factory stays until there is a goodbye.
BirthInv ==
    \A c \in Conns :
       /\ phase[c] = "unborn" => factory[c] = "none"
       /\ phase[c] = "listening" => factory[c] = "id" /\ \A d \in Conns : d > c => phase[d] = "unborn"
       /\ phase[c] \in {"unborn", "listening"} => timer[c] = "none" /\ ~added[c]
       /\ cleanup[c].state = "queued" => phase[c] = "dead"
       /\ goodbye[c] => phase[c] = "dead"
       /\ phase[c] = "running" => factory[c] \in {"id", "answer", "functions"}

\* A handler works on a connection that was started, a close handler on one that
\* has said goodbye, and one thread at a time processes its messages.
WorkInv ==
    /\ \A t \in Threads :
          /\ pc[t] \in Reading => phase[cur[t]] \in {"running", "dead"}
          /\ pc[t] \in Closing => goodbye[cur[t]]
    /\ \A t, u \in Threads : pc[t] \in Reading /\ pc[u] \in Reading /\ cur[t] = cur[u] => t = u

Adding == {"login", "loggedin", "successor"}

\* The registry leads to connections that were added with that key, and what was
\* added has passed its handshake, is passing it, or is excused.
KeyInv ==
    /\ \A c \in Conns, k \in Keys : registry[k] = c => added[c] /\ key[c] = k
    /\ \A c \in Conns :
          /\ factory[c] = "answer" \/ added[c] => key[c] \in Keys
          /\ added[c] => factory[c] \notin {"none", "id"}
          /\ loggedin[c] \/ factory[c] \in {"functions", "orphan"} => added[c]
          /\ added[c] /\ factory[c] = "answer" => Busy(c, Adding) \/ excused[c]
    /\ \A t \in Threads :
          pc[t] \in Adding => added[cur[t]] /\ factory[cur[t]] \in {"answer", "null"}

Gone(c) == \A k \in Keys : registry[k] # c

\* How far the goodbye of a connection has come.
DeadInv ==
    \A c \in Conns :
       phase[c] = "dead" /\ ~excused[c] =>
          /\ goodbye[c]
          /\ ~Busy(c, Reading)
          /\ \/ Busy(c, {"charge", "closed"})
             \/ Gone(c) /\ (Busy(c, {"submit", "group", "reset"}) \/ factory[c] = "null")

\* Whoever was added is found under its key, or another one was added with it.
FindInv ==
    \A c \in Conns :
       added[c] /\ ~goodbye[c] =>
          \/ registry[key[c]] = c
          \/ \E d \in Conns \ {c} : added[d] /\ key[d] = key[c]

\* The tasks of the pool keep endpoints of connections that were accepted or wait
\* to be.
HeldInv == \A c \in held : c \in Conns /\ phase[c] # "unborn"

Inv ==
    /\ TypeOK /\ HistoryType /\ HeldInv /\ BirthInv /\ WorkInv /\ KeyInv
    /\ LoginOrOut /\ DeadInv /\ FindInv

-----------------------------------------------------------------------------
(* It is inductive *)

LEMMA InitInv == Init => Inv
<1> SUFFICES ASSUME Init PROVE Inv
  OBVIOUS
<1> USE SessionAssumption DEF Init
<1>1. 1 \in Conns /\ MaxConns \in Nat /\ 0 \in 0 .. MaxConns /\ 1 \in 0 .. MaxConns
  BY DEF Conns
<1>2. TypeOK
  BY <1>1 DEF TypeOK, Phases, Factories, NoTask
<1>3. HistoryType /\ HeldInv /\ WorkInv /\ LoginOrOut /\ DeadInv /\ FindInv
  BY DEF HistoryType, HeldInv, WorkInv, Reading, Closing, LoginOrOut, DeadInv, FindInv
<1>4. BirthInv
  BY <1>1 DEF BirthInv, NoTask, Conns
<1>5. KeyInv
  BY DEF KeyInv, Adding
<1> QED
  BY <1>2, <1>3, <1>4, <1>5 DEF Inv

\* The connection a thread works on.
LEMMA CurIs ==
    ASSUME TypeOK, NEW t \in Threads, pc[t] # "idle"
    PROVE  cur[t] \in Conns
  BY DEF TypeOK

\* A close handler is taken: by a thread that finds the connection running, or by
\* the one that processes its message.
LEMMA TakeHandlerStep ==
    ASSUME Inv, NEW t \in Threads, NEW c \in Conns, TakeHandler(t, c),
           \/ pc[t] = "idle" /\ phase[c] = "running"
           \/ pc[t] \in Reading /\ cur[t] = c,
           excused' = excused \/ excused' = [excused EXCEPT ![c] = TRUE],
           excused'[c] \/ \A u \in Threads \ {t} : ~(cur[u] = c /\ pc[u] \in Reading),
           pc[t] \in Adding => excused'[c],
           UNCHANGED <<factory, key, loggedin, ident, timer, cleanup, held, registry, tgroup,
                       crashed, added>>
    PROVE  Inv'
<1> USE DEF Inv
<1>0. DOMAIN excused = Conns /\ DOMAIN phase = Conns /\ DOMAIN pc = Threads /\ DOMAIN cur = Threads
      /\ NoConn \notin Conns
  BY SessionAssumption DEF TypeOK, HistoryType
<1>1. /\ phase' = [phase EXCEPT ![c] = "dead"]
      /\ sock' = [sock EXCEPT ![c] = FALSE]
      /\ goodbye' = [goodbye EXCEPT ![c] = TRUE]
      /\ phase[c] \in {"running", "dead"}
      /\ excused' \in [Conns -> BOOLEAN]
      /\ \A d \in Conns : excused[d] => excused'[d]
      /\ \A d \in Conns \ {c} : excused'[d] = excused[d]
  BY DEF TakeHandler, WorkInv, HistoryType
<1>12. HeldInv'
  BY <1>0, <1>1 DEF HeldInv, TypeOK
<1>2. CASE ~goodbye[c]
  <2>1. pc' = [pc EXCEPT ![t] = "charge"] /\ cur' = [cur EXCEPT ![t] = c]
    BY <1>2 DEF TakeHandler, Goto
  <2>2. TypeOK'
    BY <1>0, <1>1, <1>2, <2>1 DEF TypeOK, Phases, Factories, Reading, Closing
  <2>3. HistoryType'
    BY <1>0, <1>1, <1>2, <2>1 DEF HistoryType
  <2>4. BirthInv'
    BY <1>0, <1>1, <1>2, <2>1 DEF BirthInv, TypeOK
  <2>5. WorkInv'
    BY <1>0, <1>1, <1>2, <2>1 DEF WorkInv, TypeOK, Reading, Closing
  <2>6. KeyInv'
    BY <1>0, <1>1, <1>2, <2>1 DEF KeyInv, TypeOK, Adding, Busy, Reading
  <2>7. LoginOrOut'
    BY <1>0, <1>1, <1>2, <2>1 DEF LoginOrOut, TypeOK
  <2>8. DeadInv'
    BY <1>0, <1>1, <1>2, <2>1 DEF DeadInv, TypeOK, Gone, Busy, Reading, Adding
  <2>9. FindInv'
    BY <1>0, <1>1, <1>2, <2>1 DEF FindInv, TypeOK
  <2> QED
    BY <1>12, <2>2, <2>3, <2>4, <2>5, <2>6, <2>7, <2>8, <2>9
<1>3. CASE goodbye[c]
  <2>1. pc' = [pc EXCEPT ![t] = "idle"] /\ cur' = [cur EXCEPT ![t] = NoConn]
    BY <1>3 DEF TakeHandler, Goto
  <2>2. phase[c] = "dead" /\ pc[t] \in Reading /\ cur[t] = c
    BY <1>3 DEF BirthInv
  <2>3. excused[c]
    BY <2>2 DEF DeadInv, Busy
  <2>4. TypeOK'
    BY <1>0, <1>1, <1>3, <2>1, <2>2, <2>3
       DEF TypeOK, Phases, Factories, Reading, Closing
  <2>5. HistoryType'
    BY <1>0, <1>1, <1>3, <2>1, <2>2, <2>3 DEF HistoryType
  <2>6. BirthInv'
    BY <1>0, <1>1, <1>3, <2>1, <2>2, <2>3 DEF BirthInv, TypeOK
  <2>7. WorkInv'
    BY <1>0, <1>1, <1>3, <2>1, <2>2, <2>3 DEF WorkInv, TypeOK, Reading, Closing
  <2>8. KeyInv'
    BY <1>0, <1>1, <1>3, <2>1, <2>2, <2>3 DEF KeyInv, TypeOK, Adding, Busy, Reading
  <2>9. LoginOrOut'
    BY <1>0, <1>1, <1>3, <2>1, <2>2, <2>3 DEF LoginOrOut, TypeOK
  <2>10. DeadInv'
    BY <1>0, <1>1, <1>3, <2>1, <2>2, <2>3
       DEF DeadInv, TypeOK, Gone, Busy, Reading, Adding
  <2>11. FindInv'
    BY <1>0, <1>1, <1>3, <2>1, <2>2, <2>3 DEF FindInv, TypeOK
  <2> QED
    BY <1>12, <2>4, <2>5, <2>6, <2>7, <2>8, <2>9, <2>10, <2>11
<1> QED
  BY <1>2, <1>3

\* A thread that is not about to add anybody changes nothing of the handshakes.
LEMMA KeyStill ==
    ASSUME TypeOK, KeyInv, NEW t \in Threads, pc[t] \notin Adding, pc'[t] \notin Adding,
           \A u \in Threads \ {t} : pc'[u] = pc[u] /\ cur'[u] = cur[u],
           UNCHANGED <<registry, key, added, factory, loggedin, excused>>
    PROVE  KeyInv'
<1>1. ASSUME NEW c \in Conns
      PROVE  Busy(c, Adding)' <=> Busy(c, Adding)
  BY DEF Busy
<1>2. \A u \in Threads : pc'[u] \in Adding => pc[u] \in Adding /\ cur'[u] = cur[u]
  OBVIOUS
<1> QED
  BY <1>1, <1>2 DEF KeyInv

\* Nothing holds a connection that is not there yet.
LEMMA UnbornIsDead ==
    ASSUME Inv, NEW c \in Conns, phase[c] = "unborn"
    PROVE  ~Alive(c)
<1> USE DEF Inv
<1>1. ~Busy(c, Reading \cup Closing)
  BY DEF Busy, WorkInv, BirthInv
<1>2. \A k \in Keys : registry[k] # c
  BY DEF KeyInv, BirthInv
<1>3. cleanup[c].state # "queued" /\ factory[c] = "none" /\ timer[c] # "closing" /\ c \notin held
  BY DEF BirthInv, HeldInv
<1> QED
  BY <1>1, <1>2, <1>3 DEF Alive

\* The number of a new endpoint, counted among the live ones, is one of
\* 1 .. MaxConns: the endpoint it is for was not counted.
LEMMA NextIdentType ==
    ASSUME Inv, NEW c \in Conns, phase[c] = "unborn"
    PROVE  NextIdent \in 0 .. MaxConns
<1> DEFINE A == {d \in Conns : Alive(d)}
           B == Conns \ {c}
<1>1. MaxConns \in Nat /\ IsFiniteSet(Conns) /\ Cardinality(Conns) = MaxConns
  BY SessionAssumption, FS_Interval DEF Conns
<1>2. IsFiniteSet(B) /\ Cardinality(B) = MaxConns - 1
  BY <1>1, FS_RemoveElement
<1>3. A \in SUBSET B
  BY UnbornIsDead
<1> HIDE DEF A, B
<1>4. IsFiniteSet(A) /\ Cardinality(A) <= Cardinality(B)
  BY <1>2, <1>3, FS_Subset
<1>5. Cardinality(A) \in Nat
  BY <1>4, FS_CardinalityType
<1>6. Cardinality(A) + 1 \in 0 .. MaxConns
  BY <1>1, <1>2, <1>4, <1>5
<1> QED
  BY <1>6 DEF NextIdent, A

\* An accept keeps the invariant.
LEMMA AcceptStep ==
    ASSUME Inv, NEW t \in Threads, NEW c \in Conns, Accept(t, c), HeldInv'
    PROVE  Inv'
<1> USE DEF Inv
<1>00. held' \subseteq Conns
  BY DEF HeldInv
<1> USE <1>00
<1>0. /\ NoConn \notin Conns /\ DOMAIN pc = Threads /\ DOMAIN cur = Threads
      /\ \A d \in Conns : d \in Nat
      /\ \A d \in Conns : d > c => phase[d] = "unborn"
      /\ phase[c] = "listening"
  BY SessionAssumption DEF TypeOK, Accept, BirthInv, Conns
<1>1. /\ timer' = [timer EXCEPT ![c] = "armed"]
      /\ UNCHANGED <<goodbye, key, loggedin, cleanup, registry, pc, cur, tgroup,
                     crashed, added, excused>>
  BY DEF Accept, history
<1>2. PICK outcome \in {"ok", "refused", "gone"} :
          LET next == IF outcome = "gone" THEN {} ELSE {d \in Conns : d = c + 1}
          IN  /\ phase' = [d \in Conns |->
                             IF d = c THEN (IF outcome = "ok" THEN "running" ELSE "failed")
                             ELSE IF d \in next THEN "listening" ELSE phase[d]]
              /\ sock' = [sock EXCEPT ![c] = (outcome = "ok")]
              /\ factory' = [d \in Conns |-> IF d \in next THEN "id" ELSE factory[d]]
              /\ ident' = [d \in Conns |-> IF d \in next THEN NextIdent ELSE ident[d]]
  BY DEF Accept
<1> DEFINE next == IF outcome = "gone" THEN {} ELSE {d \in Conns : d = c + 1}
<1>3. \A d \in next : d \in Conns /\ d > c /\ phase[d] = "unborn" /\ d # c /\ d = c + 1
  BY <1>0
<1>4. /\ phase' = [d \in Conns |->
                     IF d = c THEN (IF outcome = "ok" THEN "running" ELSE "failed")
                     ELSE IF d \in next THEN "listening" ELSE phase[d]]
      /\ sock' = [sock EXCEPT ![c] = (outcome = "ok")]
      /\ factory' = [d \in Conns |-> IF d \in next THEN "id" ELSE factory[d]]
      /\ ident' = [d \in Conns |-> IF d \in next THEN NextIdent ELSE ident[d]]
  BY <1>2
<1> HIDE DEF next
<1>5. /\ \A d \in Conns : phase'[d] # phase[d] => d = c \/ d \in next
      /\ phase'[c] \in {"running", "failed"} /\ factory[c] = "id" /\ factory'[c] = "id"
      /\ timer[c] = "none" /\ ~added[c] /\ ~goodbye[c] /\ cleanup[c].state # "queued"
      /\ \A d \in next : /\ phase'[d] = "listening" /\ factory'[d] = "id" /\ ~added[d] /\ ~goodbye[d]
                         /\ factory[d] = "none" /\ cleanup[d].state # "queued" /\ timer[d] = "none"
      /\ \A d \in Conns : d \notin next => factory'[d] = factory[d]
  BY <1>0, <1>3, <1>4 DEF BirthInv, TypeOK
<1>6. \A u \in Threads : pc[u] # "idle" => cur[u] # c /\ cur[u] \notin next /\ cur[u] \in Conns
  <2>1. ASSUME NEW u \in Threads, pc[u] # "idle"
        PROVE  phase[cur[u]] \in {"running", "dead"} /\ cur[u] \in Conns
    BY <2>1 DEF TypeOK, WorkInv, BirthInv, Reading, Closing
  <2> QED
    BY <2>1, <1>0, <1>3
<1>7. \A P : \A d \in Conns : Busy(d, P)' <=> Busy(d, P)
  BY <1>1 DEF Busy
<1>8. TypeOK'
  <2>1. ident' \in [Conns -> 0 .. MaxConns]
    <3>1. \A d \in next : NextIdent \in 0 .. MaxConns
      BY <1>3, NextIdentType
    <3> QED
      BY <1>4, <3>1 DEF TypeOK
  <2>2. phase' \in [Conns -> Phases] /\ factory' \in [Conns -> Factories]
        /\ sock' \in [Conns -> BOOLEAN] /\ timer' \in [Conns -> {"none", "armed", "closing", "done"}]
    BY <1>1, <1>4 DEF TypeOK, Phases, Factories
  <2> QED
    BY <1>1, <2>1, <2>2 DEF TypeOK
<1>9. HistoryType'
  BY <1>1 DEF HistoryType
<1>10. BirthInv'
  <2> SUFFICES ASSUME NEW d \in Conns
               PROVE  /\ phase'[d] = "unborn" => factory'[d] = "none"
                      /\ phase'[d] = "listening" =>
                            factory'[d] = "id" /\ \A e \in Conns : e > d => phase'[e] = "unborn"
                      /\ phase'[d] \in {"unborn", "listening"} => timer'[d] = "none" /\ ~added'[d]
                      /\ cleanup'[d].state = "queued" => phase'[d] = "dead"
                      /\ goodbye'[d] => phase'[d] = "dead"
                      /\ phase'[d] = "running" => factory'[d] \in {"id", "answer", "functions"}
    BY DEF BirthInv
  <2>1. CASE d = c
    BY <1>1, <1>5, <2>1
  <2>2. CASE d \in next
    <3>1. ASSUME NEW e \in Conns, e > d
          PROVE  phase'[e] = "unborn"
      <4>1. e > c /\ e # c /\ e \notin next
        BY <1>0, <1>3, <2>2, <3>1
      <4> QED
        BY <1>0, <1>5, <4>1
    <3>2. d # c
      BY <1>3, <2>2
    <3>3. timer'[d] = timer[d]
      BY <1>1, <3>2 DEF TypeOK
    <3> QED
      BY <1>1, <1>5, <2>2, <3>1, <3>3
  <2>3. CASE d # c /\ d \notin next
    <3>1. phase'[d] = phase[d] /\ factory'[d] = factory[d] /\ timer'[d] = timer[d]
      BY <1>1, <1>5, <2>3 DEF TypeOK
    <3>2. phase[d] # "listening"
      BY <1>0, <2>3 DEF BirthInv
    <3> QED
      BY <1>1, <3>1, <3>2 DEF BirthInv
  <2> QED
    BY <2>1, <2>2, <2>3
<1>11. WorkInv'
  BY <1>1, <1>5, <1>6 DEF WorkInv, TypeOK, Reading, Closing
<1>12. KeyInv'
  BY <1>1, <1>5, <1>6, <1>7 DEF KeyInv, TypeOK, Adding
<1>13. LoginOrOut'
  BY <1>1, <1>3, <1>4, <1>5 DEF LoginOrOut, TypeOK
<1>14. DeadInv'
  BY <1>1, <1>5, <1>6, <1>7 DEF DeadInv, TypeOK, Gone
<1>15. FindInv'
  BY <1>1 DEF FindInv
<1> QED
  BY <1>8, <1>9, <1>10, <1>11, <1>12, <1>13, <1>14, <1>15

\* No step makes a connection unborn again.
LEMMA UnbornBefore ==
    ASSUME Inv, [Next]_vars, NEW c \in Conns, phase'[c] = "unborn"
    PROVE  phase[c] = "unborn"
<1> USE DEF Inv
<1>1. DOMAIN phase = Conns
  BY DEF TypeOK
<1>2. ASSUME NEW d \in Conns, phase' = [phase EXCEPT ![d] = "dead"]
      PROVE  phase[c] = "unborn"
  BY <1>1, <1>2
<1>3. ASSUME NEW t \in Threads, NEW d \in Conns, TakeHandler(t, d)
      PROVE  phase[c] = "unborn"
  BY <1>1, <1>3 DEF TakeHandler
<1>4. ASSUME NEW t \in Threads, Handle(t)
      PROVE  phase[c] = "unborn"
  <2>1. CASE UNCHANGED phase
    BY <2>1
  <2>2. CASE TakeHandler(t, cur[t]) /\ pc[t] # "idle"
    BY <1>3, <2>2, CurIs
  <2> QED
    BY <1>4, <2>1, <2>2 DEF Handle, Charge, EndpointClosed, SubmitCleanup, RegroupCleanup,
       ResetFactory, CancelGroup, Malformed, TakeID, TakeAnswer, PerformLogin, SetLoggedIn,
       SetFactory, Serve, SendMessage, UseDeadFactory, At, connection
<1>5. ASSUME NEW t \in Threads, NEW d \in Conns, Accept(t, d)
      PROVE  phase[c] = "unborn"
  BY <1>5 DEF Accept
<1>6. ASSUME NEW t \in Threads, NEW d \in Conns,
             Deliver(t, d) \/ ReadEnds(t, d) \/ ReadFails(t, d) \/ WriteFails(t, d)
      PROVE  phase[c] = "unborn"
  BY <1>2, <1>3, <1>6 DEF Deliver, ReadEnds, ReadFails, WriteFails, connection
<1>7. ASSUME NEW d \in Conns, Timer(d) \/ RunCleanup(d) \/ LetGo(d) \/ Ping(d)
      PROVE  phase[c] = "unborn"
  BY <1>7 DEF Timer, TimerLooks, TimerCloses, RunCleanup, LetGo, Ping, connection
<1> QED
  BY <1>4, <1>5, <1>6, <1>7 DEF Next, vars

\* Only endpoints of connections that are there get a task.
LEMMA HeldStep ==
    ASSUME Inv, [Next]_vars
    PROVE  HeldInv'
<1> USE DEF Inv
<1> SUFFICES \A d \in held' : d \in held \/ (d \in Conns /\ phase[d] # "unborn")
  BY UnbornBefore DEF HeldInv
<1>1. ASSUME NEW t \in Threads, Handle(t)
      PROVE  \A d \in held' : d \in held \/ (d \in Conns /\ phase[d] # "unborn")
  <2>1. CASE held' \subseteq held
    BY <2>1
  <2>2. CASE pc[t] = "dispatch" /\ held' \subseteq held \cup {cur[t]}
    BY <2>2, CurIs DEF WorkInv, Reading
  <2>3. CASE SendMessage(t)
    <3>1. ASSUME NEW k \in Keys, registry[k] # NoConn
          PROVE  registry[k] \in Conns /\ phase[registry[k]] # "unborn"
      BY <3>1 DEF TypeOK, KeyInv, BirthInv
    <3> QED
      BY <2>3, <3>1 DEF SendMessage
  <2> QED
    BY <1>1, <2>1, <2>2, <2>3 DEF Handle, Charge, EndpointClosed, SubmitCleanup, RegroupCleanup,
       ResetFactory, CancelGroup, Malformed, TakeID, TakeAnswer, PerformLogin, SetLoggedIn,
       SetFactory, Serve, UseDeadFactory, At
<1>2. ASSUME NEW d \in Conns, RunCleanup(d) \/ LetGo(d) \/ Ping(d)
      PROVE  \A e \in held' : e \in held \/ (e \in Conns /\ phase[e] # "unborn")
  <2>1. CASE RunCleanup(d)
    BY <2>1 DEF RunCleanup, BirthInv
  <2>2. CASE LetGo(d)
    BY <2>2 DEF LetGo
  <2>3. CASE Ping(d)
    <3>1. loggedin[d] => phase[d] # "unborn"
      BY DEF KeyInv, BirthInv
    <3>2. Busy(d, {"loggedin"}) => phase[d] # "unborn"
      BY DEF Busy, WorkInv, Reading
    <3> QED
      BY <2>3, <3>1, <3>2 DEF Ping
  <2> QED
    BY <1>2, <2>1, <2>2, <2>3
<1>3. ASSUME NEW t \in Threads, NEW d \in Conns,
             \/ Accept(t, d) \/ Deliver(t, d) \/ ReadEnds(t, d) \/ ReadFails(t, d)
             \/ WriteFails(t, d)
      PROVE  held' = held
  BY <1>3 DEF Accept, Deliver, ReadEnds, ReadFails, WriteFails
<1>4. ASSUME NEW d \in Conns, Timer(d)
      PROVE  held' = held
  BY <1>4 DEF Timer, TimerLooks, TimerCloses
<1> QED
  BY <1>1, <1>2, <1>3, <1>4 DEF Next, vars

\* Every step keeps the invariant.
LEMMA InvStep ==
    ASSUME Inv, [Next]_vars
    PROVE  Inv'
<1> USE DEF Inv
<1>00. HeldInv' /\ held' \subseteq Conns
  BY HeldStep DEF HeldInv
<1> USE <1>00
<1>0. NoConn \notin Conns /\ DOMAIN pc = Threads /\ DOMAIN cur = Threads
  BY SessionAssumption DEF TypeOK
<1>1. ASSUME NEW c \in Conns, TimerLooks(c)
       PROVE  Inv'
  <2>1. /\ timer[c] = "armed"
        /\ timer' = [timer EXCEPT ![c] = IF Alive(c) /\ TimesOut(c) THEN "closing" ELSE "done"]
        /\ UNCHANGED <<phase, sock, goodbye, factory, key, loggedin, ident, cleanup,
                       registry, pc, cur, tgroup, crashed, added, excused>>
    BY <1>1 DEF TimerLooks, connection, history
  <2>2. phase[c] = "running" => Alive(c)
    BY DEF BirthInv, Alive
  <2>3. TypeOK'
    BY <2>1, <2>2 DEF TypeOK, Phases, Factories, Reading, Closing
  <2>4. HistoryType'
    BY <2>1, <2>2 DEF HistoryType
  <2>5. BirthInv'
    BY <2>1, <2>2 DEF BirthInv, TypeOK
  <2>6. WorkInv'
    BY <2>1, <2>2 DEF WorkInv, TypeOK, Reading, Closing
  <2>7. KeyInv'
    BY <2>1, <2>2 DEF KeyInv, TypeOK, Adding, Busy
  <2>8. LoginOrOut'
    BY <2>1, <2>2 DEF LoginOrOut, TypeOK, TimesOut
  <2>9. DeadInv'
    BY <2>1, <2>2 DEF DeadInv, TypeOK, Gone, Busy, Reading
  <2>10. FindInv'
    BY <2>1, <2>2 DEF FindInv, TypeOK
  <2> QED
    BY <2>3, <2>4, <2>5, <2>6, <2>7, <2>8, <2>9, <2>10
<1>2. ASSUME NEW c \in Conns, TimerCloses(c)
       PROVE  Inv'
  <2>1. /\ timer[c] = "closing"
        /\ timer' = [timer EXCEPT ![c] = "done"]
        /\ sock' = [sock EXCEPT ![c] = FALSE]
        /\ UNCHANGED <<phase, goodbye, factory, key, loggedin, ident, cleanup, registry,
                       pc, cur, tgroup, crashed, added, excused>>
    BY <1>2 DEF TimerCloses, connection, history
  <2>2. TypeOK'
    BY <2>1 DEF TypeOK, Phases, Factories, Reading, Closing
  <2>3. HistoryType'
    BY <2>1 DEF HistoryType
  <2>4. BirthInv'
    BY <2>1 DEF BirthInv, TypeOK
  <2>5. WorkInv'
    BY <2>1 DEF WorkInv, TypeOK, Reading, Closing
  <2>6. KeyInv'
    BY <2>1 DEF KeyInv, TypeOK, Adding, Busy
  <2>7. LoginOrOut'
    BY <2>1 DEF LoginOrOut, TypeOK
  <2>8. DeadInv'
    BY <2>1 DEF DeadInv, TypeOK, Gone, Busy, Reading
  <2>9. FindInv'
    BY <2>1 DEF FindInv, TypeOK
  <2> QED
    BY <2>2, <2>3, <2>4, <2>5, <2>6, <2>7, <2>8, <2>9
<1>3. ASSUME NEW t \in Threads, NEW c \in Conns, ReadEnds(t, c)
       PROVE  Inv'
  <2>1. /\ TakeHandler(t, c) /\ phase[c] = "running" /\ pc[t] = "idle" /\ ~Busy(c, Reading)
        /\ UNCHANGED <<factory, key, loggedin, ident, timer, cleanup, held, registry, tgroup,
                       crashed, added, excused>>
    BY <1>3 DEF ReadEnds, At, history
  <2> QED
    BY <2>1, TakeHandlerStep DEF Busy, Adding
<1>4. ASSUME NEW t \in Threads, NEW c \in Conns, ReadFails(t, c)
       PROVE  Inv'
  <2>1. /\ phase[c] = "running"
        /\ phase' = [phase EXCEPT ![c] = "dead"]
        /\ sock' = [sock EXCEPT ![c] = FALSE]
        /\ excused' = [excused EXCEPT ![c] = TRUE]
        /\ UNCHANGED <<goodbye, factory, key, loggedin, ident, timer, cleanup, registry,
                       pc, cur, tgroup, crashed, added>>
    BY <1>4 DEF ReadFails
  <2>2. TypeOK'
    BY <2>1 DEF TypeOK, Phases, Factories, Reading, Closing
  <2>3. HistoryType'
    BY <2>1 DEF HistoryType
  <2>4. BirthInv'
    BY <2>1 DEF BirthInv, TypeOK
  <2>5. WorkInv'
    BY <2>1 DEF WorkInv, TypeOK, Reading, Closing
  <2>6. KeyInv'
    BY <2>1 DEF KeyInv, TypeOK, Adding, Busy, HistoryType
  <2>7. LoginOrOut'
    BY <2>1 DEF LoginOrOut, TypeOK
  <2>8. DeadInv'
    BY <2>1 DEF DeadInv, TypeOK, Gone, Busy, Reading, HistoryType
  <2>9. FindInv'
    BY <2>1 DEF FindInv, TypeOK
  <2> QED
    BY <2>2, <2>3, <2>4, <2>5, <2>6, <2>7, <2>8, <2>9
<1>5. ASSUME NEW t \in Threads, NEW c \in Conns, WriteFails(t, c)
       PROVE  Inv'
  <2>1. /\ TakeHandler(t, c) /\ phase[c] = "running" /\ pc[t] = "idle"
        /\ excused' = [excused EXCEPT ![c] = @ \/ Busy(c, Reading)]
        /\ UNCHANGED <<factory, key, loggedin, ident, timer, cleanup, held, registry, tgroup,
                       crashed, added>>
    BY <1>5 DEF WriteFails, At
  <2>2. CASE Busy(c, Reading) \/ excused[c]
    <3>1. excused' = [excused EXCEPT ![c] = TRUE] /\ excused'[c]
      BY <2>1, <2>2 DEF HistoryType
    <3> QED
      BY <2>1, <3>1, TakeHandlerStep DEF Adding
  <2>3. CASE ~Busy(c, Reading) /\ ~excused[c]
    <3>1. excused' = excused
      BY <2>1, <2>3 DEF HistoryType
    <3> QED
      BY <2>1, <2>3, <3>1, TakeHandlerStep DEF Busy, Adding
  <2> QED
    BY <2>2, <2>3
<1>6. ASSUME NEW t \in Threads, Charge(t)
       PROVE  Inv'
  <2>1. PICK c \in Conns : c = cur[t]
    BY <1>6, CurIs DEF Charge, At
  <2>2. /\ pc[t] = "charge"
        /\ UNCHANGED <<phase, sock, goodbye, factory, key, loggedin, ident, timer,
                       cleanup, registry, tgroup, crashed, added>>
    BY <1>6 DEF Charge, At, connection
  <2>3. CASE pc' = [pc EXCEPT ![t] = "closed"] /\ cur' = [cur EXCEPT ![t] = c] /\ excused' = excused
    <3>1. TypeOK'
      BY <1>0, <2>1, <2>2, <2>3 DEF TypeOK, Phases, Factories, Reading, Closing
    <3>2. HistoryType'
      BY <1>0, <2>1, <2>2, <2>3 DEF HistoryType
    <3>3. BirthInv'
      BY <1>0, <2>1, <2>2, <2>3 DEF BirthInv, TypeOK
    <3>4. WorkInv'
      BY <1>0, <2>1, <2>2, <2>3 DEF WorkInv, TypeOK, Reading, Closing
    <3>5. KeyInv'
      BY <1>0, <2>1, <2>2, <2>3 DEF KeyInv, TypeOK, Adding, Busy
    <3>6. LoginOrOut'
      BY <1>0, <2>1, <2>2, <2>3 DEF LoginOrOut, TypeOK
    <3>7. DeadInv'
      BY <1>0, <2>1, <2>2, <2>3 DEF DeadInv, TypeOK, Gone, Busy, Reading
    <3>8. FindInv'
      BY <1>0, <2>1, <2>2, <2>3 DEF FindInv, TypeOK
    <3> QED
      BY <3>1, <3>2, <3>3, <3>4, <3>5, <3>6, <3>7, <3>8
  <2>4. CASE pc' = [pc EXCEPT ![t] = "idle"] /\ cur' = [cur EXCEPT ![t] = NoConn] /\ excused' = [excused EXCEPT ![c] = TRUE]
    <3>1. excused'[c] /\ \A d \in Conns \ {c} : excused'[d] = excused[d]
      BY <2>4 DEF HistoryType
    <3>2. TypeOK'
      BY <1>0, <2>1, <2>2, <2>4, <3>1 DEF TypeOK, Phases, Factories, Reading, Closing
    <3>3. HistoryType'
      BY <1>0, <2>1, <2>2, <2>4, <3>1 DEF HistoryType
    <3>4. BirthInv'
      BY <1>0, <2>1, <2>2, <2>4, <3>1 DEF BirthInv, TypeOK
    <3>5. WorkInv'
      BY <1>0, <2>1, <2>2, <2>4, <3>1 DEF WorkInv, TypeOK, Reading, Closing
    <3>6. KeyInv'
      BY <1>0, <2>1, <2>2, <2>4, <3>1 DEF KeyInv, TypeOK, Adding, Busy, HistoryType
    <3>7. LoginOrOut'
      BY <1>0, <2>1, <2>2, <2>4, <3>1 DEF LoginOrOut, TypeOK
    <3>8. DeadInv'
      BY <1>0, <2>1, <2>2, <2>4, <3>1 DEF DeadInv, TypeOK, Gone, Busy, Reading
    <3>9. FindInv'
      BY <1>0, <2>1, <2>2, <2>4, <3>1 DEF FindInv, TypeOK
    <3> QED
      BY <3>2, <3>3, <3>4, <3>5, <3>6, <3>7, <3>8, <3>9
  <2> QED
    BY <1>6, <2>1, <2>3, <2>4 DEF Charge, Goto
<1>7. ASSUME NEW t \in Threads, EndpointClosed(t)
       PROVE  Inv'
  <2>1. PICK c \in Conns : c = cur[t]
    BY <1>7, CurIs DEF EndpointClosed, At
  <2>2. /\ pc[t] = "closed"
        /\ UNCHANGED <<phase, sock, goodbye, factory, key, loggedin, ident, timer,
                       cleanup, tgroup, crashed, added, excused>>
    BY <1>7 DEF EndpointClosed, At, connection, history
  <2>3. goodbye[c] /\ phase[c] = "dead"
    BY <2>1, <2>2 DEF WorkInv, BirthInv, Closing
  <2>4. CASE /\ factory[c] \in {"functions", "orphan"}
             /\ registry' = [registry EXCEPT ![key[c]] = NoConn]
             /\ pc' = [pc EXCEPT ![t] = "submit"] /\ cur' = [cur EXCEPT ![t] = c]
    <3>1. added[c] /\ key[c] \in Keys
      BY <2>4 DEF KeyInv
    <3>2. Gone(c)'
      BY <1>0, <2>4, <3>1 DEF Gone, KeyInv, TypeOK
    <3>3. TypeOK'
      BY <1>0, <2>1, <2>2, <2>3, <2>4, <3>1, <3>2
         DEF TypeOK, Phases, Factories, Reading, Closing
    <3>4. HistoryType'
      BY <1>0, <2>1, <2>2, <2>3, <2>4, <3>1, <3>2 DEF HistoryType
    <3>5. BirthInv'
      BY <1>0, <2>1, <2>2, <2>3, <2>4, <3>1, <3>2 DEF BirthInv, TypeOK
    <3>6. WorkInv'
      BY <1>0, <2>1, <2>2, <2>3, <2>4, <3>1, <3>2 DEF WorkInv, TypeOK, Reading, Closing
    <3>7. KeyInv'
      BY <1>0, <2>1, <2>2, <2>3, <2>4, <3>1, <3>2 DEF KeyInv, TypeOK, Adding, Busy
    <3>8. LoginOrOut'
      BY <1>0, <2>1, <2>2, <2>3, <2>4, <3>1, <3>2 DEF LoginOrOut, TypeOK
    <3>9. DeadInv'
      BY <1>0, <2>1, <2>2, <2>3, <2>4, <3>1, <3>2
         DEF DeadInv, TypeOK, Gone, Busy, Reading
    <3>10. FindInv'
      BY <1>0, <2>1, <2>2, <2>3, <2>4, <3>1, <3>2 DEF FindInv, TypeOK, KeyInv
    <3> QED
      BY <3>3, <3>4, <3>5, <3>6, <3>7, <3>8, <3>9, <3>10
  <2>5. CASE /\ factory[c] \in {"id", "answer"}
             /\ pc' = [pc EXCEPT ![t] = "reset"] /\ cur' = [cur EXCEPT ![t] = c]
             /\ registry' = registry
    <3>1. ~excused[c] => Gone(c)
      <4>1. ~excused[c] => ~added[c]
        BY <2>3, <2>5 DEF KeyInv, DeadInv, Busy, Adding, Reading
      <4> QED
        BY <4>1 DEF KeyInv, Gone
    <3>2. TypeOK'
      BY <1>0, <2>1, <2>2, <2>3, <2>5, <3>1
         DEF TypeOK, Phases, Factories, Reading, Closing
    <3>3. HistoryType'
      BY <1>0, <2>1, <2>2, <2>3, <2>5, <3>1 DEF HistoryType
    <3>4. BirthInv'
      BY <1>0, <2>1, <2>2, <2>3, <2>5, <3>1 DEF BirthInv, TypeOK
    <3>5. WorkInv'
      BY <1>0, <2>1, <2>2, <2>3, <2>5, <3>1 DEF WorkInv, TypeOK, Reading, Closing
    <3>6. KeyInv'
      BY <1>0, <2>1, <2>2, <2>5, KeyStill DEF TypeOK, Adding
    <3>7. LoginOrOut'
      BY <1>0, <2>1, <2>2, <2>3, <2>5, <3>1 DEF LoginOrOut, TypeOK
    <3>8. DeadInv'
      BY <1>0, <2>1, <2>2, <2>3, <2>5, <3>1 DEF DeadInv, TypeOK, Gone, Busy, Reading
    <3>9. FindInv'
      BY <1>0, <2>1, <2>2, <2>3, <2>5, <3>1 DEF FindInv, TypeOK
    <3> QED
      BY <3>2, <3>3, <3>4, <3>5, <3>6, <3>7, <3>8, <3>9
  <2> QED
    BY <1>7, <2>1, <2>4, <2>5 DEF EndpointClosed, Goto, Without
<1>8. ASSUME NEW t \in Threads, SubmitCleanup(t)
       PROVE  Inv'
  <2>1. PICK c \in Conns : c = cur[t]
    BY <1>8, CurIs DEF SubmitCleanup, At
  <2>2. /\ pc[t] = "submit"
        /\ cleanup' = [cleanup EXCEPT ![c] = [state |-> "queued", group |-> tgroup[t]]]
        /\ pc' = [pc EXCEPT ![t] = "group"] /\ cur' = [cur EXCEPT ![t] = c]
        /\ UNCHANGED <<phase, sock, goodbye, factory, key, loggedin, ident, timer,
                       registry, tgroup, crashed, added, excused>>
    BY <1>8, <2>1 DEF SubmitCleanup, At, Goto, connection, history
  <2>3. TypeOK'
    BY <1>0, <2>1, <2>2 DEF TypeOK, Phases, Factories, Reading, Closing
  <2>4. HistoryType'
    BY <1>0, <2>1, <2>2 DEF HistoryType
  <2>5. BirthInv'
    BY <1>0, <2>1, <2>2 DEF BirthInv, TypeOK, WorkInv, Closing
  <2>6. WorkInv'
    BY <1>0, <2>1, <2>2 DEF WorkInv, TypeOK, Reading, Closing
  <2>7. KeyInv'
    BY <1>0, <2>1, <2>2, KeyStill DEF TypeOK, Adding
  <2>8. LoginOrOut'
    BY <1>0, <2>1, <2>2 DEF LoginOrOut, TypeOK
  <2>9. DeadInv'
    BY <1>0, <2>1, <2>2 DEF DeadInv, TypeOK, Gone, Busy, Reading
  <2>10. FindInv'
    BY <1>0, <2>1, <2>2 DEF FindInv, TypeOK
  <2> QED
    BY <2>3, <2>4, <2>5, <2>6, <2>7, <2>8, <2>9, <2>10
<1>9. ASSUME NEW t \in Threads, RegroupCleanup(t)
       PROVE  Inv'
  <2>1. PICK c \in Conns : c = cur[t]
    BY <1>9, CurIs DEF RegroupCleanup, At
  <2>2. /\ pc[t] = "group"
        /\ cleanup' = [cleanup EXCEPT ![c].group = 0]
        /\ pc' = [pc EXCEPT ![t] = "reset"] /\ cur' = [cur EXCEPT ![t] = c]
        /\ UNCHANGED <<phase, sock, goodbye, factory, key, loggedin, ident, timer,
                       registry, tgroup, crashed, added, excused>>
    BY <1>9, <2>1 DEF RegroupCleanup, At, Goto, connection, history
  <2>3. TypeOK'
    <3>1. cleanup' \in [Conns -> [state : {"none", "queued", "ran", "cancelled"}, group : 0 .. MaxConns]]
      <4>1. 0 \in 0 .. MaxConns
        BY SessionAssumption
      <4> QED
        BY <2>2, <4>1 DEF TypeOK
    <3> QED
      BY <1>0, <2>1, <2>2, <3>1 DEF TypeOK, Reading, Closing
  <2>4. HistoryType'
    BY <1>0, <2>1, <2>2 DEF HistoryType
  <2>5. BirthInv'
    BY <1>0, <2>1, <2>2 DEF BirthInv, TypeOK
  <2>6. WorkInv'
    BY <1>0, <2>1, <2>2 DEF WorkInv, TypeOK, Reading, Closing
  <2>7. KeyInv'
    BY <1>0, <2>1, <2>2, KeyStill DEF TypeOK, Adding
  <2>8. LoginOrOut'
    BY <1>0, <2>1, <2>2 DEF LoginOrOut, TypeOK
  <2>9. DeadInv'
    BY <1>0, <2>1, <2>2 DEF DeadInv, TypeOK, Gone, Busy, Reading
  <2>10. FindInv'
    BY <1>0, <2>1, <2>2 DEF FindInv, TypeOK
  <2> QED
    BY <2>3, <2>4, <2>5, <2>6, <2>7, <2>8, <2>9, <2>10
<1>10. ASSUME NEW t \in Threads, ResetFactory(t)
       PROVE  Inv'
  <2>1. PICK c \in Conns : c = cur[t]
    BY <1>10, CurIs DEF ResetFactory, At
  <2>2. /\ pc[t] = "reset"
        /\ factory' = [factory EXCEPT ![c] = "null"]
        /\ pc' = [pc EXCEPT ![t] = "cancel"] /\ cur' = [cur EXCEPT ![t] = c]
        /\ UNCHANGED <<phase, sock, goodbye, key, loggedin, ident, timer, cleanup,
                       registry, tgroup, crashed, added, excused>>
    BY <1>10, <2>1 DEF ResetFactory, At, Goto, connection, history, Reset
  <2>3. TypeOK'
    BY <1>0, <2>1, <2>2 DEF TypeOK, Phases, Factories, Reading, Closing
  <2>4. HistoryType'
    BY <1>0, <2>1, <2>2 DEF HistoryType
  <2>5. BirthInv'
    BY <1>0, <2>1, <2>2 DEF BirthInv, TypeOK, WorkInv, Closing
  <2>6. WorkInv'
    BY <1>0, <2>1, <2>2 DEF WorkInv, TypeOK, Reading, Closing
  <2>7. KeyInv'
    BY <1>0, <2>1, <2>2 DEF KeyInv, TypeOK, Adding, Busy
  <2>8. LoginOrOut'
    BY <1>0, <2>1, <2>2 DEF LoginOrOut, TypeOK
  <2>9. DeadInv'
    BY <1>0, <2>1, <2>2 DEF DeadInv, TypeOK, Gone, Busy, Reading
  <2>10. FindInv'
    BY <1>0, <2>1, <2>2 DEF FindInv, TypeOK
  <2> QED
    BY <2>3, <2>4, <2>5, <2>6, <2>7, <2>8, <2>9, <2>10
<1>11. ASSUME NEW t \in Threads, CancelGroup(t)
       PROVE  Inv'
  <2>1. PICK c \in Conns : c = cur[t]
    BY <1>11, CurIs DEF CancelGroup, At
  <2>2. /\ pc[t] = "cancel"
        /\ cleanup' = [d \in Conns |-> IF cleanup[d].state = "queued" /\ cleanup[d].group = ident[c]
                                   THEN [cleanup[d] EXCEPT !.state = "cancelled"] ELSE cleanup[d]]
        /\ pc' = [pc EXCEPT ![t] = "idle"] /\ cur' = [cur EXCEPT ![t] = NoConn]
        /\ UNCHANGED <<phase, sock, goodbye, factory, key, loggedin, ident, timer,
                       registry, tgroup, crashed, added, excused>>
    BY <1>11, <2>1 DEF CancelGroup, At, Goto, connection, history
  <2>3. TypeOK'
    BY <1>0, <2>1, <2>2 DEF TypeOK, Phases, Factories, Reading, Closing
  <2>4. HistoryType'
    BY <1>0, <2>1, <2>2 DEF HistoryType
  <2>5. BirthInv'
    BY <1>0, <2>1, <2>2 DEF BirthInv, TypeOK
  <2>6. WorkInv'
    BY <1>0, <2>1, <2>2 DEF WorkInv, TypeOK, Reading, Closing
  <2>7. KeyInv'
    BY <1>0, <2>1, <2>2, KeyStill DEF TypeOK, Adding
  <2>8. LoginOrOut'
    BY <1>0, <2>1, <2>2 DEF LoginOrOut, TypeOK
  <2>9. DeadInv'
    BY <1>0, <2>1, <2>2 DEF DeadInv, TypeOK, Gone, Busy, Reading
  <2>10. FindInv'
    BY <1>0, <2>1, <2>2 DEF FindInv, TypeOK
  <2> QED
    BY <2>3, <2>4, <2>5, <2>6, <2>7, <2>8, <2>9, <2>10
<1>12. ASSUME NEW c \in Conns, RunCleanup(c)
       PROVE  Inv'
  <2>1. /\ cleanup' = [cleanup EXCEPT ![c].state = "ran"]
        /\ UNCHANGED <<phase, sock, goodbye, factory, key, loggedin, ident, timer,
                       registry, pc, cur, tgroup, crashed, added, excused>>
    BY <1>12 DEF RunCleanup, connection, history
  <2>2. TypeOK'
    BY <2>1 DEF TypeOK, Phases, Factories, Reading, Closing
  <2>3. HistoryType'
    BY <2>1 DEF HistoryType
  <2>4. BirthInv'
    BY <2>1 DEF BirthInv, TypeOK
  <2>5. WorkInv'
    BY <2>1 DEF WorkInv, TypeOK, Reading, Closing
  <2>6. KeyInv'
    BY <2>1 DEF KeyInv, TypeOK, Adding, Busy
  <2>7. LoginOrOut'
    BY <2>1 DEF LoginOrOut, TypeOK
  <2>8. DeadInv'
    BY <2>1 DEF DeadInv, TypeOK, Gone, Busy, Reading
  <2>9. FindInv'
    BY <2>1 DEF FindInv, TypeOK
  <2> QED
    BY <2>2, <2>3, <2>4, <2>5, <2>6, <2>7, <2>8, <2>9
<1>13. ASSUME NEW t \in Threads, NEW c \in Conns, Deliver(t, c)
       PROVE  Inv'
  <2>1. /\ phase[c] = "running" /\ pc[t] = "idle" /\ ~Busy(c, Reading)
        /\ UNCHANGED <<factory, key, loggedin, ident, timer, cleanup, held, registry, crashed,
                       added, excused>>
    BY <1>13 DEF Deliver, At, history
  <2>2. CASE TakeHandler(t, c) /\ tgroup' = tgroup
    BY <2>1, <2>2, TakeHandlerStep DEF Busy, Adding
  <2>3. CASE /\ pc' = [pc EXCEPT ![t] = "dispatch"] /\ cur' = [cur EXCEPT ![t] = c]
             /\ tgroup' = [tgroup EXCEPT ![t] = ident[c]]
             /\ UNCHANGED <<phase, sock, goodbye>>
    <3>1. TypeOK'
      BY <1>0, <2>1, <2>3 DEF TypeOK, Phases, Factories, Reading, Closing
    <3>2. HistoryType'
      BY <1>0, <2>1, <2>3 DEF HistoryType
    <3>3. BirthInv'
      BY <1>0, <2>1, <2>3 DEF BirthInv, TypeOK
    <3>4. WorkInv'
      BY <1>0, <2>1, <2>3 DEF WorkInv, TypeOK, Reading, Closing, Busy
    <3>5. KeyInv'
      BY <1>0, <2>1, <2>3 DEF KeyInv, TypeOK, Adding, Busy
    <3>6. LoginOrOut'
      BY <1>0, <2>1, <2>3 DEF LoginOrOut, TypeOK
    <3>7. DeadInv'
      BY <1>0, <2>1, <2>3 DEF DeadInv, TypeOK, Gone, Busy, Reading
    <3>8. FindInv'
      BY <1>0, <2>1, <2>3 DEF FindInv, TypeOK
    <3> QED
      BY <3>1, <3>2, <3>3, <3>4, <3>5, <3>6, <3>7, <3>8
  <2> QED
    BY <1>13, <2>2, <2>3 DEF Deliver, Goto, connection
<1>14. ASSUME NEW t \in Threads, Malformed(t)
       PROVE  Inv'
  <2>1. PICK c \in Conns : c = cur[t]
    BY <1>14, CurIs DEF Malformed, At
  <2>2. /\ pc[t] = "dispatch" /\ TakeHandler(t, c)
        /\ UNCHANGED <<factory, key, loggedin, ident, timer, cleanup, held, registry, tgroup,
                       crashed, added, excused>>
    BY <1>14, <2>1 DEF Malformed, At, history
  <2>3. \A u \in Threads \ {t} : ~(cur[u] = c /\ pc[u] \in Reading)
    BY <2>1, <2>2 DEF WorkInv, Reading
  <2> QED
    BY <2>1, <2>2, <2>3, TakeHandlerStep DEF Adding, Reading
<1>15. ASSUME NEW t \in Threads, TakeID(t)
       PROVE  Inv'
  <2>1. PICK c \in Conns : c = cur[t]
    BY <1>15, CurIs DEF TakeID, At
  <2>2. PICK k \in Keys : key' = [key EXCEPT ![c] = k]
    BY <1>15, <2>1 DEF TakeID
  <2>3. /\ pc[t] = "dispatch" /\ factory[c] = "id"
        /\ factory' = [factory EXCEPT ![c] = "answer"]
        /\ pc' = [pc EXCEPT ![t] = "idle"] /\ cur' = [cur EXCEPT ![t] = NoConn]
        /\ UNCHANGED <<phase, sock, goodbye, loggedin, ident, timer, cleanup, registry,
                       tgroup, crashed, added, excused>>
    BY <1>15, <2>1 DEF TakeID, At, Goto, connection, history
  <2>4. ~added[c] /\ phase[c] \in {"running", "dead"}
    BY <2>1, <2>3 DEF KeyInv, WorkInv, Reading
  <2>5. TypeOK'
    BY <1>0, <2>1, <2>2, <2>3, <2>4 DEF TypeOK, Phases, Factories, Reading, Closing
  <2>6. HistoryType'
    BY <1>0, <2>1, <2>2, <2>3, <2>4 DEF HistoryType
  <2>7. BirthInv'
    BY <1>0, <2>1, <2>2, <2>3, <2>4 DEF BirthInv, TypeOK
  <2>8. WorkInv'
    BY <1>0, <2>1, <2>2, <2>3, <2>4 DEF WorkInv, TypeOK, Reading, Closing
  <2>9. KeyInv'
    BY <1>0, <2>1, <2>2, <2>3, <2>4 DEF KeyInv, TypeOK, Adding, Busy
  <2>10. LoginOrOut'
    BY <1>0, <2>1, <2>2, <2>3, <2>4 DEF LoginOrOut, TypeOK
  <2>11. DeadInv'
    BY <1>0, <2>1, <2>2, <2>3, <2>4 DEF DeadInv, TypeOK, Gone, Busy, Reading
  <2>12. FindInv'
    BY <1>0, <2>1, <2>2, <2>3, <2>4 DEF FindInv, TypeOK, KeyInv
  <2> QED
    BY <2>5, <2>6, <2>7, <2>8, <2>9, <2>10, <2>11, <2>12
<1>16. ASSUME NEW t \in Threads, TakeAnswer(t)
       PROVE  Inv'
  <2>1. PICK c \in Conns : c = cur[t]
    BY <1>16, CurIs DEF TakeAnswer, At
  <2>2. /\ pc[t] = "dispatch"
        /\ factory[c] = "answer"
        /\ registry' = [registry EXCEPT ![key[c]] = c]
        /\ added' = [added EXCEPT ![c] = TRUE]
        /\ pc' = [pc EXCEPT ![t] = "login"] /\ cur' = [cur EXCEPT ![t] = c]
        /\ UNCHANGED <<phase, sock, goodbye, factory, key, loggedin, ident, timer,
                       cleanup, tgroup, crashed, excused>>
    BY <1>16, <2>1 DEF TakeAnswer, At, Goto, connection, history
  <2>3. TypeOK'
    BY <1>0, <2>1, <2>2 DEF TypeOK, Phases, Factories, Reading, Closing, KeyInv
  <2>4. HistoryType'
    BY <1>0, <2>1, <2>2 DEF HistoryType
  <2>5. BirthInv'
    BY <1>0, <2>1, <2>2 DEF BirthInv, TypeOK, WorkInv, Reading, HistoryType
  <2>6. WorkInv'
    BY <1>0, <2>1, <2>2 DEF WorkInv, TypeOK, Reading, Closing
  <2>7. KeyInv'
    BY <1>0, <2>1, <2>2 DEF KeyInv, TypeOK, Adding, Busy, HistoryType
  <2>8. LoginOrOut'
    BY <1>0, <2>1, <2>2 DEF LoginOrOut, TypeOK
  <2>9. DeadInv'
    BY <1>0, <2>1, <2>2 DEF DeadInv, TypeOK, Gone, Busy, Reading, HistoryType
  <2>10. FindInv'
    BY <1>0, <2>1, <2>2 DEF FindInv, TypeOK, KeyInv, HistoryType
  <2> QED
    BY <2>3, <2>4, <2>5, <2>6, <2>7, <2>8, <2>9, <2>10
<1>17. ASSUME NEW t \in Threads, PerformLogin(t)
       PROVE  Inv'
  <2>1. PICK c \in Conns : c = cur[t]
    BY <1>17, CurIs DEF PerformLogin, At
  <2>2. /\ pc[t] = "login"
        /\ UNCHANGED <<factory, key, loggedin, ident, timer, cleanup, held, registry, tgroup,
                       crashed, added>>
    BY <1>17 DEF PerformLogin, At
  <2>3. CASE TakeHandler(t, c) /\ excused' = [excused EXCEPT ![c] = TRUE]
    <3>1. excused'[c]
      BY <2>3 DEF HistoryType
    <3> QED
      BY <2>1, <2>2, <2>3, <3>1, TakeHandlerStep DEF Reading
  <2>4. CASE /\ pc' = [pc EXCEPT ![t] = "loggedin"] /\ cur' = [cur EXCEPT ![t] = c]
             /\ UNCHANGED <<phase, sock, goodbye, excused>>
    <3>1. TypeOK'
      BY <1>0, <2>1, <2>2, <2>4 DEF TypeOK, Phases, Factories, Reading, Closing
    <3>2. HistoryType'
      BY <1>0, <2>1, <2>2, <2>4 DEF HistoryType
    <3>3. BirthInv'
      BY <1>0, <2>1, <2>2, <2>4 DEF BirthInv, TypeOK
    <3>4. WorkInv'
      BY <1>0, <2>1, <2>2, <2>4 DEF WorkInv, TypeOK, Reading, Closing
    <3>5. KeyInv'
      BY <1>0, <2>1, <2>2, <2>4 DEF KeyInv, TypeOK, Adding, Busy
    <3>6. LoginOrOut'
      BY <1>0, <2>1, <2>2, <2>4 DEF LoginOrOut, TypeOK
    <3>7. DeadInv'
      BY <1>0, <2>1, <2>2, <2>4 DEF DeadInv, TypeOK, Gone, Busy, Reading
    <3>8. FindInv'
      BY <1>0, <2>1, <2>2, <2>4 DEF FindInv, TypeOK
    <3> QED
      BY <3>1, <3>2, <3>3, <3>4, <3>5, <3>6, <3>7, <3>8
  <2> QED
    BY <1>17, <2>1, <2>3, <2>4 DEF PerformLogin, Goto, connection
<1>18. ASSUME NEW t \in Threads, SetLoggedIn(t)
       PROVE  Inv'
  <2>1. PICK c \in Conns : c = cur[t]
    BY <1>18, CurIs DEF SetLoggedIn, At
  <2>2. /\ pc[t] = "loggedin"
        /\ loggedin' = [loggedin EXCEPT ![c] = TRUE]
        /\ pc' = [pc EXCEPT ![t] = "successor"] /\ cur' = [cur EXCEPT ![t] = c]
        /\ UNCHANGED <<phase, sock, goodbye, factory, key, ident, timer, cleanup,
                       registry, tgroup, crashed, added, excused>>
    BY <1>18, <2>1 DEF SetLoggedIn, At, Goto, connection, history
  <2>3. TypeOK'
    BY <1>0, <2>1, <2>2 DEF TypeOK, Phases, Factories, Reading, Closing
  <2>4. HistoryType'
    BY <1>0, <2>1, <2>2 DEF HistoryType
  <2>5. BirthInv'
    BY <1>0, <2>1, <2>2 DEF BirthInv, TypeOK
  <2>6. WorkInv'
    BY <1>0, <2>1, <2>2 DEF WorkInv, TypeOK, Reading, Closing
  <2>7. KeyInv'
    BY <1>0, <2>1, <2>2 DEF KeyInv, TypeOK, Adding, Busy
  <2>8. LoginOrOut'
    BY <1>0, <2>1, <2>2 DEF LoginOrOut, TypeOK
  <2>9. DeadInv'
    BY <1>0, <2>1, <2>2 DEF DeadInv, TypeOK, Gone, Busy, Reading
  <2>10. FindInv'
    BY <1>0, <2>1, <2>2 DEF FindInv, TypeOK
  <2> QED
    BY <2>3, <2>4, <2>5, <2>6, <2>7, <2>8, <2>9, <2>10
<1>19. ASSUME NEW t \in Threads, SetFactory(t)
       PROVE  Inv'
  <2>1. PICK c \in Conns : c = cur[t]
    BY <1>19, CurIs DEF SetFactory, At
  <2>2. /\ pc[t] = "successor"
        /\ factory' = [factory EXCEPT ![c] = IF @ = "null" THEN "orphan" ELSE "functions"]
        /\ pc' = [pc EXCEPT ![t] = "idle"] /\ cur' = [cur EXCEPT ![t] = NoConn]
        /\ UNCHANGED <<phase, sock, goodbye, key, loggedin, ident, timer, cleanup,
                       registry, tgroup, crashed, added, excused>>
    BY <1>19, <2>1 DEF SetFactory, At, Goto, connection, history
  <2>3. TypeOK'
    BY <1>0, <2>1, <2>2 DEF TypeOK, Phases, Factories, Reading, Closing
  <2>4. HistoryType'
    BY <1>0, <2>1, <2>2 DEF HistoryType
  <2>5. BirthInv'
    BY <1>0, <2>1, <2>2 DEF BirthInv, TypeOK, WorkInv, KeyInv, Adding, Reading
  <2>6. WorkInv'
    BY <1>0, <2>1, <2>2 DEF WorkInv, TypeOK, Reading, Closing
  <2>7. KeyInv'
    BY <1>0, <2>1, <2>2 DEF KeyInv, TypeOK, Adding, Busy, WorkInv, Reading
  <2>8. LoginOrOut'
    BY <1>0, <2>1, <2>2 DEF LoginOrOut, TypeOK
  <2>9. DeadInv'
    BY <1>0, <2>1, <2>2 DEF DeadInv, TypeOK, Gone, Busy, Reading
  <2>10. FindInv'
    BY <1>0, <2>1, <2>2 DEF FindInv, TypeOK
  <2> QED
    BY <2>3, <2>4, <2>5, <2>6, <2>7, <2>8, <2>9, <2>10
<1>20. ASSUME NEW t \in Threads, Serve(t)
       PROVE  Inv'
  <2>1. PICK c \in Conns : c = cur[t]
    BY <1>20, CurIs DEF Serve, At
  <2>2. /\ pc[t] = "dispatch"
        /\ UNCHANGED <<factory, key, loggedin, ident, timer, cleanup, registry, tgroup,
                       crashed, added, excused>>
    BY <1>20 DEF Serve, At, history
  <2>3. CASE TakeHandler(t, c) /\ UNCHANGED held
    <3>1. \A u \in Threads \ {t} : ~(cur[u] = c /\ pc[u] \in Reading)
      BY <2>1, <2>2 DEF WorkInv, Reading
    <3> QED
      BY <2>1, <2>2, <2>3, <3>1, TakeHandlerStep DEF Adding, Reading
  <2>4. CASE /\ pc' = [pc EXCEPT ![t] = "idle"] /\ cur' = [cur EXCEPT ![t] = NoConn]
             /\ UNCHANGED <<phase, sock, goodbye>>
    <3>1. TypeOK'
      BY <1>0, <2>1, <2>2, <2>4 DEF TypeOK, Phases, Factories, Reading, Closing
    <3>2. HistoryType'
      BY <1>0, <2>1, <2>2, <2>4 DEF HistoryType
    <3>3. BirthInv'
      BY <1>0, <2>1, <2>2, <2>4 DEF BirthInv, TypeOK
    <3>4. WorkInv'
      BY <1>0, <2>1, <2>2, <2>4 DEF WorkInv, TypeOK, Reading, Closing
    <3>5. KeyInv'
      BY <1>0, <2>1, <2>2, <2>4 DEF KeyInv, TypeOK, Adding, Busy
    <3>6. LoginOrOut'
      BY <1>0, <2>1, <2>2, <2>4 DEF LoginOrOut, TypeOK
    <3>7. DeadInv'
      BY <1>0, <2>1, <2>2, <2>4 DEF DeadInv, TypeOK, Gone, Busy, Reading
    <3>8. FindInv'
      BY <1>0, <2>1, <2>2, <2>4 DEF FindInv, TypeOK
    <3> QED
      BY <3>1, <3>2, <3>3, <3>4, <3>5, <3>6, <3>7, <3>8
  <2> QED
    BY <1>20, <2>1, <2>3, <2>4 DEF Serve, Goto, connection
<1>21. ASSUME NEW t \in Threads, SendMessage(t)
       PROVE  Inv'
  <2>1. PICK c \in Conns : c = cur[t]
    BY <1>21, CurIs DEF SendMessage, At
  <2>2. /\ pc[t] = "dispatch"
        /\ crashed' \in {"source", crashed}
        /\ pc' = [pc EXCEPT ![t] = "idle"] /\ cur' = [cur EXCEPT ![t] = NoConn]
        /\ UNCHANGED <<phase, sock, goodbye, factory, key, loggedin, ident, timer,
                       cleanup, registry, tgroup, added, excused>>
    BY <1>21, <2>1 DEF SendMessage, At, Goto, connection, history
  <2>3. TypeOK'
    BY <1>0, <2>1, <2>2 DEF TypeOK, Phases, Factories, Reading, Closing
  <2>4. HistoryType'
    BY <1>0, <2>1, <2>2 DEF HistoryType
  <2>5. BirthInv'
    BY <1>0, <2>1, <2>2 DEF BirthInv, TypeOK
  <2>6. WorkInv'
    BY <1>0, <2>1, <2>2 DEF WorkInv, TypeOK, Reading, Closing
  <2>7. KeyInv'
    BY <1>0, <2>1, <2>2 DEF KeyInv, TypeOK, Adding, Busy
  <2>8. LoginOrOut'
    BY <1>0, <2>1, <2>2 DEF LoginOrOut, TypeOK
  <2>9. DeadInv'
    BY <1>0, <2>1, <2>2 DEF DeadInv, TypeOK, Gone, Busy, Reading
  <2>10. FindInv'
    BY <1>0, <2>1, <2>2 DEF FindInv, TypeOK
  <2> QED
    BY <2>3, <2>4, <2>5, <2>6, <2>7, <2>8, <2>9, <2>10
<1>22. ASSUME NEW t \in Threads, UseDeadFactory(t)
       PROVE  Inv'
  <2>1. /\ crashed' = "factory"
        /\ UNCHANGED <<phase, sock, goodbye, factory, key, loggedin, ident, timer,
                       cleanup, registry, pc, cur, tgroup, added, excused>>
    BY <1>22 DEF UseDeadFactory, connection, history
  <2>2. TypeOK'
    BY <2>1 DEF TypeOK, Phases, Factories, Reading, Closing
  <2>3. HistoryType'
    BY <2>1 DEF HistoryType
  <2>4. BirthInv'
    BY <2>1 DEF BirthInv, TypeOK
  <2>5. WorkInv'
    BY <2>1 DEF WorkInv, TypeOK, Reading, Closing
  <2>6. KeyInv'
    BY <2>1 DEF KeyInv, TypeOK, Adding, Busy
  <2>7. LoginOrOut'
    BY <2>1 DEF LoginOrOut, TypeOK
  <2>8. DeadInv'
    BY <2>1 DEF DeadInv, TypeOK, Gone, Busy, Reading
  <2>9. FindInv'
    BY <2>1 DEF FindInv, TypeOK
  <2> QED
    BY <2>2, <2>3, <2>4, <2>5, <2>6, <2>7, <2>8, <2>9
<1>23. ASSUME UNCHANGED vars
       PROVE  Inv'
  <2>1. UNCHANGED <<phase, sock, goodbye, factory, key, loggedin, ident, timer, cleanup,
                    registry, pc, cur, tgroup, crashed, added, excused>>
    BY <1>23 DEF vars
  <2>2. TypeOK'
    BY <2>1 DEF TypeOK, Phases, Factories, Reading, Closing
  <2>3. HistoryType'
    BY <2>1 DEF HistoryType
  <2>4. BirthInv'
    BY <2>1 DEF BirthInv, TypeOK
  <2>5. WorkInv'
    BY <2>1 DEF WorkInv, TypeOK, Reading, Closing
  <2>6. KeyInv'
    BY <2>1 DEF KeyInv, TypeOK, Adding, Busy
  <2>7. LoginOrOut'
    BY <2>1 DEF LoginOrOut, TypeOK
  <2>8. DeadInv'
    BY <2>1 DEF DeadInv, TypeOK, Gone, Busy, Reading
  <2>9. FindInv'
    BY <2>1 DEF FindInv, TypeOK
  <2> QED
    BY <2>2, <2>3, <2>4, <2>5, <2>6, <2>7, <2>8, <2>9
<1>24. ASSUME NEW c \in Conns, LetGo(c) \/ Ping(c)
       PROVE  Inv'
  <2>1. /\ sock' \in {sock, [sock EXCEPT ![c] = FALSE]}
        /\ UNCHANGED <<phase, goodbye, factory, key, loggedin, ident, timer, cleanup,
                       registry, pc, cur, tgroup, crashed, added, excused>>
    BY <1>24 DEF LetGo, Ping, connection, history
  <2>2. sock' \in [Conns -> BOOLEAN] /\ \A d \in Conns : sock'[d] => sock[d]
    BY <2>1 DEF TypeOK
  <2>3. TypeOK'
    BY <2>1, <2>2 DEF TypeOK, Phases, Factories, Reading, Closing
  <2>4. HistoryType'
    BY <2>1 DEF HistoryType
  <2>5. BirthInv'
    BY <2>1 DEF BirthInv, TypeOK
  <2>6. WorkInv'
    BY <2>1 DEF WorkInv, TypeOK, Reading, Closing
  <2>7. KeyInv'
    BY <2>1 DEF KeyInv, TypeOK, Adding, Busy
  <2>8. LoginOrOut'
    BY <2>1, <2>2 DEF LoginOrOut, TypeOK
  <2>9. DeadInv'
    BY <2>1 DEF DeadInv, TypeOK, Gone, Busy, Reading
  <2>10. FindInv'
    BY <2>1 DEF FindInv, TypeOK
  <2> QED
    BY <2>3, <2>4, <2>5, <2>6, <2>7, <2>8, <2>9, <2>10
<1> QED
  BY <1>1, <1>2, <1>3, <1>4, <1>5, <1>6, <1>7, <1>8, <1>9, <1>10, <1>11, <1>12, <1>13,
     <1>14, <1>15, <1>16, <1>17, <1>18, <1>19, <1>20, <1>21, <1>22, <1>23, <1>24, AcceptStep
     DEF Next, Handle, Timer

\* The invariant holds in every reachable state.
LEMMA InvHolds == Spec => []Inv
BY InitInv, InvStep, PTL DEF Spec

-----------------------------------------------------------------------------
(* What follows from it *)

\* Through handshakes with one key, late closes and exceptions in the close handlers
\* the registry neither keeps a connection that is over, but for the excused ones,
\* nor loses an agent but through another connection with its key, for any number
\* of connections, threads and keys.
THEOREM SessionCorrect == Spec => []SessionInv
<1>1. Inv => SessionInv
  <2> SUFFICES ASSUME Inv PROVE SessionInv
    OBVIOUS
  <2> USE DEF Inv
  <2>1. RegistryFresh
    BY DEF RegistryFresh, DeadInv, Gone, Busy, Reading, Closing
  <2>2. AgentFindable
    BY DEF AgentFindable, FindInv, KeyInv
  <2> QED
    BY <2>1, <2>2 DEF SessionInv
<1> QED
  BY <1>1, InvHolds, PTL

\* The login time-out finds every connection that is still up, by its factory,
\* and leaves none open that has not logged in.
THEOREM TimeoutCorrect == Spec => []LoginOrOut
<1>1. Inv => LoginOrOut
  BY DEF Inv
<1> QED
  BY <1>1, InvHolds, PTL

\* The close handler breaks the cycle of endpoint and factory: when the handlers of a
\* closed connection are done nothing keeps its endpoint but tasks (its clean-up, the
\* time-out that looks at it, what the pool has for it), but for the excused.
THEOREM FreedCorrect == Spec => []EndpointsAreFreed
<1>1. Inv => EndpointsAreFreed
  <2> SUFFICES ASSUME Inv, NEW c \in Conns, phase[c] = "dead", ~Busy(c, Reading \cup Closing),
                      timer[c] # "closing", cleanup[c].state # "queued", c \notin held, ~excused[c]
               PROVE  ~Alive(c)
    BY DEF EndpointsAreFreed
  <2>1. Gone(c) /\ factory[c] = "null"
    BY DEF Inv, DeadInv, Busy, Reading, Closing
  <2> QED
    BY <2>1 DEF Alive, Gone
<1> QED
  BY <1>1, InvHolds, PTL
=============================================================================
