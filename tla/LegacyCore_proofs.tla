------------------------- MODULE LegacyCore_proofs -------------------------
(***************************************************************************)
(* Proofs about the earlier core server: its sessions, for any number of   *)
(* agents, keys and threads, and its search client, for any requests.      *)
(***************************************************************************)
EXTENDS MCLegacyCore, SequenceTheorems, TLAPS

-----------------------------------------------------------------------------
(* The agent directory and the status *)

Session == {"added", "reading"}

\* The directory leads from a key to the session that has it, and to no connection
\* that is not a session; a session is what its key leads to.
DirectoryInv ==
    /\ \A k \in Keys : directory[k] # NoConn => key[directory[k]] = k /\ conn[directory[k]] \in Session
    /\ \A c \in Conns : conn[c] \in Session => key[c] \in Keys /\ directory[key[c]] = c
    /\ \A c \in Conns : conn[c] = "answering" => key[c] \in Keys

\* The status is due from the moment of the add().
StatusInv ==
    \A c \in Conns : /\ conn[c] \in {"none", "identifying", "answering"} => status[c] = "no"
                     /\ conn[c] \in Session => status[c] # "no"

ServerIInv == TypeOK /\ DirectoryInv /\ StatusInv /\ StatusFirst

\* The server starts with nobody connected.
LEMMA InitServerIInv == Init => ServerIInv
<1> SUFFICES ASSUME Init PROVE ServerIInv
  OBVIOUS
<1>1. TypeOK
  <2>1. threads \in Nat /\ accepting \in 0 .. threads
    BY CoreServerAssumption DEF Init
  <2>2. Undelivered \in [state : {"none", "sending", "delivered", "failed", "reported"},
                         from : Conns \cup {NoConn}, to : Conns \cup {NoConn}]
    BY DEF Undelivered
  <2> QED
    BY <2>1, <2>2 DEF Init, TypeOK
<1>2. DirectoryInv /\ StatusInv
  BY DEF Init, DirectoryInv, StatusInv, Session
<1>3. StatusFirst
  BY CoreServerAssumption DEF Init, StatusFirst, Undelivered
<1> QED
  BY <1>1, <1>2, <1>3 DEF ServerIInv

\* Every handler keeps the invariant.
LEMMA ServerStepKeeps == ServerIInv /\ [Next]_vars => ServerIInv'
<1> SUFFICES ASSUME ServerIInv, [Next]_vars
             PROVE  ServerIInv'
  OBVIOUS
<1> USE CoreServerAssumption DEF ServerIInv
<1>1. ASSUME AcceptFails
      PROVE  ServerIInv'
  <2>1. TypeOK'
    BY <1>1 DEF TypeOK, AcceptFails
  <2>2. DirectoryInv'
    BY <1>1 DEF TypeOK, DirectoryInv, Session, AcceptFails
  <2>3. StatusInv'
    BY <1>1 DEF TypeOK, StatusInv, Session, AcceptFails
  <2>4. StatusFirst'
    BY <1>1 DEF TypeOK, DirectoryInv, StatusInv, StatusFirst, Session, Idle, AcceptFails
  <2> QED
    BY <2>1, <2>2, <2>3, <2>4
<1>2. ASSUME NEW c \in Conns, Accept(c)
      PROVE  ServerIInv'
  <2>1. TypeOK'
    BY <1>2 DEF TypeOK, Accept, Goto, Rearmed
  <2>2. DirectoryInv'
    BY <1>2 DEF TypeOK, DirectoryInv, Session, Accept, Goto, Rearmed
  <2>3. StatusInv'
    BY <1>2 DEF TypeOK, StatusInv, Session, Accept, Goto, Rearmed
  <2>4. StatusFirst'
    BY <1>2
       DEF TypeOK, DirectoryInv, StatusInv, StatusFirst, Session, Idle, Accept, Goto,
           Rearmed
  <2> QED
    BY <2>1, <2>2, <2>3, <2>4
<1>3. ASSUME NEW c \in Conns, NEW k \in Keys, Identify(c, k)
      PROVE  ServerIInv'
  <2>1. TypeOK'
    BY <1>3 DEF TypeOK, Identify, Goto
  <2>2. DirectoryInv'
    BY <1>3 DEF TypeOK, DirectoryInv, Session, Identify, Goto
  <2>3. StatusInv'
    BY <1>3 DEF TypeOK, StatusInv, Session, Identify, Goto
  <2>4. StatusFirst'
    BY <1>3
       DEF TypeOK, DirectoryInv, StatusInv, StatusFirst, Session, Idle, Identify, Goto
  <2> QED
    BY <2>1, <2>2, <2>3, <2>4
<1>4. ASSUME NEW c \in Conns, Answer(c)
      PROVE  ServerIInv'
  <2>1. TypeOK'
    BY <1>4 DEF TypeOK, Answer, Goto, MayAdd
  <2>2. DirectoryInv'
    BY <1>4 DEF TypeOK, DirectoryInv, Session, Answer, Goto, MayAdd
  <2>3. StatusInv'
    BY <1>4 DEF TypeOK, StatusInv, Session, Answer, Goto, MayAdd
  <2>4. StatusFirst'
    BY <1>4
       DEF TypeOK, DirectoryInv, StatusInv, StatusFirst, Session, Idle, Answer, Goto,
           MayAdd
  <2> QED
    BY <2>1, <2>2, <2>3, <2>4
<1>5. ASSUME NEW c \in Conns, Start(c)
      PROVE  ServerIInv'
  <2>1. TypeOK'
    BY <1>5 DEF TypeOK, Start, Goto
  <2>2. DirectoryInv'
    BY <1>5 DEF TypeOK, DirectoryInv, Session, Start, Goto
  <2>3. StatusInv'
    BY <1>5 DEF TypeOK, StatusInv, Session, Start, Goto
  <2>4. StatusFirst'
    BY <1>5 DEF TypeOK, DirectoryInv, StatusInv, StatusFirst, Session, Idle, Start, Goto
  <2> QED
    BY <2>1, <2>2, <2>3, <2>4
<1>6. ASSUME NEW c \in Conns, SendStatus(c)
      PROVE  ServerIInv'
  <2>1. TypeOK'
    BY <1>6 DEF TypeOK, SendStatus
  <2>2. DirectoryInv'
    BY <1>6 DEF TypeOK, DirectoryInv, Session, SendStatus
  <2>3. StatusInv'
    BY <1>6 DEF TypeOK, StatusInv, Session, SendStatus
  <2>4. StatusFirst'
    BY <1>6 DEF TypeOK, DirectoryInv, StatusInv, StatusFirst, Session, Idle, SendStatus
  <2> QED
    BY <2>1, <2>2, <2>3, <2>4
<1>7. ASSUME NEW c \in Conns, HandshakeFails(c)
      PROVE  ServerIInv'
  <2>1. TypeOK'
    BY <1>7 DEF TypeOK, HandshakeFails, Goto
  <2>2. DirectoryInv'
    BY <1>7 DEF TypeOK, DirectoryInv, Session, HandshakeFails, Goto
  <2>3. StatusInv'
    BY <1>7 DEF TypeOK, StatusInv, Session, HandshakeFails, Goto
  <2>4. StatusFirst'
    BY <1>7
       DEF TypeOK, DirectoryInv, StatusInv, StatusFirst, Session, Idle, HandshakeFails,
           Goto
  <2> QED
    BY <2>1, <2>2, <2>3, <2>4
<1>8. ASSUME NEW c \in Conns, ReadFails(c)
      PROVE  ServerIInv'
  <2>1. TypeOK'
    BY <1>8 DEF TypeOK, ReadFails, Goto, Removed
  <2>2. DirectoryInv'
    BY <1>8 DEF TypeOK, DirectoryInv, Session, ReadFails, Goto, Removed
  <2>3. StatusInv'
    BY <1>8 DEF TypeOK, StatusInv, Session, ReadFails, Goto, Removed
  <2>4. StatusFirst'
    BY <1>8
       DEF TypeOK, DirectoryInv, StatusInv, StatusFirst, Session, Idle, ReadFails, Goto,
           Removed
  <2> QED
    BY <2>1, <2>2, <2>3, <2>4
<1>9. ASSUME NEW d \in Dialogues, NEW c \in Conns, NEW k \in Keys, ProcessMessage(d, c, k)
      PROVE  ServerIInv'
  <2>1. TypeOK'
    BY <1>9 DEF TypeOK, ProcessMessage
  <2>2. DirectoryInv'
    BY <1>9 DEF TypeOK, DirectoryInv, Session, ProcessMessage
  <2>3. StatusInv'
    BY <1>9 DEF TypeOK, StatusInv, Session, ProcessMessage
  <2>4. StatusFirst'
    BY <1>9
       DEF TypeOK, DirectoryInv, StatusInv, StatusFirst, Session, Idle, ProcessMessage
  <2> QED
    BY <2>1, <2>2, <2>3, <2>4
<1>10. ASSUME NEW d \in Dialogues, WriteDone(d)
       PROVE  ServerIInv'
  <2>1. TypeOK'
    BY <1>10 DEF TypeOK, WriteDone
  <2>2. DirectoryInv'
    BY <1>10 DEF TypeOK, DirectoryInv, Session, WriteDone
  <2>3. StatusInv'
    BY <1>10 DEF TypeOK, StatusInv, Session, WriteDone
  <2>4. StatusFirst'
    BY <1>10 DEF TypeOK, DirectoryInv, StatusInv, StatusFirst, Session, Idle, WriteDone
  <2> QED
    BY <2>1, <2>2, <2>3, <2>4
<1>11. ASSUME NEW c \in Conns, Disconnect(c)
       PROVE  ServerIInv'
  <2>1. TypeOK'
    BY <1>11 DEF TypeOK, Disconnect
  <2>2. DirectoryInv'
    BY <1>11 DEF TypeOK, DirectoryInv, Session, Disconnect
  <2>3. StatusInv'
    BY <1>11 DEF TypeOK, StatusInv, Session, Disconnect
  <2>4. StatusFirst'
    BY <1>11 DEF TypeOK, DirectoryInv, StatusInv, StatusFirst, Session, Idle, Disconnect
  <2> QED
    BY <2>1, <2>2, <2>3, <2>4
<1>12. ASSUME UNCHANGED vars
       PROVE  ServerIInv'
  BY <1>12 DEF vars, TypeOK, DirectoryInv, StatusInv, StatusFirst
<1> QED
  BY <1>1, <1>2, <1>3, <1>4, <1>5, <1>6, <1>7, <1>8, <1>9, <1>10, <1>11, <1>12
     DEF Next, Handlers

\* However handshakes with one key interleave and whatever exist() said, a running
\* session is the one that the directory has for its key, the directory has no
\* other, and under one thread an agent hears of its status before anything else:
\* for any number of agents, keys, dialogues and threads.
THEOREM ServerCorrect == Spec => []ServerInv
<1>1. ServerIInv => ServerInv
  <2> SUFFICES ASSUME ServerIInv PROVE OneSession
    BY DEF ServerIInv, ServerInv
  <2> SUFFICES ASSUME NEW c \in Conns
               PROVE  conn[c] \in Session <=> \E k \in Keys : directory[k] = c /\ key[c] = k
    BY DEF OneSession, Session
  <2>1. c # NoConn
    BY CoreServerAssumption
  <2>2. ASSUME conn[c] \in Session
        PROVE  key[c] \in Keys /\ directory[key[c]] = c
    BY <2>2 DEF ServerIInv, DirectoryInv
  <2>3. ASSUME NEW k \in Keys, directory[k] = c
        PROVE  conn[c] \in Session
    BY <2>1, <2>3 DEF ServerIInv, DirectoryInv
  <2> QED
    BY <2>2, <2>3
<1> QED
  BY <1>1, InitServerIInv, ServerStepKeeps, PTL DEF Spec

-----------------------------------------------------------------------------
(* The search client *)

Ended == {"written", "failed"}

\* What the io_context has to run.
ReadyHandlers == {<<"read">>} \cup (Ended \X Requests)

\* A request is in one place: in a write, in the handler of its write, or past them.
StageInv ==
    /\ \A i \in DOMAIN writes : req[writes[i]] = "writing"
    /\ \A i, j \in DOMAIN writes : writes[i] = writes[j] => i = j
    /\ \A r \in Requests, x \in Ended, i \in DOMAIN ready : ready[i] = <<x, r>> => req[r] = "written"
    /\ \A r \in Requests, x, y \in Ended, i, j \in DOMAIN ready :
          ready[i] = <<x, r>> /\ ready[j] = <<y, r>> => i = j

\* A continuation that is saved was not called, and the one that process_message_ is
\* about to call is still saved, under the id of the answer.
HandleInv ==
    /\ \A r \in handles : req[r] = "waiting" /\ outcome[r] = <<>>
    /\ \A r \in Requests : outcome[r] # <<>> => req[r] = "waiting"
    /\ processing # <<>> =>
          \A r \in processing[2] : r \in handles /\ Client!smsg_id(r) = Client!smsg_id(processing[1].of)

ClientIInv ==
    Client!TypeOK /\ StageInv /\ HandleInv /\ Client!AnsweredOnce /\ Client!OwnAnswer

\* The setting stays, and with it the ids.
LEMMA SameIds ==
    ASSUME setting' = setting
    PROVE  \A q : (Client!smsg_id(q))' = Client!smsg_id(q)
  BY DEF Client!smsg_id, Client!Agent, Client!MsgId, Client!Hash

\* A sequence without its i-th element.
LEMMA WithoutOne ==
    ASSUME NEW S, NEW s \in Seq(S), NEW i \in 1 .. Len(s)
    PROVE  /\ Client!RemoveAt(s, i) \in Seq(S)
           /\ Len(Client!RemoveAt(s, i)) = Len(s) - 1
           /\ \A j \in 1 .. Len(s) - 1 : Client!RemoveAt(s, i)[j] = IF j < i THEN s[j] ELSE s[j + 1]
<1> DEFINE a == SubSeq(s, 1, i - 1)
           b == SubSeq(s, i + 1, Len(s))
<1>1. a \in Seq(S) /\ Len(a) = i - 1 /\ \A j \in 1 .. i - 1 : a[j] = s[j]
  OBVIOUS
<1>2. b \in Seq(S) /\ Len(b) = Len(s) - i /\ \A j \in 1 .. Len(s) - i : b[j] = s[i + j]
  OBVIOUS
<1>3. Client!RemoveAt(s, i) = a \o b
  BY DEF Client!RemoveAt
<1> HIDE DEF a, b
<1>0. Len(s) \in Nat /\ i \in Nat /\ i >= 1 /\ i <= Len(s)
  OBVIOUS
<1>4. a \o b \in Seq(S) /\ Len(a \o b) = Len(s) - 1
  <2>1. a \o b \in Seq(S) /\ Len(a \o b) = Len(a) + Len(b)
    BY <1>1, <1>2, ConcatProperties
  <2> QED
    BY <1>0, <1>1, <1>2, <2>1
<1>5. ASSUME NEW j \in 1 .. Len(s) - 1
      PROVE  (a \o b)[j] = IF j < i THEN s[j] ELSE s[j + 1]
  <2>1. CASE j < i
    BY <1>1, <1>2, <2>1
  <2>2. CASE ~(j < i)
    <3>1. (a \o b)[j] = b[j - (i - 1)]
      BY <1>1, <1>2, <2>2
    <3>2. j - (i - 1) \in 1 .. Len(s) - i /\ i + (j - (i - 1)) = j + 1
      BY <2>2
    <3> QED
      BY <1>2, <2>2, <3>1, <3>2
  <2> QED
    BY <2>1, <2>2
<1> QED
  BY <1>3, <1>4, <1>5

\* The client starts without requests.
LEMMA InitClientIInv == Client!Init => ClientIInv
<1> SUFFICES ASSUME Client!Init PROVE ClientIInv
  OBVIOUS
<1>1. Client!TypeOK
  BY DEF Client!Init, Client!TypeOK
<1>2. StageInv /\ HandleInv
  BY DEF Client!Init, StageInv, HandleInv
<1>3. Client!AnsweredOnce /\ Client!OwnAnswer
  BY DEF Client!Init, Client!AnsweredOnce, Client!OwnAnswer
<1> QED
  BY <1>1, <1>2, <1>3 DEF ClientIInv


\* The handler that a thread takes is no longer ready, and no other one is of the
\* same request.
LEMMA TakesOne ==
    ASSUME ClientIInv, NEW i, Client!Takes(i)
    PROVE  /\ i \in DOMAIN ready
           /\ ready[i] \in ReadyHandlers
           /\ ready' \in Seq(ReadyHandlers)
           /\ \A r \in Requests, x \in Ended, j \in DOMAIN ready' :
                 ready'[j] = <<x, r>> => req[r] = "written" /\ \A y \in Ended : ready[i] # <<y, r>>
           /\ \A r \in Requests, x, y \in Ended, j, k \in DOMAIN ready' :
                 ready'[j] = <<x, r>> /\ ready'[k] = <<y, r>> => j = k
<1>1. ready \in Seq(ReadyHandlers)
  BY DEF ClientIInv, Client!TypeOK, ReadyHandlers, Ended
<1>2. i \in 1 .. Len(ready) /\ ready' = Client!RemoveAt(ready, i)
  BY <1>1 DEF Client!Takes
<1>3. DOMAIN ready = 1 .. Len(ready) /\ Len(ready) \in Nat /\ ready[i] \in ReadyHandlers
  BY <1>1, <1>2
<1> DEFINE at(j) == IF j < i THEN j ELSE j + 1
<1>4. /\ ready' \in Seq(ReadyHandlers) /\ DOMAIN ready' = 1 .. Len(ready) - 1
      /\ \A j \in DOMAIN ready' : ready'[j] = ready[at(j)]
  <2>1. /\ Client!RemoveAt(ready, i) \in Seq(ReadyHandlers) /\ Len(Client!RemoveAt(ready, i)) = Len(ready) - 1
        /\ \A j \in 1 .. Len(ready) - 1 :
              Client!RemoveAt(ready, i)[j] = IF j < i THEN ready[j] ELSE ready[j + 1]
    BY <1>1, <1>2, WithoutOne, Zenon
  <2>2. /\ ready' \in Seq(ReadyHandlers) /\ Len(ready') = Len(ready) - 1
        /\ \A j \in 1 .. Len(ready) - 1 : ready'[j] = IF j < i THEN ready[j] ELSE ready[j + 1]
    BY <1>2, <2>1
  <2>3. DOMAIN ready' = 1 .. Len(ready) - 1
    BY <2>2
  <2> QED
    BY <2>2, <2>3
<1>5. \A j \in DOMAIN ready' : at(j) \in DOMAIN ready /\ at(j) # i
  BY <1>2, <1>3, <1>4
<1>6. \A j, k \in DOMAIN ready' : at(j) = at(k) => j = k
  BY <1>2, <1>3, <1>4
<1> HIDE DEF at
<1>7. ASSUME NEW r \in Requests, NEW x \in Ended, NEW j \in DOMAIN ready', ready'[j] = <<x, r>>
      PROVE  req[r] = "written" /\ \A y \in Ended : ready[i] # <<y, r>>
  BY <1>2, <1>3, <1>4, <1>5, <1>7 DEF ClientIInv, StageInv
<1>8. ASSUME NEW r \in Requests, NEW x \in Ended, NEW y \in Ended, NEW j \in DOMAIN ready', NEW k \in DOMAIN ready',
             ready'[j] = <<x, r>>, ready'[k] = <<y, r>>
      PROVE  j = k
  <2>0. ready[at(j)] = <<x, r>> /\ ready[at(k)] = <<y, r>> /\ at(j) \in DOMAIN ready /\ at(k) \in DOMAIN ready
    BY <1>4, <1>5, <1>8
  <2>1. at(j) = at(k)
    BY <2>0 DEF ClientIInv, StageInv
  <2> QED
    BY <1>6, <2>1
<1> QED
  BY <1>2, <1>3, <1>4, <1>7, <1>8

\* Every step of the client keeps it.
LEMMA ClientStepKeeps == ClientIInv /\ [Client!Next]_clientVars => ClientIInv'
<1> SUFFICES ASSUME ClientIInv, [Client!Next]_clientVars
             PROVE  ClientIInv'
  OBVIOUS
<1> USE DEF Client!search
<1>0. /\ writes \in Seq(Requests) /\ ready \in Seq(ReadyHandlers) /\ handles \in SUBSET Requests
      /\ req \in [Requests -> {"none", "writing", "written", "waiting", "returned"}]
      /\ processing \in {<<>>} \cup (Client!AnswerOf \X SUBSET Requests)
      /\ outcome \in [Requests -> Seq(Client!AnswerOf)]
      /\ atSearch \in Seq(Requests) /\ answers \in Seq(Client!AnswerOf)
  BY DEF ClientIInv, Client!TypeOK, ReadyHandlers, Ended
<1>1. ASSUME NEW r \in Requests, Client!Request(r)
      PROVE  ClientIInv'
  <2>1. /\ req[r] = "none" /\ req' = [req EXCEPT ![r] = "writing"] /\ writes' = Append(writes, r)
        /\ UNCHANGED <<setting, ready, handles, receiving, processing, outcome, link, atSearch, answers, held>>
    BY <1>1 DEF Client!Request
  <2>2. description' \in SUBSET Client!Agents
    BY <1>1 DEF Client!Request, ClientIInv, Client!TypeOK, Client!Agents
  <2>3. /\ writes' \in Seq(Requests) /\ DOMAIN writes' = DOMAIN writes \cup {Len(writes) + 1}
        /\ \A i \in DOMAIN writes : writes'[i] = writes[i] /\ i # Len(writes) + 1
        /\ writes'[Len(writes) + 1] = r
    BY <1>0, <2>1
  <2>11. Client!TypeOK'
    BY <2>1, <2>2, <2>3
       DEF ClientIInv, Client!TypeOK, Client!Agents, Client!Agent, ReadyHandlers, Ended
  <2>12. StageInv'
    BY <1>0, <2>1, <2>3 DEF ClientIInv, StageInv, Ended
  <2>13. HandleInv'
    BY <1>0, <2>1 DEF ClientIInv, HandleInv, Client!smsg_id, Client!Agent, Client!MsgId, Client!Hash
  <2>14. Client!AnsweredOnce'
    BY <2>1 DEF ClientIInv, Client!AnsweredOnce
  <2>15. Client!OwnAnswer'
    BY <2>1
       DEF ClientIInv, Client!OwnAnswer, Client!smsg_id, Client!Agent, Client!MsgId, Client!Hash
  <2> QED
    BY <2>11, <2>12, <2>13, <2>14, <2>15 DEF ClientIInv
<1>2. ASSUME NEW r \in Requests, Client!ReturnsEarly(r)
      PROVE  ClientIInv'
  <2>1. /\ req[r] = "none" /\ req' = [req EXCEPT ![r] = "returned"]
        /\ UNCHANGED <<setting, writes, ready, handles, receiving, processing, outcome, description, link, atSearch, answers, held>>
    BY <1>2 DEF Client!ReturnsEarly
  <2>11. Client!TypeOK'
    BY <2>1
       DEF ClientIInv, Client!TypeOK, Client!Agents, Client!Agent, ReadyHandlers, Ended
  <2>12. StageInv'
    BY <1>0, <2>1 DEF ClientIInv, StageInv, Ended
  <2>13. HandleInv'
    BY <1>0, <2>1 DEF ClientIInv, HandleInv, Client!smsg_id, Client!Agent, Client!MsgId, Client!Hash
  <2>14. Client!AnsweredOnce'
    BY <2>1 DEF ClientIInv, Client!AnsweredOnce
  <2>15. Client!OwnAnswer'
    BY <2>1
       DEF ClientIInv, Client!OwnAnswer, Client!smsg_id, Client!Agent, Client!MsgId, Client!Hash
  <2> QED
    BY <2>11, <2>12, <2>13, <2>14, <2>15 DEF ClientIInv
<1>3. ASSUME Client!WriteEnds
      PROVE  ClientIInv'
  <2> DEFINE r == Head(writes)
           w == <<IF link THEN "written" ELSE "failed", r>>
  <2>1. /\ writes # <<>> /\ req' = [req EXCEPT ![r] = "written"] /\ ready' = Append(ready, w)
        /\ writes' = Tail(writes) /\ atSearch' = IF link THEN Append(atSearch, r) ELSE atSearch
        /\ UNCHANGED <<setting, handles, receiving, processing, outcome, description, link, answers, held>>
    BY <1>3 DEF Client!WriteEnds
  <2>2. r \in Requests /\ r = writes[1] /\ 1 \in DOMAIN writes
    BY <1>0, <2>1
  <2>3. \E x \in Ended : w = <<x, r>>
    BY DEF Ended
  <2>4. req[r] = "writing"
    BY <2>2 DEF ClientIInv, StageInv
  <2>5. /\ writes' \in Seq(Requests) /\ \A i \in DOMAIN writes' : i + 1 \in DOMAIN writes /\ writes'[i] = writes[i + 1] /\ i + 1 # 1
        /\ \A i, j \in DOMAIN writes' : i + 1 = j + 1 => i = j
    <3>1. Tail(writes) \in Seq(Requests) /\ Len(Tail(writes)) = Len(writes) - 1
          /\ \A i \in 1 .. Len(Tail(writes)) : Tail(writes)[i] = writes[i + 1]
      BY <1>0, <2>1
    <3>2. Len(writes) \in Nat /\ Len(writes) > 0 /\ DOMAIN writes = 1 .. Len(writes) /\ DOMAIN writes' = 1 .. Len(writes) - 1
      BY <1>0, <2>1, <3>1
    <3> QED
      BY <2>1, <3>1, <3>2
  <2>6. w \in ReadyHandlers
    BY <2>2, <2>3 DEF ReadyHandlers
  <2> HIDE DEF r, w
  <2>7. /\ ready' \in Seq(ReadyHandlers) /\ DOMAIN ready' = DOMAIN ready \cup {Len(ready) + 1}
        /\ \A i \in DOMAIN ready : ready'[i] = ready[i] /\ i # Len(ready) + 1
        /\ ready'[Len(ready) + 1] = w
    BY <1>0, <2>1, <2>6
  <2>8. atSearch' \in Seq(Requests)
    BY <1>0, <2>1, <2>2
  <2>11. Client!TypeOK'
    BY <2>1, <2>2, <2>5, <2>7, <2>8
       DEF ClientIInv, Client!TypeOK, Client!Agents, Client!Agent, ReadyHandlers, Ended
  <2>12. StageInv'
    <3>1. \A i \in DOMAIN writes' : req'[writes'[i]] = "writing"
      BY <1>0, <2>1, <2>2, <2>5 DEF ClientIInv, StageInv
    <3>2. \A i, j \in DOMAIN writes' : writes'[i] = writes'[j] => i = j
      BY <2>5 DEF ClientIInv, StageInv
    <3>3. \A q \in Requests, x \in Ended, i \in DOMAIN ready : ready[i] = <<x, q>> => q # r
      BY <2>4 DEF ClientIInv, StageInv
    <3>4. \A q \in Requests, x \in Ended, i \in DOMAIN ready' : ready'[i] = <<x, q>> => req'[q] = "written"
      <4> SUFFICES ASSUME NEW q \in Requests, NEW x \in Ended, NEW i \in DOMAIN ready', ready'[i] = <<x, q>>
                   PROVE  req'[q] = "written"
        OBVIOUS
      <4>1. CASE i \in DOMAIN ready
        <5>1. req[q] = "written" /\ q # r
          BY <2>7, <3>3, <4>1 DEF ClientIInv, StageInv
        <5> QED
          BY <1>0, <2>1, <5>1
      <4>2. CASE i = Len(ready) + 1
        <5>1. q = r
          BY <2>3, <2>7, <4>2
        <5> QED
          BY <1>0, <2>1, <2>2, <5>1
      <4> QED
        BY <2>7, <4>1, <4>2
    <3>5. \A q \in Requests, x, y \in Ended, i, j \in DOMAIN ready' :
             ready'[i] = <<x, q>> /\ ready'[j] = <<y, q>> => i = j
      BY <2>3, <2>7, <3>3 DEF ClientIInv, StageInv
    <3> QED
      BY <3>1, <3>2, <3>4, <3>5 DEF StageInv
  <2>13. HandleInv'
    BY <1>0, <2>1, <2>2, <2>4
       DEF ClientIInv, HandleInv, Client!smsg_id, Client!Agent, Client!MsgId, Client!Hash
  <2>14. Client!AnsweredOnce'
    BY <2>1 DEF ClientIInv, Client!AnsweredOnce
  <2>15. Client!OwnAnswer'
    BY <2>1
       DEF ClientIInv, Client!OwnAnswer, Client!smsg_id, Client!Agent, Client!MsgId, Client!Hash
  <2> QED
    BY <2>11, <2>12, <2>13, <2>14, <2>15 DEF ClientIInv
<1>4. ASSUME NEW i \in 1 .. Client!Threads, Client!Written(i)
      PROVE  ClientIInv'
  <2>0. Client!Takes(i)
    BY <1>4 DEF Client!Written
  <2>1. PICK r \in Requests : ready[i] = <<"written", r>>
    BY <1>4, <2>0, TakesOne DEF Client!Written, ReadyHandlers, Ended
  <2>2. /\ req' = [req EXCEPT ![r] = "waiting"] /\ handles' \in {handles, handles \cup {r}}
        /\ UNCHANGED <<setting, writes, receiving, processing, outcome, description, link, atSearch, answers, held>>
    BY <1>4, <2>1 DEF Client!Written, Client!msg_handle_save
  <2>3. req[r] = "written"
    BY <2>0, <2>1, TakesOne DEF ClientIInv, StageInv, Ended
  <2>4. ready' \in Seq(ReadyHandlers)
    BY <2>0, TakesOne
  <2>11. Client!TypeOK'
    BY <2>2, <2>4
       DEF ClientIInv, Client!TypeOK, Client!Agents, Client!Agent, ReadyHandlers, Ended
  <2>12. StageInv'
    <3>1. \A q \in Requests, x \in Ended, j \in DOMAIN ready' : ready'[j] = <<x, q>> => req'[q] = "written"
      BY <1>0, <2>0, <2>1, <2>2, TakesOne DEF Ended
    <3>2. \A j \in DOMAIN writes' : req'[writes'[j]] = "writing"
      BY <1>0, <2>2, <2>3 DEF ClientIInv, StageInv
    <3> QED
      BY <2>0, <2>2, <3>1, <3>2, TakesOne DEF ClientIInv, StageInv
  <2>13. HandleInv'
    BY <1>0, <2>2, <2>3
       DEF ClientIInv, HandleInv, Client!smsg_id, Client!Agent, Client!MsgId, Client!Hash
  <2>14. Client!AnsweredOnce'
    BY <2>2 DEF ClientIInv, Client!AnsweredOnce
  <2>15. Client!OwnAnswer'
    BY <2>2
       DEF ClientIInv, Client!OwnAnswer, Client!smsg_id, Client!Agent, Client!MsgId, Client!Hash
  <2> QED
    BY <2>11, <2>12, <2>13, <2>14, <2>15 DEF ClientIInv
<1>5. ASSUME NEW i \in 1 .. Client!Threads, Client!WriteFailed(i)
      PROVE  ClientIInv'
  <2>0. Client!Takes(i)
    BY <1>5 DEF Client!WriteFailed
  <2>1. PICK r \in Requests : ready[i] = <<"failed", r>>
    BY <1>5, <2>0, TakesOne DEF Client!WriteFailed, ReadyHandlers, Ended
  <2> DEFINE a == [of |-> r, success |-> FALSE, parses |-> TRUE]
  <2>2. /\ req' = [req EXCEPT ![r] = "waiting"] /\ outcome' = [outcome EXCEPT ![r] = Append(outcome[r], a)]
        /\ description' \in SUBSET description
        /\ UNCHANGED <<setting, writes, handles, receiving, processing, link, atSearch, answers, held>>
    BY <1>5, <2>1 DEF Client!WriteFailed, Client!Continue
  <2>3. req[r] = "written"
    BY <2>0, <2>1, TakesOne DEF ClientIInv, StageInv, Ended
  <2>4. ready' \in Seq(ReadyHandlers)
    BY <2>0, TakesOne
  <2>5. outcome[r] = <<>> /\ r \notin handles
    BY <2>3 DEF ClientIInv, HandleInv
  <2>6. a \in Client!AnswerOf /\ a.of = r
    BY DEF Client!AnswerOf
  <2> HIDE DEF a
  <2>7. outcome'[r] \in Seq(Client!AnswerOf) /\ Len(outcome'[r]) = 1 /\ outcome'[r][1] = a /\ DOMAIN outcome'[r] = {1}
    BY <1>0, <2>2, <2>5, <2>6
  <2>8. \A q \in Requests \ {r} : outcome'[q] = outcome[q]
    BY <1>0, <2>2
  <2>9. outcome' \in [Requests -> Seq(Client!AnswerOf)]
    BY <1>0, <2>2, <2>7
  <2>11. Client!TypeOK'
    BY <2>2, <2>4, <2>9
       DEF ClientIInv, Client!TypeOK, Client!Agents, Client!Agent, ReadyHandlers, Ended
  <2>12. StageInv'
    <3>1. \A q \in Requests, x \in Ended, j \in DOMAIN ready' : ready'[j] = <<x, q>> => req'[q] = "written"
      BY <1>0, <2>0, <2>1, <2>2, TakesOne DEF Ended
    <3>2. \A j \in DOMAIN writes' : req'[writes'[j]] = "writing"
      BY <1>0, <2>2, <2>3 DEF ClientIInv, StageInv
    <3> QED
      BY <2>0, <2>2, <3>1, <3>2, TakesOne DEF ClientIInv, StageInv
  <2>13. HandleInv'
    BY <1>0, <2>2, <2>5, <2>8
       DEF ClientIInv, HandleInv, Client!smsg_id, Client!Agent, Client!MsgId, Client!Hash
  <2>14. Client!AnsweredOnce'
    <3> SUFFICES ASSUME NEW q \in Requests PROVE Len(outcome'[q]) <= 1
      BY DEF Client!AnsweredOnce
    <3>1. CASE q = r
      <4>1. Len(outcome'[q]) = 1
        BY Zenon, <2>7, <3>1
      <4> QED
        BY <4>1
    <3>2. CASE q # r
      BY <2>8, <3>2 DEF ClientIInv, Client!AnsweredOnce
    <3> QED
      BY <3>1, <3>2
  <2>15. Client!OwnAnswer'
    BY <2>2, <2>6, <2>7, <2>8, SameIds DEF ClientIInv, Client!OwnAnswer, Client!AnswerOf
  <2> QED
    BY <2>11, <2>12, <2>13, <2>14, <2>15 DEF ClientIInv
<1>6. ASSUME Client!SizesArrive
      PROVE  ClientIInv'
  <2>1. /\ ready' = Append(ready, <<"read">>)
        /\ UNCHANGED <<setting, req, writes, handles, processing, outcome, description, link, atSearch, answers, held>>
    BY <1>6 DEF Client!SizesArrive
  <2>2. receiving' \in BOOLEAN
    BY Zenon, <1>6 DEF Client!SizesArrive
  <2>3. <<"read">> \in ReadyHandlers /\ \A r \in Requests, x \in Ended : <<"read">> # <<x, r>>
    BY DEF ReadyHandlers
  <2>4. /\ ready' \in Seq(ReadyHandlers) /\ DOMAIN ready' = DOMAIN ready \cup {Len(ready) + 1}
        /\ \A i \in DOMAIN ready : ready'[i] = ready[i]
        /\ ready'[Len(ready) + 1] = <<"read">>
    BY <1>0, <2>1, <2>3
  <2>11. Client!TypeOK'
    BY <2>1, <2>2, <2>4
       DEF ClientIInv, Client!TypeOK, Client!Agents, Client!Agent, ReadyHandlers, Ended
  <2>12. StageInv'
    <3>1. \A r \in Requests, x \in Ended, i \in DOMAIN ready' : ready'[i] = <<x, r>> => i \in DOMAIN ready /\ ready[i] = <<x, r>>
      BY <2>3, <2>4
    <3>2. \A i \in DOMAIN writes' : req'[writes'[i]] = "writing"
      BY <2>1 DEF ClientIInv, StageInv
    <3>3. \A i, j \in DOMAIN writes' : writes'[i] = writes'[j] => i = j
      BY <2>1 DEF ClientIInv, StageInv
    <3>4. \A r \in Requests, x \in Ended, i \in DOMAIN ready' : ready'[i] = <<x, r>> => req'[r] = "written"
      BY <2>1, <3>1 DEF ClientIInv, StageInv
    <3>5. \A r \in Requests, x, y \in Ended, i, j \in DOMAIN ready' :
             ready'[i] = <<x, r>> /\ ready'[j] = <<y, r>> => i = j
      BY <3>1 DEF ClientIInv, StageInv
    <3> QED
      BY <3>2, <3>3, <3>4, <3>5 DEF StageInv
  <2>13. HandleInv'
    BY <2>1 DEF ClientIInv, HandleInv, Client!smsg_id, Client!Agent, Client!MsgId, Client!Hash
  <2>14. Client!AnsweredOnce'
    BY <2>1 DEF ClientIInv, Client!AnsweredOnce
  <2>15. Client!OwnAnswer'
    BY <2>1
       DEF ClientIInv, Client!OwnAnswer, Client!smsg_id, Client!Agent, Client!MsgId, Client!Hash
  <2> QED
    BY <2>11, <2>12, <2>13, <2>14, <2>15 DEF ClientIInv
<1>7. ASSUME NEW i \in 1 .. Client!Threads, Client!ReceiveFails(i)
      PROVE  ClientIInv'
  <2>0. Client!Takes(i)
    BY <1>7 DEF Client!ReceiveFails
  <2>1. /\ answers' = IF answers = <<>> THEN answers ELSE Tail(answers)
        /\ UNCHANGED <<setting, req, writes, handles, receiving, processing, outcome, description, link, atSearch, held>>
    BY <1>7 DEF Client!ReceiveFails
  <2>2. ready' \in Seq(ReadyHandlers) /\ answers' \in Seq(Client!AnswerOf)
    BY <1>0, <2>0, <2>1, TakesOne
  <2>11. Client!TypeOK'
    BY <2>1, <2>2
       DEF ClientIInv, Client!TypeOK, Client!Agents, Client!Agent, ReadyHandlers, Ended
  <2>12. StageInv'
    BY <2>0, <2>1, TakesOne DEF ClientIInv, StageInv
  <2>13. HandleInv'
    BY <2>1 DEF ClientIInv, HandleInv, Client!smsg_id, Client!Agent, Client!MsgId, Client!Hash
  <2>14. Client!AnsweredOnce'
    BY <2>1 DEF ClientIInv, Client!AnsweredOnce
  <2>15. Client!OwnAnswer'
    BY <2>1
       DEF ClientIInv, Client!OwnAnswer, Client!smsg_id, Client!Agent, Client!MsgId, Client!Hash
  <2> QED
    BY <2>11, <2>12, <2>13, <2>14, <2>15 DEF ClientIInv
<1>8. ASSUME NEW i \in 1 .. Client!Threads, Client!GetHandle(i)
      PROVE  ClientIInv'
  <2>0. Client!Takes(i)
    BY <1>8 DEF Client!GetHandle
  <2> DEFINE a == Head(answers)
           h == {r \in handles : Client!smsg_id(r) = Client!smsg_id(a.of)}
  <2>1. /\ answers # <<>> /\ answers' = Tail(answers) /\ processing' = <<a, h>>
        /\ UNCHANGED <<setting, req, writes, handles, receiving, outcome, description, link, atSearch, held>>
    BY <1>8 DEF Client!GetHandle
  <2>2. ready' \in Seq(ReadyHandlers) /\ answers' \in Seq(Client!AnswerOf) /\ a \in Client!AnswerOf
    BY <1>0, <2>0, <2>1, TakesOne
  <2>3. h \in SUBSET Requests /\ \A r \in h : r \in handles /\ Client!smsg_id(r) = Client!smsg_id(a.of)
    BY <1>0
  <2> HIDE DEF a, h
  <2>4. processing' \in Client!AnswerOf \X SUBSET Requests /\ processing'[1] = a /\ processing'[2] = h
    BY <2>1, <2>2, <2>3
  <2>11. Client!TypeOK'
    BY <2>1, <2>2, <2>4
       DEF ClientIInv, Client!TypeOK, Client!Agents, Client!Agent, ReadyHandlers, Ended
  <2>12. StageInv'
    BY <2>0, <2>1, TakesOne DEF ClientIInv, StageInv
  <2>13. HandleInv'
    BY <2>1, <2>3, <2>4
       DEF ClientIInv, HandleInv, Client!smsg_id, Client!Agent, Client!MsgId, Client!Hash
  <2>14. Client!AnsweredOnce'
    BY <2>1 DEF ClientIInv, Client!AnsweredOnce
  <2>15. Client!OwnAnswer'
    BY <2>1
       DEF ClientIInv, Client!OwnAnswer, Client!smsg_id, Client!Agent, Client!MsgId, Client!Hash
  <2> QED
    BY <2>11, <2>12, <2>13, <2>14, <2>15 DEF ClientIInv
<1>9. ASSUME Client!ProcessAnswer
      PROVE  ClientIInv'
  <2>1. PICK a \in Client!AnswerOf, h \in SUBSET Requests : processing = <<a, h>>
    BY <1>0, <1>9 DEF Client!ProcessAnswer
  <2>2. /\ processing' = <<>> /\ receiving' = TRUE
        /\ handles' = {r \in handles : Client!smsg_id(r) # Client!smsg_id(a.of)}
        /\ UNCHANGED <<setting, req, writes, ready, link, atSearch, answers, held>>
    BY <1>9, <2>1
       DEF Client!ProcessAnswer, Client!msg_handle_erase, Client!handle_messages
  <2>3. \/ UNCHANGED <<outcome, description>>
        \/ \E r \in h : /\ outcome' = [outcome EXCEPT ![r] = Append(outcome[r], a)]
                         /\ description' \in SUBSET description
    BY <1>9, <2>1 DEF Client!ProcessAnswer, Client!Continue
  <2>4. \A r \in h : r \in Requests /\ r \in handles /\ Client!smsg_id(r) = Client!smsg_id(a.of)
    BY <2>1 DEF ClientIInv, HandleInv
  <2>5. receiving' \in BOOLEAN
    BY Zenon, <2>2
  <2>6. CASE UNCHANGED <<outcome, description>>
    <3>1. Client!TypeOK'
      BY <1>0, <2>2, <2>5, <2>6
         DEF ClientIInv, Client!TypeOK, Client!Agents, Client!Agent, ReadyHandlers,
             Ended
    <3>2. StageInv'
      BY <2>2 DEF ClientIInv, StageInv
    <3>3. HandleInv'
      BY <2>2, <2>6 DEF ClientIInv, HandleInv
    <3>4. Client!AnsweredOnce'
      BY <2>6 DEF ClientIInv, Client!AnsweredOnce
    <3>5. Client!OwnAnswer'
      BY <2>2, <2>6
         DEF ClientIInv, Client!OwnAnswer, Client!smsg_id, Client!Agent, Client!MsgId, Client!Hash
    <3> QED
      BY <3>1, <3>2, <3>3, <3>4, <3>5 DEF ClientIInv
  <2>7. ASSUME NEW r \in h, outcome' = [outcome EXCEPT ![r] = Append(outcome[r], a)],
               description' \in SUBSET description
        PROVE  ClientIInv'
    <3>0. r \in Requests /\ r \notin handles' /\ outcome[r] = <<>> /\ req[r] = "waiting"
      BY <2>2, <2>4 DEF ClientIInv, HandleInv
    <3>1. outcome'[r] \in Seq(Client!AnswerOf) /\ Len(outcome'[r]) = 1 /\ outcome'[r][1] = a /\ DOMAIN outcome'[r] = {1}
      BY <1>0, <2>7, <3>0
    <3>2. \A q \in Requests \ {r} : outcome'[q] = outcome[q]
      BY <1>0, <2>7
    <3>3. outcome' \in [Requests -> Seq(Client!AnswerOf)]
      BY <1>0, <2>7, <3>1, <3>0
    <3>4. Client!TypeOK'
      BY <1>0, <2>2, <2>5, <2>7, <3>3
         DEF ClientIInv, Client!TypeOK, Client!Agents, Client!Agent, ReadyHandlers,
             Ended
    <3>5. StageInv'
      BY <2>2 DEF ClientIInv, StageInv
    <3>6. HandleInv'
      BY <1>0, <2>2, <3>0, <3>2 DEF ClientIInv, HandleInv
    <3>7. Client!AnsweredOnce'
      <4> SUFFICES ASSUME NEW q \in Requests PROVE Len(outcome'[q]) <= 1
        BY DEF Client!AnsweredOnce
      <4>1. CASE q = r
        <5>1. Len(outcome'[q]) = 1
          BY Zenon, <3>1, <4>1
        <5> QED
          BY <5>1
      <4>2. CASE q # r
        BY <3>2, <4>2 DEF ClientIInv, Client!AnsweredOnce
      <4> QED
        BY <4>1, <4>2
    <3>8. Client!smsg_id(a.of) = Client!smsg_id(r)
      BY <2>4
    <3>9. Client!OwnAnswer'
      BY <2>2, <3>1, <3>2, <3>8, SameIds DEF ClientIInv, Client!OwnAnswer, Client!AnswerOf
    <3> QED
      BY <3>4, <3>5, <3>6, <3>7, <3>9 DEF ClientIInv
  <2> QED
    BY <2>3, <2>6, <2>7
<1>10. ASSUME Client!Serve
       PROVE  ClientIInv'
  <2>1. atSearch # <<>> /\ atSearch' = Tail(atSearch)
    BY <1>10 DEF Client!Serve
  <2>2. UNCHANGED <<setting, req, writes, ready, handles, receiving, processing, outcome, description, link>>
    BY <1>10 DEF Client!Serve
  <2>3. Head(atSearch) \in Requests /\ atSearch' \in Seq(Requests)
    BY <1>0, <2>1
  <2>4. PICK a \in Client!AnswerOf : answers' = Append(answers, a)
    BY Zenon, <1>10, <2>3 DEF Client!Serve, Client!AnswerOf
  <2>5. held' \in SUBSET Client!Agents
    BY <1>10, <2>3 DEF Client!Serve, ClientIInv, Client!TypeOK, Client!Agents
  <2>6. answers' \in Seq(Client!AnswerOf)
    BY <1>0, <2>4
  <2>11. Client!TypeOK'
    BY <2>2, <2>3, <2>5, <2>6
       DEF ClientIInv, Client!TypeOK, Client!Agents, Client!Agent, ReadyHandlers, Ended
  <2>12. StageInv'
    BY <2>2 DEF ClientIInv, StageInv
  <2>13. HandleInv'
    BY <2>2 DEF ClientIInv, HandleInv, Client!smsg_id, Client!Agent, Client!MsgId, Client!Hash
  <2>14. Client!AnsweredOnce'
    BY <2>2 DEF ClientIInv, Client!AnsweredOnce
  <2>15. Client!OwnAnswer'
    BY <2>2
       DEF ClientIInv, Client!OwnAnswer, Client!smsg_id, Client!Agent, Client!MsgId, Client!Hash
  <2> QED
    BY <2>11, <2>12, <2>13, <2>14, <2>15 DEF ClientIInv
<1>11. ASSUME Client!LinkFails
       PROVE  ClientIInv'
  <2>1. UNCHANGED <<setting, req, writes, ready, handles, receiving, processing, outcome, description, atSearch, held>>
    BY <1>11 DEF Client!LinkFails
  <2>2. link' \in BOOLEAN
    BY Zenon, <1>11 DEF Client!LinkFails
  <2>3. answers' \in Seq(Client!AnswerOf)
    <3>1. answers' = <<>> \/ answers' = answers
      BY <1>11 DEF Client!LinkFails
    <3> QED
      BY <1>0, <3>1, EmptySeq
  <2>11. Client!TypeOK'
    BY <2>1, <2>2, <2>3
       DEF ClientIInv, Client!TypeOK, Client!Agents, Client!Agent, ReadyHandlers, Ended
  <2>12. StageInv'
    BY <2>1 DEF ClientIInv, StageInv
  <2>13. HandleInv'
    BY <2>1 DEF ClientIInv, HandleInv, Client!smsg_id, Client!Agent, Client!MsgId, Client!Hash
  <2>14. Client!AnsweredOnce'
    BY <2>1 DEF ClientIInv, Client!AnsweredOnce
  <2>15. Client!OwnAnswer'
    BY <2>1
       DEF ClientIInv, Client!OwnAnswer, Client!smsg_id, Client!Agent, Client!MsgId, Client!Hash
  <2> QED
    BY <2>11, <2>12, <2>13, <2>14, <2>15 DEF ClientIInv
<1>12. ASSUME UNCHANGED clientVars
       PROVE  ClientIInv'
  <2>1. UNCHANGED <<setting, req, writes, ready, handles, receiving, processing, outcome, description, link, atSearch, answers, held>>
    BY <1>12 DEF clientVars
  <2>11. Client!TypeOK'
    BY <2>1
       DEF ClientIInv, Client!TypeOK, Client!Agents, Client!Agent, ReadyHandlers, Ended
  <2>12. StageInv'
    BY <2>1 DEF ClientIInv, StageInv
  <2>13. HandleInv'
    BY <2>1 DEF ClientIInv, HandleInv, Client!smsg_id, Client!Agent, Client!MsgId, Client!Hash
  <2>14. Client!AnsweredOnce'
    BY <2>1 DEF ClientIInv, Client!AnsweredOnce
  <2>15. Client!OwnAnswer'
    BY <2>1
       DEF ClientIInv, Client!OwnAnswer, Client!smsg_id, Client!Agent, Client!MsgId, Client!Hash
  <2> QED
    BY <2>11, <2>12, <2>13, <2>14, <2>15 DEF ClientIInv
<1> QED
  BY <1>1, <1>2, <1>3, <1>4, <1>5, <1>6, <1>7, <1>8, <1>9, <1>10, <1>11, <1>12
     DEF Client!Next, Client!System, Client!Handlers

\* However writes and the link fail and answers overtake the handlers of their
\* writes, a request is answered once at most, and only by the answer to a request
\* with its id, which is its own unless two requests share an id: for any requests,
\* agents, hashes and threads, and whatever function combines hash and message id.
THEOREM ClientCorrect == Client!Spec => []ClientInv
<1>1. ClientIInv => ClientInv
  BY DEF ClientIInv, ClientInv, Client!ClientInv
<1>2. ClientIInv /\ [Client!Next]_(Client!vars) => ClientIInv'
  BY ClientStepKeeps DEF Client!vars, clientVars, Client!search
<1> QED
  BY <1>1, <1>2, InitClientIInv, PTL DEF Client!Spec
=============================================================================
