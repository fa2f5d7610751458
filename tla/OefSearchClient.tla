-------------------------- MODULE OefSearchClient --------------------------
(***************************************************************************)
(* The search client of the earlier core server and the operations of its  *)
(* sessions that use it.  A request is written to the OEF Search; when the *)
(* write is done its continuation is saved under a message id; a loop      *)
(* reads the answers and calls the continuation saved under their id.      *)
(***************************************************************************)
EXTENDS Naturals, Sequences, SequencesExt

CONSTANTS
    Requests,    \* requests of agents
    Op,          \* "register" or "unregister" (a description); "search": any other
    Word,        \* ids of requests count modulo this (2^32)
    Xor,         \* exclusive or of two words
    Settings     \* who asks, and under which circumstances, see below

\* A setting has the agent of every request and the message id the agent gave it,
\* the hashes of the agents, the number of threads that run the io_context, and what
\* may go wrong.
OefSearchClientAssumption ==
    /\ Op \in [Requests -> {"register", "unregister", "search"}]
    /\ Word \in Nat \ {0}
    /\ Xor \in [(0 .. Word - 1) \X (0 .. Word - 1) -> 0 .. Word - 1]
    /\ \A i \in DOMAIN Settings :
          /\ Settings[i].msgId \in [Requests -> Nat]
          /\ DOMAIN Settings[i].agent = Requests
          /\ \A r \in Requests : Settings[i].hash[Settings[i].agent[r]] \in Nat
          /\ Settings[i].threads \in Nat \ {0}
          /\ Settings[i].faults \subseteq {"link", "header"}

VARIABLES
    setting,      \* the setting of this behaviour
    req,          \* the progress of a request
    writes,       \* the writes that have not ended, in the order of their start
    ready,        \* handlers the io_context has to run
    handles,      \* handles_: the requests whose continuation is saved
    receiving,    \* the read of handle_messages is outstanding
    processing,   \* <<the answer that process_message_ is at, its handle>>, or <<>>
    outcome,      \* what a request's continuation was called with
    description,  \* the agents that have a description_
    link,         \* the connection to the OEF Search
    atSearch,     \* requests the OEF Search has not answered
    answers,      \* answers on their way
    held          \* the agents whose description the OEF Search holds

search == <<link, atSearch, answers, held>>
vars == <<setting, req, writes, ready, handles, receiving, processing, outcome, description, search>>

Agent == Settings[setting].agent
MsgId == Settings[setting].msgId
Hash == Settings[setting].hash
Threads == Settings[setting].threads
Faults == Settings[setting].faults

\* generate_smsg_id_: the hash of the agent and the message id, which is shifted left
\* and loses a bit, combined and cut to a word.  Requests of one agent or of two may
\* share an id.
smsg_id(r) == Xor[Hash[Agent[r]] % Word, (2 * MsgId[r]) % Word]

Agents == {Agent[r] : r \in Requests}
AnswerOf == [of : Requests, success : BOOLEAN, parses : BOOLEAN]

TypeOK ==
    /\ setting \in DOMAIN Settings
    /\ req \in [Requests -> {"none", "writing", "written", "waiting", "returned"}]
    /\ writes \in Seq(Requests)
    /\ ready \in Seq({<<"read">>} \cup ({"written", "failed"} \X Requests))
    /\ handles \in SUBSET Requests
    /\ receiving \in BOOLEAN
    /\ processing \in {<<>>} \cup (AnswerOf \X SUBSET Requests)
    /\ outcome \in [Requests -> Seq(AnswerOf)]
    /\ description \in SUBSET Agents /\ held \in SUBSET Agents
    /\ link \in BOOLEAN /\ atSearch \in Seq(Requests) /\ answers \in Seq(AnswerOf)

Init ==
    /\ setting \in DOMAIN Settings
    /\ req = [r \in Requests |-> "none"]
    /\ writes = <<>>
    /\ ready = <<>>
    /\ handles = {}
    /\ receiving = TRUE
    /\ processing = <<>>
    /\ outcome = [r \in Requests |-> <<>>]
    /\ description = {} /\ held = {}
    /\ link = TRUE /\ atSearch = <<>> /\ answers = <<>>

\* One thread runs process_message_ to its end.
Idle == Threads = 1 => processing = <<>>

\* The threads take the handlers in the order in which they became ready.
Takes(i) == Idle /\ i \in 1 .. Threads /\ i <= Len(ready) /\ ready' = RemoveAt(ready, i)

-----------------------------------------------------------------------------
(* The sessions' operations *)

Request(r) ==
    /\ Idle
    /\ req[r] = "none"
    /\ Op[r] = "unregister" => Agent[r] \in description
    /\ description' = IF Op[r] = "register" THEN description \cup {Agent[r]} ELSE description
    /\ req' = [req EXCEPT ![r] = "writing"]
    /\ writes' = Append(writes, r)
    /\ UNCHANGED <<setting, ready, handles, receiving, processing, outcome, search>>

\* process_unregister_description without a description
ReturnsEarly(r) ==
    /\ Idle
    /\ req[r] = "none"
    /\ Op[r] = "unregister" /\ Agent[r] \notin description
    /\ req' = [req EXCEPT ![r] = "returned"]
    /\ UNCHANGED <<setting, writes, ready, handles, receiving, processing, outcome, description, search>>

\* The continuation: an error, or the answer, is sent to the agent.
Continue(r, what) ==
    /\ outcome' = [outcome EXCEPT ![r] = Append(@, what)]
    /\ description' = IF Op[r] = "unregister" /\ what.success
                      THEN description \ {Agent[r]} ELSE description

-----------------------------------------------------------------------------
(* send_ *)

\* All bytes of the request are written, or the connection is gone.
WriteEnds ==
    /\ writes # <<>>
    /\ LET r == Head(writes) IN
       /\ req' = [req EXCEPT ![r] = "written"]
       /\ ready' = Append(ready, <<IF link THEN "written" ELSE "failed", r>>)
       /\ atSearch' = IF link THEN Append(atSearch, r) ELSE atSearch
    /\ writes' = Tail(writes)
    /\ UNCHANGED <<setting, handles, receiving, processing, outcome, description, link, answers, held>>

\* A second handle for an id is refused: "is already registered. abort".
msg_handle_save(r) ==
    handles' = IF \E q \in handles : smsg_id(q) = smsg_id(r) THEN handles ELSE handles \cup {r}

Written(i) ==
    /\ Takes(i)
    /\ ready[i][1] = "written"
    /\ LET r == ready[i][2] IN
       /\ msg_handle_save(r)
       /\ req' = [req EXCEPT ![r] = "waiting"]
    /\ UNCHANGED <<setting, writes, receiving, processing, outcome, description, search>>

WriteFailed(i) ==
    /\ Takes(i)
    /\ ready[i][1] = "failed"
    /\ LET r == ready[i][2] IN
       /\ Continue(r, [of |-> r, success |-> FALSE, parses |-> TRUE])
       /\ req' = [req EXCEPT ![r] = "waiting"]
    /\ UNCHANGED <<setting, writes, handles, receiving, processing, search>>

-----------------------------------------------------------------------------
(* handle_messages, receive_ and process_message_ *)

SizesArrive ==
    /\ receiving
    /\ answers # <<>> \/ ~link
    /\ receiving' = FALSE
    /\ ready' = Append(ready, <<"read">>)
    /\ UNCHANGED <<setting, req, writes, handles, processing, outcome, description, search>>

\* The two errors of the connection and a header that cannot be parsed end the loop.
ReceiveFails(i) ==
    /\ Takes(i)
    /\ ready[i] = <<"read">>
    /\ answers # <<>> => ~Head(answers).parses
    /\ answers' = IF answers = <<>> THEN answers ELSE Tail(answers)
    /\ UNCHANGED <<setting, req, writes, handles, receiving, processing, outcome, description, link,
                   atSearch, held>>

\* msg_handle_get; no handle stands for the default one, which calls nobody.
GetHandle(i) ==
    /\ Takes(i)
    /\ ready[i] = <<"read">>
    /\ answers # <<>> /\ Head(answers).parses
    /\ LET a == Head(answers) IN
       processing' = <<a, {r \in handles : smsg_id(r) = smsg_id(a.of)}>>
    /\ answers' = Tail(answers)
    /\ UNCHANGED <<setting, req, writes, handles, receiving, outcome, description, link,
                   atSearch, held>>

\* Variant: the handle is kept.
msg_handle_erase_Not(id) == UNCHANGED handles

msg_handle_erase(id) == handles' = {r \in handles : smsg_id(r) # id}

\* Variant: handle_messages only goes on after a success.
handle_messages_Success == receiving' = processing[1].success

handle_messages == receiving' = TRUE

\* The handle is erased and its continuation called; then the next read.
ProcessAnswer ==
    /\ processing # <<>>
    /\ LET a == processing[1] IN
       /\ msg_handle_erase(smsg_id(a.of))
       /\ \/ processing[2] = {} /\ UNCHANGED <<outcome, description>>
          \/ \E r \in processing[2] : Continue(r, a)
    /\ processing' = <<>>
    /\ handle_messages
    /\ UNCHANGED <<setting, req, writes, ready, search>>

-----------------------------------------------------------------------------
(* The OEF Search and the connection to it: external *)

Serve ==
    /\ link
    /\ atSearch # <<>>
    /\ LET r == Head(atSearch) IN
       \E success \in BOOLEAN, parses \in IF "header" \in Faults THEN BOOLEAN ELSE {TRUE} :
           /\ answers' = Append(answers, [of |-> r, success |-> success, parses |-> parses])
           /\ held' = CASE success /\ Op[r] = "register" -> held \cup {Agent[r]}
                        [] success /\ Op[r] = "unregister" -> held \ {Agent[r]}
                        [] OTHER -> held
    /\ atSearch' = Tail(atSearch)
    /\ UNCHANGED <<setting, req, writes, ready, handles, receiving, processing, outcome, description, link>>

LinkFails ==
    /\ "link" \in Faults
    /\ link
    /\ link' = FALSE
    /\ answers' \in {<<>>, answers}
    /\ UNCHANGED <<setting, req, writes, ready, handles, receiving, processing, outcome, description,
                   atSearch, held>>

-----------------------------------------------------------------------------
Handlers ==
    \/ \E i \in 1 .. Threads : Written(i) \/ WriteFailed(i) \/ ReceiveFails(i) \/ GetHandle(i)
    \/ ProcessAnswer

System ==
    \/ WriteEnds
    \/ SizesArrive
    \/ Handlers

Next == (\E r \in Requests : Request(r) \/ ReturnsEarly(r)) \/ System \/ Serve \/ LinkFails

Spec == Init /\ [][Next]_vars

\* The io_context runs what is ready, writes end, and the OEF Search answers.
FairSpec == Spec /\ WF_vars(System) /\ WF_vars(Serve)

-----------------------------------------------------------------------------
(* Properties *)

\* However requests share ids, writes fail and answers overtake the handlers of
\* their writes, the agent is answered once at most for each of its requests.
AnsweredOnce == \A r \in Requests : Len(outcome[r]) <= 1

\* An answer goes to a request with the id of the request it answers, also when it
\* overtakes the handler of its write: a request gets no answer of another request,
\* except of one that shares its id.
OwnAnswer ==
    \A r \in Requests : \A k \in DOMAIN outcome[r] : smsg_id(outcome[r][k].of) = smsg_id(r)

\* No two requests share an id.
IdsDiffer == \A q, r \in Requests : smsg_id(q) = smsg_id(r) => q = r

\* A session is responsible for "answering its requests": under one thread, with
\* ids that differ and without faults, every request it has passed on comes back to
\* its continuation.
AllAnswered ==
    \A r \in Requests :
        IdsDiffer /\ Threads = 1 /\ Faults = {} /\ req[r] = "writing" ~> outcome[r] # <<>>

\* Types, one answer for a request, and none of another id.
ClientInv == TypeOK /\ AnsweredOnce /\ OwnAnswer

-----------------------------------------------------------------------------
(* What one would expect from the code's own words, and what it does not do *)
(* (the README, Known deviations).                                          *)

\* A header that cannot be parsed means "message discarded", not the end of reading.
KeepsReceiving == link => receiving \/ processing # <<>> \/ <<"read">> \in Range(ready)

\* A request is answered with its own answer, as a hash is to tell requests apart
\* ("what is the best way (less collision)").
NoForeignAnswer ==
    \A r \in Requests : \A k \in DOMAIN outcome[r] : outcome[r][k].of = r

Quiet ==
    /\ \A r \in Requests : req[r] \in {"none", "waiting", "returned"}
    /\ atSearch = <<>> /\ answers = <<>> /\ processing = <<>> /\ ready = <<>>

\* A session that says its agent "hasn't registered description" is right: with
\* nothing under way, the OEF Search holds no description of such an agent.
HeldIsKnown == Quiet => held \subseteq description
=============================================================================
