------------------------------ MODULE UmSession ------------------------------
(***************************************************************************)
(* One HTTP session with the guest of an instance (InvocationSession.cc):  *)
(* the handlers that EbbRT's TCP stack calls, the events they spawn, the   *)
(* promises those events resolve, and what a client's continuations do     *)
(* (warm_hot_test.cc).  The connection and the guest's server are not      *)
(* under src/src: a reliable stream that either side may close and that    *)
(* may be reset at any time.                                               *)
(*                                                                         *)
(* Handlers and events run one at a time, to completion; `tasks` are the   *)
(* events spawned and not yet run.                                         *)
(***************************************************************************)
EXTENDS Integers, Sequences, FiniteSets, SequencesExt

CONSTANTS
    Clients,    \* clients considered: of "cold", "warm", "init"
    Results,    \* what a request may be answered with, see Reply
    Fifo        \* TRUE: events run in the order spawned; FALSE: in any order

Hook == {"connected", "initialized", "finished", "aborted", "closed"}
Request == {"init", "run"}

\* A reply by what Receive tells apart: the status line, and the text from the
\* first "{" on: {"OK":true}, anything else, or nothing at all.
Reply == [http: {"200 OK", "error"}, body: {"ok", "other", "none"}]

ASSUME SessionAssumption ==
    /\ Clients \subseteq {"cold", "warm", "init"}
    /\ Results \in [Request -> SUBSET Reply]
    /\ Fifo \in BOOLEAN

VARIABLES
    client,            \* the client this session belongs to
    \* InvocationSession
    is_connected_,
    is_initialized_,
    exec,              \* istats_.exec: status and which times are recorded
    fired,             \* number of times each promise was resolved
    \* the connection, as the session sees it
    pcb,
    \* events spawned and not yet run
    tasks,
    \* the guest: requests not answered, segments on their way to the session,
    \* whether it may still send, the requests answered with the replies
    requests,
    wire,
    open,
    answered,
    \* Halt calls of the client, and what the code may die of
    halts,
    fault

session == <<is_connected_, is_initialized_, exec, fired>>
guest == <<requests, wire, open, answered>>
vars == <<client, session, pcb, tasks, guest, halts, fault>>

Fin == [http |-> "fin", body |-> "none"]
Pcb == {"new", "syn", "open", "fin", "closed", "reset"}
Event == {"connect", "connected", "initialized", "closed", "aborted", "halt"}

TypeOK ==
    /\ client \in Clients
    /\ is_connected_ \in BOOLEAN
    /\ is_initialized_ \in BOOLEAN
    /\ exec \in [status: {0, 1}, init_time: BOOLEAN, run_time: BOOLEAN]
    /\ fired \in [Hook -> Nat]
    /\ pcb \in Pcb
    /\ tasks \in Seq(Event)
    /\ requests \in Seq(Request)
    /\ wire \in Seq(Reply \cup {Fin})
    /\ open \in BOOLEAN
    /\ answered \in Seq([req: Request, reply: Reply])
    /\ halts \in Nat
    /\ fault \in {"none", "out_of_range"}

\* create_session and regConnect: the statistics are zeroed, a connect is spawned.
Init ==
    /\ client \in Clients
    /\ is_connected_ = FALSE
    /\ is_initialized_ = FALSE
    /\ exec = [status |-> 0, init_time |-> FALSE, run_time |-> FALSE]
    /\ fired = [h \in Hook |-> 0]
    /\ pcb = "new"
    /\ tasks = <<"connect">>
    /\ requests = <<>>
    /\ wire = <<>>
    /\ open = FALSE
    /\ answered = <<>>
    /\ halts = 0
    /\ fault = "none"

Connection == pcb \in {"open", "fin"}     \* data may still arrive
Resolve(h) == [fired EXCEPT ![h] = fired[h] + 1]

-----------------------------------------------------------------------------
(* Handlers called by the TCP stack                                         *)

Connected ==
    /\ pcb = "syn"
    /\ pcb' = "open"
    /\ open' = TRUE
    /\ is_connected_' = TRUE
    /\ tasks' = Append(tasks, "connected")
    /\ UNCHANGED <<client, is_initialized_, exec, fired, requests, wire, answered,
                   halts, fault>>

\* The peer's FIN.  After a Disconnect of its own the session may or may not be
\* told: that is the stack's business.
Close ==
    /\ Connection
    /\ wire # <<>>
    /\ Head(wire) = Fin
    /\ wire' = Tail(wire)
    /\ pcb' = "closed"
    /\ \/ /\ is_connected_' = FALSE
          /\ tasks' = Append(tasks, "closed")
       \/ /\ pcb = "fin"
          /\ UNCHANGED <<is_connected_, tasks>>
    /\ UNCHANGED <<client, is_initialized_, exec, fired, requests, open, answered,
                   halts, fault>>

\* A reset, or nobody answers: what was on its way is lost.
Abort ==
    /\ pcb \in {"syn", "open", "fin"}
    /\ pcb' = "reset"
    /\ is_connected_' = FALSE
    /\ tasks' = Append(tasks, "aborted")
    /\ wire' = <<>>
    /\ requests' = <<>>
    /\ open' = FALSE
    /\ UNCHANGED <<client, is_initialized_, exec, fired, answered, halts, fault>>

\* Faulty variants of CompletesInit: the flag is not asked; the reply is not.
OkCompletesInit(r) == r.body = "ok"
FirstCompletesInit(r) == ~is_initialized_

CompletesInit(r) == r.body = "ok" /\ ~is_initialized_

\* Faulty variant of AfterReply: a failed reply resolves nothing.
AfterReplyOnlySuccess(r) ==
    IF CompletesInit(r) \/ r.http # "200 OK" THEN fired ELSE Resolve("finished")

\* The promises resolved while a reply is handled: a failure resolves aborted, and
\* does not end there.
AfterReply(r) ==
    [h \in Hook |->
        fired[h] + (IF \/ h = "aborted" /\ r.http # "200 OK"
                       \/ h = "finished" /\ ~CompletesInit(r)
                    THEN 1 ELSE 0)]

\* substr(npos) throws if the reply has no "{".
Receive ==
    LET r == Head(wire) IN
    /\ Connection
    /\ wire # <<>>
    /\ r # Fin
    /\ wire' = Tail(wire)
    /\ IF r.body = "none"
       THEN /\ fault' = "out_of_range"
            /\ UNCHANGED <<session, pcb, tasks>>
       ELSE /\ fired' = AfterReply(r)
            /\ pcb' = IF r.http # "200 OK" THEN "fin" ELSE pcb
            /\ IF CompletesInit(r)
               THEN /\ exec' = [exec EXCEPT
                                  !.status = IF r.http # "200 OK" THEN 1 ELSE exec.status,
                                  !.init_time = TRUE]
                    /\ tasks' = Append(tasks, "initialized")
               ELSE /\ exec' = [exec EXCEPT !.status = 0, !.run_time = TRUE]
                    /\ UNCHANGED tasks
            /\ UNCHANGED <<is_connected_, is_initialized_, fault>>
    /\ UNCHANGED <<client, requests, open, answered, halts>>

-----------------------------------------------------------------------------
(* Events, with the clients' continuations                                  *)

\* Faulty variant of Send: the connection is not asked either.
SendAlways(req) == requests' = Append(requests, req)

\* SendHttpRequest does not ask is_connected_: on a connection that is gone the
\* request is lost.
Send(req) ==
    requests' = IF pcb = "open" /\ open THEN Append(requests, req) ELSE requests

RunConnect ==
    /\ pcb' = "syn"
    /\ UNCHANGED requests
    /\ UNCHANGED <<is_initialized_, fired, halts>>

\* regSendInitOnConnect, regSendRunOnConnect
RunConnected ==
    /\ fired' = Resolve("connected")
    /\ Send(IF client = "warm" THEN "run" ELSE "init")
    /\ UNCHANGED <<pcb, is_initialized_, halts>>

\* regSendRunOnInit
RunInitialized ==
    /\ is_initialized_' = TRUE
    /\ fired' = Resolve("initialized")
    /\ IF client = "cold" THEN Send("run") ELSE UNCHANGED requests
    /\ UNCHANGED <<pcb, halts>>

RunAborted ==
    /\ fired' = Resolve("aborted")
    /\ UNCHANGED requests
    /\ UNCHANGED <<pcb, is_initialized_, halts>>

RunClosed ==
    /\ fired' = Resolve("closed")
    /\ UNCHANGED requests
    /\ UNCHANGED <<pcb, is_initialized_, halts>>

\* regHaltOnClose: Halt is called in an event of its own.
RunHalt ==
    /\ halts' = halts + 1
    /\ UNCHANGED requests
    /\ UNCHANGED <<pcb, is_initialized_, fired>>

Runnable == IF Fifo THEN {i \in DOMAIN tasks : i = 1} ELSE DOMAIN tasks

\* Faulty variant of Spawned: the client does not listen for the close.
SpawnedNever(t) == <<>>

\* What the continuations of event t spawn: regHaltOnClose.
Spawned(t) == IF t = "closed" THEN <<"halt">> ELSE <<>>

RunEvent ==
    /\ \E i \in Runnable :
          /\ tasks' = RemoveAt(tasks, i) \o Spawned(tasks[i])
          /\ \/ tasks[i] = "connect" /\ RunConnect
             \/ tasks[i] = "connected" /\ RunConnected
             \/ tasks[i] = "initialized" /\ RunInitialized
             \/ tasks[i] = "aborted" /\ RunAborted
             \/ tasks[i] = "closed" /\ RunClosed
             \/ tasks[i] = "halt" /\ RunHalt
    /\ UNCHANGED <<client, is_connected_, exec, wire, open, answered, fault>>

-----------------------------------------------------------------------------
(* The guest's server                                                       *)

\* It answers in order.  The init requests ask to keep the connection; after any
\* other reply an HTTP/1.0 server closes it.
Answer ==
    /\ open
    /\ requests # <<>>
    /\ \E r \in Results[Head(requests)] :
          /\ answered' = Append(answered, [req |-> Head(requests), reply |-> r])
          /\ wire' = wire \o (IF Head(requests) = "init" THEN <<r>> ELSE <<r, Fin>>)
          /\ open' = (Head(requests) = "init")
    /\ requests' = Tail(requests)
    /\ UNCHANGED <<client, session, pcb, tasks, halts, fault>>

\* It sees the session's FIN, gives up, or its idle time is over.
Shut ==
    /\ open
    /\ wire' = Append(wire, Fin)
    /\ open' = FALSE
    /\ requests' = <<>>
    /\ UNCHANGED <<client, session, pcb, tasks, answered, halts, fault>>

-----------------------------------------------------------------------------
Handler == Connected \/ Close \/ Receive
Server == Answer \/ (pcb = "fin" /\ Shut)

Next == fault = "none" /\ (Handler \/ Abort \/ RunEvent \/ Server \/ Shut)

Spec == Init /\ [][Next]_vars

\* The event loop runs its events, the stack delivers what has arrived (or resets),
\* the guest answers.  Nothing makes a reset or an early close happen.
FairSpec ==
    /\ Spec
    /\ WF_vars(fault = "none" /\ RunEvent)
    /\ WF_vars(fault = "none" /\ Handler)
    /\ WF_vars(fault = "none" /\ Server)

-----------------------------------------------------------------------------
(* Properties *)

FailedReplies == {k \in DOMAIN answered : answered[k].reply.http = "error"}

\* However replies and the end of the connection fall together, every reply that was
\* received completes an init or a run, never both nor neither, unless Receive threw.
\* (Receive)
RepliesAccounted ==
    /\ TypeOK
    /\ pcb # "reset" /\ fault = "none" =>
          fired["finished"] + fired["initialized"]
              + Cardinality({i \in DOMAIN tasks : tasks[i] = "initialized"})
              + Cardinality({k \in DOMAIN wire : wire[k] # Fin})
            = Len(answered)

\* A promise can be resolved once.  Two replies, the spawned events and a reset
\* after a failure may all resolve one: only aborted can be resolved twice, and
\* only after a failed reply.  (when_*_.SetValue in InvocationSession.cc)
HooksOnce ==
    \A h \in Hook :
        fired[h] <= IF h = "aborted" /\ FailedReplies # {} THEN 2 ELSE 1

\* The promise initialized is resolved, and a function run, only after the guest accepted
\* the code, however replies, spawned events and the end of the connection fall
\* together; and a function is never run twice.  (A warm client sends no code: there a
\* result {"OK":true} resolves initialized.)
RunsOnceAfterInit ==
    LET Sent == {k \in DOMAIN requests : requests[k] = "run"}
        Ran == {k \in DOMAIN answered : answered[k].req = "run"}
        Accepted == [req |-> "init", reply |-> [http |-> "200 OK", body |-> "ok"]]
    IN
    /\ Cardinality(Sent) + Cardinality(Ran) <= 1
    /\ client # "warm" /\ (Sent # {} \/ Ran # {} \/ fired["initialized"] > 0) =>
          \E k \in DOMAIN answered : answered[k] = Accepted

\* However the guest behaves, a session comes to an end its client can see: the
\* instance is halted, the session aborted, or an init accepted where no run is to
\* follow; unless Receive threw.
EverySessionEnds ==
    (pcb = "syn") ~> \/ halts > 0
                     \/ fired["aborted"] > 0
                     \/ client = "init" /\ fired["initialized"] > 0
                     \/ fault # "none"

-----------------------------------------------------------------------------
(* What a comment says and the code does not do *)

\* "INVOCATION FAILED" (Receive), "success=0 failed=1" (Seuss.h): once a session has
\* disconnected because its request failed, the statistics say so.
FailureRecorded == pcb = "fin" => exec.status = 1

=============================================================================
