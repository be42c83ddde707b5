---------------------------- MODULE UmSessionInv ----------------------------
(***************************************************************************)
(* The inductive invariant of UmSession: a session has one exchange under  *)
(* way at a time, and each of its events is spawned once.                  *)
(***************************************************************************)
EXTENDS UmSession, EventQueue

\* The guest never reports that it failed and accepted the code in one reply.
Consistent == [http |-> "error", body |-> "ok"] \notin Results["init"]

Pending(t) == Has(tasks, t)

\* Before the connection stands, nothing has happened but that it was asked for.
EarlyInv ==
    /\ Pending("connect") <=> pcb = "new"
    /\ pcb = "new" => tasks = <<"connect">>
    /\ pcb = "syn" => tasks = <<>>
    /\ pcb \in {"new", "syn"} => /\ \A h \in Hook : fired[h] = 0
                                 /\ ~is_initialized_
                                 /\ answered = <<>>
                                 /\ wire = <<>>
                                 /\ ~open

\* The guest's stream ends with its FIN, and nothing is left of a closed connection.
StreamInv ==
    /\ \/ wire \in {<<>>, <<Fin>>}
       \/ \E r \in Reply : wire \in {<<r>>, <<r, Fin>>}
    /\ Len(wire) > 0 /\ wire[Len(wire)] = Fin => ~open
    /\ wire # <<>> => Connection
    /\ ~open => requests = <<>>
    /\ open => Connection
    /\ pcb = "fin" => wire \in {<<>>, <<Fin>>}

\* A reply is on its way to the session.
Replying == wire # <<>> /\ Head(wire) # Fin

\* The exchange under way: the connection is to be reported, a request is with the guest,
\* a reply is on its way, or an init is to be reported.
ExchangeInv ==
    /\ Pending("connected") =>
          /\ requests = <<>> /\ answered = <<>> /\ wire \in {<<>>, <<Fin>>}
          /\ ~Pending("initialized") /\ ~is_initialized_
          /\ \A h \in {"connected", "initialized", "finished"} : fired[h] = 0
          /\ pcb # "fin"
    /\ requests \in {<<>>, <<"init">>, <<"run">>}
    /\ requests # <<>> =>
          /\ wire = <<>> /\ pcb = "open"
          /\ ~Pending("initialized") /\ fired["finished"] = 0
          /\ is_initialized_ <=> answered # <<>>
          /\ answered # <<>> => client = "cold" /\ Len(answered) = 1
          /\ Head(requests) = "init" <=> client # "warm" /\ answered = <<>>
    /\ Replying =>
          /\ ~Pending("initialized") /\ fired["finished"] = 0
          /\ answered # <<>> /\ answered[Len(answered)].reply = Head(wire)
          /\ is_initialized_ <=> Len(answered) = 2
    /\ Pending("initialized") =>
          Len(answered) = 1 /\ ~is_initialized_ /\ fired["finished"] = 0

\* What was asked, and what the session made of the answers.
AnswersInv ==
    /\ Len(answered) <= 2
    /\ answered # <<>> => answered[1].req = (IF client = "warm" THEN "run" ELSE "init")
    /\ Len(answered) = 2 => client = "cold" /\ answered[2].req = "run" /\ is_initialized_
    /\ \A k \in DOMAIN answered : answered[k].reply \in Results[answered[k].req]
    /\ is_initialized_ \/ Pending("initialized") =>
          answered # <<>> /\ answered[1].reply.body = "ok"
    /\ fired["initialized"] = IF is_initialized_ THEN 1 ELSE 0

\* Every reply is on its way or was accounted for, unless a reset lost it or Receive
\* threw.
CountInv ==
    pcb # "reset" /\ fault = "none" =>
        fired["finished"] + fired["initialized"]
            + (IF Pending("initialized") THEN 1 ELSE 0)
            + (IF Replying THEN 1 ELSE 0)
          = Len(answered)

\* Each event is spawned once, for a promise not resolved yet; only a failed reply
\* resolves aborted before the event does.
HookInv ==
    /\ \A t \in Event \ {"halt"} : AtMostOnce(tasks, t)
    /\ \A h \in {"connected", "initialized", "closed"} :
          fired[h] <= 1 /\ (Pending(h) => fired[h] = 0)
    /\ fired["finished"] <= 1
    /\ fired["closed"] > 0 \/ Pending("closed") => pcb = "closed"
    /\ Pending("aborted") => pcb = "reset"
    /\ pcb \in {"new", "syn", "open"} => fired["aborted"] = 0
    /\ fired["aborted"] > 0 /\ (pcb # "reset" \/ Pending("aborted")) =>
          fired["aborted"] = 1 /\ FailedReplies # {}
    /\ fired["aborted"] <= IF FailedReplies # {} THEN 2 ELSE 1

SessionInv ==
    /\ TypeOK
    /\ EarlyInv
    /\ StreamInv
    /\ ExchangeInv
    /\ AnswersInv
    /\ CountInv
    /\ HookInv

=============================================================================
