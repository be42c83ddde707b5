--------------------------- MODULE UmSessionProofs ---------------------------
(***************************************************************************)
(* SessionInv is an invariant of UmSession, and with it the safety         *)
(* properties of a session, for every client, every set of replies and     *)
(* every order of events.                                                  *)
(***************************************************************************)
EXTENDS UmSessionInv, EventQueueProofs, FiniteSetTheorems

-----------------------------------------------------------------------------
(* The guest's stream *)

LEMMA FinIsNoReply == \A r \in Reply : r # Fin
<1>1. Fin.http = "fin"
  BY DEF Fin
<1>2. \A r \in Reply : r.http # "fin"
  BY DEF Reply
<1>. QED
  BY <1>1, <1>2

\* The shapes that StreamInv allows, taken apart.
LEMMA Stream ==
    ASSUME StreamInv
    PROVE  /\ Replying => Head(wire) \in Reply /\ Tail(wire) \in {<<>>, <<Fin>>}
           /\ wire # <<>> /\ ~Replying => wire = <<Fin>> /\ Tail(wire) = <<>>
           /\ ~Replying <=> wire \in {<<>>, <<Fin>>}
           /\ open => wire = <<>> \/ \E r \in Reply : wire = <<r>>
           /\ open /\ Replying => Tail(wire) = <<>>
           /\ open /\ ~Replying => wire = <<>>
<1>1. ASSUME NEW r \in Reply
      PROVE  /\ Head(<<r>>) = r /\ Tail(<<r>>) = <<>>
             /\ Head(<<r, Fin>>) = r /\ Tail(<<r, Fin>>) = <<Fin>>
             /\ <<r, Fin>>[Len(<<r, Fin>>)] = Fin /\ Len(<<r, Fin>>) > 0
             /\ <<r>> \notin {<<>>, <<Fin>>} /\ <<r, Fin>> \notin {<<>>, <<Fin>>}
  BY FinIsNoReply
<1>2. /\ Head(<<Fin>>) = Fin /\ Tail(<<Fin>>) = <<>>
      /\ <<Fin>>[Len(<<Fin>>)] = Fin /\ Len(<<Fin>>) > 0 /\ <<Fin>> # <<>>
  OBVIOUS
<1>. QED
  BY <1>1, <1>2, FinIsNoReply DEF StreamInv, Replying

LEMMA AppendTwo ==
    ASSUME NEW x, NEW y
    PROVE  Append(<<x>>, y) = <<x, y>>
<1>. DEFINE a == <<x>>
<1>1. a \in Seq({x, y}) /\ Len(a) = 1 /\ a[1] = x
  OBVIOUS
<1>. HIDE DEF a
<1>2. /\ Append(a, y) \in Seq({x, y}) /\ Len(Append(a, y)) = 2
      /\ Append(a, y)[1] = x /\ Append(a, y)[2] = y
  <2>1. y \in {x, y}
    OBVIOUS
  <2>2. /\ Append(a, y) \in Seq({x, y})
        /\ Len(Append(a, y)) = Len(a) + 1
        /\ \A i \in 1 .. Len(a) : Append(a, y)[i] = a[i]
        /\ Append(a, y)[Len(a) + 1] = y
    <3>1. a \in Seq({x, y})
      BY ONLY <1>1
    <3>. QED
      BY ONLY <2>1, <3>1, AppendProperties
  <2>3. 1 \in 1 .. Len(a) /\ Len(a) + 1 = 2
    BY <1>1
  <2>4. Append(a, y)[1] = x
    BY ONLY <1>1, <2>2, <2>3
  <2>5. Append(a, y)[2] = y /\ Len(Append(a, y)) = 2
    BY ONLY <2>2, <2>3
  <2>. QED
    BY ONLY <2>2, <2>4, <2>5
<1>3. <<x, y>> \in Seq({x, y}) /\ Len(<<x, y>>) = 2 /\ <<x, y>>[1] = x /\ <<x, y>>[2] = y
  OBVIOUS
<1>. DEFINE c == Append(a, y)
            d == <<x, y>>
<1>. HIDE DEF c, d
<1>4. /\ c \in Seq({x, y}) /\ d \in Seq({x, y})
      /\ Len(c) = 2 /\ Len(d) = 2 /\ c[1] = d[1] /\ c[2] = d[2]
  BY <1>2, <1>3 DEF c, d
<1>5. c = d
  <2>1. Len(c) = Len(d) /\ \A i \in 1 .. Len(c) : c[i] = d[i]
    BY <1>4
  <2>. QED
    BY <1>4, <2>1, SeqEqual
<1>. QED
  BY <1>5 DEF a, c, d

LEMMA StreamTypes ==
    /\ <<>> \in Seq(Reply \cup {Fin}) /\ <<Fin>> \in Seq(Reply \cup {Fin})
    /\ \A r \in Reply : <<r>> \in Seq(Reply \cup {Fin}) /\ <<r, Fin>> \in Seq(Reply \cup {Fin})
    /\ <<>> \in Seq(Request) /\ \A q \in Request : <<q>> \in Seq(Request)
<1>. DEFINE S == Reply \cup {Fin}
<1>1. Fin \in S /\ \A r \in Reply : r \in S
  OBVIOUS
<1>. HIDE DEF S
<1>2. <<>> \in Seq(S) /\ \A x \in S : <<x>> \in Seq(S) /\ \A y \in S : <<x, y>> \in Seq(S)
  OBVIOUS
<1>3. <<>> \in Seq(Request) /\ \A q \in Request : <<q>> \in Seq(Request)
  OBVIOUS
<1>. QED
  BY <1>1, <1>2, <1>3 DEF S

-----------------------------------------------------------------------------
(* The events *)

\* Spawning event t.
LEMMA Spawn ==
    ASSUME TypeOK, NEW t \in Event, tasks' = Append(tasks, t)
    PROVE  /\ tasks' \in Seq(Event)
           /\ tasks' # <<>>
           /\ \A e : Pending(e)' <=> Pending(e) \/ e = t
           /\ \A e : AtMostOnce(tasks, e) /\ (e # t \/ ~Pending(e)) => AtMostOnce(tasks', e)
<1>1. tasks \in Seq(Event)
  BY DEF TypeOK
<1>2. \A e : Has(Append(tasks, t), e) <=> Has(tasks, e) \/ t = e
  BY <1>1, AppendHas
<1>3. \A e : AtMostOnce(tasks, e) /\ (t # e \/ ~Has(tasks, e)) => AtMostOnce(Append(tasks, t), e)
  BY <1>1, AppendHas
<1>. QED
  BY <1>1, <1>2, <1>3 DEF Pending

\* Running the i-th event, which may be followed by a halt.
LEMMA Take ==
    ASSUME TypeOK, NEW i \in DOMAIN tasks, AtMostOnce(tasks, tasks[i]) \/ tasks[i] = "halt",
           tasks' = RemoveAt(tasks, i) \o Spawned(tasks[i])
    PROVE  /\ tasks' \in Seq(Event)
           /\ tasks[i] \in Event
           /\ Pending(tasks[i])
           /\ \A e \in Event \ {"halt"} :
                 /\ Pending(e)' <=> Pending(e) /\ e # tasks[i]
                 /\ AtMostOnce(tasks, e) => AtMostOnce(tasks', e)
<1>. DEFINE r == RemoveAt(tasks, i)
<1>1. tasks \in Seq(Event)
  BY DEF TypeOK
<1>2. r \in Seq(Event)
  BY <1>1, RemoveAtProperties
<1>3. ASSUME NEW e
      PROVE  /\ Has(r, e) => Has(tasks, e)
             /\ tasks[i] # e => (Has(r, e) <=> Has(tasks, e))
             /\ AtMostOnce(tasks, e) => AtMostOnce(r, e)
             /\ AtMostOnce(tasks, e) /\ tasks[i] = e => ~Has(r, e)
  BY <1>1, RemoveHas
<1>4. tasks[i] \in Event /\ Pending(tasks[i])
  BY <1>1 DEF Pending, Has
<1>. HIDE DEF r
<1>5. tasks' = r \/ tasks' = Append(r, "halt")
  BY <1>2 DEF Spawned, r
<1>6. ASSUME NEW e
      PROVE  /\ Has(Append(r, "halt"), e) <=> Has(r, e) \/ "halt" = e
             /\ AtMostOnce(r, e) /\ "halt" # e => AtMostOnce(Append(r, "halt"), e)
  BY <1>2, AppendHas
<1>7. tasks' \in Seq(Event)
  <2>1. Append(r, "halt") \in Seq(Event)
    BY <1>2 DEF Event
  <2>. QED
    BY <1>2, <1>5, <2>1
<1>8. ASSUME NEW e \in Event \ {"halt"}
      PROVE  /\ Pending(e)' <=> Pending(e) /\ e # tasks[i]
             /\ AtMostOnce(tasks, e) => AtMostOnce(tasks', e)
  BY <1>3, <1>5, <1>6 DEF Pending
<1>. QED
  BY <1>4, <1>7, <1>8

-----------------------------------------------------------------------------
(* Handlers *)

LEMMA ConnectedKeeps ==
    ASSUME SessionInv, Connected
    PROVE  SessionInv'
<1>. USE DEF SessionInv
<1>1. /\ tasks' \in Seq(Event)
      /\ tasks' # <<>>
      /\ \A e : Pending(e)' <=> Pending(e) \/ e = "connected"
      /\ \A e : AtMostOnce(tasks, e) /\ (e # "connected" \/ ~Pending(e)) => AtMostOnce(tasks', e)
  BY Spawn DEF Connected, Event
<1>2. \A e : ~Pending(e)
  BY DEF Connected, EarlyInv, Pending, Has
<1>3. TypeOK'
  BY <1>1 DEF TypeOK, Connected, Pcb
<1>4. EarlyInv'
  BY <1>1, <1>2 DEF EarlyInv, Connected
<1>5. StreamInv'
  BY DEF StreamInv, EarlyInv, Connected, Connection
<1>6. ExchangeInv'
  BY <1>1, <1>2 DEF ExchangeInv, EarlyInv, StreamInv, Connected, Hook, Replying
<1>7. AnswersInv'
  BY <1>1, <1>2 DEF AnswersInv, EarlyInv, Connected, Hook
<1>8. CountInv'
  BY <1>1, <1>2 DEF CountInv, EarlyInv, Connected, Hook, Replying
<1>9. HookInv'
  BY <1>1, <1>2 DEF HookInv, EarlyInv, Connected, Hook, FailedReplies
<1>. QED
  BY <1>3, <1>4, <1>5, <1>6, <1>7, <1>8, <1>9

LEMMA CloseKeeps ==
    ASSUME SessionInv, Close
    PROVE  SessionInv'
<1>. USE DEF SessionInv
<1>1. /\ wire = <<Fin>> /\ wire' = <<>>
      /\ ~open /\ ~open'
      /\ requests = <<>> /\ requests' = <<>>
      /\ pcb' = "closed"
      /\ ~Replying /\ ~Replying'
  BY Stream DEF Close, Replying, StreamInv
<1>2. /\ tasks' \in Seq(Event)
      /\ \A e : Pending(e) => Pending(e)'
      /\ \A e : Pending(e)' => Pending(e) \/ e = "closed"
      /\ \A e : AtMostOnce(tasks, e) => AtMostOnce(tasks', e)
  <2>1. CASE tasks' = Append(tasks, "closed")
    <3>1. ~Pending("closed")
      BY DEF HookInv, Close, Connection
    <3>. QED
      BY <2>1, <3>1, Spawn DEF Event
  <2>2. CASE UNCHANGED tasks
    BY <2>2 DEF Pending, TypeOK
  <2>. QED
    BY <2>1, <2>2 DEF Close
<1>3. TypeOK'
  BY <1>1, <1>2, StreamTypes DEF TypeOK, Close, Pcb
<1>4. EarlyInv'
  BY <1>1, <1>2 DEF EarlyInv, Close, Connection
<1>5. StreamInv'
  BY <1>1 DEF StreamInv
<1>6. ExchangeInv'
  BY <1>1, <1>2 DEF ExchangeInv, Close
<1>7. AnswersInv'
  BY <1>1, <1>2 DEF AnswersInv, Close
<1>8. CountInv'
  BY <1>1, <1>2 DEF CountInv, Close, Connection
<1>9. HookInv'
  <2>1. UNCHANGED <<fired, answered>> /\ pcb \in {"open", "fin"}
    BY DEF Close, Connection
  <2>2. \A t \in Event \ {"halt"} : AtMostOnce(tasks', t)
    BY <1>2 DEF HookInv
  <2>3. FailedReplies' = FailedReplies
    BY <2>1 DEF FailedReplies
  <2>4. \A h \in {"connected", "initialized", "closed"} :
            fired'[h] <= 1 /\ (Pending(h)' => fired'[h] = 0)
    BY <1>2, <2>1 DEF HookInv, TypeOK, Hook
  <2>. QED
    BY <1>1, <1>2, <2>1, <2>2, <2>3, <2>4 DEF HookInv
<1>. QED
  BY <1>3, <1>4, <1>5, <1>6, <1>7, <1>8, <1>9

LEMMA AbortKeeps ==
    ASSUME SessionInv, Abort
    PROVE  SessionInv'
<1>. USE DEF SessionInv
<1>1. /\ tasks' \in Seq(Event)
      /\ \A e : Pending(e)' <=> Pending(e) \/ e = "aborted"
      /\ \A e : AtMostOnce(tasks, e) /\ (e # "aborted" \/ ~Pending(e)) => AtMostOnce(tasks', e)
  BY Spawn DEF Abort, Event
<1>2. ~Pending("aborted")
  BY DEF Abort, HookInv
<1>3. wire' = <<>> /\ ~Replying' /\ requests' = <<>> /\ ~open' /\ pcb' = "reset"
  BY DEF Abort, Replying
<1>4. TypeOK'
  BY <1>1, <1>3, StreamTypes DEF TypeOK, Abort, Pcb
<1>5. EarlyInv'
  BY <1>1, <1>3 DEF EarlyInv, Abort
<1>6. StreamInv'
  BY <1>3 DEF StreamInv
<1>7. ExchangeInv'
  BY <1>1, <1>3 DEF ExchangeInv, Abort
<1>8. AnswersInv'
  BY <1>1 DEF AnswersInv, Abort
<1>9. CountInv'
  BY <1>3 DEF CountInv
<1>10. HookInv'
  BY <1>1, <1>2, <1>3 DEF HookInv, Abort, FailedReplies, TypeOK, Hook
<1>. QED
  BY <1>4, <1>5, <1>6, <1>7, <1>8, <1>9, <1>10

\* The three ways a reply is handled: Receive throws, or it completes an init or a run.
LEMMA ReceiveEffect ==
    ASSUME SessionInv, Receive
    PROVE  /\ Connection /\ Replying
           /\ wire' = Tail(wire)
           /\ UNCHANGED <<client, requests, open, answered, halts, is_connected_, is_initialized_>>
           /\ exec' \in [status: {0, 1}, init_time: BOOLEAN, run_time: BOOLEAN]
           /\ \/ fault' = "out_of_range" /\ UNCHANGED <<fired, pcb, tasks>>
              \/ /\ UNCHANGED fault
                 /\ fired' = AfterReply(Head(wire))
                 /\ pcb' = IF Head(wire).http # "200 OK" THEN "fin" ELSE pcb
                 /\ \/ CompletesInit(Head(wire)) /\ tasks' = Append(tasks, "initialized")
                    \/ ~CompletesInit(Head(wire)) /\ UNCHANGED tasks
<1>. DEFINE failed == Head(wire).http # "200 OK"
<1>1. exec \in [status: {0, 1}, init_time: BOOLEAN, run_time: BOOLEAN]
  BY DEF SessionInv, TypeOK
<1>2. /\ [exec EXCEPT !.status = IF failed THEN 1 ELSE exec.status, !.init_time = TRUE]
            \in [status: {0, 1}, init_time: BOOLEAN, run_time: BOOLEAN]
      /\ [exec EXCEPT !.status = 0, !.run_time = TRUE]
            \in [status: {0, 1}, init_time: BOOLEAN, run_time: BOOLEAN]
  <2>. DEFINE st == IF failed THEN 1 ELSE exec.status
  <2>1. st \in {0, 1}
    BY <1>1
  <2>. HIDE DEF st
  <2>2. /\ [exec EXCEPT !.status = st] \in [status: {0, 1}, init_time: BOOLEAN, run_time: BOOLEAN]
        /\ [exec EXCEPT !.status = 0] \in [status: {0, 1}, init_time: BOOLEAN, run_time: BOOLEAN]
    BY <1>1, <2>1
  <2>3. /\ [exec EXCEPT !.status = st, !.init_time = TRUE]
              \in [status: {0, 1}, init_time: BOOLEAN, run_time: BOOLEAN]
        /\ [exec EXCEPT !.status = 0, !.run_time = TRUE]
              \in [status: {0, 1}, init_time: BOOLEAN, run_time: BOOLEAN]
    BY <2>2
  <2>. QED
    BY <2>3 DEF st
<1>3. CASE Head(wire).body = "none"
  BY <1>1, <1>3 DEF Receive, Replying, session
<1>4. CASE Head(wire).body # "none" /\ CompletesInit(Head(wire))
  BY <1>2, <1>4 DEF Receive, Replying
<1>5. CASE Head(wire).body # "none" /\ ~CompletesInit(Head(wire))
  BY <1>2, <1>5 DEF Receive, Replying
<1>. QED
  BY <1>3, <1>4, <1>5

Failed(r) == r.http # "200 OK"

\* The promises resolved while a reply is handled.
LEMMA AfterReplyEffect ==
    ASSUME TypeOK, NEW r
    PROVE  /\ AfterReply(r) \in [Hook -> Nat]
           /\ \A h \in Hook \ {"finished", "aborted"} : AfterReply(r)[h] = fired[h]
           /\ AfterReply(r)["aborted"] =
                 fired["aborted"] + (IF Failed(r) THEN 1 ELSE 0)
           /\ AfterReply(r)["finished"] =
                 fired["finished"] + (IF CompletesInit(r) THEN 0 ELSE 1)
<1>. DEFINE failed == Failed(r)
            completes == CompletesInit(r)
            after == AfterReply(r)
<1>1. fired \in [Hook -> Nat] /\ "aborted" \in Hook /\ "finished" \in Hook
  BY DEF TypeOK, Hook
<1>2. after = [h \in Hook |->
                 fired[h] + (IF (h = "aborted" /\ failed) \/ (h = "finished" /\ ~completes)
                             THEN 1 ELSE 0)]
  BY DEF AfterReply, Failed
<1>. HIDE DEF failed, completes, after
<1>3. /\ DOMAIN after = Hook
      /\ \A h \in Hook :
            after[h] = fired[h] + (IF (h = "aborted" /\ failed) \/ (h = "finished" /\ ~completes)
                                   THEN 1 ELSE 0)
  BY <1>2
<1>4. after \in [Hook -> Nat]
  BY <1>1, <1>2
<1>5. \A h \in Hook \ {"finished", "aborted"} : after[h] = fired[h]
  BY <1>1, <1>3
<1>6. after["aborted"] = fired["aborted"] + (IF failed THEN 1 ELSE 0)
  BY <1>1, <1>3
<1>7. after["finished"] = fired["finished"] + (IF completes THEN 0 ELSE 1)
  BY <1>1, <1>3
<1>. QED
  BY <1>4, <1>5, <1>6, <1>7 DEF after, failed, completes

LEMMA ReceiveKeeps ==
    ASSUME SessionInv, fault = "none", Receive
    PROVE  SessionInv'
<1>. USE DEF SessionInv
<1>. DEFINE r == Head(wire)
<1>0. /\ wire \in Seq(Reply \cup {Fin})
      /\ answered \in Seq([req: Request, reply: Reply])
  BY DEF TypeOK
<1>1. /\ Replying /\ r \in Reply /\ wire' \in {<<>>, <<Fin>>} /\ ~Replying'
      /\ Connection /\ fault' \in {"none", "out_of_range"}
  <2>1. Head(<<Fin>>) = Fin
    OBVIOUS
  <2>2. /\ Replying /\ wire' = Tail(wire) /\ Connection
        /\ fault' \in {"none", "out_of_range"}
    BY ReceiveEffect DEF TypeOK
  <2>3. r \in Reply /\ Tail(wire) \in {<<>>, <<Fin>>}
    BY <2>2, Stream
  <2>4. wire' \in {<<>>, <<Fin>>}
    BY <2>2, <2>3
  <2>5. ~Replying'
    BY <2>1, <2>4 DEF Replying
  <2>. QED
    BY <2>2, <2>3, <2>4, <2>5
<1>e. /\ UNCHANGED <<client, requests, open, answered, halts, is_connected_, is_initialized_>>
      /\ \/ fault' = "out_of_range" /\ UNCHANGED <<fired, pcb, tasks>>
         \/ /\ fault' = "none"
            /\ fired' = AfterReply(r)
            /\ pcb' = IF Failed(r) THEN "fin" ELSE pcb
            /\ \/ CompletesInit(r) /\ tasks' = Append(tasks, "initialized")
               \/ ~CompletesInit(r) /\ UNCHANGED tasks
  BY ReceiveEffect, Zenon DEF Failed
<1>2. /\ ~Pending("initialized") /\ fired["finished"] = 0
      /\ answered # <<>> /\ answered[Len(answered)].reply = r
      /\ is_initialized_ <=> Len(answered) = 2
  BY <1>1 DEF ExchangeInv
<1>. HIDE DEF r
<1>3. Len(answered) \in {1, 2}
  <2>. DEFINE n == Len(answered)
  <2>1. n \in Nat /\ n # 0 /\ n <= 2
    BY <1>0, <1>2 DEF AnswersInv
  <2>. HIDE DEF n
  <2>2. n \in {1, 2}
    BY <2>1
  <2>. QED
    BY <2>2 DEF n
<1>4. wire \notin {<<>>, <<Fin>>}
  BY <1>1, Stream
<1>5. pcb = "open" /\ fired["aborted"] = 0 /\ ~Pending("aborted") /\ ~Pending("closed")
  BY <1>1, <1>4 DEF StreamInv, HookInv, Connection
<1>6. ~Pending("connected") /\ requests = <<>>
  BY <1>1, <1>2, <1>4 DEF ExchangeInv, Replying
<1>7. /\ UNCHANGED <<client, requests, open, answered, halts, is_connected_, is_initialized_>>
      /\ pcb' \in {"open", "fin"}
      /\ UNCHANGED pcb \/ (pcb' = "fin" /\ Failed(r) /\ fault' = "none")
  <2>1. UNCHANGED <<client, requests, open, answered, halts, is_connected_, is_initialized_>>
    BY <1>e
  <2>2. CASE UNCHANGED pcb
    BY <1>5, <2>1, <2>2
  <2>3. CASE pcb' = (IF Failed(r) THEN "fin" ELSE pcb) /\ fault' = "none"
    BY <1>5, <2>1, <2>3
  <2>. QED
    BY <1>e, <2>2, <2>3
<1>8. /\ fired' \in [Hook -> Nat]
      /\ \A h \in Hook \ {"finished", "aborted"} : fired'[h] = fired[h]
      /\ fired'["aborted"] \in {0, 1}
      /\ fired'["aborted"] = 1 <=> Failed(r) /\ fault' = "none"
      /\ fired'["finished"] \in {0, 1}
      /\ fault' = "none" => fired'["finished"] = IF CompletesInit(r) THEN 0 ELSE 1
  <2>1. fired \in [Hook -> Nat] /\ \A h \in Hook : h = "aborted" \/ h = "finished" => fired[h] = 0
    BY <1>2, <1>5 DEF TypeOK
  <2>2. CASE fault' = "out_of_range" /\ UNCHANGED fired
    BY <2>1, <2>2 DEF Hook
  <2>3. CASE fault' = "none" /\ fired' = AfterReply(r)
    <3>1. /\ AfterReply(r) \in [Hook -> Nat]
          /\ \A h \in Hook \ {"finished", "aborted"} : AfterReply(r)[h] = fired[h]
          /\ AfterReply(r)["aborted"] =
                fired["aborted"] + (IF Failed(r) THEN 1 ELSE 0)
          /\ AfterReply(r)["finished"] =
                fired["finished"] + (IF CompletesInit(r) THEN 0 ELSE 1)
      BY AfterReplyEffect DEF CompletesInit
    <3>2. fired["aborted"] = 0 /\ fired["finished"] = 0
      BY <1>2, <1>5
    <3>3. /\ fired' \in [Hook -> Nat]
          /\ \A h \in Hook \ {"finished", "aborted"} : fired'[h] = fired[h]
          /\ fired'["aborted"] = IF Failed(r) THEN 1 ELSE 0
          /\ fired'["finished"] = IF CompletesInit(r) THEN 0 ELSE 1
      <4>. DEFINE after == AfterReply(r)
      <4>. HIDE DEF after
      <4>1. fired' = after
        BY <2>3 DEF after
      <4>2. /\ after \in [Hook -> Nat]
            /\ \A h \in Hook \ {"finished", "aborted"} : after[h] = fired[h]
            /\ after["aborted"] = 0 + (IF Failed(r) THEN 1 ELSE 0)
            /\ after["finished"] = 0 + (IF CompletesInit(r) THEN 0 ELSE 1)
        BY <3>1, <3>2 DEF after
      <4>. QED
        BY <4>1, <4>2
    <3>. QED
      BY <2>3, <3>3
  <2>. QED
    BY <2>2, <2>3, <1>e
<1>9. /\ tasks' \in Seq(Event)
      /\ \A e \in Event \ {"initialized"} :
            (Pending(e)' <=> Pending(e)) /\ (AtMostOnce(tasks, e) => AtMostOnce(tasks', e))
      /\ AtMostOnce(tasks', "initialized")
      /\ Pending("initialized")' <=> CompletesInit(r) /\ fault' = "none"
      /\ Pending("initialized")' => ~is_initialized_ /\ r.body = "ok"
  <2>1. CASE tasks' = tasks /\ ~(CompletesInit(r) /\ fault' = "none")
    BY <1>2, <2>1 DEF Pending, TypeOK, HookInv, Event
  <2>2. CASE tasks' = Append(tasks, "initialized") /\ CompletesInit(r) /\ fault' = "none"
    <3>1. /\ tasks' \in Seq(Event)
          /\ \A e : Pending(e)' <=> Pending(e) \/ e = "initialized"
          /\ \A e : AtMostOnce(tasks, e) /\ (e # "initialized" \/ ~Pending(e)) => AtMostOnce(tasks', e)
      BY <2>2, Spawn DEF Event
    <3>. QED
      BY <1>2, <2>2, <3>1 DEF HookInv, Event, CompletesInit
  <2>. QED
    BY <2>1, <2>2, <1>e
<1>10. TypeOK'
  BY <1>1, <1>7, <1>8, <1>9, ReceiveEffect, StreamTypes DEF TypeOK, Pcb
<1>11. EarlyInv'
  BY <1>5, <1>7, <1>9 DEF EarlyInv, Event
<1>12. StreamInv'
  <2>1. wire' # <<>> => ~open
    BY <1>1, <1>e, Stream, ReceiveEffect
  <2>. QED
    BY <1>1, <1>5, <1>6, <1>7, <2>1 DEF StreamInv, Connection
<1>13. ExchangeInv'
  <2>1. ~Pending("connected")'
    BY <1>6, <1>9 DEF Event
  <2>2. Pending("initialized")' => Len(answered') = 1 /\ ~is_initialized_' /\ fired'["finished"] = 0
    BY <1>2, <1>3, <1>7, <1>8, <1>9
  <2>3. requests' = <<>>
    BY <1>6, <1>7
  <2>. QED
    BY <1>1, <2>1, <2>2, <2>3 DEF ExchangeInv
<1>14. AnswersInv'
  <2>1. fired'["initialized"] = fired["initialized"]
    BY <1>8 DEF Hook
  <2>2. Pending("initialized")' => answered # <<>> /\ answered[1].reply.body = "ok"
    <3>1. ASSUME Pending("initialized")' PROVE Len(answered) = 1 /\ r.body = "ok"
      BY <1>2, <1>3, <1>9, <3>1
    <3>. QED
      BY <1>2, <3>1
  <2>. QED
    BY <1>7, <2>1, <2>2 DEF AnswersInv
<1>15. CountInv'
  <2>. SUFFICES ASSUME fault' = "none" PROVE CountInv'
    BY DEF CountInv
  <2>1. fired["initialized"] + 1 = Len(answered) /\ fired["initialized"] \in Nat
    BY <1>1, <1>2, <1>5 DEF CountInv, TypeOK, Hook
  <2>2. fired'["initialized"] = fired["initialized"] /\ answered' = answered
    BY <1>7, <1>8 DEF Hook
  <2>3. CASE CompletesInit(r)
    <3>1. Pending("initialized")' /\ fired'["finished"] = 0
      BY <1>8, <1>9, <2>3
    <3>. QED
      BY <1>1, <2>1, <2>2, <3>1 DEF CountInv
  <2>4. CASE ~CompletesInit(r)
    <3>1. ~Pending("initialized")' /\ fired'["finished"] = 1
      BY <1>8, <1>9, <2>4
    <3>. QED
      BY <1>1, <2>1, <2>2, <3>1 DEF CountInv
  <2>. QED
    BY <2>3, <2>4
<1>16. HookInv'
  <2>1. \A t \in Event \ {"halt"} : AtMostOnce(tasks', t)
    BY <1>9 DEF HookInv
  <2>2. \A h \in {"connected", "initialized", "closed"} :
            fired'[h] <= 1 /\ (Pending(h)' => fired'[h] = 0)
    <3>1. ASSUME NEW h \in {"connected", "initialized", "closed"}
          PROVE  fired'[h] = fired[h]
      BY <1>8 DEF Hook
    <3>2. Pending("initialized")' => fired["initialized"] = 0
      BY <1>9 DEF AnswersInv
    <3>. QED
      BY <1>9, <3>1, <3>2 DEF HookInv, Event
  <2>3. fired'["finished"] <= 1
    BY <1>8
  <2>4. fired'["closed"] = 0 /\ ~Pending("closed")' /\ ~Pending("aborted")'
    <3>1. fired["closed"] = 0
      BY <1>5 DEF HookInv, TypeOK, Hook
    <3>. QED
      BY <1>5, <1>8, <1>9, <3>1 DEF Event, Hook
  <2>5. fired'["aborted"] = 1 => pcb' = "fin" /\ FailedReplies' # {}
    <3>1. ASSUME fired'["aborted"] = 1 PROVE Failed(r) /\ fault' = "none"
      BY <1>8, <3>1
    <3>2. Failed(r) => r.http = "error"
      BY <1>1 DEF Reply, Failed
    <3>3. Len(answered) \in DOMAIN answered
      BY <1>0, <1>2
    <3>. QED
      BY <1>2, <1>7, <1>e, <3>1, <3>2, <3>3 DEF FailedReplies
  <2>. QED
    BY <1>7, <1>8, <2>1, <2>2, <2>3, <2>4, <2>5 DEF HookInv
<1>. QED
  BY <1>10, <1>11, <1>12, <1>13, <1>14, <1>15, <1>16

-----------------------------------------------------------------------------
(* Events *)

\* What every event does, and leaves alone.
LEMMA EventEffect ==
    ASSUME SessionInv, RunEvent
    PROVE  \E i \in DOMAIN tasks :
              /\ tasks' = RemoveAt(tasks, i) \o Spawned(tasks[i])
              /\ \/ tasks[i] = "connect" /\ RunConnect
                 \/ tasks[i] = "connected" /\ RunConnected
                 \/ tasks[i] = "initialized" /\ RunInitialized
                 \/ tasks[i] = "aborted" /\ RunAborted
                 \/ tasks[i] = "closed" /\ RunClosed
                 \/ tasks[i] = "halt" /\ RunHalt
              /\ tasks' \in Seq(Event)
              /\ tasks[i] \in Event
              /\ Pending(tasks[i])
              /\ \A t \in Event \ {"halt"} :
                    /\ Pending(t)' <=> Pending(t) /\ t # tasks[i]
                    /\ AtMostOnce(tasks', t)
<1>1. PICK i \in DOMAIN tasks :
          /\ tasks' = RemoveAt(tasks, i) \o Spawned(tasks[i])
          /\ \/ tasks[i] = "connect" /\ RunConnect
             \/ tasks[i] = "connected" /\ RunConnected
             \/ tasks[i] = "initialized" /\ RunInitialized
             \/ tasks[i] = "aborted" /\ RunAborted
             \/ tasks[i] = "closed" /\ RunClosed
             \/ tasks[i] = "halt" /\ RunHalt
  BY DEF RunEvent, Runnable
<1>2. TypeOK /\ \A t \in Event \ {"halt"} : AtMostOnce(tasks, t)
  BY DEF SessionInv, HookInv
<1>3. tasks[i] \in Event
  BY <1>2 DEF TypeOK
<1>4. AtMostOnce(tasks, tasks[i]) \/ tasks[i] = "halt"
  BY <1>2, <1>3
<1>5. /\ tasks' \in Seq(Event)
      /\ Pending(tasks[i])
      /\ \A t \in Event \ {"halt"} :
            /\ Pending(t)' <=> Pending(t) /\ t # tasks[i]
            /\ AtMostOnce(tasks, t) => AtMostOnce(tasks', t)
  BY <1>1, <1>2, <1>4, Take
<1>. QED
  BY <1>1, <1>2, <1>3, <1>5

\* Once an event other than the first is pending, the connection was made.
LEMMA NotEarly ==
    ASSUME SessionInv, NEW t, Pending(t), t # "connect"
    PROVE  pcb \notin {"new", "syn"} /\ ~Pending("connect")
  BY DEF SessionInv, EarlyInv, Pending, Has

LEMMA RunEventKeeps ==
    ASSUME SessionInv, RunEvent
    PROVE  SessionInv'
<1>. USE DEF SessionInv
<1>1. PICK i \in DOMAIN tasks :
              /\ tasks' = RemoveAt(tasks, i) \o Spawned(tasks[i])
              /\ \/ tasks[i] = "connect" /\ RunConnect
                 \/ tasks[i] = "connected" /\ RunConnected
                 \/ tasks[i] = "initialized" /\ RunInitialized
                 \/ tasks[i] = "aborted" /\ RunAborted
                 \/ tasks[i] = "closed" /\ RunClosed
                 \/ tasks[i] = "halt" /\ RunHalt
              /\ tasks' \in Seq(Event)
              /\ tasks[i] \in Event
              /\ Pending(tasks[i])
              /\ \A t \in Event \ {"halt"} :
                    /\ Pending(t)' <=> Pending(t) /\ t # tasks[i]
                    /\ AtMostOnce(tasks', t)
  BY EventEffect
<1>. DEFINE e == tasks[i]
<1>2. /\ tasks' \in Seq(Event) /\ e \in Event /\ Pending(e)
      /\ \A t \in Event \ {"halt"} : AtMostOnce(tasks', t)
      /\ \A t \in Event \ {"halt"} : Pending(t)' <=> Pending(t) /\ t # e
  BY <1>1
<1>3. UNCHANGED <<client, is_connected_, exec, wire, open, answered, fault>>
  BY DEF RunEvent
<1>. HIDE DEF e
<1>4. CASE e = "connect" /\ RunConnect
  <2>1. tasks = <<"connect">> /\ pcb = "new"
    BY <1>2, <1>4 DEF EarlyInv
  <2>2. tasks' = <<>>
    <3>1. RemoveAt(tasks, i) \in Seq(Event) /\ Len(RemoveAt(tasks, i)) = 0
      <4>1. tasks \in Seq(Event) /\ i \in DOMAIN tasks
        BY <1>1 DEF TypeOK
      <4>2. Len(tasks) = 1
        BY <2>1
      <4>3. RemoveAt(tasks, i) \in Seq(Event) /\ Len(RemoveAt(tasks, i)) = Len(tasks) - 1
        BY <4>1, RemoveAtProperties
      <4>. QED
        BY <4>2, <4>3
    <3>2. Spawned(tasks[i]) = <<>>
      BY <1>4 DEF e, Spawned
    <3>. QED
      BY <1>1, <3>1, <3>2
  <2>3. pcb' = "syn" /\ UNCHANGED <<requests, is_initialized_, fired, halts>>
    BY <1>4 DEF RunConnect
  <2>4. \A t : ~Pending(t)'
    BY <2>2 DEF Pending, Has
  <2>5. TypeOK'
    BY <1>2, <1>3, <2>3 DEF TypeOK, Pcb
  <2>6. EarlyInv'
    BY <1>3, <2>1, <2>2, <2>3, <2>4 DEF EarlyInv
  <2>7. StreamInv'
    BY <1>3, <2>1, <2>3 DEF StreamInv, Connection
  <2>8. ExchangeInv'
    BY <1>3, <2>1, <2>3, <2>4 DEF ExchangeInv, Replying, EarlyInv, StreamInv
  <2>9. AnswersInv'
    BY <1>3, <2>1, <2>3, <2>4 DEF AnswersInv, EarlyInv
  <2>10. CountInv'
    BY <1>3, <2>1, <2>3, <2>4 DEF CountInv, EarlyInv, Replying, Hook
  <2>11. HookInv'
    BY <1>2, <1>3, <2>1, <2>3, <2>4 DEF HookInv, EarlyInv, FailedReplies, Hook
  <2>. QED
    BY <2>5, <2>6, <2>7, <2>8, <2>9, <2>10, <2>11
\* After that, the connection is made and an event leaves most of it alone.
<1>a. ASSUME e # "connect", pcb' = pcb
      PROVE  EarlyInv'
  BY <1>2, <1>a, NotEarly DEF EarlyInv, Event
<1>b. ASSUME fired \in [Hook -> Nat], NEW h \in Hook, fired' = Resolve(h)
      PROVE  /\ fired' \in [Hook -> Nat]
             /\ fired'[h] = fired[h] + 1
             /\ \A k \in Hook \ {h} : fired'[k] = fired[k]
  BY <1>b DEF Resolve
<1>5. CASE e = "connected" /\ RunConnected
  <2>. DEFINE q == IF client = "warm" THEN "run" ELSE "init"
  <2>1. /\ UNCHANGED <<pcb, is_initialized_, halts>>
        /\ fired' = Resolve("connected") /\ Send(q)
    BY <1>5 DEF RunConnected
  <2>2. /\ fired \in [Hook -> Nat] /\ fired' \in [Hook -> Nat]
        /\ fired'["connected"] = fired["connected"] + 1
        /\ \A h \in Hook \ {"connected"} : fired'[h] = fired[h]
    BY <1>b, <2>1 DEF TypeOK, Hook
  <2>3. /\ Pending("connected") /\ requests = <<>> /\ answered = <<>> /\ ~Replying
        /\ ~Pending("initialized") /\ ~is_initialized_
        /\ fired["connected"] = 0 /\ fired["finished"] = 0
    BY <1>2, <1>5, Stream DEF ExchangeInv
  <2>4. ~Pending("connected")' /\ ~Pending("initialized")'
    BY <1>2, <1>5, <2>3 DEF Event
  <2>5. \/ requests' = <<>>
        \/ requests' = <<q>> /\ pcb = "open" /\ open
    BY <2>1, <2>3 DEF Send
  <2>6. open => wire = <<>>
    BY <2>3, Stream
  <2>7. TypeOK'
    <3>1. requests' \in Seq(Request)
      BY <2>5, StreamTypes DEF Request
    <3>. QED
      BY <1>2, <1>3, <2>1, <2>2, <3>1 DEF TypeOK
  <2>8. EarlyInv'
    BY <1>5, <1>a, <2>1
  <2>9. StreamInv'
    BY <1>3, <2>1, <2>5 DEF StreamInv, Connection
  <2>10. ExchangeInv'
    BY <1>3, <2>1, <2>2, <2>3, <2>4, <2>5, <2>6 DEF ExchangeInv, Replying, Hook
  <2>11. AnswersInv'
    BY <1>3, <2>1, <2>2, <2>3, <2>4 DEF AnswersInv, Hook
  <2>12. CountInv'
    BY <1>3, <2>1, <2>2, <2>3, <2>4 DEF CountInv, Hook, Replying
  <2>13. HookInv'
    BY <1>2, <1>3, <2>1, <2>2, <2>3, <2>4 DEF HookInv, Hook, FailedReplies, Event
  <2>. QED
    BY <2>7, <2>8, <2>9, <2>10, <2>11, <2>12, <2>13
<1>6. CASE e = "initialized" /\ RunInitialized
  <2>1. /\ UNCHANGED <<pcb, halts>>
        /\ fired' = Resolve("initialized") /\ is_initialized_' = TRUE
        /\ \/ client = "cold" /\ Send("run")
           \/ UNCHANGED requests
    BY <1>6 DEF RunInitialized
  <2>2. /\ fired \in [Hook -> Nat] /\ fired' \in [Hook -> Nat]
        /\ fired'["initialized"] = fired["initialized"] + 1
        /\ \A h \in Hook \ {"initialized"} : fired'[h] = fired[h]
    BY <1>b, <2>1 DEF TypeOK, Hook
  <2>3. /\ Pending("initialized") /\ requests = <<>> /\ ~Replying /\ ~Pending("connected")
        /\ ~is_initialized_ /\ fired["initialized"] = 0 /\ fired["finished"] = 0
        /\ Len(answered) = 1
    BY <1>2, <1>6 DEF ExchangeInv, AnswersInv
  <2>4. ~Pending("connected")' /\ ~Pending("initialized")'
    BY <1>2, <1>6, <2>3 DEF Event
  <2>5. \/ requests' = <<>>
        \/ requests' = <<"run">> /\ pcb = "open" /\ open /\ client = "cold"
    BY <2>1, <2>3 DEF Send
  <2>6. (open => wire = <<>>) /\ answered # <<>>
    <3>1. answered = <<>> => Len(answered) = 0
      OBVIOUS
    <3>2. open => wire = <<>>
      BY <2>3, Stream
    <3>. QED
      BY <2>3, <3>1, <3>2
  <2>7. TypeOK'
    <3>1. requests' \in Seq(Request)
      BY <2>5, StreamTypes DEF Request
    <3>. QED
      BY <1>2, <1>3, <2>1, <2>2, <3>1 DEF TypeOK
  <2>8. EarlyInv'
    BY <1>6, <1>a, <2>1
  <2>9. StreamInv'
    BY <1>3, <2>1, <2>5 DEF StreamInv, Connection
  <2>10. ExchangeInv'
    <3>1. ~Replying'
      BY <1>3, <2>3 DEF Replying
    <3>2. requests' \in {<<>>, <<"init">>, <<"run">>}
      BY <2>5
    <3>3. ASSUME requests' # <<>>
          PROVE  /\ wire' = <<>> /\ pcb' = "open"
                 /\ ~Pending("initialized")' /\ fired'["finished"] = 0
                 /\ is_initialized_' <=> answered' # <<>>
                 /\ client' = "cold" /\ Len(answered') = 1
                 /\ Head(requests') = "init" <=> client' # "warm" /\ answered' = <<>>
      BY <1>3, <2>1, <2>2, <2>3, <2>4, <2>5, <2>6, <3>3 DEF Hook
    <3>. QED
      BY <2>4, <3>1, <3>2, <3>3 DEF ExchangeInv
  <2>11. AnswersInv'
    BY <1>3, <2>1, <2>2, <2>3, <2>4 DEF AnswersInv, Hook
  <2>12. CountInv'
    BY <1>3, <2>1, <2>2, <2>3, <2>4 DEF CountInv, Hook, Replying
  <2>13. HookInv'
    BY <1>2, <1>3, <2>1, <2>2, <2>3, <2>4 DEF HookInv, Hook, FailedReplies, Event
  <2>. QED
    BY <2>7, <2>8, <2>9, <2>10, <2>11, <2>12, <2>13
<1>7. CASE e = "aborted" /\ RunAborted
  <2>1. UNCHANGED <<pcb, is_initialized_, halts, requests>> /\ fired' = Resolve("aborted")
    BY <1>7 DEF RunAborted
  <2>2. /\ fired \in [Hook -> Nat] /\ fired' \in [Hook -> Nat]
        /\ fired'["aborted"] = fired["aborted"] + 1
        /\ \A h \in Hook \ {"aborted"} : fired'[h] = fired[h]
    BY <1>b, <2>1 DEF TypeOK, Hook
  <2>3. /\ Pending("aborted") /\ ~Pending("aborted")'
        /\ \A t \in {"connected", "initialized"} : Pending(t)' <=> Pending(t)
    BY <1>2, <1>7 DEF Event
  <2>4. TypeOK'
    BY <1>2, <1>3, <2>1, <2>2 DEF TypeOK
  <2>5. EarlyInv'
    BY <1>7, <1>a, <2>1
  <2>6. StreamInv'
    BY <1>3, <2>1 DEF StreamInv, Connection
  <2>7. ExchangeInv'
    BY <1>3, <2>1, <2>2, <2>3 DEF ExchangeInv, Replying, Hook
  <2>8. AnswersInv'
    BY <1>3, <2>1, <2>2, <2>3 DEF AnswersInv, Hook
  <2>9. CountInv'
    BY <1>3, <2>1, <2>2, <2>3 DEF CountInv, Hook, Replying
  <2>10. HookInv'
    BY <1>2, <1>3, <2>1, <2>2, <2>3 DEF HookInv, Hook, FailedReplies, Event
  <2>. QED
    BY <2>4, <2>5, <2>6, <2>7, <2>8, <2>9, <2>10
<1>8. CASE e = "closed" /\ RunClosed
  <2>1. UNCHANGED <<pcb, is_initialized_, halts, requests>> /\ fired' = Resolve("closed")
    BY <1>8 DEF RunClosed
  <2>2. /\ fired \in [Hook -> Nat] /\ fired' \in [Hook -> Nat]
        /\ fired'["closed"] = fired["closed"] + 1
        /\ \A h \in Hook \ {"closed"} : fired'[h] = fired[h]
    BY <1>b, <2>1 DEF TypeOK, Hook
  <2>3. /\ Pending("closed") /\ ~Pending("closed")'
        /\ \A t \in {"connected", "initialized"} : Pending(t)' <=> Pending(t)
    BY <1>2, <1>8 DEF Event
  <2>4. TypeOK'
    BY <1>2, <1>3, <2>1, <2>2 DEF TypeOK
  <2>5. EarlyInv'
    BY <1>8, <1>a, <2>1
  <2>6. StreamInv'
    BY <1>3, <2>1 DEF StreamInv, Connection
  <2>7. ExchangeInv'
    BY <1>3, <2>1, <2>2, <2>3 DEF ExchangeInv, Replying, Hook
  <2>8. AnswersInv'
    BY <1>3, <2>1, <2>2, <2>3 DEF AnswersInv, Hook
  <2>9. CountInv'
    BY <1>3, <2>1, <2>2, <2>3 DEF CountInv, Hook, Replying
  <2>10. HookInv'
    BY <1>2, <1>3, <2>1, <2>2, <2>3 DEF HookInv, Hook, FailedReplies, Event
  <2>. QED
    BY <2>4, <2>5, <2>6, <2>7, <2>8, <2>9, <2>10
<1>9. CASE e = "halt" /\ RunHalt
  <2>1. UNCHANGED <<pcb, is_initialized_, fired, requests>> /\ halts' = halts + 1
    BY <1>9 DEF RunHalt
  <2>2. \A t \in Event \ {"halt"} : Pending(t)' <=> Pending(t)
    BY <1>2, <1>9
  <2>3. TypeOK'
    BY <1>2, <1>3, <2>1 DEF TypeOK
  <2>4. EarlyInv'
    BY <1>9, <1>a, <2>1
  <2>5. StreamInv'
    BY <1>3, <2>1 DEF StreamInv, Connection
  <2>6. ExchangeInv'
    BY <1>3, <2>1, <2>2 DEF ExchangeInv, Replying, Event
  <2>7. AnswersInv'
    BY <1>3, <2>1, <2>2 DEF AnswersInv, Event
  <2>8. CountInv'
    BY <1>3, <2>1, <2>2 DEF CountInv, Replying, Event
  <2>9. HookInv'
    BY <1>2, <1>3, <2>1, <2>2 DEF HookInv, FailedReplies, Event
  <2>. QED
    BY <2>3, <2>4, <2>5, <2>6, <2>7, <2>8, <2>9
<1>. QED
  BY <1>1, <1>4, <1>5, <1>6, <1>7, <1>8, <1>9 DEF e

-----------------------------------------------------------------------------
(* The guest's server *)

LEMMA AnswerKeeps ==
    ASSUME SessionInv, Answer
    PROVE  SessionInv'
<1>. USE DEF SessionInv
<1>. DEFINE q == Head(requests)
<1>1. /\ open /\ requests # <<>>
      /\ wire = <<>> /\ pcb = "open" /\ ~Replying
      /\ ~Pending("initialized") /\ ~Pending("connected") /\ fired["finished"] = 0
      /\ is_initialized_ <=> answered # <<>>
      /\ answered # <<>> => client = "cold" /\ Len(answered) = 1
      /\ q = "init" <=> client # "warm" /\ answered = <<>>
      /\ requests = <<q>> /\ q \in Request
  <2>1. requests # <<>> /\ requests \in {<<>>, <<"init">>, <<"run">>} /\ ~Pending("connected")
    BY DEF ExchangeInv, Answer
  <2>2. requests = <<q>> /\ q \in Request
    BY <2>1 DEF Request
  <2>. QED
    BY <2>1, <2>2 DEF ExchangeInv, Answer, Replying
<1>. HIDE DEF q
<1>2. PICK r \in Results[q] :
          /\ answered' = Append(answered, [req |-> q, reply |-> r])
          /\ wire' = wire \o (IF q = "init" THEN <<r>> ELSE <<r, Fin>>)
          /\ open' = (q = "init")
  BY DEF Answer, q
<1>3. r \in Reply
  BY <1>1, SessionAssumption
<1>4. wire' = IF q = "init" THEN <<r>> ELSE <<r, Fin>>
  BY <1>1, <1>2, <1>3
<1>5. Replying' /\ Head(wire') = r /\ wire' # <<>>
  BY <1>3, <1>4, FinIsNoReply DEF Replying
<1>6. requests' = <<>>
  <2>1. Tail(<<q>>) = <<>>
    OBVIOUS
  <2>. QED
    BY <1>1, <2>1 DEF Answer
<1>7. UNCHANGED <<client, is_connected_, is_initialized_, exec, fired, pcb, tasks, halts, fault>>
  BY DEF Answer, session
<1>8. \A t : Pending(t)' <=> Pending(t)
  BY <1>7 DEF Pending
<1>. DEFINE A == [req: Request, reply: Reply]
            a == [req |-> q, reply |-> r]
<1>9. /\ answered \in Seq(A) /\ a \in A
      /\ a.req = q /\ a.reply = r
  BY <1>1, <1>3 DEF TypeOK
<1>. HIDE DEF A, a
<1>10. /\ answered' \in Seq(A) /\ answered' # <<>>
       /\ Len(answered') = Len(answered) + 1 /\ Len(answered) \in Nat
       /\ answered'[Len(answered')] = a
       /\ \A k \in 1 .. Len(answered) : answered'[k] = answered[k]
       /\ DOMAIN answered = 1 .. Len(answered) /\ DOMAIN answered' = 1 .. Len(answered) + 1
       /\ answered = <<>> => Len(answered) = 0
  BY <1>2, <1>9 DEF a
<1>11. TypeOK'
  <2>1. wire' \in Seq(Reply \cup {Fin}) /\ requests' \in Seq(Request) /\ open' \in BOOLEAN
    BY <1>2, <1>3, <1>4, <1>6, StreamTypes
  <2>. QED
    BY <1>7, <1>10, <2>1 DEF TypeOK, A
<1>12. EarlyInv'
  BY <1>1, <1>7, <1>8 DEF EarlyInv
<1>13. StreamInv'
  <2>1. /\ open' => Len(wire') = 1 /\ wire'[1] = r
        /\ wire' \in {<<r>>, <<r, Fin>>}
    <3>1. Len(<<r>>) = 1 /\ <<r>>[1] = r
      OBVIOUS
    <3>2. CASE q = "init"
      BY <1>2, <1>4, <3>1, <3>2
    <3>3. CASE q # "init"
      BY <1>2, <1>4, <3>3
    <3>. QED
      BY <3>2, <3>3
  <2>. QED
    BY <1>1, <1>3, <1>6, <1>7, <2>1, FinIsNoReply DEF StreamInv, Connection
<1>14. ExchangeInv'
  <2>1. is_initialized_' <=> Len(answered') = 2
    BY <1>1, <1>7, <1>10
  <2>. QED
    BY <1>1, <1>5, <1>6, <1>7, <1>8, <1>9, <1>10, <2>1 DEF ExchangeInv
<1>15. AnswersInv'
  <2>1. CASE answered = <<>>
    <3>1. Len(answered') = 1 /\ answered'[1] = a /\ DOMAIN answered' = {1}
      BY <1>10, <2>1
    <3>2. q = IF client = "warm" THEN "run" ELSE "init"
      BY <1>1, <2>1 DEF Request
    <3>. QED
      BY <1>1, <1>2, <1>7, <1>8, <1>9, <2>1, <3>1, <3>2 DEF AnswersInv
  <2>2. CASE answered # <<>>
    <3>1. Len(answered) = 1 /\ client = "cold" /\ q = "run" /\ is_initialized_
      BY <1>1, <2>2 DEF Request
    <3>2. /\ Len(answered') = 2 /\ DOMAIN answered' = {1, 2}
          /\ answered'[1] = answered[1] /\ answered'[2] = a /\ 1 \in DOMAIN answered
      BY <1>10, <3>1
    <3>. QED
      BY <1>1, <1>2, <1>7, <1>8, <1>9, <2>2, <3>1, <3>2 DEF AnswersInv
  <2>. QED
    BY <2>1, <2>2
<1>16. CountInv'
  BY <1>1, <1>5, <1>7, <1>8, <1>10 DEF CountInv, TypeOK, Hook
<1>17. HookInv'
  <2>1. FailedReplies # {} => FailedReplies' # {}
    BY <1>10 DEF FailedReplies
  <2>. QED
    BY <1>1, <1>7, <1>8, <2>1 DEF HookInv, TypeOK, Hook
<1>. QED
  BY <1>11, <1>12, <1>13, <1>14, <1>15, <1>16, <1>17

LEMMA ShutKeeps ==
    ASSUME SessionInv, Shut
    PROVE  SessionInv'
<1>. USE DEF SessionInv
<1>1. /\ open /\ wire' = Append(wire, Fin) /\ open' = FALSE /\ requests' = <<>>
      /\ UNCHANGED <<client, is_connected_, is_initialized_, exec, fired, pcb, tasks, answered,
                     halts, fault>>
  BY DEF Shut, session
<1>2. \A t : Pending(t)' <=> Pending(t)
  BY <1>1 DEF Pending
<1>3. \/ wire = <<>> /\ wire' = <<Fin>> /\ ~Replying /\ ~Replying'
      \/ \E r \in Reply : /\ wire = <<r>> /\ wire' = <<r, Fin>>
                          /\ Replying /\ Replying' /\ Head(wire) = r /\ Head(wire') = r
  <2>1. CASE wire = <<>>
    BY <1>1, <2>1 DEF Replying
  <2>2. ASSUME NEW r \in Reply, wire = <<r>>
        PROVE  /\ wire' = <<r, Fin>>
               /\ Replying /\ Replying' /\ Head(wire) = r /\ Head(wire') = r
    <3>1. /\ Append(<<r>>, Fin) = <<r, Fin>>
          /\ Head(<<r>>) = r /\ Head(<<r, Fin>>) = r
          /\ <<r>> # <<>> /\ <<r, Fin>> # <<>>
      BY AppendTwo
    <3>2. wire' = <<r, Fin>>
      BY <1>1, <2>2, <3>1
    <3>. QED
      BY <2>2, <3>1, <3>2, FinIsNoReply DEF Replying
  <2>. QED
    BY <1>1, <2>1, <2>2, Stream
<1>4. TypeOK'
  <2>1. /\ wire' \in Seq(Reply \cup {Fin}) /\ requests' \in Seq(Request)
        /\ open' \in BOOLEAN
    <3>1. wire' = <<Fin>> \/ \E r \in Reply : wire' = <<r, Fin>>
      BY <1>3
    <3>2. wire' \in Seq(Reply \cup {Fin})
      BY <3>1, StreamTypes, Zenon
    <3>3. requests' \in Seq(Request)
      BY <1>1, StreamTypes
    <3>. QED
      BY <1>1, <3>2, <3>3
  <2>. QED
    BY <1>1, <2>1 DEF TypeOK
<1>5. EarlyInv'
  BY <1>1, <1>2 DEF EarlyInv
<1>6. StreamInv'
  <2>1. Connection
    BY <1>1 DEF StreamInv
  <2>2. pcb = "fin" => wire' = <<Fin>>
    <3>1. ASSUME NEW r \in Reply, wire = <<r>> PROVE wire \notin {<<>>, <<Fin>>}
      BY <3>1, FinIsNoReply
    <3>. QED
      BY <1>3, <3>1 DEF StreamInv
  <2>3. wire' = <<Fin>> \/ \E r \in Reply : wire' = <<r, Fin>>
    BY <1>3
  <2>. QED
    BY <1>1, <2>1, <2>2, <2>3 DEF StreamInv, Connection
<1>7. ExchangeInv'
  <2>1. Pending("connected") => wire \in {<<>>, <<Fin>>}
    BY DEF ExchangeInv
  <2>2. wire \in {<<>>, <<Fin>>} => wire' = <<Fin>>
    BY <1>3, Stream
  <2>3. Replying' => Replying /\ Head(wire') = Head(wire)
    BY <1>3
  <2>. QED
    BY <1>1, <1>2, <2>1, <2>2, <2>3 DEF ExchangeInv
<1>8. AnswersInv'
  BY <1>1, <1>2 DEF AnswersInv
<1>9. CountInv'
  <2>1. Replying' <=> Replying
    BY <1>3
  <2>. QED
    BY <1>1, <1>2, <2>1 DEF CountInv
<1>10. HookInv'
  BY <1>1, <1>2 DEF HookInv, FailedReplies
<1>. QED
  BY <1>4, <1>5, <1>6, <1>7, <1>8, <1>9, <1>10

-----------------------------------------------------------------------------
(* The invariant, and what it says *)

LEMMA InitSession == Init => SessionInv
<1>. SUFFICES ASSUME Init PROVE SessionInv
  OBVIOUS
<1>1. /\ fired \in [Hook -> Nat] /\ \A h \in Hook : fired[h] = 0
      /\ tasks = <<"connect">> /\ tasks \in Seq(Event)
      /\ requests = <<>> /\ wire = <<>> /\ answered = <<>>
  BY DEF Init, Event
<1>2. \A t : /\ Pending(t) <=> t = "connect"
             /\ AtMostOnce(tasks, t)
  BY <1>1, HasShort DEF Pending
<1>3. TypeOK
  <2>1. exec \in [status: {0, 1}, init_time: BOOLEAN, run_time: BOOLEAN]
    BY DEF Init
  <2>2. client \in Clients /\ answered \in Seq([req: Request, reply: Reply])
    BY DEF Init
  <2>. QED
    BY <1>1, <2>1, <2>2, StreamTypes DEF Init, TypeOK, Pcb
<1>4. EarlyInv /\ StreamInv
  BY <1>1, <1>2 DEF Init, EarlyInv, StreamInv, Connection
<1>5. ExchangeInv
  BY <1>1, <1>2 DEF Init, ExchangeInv, Replying
<1>6. AnswersInv /\ CountInv
  BY <1>1, <1>2 DEF Init, AnswersInv, CountInv, Replying, Hook
<1>7. HookInv
  BY <1>1, <1>2 DEF Init, HookInv, Hook, FailedReplies
<1>. QED
  BY <1>3, <1>4, <1>5, <1>6, <1>7 DEF SessionInv

LEMMA NextKeepsSession == SessionInv /\ [Next]_vars => SessionInv'
<1>. SUFFICES ASSUME SessionInv, [Next]_vars PROVE SessionInv'
  OBVIOUS
<1>1. CASE Next
  BY <1>1, ConnectedKeeps, CloseKeeps, ReceiveKeeps, AbortKeeps, RunEventKeeps,
     AnswerKeeps, ShutKeeps
     DEF Next, Handler, Server
<1>2. CASE UNCHANGED vars
  <2>. USE <1>2 DEF vars, session, guest
  <2>1. TypeOK'
    BY DEF SessionInv, TypeOK
  <2>2. (\A t : Pending(t)' <=> Pending(t)) /\ (Replying' <=> Replying)
    BY DEF Pending, Replying
  <2>3. EarlyInv' /\ StreamInv'
    BY <2>2 DEF SessionInv, EarlyInv, StreamInv, Connection
  <2>4. ExchangeInv' /\ AnswersInv' /\ CountInv'
    BY <2>2 DEF SessionInv, ExchangeInv, AnswersInv, CountInv
  <2>5. HookInv'
    BY <2>2 DEF SessionInv, HookInv, FailedReplies
  <2>. QED
    BY <2>1, <2>3, <2>4, <2>5 DEF SessionInv
<1>. QED
  BY <1>1, <1>2

\* One exchange at a time, whatever the guest answers, however replies, spawned events,
\* closes and resets fall together (the handlers of InvocationSession and the events they
\* spawn).
THEOREM SessionInvariance == Spec => []SessionInv
<1>. QED
  BY InitSession, NextKeepsSession, PTL DEF Spec

\* The number of positions at which a sequence of events has one that is there at most
\* once.
LEMMA CountOne ==
    ASSUME NEW S, NEW s \in Seq(S), NEW P,
           P \subseteq DOMAIN s, \A i, j \in P : i = j
    PROVE  Cardinality(P) = IF P = {} THEN 0 ELSE 1
<1>1. CASE P = {}
  BY <1>1, FS_EmptySet
<1>2. CASE P # {}
  <2>1. PICK i \in P : P = {i}
    BY <1>2
  <2>2. Cardinality({i}) = 1
    BY FS_Singleton
  <2>. QED
    BY <1>2, <2>1, <2>2
<1>. QED
  BY <1>1, <1>2

\* Every reply that Receive handles completes an init or a run (when_finished_ and
\* when_initialized_ in InvocationSession.cc), however replies and the end of the
\* connection fall together; only one that makes Receive throw is lost.
THEOREM AllRepliesAccounted == Spec => []RepliesAccounted
<1>1. SessionInv => RepliesAccounted
  <2>. SUFFICES ASSUME SessionInv PROVE RepliesAccounted
    OBVIOUS
  <2>. DEFINE I == {i \in DOMAIN tasks : tasks[i] = "initialized"}
              W == {k \in DOMAIN wire : wire[k] # Fin}
  <2>1. TypeOK /\ tasks \in Seq(Event) /\ wire \in Seq(Reply \cup {Fin})
    BY DEF SessionInv, TypeOK
  <2>2. Cardinality(I) = IF Pending("initialized") THEN 1 ELSE 0
    <3>1. \A i, j \in I : i = j
      BY DEF SessionInv, HookInv, AtMostOnce, Event
    <3>2. I # {} <=> Pending("initialized")
      BY DEF Pending, Has
    <3>3. Cardinality(I) = IF I = {} THEN 0 ELSE 1
      BY <2>1, <3>1, CountOne
    <3>. QED
      BY <3>2, <3>3
  <2>3. Cardinality(W) = IF Replying THEN 1 ELSE 0
    <3>1. CASE wire = <<>>
      <4>1. W = {} /\ ~Replying
        BY <3>1 DEF Replying
      <4>. QED
        BY <4>1, FS_EmptySet
    <3>2. CASE wire = <<Fin>>
      <4>1. W = {} /\ ~Replying
        BY <3>2 DEF Replying
      <4>. QED
        BY <4>1, FS_EmptySet
    <3>3. ASSUME NEW r \in Reply, wire = <<r>> \/ wire = <<r, Fin>>
          PROVE  W = {1} /\ Replying
      BY <3>3, FinIsNoReply DEF Replying
    <3>4. Cardinality({1}) = 1
      BY FS_Singleton
    <3>. QED
      BY <3>1, <3>2, <3>3, <3>4 DEF SessionInv, StreamInv
  <2>. HIDE DEF I, W
  <2>. QED
    BY <2>1, <2>2, <2>3 DEF SessionInv, CountInv, RepliesAccounted, I, W
<1>. QED
  BY <1>1, SessionInvariance, PTL

\* No promise of a session is resolved twice, but aborted once more after a failed reply
\* (the SetValue calls of Receive and of the spawned events).
THEOREM PromisesOnce == Spec => []HooksOnce
<1>1. SessionInv => HooksOnce
  <2>. SUFFICES ASSUME SessionInv, NEW h \in Hook
                PROVE  fired[h] <= IF h = "aborted" /\ FailedReplies # {} THEN 2 ELSE 1
    BY DEF HooksOnce
  <2>1. CASE h = "aborted"
    BY <2>1 DEF SessionInv, HookInv
  <2>2. CASE h # "aborted"
    BY <2>2 DEF SessionInv, HookInv, Hook
  <2>. QED
    BY <2>1, <2>2
<1>. QED
  BY <1>1, SessionInvariance, PTL

\* A function is run at most once, and by a client that sends code only where the guest
\* accepted it (is_initialized_ and the continuations of initialized), if the guest does
\* not say {"OK":true} in a reply that failed.
THEOREM RunsOnlyAfterInit ==
    ASSUME Consistent
    PROVE  Spec => []RunsOnceAfterInit
<1>1. SessionInv => RunsOnceAfterInit
  <2>. SUFFICES ASSUME SessionInv PROVE RunsOnceAfterInit
    OBVIOUS
  <2>. DEFINE Sent == {k \in DOMAIN requests : requests[k] = "run"}
              Ran == {k \in DOMAIN answered : answered[k].req = "run"}
              Accepted == [req |-> "init", reply |-> [http |-> "200 OK", body |-> "ok"]]
  <2>. DEFINE A == [req: Request, reply: Reply]
              n == Len(answered)
  <2>1. /\ answered \in Seq(A) /\ n \in Nat /\ DOMAIN answered = 1 .. n
        /\ \A k \in 1 .. n : answered[k] \in A
        /\ answered = <<>> <=> n = 0
        /\ requests \in Seq(Request)
    <3>1. answered \in Seq(A) /\ requests \in Seq(Request)
      BY DEF SessionInv, TypeOK
    <3>. HIDE DEF A
    <3>. QED
      BY <3>1
  <2>2. /\ n <= 2
        /\ n > 0 => answered[1].req = (IF client = "warm" THEN "run" ELSE "init")
        /\ n = 2 => client = "cold" /\ answered[2].req = "run" /\ is_initialized_
    BY <2>1 DEF SessionInv, AnswersInv
  <2>3. \A i, j \in Ran : i = j
    <3>1. ASSUME 1 \in Ran PROVE n # 2
      BY <2>2, <3>1
    <3>. HIDE DEF n
    <3>2. 1 .. n \subseteq {1, 2}
      BY <2>1, <2>2
    <3>3. 2 \in 1 .. n => n = 2
      BY <2>1, <2>2
    <3>. QED
      BY <2>1, <3>1, <3>2, <3>3
  <2>4. ASSUME Sent # {} PROVE requests = <<"run">> /\ Ran = {}
    <3>1. requests = <<"run">>
      <4>1. <<"init">>[1] # "run" /\ DOMAIN <<"init">> = {1} /\ DOMAIN <<>> = {}
        OBVIOUS
      <4>. QED
        BY <2>4, <4>1 DEF SessionInv, ExchangeInv
    <3>2. Head(<<"run">>) = "run" /\ <<"run">> # <<>>
      OBVIOUS
    <3>3. /\ answered # <<>> => client = "cold" /\ n = 1
          /\ "run" = "init" <=> client # "warm" /\ answered = <<>>
      BY <3>1, <3>2 DEF SessionInv, ExchangeInv
    <3>4. CASE n = 0
      BY <2>1, <3>1, <3>4
    <3>5. CASE n # 0
      <4>1. client = "cold" /\ n = 1
        BY <2>1, <3>3, <3>5
      <4>2. answered[1].req = "init"
        BY <2>2, <4>1
      <4>3. DOMAIN answered = {1}
        BY <2>1, <4>1
      <4>. QED
        BY <3>1, <4>2, <4>3
    <3>. QED
      BY <3>4, <3>5, Zenon
  <2>5. \A i, j \in Sent : i = j
    BY <2>4
  <2>6. Cardinality(Sent) + Cardinality(Ran) <= 1
    <3>1. Cardinality(Ran) = IF Ran = {} THEN 0 ELSE 1
      BY <2>1, <2>3, CountOne
    <3>2. Cardinality(Sent) = IF Sent = {} THEN 0 ELSE 1
      BY <2>1, <2>5, CountOne
    <3>. HIDE DEF Sent, Ran
    <3>. QED
      BY <2>4, <3>1, <3>2
  <2>7. ASSUME client # "warm", Sent # {} \/ Ran # {} \/ fired["initialized"] > 0
        PROVE  \E k \in DOMAIN answered : answered[k] = Accepted
    <3>1. is_initialized_
      <4>1. CASE Sent # {}
        <5>1. requests = <<"run">> /\ Head(<<"run">>) = "run"
          BY <2>4, <4>1
        <5>. QED
          BY <2>7, <5>1 DEF SessionInv, ExchangeInv
      <4>2. CASE Ran # {}
        <5>1. PICK k \in 1 .. n : answered[k].req = "run"
          BY <2>1, <4>2
        <5>2. n # 1
          BY <2>2, <2>7, <5>1
        <5>. HIDE DEF n
        <5>3. n = 2
          BY <2>1, <2>2, <5>1, <5>2
        <5>. QED
          BY <2>2, <5>3
      <4>3. CASE fired["initialized"] > 0
        BY <4>3 DEF SessionInv, AnswersInv
      <4>. QED
        BY <2>7, <4>1, <4>2, <4>3
    <3>2. n # 0 /\ answered[1].reply.body = "ok"
      BY <2>1, <3>1 DEF SessionInv, AnswersInv
    <3>3. 1 \in 1 .. n
      <4>. HIDE DEF n
      <4>. QED
        BY <2>1, <3>2
    <3>4. answered[1].req = "init" /\ answered[1].reply \in Results["init"]
      BY <2>1, <2>2, <2>7, <3>2, <3>3 DEF SessionInv, AnswersInv
    <3>5. answered[1].reply \in Reply
      BY <2>1, <3>3
    <3>6. answered[1].reply =
             [http |-> answered[1].reply.http, body |-> answered[1].reply.body]
      BY <3>5 DEF Reply
    <3>7. answered[1].reply.http = "200 OK"
      BY <3>2, <3>4, <3>5, <3>6 DEF Reply, Consistent
    <3>8. answered[1] = [req |-> answered[1].req, reply |-> answered[1].reply]
      BY <2>1, <3>3
    <3>. QED
      BY <2>1, <3>2, <3>3, <3>4, <3>6, <3>7, <3>8
  <2>. QED
    BY <2>6, <2>7 DEF RunsOnceAfterInit
<1>. QED
  BY <1>1, SessionInvariance, PTL

=============================================================================
