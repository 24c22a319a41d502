-------------------------- MODULE HaFailoverProofs --------------------------
(* Proofs about HaFailover for every pair, clock skew and bound.           *)
EXTENDS HaFailover, SequenceTheorems, TLAPS

-----------------------------------------------------------------------------
(* Types.                                                                  *)

(* Moving a thread keeps the type of pc.                                   *)
LEMMA GotoType ==
    ASSUME TypeOK, NEW n \in Node, NEW t \in Thread, NEW label \in Pc, Goto(n, t, label)
    PROVE  pc' \in [Node -> [Thread -> Pc]]
  BY DEF TypeOK, Goto

(* A switchover that fails leaves its thread at a label.                   *)
LEMMA FailType ==
    ASSUME TypeOK, NEW n \in Node, NEW t \in Thread, Fail(n, t)
    PROVE  pc' \in [Node -> [Thread -> Pc]]
  <1>1. CASE t = "main"
    BY <1>1, GotoType, "stop_release" \in Pc DEF Fail, Pc
  <1>2. CASE t # "main"
    BY <1>2, GotoType, "idle" \in Pc DEF Fail, Pc
  <1> QED BY <1>1, <1>2

(* The outcome of a call leaves its thread at a label.                     *)
LEMMA ReturnType ==
    ASSUME TypeOK, NEW n \in Node, NEW t \in Thread, NEW ok \in BOOLEAN, Return(n, t, ok)
    PROVE  pc' \in [Node -> [Thread -> Pc]]
  <1>1. \E label \in Pc : Goto(n, t, label)
    BY DEF Return, Pc
  <1> QED BY <1>1, GotoType

(* A request is a call.                                                    *)
LEMMA NotifyType ==
    ASSUME TypeOK, NEW n \in Node, NEW t \in Thread, NEW gateway \in Node,
           Notify(n, t, gateway)
    PROVE  calls' \subseteq Call
  <1> DEFINE request == [ from |-> n, thread |-> t, gateway |-> gateway, live |-> TRUE,
                          stage |-> IF up[Peer[n]] THEN "sent" ELSE "failed" ]
  <1>1. request \in Call
    BY DEF Call
  <1> HIDE DEF request
  <1>2. calls' = calls \cup {request}
    BY DEF Notify, request
  <1> QED BY <1>1, <1>2 DEF TypeOK

(* Handling a request keeps it a call.                                     *)
LEMMA AdvanceType ==
    ASSUME TypeOK, NEW c \in calls, NEW stage \in {"sent", "applied", "ok", "failed"},
           Advance(c, stage)
    PROVE  calls' \subseteq Call
  <1>1. [c EXCEPT !.stage = stage] \in Call
    BY DEF TypeOK, Call
  <1> QED BY <1>1 DEF TypeOK, Advance

(* Writing the selection keeps revisions and times natural numbers.        *)
LEMMA WriteType ==
    ASSUME TypeOK, NEW n \in Node, NEW gateway \in Node, write_active_gateway(n, gateway)
    PROVE  /\ active' \in [Node -> Node] /\ revision' \in [Node -> Nat]
           /\ clock' \in Nat
  <1>1. Skew[n] \in Nat /\ revision[n] \in Nat /\ clock \in Nat
    BY SkewAssumption DEF TypeOK
  <1>2. clock' \in Nat
    BY <1>1 DEF write_active_gateway
  <1>3. active' \in [Node -> Node]
    BY DEF TypeOK, write_active_gateway
  <1>4. revision' \in [Node -> Nat]
    <2>1. \A m \in Nat : /\ m = IF clock + Skew[n] >= revision[n] THEN clock + 1 + Skew[n]
                                                                   ELSE revision[n] + 1
                         => [revision EXCEPT ![n] = m] \in [Node -> Nat]
      BY DEF TypeOK
    <2> QED BY <1>1, <2>1 DEF write_active_gateway
  <1> QED BY <1>2, <1>3, <1>4

(* Queuing a request never exceeds the capacity of the channel.            *)
LEMMA QueueType ==
    ASSUME TypeOK, NEW n \in Node, NEW peer_was_up \in BOOLEAN,
           queue_election(n, peer_was_up)
    PROVE  /\ queue' \in [Node -> Seq(BOOLEAN)]
           /\ \A m \in Node : Len(queue'[m]) <= QueueCap
  <1> DEFINE q == IF Len(queue[n]) < QueueCap THEN Append(queue[n], peer_was_up) ELSE queue[n]
  <1>1. q \in Seq(BOOLEAN) /\ Len(q) <= QueueCap
    <2>1. queue[n] \in Seq(BOOLEAN) /\ Len(queue[n]) \in Nat /\ Len(queue[n]) <= QueueCap
      BY DEF TypeOK
    <2>2. /\ Append(queue[n], peer_was_up) \in Seq(BOOLEAN)
          /\ Len(Append(queue[n], peer_was_up)) = Len(queue[n]) + 1
      BY <2>1
    <2>3. CASE Len(queue[n]) < QueueCap
      BY <2>1, <2>2, <2>3, BoundAssumption
    <2>4. CASE ~(Len(queue[n]) < QueueCap)
      BY <2>1, <2>4
    <2> QED BY <2>3, <2>4
  <1>2. queue' = [queue EXCEPT ![n] = q]
    BY DEF queue_election
  <1> HIDE DEF q
  <1> QED BY <1>1, <1>2 DEF TypeOK

(* What a process leaves behind when it ends has its type.                 *)
LEMMA EndsType ==
    ASSUME TypeOK, NEW n \in Node, ProcessEnds(n)
    PROVE  /\ up' \in [Node -> BOOLEAN] /\ stopping' \in [Node -> BOOLEAN]
           /\ session' \in [Node -> {"Down", "Init", "Up"}]
           /\ bfd' \in [Node -> {"down", "negotiating", "up", "error"}]
           /\ queue' \in [Node -> Seq(BOOLEAN)]
           /\ \A m \in Node : Len(queue'[m]) <= QueueCap
           /\ pc' \in [Node -> [Thread -> Pc]] /\ asked' \in [Node -> Nat]
           /\ calls' \subseteq Call /\ seen' \in [Node -> BOOLEAN]
  <1>1. calls' \subseteq Call
    <2>1. \A c \in calls : /\ [c EXCEPT !.live = FALSE] \in Call
                           /\ [c EXCEPT !.stage = "failed"] \in Call
      BY DEF TypeOK, Call
    <2> QED BY <2>1 DEF ProcessEnds, calls_without
  <1>2. pc' \in [Node -> [Thread -> Pc]]
    BY DEF TypeOK, ProcessEnds, Pc
  <1>3. /\ queue' \in [Node -> Seq(BOOLEAN)]
        /\ \A m \in Node : Len(queue'[m]) <= QueueCap
    BY BoundAssumption DEF TypeOK, ProcessEnds
  <1> QED BY <1>1, <1>2, <1>3 DEF TypeOK, ProcessEnds

(* The state of a session after a packet is a state of a session.          *)
LEMMA OnPacketType ==
    ASSUME NEW mine \in {"Down", "Init", "Up"}, NEW theirs \in {"Down", "Init", "Up"}
    PROVE  on_packet(mine, theirs) \in {"Down", "Init", "Up"}
  BY DEF on_packet

(* Binding or releasing keeps the type of vip.                             *)
LEMMA VipType ==
    ASSUME TypeOK, NEW n \in Node, \E bound \in BOOLEAN : vip' = [vip EXCEPT ![n] = bound]
    PROVE  vip' \in [Node -> BOOLEAN]
  BY DEF TypeOK

(* The peer of a gateway is a gateway.                                     *)
LEMMA PeerType == \A n \in Node : Peer[n] \in Node
  BY PairAssumption

-----------------------------------------------------------------------------
(* Who waits for what.                                                     *)

(* The gateway a thread at label asks the peer to make active.             *)
Expected(n, label) == IF label = "takeover" THEN n ELSE Peer[n]

(* The labels at which a thread waits for peer_activate.                   *)
waiting == {"takeover", "handoff", "restore_peer"}

(* The caller of a live request waits for it, at the label that sent it.   *)
Matched ==
    \A c \in calls :
        c.live => /\ pc[c.from][c.thread] \in waiting
                  /\ c.gateway = Expected(c.from, pc[c.from][c.thread])

(* No thread has two live requests.                                        *)
Single ==
    \A c, d \in calls :
        c.live /\ d.live /\ c.from = d.from /\ c.thread = d.thread => c = d

(* No thread waits for nothing.                                            *)
Waited ==
    \A n \in Node, t \in Thread :
        pc[n][t] \in waiting => \E c \in calls : c.live /\ c.from = n /\ c.thread = t

Waits == Matched /\ Single /\ Waited

(* A step that touches neither threads nor requests keeps the waits.       *)
LEMMA SameWaits ==
    ASSUME Waits, UNCHANGED <<pc, calls>>
    PROVE  Waits'
  BY DEF Waits, Matched, Single, Waited, Expected

(* So does a thread that moves between labels at which it does not wait.   *)
LEMMA MoveWaits ==
    ASSUME TypeOK, Waits, NEW n \in Node, NEW t \in Thread, NEW label,
           label \notin waiting, pc[n][t] \notin waiting,
           Goto(n, t, label), UNCHANGED calls
    PROVE  Waits'
  <1>1. \A m \in Node, u \in Thread :
            pc'[m][u] = IF m = n /\ u = t THEN label ELSE pc[m][u]
    BY DEF TypeOK, Goto
  <1>2. \A c \in calls : c.from \in Node /\ c.thread \in Thread
    BY DEF TypeOK, Call
  <1>3. Matched'
    BY <1>1, <1>2 DEF Waits, Matched, Expected
  <1>4. Single'
    BY DEF Waits, Single
  <1>5. Waited'
    BY <1>1 DEF Waits, Waited
  <1> QED BY <1>3, <1>4, <1>5 DEF Waits

(* A thread that sends a request starts to wait for that request.          *)
LEMMA SendWaits ==
    ASSUME TypeOK, Waits, NEW n \in Node, NEW t \in Thread, NEW label \in waiting,
           pc[n][t] \notin waiting,
           Goto(n, t, label), Notify(n, t, Expected(n, label))
    PROVE  Waits'
  <1> DEFINE request == [ from |-> n, thread |-> t, gateway |-> Expected(n, label),
                          live |-> TRUE,
                          stage |-> IF up[Peer[n]] THEN "sent" ELSE "failed" ]
  <1>1. \A m \in Node, u \in Thread :
            pc'[m][u] = IF m = n /\ u = t THEN label ELSE pc[m][u]
    BY DEF TypeOK, Goto
  <1>2. \A c \in calls : c.from \in Node /\ c.thread \in Thread
    BY DEF TypeOK, Call
  <1>3. /\ request.from = n /\ request.thread = t /\ request.live
        /\ request.gateway = Expected(n, label)
    OBVIOUS
  <1>4. calls' = calls \cup {request}
    BY DEF Notify
  <1> HIDE DEF request
  <1>5. \A c \in calls : c.live => ~(c.from = n /\ c.thread = t)
    BY DEF Waits, Matched
  <1>6. Matched'
    <2> SUFFICES ASSUME NEW c \in calls', c.live
                 PROVE  /\ pc'[c.from][c.thread] \in waiting
                        /\ c.gateway = Expected(c.from, pc'[c.from][c.thread])
      BY DEF Matched, Expected
    <2>1. CASE c = request
      BY <1>1, <1>3, <2>1
    <2>2. CASE c \in calls
      BY <1>1, <1>2, <1>5, <2>2 DEF Waits, Matched
    <2> QED BY <1>4, <2>1, <2>2
  <1>7. Single'
    BY <1>3, <1>4, <1>5 DEF Waits, Single
  <1>8. Waited'
    BY <1>1, <1>3, <1>4 DEF Waits, Waited
  <1> QED BY <1>6, <1>7, <1>8 DEF Waits

(* A caller that gets the outcome of its request stops waiting, and the    *)
(* request is dead or gone.                                                *)
LEMMA ReceiveWaits ==
    ASSUME TypeOK, Waits, NEW c \in calls, c.live, NEW label,
           label \notin waiting, Goto(c.from, c.thread, label),
           \A d \in calls' : d.live => d \in calls \ {c},
           calls \ {c} \subseteq calls'
    PROVE  Waits'
  <1>1. \A d \in calls : d.from \in Node /\ d.thread \in Thread
    BY DEF TypeOK, Call
  <1>2. \A m \in Node, u \in Thread :
            pc'[m][u] = IF m = c.from /\ u = c.thread THEN label ELSE pc[m][u]
    BY <1>1 DEF TypeOK, Goto
  <1>3. \A d \in calls \ {c} : d.live => ~(d.from = c.from /\ d.thread = c.thread)
    BY DEF Waits, Single
  <1>4. Matched'
    BY <1>1, <1>2, <1>3 DEF Waits, Matched, Expected
  <1>5. Single'
    BY DEF Waits, Single
  <1>6. Waited'
    BY <1>2 DEF Waits, Waited
  <1> QED BY <1>4, <1>5, <1>6 DEF Waits

(* What an update of a request leaves alone.                               *)
LEMMA UpdatedCall ==
    ASSUME TypeOK, NEW c \in calls, NEW stage
    PROVE  LET later == [c EXCEPT !.stage = stage]
               dead == [c EXCEPT !.live = FALSE]
           IN  /\ later.from = c.from /\ later.thread = c.thread
               /\ later.gateway = c.gateway /\ later.live = c.live
               /\ dead.from = c.from /\ ~dead.live
  BY DEF TypeOK, Call

(* Progress of a request on the peer is not seen by the caller.            *)
LEMMA AdvanceWaits ==
    ASSUME TypeOK, Waits, NEW c \in calls, NEW stage, Advance(c, stage), UNCHANGED pc
    PROVE  Waits'
  <1> DEFINE later == [c EXCEPT !.stage = stage]
  <1>1. /\ later.from = c.from /\ later.thread = c.thread
        /\ later.gateway = c.gateway /\ later.live = c.live
    BY UpdatedCall
  <1>2. /\ calls' \subseteq (calls \ {c}) \cup {later}
        /\ calls \ {c} \subseteq calls'
        /\ c.live => later \in calls'
    BY DEF Advance
  <1> HIDE DEF later
  <1>3. Matched'
    BY <1>1, <1>2 DEF Waits, Matched, Expected
  <1>4. Single'
    BY <1>1, <1>2 DEF Waits, Single
  <1>5. Waited'
    <2> SUFFICES ASSUME NEW n \in Node, NEW t \in Thread, pc[n][t] \in waiting
                 PROVE  \E d \in calls' : d.live /\ d.from = n /\ d.thread = t
      BY DEF Waited
    <2>1. PICK d \in calls : d.live /\ d.from = n /\ d.thread = t
      BY DEF Waits, Waited
    <2>2. CASE d = c
      BY <1>1, <1>2, <2>1, <2>2
    <2>3. CASE d # c
      BY <1>2, <2>1, <2>3
    <2> QED BY <2>2, <2>3
  <1> QED BY <1>3, <1>4, <1>5 DEF Waits

(* An abandoned request may vanish.                                        *)
LEMMA LostWaits ==
    ASSUME Waits, NEW c \in calls, ~c.live, calls' = calls \ {c}, UNCHANGED pc
    PROVE  Waits'
  <1>1. Matched'
    BY DEF Waits, Matched, Expected
  <1>2. Single'
    BY DEF Waits, Single
  <1>3. Waited'
    BY DEF Waits, Waited
  <1> QED BY <1>1, <1>2, <1>3 DEF Waits

(* When a process ends, nobody waits in it, and who waits for it is told.  *)
LEMMA EndsWaits ==
    ASSUME TypeOK, Waits, NEW n \in Node, ProcessEnds(n)
    PROVE  Waits'
  <1>1. \A m \in Node, u \in Thread : pc'[m][u] = IF m = n THEN "idle" ELSE pc[m][u]
    BY DEF TypeOK, ProcessEnds
  <1>2. \A c \in calls : c.from \in Node /\ c.thread \in Thread
    BY DEF TypeOK, Call
  <1>3. \A d \in calls' : d.live =>
            \E c \in calls : c.live /\ c.from # n /\ d = [c EXCEPT !.stage = "failed"]
    <2> SUFFICES ASSUME NEW d \in calls', d.live
                 PROVE  \E c \in calls : c.live /\ c.from # n
                                         /\ d = [c EXCEPT !.stage = "failed"]
      OBVIOUS
    <2>1. PICK c \in calls :
               /\ IF c.from = n THEN c.stage \in {"sent", "applied"} ELSE c.live
               /\ d = IF c.from = n THEN [c EXCEPT !.live = FALSE]
                                    ELSE [c EXCEPT !.stage = "failed"]
      BY DEF ProcessEnds, calls_without
    <2>2. c.from # n
      BY <2>1, UpdatedCall
    <2> QED BY <2>1, <2>2
  <1>4. \A c \in calls : c.live /\ c.from # n => [c EXCEPT !.stage = "failed"] \in calls'
    BY DEF ProcessEnds, calls_without
  <1>5. Matched'
    <2> SUFFICES ASSUME NEW d \in calls', d.live
                 PROVE  /\ pc'[d.from][d.thread] \in waiting
                        /\ d.gateway = Expected(d.from, pc'[d.from][d.thread])
      BY DEF Matched, Expected
    <2>1. PICK c \in calls : c.live /\ c.from # n /\ d = [c EXCEPT !.stage = "failed"]
      BY <1>3
    <2>2. d.from = c.from /\ d.thread = c.thread /\ d.gateway = c.gateway
      BY <2>1, UpdatedCall
    <2> QED BY <1>1, <1>2, <2>1, <2>2 DEF Waits, Matched
  <1>6. Single'
    <2> SUFFICES ASSUME NEW d \in calls', NEW e \in calls', d.live, e.live,
                        d.from = e.from, d.thread = e.thread
                 PROVE  d = e
      BY DEF Single
    <2>1. PICK c \in calls : c.live /\ c.from # n /\ d = [c EXCEPT !.stage = "failed"]
      BY <1>3
    <2>2. PICK f \in calls : f.live /\ f.from # n /\ e = [f EXCEPT !.stage = "failed"]
      BY <1>3
    <2>3. d.from = c.from /\ d.thread = c.thread /\ e.from = f.from /\ e.thread = f.thread
      BY <2>1, <2>2, UpdatedCall
    <2>4. c = f
      BY <2>1, <2>2, <2>3 DEF Waits, Single
    <2> QED BY <2>1, <2>2, <2>4
  <1>7. Waited'
    <2> SUFFICES ASSUME NEW m \in Node, NEW u \in Thread, pc'[m][u] \in waiting
                 PROVE  \E d \in calls' : d.live /\ d.from = m /\ d.thread = u
      BY DEF Waited
    <2>1. m # n /\ pc[m][u] \in waiting
      BY <1>1 DEF waiting
    <2>2. PICK c \in calls : c.live /\ c.from = m /\ c.thread = u
      BY <2>1 DEF Waits, Waited
    <2>3. [c EXCEPT !.stage = "failed"] \in calls'
      BY <1>4, <2>1, <2>2
    <2>4. LET d == [c EXCEPT !.stage = "failed"]
          IN  d.live = c.live /\ d.from = c.from /\ d.thread = c.thread
      BY UpdatedCall
    <2> QED BY <2>2, <2>3, <2>4
  <1> QED BY <1>5, <1>6, <1>7 DEF Waits

-----------------------------------------------------------------------------
(* What an election knows of the past.                                     *)

(* A session that is up was seen up.                                       *)
SeenSession == \A n \in Node : session[n] = "Up" => seen[n]

(* A request queued with peer_was_up comes from a session that was up.     *)
SeenQueue ==
    \A n \in Node : (\E i \in 1..Len(queue[n]) : queue[n][i] = TRUE) => seen[n]

Seen == SeenSession /\ SeenQueue

(* Queuing peer_was_up is sound for a session that was seen up.            *)
LEMMA QueueSeen ==
    ASSUME TypeOK, SeenQueue, NEW n \in Node, NEW peer_was_up \in BOOLEAN,
           queue_election(n, peer_was_up), peer_was_up => seen'[n],
           \A m \in Node : seen[m] => seen'[m]
    PROVE  SeenQueue'
  <1> SUFFICES ASSUME NEW m \in Node, NEW i \in 1..Len(queue'[m]), queue'[m][i] = TRUE
               PROVE  seen'[m]
    BY DEF SeenQueue
  <1>1. CASE queue'[m] = queue[m]
    BY <1>1 DEF SeenQueue
  <1>2. CASE queue'[m] # queue[m]
    <2>1. m = n /\ queue'[n] = Append(queue[n], peer_was_up)
      BY <1>2 DEF queue_election, TypeOK
    <2>2. queue[n] \in Seq(BOOLEAN)
      BY DEF TypeOK
    <2>3. CASE i \in 1..Len(queue[n])
      <3>1. queue[n][i] = TRUE
        BY <2>1, <2>2, <2>3
      <3> QED BY <2>1, <2>3, <3>1 DEF SeenQueue
    <2>4. CASE i = Len(queue[n]) + 1
      <3>1. peer_was_up = TRUE
        BY <2>1, <2>2, <2>4
      <3> QED BY <2>1, <3>1
    <2> QED BY <2>1, <2>2, <2>3, <2>4
  <1> QED BY <1>1, <1>2

(* A packet keeps the history: a session that comes up is seen up.         *)
LEMMA HearSeen ==
    ASSUME TypeOK, Seen, NEW n \in Node, Hear(n)
    PROVE  Seen'
  <1> DEFINE s == on_packet(session[n], session[Peer[n]])
  <1>1. /\ session' = [session EXCEPT ![n] = s]
        /\ seen' = [seen EXCEPT ![n] = seen[n] \/ s = "Up"]
        /\ IF s # session[n] THEN queue_election(n, s = "Up") ELSE UNCHANGED queue
    BY DEF Hear
  <1> HIDE DEF s
  <1>2. /\ s = "Up" => seen'[n]
        /\ \A m \in Node : seen[m] => seen'[m]
    BY <1>1 DEF TypeOK
  <1>3. SeenSession'
    BY <1>1, <1>2 DEF TypeOK, Seen, SeenSession
  <1>4. SeenQueue'
    <2>1. CASE s # session[n]
      BY <1>1, <1>2, <2>1, QueueSeen DEF Seen
    <2>2. CASE s = session[n]
      BY <1>1, <1>2, <2>2 DEF Seen, SeenQueue
    <2> QED BY <2>1, <2>2
  <1> QED BY <1>3, <1>4 DEF Seen

(* A timeout that queues peer_was_up ends a session that was up.           *)
LEMMA ExpireSeen ==
    ASSUME TypeOK, Seen, NEW n \in Node, Expire(n)
    PROVE  Seen'
  <1>1. SeenSession'
    BY DEF TypeOK, Seen, SeenSession, Expire
  <1>2. SeenQueue'
    <2>1. CASE session[n] = "Up"
      <3>1. seen[n] /\ seen' = seen
        BY <2>1 DEF Seen, SeenSession, Expire
      <3> QED BY <2>1, <3>1, QueueSeen DEF Seen, Expire
    <2>2. CASE session[n] # "Up"
      BY <2>2 DEF Seen, SeenQueue, Expire
    <2> QED BY <2>1, <2>2
  <1> QED BY <1>1, <1>2 DEF Seen

(* What is left of a sequence without its first element.                   *)
LEMMA TailElement ==
    ASSUME NEW q \in Seq(BOOLEAN), q # <<>>
    PROVE  /\ Tail(q) \in Seq(BOOLEAN) /\ Len(q) \in Nat /\ Len(Tail(q)) = Len(q) - 1
           /\ \A i \in 1..Len(Tail(q)) : i + 1 \in 1..Len(q) /\ Tail(q)[i] = q[i + 1]
  BY HeadTailProperties, LenProperties

(* The worker takes the oldest request.                                    *)
LEMMA TakeSeen ==
    ASSUME TypeOK, Seen, NEW n \in Node, queue[n] # <<>>,
           queue' = [queue EXCEPT ![n] = Tail(@)], UNCHANGED <<session, seen>>
    PROVE  Seen' /\ (Head(queue[n]) => seen[n])
  <1>1. SeenSession'
    BY DEF Seen, SeenSession
  <1>2. queue[n] \in Seq(BOOLEAN)
    BY DEF TypeOK
  <1>3. SeenQueue'
    <2> SUFFICES ASSUME NEW m \in Node, NEW i \in 1..Len(queue'[m]), queue'[m][i] = TRUE
                 PROVE  seen[m]
      BY DEF SeenQueue
    <2>1. CASE m # n
      BY <2>1 DEF Seen, SeenQueue, TypeOK
    <2>2. CASE m = n
      <3>1. queue'[n] = Tail(queue[n])
        BY DEF TypeOK
      <3>2. i + 1 \in 1..Len(queue[n]) /\ queue[n][i + 1] = TRUE
        BY <1>2, <2>2, <3>1, TailElement
      <3> QED BY <2>2, <3>2 DEF Seen, SeenQueue
    <2> QED BY <2>1, <2>2
  <1>4. Head(queue[n]) => seen[n]
    <2>1. 1 \in 1..Len(queue[n]) /\ Head(queue[n]) = queue[n][1] /\ queue[n][1] \in BOOLEAN
      BY <1>2
    <2> QED BY <2>1 DEF Seen, SeenQueue
  <1> QED BY <1>1, <1>3, <1>4 DEF Seen

(* A process that ends forgets the session together with its history.      *)
LEMMA EndsSeen ==
    ASSUME TypeOK, Seen, NEW n \in Node, ProcessEnds(n)
    PROVE  Seen'
  <1>1. SeenSession'
    BY DEF TypeOK, Seen, SeenSession, ProcessEnds
  <1>2. SeenQueue'
    BY DEF TypeOK, Seen, SeenQueue, ProcessEnds
  <1> QED BY <1>1, <1>2 DEF Seen

(* A step that leaves the session, the queue and the history alone.        *)
LEMMA SameSeen ==
    ASSUME Seen, UNCHANGED <<session, queue, seen>>
    PROVE  Seen'
  BY DEF Seen, SeenSession, SeenQueue

-----------------------------------------------------------------------------
(* The invariant and its preservation by every action.                     *)

(* Every step keeps the types.                                             *)
LEMMA TypeStep == TypeOK /\ [Next]_vars => TypeOK'
  <1> SUFFICES ASSUME TypeOK, [Next]_vars PROVE TypeOK'
    OBVIOUS
  <1>1. ASSUME NEW n \in Node, Hear(n) PROVE TypeOK'
    <2> DEFINE s == on_packet(session[n], session[Peer[n]])
    <2>1. s \in {"Down", "Init", "Up"}
      BY PeerType, OnPacketType DEF TypeOK
    <2>2. session' \in [Node -> {"Down", "Init", "Up"}]
      BY <1>1, <2>1 DEF Hear, TypeOK
    <2>3. bfd' \in [Node -> {"down", "negotiating", "up", "error"}]
      BY <1>1 DEF Hear, TypeOK
    <2>4. seen' \in [Node -> BOOLEAN]
      <3>1. (seen[n] \/ s = "Up") \in BOOLEAN
        OBVIOUS
      <3> QED BY <1>1, <3>1 DEF Hear, TypeOK
    <2>5. /\ queue' \in [Node -> Seq(BOOLEAN)]
          /\ \A m \in Node : Len(queue'[m]) <= QueueCap
      <3>1. CASE s # session[n]
        BY <1>1, <3>1, QueueType, (s = "Up") \in BOOLEAN DEF Hear
      <3>2. CASE s = session[n]
        BY <1>1, <3>2 DEF Hear, TypeOK
      <3> QED BY <3>1, <3>2
    <2> QED BY <1>1, <2>2, <2>3, <2>4, <2>5 DEF TypeOK, Hear, data, bounds
  <1>2. ASSUME NEW n \in Node, Expire(n) PROVE TypeOK'
    <2>1. /\ queue' \in [Node -> Seq(BOOLEAN)]
          /\ \A m \in Node : Len(queue'[m]) <= QueueCap
      BY <1>2, QueueType DEF Expire, TypeOK
    <2>2. losses' \in Nat
      BY <1>2 DEF Expire, TypeOK
    <2> QED BY <1>2, <2>1, <2>2 DEF TypeOK, Expire, data, bounds
  <1>3. ASSUME NEW n \in Node, SocketError(n) PROVE TypeOK'
    BY <1>3 DEF TypeOK, SocketError, data
  <1>4. ASSUME NEW n \in Node, ElectionTake(n) PROVE TypeOK'
    <2>1. /\ queue' \in [Node -> Seq(BOOLEAN)]
          /\ \A m \in Node : Len(queue'[m]) <= QueueCap
      <3>1. /\ Tail(queue[n]) \in Seq(BOOLEAN) /\ Len(queue[n]) \in Nat
            /\ Len(Tail(queue[n])) = Len(queue[n]) - 1 /\ Len(queue[n]) <= QueueCap
        BY <1>4, TailElement DEF ElectionTake, TypeOK
      <3>2. Len(Tail(queue[n])) <= QueueCap
        BY <3>1, BoundAssumption
      <3> QED BY <1>4, <3>1, <3>2 DEF ElectionTake, TypeOK
    <2>2. pc' \in [Node -> [Thread -> Pc]] /\ asked' \in [Node -> Nat]
      <3>1. "ask" \in Pc /\ "bind" \in Pc /\ "probe" \in Pc /\ "idle" \in Pc /\ "election" \in Thread
        BY DEF Pc, Thread
      <3> QED BY <1>4, <3>1, GotoType DEF ElectionTake, TypeOK
    <2> QED BY <1>4, <2>1, <2>2 DEF TypeOK, ElectionTake, data, bounds
  <1>5. ASSUME NEW n \in Node, Probe(n) PROVE TypeOK'
    <2>1. "bind" \in Pc /\ "idle" \in Pc /\ "election" \in Thread
      BY DEF Pc, Thread
    <2>2. \E label \in Pc : Goto(n, "election", label)
      BY <1>5, <2>1 DEF Probe
    <2>3. pc' \in [Node -> [Thread -> Pc]]
      BY <2>1, <2>2, GotoType
    <2>4. losses' \in Nat
      <3>1. losses \in Nat /\ (losses' = losses \/ losses' = losses + 1)
        BY <1>5 DEF Probe, TypeOK
      <3> QED BY <3>1
    <2> QED BY <1>5, <2>3, <2>4 DEF TypeOK, Probe, data, bfdVars
  <1>6. ASSUME NEW n \in Node, AskState(n) PROVE TypeOK'
    <2>1. "ask_revision" \in Pc /\ "idle" \in Pc /\ "election" \in Thread
      BY DEF Pc, Thread
    <2>2. pc' \in [Node -> [Thread -> Pc]]
      BY <1>6, <2>1, GotoType DEF AskState
    <2>3. asked' \in [Node -> Nat]
      <3>1. asked' = asked \/ asked' = [asked EXCEPT ![n] = 0]
        BY <1>6 DEF AskState
      <3>2. asked \in [Node -> Nat]
        BY DEF TypeOK
      <3> QED BY <3>1, <3>2
    <2> QED BY <1>6, <2>2, <2>3 DEF TypeOK, AskState, data, bfdVars, bounds
  <1>7. ASSUME NEW n \in Node, AskRevision(n) PROVE TypeOK'
    <2>1. "release" \in Pc /\ "idle" \in Pc /\ "election" \in Thread
      BY DEF Pc, Thread
    <2>2. pc' \in [Node -> [Thread -> Pc]]
      BY <1>7, <2>1, GotoType DEF AskRevision
    <2>3. asked' \in [Node -> Nat]
      BY <1>7 DEF AskRevision, TypeOK
    <2> QED BY <1>7, <2>2, <2>3 DEF TypeOK, AskRevision, data, bfdVars, bounds
  <1>8. ASSUME NEW n \in Node, AskFails(n) PROVE TypeOK'
    <2>1. "idle" \in Pc /\ "election" \in Thread
      BY DEF Pc, Thread
    <2>2. pc' \in [Node -> [Thread -> Pc]]
      BY <1>8, <2>1, GotoType DEF AskFails
    <2>3. asked' \in [Node -> Nat]
      BY <1>8 DEF AskFails, TypeOK
    <2>4. losses' \in Nat
      BY <1>8 DEF AskFails, TypeOK
    <2>5. UNCHANGED <<data, vip, up, stopping, link, bfdVars, calls, switches, outages, viperrors>>
      BY <1>8 DEF AskFails
    <2> QED BY <2>2, <2>3, <2>4, <2>5 DEF TypeOK, data, bfdVars
  <1>9. ASSUME NEW n \in Node, NEW target \in Node, Failover(n, target) PROVE TypeOK'
    <2>1. "takeover" \in Pc /\ "bind" \in Pc /\ "release" \in Pc /\ "api" \in Thread
      BY DEF Pc, Thread
    <2>2. pc' \in [Node -> [Thread -> Pc]]
      BY <1>9, <2>1, GotoType DEF Failover
    <2>3. calls' \subseteq Call
      BY <1>9, <2>1, NotifyType DEF Failover, TypeOK
    <2> QED BY <1>9, <2>2, <2>3 DEF TypeOK, Failover, data, bfdVars
  <1>10. ASSUME NEW n \in Node, NEW t \in Thread, Bind(n, t) PROVE TypeOK'
    <2>1. "commit_local" \in Pc
      BY DEF Pc
    <2>2. pc' \in [Node -> [Thread -> Pc]]
      BY <1>10, <2>1, GotoType DEF Bind
    <2> QED BY <1>10, <2>2 DEF TypeOK, Bind, bind_vip_on_device, data, bfdVars, bounds
  <1>11. ASSUME NEW n \in Node, NEW t \in Thread, BindFails(n, t) PROVE TypeOK'
    <2>1. pc' \in [Node -> [Thread -> Pc]]
      BY <1>11, GotoType, FailType, "restore_peer" \in Pc DEF BindFails, Pc
    <2>2. calls' \subseteq Call
      BY <1>11, NotifyType, PeerType DEF BindFails, TypeOK
    <2>3. vip' \in [Node -> BOOLEAN]
      BY <1>11 DEF BindFails, announce_vip_fails, TypeOK
    <2> QED BY <1>11, <2>1, <2>2, <2>3 DEF TypeOK, BindFails, data, bfdVars
  <1>12. ASSUME NEW n \in Node, NEW t \in Thread, CommitLocal(n, t) PROVE TypeOK'
    <2>1. "idle" \in Pc
      BY DEF Pc
    <2>2. pc' \in [Node -> [Thread -> Pc]]
      BY <1>12, <2>1, GotoType DEF CommitLocal
    <2> QED BY <1>12, <2>2, WriteType DEF TypeOK, CommitLocal, bfdVars, bounds
  <1>13. ASSUME NEW n \in Node, NEW t \in Thread, Release(n, t) PROVE TypeOK'
    <2>1. "handoff" \in Pc
      BY DEF Pc
    <2>2. pc' \in [Node -> [Thread -> Pc]]
      BY <1>13, <2>1, GotoType DEF Release
    <2>3. calls' \subseteq Call
      BY <1>13, NotifyType, PeerType DEF Release
    <2> QED BY <1>13, <2>2, <2>3 DEF TypeOK, Release, release_vip_on_device, data, bfdVars, bounds
  <1>14. ASSUME NEW n \in Node, NEW t \in Thread, ReleaseFails(n, t) PROVE TypeOK'
    <2>1. pc' \in [Node -> [Thread -> Pc]]
      BY <1>14, FailType DEF ReleaseFails
    <2> QED BY <1>14, <2>1 DEF TypeOK, ReleaseFails, data, bfdVars
  <1>15. ASSUME NEW n \in Node, NEW t \in Thread, Restore(n, t) PROVE TypeOK'
    <2>1. pc' \in [Node -> [Thread -> Pc]]
      BY <1>15, FailType DEF Restore
    <2>2. vip' \in [Node -> BOOLEAN] /\ viperrors' \in Nat
      <3>1. /\ vip' = vip \/ \E bound \in BOOLEAN : vip' = [vip EXCEPT ![n] = bound]
            /\ viperrors' = viperrors \/ viperrors' = viperrors + 1
        BY <1>15 DEF Restore, bind_vip_on_device, announce_vip_fails
      <3>2. vip \in [Node -> BOOLEAN] /\ viperrors \in Nat
        BY DEF TypeOK
      <3>3. vip' \in [Node -> BOOLEAN]
        BY <3>1, <3>2, VipType
      <3> QED BY <3>1, <3>2, <3>3
    <2> QED BY <1>15, <2>1, <2>2 DEF TypeOK, Restore, data, bfdVars
  <1>16. ASSUME NEW n \in Node, NEW t \in Thread, CommitPeer(n, t) PROVE TypeOK'
    <2>1. "idle" \in Pc
      BY DEF Pc
    <2>2. pc' \in [Node -> [Thread -> Pc]]
      BY <1>16, <2>1, GotoType DEF CommitPeer
    <2> QED BY <1>16, <2>2, WriteType, PeerType DEF TypeOK, CommitPeer, bfdVars, bounds
  <1>17. ASSUME NEW c \in calls, Answer(c) PROVE TypeOK'
    <2>1. c.from \in Node /\ c.thread \in Thread
      BY DEF TypeOK, Call
    <2>2. pc' \in [Node -> [Thread -> Pc]]
      BY <1>17, <2>1, ReturnType, (c.stage = "ok") \in BOOLEAN DEF Answer
    <2> QED BY <1>17, <2>2 DEF TypeOK, Answer, data, bfdVars, bounds
  <1>18. ASSUME NEW c \in calls, CallFails(c) PROVE TypeOK'
    <2>1. c.from \in Node /\ c.thread \in Thread /\ [c EXCEPT !.live = FALSE] \in Call
      BY DEF TypeOK, Call
    <2>2. pc' \in [Node -> [Thread -> Pc]]
      BY <1>18, <2>1, ReturnType, FALSE \in BOOLEAN DEF CallFails
    <2>3. calls' \subseteq Call
      BY <1>18, <2>1 DEF CallFails, TypeOK
    <2> QED BY <1>18, <2>2, <2>3 DEF TypeOK, CallFails, data, bfdVars
  <1>19. ASSUME NEW c \in calls, Activate(c) PROVE TypeOK'
    <2>1. calls' \subseteq Call
      BY <1>19, AdvanceType DEF Activate
    <2>2. vip' \in [Node -> BOOLEAN] /\ viperrors' \in Nat
      <3>1. (c.gateway = Peer[c.from]) \in BOOLEAN
        OBVIOUS
      <3>2. c.from \in Node /\ Peer[c.from] \in Node
        BY PeerType DEF TypeOK, Call
      <3>3. /\ \E bound \in BOOLEAN : vip' = [vip EXCEPT ![Peer[c.from]] = bound]
            /\ viperrors' = viperrors \/ viperrors' = viperrors + 1
        BY <1>19, <3>1 DEF Activate
      <3> QED BY <3>2, <3>3, VipType DEF TypeOK
    <2> QED BY <1>19, <2>1, <2>2 DEF TypeOK, Activate, data, bfdVars
  <1>20. ASSUME NEW c \in calls, ActivateCommit(c) PROVE TypeOK'
    <2>1. calls' \subseteq Call
      BY <1>20, AdvanceType DEF ActivateCommit
    <2>2. c.from \in Node /\ c.gateway \in Node
      BY DEF TypeOK, Call
    <2> QED BY <1>20, <2>1, <2>2, WriteType, PeerType DEF TypeOK, ActivateCommit, bfdVars, bounds
  <1>21. ASSUME NEW c \in calls, Lost(c) PROVE TypeOK'
    BY <1>21 DEF TypeOK, Lost, data, bfdVars, bounds
  <1>22. ASSUME NEW n \in Node, Watch(n) PROVE TypeOK'
    <2>1. "unbind" \in Pc /\ "rebind" \in Pc /\ "main" \in Thread
      BY DEF Pc, Thread
    <2>2. pc' \in [Node -> [Thread -> Pc]]
      BY <1>22, <2>1, GotoType DEF Watch
    <2> QED BY <1>22, <2>2 DEF TypeOK, Watch, data, bfdVars, bounds
  <1>23. ASSUME NEW n \in Node, ReconcileVip(n) PROVE TypeOK'
    <2>1. "idle" \in Pc /\ "main" \in Thread
      BY DEF Pc, Thread
    <2>2. pc' \in [Node -> [Thread -> Pc]]
      BY <1>23, <2>1, GotoType DEF ReconcileVip
    <2>3. vip' \in [Node -> BOOLEAN] /\ viperrors' \in Nat
      <3>1. /\ vip' = vip \/ \E bound \in BOOLEAN : vip' = [vip EXCEPT ![n] = bound]
            /\ viperrors' = viperrors \/ viperrors' = viperrors + 1
        BY <1>23 DEF ReconcileVip, bind_vip_on_device, release_vip_on_device
      <3>2. vip \in [Node -> BOOLEAN] /\ viperrors \in Nat
        BY DEF TypeOK
      <3>3. vip' \in [Node -> BOOLEAN]
        BY <3>1, <3>2, VipType
      <3> QED BY <3>1, <3>2, <3>3
    <2> QED BY <1>23, <2>2, <2>3 DEF TypeOK, ReconcileVip, data, bfdVars
  <1>24. ASSUME NEW n \in Node, Stop(n) PROVE TypeOK'
    <2>1. "release" \in Pc /\ "stop_release" \in Pc /\ "main" \in Thread
      BY DEF Pc, Thread
    <2>2. pc' \in [Node -> [Thread -> Pc]]
      BY <1>24, <2>1, GotoType DEF Stop
    <2>3. outages' \in Nat /\ stopping' \in [Node -> BOOLEAN]
      BY <1>24 DEF Stop, TypeOK
    <2> QED BY <1>24, <2>2, <2>3 DEF TypeOK, Stop, data, bfdVars
  <1>25. ASSUME NEW n \in Node, StopRelease(n) PROVE TypeOK'
    <2>1. "idle" \in Pc /\ "main" \in Thread
      BY DEF Pc, Thread
    <2>2. pc' \in [Node -> [Thread -> Pc]]
      BY <1>25, <2>1, GotoType DEF StopRelease
    <2>3. vip' \in [Node -> BOOLEAN] /\ viperrors' \in Nat
      <3>1. /\ vip' = vip \/ \E bound \in BOOLEAN : vip' = [vip EXCEPT ![n] = bound]
            /\ viperrors' = viperrors \/ viperrors' = viperrors + 1
        BY <1>25 DEF StopRelease, release_vip_on_device
      <3>2. vip \in [Node -> BOOLEAN] /\ viperrors \in Nat
        BY DEF TypeOK
      <3>3. vip' \in [Node -> BOOLEAN]
        BY <3>1, <3>2, VipType
      <3> QED BY <3>1, <3>2, <3>3
    <2> QED BY <1>25, <2>2, <2>3 DEF TypeOK, StopRelease, data, bfdVars
  <1>26. ASSUME NEW n \in Node, Exit(n) PROVE TypeOK'
    BY <1>26, EndsType DEF TypeOK, Exit, data, bounds
  <1>27. ASSUME NEW n \in Node, Crash(n) PROVE TypeOK'
    <2>1. vip' \in [Node -> BOOLEAN]
      <3>1. \A kept \in BOOLEAN : (vip[n] /\ kept) \in BOOLEAN
        OBVIOUS
      <3> QED BY <1>27, <3>1 DEF Crash, TypeOK
    <2>2. outages' \in Nat
      BY <1>27 DEF Crash, TypeOK
    <2> QED BY <1>27, <2>1, <2>2, EndsType DEF TypeOK, Crash, data
  <1>28. ASSUME NEW n \in Node, Restart(n) PROVE TypeOK'
    <2>1. local_gateway_is_active(n) \in BOOLEAN
      BY DEF local_gateway_is_active
    <2> QED BY <1>28, <2>1 DEF TypeOK, Restart, data, bfdVars, bounds
  <1>29. ASSUME Cut PROVE TypeOK'
    <2>1. outages \in Nat
      BY DEF TypeOK
    <2>2. outages' \in Nat
      BY <1>29, <2>1 DEF Cut
    <2>3. link' \in BOOLEAN
      BY <1>29 DEF Cut
    <2> QED BY <1>29, <2>2, <2>3 DEF TypeOK, Cut, data, bfdVars
  <1>30. ASSUME Heal PROVE TypeOK'
    BY <1>30 DEF TypeOK, Heal, data, bfdVars, bounds
  <1>31. ASSUME UNCHANGED vars PROVE TypeOK'
    BY <1>31 DEF TypeOK, vars
  <1> QED
    BY <1>1, <1>2, <1>3, <1>4, <1>5, <1>6, <1>7, <1>8, <1>9, <1>10, <1>11,
       <1>12, <1>13, <1>14, <1>15, <1>16, <1>17, <1>18, <1>19, <1>20, <1>21,
       <1>22, <1>23, <1>24, <1>25, <1>26, <1>27, <1>28, <1>29, <1>30, <1>31
       DEF Next, BfdLoop, ElectionWorker, SwitchStep, MainLoop,
       PeerActivate, Thread

(* Every step keeps the waits.                                            *)
LEMMA WaitsStep == TypeOK /\ Waits /\ [Next]_vars => Waits'
  <1> SUFFICES ASSUME TypeOK, Waits, [Next]_vars PROVE Waits'
    OBVIOUS
  <1>1. ASSUME NEW n \in Node, Hear(n) PROVE Waits'
    BY <1>1, SameWaits DEF Hear
  <1>2. ASSUME NEW n \in Node, Expire(n) PROVE Waits'
    BY <1>2, SameWaits DEF Expire
  <1>3. ASSUME NEW n \in Node, SocketError(n) PROVE Waits'
    BY <1>3, SameWaits DEF SocketError
  <1>4. ASSUME NEW n \in Node, ElectionTake(n) PROVE Waits'
    <2>1. \/ UNCHANGED pc
          \/ \E label : label \notin waiting /\ Goto(n, "election", label)
      BY <1>4 DEF ElectionTake, waiting
    <2>2. pc[n]["election"] \notin waiting /\ UNCHANGED calls
      BY <1>4 DEF ElectionTake, waiting
    <2> QED BY <2>1, <2>2, SameWaits, MoveWaits DEF Thread
  <1>5. ASSUME NEW n \in Node, Probe(n) PROVE Waits'
    <2>1. \E label : label \notin waiting /\ Goto(n, "election", label)
      BY <1>5 DEF Probe, waiting
    <2>2. pc[n]["election"] \notin waiting
      BY <1>5 DEF Probe, waiting
    <2> QED BY <1>5, <2>1, <2>2, MoveWaits DEF Probe, Thread
  <1>6. ASSUME NEW n \in Node, AskState(n) PROVE Waits'
    <2>1. \E label : label \notin waiting /\ Goto(n, "election", label)
      BY <1>6 DEF AskState, waiting
    <2>2. pc[n]["election"] \notin waiting
      BY <1>6 DEF AskState, waiting
    <2> QED BY <1>6, <2>1, <2>2, MoveWaits DEF AskState, Thread
  <1>7. ASSUME NEW n \in Node, AskRevision(n) PROVE Waits'
    <2>1. \E label : label \notin waiting /\ Goto(n, "election", label)
      BY <1>7 DEF AskRevision, waiting
    <2>2. pc[n]["election"] \notin waiting
      BY <1>7 DEF AskRevision, waiting
    <2> QED BY <1>7, <2>1, <2>2, MoveWaits DEF AskRevision, Thread
  <1>8. ASSUME NEW n \in Node, AskFails(n) PROVE Waits'
    <2>1. \E label : label \notin waiting /\ Goto(n, "election", label)
      BY <1>8 DEF AskFails, waiting
    <2>2. pc[n]["election"] \notin waiting
      BY <1>8 DEF AskFails, waiting
    <2> QED BY <1>8, <2>1, <2>2, MoveWaits DEF AskFails, Thread
  <1>9. ASSUME NEW n \in Node, NEW target \in Node, Failover(n, target) PROVE Waits'
    <2>1. pc[n]["api"] \notin waiting /\ "api" \in Thread
      BY <1>9 DEF Failover, waiting, Thread
    <2>2. CASE Notify(n, "api", n) /\ Goto(n, "api", "takeover")
      BY <2>1, <2>2, SendWaits, "takeover" \in waiting DEF waiting, Expected
    <2>3. CASE \E label : label \notin waiting /\ Goto(n, "api", label) /\ UNCHANGED calls
      BY <2>1, <2>3, MoveWaits
    <2> QED BY <1>9, <2>2, <2>3 DEF Failover, waiting
  <1>10. ASSUME NEW n \in Node, NEW t \in Thread, Bind(n, t) PROVE Waits'
    <2>1. \E label : label \notin waiting /\ Goto(n, t, label)
      BY <1>10 DEF Bind, waiting
    <2>2. pc[n][t] \notin waiting
      BY <1>10 DEF Bind, waiting
    <2> QED BY <1>10, <2>1, <2>2, MoveWaits DEF Bind
  <1>11. ASSUME NEW n \in Node, NEW t \in Thread, BindFails(n, t) PROVE Waits'
    <2>1. pc[n][t] \notin waiting
      BY <1>11 DEF BindFails, waiting
    <2>2. CASE Notify(n, t, Peer[n]) /\ Goto(n, t, "restore_peer")
      BY <2>1, <2>2, SendWaits, "restore_peer" \in waiting DEF waiting, Expected
    <2>3. CASE \E label : label \notin waiting /\ Goto(n, t, label) /\ UNCHANGED calls
      BY <2>1, <2>3, MoveWaits
    <2> QED BY <1>11, <2>2, <2>3 DEF BindFails, Fail, waiting
  <1>12. ASSUME NEW n \in Node, NEW t \in Thread, CommitLocal(n, t) PROVE Waits'
    <2>1. \E label : label \notin waiting /\ Goto(n, t, label)
      BY <1>12 DEF CommitLocal, waiting
    <2>2. pc[n][t] \notin waiting
      BY <1>12 DEF CommitLocal, waiting
    <2> QED BY <1>12, <2>1, <2>2, MoveWaits DEF CommitLocal
  <1>13. ASSUME NEW n \in Node, NEW t \in Thread, Release(n, t) PROVE Waits'
    <2>1. pc[n][t] \notin waiting
      BY <1>13 DEF Release, waiting
    <2>2. Notify(n, t, Expected(n, "handoff")) /\ Goto(n, t, "handoff")
      BY <1>13 DEF Release, Expected
    <2> QED BY <2>1, <2>2, SendWaits, "handoff" \in waiting DEF waiting
  <1>14. ASSUME NEW n \in Node, NEW t \in Thread, ReleaseFails(n, t) PROVE Waits'
    <2>1. \E label : label \notin waiting /\ Goto(n, t, label)
      BY <1>14 DEF ReleaseFails, Fail, waiting
    <2>2. pc[n][t] \notin waiting
      BY <1>14 DEF ReleaseFails, waiting
    <2> QED BY <1>14, <2>1, <2>2, MoveWaits DEF ReleaseFails
  <1>15. ASSUME NEW n \in Node, NEW t \in Thread, Restore(n, t) PROVE Waits'
    <2>1. \E label : label \notin waiting /\ Goto(n, t, label)
      BY <1>15 DEF Restore, Fail, waiting
    <2>2. pc[n][t] \notin waiting
      BY <1>15 DEF Restore, waiting
    <2> QED BY <1>15, <2>1, <2>2, MoveWaits DEF Restore
  <1>16. ASSUME NEW n \in Node, NEW t \in Thread, CommitPeer(n, t) PROVE Waits'
    <2>1. \E label : label \notin waiting /\ Goto(n, t, label)
      BY <1>16 DEF CommitPeer, waiting
    <2>2. pc[n][t] \notin waiting
      BY <1>16 DEF CommitPeer, waiting
    <2> QED BY <1>16, <2>1, <2>2, MoveWaits DEF CommitPeer
  <1>17. ASSUME NEW c \in calls, Answer(c) PROVE Waits'
    <2>1. c.live /\ \E label : label \notin waiting /\ Goto(c.from, c.thread, label)
      BY <1>17 DEF Answer, Return, waiting
    <2>2. /\ \A d \in calls' : d.live => d \in calls \ {c}
          /\ calls \ {c} \subseteq calls'
      BY <1>17 DEF Answer
    <2> QED BY <2>1, <2>2, ReceiveWaits
  <1>18. ASSUME NEW c \in calls, CallFails(c) PROVE Waits'
    <2>1. c.live /\ \E label : label \notin waiting /\ Goto(c.from, c.thread, label)
      BY <1>18 DEF CallFails, Return, waiting
    <2>2. /\ \A d \in calls' : d.live => d \in calls \ {c}
          /\ calls \ {c} \subseteq calls'
      <3>1. ~[c EXCEPT !.live = FALSE].live
        BY UpdatedCall
      <3> QED BY <1>18, <3>1 DEF CallFails
    <2> QED BY <2>1, <2>2, ReceiveWaits
  <1>19. ASSUME NEW c \in calls, Activate(c) PROVE Waits'
    BY <1>19, AdvanceWaits DEF Activate
  <1>20. ASSUME NEW c \in calls, ActivateCommit(c) PROVE Waits'
    BY <1>20, AdvanceWaits DEF ActivateCommit
  <1>21. ASSUME NEW c \in calls, Lost(c) PROVE Waits'
    BY <1>21, LostWaits DEF Lost
  <1>22. ASSUME NEW n \in Node, Watch(n) PROVE Waits'
    <2>1. \E label : label \notin waiting /\ Goto(n, "main", label)
      BY <1>22 DEF Watch, waiting
    <2>2. pc[n]["main"] \notin waiting
      BY <1>22 DEF Watch, waiting
    <2> QED BY <1>22, <2>1, <2>2, MoveWaits DEF Watch, Thread
  <1>23. ASSUME NEW n \in Node, ReconcileVip(n) PROVE Waits'
    <2>1. \E label : label \notin waiting /\ Goto(n, "main", label)
      BY <1>23 DEF ReconcileVip, waiting
    <2>2. pc[n]["main"] \notin waiting
      BY <1>23 DEF ReconcileVip, waiting
    <2> QED BY <1>23, <2>1, <2>2, MoveWaits DEF ReconcileVip, Thread
  <1>24. ASSUME NEW n \in Node, Stop(n) PROVE Waits'
    <2>1. \E label : label \notin waiting /\ Goto(n, "main", label)
      BY <1>24 DEF Stop, waiting
    <2>2. pc[n]["main"] \notin waiting
      BY <1>24 DEF Stop, waiting
    <2> QED BY <1>24, <2>1, <2>2, MoveWaits DEF Stop, Thread
  <1>25. ASSUME NEW n \in Node, StopRelease(n) PROVE Waits'
    <2>1. \E label : label \notin waiting /\ Goto(n, "main", label)
      BY <1>25 DEF StopRelease, waiting
    <2>2. pc[n]["main"] \notin waiting
      BY <1>25 DEF StopRelease, waiting
    <2> QED BY <1>25, <2>1, <2>2, MoveWaits DEF StopRelease, Thread
  <1>26. ASSUME NEW n \in Node, Exit(n) PROVE Waits'
    BY <1>26, EndsWaits DEF Exit
  <1>27. ASSUME NEW n \in Node, Crash(n) PROVE Waits'
    BY <1>27, EndsWaits DEF Crash
  <1>28. ASSUME NEW n \in Node, Restart(n) PROVE Waits'
    BY <1>28, SameWaits DEF Restart
  <1>29. ASSUME Cut PROVE Waits'
    BY <1>29, SameWaits DEF Cut
  <1>30. ASSUME Heal PROVE Waits'
    BY <1>30, SameWaits DEF Heal
  <1>31. ASSUME UNCHANGED vars PROVE Waits'
    BY <1>31, SameWaits DEF vars
  <1> QED
    BY <1>1, <1>2, <1>3, <1>4, <1>5, <1>6, <1>7, <1>8, <1>9, <1>10, <1>11,
       <1>12, <1>13, <1>14, <1>15, <1>16, <1>17, <1>18, <1>19, <1>20, <1>21,
       <1>22, <1>23, <1>24, <1>25, <1>26, <1>27, <1>28, <1>29, <1>30, <1>31
       DEF Next, BfdLoop, ElectionWorker, SwitchStep, MainLoop,
       PeerActivate, Thread

(* Every step keeps what elections know of the past.                      *)
LEMMA SeenStep == TypeOK /\ Seen /\ [Next]_vars => Seen'
  <1> SUFFICES ASSUME TypeOK, Seen, [Next]_vars PROVE Seen'
    OBVIOUS
  <1>1. ASSUME NEW n \in Node, Hear(n) PROVE Seen'
    BY <1>1, HearSeen
  <1>2. ASSUME NEW n \in Node, Expire(n) PROVE Seen'
    BY <1>2, ExpireSeen
  <1>3. ASSUME NEW n \in Node, SocketError(n) PROVE Seen'
    BY <1>3, SameSeen DEF SocketError
  <1>4. ASSUME NEW n \in Node, ElectionTake(n) PROVE Seen'
    BY <1>4, TakeSeen DEF ElectionTake
  <1>5. ASSUME NEW n \in Node, Probe(n) PROVE Seen'
    BY <1>5, SameSeen DEF Probe, bfdVars
  <1>6. ASSUME NEW n \in Node, AskState(n) PROVE Seen'
    BY <1>6, SameSeen DEF AskState, bfdVars
  <1>7. ASSUME NEW n \in Node, AskRevision(n) PROVE Seen'
    BY <1>7, SameSeen DEF AskRevision, bfdVars
  <1>8. ASSUME NEW n \in Node, AskFails(n) PROVE Seen'
    BY <1>8, SameSeen DEF AskFails, bfdVars
  <1>9. ASSUME NEW n \in Node, NEW target \in Node, Failover(n, target) PROVE Seen'
    BY <1>9, SameSeen DEF Failover, bfdVars
  <1>10. ASSUME NEW n \in Node, NEW t \in Thread, Bind(n, t) PROVE Seen'
    BY <1>10, SameSeen DEF Bind, bfdVars
  <1>11. ASSUME NEW n \in Node, NEW t \in Thread, BindFails(n, t) PROVE Seen'
    BY <1>11, SameSeen DEF BindFails, bfdVars
  <1>12. ASSUME NEW n \in Node, NEW t \in Thread, CommitLocal(n, t) PROVE Seen'
    BY <1>12, SameSeen DEF CommitLocal, bfdVars
  <1>13. ASSUME NEW n \in Node, NEW t \in Thread, Release(n, t) PROVE Seen'
    BY <1>13, SameSeen DEF Release, bfdVars
  <1>14. ASSUME NEW n \in Node, NEW t \in Thread, ReleaseFails(n, t) PROVE Seen'
    BY <1>14, SameSeen DEF ReleaseFails, bfdVars
  <1>15. ASSUME NEW n \in Node, NEW t \in Thread, Restore(n, t) PROVE Seen'
    BY <1>15, SameSeen DEF Restore, bfdVars
  <1>16. ASSUME NEW n \in Node, NEW t \in Thread, CommitPeer(n, t) PROVE Seen'
    BY <1>16, SameSeen DEF CommitPeer, bfdVars
  <1>17. ASSUME NEW c \in calls, Answer(c) PROVE Seen'
    BY <1>17, SameSeen DEF Answer, bfdVars
  <1>18. ASSUME NEW c \in calls, CallFails(c) PROVE Seen'
    BY <1>18, SameSeen DEF CallFails, bfdVars
  <1>19. ASSUME NEW c \in calls, Activate(c) PROVE Seen'
    BY <1>19, SameSeen DEF Activate, bfdVars
  <1>20. ASSUME NEW c \in calls, ActivateCommit(c) PROVE Seen'
    BY <1>20, SameSeen DEF ActivateCommit, bfdVars
  <1>21. ASSUME NEW c \in calls, Lost(c) PROVE Seen'
    BY <1>21, SameSeen DEF Lost, bfdVars
  <1>22. ASSUME NEW n \in Node, Watch(n) PROVE Seen'
    BY <1>22, SameSeen DEF Watch, bfdVars
  <1>23. ASSUME NEW n \in Node, ReconcileVip(n) PROVE Seen'
    BY <1>23, SameSeen DEF ReconcileVip, bfdVars
  <1>24. ASSUME NEW n \in Node, Stop(n) PROVE Seen'
    BY <1>24, SameSeen DEF Stop, bfdVars
  <1>25. ASSUME NEW n \in Node, StopRelease(n) PROVE Seen'
    BY <1>25, SameSeen DEF StopRelease, bfdVars
  <1>26. ASSUME NEW n \in Node, Exit(n) PROVE Seen'
    BY <1>26, EndsSeen DEF Exit
  <1>27. ASSUME NEW n \in Node, Crash(n) PROVE Seen'
    BY <1>27, EndsSeen DEF Crash
  <1>28. ASSUME NEW n \in Node, Restart(n) PROVE Seen'
    BY <1>28, SameSeen DEF Restart, bfdVars
  <1>29. ASSUME Cut PROVE Seen'
    BY <1>29, SameSeen DEF Cut, bfdVars
  <1>30. ASSUME Heal PROVE Seen'
    BY <1>30, SameSeen DEF Heal, bfdVars
  <1>31. ASSUME UNCHANGED vars PROVE Seen'
    BY <1>31, SameSeen DEF vars
  <1> QED
    BY <1>1, <1>2, <1>3, <1>4, <1>5, <1>6, <1>7, <1>8, <1>9, <1>10, <1>11,
       <1>12, <1>13, <1>14, <1>15, <1>16, <1>17, <1>18, <1>19, <1>20, <1>21,
       <1>22, <1>23, <1>24, <1>25, <1>26, <1>27, <1>28, <1>29, <1>30, <1>31
       DEF Next, BfdLoop, ElectionWorker, SwitchStep, MainLoop,
       PeerActivate, Thread

(* What a step may do to the election thread of the preferred gateway: see *)
(* StartupNonPreemptive.                                                   *)
StartsHavingSeen ==
    \A n \in Node :
        n = Preferred /\ pc[n]["election"] # "bind" /\ pc'[n]["election"] = "bind" => seen[n]

(* Only an election thread that goes to "bind" matters.                    *)
LEMMA OtherMove ==
    ASSUME TypeOK, NEW n \in Node, NEW t \in Thread, NEW label, Goto(n, t, label),
           t # "election" \/ label # "bind"
    PROVE  StartsHavingSeen
  <1>1. \A m \in Node : pc'[m]["election"] =
            IF m = n /\ t = "election" THEN label ELSE pc[m]["election"]
    BY DEF TypeOK, Goto, Thread
  <1> QED BY <1>1 DEF StartsHavingSeen

(* An election that starts the preferred gateway has seen the peer up.     *)
LEMMA StartupStep == TypeOK /\ Seen /\ [Next]_vars => StartsHavingSeen
  <1> SUFFICES ASSUME TypeOK, Seen, [Next]_vars PROVE StartsHavingSeen
    OBVIOUS
  <1>1. ASSUME NEW n \in Node, Hear(n) PROVE StartsHavingSeen
    BY <1>1 DEF StartsHavingSeen, Hear
  <1>2. ASSUME NEW n \in Node, Expire(n) PROVE StartsHavingSeen
    BY <1>2 DEF StartsHavingSeen, Expire
  <1>3. ASSUME NEW n \in Node, SocketError(n) PROVE StartsHavingSeen
    BY <1>3 DEF StartsHavingSeen, SocketError
  <1>4. ASSUME NEW n \in Node, ElectionTake(n) PROVE StartsHavingSeen
    <2>1. Head(queue[n]) => seen[n]
      BY <1>4, TakeSeen DEF ElectionTake
    <2>2. CASE UNCHANGED pc
      BY <2>2 DEF StartsHavingSeen
    <2>3. CASE \E label : label # "bind" /\ Goto(n, "election", label)
      BY <2>3, OtherMove DEF Thread
    <2>4. CASE Goto(n, "election", "bind") /\ Head(queue[n])
      <3>1. \A m \in Node : m # n => pc'[m] = pc[m]
        BY <2>4 DEF Goto, TypeOK
      <3> QED BY <2>1, <2>4, <3>1 DEF StartsHavingSeen
    <2> QED BY <1>4, <2>2, <2>3, <2>4 DEF ElectionTake
  <1>5. ASSUME NEW n \in Node, Probe(n) PROVE StartsHavingSeen
    <2>1. CASE \E label : label # "bind" /\ Goto(n, "election", label)
      BY <2>1, OtherMove DEF Thread
    <2>2. CASE Goto(n, "election", "bind") /\ n # Preferred
      <3>1. \A m \in Node : m # n => pc'[m] = pc[m]
        BY <2>2 DEF Goto, TypeOK
      <3> QED BY <2>2, <3>1 DEF StartsHavingSeen
    <2> QED BY <1>5, <2>1, <2>2 DEF Probe, should_promote_local
  <1>6. ASSUME NEW n \in Node, AskState(n) PROVE StartsHavingSeen
    <2>1. \E label : label # "bind" /\ Goto(n, "election", label)
      BY <1>6 DEF AskState
    <2> QED BY <2>1, OtherMove DEF Thread
  <1>7. ASSUME NEW n \in Node, AskRevision(n) PROVE StartsHavingSeen
    <2>1. \E label : label # "bind" /\ Goto(n, "election", label)
      BY <1>7 DEF AskRevision
    <2> QED BY <2>1, OtherMove DEF Thread
  <1>8. ASSUME NEW n \in Node, AskFails(n) PROVE StartsHavingSeen
    <2>1. \E label : label # "bind" /\ Goto(n, "election", label)
      BY <1>8 DEF AskFails
    <2> QED BY <2>1, OtherMove DEF Thread
  <1>9. ASSUME NEW n \in Node, NEW target \in Node, Failover(n, target) PROVE StartsHavingSeen
    <2>1. \E label : Goto(n, "api", label)
      BY <1>9 DEF Failover
    <2> QED BY <2>1, OtherMove DEF Thread
  <1>10. ASSUME NEW n \in Node, NEW t \in Thread, Bind(n, t) PROVE StartsHavingSeen
    <2>1. \E label : label # "bind" /\ Goto(n, t, label)
      BY <1>10 DEF Bind
    <2> QED BY <2>1, OtherMove
  <1>11. ASSUME NEW n \in Node, NEW t \in Thread, BindFails(n, t) PROVE StartsHavingSeen
    <2>1. \E label : label # "bind" /\ Goto(n, t, label)
      BY <1>11 DEF BindFails, Fail
    <2> QED BY <2>1, OtherMove
  <1>12. ASSUME NEW n \in Node, NEW t \in Thread, CommitLocal(n, t) PROVE StartsHavingSeen
    <2>1. \E label : label # "bind" /\ Goto(n, t, label)
      BY <1>12 DEF CommitLocal
    <2> QED BY <2>1, OtherMove
  <1>13. ASSUME NEW n \in Node, NEW t \in Thread, Release(n, t) PROVE StartsHavingSeen
    <2>1. \E label : label # "bind" /\ Goto(n, t, label)
      BY <1>13 DEF Release
    <2> QED BY <2>1, OtherMove
  <1>14. ASSUME NEW n \in Node, NEW t \in Thread, ReleaseFails(n, t) PROVE StartsHavingSeen
    <2>1. \E label : label # "bind" /\ Goto(n, t, label)
      BY <1>14 DEF ReleaseFails, Fail
    <2> QED BY <2>1, OtherMove
  <1>15. ASSUME NEW n \in Node, NEW t \in Thread, Restore(n, t) PROVE StartsHavingSeen
    <2>1. \E label : label # "bind" /\ Goto(n, t, label)
      BY <1>15 DEF Restore, Fail
    <2> QED BY <2>1, OtherMove
  <1>16. ASSUME NEW n \in Node, NEW t \in Thread, CommitPeer(n, t) PROVE StartsHavingSeen
    <2>1. \E label : label # "bind" /\ Goto(n, t, label)
      BY <1>16 DEF CommitPeer
    <2> QED BY <2>1, OtherMove
  <1>17. ASSUME NEW c \in calls, Answer(c) PROVE StartsHavingSeen
    <2>1. c.from \in Node /\ c.thread \in Thread
      BY DEF TypeOK, Call
    <2>2. \E label : label # "bind" /\ Goto(c.from, c.thread, label)
      BY <1>17 DEF Answer, Return
    <2> QED BY <2>1, <2>2, OtherMove
  <1>18. ASSUME NEW c \in calls, CallFails(c) PROVE StartsHavingSeen
    <2>1. c.from \in Node /\ c.thread \in Thread
      BY DEF TypeOK, Call
    <2>2. \E label : label # "bind" /\ Goto(c.from, c.thread, label)
      BY <1>18 DEF CallFails, Return
    <2> QED BY <2>1, <2>2, OtherMove
  <1>19. ASSUME NEW c \in calls, Activate(c) PROVE StartsHavingSeen
    BY <1>19 DEF StartsHavingSeen, Activate
  <1>20. ASSUME NEW c \in calls, ActivateCommit(c) PROVE StartsHavingSeen
    BY <1>20 DEF StartsHavingSeen, ActivateCommit
  <1>21. ASSUME NEW c \in calls, Lost(c) PROVE StartsHavingSeen
    BY <1>21 DEF StartsHavingSeen, Lost
  <1>22. ASSUME NEW n \in Node, Watch(n) PROVE StartsHavingSeen
    <2>1. \E label : Goto(n, "main", label)
      BY <1>22 DEF Watch
    <2> QED BY <2>1, OtherMove DEF Thread
  <1>23. ASSUME NEW n \in Node, ReconcileVip(n) PROVE StartsHavingSeen
    <2>1. \E label : Goto(n, "main", label)
      BY <1>23 DEF ReconcileVip
    <2> QED BY <2>1, OtherMove DEF Thread
  <1>24. ASSUME NEW n \in Node, Stop(n) PROVE StartsHavingSeen
    <2>1. \E label : Goto(n, "main", label)
      BY <1>24 DEF Stop
    <2> QED BY <2>1, OtherMove DEF Thread
  <1>25. ASSUME NEW n \in Node, StopRelease(n) PROVE StartsHavingSeen
    <2>1. \E label : Goto(n, "main", label)
      BY <1>25 DEF StopRelease
    <2> QED BY <2>1, OtherMove DEF Thread
  <1>26. ASSUME NEW n \in Node, Exit(n) PROVE StartsHavingSeen
    <2>1. \A m \in Node : pc'[m]["election"] = IF m = n THEN "idle" ELSE pc[m]["election"]
      BY <1>26 DEF Exit, ProcessEnds, TypeOK, Thread
    <2> QED BY <2>1 DEF StartsHavingSeen
  <1>27. ASSUME NEW n \in Node, Crash(n) PROVE StartsHavingSeen
    <2>1. \A m \in Node : pc'[m]["election"] = IF m = n THEN "idle" ELSE pc[m]["election"]
      BY <1>27 DEF Crash, ProcessEnds, TypeOK, Thread
    <2> QED BY <2>1 DEF StartsHavingSeen
  <1>28. ASSUME NEW n \in Node, Restart(n) PROVE StartsHavingSeen
    BY <1>28 DEF StartsHavingSeen, Restart
  <1>29. ASSUME Cut PROVE StartsHavingSeen
    BY <1>29 DEF StartsHavingSeen, Cut
  <1>30. ASSUME Heal PROVE StartsHavingSeen
    BY <1>30 DEF StartsHavingSeen, Heal
  <1>31. ASSUME UNCHANGED vars PROVE StartsHavingSeen
    BY <1>31 DEF StartsHavingSeen, vars
  <1> QED
    BY <1>1, <1>2, <1>3, <1>4, <1>5, <1>6, <1>7, <1>8, <1>9, <1>10, <1>11,
       <1>12, <1>13, <1>14, <1>15, <1>16, <1>17, <1>18, <1>19, <1>20, <1>21,
       <1>22, <1>23, <1>24, <1>25, <1>26, <1>27, <1>28, <1>29, <1>30, <1>31
       DEF Next, BfdLoop, ElectionWorker, SwitchStep, MainLoop,
       PeerActivate, Thread

IInv == TypeOK /\ Waits /\ Seen

(* The pair starts with nobody waiting and no session.                     *)
LEMMA InitIInv == Init => IInv
  <1> SUFFICES ASSUME Init PROVE IInv
    OBVIOUS
  <1>1. PICK master \in Node :
            /\ active = [n \in Node |-> master]
            /\ vip = [n \in Node |-> n = master]
    BY DEF Init
  <1>2. /\ revision = Skew /\ up = [n \in Node |-> TRUE]
        /\ stopping = [n \in Node |-> FALSE] /\ link = TRUE
        /\ session = [n \in Node |-> "Down"] /\ bfd = [n \in Node |-> "down"]
        /\ queue = [n \in Node |-> <<>>]
        /\ pc = [n \in Node |-> [t \in Thread |-> "idle"]]
        /\ asked = [n \in Node |-> 0] /\ calls = {} /\ clock = 0
        /\ seen = [n \in Node |-> FALSE] /\ switches \in Nat /\ losses = 0
        /\ outages \in Nat /\ viperrors \in Nat
    BY BoundAssumption DEF Init
  <1>3. TypeOK
    <2>1. active \in [Node -> Node] /\ vip \in [Node -> BOOLEAN]
      BY <1>1
    <2>2. queue \in [Node -> Seq(BOOLEAN)] /\ \A n \in Node : Len(queue[n]) <= QueueCap
      BY <1>2, BoundAssumption
    <2>3. pc \in [Node -> [Thread -> Pc]]
      BY <1>2 DEF Pc
    <2> QED BY <1>2, <2>1, <2>2, <2>3, SkewAssumption DEF TypeOK
  <1>4. Waits
    BY <1>2 DEF Waits, Matched, Single, Waited, waiting
  <1>5. Seen
    BY <1>2 DEF Seen, SeenSession, SeenQueue
  <1> QED BY <1>3, <1>4, <1>5 DEF IInv

(* The inductive invariant holds always.                                   *)
LEMMA Invariance == Spec => []IInv
  <1>1. IInv /\ [Next]_vars => IInv'
    BY TypeStep, WaitsStep, SeenStep DEF IInv
  <1> QED BY InitIInv, <1>1, PTL DEF Spec

-----------------------------------------------------------------------------
(* Every variable has its type; the election channel never holds more than *)
(* its capacity (queue_election).                                          *)
THEOREM HaTypeCorrect == Spec => []TypeOK
  <1>1. IInv => TypeOK
    BY DEF IInv
  <1> QED BY <1>1, Invariance, PTL

(* The election thread of the preferred gateway never starts a takeover    *)
(* after a start of the daemon before it saw its peer up                   *)
(* (should_promote_local).                                                 *)
THEOREM HaStartupNonPreemptive == Spec => StartupNonPreemptive
  <1>1. IInv /\ [Next]_vars => StartsHavingSeen
    BY StartupStep DEF IInv
  <1>2. IInv /\ [Next]_vars => [StartsHavingSeen]_vars
    BY <1>1
  <1> QED BY <1>2, Invariance, PTL DEF Spec, StartupNonPreemptive, StartsHavingSeen

-----------------------------------------------------------------------------
(* One owner, under Gentle.                                                *)

asking == {"ask", "ask_revision"}
moving == {"release", "handoff", "commit_peer"}

Linked == link /\ \A n \in Node : alive(n)
Agree == \A n \in Node : active[n] = active[Peer[n]]
Rivals == \A n \in Node : active[n] = n /\ revision[n] # revision[Peer[n]]

(* No change of the VIP will fail any more.                                *)
VipWorks == MaxVipErrors <= viperrors
Budget == MaxVipErrors <= viperrors + 1 /\ (MaxOutages <= outages \/ VipWorks)

(* No revision is ahead of the clock, so every write gets the newest one.  *)
Stamped == \A n \in Node : revision[n] <= clock + Skew[n]

(* The published status is that of the session.                            *)
Status ==
    \A n \in Node : /\ bfd[n] = "up" <=> session[n] = "Up"
                    /\ bfd[n] = "down" <=> session[n] = "Down"

(* One end of one daemon or one cut at a time.                             *)
OneOutage ==
    \A n \in Node : /\ alive(n) \/ (link /\ alive(Peer[n]))
                    /\ up[n] \/ ~stopping[n]

Handshake ==
    Linked => \A n \in Node : /\ session[n] = "Up" => session[Peer[n]] # "Down"
                              /\ queue[n] # <<>> => session[n] # "Down"

(* Nobody gives up waiting.                                                *)
LiveCalls == \A c \in calls : c.live

(* The main loop switches over only to stop.                               *)
MainAt(n) ==
    \/ ~stopping[n] /\ pc[n]["main"] \in {"idle", "rebind", "unbind"}
    \/ stopping[n] /\ pc[n]["main"] \in {"idle", "stop_release", "release", "handoff", "commit_peer"}
Mains == \A n \in Node : MainAt(n)

(* The request of n does not fail, and once answered the peer is active.   *)
Told(n) == \A c \in calls : c.stage # "failed" /\ (c.stage = "ok" => active[Peer[n]] = Peer[n])

(* During an outage: a gateway that lost its session promotes itself, one  *)
(* that stops hands over.                                                  *)
OutageAt(n) ==
    /\ pc[n]["api"] = "idle" /\ pc[n]["election"] \in {"idle", "bind", "commit_local"}
    /\ session[n] # "Init" /\ (queue[n] # <<>> => session[n] = "Down")
    /\ \A i \in 1..Len(queue[n]) : queue[n][i] = TRUE
    /\ ~alive(n) => pc[n]["election"] = "idle" /\ queue[n] = <<>>
    /\ ~up[n] => session[n] = "Down" /\ pc[n]["main"] = "idle"
    /\ pc[n]["main"] \in moving => active[n] = n
    /\ pc[n]["main"] = "handoff" => Told(n)
    /\ pc[n]["main"] = "commit_peer" => active[Peer[n]] = Peer[n]
Outage == ~Linked => VipWorks /\ (Agree \/ Rivals) /\ \A n \in Node : OutageAt(n)

(* During a switchover an operator asked n for, nothing else goes on.      *)
Resting(n) == session[n] = "Up" /\ queue[n] = <<>> /\ pc[n]["election"] = "idle"
OperatorAt(n) ==
    /\ pc[n]["api"] \in {"takeover", "bind_notified", "bind", "commit_local", "restore_peer",
                         "release", "handoff", "restore", "commit_peer"}
    /\ pc[Peer[n]]["api"] = "idle" /\ Resting(n) /\ Resting(Peer[n])
    /\ pc[n]["api"] \in {"release", "restore"} => active[n] = active[Peer[n]]
    /\ pc[n]["api"] \in {"bind", "bind_notified", "commit_local"} => active[Peer[n]] = n
    /\ pc[n]["api"] \in {"bind_notified", "restore_peer", "takeover"} => active[n] = Peer[n]
    /\ pc[n]["api"] = "bind" => active[n] = n
    /\ pc[n]["api"] = "takeover" =>
          \A c \in calls : active[Peer[n]] = IF c.stage = "ok" THEN n ELSE Peer[n]
    /\ pc[n]["api"] = "restore_peer" => VipWorks /\ Told(n)
    /\ pc[n]["api"] = "handoff" =>
          \A c \in calls : IF c.stage = "ok" THEN active[Peer[n]] = Peer[n]
                                             ELSE active[n] = active[Peer[n]]
    /\ pc[n]["api"] = "commit_peer" => active[Peer[n]] = Peer[n]

(* An election that hands over to a newer MASTER; the peer, if it asks,    *)
(* will not find this gateway newer before that.                           *)
Adopts(n) ==
    /\ VipWorks /\ active[n] = n /\ pc[Peer[n]]["election"] \notin moving
    /\ active[Peer[n]] = Peer[n] => revision[n] <= revision[Peer[n]]
    /\ pc[Peer[n]]["election"] \in asking => revision[n] <= asked[Peer[n]]
    /\ pc[n]["election"] = "handoff" => Told(n)
    /\ pc[n]["election"] = "commit_peer" => active[Peer[n]] = Peer[n]
ElectionAt(n) ==
    /\ pc[n]["election"] \in {"idle"} \cup asking \cup moving
    /\ pc[n]["election"] \in asking => active[n] = n
    /\ pc[n]["election"] = "ask_revision" => VipWorks
    /\ pc[n]["election"] \in moving => Adopts(n)

(* Two MASTERs: the one with the older revision has yet to ask.            *)
RivalAt(n) ==
    /\ active[n] = n /\ revision[n] # revision[Peer[n]]
    /\ pc[n]["election"] \in asking => asked[n] = revision[n]
    /\ revision[n] < revision[Peer[n]] =>
          session[n] # "Up" \/ queue[n] # <<>> \/ pc[n]["election"] \in asking
Rivalry == VipWorks /\ \A n \in Node : RivalAt(n)
Automatic ==
    /\ \A n \in Node : ElectionAt(n)
    /\ (\A n \in Node : pc[n]["election"] \notin moving) => Agree \/ Rivalry

Elections ==
    Linked => /\ \A n \in Node : pc[n]["api"] # "idle" => OperatorAt(n)
              /\ (\A n \in Node : pc[n]["api"] = "idle") => Automatic

Basics == Budget /\ Stamped /\ Status /\ OneOutage /\ Handshake
OwnInv == Basics /\ LiveCalls /\ Mains /\ Outage /\ Elections

Base == TypeOK /\ Waits /\ OwnInv

(* The two gateways.                                                       *)
LEMMA Two ==
    ASSUME NEW n \in Node
    PROVE  \E p \in Node : p = Peer[n] /\ Peer[p] = n /\ n # p /\ \A m \in Node : m = n \/ m = p
  BY PairAssumption

(* A thread moves: every other one stays.                                  *)
LEMMA Moved ==
    ASSUME TypeOK, NEW n \in Node, NEW t \in Thread, NEW label, Goto(n, t, label)
    PROVE  \A m \in Node, u \in Thread : pc'[m][u] = IF m = n /\ u = t THEN label ELSE pc[m][u]
  BY DEF TypeOK, Goto

LEMMA NoLoss ==
    ASSUME Gentle, TypeOK
    PROVE  ~(losses < MaxLosses)
  BY DEF Gentle, TypeOK

LEMMA NoVipError ==
    ASSUME TypeOK, VipWorks
    PROVE  ~(viperrors < MaxVipErrors)
  BY BoundAssumption DEF TypeOK, VipWorks

(* A write gets a revision newer than both.                                *)
LEMMA Writes ==
    ASSUME Gentle, TypeOK, Stamped, NEW n \in Node, NEW p \in Node, p = Peer[n], n # p,
           \A m \in Node : m = n \/ m = p,
           NEW gateway \in Node, write_active_gateway(n, gateway)
    PROVE  /\ Stamped' /\ active'[n] = gateway /\ active'[p] = active[p]
           /\ revision'[p] = revision[p] /\ revision'[n] > revision[n] /\ revision'[n] > revision[p]
           /\ revision'[n] \in Nat /\ revision[p] \in Nat
  <1>1. /\ Skew[n] \in Nat /\ revision[n] \in Nat /\ clock \in Nat /\ Skew[p] = Skew[n]
        /\ revision[p] \in Nat /\ revision[n] <= clock + Skew[n] /\ revision[p] <= clock + Skew[n]
    BY SkewAssumption DEF TypeOK, Stamped, Gentle
  <1>2. revision'[n] = clock + 1 + Skew[n] /\ revision'[p] = revision[p] /\ clock' = clock + 1
    BY <1>1 DEF write_active_gateway, TypeOK
  <1>3. active'[n] = gateway /\ active'[p] = active[p]
    BY DEF write_active_gateway, TypeOK
  <1>4. Stamped'
    <2>1. revision'[n] <= clock' + Skew[n] /\ revision'[p] <= clock' + Skew[p]
      BY <1>1, <1>2
    <2> QED BY <2>1 DEF Stamped
  <1> QED BY <1>1, <1>2, <1>3, <1>4

(* What does not touch sessions and processes.                             *)
LEMMA BasicsKept ==
    ASSUME TypeOK, Basics, UNCHANGED <<up, stopping, link, session, bfd, queue>>, Stamped',
           \E k, l \in Nat : viperrors' = viperrors + k /\ outages' = outages + l
    PROVE  Basics'
  <1>1. Budget'
    <2>1. viperrors \in Nat /\ outages \in Nat /\ MaxVipErrors \in Nat /\ MaxOutages \in Nat
      BY BoundAssumption DEF TypeOK
    <2>2. MaxVipErrors <= viperrors + 1 /\ (MaxOutages <= outages \/ MaxVipErrors <= viperrors)
      BY DEF Basics, Budget, VipWorks
    <2>0. PICK k \in Nat, l \in Nat : viperrors' = viperrors + k /\ outages' = outages + l
      OBVIOUS
    <2>3. MaxVipErrors <= viperrors' + 1 /\ (MaxOutages <= outages' \/ MaxVipErrors <= viperrors')
      BY <2>0, <2>1, <2>2
    <2> QED BY <2>3 DEF Budget, VipWorks
  <1>2. Linked' <=> Linked
    BY DEF Linked, alive
  <1>3. Status' /\ OneOutage' /\ Handshake'
    BY <1>2 DEF Basics, Status, OneOutage, Handshake, alive
  <1> QED BY <1>1, <1>3 DEF Basics

LEMMA SameStamps ==
    ASSUME Stamped, UNCHANGED data
    PROVE  Stamped' /\ active' = active /\ revision' = revision /\ clock' = clock
  BY DEF Stamped, data

LEMMA SameLink ==
    ASSUME UNCHANGED <<up, stopping, link>>
    PROVE  (Linked' <=> Linked) /\ \A n \in Node : alive(n)' <=> alive(n)
  BY DEF Linked, alive

(* Where a waiting thread is: an operator's switchover, an election that   *)
(* adopts a MASTER, or a daemon that stops.                                *)
Waiter(n, t) ==
    \/ t = "api" /\ Linked /\ OperatorAt(n)
    \/ t = "election" /\ Linked /\ (\A m \in Node : pc[m]["api"] = "idle")
       /\ pc[n]["election"] = "handoff" /\ Adopts(n) /\ Automatic
    \/ t = "main" /\ ~Linked /\ stopping[n] /\ pc[n]["main"] = "handoff"

LEMMA WaiterIs ==
    ASSUME Base, NEW n \in Node, NEW t \in Thread, pc[n][t] \in waiting
    PROVE  /\ Waiter(n, t) /\ link /\ up[n] /\ alive(Peer[n]) /\ up[Peer[n]]
           /\ \A m \in Node, u \in Thread : pc[m][u] \in waiting => m = n /\ u = t
  <1>0. PICK p \in Node : p = Peer[n] /\ Peer[p] = n /\ n # p /\ \A m \in Node : m = n \/ m = p
    BY Two
  <1> USE DEF Base, OwnInv
  <1>1. t \in {"api", "election", "main"} /\ Thread = {"api", "election", "main"}
    BY DEF Thread
  <1>2. CASE ~Linked
    <2>1. OutageAt(n) /\ OutageAt(p) /\ MainAt(n) /\ MainAt(p)
      BY <1>2 DEF Outage, Mains
    <2>2. /\ pc[n]["api"] \notin waiting /\ pc[p]["api"] \notin waiting
          /\ pc[n]["election"] \notin waiting /\ pc[p]["election"] \notin waiting
      BY <2>1 DEF OutageAt, waiting
    <2>3. t = "main"
      BY <1>1, <2>2
    <2>4. stopping[n] /\ pc[n]["main"] = "handoff"
      BY <2>1, <2>3 DEF MainAt, waiting
    <2>5. link /\ alive(p) /\ up[n] /\ up[p] /\ ~stopping[p]
      BY <1>0, <2>4 DEF Basics, OneOutage, alive
    <2>6. pc[p]["main"] \notin waiting
      BY <2>1, <2>5 DEF MainAt, waiting
    <2>7. \A m \in Node, u \in Thread : pc[m][u] \in waiting => m = n /\ u = t
      BY <1>0, <1>1, <2>2, <2>3, <2>6
    <2> QED BY <1>0, <1>2, <2>3, <2>4, <2>5, <2>7 DEF Waiter
  <1>3. CASE Linked
    <2>1. link /\ alive(n) /\ alive(p) /\ up[n] /\ up[p] /\ ~stopping[n] /\ ~stopping[p]
      BY <1>3 DEF Linked, alive
    <2>2. pc[n]["main"] \notin waiting /\ pc[p]["main"] \notin waiting
      BY <2>1 DEF Mains, MainAt, waiting
    <2>3. CASE pc[n]["api"] # "idle"
      <3>1. OperatorAt(n)
        BY <1>3, <2>3 DEF Elections
      <3>2. pc[p]["api"] = "idle" /\ pc[n]["election"] = "idle" /\ pc[p]["election"] = "idle"
        BY <1>0, <3>1 DEF OperatorAt, Resting
      <3>3. t = "api" /\ \A m \in Node, u \in Thread : pc[m][u] \in waiting => m = n /\ u = t
        BY <1>0, <1>1, <2>2, <3>2 DEF waiting
      <3> QED BY <1>0, <1>3, <2>1, <3>1, <3>3 DEF Waiter
    <2>4. CASE pc[n]["api"] = "idle"
      <3>1. pc[p]["api"] = "idle"
        <4> SUFFICES ASSUME pc[p]["api"] # "idle" PROVE FALSE
          OBVIOUS
        <4>1. OperatorAt(p)
          BY <1>3 DEF Elections
        <4>2. pc[n]["election"] = "idle"
          BY <1>0, <4>1 DEF OperatorAt, Resting
        <4> QED BY <1>1, <2>2, <2>4, <4>2 DEF waiting
      <3>2. Automatic
        BY <1>0, <1>3, <2>4, <3>1 DEF Elections
      <3>3. t = "election"
        BY <1>1, <2>2, <2>4 DEF waiting
      <3>4. ElectionAt(n) /\ ElectionAt(p)
        BY <3>2 DEF Automatic
      <3>5. pc[n]["election"] = "handoff" /\ Adopts(n)
        BY <3>3, <3>4 DEF ElectionAt, waiting, asking, moving
      <3>6. pc[p]["election"] \notin waiting
        BY <1>0, <3>4, <3>5 DEF ElectionAt, Adopts, waiting, asking, moving
      <3>7. \A m \in Node, u \in Thread : pc[m][u] \in waiting => m = n /\ u = t
        BY <1>0, <1>1, <2>2, <2>4, <3>1, <3>3, <3>6 DEF waiting
      <3> QED BY <1>0, <1>3, <2>1, <2>4, <3>1, <3>2, <3>3, <3>5, <3>7 DEF Waiter
    <2> QED BY <2>3, <2>4
  <1> QED BY <1>2, <1>3

(* There is at most one request, and the way to the peer is open.          *)
LEMMA OnlyCall ==
    ASSUME Base, NEW c \in calls
    PROVE  /\ calls = {c} /\ c.live /\ c.from \in Node /\ c.thread \in Thread /\ c.gateway \in Node
           /\ c.stage \in {"sent", "applied", "ok", "failed"}
           /\ pc[c.from][c.thread] \in waiting
           /\ c.gateway = Expected(c.from, pc[c.from][c.thread])
  <1>1. \A d \in calls : /\ d.live /\ d.from \in Node /\ d.thread \in Thread /\ d.gateway \in Node
                         /\ d.stage \in {"sent", "applied", "ok", "failed"}
                         /\ pc[d.from][d.thread] \in waiting
                         /\ d.gateway = Expected(d.from, pc[d.from][d.thread])
    BY DEF Base, OwnInv, LiveCalls, Waits, Matched, TypeOK, Call
  <1>2. ASSUME NEW d \in calls PROVE d = c
    <2>1. d.from = c.from /\ d.thread = c.thread
      BY <1>1, WaiterIs
    <2> QED BY <1>1, <2>1 DEF Base, Waits, Single
  <1> QED BY <1>1, <1>2

LEMMA NoCalls ==
    ASSUME Base, \A m \in Node, u \in Thread : pc[m][u] \notin waiting
    PROVE  calls = {}
  BY OnlyCall

(* A gateway that is at rest, with its peer, agrees with it.               *)
LEMMA QuietAgrees ==
    ASSUME Base, Quiet
    PROVE  /\ Linked /\ Agree /\ calls = {}
           /\ \A n \in Node : /\ Resting(n) /\ pc[n]["api"] = "idle" /\ pc[n]["main"] = "idle"
                              /\ alive(n) /\ up[n] /\ ~stopping[n]
  <1>1. Linked /\ calls = {}
    BY DEF Quiet, Linked
  <1>2. ASSUME NEW n \in Node
        PROVE  /\ Resting(n) /\ pc[n]["api"] = "idle" /\ pc[n]["main"] = "idle"
               /\ alive(n) /\ up[n] /\ ~stopping[n]
    <2>1. alive(n) /\ session[n] = "Up" /\ queue[n] = <<>> /\ ~busy(n)
      BY DEF Quiet
    <2>2. \A t \in Thread : pc[n][t] = "idle"
      BY <2>1 DEF busy
    <2>3. pc[n]["api"] = "idle" /\ pc[n]["main"] = "idle" /\ pc[n]["election"] = "idle"
      BY <2>2 DEF Thread
    <2> QED BY <2>1, <2>3 DEF Resting, alive
  <1>3. Automatic
    BY <1>1, <1>2 DEF Base, OwnInv, Elections
  <1>4. Agree \/ Rivalry
    BY <1>2, <1>3 DEF Automatic, Resting, moving
  <1>5. ASSUME Rivalry PROVE FALSE
    <2>1. PICK n \in Node : TRUE
      BY PreferredAssumption
    <2>2. PICK p \in Node : p = Peer[n] /\ Peer[p] = n /\ n # p /\ \A m \in Node : m = n \/ m = p
      BY Two
    <2>3. RivalAt(n) /\ RivalAt(p)
      BY <1>5 DEF Rivalry
    <2>4. ~(revision[n] < revision[p]) /\ ~(revision[p] < revision[n])
      BY <1>2, <2>2, <2>3 DEF RivalAt, Resting, asking
    <2>5. revision[n] \in Nat /\ revision[p] \in Nat
      BY DEF Base, TypeOK
    <2> QED BY <2>2, <2>3, <2>4, <2>5 DEF RivalAt
  <1> QED BY <1>1, <1>2, <1>4, <1>5

(* What the invariant reads of a step that changes neither selections nor  *)
(* requests nor sessions.                                                  *)
Frame == /\ UNCHANGED <<active, revision, clock, up, stopping, link, session, bfd, queue, calls>>
         /\ \E k, l \in Nat : viperrors' = viperrors + k /\ outages' = outages + l

LEMMA FrameKeeps ==
    ASSUME Base, Frame
    PROVE  /\ Basics' /\ LiveCalls' /\ (Linked' <=> Linked) /\ (VipWorks => VipWorks')
           /\ (Agree' <=> Agree) /\ (Rivals' <=> Rivals)
           /\ \A n \in Node : (alive(n)' <=> alive(n)) /\ (Told(n)' <=> Told(n))
  <1>1. Basics'
    <2>1. Stamped'
      BY DEF Base, OwnInv, Basics, Stamped, Frame
    <2> QED BY <2>1, BasicsKept DEF Base, OwnInv, Frame
  <1>2. LiveCalls'
    BY DEF Base, OwnInv, LiveCalls, Frame
  <1>3. (Linked' <=> Linked) /\ \A n \in Node : alive(n)' <=> alive(n)
    BY SameLink DEF Frame
  <1>4. VipWorks => VipWorks'
    <2>1. viperrors \in Nat /\ MaxVipErrors \in Nat
      BY BoundAssumption DEF Base, TypeOK
    <2>2. PICK k \in Nat : viperrors' = viperrors + k
      BY DEF Frame
    <2>3. MaxVipErrors <= viperrors => MaxVipErrors <= viperrors'
      BY <2>1, <2>2
    <2> QED BY <2>3 DEF VipWorks
  <1>5. (Agree' <=> Agree) /\ (Rivals' <=> Rivals)
    BY DEF Agree, Rivals, Frame
  <1>6. \A n \in Node : Told(n)' <=> Told(n)
    BY DEF Told, Frame
  <1> QED BY <1>1, <1>2, <1>3, <1>4, <1>5, <1>6

(* Steps of the main loop that switch nothing over.                        *)
LEMMA MainMoves ==
    ASSUME Base, Frame, UNCHANGED asked, NEW n \in Node, NEW label, Goto(n, "main", label),
           up[n], label \notin moving, MainAt(n)'
    PROVE  OwnInv'
  <1>0. PICK p \in Node : p = Peer[n] /\ Peer[p] = n /\ n # p /\ \A m \in Node : m = n \/ m = p
    BY Two
  <1>1. \A m \in Node, u \in Thread :
           pc'[m][u] = IF m = n /\ u = "main" THEN label ELSE pc[m][u]
    BY Moved DEF Base, Thread
  <1>2. /\ \A m \in Node : pc'[m]["api"] = pc[m]["api"] /\ pc'[m]["election"] = pc[m]["election"]
        /\ pc'[n]["main"] = label /\ pc'[p]["main"] = pc[p]["main"]
    BY <1>0, <1>1 DEF Thread
  <1>3. Mains'
    BY <1>0, <1>2 DEF Base, OwnInv, Mains, MainAt, Frame
  <1>4. Outage'
    <2>1. ASSUME NEW m \in Node, OutageAt(m) PROVE OutageAt(m)'
      BY <1>0, <1>2, <2>1, FrameKeeps DEF OutageAt, Frame, moving
    <2> QED BY <2>1, FrameKeeps DEF Base, OwnInv, Outage
  <1>5. Elections'
    <2>1. ASSUME NEW m \in Node, OperatorAt(m) PROVE OperatorAt(m)'
      BY <1>0, <1>2, <2>1, FrameKeeps DEF OperatorAt, Resting, Frame
    <2>2. ASSUME NEW m \in Node, ElectionAt(m) PROVE ElectionAt(m)'
      BY <1>0, <1>2, <2>2, FrameKeeps DEF ElectionAt, Adopts, Frame
    <2>3. ASSUME Rivalry PROVE Rivalry'
      BY <1>0, <1>2, <2>3, FrameKeeps DEF Rivalry, RivalAt, Frame
    <2>4. Automatic => Automatic'
      BY <1>2, <2>2, <2>3, FrameKeeps DEF Automatic
    <2> QED BY <1>2, <2>1, <2>4, FrameKeeps DEF Base, OwnInv, Elections
  <1> QED BY <1>3, <1>4, <1>5, FrameKeeps DEF OwnInv

-----------------------------------------------------------------------------
(* Where a switchover runs: for an operator, in an election on a healthy   *)
(* link, in an election during an outage, or in a daemon that stops.       *)
switching == {"bind", "bind_notified", "commit_local", "release", "restore", "commit_peer",
              "takeover", "handoff", "restore_peer"}

ApiIdle == \A m \in Node : pc[m]["api"] = "idle"

LEMMA PlaceIs ==
    ASSUME Base, NEW n \in Node, NEW t \in Thread, pc[n][t] \in switching
    PROVE  \/ t = "api" /\ Linked /\ OperatorAt(n)
           \/ t = "election" /\ Linked /\ ApiIdle /\ Automatic /\ pc[n]["election"] \in moving /\ Adopts(n)
           \/ t = "election" /\ ~Linked /\ pc[n]["election"] \in {"bind", "commit_local"} /\ alive(n)
           \/ t = "main" /\ ~Linked /\ stopping[n] /\ pc[n]["main"] \in moving
  <1> USE DEF Base, OwnInv
  <1>1. CASE t = "api"
    <2>1. Linked
      BY <1>1 DEF Outage, OutageAt, switching
    <2> QED BY <1>1, <2>1 DEF Elections, switching
  <1>2. CASE t = "election" /\ Linked
    <2>1. ApiIdle
      <3>1. ASSUME NEW m \in Node PROVE pc[m]["api"] = "idle"
        <4> SUFFICES ASSUME pc[m]["api"] # "idle" PROVE FALSE
          OBVIOUS
        <4>1. OperatorAt(m) /\ (n = m \/ n = Peer[m])
          BY <1>2, PairAssumption DEF Elections
        <4>2. Resting(n)
          BY <4>1 DEF OperatorAt
        <4> QED BY <1>2, <4>2 DEF Resting, switching
      <3> QED BY <3>1, Zenon DEF ApiIdle
    <2>2. Automatic /\ ElectionAt(n)
      BY <1>2, <2>1 DEF Elections, Automatic, ApiIdle
    <2>3. pc[n]["election"] \in moving
      BY <1>2, <2>2 DEF ElectionAt, switching, moving, asking
    <2> QED BY <1>2, <2>1, <2>2, <2>3 DEF ElectionAt
  <1>3. CASE t = "election" /\ ~Linked
    <2>1. OutageAt(n)
      BY <1>3 DEF Outage
    <2> QED BY <1>3, <2>1 DEF OutageAt, switching
  <1>4. CASE t = "main"
    <2>1. MainAt(n)
      BY DEF Mains
    <2>2. stopping[n] /\ pc[n]["main"] \in moving
      BY <1>4, <2>1 DEF MainAt, switching, moving
    <2>3. ~Linked
      BY <2>2 DEF Linked, alive
    <2> QED BY <1>4, <2>2, <2>3
  <1> QED BY <1>1, <1>2, <1>3, <1>4 DEF Thread

(* A step of an operator's switchover at n.                                *)
LEMMA OperatorStep ==
    ASSUME Base, NEW n \in Node, Linked, OperatorAt(n), Basics', LiveCalls',
           UNCHANGED <<up, stopping, link, session, bfd, queue>>,
           \A m \in Node, u \in Thread : m # n \/ u # "api" => pc'[m][u] = pc[m][u],
           IF pc'[n]["api"] = "idle" THEN Agree' ELSE OperatorAt(n)'
    PROVE  OwnInv'
  <1>0. PICK p \in Node : p = Peer[n] /\ Peer[p] = n /\ n # p /\ \A m \in Node : m = n \/ m = p
    BY Two
  <1>1. \A m \in Node : pc'[m]["main"] = pc[m]["main"] /\ pc'[m]["election"] = pc[m]["election"]
    BY DEF Thread
  <1>2. pc'[p]["api"] = "idle" /\ \A m \in Node : pc'[m]["election"] = "idle"
    <2>1. pc'[p]["api"] = pc[p]["api"]
      BY <1>0 DEF Thread
    <2> QED BY <1>0, <1>1, <2>1 DEF OperatorAt, Resting
  <1>3. Linked'
    BY SameLink
  <1>4. Mains'
    BY <1>1 DEF Base, OwnInv, Mains, MainAt
  <1>5. Outage'
    BY <1>3 DEF Outage
  <1>6. CASE pc'[n]["api"] = "idle"
    <2>1. Automatic'
      BY <1>2, <1>6 DEF Automatic, ElectionAt, asking, moving
    <2>2. Elections'
      BY <1>0, <1>2, <1>6, <2>1 DEF Elections
    <2> QED BY <1>4, <1>5, <2>2 DEF OwnInv
  <1>7. CASE pc'[n]["api"] # "idle"
    <2>1. Elections'
      BY <1>0, <1>2, <1>7 DEF Elections
    <2> QED BY <1>4, <1>5, <2>1 DEF OwnInv
  <1> QED BY <1>6, <1>7

(* A step of an election of n on a healthy link.                           *)
LEMMA ElectionStep ==
    ASSUME Base, NEW n \in Node, Linked, ApiIdle, Basics', LiveCalls',
           UNCHANGED <<up, stopping, link>>,
           \A m \in Node, u \in Thread : m # n \/ u # "election" => pc'[m][u] = pc[m][u],
           Automatic'
    PROVE  OwnInv'
  <1>1. \A m \in Node : pc'[m]["main"] = pc[m]["main"] /\ pc'[m]["api"] = "idle"
    BY DEF Thread, ApiIdle
  <1>2. Linked'
    BY SameLink
  <1>3. Mains'
    BY <1>1 DEF Base, OwnInv, Mains, MainAt
  <1>4. Outage' /\ Elections'
    BY <1>1, <1>2 DEF Outage, Elections
  <1> QED BY <1>3, <1>4 DEF OwnInv

(* A step during an outage.                                                *)
LEMMA OutageStep ==
    ASSUME Base, ~Linked', Basics', LiveCalls', Mains', VipWorks', Agree' \/ Rivals',
           \A m \in Node : OutageAt(m)'
    PROVE  OwnInv'
  <1>1. Outage' /\ Elections'
    BY DEF Outage, Elections
  <1> QED BY <1>1 DEF OwnInv

-----------------------------------------------------------------------------
(* The steps of a switchover.                                              *)

LEMMA FrameIs ==
    ASSUME UNCHANGED <<data, up, stopping, link, bfdVars, calls>>, TypeOK,
           outages' = outages, viperrors' = viperrors \/ viperrors' = viperrors + 1
    PROVE  Frame
  <1>1. /\ UNCHANGED <<active, revision, clock, up, stopping, link, session, bfd, queue, calls>>
        /\ outages' = outages + 0 /\ (viperrors' = viperrors + 0 \/ viperrors' = viperrors + 1)
    BY DEF data, bfdVars, TypeOK
  <1>2. 0 \in Nat /\ 1 \in Nat
    OBVIOUS
  <1> QED BY <1>1, <1>2 DEF Frame

LEMMA AgreeIs ==
    ASSUME NEW n \in Node
    PROVE  /\ Agree <=> active[n] = active[Peer[n]]
           /\ Agree' <=> active'[n] = active'[Peer[n]]
  <1>0. PICK p \in Node : p = Peer[n] /\ Peer[p] = n /\ n # p /\ \A m \in Node : m = n \/ m = p
    BY Two
  <1>1. ASSUME active[n] = active[p], NEW m \in Node PROVE active[m] = active[Peer[m]]
    BY <1>0, <1>1
  <1>2. ASSUME active'[n] = active'[p], NEW m \in Node PROVE active'[m] = active'[Peer[m]]
    BY <1>0, <1>2
  <1>3. Agree <=> active[n] = active[p]
    BY <1>0, <1>1, Zenon DEF Agree
  <1>4. Agree' <=> active'[n] = active'[p]
    BY <1>0, <1>2, Zenon DEF Agree
  <1> QED BY <1>0, <1>3, <1>4

(* A thread of an election during an outage moves.                         *)
LEMMA OutageElection ==
    ASSUME Base, Frame, ~Linked, NEW n \in Node, alive(n),
           NEW label \in {"idle", "bind", "commit_local"}, Goto(n, "election", label)
    PROVE  OwnInv'
  <1>1. \A m \in Node, u \in Thread :
           pc'[m][u] = IF m = n /\ u = "election" THEN label ELSE pc[m][u]
    BY Moved DEF Base, Thread
  <1>2. \A m \in Node : /\ pc'[m]["api"] = pc[m]["api"] /\ pc'[m]["main"] = pc[m]["main"]
                        /\ pc'[m]["election"] = IF m = n THEN label ELSE pc[m]["election"]
    BY <1>1 DEF Thread
  <1>3. Mains'
    BY <1>2 DEF Base, OwnInv, Mains, MainAt, Frame
  <1>4. VipWorks /\ (Agree \/ Rivals) /\ \A m \in Node : OutageAt(m)
    BY DEF Base, OwnInv, Outage
  <1>5. ASSUME NEW m \in Node PROVE OutageAt(m)'
    <2>1. OutageAt(m) /\ (alive(m)' <=> alive(m)) /\ (Told(m)' <=> Told(m))
      BY <1>4, FrameKeeps
    <2> QED BY <1>2, <2>1 DEF OutageAt, Frame
  <1> QED BY <1>3, <1>4, <1>5, FrameKeeps, OutageStep

(* A thread of an operator's switchover moves.                             *)
LEMMA OperatorMoves ==
    ASSUME Base, Frame, Linked, NEW n \in Node, OperatorAt(n), NEW label, Goto(n, "api", label),
           IF label = "idle" THEN Agree ELSE OperatorAt(n)'
    PROVE  OwnInv'
  <1>1. \A m \in Node, u \in Thread :
           pc'[m][u] = IF m = n /\ u = "api" THEN label ELSE pc[m][u]
    BY Moved DEF Base, Thread
  <1>2. /\ pc'[n]["api"] = label
        /\ \A m \in Node, u \in Thread : m # n \/ u # "api" => pc'[m][u] = pc[m][u]
    BY <1>1 DEF Thread
  <1>3. UNCHANGED <<up, stopping, link, session, bfd, queue>>
    BY DEF Frame
  <1>4. Basics' /\ LiveCalls' /\ (Agree' <=> Agree)
    BY FrameKeeps
  <1> QED BY <1>2, <1>3, <1>4, OperatorStep

LEMMA OwnBind ==
    ASSUME Base, NEW n \in Node, NEW t \in Thread, Bind(n, t)
    PROVE  OwnInv'
  <1>1. Frame
    BY FrameIs DEF Bind, bounds, Base
  <1>2. Goto(n, t, "commit_local") /\ pc[n][t] \in {"bind", "bind_notified"}
    BY DEF Bind
  <1>3. pc[n][t] \in switching /\ pc[n][t] \notin moving
    BY <1>2 DEF switching, moving
  <1>4. CASE t = "api"
    <2>1. Linked /\ OperatorAt(n)
      BY <1>3, <1>4, PlaceIs
    <2>2. PICK p \in Node : p = Peer[n] /\ Peer[p] = n /\ n # p /\ \A m \in Node : m = n \/ m = p
      BY Two
    <2>3. /\ pc'[n]["api"] = "commit_local" /\ pc'[p]["api"] = pc[p]["api"]
          /\ pc'[n]["election"] = pc[n]["election"] /\ pc'[p]["election"] = pc[p]["election"]
      BY <1>2, <1>4, <2>2, Moved DEF Base, Thread
    <2>4. OperatorAt(n)'
      BY <1>1, <1>2, <1>4, <2>1, <2>2, <2>3 DEF OperatorAt, Resting, Frame
    <2> QED BY <1>1, <1>2, <1>4, <2>1, <2>4, OperatorMoves
  <1>5. CASE t # "api"
    <2>1. t = "election" /\ ~Linked /\ alive(n)
      BY <1>3, <1>5, PlaceIs
    <2> QED BY <1>1, <1>2, <2>1, OutageElection
  <1> QED BY <1>4, <1>5

LEMMA OwnReleaseFails ==
    ASSUME Base, NEW n \in Node, NEW t \in Thread, ReleaseFails(n, t)
    PROVE  OwnInv'
  <1>1. Frame
    BY FrameIs DEF ReleaseFails, Base
  <1>2. pc[n][t] = "release" /\ viperrors < MaxVipErrors /\ Fail(n, t)
    BY DEF ReleaseFails
  <1>3. pc[n][t] \in switching /\ ~VipWorks
    BY <1>2, NoVipError DEF switching, Base
  <1>4. t = "api" /\ Linked /\ OperatorAt(n)
    BY <1>3, PlaceIs DEF Adopts, Base, OwnInv, Outage
  <1>5. Goto(n, "api", "idle")
    BY <1>2, <1>4 DEF Fail
  <1>6. Agree
    BY <1>2, <1>4, AgreeIs DEF OperatorAt
  <1> QED BY <1>1, <1>4, <1>5, <1>6, OperatorMoves

LEMMA OwnRestore ==
    ASSUME Base, NEW n \in Node, NEW t \in Thread, Restore(n, t)
    PROVE  OwnInv'
  <1>1. Frame
    BY FrameIs DEF Restore, Base
  <1>2. pc[n][t] = "restore" /\ Fail(n, t)
    BY DEF Restore
  <1>3. pc[n][t] \in switching /\ pc[n][t] \notin moving
    BY <1>2 DEF switching, moving
  <1>4. t = "api" /\ Linked /\ OperatorAt(n)
    BY <1>2, <1>3, PlaceIs
  <1>5. Goto(n, "api", "idle")
    BY <1>2, <1>4 DEF Fail
  <1>6. Agree
    BY <1>2, <1>4, AgreeIs DEF OperatorAt
  <1> QED BY <1>1, <1>4, <1>5, <1>6, OperatorMoves

(* Who is about to send a request finds none under way, and the peer up.   *)
LEMMA Sends ==
    ASSUME Base, NEW n \in Node, NEW t \in Thread, pc[n][t] \in {"release", "bind_notified"},
           NEW gateway, Notify(n, t, gateway)
    PROVE  \E r : calls' = {r} /\ r.live /\ r.stage = "sent"
  <1>0. PICK p \in Node : p = Peer[n] /\ Peer[p] = n /\ n # p /\ \A m \in Node : m = n \/ m = p
    BY Two
  <1> DEFINE place1 == t = "api" /\ Linked /\ OperatorAt(n)
             place2 == t = "election" /\ Linked /\ ApiIdle /\ pc[n]["election"] \in moving /\ Adopts(n)
             place3 == t = "main" /\ ~Linked /\ stopping[n] /\ pc[n]["main"] \in moving
  <1>1. pc[n][t] \in switching /\ pc[n][t] \notin {"bind", "commit_local"} /\ pc[n][t] \notin waiting
    BY DEF switching, waiting
  <1>2. place1 \/ place2 \/ place3
    BY <1>1, PlaceIs
  <1>3. up[p]
    <2>1. CASE Linked
      BY <2>1 DEF Linked, alive
    <2>2. CASE ~Linked
      <3>1. stopping[n]
        BY <1>2, <2>2
      <3> QED BY <1>0, <3>1 DEF Base, OwnInv, Basics, OneOutage, alive
    <2> QED BY <2>1, <2>2
  <1>4. ASSUME NEW m \in Node, NEW u \in Thread, pc[m][u] \in waiting
        PROVE  FALSE
    <2>1. Waiter(m, u) /\ alive(Peer[m])
      BY <1>4, WaiterIs
    <2>2. m = n => u # t
      BY <1>1, <1>4
    <2>3. CASE u = "api" /\ Linked /\ OperatorAt(m)
      <3>1. pc[n]["election"] = "idle" /\ (m = p => pc[n]["api"] = "idle")
        BY <1>0, <2>3 DEF OperatorAt, Resting
      <3>2. ~place2 /\ ~place3
        BY <2>3, <3>1 DEF moving
      <3>3. place1
        BY <1>2, <3>2
      <3> QED BY <1>0, <2>2, <2>3, <3>1, <3>3
    <2>4. CASE u = "election" /\ Linked /\ ApiIdle /\ Adopts(m)
      <3>1. m = p => pc[n]["election"] \notin moving
        BY <1>0, <2>4 DEF Adopts
      <3>2. ~place1 /\ ~place3
        BY <2>4 DEF ApiIdle, OperatorAt
      <3>3. place2
        BY <1>2, <3>2
      <3> QED BY <1>0, <2>2, <2>4, <3>1, <3>3
    <2>5. CASE u = "main" /\ ~Linked /\ stopping[m]
      <3>1. place3
        BY <1>2, <2>5
      <3>2. m = p
        BY <1>0, <2>2, <2>5, <3>1
      <3>3. ~stopping[n]
        BY <1>0, <2>1, <3>2 DEF alive
      <3> QED BY <3>1, <3>3
    <2> QED BY <2>1, <2>3, <2>4, <2>5 DEF Waiter, ApiIdle
  <1>5. calls = {}
    <2>1. \A m \in Node, u \in Thread : pc[m][u] \notin waiting
      BY <1>4
    <2> QED BY <2>1, NoCalls
  <1> DEFINE r == [ from |-> n, thread |-> t, gateway |-> gateway, live |-> TRUE,
                    stage |-> IF up[Peer[n]] THEN "sent" ELSE "failed" ]
  <1>6. r.live /\ r.stage = "sent"
    BY <1>0, <1>3
  <1>7. calls' = {r}
    BY <1>5 DEF Notify
  <1> HIDE DEF r
  <1> QED BY <1>6, <1>7

LEMMA OwnRelease ==
    ASSUME Base, NEW n \in Node, NEW t \in Thread, Release(n, t)
    PROVE  OwnInv'
  <1>0. PICK p \in Node : p = Peer[n] /\ Peer[p] = n /\ n # p /\ \A m \in Node : m = n \/ m = p
    BY Two
  <1>1. /\ UNCHANGED <<active, revision, clock, up, stopping, link, session, bfd, queue, asked>>
        /\ viperrors' = viperrors /\ outages' = outages
        /\ pc[n][t] = "release" /\ Goto(n, t, "handoff") /\ Notify(n, t, Peer[n])
    BY DEF Release, data, bfdVars, bounds
  <1>2. PICK r : calls' = {r} /\ r.live /\ r.stage = "sent"
    BY <1>1, Sends
  <1>3. \A m \in Node, u \in Thread : pc'[m][u] = IF m = n /\ u = t THEN "handoff" ELSE pc[m][u]
    BY <1>1, Moved DEF Base
  <1>4. LiveCalls' /\ Told(n)' /\ Told(p)'
    BY <1>2 DEF LiveCalls, Told
  <1>5. Basics' /\ (Linked' <=> Linked) /\ (VipWorks' <=> VipWorks) /\ \A m \in Node : alive(m)' <=> alive(m)
    <2>1. \E k, l \in Nat : viperrors' = viperrors + k /\ outages' = outages + l
      BY <1>1 DEF Base, TypeOK
    <2>2. Stamped'
      BY <1>1 DEF Base, OwnInv, Basics, Stamped
    <2> QED BY <1>1, <2>1, <2>2, BasicsKept, SameLink DEF Base, OwnInv, VipWorks
  <1>6. pc[n][t] \in switching /\ pc[n][t] \in moving
    BY <1>1 DEF switching, moving
  <1>7. CASE t = "api"
    <2>1. Linked /\ OperatorAt(n)
      BY <1>6, <1>7, PlaceIs
    <2>2. /\ pc'[n]["api"] = "handoff" /\ pc'[p]["api"] = pc[p]["api"]
          /\ pc'[n]["election"] = pc[n]["election"] /\ pc'[p]["election"] = pc[p]["election"]
          /\ \A m \in Node, u \in Thread : m # n \/ u # "api" => pc'[m][u] = pc[m][u]
      BY <1>0, <1>3, <1>7 DEF Thread
    <2>3. active[n] = active[p]
      BY <1>0, <1>1, <1>7, <2>1 DEF OperatorAt
    <2>4. OperatorAt(n)'
      BY <1>0, <1>1, <1>2, <2>1, <2>2, <2>3 DEF OperatorAt, Resting
    <2> QED BY <1>1, <1>4, <1>5, <2>1, <2>2, <2>4, OperatorStep
  <1>8. CASE t = "election"
    <2>1. Linked /\ ApiIdle /\ Automatic /\ Adopts(n)
      BY <1>1, <1>6, <1>8, PlaceIs
    <2>2. /\ pc'[n]["election"] = "handoff" /\ pc'[p]["election"] = pc[p]["election"]
          /\ \A m \in Node, u \in Thread : m # n \/ u # "election" => pc'[m][u] = pc[m][u]
      BY <1>0, <1>3, <1>8 DEF Thread
    <2>3. Adopts(n)' /\ active[n] = n /\ pc[p]["election"] \notin moving
      BY <1>0, <1>1, <1>4, <1>5, <2>1, <2>2 DEF Adopts
    <2>4. ElectionAt(n)'
      BY <2>2, <2>3 DEF ElectionAt, asking, moving
    <2>5. ElectionAt(p)'
      BY <1>1, <1>5, <2>1, <2>2, <2>3 DEF Automatic, ElectionAt
    <2>6. Automatic'
      BY <1>0, <2>2, <2>4, <2>5 DEF Automatic, moving
    <2> QED BY <1>1, <1>4, <1>5, <2>1, <2>2, <2>6, ElectionStep
  <1>9. CASE t = "main"
    <2>1. ~Linked /\ stopping[n]
      BY <1>6, <1>9, PlaceIs
    <2>2. VipWorks /\ (Agree \/ Rivals) /\ \A m \in Node : OutageAt(m)
      BY <2>1 DEF Base, OwnInv, Outage
    <2>3. /\ pc'[n]["main"] = "handoff" /\ pc'[p]["main"] = pc[p]["main"]
          /\ \A m \in Node : pc'[m]["api"] = pc[m]["api"] /\ pc'[m]["election"] = pc[m]["election"]
      BY <1>0, <1>3, <1>9 DEF Thread
    <2>4. Mains'
      BY <1>0, <1>1, <2>1, <2>3 DEF Base, OwnInv, Mains, MainAt
    <2>5. OutageAt(p)'
      BY <1>0, <1>1, <1>4, <1>5, <2>2, <2>3 DEF OutageAt
    <2>6. OutageAt(n)'
      BY <1>0, <1>1, <1>4, <1>5, <1>9, <2>2, <2>3 DEF OutageAt, moving
    <2>7. Agree' \/ Rivals'
      BY <1>1, <2>2 DEF Agree, Rivals
    <2> QED BY <1>0, <1>4, <1>5, <2>1, <2>2, <2>4, <2>5, <2>6, <2>7, OutageStep
  <1> QED BY <1>7, <1>8, <1>9 DEF Thread

LEMMA OwnBindFails ==
    ASSUME Base, NEW n \in Node, NEW t \in Thread, BindFails(n, t)
    PROVE  OwnInv'
  <1>0. PICK p \in Node : p = Peer[n] /\ Peer[p] = n /\ n # p /\ \A m \in Node : m = n \/ m = p
    BY Two
  <1>1. /\ UNCHANGED <<active, revision, clock, up, stopping, link, session, bfd, queue>>
        /\ pc[n][t] \in {"bind", "bind_notified"} /\ viperrors < MaxVipErrors
        /\ viperrors' = viperrors + 1 /\ outages' = outages
    BY DEF BindFails, data, bfdVars
  <1>2. pc[n][t] \in switching /\ pc[n][t] \notin moving /\ ~VipWorks
    BY <1>1, NoVipError DEF switching, moving, Base
  <1>3. t = "api" /\ Linked /\ OperatorAt(n)
    BY <1>2, PlaceIs DEF Base, OwnInv, Outage
  <1>4. CASE pc[n][t] = "bind"
    <2>1. Goto(n, "api", "idle") /\ UNCHANGED calls
      BY <1>3, <1>4 DEF BindFails, Fail
    <2>2. Frame
      BY <2>1, FrameIs DEF BindFails, Base
    <2>3. Agree
      BY <1>0, <1>3, <1>4, AgreeIs DEF OperatorAt
    <2> QED BY <1>3, <2>1, <2>2, <2>3, OperatorMoves
  <1>5. CASE pc[n][t] = "bind_notified"
    <2>1. Goto(n, "api", "restore_peer") /\ Notify(n, "api", Peer[n])
      BY <1>3, <1>5 DEF BindFails
    <2>2. PICK r : calls' = {r} /\ r.live /\ r.stage = "sent"
      BY <1>3, <1>5, <2>1, Sends
    <2>3. LiveCalls' /\ Told(n)'
      BY <2>2 DEF LiveCalls, Told
    <2>4. VipWorks'
      <3>1. MaxVipErrors <= viperrors + 1
        BY DEF Base, OwnInv, Basics, Budget
      <3>2. MaxVipErrors <= viperrors'
        BY <1>1, <3>1
      <3> QED BY <3>2 DEF VipWorks
    <2>5. Basics'
      <3>1. \E k, l \in Nat : viperrors' = viperrors + k /\ outages' = outages + l
        <4>1. viperrors' = viperrors + 1 /\ outages' = outages + 0
          BY <1>1 DEF Base, TypeOK
        <4> QED BY <4>1
      <3>2. Stamped'
        BY <1>1 DEF Base, OwnInv, Basics, Stamped
      <3> QED BY <1>1, <3>1, <3>2, BasicsKept DEF Base, OwnInv
    <2>6. \A m \in Node, u \in Thread : pc'[m][u] = IF m = n /\ u = "api" THEN "restore_peer" ELSE pc[m][u]
      BY <2>1, Moved DEF Base, Thread
    <2>7. /\ pc'[n]["api"] = "restore_peer" /\ pc'[p]["api"] = pc[p]["api"]
          /\ pc'[n]["election"] = pc[n]["election"] /\ pc'[p]["election"] = pc[p]["election"]
          /\ \A m \in Node, u \in Thread : m # n \/ u # "api" => pc'[m][u] = pc[m][u]
      BY <1>0, <2>6 DEF Thread
    <2>8. active[n] = p
      BY <1>0, <1>3, <1>5 DEF OperatorAt
    <2>9. OperatorAt(n)'
      BY <1>0, <1>1, <1>3, <2>3, <2>4, <2>7, <2>8 DEF OperatorAt, Resting
    <2> QED BY <1>1, <1>3, <2>3, <2>5, <2>7, <2>9, OperatorStep
  <1> QED BY <1>1, <1>4, <1>5

(* Two gateways that each name themselves after a write are rivals.        *)
LEMMA RivalsIs ==
    ASSUME NEW n \in Node, NEW p \in Node, p = Peer[n], Peer[p] = n, \A m \in Node : m = n \/ m = p,
           active'[n] = n, active'[p] = p, revision'[n] # revision'[p]
    PROVE  Rivals'
  <1>1. ASSUME NEW m \in Node PROVE active'[m] = m /\ revision'[m] # revision'[Peer[m]]
    OBVIOUS
  <1> QED BY <1>1, Zenon DEF Rivals

(* A step that writes the selection of n.                                  *)
LEMMA WriteKeeps ==
    ASSUME Gentle, Base, NEW n \in Node, NEW p \in Node, p = Peer[n], n # p,
           \A m \in Node : m = n \/ m = p, NEW gateway \in Node, write_active_gateway(n, gateway),
           UNCHANGED <<up, stopping, link, bfdVars, bounds>>
    PROVE  /\ active'[n] = gateway /\ active'[p] = active[p]
           /\ revision'[p] = revision[p] /\ revision'[n] > revision[n] /\ revision'[n] > revision[p]
           /\ revision'[n] # revision'[p] /\ revision'[n] \in Nat /\ revision[p] \in Nat
           /\ Basics' /\ (Linked' <=> Linked) /\ (VipWorks' <=> VipWorks)
           /\ (\A m \in Node : alive(m)' <=> alive(m)) /\ UNCHANGED <<session, bfd, queue>>
  <1>1. /\ Stamped' /\ active'[n] = gateway /\ active'[p] = active[p]
        /\ revision'[p] = revision[p] /\ revision'[n] > revision[n] /\ revision'[n] > revision[p]
        /\ revision'[n] \in Nat /\ revision[p] \in Nat
    BY Writes DEF Base, OwnInv, Basics
  <1>2. UNCHANGED <<session, bfd, queue>> /\ viperrors' = viperrors /\ outages' = outages
    BY DEF bfdVars, bounds
  <1>3. \E k, l \in Nat : viperrors' = viperrors + k /\ outages' = outages + l
    BY <1>2 DEF Base, TypeOK
  <1>4. Basics'
    BY <1>1, <1>2, <1>3, BasicsKept DEF Base, OwnInv
  <1>5. VipWorks' <=> VipWorks
    BY <1>2 DEF VipWorks
  <1> QED BY <1>1, <1>2, <1>4, <1>5, SameLink

LEMMA OwnCommitLocal ==
    ASSUME Gentle, Base, NEW n \in Node, NEW t \in Thread, CommitLocal(n, t)
    PROVE  OwnInv'
  <1>0. PICK p \in Node : p = Peer[n] /\ Peer[p] = n /\ n # p /\ \A m \in Node : m = n \/ m = p
    BY Two
  <1>1. /\ UNCHANGED <<up, stopping, link, bfdVars, bounds>> /\ UNCHANGED calls
        /\ pc[n][t] = "commit_local" /\ write_active_gateway(n, n) /\ Goto(n, t, "idle")
    BY DEF CommitLocal
  <1>2. /\ active'[n] = n /\ active'[p] = active[p] /\ revision'[n] # revision'[p]
        /\ Basics' /\ (Linked' <=> Linked) /\ (VipWorks' <=> VipWorks)
        /\ (\A m \in Node : alive(m)' <=> alive(m)) /\ UNCHANGED <<session, bfd, queue>>
    BY <1>0, <1>1, WriteKeeps
  <1>3. LiveCalls'
    BY <1>1 DEF Base, OwnInv, LiveCalls
  <1>4. \A m \in Node, u \in Thread : pc'[m][u] = IF m = n /\ u = t THEN "idle" ELSE pc[m][u]
    BY <1>1, Moved DEF Base
  <1>5. pc[n][t] \in switching /\ pc[n][t] \notin moving
    BY <1>1 DEF switching, moving
  <1>6. CASE t = "api"
    <2>1. Linked /\ OperatorAt(n)
      BY <1>5, <1>6, PlaceIs
    <2>2. pc'[n]["api"] = "idle" /\ \A m \in Node, u \in Thread : m # n \/ u # "api" => pc'[m][u] = pc[m][u]
      BY <1>4, <1>6 DEF Thread
    <2>3. active'[n] = active'[p]
      BY <1>0, <1>1, <1>2, <1>6, <2>1 DEF OperatorAt
    <2>4. Agree'
      BY <1>0, <2>3, AgreeIs
    <2> QED BY <1>1, <1>2, <1>3, <2>1, <2>2, <2>4, OperatorStep
  <1>7. CASE t # "api"
    <2>1. t = "election" /\ ~Linked /\ alive(n)
      BY <1>5, <1>7, PlaceIs
    <2>2. VipWorks /\ (Agree \/ Rivals) /\ OutageAt(n) /\ OutageAt(p)
      BY <2>1 DEF Base, OwnInv, Outage
    <2>3. /\ \A m \in Node : pc'[m]["api"] = pc[m]["api"] /\ pc'[m]["main"] = pc[m]["main"]
          /\ pc'[n]["election"] = "idle" /\ pc'[p]["election"] = pc[p]["election"]
      BY <1>0, <1>4, <2>1 DEF Thread
    <2>4. Mains' /\ pc[n]["main"] \notin moving
      BY <1>1, <2>1, <2>3 DEF Base, OwnInv, Mains, MainAt, alive, moving
    <2>5. OutageAt(n)'
      BY <1>1, <1>2, <2>2, <2>3, <2>4 DEF OutageAt, moving
    <2>6. OutageAt(p)'
      <3>1. Told(p) => Told(p)'
        BY <1>0, <1>1, <1>2 DEF Told
      <3> QED BY <1>0, <1>1, <1>2, <2>2, <2>3, <3>1 DEF OutageAt
    <2>7. Agree' \/ Rivals'
      <3>1. active[p] = n \/ active[p] = p
        BY <1>0 DEF Base, TypeOK
      <3> QED BY <1>0, <1>2, <3>1, AgreeIs, RivalsIs
    <2> QED BY <1>0, <1>2, <1>3, <2>1, <2>2, <2>4, <2>5, <2>6, <2>7, OutageStep
  <1> QED BY <1>6, <1>7

LEMMA OwnCommitPeer ==
    ASSUME Gentle, Base, NEW n \in Node, NEW t \in Thread, CommitPeer(n, t)
    PROVE  OwnInv'
  <1>0. PICK p \in Node : p = Peer[n] /\ Peer[p] = n /\ n # p /\ \A m \in Node : m = n \/ m = p
    BY Two
  <1>1. /\ UNCHANGED <<up, stopping, link, bfdVars, bounds>> /\ UNCHANGED <<calls, asked>>
        /\ pc[n][t] = "commit_peer" /\ write_active_gateway(n, p) /\ Goto(n, t, "idle")
    BY <1>0 DEF CommitPeer
  <1>2. /\ active'[n] = p /\ active'[p] = active[p] /\ revision'[n] # revision'[p]
        /\ Basics' /\ (Linked' <=> Linked) /\ (VipWorks' <=> VipWorks)
        /\ (\A m \in Node : alive(m)' <=> alive(m)) /\ UNCHANGED <<session, bfd, queue>>
    BY <1>0, <1>1, WriteKeeps
  <1>3. LiveCalls'
    BY <1>1 DEF Base, OwnInv, LiveCalls
  <1>4. \A m \in Node, u \in Thread : pc'[m][u] = IF m = n /\ u = t THEN "idle" ELSE pc[m][u]
    BY <1>1, Moved DEF Base
  <1>5. pc[n][t] \in switching /\ pc[n][t] \in moving
    BY <1>1 DEF switching, moving
  <1>6. active[p] = p => Agree'
    BY <1>0, <1>2, AgreeIs
  <1>7. CASE t = "api"
    <2>1. Linked /\ OperatorAt(n)
      BY <1>5, <1>7, PlaceIs
    <2>2. pc'[n]["api"] = "idle" /\ \A m \in Node, u \in Thread : m # n \/ u # "api" => pc'[m][u] = pc[m][u]
      BY <1>4, <1>7 DEF Thread
    <2>3. active[p] = p
      BY <1>0, <1>1, <1>7, <2>1 DEF OperatorAt
    <2> QED BY <1>1, <1>2, <1>3, <1>6, <2>1, <2>2, <2>3, OperatorStep
  <1>8. CASE t = "election"
    <2>1. Linked /\ ApiIdle /\ Automatic /\ Adopts(n)
      BY <1>1, <1>5, <1>8, PlaceIs
    <2>2. /\ pc'[n]["election"] = "idle" /\ pc'[p]["election"] = pc[p]["election"]
          /\ \A m \in Node, u \in Thread : m # n \/ u # "election" => pc'[m][u] = pc[m][u]
      BY <1>0, <1>4, <1>8 DEF Thread
    <2>3. active[p] = p /\ pc[p]["election"] \notin moving
      BY <1>0, <1>1, <1>8, <2>1 DEF Adopts
    <2>4. ElectionAt(n)'
      BY <2>2 DEF ElectionAt, asking, moving
    <2>5. ElectionAt(p)'
      BY <1>2, <2>1, <2>2, <2>3 DEF Automatic, ElectionAt
    <2>6. Automatic'
      BY <1>0, <1>6, <2>3, <2>4, <2>5 DEF Automatic
    <2> QED BY <1>1, <1>2, <1>3, <2>1, <2>2, <2>6, ElectionStep
  <1>9. CASE t = "main"
    <2>1. ~Linked /\ stopping[n]
      BY <1>5, <1>9, PlaceIs
    <2>2. VipWorks /\ OutageAt(n) /\ OutageAt(p)
      BY <2>1 DEF Base, OwnInv, Outage
    <2>3. active[p] = p /\ ~stopping[p]
      BY <1>0, <1>1, <1>9, <2>1, <2>2 DEF OutageAt, Base, OwnInv, Basics, OneOutage, alive
    <2>4. /\ pc'[n]["main"] = "idle" /\ pc'[p]["main"] = pc[p]["main"]
          /\ \A m \in Node : pc'[m]["api"] = pc[m]["api"] /\ pc'[m]["election"] = pc[m]["election"]
      BY <1>0, <1>4, <1>9 DEF Thread
    <2>5. Mains' /\ pc[p]["main"] \notin moving
      BY <1>0, <1>1, <2>1, <2>3, <2>4 DEF Base, OwnInv, Mains, MainAt, moving
    <2>6. OutageAt(n)'
      BY <1>0, <1>1, <1>2, <2>2, <2>4 DEF OutageAt, moving
    <2>7. OutageAt(p)'
      BY <1>0, <1>1, <1>2, <2>2, <2>4, <2>5 DEF OutageAt, moving
    <2> QED BY <1>0, <1>2, <1>3, <1>6, <2>1, <2>2, <2>3, <2>5, <2>6, <2>7, OutageStep
  <1> QED BY <1>7, <1>8, <1>9 DEF Thread

(* A step that changes neither selections nor sessions nor processes.      *)
LEMMA StillKeeps ==
    ASSUME Base, UNCHANGED <<active, revision, clock, up, stopping, link, session, bfd, queue>>,
           \E k, l \in Nat : viperrors' = viperrors + k /\ outages' = outages + l
    PROVE  /\ Basics' /\ (Linked' <=> Linked) /\ (VipWorks => VipWorks')
           /\ (Agree' <=> Agree) /\ (Rivals' <=> Rivals) /\ \A m \in Node : alive(m)' <=> alive(m)
  <1>1. Basics'
    <2>1. Stamped'
      BY DEF Base, OwnInv, Basics, Stamped
    <2> QED BY <2>1, BasicsKept DEF Base, OwnInv
  <1>2. (Linked' <=> Linked) /\ \A n \in Node : alive(n)' <=> alive(n)
    BY SameLink
  <1>3. VipWorks => VipWorks'
    <2>1. viperrors \in Nat /\ MaxVipErrors \in Nat
      BY BoundAssumption DEF Base, TypeOK
    <2>2. PICK k \in Nat : viperrors' = viperrors + k
      OBVIOUS
    <2>3. MaxVipErrors <= viperrors => MaxVipErrors <= viperrors'
      BY <2>1, <2>2
    <2> QED BY <2>3 DEF VipWorks
  <1>4. (Agree' <=> Agree) /\ (Rivals' <=> Rivals)
    BY DEF Agree, Rivals
  <1> QED BY <1>1, <1>2, <1>3, <1>4

(* The caller gets its answer.                                             *)
LEMMA OwnAnswer ==
    ASSUME Base, NEW c \in calls, Answer(c)
    PROVE  OwnInv'
  <1> DEFINE n == c.from
             t == c.thread
             ok == c.stage = "ok"
  <1>1. /\ calls = {c} /\ n \in Node /\ t \in Thread /\ pc[n][t] \in waiting
        /\ c.stage \in {"ok", "failed"}
    BY OnlyCall DEF Answer
  <1>2. /\ UNCHANGED <<active, revision, clock, up, stopping, link, session, bfd, queue, asked>>
        /\ viperrors' = viperrors /\ outages' = outages /\ calls' = {} /\ Return(n, t, ok)
    BY <1>1 DEF Answer, data, bfdVars, bounds
  <1>3. Waiter(n, t) /\ (~ok => c.stage = "failed")
    BY <1>1, WaiterIs
  <1>4. /\ Basics' /\ (Linked' <=> Linked) /\ (VipWorks => VipWorks')
        /\ (Agree' <=> Agree) /\ (Rivals' <=> Rivals) /\ \A m \in Node : alive(m)' <=> alive(m)
    <2>1. \E k, l \in Nat : viperrors' = viperrors + k /\ outages' = outages + l
      BY <1>2 DEF Base, TypeOK
    <2> QED BY <1>2, <2>1, StillKeeps
  <1>5. LiveCalls' /\ \A m \in Node : Told(m)'
    BY <1>2 DEF LiveCalls, Told
  <1> HIDE DEF n, t, ok
  <1>0. PICK p \in Node : p = Peer[n] /\ Peer[p] = n /\ n # p /\ \A m \in Node : m = n \/ m = p
    BY <1>1, Two
  <1>6. CASE t = "api" /\ Linked /\ OperatorAt(n)
    <2>1. ASSUME NEW label, Goto(n, "api", label), IF label = "idle" THEN Agree ELSE
              \/ label = "bind_notified" /\ active[p] = n /\ active[n] = p
              \/ label = "commit_peer" /\ active[p] = p
              \/ label = "restore" /\ active[n] = active[p]
          PROVE OwnInv'
      <3>1. /\ pc'[n]["api"] = label /\ pc'[p]["api"] = pc[p]["api"]
            /\ pc'[n]["election"] = pc[n]["election"] /\ pc'[p]["election"] = pc[p]["election"]
            /\ \A m \in Node, u \in Thread : m # n \/ u # "api" => pc'[m][u] = pc[m][u]
        BY <1>0, <1>1, <2>1, Moved DEF Base, Thread
      <3>2. label # "idle" => OperatorAt(n)'
        BY <1>0, <1>2, <1>6, <2>1, <3>1 DEF OperatorAt, Resting
      <3> QED BY <1>1, <1>2, <1>4, <1>5, <1>6, <2>1, <3>1, <3>2, OperatorStep
    <2>2. CASE pc[n]["api"] = "takeover"
      <3>1. Goto(n, "api", IF ok THEN "bind_notified" ELSE "idle")
        BY <1>2, <1>6, <2>2 DEF Return
      <3>2. active[n] = p /\ active[p] = IF ok THEN n ELSE p
        BY <1>0, <1>6, <2>2 DEF OperatorAt, ok
      <3>3. ~ok => Agree
        BY <1>0, <1>1, <3>2, AgreeIs
      <3> QED BY <2>1, <3>1, <3>2, <3>3
    <2>3. CASE pc[n]["api"] = "restore_peer"
      <3>1. Goto(n, "api", "idle")
        BY <1>2, <1>6, <2>3 DEF Return
      <3>2. active[n] = p /\ active[p] = p
        BY <1>0, <1>1, <1>3, <1>6, <2>3 DEF OperatorAt, Told, ok
      <3>3. Agree
        BY <1>0, <1>1, <3>2, AgreeIs
      <3> QED BY <2>1, <3>1, <3>3
    <2>4. CASE pc[n]["api"] = "handoff"
      <3>1. Goto(n, "api", IF ok THEN "commit_peer" ELSE "restore")
        BY <1>2, <1>6, <2>4 DEF Return
      <3>2. IF ok THEN active[p] = p ELSE active[n] = active[p]
        BY <1>0, <1>6, <2>4 DEF OperatorAt, ok
      <3> QED BY <2>1, <3>1, <3>2
    <2> QED BY <1>1, <1>6, <2>2, <2>3, <2>4 DEF waiting
  <1>7. CASE t = "election" /\ Linked /\ ApiIdle /\ pc[n]["election"] = "handoff" /\ Adopts(n) /\ Automatic
    <2>1. ok /\ active[p] = p
      BY <1>0, <1>3, <1>7 DEF Adopts, Told, ok
    <2>2. Goto(n, "election", "commit_peer")
      BY <1>2, <1>7, <2>1 DEF Return
    <2>3. /\ pc'[n]["election"] = "commit_peer" /\ pc'[p]["election"] = pc[p]["election"]
          /\ \A m \in Node, u \in Thread : m # n \/ u # "election" => pc'[m][u] = pc[m][u]
      BY <1>0, <1>1, <2>2, Moved DEF Base, Thread
    <2>4. Adopts(n)' /\ pc[p]["election"] \notin moving
      BY <1>0, <1>2, <1>4, <1>7, <2>1, <2>3 DEF Adopts
    <2>5. ElectionAt(n)'
      BY <1>2, <1>7, <2>3, <2>4 DEF ElectionAt, Adopts, asking, moving
    <2>6. ElectionAt(p)'
      BY <1>2, <1>4, <1>7, <2>3, <2>4 DEF Automatic, ElectionAt
    <2>7. Automatic'
      BY <1>0, <1>1, <2>3, <2>5, <2>6 DEF Automatic, moving
    <2> QED BY <1>1, <1>2, <1>4, <1>5, <1>7, <2>3, <2>7, ElectionStep
  <1>8. CASE t = "main" /\ ~Linked /\ stopping[n] /\ pc[n]["main"] = "handoff"
    <2>1. VipWorks /\ (Agree \/ Rivals) /\ OutageAt(n) /\ OutageAt(p)
      BY <1>1, <1>8 DEF Base, OwnInv, Outage
    <2>2. ok /\ active[p] = p
      BY <1>0, <1>3, <1>8, <2>1 DEF OutageAt, Told, ok
    <2>3. Goto(n, "main", "commit_peer")
      BY <1>2, <1>8, <2>2 DEF Return
    <2>4. /\ pc'[n]["main"] = "commit_peer" /\ pc'[p]["main"] = pc[p]["main"]
          /\ \A m \in Node : pc'[m]["api"] = pc[m]["api"] /\ pc'[m]["election"] = pc[m]["election"]
      BY <1>0, <1>1, <2>3, Moved DEF Base, Thread
    <2>5. Mains'
      BY <1>0, <1>1, <1>2, <1>8, <2>4 DEF Base, OwnInv, Mains, MainAt
    <2>6. OutageAt(n)'
      BY <1>0, <1>1, <1>2, <1>4, <1>8, <2>1, <2>2, <2>4 DEF OutageAt, moving
    <2>7. OutageAt(p)'
      BY <1>0, <1>1, <1>2, <1>4, <1>5, <2>1, <2>4 DEF OutageAt
    <2> QED BY <1>0, <1>4, <1>5, <1>8, <2>1, <2>5, <2>6, <2>7, OutageStep
  <1> QED BY <1>3, <1>6, <1>7, <1>8 DEF Waiter, ApiIdle

(* Nobody's call fails: the peer is there to answer.                       *)
LEMMA NoCallFails ==
    ASSUME Gentle, Base, NEW c \in calls
    PROVE  ~CallFails(c) /\ ~Lost(c)
  <1>1. c.live /\ c.from \in Node /\ c.thread \in Thread /\ pc[c.from][c.thread] \in waiting
    BY OnlyCall
  <1>2. reaches(c.from)
    BY <1>1, WaiterIs DEF reaches
  <1>3. ~(losses < MaxLosses)
    BY NoLoss DEF Base
  <1> QED BY <1>1, <1>2, <1>3 DEF CallFails, Lost

(* The one request advances.                                               *)
LEMMA Advances ==
    ASSUME Base, NEW c \in calls, NEW stage, Advance(c, stage)
    PROVE  \E r : calls' = {r} /\ r.live /\ r.stage = stage
  <1> DEFINE r == [c EXCEPT !.stage = stage]
  <1>1. calls = {c} /\ c.live
    BY OnlyCall
  <1>2. calls' = {r}
    BY <1>1 DEF Advance
  <1>3. r.live /\ r.stage = stage
    BY <1>1 DEF Base, TypeOK, Call
  <1> HIDE DEF r
  <1> QED BY <1>2, <1>3

(* peer_activate applies the role, or fails to.                            *)
LEMMA OwnActivate ==
    ASSUME Base, NEW c \in calls, Activate(c)
    PROVE  OwnInv'
  <1> DEFINE n == c.from
             t == c.thread
  <1>1. /\ calls = {c} /\ n \in Node /\ t \in Thread /\ pc[n][t] \in waiting /\ c.stage = "sent"
    BY OnlyCall DEF Activate
  <1>2. /\ UNCHANGED <<active, revision, clock, up, stopping, link, session, bfd, queue, asked>>
        /\ pc' = pc /\ outages' = outages
        /\ \/ viperrors' = viperrors /\ Advance(c, "applied")
           \/ viperrors < MaxVipErrors /\ viperrors' = viperrors + 1 /\ Advance(c, "failed")
    BY DEF Activate, data, bfdVars
  <1>3. PICK r : /\ calls' = {r} /\ r.live /\ r.stage \in {"applied", "failed"}
                 /\ r.stage = "failed" => ~VipWorks
    BY <1>2, Advances, NoVipError DEF Base
  <1>4. /\ Basics' /\ (Linked' <=> Linked) /\ (VipWorks => VipWorks')
        /\ (Agree' <=> Agree) /\ (Rivals' <=> Rivals) /\ \A m \in Node : alive(m)' <=> alive(m)
    <2>1. \E k, l \in Nat : viperrors' = viperrors + k /\ outages' = outages + l
      <3>1. (viperrors' = viperrors + 0 \/ viperrors' = viperrors + 1) /\ outages' = outages + 0
        BY <1>2 DEF Base, TypeOK
      <3> QED BY <3>1
    <2> QED BY <1>2, <2>1, StillKeeps
  <1>5. LiveCalls' /\ (VipWorks => \A m \in Node : Told(m)')
    BY <1>3 DEF LiveCalls, Told
  <1>6. Waiter(n, t)
    BY <1>1, WaiterIs
  <1> HIDE DEF n, t
  <1>0. PICK p \in Node : p = Peer[n] /\ Peer[p] = n /\ n # p /\ \A m \in Node : m = n \/ m = p
    BY <1>1, Two
  <1>7. CASE t = "api" /\ Linked /\ OperatorAt(n)
    <2>1. pc[n]["api"] = "takeover" => active[p] = p
      BY <1>0, <1>1, <1>7 DEF OperatorAt
    <2>2. pc[n]["api"] = "handoff" => active[n] = active[p]
      BY <1>0, <1>1, <1>7 DEF OperatorAt
    <2>3. OperatorAt(n)'
      BY <1>0, <1>1, <1>2, <1>3, <1>4, <1>5, <1>7, <2>1, <2>2 DEF OperatorAt, Resting
    <2>4. pc'[n]["api"] # "idle" /\ \A m \in Node, u \in Thread : m # n \/ u # "api" => pc'[m][u] = pc[m][u]
      BY <1>2, <1>7 DEF OperatorAt
    <2> QED BY <1>1, <1>2, <1>4, <1>5, <1>7, <2>3, <2>4, OperatorStep
  <1>8. CASE t = "election" /\ Linked /\ ApiIdle /\ pc[n]["election"] = "handoff" /\ Adopts(n) /\ Automatic
    <2>1. Told(n)' /\ VipWorks'
      BY <1>1, <1>4, <1>5, <1>8 DEF Adopts
    <2>2. Adopts(n)' /\ pc[p]["election"] \notin moving
      BY <1>0, <1>2, <1>8, <2>1 DEF Adopts
    <2>3. ElectionAt(n)'
      BY <1>2, <1>8, <2>2 DEF ElectionAt, Adopts, asking, moving
    <2>4. ElectionAt(p)'
      BY <1>2, <1>4, <1>8, <2>2 DEF Automatic, ElectionAt
    <2>5. Automatic'
      BY <1>0, <1>1, <1>2, <1>8, <2>3, <2>4 DEF Automatic, moving
    <2>6. \A m \in Node, u \in Thread : m # n \/ u # "election" => pc'[m][u] = pc[m][u]
      BY <1>2
    <2> QED BY <1>1, <1>2, <1>4, <1>5, <1>8, <2>5, <2>6, ElectionStep
  <1>9. CASE t = "main" /\ ~Linked /\ stopping[n] /\ pc[n]["main"] = "handoff"
    <2>1. VipWorks /\ (Agree \/ Rivals) /\ \A m \in Node : OutageAt(m)
      BY <1>1, <1>9 DEF Base, OwnInv, Outage
    <2>2. Mains'
      BY <1>2 DEF Base, OwnInv, Mains, MainAt
    <2>3. ASSUME NEW m \in Node PROVE OutageAt(m)'
      BY <1>2, <1>4, <1>5, <2>1 DEF OutageAt
    <2> QED BY <1>4, <1>5, <1>9, <2>1, <2>2, <2>3, OutageStep
  <1> QED BY <1>6, <1>7, <1>8, <1>9 DEF Waiter, ApiIdle

(* peer_activate writes the selection of the peer.                         *)
LEMMA OwnActivateCommit ==
    ASSUME Gentle, Base, NEW c \in calls, ActivateCommit(c)
    PROVE  OwnInv'
  <1> DEFINE n == c.from
             t == c.thread
  <1>1. /\ calls = {c} /\ n \in Node /\ t \in Thread /\ pc[n][t] \in waiting /\ c.gateway \in Node
        /\ c.gateway = Expected(n, pc[n][t]) /\ c.stage = "applied"
    BY OnlyCall DEF ActivateCommit
  <1>2. /\ UNCHANGED <<up, stopping, link, bfdVars, bounds>> /\ pc' = pc /\ asked' = asked
        /\ write_active_gateway(Peer[n], c.gateway) /\ Advance(c, "ok")
    BY DEF ActivateCommit
  <1>3. PICK r : calls' = {r} /\ r.live /\ r.stage = "ok"
    BY <1>2, Advances
  <1>4. Waiter(n, t)
    BY <1>1, WaiterIs
  <1> DEFINE gateway == c.gateway
  <1>5. gateway \in Node /\ gateway = Expected(n, pc[n][t]) /\ write_active_gateway(Peer[n], gateway)
    BY <1>1, <1>2
  <1> HIDE DEF n, t, gateway
  <1>0. PICK p \in Node : p = Peer[n] /\ Peer[p] = n /\ n # p /\ \A m \in Node : m = n \/ m = p
    BY <1>1, Two
  <1>6. /\ active'[p] = gateway /\ active'[n] = active[n]
        /\ revision'[n] = revision[n] /\ revision'[p] > revision[p] /\ revision'[p] > revision[n]
        /\ revision'[n] # revision'[p] /\ revision'[p] \in Nat /\ revision[n] \in Nat
        /\ Basics' /\ (Linked' <=> Linked) /\ (VipWorks' <=> VipWorks)
        /\ (\A m \in Node : alive(m)' <=> alive(m)) /\ UNCHANGED <<session, bfd, queue>>
    BY <1>0, <1>1, <1>2, <1>5, WriteKeeps
  <1>7. LiveCalls'
    BY <1>3 DEF LiveCalls
  <1>8. gateway = p => Told(n)'
    BY <1>0, <1>3, <1>6 DEF Told
  <1>9. CASE t = "api" /\ Linked /\ OperatorAt(n)
    <2>1. gateway = IF pc[n]["api"] = "takeover" THEN n ELSE p
      BY <1>0, <1>5, <1>9 DEF Expected
    <2>2. pc[n]["api"] \in {"takeover", "restore_peer", "handoff"}
      BY <1>1, <1>9 DEF waiting
    <2>3. OperatorAt(n)'
      BY <1>0, <1>2, <1>3, <1>6, <1>8, <1>9, <2>1, <2>2 DEF OperatorAt, Resting
    <2>4. pc'[n]["api"] # "idle" /\ \A m \in Node, u \in Thread : m # n \/ u # "api" => pc'[m][u] = pc[m][u]
      BY <1>2, <2>2
    <2> QED BY <1>1, <1>2, <1>6, <1>7, <1>9, <2>3, <2>4, OperatorStep
  <1>10. CASE t = "election" /\ Linked /\ ApiIdle /\ pc[n]["election"] = "handoff" /\ Adopts(n) /\ Automatic
    <2>1. gateway = p /\ Told(n)'
      BY <1>0, <1>5, <1>8, <1>10 DEF Expected
    <2>2. revision'[n] <= revision'[p]
      BY <1>6
    <2>3. Adopts(n)' /\ pc[p]["election"] \notin moving
      BY <1>0, <1>2, <1>6, <1>10, <2>1, <2>2 DEF Adopts
    <2>4. ElectionAt(n)'
      BY <1>2, <1>10, <2>3 DEF ElectionAt, Adopts, asking, moving
    <2>5. ElectionAt(p)'
      BY <1>2, <1>6, <1>10, <2>1, <2>3 DEF Automatic, ElectionAt
    <2>6. Automatic'
      BY <1>0, <1>1, <1>2, <1>10, <2>4, <2>5 DEF Automatic, moving
    <2>7. \A m \in Node, u \in Thread : m # n \/ u # "election" => pc'[m][u] = pc[m][u]
      BY <1>2
    <2> QED BY <1>1, <1>2, <1>6, <1>7, <1>10, <2>6, <2>7, ElectionStep
  <1>11. CASE t = "main" /\ ~Linked /\ stopping[n] /\ pc[n]["main"] = "handoff"
    <2>1. VipWorks /\ OutageAt(n) /\ OutageAt(p)
      BY <1>1, <1>11 DEF Base, OwnInv, Outage
    <2>2. Mains'
      BY <1>2 DEF Base, OwnInv, Mains, MainAt
    <2>3. gateway = p /\ Told(n)' /\ active[n] = n
      BY <1>0, <1>5, <1>8, <1>11, <2>1 DEF Expected, OutageAt, moving
    <2>4. ~stopping[p]
      BY <1>0, <1>1, <1>11 DEF Base, OwnInv, Basics, OneOutage, alive
    <2>5. pc[p]["main"] \notin moving
      BY <2>4 DEF Base, OwnInv, Mains, MainAt, moving
    <2>6. OutageAt(n)'
      BY <1>0, <1>1, <1>2, <1>6, <1>11, <2>1, <2>3 DEF OutageAt
    <2>7. OutageAt(p)'
      BY <1>0, <1>2, <1>6, <2>1, <2>5 DEF OutageAt, moving
    <2>8. Rivals'
      <3>1. active'[n] = n /\ active'[p] = p /\ revision'[n] # revision'[p]
        BY <1>6, <2>3
      <3> QED BY <1>0, <1>1, <3>1, RivalsIs
    <2> QED BY <1>0, <1>6, <1>7, <1>11, <2>1, <2>2, <2>6, <2>7, <2>8, OutageStep
  <1> QED BY <1>4, <1>9, <1>10, <1>11 DEF Waiter, ApiIdle

-----------------------------------------------------------------------------
(* The BFD session.                                                        *)

(* A request is queued: the channel is not empty then.                     *)
LEMMA Queued ==
    ASSUME TypeOK, NEW n \in Node, NEW peer_was_up \in BOOLEAN, queue_election(n, peer_was_up)
    PROVE  /\ queue'[n] # <<>> /\ \A m \in Node : m # n => queue'[m] = queue[m]
           /\ peer_was_up /\ (\A i \in 1..Len(queue[n]) : queue[n][i] = TRUE) =>
                 \A i \in 1..Len(queue'[n]) : queue'[n][i] = TRUE
  <1>1. queue[n] \in Seq(BOOLEAN) /\ Len(queue[n]) \in Nat /\ QueueCap \in Nat \ {0}
    BY BoundAssumption DEF TypeOK
  <1>2. queue' = [queue EXCEPT ![n] = IF Len(queue[n]) < QueueCap THEN Append(queue[n], peer_was_up)
                                                                   ELSE queue[n]]
    BY DEF queue_election
  <1>3. \A m \in Node : m # n => queue'[m] = queue[m]
    BY <1>2 DEF TypeOK
  <1>4. CASE Len(queue[n]) < QueueCap
    <2>1. queue'[n] = Append(queue[n], peer_was_up)
      BY <1>2, <1>4 DEF TypeOK
    <2>2. Len(queue'[n]) = Len(queue[n]) + 1 /\ queue'[n][Len(queue[n]) + 1] = peer_was_up
      BY <1>1, <2>1
    <2>3. \A i \in 1..Len(queue[n]) : queue'[n][i] = queue[n][i]
      BY <1>1, <2>1
    <2>4. queue'[n] # <<>>
      BY <1>1, <2>2
    <2>5. ASSUME peer_was_up, \A i \in 1..Len(queue[n]) : queue[n][i] = TRUE,
                 NEW i \in 1..Len(queue'[n])
          PROVE  queue'[n][i] = TRUE
      <3>1. i \in 1..Len(queue[n]) \/ i = Len(queue[n]) + 1
        BY <1>1, <2>2
      <3> QED BY <2>2, <2>3, <2>5, <3>1
    <2> QED BY <1>3, <2>4, <2>5
  <1>5. CASE ~(Len(queue[n]) < QueueCap)
    <2>1. queue'[n] = queue[n]
      BY <1>2, <1>5 DEF TypeOK
    <2>2. queue[n] # <<>>
      BY <1>1, <1>5
    <2> QED BY <1>3, <2>1, <2>2
  <1> QED BY <1>4, <1>5

(* A step of a session or of the election channel.                         *)
LEMMA SessionKeeps ==
    ASSUME Base, UNCHANGED <<active, revision, clock, up, stopping, link, viperrors, outages, calls>>,
           Status', Handshake'
    PROVE  /\ Basics' /\ LiveCalls' /\ (Linked' <=> Linked) /\ (VipWorks' <=> VipWorks)
           /\ (Agree' <=> Agree) /\ (Rivals' <=> Rivals)
           /\ \A m \in Node : (alive(m)' <=> alive(m)) /\ (Told(m)' <=> Told(m))
  <1>1. (Linked' <=> Linked) /\ \A n \in Node : alive(n)' <=> alive(n)
    BY SameLink
  <1>2. Budget' /\ Stamped' /\ OneOutage' /\ (VipWorks' <=> VipWorks)
    BY DEF Base, OwnInv, Basics, Budget, Stamped, OneOutage, VipWorks, alive
  <1>3. (Agree' <=> Agree) /\ (Rivals' <=> Rivals) /\ LiveCalls'
    BY DEF Agree, Rivals, Base, OwnInv, LiveCalls
  <1>4. \A m \in Node : Told(m)' <=> Told(m)
    BY DEF Told
  <1> QED BY <1>1, <1>2, <1>3, <1>4 DEF Basics

(* The handshake on a healthy link.                                        *)
LEMMA OwnHear ==
    ASSUME Base, NEW n \in Node, Hear(n)
    PROVE  OwnInv'
  <1>0. PICK p \in Node : p = Peer[n] /\ Peer[p] = n /\ n # p /\ \A m \in Node : m = n \/ m = p
    BY Two
  <1> DEFINE s == on_packet(session[n], session[p])
  <1>1. /\ UNCHANGED <<active, revision, clock, up, stopping, link, viperrors, outages, calls>>
        /\ pc' = pc /\ asked' = asked /\ alive(n) /\ alive(p) /\ link
        /\ session' = [session EXCEPT ![n] = s]
        /\ bfd' = [bfd EXCEPT ![n] = IF s = "Up" THEN "up" ELSE "negotiating"]
        /\ IF s # session[n] THEN queue_election(n, s = "Up") ELSE UNCHANGED queue
    BY <1>0 DEF Hear, data, bounds
  <1>2. Linked
    BY <1>0, <1>1 DEF Linked
  <1>3. /\ session[n] = "Up" => session[p] # "Down"
        /\ session[p] = "Up" => session[n] # "Down"
        /\ session[n] \in {"Down", "Init", "Up"} /\ session[p] \in {"Down", "Init", "Up"}
    BY <1>0, <1>2 DEF Base, TypeOK, OwnInv, Basics, Handshake
  <1>4. /\ s # "Down" /\ (session[n] = "Up" => s = "Up") /\ (s = "Up" => session[p] # "Down")
        /\ s \in {"Init", "Up"}
    BY <1>3 DEF on_packet
  <1> HIDE DEF s
  <1>5. session'[n] = s /\ session'[p] = session[p]
        /\ bfd'[n] = (IF s = "Up" THEN "up" ELSE "negotiating") /\ bfd'[p] = bfd[p]
    BY <1>0, <1>1 DEF Base, TypeOK
  <1>6. queue'[p] = queue[p] /\ (IF s # session[n] THEN queue'[n] # <<>> ELSE queue' = queue)
    BY <1>0, <1>1, Queued DEF Base
  <1>7. Status'
    <2>1. (bfd'[n] = "up" <=> s = "Up") /\ bfd'[n] # "down" /\ s # "Down"
      BY <1>4, <1>5
    <2> QED BY <1>0, <1>5, <2>1 DEF Base, OwnInv, Basics, Status
  <1>8. Handshake'
    BY <1>0, <1>2, <1>4, <1>5, <1>6 DEF Base, OwnInv, Basics, Handshake
  <1>9. /\ Basics' /\ LiveCalls' /\ Linked' /\ (VipWorks' <=> VipWorks) /\ (Agree' <=> Agree)
        /\ \A m \in Node : Told(m)' <=> Told(m)
    BY <1>1, <1>2, <1>7, <1>8, SessionKeeps
  <1>10. Mains' /\ Outage'
    BY <1>1, <1>9 DEF Base, OwnInv, Mains, MainAt, Outage
  <1>11. ASSUME NEW m \in Node, OperatorAt(m) PROVE OperatorAt(m)'
    <2>1. Resting(n) /\ Resting(p) /\ Resting(m) /\ Resting(Peer[m])
      BY <1>0, <1>11 DEF OperatorAt
    <2>2. s = session[n] /\ queue' = queue
      BY <1>4, <1>6, <2>1 DEF Resting
    <2>3. session' = session
      BY <1>1, <2>2 DEF Base, TypeOK
    <2> QED BY <1>1, <1>9, <1>11, <2>2, <2>3 DEF OperatorAt, Resting
  <1>12. ASSUME NEW m \in Node, ElectionAt(m) PROVE ElectionAt(m)'
    BY <1>1, <1>9, <1>12 DEF ElectionAt, Adopts
  <1>13. ASSUME Rivalry PROVE Rivalry'
    <2>1. RivalAt(n)'
      BY <1>1, <1>5, <1>6, <1>13 DEF Rivalry, RivalAt
    <2>2. RivalAt(p)'
      BY <1>0, <1>1, <1>5, <1>6, <1>13 DEF Rivalry, RivalAt
    <2> QED BY <1>0, <1>9, <1>13, <2>1, <2>2 DEF Rivalry
  <1>14. Automatic => Automatic'
    BY <1>1, <1>9, <1>12, <1>13 DEF Automatic
  <1>15. Elections'
    BY <1>1, <1>2, <1>11, <1>14 DEF Base, OwnInv, Elections
  <1> QED BY <1>9, <1>10, <1>15 DEF OwnInv

(* A session expires only during an outage.                                *)
LEMMA OwnExpire ==
    ASSUME Gentle, Base, NEW n \in Node, Expire(n)
    PROVE  OwnInv'
  <1>0. PICK p \in Node : p = Peer[n] /\ Peer[p] = n /\ n # p /\ \A m \in Node : m = n \/ m = p
    BY Two
  <1>1. /\ UNCHANGED <<active, revision, clock, up, stopping, link, viperrors, outages, calls>>
        /\ pc' = pc /\ alive(n) /\ ~(link /\ alive(p))
        /\ session' = [session EXCEPT ![n] = "Down"] /\ bfd' = [bfd EXCEPT ![n] = "down"]
        /\ IF session[n] = "Up" THEN queue_election(n, TRUE) ELSE UNCHANGED queue
    BY <1>0, NoLoss DEF Expire, data, Base
  <1>2. ~Linked /\ ~Linked'
    BY <1>0, <1>1, SameLink DEF Linked
  <1>3. /\ session'[n] = "Down" /\ session'[p] = session[p]
        /\ bfd'[n] = "down" /\ bfd'[p] = bfd[p]
    BY <1>0, <1>1 DEF Base, TypeOK
  <1>4. Status' /\ Handshake'
    BY <1>0, <1>2, <1>3 DEF Base, OwnInv, Basics, Status, Handshake
  <1>5. /\ Basics' /\ LiveCalls' /\ (VipWorks' <=> VipWorks) /\ (Agree' <=> Agree)
        /\ (Rivals' <=> Rivals)
        /\ \A m \in Node : (alive(m)' <=> alive(m)) /\ (Told(m)' <=> Told(m))
    BY <1>1, <1>4, SessionKeeps
  <1>6. VipWorks /\ (Agree \/ Rivals) /\ OutageAt(n) /\ OutageAt(p)
    BY <1>2 DEF Base, OwnInv, Outage
  <1>7. queue'[p] = queue[p] /\ \A i \in 1..Len(queue'[n]) : queue'[n][i] = TRUE
    BY <1>0, <1>1, <1>6, Queued DEF Base, OutageAt
  <1>8. OutageAt(n)'
    BY <1>1, <1>3, <1>5, <1>6, <1>7 DEF OutageAt, alive
  <1>9. OutageAt(p)'
    BY <1>0, <1>1, <1>3, <1>5, <1>6, <1>7 DEF OutageAt
  <1>10. Mains'
    BY <1>1 DEF Base, OwnInv, Mains, MainAt
  <1> QED BY <1>0, <1>2, <1>5, <1>6, <1>8, <1>9, <1>10, OutageStep

(* Nothing is lost, so no send fails and nobody probes or asks in vain.    *)
LEMMA ElectionPlace ==
    ASSUME Base, NEW n \in Node, pc[n]["election"] \in asking \cup {"probe"}
    PROVE  /\ Linked /\ ApiIdle /\ Automatic /\ ElectionAt(n) /\ pc[n]["election"] \in asking
           /\ active[n] = n
  <1>1. Linked
    BY DEF Base, OwnInv, Outage, OutageAt, asking
  <1>2. ASSUME NEW m \in Node PROVE pc[m]["api"] = "idle"
    <2> SUFFICES ASSUME pc[m]["api"] # "idle" PROVE FALSE
      OBVIOUS
    <2>1. OperatorAt(m) /\ (n = m \/ n = Peer[m])
      BY <1>1, PairAssumption DEF Base, OwnInv, Elections
    <2>2. Resting(n)
      BY <2>1 DEF OperatorAt
    <2> QED BY <2>2 DEF Resting, asking
  <1>3. ApiIdle
    BY <1>2, Zenon DEF ApiIdle
  <1>4. Automatic /\ ElectionAt(n)
    BY <1>1, <1>2 DEF Base, OwnInv, Elections, Automatic
  <1> QED BY <1>1, <1>3, <1>4 DEF ElectionAt, asking, moving

LEMMA NothingIsLost ==
    ASSUME Gentle, Base, NEW n \in Node
    PROVE  ~SocketError(n) /\ ~Probe(n) /\ ~AskFails(n)
  <1>1. ~(losses < MaxLosses)
    BY NoLoss DEF Base
  <1>2. ~SocketError(n)
    BY <1>1 DEF SocketError
  <1>3. ~Probe(n)
    BY ElectionPlace DEF Probe, asking
  <1>4. ASSUME AskFails(n) PROVE FALSE
    <2>1. pc[n]["election"] \in asking
      BY <1>4 DEF AskFails, asking
    <2>2. Linked /\ Peer[n] \in Node
      BY <2>1, ElectionPlace, PairAssumption
    <2>3. reaches(n)
      BY <2>2 DEF Linked, reaches, alive
    <2> QED BY <1>1, <1>4, <2>3 DEF AskFails
  <1> QED BY <1>2, <1>3, <1>4

(* The worker takes a request: on a healthy link it asks at most, during   *)
(* an outage it promotes this gateway.                                     *)
LEMMA OwnElectionTake ==
    ASSUME Base, NEW n \in Node, ElectionTake(n)
    PROVE  OwnInv'
  <1>0. PICK p \in Node : p = Peer[n] /\ Peer[p] = n /\ n # p /\ \A m \in Node : m = n \/ m = p
    BY Two
  <1>1. /\ UNCHANGED <<active, revision, clock, up, stopping, link, viperrors, outages, calls>>
        /\ UNCHANGED <<session, bfd>> /\ alive(n) /\ pc[n]["election"] = "idle" /\ queue[n] # <<>>
        /\ queue' = [queue EXCEPT ![n] = Tail(queue[n])]
    BY Zenon DEF ElectionTake, data, bounds
  <1>2. queue'[n] = Tail(queue[n]) /\ queue'[p] = queue[p] /\ queue[n] \in Seq(BOOLEAN)
    BY <1>0, <1>1 DEF Base, TypeOK
  <1>3. Status' /\ Handshake'
    BY <1>0, <1>1, <1>2, SameLink DEF Base, OwnInv, Basics, Status, Handshake
  <1>4. /\ Basics' /\ LiveCalls' /\ (Linked' <=> Linked) /\ (VipWorks' <=> VipWorks)
        /\ (Agree' <=> Agree) /\ (Rivals' <=> Rivals)
        /\ \A m \in Node : (alive(m)' <=> alive(m)) /\ (Told(m)' <=> Told(m))
    BY <1>1, <1>3, SessionKeeps
  <1>5. (bfd[n] = "up" <=> session[n] = "Up") /\ (bfd[n] = "down" <=> session[n] = "Down")
    BY DEF Base, OwnInv, Basics, Status
  <1>6. CASE Linked
    <2>1. bfd[n] # "down"
      BY <1>1, <1>5, <1>6 DEF Base, OwnInv, Basics, Handshake
    <2>2. \/ Goto(n, "election", "idle") /\ asked' = asked /\ active[n] # n
          \/ Goto(n, "election", "ask") /\ asked' = [asked EXCEPT ![n] = revision[n]] /\ active[n] = n
          \/ pc' = pc /\ asked' = asked /\ active[n] = n /\ bfd[n] # "up"
      BY <2>1, Zenon DEF ElectionTake, should_promote_local, local_gateway_is_active
    <2>3. /\ pc'[p]["election"] = pc[p]["election"] /\ asked'[p] = asked[p]
          /\ \/ pc'[n]["election"] = "idle" /\ asked'[n] = asked[n] /\ active[n] # n
             \/ pc'[n]["election"] = "ask" /\ asked'[n] = revision[n] /\ active[n] = n
             \/ pc'[n]["election"] = "idle" /\ asked'[n] = asked[n] /\ active[n] = n /\ bfd[n] # "up"
          /\ \A m \in Node, u \in Thread : m # n \/ u # "election" => pc'[m][u] = pc[m][u]
      <3>1. asked \in [Node -> Nat]
        BY DEF Base, TypeOK
      <3>2. \E label \in {"idle", "ask"} :
               /\ pc'[p]["election"] = pc[p]["election"] /\ pc'[n]["election"] = label
               /\ \A m \in Node, u \in Thread : m # n \/ u # "election" => pc'[m][u] = pc[m][u]
               /\ \/ label = "idle" /\ asked' = asked /\ active[n] # n
                  \/ label = "ask" /\ asked' = [asked EXCEPT ![n] = revision[n]] /\ active[n] = n
                  \/ label = "idle" /\ asked' = asked /\ active[n] = n /\ bfd[n] # "up"
        <4>1. CASE Goto(n, "election", "idle") /\ asked' = asked /\ active[n] # n
          BY <1>0, <4>1, Moved DEF Base, Thread
        <4>2. CASE Goto(n, "election", "ask") /\ asked' = [asked EXCEPT ![n] = revision[n]] /\ active[n] = n
          BY <1>0, <4>2, Moved DEF Base, Thread
        <4>3. CASE pc' = pc /\ asked' = asked /\ active[n] = n /\ bfd[n] # "up"
          BY <1>1, <4>3
        <4> QED BY <2>2, <4>1, <4>2, <4>3
      <3> QED BY <1>0, <3>1, <3>2
    <2>4. ASSUME NEW m \in Node PROVE pc[m]["api"] = "idle"
      <3> SUFFICES ASSUME pc[m]["api"] # "idle" PROVE FALSE
        OBVIOUS
      <3>1. OperatorAt(m) /\ (n = m \/ n = Peer[m])
        BY <1>6, PairAssumption DEF Base, OwnInv, Elections
      <3> QED BY <1>1, <3>1 DEF OperatorAt, Resting
    <2>5. ApiIdle
      BY <2>4, Zenon DEF ApiIdle
    <2>6. Automatic /\ ElectionAt(n) /\ ElectionAt(p)
      BY <1>6, <2>4 DEF Base, OwnInv, Elections, Automatic
    <2>7. pc'[n]["election"] \in {"idle", "ask"}
      BY <2>3
    <2>8. ElectionAt(n)'
      BY <1>1, <2>3, <2>7 DEF ElectionAt, asking, moving
    <2>9. pc[p]["election"] \in moving => Adopts(p)'
      <3> SUFFICES ASSUME Adopts(p) PROVE Adopts(p)'
        BY <2>6 DEF ElectionAt
      <3>1. active[n] = n => revision[p] <= revision[n]
        BY <1>0 DEF Adopts
      <3>2. pc'[n]["election"] \in asking => revision[p] <= asked'[n]
        BY <2>3, <3>1 DEF asking
      <3> QED BY <1>0, <1>1, <1>4, <2>3, <2>7, <3>2 DEF Adopts, moving
    <2>10. ElectionAt(p)'
      BY <1>1, <1>4, <2>3, <2>6, <2>9 DEF ElectionAt
    <2>11. pc[p]["election"] \notin moving => Agree' \/ Rivalry'
      <3> SUFFICES ASSUME Rivalry PROVE Rivalry'
        BY <1>0, <1>1, <1>4, <2>6 DEF Automatic, moving
      <3>1. RivalAt(n)'
        BY <1>1, <1>5, <2>3 DEF Rivalry, RivalAt, asking
      <3>2. RivalAt(p)'
        BY <1>0, <1>1, <1>2, <2>3 DEF Rivalry, RivalAt
      <3> QED BY <1>0, <1>4, <3>1, <3>2 DEF Rivalry
    <2>12. Automatic'
      BY <1>0, <2>3, <2>8, <2>10, <2>11 DEF Automatic
    <2> QED BY <1>1, <1>4, <1>6, <2>3, <2>5, <2>12, ElectionStep
  <1>7. CASE ~Linked
    <2>1. VipWorks /\ (Agree \/ Rivals) /\ OutageAt(n) /\ OutageAt(p)
      BY <1>7 DEF Base, OwnInv, Outage
    <2>2. bfd[n] = "down" /\ session[n] = "Down" /\ \A i \in 1..Len(queue[n]) : queue[n][i] = TRUE
      BY <1>1, <1>5, <2>1 DEF OutageAt
    <2>3. Head(queue[n]) = TRUE
      <3>1. 1 \in 1..Len(queue[n]) /\ Head(queue[n]) = queue[n][1]
        BY <1>1, <1>2
      <3> QED BY <2>2, <3>1, Zenon
    <2>4. ASSUME NEW i \in 1..Len(Tail(queue[n])) PROVE Tail(queue[n])[i] = TRUE
      BY <1>1, <1>2, <2>2, TailElement
    <2>5. Goto(n, "election", "bind") \/ pc' = pc
      BY <2>2, <2>3, Zenon DEF ElectionTake, should_promote_local
    <2>6. /\ \A m \in Node : pc'[m]["api"] = pc[m]["api"] /\ pc'[m]["main"] = pc[m]["main"]
          /\ pc'[n]["election"] \in {"idle", "bind"} /\ pc'[p]["election"] = pc[p]["election"]
      BY <1>0, <1>1, <2>5, Moved DEF Base, Thread
    <2>7. Mains'
      BY <1>1, <2>6 DEF Base, OwnInv, Mains, MainAt
    <2>8. \A i \in 1..Len(queue'[n]) : queue'[n][i] = TRUE
      BY <1>2, <2>4
    <2>9. OutageAt(n)'
      BY <1>1, <1>4, <2>1, <2>2, <2>6, <2>8 DEF OutageAt
    <2>10. OutageAt(p)'
      BY <1>0, <1>1, <1>2, <1>4, <2>1, <2>6 DEF OutageAt
    <2> QED BY <1>0, <1>4, <1>7, <2>1, <2>7, <2>9, <2>10, OutageStep
  <1> QED BY <1>6, <1>7

(* A MASTER asks whether its peer is one too.                              *)
LEMMA OwnAskState ==
    ASSUME Base, NEW n \in Node, AskState(n)
    PROVE  OwnInv'
  <1>0. PICK p \in Node : p = Peer[n] /\ Peer[p] = n /\ n # p /\ \A m \in Node : m = n \/ m = p
    BY Two
  <1>1. /\ UNCHANGED <<active, revision, clock, up, stopping, link, session, bfd, queue, calls>>
        /\ viperrors' = viperrors /\ outages' = outages /\ pc[n]["election"] = "ask"
        /\ IF active[p] = p
           THEN Goto(n, "election", "ask_revision") /\ asked' = asked
           ELSE Goto(n, "election", "idle") /\ asked' = [asked EXCEPT ![n] = 0]
    BY <1>0 DEF AskState, data, bfdVars, bounds, local_gateway_is_active
  <1>2. Frame
    <2>1. \E k, l \in Nat : viperrors' = viperrors + k /\ outages' = outages + l
      BY <1>1 DEF Base, TypeOK
    <2> QED BY <1>1, <2>1 DEF Frame
  <1>3. /\ Basics' /\ LiveCalls' /\ (VipWorks => VipWorks') /\ (Agree' <=> Agree)
        /\ \A m \in Node : Told(m)' <=> Told(m)
    BY <1>2, FrameKeeps
  <1>4. Linked /\ ApiIdle /\ Automatic /\ active[n] = n /\ ElectionAt(n) /\ ElectionAt(p)
    BY <1>1, ElectionPlace DEF Automatic, asking
  <1>5. /\ pc'[p]["election"] = pc[p]["election"] /\ asked'[p] = asked[p]
        /\ IF active[p] = p
           THEN pc'[n]["election"] = "ask_revision" /\ asked'[n] = asked[n]
           ELSE pc'[n]["election"] = "idle"
        /\ \A m \in Node, u \in Thread : m # n \/ u # "election" => pc'[m][u] = pc[m][u]
    BY <1>0, <1>1, Moved DEF Base, TypeOK, Thread
  <1>6. pc[p]["election"] \notin moving => Agree \/ Rivalry
    BY <1>0, <1>1, <1>4 DEF Automatic, moving
  <1>7. active[p] = p => VipWorks
    <2> SUFFICES ASSUME active[p] = p PROVE VipWorks
      OBVIOUS
    <2>1. ~Agree
      BY <1>0, <1>4, AgreeIs
    <2> QED BY <1>4, <1>6, <2>1 DEF ElectionAt, Adopts, Rivalry
  <1>8. ElectionAt(n)'
    BY <1>1, <1>3, <1>4, <1>5, <1>7 DEF ElectionAt, asking, moving
  <1>9. pc[p]["election"] \in moving => Adopts(p)'
    <2> SUFFICES ASSUME Adopts(p) PROVE Adopts(p)'
      BY <1>4 DEF ElectionAt
    <2>1. active[p] = p /\ pc'[n]["election"] = "ask_revision" /\ asked'[n] = asked[n]
      BY <1>5 DEF Adopts
    <2> QED BY <1>0, <1>1, <1>3, <1>5, <2>1 DEF Adopts, moving, asking
  <1>10. ElectionAt(p)'
    BY <1>1, <1>3, <1>4, <1>5, <1>9 DEF ElectionAt
  <1>11. pc[p]["election"] \notin moving => Agree' \/ Rivalry'
    <2> SUFFICES ASSUME Rivalry PROVE Rivalry'
      BY <1>3, <1>6
    <2>1. active[p] = p
      BY DEF Rivalry, RivalAt
    <2>2. RivalAt(n)'
      BY <1>1, <1>5, <2>1 DEF Rivalry, RivalAt, asking
    <2>3. RivalAt(p)'
      BY <1>0, <1>1, <1>5 DEF Rivalry, RivalAt
    <2> QED BY <1>0, <1>3, <2>2, <2>3 DEF Rivalry
  <1>12. Automatic'
    BY <1>0, <1>5, <1>8, <1>10, <1>11 DEF Automatic
  <1> QED BY <1>1, <1>3, <1>4, <1>5, <1>12, ElectionStep

(* It hands over to a newer one; with equal clocks only the older MASTER   *)
(* of two does.                                                            *)
LEMMA OwnAskRevision ==
    ASSUME Base, NEW n \in Node, AskRevision(n)
    PROVE  OwnInv'
  <1>0. PICK p \in Node : p = Peer[n] /\ Peer[p] = n /\ n # p /\ \A m \in Node : m = n \/ m = p
    BY Two
  <1>1. /\ UNCHANGED <<active, revision, clock, up, stopping, link, session, bfd, queue, calls>>
        /\ viperrors' = viperrors /\ outages' = outages /\ pc[n]["election"] = "ask_revision"
        /\ Goto(n, "election", IF revision[p] > asked[n] THEN "release" ELSE "idle")
        /\ asked' = [asked EXCEPT ![n] = 0]
    BY <1>0 DEF AskRevision, data, bfdVars, bounds, peer_reports_newer_master
  <1>2. Frame
    <2>1. \E k, l \in Nat : viperrors' = viperrors + k /\ outages' = outages + l
      BY <1>1 DEF Base, TypeOK
    <2> QED BY <1>1, <2>1 DEF Frame
  <1>3. /\ Basics' /\ LiveCalls' /\ (VipWorks => VipWorks') /\ (Agree' <=> Agree)
        /\ \A m \in Node : Told(m)' <=> Told(m)
    BY <1>2, FrameKeeps
  <1>4. Linked /\ ApiIdle /\ Automatic /\ active[n] = n /\ ElectionAt(n) /\ ElectionAt(p) /\ VipWorks
    BY <1>1, ElectionPlace DEF Automatic, ElectionAt, asking
  <1>5. /\ pc'[p]["election"] = pc[p]["election"] /\ asked'[p] = asked[p]
        /\ pc'[n]["election"] = IF revision[p] > asked[n] THEN "release" ELSE "idle"
        /\ \A m \in Node, u \in Thread : m # n \/ u # "election" => pc'[m][u] = pc[m][u]
    BY <1>0, <1>1, Moved DEF Base, TypeOK, Thread
  <1>6. pc[p]["election"] \notin moving => Agree \/ Rivalry
    BY <1>0, <1>1, <1>4 DEF Automatic, moving
  <1>7. revision[n] \in Nat /\ revision[p] \in Nat /\ asked[n] \in Nat /\ asked[p] \in Nat
    BY DEF Base, TypeOK
  <1>8. CASE revision[p] > asked[n]
    <2>1. pc[p]["election"] \notin moving
      <3> SUFFICES ASSUME Adopts(p) PROVE FALSE
        BY <1>4 DEF ElectionAt
      <3>1. revision[p] <= asked[n]
        BY <1>0, <1>1 DEF Adopts, asking
      <3> QED BY <1>7, <1>8, <3>1
    <2>2. /\ active[p] = p => revision[n] <= revision[p]
          /\ pc[p]["election"] \in asking => revision[n] <= asked[p]
      <3>1. CASE Agree
        <4>1. active[p] # p
          BY <1>0, <1>4, <3>1, AgreeIs
        <4> QED BY <1>4, <4>1 DEF ElectionAt
      <3>2. CASE Rivalry
        <4>1. /\ asked[n] = revision[n] /\ (pc[p]["election"] \in asking => asked[p] = revision[p])
          BY <1>1, <3>2 DEF Rivalry, RivalAt, asking
        <4> QED BY <1>7, <1>8, <4>1
      <3> QED BY <1>6, <2>1, <3>1, <3>2
    <2>3. pc'[n]["election"] = "release"
      BY <1>5, <1>8
    <2>4. Adopts(n)'
      BY <1>0, <1>1, <1>3, <1>4, <1>5, <2>1, <2>2, <2>3 DEF Adopts
    <2>5. ElectionAt(n)'
      BY <2>3, <2>4 DEF ElectionAt, asking, moving
    <2>6. ElectionAt(p)'
      BY <1>1, <1>3, <1>4, <1>5, <2>1 DEF ElectionAt
    <2>7. Automatic'
      BY <1>0, <2>3, <2>5, <2>6 DEF Automatic, moving
    <2> QED BY <1>1, <1>3, <1>4, <1>5, <2>7, ElectionStep
  <1>9. CASE ~(revision[p] > asked[n])
    <2>1. pc'[n]["election"] = "idle"
      BY <1>5, <1>9
    <2>2. ElectionAt(n)'
      BY <2>1 DEF ElectionAt, asking, moving
    <2>3. pc[p]["election"] \in moving => Adopts(p)'
      <3> SUFFICES ASSUME Adopts(p) PROVE Adopts(p)'
        BY <1>4 DEF ElectionAt
      <3> QED BY <1>0, <1>1, <1>3, <1>5, <2>1 DEF Adopts, moving, asking
    <2>4. ElectionAt(p)'
      BY <1>1, <1>3, <1>4, <1>5, <2>3 DEF ElectionAt
    <2>5. pc[p]["election"] \notin moving => Agree' \/ Rivalry'
      <3> SUFFICES ASSUME Rivalry PROVE Rivalry'
        BY <1>3, <1>6
      <3>1. asked[n] = revision[n]
        BY <1>1 DEF Rivalry, RivalAt, asking
      <3>2. ~(revision[n] < revision[p])
        BY <1>7, <1>9, <3>1
      <3>3. RivalAt(n)'
        BY <1>0, <1>1, <2>1, <3>2 DEF Rivalry, RivalAt, asking
      <3>4. RivalAt(p)'
        BY <1>0, <1>1, <1>5 DEF Rivalry, RivalAt
      <3> QED BY <1>0, <1>3, <3>3, <3>4 DEF Rivalry
    <2>6. Automatic'
      BY <1>0, <1>5, <2>2, <2>4, <2>5 DEF Automatic
    <2> QED BY <1>1, <1>3, <1>4, <1>5, <2>6, ElectionStep
  <1> QED BY <1>8, <1>9

-----------------------------------------------------------------------------
(* The operator and the main loop.                                         *)

(* An operator asks a pair at rest.                                        *)
LEMMA OwnFailover ==
    ASSUME Gentle, Base, NEW n \in Node, NEW target \in Node, Failover(n, target)
    PROVE  OwnInv'
  <1>0. PICK p \in Node : p = Peer[n] /\ Peer[p] = n /\ n # p /\ \A m \in Node : m = n \/ m = p
    BY Two
  <1>1. Quiet
    BY DEF Failover, MayDisturb, Gentle
  <1>2. /\ Linked /\ Agree /\ calls = {} /\ Resting(n) /\ Resting(p)
        /\ pc[n]["api"] = "idle" /\ pc[p]["api"] = "idle" /\ up[p]
    BY <1>1, QuietAgrees
  <1>3. /\ UNCHANGED <<active, revision, clock, up, stopping, link, session, bfd, queue, asked>>
        /\ viperrors' = viperrors /\ outages' = outages
    BY DEF Failover, data, bfdVars
  <1>4. active[n] = active[p] /\ active[n] \in {n, p}
    BY <1>0, <1>2, AgreeIs DEF Base, TypeOK
  <1>5. \E label \in {"takeover", "bind", "release"} :
           /\ Goto(n, "api", label)
           /\ IF label = "takeover" THEN active[n] = p /\ Notify(n, "api", n) ELSE calls' = {}
           /\ label = "bind" => active[n] = n
    <2>1. CASE target = n /\ active[n] # n
      BY <1>0, <1>4, <2>1 DEF Failover, local_gateway_is_active
    <2>2. CASE target = n /\ active[n] = n
      BY <1>0, <1>2, <2>2 DEF Failover, local_gateway_is_active
    <2>3. CASE target = p
      BY <1>0, <1>2, <2>3 DEF Failover
    <2> QED BY <1>0, <2>1, <2>2, <2>3
  <1>6. PICK label \in {"takeover", "bind", "release"} :
           /\ Goto(n, "api", label)
           /\ IF label = "takeover" THEN active[n] = p /\ Notify(n, "api", n) ELSE calls' = {}
           /\ label = "bind" => active[n] = n
    BY <1>5
  <1>7. \A c \in calls' : c.live /\ c.stage = "sent"
    <2>1. CASE label = "takeover"
      <3> DEFINE r == [ from |-> n, thread |-> "api", gateway |-> n, live |-> TRUE,
                        stage |-> IF up[Peer[n]] THEN "sent" ELSE "failed" ]
      <3>1. calls' = {r}
        BY <1>2, <1>6, <2>1 DEF Notify
      <3>2. r.live /\ r.stage = "sent"
        BY <1>0, <1>2
      <3> HIDE DEF r
      <3> QED BY <3>1, <3>2
    <2>2. CASE label # "takeover"
      BY <1>6, <2>2
    <2> QED BY <2>1, <2>2
  <1>8. /\ pc'[n]["api"] = label /\ pc'[p]["api"] = "idle"
        /\ \A m \in Node : pc'[m]["election"] = pc[m]["election"] /\ pc'[m]["main"] = pc[m]["main"]
    BY <1>0, <1>2, <1>6, Moved DEF Base, Thread
  <1>9. Basics' /\ Linked'
    <2>1. \E k, l \in Nat : viperrors' = viperrors + k /\ outages' = outages + l
      BY <1>3 DEF Base, TypeOK
    <2> QED BY <1>2, <1>3, <2>1, StillKeeps
  <1>10. LiveCalls'
    BY <1>7 DEF LiveCalls
  <1>11. Mains' /\ Outage'
    BY <1>3, <1>8, <1>9 DEF Base, OwnInv, Mains, MainAt, Outage
  <1>12. OperatorAt(n)'
    BY <1>0, <1>2, <1>3, <1>4, <1>6, <1>7, <1>8 DEF OperatorAt, Resting
  <1>13. Elections'
    BY <1>0, <1>8, <1>12 DEF Elections
  <1> QED BY <1>9, <1>10, <1>11, <1>13 DEF OwnInv

(* The watch loop and the end of a stop switch nothing over.               *)
LEMMA OwnMain ==
    ASSUME Base, NEW n \in Node, Watch(n) \/ ReconcileVip(n) \/ StopRelease(n)
    PROVE  OwnInv'
  <1>1. Frame /\ asked' = asked /\ stopping' = stopping
    BY FrameIs DEF Watch, ReconcileVip, StopRelease, bounds, Base
  <1>2. up[n] /\ \E label \in {"idle", "rebind", "unbind"} :
                    Goto(n, "main", label) /\ (label # "idle" => ~stopping[n])
    BY DEF Watch, ReconcileVip, StopRelease, alive
  <1>3. PICK label \in {"idle", "rebind", "unbind"} :
                    Goto(n, "main", label) /\ (label # "idle" => ~stopping[n])
    BY <1>2
  <1>4. pc'[n]["main"] = label /\ label \notin moving
    BY <1>3, Moved DEF Base, Thread, moving
  <1>5. MainAt(n)'
    <2>1. stopping[n] \in BOOLEAN
      BY DEF Base, TypeOK
    <2> QED BY <1>1, <1>3, <1>4, <2>1 DEF MainAt
  <1> QED BY <1>1, <1>2, <1>3, <1>4, <1>5, MainMoves

(* A disturbance counts, so no change of the VIP fails from then on.       *)
LEMMA Disturbs ==
    ASSUME Base, outages < MaxOutages, viperrors' = viperrors, outages' = outages + 1
    PROVE  VipWorks /\ VipWorks' /\ Budget'
  <1>1. /\ viperrors \in Nat /\ outages \in Nat /\ MaxVipErrors \in Nat /\ MaxOutages \in Nat
        /\ MaxOutages <= outages \/ MaxVipErrors <= viperrors
    BY BoundAssumption DEF Base, OwnInv, TypeOK, Basics, Budget, VipWorks
  <1>2. MaxVipErrors <= viperrors /\ MaxVipErrors <= viperrors + 1
    BY <1>1
  <1> QED BY <1>2 DEF VipWorks, Budget

(* A daemon that is told to stop hands over if it is the MASTER.           *)
LEMMA OwnStop ==
    ASSUME Gentle, Base, NEW n \in Node, Stop(n)
    PROVE  OwnInv'
  <1>0. PICK p \in Node : p = Peer[n] /\ Peer[p] = n /\ n # p /\ \A m \in Node : m = n \/ m = p
    BY Two
  <1>1. Quiet
    BY DEF Stop, MayDisturb, Gentle
  <1>2. /\ Linked /\ Agree /\ calls = {}
        /\ \A m \in Node : /\ Resting(m) /\ pc[m]["api"] = "idle" /\ pc[m]["main"] = "idle"
                           /\ alive(m) /\ up[m] /\ ~stopping[m]
    BY <1>1, QuietAgrees
  <1>3. /\ UNCHANGED <<active, revision, clock, up, link, session, bfd, queue, calls, viperrors>>
        /\ outages < MaxOutages /\ outages' = outages + 1
        /\ stopping' = [stopping EXCEPT ![n] = TRUE]
        /\ Goto(n, "main", IF active[n] = n THEN "release" ELSE "stop_release")
    BY DEF Stop, data, bfdVars, local_gateway_is_active
  <1>4. VipWorks' /\ Budget'
    BY <1>3, Disturbs
  <1>5. stopping'[n] /\ ~stopping'[p] /\ up'[p] /\ up'[n] /\ link'
    BY <1>0, <1>2, <1>3 DEF Base, TypeOK, Linked
  <1>6. ~Linked' /\ ~alive(n)' /\ alive(p)'
    BY <1>5 DEF Linked, alive
  <1>7. /\ pc'[n]["main"] = (IF active[n] = n THEN "release" ELSE "stop_release")
        /\ pc'[p]["main"] = pc[p]["main"]
        /\ \A m \in Node : pc'[m]["election"] = pc[m]["election"] /\ pc'[m]["api"] = pc[m]["api"]
    BY <1>0, <1>3, Moved DEF Base, Thread
  <1>8. Basics'
    <2>1. Stamped' /\ Status' /\ Handshake'
      BY <1>3, <1>6 DEF Base, OwnInv, Basics, Stamped, Status, Handshake
    <2>2. OneOutage'
      BY <1>0, <1>5, <1>6 DEF OneOutage
    <2> QED BY <1>4, <2>1, <2>2 DEF Basics
  <1>9. LiveCalls' /\ Agree'
    BY <1>2, <1>3 DEF LiveCalls, Agree
  <1>10. Mains'
    BY <1>0, <1>2, <1>5, <1>7 DEF Mains, MainAt
  <1>11. queue[n] = <<>> /\ queue[p] = <<>> /\ Len(<<>>) = 0
    BY <1>2 DEF Resting
  <1>12. OutageAt(n)'
    BY <1>2, <1>3, <1>5, <1>7, <1>11 DEF OutageAt, Resting, moving
  <1>13. OutageAt(p)'
    BY <1>2, <1>3, <1>5, <1>6, <1>7, <1>11 DEF OutageAt, Resting, moving
  <1> QED BY <1>0, <1>4, <1>6, <1>8, <1>9, <1>10, <1>12, <1>13, OutageStep

(* The link breaks while the pair is at rest.                              *)
LEMMA OwnCut ==
    ASSUME Gentle, Base, Cut
    PROVE  OwnInv'
  <1>1. Quiet
    BY DEF Cut, MayDisturb, Gentle
  <1>2. /\ Linked /\ Agree /\ calls = {}
        /\ \A m \in Node : /\ Resting(m) /\ pc[m]["api"] = "idle" /\ pc[m]["main"] = "idle"
                           /\ alive(m) /\ up[m] /\ ~stopping[m]
    BY <1>1, QuietAgrees
  <1>3. /\ UNCHANGED <<active, revision, clock, up, stopping, session, bfd, queue, pc, calls, viperrors>>
        /\ outages < MaxOutages /\ outages' = outages + 1 /\ link' = FALSE
    BY DEF Cut, data, bfdVars
  <1>4. VipWorks' /\ Budget'
    BY <1>3, Disturbs
  <1>5. ~Linked' /\ \A m \in Node : alive(m)' /\ up'[m]
    BY <1>2, <1>3 DEF Linked, alive
  <1>6. Basics'
    <2>1. Stamped' /\ Status' /\ Handshake'
      BY <1>3, <1>5 DEF Base, OwnInv, Basics, Stamped, Status, Handshake
    <2>2. OneOutage'
      BY <1>5 DEF OneOutage
    <2> QED BY <1>4, <2>1, <2>2 DEF Basics
  <1>7. LiveCalls' /\ Agree' /\ Mains'
    BY <1>2, <1>3 DEF LiveCalls, Agree, Base, OwnInv, Mains, MainAt
  <1>8. ASSUME NEW m \in Node PROVE OutageAt(m)'
    <2>1. queue[m] = <<>> /\ Len(<<>>) = 0
      BY <1>2 DEF Resting
    <2> QED BY <1>2, <1>3, <1>5, <2>1 DEF OutageAt, Resting, moving
  <1> QED BY <1>4, <1>5, <1>6, <1>7, <1>8, OutageStep

(* A process ends while its peer runs and no request is under way.         *)
LEMMA Ended ==
    ASSUME Base, NEW n \in Node, ProcessEnds(n), link, alive(Peer[n]), calls = {},
           UNCHANGED <<active, revision, clock, link, viperrors>>,
           VipWorks', Budget', Agree \/ Rivals, OutageAt(Peer[n])
    PROVE  OwnInv'
  <1>0. PICK p \in Node : p = Peer[n] /\ Peer[p] = n /\ n # p /\ \A m \in Node : m = n \/ m = p
    BY Two
  <1>1. /\ ~up'[n] /\ up'[p] = up[p] /\ ~stopping'[n] /\ stopping'[p] = stopping[p]
        /\ session'[n] = "Down" /\ session'[p] = session[p]
        /\ bfd'[n] = "down" /\ bfd'[p] = bfd[p]
        /\ queue'[n] = <<>> /\ queue'[p] = queue[p]
        /\ pc'[n] = [t \in Thread |-> "idle"] /\ pc'[p] = pc[p]
    BY <1>0 DEF ProcessEnds, Base, TypeOK
  <1>2. pc'[n]["main"] = "idle" /\ pc'[n]["api"] = "idle" /\ pc'[n]["election"] = "idle"
    BY <1>1 DEF Thread
  <1>3. calls' = {}
    BY DEF ProcessEnds, calls_without
  <1>4. ~Linked' /\ ~alive(n)' /\ alive(p)' /\ (alive(p)' <=> alive(p)) /\ ~stopping[p]
    BY <1>0, <1>1 DEF Linked, alive
  <1>5. Basics'
    <2>1. Stamped' /\ Handshake'
      BY <1>4 DEF Base, OwnInv, Basics, Stamped, Handshake
    <2>2. Status'
      BY <1>0, <1>1 DEF Base, OwnInv, Basics, Status
    <2>3. OneOutage'
      BY <1>0, <1>1, <1>4 DEF OneOutage, alive
    <2> QED BY <2>1, <2>2, <2>3 DEF Basics
  <1>6. LiveCalls' /\ Told(p)' /\ (Agree' \/ Rivals')
    BY <1>3 DEF LiveCalls, Told, Agree, Rivals
  <1>7. Mains' /\ pc[p]["main"] \notin moving
    BY <1>0, <1>1, <1>2, <1>4 DEF Base, OwnInv, Mains, MainAt, moving
  <1>8. OutageAt(n)'
    <2>1. Len(queue'[n]) = 0
      BY <1>1
    <2> QED BY <1>1, <1>2, <2>1 DEF OutageAt, moving
  <1>9. OutageAt(p)'
    BY <1>0, <1>1, <1>4, <1>6, <1>7 DEF OutageAt, moving
  <1> QED BY <1>0, <1>4, <1>5, <1>6, <1>7, <1>8, <1>9, OutageStep

(* A daemon that stopped exits.                                            *)
LEMMA OwnExit ==
    ASSUME Base, NEW n \in Node, Exit(n)
    PROVE  OwnInv'
  <1>0. PICK p \in Node : p = Peer[n] /\ Peer[p] = n /\ n # p /\ \A m \in Node : m = n \/ m = p
    BY Two
  <1>1. /\ UNCHANGED <<active, revision, clock, link, viperrors, outages>> /\ ProcessEnds(n)
        /\ stopping[n] /\ pc[n]["main"] = "idle"
    BY DEF Exit, data, bounds
  <1>2. ~Linked /\ ~alive(n)
    BY <1>1 DEF Linked, alive
  <1>3. link /\ alive(p) /\ ~stopping[p]
    BY <1>0, <1>2 DEF Base, OwnInv, Basics, OneOutage, alive
  <1>4. VipWorks /\ (Agree \/ Rivals) /\ OutageAt(n) /\ OutageAt(p)
    BY <1>2 DEF Base, OwnInv, Outage
  <1>5. pc[p]["main"] \notin waiting
    BY <1>3 DEF Base, OwnInv, Mains, MainAt, waiting
  <1>6. calls = {}
    <2>1. ASSUME NEW m \in Node, NEW u \in Thread PROVE pc[m][u] \notin waiting
      BY <1>0, <1>1, <1>4, <1>5 DEF OutageAt, waiting, Thread
    <2> QED BY <2>1, NoCalls
  <1>7. VipWorks' /\ Budget'
    BY <1>1, <1>4 DEF VipWorks, Budget, Base, OwnInv, Basics
  <1> QED BY <1>0, <1>1, <1>3, <1>4, <1>6, <1>7, Ended

(* A daemon is killed while the pair is at rest.                           *)
LEMMA OwnCrash ==
    ASSUME Gentle, Base, NEW n \in Node, Crash(n)
    PROVE  OwnInv'
  <1>0. PICK p \in Node : p = Peer[n] /\ Peer[p] = n /\ n # p /\ \A m \in Node : m = n \/ m = p
    BY Two
  <1>1. Quiet
    BY DEF Crash, MayDisturb, Gentle
  <1>2. /\ Linked /\ Agree /\ calls = {}
        /\ Resting(p) /\ pc[p]["api"] = "idle" /\ pc[p]["main"] = "idle" /\ alive(p) /\ up[p]
    BY <1>1, QuietAgrees
  <1>3. /\ UNCHANGED <<active, revision, clock, link, viperrors>> /\ ProcessEnds(n)
        /\ outages < MaxOutages /\ outages' = outages + 1
    BY DEF Crash, data
  <1>4. VipWorks' /\ Budget'
    BY <1>3, Disturbs
  <1>5. OutageAt(p)
    <2>1. queue[p] = <<>> /\ Len(<<>>) = 0
      BY <1>2 DEF Resting
    <2> QED BY <1>2, <2>1 DEF OutageAt, Resting, moving
  <1>6. link
    BY <1>2 DEF Linked
  <1> QED BY <1>0, <1>2, <1>3, <1>4, <1>5, <1>6, Ended

(* The outage is over: both gateways start a session.                      *)
LEMMA Recovers ==
    ASSUME Base, ~Linked, Linked', OneOutage',
           UNCHANGED <<active, revision, clock, stopping, session, bfd, queue, pc, calls, viperrors, outages>>,
           \A m \in Node : session[m] = "Down" /\ queue[m] = <<>> /\ pc[m]["election"] = "idle"
    PROVE  OwnInv'
  <1>1. VipWorks /\ (Agree \/ Rivals) /\ \A m \in Node : pc[m]["api"] = "idle"
    BY DEF Base, OwnInv, Outage, OutageAt
  <1>2. Basics'
    <2>1. Budget' /\ Stamped' /\ Status'
      BY DEF Base, OwnInv, Basics, Budget, VipWorks, Stamped, Status
    <2>2. Handshake'
      BY DEF Handshake
    <2> QED BY <2>1, <2>2 DEF Basics
  <1>3. LiveCalls' /\ Mains' /\ Outage'
    BY DEF Base, OwnInv, LiveCalls, Mains, MainAt, Outage
  <1>4. ASSUME NEW m \in Node PROVE ElectionAt(m)'
    BY DEF ElectionAt, asking, moving
  <1>5. Agree' \/ Rivalry'
    <2>1. CASE Agree
      BY <2>1 DEF Agree
    <2>2. CASE Rivals
      <3>1. ASSUME NEW m \in Node PROVE RivalAt(m)'
        BY <2>2 DEF Rivals, RivalAt, asking
      <3>2. VipWorks'
        BY <1>1 DEF VipWorks
      <3> QED BY <3>1, <3>2 DEF Rivalry
    <2> QED BY <1>1, <2>1, <2>2
  <1>6. Automatic'
    BY <1>4, <1>5 DEF Automatic
  <1>7. Elections'
    BY <1>1, <1>6 DEF Elections
  <1> QED BY <1>2, <1>3, <1>7 DEF OwnInv

LEMMA OwnRestart ==
    ASSUME Gentle, Base, NEW n \in Node, Restart(n)
    PROVE  OwnInv'
  <1>0. PICK p \in Node : p = Peer[n] /\ Peer[p] = n /\ n # p /\ \A m \in Node : m = n \/ m = p
    BY Two
  <1>1. /\ UNCHANGED <<active, revision, clock, stopping, session, bfd, queue, pc, calls, viperrors, outages>>
        /\ UNCHANGED link /\ ~up[n] /\ up' = [up EXCEPT ![n] = TRUE] /\ settled(p)
    BY DEF Restart, data, bfdVars, bounds, MayRecover, Gentle
  <1>2. ~Linked /\ ~alive(n)
    BY <1>1 DEF Linked, alive
  <1>3. link /\ up[p] /\ ~stopping[p] /\ ~stopping[n]
    BY <1>0, <1>1, <1>2 DEF Base, OwnInv, Basics, OneOutage, alive
  <1>4. up'[n] /\ up'[p]
    BY <1>1, <1>3 DEF Base, TypeOK
  <1>5. Linked' /\ OneOutage'
    BY <1>0, <1>1, <1>3, <1>4 DEF Linked, OneOutage, alive
  <1>6. session[p] = "Down" /\ queue[p] = <<>> /\ pc[p]["election"] = "idle"
    BY <1>1, <1>3 DEF settled, busy, Thread
  <1>7. session[n] = "Down" /\ queue[n] = <<>> /\ pc[n]["election"] = "idle"
    BY <1>1, <1>2 DEF Base, OwnInv, Outage, OutageAt
  <1>8. ASSUME NEW m \in Node PROVE session[m] = "Down" /\ queue[m] = <<>> /\ pc[m]["election"] = "idle"
    BY <1>0, <1>6, <1>7
  <1> QED BY <1>1, <1>2, <1>5, <1>8, Recovers

LEMMA OwnHeal ==
    ASSUME Gentle, Base, Heal
    PROVE  OwnInv'
  <1>1. /\ UNCHANGED <<active, revision, clock, stopping, session, bfd, queue, pc, calls, viperrors, outages>>
        /\ UNCHANGED up /\ ~link /\ link' = TRUE /\ \A m \in Node : settled(m)
    BY DEF Heal, data, bfdVars, bounds, MayRecover, Gentle
  <1>2. ~Linked /\ \A m \in Node : up[m] /\ ~stopping[m]
    BY <1>1 DEF Linked, Base, OwnInv, Basics, OneOutage, alive
  <1>3. Linked' /\ OneOutage'
    BY <1>1, <1>2 DEF Linked, OneOutage, alive
  <1>4. ASSUME NEW m \in Node PROVE session[m] = "Down" /\ queue[m] = <<>> /\ pc[m]["election"] = "idle"
    BY <1>1, <1>2 DEF settled, busy, Thread
  <1> QED BY <1>1, <1>2, <1>3, <1>4, Recovers

LEMMA OwnStutter ==
    ASSUME Base, UNCHANGED vars
    PROVE  OwnInv'
  <1>1. UNCHANGED <<active, revision, clock, up, stopping, link, session, bfd, queue, pc, asked, calls,
                    viperrors, outages>>
    BY DEF vars
  <1>2. Frame
    <2>1. \E k, l \in Nat : viperrors' = viperrors + k /\ outages' = outages + l
      BY <1>1 DEF Base, TypeOK
    <2> QED BY <1>1, <2>1 DEF Frame
  <1>3. Mains'
    BY <1>1 DEF Base, OwnInv, Mains, MainAt
  <1>4. Outage'
    <2>1. ASSUME NEW m \in Node, OutageAt(m) PROVE OutageAt(m)'
      BY <1>1, <1>2, <2>1, FrameKeeps DEF OutageAt
    <2> QED BY <1>2, <2>1, FrameKeeps DEF Base, OwnInv, Outage
  <1>5. Elections'
    <2>1. ASSUME NEW m \in Node, OperatorAt(m) PROVE OperatorAt(m)'
      BY <1>1, <1>2, <2>1, FrameKeeps DEF OperatorAt, Resting
    <2>2. ASSUME NEW m \in Node, ElectionAt(m) PROVE ElectionAt(m)'
      BY <1>1, <1>2, <2>2, FrameKeeps DEF ElectionAt, Adopts
    <2>3. ASSUME Rivalry PROVE Rivalry'
      BY <1>1, <1>2, <2>3, FrameKeeps DEF Rivalry, RivalAt
    <2>4. Automatic => Automatic'
      BY <1>1, <1>2, <2>2, <2>3, FrameKeeps DEF Automatic
    <2> QED BY <1>1, <1>2, <2>1, <2>4, FrameKeeps DEF Base, OwnInv, Elections
  <1> QED BY <1>2, <1>3, <1>4, <1>5, FrameKeeps DEF OwnInv

-----------------------------------------------------------------------------
(* The pair starts in agreement, without a session.                        *)
LEMMA InitOwn ==
    ASSUME Gentle, Init
    PROVE  OwnInv
  <1>1. PICK master \in Node : active = [n \in Node |-> master]
    BY DEF Init
  <1>2. /\ revision = Skew /\ up = [n \in Node |-> TRUE]
        /\ stopping = [n \in Node |-> FALSE] /\ link = TRUE
        /\ session = [n \in Node |-> "Down"] /\ bfd = [n \in Node |-> "down"]
        /\ queue = [n \in Node |-> <<>>] /\ pc = [n \in Node |-> [t \in Thread |-> "idle"]]
        /\ calls = {} /\ clock = 0
    BY DEF Init
  <1>3. ASSUME NEW n \in Node
        PROVE  /\ pc[n]["api"] = "idle" /\ pc[n]["election"] = "idle" /\ pc[n]["main"] = "idle"
               /\ up[n] /\ ~stopping[n] /\ session[n] = "Down" /\ bfd[n] = "down"
               /\ queue[n] = <<>>
    BY <1>2, Zenon DEF Thread
  <1>4. Linked /\ \A n \in Node : alive(n)
    BY <1>2, <1>3 DEF Linked, alive
  <1>5. Budget
    <2>1. PICK s \in Spent : outages = s.outages /\ viperrors = s.viperrors
      BY DEF Init
    <2>2. s.outages \in Nat /\ s.viperrors \in Nat /\ MaxOutages \in Nat /\ MaxVipErrors \in Nat
      BY BoundAssumption
    <2>3. MaxVipErrors <= s.viperrors \/ (MaxOutages <= s.outages /\ MaxVipErrors <= s.viperrors + 1)
      BY DEF Gentle
    <2>4. MaxVipErrors <= s.viperrors + 1 /\ (MaxOutages <= s.outages \/ MaxVipErrors <= s.viperrors)
      BY <2>2, <2>3
    <2> QED BY <2>1, <2>4 DEF Budget, VipWorks
  <1>6. Stamped
    <2>1. revision = Skew /\ clock = 0
      BY <1>2, Zenon
    <2>2. ASSUME NEW n \in Node PROVE revision[n] <= clock + Skew[n]
      BY <2>1, SkewAssumption
    <2> QED BY <2>2, Zenon DEF Stamped
  <1>7. Status /\ OneOutage /\ Handshake /\ LiveCalls /\ Mains /\ Outage
    BY <1>2, <1>3, <1>4 DEF Status, OneOutage, Handshake, LiveCalls, Mains, MainAt, Outage
  <1>8. Agree
    <2>1. PICK n \in Node : TRUE
      BY PreferredAssumption
    <2>2. active[n] = active[Peer[n]]
      BY <1>1, PeerType
    <2> QED BY <2>2, AgreeIs
  <1>9. Automatic
    BY <1>3, <1>8 DEF Automatic, ElectionAt, asking, moving
  <1>10. Elections
    BY <1>3, <1>9 DEF Elections
  <1> QED BY <1>5, <1>6, <1>7, <1>10 DEF OwnInv, Basics

(* Every step keeps the inductive invariant of ownership.                  *)
LEMMA OwnStep ==
    ASSUME Gentle, Base, [Next]_vars
    PROVE  OwnInv'
  <1>1. ASSUME NEW n \in Node, BfdLoop(n) PROVE OwnInv'
    BY <1>1, OwnHear, OwnExpire, NothingIsLost DEF BfdLoop
  <1>2. ASSUME NEW n \in Node, NEW t \in Thread, SwitchStep(n, t) PROVE OwnInv'
    <2>1. CASE Bind(n, t) \/ BindFails(n, t) \/ CommitLocal(n, t)
      BY <2>1, OwnBind, OwnBindFails, OwnCommitLocal
    <2>2. CASE Release(n, t) \/ ReleaseFails(n, t) \/ Restore(n, t) \/ CommitPeer(n, t)
      BY <2>2, OwnRelease, OwnReleaseFails, OwnRestore, OwnCommitPeer
    <2>3. CASE \E c \in calls : Answer(c) \/ CallFails(c)
      BY <2>3, OwnAnswer, NoCallFails
    <2> QED BY <1>2, <2>1, <2>2, <2>3 DEF SwitchStep
  <1>3. ASSUME NEW n \in Node, ElectionWorker(n) PROVE OwnInv'
    <2>1. CASE ElectionTake(n) \/ AskState(n) \/ AskRevision(n)
      BY <2>1, OwnElectionTake, OwnAskState, OwnAskRevision
    <2>2. CASE Probe(n) \/ AskFails(n)
      BY <2>2, NothingIsLost
    <2>3. CASE SwitchStep(n, "election")
      BY <1>2, <2>3 DEF Thread
    <2> QED BY <1>3, <2>1, <2>2, <2>3 DEF ElectionWorker
  <1>4. ASSUME NEW n \in Node, MainLoop(n) PROVE OwnInv'
    <2>1. CASE Watch(n) \/ ReconcileVip(n) \/ StopRelease(n)
      BY <2>1, OwnMain
    <2>2. CASE Exit(n)
      BY <2>2, OwnExit
    <2>3. CASE SwitchStep(n, "main")
      BY <1>2, <2>3 DEF Thread
    <2> QED BY <1>4, <2>1, <2>2, <2>3 DEF MainLoop
  <1>5. ASSUME NEW n \in Node, PeerActivate(n) PROVE OwnInv'
    BY <1>5, OwnActivate, OwnActivateCommit DEF PeerActivate
  <1>6. ASSUME NEW n \in Node, SwitchStep(n, "api") PROVE OwnInv'
    BY <1>2, <1>6 DEF Thread
  <1>7. ASSUME NEW n \in Node, Stop(n) \/ Crash(n) \/ Restart(n) PROVE OwnInv'
    BY <1>7, OwnStop, OwnCrash, OwnRestart
  <1>8. ASSUME NEW n \in Node, NEW target \in Node, Failover(n, target) PROVE OwnInv'
    BY <1>8, OwnFailover
  <1>9. ASSUME NEW c \in calls, Lost(c) PROVE OwnInv'
    BY <1>9, NoCallFails
  <1>10. ASSUME Cut \/ Heal PROVE OwnInv'
    BY <1>10, OwnCut, OwnHeal
  <1>11. ASSUME UNCHANGED vars PROVE OwnInv'
    BY <1>11, OwnStutter
  <1> QED BY <1>1, <1>3, <1>4, <1>5, <1>6, <1>7, <1>8, <1>9, <1>10, <1>11 DEF Next

(* In a pair at rest both name one gateway, and its watch loop has bound   *)
(* the VIP there and only there.                                           *)
LEMMA RestHasOwner == Base => QuietHasOneOwner
  <1> SUFFICES ASSUME Base, Quiet PROVE \E n \in Node : Owner(n)
    BY DEF QuietHasOneOwner
  <1>1. PICK m \in Node : TRUE
    BY PreferredAssumption
  <1>2. PICK n \in Node : n = active[m]
    BY DEF Base, TypeOK
  <1>3. PICK p \in Node : p = Peer[n] /\ Peer[p] = n /\ n # p /\ \A q \in Node : q = n \/ q = p
    BY Two
  <1>4. active[n] = active[p]
    BY <1>3, QuietAgrees, AgreeIs
  <1>5. active[n] = n /\ active[p] = n
    BY <1>2, <1>3, <1>4
  <1>6. vip[n] = (active[n] = n) /\ vip[p] = (active[p] = p)
    BY DEF Quiet, local_gateway_is_active
  <1> QED BY <1>3, <1>5, <1>6 DEF Owner

(* Operators, outages and one failing change of the VIP, one at a time and *)
(* with clocks that agree: whenever the pair is at rest again, one gateway *)
(* holds the VIP and both name it, for any number of switchovers and       *)
(* outages (switch_active_gateway_inner, reconcile_election,               *)
(* peer_reports_newer_master).                                             *)
THEOREM HaOneOwner == Gentle => (Spec => []QuietHasOneOwner)
  <1> SUFFICES ASSUME Gentle PROVE Spec => []QuietHasOneOwner
    OBVIOUS
  <1>1. Init => OwnInv
    BY InitOwn
  <1>2. IInv /\ OwnInv /\ [Next]_vars => OwnInv'
    BY OwnStep DEF Base, IInv
  <1>3. IInv /\ OwnInv => QuietHasOneOwner
    BY RestHasOwner DEF Base, IInv
  <1> QED BY <1>1, <1>2, <1>3, Invariance, PTL DEF Spec
=============================================================================
