-------------------------- MODULE ProxyReplication --------------------------
(***************************************************************************)
(* Durable latest-state replication of the business configuration between  *)
(* the two gateways of an HA pair (storage/proxy_replication.rs,           *)
(* storage/proxy_config.rs, runtime/proxy_replication.rs and the replica   *)
(* endpoint of the management API).                                        *)
(*                                                                         *)
(* Each gateway keeps five documents in SQLite.  Three kinds of threads    *)
(* work on them: API workers that run mutate, the proxy-sync worker that   *)
(* publishes the latest snapshot to the peer, and the replica worker that  *)
(* receives the peer's snapshots.  Each of them reads all documents in one *)
(* transaction, decides, and commits with a compare-and-put that succeeds  *)
(* only if none of the documents was written since the read.  Meanwhile HA *)
(* failover, pairing and unpairing write the HA documents.                 *)
(***************************************************************************)
EXTENDS ProxyConfig, Integers, Sequences, FiniteSets

CONSTANTS
    Node,         \* gateways
    Peer,         \* Peer[n]: the gateway n is paired with
    NoNode,       \* "no gateway recorded"
    FileConfig,   \* FileConfig[n]: listeners and target groups of n's config file
    Worker,       \* API worker threads of a gateway
    Sender,       \* the edge-lb-proxy-sync thread
    Receiver,     \* the replica worker thread of the API server
    Token,        \* session_token_id values, one per pairing
    StartPaired,  \* the databases start in a completed pairing, not empty
    NoToken,      \* the empty pairing_id / absent secret
    NoHash,       \* the empty content_hash of a cursor never written
    None,         \* absent document, bundle, operation, snapshot or request
    Failed,       \* an HTTP exchange that did not end in a 2xx receipt
    MaxSequence,  \* u64::MAX in the code
    MaxTries,     \* compare-and-put attempts per operation, 16 in the code
    MaxWrites,    \* bound: API writes submitted
    MaxSwitches,  \* bound: failovers, saved HA configurations and unpairings
    MaxFaults,    \* bound: crashes, lost requests, lost replies, aborted pairings
    MaxInFlight   \* bound: requests in flight

ASSUME PairAssumption ==
    /\ Peer \in [Node -> Node]
    /\ \A n \in Node : Peer[n] # n /\ Peer[Peer[n]] = n
    /\ NoNode \notin Node
ASSUME ThreadAssumption == Sender \notin Worker /\ Receiver \notin Worker /\ Sender # Receiver
ASSUME TokenAssumption == NoToken \notin Token
ASSUME FileAssumption == \A n \in Node : FileConfig[n] \in ProxyConfigs /\ valid(FileConfig[n])
ASSUME BoundAssumption ==
    /\ StartPaired \in BOOLEAN
    /\ MaxSequence \in Nat \ {0} /\ MaxTries \in Nat \ {0} /\ MaxWrites \in Nat
    /\ MaxSwitches \in Nat /\ MaxFaults \in Nat /\ MaxInFlight \in Nat

Thread == Worker \cup {Sender, Receiver}

(* The documents a transaction reads: listeners/config and                 *)
(* target_groups/config (always written together), proxy_replication,      *)
(* ha, ha_peer_secret and ha_active_gateway.                               *)
KEYS == {"proxy", "sync", "ha", "secret", "active"}

SyncState ==
    [ sequence     : Nat,
      source       : Node \cup {NoNode},
      pairing_id   : Token \cup {NoToken},
      content_hash : [sha256 : ProxyConfigs] \cup {NoHash},
      pending      : BOOLEAN,
      last_error   : BOOLEAN ]

Documents ==
    [ proxy  : ProxyConfigs \cup {None},
      sync   : SyncState,
      ha     : BOOLEAN,
      secret : Token \cup {NoToken},
      active : Node \cup {NoNode} ]

Snapshot ==
    [ sequence     : Nat,
      source       : Node,
      pairing_id   : Token,
      content_hash : [sha256 : ProxyConfigs],
      config       : ProxyConfigs ]

Receipt ==
    [ sequence     : Nat,
      source       : Node,
      pairing_id   : Token \cup {NoToken},
      content_hash : [sha256 : ProxyConfigs] ]

Request == [from : Node, token : Token, snap : Snapshot, live : BOOLEAN]

ASSUME NoneAssumption ==
    /\ None \notin ProxyConfigs /\ None \notin ProxyConfigOperation
    /\ None \notin Snapshot /\ None \notin Request
    /\ None # Failed /\ Failed \notin Receipt /\ None \notin Receipt

AdminWrite ==
    [ node : Node, key : {"ha", "active", "secret"},
      ha : BOOLEAN, active : Node, secret : Token \cup {NoToken} ]

VARIABLES
    docs,      \* docs[n]: the documents in n's SQLite database
    pc,        \* pc[n][t]: where thread t of gateway n is
    bundle,    \* bundle[n][t]: the documents t read, or None
    seen,      \* seen[n][t]: the documents not written since t read them
    tries,     \* tries[n][t]: compare-and-put attempts t has spent
    op,        \* op[n][w]: the operation API worker w executes, or None
    snapshot,  \* snapshot[n]: the snapshot n's sender is delivering, or None
    reply,     \* reply[n]: the outcome of that delivery, None while waiting
    request,   \* request[n]: the request n's replica worker handles, or None
    net,       \* requests in flight or queued at their destination
    baseline,  \* baseline[n]: the sender delivered since it last was not MASTER
    admin,     \* HA document writes left to do by a pairing or an unpairing
    used,      \* session tokens handed out
    authored,  \* history: authored[n], the versions n authored
    applied,   \* history: applied[n], the versions n installed from its peer
    writes, switches, faults   \* how much of each bound is spent

threads == <<pc, bundle, seen, tries>>
delivery == <<snapshot, reply, request, net, baseline>>
control == <<admin, used>>
history == <<authored, applied>>
bounds == <<writes, switches, faults>>
vars == <<docs, pc, bundle, seen, tries, op, snapshot, reply, request, net, baseline,
          admin, used, authored, applied, writes, switches, faults>>

-----------------------------------------------------------------------------
(* What a transaction's bundle d says on gateway n.                        *)

config(n, d) == IF d.proxy = None THEN FileConfig[n] ELSE d.proxy

Scope(n, d) ==
    CASE ~d.ha -> "Standalone"
      [] d.ha /\ (d.secret = NoToken \/ d.active \notin {n, Peer[n]}) -> "Error"
      [] d.ha /\ d.secret # NoToken /\ d.active = n -> "Master"
      [] d.ha /\ d.secret # NoToken /\ d.active = Peer[n] -> "Backup"

local_hash(n, d) == content_hash(shared(config(n, d)))

(* Mutants: the digest is taken before the edit; the source stays that of  *)
(* the version last held.                                                  *)
local_version_hashes_old(n, d, c) ==
    [ sequence     |-> d.sync.sequence + 1,
      source       |-> n,
      pairing_id   |-> IF Scope(n, d) = "Master" THEN d.secret ELSE NoToken,
      content_hash |-> local_hash(n, d),
      pending      |-> Scope(n, d) = "Master",
      last_error   |-> FALSE ]
local_version_keeps_source(n, d, c) ==
    [ sequence     |-> d.sync.sequence + 1,
      source       |-> IF d.sync.source = NoNode THEN n ELSE d.sync.source,
      pairing_id   |-> IF Scope(n, d) = "Master" THEN d.secret ELSE NoToken,
      content_hash |-> content_hash(shared(c)),
      pending      |-> Scope(n, d) = "Master",
      last_error   |-> FALSE ]

(* The cursor of a version this gateway authors for configuration c.       *)
local_version(n, d, c) ==
    [ sequence     |-> d.sync.sequence + 1,
      source       |-> n,
      pairing_id   |-> IF Scope(n, d) = "Master" THEN d.secret ELSE NoToken,
      content_hash |-> content_hash(shared(c)),
      pending      |-> Scope(n, d) = "Master",
      last_error   |-> FALSE ]

make_snapshot(n, d) ==
    [ sequence     |-> d.sync.sequence,
      source       |-> d.sync.source,
      pairing_id   |-> d.sync.pairing_id,
      content_hash |-> d.sync.content_hash,
      config       |-> shared(config(n, d)) ]

receipt(s) ==
    [ sequence     |-> s.sequence,
      source       |-> s.source,
      pairing_id   |-> s.pairing_id,
      content_hash |-> s.content_hash ]

matches(r, s) == r = receipt(s)

-----------------------------------------------------------------------------
(* Steps shared by all threads.                                            *)

(* get_many: one read transaction over all documents.                      *)
Read(n, t, next) ==
    /\ pc' = [pc EXCEPT ![n][t] = next]
    /\ bundle' = [bundle EXCEPT ![n][t] = docs[n]]
    /\ seen' = [seen EXCEPT ![n][t] = KEYS]
    /\ UNCHANGED tries

(* The thread leaves the operation, whatever its result.                   *)
Finish(n, t) ==
    /\ pc' = [pc EXCEPT ![n][t] = "idle"]
    /\ bundle' = [bundle EXCEPT ![n][t] = None]
    /\ seen' = [seen EXCEPT ![n][t] = {}]
    /\ tries' = [tries EXCEPT ![n][t] = 0]

(* The operation's loop starts over at pc back.                            *)
Again(n, t, back) ==
    /\ tries' = [tries EXCEPT ![n][t] = @ + 1]
    /\ pc' = [pc EXCEPT ![n][t] = back]
    /\ bundle' = [bundle EXCEPT ![n][t] = None]
    /\ seen' = [seen EXCEPT ![n][t] = {}]

Exhausted(n, t) == tries[n][t] + 1 >= MaxTries

(* Mutants: the guard documents are not compared; the written documents    *)
(* are not compared.                                                       *)
unguarded_compare(n, t) == {"proxy", "sync"} \subseteq seen[n][t]
blind_put(n, t) == {"ha", "secret", "active"} \subseteq seen[n][t]

(* compare_and_put_guarded: every document, written or only guarded, must  *)
(* still have the revision that was read.                                  *)
unchanged_since_read(n, t) == KEYS \subseteq seen[n][t]

(* Effect of writing the documents K of n on what threads have read; the   *)
(* writing thread t drops its bundle.                                      *)
seen_after(n, t, K) ==
    [seen EXCEPT ![n] = [u \in Thread |-> IF u = t THEN {} ELSE seen[n][u] \ K]]

-----------------------------------------------------------------------------
(* API workers: storage::proxy_config::mutate.                             *)

(* Mutant: the sequence is incremented without a check.                    *)
unchecked_add(n, d, o) ==
    \/ Scope(n, d) \in {"Error", "Backup"}
    \/ rejected(config(n, d), o)
    \/ edit(config(n, d), o) = config(n, d)

(* No commit: the scope cannot be decided (500), the gateway is BACKUP     *)
(* (409), the edit is rejected, it changes nothing, or the sequence is     *)
(* exhausted.                                                              *)
nothing_to_commit(n, d, o) ==
    \/ Scope(n, d) \in {"Error", "Backup"}
    \/ rejected(config(n, d), o)
    \/ edit(config(n, d), o) = config(n, d)
    \/ d.sync.sequence = MaxSequence

(* A create, update or delete request, from a client or forwarded by the   *)
(* peer, is taken by an API worker of n, which reads the documents.  A     *)
(* request that ends here leaves no trace and is not a step.               *)
MutateBegin(n, w, o) ==
    /\ pc[n][w] = "idle" /\ writes < MaxWrites
    /\ ~nothing_to_commit(n, docs[n], o)
    /\ writes' = writes + 1
    /\ op' = [op EXCEPT ![n][w] = o]
    /\ Read(n, w, "mutate_commit")
    /\ UNCHANGED <<docs, delivery, control, history, switches, faults>>

(* The closure runs again on a fresh read after a conflict.                *)
MutateRetry(n, w) ==
    /\ pc[n][w] = "mutate"
    /\ IF nothing_to_commit(n, docs[n], op[n][w])
          THEN Finish(n, w) /\ op' = [op EXCEPT ![n][w] = None]
          ELSE Read(n, w, "mutate_commit") /\ UNCHANGED op
    /\ UNCHANGED <<docs, delivery, control, history, bounds>>

MutateCommit(n, w) ==
    LET d == bundle[n][w]
        c == edit(config(n, d), op[n][w])
    IN
    /\ pc[n][w] = "mutate_commit"
    /\ unchanged_since_read(n, w)
    /\ docs' = [docs EXCEPT ![n].proxy = c, ![n].sync = local_version(n, d, c)]
    /\ seen' = seen_after(n, w, {"proxy", "sync"})
    /\ pc' = [pc EXCEPT ![n][w] = "idle"]
    /\ bundle' = [bundle EXCEPT ![n][w] = None]
    /\ tries' = [tries EXCEPT ![n][w] = 0]
    /\ op' = [op EXCEPT ![n][w] = None]
    /\ authored' = [authored EXCEPT ![n] = @ \cup {receipt(local_version(n, d, c))}]
    /\ UNCHANGED <<delivery, control, applied, bounds>>

MutateConflict(n, w) ==
    /\ pc[n][w] = "mutate_commit"
    /\ ~unchanged_since_read(n, w)
    /\ IF Exhausted(n, w)
          THEN Finish(n, w) /\ op' = [op EXCEPT ![n][w] = None]
          ELSE Again(n, w, "mutate") /\ UNCHANGED op
    /\ UNCHANGED <<docs, delivery, control, history, bounds>>

-----------------------------------------------------------------------------
(* The proxy-sync worker: sync_once, outgoing_on and record_result_on.     *)

(* Mutant: the pairing is not compared.                                    *)
stale_ignoring_pairing(n, d) ==
    d.sync.source # n \/ d.sync.content_hash # local_hash(n, d)

(* The cursor does not describe the local content as a version this        *)
(* gateway authored in the current pairing.                                *)
stale_cursor(n, d) ==
    \/ d.sync.source # n
    \/ d.sync.pairing_id # d.secret
    \/ d.sync.content_hash # local_hash(n, d)

AtOutgoing(n) == pc[n][Sender] \in {"idle", "outgoing"}

(* The scope cannot be decided or the sequence is exhausted: the round     *)
(* ends with an error.  Not MASTER: nothing is sent and the baseline is    *)
(* forgotten.                                                              *)
OutgoingNone(n) ==
    LET d == docs[n] IN
    /\ AtOutgoing(n)
    /\ \/ /\ Scope(n, d) \in {"Standalone", "Backup"}
          /\ baseline' = [baseline EXCEPT ![n] = FALSE]
       \/ /\ \/ Scope(n, d) = "Error"
             \/ Scope(n, d) = "Master" /\ stale_cursor(n, d) /\ d.sync.sequence = MaxSequence
          /\ UNCHANGED baseline
    /\ Finish(n, Sender)
    /\ UNCHANGED <<docs, op, snapshot, reply, request, net, control, history, bounds>>

(* Promotion, pairing or a local change left the cursor stale: prepare a   *)
(* new version of the same content.                                        *)
OutgoingStale(n) ==
    /\ AtOutgoing(n)
    /\ Scope(n, docs[n]) = "Master" /\ stale_cursor(n, docs[n])
    /\ docs[n].sync.sequence < MaxSequence
    /\ Read(n, Sender, "restamp")
    /\ UNCHANGED <<docs, op, delivery, control, history, bounds>>

(* The new version is committed without touching the business documents;   *)
(* the loop then reads again.                                              *)
RestampCommit(n) ==
    LET d == bundle[n][Sender] IN
    /\ pc[n][Sender] = "restamp"
    /\ unchanged_since_read(n, Sender)
    /\ docs' = [docs EXCEPT ![n].sync = local_version(n, d, config(n, d))]
    /\ seen' = seen_after(n, Sender, {"sync"})
    /\ pc' = [pc EXCEPT ![n][Sender] = IF Exhausted(n, Sender) THEN "idle" ELSE "outgoing"]
    /\ tries' = [tries EXCEPT ![n][Sender] = IF Exhausted(n, Sender) THEN 0 ELSE @ + 1]
    /\ bundle' = [bundle EXCEPT ![n][Sender] = None]
    /\ authored' = [authored EXCEPT ![n] = @ \cup {receipt(local_version(n, d, config(n, d)))}]
    /\ UNCHANGED <<op, delivery, control, applied, bounds>>

RestampConflict(n) ==
    /\ pc[n][Sender] = "restamp"
    /\ ~unchanged_since_read(n, Sender)
    /\ IF Exhausted(n, Sender) THEN Finish(n, Sender) ELSE Again(n, Sender, "outgoing")
    /\ UNCHANGED <<docs, op, delivery, control, history, bounds>>

(* The version was delivered and the last delivery is less than 30 seconds *)
(* old.                                                                    *)
OutgoingSkip(n) ==
    /\ AtOutgoing(n)
    /\ Scope(n, docs[n]) = "Master" /\ ~stale_cursor(n, docs[n])
    /\ ~docs[n].sync.pending /\ baseline[n]
    /\ Finish(n, Sender)
    /\ UNCHANGED <<docs, op, delivery, control, history, bounds>>

(* A pending version, or the periodic baseline, is about to be sent.       *)
OutgoingSend(n) ==
    /\ AtOutgoing(n)
    /\ Scope(n, docs[n]) = "Master" /\ ~stale_cursor(n, docs[n])
    /\ snapshot' = [snapshot EXCEPT ![n] = make_snapshot(n, docs[n])]
    /\ pc' = [pc EXCEPT ![n][Sender] = "post"]
    /\ tries' = [tries EXCEPT ![n][Sender] = 0]
    /\ UNCHANGED <<docs, bundle, seen, op, reply, request, net, baseline, control, history, bounds>>

(* post_peer_json loads the session token and sends the request.           *)
Post(n) ==
    /\ pc[n][Sender] = "post"
    /\ pc' = [pc EXCEPT ![n][Sender] = "wait"]
    /\ \/ /\ docs[n].secret = NoToken
          /\ reply' = [reply EXCEPT ![n] = Failed]
          /\ UNCHANGED net
       \/ /\ docs[n].secret # NoToken /\ Cardinality(net) < MaxInFlight
          /\ net' = net \cup {[from |-> n, token |-> docs[n].secret,
                               snap |-> snapshot[n], live |-> TRUE]}
          /\ UNCHANGED reply
    /\ UNCHANGED <<docs, bundle, seen, tries, op, snapshot, request, baseline, control, history, bounds>>

(* The sender no longer waits for the requests it has sent.                *)
orphan(n, m) == IF m # None /\ m.from = n THEN [m EXCEPT !.live = FALSE] ELSE m
OrphanRequests(n) ==
    /\ net' = {orphan(n, m) : m \in net}
    /\ request' = [request EXCEPT ![Peer[n]] = orphan(n, @)]

StillServed(n) ==
    \/ \E m \in net : m.from = n /\ m.live
    \/ request[Peer[n]] # None /\ request[Peer[n]].live

(* The write timeout expires or the connection breaks.  The request may    *)
(* still be executed, or its reply may have been on the way.               *)
Timeout(n) ==
    /\ pc[n][Sender] = "wait" /\ reply[n] # Failed
    /\ IF StillServed(n) \/ reply[n] # None
          THEN faults < MaxFaults /\ faults' = faults + 1
          ELSE UNCHANGED faults
    /\ reply' = [reply EXCEPT ![n] = Failed]
    /\ OrphanRequests(n)
    /\ UNCHANGED <<docs, threads, op, snapshot, baseline, control, history, writes, switches>>

delivered(n) == reply[n] # Failed /\ matches(reply[n], snapshot[n])

(* The cursor after the outcome of delivering s is recorded.               *)
recorded(d, ok) == [d.sync EXCEPT !.pending = ~ok, !.last_error = ~ok]

(* Mutant: any version of the pairing is acknowledged.                     *)
still_master(n, d, s) == Scope(n, d) = "Master" /\ d.secret = s.pairing_id

(* The version that was sent is still the current one.                     *)
still_current(n, d, s) ==
    /\ Scope(n, d) = "Master"
    /\ d.secret = s.pairing_id
    /\ d.sync.sequence = s.sequence
    /\ d.sync.source = s.source
    /\ d.sync.content_hash = s.content_hash

EndRound(n, base) ==
    /\ snapshot' = [snapshot EXCEPT ![n] = None]
    /\ reply' = [reply EXCEPT ![n] = None]
    /\ baseline' = [baseline EXCEPT ![n] = base]

RecordRead(n) ==
    LET d == docs[n] IN
    /\ pc[n][Sender] = "wait" /\ reply[n] # None
    /\ IF still_current(n, d, snapshot[n]) /\ recorded(d, delivered(n)) # d.sync
          THEN Read(n, Sender, "ack") /\ UNCHANGED <<snapshot, reply, baseline>>
          ELSE /\ Finish(n, Sender)
               /\ EndRound(n, IF Scope(n, d) = "Error" THEN baseline[n]
                                                        ELSE baseline[n] \/ delivered(n))
    /\ UNCHANGED <<docs, op, request, net, control, history, bounds>>

RecordCommit(n) ==
    /\ pc[n][Sender] = "ack"
    /\ unchanged_since_read(n, Sender)
    /\ docs' = [docs EXCEPT ![n].sync = recorded(bundle[n][Sender], delivered(n))]
    /\ seen' = seen_after(n, Sender, {"sync"})
    /\ pc' = [pc EXCEPT ![n][Sender] = "idle"]
    /\ bundle' = [bundle EXCEPT ![n][Sender] = None]
    /\ tries' = [tries EXCEPT ![n][Sender] = 0]
    /\ EndRound(n, baseline[n] \/ delivered(n))
    /\ UNCHANGED <<op, request, net, control, history, bounds>>

RecordConflict(n) ==
    /\ pc[n][Sender] = "ack"
    /\ ~unchanged_since_read(n, Sender)
    /\ IF Exhausted(n, Sender)
          THEN Finish(n, Sender) /\ EndRound(n, baseline[n])
          ELSE Again(n, Sender, "wait") /\ UNCHANGED <<snapshot, reply, baseline>>
    /\ UNCHANGED <<docs, op, request, net, control, history, bounds>>

-----------------------------------------------------------------------------
(* The replica worker: peer_apply_replica and receive_on.                  *)

Respond(m, r) == reply' = IF m.live THEN [reply EXCEPT ![m.from] = r] ELSE reply

malformed(s) ==
    \/ s.sequence = 0
    \/ shared(s.config) # s.config
    \/ content_hash(s.config) # s.content_hash
    \/ ~valid(s.config)

(* A request is taken from the queue; a wrong bearer token (401) or an     *)
(* invalid snapshot (400) ends it at once.                                 *)
Deliver(n, m) ==
    /\ m.from = Peer[n] /\ pc[n][Receiver] = "idle"
    /\ net' = net \ {m}
    /\ IF m.token # docs[n].secret \/ malformed(m.snap)
          THEN Respond(m, Failed) /\ UNCHANGED <<pc, request>>
          ELSE /\ pc' = [pc EXCEPT ![n][Receiver] = "receive"]
               /\ request' = [request EXCEPT ![n] = m]
               /\ UNCHANGED reply
    /\ UNCHANGED <<docs, bundle, seen, tries, op, snapshot, baseline, control, history, bounds>>

same_pair(d, s) == s.pairing_id = d.sync.pairing_id

(* 409: not BACKUP, not from the current pairing, stale, or conflicting.   *)
conflicting(n, d, s) ==
    /\ same_pair(d, s) /\ s.sequence = d.sync.sequence
    /\ \/ s.source # d.sync.source
       \/ s.content_hash # d.sync.content_hash
       \/ s.content_hash # local_hash(n, d)

(* Mutants: an older sequence passes; a version already held is refused as *)
(* stale.                                                                  *)
refused_but_stale(n, d, s) ==
    \/ Scope(n, d) # "Backup"
    \/ s.pairing_id # d.secret \/ s.source # Peer[n]
    \/ conflicting(n, d, s)
refused_if_held(n, d, s) ==
    \/ Scope(n, d) # "Backup"
    \/ s.pairing_id # d.secret \/ s.source # Peer[n]
    \/ same_pair(d, s) /\ s.sequence <= d.sync.sequence

refused(n, d, s) ==
    \/ Scope(n, d) # "Backup"
    \/ s.pairing_id # d.secret \/ s.source # Peer[n]
    \/ same_pair(d, s) /\ s.sequence < d.sync.sequence
    \/ conflicting(n, d, s)

duplicate(d, s) == same_pair(d, s) /\ s.sequence = d.sync.sequence

EndRequest(n, r) ==
    /\ Respond(request[n], r)
    /\ request' = [request EXCEPT ![n] = None]

ReceiveRead(n) ==
    LET d == docs[n]
        s == request[n].snap
    IN
    /\ pc[n][Receiver] = "receive"
    /\ \/ /\ refused(n, d, s)
          /\ Finish(n, Receiver) /\ EndRequest(n, Failed)
       \/ /\ ~refused(n, d, s) /\ duplicate(d, s)
          /\ Finish(n, Receiver) /\ EndRequest(n, receipt(s))
       \/ /\ ~refused(n, d, s) /\ ~duplicate(d, s)
          /\ Read(n, Receiver, "apply") /\ UNCHANGED <<reply, request>>
    /\ UNCHANGED <<docs, op, snapshot, net, baseline, control, history, bounds>>

(* The business documents are replaced only when the shared content        *)
(* differs or they were never written.                                     *)
write_documents(n, d, s) == local_hash(n, d) # s.content_hash \/ d.proxy = None

ReceiveCommit(n) ==
    LET d == bundle[n][Receiver]
        s == request[n].snap
        w == write_documents(n, d, s)
    IN
    /\ pc[n][Receiver] = "apply"
    /\ unchanged_since_read(n, Receiver)
    /\ docs' = [docs EXCEPT ![n].proxy = IF w THEN s.config ELSE @,
                            ![n].sync  = [ sequence     |-> s.sequence,
                                           source       |-> s.source,
                                           pairing_id   |-> s.pairing_id,
                                           content_hash |-> s.content_hash,
                                           pending      |-> FALSE,
                                           last_error   |-> FALSE ]]
    /\ seen' = seen_after(n, Receiver, IF w THEN {"proxy", "sync"} ELSE {"sync"})
    /\ pc' = [pc EXCEPT ![n][Receiver] = "idle"]
    /\ bundle' = [bundle EXCEPT ![n][Receiver] = None]
    /\ tries' = [tries EXCEPT ![n][Receiver] = 0]
    /\ EndRequest(n, receipt(s))
    /\ applied' = [applied EXCEPT ![n] = @ \cup {receipt(s)}]
    /\ UNCHANGED <<authored, op, snapshot, net, baseline, control, bounds>>

ReceiveConflict(n) ==
    /\ pc[n][Receiver] = "apply"
    /\ ~unchanged_since_read(n, Receiver)
    /\ IF Exhausted(n, Receiver)
          THEN Finish(n, Receiver) /\ EndRequest(n, Failed)
          ELSE Again(n, Receiver, "receive") /\ UNCHANGED <<reply, request>>
    /\ UNCHANGED <<docs, op, snapshot, net, baseline, control, history, bounds>>

-----------------------------------------------------------------------------
(* HA control: failover, pairing and unpairing write the HA documents with *)
(* plain puts, one document at a time.                                     *)

Put(n, key, d) ==
    /\ docs' = [docs EXCEPT ![n] = d]
    /\ seen' = [seen EXCEPT ![n] = [u \in Thread |-> seen[n][u] \ {key}]]

(* write_active_gateway, from any failover path.                           *)
SwitchActive(n, g) ==
    /\ docs[n].ha /\ switches < MaxSwitches
    /\ switches' = switches + 1
    /\ Put(n, "active", [docs[n] EXCEPT !.active = g])
    /\ UNCHANGED <<pc, bundle, tries, op, delivery, control, history, writes, faults>>

(* PUT /ha/config saves a configuration with the same peer, enabled or not.*)
PutHaConfig(n) ==
    /\ docs[n].secret # NoToken /\ switches < MaxSwitches
    /\ switches' = switches + 1
    /\ Put(n, "ha", [docs[n] EXCEPT !.ha = ~@])
    /\ UNCHANGED <<pc, bundle, tries, op, delivery, control, history, writes, faults>>

(* The first MASTER of a pairing: preferred_active, or by self_index.      *)
initial_active_gateway_key(n) == {n, Peer[n]}

(* pair_gateway on n: the responder saves its HA configuration, the active *)
(* selection and the session token, then the caller does the same.         *)
pair_writes(n, g, t) ==
    LET w(r, k) == [node |-> r, key |-> k, ha |-> TRUE, active |-> g, secret |-> t]
    IN  << w(Peer[n], "ha"), w(Peer[n], "active"), w(Peer[n], "secret"),
           w(n, "ha"), w(n, "active"), w(n, "secret") >>

Pair(n, t) ==
    /\ admin = <<>> /\ t \notin used
    /\ used' = used \cup {t}
    /\ \E g \in initial_active_gateway_key(n) : admin' = pair_writes(n, g, t)
    /\ UNCHANGED <<docs, threads, op, delivery, history, bounds>>

(* unpair_for_state_dir: HA is disabled, then the secret is deleted.       *)
Unpair(n) ==
    LET w(k) == [node |-> n, key |-> k, ha |-> FALSE, active |-> n, secret |-> NoToken]
    IN
    /\ admin = <<>> /\ docs[n].ha /\ switches < MaxSwitches
    /\ switches' = switches + 1
    /\ admin' = <<w("ha"), w("secret")>>
    /\ UNCHANGED <<docs, threads, op, delivery, used, history, writes, faults>>

AdminStep ==
    LET w == Head(admin)
        d == docs[w.node]
    IN
    /\ admin # <<>>
    /\ admin' = Tail(admin)
    /\ Put(w.node, w.key,
           CASE w.key = "ha"     -> [d EXCEPT !.ha = w.ha]
             [] w.key = "active" -> [d EXCEPT !.active = w.active]
             [] w.key = "secret" -> [d EXCEPT !.secret = w.secret])
    /\ UNCHANGED <<pc, bundle, tries, op, delivery, used, history, bounds>>

(* An error or a lost gRPC answer ends a pairing or unpairing half-way.    *)
AdminAbort ==
    /\ admin # <<>> /\ faults < MaxFaults
    /\ faults' = faults + 1
    /\ admin' = <<>>
    /\ UNCHANGED <<docs, threads, op, delivery, used, history, writes, switches>>

-----------------------------------------------------------------------------
(* Failures.                                                               *)

(* A request never reaches the replica worker (connection lost, queue full).*)
Lose(m) ==
    /\ faults < MaxFaults /\ faults' = faults + 1
    /\ net' = net \ {m}
    /\ UNCHANGED <<docs, threads, op, snapshot, reply, request, baseline, control, history,
                   writes, switches>>

(* The daemon of n dies and restarts on its database: every thread starts  *)
(* over, requests queued in the process are gone, requests it sent may     *)
(* still be executed by the peer.                                          *)
Crash(n) ==
    /\ faults < MaxFaults /\ faults' = faults + 1
    /\ pc' = [pc EXCEPT ![n] = [t \in Thread |-> "idle"]]
    /\ bundle' = [bundle EXCEPT ![n] = [t \in Thread |-> None]]
    /\ seen' = [seen EXCEPT ![n] = [t \in Thread |-> {}]]
    /\ tries' = [tries EXCEPT ![n] = [t \in Thread |-> 0]]
    /\ op' = [op EXCEPT ![n] = [w \in Worker |-> None]]
    /\ snapshot' = [snapshot EXCEPT ![n] = None]
    /\ reply' = [reply EXCEPT ![n] = None]
    /\ request' = [request EXCEPT ![n] = None, ![Peer[n]] = orphan(n, @)]
    /\ net' = {orphan(n, m) : m \in {m \in net : m.from # Peer[n]}}
    /\ baseline' = [baseline EXCEPT ![n] = FALSE]
    /\ admin' = IF \E i \in DOMAIN admin : admin[i].node = n THEN <<>> ELSE admin
    /\ UNCHANGED <<docs, used, history, writes, switches>>

-----------------------------------------------------------------------------
NoDocuments ==
    [ proxy  |-> None,
      sync   |-> [ sequence |-> 0, source |-> NoNode, pairing_id |-> NoToken,
                   content_hash |-> NoHash, pending |-> FALSE, last_error |-> FALSE ],
      ha     |-> FALSE,
      secret |-> NoToken,
      active |-> NoNode ]

(* The databases are new, or were left by a completed pairing.             *)
InitDocuments ==
    IF StartPaired
       THEN \E n \in Node, t \in Token :
               /\ docs = [m \in Node |-> [NoDocuments EXCEPT !.ha = TRUE, !.secret = t,
                                            !.active = IF m \in {n, Peer[n]} THEN n ELSE m]]
               /\ used = {t}
       ELSE docs = [n \in Node |-> NoDocuments] /\ used = {}

Init ==
    /\ InitDocuments
    /\ pc = [n \in Node |-> [t \in Thread |-> "idle"]]
    /\ bundle = [n \in Node |-> [t \in Thread |-> None]]
    /\ seen = [n \in Node |-> [t \in Thread |-> {}]]
    /\ tries = [n \in Node |-> [t \in Thread |-> 0]]
    /\ op = [n \in Node |-> [w \in Worker |-> None]]
    /\ snapshot = [n \in Node |-> None]
    /\ reply = [n \in Node |-> None]
    /\ request = [n \in Node |-> None]
    /\ net = {}
    /\ baseline = [n \in Node |-> FALSE]
    /\ admin = <<>>
    /\ authored = [n \in Node |-> {}]
    /\ applied = [n \in Node |-> {}]
    /\ writes = 0 /\ switches = 0 /\ faults = 0

Mutate(n) == \E w \in Worker : MutateRetry(n, w) \/ MutateCommit(n, w) \/ MutateConflict(n, w)

Send(n) ==
    \/ OutgoingNone(n) \/ OutgoingStale(n) \/ RestampCommit(n) \/ RestampConflict(n)
    \/ OutgoingSend(n) \/ Post(n)
    \/ RecordRead(n) \/ RecordCommit(n) \/ RecordConflict(n)

Receive(n) ==
    \/ \E m \in net : Deliver(n, m)
    \/ ReceiveRead(n) \/ ReceiveCommit(n) \/ ReceiveConflict(n)

Environment(n) ==
    \/ \E w \in Worker, o \in ProxyConfigOperation : MutateBegin(n, w, o)
    \/ \E g \in {n, Peer[n]} : SwitchActive(n, g)
    \/ \E t \in Token : Pair(n, t)
    \/ PutHaConfig(n) \/ Unpair(n)
    \/ Crash(n)

Next ==
    \/ \E n \in Node : Mutate(n) \/ Send(n) \/ OutgoingSkip(n) \/ Receive(n) \/ Timeout(n)
                        \/ Environment(n)
    \/ AdminStep \/ AdminAbort
    \/ \E m \in net : Lose(m)

Spec == Init /\ [][Next]_vars

(* Every thread keeps running, and what is still in flight is eventually   *)
(* answered or times out.  Faults, failovers and API writes are not fair:  *)
(* they are bounded, so they eventually stop.                              *)
Fairness ==
    /\ \A n \in Node : /\ WF_vars(Mutate(n)) /\ WF_vars(Receive(n)) /\ WF_vars(Timeout(n))
                       /\ WF_vars(Send(n))
    /\ WF_vars(AdminStep)

FairSpec == Spec /\ Fairness

-----------------------------------------------------------------------------
PC == {"idle", "mutate", "mutate_commit", "outgoing", "restamp", "post", "wait", "ack",
       "receive", "apply"}

TypeOK ==
    /\ docs \in [Node -> Documents]
    /\ pc \in [Node -> [Thread -> PC]]
    /\ bundle \in [Node -> [Thread -> Documents \cup {None}]]
    /\ seen \in [Node -> [Thread -> SUBSET KEYS]]
    /\ tries \in [Node -> [Thread -> Nat]]
    /\ op \in [Node -> [Worker -> ProxyConfigOperation \cup {None}]]
    /\ snapshot \in [Node -> Snapshot \cup {None}]
    /\ reply \in [Node -> Receipt \cup {None, Failed}]
    /\ request \in [Node -> Request \cup {None}]
    /\ net \subseteq Request
    /\ baseline \in [Node -> BOOLEAN]
    /\ admin \in Seq(AdminWrite)
    /\ used \subseteq Token
    /\ authored \in [Node -> SUBSET Receipt]
    /\ applied \in [Node -> SUBSET Receipt]
    /\ writes \in Nat /\ switches \in Nat /\ faults \in Nat

(* A successful compare-and-put sees the database as it was read.          *)
FreshBundle ==
    \A n \in Node, t \in Thread : unchanged_since_read(n, t) => bundle[n][t] = docs[n]

(* The replication cursor always describes the business documents stored   *)
(* beside it: cursor and content commit together.                          *)
CursorMatchesContent ==
    \A n \in Node : docs[n].sync.sequence > 0 => docs[n].sync.content_hash = local_hash(n, docs[n])

(* Concurrent deletion of a target group and creation of a listener that   *)
(* references it never both commit, on either gateway.                     *)
ReferencesResolve == \A n \in Node : valid(config(n, docs[n]))

(* pending is cleared only for a version the peer has durably committed:   *)
(* late, lost or duplicated replies never acknowledge another version.     *)
AckedIsReplicated ==
    \A n \in Node :
        docs[n].sync.source = n /\ docs[n].sync.pairing_id # NoToken /\ ~docs[n].sync.pending
            => receipt(docs[n].sync) \in applied[Peer[n]]

(* What a gateway holds in its peer's name is a version the peer authored, *)
(* with the content it authored: a replica is always a whole snapshot its  *)
(* MASTER once committed, never a mixture and never another pairing's.     *)
ReplicaIsPeerSnapshot ==
    \A n \in Node :
        docs[n].sync.source = Peer[n] => receipt(docs[n].sync) \in authored[Peer[n]]

version(y) == <<y.sequence, y.source, y.pairing_id, y.content_hash>>

FencedStep(n) ==
    version(docs'[n].sync) # version(docs[n].sync) =>
        IF docs'[n].sync.source = n
           THEN \/ Scope(n, docs[n]) = "Master" /\ docs'[n].sync.pairing_id = docs[n].secret
                \/ Scope(n, docs[n]) = "Standalone" /\ docs'[n].sync.pairing_id = NoToken
           ELSE /\ Scope(n, docs[n]) = "Backup"
                /\ docs'[n].sync.source = Peer[n]
                /\ docs'[n].sync.pairing_id = docs[n].secret

(* A version is authored only by a gateway that is standalone or MASTER at *)
(* the instant of the commit, in its current pairing; a foreign version is *)
(* installed only by the BACKUP of the pairing it came from.               *)
RoleFence == [][\A n \in Node : FencedStep(n)]_vars

AdvancingStep(n) ==
    /\ version(docs'[n].sync) # version(docs[n].sync)
    /\ docs'[n].sync.pairing_id = docs[n].sync.pairing_id
    => docs'[n].sync.sequence > docs[n].sync.sequence

(* Within one pairing the cursor of a gateway never goes back, and a new   *)
(* version always has a higher sequence.                                   *)
CursorAdvances == [][\A n \in Node : AdvancingStep(n)]_vars

FinalStep(n) ==
    docs[n].sync.sequence = MaxSequence /\ version(docs'[n].sync) # version(docs[n].sync) =>
        docs'[n].sync.source = Peer[n] /\ docs'[n].sync.pairing_id # docs[n].sync.pairing_id

(* The last sequence is final: checked_add lets no write or restamp go on  *)
(* from it, and only a version of another pairing replaces it.             *)
LastSequenceIsFinal == [][\A n \in Node : FinalStep(n)]_vars

JustifiedStep(n) ==
    config(n, docs'[n]) # config(n, docs[n]) =>
        \/ /\ docs'[n].sync.source = n
           /\ \E w \in Worker : /\ op[n][w] # None
                                /\ ~rejected(config(n, docs[n]), op[n][w])
                                /\ config(n, docs'[n]) = edit(config(n, docs[n]), op[n][w])
        \/ /\ docs'[n].sync.source = Peer[n]
           /\ \/ shared(config(n, docs'[n])) # shared(config(n, docs[n]))
              \/ docs[n].proxy = None

(* Business documents change only by an API operation applied to the       *)
(* configuration current at the commit, or by installing the peer's        *)
(* content.  A restamp, an acknowledgement, or a received version with the *)
(* same shared content leaves the stored documents, local VIPs included,   *)
(* as they are; only a gateway that had no stored documents writes them    *)
(* even then.                                                              *)
NoLostUpdate == [][\A n \in Node : JustifiedStep(n)]_vars

(* n is MASTER, its peer is BACKUP, and both are in the same pairing.      *)
Settled(n) ==
    /\ Scope(n, docs[n]) = "Master" /\ Scope(Peer[n], docs[Peer[n]]) = "Backup"
    /\ docs[n].secret = docs[Peer[n]].secret

(* Both sides hold n's current version and n knows it.                     *)
Converged(n) ==
    /\ docs[n].sync.source = n /\ ~docs[n].sync.pending
    /\ version(docs[Peer[n]].sync) = version(docs[n].sync)
    /\ shared(config(Peer[n], docs[Peer[n]])) = shared(config(n, docs[n]))

(* The BACKUP holds a version of this pairing that n's does not supersede, *)
(* authored while both sides were MASTER or before a failover.             *)
Diverged(n) ==
    LET own   == docs[n].sync
        other == docs[Peer[n]].sync
    IN  /\ own.pairing_id = docs[n].secret /\ other.pairing_id = docs[n].secret
        /\ other.sequence >= own.sequence /\ version(other) # version(own)

(* Once roles and pairing settle, the BACKUP converges to the MASTER's     *)
(* version, whatever was lost, duplicated or crashed before; the only      *)
(* exception is a BACKUP that holds a version of its own that is not older.*)
EventuallyReplicated ==
    \A n \in Node : <>[]Settled(n) => <>[](Converged(n) \/ Diverged(n))
=============================================================================
