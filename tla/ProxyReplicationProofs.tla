----------------------- MODULE ProxyReplicationProofs -----------------------
(***************************************************************************)
(* Proofs about ProxyReplication, for every set of gateways, threads,      *)
(* listeners, groups and tokens and for every value of the bounds.         *)
(*                                                                         *)
(* The argument rests on one inductive invariant: a thread that is about   *)
(* to commit holds a bundle on which the decision to commit was taken      *)
(* (ThreadState), and if no document was written since the bundle was read    *)
(* the bundle is the database itself (FreshBundle).  A commit therefore    *)
(* acts on the current documents, under the conditions checked on them.    *)
(***************************************************************************)
EXTENDS ProxyReplication, TLAPS

USE DEF KEYS

(* What an API worker carries at each place of mutate: about to commit, it *)
(* has decided so on the bundle it holds.                                  *)
WorkerOK(n, w) ==
    /\ pc[n][w] \in {"idle", "mutate", "mutate_commit"}
    /\ pc[n][w] # "idle" => op[n][w] \in ProxyConfigOperation
    /\ pc[n][w] = "mutate_commit" =>
          /\ bundle[n][w] \in Documents
          /\ ~nothing_to_commit(n, bundle[n][w], op[n][w])

(* The same for the proxy-sync worker ...                                  *)
SenderOK(n) ==
    /\ pc[n][Sender] \in {"idle", "outgoing", "restamp", "post", "wait", "ack"}
    /\ pc[n][Sender] \in {"post", "wait", "ack"} => snapshot[n] \in Snapshot
    /\ pc[n][Sender] = "restamp" =>
          /\ bundle[n][Sender] \in Documents
          /\ Scope(n, bundle[n][Sender]) = "Master"
          /\ bundle[n][Sender].sync.sequence < MaxSequence
    /\ pc[n][Sender] = "ack" =>
          /\ bundle[n][Sender] \in Documents
          /\ still_current(n, bundle[n][Sender], snapshot[n])

(* ... and for the replica worker.                                         *)
ReceiverOK(n) ==
    /\ pc[n][Receiver] \in {"idle", "receive", "apply"}
    /\ pc[n][Receiver] # "idle" => request[n] \in Request /\ ~malformed(request[n].snap)
    /\ pc[n][Receiver] = "apply" =>
          /\ bundle[n][Receiver] \in Documents
          /\ ~refused(n, bundle[n][Receiver], request[n].snap)
          /\ ~duplicate(bundle[n][Receiver], request[n].snap)

ThreadState ==
    \A n \in Node : (\A w \in Worker : WorkerOK(n, w)) /\ SenderOK(n) /\ ReceiverOK(n)

Inv == TypeOK /\ ThreadState /\ FreshBundle

-----------------------------------------------------------------------------
(* The operators of the model.                                             *)

(* An edit of a configuration is a configuration.                          *)
LEMMA EditType ==
    ASSUME NEW c \in ProxyConfigs, NEW o \in ProxyConfigOperation
    PROVE  edit(c, o) \in ProxyConfigs
<1> USE DEF ProxyConfigs, TargetGroups, Listeners, VipIps
<1>1. CASE o \in TargetGroupPut
    BY <1>1 DEF TargetGroupPut, edit, OfGroup, edit_group
<1>2. CASE o \in TargetGroupDelete
    BY <1>2 DEF TargetGroupDelete, edit, OfGroup, edit_group
<1>3. CASE o \in TargetGroupImport
    BY <1>3 DEF TargetGroupImport, edit, OfGroup, edit_group
<1>4. CASE o \in ListenerCreate
    BY <1>4 DEF ListenerCreate, edit, OfGroup, edit_listener
<1>5. CASE o \in ListenerUpdate
    BY <1>5 DEF ListenerUpdate, edit, OfGroup, edit_listener
<1>6. CASE o \in ListenerDelete
    BY <1>6 DEF ListenerDelete, edit, OfGroup, edit_listener
<1>7. CASE o \in ListenerImport
    BY <1>7 DEF ListenerImport, edit, OfGroup, edit_listener
<1> QED BY <1>1, <1>2, <1>3, <1>4, <1>5, <1>6, <1>7 DEF ProxyConfigOperation

(* An accepted edit keeps every listener's target group configured.        *)
LEMMA EditValid ==
    ASSUME NEW c \in ProxyConfigs, NEW o \in ProxyConfigOperation, valid(c), ~rejected(c, o)
    PROVE  valid(edit(c, o))
<1> USE NoGroupAssumption DEF ProxyConfigs, TargetGroups, Listeners, VipIps, valid, configured, exists
<1>1. CASE o \in TargetGroupPut
    BY <1>1 DEF TargetGroupPut, edit, OfGroup, edit_group
<1>2. CASE o \in TargetGroupDelete
    BY <1>2 DEF TargetGroupDelete, edit, OfGroup, edit_group, rejected, rejected_group
<1>3. CASE o \in TargetGroupImport
    BY <1>3 DEF TargetGroupImport, edit, OfGroup, edit_group
<1>4. CASE o \in ListenerCreate
    BY <1>4 DEF ListenerCreate, edit, OfGroup, edit_listener, rejected, rejected_listener
<1>5. CASE o \in ListenerUpdate
    BY <1>5 DEF ListenerUpdate, edit, OfGroup, edit_listener, rejected, rejected_listener
<1>6. CASE o \in ListenerDelete
    BY <1>6 DEF ListenerDelete, edit, OfGroup, edit_listener
<1>7. CASE o \in ListenerImport
    BY <1>7 DEF ListenerImport, edit, OfGroup, edit_listener, rejected, rejected_listener
<1> QED BY <1>1, <1>2, <1>3, <1>4, <1>5, <1>6, <1>7 DEF ProxyConfigOperation

(* Removing the local addresses leaves a configuration.                    *)
LEMMA SharedType ==
    ASSUME NEW c \in ProxyConfigs
    PROVE  shared(c) \in ProxyConfigs /\ content_hash(shared(c)) \in [sha256 : ProxyConfigs]
BY DEF shared, content_hash, ProxyConfigs, VipIps

(* The documents of a gateway always denote a configuration.               *)
LEMMA ConfigType ==
    ASSUME NEW n \in Node, NEW d \in Documents
    PROVE  config(n, d) \in ProxyConfigs
BY FileAssumption DEF config, Documents

(* The cursor of a locally authored version is well formed.                *)
LEMMA VersionType ==
    ASSUME NEW n \in Node, NEW d \in Documents, NEW c \in ProxyConfigs
    PROVE  local_version(n, d, c) \in SyncState
<1>1. d.sync.sequence \in Nat /\ d.secret \in Token \cup {NoToken}
    BY DEF Documents, SyncState
<1>2. content_hash(shared(c)) \in [sha256 : ProxyConfigs]
    BY SharedType
<1> QED BY <1>1, <1>2 DEF local_version, SyncState

(* The version numbers of a well-formed cursor form a receipt.             *)
LEMMA VersionReceipt ==
    ASSUME NEW n \in Node, NEW d \in Documents, NEW c \in ProxyConfigs
    PROVE  receipt(local_version(n, d, c)) \in Receipt
<1>1. d.sync.sequence \in Nat /\ d.secret \in Token \cup {NoToken}
    BY DEF Documents, SyncState
<1>2. content_hash(shared(c)) \in [sha256 : ProxyConfigs]
    BY SharedType
<1> QED BY <1>1, <1>2 DEF local_version, receipt, Receipt

(* A snapshot's receipt is a receipt.                                      *)
LEMMA SnapshotReceipt ==
    ASSUME NEW s \in Snapshot
    PROVE  receipt(s) \in Receipt
BY DEF receipt, Receipt, Snapshot

(* A MASTER whose cursor is not stale has a snapshot to send.              *)
LEMMA SnapshotType ==
    ASSUME NEW n \in Node, NEW d \in Documents, Scope(n, d) = "Master", ~stale_cursor(n, d)
    PROVE  make_snapshot(n, d) \in Snapshot
<1>1. d.secret \in Token
    BY DEF Scope, Documents
<1>2. config(n, d) \in ProxyConfigs
    BY ConfigType
<1>3. shared(config(n, d)) \in ProxyConfigs /\ local_hash(n, d) \in [sha256 : ProxyConfigs]
    BY <1>2, SharedType DEF local_hash
<1>4. d.sync.sequence \in Nat
    BY DEF Documents, SyncState
<1> QED BY <1>1, <1>3, <1>4 DEF stale_cursor, make_snapshot, Snapshot

(* Marking a request as abandoned leaves a request.                        *)
LEMMA OrphanType ==
    ASSUME NEW n \in Node, NEW m \in Request \cup {None}
    PROVE  /\ orphan(n, m) \in Request \cup {None}
           /\ m \in Request => orphan(n, m) \in Request /\ orphan(n, m).snap = m.snap
BY DEF orphan, Request

-----------------------------------------------------------------------------
(* Type correctness of every step.                                         *)

ThreadsOK ==
    /\ pc \in [Node -> [Thread -> PC]]
    /\ bundle \in [Node -> [Thread -> Documents \cup {None}]]
    /\ seen \in [Node -> [Thread -> SUBSET KEYS]]
    /\ tries \in [Node -> [Thread -> Nat]]

USE DEF threads, delivery, control, history, bounds, ThreadsOK

(* Reading, finishing and retrying keep the thread variables well typed.   *)
LEMMA ReadType ==
    ASSUME TypeOK, NEW n \in Node, NEW t \in Thread, NEW next \in PC, Read(n, t, next)
    PROVE  ThreadsOK'
BY DEF Read, TypeOK

(* Ending an operation keeps the thread variables typed.                   *)
LEMMA FinishType ==
    ASSUME TypeOK, NEW n \in Node, NEW t \in Thread, Finish(n, t)
    PROVE  ThreadsOK'
BY DEF Finish, TypeOK, PC

(* Starting an operation over keeps the thread variables typed.            *)
LEMMA AgainType ==
    ASSUME TypeOK, NEW n \in Node, NEW t \in Thread, NEW back \in PC, Again(n, t, back)
    PROVE  ThreadsOK'
BY DEF Again, TypeOK

(* The thread's bundle is the current database when the commit succeeds.   *)
LEMMA BundleIsCurrent ==
    ASSUME Inv, NEW n \in Node, NEW t \in Thread, unchanged_since_read(n, t)
    PROVE  bundle[n][t] = docs[n] /\ docs[n] \in Documents
BY DEF Inv, FreshBundle, TypeOK

(* A commit keeps seen typed.                                              *)
LEMMA SeenAfterType ==
    ASSUME TypeOK, NEW n \in Node, NEW t \in Thread, NEW K \in SUBSET KEYS
    PROVE  seen_after(n, t, K) \in [Node -> [Thread -> SUBSET KEYS]]
BY DEF seen_after, TypeOK

(* Ending an operation keeps op typed.                                     *)
LEMMA OpType ==
    ASSUME TypeOK, NEW n \in Node, NEW w \in Worker,
           op' = op \/ op' = [op EXCEPT ![n][w] = None]
    PROVE  op' \in [Node -> [Worker -> ProxyConfigOperation \cup {None}]]
<1>1. CASE op' = op
    BY <1>1 DEF TypeOK
<1>2. CASE op' = [op EXCEPT ![n][w] = None]
    BY <1>2 DEF TypeOK
<1> QED BY <1>1, <1>2

(* The API workers' steps keep the types.                                  *)
LEMMA MutateType ==
    ASSUME Inv, NEW n \in Node, NEW w \in Worker,
           \/ \E o \in ProxyConfigOperation : MutateBegin(n, w, o)
           \/ MutateRetry(n, w) \/ MutateCommit(n, w) \/ MutateConflict(n, w)
    PROVE  TypeOK'
<1> USE DEF Inv
<1>0. w \in Thread /\ {"idle", "mutate", "mutate_commit"} \subseteq PC
    BY DEF Thread, PC
<1>1. ASSUME NEW o \in ProxyConfigOperation, MutateBegin(n, w, o) PROVE TypeOK'
    <2>1. Read(n, w, "mutate_commit")
        BY <1>1 DEF MutateBegin
    <2> QED BY <1>0, <1>1, <2>1, ReadType DEF MutateBegin, TypeOK
<1>2. CASE MutateRetry(n, w)
    <2>1. Finish(n, w) \/ Read(n, w, "mutate_commit")
        BY <1>2 DEF MutateRetry
    <2>2. ThreadsOK'
        BY <1>0, <2>1, ReadType, FinishType
    <2>3. op' = op \/ op' = [op EXCEPT ![n][w] = None]
        BY <1>2 DEF MutateRetry
    <2>4. op' \in [Node -> [Worker -> ProxyConfigOperation \cup {None}]]
        BY <2>3, OpType
    <2> QED BY <1>2, <2>2, <2>4 DEF MutateRetry, TypeOK
<1>3. CASE MutateCommit(n, w)
    <2> DEFINE d == bundle[n][w]
               c == edit(config(n, d), op[n][w])
    <2>1. d = docs[n] /\ d \in Documents /\ op[n][w] \in ProxyConfigOperation
        BY <1>0, <1>3, BundleIsCurrent DEF MutateCommit, ThreadState, WorkerOK
    <2>2. c \in ProxyConfigs
        BY <2>1, ConfigType, EditType
    <2>3. local_version(n, d, c) \in SyncState /\ receipt(local_version(n, d, c)) \in Receipt
        BY <2>1, <2>2, VersionType, VersionReceipt
    <2>4. docs' = [docs EXCEPT ![n].proxy = c, ![n].sync = local_version(n, d, c)]
        BY <1>3 DEF MutateCommit
    <2> HIDE DEF c
    <2>5. docs' \in [Node -> Documents]
        BY <2>1, <2>2, <2>3, <2>4 DEF TypeOK, Documents
    <2>6. seen' \in [Node -> [Thread -> SUBSET KEYS]]
        BY <1>0, <1>3, SeenAfterType DEF MutateCommit
    <2>7. authored' \in [Node -> SUBSET Receipt]
        BY <1>3, <2>3 DEF MutateCommit, TypeOK, c
    <2> QED BY <1>0, <1>3, <2>5, <2>6, <2>7 DEF MutateCommit, TypeOK
<1>4. CASE MutateConflict(n, w)
    <2>1. Finish(n, w) \/ Again(n, w, "mutate")
        BY <1>4 DEF MutateConflict
    <2>2. ThreadsOK'
        BY <1>0, <2>1, AgainType, FinishType
    <2>3. op' = op \/ op' = [op EXCEPT ![n][w] = None]
        BY <1>4 DEF MutateConflict
    <2>4. op' \in [Node -> [Worker -> ProxyConfigOperation \cup {None}]]
        BY <2>3, OpType
    <2> QED BY <1>4, <2>2, <2>4 DEF MutateConflict, TypeOK
<1> QED BY <1>1, <1>2, <1>3, <1>4

(* The proxy-sync worker's steps keep the types.                           *)
LEMMA SendType ==
    ASSUME Inv, NEW n \in Node, Send(n) \/ OutgoingSkip(n) \/ Timeout(n)
    PROVE  TypeOK'
<1> USE DEF Inv
<1>0. /\ Sender \in Thread
      /\ {"idle", "outgoing", "restamp", "post", "wait", "ack"} \subseteq PC
    BY DEF Thread, PC
<1>1. CASE OutgoingNone(n)
    <2>1. ThreadsOK'
        BY <1>0, <1>1, FinishType DEF OutgoingNone
    <2>2. baseline' \in [Node -> BOOLEAN]
        <3>1. CASE baseline' = [baseline EXCEPT ![n] = FALSE]
            BY <3>1 DEF TypeOK
        <3>2. CASE baseline' = baseline
            BY <3>2 DEF TypeOK
        <3> QED BY <1>1, <3>1, <3>2 DEF OutgoingNone
    <2> QED BY <1>1, <2>1, <2>2 DEF OutgoingNone, TypeOK
<1>2. CASE OutgoingStale(n)
    <2>1. ThreadsOK'
        BY <1>0, <1>2, ReadType DEF OutgoingStale
    <2> QED BY <1>2, <2>1 DEF OutgoingStale, TypeOK
<1>3. CASE RestampCommit(n)
    <2> DEFINE d == bundle[n][Sender]
               v == local_version(n, d, config(n, d))
    <2>1. d = docs[n] /\ d \in Documents
        BY <1>0, <1>3, BundleIsCurrent DEF RestampCommit
    <2>2. v \in SyncState /\ receipt(v) \in Receipt
        BY <2>1, ConfigType, VersionType, VersionReceipt
    <2>3. /\ docs' = [docs EXCEPT ![n].sync = v]
          /\ authored' = [authored EXCEPT ![n] = @ \cup {receipt(v)}]
        BY <1>3 DEF RestampCommit
    <2> HIDE DEF v
    <2>4. docs' \in [Node -> Documents] /\ authored' \in [Node -> SUBSET Receipt]
        BY <2>1, <2>2, <2>3 DEF TypeOK, Documents
    <2>5. seen' \in [Node -> [Thread -> SUBSET KEYS]]
        BY <1>0, <1>3, SeenAfterType DEF RestampCommit
    <2> QED BY <1>0, <1>3, <2>4, <2>5 DEF RestampCommit, TypeOK
<1>4. CASE RestampConflict(n)
    <2>1. Finish(n, Sender) \/ Again(n, Sender, "outgoing")
        BY <1>4 DEF RestampConflict
    <2>2. ThreadsOK'
        BY <1>0, <2>1, AgainType, FinishType
    <2> QED BY <1>4, <2>2 DEF RestampConflict, TypeOK
<1>5. CASE OutgoingSkip(n)
    <2>1. ThreadsOK'
        BY <1>0, <1>5, FinishType DEF OutgoingSkip
    <2> QED BY <1>5, <2>1 DEF OutgoingSkip, TypeOK
<1>6. CASE OutgoingSend(n)
    <2>1. make_snapshot(n, docs[n]) \in Snapshot
        BY <1>6, SnapshotType DEF OutgoingSend, TypeOK
    <2>2. snapshot' \in [Node -> Snapshot \cup {None}]
        BY <1>6, <2>1 DEF OutgoingSend, TypeOK
    <2> QED BY <1>0, <1>6, <2>2 DEF OutgoingSend, TypeOK
<1>7. CASE Post(n)
    <2>1. reply' \in [Node -> Receipt \cup {None, Failed}] /\ net' \subseteq Request
        <3>1. CASE reply' = [reply EXCEPT ![n] = Failed] /\ net' = net
            BY <3>1 DEF TypeOK
        <3>2. CASE /\ docs[n].secret # NoToken /\ reply' = reply
                   /\ net' = net \cup {[from |-> n, token |-> docs[n].secret,
                                        snap |-> snapshot[n], live |-> TRUE]}
            <4>1. docs[n].secret \in Token /\ snapshot[n] \in Snapshot
                BY <1>7, <3>2 DEF TypeOK, Documents, ThreadState, SenderOK, Post
            <4>2. [from |-> n, token |-> docs[n].secret, snap |-> snapshot[n], live |-> TRUE]
                      \in Request
                BY <4>1 DEF Request
            <4> QED BY <3>2, <4>2 DEF TypeOK
        <3> QED BY <1>7, <3>1, <3>2 DEF Post
    <2>2. pc' \in [Node -> [Thread -> PC]]
        BY <1>0, <1>7 DEF Post, TypeOK
    <2> QED BY <1>7, <2>1, <2>2 DEF Post, TypeOK
<1>8. CASE Timeout(n)
    <2>1. \A m \in Request \cup {None} :
              orphan(n, m) \in Request \cup {None} /\ (m \in Request => orphan(n, m) \in Request)
        BY OrphanType
    <2>2. net' \subseteq Request /\ request' \in [Node -> Request \cup {None}]
        <3>1. /\ net' = {orphan(n, m) : m \in net}
              /\ request' = [request EXCEPT ![Peer[n]] = orphan(n, request[Peer[n]])]
            BY <1>8 DEF Timeout, OrphanRequests
        <3>2. net \subseteq Request /\ request \in [Node -> Request \cup {None}] /\ Peer[n] \in Node
            BY PairAssumption DEF TypeOK
        <3>3. net' \subseteq Request
            BY <2>1, <3>1, <3>2
        <3> QED BY <2>1, <3>1, <3>2, <3>3
    <2>3. faults' \in Nat
        BY <1>8 DEF Timeout, TypeOK
    <2>4. reply' \in [Node -> Receipt \cup {None, Failed}]
        BY <1>8 DEF Timeout, TypeOK
    <2> QED BY <1>8, <2>2, <2>3, <2>4 DEF Timeout, TypeOK
<1>9. CASE RecordRead(n)
    <2>1. ThreadsOK'
        <3>1. Read(n, Sender, "ack") \/ Finish(n, Sender)
            BY <1>9 DEF RecordRead
        <3> QED BY <1>0, <3>1, ReadType, FinishType
    <2>2. /\ snapshot' \in [Node -> Snapshot \cup {None}]
          /\ reply' \in [Node -> Receipt \cup {None, Failed}]
          /\ baseline' \in [Node -> BOOLEAN]
        <3>1. CASE UNCHANGED <<snapshot, reply, baseline>>
            BY <3>1 DEF TypeOK
        <3>2. ASSUME NEW e \in BOOLEAN, EndRound(n, e) PROVE <2>2!1 /\ <2>2!2 /\ <2>2!3
            BY <3>2 DEF EndRound, TypeOK
        <3>3. delivered(n) \in BOOLEAN /\ baseline[n] \in BOOLEAN
            BY DEF delivered, matches, TypeOK
        <3> QED BY <1>9, <3>1, <3>2, <3>3 DEF RecordRead
    <2> QED BY <1>9, <2>1, <2>2 DEF RecordRead, TypeOK
<1>10. CASE RecordCommit(n)
    <2>1. bundle[n][Sender] = docs[n] /\ docs[n] \in Documents
        BY <1>0, <1>10, BundleIsCurrent DEF RecordCommit
    <2>2. recorded(bundle[n][Sender], delivered(n)) \in SyncState
        BY <2>1 DEF recorded, SyncState, Documents
    <2>3. docs' \in [Node -> Documents]
        BY <1>10, <2>1, <2>2 DEF RecordCommit, TypeOK, Documents
    <2>4. seen' \in [Node -> [Thread -> SUBSET KEYS]]
        BY <1>0, <1>10, SeenAfterType DEF RecordCommit
    <2>5. /\ snapshot' \in [Node -> Snapshot \cup {None}]
          /\ reply' \in [Node -> Receipt \cup {None, Failed}]
          /\ baseline' \in [Node -> BOOLEAN]
        BY <1>10 DEF RecordCommit, EndRound, TypeOK, delivered, matches
    <2> QED BY <1>0, <1>10, <2>3, <2>4, <2>5 DEF RecordCommit, TypeOK
<1>11. CASE RecordConflict(n)
    <2>1. ThreadsOK'
        <3>1. Finish(n, Sender) \/ Again(n, Sender, "wait")
            BY <1>11 DEF RecordConflict
        <3> QED BY <1>0, <3>1, AgainType, FinishType
    <2>2. /\ snapshot' \in [Node -> Snapshot \cup {None}]
          /\ reply' \in [Node -> Receipt \cup {None, Failed}]
          /\ baseline' \in [Node -> BOOLEAN]
        <3>1. CASE UNCHANGED <<snapshot, reply, baseline>>
            BY <3>1 DEF TypeOK
        <3>2. CASE EndRound(n, baseline[n])
            BY <3>2 DEF EndRound, TypeOK
        <3> QED BY <1>11, <3>1, <3>2 DEF RecordConflict
    <2> QED BY <1>11, <2>1, <2>2 DEF RecordConflict, TypeOK
<1> QED BY <1>1, <1>2, <1>3, <1>4, <1>5, <1>6, <1>7, <1>8, <1>9, <1>10, <1>11 DEF Send

(* Replacing business documents and cursor leaves well-formed documents.   *)
LEMMA UpdateType ==
    ASSUME docs \in [Node -> Documents], NEW n \in Node,
           NEW p \in ProxyConfigs \cup {None}, NEW y \in SyncState
    PROVE  [docs EXCEPT ![n].proxy = p, ![n].sync = y] \in [Node -> Documents]
BY DEF Documents

(* The replica worker's steps keep the types.                              *)
LEMMA ReceiveType ==
    ASSUME Inv, NEW n \in Node, Receive(n)
    PROVE  TypeOK'
<1> USE DEF Inv
<1>0. Receiver \in Thread /\ {"idle", "receive", "apply"} \subseteq PC
    BY DEF Thread, PC
<1>1. ASSUME NEW m \in Request, NEW r \in Receipt \cup {Failed}, Respond(m, r)
      PROVE  reply' \in [Node -> Receipt \cup {None, Failed}]
    BY <1>1 DEF Respond, TypeOK, Request
<1>2. ASSUME NEW m \in net, Deliver(n, m) PROVE TypeOK'
    <2>0. m \in Request
        BY DEF TypeOK
    <2>1. CASE Respond(m, Failed) /\ UNCHANGED <<pc, request>>
        <3>1. reply' \in [Node -> Receipt \cup {None, Failed}]
            BY <1>1, <2>0, <2>1
        <3> QED BY <1>2, <2>1, <3>1 DEF Deliver, TypeOK
    <2>2. CASE /\ pc' = [pc EXCEPT ![n][Receiver] = "receive"]
               /\ request' = [request EXCEPT ![n] = m]
               /\ UNCHANGED reply
        <3>1. pc' \in [Node -> [Thread -> PC]] /\ request' \in [Node -> Request \cup {None}]
            BY <1>0, <2>0, <2>2 DEF TypeOK
        <3> QED BY <1>2, <2>2, <3>1 DEF Deliver, TypeOK
    <2> QED BY <1>2, <2>1, <2>2 DEF Deliver
<1>3. ASSUME NEW r \in Receipt \cup {Failed}, EndRequest(n, r), request[n] \in Request
      PROVE  /\ reply' \in [Node -> Receipt \cup {None, Failed}]
             /\ request' \in [Node -> Request \cup {None}]
    <2>1. reply' \in [Node -> Receipt \cup {None, Failed}]
        BY <1>1, <1>3 DEF EndRequest
    <2> QED BY <1>3, <2>1 DEF EndRequest, TypeOK
<1>4. ASSUME pc[n][Receiver] # "idle"
      PROVE  request[n] \in Request /\ request[n].snap \in Snapshot
                /\ receipt(request[n].snap) \in Receipt
    <2>1. request[n] \in Request
        BY <1>4 DEF ThreadState, ReceiverOK
    <2>2. request[n].snap \in Snapshot
        BY <2>1 DEF Request
    <2> QED BY <2>1, <2>2, SnapshotReceipt
<1>5. CASE ReceiveRead(n)
    <2>0. request[n] \in Request /\ receipt(request[n].snap) \in Receipt
        BY <1>4, <1>5 DEF ReceiveRead
    <2>1. ThreadsOK'
        <3>1. Finish(n, Receiver) \/ Read(n, Receiver, "apply")
            BY <1>5 DEF ReceiveRead
        <3> QED BY <1>0, <3>1, ReadType, FinishType
    <2>2. /\ reply' \in [Node -> Receipt \cup {None, Failed}]
          /\ request' \in [Node -> Request \cup {None}]
        <3>1. CASE UNCHANGED <<reply, request>>
            BY <3>1 DEF TypeOK
        <3>2. CASE EndRequest(n, Failed) \/ EndRequest(n, receipt(request[n].snap))
            BY <1>3, <2>0, <3>2
        <3> QED BY <1>5, <3>1, <3>2 DEF ReceiveRead
    <2> QED BY <1>5, <2>1, <2>2 DEF ReceiveRead, TypeOK
<1>6. CASE ReceiveCommit(n)
    <2> DEFINE d == bundle[n][Receiver]
               s == request[n].snap
               y == [ sequence |-> s.sequence, source |-> s.source, pairing_id |-> s.pairing_id,
                      content_hash |-> s.content_hash, pending |-> FALSE, last_error |-> FALSE ]
               p == IF write_documents(n, d, s) THEN s.config ELSE docs[n].proxy
    <2>0. request[n] \in Request /\ s \in Snapshot /\ receipt(s) \in Receipt
        BY <1>4, <1>6 DEF ReceiveCommit
    <2>1. y \in SyncState /\ p \in ProxyConfigs \cup {None}
        BY <2>0 DEF Snapshot, SyncState, TypeOK, Documents
    <2>2. docs' = [docs EXCEPT ![n].proxy = p, ![n].sync = y]
        BY <1>6 DEF ReceiveCommit
    <2> HIDE DEF y, p
    <2>3. docs' \in [Node -> Documents]
        BY <2>1, <2>2, UpdateType DEF TypeOK
    <2>4. seen' \in [Node -> [Thread -> SUBSET KEYS]]
        BY <1>0, <1>6, SeenAfterType DEF ReceiveCommit
    <2>5. /\ reply' \in [Node -> Receipt \cup {None, Failed}]
          /\ request' \in [Node -> Request \cup {None}]
        BY <1>3, <1>6, <2>0 DEF ReceiveCommit
    <2>6. applied' \in [Node -> SUBSET Receipt]
        BY <1>6, <2>0 DEF ReceiveCommit, TypeOK
    <2>7. ThreadsOK'
        BY <1>0, <1>6, <2>4 DEF ReceiveCommit, TypeOK
    <2> QED BY <1>6, <2>3, <2>5, <2>6, <2>7 DEF ReceiveCommit, TypeOK
<1>7. CASE ReceiveConflict(n)
    <2>0. request[n] \in Request
        BY <1>4, <1>7 DEF ReceiveConflict
    <2>1. ThreadsOK'
        <3>1. Finish(n, Receiver) \/ Again(n, Receiver, "receive")
            BY <1>7 DEF ReceiveConflict
        <3> QED BY <1>0, <3>1, AgainType, FinishType
    <2>2. /\ reply' \in [Node -> Receipt \cup {None, Failed}]
          /\ request' \in [Node -> Request \cup {None}]
        <3>1. CASE UNCHANGED <<reply, request>>
            BY <3>1 DEF TypeOK
        <3>2. CASE EndRequest(n, Failed)
            BY <1>3, <2>0, <3>2
        <3> QED BY <1>7, <3>1, <3>2 DEF ReceiveConflict
    <2> QED BY <1>7, <2>1, <2>2 DEF ReceiveConflict, TypeOK
<1> QED BY <1>2, <1>5, <1>6, <1>7 DEF Receive

(* The plain puts of HA control change one document and nothing else.      *)
LEMMA PutType ==
    ASSUME TypeOK, NEW n \in Node, NEW key \in KEYS, NEW d \in Documents, Put(n, key, d)
    PROVE  docs' \in [Node -> Documents] /\ seen' \in [Node -> [Thread -> SUBSET KEYS]]
BY DEF Put, TypeOK

(* Failover, pairing and unpairing keep the types.                         *)
LEMMA ControlType ==
    ASSUME Inv, NEW n \in Node,
           \/ \E g \in {n, Peer[n]} : SwitchActive(n, g)
           \/ \E t \in Token : Pair(n, t)
           \/ PutHaConfig(n) \/ Unpair(n) \/ AdminStep \/ AdminAbort
    PROVE  TypeOK'
<1> USE DEF Inv
<1>0. docs[n] \in Documents /\ Peer[n] \in Node
    BY PairAssumption DEF TypeOK
<1>1. ASSUME NEW g \in {n, Peer[n]}, SwitchActive(n, g) PROVE TypeOK'
    <2>1. [docs[n] EXCEPT !.active = g] \in Documents
        BY <1>0 DEF Documents
    <2>2. docs' \in [Node -> Documents] /\ seen' \in [Node -> [Thread -> SUBSET KEYS]]
        BY <1>1, <2>1, PutType DEF SwitchActive
    <2> QED BY <1>1, <2>2 DEF SwitchActive, TypeOK
<1>2. CASE PutHaConfig(n)
    <2>1. [docs[n] EXCEPT !.ha = ~@] \in Documents
        BY <1>0 DEF Documents
    <2>2. docs' \in [Node -> Documents] /\ seen' \in [Node -> [Thread -> SUBSET KEYS]]
        BY <1>2, <2>1, PutType DEF PutHaConfig
    <2> QED BY <1>2, <2>2 DEF PutHaConfig, TypeOK
<1>3. ASSUME NEW t \in Token, Pair(n, t) PROVE TypeOK'
    <2>1. \A g \in initial_active_gateway_key(n) : pair_writes(n, g, t) \in Seq(AdminWrite)
        BY PairAssumption DEF pair_writes, initial_active_gateway_key, AdminWrite
    <2>2. admin' \in Seq(AdminWrite)
        BY <1>3, <2>1 DEF Pair
    <2> QED BY <1>3, <2>2 DEF Pair, TypeOK
<1>4. CASE Unpair(n)
    <2>1. admin' \in Seq(AdminWrite)
        BY <1>4 DEF Unpair, AdminWrite
    <2> QED BY <1>4, <2>1 DEF Unpair, TypeOK
<1>5. CASE AdminStep
    <2> DEFINE w == Head(admin)
               d == docs[w.node]
               e == CASE w.key = "ha"     -> [d EXCEPT !.ha = w.ha]
                      [] w.key = "active" -> [d EXCEPT !.active = w.active]
                      [] w.key = "secret" -> [d EXCEPT !.secret = w.secret]
    <2>1. w \in AdminWrite /\ Tail(admin) \in Seq(AdminWrite)
        BY <1>5 DEF AdminStep, TypeOK
    <2>2. w.node \in Node /\ w.key \in {"ha", "active", "secret"} /\ d \in Documents
        BY <2>1 DEF AdminWrite, TypeOK
    <2>3. e \in Documents
        BY <2>1, <2>2 DEF AdminWrite, Documents
    <2>4. Put(w.node, w.key, e) /\ admin' = Tail(admin)
        BY <1>5 DEF AdminStep
    <2> HIDE DEF e
    <2>5. docs' \in [Node -> Documents] /\ seen' \in [Node -> [Thread -> SUBSET KEYS]]
        BY <2>2, <2>3, <2>4, PutType
    <2> QED BY <1>5, <2>1, <2>4, <2>5 DEF AdminStep, TypeOK
<1>6. CASE AdminAbort
    BY <1>6 DEF AdminAbort, TypeOK
<1> QED BY <1>1, <1>2, <1>3, <1>4, <1>5, <1>6

(* Crashes and lost requests keep the types.                               *)
LEMMA FailureType ==
    ASSUME Inv, (\E n \in Node : Crash(n)) \/ (\E m \in net : Lose(m))
    PROVE  TypeOK'
<1> USE DEF Inv
<1>1. ASSUME NEW n \in Node, Crash(n) PROVE TypeOK'
    <2>1. \A m \in Request \cup {None} :
              orphan(n, m) \in Request \cup {None} /\ (m \in Request => orphan(n, m) \in Request)
        BY OrphanType
    <2>2. net' = {orphan(n, m) : m \in {m \in net : m.from # Peer[n]}}
        BY <1>1 DEF Crash
    <2>3. net' \subseteq Request
        BY <2>1, <2>2 DEF TypeOK
    <2>4. /\ request' = [request EXCEPT ![n] = None, ![Peer[n]] = orphan(n, request[Peer[n]])]
          /\ Peer[n] \in Node /\ request \in [Node -> Request \cup {None}]
        BY <1>1, PairAssumption DEF Crash, TypeOK
    <2>5. request' \in [Node -> Request \cup {None}]
        BY <2>1, <2>4
    <2>6. ThreadsOK' /\ op' \in [Node -> [Worker -> ProxyConfigOperation \cup {None}]]
        BY <1>1 DEF Crash, TypeOK, PC
    <2>7. admin' \in Seq(AdminWrite)
        BY <1>1 DEF Crash, TypeOK
    <2>8. /\ snapshot' \in [Node -> Snapshot \cup {None}]
          /\ reply' \in [Node -> Receipt \cup {None, Failed}]
          /\ baseline' \in [Node -> BOOLEAN] /\ faults' \in Nat
        BY <1>1 DEF Crash, TypeOK
    <2> QED BY <1>1, <2>3, <2>5, <2>6, <2>7, <2>8 DEF Crash, TypeOK
<1>2. ASSUME NEW m \in net, Lose(m) PROVE TypeOK'
    BY <1>2 DEF Lose, TypeOK
<1> QED BY <1>1, <1>2

(* Every step keeps the types.                                             *)
LEMMA TypeStep == Inv /\ [Next]_vars => TypeOK'
<1> SUFFICES ASSUME Inv, [Next]_vars PROVE TypeOK'
    OBVIOUS
<1>1. CASE UNCHANGED vars
    BY <1>1 DEF Inv, TypeOK, vars
<1>2. ASSUME NEW n \in Node,
             Mutate(n) \/ Send(n) \/ OutgoingSkip(n) \/ Receive(n) \/ Timeout(n) \/ Environment(n)
      PROVE  TypeOK'
    BY <1>2, MutateType, SendType, ReceiveType, ControlType, FailureType DEF Mutate, Environment
<1>3. CASE AdminStep \/ AdminAbort
    <2>1. \E n \in Node : TRUE
        BY <1>3 DEF AdminStep, AdminAbort, Inv, TypeOK, AdminWrite
    <2> QED BY <1>3, <2>1, ControlType
<1>4. CASE \E m \in net : Lose(m)
    BY <1>4, FailureType
<1> QED BY <1>1, <1>2, <1>3, <1>4 DEF Next

-----------------------------------------------------------------------------
(* A bundle whose documents were not written since it was read is the      *)
(* database.                                                               *)

(* A read records the documents as they are.                               *)
LEMMA ReadFresh ==
    ASSUME Inv, NEW n \in Node, NEW t \in Thread, NEW next, Read(n, t, next), docs' = docs
    PROVE  FreshBundle'
BY DEF Inv, TypeOK, FreshBundle, Read, unchanged_since_read

(* A thread that drops its bundle claims nothing.                          *)
LEMMA DropFresh ==
    ASSUME Inv, NEW n \in Node, NEW t \in Thread, docs' = docs,
           bundle' = [bundle EXCEPT ![n][t] = None], seen' = [seen EXCEPT ![n][t] = {}]
    PROVE  FreshBundle'
BY DEF Inv, TypeOK, FreshBundle, unchanged_since_read

(* A plain put invalidates what other threads read of that key.            *)
LEMMA PutFresh ==
    ASSUME Inv, NEW n \in Node, NEW key \in KEYS, NEW d, Put(n, key, d), bundle' = bundle
    PROVE  FreshBundle'
BY DEF Inv, TypeOK, FreshBundle, Put, unchanged_since_read

(* A commit invalidates what other threads read of the written keys.       *)
LEMMA CommitFresh ==
    ASSUME Inv, NEW n \in Node, NEW t \in Thread, NEW K \in SUBSET KEYS, "sync" \in K,
           \A m \in Node \ {n} : docs'[m] = docs[m],
           bundle' = [bundle EXCEPT ![n][t] = None], seen' = seen_after(n, t, K)
    PROVE  FreshBundle'
BY DEF Inv, TypeOK, FreshBundle, seen_after, unchanged_since_read

(* Steps that leave documents and threads alone keep FreshBundle.          *)
LEMMA SameFresh ==
    ASSUME Inv, UNCHANGED <<docs, bundle, seen>>
    PROVE  FreshBundle'
BY DEF Inv, FreshBundle, unchanged_since_read

(* Every step keeps FreshBundle.                                           *)
LEMMA FreshStep == Inv /\ [Next]_vars => FreshBundle'
<1> SUFFICES ASSUME Inv, [Next]_vars PROVE FreshBundle'
    OBVIOUS
<1>0. Worker \subseteq Thread /\ Sender \in Thread /\ Receiver \in Thread
    BY DEF Thread
<1>1. CASE UNCHANGED vars
    BY <1>1, SameFresh DEF vars
<1>2. ASSUME NEW n \in Node, NEW w \in Worker, NEW o \in ProxyConfigOperation, MutateBegin(n, w, o)
      PROVE  FreshBundle'
    BY <1>0, <1>2, ReadFresh DEF MutateBegin
<1>3. ASSUME NEW n \in Node, Mutate(n) PROVE FreshBundle'
    <2>1. PICK w \in Worker : MutateRetry(n, w) \/ MutateCommit(n, w) \/ MutateConflict(n, w)
        BY <1>3 DEF Mutate
    <2>2. CASE MutateRetry(n, w)
        BY <1>0, <2>2, ReadFresh, DropFresh DEF MutateRetry, Finish
    <2>3. CASE MutateCommit(n, w)
        <3>1. \A m \in Node \ {n} : docs'[m] = docs[m]
            BY <2>3 DEF MutateCommit, Inv, TypeOK
        <3> QED BY <1>0, <2>3, <3>1, CommitFresh DEF MutateCommit
    <2>4. CASE MutateConflict(n, w)
        BY <1>0, <2>4, DropFresh DEF MutateConflict, Finish, Again
    <2> QED BY <2>1, <2>2, <2>3, <2>4
<1>4. ASSUME NEW n \in Node, Send(n) PROVE FreshBundle'
    <2>1. CASE OutgoingNone(n)
        BY <1>0, <2>1, DropFresh DEF OutgoingNone, Finish
    <2>2. CASE OutgoingStale(n)
        BY <1>0, <2>2, ReadFresh DEF OutgoingStale
    <2>3. CASE RestampCommit(n)
        <3>1. \A m \in Node \ {n} : docs'[m] = docs[m]
            BY <2>3 DEF RestampCommit, Inv, TypeOK
        <3> QED BY <1>0, <2>3, <3>1, CommitFresh DEF RestampCommit
    <2>4. CASE RestampConflict(n)
        BY <1>0, <2>4, DropFresh DEF RestampConflict, Finish, Again
    <2>5. CASE OutgoingSend(n)
        BY <2>5, SameFresh DEF OutgoingSend
    <2>6. CASE Post(n)
        BY <2>6, SameFresh DEF Post
    <2>7. CASE RecordRead(n)
        BY <1>0, <2>7, ReadFresh, DropFresh DEF RecordRead, Finish
    <2>8. CASE RecordCommit(n)
        <3>1. \A m \in Node \ {n} : docs'[m] = docs[m]
            BY <2>8 DEF RecordCommit, Inv, TypeOK
        <3> QED BY <1>0, <2>8, <3>1, CommitFresh DEF RecordCommit
    <2>9. CASE RecordConflict(n)
        BY <1>0, <2>9, DropFresh DEF RecordConflict, Finish, Again
    <2> QED BY <1>4, <2>1, <2>2, <2>3, <2>4, <2>5, <2>6, <2>7, <2>8, <2>9 DEF Send
<1>5. ASSUME NEW n \in Node, OutgoingSkip(n) \/ Timeout(n) PROVE FreshBundle'
    BY <1>0, <1>5, DropFresh, SameFresh DEF OutgoingSkip, Finish, Timeout
<1>6. ASSUME NEW n \in Node, Receive(n) PROVE FreshBundle'
    <2>1. ASSUME NEW m \in net, Deliver(n, m) PROVE FreshBundle'
        BY <2>1, SameFresh DEF Deliver
    <2>2. CASE ReceiveRead(n)
        BY <1>0, <2>2, ReadFresh, DropFresh DEF ReceiveRead, Finish
    <2>3. CASE ReceiveCommit(n)
        <3>1. \A m \in Node \ {n} : docs'[m] = docs[m]
            BY <2>3 DEF ReceiveCommit, Inv, TypeOK
        <3>2. PICK K \in {{"proxy", "sync"}, {"sync"}} : seen' = seen_after(n, Receiver, K)
            BY <2>3 DEF ReceiveCommit
        <3> QED BY <1>0, <2>3, <3>1, <3>2, CommitFresh DEF ReceiveCommit
    <2>4. CASE ReceiveConflict(n)
        BY <1>0, <2>4, DropFresh DEF ReceiveConflict, Finish, Again
    <2> QED BY <1>6, <2>1, <2>2, <2>3, <2>4 DEF Receive
<1>7. ASSUME NEW n \in Node, Environment(n) PROVE FreshBundle'
    <2>1. ASSUME NEW g \in {n, Peer[n]}, SwitchActive(n, g) PROVE FreshBundle'
        BY <2>1, PutFresh DEF SwitchActive
    <2>2. CASE PutHaConfig(n)
        BY <2>2, PutFresh DEF PutHaConfig
    <2>3. CASE Unpair(n) \/ \E t \in Token : Pair(n, t)
        <3>1. UNCHANGED <<docs, bundle, seen>>
            BY <2>3 DEF Unpair, Pair
        <3> QED BY <3>1, SameFresh
    <2>4. CASE Crash(n)
        BY <2>4 DEF Crash, Inv, TypeOK, FreshBundle, unchanged_since_read
    <2> QED BY <1>2, <1>7, <2>1, <2>2, <2>3, <2>4 DEF Environment
<1>8. CASE AdminStep
    <2>1. PICK e : Put(Head(admin).node, Head(admin).key, e)
        BY <1>8 DEF AdminStep
    <2>2. Head(admin).node \in Node /\ Head(admin).key \in KEYS
        <3>1. Head(admin) \in AdminWrite
            BY <1>8 DEF AdminStep, Inv, TypeOK
        <3> QED BY <3>1 DEF AdminWrite
    <2> QED BY <1>8, <2>1, <2>2, PutFresh DEF AdminStep
<1>9. CASE AdminAbort \/ \E m \in net : Lose(m)
    BY <1>9, SameFresh DEF AdminAbort, Lose
<1> QED BY <1>1, <1>3, <1>4, <1>5, <1>6, <1>7, <1>8, <1>9 DEF Next

-----------------------------------------------------------------------------
(* What the threads carry.                                                 *)

(* What an API worker's state depends on.                                  *)
LEMMA WorkerFrame ==
    ASSUME NEW n \in Node, NEW w \in Worker, WorkerOK(n, w), pc'[n][w] = pc[n][w],
           bundle'[n][w] = bundle[n][w], op'[n][w] = op[n][w]
    PROVE  WorkerOK(n, w)'
BY DEF WorkerOK

(* What the sender's state depends on.                                     *)
LEMMA SenderFrame ==
    ASSUME NEW n \in Node, SenderOK(n), pc'[n][Sender] = pc[n][Sender],
           bundle'[n][Sender] = bundle[n][Sender], snapshot'[n] = snapshot[n]
    PROVE  SenderOK(n)'
BY DEF SenderOK

(* What the replica worker's state depends on.                             *)
LEMMA ReceiverFrame ==
    ASSUME NEW n \in Node, ReceiverOK(n), pc'[n][Receiver] = pc[n][Receiver],
           bundle'[n][Receiver] = bundle[n][Receiver],
           request[n] \in Request => request'[n] \in Request /\ request'[n].snap = request[n].snap
    PROVE  ReceiverOK(n)'
BY DEF ReceiverOK

(* Only thread t of gateway n moves.                                       *)
OnlyMoves(n, t) ==
    /\ \A m \in Node, u \in Thread : m # n \/ u # t =>
          pc'[m][u] = pc[m][u] /\ bundle'[m][u] = bundle[m][u]
    /\ \A m \in Node, u \in Worker : m # n \/ u # t => op'[m][u] = op[m][u]
    /\ \A m \in Node : m # n \/ t # Sender => snapshot'[m] = snapshot[m]
    /\ \A m \in Node : m # n \/ t # Receiver => request'[m] = request[m]

(* A step of one thread keeps the state of all others.                     *)
LEMMA ThreadFrame ==
    ASSUME ThreadState, NEW n \in Node, NEW t \in Thread, OnlyMoves(n, t),
           t \in Worker => WorkerOK(n, t)', t = Sender => SenderOK(n)',
           t = Receiver => ReceiverOK(n)'
    PROVE  ThreadState'
<1>0. Worker \subseteq Thread /\ Sender \in Thread /\ Receiver \in Thread
    BY DEF Thread
<1> SUFFICES ASSUME NEW m \in Node
             PROVE  (\A w \in Worker : WorkerOK(m, w)') /\ SenderOK(m)' /\ ReceiverOK(m)'
    BY DEF ThreadState
<1>1. ASSUME NEW w \in Worker PROVE WorkerOK(m, w)'
    <2>1. CASE m = n /\ w = t
        BY <2>1
    <2>2. CASE m # n \/ w # t
        BY <1>0, <2>2, WorkerFrame DEF OnlyMoves, ThreadState
    <2> QED BY <2>1, <2>2
<1>2. SenderOK(m)'
    <2>1. CASE m = n /\ Sender = t
        BY <2>1
    <2>2. CASE m # n \/ Sender # t
        BY <1>0, <2>2, SenderFrame DEF OnlyMoves, ThreadState
    <2> QED BY <2>1, <2>2
<1>3. ReceiverOK(m)'
    <2>1. CASE m = n /\ Receiver = t
        BY <2>1
    <2>2. CASE m # n \/ Receiver # t
        BY <1>0, <2>2, ReceiverFrame DEF OnlyMoves, ThreadState
    <2> QED BY <2>1, <2>2
<1> QED BY <1>1, <1>2, <1>3

(* The API workers' steps keep ThreadState.                                *)
LEMMA MutateThreads ==
    ASSUME Inv, NEW n \in Node, NEW w \in Worker,
           \/ \E o \in ProxyConfigOperation : MutateBegin(n, w, o)
           \/ MutateRetry(n, w) \/ MutateCommit(n, w) \/ MutateConflict(n, w)
    PROVE  ThreadState'
<1> USE DEF Inv
<1>0. w \in Thread /\ w # Sender /\ w # Receiver
    BY ThreadAssumption DEF Thread
<1>a. WorkerOK(n, w) /\ docs[n] \in Documents
    BY DEF ThreadState, TypeOK
<1>1. OnlyMoves(n, w)
    <2>1. UNCHANGED <<snapshot, request>>
        BY DEF MutateBegin, MutateRetry, MutateCommit, MutateConflict
    <2>2. \A m \in Node, u \in Thread : m # n \/ u # w =>
              pc'[m][u] = pc[m][u] /\ bundle'[m][u] = bundle[m][u]
        BY <1>0 DEF MutateBegin, MutateRetry, MutateCommit, MutateConflict, Read, Finish, Again, TypeOK
    <2>3. \A m \in Node, u \in Worker : m # n \/ u # w => op'[m][u] = op[m][u]
        BY DEF MutateBegin, MutateRetry, MutateCommit, MutateConflict, TypeOK
    <2> QED BY <2>1, <2>2, <2>3 DEF OnlyMoves
<1>2. WorkerOK(n, w)'
    <2>1. ASSUME NEW o \in ProxyConfigOperation, MutateBegin(n, w, o) PROVE WorkerOK(n, w)'
        <3>1. /\ pc'[n][w] = "mutate_commit" /\ bundle'[n][w] = docs[n] /\ op'[n][w] = o
              /\ ~nothing_to_commit(n, docs[n], o)
            BY <1>0, <2>1 DEF MutateBegin, Read, TypeOK
        <3> QED BY <1>a, <3>1 DEF WorkerOK
    <2>2. CASE MutateRetry(n, w)
        <3>1. CASE nothing_to_commit(n, docs[n], op[n][w])
            <4>1. pc'[n][w] = "idle"
                BY <1>0, <2>2, <3>1 DEF MutateRetry, Finish, TypeOK
            <4> QED BY <4>1 DEF WorkerOK
        <3>2. CASE ~nothing_to_commit(n, docs[n], op[n][w])
            <4>1. pc'[n][w] = "mutate_commit" /\ bundle'[n][w] = docs[n] /\ op' = op
                BY <1>0, <2>2, <3>2 DEF MutateRetry, Read, TypeOK
            <4>2. op[n][w] \in ProxyConfigOperation
                BY <1>a, <2>2 DEF MutateRetry, WorkerOK
            <4> QED BY <1>a, <3>2, <4>1, <4>2 DEF WorkerOK
        <3> QED BY <3>1, <3>2
    <2>3. CASE MutateCommit(n, w)
        <3>1. pc'[n][w] = "idle"
            BY <1>0, <2>3 DEF MutateCommit, TypeOK
        <3> QED BY <3>1 DEF WorkerOK
    <2>4. CASE MutateConflict(n, w)
        <3>1. \/ pc'[n][w] = "idle"
              \/ pc'[n][w] = "mutate" /\ op' = op
            BY <1>0, <2>4 DEF MutateConflict, Finish, Again, TypeOK
        <3>2. op[n][w] \in ProxyConfigOperation
            BY <1>a, <2>4 DEF MutateConflict, WorkerOK
        <3> QED BY <3>1, <3>2 DEF WorkerOK
    <2> QED BY <2>1, <2>2, <2>3, <2>4
<1> QED BY <1>0, <1>1, <1>2, ThreadFrame

(* The proxy-sync worker's steps keep ThreadState.                         *)
LEMMA SendThreads ==
    ASSUME Inv, NEW n \in Node, Send(n) \/ OutgoingSkip(n)
    PROVE  ThreadState'
<1> USE DEF Inv
<1>0. Sender \in Thread /\ Sender \notin Worker /\ Sender # Receiver
    BY ThreadAssumption DEF Thread
<1>a. SenderOK(n) /\ docs[n] \in Documents
    BY DEF ThreadState, TypeOK
<1>1. OnlyMoves(n, Sender)
    <2>1. UNCHANGED <<op, request>>
        BY DEF Send, OutgoingNone, OutgoingStale, RestampCommit, RestampConflict, OutgoingSkip,
               OutgoingSend, Post, RecordRead, RecordCommit, RecordConflict
    <2>2. \A m \in Node, u \in Thread : m # n \/ u # Sender =>
              pc'[m][u] = pc[m][u] /\ bundle'[m][u] = bundle[m][u]
        BY <1>0 DEF Send, OutgoingNone, OutgoingStale, RestampCommit, RestampConflict, OutgoingSkip,
               OutgoingSend, Post, RecordRead, RecordCommit, RecordConflict,
               Read, Finish, Again, TypeOK
    <2>3. \A m \in Node : m # n => snapshot'[m] = snapshot[m]
        BY DEF Send, OutgoingNone, OutgoingStale, RestampCommit, RestampConflict, OutgoingSkip,
               OutgoingSend, Post, RecordRead, RecordCommit, RecordConflict, EndRound, TypeOK
    <2> QED BY <2>1, <2>2, <2>3 DEF OnlyMoves
<1>2. SenderOK(n)'
    <2>1. ASSUME pc'[n][Sender] \in {"idle", "outgoing"} PROVE SenderOK(n)'
        BY <2>1 DEF SenderOK
    <2>2. CASE OutgoingNone(n) \/ OutgoingSkip(n)
        BY <1>0, <2>1, <2>2 DEF OutgoingNone, OutgoingSkip, Finish, TypeOK
    <2>3. CASE OutgoingStale(n)
        <3>1. /\ pc'[n][Sender] = "restamp" /\ bundle'[n][Sender] = docs[n]
              /\ Scope(n, docs[n]) = "Master" /\ docs[n].sync.sequence < MaxSequence
            BY <1>0, <2>3 DEF OutgoingStale, Read, TypeOK
        <3> QED BY <1>a, <3>1 DEF SenderOK
    <2>4. CASE RestampCommit(n)
        BY <1>0, <2>1, <2>4 DEF RestampCommit, TypeOK
    <2>5. CASE RestampConflict(n)
        BY <1>0, <2>1, <2>5 DEF RestampConflict, Finish, Again, TypeOK
    <2>6. CASE OutgoingSend(n)
        <3>1. make_snapshot(n, docs[n]) \in Snapshot
            BY <1>a, <2>6, SnapshotType DEF OutgoingSend
        <3>2. pc'[n][Sender] = "post" /\ snapshot'[n] = make_snapshot(n, docs[n])
            BY <1>0, <2>6 DEF OutgoingSend, TypeOK
        <3> QED BY <3>1, <3>2 DEF SenderOK
    <2>7. CASE Post(n)
        <3>1. pc[n][Sender] = "post" /\ pc'[n][Sender] = "wait" /\ snapshot' = snapshot
            BY <1>0, <2>7 DEF Post, TypeOK
        <3> QED BY <1>a, <3>1 DEF SenderOK
    <2>8. CASE RecordRead(n)
        <3>1. CASE still_current(n, docs[n], snapshot[n]) /\ recorded(docs[n], delivered(n)) # docs[n].sync
            <4>1. /\ pc[n][Sender] = "wait" /\ pc'[n][Sender] = "ack"
                  /\ bundle'[n][Sender] = docs[n] /\ snapshot' = snapshot
                BY <1>0, <2>8, <3>1 DEF RecordRead, Read, TypeOK
            <4> QED BY <1>a, <3>1, <4>1 DEF SenderOK
        <3>2. CASE ~(still_current(n, docs[n], snapshot[n]) /\ recorded(docs[n], delivered(n)) # docs[n].sync)
            <4>1. pc'[n][Sender] = "idle"
                BY <1>0, <2>8, <3>2 DEF RecordRead, Finish, TypeOK
            <4> QED BY <2>1, <4>1
        <3> QED BY <3>1, <3>2
    <2>9. CASE RecordCommit(n)
        BY <1>0, <2>1, <2>9 DEF RecordCommit, TypeOK
    <2>10. CASE RecordConflict(n)
        <3>1. CASE Exhausted(n, Sender)
            BY <1>0, <2>1, <2>10, <3>1 DEF RecordConflict, Finish, TypeOK
        <3>2. CASE ~Exhausted(n, Sender)
            <4>1. pc[n][Sender] = "ack" /\ pc'[n][Sender] = "wait" /\ snapshot' = snapshot
                BY <1>0, <2>10, <3>2 DEF RecordConflict, Again, TypeOK
            <4> QED BY <1>a, <4>1 DEF SenderOK
        <3> QED BY <3>1, <3>2
    <2> QED BY <2>2, <2>3, <2>4, <2>5, <2>6, <2>7, <2>8, <2>9, <2>10 DEF Send
<1> QED BY <1>0, <1>1, <1>2, ThreadFrame

(* The replica worker's steps keep ThreadState.                            *)
LEMMA ReceiveThreads ==
    ASSUME Inv, NEW n \in Node, Receive(n)
    PROVE  ThreadState'
<1> USE DEF Inv
<1>0. Receiver \in Thread /\ Receiver \notin Worker /\ Sender # Receiver
    BY ThreadAssumption DEF Thread
<1>a. ReceiverOK(n) /\ docs[n] \in Documents
    BY DEF ThreadState, TypeOK
<1>1. OnlyMoves(n, Receiver)
    <2>1. UNCHANGED <<op, snapshot>>
        BY DEF Receive, Deliver, ReceiveRead, ReceiveCommit, ReceiveConflict
    <2>2. \A m \in Node, u \in Thread : m # n \/ u # Receiver =>
              pc'[m][u] = pc[m][u] /\ bundle'[m][u] = bundle[m][u]
        BY <1>0 DEF Receive, Deliver, ReceiveRead, ReceiveCommit, ReceiveConflict,
                    Read, Finish, Again, TypeOK
    <2>3. \A m \in Node : m # n => request'[m] = request[m]
        BY DEF Receive, Deliver, ReceiveRead, ReceiveCommit, ReceiveConflict, EndRequest, TypeOK
    <2> QED BY <2>1, <2>2, <2>3 DEF OnlyMoves
<1>2. ReceiverOK(n)'
    <2>1. ASSUME pc'[n][Receiver] = "idle" PROVE ReceiverOK(n)'
        BY <2>1 DEF ReceiverOK
    <2>2. ASSUME NEW m \in net, Deliver(n, m) PROVE ReceiverOK(n)'
        <3>0. m \in Request
            BY DEF TypeOK
        <3>1. CASE m.token # docs[n].secret \/ malformed(m.snap)
            BY <2>1, <2>2, <3>1 DEF Deliver
        <3>2. CASE ~(m.token # docs[n].secret \/ malformed(m.snap))
            <4>1. pc'[n][Receiver] = "receive" /\ request'[n] = m
                BY <1>0, <2>2, <3>2 DEF Deliver, TypeOK
            <4> QED BY <3>0, <3>2, <4>1 DEF ReceiverOK
        <3> QED BY <3>1, <3>2
    <2>3. CASE ReceiveRead(n)
        <3>1. CASE refused(n, docs[n], request[n].snap) \/ duplicate(docs[n], request[n].snap)
            <4>1. Finish(n, Receiver)
                BY <2>3, <3>1 DEF ReceiveRead
            <4> QED BY <1>0, <2>1, <4>1 DEF Finish, TypeOK
        <3>2. CASE ~refused(n, docs[n], request[n].snap) /\ ~duplicate(docs[n], request[n].snap)
            <4>1. Read(n, Receiver, "apply") /\ request' = request /\ pc[n][Receiver] = "receive"
                BY <2>3, <3>2 DEF ReceiveRead
            <4>2. pc'[n][Receiver] = "apply" /\ bundle'[n][Receiver] = docs[n]
                BY <1>0, <4>1 DEF Read, TypeOK
            <4> QED BY <1>a, <3>2, <4>1, <4>2 DEF ReceiverOK
        <3> QED BY <3>1, <3>2
    <2>4. CASE ReceiveCommit(n)
        BY <1>0, <2>1, <2>4 DEF ReceiveCommit, TypeOK
    <2>5. CASE ReceiveConflict(n)
        <3>1. CASE Exhausted(n, Receiver)
            BY <1>0, <2>1, <2>5, <3>1 DEF ReceiveConflict, Finish, TypeOK
        <3>2. CASE ~Exhausted(n, Receiver)
            <4>1. /\ pc[n][Receiver] = "apply" /\ pc'[n][Receiver] = "receive"
                  /\ request' = request
                BY <1>0, <2>5, <3>2 DEF ReceiveConflict, Again, TypeOK
            <4> QED BY <1>a, <4>1 DEF ReceiverOK
        <3> QED BY <3>1, <3>2
    <2> QED BY <2>2, <2>3, <2>4, <2>5 DEF Receive
<1> QED BY <1>0, <1>1, <1>2, ThreadFrame

(* Steps that move no thread keep ThreadState.                             *)
LEMMA IdleThreads ==
    ASSUME ThreadState, UNCHANGED <<pc, bundle, op, snapshot>>,
           \A m \in Node : request[m] \in Request =>
               request'[m] \in Request /\ request'[m].snap = request[m].snap
    PROVE  ThreadState'
BY WorkerFrame, SenderFrame, ReceiverFrame DEF ThreadState

(* Every step keeps ThreadState.                                           *)
LEMMA ThreadStep == Inv /\ [Next]_vars => ThreadState'
<1> SUFFICES ASSUME Inv, [Next]_vars PROVE ThreadState'
    OBVIOUS
<1> USE DEF Inv
<1>0. ASSUME UNCHANGED <<pc, bundle, op, snapshot, request>> PROVE ThreadState'
    BY <1>0, IdleThreads
<1>1. CASE UNCHANGED vars
    BY <1>0, <1>1 DEF vars
<1>2. ASSUME NEW n \in Node, Mutate(n) \/ Send(n) \/ OutgoingSkip(n) \/ Receive(n) PROVE ThreadState'
    BY <1>2, MutateThreads, SendThreads, ReceiveThreads DEF Mutate
<1>3. ASSUME NEW n \in Node, Timeout(n) PROVE ThreadState'
    <2>1. /\ request' = [request EXCEPT ![Peer[n]] = orphan(n, request[Peer[n]])]
          /\ Peer[n] \in Node /\ request \in [Node -> Request \cup {None}]
        BY <1>3, PairAssumption DEF Timeout, OrphanRequests, TypeOK
    <2>2. \A m \in Request : orphan(n, m) \in Request /\ orphan(n, m).snap = m.snap
        BY OrphanType
    <2>3. \A m \in Node : request[m] \in Request =>
              request'[m] \in Request /\ request'[m].snap = request[m].snap
        BY <2>1, <2>2
    <2>4. UNCHANGED <<pc, bundle, op, snapshot>>
        BY <1>3 DEF Timeout
    <2> QED BY <2>3, <2>4, IdleThreads
<1>4. ASSUME NEW n \in Node, Environment(n) PROVE ThreadState'
    <2>1. ASSUME NEW w \in Worker, NEW o \in ProxyConfigOperation, MutateBegin(n, w, o)
          PROVE  ThreadState'
        BY <2>1, MutateThreads
    <2>2. CASE \/ \E g \in {n, Peer[n]} : SwitchActive(n, g)
               \/ \E t \in Token : Pair(n, t)
               \/ PutHaConfig(n) \/ Unpair(n)
        BY <1>0, <2>2 DEF SwitchActive, Pair, PutHaConfig, Unpair
    <2>3. CASE Crash(n)
        <3>0. Worker \subseteq Thread /\ Sender \in Thread /\ Receiver \in Thread
            BY DEF Thread
        <3>1. \A t \in Thread : pc'[n][t] = "idle"
            BY <2>3 DEF Crash, TypeOK
        <3>2. (\A w \in Worker : WorkerOK(n, w)') /\ SenderOK(n)' /\ ReceiverOK(n)'
            BY <3>0, <3>1 DEF WorkerOK, SenderOK, ReceiverOK
        <3>3. ASSUME NEW m \in Node, m # n
              PROVE  (\A w \in Worker : WorkerOK(m, w)') /\ SenderOK(m)' /\ ReceiverOK(m)'
            <4>1. /\ request' = [request EXCEPT ![n] = None, ![Peer[n]] = orphan(n, request[Peer[n]])]
                  /\ Peer[n] \in Node /\ request \in [Node -> Request \cup {None}]
                BY <2>3, PairAssumption DEF Crash, TypeOK
            <4>2. \A r \in Request : orphan(n, r) \in Request /\ orphan(n, r).snap = r.snap
                BY OrphanType
            <4>3. request[m] \in Request => request'[m] \in Request /\ request'[m].snap = request[m].snap
                BY <3>3, <4>1, <4>2
            <4>4. /\ pc'[m] = pc[m] /\ bundle'[m] = bundle[m] /\ op'[m] = op[m]
                  /\ snapshot'[m] = snapshot[m]
                BY <2>3, <3>3 DEF Crash, TypeOK
            <4> QED BY <4>3, <4>4, WorkerFrame, SenderFrame, ReceiverFrame DEF ThreadState
        <3> QED BY <3>2, <3>3 DEF ThreadState
    <2> QED BY <1>4, <2>1, <2>2, <2>3 DEF Environment
<1>5. CASE AdminStep \/ AdminAbort \/ \E m \in net : Lose(m)
    BY <1>0, <1>5 DEF AdminStep, AdminAbort, Lose
<1> QED BY <1>1, <1>2, <1>3, <1>4, <1>5 DEF Next

(* The initial states satisfy the inductive invariant.                     *)
LEMMA InvInit == Init => Inv
<1> SUFFICES ASSUME Init PROVE Inv
    OBVIOUS
<1>1. docs \in [Node -> Documents] /\ used \subseteq Token
    <2>1. NoDocuments \in Documents
        BY DEF NoDocuments, Documents, SyncState
    <2>2. CASE StartPaired
        <3>1. PICK n \in Node, t \in Token :
                  /\ docs = [m \in Node |-> [NoDocuments EXCEPT !.ha = TRUE, !.secret = t,
                                               !.active = IF m \in {n, Peer[n]} THEN n ELSE m]]
                  /\ used = {t}
            BY <2>2 DEF Init, InitDocuments
        <3>2. \A m \in Node : [NoDocuments EXCEPT !.ha = TRUE, !.secret = t,
                                  !.active = IF m \in {n, Peer[n]} THEN n ELSE m] \in Documents
            BY <2>1 DEF Documents
        <3> QED BY <3>1, <3>2
    <2>3. CASE ~StartPaired
        BY <2>1, <2>3 DEF Init, InitDocuments
    <2> QED BY <2>2, <2>3
<1>2. TypeOK
    BY <1>1 DEF Init, TypeOK, PC
<1>3. ThreadState
    BY DEF Init, ThreadState, WorkerOK, SenderOK, ReceiverOK, Thread
<1>4. FreshBundle
    BY DEF Init, FreshBundle, unchanged_since_read
<1> QED BY <1>2, <1>3, <1>4 DEF Inv

(* The invariant is inductive.                                             *)
THEOREM InvInductive == Spec => []Inv
<1>1. Inv /\ [Next]_vars => Inv'
    BY TypeStep, ThreadStep, FreshStep DEF Inv
<1> QED BY InvInit, <1>1, PTL DEF Spec

(* Type correctness: every document, message and thread variable stays in  *)
(* its range; in particular only a snapshot of a pairing is ever sent.     *)
THEOREM TypeCorrect == Spec => []TypeOK
<1>1. Inv => TypeOK
    BY DEF Inv
<1> QED BY InvInductive, <1>1, PTL

-----------------------------------------------------------------------------
(* What a step may do to the business documents and the cursor of a        *)
(* gateway: each commit acts on the current documents d == docs[n].        *)

Keeps(n) == docs'[n].proxy = docs[n].proxy /\ docs'[n].sync = docs[n].sync

Edits(n) ==
    \E w \in Worker :
        LET c == edit(config(n, docs[n]), op[n][w]) IN
        /\ op[n][w] \in ProxyConfigOperation
        /\ ~nothing_to_commit(n, docs[n], op[n][w])
        /\ docs'[n].proxy = c
        /\ docs'[n].sync = local_version(n, docs[n], c)
        /\ receipt(docs'[n].sync) \in authored'[n]

Restamps(n) ==
    /\ Scope(n, docs[n]) = "Master" /\ docs[n].sync.sequence < MaxSequence
    /\ docs'[n].proxy = docs[n].proxy
    /\ docs'[n].sync = local_version(n, docs[n], config(n, docs[n]))
    /\ receipt(docs'[n].sync) \in authored'[n]

Records(n) ==
    /\ snapshot[n] \in Snapshot /\ still_current(n, docs[n], snapshot[n])
    /\ docs'[n].proxy = docs[n].proxy
    /\ docs'[n].sync = recorded(docs[n], delivered(n))

Installs(n) ==
    LET s == request[n].snap IN
    /\ request[n] \in Request /\ s \in Snapshot /\ ~malformed(s)
    /\ ~refused(n, docs[n], s) /\ ~duplicate(docs[n], s)
    /\ docs'[n].proxy = IF write_documents(n, docs[n], s) THEN s.config ELSE docs[n].proxy
    /\ docs'[n].sync = [ sequence     |-> s.sequence,
                         source       |-> s.source,
                         pairing_id   |-> s.pairing_id,
                         content_hash |-> s.content_hash,
                         pending      |-> FALSE,
                         last_error   |-> FALSE ]
    /\ receipt(s) \in applied'[n]

Effect(n) == Keeps(n) \/ Edits(n) \/ Restamps(n) \/ Records(n) \/ Installs(n)

(* A put to an HA document keeps cursor and content.                       *)
LEMMA PutKeeps ==
    ASSUME TypeOK, NEW m \in Node, NEW key, NEW d \in Documents, Put(m, key, d),
           d.proxy = docs[m].proxy, d.sync = docs[m].sync, NEW n \in Node
    PROVE  Keeps(n)
BY DEF Put, Keeps, TypeOK

(* What any step can do to the documents of one gateway.                   *)
LEMMA StepEffect ==
    ASSUME Inv, [Next]_vars, NEW n \in Node
    PROVE  Effect(n)
<1> USE DEF Inv
<1>0. Worker \subseteq Thread /\ Sender \in Thread /\ Receiver \in Thread /\ docs[n] \in Documents
    BY DEF Thread, TypeOK
<1>k. ASSUME docs'[n] = docs[n] PROVE Effect(n)
    BY <1>k DEF Effect, Keeps
<1>1. CASE UNCHANGED vars
    BY <1>k, <1>1 DEF vars
<1>2. ASSUME NEW m \in Node, NEW w \in Worker,
             MutateRetry(m, w) \/ MutateCommit(m, w) \/ MutateConflict(m, w)
      PROVE  Effect(n)
    <2>1. CASE m = n /\ MutateCommit(m, w)
        <3>1. bundle[n][w] = docs[n] /\ pc[n][w] = "mutate_commit" /\ WorkerOK(n, w)
            BY <1>0, <2>1, BundleIsCurrent DEF MutateCommit, ThreadState
        <3>2. op[n][w] \in ProxyConfigOperation /\ ~nothing_to_commit(n, docs[n], op[n][w])
            BY <3>1 DEF WorkerOK
        <3>3. docs' = [docs EXCEPT ![n].proxy = edit(config(n, docs[n]), op[n][w]),
                  ![n].sync = local_version(n, docs[n], edit(config(n, docs[n]), op[n][w]))]
            BY <2>1, <3>1 DEF MutateCommit
        <3>4. /\ docs'[n].proxy = edit(config(n, docs[n]), op[n][w])
              /\ docs'[n].sync = local_version(n, docs[n], edit(config(n, docs[n]), op[n][w]))
            BY <3>3 DEF TypeOK, Documents
        <3>5. receipt(docs'[n].sync) \in authored'[n]
            BY <2>1, <3>1, <3>4 DEF MutateCommit, TypeOK
        <3> QED BY <3>2, <3>4, <3>5 DEF Effect, Edits
    <2>2. CASE ~(m = n /\ MutateCommit(m, w))
        <3>1. docs'[n] = docs[n]
            BY <1>2, <2>2 DEF MutateRetry, MutateCommit, MutateConflict, TypeOK
        <3> QED BY <1>k, <3>1
    <2> QED BY <2>1, <2>2
<1>3. ASSUME NEW m \in Node, Send(m) \/ OutgoingSkip(m) \/ Timeout(m) PROVE Effect(n)
    <2>1. CASE m = n /\ RestampCommit(m)
        <3>1. bundle[n][Sender] = docs[n] /\ pc[n][Sender] = "restamp" /\ SenderOK(n)
            BY <1>0, <2>1, BundleIsCurrent DEF RestampCommit, ThreadState
        <3>2. Scope(n, docs[n]) = "Master" /\ docs[n].sync.sequence < MaxSequence
            BY <3>1 DEF SenderOK
        <3>3. docs' = [docs EXCEPT ![n].sync = local_version(n, docs[n], config(n, docs[n]))]
            BY <2>1, <3>1 DEF RestampCommit
        <3>4. /\ docs'[n].sync = local_version(n, docs[n], config(n, docs[n]))
              /\ docs'[n].proxy = docs[n].proxy
            BY <3>3 DEF TypeOK, Documents
        <3>5. receipt(docs'[n].sync) \in authored'[n]
            BY <2>1, <3>1, <3>4 DEF RestampCommit, TypeOK
        <3> QED BY <3>2, <3>4, <3>5 DEF Effect, Restamps
    <2>2. CASE m = n /\ RecordCommit(m)
        <3>1. bundle[n][Sender] = docs[n] /\ pc[n][Sender] = "ack" /\ SenderOK(n)
            BY <1>0, <2>2, BundleIsCurrent DEF RecordCommit, ThreadState
        <3>2. snapshot[n] \in Snapshot /\ still_current(n, docs[n], snapshot[n])
            BY <3>1 DEF SenderOK
        <3>3. docs' = [docs EXCEPT ![n].sync = recorded(docs[n], delivered(n))]
            BY <2>2, <3>1 DEF RecordCommit
        <3>4. docs'[n].sync = recorded(docs[n], delivered(n)) /\ docs'[n].proxy = docs[n].proxy
            BY <3>3 DEF TypeOK, Documents
        <3> QED BY <3>2, <3>4 DEF Effect, Records
    <2>3. CASE ~(m = n /\ (RestampCommit(m) \/ RecordCommit(m)))
        <3>1. docs'[n] = docs[n]
            BY <1>3, <2>3 DEF Send, OutgoingNone, OutgoingStale, RestampCommit, RestampConflict,
                   OutgoingSkip, OutgoingSend, Post, RecordRead, RecordCommit, RecordConflict,
                   Timeout, TypeOK
        <3> QED BY <1>k, <3>1
    <2> QED BY <2>1, <2>2, <2>3
<1>4. ASSUME NEW m \in Node, Receive(m) PROVE Effect(n)
    <2>1. CASE m = n /\ ReceiveCommit(m)
        <3> DEFINE s == request[n].snap
                   y == [ sequence |-> s.sequence, source |-> s.source, pairing_id |-> s.pairing_id,
                          content_hash |-> s.content_hash, pending |-> FALSE, last_error |-> FALSE ]
                   p == IF write_documents(n, docs[n], s) THEN s.config ELSE docs[n].proxy
        <3>1. bundle[n][Receiver] = docs[n] /\ pc[n][Receiver] = "apply" /\ ReceiverOK(n)
            BY <1>0, <2>1, BundleIsCurrent DEF ReceiveCommit, ThreadState
        <3>2. request[n] \in Request /\ ~malformed(s)
                /\ ~refused(n, docs[n], s) /\ ~duplicate(docs[n], s)
            BY <3>1 DEF ReceiverOK
        <3>3. s \in Snapshot
            BY <3>2 DEF Request
        <3>4. docs' = [docs EXCEPT ![n].proxy = p, ![n].sync = y]
            BY <2>1, <3>1 DEF ReceiveCommit
        <3> HIDE DEF p, y
        <3>5. docs'[n].proxy = p /\ docs'[n].sync = y
            BY <3>4 DEF TypeOK, Documents
        <3>6. receipt(s) \in applied'[n]
            BY <2>1 DEF ReceiveCommit, TypeOK
        <3> QED BY <3>2, <3>3, <3>5, <3>6 DEF Effect, Installs, p, y
    <2>2. CASE ~(m = n /\ ReceiveCommit(m))
        <3>1. docs'[n] = docs[n]
            BY <1>4, <2>2 DEF Receive, Deliver, ReceiveRead, ReceiveCommit, ReceiveConflict, TypeOK
        <3> QED BY <1>k, <3>1
    <2> QED BY <2>1, <2>2
<1>5. ASSUME NEW m \in Node, Environment(m) PROVE Effect(n)
    <2>0. docs[m] \in Documents /\ Peer[m] \in Node
        BY PairAssumption DEF TypeOK
    <2>1. ASSUME NEW g \in {m, Peer[m]}, SwitchActive(m, g) PROVE Effect(n)
        <3>1. [docs[m] EXCEPT !.active = g] \in Documents
                /\ [docs[m] EXCEPT !.active = g].proxy = docs[m].proxy
                /\ [docs[m] EXCEPT !.active = g].sync = docs[m].sync
            BY <2>0 DEF Documents
        <3> QED BY <2>1, <3>1, PutKeeps DEF SwitchActive, Effect
    <2>2. CASE PutHaConfig(m)
        <3>1. [docs[m] EXCEPT !.ha = ~@] \in Documents
                /\ [docs[m] EXCEPT !.ha = ~@].proxy = docs[m].proxy
                /\ [docs[m] EXCEPT !.ha = ~@].sync = docs[m].sync
            BY <2>0 DEF Documents
        <3> QED BY <2>2, <3>1, PutKeeps DEF PutHaConfig, Effect
    <2>3. CASE docs' = docs
        BY <1>k, <2>3
    <2> QED BY <1>5, <2>1, <2>2, <2>3 DEF Environment, MutateBegin, Pair, Unpair, Crash
<1>6. CASE AdminStep
    <2> DEFINE w == Head(admin)
               d == docs[w.node]
               e == CASE w.key = "ha"     -> [d EXCEPT !.ha = w.ha]
                      [] w.key = "active" -> [d EXCEPT !.active = w.active]
                      [] w.key = "secret" -> [d EXCEPT !.secret = w.secret]
    <2>1. w \in AdminWrite
        BY <1>6 DEF AdminStep, TypeOK
    <2>2. w.node \in Node /\ w.key \in {"ha", "active", "secret"} /\ d \in Documents
        BY <2>1 DEF AdminWrite, TypeOK
    <2>3. e \in Documents /\ e.proxy = d.proxy /\ e.sync = d.sync
        BY <2>1, <2>2 DEF AdminWrite, Documents
    <2>4. Put(w.node, w.key, e)
        BY <1>6 DEF AdminStep
    <2> HIDE DEF e
    <2> QED BY <2>2, <2>3, <2>4, PutKeeps DEF Effect
<1>7. CASE AdminAbort \/ \E m \in net : Lose(m)
    BY <1>k, <1>7 DEF AdminAbort, Lose
<1> QED BY <1>1, <1>2, <1>3, <1>4, <1>5, <1>6, <1>7 DEF Next, Mutate

-----------------------------------------------------------------------------
(* Safety.                                                                 *)

(* Initially no version exists and the file configuration is valid.        *)
LEMMA InitContent ==
    ASSUME Init, NEW n \in Node
    PROVE  docs[n].proxy = None /\ docs[n].sync.sequence = 0 /\ docs[n].sync.source = NoNode
<1>1. CASE StartPaired
    <2>1. PICK m \in Node, t \in Token :
              docs = [k \in Node |-> [NoDocuments EXCEPT !.ha = TRUE, !.secret = t,
                                        !.active = IF k \in {m, Peer[m]} THEN m ELSE k]]
        BY <1>1 DEF Init, InitDocuments
    <2>2. docs[n].proxy = NoDocuments.proxy /\ docs[n].sync = NoDocuments.sync
        BY <2>1 DEF NoDocuments
    <2> QED BY <2>2 DEF NoDocuments
<1>2. CASE ~StartPaired
    BY <1>2 DEF Init, InitDocuments, NoDocuments
<1> QED BY <1>1, <1>2

(* The configuration is a function of the stored business documents.       *)
LEMMA SameProxy ==
    ASSUME NEW n \in Node, NEW d, NEW e, d.proxy = e.proxy
    PROVE  config(n, d) = config(n, e) /\ local_hash(n, d) = local_hash(n, e)
BY DEF config, local_hash

(* Stored business documents are the configuration.                        *)
LEMMA StoredProxy ==
    ASSUME NEW n \in Node, NEW d, d.proxy \in ProxyConfigs
    PROVE  config(n, d) = d.proxy /\ local_hash(n, d) = content_hash(shared(d.proxy))
BY NoneAssumption DEF config, local_hash

(* A version of the peer either leaves the business documents alone or     *)
(* replaces them by the content whose digest it carries.                   *)
LEMMA InstallsContent ==
    ASSUME Inv, NEW n \in Node, Installs(n)
    PROVE  /\ local_hash(n, docs'[n]) = request[n].snap.content_hash
           /\ docs'[n].proxy # docs[n].proxy =>
                 config(n, docs'[n]) = request[n].snap.config /\ write_documents(n, docs[n], request[n].snap)
<1> DEFINE s == request[n].snap
<1>1. s \in Snapshot /\ s.config \in ProxyConfigs
    BY DEF Installs, Snapshot
<1>2. shared(s.config) = s.config /\ content_hash(s.config) = s.content_hash
    BY DEF Installs, malformed
<1>3. CASE write_documents(n, docs[n], s)
    <2>1. docs'[n].proxy = s.config
        BY <1>3 DEF Installs
    <2> QED BY <1>1, <1>2, <1>3, <2>1, StoredProxy
<1>4. CASE ~write_documents(n, docs[n], s)
    <2>1. docs'[n].proxy = docs[n].proxy /\ local_hash(n, docs[n]) = s.content_hash
        BY <1>4 DEF Installs, write_documents
    <2> QED BY <2>1, SameProxy
<1> QED BY <1>3, <1>4

(* A committed edit applies one worker's accepted operation.               *)
LEMMA EditsContent ==
    ASSUME Inv, NEW n \in Node, Edits(n)
    PROVE  \E w \in Worker :
              /\ op[n][w] \in ProxyConfigOperation
              /\ ~nothing_to_commit(n, docs[n], op[n][w])
              /\ config(n, docs'[n]) = edit(config(n, docs[n]), op[n][w])
              /\ docs'[n].sync = local_version(n, docs[n], config(n, docs'[n]))
              /\ local_hash(n, docs'[n]) = content_hash(shared(config(n, docs'[n])))
<1>1. PICK w \in Worker :
          /\ op[n][w] \in ProxyConfigOperation
          /\ ~nothing_to_commit(n, docs[n], op[n][w])
          /\ docs'[n].proxy = edit(config(n, docs[n]), op[n][w])
          /\ docs'[n].sync = local_version(n, docs[n], edit(config(n, docs[n]), op[n][w]))
    BY DEF Edits
<1>2. docs[n] \in Documents
    BY DEF Inv, TypeOK
<1>3. docs'[n].proxy \in ProxyConfigs
    BY <1>1, <1>2, ConfigType, EditType
<1>4. config(n, docs'[n]) = docs'[n].proxy /\ local_hash(n, docs'[n]) = content_hash(shared(docs'[n].proxy))
    BY <1>3, StoredProxy
<1> QED BY <1>1, <1>4

(* The replication cursor always describes the content stored beside it,   *)
(* whatever commits, restamps, acknowledgements, crashes and re-pairings   *)
(* interleave.                                                             *)
THEOREM CursorContent == Spec => []CursorMatchesContent
<1>1. Init => CursorMatchesContent
    BY InitContent DEF CursorMatchesContent
<1>2. Inv /\ CursorMatchesContent /\ [Next]_vars => CursorMatchesContent'
    <2> SUFFICES ASSUME Inv, CursorMatchesContent, [Next]_vars, NEW n \in Node,
                        docs'[n].sync.sequence > 0
                 PROVE  docs'[n].sync.content_hash = local_hash(n, docs'[n])
        BY DEF CursorMatchesContent, local_hash, config
    <2>0. docs[n] \in Documents /\ docs[n].sync \in SyncState
        BY DEF Inv, TypeOK, Documents
    <2>1. CASE Keeps(n)
        BY <2>1, SameProxy DEF Keeps, CursorMatchesContent
    <2>2. CASE Edits(n)
        <3>1. /\ docs'[n].sync = local_version(n, docs[n], config(n, docs'[n]))
              /\ local_hash(n, docs'[n]) = content_hash(shared(config(n, docs'[n])))
            BY <2>2, EditsContent
        <3> QED BY <3>1 DEF local_version
    <2>3. CASE Restamps(n)
        BY <2>3, SameProxy DEF Restamps, local_version, local_hash
    <2>4. CASE Records(n)
        <3>1. /\ docs'[n].sync.content_hash = docs[n].sync.content_hash
              /\ docs'[n].sync.sequence = docs[n].sync.sequence
            BY <2>0, <2>4 DEF Records, recorded, SyncState
        <3> QED BY <2>4, <3>1, SameProxy DEF Records, CursorMatchesContent
    <2>5. CASE Installs(n)
        <3>1. docs'[n].sync.content_hash = request[n].snap.content_hash
            BY <2>5 DEF Installs
        <3> QED BY <2>5, <3>1, InstallsContent
    <2> QED BY <2>1, <2>2, <2>3, <2>4, <2>5, StepEffect DEF Effect
<1> QED BY <1>1, <1>2, InvInductive, PTL DEF Spec

(* Every configured listener forwards to a configured target group on both *)
(* gateways: deleting a group and adding a reference to it never both      *)
(* commit, locally or through replication.                                 *)
THEOREM References == Spec => []ReferencesResolve
<1>1. Init => ReferencesResolve
    BY InitContent, FileAssumption DEF ReferencesResolve, config
<1>2. Inv /\ ReferencesResolve /\ [Next]_vars => ReferencesResolve'
    <2> SUFFICES ASSUME Inv, ReferencesResolve, [Next]_vars, NEW n \in Node
                 PROVE  valid(config(n, docs'[n]))
        BY DEF ReferencesResolve, config, valid
    <2>0. docs[n] \in Documents /\ valid(config(n, docs[n])) /\ config(n, docs[n]) \in ProxyConfigs
        BY ConfigType DEF Inv, TypeOK, ReferencesResolve
    <2>1. CASE Keeps(n) \/ Restamps(n) \/ Records(n)
        <3>1. docs'[n].proxy = docs[n].proxy
            BY <2>1 DEF Keeps, Restamps, Records
        <3> QED BY <2>0, <3>1, SameProxy
    <2>2. CASE Edits(n)
        <3>1. PICK w \in Worker :
                  /\ op[n][w] \in ProxyConfigOperation
                  /\ ~nothing_to_commit(n, docs[n], op[n][w])
                  /\ config(n, docs'[n]) = edit(config(n, docs[n]), op[n][w])
            BY <2>2, EditsContent
        <3>2. ~rejected(config(n, docs[n]), op[n][w])
            BY <3>1 DEF nothing_to_commit
        <3> QED BY <2>0, <3>1, <3>2, EditValid
    <2>3. CASE Installs(n)
        <3>1. CASE docs'[n].proxy = docs[n].proxy
            BY <2>0, <3>1, SameProxy
        <3>2. CASE docs'[n].proxy # docs[n].proxy
            BY <2>3, <3>2, InstallsContent DEF Installs, malformed
        <3> QED BY <3>1, <3>2
    <2> QED BY <2>1, <2>2, <2>3, StepEffect DEF Effect
<1> QED BY <1>1, <1>2, InvInductive, PTL DEF Spec

(* The scope of a gateway is one of four values.                           *)
LEMMA ScopeValues ==
    ASSUME NEW n \in Node, NEW d \in Documents
    PROVE  Scope(n, d) \in {"Standalone", "Error", "Master", "Backup"}
BY DEF Scope, Documents

(* The version fields a local commit writes.                               *)
LEMMA LocalVersion ==
    ASSUME NEW n \in Node, NEW d, NEW c
    PROVE  /\ local_version(n, d, c).sequence = d.sync.sequence + 1
           /\ local_version(n, d, c).source = n
           /\ Scope(n, d) = "Master" => local_version(n, d, c).pairing_id = d.secret
           /\ Scope(n, d) # "Master" => local_version(n, d, c).pairing_id = NoToken
BY DEF local_version

(* An acknowledgement or an HA write leaves the version as it is.          *)
LEMMA SameVersion ==
    ASSUME Inv, NEW n \in Node, Keeps(n) \/ Records(n)
    PROVE  version(docs'[n].sync) = version(docs[n].sync)
<1>1. docs[n].sync \in SyncState
    BY DEF Inv, TypeOK, Documents
<1>2. CASE Keeps(n)
    BY <1>2 DEF Keeps
<1>3. CASE Records(n)
    BY <1>1, <1>3 DEF Records, recorded, version, SyncState
<1> QED BY <1>2, <1>3

(* Versions are authored only by a gateway that is standalone or MASTER at *)
(* the commit, in its current pairing, and foreign versions are installed  *)
(* only by a BACKUP, from the peer it is paired with: no interleaving of   *)
(* failover or re-pairing with a write or a delivery escapes the check.    *)
THEOREM Fence == Spec => RoleFence
<1>1. ASSUME Inv, [Next]_vars, NEW n \in Node, version(docs'[n].sync) # version(docs[n].sync)
      PROVE  FencedStep(n)
    <2>0. docs[n] \in Documents
        BY <1>1 DEF Inv, TypeOK
    <2>1. CASE Edits(n)
        <3>1. PICK c : docs'[n].sync = local_version(n, docs[n], c)
            BY <2>1 DEF Edits
        <3>2. Scope(n, docs[n]) \notin {"Error", "Backup"}
            BY <2>1 DEF Edits, nothing_to_commit
        <3> QED BY <2>0, <3>1, <3>2, ScopeValues, LocalVersion DEF FencedStep
    <2>2. CASE Restamps(n)
        BY <2>2, LocalVersion DEF Restamps, FencedStep
    <2>3. CASE Installs(n)
        <3>1. /\ docs'[n].sync.source = request[n].snap.source
              /\ docs'[n].sync.pairing_id = request[n].snap.pairing_id
            BY <2>3 DEF Installs
        <3> QED BY <2>3, <3>1, PairAssumption DEF Installs, refused, FencedStep
    <2> QED BY <1>1, <2>1, <2>2, <2>3, StepEffect, SameVersion DEF Effect
<1>2. Inv /\ [Next]_vars => [\A n \in Node : FencedStep(n)]_vars
    BY <1>1 DEF FencedStep
<1> QED BY <1>2, InvInductive, PTL DEF Spec, RoleFence

(* Within one pairing the cursor of a gateway never goes back and a new    *)
(* version has a higher sequence, whatever is delayed or delivered twice.  *)
THEOREM Advances == Spec => CursorAdvances
<1>1. ASSUME Inv, [Next]_vars, NEW n \in Node,
             version(docs'[n].sync) # version(docs[n].sync),
             docs'[n].sync.pairing_id = docs[n].sync.pairing_id
      PROVE  docs'[n].sync.sequence > docs[n].sync.sequence
    <2>0. docs[n].sync.sequence \in Nat
        BY <1>1 DEF Inv, TypeOK, Documents, SyncState
    <2>1. CASE Edits(n) \/ Restamps(n)
        <3>1. PICK c : docs'[n].sync = local_version(n, docs[n], c)
            BY <2>1 DEF Edits, Restamps
        <3> QED BY <2>0, <3>1, LocalVersion
    <2>2. CASE Installs(n)
        <3>1. /\ docs'[n].sync.sequence = request[n].snap.sequence
              /\ docs'[n].sync.pairing_id = request[n].snap.pairing_id
              /\ request[n].snap.sequence \in Nat
            BY <2>2 DEF Installs, Snapshot
        <3>2. same_pair(docs[n], request[n].snap)
            BY <1>1, <3>1 DEF same_pair
        <3> QED BY <2>0, <2>2, <3>1, <3>2 DEF Installs, refused, duplicate
    <2> QED BY <1>1, <2>1, <2>2, StepEffect, SameVersion DEF Effect
<1>2. Inv /\ [Next]_vars => [\A n \in Node : AdvancingStep(n)]_vars
    BY <1>1 DEF AdvancingStep
<1> QED BY <1>2, InvInductive, PTL DEF Spec, CursorAdvances

(* No business change is lost or invented: the configuration changes only  *)
(* by an operation applied to the configuration current at the commit, or  *)
(* by installing the peer's content.                                       *)
THEOREM Updates == Spec => NoLostUpdate
<1>1. ASSUME Inv, [Next]_vars, NEW n \in Node, config(n, docs'[n]) # config(n, docs[n])
      PROVE  JustifiedStep(n)
    <2>0. docs'[n].proxy # docs[n].proxy
        BY <1>1, SameProxy
    <2>1. CASE Edits(n)
        <3>1. PICK w \in Worker :
                  /\ op[n][w] \in ProxyConfigOperation
                  /\ ~nothing_to_commit(n, docs[n], op[n][w])
                  /\ config(n, docs'[n]) = edit(config(n, docs[n]), op[n][w])
                  /\ docs'[n].sync = local_version(n, docs[n], config(n, docs'[n]))
            BY <1>1, <2>1, EditsContent
        <3>2. docs'[n].sync.source = n
            BY <3>1, LocalVersion
        <3>3. op[n][w] # None /\ ~rejected(config(n, docs[n]), op[n][w])
            BY <3>1, NoneAssumption DEF nothing_to_commit
        <3> QED BY <3>1, <3>2, <3>3 DEF JustifiedStep
    <2>2. CASE Installs(n)
        <3> DEFINE s == request[n].snap
        <3>1. docs'[n].sync.source = Peer[n] /\ shared(s.config) = s.config
                /\ content_hash(s.config) = s.content_hash
            BY <2>2 DEF Installs, refused, malformed
        <3>2. config(n, docs'[n]) = s.config /\ write_documents(n, docs[n], s)
            BY <1>1, <2>0, <2>2, InstallsContent
        <3>3. CASE local_hash(n, docs[n]) # s.content_hash
            BY <3>1, <3>2, <3>3 DEF local_hash, JustifiedStep
        <3>4. CASE docs[n].proxy = None
            BY <3>1, <3>4 DEF JustifiedStep
        <3> QED BY <3>2, <3>3, <3>4 DEF write_documents
    <2>3. CASE Keeps(n) \/ Restamps(n) \/ Records(n)
        BY <2>0, <2>3 DEF Keeps, Restamps, Records
    <2> QED BY <1>1, <2>1, <2>2, <2>3, StepEffect DEF Effect
<1>2. Inv /\ [Next]_vars => [\A n \in Node : JustifiedStep(n)]_vars
    BY <1>1 DEF JustifiedStep
<1> QED BY <1>2, InvInductive, PTL DEF Spec, NoLostUpdate

-----------------------------------------------------------------------------
(***************************************************************************)
(* The history of versions: a replica holds only versions its peer         *)
(* authored, and a cleared pending flag means that the peer has installed  *)
(* exactly that version.                                                   *)
(***************************************************************************)
USE DEF KEYS, threads, delivery, control, history, bounds

(* Everything sent or held under a gateway's name was authored by it.      *)
Provenance ==
    /\ \A n \in Node :
          /\ docs[n].sync.source = n => receipt(docs[n].sync) \in authored[n]
          /\ docs[n].sync.source = Peer[n] => receipt(docs[n].sync) \in authored[Peer[n]]
          /\ snapshot[n] # None => receipt(snapshot[n]) \in authored[n]
          /\ request[n] # None => /\ request[n].from = Peer[n]
                                  /\ receipt(request[n].snap) \in authored[Peer[n]]
    /\ \A m \in net : receipt(m.snap) \in authored[m.from]

(* A receipt is given only for a version the replica has installed.        *)
Receipts ==
    \A n \in Node :
        /\ docs[n].sync.source = Peer[n] => receipt(docs[n].sync) \in applied[n]
        /\ reply[n] \notin {None, Failed} => reply[n] \in applied[Peer[n]]

(* A session token is written to a gateway at most once: a token about to  *)
(* be written is neither its current one nor that of the version it sends. *)
UnusedAt(w) ==
    w.key = "secret" /\ w.secret # NoToken =>
        /\ w.secret \in used
        /\ w.secret # docs[w.node].secret
        /\ snapshot[w.node] # None => w.secret # snapshot[w.node].pairing_id

FreshToken ==
    /\ \A i \in 1..Len(admin) : UnusedAt(admin[i])
    /\ \A i, j \in 1..Len(admin) :
          admin[i].key = "secret" /\ admin[j].key = "secret" /\ admin[i].node = admin[j].node
              => i = j
    /\ \A n \in Node :
          /\ docs[n].secret \in used \cup {NoToken}
          /\ snapshot[n] # None => snapshot[n].pairing_id \in used

(* The version being sent and the cursor belong to the same pairing while  *)
(* that pairing is the current one.                                        *)
SamePairing ==
    \A n \in Node :
        /\ snapshot[n] # None /\ docs[n].secret = snapshot[n].pairing_id
        /\ docs[n].sync.pairing_id # NoToken
        => docs[n].sync.pairing_id = snapshot[n].pairing_id

-----------------------------------------------------------------------------
(* What a step does to the messages.                                       *)

(* The history variables only grow.                                        *)
LEMMA HistoryGrows ==
    ASSUME Inv, [Next]_vars, NEW n \in Node
    PROVE  authored[n] \subseteq authored'[n] /\ applied[n] \subseteq applied'[n]
<1> USE DEF Inv
<1>1. CASE UNCHANGED vars
    BY <1>1 DEF vars
<1>g. ASSUME NEW m \in Node, NEW v, authored' = [authored EXCEPT ![m] = @ \cup {v}]
      PROVE  authored[n] \subseteq authored'[n]
    BY <1>g DEF TypeOK
<1>2. ASSUME NEW m \in Node, Mutate(m) \/ Environment(m)
      PROVE  authored[n] \subseteq authored'[n] /\ applied' = applied
    <2>1. ASSUME NEW w \in Worker, MutateCommit(m, w)
          PROVE  authored[n] \subseteq authored'[n] /\ applied' = applied
        BY <1>g, <2>1 DEF MutateCommit
    <2>2. CASE UNCHANGED history
        BY <2>2
    <2> QED BY <1>2, <2>1, <2>2 DEF Mutate, Environment, MutateBegin, MutateRetry, MutateConflict,
                SwitchActive, Pair, PutHaConfig, Unpair, Crash
<1>3. ASSUME NEW m \in Node, Send(m) \/ OutgoingSkip(m) \/ Timeout(m)
      PROVE  authored[n] \subseteq authored'[n] /\ applied' = applied
    <2>1. CASE RestampCommit(m)
        BY <1>g, <2>1 DEF RestampCommit
    <2>2. CASE UNCHANGED history
        BY <2>2
    <2> QED BY <1>3, <2>1, <2>2 DEF Send, OutgoingNone, OutgoingStale, RestampConflict, OutgoingSkip,
                OutgoingSend, Post, RecordRead, RecordCommit, RecordConflict, Timeout
<1>4. ASSUME NEW m \in Node, Receive(m)
      PROVE  authored' = authored /\ applied[n] \subseteq applied'[n]
    BY <1>4 DEF Receive, Deliver, ReceiveRead, ReceiveCommit, ReceiveConflict, TypeOK
<1>5. CASE AdminStep \/ AdminAbort \/ \E m \in net : Lose(m)
    BY <1>5 DEF AdminStep, AdminAbort, Lose
<1> QED BY <1>1, <1>2, <1>3, <1>4, <1>5 DEF Next

(* A sender's snapshot is kept, dropped, or made from the current          *)
(* documents of a MASTER whose cursor is not stale.                        *)
LEMMA SnapshotEffect ==
    ASSUME Inv, [Next]_vars, NEW n \in Node
    PROVE  \/ snapshot'[n] = snapshot[n]
           \/ snapshot'[n] = None
           \/ /\ Scope(n, docs[n]) = "Master" /\ ~stale_cursor(n, docs[n])
              /\ docs' = docs /\ admin' = admin /\ used' = used
              /\ snapshot'[n] = make_snapshot(n, docs[n])
<1> USE DEF Inv
<1>0. snapshot \in [Node -> Snapshot \cup {None}]
    BY DEF TypeOK
<1>1. CASE UNCHANGED vars
    BY <1>1 DEF vars
<1>2. ASSUME NEW m \in Node, Mutate(m) \/ Environment(m)
      PROVE  snapshot'[n] = snapshot[n] \/ snapshot'[n] = None
    BY <1>0, <1>2 DEF Mutate, Environment, MutateBegin, MutateRetry, MutateCommit, MutateConflict,
                SwitchActive, Pair, PutHaConfig, Unpair, Crash
<1>3. ASSUME NEW m \in Node, Send(m) \/ OutgoingSkip(m) \/ Timeout(m), ~OutgoingSend(m)
      PROVE  snapshot'[n] = snapshot[n] \/ snapshot'[n] = None
    BY <1>0, <1>3 DEF Send, OutgoingNone, OutgoingStale, RestampCommit, RestampConflict, OutgoingSkip,
                Post, RecordRead, RecordCommit, RecordConflict, Timeout, EndRound
<1>4. ASSUME NEW m \in Node, OutgoingSend(m)
      PROVE  \/ snapshot'[n] = snapshot[n]
             \/ /\ Scope(n, docs[n]) = "Master" /\ ~stale_cursor(n, docs[n])
                /\ docs' = docs /\ admin' = admin /\ used' = used
                /\ snapshot'[n] = make_snapshot(n, docs[n])
    BY <1>0, <1>4 DEF OutgoingSend
<1>5. ASSUME NEW m \in Node, Receive(m) PROVE snapshot' = snapshot
    BY <1>5 DEF Receive, Deliver, ReceiveRead, ReceiveCommit, ReceiveConflict
<1>6. CASE AdminStep \/ AdminAbort \/ \E m \in net : Lose(m)
    BY <1>6 DEF AdminStep, AdminAbort, Lose
<1> QED BY <1>1, <1>2, <1>3, <1>4, <1>5, <1>6 DEF Next

Same(r, s) == r.from = s.from /\ r.snap = s.snap

(* Abandoning a request leaves its token and snapshot.                     *)
LEMMA OrphanSame ==
    ASSUME NEW n \in Node, NEW m \in Request \cup {None}, m # None
    PROVE  Same(orphan(n, m), m)
<1>1. m \in Request
    OBVIOUS
<1> QED BY <1>1 DEF orphan, Same, Request

(* Requests in flight carry their sender's snapshot.                       *)
LEMMA NetEffect ==
    ASSUME Inv, [Next]_vars, NEW r \in net'
    PROVE  \/ \E m \in net : Same(r, m)
           \/ \E n \in Node : r.from = n /\ snapshot[n] \in Snapshot /\ r.snap = snapshot[n]
<1> USE DEF Inv
<1>0. net \subseteq Request
    BY DEF TypeOK
<1>1. CASE UNCHANGED vars
    BY <1>1 DEF vars, Same
<1>2. ASSUME NEW n \in Node, Crash(n) \/ Timeout(n) PROVE \E m \in net : Same(r, m)
    <2>1. PICK m \in net : r = orphan(n, m)
        BY <1>2 DEF Crash, Timeout, OrphanRequests
    <2> QED BY <1>0, <2>1 DEF orphan, Same, Request
<1>3. ASSUME NEW n \in Node, Mutate(n) \/ (Environment(n) /\ ~Crash(n)) PROVE net' = net
    BY <1>3 DEF Mutate, Environment, MutateBegin, MutateRetry, MutateCommit, MutateConflict,
                SwitchActive, Pair, PutHaConfig, Unpair
<1>4. ASSUME NEW n \in Node, Post(n)
      PROVE  \/ r \in net
             \/ r.from = n /\ snapshot[n] \in Snapshot /\ r.snap = snapshot[n]
    <2>1. snapshot[n] \in Snapshot
        BY <1>4 DEF Post, ThreadState, SenderOK
    <2>2. \/ net' = net
          \/ net' = net \cup {[from |-> n, token |-> docs[n].secret,
                               snap |-> snapshot[n], live |-> TRUE]}
        BY <1>4 DEF Post
    <2> QED BY <2>1, <2>2
<1>5. ASSUME NEW n \in Node, Send(n) \/ OutgoingSkip(n), ~Post(n) PROVE net' = net
    BY <1>5 DEF Send, OutgoingNone, OutgoingStale, RestampCommit, RestampConflict, OutgoingSkip,
                OutgoingSend, RecordRead, RecordCommit, RecordConflict
<1>6. ASSUME NEW n \in Node, Receive(n) PROVE net' \subseteq net
    BY <1>6 DEF Receive, Deliver, ReceiveRead, ReceiveCommit, ReceiveConflict
<1>7. CASE AdminStep \/ AdminAbort \/ \E m \in net : Lose(m)
    <2>1. net' \subseteq net
        BY <1>7 DEF AdminStep, AdminAbort, Lose
    <2> QED BY <2>1 DEF Same
<1> QED BY <1>1, <1>2, <1>3, <1>4, <1>5, <1>6, <1>7 DEF Next, Same

(* A replica worker handles requests of its peer.                          *)
LEMMA RequestEffect ==
    ASSUME Inv, [Next]_vars, NEW n \in Node, request'[n] # None
    PROVE  \/ request[n] # None /\ Same(request'[n], request[n])
           \/ \E m \in net : m.from = Peer[n] /\ request'[n] = m
<1> USE DEF Inv
<1>0. request \in [Node -> Request \cup {None}] /\ net \subseteq Request
    BY DEF TypeOK
<1>k. ASSUME request'[n] = request[n]
      PROVE  request[n] # None /\ Same(request'[n], request[n])
    BY <1>k DEF Same
<1>1. CASE UNCHANGED vars
    BY <1>1, <1>k DEF vars
<1>2. ASSUME NEW m \in Node, Crash(m) \/ Timeout(m)
      PROVE  request[n] # None /\ Same(request'[n], request[n])
    <2>1. request'[n] \in {None, request[n], orphan(m, request[n])}
        BY <1>0, <1>2 DEF Crash, Timeout, OrphanRequests
    <2>2. request[n] # None
        BY <2>1 DEF orphan
    <2> QED BY <1>0, <2>1, <2>2, OrphanSame, <1>k
<1>3. ASSUME NEW m \in Node, Mutate(m) \/ (Environment(m) /\ ~Crash(m)) PROVE request' = request
    BY <1>3 DEF Mutate, Environment, MutateBegin, MutateRetry, MutateCommit, MutateConflict,
                SwitchActive, Pair, PutHaConfig, Unpair
<1>4. ASSUME NEW m \in Node, Send(m) \/ OutgoingSkip(m) PROVE request' = request
    BY <1>4 DEF Send, OutgoingNone, OutgoingStale, RestampCommit, RestampConflict, OutgoingSkip,
                OutgoingSend, Post, RecordRead, RecordCommit, RecordConflict
<1>5. ASSUME NEW k \in Node, Receive(k)
      PROVE  \/ request'[n] = request[n]
             \/ \E m \in net : m.from = Peer[n] /\ request'[n] = m
    <2>1. ASSUME NEW m \in net, Deliver(k, m)
          PROVE  request'[n] = request[n] \/ (m.from = Peer[n] /\ request'[n] = m)
        BY <1>0, <2>1 DEF Deliver
    <2>2. ASSUME ReceiveRead(k) \/ ReceiveCommit(k) \/ ReceiveConflict(k)
          PROVE  request'[n] = request[n] \/ request'[n] = None
        BY <1>0, <2>2 DEF ReceiveRead, ReceiveCommit, ReceiveConflict, EndRequest
    <2> QED BY <1>5, <2>1, <2>2 DEF Receive
<1>6. CASE AdminStep \/ AdminAbort \/ \E m \in net : Lose(m)
    <2>1. request' = request
        BY <1>6 DEF AdminStep, AdminAbort, Lose
    <2> QED BY <1>k, <2>1
<1> QED BY <1>1, <1>2, <1>3, <1>4, <1>5, <1>6, <1>k DEF Next

-----------------------------------------------------------------------------
(* Provenance.                                                             *)

(* An acknowledgement or an HA write leaves the receipt as it is.          *)
LEMMA SameReceipt ==
    ASSUME Inv, NEW n \in Node, Keeps(n) \/ Records(n)
    PROVE  /\ docs'[n].sync.source = docs[n].sync.source
           /\ docs'[n].sync.pairing_id = docs[n].sync.pairing_id
           /\ receipt(docs'[n].sync) = receipt(docs[n].sync)
<1>1. docs[n].sync \in SyncState
    BY DEF Inv, TypeOK, Documents
<1>2. CASE Keeps(n)
    BY <1>2 DEF Keeps
<1>3. CASE Records(n)
    BY <1>1, <1>3 DEF Records, recorded, receipt, SyncState
<1> QED BY <1>2, <1>3

(* What ReceiveCommit installs has the receipt of the snapshot.            *)
LEMMA InstalledReceipt ==
    ASSUME NEW n \in Node, Installs(n)
    PROVE  /\ docs'[n].sync.source = Peer[n]
           /\ docs'[n].sync.pairing_id = docs[n].secret
           /\ receipt(docs'[n].sync) = receipt(request[n].snap)
           /\ ~docs'[n].sync.pending
BY DEF Installs, refused, receipt

(* Initially nothing is held, sent or in flight.                           *)
LEMMA ProvenanceInit == Init => Provenance
<1> SUFFICES ASSUME Init PROVE Provenance
    OBVIOUS
<1>1. \A n \in Node : docs[n].sync.source = NoNode
    BY InitContent
<1>2. \A n \in Node : snapshot[n] = None /\ request[n] = None
    BY DEF Init
<1>3. net = {}
    BY DEF Init
<1> QED BY <1>1, <1>2, <1>3, PairAssumption DEF Provenance

(* Every step keeps the provenance of cursors and snapshots.               *)
LEMMA ProvenanceStep ==
    ASSUME Inv, Provenance, [Next]_vars
    PROVE  Provenance'
<1>0. \A n \in Node : authored[n] \subseteq authored'[n]
    BY HistoryGrows
<1>p. \A n \in Node : Peer[n] \in Node /\ Peer[n] # n
    BY PairAssumption
<1>1. ASSUME NEW n \in Node
      PROVE  /\ docs'[n].sync.source = n => receipt(docs'[n].sync) \in authored'[n]
             /\ docs'[n].sync.source = Peer[n] => receipt(docs'[n].sync) \in authored'[Peer[n]]
    <2>1. CASE Keeps(n) \/ Records(n)
        BY <1>0, <1>p, <2>1, SameReceipt DEF Provenance
    <2>2. CASE Edits(n) \/ Restamps(n)
        <3>1. docs'[n].sync.source = n /\ receipt(docs'[n].sync) \in authored'[n]
            BY <2>2, LocalVersion DEF Edits, Restamps
        <3> QED BY <1>p, <3>1
    <2>3. CASE Installs(n)
        <3>1. request[n] # None
            BY <2>3, NoneAssumption DEF Installs
        <3> QED BY <1>0, <1>p, <2>3, <3>1, InstalledReceipt DEF Provenance
    <2> QED BY <2>1, <2>2, <2>3, StepEffect DEF Effect
<1>2. ASSUME NEW n \in Node, snapshot'[n] # None PROVE receipt(snapshot'[n]) \in authored'[n]
    <2>1. CASE snapshot'[n] = snapshot[n]
        BY <1>0, <1>2, <2>1 DEF Provenance
    <2>2. CASE /\ Scope(n, docs[n]) = "Master" /\ ~stale_cursor(n, docs[n])
               /\ snapshot'[n] = make_snapshot(n, docs[n])
        <3>1. docs[n].sync.source = n
            BY <2>2 DEF stale_cursor
        <3>2. receipt(snapshot'[n]) = receipt(docs[n].sync)
            BY <2>2 DEF make_snapshot, receipt
        <3> QED BY <1>0, <3>1, <3>2 DEF Provenance
    <2> QED BY <1>2, <2>1, <2>2, SnapshotEffect
<1>3. ASSUME NEW r \in net' PROVE receipt(r.snap) \in authored'[r.from]
    <2>0. snapshot \in [Node -> Snapshot \cup {None}] /\ net \subseteq Request
        BY DEF Inv, TypeOK
    <2>1. CASE \E m \in net : Same(r, m)
        <3>1. PICK m \in net : Same(r, m)
            BY <2>1
        <3>2. m.from \in Node
            BY <2>0 DEF Request
        <3> QED BY <1>0, <3>1, <3>2 DEF Provenance, Same
    <2>2. ASSUME NEW n \in Node, r.from = n, snapshot[n] # None, r.snap = snapshot[n]
          PROVE  receipt(r.snap) \in authored'[r.from]
        BY <1>0, <2>2 DEF Provenance
    <2> QED BY <2>1, <2>2, NetEffect, NoneAssumption
<1>4. ASSUME NEW n \in Node, request'[n] # None
      PROVE  request'[n].from = Peer[n] /\ receipt(request'[n].snap) \in authored'[Peer[n]]
    BY <1>0, <1>p, <1>4, RequestEffect DEF Provenance, Same
<1> QED BY <1>1, <1>2, <1>3, <1>4 DEF Provenance

-----------------------------------------------------------------------------
(* Receipts.                                                               *)

(* An answer of what was applied reaches only the request's sender.        *)
LEMMA RespondReceipt ==
    ASSUME Inv, NEW n \in Node, NEW k \in Node, NEW r, request[k].from = Peer[k],
           Respond(request[k], r), r \in {Failed} \cup applied'[k],
           reply'[n] \notin {None, Failed}
    PROVE  reply'[n] = reply[n] \/ reply'[n] \in applied'[Peer[n]]
<1>1. Peer[Peer[k]] = k /\ Peer[k] \in Node /\ reply \in [Node -> Receipt \cup {None, Failed}]
    BY PairAssumption DEF Inv, TypeOK
<1>2. CASE ~request[k].live
    BY <1>2 DEF Respond
<1>3. CASE request[k].live
    <2>1. reply' = [reply EXCEPT ![Peer[k]] = r]
        BY <1>3 DEF Respond
    <2>2. CASE n = Peer[k]
        BY <1>1, <2>1, <2>2
    <2>3. CASE n # Peer[k]
        BY <1>1, <2>1, <2>3
    <2> QED BY <2>2, <2>3
<1> QED BY <1>2, <1>3

(* Where a new receipt in reply comes from.                                *)
LEMMA ReplyEffect ==
    ASSUME Inv, Provenance, Receipts, [Next]_vars, NEW n \in Node, reply'[n] \notin {None, Failed}
    PROVE  reply'[n] = reply[n] \/ reply'[n] \in applied'[Peer[n]]
<1>0. reply \in [Node -> Receipt \cup {None, Failed}]
    BY DEF Inv, TypeOK
<1>1. CASE UNCHANGED vars
    BY <1>1 DEF vars
<1>2. ASSUME NEW m \in Node, Mutate(m) \/ Environment(m) PROVE reply'[n] = reply[n]
    BY <1>0, <1>2 DEF Mutate, Environment, MutateBegin, MutateRetry, MutateCommit, MutateConflict,
                SwitchActive, Pair, PutHaConfig, Unpair, Crash
<1>3. ASSUME NEW m \in Node, Send(m) \/ OutgoingSkip(m) \/ Timeout(m) PROVE reply'[n] = reply[n]
    BY <1>0, <1>3 DEF Send, OutgoingNone, OutgoingStale, RestampCommit, RestampConflict, OutgoingSkip,
                OutgoingSend, Post, RecordRead, RecordCommit, RecordConflict, Timeout, EndRound
<1>4. ASSUME NEW k \in Node, Receive(k)
      PROVE  reply'[n] = reply[n] \/ reply'[n] \in applied'[Peer[n]]
    <2>r. ASSUME pc[k][Receiver] # "idle"
          PROVE  request[k].from = Peer[k] /\ request[k].snap \in Snapshot
        BY <2>r, NoneAssumption DEF Inv, ThreadState, ReceiverOK, Provenance, Request
    <2>1. ASSUME NEW m \in net, Deliver(k, m) PROVE reply'[n] = reply[n]
        BY <1>0, <2>1 DEF Deliver, Respond
    <2>2. CASE ReceiveRead(k)
        <3> DEFINE s == request[k].snap
        <3>0. request[k].from = Peer[k] /\ s \in Snapshot /\ applied' = applied
            BY <2>2, <2>r DEF ReceiveRead
        <3>1. CASE Respond(request[k], Failed)
            BY <3>0, <3>1, RespondReceipt
        <3>2. CASE ~refused(k, docs[k], s) /\ duplicate(docs[k], s) /\ Respond(request[k], receipt(s))
            <4>1. docs[k].sync.source = Peer[k] /\ receipt(docs[k].sync) = receipt(s)
                BY <3>2 DEF refused, duplicate, conflicting, same_pair, receipt
            <4>2. receipt(s) \in applied'[k]
                BY <3>0, <4>1 DEF Receipts
            <4> QED BY <3>0, <3>2, <4>2, RespondReceipt
        <3>3. CASE reply' = reply
            BY <3>3
        <3> QED BY <2>2, <3>1, <3>2, <3>3 DEF ReceiveRead, EndRequest
    <2>3. CASE ReceiveCommit(k)
        <3>0. request[k].from = Peer[k]
            BY <2>3, <2>r DEF ReceiveCommit
        <3>1. Respond(request[k], receipt(request[k].snap))
                /\ receipt(request[k].snap) \in applied'[k]
            BY <2>3 DEF ReceiveCommit, EndRequest, Inv, TypeOK
        <3> QED BY <3>0, <3>1, RespondReceipt
    <2>4. CASE ReceiveConflict(k)
        <3>0. request[k].from = Peer[k]
            BY <2>4, <2>r DEF ReceiveConflict
        <3> QED BY <2>4, <3>0, RespondReceipt DEF ReceiveConflict, EndRequest
    <2> QED BY <1>4, <2>1, <2>2, <2>3, <2>4 DEF Receive
<1>5. CASE AdminStep \/ AdminAbort \/ \E m \in net : Lose(m)
    BY <1>5 DEF AdminStep, AdminAbort, Lose
<1> QED BY <1>1, <1>2, <1>3, <1>4, <1>5 DEF Next

(* Every step keeps the meaning of receipts.                               *)
LEMMA ReceiptsStep ==
    ASSUME Inv, Provenance, Receipts, [Next]_vars
    PROVE  Receipts'
<1>p. \A n \in Node : Peer[n] \in Node /\ Peer[n] # n
    BY PairAssumption
<1>0. \A n \in Node : applied[n] \subseteq applied'[n]
    BY HistoryGrows
<1>1. ASSUME NEW n \in Node, docs'[n].sync.source = Peer[n]
      PROVE  receipt(docs'[n].sync) \in applied'[n]
    <2>1. CASE Keeps(n) \/ Records(n)
        BY <1>0, <1>1, <2>1, SameReceipt DEF Receipts
    <2>2. CASE Edits(n) \/ Restamps(n)
        BY <1>1, <1>p, <2>2, LocalVersion DEF Edits, Restamps
    <2>3. CASE Installs(n)
        BY <2>3, InstalledReceipt DEF Installs
    <2> QED BY <2>1, <2>2, <2>3, StepEffect DEF Effect
<1>2. ASSUME NEW n \in Node, reply'[n] \notin {None, Failed}
      PROVE  reply'[n] \in applied'[Peer[n]]
    BY <1>0, <1>2, <1>p, ReplyEffect DEF Receipts
<1> QED BY <1>1, <1>2 DEF Receipts

-----------------------------------------------------------------------------
(* Session tokens.                                                         *)

(* Steps other than those of pairing and unpairing.                        *)
LEMMA SecretKept ==
    ASSUME Inv, [Next]_vars, ~AdminStep, \A n \in Node : ~Unpair(n) /\ \A t \in Token : ~Pair(n, t)
    PROVE  /\ admin' \in {admin, <<>>} /\ used' = used
           /\ \A n \in Node : docs'[n].secret = docs[n].secret
<1>0. docs \in [Node -> Documents]
    BY DEF Inv, TypeOK
<1>1. CASE UNCHANGED vars
    BY <1>1 DEF vars
<1>2. ASSUME NEW m \in Node, Mutate(m)
      PROVE  admin' = admin /\ used' = used /\ \A n \in Node : docs'[n].secret = docs[n].secret
    BY <1>0, <1>2 DEF Mutate, MutateRetry, MutateCommit, MutateConflict, Documents
<1>3. ASSUME NEW m \in Node, Send(m) \/ OutgoingSkip(m) \/ Timeout(m)
      PROVE  admin' = admin /\ used' = used /\ \A n \in Node : docs'[n].secret = docs[n].secret
    <2>1. CASE RestampCommit(m) \/ RecordCommit(m)
        BY <1>0, <2>1 DEF RestampCommit, RecordCommit, Documents
    <2>2. CASE docs' = docs /\ admin' = admin /\ used' = used
        BY <2>2
    <2> QED BY <1>3, <2>1, <2>2 DEF Send, OutgoingNone, OutgoingStale, RestampConflict, OutgoingSkip,
                OutgoingSend, Post, RecordRead, RecordConflict, Timeout
<1>4. ASSUME NEW m \in Node, Receive(m)
      PROVE  admin' = admin /\ used' = used /\ \A n \in Node : docs'[n].secret = docs[n].secret
    <2>1. CASE ReceiveCommit(m)
        BY <1>0, <2>1 DEF ReceiveCommit, Documents
    <2>2. CASE docs' = docs /\ admin' = admin /\ used' = used
        BY <2>2
    <2> QED BY <1>4, <2>1, <2>2 DEF Receive, Deliver, ReceiveRead, ReceiveConflict
<1>5. ASSUME NEW m \in Node, Environment(m)
      PROVE  /\ admin' \in {admin, <<>>} /\ used' = used
             /\ \A n \in Node : docs'[n].secret = docs[n].secret
    <2>1. ASSUME NEW g \in {m, Peer[m]}, SwitchActive(m, g)
          PROVE  admin' = admin /\ used' = used /\ \A n \in Node : docs'[n].secret = docs[n].secret
        BY <1>0, <2>1 DEF SwitchActive, Put, Documents
    <2>2. CASE PutHaConfig(m)
        BY <1>0, <2>2 DEF PutHaConfig, Put, Documents
    <2>3. CASE docs' = docs /\ admin' \in {admin, <<>>} /\ used' = used
        BY <2>3
    <2> QED BY <1>5, <2>1, <2>2, <2>3 DEF Environment, MutateBegin, Crash
<1>6. CASE AdminAbort \/ \E m \in net : Lose(m)
    BY <1>6 DEF AdminAbort, Lose
<1> QED BY <1>1, <1>2, <1>3, <1>4, <1>5, <1>6 DEF Next

(* A snapshot is taken in the pairing of the cursor.                       *)
LEMMA NewSnapshotPairing ==
    ASSUME NEW n \in Node, NEW d \in Documents, Scope(n, d) = "Master", ~stale_cursor(n, d)
    PROVE  /\ make_snapshot(n, d).pairing_id = d.secret
           /\ d.sync.pairing_id = d.secret
           /\ d.secret # NoToken
<1>1. d.ha \in BOOLEAN /\ d.secret # NoToken
    BY DEF Scope, Documents
<1>2. d.sync.pairing_id = d.secret
    BY DEF stale_cursor
<1> QED BY <1>1, <1>2 DEF make_snapshot

(* Initially only tokens handed out are in use.                            *)
LEMMA FreshTokenInit == Init => FreshToken
<1> SUFFICES ASSUME Init PROVE FreshToken
    OBVIOUS
<1>1. ASSUME NEW n \in Node PROVE docs[n].secret \in used \cup {NoToken}
    <2>1. CASE StartPaired
        <3>1. PICK m \in Node, t \in Token :
                  /\ docs = [k \in Node |-> [NoDocuments EXCEPT !.ha = TRUE, !.secret = t,
                                               !.active = IF k \in {m, Peer[m]} THEN m ELSE k]]
                  /\ used = {t}
            BY <2>1 DEF Init, InitDocuments
        <3>2. docs[n] = [NoDocuments EXCEPT !.ha = TRUE, !.secret = t,
                           !.active = IF n \in {m, Peer[m]} THEN m ELSE n]
            BY <3>1
        <3>3. docs[n].secret = t
            BY <3>2 DEF NoDocuments
        <3>4. used = {t}
            BY <3>1
        <3> QED BY <3>3, <3>4
    <2>2. CASE ~StartPaired
        BY <2>2 DEF Init, InitDocuments, NoDocuments
    <2> QED BY <2>1, <2>2
<1>2. admin = <<>> /\ \A n \in Node : snapshot[n] = None
    BY DEF Init
<1> QED BY <1>1, <1>2 DEF FreshToken

(* A pairing writes a token no snapshot has carried yet.                   *)
LEMMA AdminTokens ==
    ASSUME Inv, FreshToken, AdminStep
    PROVE  /\ FreshToken'
           /\ \A n \in Node : docs'[n].secret # docs[n].secret /\ snapshot[n] # None =>
                 docs'[n].secret # snapshot[n].pairing_id
<1> DEFINE w == Head(admin)
<1>0. /\ admin \in Seq(AdminWrite) /\ admin # <<>> /\ admin' = Tail(admin)
      /\ UNCHANGED <<snapshot, used>>
    BY DEF AdminStep, Inv, TypeOK
<1>1. /\ w = admin[1] /\ w \in AdminWrite /\ Len(admin) \in Nat \ {0}
      /\ Len(Tail(admin)) = Len(admin) - 1
      /\ \A i \in 1..Len(Tail(admin)) : Tail(admin)[i] = admin[i + 1]
      /\ \A i \in 1..Len(admin) : admin[i] \in AdminWrite
    BY <1>0
<1>2. w.node \in Node /\ w.key \in {"ha", "active", "secret"} /\ w.secret \in Token \cup {NoToken}
    BY <1>1 DEF AdminWrite
<1>3. ASSUME NEW n \in Node
      PROVE  docs'[n].secret = IF w.key = "secret" /\ w.node = n THEN w.secret ELSE docs[n].secret
    <2>1. docs \in [Node -> Documents] /\ docs[w.node] \in Documents
        BY <1>2 DEF Inv, TypeOK
    <2>2. CASE w.key = "secret"
        <3>1. docs' = [docs EXCEPT ![w.node] = [docs[w.node] EXCEPT !.secret = w.secret]]
            BY <2>2 DEF AdminStep, Put
        <3> QED BY <1>2, <2>1, <2>2, <3>1 DEF Documents
    <2>3. CASE w.key = "ha"
        <3>1. docs' = [docs EXCEPT ![w.node] = [docs[w.node] EXCEPT !.ha = w.ha]]
            BY <2>3 DEF AdminStep, Put
        <3> QED BY <1>2, <2>1, <2>3, <3>1 DEF Documents
    <2>4. CASE w.key = "active"
        <3>1. docs' = [docs EXCEPT ![w.node] = [docs[w.node] EXCEPT !.active = w.active]]
            BY <2>4 DEF AdminStep, Put
        <3> QED BY <1>2, <2>1, <2>4, <3>1 DEF Documents
    <2> QED BY <1>2, <2>2, <2>3, <2>4
<1>4. UnusedAt(w)
    BY <1>1 DEF FreshToken
<1>5. ASSUME NEW i \in 1..Len(admin') PROVE UnusedAt(admin[i])'
    <2>1. admin'[i] = admin[i + 1] /\ i + 1 \in 1..Len(admin) /\ i + 1 # 1
        BY <1>0, <1>1
    <2>2. UnusedAt(admin[i + 1]) /\ admin[i + 1].node \in Node
        BY <1>1, <2>1 DEF FreshToken, AdminWrite
    <2>3. admin[i + 1].key = "secret" => ~(w.key = "secret" /\ w.node = admin[i + 1].node)
        BY <1>1, <2>1 DEF FreshToken
    <2> QED BY <1>0, <1>3, <2>1, <2>2, <2>3 DEF UnusedAt
<1>6. \A i, j \in 1..Len(admin') :
          admin'[i].key = "secret" /\ admin'[j].key = "secret" /\ admin'[i].node = admin'[j].node => i = j
    <2> SUFFICES ASSUME NEW i \in 1..Len(admin'), NEW j \in 1..Len(admin'),
                        admin'[i].key = "secret", admin'[j].key = "secret",
                        admin'[i].node = admin'[j].node
                 PROVE  i = j
        OBVIOUS
    <2>1. /\ admin'[i] = admin[i + 1] /\ i + 1 \in 1..Len(admin)
          /\ admin'[j] = admin[j + 1] /\ j + 1 \in 1..Len(admin)
        BY <1>0, <1>1
    <2>2. i + 1 = j + 1
        BY <2>1 DEF FreshToken
    <2> QED BY <2>2
<1>7. ASSUME NEW n \in Node
      PROVE  /\ docs'[n].secret \in used' \cup {NoToken}
             /\ snapshot'[n] # None => snapshot'[n].pairing_id \in used'
    BY <1>0, <1>2, <1>3, <1>4 DEF FreshToken, UnusedAt
<1>8. ASSUME NEW n \in Node, docs'[n].secret # docs[n].secret, snapshot[n] # None
      PROVE  docs'[n].secret # snapshot[n].pairing_id
    <2>1. w.key = "secret" /\ w.node = n /\ docs'[n].secret = w.secret
        BY <1>3, <1>8
    <2>2. snapshot[n].pairing_id \in used /\ used \subseteq Token
        BY <1>8 DEF FreshToken, Inv, TypeOK
    <2> QED BY <1>4, <1>8, <2>1, <2>2, TokenAssumption DEF UnusedAt
<1> QED BY <1>5, <1>6, <1>7, <1>8 DEF FreshToken

(* A pairing writes its new token once to each of the two gateways.        *)
LEMMA PairTokens ==
    ASSUME Inv, FreshToken, NEW n \in Node, NEW t \in Token, Pair(n, t)
    PROVE  FreshToken'
<1> PICK g \in initial_active_gateway_key(n) : admin' = pair_writes(n, g, t)
    BY DEF Pair
<1> DEFINE v(r, k) == [node |-> r, key |-> k, ha |-> TRUE, active |-> g, secret |-> t]
           p == Peer[n]
<1>0. /\ p \in Node /\ p # n /\ t # NoToken /\ t \notin used /\ used' = used \cup {t}
      /\ UNCHANGED <<docs, snapshot>>
    BY PairAssumption, TokenAssumption DEF Pair
<1>1. admin' = <<v(p, "ha"), v(p, "active"), v(p, "secret"), v(n, "ha"), v(n, "active"), v(n, "secret")>>
    BY DEF pair_writes
<1>2. \A i \in 1..Len(admin') : /\ admin'[i].secret = t /\ admin'[i].node \in {n, p}
                                /\ admin'[i].key = "secret" => i \in {3, 6}
    BY <1>1
<1>3. admin'[3].node = p /\ admin'[6].node = n
    BY <1>1
<1>4. \A i \in 1..Len(admin') : UnusedAt(admin[i])'
    BY <1>0, <1>2 DEF FreshToken, UnusedAt
<1>5. \A i, j \in 1..Len(admin') :
          admin'[i].key = "secret" /\ admin'[j].key = "secret" /\ admin'[i].node = admin'[j].node => i = j
    BY <1>0, <1>2, <1>3
<1> QED BY <1>0, <1>4, <1>5 DEF FreshToken

(* Unpairing writes no token.                                              *)
LEMMA UnpairTokens ==
    ASSUME Inv, FreshToken, NEW n \in Node, Unpair(n)
    PROVE  FreshToken'
<1> DEFINE v(k) == [node |-> n, key |-> k, ha |-> FALSE, active |-> n, secret |-> NoToken]
<1>0. UNCHANGED <<docs, snapshot, used>> /\ admin' = <<v("ha"), v("secret")>>
    BY DEF Unpair
<1>1. \A i \in 1..Len(admin') : admin'[i].secret = NoToken /\ (admin'[i].key = "secret" => i = 2)
    BY <1>0
<1> QED BY <1>0, <1>1 DEF FreshToken, UnusedAt

(* Every step keeps FreshToken.                                            *)
LEMMA FreshTokenStep ==
    ASSUME Inv, FreshToken, [Next]_vars
    PROVE  FreshToken'
<1>1. CASE AdminStep
    BY <1>1, AdminTokens
<1>2. CASE \E n \in Node : Unpair(n) \/ \E t \in Token : Pair(n, t)
    BY <1>2, PairTokens, UnpairTokens
<1>3. CASE ~AdminStep /\ \A n \in Node : ~Unpair(n) /\ \A t \in Token : ~Pair(n, t)
    <2>1. /\ admin' \in {admin, <<>>} /\ used' = used
          /\ \A n \in Node : docs'[n].secret = docs[n].secret
        BY <1>3, SecretKept
    <2>2. ASSUME NEW n \in Node, snapshot'[n] # None
          PROVE  \/ snapshot[n] # None /\ snapshot'[n] = snapshot[n]
                 \/ snapshot'[n].pairing_id = docs[n].secret /\ docs[n].secret # NoToken
        <3>1. docs[n] \in Documents
            BY DEF Inv, TypeOK
        <3> QED BY <2>2, <3>1, SnapshotEffect, NewSnapshotPairing
    <2>3. ASSUME NEW i \in 1..Len(admin') PROVE UnusedAt(admin[i])'
        <3>1. i \in 1..Len(admin) /\ admin'[i] = admin[i]
            BY <2>1
        <3>2. admin \in Seq(AdminWrite)
            BY DEF Inv, TypeOK
        <3>3. admin[i] \in AdminWrite
            BY <3>1, <3>2
        <3>4. UnusedAt(admin[i]) /\ admin[i].node \in Node
            BY <3>1, <3>3 DEF FreshToken, AdminWrite
        <3> QED BY <2>1, <2>2, <3>1, <3>4 DEF UnusedAt
    <2>4. \A i, j \in 1..Len(admin') :
              admin'[i].key = "secret" /\ admin'[j].key = "secret" /\ admin'[i].node = admin'[j].node
                  => i = j
        BY <2>1 DEF FreshToken
    <2>5. \A n \in Node : /\ docs'[n].secret \in used' \cup {NoToken}
                          /\ snapshot'[n] # None => snapshot'[n].pairing_id \in used'
        BY <2>1, <2>2 DEF FreshToken
    <2> QED BY <2>3, <2>4, <2>5 DEF FreshToken
<1> QED BY <1>1, <1>2, <1>3

(* A new token is never that of the version being sent.                    *)
LEMMA SecretEffect ==
    ASSUME Inv, FreshToken, [Next]_vars, NEW n \in Node, snapshot[n] # None,
           docs'[n].secret # docs[n].secret
    PROVE  docs'[n].secret # snapshot[n].pairing_id
<1>1. CASE AdminStep
    BY <1>1, AdminTokens
<1>2. CASE \E m \in Node : Unpair(m) \/ \E t \in Token : Pair(m, t)
    BY <1>2 DEF Unpair, Pair
<1>3. CASE ~AdminStep /\ \A m \in Node : ~Unpair(m) /\ \A t \in Token : ~Pair(m, t)
    BY <1>3, SecretKept
<1> QED BY <1>1, <1>2, <1>3

(* A commit leaves the pairing of the cursor, or sets it to the current    *)
(* pairing or to none.                                                     *)
LEMMA PairingEffect ==
    ASSUME Inv, [Next]_vars, NEW n \in Node
    PROVE  docs'[n].sync.pairing_id \in {docs[n].sync.pairing_id, docs[n].secret, NoToken}
<1>1. CASE Keeps(n) \/ Records(n)
    BY <1>1, SameReceipt
<1>2. CASE Edits(n) \/ Restamps(n)
    BY <1>2, LocalVersion DEF Edits, Restamps
<1>3. CASE Installs(n)
    BY <1>3, InstalledReceipt
<1> QED BY <1>1, <1>2, <1>3, StepEffect DEF Effect

(* Every step keeps SamePairing.                                           *)
LEMMA SamePairingStep ==
    ASSUME Inv, FreshToken, SamePairing, [Next]_vars
    PROVE  SamePairing'
<1> SUFFICES ASSUME NEW n \in Node, snapshot'[n] # None,
                    docs'[n].secret = snapshot'[n].pairing_id,
                    docs'[n].sync.pairing_id # NoToken
             PROVE  docs'[n].sync.pairing_id = snapshot'[n].pairing_id
    BY DEF SamePairing
<1>1. CASE snapshot'[n] = snapshot[n]
    <2>1. docs'[n].secret = docs[n].secret
        BY <1>1, SecretEffect
    <2> QED BY <1>1, <2>1, PairingEffect DEF SamePairing
<1>2. CASE /\ Scope(n, docs[n]) = "Master" /\ ~stale_cursor(n, docs[n]) /\ docs' = docs
           /\ snapshot'[n] = make_snapshot(n, docs[n])
    BY <1>2, NewSnapshotPairing DEF Inv, TypeOK
<1> QED BY <1>1, <1>2, SnapshotEffect

(* Every step keeps AckedIsReplicated.                                     *)
LEMMA AckedStep ==
    ASSUME Inv, Receipts, SamePairing, AckedIsReplicated, [Next]_vars
    PROVE  AckedIsReplicated'
<1> SUFFICES ASSUME NEW n \in Node, docs'[n].sync.source = n,
                    docs'[n].sync.pairing_id # NoToken, ~docs'[n].sync.pending
             PROVE  receipt(docs'[n].sync) \in applied'[Peer[n]]
    BY DEF AckedIsReplicated, receipt
<1>0. Peer[n] \in Node /\ Peer[n] # n
    BY PairAssumption
<1>g. applied[Peer[n]] \subseteq applied'[Peer[n]]
    BY <1>0, HistoryGrows
<1>1. CASE Keeps(n)
    BY <1>1, <1>g DEF Keeps, AckedIsReplicated
<1>2. CASE Edits(n) \/ Restamps(n)
    <2>1. PICK c : docs'[n].sync = local_version(n, docs[n], c)
        BY <1>2 DEF Edits, Restamps
    <2>2. local_version(n, docs[n], c).pending = (Scope(n, docs[n]) = "Master")
        BY DEF local_version
    <2>3. CASE Scope(n, docs[n]) = "Master"
        <3>1. local_version(n, docs[n], c).pending = TRUE
            BY <2>2, <2>3
        <3> QED BY <2>1, <3>1
    <2>4. CASE Scope(n, docs[n]) # "Master"
        BY <2>1, <2>4, LocalVersion
    <2> QED BY <2>3, <2>4
<1>3. CASE Records(n)
    <2>1. docs[n].sync \in SyncState
        BY DEF Inv, TypeOK, Documents
    <2>2. delivered(n)
        BY <1>3, <2>1 DEF Records, recorded, SyncState
    <2>3. reply[n] = receipt(snapshot[n]) /\ snapshot[n] \in Snapshot
        BY <1>3, <2>2 DEF Records, delivered, matches
    <2>4. reply[n] \in applied[Peer[n]]
        BY <2>3, SnapshotReceipt, NoneAssumption DEF Receipts
    <2>5. docs[n].sync.pairing_id = snapshot[n].pairing_id
        BY <1>3, <2>3, SameReceipt, NoneAssumption DEF Records, still_current, SamePairing
    <2>6. receipt(docs[n].sync) = receipt(snapshot[n])
        BY <1>3, <2>5 DEF Records, still_current, receipt
    <2> QED BY <1>3, <1>g, <2>3, <2>4, <2>6, SameReceipt
<1>4. CASE Installs(n)
    BY <1>0, <1>4, InstalledReceipt
<1> QED BY <1>1, <1>2, <1>3, <1>4, StepEffect DEF Effect

-----------------------------------------------------------------------------
(* What a gateway holds in its peer's name is exactly a version its peer   *)
(* authored, whatever crashed, was re-paired, delayed or delivered twice.  *)
THEOREM Replicas == Spec => []ReplicaIsPeerSnapshot
<1>1. Provenance => ReplicaIsPeerSnapshot
    BY DEF Provenance, ReplicaIsPeerSnapshot
<1>2. Inv /\ Provenance /\ [Next]_vars => Provenance'
    BY ProvenanceStep
<1> QED BY InvInductive, ProvenanceInit, <1>1, <1>2, PTL DEF Spec

(* The pending flag of a version is cleared only when the peer installed   *)
(* that very version, in that pairing: a late, lost or duplicated answer,  *)
(* a crash, a failover or a re-pairing in between never acknowledges       *)
(* another one.                                                            *)
THEOREM Acknowledged == Spec => []AckedIsReplicated
<1> DEFINE AInv == Provenance /\ Receipts /\ FreshToken /\ SamePairing /\ AckedIsReplicated
<1>1. Init => AInv
    <2> SUFFICES ASSUME Init PROVE AInv
        OBVIOUS
    <2>1. \A n \in Node : docs[n].sync.source = NoNode /\ Peer[n] \in Node
        BY InitContent, PairAssumption
    <2>2. \A n \in Node : snapshot[n] = None /\ reply[n] = None
        BY DEF Init
    <2>3. Receipts
        BY <2>1, <2>2, PairAssumption DEF Receipts
    <2>4. SamePairing
        BY <2>2 DEF SamePairing
    <2>5. AckedIsReplicated
        BY <2>1, PairAssumption DEF AckedIsReplicated
    <2> QED BY <2>3, <2>4, <2>5, ProvenanceInit, FreshTokenInit
<1>2. Inv /\ AInv /\ [Next]_vars => AInv'
    <2> SUFFICES ASSUME Inv, AInv, [Next]_vars PROVE AInv'
        OBVIOUS
    <2> QED BY ProvenanceStep, ReceiptsStep, FreshTokenStep, SamePairingStep, AckedStep
<1>3. AInv => AckedIsReplicated
    OBVIOUS
<1> QED BY InvInductive, <1>1, <1>2, <1>3, PTL DEF Spec

-----------------------------------------------------------------------------
(* The sequence stays in the range of u64, here 0..MaxSequence.            *)
WithinRange ==
    /\ \A n \in Node :
          /\ docs[n].sync.sequence <= MaxSequence
          /\ snapshot[n] # None => snapshot[n].sequence <= MaxSequence
          /\ request[n] # None => request[n].snap.sequence <= MaxSequence
    /\ \A m \in net : m.snap.sequence <= MaxSequence

(* A local version follows a sequence that is not the last one.            *)
LEMMA NextSequence ==
    ASSUME Inv, NEW n \in Node, Edits(n) \/ Restamps(n), docs[n].sync.sequence <= MaxSequence
    PROVE  /\ docs[n].sync.sequence < MaxSequence
           /\ docs'[n].sync.sequence = docs[n].sync.sequence + 1
<1>0. docs[n].sync.sequence \in Nat /\ MaxSequence \in Nat
    BY BoundAssumption DEF Inv, TypeOK, Documents, SyncState
<1>1. docs[n].sync.sequence < MaxSequence
    BY <1>0 DEF Edits, Restamps, nothing_to_commit
<1>2. PICK c : docs'[n].sync = local_version(n, docs[n], c)
    BY DEF Edits, Restamps
<1> QED BY <1>1, <1>2, LocalVersion

(* Every step keeps cursors and snapshots in range.                        *)
LEMMA WithinRangeStep ==
    ASSUME Inv, WithinRange, [Next]_vars
    PROVE  WithinRange'
<1>1. ASSUME NEW n \in Node PROVE docs'[n].sync.sequence <= MaxSequence
    <2>0. docs[n].sync.sequence \in Nat /\ MaxSequence \in Nat
        BY BoundAssumption DEF Inv, TypeOK, Documents, SyncState
    <2>1. CASE Keeps(n) \/ Records(n)
        <3>1. docs'[n].sync.sequence = docs[n].sync.sequence
            BY <2>1, SameReceipt DEF receipt
        <3> QED BY <3>1 DEF WithinRange
    <2>2. CASE Edits(n) \/ Restamps(n)
        BY <2>0, <2>2, NextSequence DEF WithinRange
    <2>3. CASE Installs(n)
        BY <2>3, NoneAssumption DEF Installs, WithinRange
    <2> QED BY <2>1, <2>2, <2>3, StepEffect DEF Effect
<1>2. ASSUME NEW n \in Node, snapshot'[n] # None PROVE snapshot'[n].sequence <= MaxSequence
    <2>1. CASE snapshot'[n] = snapshot[n]
        BY <1>2, <2>1 DEF WithinRange
    <2>2. CASE snapshot'[n] = make_snapshot(n, docs[n])
        <3>1. snapshot'[n].sequence = docs[n].sync.sequence
            BY <2>2 DEF make_snapshot
        <3> QED BY <3>1 DEF WithinRange
    <2> QED BY <1>2, <2>1, <2>2, SnapshotEffect
<1>3. ASSUME NEW r \in net' PROVE r.snap.sequence <= MaxSequence
    BY <1>3, NetEffect, NoneAssumption DEF WithinRange, Same
<1>4. ASSUME NEW n \in Node, request'[n] # None PROVE request'[n].snap.sequence <= MaxSequence
    BY <1>4, RequestEffect DEF WithinRange, Same
<1> QED BY <1>1, <1>2, <1>3, <1>4 DEF WithinRange

(* No write and no restamp goes on from the last sequence: nothing wraps   *)
(* around, and only a version of another pairing, installed from the peer, *)
(* replaces the last one.                                                  *)
THEOREM Final == Spec => LastSequenceIsFinal
<1>1. Init => WithinRange
    <2> SUFFICES ASSUME Init PROVE WithinRange
        OBVIOUS
    <2>1. \A n \in Node : docs[n].sync.sequence = 0
        BY InitContent
    <2>2. net = {} /\ \A n \in Node : snapshot[n] = None /\ request[n] = None
        BY DEF Init
    <2> QED BY <2>1, <2>2, BoundAssumption DEF WithinRange
<1>2. Inv /\ WithinRange /\ [Next]_vars => WithinRange'
    BY WithinRangeStep
<1>3. ASSUME Inv, WithinRange, [Next]_vars, NEW n \in Node,
             docs[n].sync.sequence = MaxSequence,
             version(docs'[n].sync) # version(docs[n].sync)
      PROVE  docs'[n].sync.source = Peer[n] /\ docs'[n].sync.pairing_id # docs[n].sync.pairing_id
    <2>0. MaxSequence \in Nat
        BY BoundAssumption
    <2>1. Installs(n)
        BY <1>3, <2>0, StepEffect, SameVersion, NextSequence DEF Effect
    <2>2. /\ docs'[n].sync.source = Peer[n]
          /\ docs'[n].sync.pairing_id = request[n].snap.pairing_id
        BY <2>1 DEF Installs, refused
    <2>3. request[n].snap.sequence \in Nat /\ request[n].snap.sequence <= MaxSequence
        BY <1>3, <2>1, NoneAssumption DEF Installs, Snapshot, WithinRange
    <2>4. ~same_pair(docs[n], request[n].snap)
        BY <1>3, <2>0, <2>1, <2>3 DEF Installs, refused, duplicate
    <2> QED BY <2>2, <2>4 DEF same_pair
<1>4. Inv /\ WithinRange /\ [Next]_vars => [\A n \in Node : FinalStep(n)]_vars
    BY <1>3 DEF FinalStep
<1> QED BY <1>1, <1>2, <1>4, InvInductive, PTL DEF Spec, LastSequenceIsFinal
=============================================================================
